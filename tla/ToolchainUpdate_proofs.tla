----------------------- MODULE ToolchainUpdate_proofs -----------------------
(***************************************************************************)
(* The second library: what the descriptor keeps through every call, what  *)
(* its layout guarantees, and that a file it writes is read back.          *)
(***************************************************************************)
EXTENDS ToolchainUpdate, SequenceTheorems, WellFoundedInduction, TLAPS

-----------------------------------------------------------------------------
(***************************************************************************)
(* The extent list of elf_update: the search refuses an extent exactly     *)
(* when it shares a byte with one of the list, and a list in order stays   *)
(* in order, with one element more.                                        *)
(***************************************************************************)
Apart(x, y) == Before(x, y) \/ Before(y, x)

Elements(xs) == {xs[i] : i \in DOMAIN xs}

LEMMA LeastNatural ==
  ASSUME NEW B \in SUBSET Nat, B # {}
  PROVE  \E m \in B : \A n \in B : m <= n
  <1>1. PICK m \in B : \A n \in B : <<n, m>> \notin OpToRel(<, Nat)
    BY NatLessThanWellFounded, WFMin
  <1>2. ASSUME NEW n \in B, n < m
        PROVE  FALSE
    <2>1. <<n, m>> \in Nat \X Nat /\ <<n, m>>[1] < <<n, m>>[2]
      BY <1>2
    <2>2. <<n, m>> \in OpToRel(<, Nat)
      BY <2>1 DEF OpToRel
    <2> QED BY <1>1, <2>2
  <1> QED BY <1>2

LEMMA ExtentFact ==
  ASSUME NEW x \in Extent
  PROVE  x.ex_start \in Nat /\ EndOf(x) \in Nat /\ x.ex_start < EndOf(x)
  BY DEF Extent, EndOf

LEMMA ElementFact ==
  ASSUME NEW xs \in Seq(Extent), NEW i \in DOMAIN xs
  PROVE  /\ xs[i] \in Extent /\ EndOf(xs[i]) \in Nat
         /\ xs[i].ex_start \in Nat /\ xs[i].ex_start < EndOf(xs[i])
  <1>1. xs[i] \in Extent
    OBVIOUS
  <1> QED BY <1>1, ExtentFact

\* The extents the search passes are those before the first that ends
\* behind start; there is such a number of extents for every list.
LEMMA PassedFact ==
  ASSUME NEW xs \in Seq(Extent), NEW start \in Nat
  PROVE  /\ Passed(xs, start) \in 0 .. Len(xs)
         /\ \A i \in 1 .. Passed(xs, start) : EndOf(xs[i]) <= start
         /\ Passed(xs, start) < Len(xs) => EndOf(xs[Passed(xs, start) + 1]) > start
  <1> DEFINE Ends(n) == /\ \A i \in 1 .. n : EndOf(xs[i]) <= start
                        /\ n < Len(xs) => EndOf(xs[n + 1]) > start
             B == {i \in 1 .. Len(xs) : EndOf(xs[i]) > start}
  <1>0. \A i \in 1 .. Len(xs) : EndOf(xs[i]) \in Nat
    BY ElementFact
  <1>1. \E n \in 0 .. Len(xs) : Ends(n)
    <2>1. CASE B = {}
      <3>1. Ends(Len(xs))
        BY <1>0, <2>1
      <3> QED BY <3>1
    <2>2. CASE B # {}
      <3>1. PICK m \in B : \A n \in B : m <= n
        <4>1. B \in SUBSET Nat /\ B # {}
          BY <2>2
        <4> HIDE DEF B
        <4> QED BY <4>1, LeastNatural
      <3>2. m - 1 \in 0 .. Len(xs) /\ Ends(m - 1)
        BY <1>0, <3>1
      <3> QED BY <3>2
    <2> QED BY <2>1, <2>2
  <1>2. Passed(xs, start) = CHOOSE n \in 0 .. Len(xs) : Ends(n)
    BY DEF Passed
  <1>3. Passed(xs, start) \in 0 .. Len(xs) /\ Ends(Passed(xs, start))
    BY <1>1, <1>2
  <1> QED BY <1>3

\* _libelf_insert_extent refuses an extent exactly when one of the list
\* shares a byte with it: to look at the first extent that ends behind its
\* start is enough, as the list is in order.
THEOREM RefusedIfShared ==
  ASSUME NEW xs \in Seq(Extent), Ordered(xs), NEW x \in Extent
  PROVE  Unused(xs, x) <=> \A i \in DOMAIN xs : Apart(xs[i], x)
  <1> DEFINE n == Passed(xs, x.ex_start)
  <1>0. x.ex_start \in Nat /\ EndOf(x) \in Nat /\ x.ex_start < EndOf(x)
    BY ExtentFact
  <1>1. /\ n \in 0 .. Len(xs)
        /\ \A i \in 1 .. n : EndOf(xs[i]) <= x.ex_start
        /\ n < Len(xs) => EndOf(xs[n + 1]) > x.ex_start
    BY <1>0, PassedFact
  <1>2. Unused(xs, x) <=> (n = Len(xs) \/ EndOf(x) <= xs[n + 1].ex_start)
    BY DEF Unused
  <1> HIDE DEF n
  <1>3. ASSUME n = Len(xs) \/ EndOf(x) <= xs[n + 1].ex_start, NEW i \in DOMAIN xs
        PROVE  Apart(xs[i], x)
    <2>1. CASE i <= n
      BY <1>1, <2>1, ElementFact DEF Apart, Before
    <2>2. CASE i > n
      <3>1. n + 1 \in DOMAIN xs /\ EndOf(x) <= xs[n + 1].ex_start
        BY <1>1, <1>3, <2>2
      <3>2. CASE i = n + 1
        BY <3>1, <3>2 DEF Apart, Before
      <3>3. CASE i > n + 1
        <4>1. EndOf(xs[n + 1]) <= xs[i].ex_start
          BY <3>1, <3>3 DEF Ordered, Before
        <4>2. /\ xs[n + 1].ex_start < EndOf(xs[n + 1])
              /\ xs[n + 1].ex_start \in Nat /\ EndOf(xs[n + 1]) \in Nat /\ xs[i].ex_start \in Nat
          BY <3>1, ElementFact
        <4>3. EndOf(x) <= xs[i].ex_start
          BY <1>0, <3>1, <4>1, <4>2
        <4> QED BY <4>3 DEF Apart, Before
      <3> QED BY <1>1, <2>2, <3>2, <3>3
    <2> QED BY <1>1, <2>1, <2>2
  <1>4. ASSUME \A i \in DOMAIN xs : Apart(xs[i], x), n # Len(xs)
        PROVE  EndOf(x) <= xs[n + 1].ex_start
    <2>1. n + 1 \in DOMAIN xs /\ EndOf(xs[n + 1]) > x.ex_start
      BY <1>1, <1>4
    <2>2. Apart(xs[n + 1], x)
      BY <1>4, <2>1
    <2> QED BY <1>0, <2>1, <2>2, ElementFact DEF Apart, Before
  <1> QED BY <1>2, <1>3, <1>4

\* Where each element of the new list comes from.
LEMMA InsertedFact ==
  ASSUME NEW xs \in Seq(Extent), NEW x \in Extent
  PROVE  LET n == Passed(xs, x.ex_start)
         IN  /\ Inserted(xs, x) \in Seq(Extent)
             /\ Len(Inserted(xs, x)) = Len(xs) + 1
             /\ \A i \in 1 .. Len(xs) + 1 :
                  Inserted(xs, x)[i] = IF i <= n THEN xs[i] ELSE IF i = n + 1 THEN x ELSE xs[i - 1]
  <1> DEFINE n == Passed(xs, x.ex_start)
             a == SubSeq(xs, 1, n)
             c == SubSeq(xs, n + 1, Len(xs))
  <1>1. n \in 0 .. Len(xs)
    BY PassedFact DEF Extent
  <1>2. Inserted(xs, x) = a \o << x >> \o c
    BY DEF Inserted
  <1> HIDE DEF n
  <1>3. a \in Seq(Extent) /\ Len(a) = n /\ \A i \in 1 .. n : a[i] = xs[i]
    BY <1>1
  <1>4. /\ c \in Seq(Extent) /\ Len(c) = Len(xs) - n
        /\ \A i \in 1 .. Len(xs) - n : c[i] = xs[n + i]
    BY <1>1
  <1> HIDE DEF a, c
  <1>5. /\ a \o << x >> \in Seq(Extent) /\ Len(a \o << x >>) = n + 1
        /\ \A i \in 1 .. n + 1 : (a \o << x >>)[i] = IF i <= n THEN xs[i] ELSE x
    BY <1>1, <1>3
  <1>6. /\ Inserted(xs, x) \in Seq(Extent) /\ Len(Inserted(xs, x)) = Len(xs) + 1
        /\ \A i \in 1 .. Len(xs) + 1 :
             Inserted(xs, x)[i] = IF i <= n + 1 THEN (a \o << x >>)[i] ELSE c[i - (n + 1)]
    <2>1. PICK b : b = a \o << x >>
      OBVIOUS
    <2>2. b \in Seq(Extent) /\ Len(b) = n + 1 /\ Len(b) + Len(c) = Len(xs) + 1
      BY <1>1, <1>4, <1>5, <2>1
    <2>3. /\ b \o c \in Seq(Extent) /\ Len(b \o c) = Len(xs) + 1
          /\ \A i \in 1 .. Len(xs) + 1 : (b \o c)[i] = IF i <= n + 1 THEN b[i] ELSE c[i - (n + 1)]
      BY ONLY <1>4, <2>2
    <2> QED BY <1>2, <2>1, <2>3
  <1>7. ASSUME NEW i \in 1 .. Len(xs) + 1
        PROVE  Inserted(xs, x)[i] = IF i <= n THEN xs[i] ELSE IF i = n + 1 THEN x ELSE xs[i - 1]
    <2>1. CASE i <= n + 1
      BY <1>1, <1>5, <1>6, <2>1
    <2>2. CASE i > n + 1
      <3>1. i - (n + 1) \in 1 .. Len(xs) - n /\ n + (i - (n + 1)) = i - 1
        BY <1>1, <2>2
      <3>2. c[i - (n + 1)] = xs[i - 1]
        BY <1>4, <3>1
      <3>3. Inserted(xs, x)[i] = c[i - (n + 1)]
        BY <1>1, <1>6, <2>2
      <3>4. ~(i <= n) /\ i # n + 1
        BY <1>1, <2>2
      <3> QED BY <3>2, <3>3, <3>4
    <2> QED BY <1>1, <2>1, <2>2
  <1> QED BY <1>6, <1>7 DEF n

\* A list in order, the header and the tables and sections placed so far,
\* is in order with the extent the search found room for: at no time do two
\* regions of the new file share a byte.
THEOREM InsertKeepsOrder ==
  ASSUME NEW xs \in Seq(Extent), Ordered(xs), NEW x \in Extent, Unused(xs, x)
  PROVE  Ordered(Inserted(xs, x))
  <1> DEFINE n == Passed(xs, x.ex_start)
             ys == Inserted(xs, x)
  <1>0. x.ex_start \in Nat /\ EndOf(x) \in Nat /\ x.ex_start < EndOf(x)
    BY ExtentFact
  <1>1. /\ n \in 0 .. Len(xs)
        /\ \A i \in 1 .. n : EndOf(xs[i]) <= x.ex_start
        /\ n < Len(xs) => EndOf(xs[n + 1]) > x.ex_start
    BY <1>0, PassedFact
  <1>2. /\ ys \in Seq(Extent) /\ Len(ys) = Len(xs) + 1
        /\ \A i \in 1 .. Len(xs) + 1 :
             ys[i] = IF i <= n THEN xs[i] ELSE IF i = n + 1 THEN x ELSE xs[i - 1]
    BY InsertedFact
  <1> HIDE DEF n, ys
  <1>3. \A i \in DOMAIN xs : Apart(xs[i], x)
    BY RefusedIfShared
  <1>4. ASSUME NEW i \in DOMAIN xs, i > n
        PROVE  Before(x, xs[i])
    <2>1. n + 1 \in DOMAIN xs /\ EndOf(xs[n + 1]) > x.ex_start
      BY <1>1, <1>4
    <2>2. EndOf(xs[n + 1]) <= EndOf(xs[i])
      <3>1. CASE i = n + 1
        BY <2>1, <3>1, ElementFact
      <3>2. CASE i > n + 1
        <4>1. EndOf(xs[n + 1]) <= xs[i].ex_start
          BY <2>1, <3>2 DEF Ordered, Before
        <4> QED BY <2>1, <4>1, ElementFact
      <3> QED BY <1>1, <1>4, <3>1, <3>2
    <2>3. EndOf(xs[i]) > x.ex_start
      BY <1>0, <2>1, <2>2, ElementFact
    <2> QED BY <1>0, <1>3, <2>3, ElementFact DEF Apart, Before
  <1>5. ASSUME NEW i \in 1 .. Len(ys), NEW j \in 1 .. Len(ys), i < j
        PROVE  Before(ys[i], ys[j])
    <2>1. CASE j <= n
      BY <1>1, <1>2, <1>5, <2>1 DEF Ordered
    <2>2. CASE j = n + 1
      BY <1>1, <1>2, <1>5, <2>2 DEF Before
    <2>3. CASE j > n + 1 /\ i = n + 1
      <3>1. ys[i] = x /\ ys[j] = xs[j - 1] /\ j - 1 \in DOMAIN xs /\ j - 1 > n
        BY <1>1, <1>2, <2>3
      <3> QED BY <1>4, <3>1
    <2>4. CASE j > n + 1 /\ i <= n
      <3>1. /\ ys[i] = xs[i] /\ ys[j] = xs[j - 1]
            /\ i \in DOMAIN xs /\ j - 1 \in DOMAIN xs /\ i < j - 1
        BY <1>1, <1>2, <2>4
      <3> QED BY <3>1 DEF Ordered
    <2>5. CASE j > n + 1 /\ i > n + 1
      <3>1. /\ ys[i] = xs[i - 1] /\ ys[j] = xs[j - 1]
            /\ i - 1 \in DOMAIN xs /\ j - 1 \in DOMAIN xs /\ i - 1 < j - 1
        BY <1>1, <1>2, <1>5, <2>5
      <3> QED BY <3>1 DEF Ordered
    <2> QED BY <1>1, <2>1, <2>2, <2>3, <2>4, <2>5
  <1>6. DOMAIN ys = 1 .. Len(ys)
    BY <1>2
  <1> QED BY <1>5, <1>6 DEF Ordered, ys

\* Nothing placed before is lost, and nothing else comes in.
THEOREM InsertKeepsElements ==
  ASSUME NEW xs \in Seq(Extent), NEW x \in Extent
  PROVE  Elements(Inserted(xs, x)) = Elements(xs) \cup {x}
  <1> DEFINE n == Passed(xs, x.ex_start)
             ys == Inserted(xs, x)
  <1>1. n \in 0 .. Len(xs)
    BY PassedFact DEF Extent
  <1>2. /\ ys \in Seq(Extent) /\ Len(ys) = Len(xs) + 1
        /\ \A i \in 1 .. Len(xs) + 1 :
             ys[i] = IF i <= n THEN xs[i] ELSE IF i = n + 1 THEN x ELSE xs[i - 1]
    BY InsertedFact
  <1> HIDE DEF n, ys
  <1>3. ASSUME NEW i \in DOMAIN ys
        PROVE  ys[i] \in Elements(xs) \cup {x}
    <2>1. i \in 1 .. Len(xs) + 1
      BY <1>2
    <2>2. CASE i <= n
      <3>1. ys[i] = xs[i] /\ i \in DOMAIN xs
        BY <1>1, <1>2, <2>1, <2>2
      <3> QED BY <3>1 DEF Elements
    <2>3. CASE i = n + 1
      BY <1>1, <1>2, <2>1, <2>3
    <2>4. CASE i > n + 1
      <3>1. ys[i] = xs[i - 1] /\ i - 1 \in DOMAIN xs
        BY <1>1, <1>2, <2>1, <2>4
      <3> QED BY <3>1 DEF Elements
    <2> QED BY <1>1, <2>1, <2>2, <2>3, <2>4
  <1>4. ASSUME NEW i \in DOMAIN xs
        PROVE  xs[i] \in Elements(ys)
    <2>1. CASE i <= n
      <3>1. i \in DOMAIN ys /\ ys[i] = xs[i]
        BY <1>1, <1>2, <2>1
      <3> QED BY <3>1 DEF Elements
    <2>2. CASE i > n
      <3>1. i + 1 \in DOMAIN ys /\ ys[i + 1] = xs[i]
        BY <1>1, <1>2, <2>2
      <3> QED BY <3>1 DEF Elements
    <2> QED BY <1>1, <2>1, <2>2
  <1>5. x \in Elements(ys)
    <2>1. n + 1 \in DOMAIN ys /\ ys[n + 1] = x
      BY <1>1, <1>2
    <2> QED BY <2>1 DEF Elements
  <1> QED BY <1>3, <1>4, <1>5 DEF Elements, ys

-----------------------------------------------------------------------------
(***************************************************************************)
(* Numbers.                                                                *)
(***************************************************************************)
\* Induction up to n: a set with 0 and each successor has every number.
LEMMA UpTo ==
  ASSUME NEW n \in Nat, NEW S, 0 \in S,
         \A i \in 1 .. n : i - 1 \in S => i \in S
  PROVE  0 .. n \subseteq S
  <1> DEFINE B == {i \in 0 .. n : i \notin S}
  <1> SUFFICES ASSUME B # {} PROVE FALSE
    OBVIOUS
  <1>1. PICK m \in B : \A k \in B : m <= k
    <2>1. B \in SUBSET Nat
      OBVIOUS
    <2> HIDE DEF B
    <2> QED BY <2>1, LeastNatural
  <1>2. m \in 1 .. n /\ m - 1 \notin B
    BY <1>1
  <1> QED BY <1>1, <1>2

LEMMA MaxFact ==
  ASSUME NEW S \in SUBSET Nat, NEW x \in S, NEW u \in Nat, \A y \in S : y <= u
  PROVE  Max(S) \in S /\ \A y \in S : Max(S) >= y
  <1> DEFINE B == {u - y : y \in S}
  <1>1. PICK m \in B : \A n \in B : m <= n
    <2>1. B \in SUBSET Nat /\ B # {}
      OBVIOUS
    <2> HIDE DEF B
    <2> QED BY <2>1, LeastNatural
  <1>2. PICK z \in S : m = u - z
    BY <1>1
  <1>3. \A y \in S : z >= y
    BY <1>1, <1>2
  <1> QED BY <1>3 DEF Max

LEMMA MinFact ==
  ASSUME NEW S \in SUBSET Nat, S # {}
  PROVE  Min(S) \in S /\ \A y \in S : Min(S) <= y
  <1>1. \E x \in S : \A y \in S : x =< y
    BY LeastNatural
  <1> QED BY <1>1 DEF Min

LEMMA MaxOfTwo ==
  ASSUME NEW a \in Int, NEW b \in Int
  PROVE  Max({a, b}) \in {a, b} /\ Max({a, b}) >= a /\ Max({a, b}) >= b
  <1>1. \E z \in {a, b} : \A y \in {a, b} : z >= y
    OBVIOUS
  <1> QED BY <1>1 DEF Max

LEMMA Quotient ==
  ASSUME NEW b \in Nat \ {0}, NEW x \in Int
  PROVE  x \div b \in Int /\ x % b \in 0 .. b - 1 /\ x = b * (x \div b) + (x % b)
  OBVIOUS

LEMMA RoundupFact ==
  ASSUME NEW v \in Nat, NEW a \in Nat \ {0}
  PROVE  Roundup(v, a) \in Nat /\ Roundup(v, a) >= v
  <1> DEFINE x == v + a - 1
  <1>1. x \in Nat
    OBVIOUS
  <1>2. x = v + a - 1
    OBVIOUS
  <1> HIDE DEF x
  <1>3. x \div a \in Int /\ x % a \in 0 .. a - 1 /\ x = a * (x \div a) + (x % a)
    BY <1>1, Quotient
  <1>4. Roundup(v, a) = (x \div a) * a
    BY <1>2 DEF Roundup
  <1>5. PICK p, r : p = a * (x \div a) /\ r = x % a
    OBVIOUS
  <1>6. Roundup(v, a) = p /\ p = x - r /\ r \in 0 .. a - 1
    BY <1>3, <1>4, <1>5
  <1> QED BY <1>1, <1>2, <1>6

-----------------------------------------------------------------------------
(***************************************************************************)
(* The types.                                                              *)
(***************************************************************************)
OfFiles  == UNION {Range(f) : f \in Stored}
OfBlocks == UNION {Range(b.d_buf) : b \in Blocks}
OfTables == ({"ehdr"} \X Ehdr) \cup ({"shdr"} \X Shdr)

Cells == OfFiles \cup OfBlocks \cup OfTables \cup {Fill, Junk, <<"phdr", 0>>}

Buffer == [d_off : Nat, d_align : Nat, d_type : {"byte", "move"}, d_size : Nat, d_buf : Seq(Cells)]

Scn == [s_ndx : Nat, shdr : Shdr, data : Seq(Buffer), s_rawoff : Nat, s_offset : Nat, s_size : Nat,
        dirty : BOOLEAN, rawdata : BOOLEAN]

Elf == [e_cmd : {"READ", "RDWR", "WRITE"}, mapped : BOOLEAN, raw : Seq(Cells), ehdr : Ehdr,
        e_nscn : Nat, e_nphdr : Nat, phdr : Seq(Cells), scns : Seq(Scn),
        has : SUBSET {"class", "ehdr", "phdr", "shdrs", "raw", "LAYOUT"}]

Words == {"ok", "HEADER", "SECTION", "ARGUMENT", "DATA", "LAYOUT"}

LEMMA CellFact ==
  ASSUME NEW c \in Cells
  PROVE  (c[1] = "ehdr" => c[2] \in Ehdr) /\ (c[1] = "shdr" => c[2] \in Shdr)
  <1>1. CASE c \in OfFiles
    BY <1>1, FilesAssumption DEF FilesAssumption, OfFiles
  <1>2. CASE c \in OfBlocks
    BY <1>2, BlocksAssumption DEF BlocksAssumption, OfBlocks
  <1>3. CASE c \in OfTables
    BY <1>3 DEF OfTables
  <1>4. CASE c \in {Fill, Junk, <<"phdr", 0>>}
    BY <1>4 DEF Fill, Junk
  <1>5. c \in OfFiles \/ c \in OfBlocks
        \/ c \in OfTables \/ c \in {Fill, Junk, <<"phdr", 0>>}
    BY Zenon DEF Cells
  <1> QED BY <1>1, <1>2, <1>3, <1>4, <1>5

LEMMA StoredFact ==
  ASSUME NEW f \in Stored
  PROVE  f \in Seq(Cells) /\ (f # << >> => f[1][1] = "ehdr")
  <1>1. f \in Seq(Range(f)) /\ (f # << >> => f[1][1] = "ehdr")
    BY FilesAssumption DEF FilesAssumption
  <1>2. Range(f) \subseteq Cells
    BY Zenon DEF Cells, OfFiles
  <1> QED BY <1>1, <1>2

LEMMA BlockFact == Blocks \subseteq Buffer
  <1> SUFFICES ASSUME NEW b \in Blocks PROVE b \in Buffer
    OBVIOUS
  <1>1. b \in [d_off : Nat, d_align : Nat, d_type : {"byte", "move"}, d_size : Nat,
               d_buf : Seq(Range(b.d_buf))]
    BY BlocksAssumption DEF BlocksAssumption
  <1>2. Range(b.d_buf) \subseteq Cells
    BY Zenon DEF Cells, OfBlocks
  <1>3. b.d_buf \in Seq(Cells)
    BY <1>1, <1>2
  <1> QED BY <1>1, <1>3 DEF Buffer

LEMMA NewCells ==
  /\ Fill \in Cells /\ Junk \in Cells /\ <<"phdr", 0>> \in Cells
  /\ \A h \in Ehdr : <<"ehdr", h>> \in Cells
  /\ \A h \in Shdr : <<"shdr", h>> \in Cells
  <1>1. Fill \in Cells /\ Junk \in Cells /\ <<"phdr", 0>> \in Cells
    BY Zenon DEF Cells
  <1>2. ASSUME NEW h \in Ehdr PROVE <<"ehdr", h>> \in Cells
    <2>1. <<"ehdr", h>> \in {"ehdr"} \X Ehdr
      OBVIOUS
    <2> QED BY <2>1, Zenon DEF Cells, OfTables
  <1>3. ASSUME NEW h \in Shdr PROVE <<"shdr", h>> \in Cells
    <2>1. <<"shdr", h>> \in {"shdr"} \X Shdr
      OBVIOUS
    <2> QED BY <2>1, Zenon DEF Cells, OfTables
  <1> QED BY <1>1, <1>2, <1>3

LEMMA NoHeaders == Blank \in Ehdr /\ NoShdr \in Shdr
  BY DEF Blank, NoShdr, Ehdr, Shdr

LEMMA Constants ==
  /\ TableAlign \in Nat \ {0} /\ LoReserve \in Nat \ {0} /\ PnXnum \in Nat \ {0}
  /\ Places \subseteq Nat /\ Sizes \subseteq Nat /\ PhCounts \subseteq Nat /\ MaxCalls \in Nat
  BY ToolchainAssumption DEF ToolchainAssumption

-----------------------------------------------------------------------------
(***************************************************************************)
(* What is known of a descriptor between the calls, besides its types.  A  *)
(* section's place in the list is its number, unless headers thrown away   *)
(* are expected again; while section headers are not loaded there is at    *)
(* most the first, and program headers that are there are counted.  A file *)
(* begins with its ELF header.                                             *)
(***************************************************************************)
InPlace(d) == \A i \in 1 .. Len(d.scns) : d.scns[i].s_ndx = i - 1

Numbering(d) == /\ Len(d.scns) <= 1 \/ Len(d.scns) <= d.e_nscn
                /\ Len(d.scns) >= d.e_nscn => InPlace(d)

Counted(d) == IF "phdr" \in d.has THEN "ehdr" \in d.has /\ Len(d.phdr) = d.e_nphdr
                                  ELSE d.phdr = << >>

Unread(d) == /\ "ehdr" \notin d.has => d.ehdr = Blank /\ d.scns = << >>
             /\ Counted(d)
             /\ d.e_cmd # "WRITE" /\ "shdrs" \notin d.has => Len(d.scns) <= 1 /\ InPlace(d)

Sound(d) == /\ d \in Elf /\ Numbering(d) /\ Unread(d)
            /\ d.raw # << >> => d.raw[1][1] = "ehdr"

\* c is d but for its sections, which have the same numbers.
Beside(d, c) ==
    /\ c.e_cmd = d.e_cmd /\ c.mapped = d.mapped /\ c.raw = d.raw /\ c.ehdr = d.ehdr
    /\ c.e_nscn = d.e_nscn /\ c.e_nphdr = d.e_nphdr /\ c.phdr = d.phdr /\ c.has = d.has
    /\ Len(c.scns) = Len(d.scns)
    /\ \A i \in 1 .. Len(d.scns) : c.scns[i].s_ndx = d.scns[i].s_ndx

\* c has the sections of d, or others with the same numbers.
SameNumbers(d, c) ==
    /\ c.e_cmd = d.e_cmd /\ c.raw = d.raw /\ c.e_nscn = d.e_nscn
    /\ "ehdr" \in d.has /\ "ehdr" \in c.has
    /\ "shdrs" \in c.has <=> "shdrs" \in d.has
    /\ Counted(c)
    /\ Len(c.scns) = Len(d.scns)
    /\ \A i \in 1 .. Len(d.scns) : c.scns[i].s_ndx = d.scns[i].s_ndx

LEMMA ElfFact ==
  ASSUME NEW d \in Elf
  PROVE  /\ d.e_cmd \in {"READ", "RDWR", "WRITE"} /\ d.mapped \in BOOLEAN /\ d.raw \in Seq(Cells)
         /\ d.ehdr \in Ehdr /\ d.e_nscn \in Nat /\ d.e_nphdr \in Nat /\ d.phdr \in Seq(Cells)
         /\ d.scns \in Seq(Scn) /\ Len(d.scns) \in Nat /\ DOMAIN d.scns = 1 .. Len(d.scns)
         /\ d.has \in SUBSET {"class", "ehdr", "phdr", "shdrs", "raw", "LAYOUT"}
  BY DEF Elf

LEMMA ScnFact ==
  ASSUME NEW s \in Scn
  PROVE  /\ s.s_ndx \in Nat /\ s.shdr \in Shdr /\ s.data \in Seq(Buffer) /\ s.s_rawoff \in Nat
         /\ s.s_offset \in Nat /\ s.s_size \in Nat
         /\ s.dirty \in BOOLEAN /\ s.rawdata \in BOOLEAN
  BY DEF Scn

LEMMA ShdrFact ==
  ASSUME NEW h \in Shdr
  PROVE  /\ h.sh_type \in {"null", "bits", "nobits"} /\ h.sh_offset \in Nat /\ h.sh_size \in Nat
         /\ h.sh_addralign \in Nat /\ h.sh_info \in Nat
  BY DEF Shdr

LEMMA SameNumbersSound ==
  ASSUME NEW d, Sound(d), NEW c \in Elf, SameNumbers(d, c)
  PROVE  Sound(c)
  <1>1. InPlace(d) => InPlace(c)
    BY DEF InPlace, SameNumbers
  <1>2. Numbering(c)
    BY <1>1 DEF Numbering, SameNumbers, Sound
  <1>3. Unread(c)
    BY <1>1 DEF Unread, SameNumbers, Sound
  <1> QED BY <1>2, <1>3 DEF Sound, SameNumbers

LEMMA BesideSound ==
  ASSUME NEW d, Sound(d), NEW c \in Elf, Beside(d, c)
  PROVE  Sound(c)
  <1>1. InPlace(d) => InPlace(c)
    BY DEF InPlace, Beside
  <1>2. Numbering(c)
    BY <1>1 DEF Numbering, Beside, Sound
  <1>3. d.scns = << >> => c.scns = << >>
    <2>1. d.scns = << >> => Len(c.scns) = 0
      BY DEF Beside
    <2> QED BY <2>1, ElfFact
  <1>4. Unread(c)
    BY <1>1, <1>3 DEF Unread, Beside, Sound, Counted
  <1> QED BY <1>2, <1>4 DEF Sound, Beside

LEMMA BesideTrans ==
  ASSUME NEW a, NEW b, NEW c, Beside(a, b), Beside(b, c)
  PROVE  Beside(a, c)
  BY DEF Beside

LEMMA PutFact ==
  ASSUME NEW d \in Elf, NEW i \in 1 .. Len(d.scns), NEW s \in Scn, s.s_ndx = d.scns[i].s_ndx
  PROVE  /\ Put(d, i, s) \in Elf /\ Beside(d, Put(d, i, s))
         /\ Put(d, i, s).scns[i] = s
         /\ \A j \in 1 .. Len(d.scns) : j # i => Put(d, i, s).scns[j] = d.scns[j]
  <1>1. PICK c : c = Put(d, i, s)
    OBVIOUS
  <1>2. PICK ss : ss = [d.scns EXCEPT ![i] = s]
    OBVIOUS
  <1>3. c = [d EXCEPT !.scns = ss]
    BY <1>1, <1>2 DEF Put
  <1>4. d.scns \in Seq(Scn) /\ DOMAIN d.scns = 1 .. Len(d.scns)
    BY ElfFact
  <1>5. ss \in Seq(Scn) /\ Len(ss) = Len(d.scns)
    BY <1>2, <1>4
  <1>6. /\ ss[i] = s
        /\ \A j \in 1 .. Len(d.scns) : j # i => ss[j] = d.scns[j]
    BY <1>2, <1>4
  <1>7. c \in Elf /\ c.scns = ss
    BY <1>3, <1>5 DEF Elf
  <1>8. Beside(d, c)
    BY <1>3, <1>5, <1>6 DEF Beside, Elf
  <1> QED BY <1>1, <1>6, <1>7, <1>8

-----------------------------------------------------------------------------
(***************************************************************************)
(* Reading.                                                                *)
(***************************************************************************)
LEMMA ListedFact ==
  ASSUME NEW S, NEW n \in Nat, NEW f \in [1 .. n -> S]
  PROVE  Listed(f) \in Seq(S) /\ Len(Listed(f)) = n /\ \A i \in 1 .. n : Listed(f)[i] = f[i]
  <1>1. f \in Seq(S) /\ Len(f) = n
    OBVIOUS
  <1>2. << >> \o f = f
    BY <1>1
  <1> QED BY <1>1, <1>2 DEF Listed

LEMMA NewScnFact ==
  ASSUME NEW n \in Nat, NEW h \in Shdr
  PROVE  /\ NewScn(n, h) \in Scn /\ NewScn(n, h).s_ndx = n /\ NewScn(n, h).shdr = h
         /\ NewScn(n, h).data = << >>
  <1>1. << >> \in Seq(Buffer)
    OBVIOUS
  <1> QED BY <1>1 DEF NewScn, Scn

LEMMA ShdrAtFact ==
  ASSUME NEW f \in Seq(Cells), NEW off \in Nat, off + 1 <= Len(f)
  PROVE  ShdrAt(f, off) \in Shdr
  <1>1. f[off + 1] \in Cells
    OBVIOUS
  <1> QED BY <1>1, CellFact, NoHeaders DEF ShdrAt, CellAt

\* What reading the ELF header leaves.
HeaderRead(d, x) ==
    /\ Sound(x.d) /\ x.says \in Words
    /\ x.says = "ok" => "ehdr" \in x.d.has
    /\ x.d.e_cmd = d.e_cmd /\ x.d.mapped = d.mapped /\ x.d.raw = d.raw /\ x.d.phdr = d.phdr
    /\ x.d.has \ {"ehdr"} = d.has \ {"ehdr"}

LEMMA LoadExtendedFact ==
  ASSUME NEW d, Sound(d), "ehdr" \in d.has, "phdr" \notin d.has, d.scns = << >>, NEW h \in Ehdr
  PROVE  HeaderRead(d, LoadExtended(d, h))
  <1> DEFINE zero == ShdrAt(d.raw, h.e_shoff)
             new  == << NewScn(0, zero) >>
             with == [d EXCEPT !.scns = new]
             n    == IF h.e_phnum # PnXnum THEN h.e_phnum ELSE zero.sh_info
             read == [with EXCEPT !.e_nscn = zero.sh_size, !.e_nphdr = n]
  <1>0. d \in Elf /\ h.e_shoff \in Nat /\ h.e_phnum \in Nat
    BY DEF Sound, Ehdr
  <1>1. CASE Len(d.raw) < h.e_shoff + 1
    <2>1. LoadExtended(d, h) = Does(d, "HEADER")
      BY <1>1 DEF LoadExtended
    <2> QED BY <2>1 DEF HeaderRead, Does, Words
  <1>2. CASE ~(Len(d.raw) < h.e_shoff + 1)
    <2>1. zero \in Shdr
      BY <1>0, <1>2, ElfFact, ShdrAtFact
    <2>2. LoadExtended(d, h) = IF zero.sh_type # "null" THEN Does(with, "SECTION") ELSE Does(read, "ok")
      BY <1>2 DEF LoadExtended
    <2> HIDE DEF zero
    <2>3. new \in Seq(Scn) /\ Len(new) = 1 /\ new[1].s_ndx = 0
      BY <2>1, NewScnFact
    <2> HIDE DEF new
    <2>4. with \in Elf /\ with.scns = new
      BY <1>0, <2>3 DEF Elf
    <2>5. zero.sh_size \in Nat /\ n \in Nat
      BY <1>0, <2>1, ShdrFact
    <2> HIDE DEF n
    <2>6. read \in Elf /\ read.scns = new
      BY <1>0, <2>3, <2>5 DEF Elf
    <2>7. ASSUME NEW c \in Elf, c.scns = new, c.e_cmd = d.e_cmd, c.mapped = d.mapped,
                 c.raw = d.raw, c.phdr = d.phdr, c.has = d.has, NEW says \in Words
          PROVE  HeaderRead(d, Does(c, says))
      <3>0. Len(c.scns) = 1 /\ c.scns[1].s_ndx = 0
        BY <2>3, <2>7
      <3>1. InPlace(c)
        BY <3>0 DEF InPlace
      <3>2. Numbering(c)
        BY <3>0, <3>1 DEF Numbering
      <3>3. Unread(c)
        BY <2>7, <3>0, <3>1 DEF Unread, Sound, Counted
      <3> QED BY <2>7, <3>2, <3>3 DEF HeaderRead, Does, Sound
    <2>8. /\ with.e_cmd = d.e_cmd /\ with.mapped = d.mapped /\ with.raw = d.raw
          /\ with.phdr = d.phdr /\ with.has = d.has
      BY <1>0 DEF Elf
    <2>9. /\ read.e_cmd = d.e_cmd /\ read.mapped = d.mapped /\ read.raw = d.raw
          /\ read.phdr = d.phdr /\ read.has = d.has
      BY <1>0 DEF Elf
    <2>10. "SECTION" \in Words /\ "ok" \in Words
      BY DEF Words
    <2> HIDE DEF with, read
    <2>11. HeaderRead(d, Does(with, "SECTION")) /\ HeaderRead(d, Does(read, "ok"))
      BY <2>4, <2>6, <2>7, <2>8, <2>9, <2>10
    <2> QED BY <2>2, <2>11
  <1> QED BY <1>1, <1>2

LEMMA ReadEhdrFact ==
  ASSUME NEW d, Sound(d), "ehdr" \notin d.has, d.raw # << >>
  PROVE  HeaderRead(d, ReadEhdr(d))
  <1> DEFINE h    == CellAt(d.raw, 0)[2]
             with == [Gains(d, "ehdr") EXCEPT !.ehdr = h]
             read == [with EXCEPT !.e_nphdr = h.e_phnum, !.e_nscn = h.e_shnum]
  <1>0. d \in Elf /\ d.scns = << >> /\ "phdr" \notin d.has
    BY DEF Sound, Unread, Counted
  <1>1. h \in Ehdr /\ h.e_phnum \in Nat /\ h.e_shnum \in Nat
    <2>1. d.raw[1] \in Cells /\ d.raw[1][1] = "ehdr"
      BY <1>0, ElfFact DEF Sound
    <2>2. h \in Ehdr
      BY <2>1, CellFact DEF CellAt
    <2> HIDE DEF h
    <2> QED BY <2>2 DEF Ehdr
  <1>2. \/ ReadEhdr(d) = Does(with, "HEADER") \/ ReadEhdr(d) = LoadExtended(with, h)
        \/ ReadEhdr(d) = Does(read, "ok")
    BY DEF ReadEhdr
  <1> HIDE DEF h
  <1>3. with \in Elf /\ with = [d EXCEPT !.has = d.has \cup {"ehdr"}, !.ehdr = h]
    BY <1>0, <1>1 DEF Elf, Gains
  <1>4. read \in Elf /\ read = [d EXCEPT !.has = d.has \cup {"ehdr"}, !.ehdr = h,
                                         !.e_nphdr = h.e_phnum, !.e_nscn = h.e_shnum]
    BY <1>0, <1>1 DEF Elf, Gains
  <1>5. ASSUME NEW c \in Elf, c.scns = d.scns, c.e_cmd = d.e_cmd, c.mapped = d.mapped,
               c.raw = d.raw, c.phdr = d.phdr, c.has = d.has \cup {"ehdr"}
        PROVE  Sound(c) /\ \A says \in Words : HeaderRead(d, Does(c, says))
    <2>1. Len(c.scns) = 0 /\ InPlace(c)
      BY <1>0, <1>5 DEF InPlace
    <2>2. Numbering(c)
      BY <1>5, <2>1, ElfFact DEF Numbering
    <2>3. Unread(c)
      BY <1>5, <2>1 DEF Unread, Sound, Counted
    <2>4. Sound(c)
      BY <1>5, <2>2, <2>3 DEF Sound
    <2> QED BY <1>5, <2>4 DEF HeaderRead, Does
  <1>6. /\ with.scns = d.scns /\ with.e_cmd = d.e_cmd /\ with.mapped = d.mapped
        /\ with.raw = d.raw /\ with.phdr = d.phdr /\ with.has = d.has \cup {"ehdr"}
    BY <1>0, <1>3 DEF Elf
  <1>7. /\ read.scns = d.scns /\ read.e_cmd = d.e_cmd /\ read.mapped = d.mapped
        /\ read.raw = d.raw /\ read.phdr = d.phdr /\ read.has = d.has \cup {"ehdr"}
    BY <1>0, <1>4 DEF Elf
  <1> HIDE DEF with, read
  <1>8. Sound(with) /\ HeaderRead(d, Does(with, "HEADER"))
    BY <1>3, <1>5, <1>6 DEF Words
  <1>9. HeaderRead(d, Does(read, "ok"))
    BY <1>4, <1>5, <1>7 DEF Words
  <1>10. HeaderRead(d, LoadExtended(with, h))
    <2>1. HeaderRead(with, LoadExtended(with, h))
      BY <1>0, <1>1, <1>6, <1>8, LoadExtendedFact
    <2> QED BY <1>6, <2>1 DEF HeaderRead
  <1> QED BY <1>2, <1>8, <1>9, <1>10

LEMMA WithEhdrFact ==
  ASSUME NEW d, Sound(d)
  PROVE  HeaderRead(d, WithEhdr(d))
  <1>0. d \in Elf
    BY DEF Sound
  <1>1. CASE "ehdr" \in d.has
    BY <1>1 DEF WithEhdr, HeaderRead, Does, Words
  <1>2. CASE "ehdr" \notin d.has /\ d.e_cmd = "WRITE"
    <2>1. PICK c : c = [Gains(d, "ehdr") EXCEPT !.ehdr = Blank]
      OBVIOUS
    <2>2. WithEhdr(d) = Does(c, "ok")
      BY <1>2, <2>1 DEF WithEhdr
    <2>3. c \in Elf
      BY <1>0, <2>1, NoHeaders DEF Elf, Gains
    <2>4. /\ c.scns = d.scns /\ c.e_cmd = d.e_cmd /\ c.mapped = d.mapped /\ c.e_nscn = d.e_nscn
          /\ c.raw = d.raw /\ c.phdr = d.phdr /\ c.has = d.has \cup {"ehdr"}
      BY <1>0, <2>1 DEF Elf, Gains
    <2>5. "phdr" \notin d.has /\ d.phdr = << >>
      BY <1>2 DEF Sound, Unread, Counted
    <2>6. Counted(c)
      BY <2>4, <2>5 DEF Counted
    <2>7. Sound(c)
      BY <2>3, <2>4, <2>6 DEF Sound, Numbering, Unread, InPlace
    <2> QED BY <2>2, <2>4, <2>7 DEF HeaderRead, Does, Words
  <1>3. CASE "ehdr" \notin d.has /\ d.e_cmd # "WRITE" /\ d.raw = << >>
    <2>1. WithEhdr(d) = Does(d, "HEADER")
      BY <1>3 DEF WithEhdr
    <2> QED BY <2>1 DEF HeaderRead, Does, Words
  <1>4. CASE "ehdr" \notin d.has /\ d.e_cmd # "WRITE" /\ d.raw # << >>
    <2>1. WithEhdr(d) = ReadEhdr(d)
      BY <1>4 DEF WithEhdr
    <2> QED BY <1>4, <2>1, ReadEhdrFact
  <1> QED BY <1>1, <1>2, <1>3, <1>4

\* A descriptor whose ELF header is there keeps all but the sections, which
\* may be loaded.
Settled(d, c) ==
    /\ c.e_cmd = d.e_cmd /\ c.mapped = d.mapped /\ c.raw = d.raw /\ c.ehdr = d.ehdr
    /\ c.e_nscn = d.e_nscn /\ c.e_nphdr = d.e_nphdr /\ c.phdr = d.phdr
    /\ c.has \ {"shdrs"} = d.has \ {"shdrs"}

SectionsRead(d, x) ==
    /\ Sound(x.d) /\ x.says \in Words
    /\ x.says = "ok" => "ehdr" \in x.d.has /\ (d.e_cmd = "WRITE" \/ "shdrs" \in x.d.has)
    /\ "ehdr" \in d.has => Settled(d, x.d)
    /\ x.d.e_cmd = d.e_cmd

\* The i-th section header, as it is in the file.
LoadedAt(d, i) ==
    LET h == ShdrAt(d.raw, d.ehdr.e_shoff + i)
    IN  [NewScn(i, h) EXCEPT !.s_rawoff = h.sh_offset, !.s_offset = h.sh_offset,
                             !.s_size = h.sh_size]

\* Those that were there stay, the others are loaded.
Loads(d, c) ==
    /\ Len(c.scns) = Len(d.scns) + Max({0, d.e_nscn - Len(d.scns)})
    /\ \A i \in 1 .. Len(d.scns) : c.scns[i] = d.scns[i]
    /\ \A i \in Len(d.scns) + 1 .. Len(c.scns) : c.scns[i] = LoadedAt(d, i - 1)

LEMMA LoadedScn ==
  ASSUME NEW i \in Nat, NEW h \in Shdr
  PROVE  LET s == [NewScn(i, h) EXCEPT !.s_rawoff = h.sh_offset, !.s_offset = h.sh_offset,
                                       !.s_size = h.sh_size]
         IN  s \in Scn /\ s.s_ndx = i
  <1>1. NewScn(i, h) \in Scn /\ NewScn(i, h).s_ndx = i
    BY NewScnFact
  <1>2. h.sh_offset \in Nat /\ h.sh_size \in Nat
    BY ShdrFact
  <1>3. PICK t : t = NewScn(i, h)
    OBVIOUS
  <1> QED BY <1>1, <1>2, <1>3 DEF Scn

LEMMA LoadShdrsFact ==
  ASSUME NEW d, Sound(d), "ehdr" \in d.has, "shdrs" \notin d.has, d.e_cmd # "WRITE"
  PROVE  /\ SectionsRead(d, LoadShdrs(d))
         /\ d.ehdr.e_shoff + d.e_nscn <= Len(d.raw) =>
                LoadShdrs(d).says = "ok" /\ Loads(d, LoadShdrs(d).d)
  <1> DEFINE shoff == d.ehdr.e_shoff
             first == FirstToLoad(d)
             n     == Max({0, d.e_nscn - first})
             Loaded(i) == LoadedAt(d, i)
             new   == [k \in 1 .. n |-> Loaded(first + k - 1)]
             ss    == d.scns \o new
             c     == [Gains(d, "shdrs") EXCEPT !.scns = ss]
  <1>0. /\ d \in Elf /\ d.e_nscn \in Nat /\ shoff \in Nat /\ d.scns \in Seq(Scn) /\ d.raw \in Seq(Cells)
        /\ Len(d.scns) \in {0, 1} /\ InPlace(d)
    <2>1. d \in Elf /\ Len(d.scns) <= 1 /\ InPlace(d)
      BY DEF Sound, Unread
    <2>2. d.ehdr \in Ehdr /\ d.e_nscn \in Nat /\ d.scns \in Seq(Scn) /\ d.raw \in Seq(Cells)
          /\ Len(d.scns) \in Nat
      BY <2>1, ElfFact
    <2>3. shoff \in Nat
      BY <2>2 DEF Ehdr
    <2>4. Len(d.scns) \in {0, 1}
      <3>1. PICK k : k = Len(d.scns)
        OBVIOUS
      <3>2. k \in Nat /\ k <= 1
        BY <2>1, <2>2, <3>1, Zenon
      <3>3. k \in {0, 1}
        BY <3>2
      <3> QED BY <3>1, <3>3, Zenon
    <2> QED BY <2>1, <2>2, <2>3, <2>4, Zenon
  <1>1. CASE shoff + d.e_nscn > Len(d.raw)
    <2>1. LoadShdrs(d) = Does(d, "HEADER")
      BY <1>1 DEF LoadShdrs
    <2>2. ~(shoff + d.e_nscn <= Len(d.raw))
      <3>1. shoff \in Nat /\ Len(d.raw) \in Nat
        BY <1>0
      <3> QED BY <1>0, <1>1, <3>1
    <2> QED BY <2>1, <2>2 DEF SectionsRead, Settled, Does, Words
  <1>2. CASE ~(shoff + d.e_nscn > Len(d.raw))
    <2>1. LoadShdrs(d) = Does([Gains(d, "shdrs") EXCEPT !.scns = @ \o new], "ok")
      BY <1>2 DEF LoadShdrs, LoadedAt
    <2> HIDE DEF shoff
    <2>2. first = Len(d.scns)
      <3>1. CASE Len(d.scns) = 0
        <4>1. Min({1, 0}) = 0
          <5>1. Min({1, 0}) \in {1, 0} /\ Min({1, 0}) <= 0
            BY MinFact
          <5> QED BY <5>1
        <4> QED BY <3>1, <4>1 DEF FirstToLoad
      <3>2. CASE Len(d.scns) = 1
        <4>1. Min({1, 1}) \in {1, 1}
          BY MinFact
        <4> QED BY <3>2, <4>1 DEF FirstToLoad
      <3> QED BY <1>0, <3>1, <3>2
    <2>3. n \in Nat /\ n \in {0, d.e_nscn - first} /\ n >= d.e_nscn - first
      <3>1. d.e_nscn - first \in Int /\ first \in Int
        BY <1>0, <2>2
      <3>2. n \in {0, d.e_nscn - first} /\ n >= 0 /\ n >= d.e_nscn - first
        <4>1. PICK m \in Int : m = d.e_nscn - first
          BY <3>1
        <4>2. Max({0, m}) \in {0, m} /\ Max({0, m}) >= 0 /\ Max({0, m}) >= m
          BY MaxOfTwo
        <4>3. n = Max({0, m})
          BY <4>1
        <4> HIDE DEF n
        <4> QED BY <4>1, <4>2, <4>3
      <3> QED BY <3>1, <3>2
    <2>4. n = Max({0, d.e_nscn - Len(d.scns)})
      BY <2>2
    <2> HIDE DEF first, n
    <2>5. ASSUME NEW k \in 1 .. n
          PROVE  Loaded(first + k - 1) \in Scn /\ Loaded(first + k - 1).s_ndx = first + k - 1
      <3>1. PICK i : i = first + k - 1
        OBVIOUS
      <3>2. i \in Nat /\ shoff + i \in Nat /\ shoff + i + 1 <= Len(d.raw)
        <4>1. k \in Nat /\ k >= 1 /\ k <= n /\ first \in {0, 1} /\ Len(d.raw) \in Nat
              /\ shoff + d.e_nscn <= Len(d.raw) /\ (n = 0 \/ n = d.e_nscn - first)
          BY <1>0, <1>2, <2>2, <2>3
        <4> QED BY <1>0, <3>1, <4>1
      <3>3. PICK h : h = ShdrAt(d.raw, shoff + i)
        OBVIOUS
      <3>4. h \in Shdr
        BY <1>0, <3>2, <3>3, ShdrAtFact
      <3>5. Loaded(i) = [NewScn(i, h) EXCEPT !.s_rawoff = h.sh_offset, !.s_offset = h.sh_offset,
                                             !.s_size = h.sh_size]
        BY <3>3 DEF LoadedAt, shoff
      <3>6. Loaded(i) \in Scn /\ Loaded(i).s_ndx = i
        <4> HIDE DEF Loaded
        <4>1. PICK s : s = [NewScn(i, h) EXCEPT !.s_rawoff = h.sh_offset, !.s_offset = h.sh_offset,
                                                !.s_size = h.sh_size]
          OBVIOUS
        <4>2. s \in Scn /\ s.s_ndx = i
          BY <3>2, <3>4, <4>1, LoadedScn
        <4> QED BY <3>5, <4>1, <4>2
      <3> QED BY <3>1, <3>6
    <2> HIDE DEF Loaded
    <2>6. /\ new \in Seq(Scn) /\ Len(new) = n
          /\ \A k \in 1 .. n : new[k] = Loaded(first + k - 1) /\ new[k].s_ndx = first + k - 1
      BY <2>3, <2>5
    <2> HIDE DEF new
    <2>7. /\ ss \in Seq(Scn) /\ Len(ss) = first + n
          /\ \A i \in 1 .. Len(ss) : ss[i] = IF i <= first THEN d.scns[i] ELSE new[i - first]
      <3>1. PICK a, b : a = d.scns /\ b = new
        OBVIOUS
      <3>2. a \in Seq(Scn) /\ b \in Seq(Scn) /\ Len(a) = first /\ Len(b) = n
        BY <1>0, <2>2, <2>6, <3>1
      <3>3. /\ a \o b \in Seq(Scn) /\ Len(a \o b) = Len(a) + Len(b)
            /\ \A i \in 1 .. Len(a) + Len(b) : (a \o b)[i] = IF i <= Len(a) THEN a[i] ELSE b[i - Len(a)]
        BY <3>2
      <3> QED BY <3>1, <3>2, <3>3
    <2>8. \A i \in 1 .. Len(ss) : ss[i].s_ndx = i - 1
      <3> SUFFICES ASSUME NEW i \in 1 .. Len(ss) PROVE ss[i].s_ndx = i - 1
        OBVIOUS
      <3>1. CASE i <= first
        BY <1>0, <2>2, <2>7, <3>1 DEF InPlace
      <3>2. CASE i > first
        <4>1. i - first \in 1 .. n /\ first + (i - first) - 1 = i - 1
          BY <1>0, <2>2, <2>3, <2>7, <3>2
        <4>2. ss[i] = new[i - first]
          BY <1>0, <2>2, <2>7, <3>2
        <4> QED BY <2>6, <4>1, <4>2
      <3> QED BY <1>0, <2>2, <3>1, <3>2
    <2>9. c \in Elf /\ c.scns = ss /\ c.e_nscn = d.e_nscn /\ c.raw = d.raw /\ Settled(d, c)
          /\ "ehdr" \in c.has /\ "shdrs" \in c.has /\ c.phdr = d.phdr
          /\ ("phdr" \in c.has <=> "phdr" \in d.has)
      <3> HIDE DEF ss
      <3>1. c = [d EXCEPT !.has = d.has \cup {"shdrs"}, !.scns = ss]
        BY DEF Gains
      <3>0. d.has \cup {"shdrs"} \in SUBSET {"class", "ehdr", "phdr", "shdrs", "raw", "LAYOUT"}
        BY <1>0, ElfFact
      <3>2. c \in Elf /\ c.scns = ss
        BY <1>0, <2>7, <3>0, <3>1 DEF Elf
      <3>3. /\ c.e_nscn = d.e_nscn /\ c.raw = d.raw /\ c.phdr = d.phdr /\ c.e_cmd = d.e_cmd
            /\ c.mapped = d.mapped /\ c.ehdr = d.ehdr /\ c.e_nphdr = d.e_nphdr
            /\ c.has = d.has \cup {"shdrs"}
        BY <1>0, <3>1 DEF Elf
      <3> HIDE DEF c
      <3> QED BY <3>2, <3>3 DEF Settled
    <2>10. InPlace(c)
      BY <2>8, <2>9 DEF InPlace
    <2>11. Len(ss) <= 1 \/ Len(ss) <= d.e_nscn
      <3>1. first \in {0, 1} /\ (n = 0 \/ n = d.e_nscn - first) /\ Len(ss) = first + n
        BY <1>0, <2>2, <2>3, <2>7
      <3> HIDE DEF ss
      <3> QED BY <1>0, <2>3, <3>1
    <2>12. Sound(c)
      <3> HIDE DEF c, ss
      <3> QED BY <2>9, <2>10, <2>11 DEF Sound, Numbering, Unread, Counted, Settled
    <2>13. LoadShdrs(d) = Does(c, "ok")
      <3>1. [Gains(d, "shdrs") EXCEPT !.scns = @ \o new] = c
        BY <1>0 DEF Gains, Elf
      <3> QED BY <2>1, <3>1
    <2>14. Loads(d, c)
      <3>1. Len(ss) = Len(d.scns) + Max({0, d.e_nscn - Len(d.scns)})
        BY <2>2, <2>7, <2>4
      <3>2. ASSUME NEW i \in 1 .. Len(d.scns) PROVE ss[i] = d.scns[i]
        BY <1>0, <2>2, <2>3, <2>7
      <3>3. ASSUME NEW i \in Len(d.scns) + 1 .. Len(ss) PROVE ss[i] = LoadedAt(d, i - 1)
        <4>1. i \in 1 .. Len(ss) /\ ~(i <= first) /\ i - first \in 1 .. n /\ first + (i - first) - 1 = i - 1
          BY <1>0, <2>2, <2>3, <2>7
        <4>2. ss[i] = new[i - first]
          BY <2>7, <4>1
        <4> QED BY <2>6, <4>1, <4>2 DEF Loaded
      <3> HIDE DEF ss, c
      <3> QED BY <2>9, <3>1, <3>2, <3>3 DEF Loads
    <2> HIDE DEF c
    <2> QED BY <2>9, <2>12, <2>13, <2>14 DEF SectionsRead, Does, Words, Settled
  <1> QED BY <1>1, <1>2

LEMMA WithShdrsFact ==
  ASSUME NEW d, Sound(d)
  PROVE  SectionsRead(d, WithShdrs(d))
  <1>1. PICK x : x = WithEhdr(d)
    OBVIOUS
  <1>2. HeaderRead(d, x)
    BY <1>1, WithEhdrFact
  <1>3. "ehdr" \in d.has => x = Does(d, "ok")
    BY <1>1 DEF WithEhdr
  <1>4. CASE x.says # "ok" \/ d.e_cmd = "WRITE" \/ "shdrs" \in d.has
    <2>1. WithShdrs(d) = x
      BY <1>1, <1>4 DEF WithShdrs
    <2> QED BY <1>2, <1>3, <1>4, <2>1 DEF SectionsRead, HeaderRead, Settled, Does
  <1>5. CASE ~(x.says # "ok" \/ d.e_cmd = "WRITE" \/ "shdrs" \in d.has)
    <2>1. WithShdrs(d) = LoadShdrs(x.d)
      BY <1>1, <1>5 DEF WithShdrs
    <2>2. Sound(x.d) /\ "ehdr" \in x.d.has /\ "shdrs" \notin x.d.has /\ x.d.e_cmd = d.e_cmd
      BY <1>2, <1>5 DEF HeaderRead
    <2>3. SectionsRead(x.d, LoadShdrs(x.d))
      BY <1>5, <2>2, LoadShdrsFact
    <2>4. "ehdr" \in d.has => x.d = d
      BY <1>3 DEF Does
    <2> QED BY <2>1, <2>2, <2>3, <2>4 DEF SectionsRead
  <1> QED BY <1>4, <1>5

\* What reading the program headers leaves, once the ELF header is there.
PhdrRead(d, x) ==
    /\ Sound(x.d) /\ "ehdr" \in x.d.has
    /\ x.d.e_cmd = d.e_cmd /\ x.d.mapped = d.mapped /\ x.d.raw = d.raw /\ x.d.ehdr = d.ehdr
    /\ x.d.e_nscn = d.e_nscn /\ x.d.e_nphdr = d.e_nphdr /\ x.d.scns = d.scns
    /\ x.d.has \ {"phdr"} = d.has \ {"phdr"}

LEMMA WithPhdrFact ==
  ASSUME NEW d, Sound(d), "ehdr" \in d.has
  PROVE  PhdrRead(d, WithPhdr(d))
  <1> DEFINE off == d.ehdr.e_phoff
             n   == d.e_nphdr
             new == [j \in 1 .. n |-> CellAt(d.raw, off + j - 1)]
             c   == [Gains(d, "phdr") EXCEPT !.phdr = Listed(new)]
  <1>0. d \in Elf /\ n \in Nat /\ off \in Nat /\ d.raw \in Seq(Cells) /\ Len(d.raw) \in Nat
    <2>1. d \in Elf
      BY DEF Sound
    <2>2. d.ehdr \in Ehdr /\ n \in Nat /\ d.raw \in Seq(Cells)
      BY <2>1, ElfFact
    <2> QED BY <2>1, <2>2 DEF Ehdr
  <1>1. WithEhdr(d) = Does(d, "ok")
    BY DEF WithEhdr
  <1>2. WithPhdr(d) = Does(d, "ok") \/ WithPhdr(d) = Does(d, "HEADER")
        \/ (off + n <= Len(d.raw) /\ WithPhdr(d) = Does(c, "ok"))
    <2>1. PICK x : x = WithEhdr(d)
      OBVIOUS
    <2>2. x.d = d /\ x.says = "ok" /\ x = Does(d, "ok")
      BY <1>1, <2>1 DEF Does
    <2>3. ~(Len(d.raw) < off + n) => off + n <= Len(d.raw)
      BY <1>0
    <2> QED BY <2>1, <2>2, <2>3 DEF WithPhdr
  <1>3. PhdrRead(d, Does(d, "ok")) /\ PhdrRead(d, Does(d, "HEADER"))
    BY DEF PhdrRead, Does
  <1>4. ASSUME off + n <= Len(d.raw)
        PROVE  PhdrRead(d, Does(c, "ok"))
    <2>1. new \in [1 .. n -> Cells]
      <3> SUFFICES ASSUME NEW j \in 1 .. n PROVE CellAt(d.raw, off + j - 1) \in Cells
        OBVIOUS
      <3>1. off + j - 1 + 1 \in 1 .. Len(d.raw)
        BY <1>0, <1>4
      <3> QED BY <1>0, <3>1 DEF CellAt
    <2> HIDE DEF new
    <2>2. Listed(new) \in Seq(Cells) /\ Len(Listed(new)) = n
      BY <1>0, <2>1, ListedFact
    <2>3. PICK p : p = Listed(new)
      OBVIOUS
    <2>4. c = [d EXCEPT !.has = d.has \cup {"phdr"}, !.phdr = p]
      BY <2>3 DEF Gains
    <2> HIDE DEF c
    <2>5. c \in Elf
      BY <1>0, <2>2, <2>3, <2>4 DEF Elf
    <2>6. /\ c.e_cmd = d.e_cmd /\ c.mapped = d.mapped /\ c.raw = d.raw /\ c.ehdr = d.ehdr
          /\ c.e_nscn = d.e_nscn /\ c.e_nphdr = d.e_nphdr /\ c.scns = d.scns
          /\ c.has = d.has \cup {"phdr"} /\ c.phdr = p
      BY <1>0, <2>2, <2>3, <2>4 DEF Elf
    <2>7. SameNumbers(d, c)
      BY <2>2, <2>3, <2>6 DEF SameNumbers, Counted
    <2> QED BY <2>5, <2>6, <2>7, SameNumbersSound DEF PhdrRead, Does
  <1> QED BY <1>2, <1>3, <1>4

\* t is s but for its data and what goes with them.
SameHeader(s, t) ==
    /\ t.s_ndx = s.s_ndx /\ t.shdr = s.shdr /\ t.s_rawoff = s.s_rawoff /\ t.s_offset = s.s_offset
    /\ t.s_size = s.s_size /\ t.dirty = s.dirty /\ t.rawdata = s.rawdata

\* c is d but for the i-th section.
But(d, c, i) == Beside(d, c) /\ \A j \in 1 .. Len(d.scns) : j # i => c.scns[j] = d.scns[j]

LEMMA ButSame ==
  ASSUME NEW d, NEW i
  PROVE  But(d, d, i)
  BY DEF But, Beside

LEMMA ButTrans ==
  ASSUME NEW a, NEW b, NEW c, NEW i, But(a, b, i), But(b, c, i)
  PROVE  But(a, c, i)
  BY DEF But, Beside

LEMMA PutBut ==
  ASSUME NEW d \in Elf, NEW i \in 1 .. Len(d.scns), NEW s \in Scn, s.s_ndx = d.scns[i].s_ndx
  PROVE  Put(d, i, s) \in Elf /\ But(d, Put(d, i, s), i) /\ Put(d, i, s).scns[i] = s
  BY PutFact DEF But

LEMMA SubSeqIn ==
  ASSUME NEW S, NEW f \in Seq(S), NEW m \in Nat \ {0}, NEW n \in Nat, n <= Len(f)
  PROVE  /\ SubSeq(f, m, n) \in Seq(S)
         /\ Len(SubSeq(f, m, n)) = IF m <= n THEN n - m + 1 ELSE 0
         /\ \A k \in 1 .. Len(SubSeq(f, m, n)) : SubSeq(f, m, n)[k] = f[m + k - 1]
  OBVIOUS

DataRead(d, x, i) ==
    /\ x.d \in Elf /\ x.says \in Words /\ But(d, x.d, i)
    /\ x.d.scns[i] \in Scn /\ SameHeader(d.scns[i], x.d.scns[i])

LEMMA ReadDataFact ==
  ASSUME NEW d \in Elf, NEW i \in 1 .. Len(d.scns)
  PROVE  DataRead(d, ReadData(d, i), i)
  <1> DEFINE s == d.scns[i]
             h == s.shdr
             cells == IF h.sh_type = "nobits" THEN << >>
                      ELSE SubSeq(d.raw, h.sh_offset + 1, h.sh_offset + h.sh_size)
             all  == [d_off |-> 0, d_align |-> h.sh_addralign, d_type |-> "byte",
                      d_size |-> h.sh_size, d_buf |-> cells]
             t    == [s EXCEPT !.data = << all >>]
  <1>0. /\ s \in Scn /\ h \in Shdr /\ d.raw \in Seq(Cells) /\ Len(d.raw) \in Nat
        /\ h.sh_type \in {"null", "bits", "nobits"} /\ h.sh_offset \in Nat /\ h.sh_size \in Nat
        /\ h.sh_addralign \in Nat
    <2>1. s \in Scn /\ d.raw \in Seq(Cells) /\ Len(d.raw) \in Nat
      BY ElfFact
    <2> QED BY <2>1, ScnFact, ShdrFact
  <1>1. ASSUME NEW says \in Words
        PROVE  DataRead(d, Does(d, says), i)
    BY <1>0, <1>1, ButSame DEF DataRead, Does, SameHeader
  <1>2. CASE "raw" \notin d.has
    <2>1. ReadData(d, i) = Does(d, "ARGUMENT")
      BY <1>2 DEF ReadData
    <2> QED BY <1>1, <2>1 DEF Words
  <1>3. CASE "raw" \in d.has /\ (h.sh_type = "null" \/ (h.sh_type # "nobits" /\ ~InRaw(d, h)))
    <2>1. ReadData(d, i) = Does(d, "SECTION")
      BY <1>3 DEF ReadData
    <2> QED BY <1>1, <2>1 DEF Words
  <1>4. CASE "raw" \in d.has /\ ~(h.sh_type = "null" \/ (h.sh_type # "nobits" /\ ~InRaw(d, h)))
    <2>1. ReadData(d, i) = Does(Put(d, i, t), "ok")
      BY <1>4 DEF ReadData
    <2>2. cells \in Seq(Cells)
      <3>1. CASE h.sh_type = "nobits"
        BY <3>1
      <3>2. CASE h.sh_type # "nobits"
        <4>1. h.sh_offset + h.sh_size <= Len(d.raw)
          BY <1>0, <1>4, <3>2 DEF InRaw
        <4>2. PICK a, b : a = h.sh_offset + 1 /\ b = h.sh_offset + h.sh_size
          OBVIOUS
        <4>3. a \in Nat \ {0} /\ b \in Nat /\ b <= Len(d.raw)
          <5>1. PICK p, q, n : p = h.sh_offset /\ q = h.sh_size /\ n = Len(d.raw)
            OBVIOUS
          <5>2. p \in Nat /\ q \in Nat /\ n \in Nat /\ p + q <= n /\ a = p + 1 /\ b = p + q
            BY <1>0, <4>1, <4>2, <5>1
          <5>3. b <= n /\ a \in Nat \ {0} /\ b \in Nat
            BY <5>2
          <5> QED BY <5>1, <5>3
        <4>4. SubSeq(d.raw, a, b) \in Seq(Cells)
          BY <1>0, <4>3, SubSeqIn
        <4> QED BY <3>2, <4>2, <4>4
      <3> QED BY <3>1, <3>2
    <2> HIDE DEF cells
    <2>3. all \in Buffer
      BY <1>0, <2>2 DEF Buffer
    <2> HIDE DEF all
    <2>6. t \in Scn /\ SameHeader(s, t)
      <3>1. << all >> \in Seq(Buffer)
        BY <2>3
      <3> HIDE DEF s
      <3>2. t \in Scn
        BY <1>0, <3>1 DEF Scn
      <3>3. SameHeader(s, t)
        BY <1>0 DEF Scn, SameHeader
      <3> QED BY <3>2, <3>3
    <2>7. t.s_ndx = d.scns[i].s_ndx
      BY <2>6 DEF SameHeader
    <2> HIDE DEF t
    <2>9. Put(d, i, t) \in Elf /\ But(d, Put(d, i, t), i) /\ Put(d, i, t).scns[i] = t
      BY <2>6, <2>7, PutBut
    <2> QED BY <2>1, <2>6, <2>9 DEF DataRead, Does, Words
  <1> QED BY <1>2, <1>3, <1>4

LEMMA WithDataFact ==
  ASSUME NEW d \in Elf, NEW i \in 1 .. Len(d.scns)
  PROVE  DataRead(d, WithData(d, i), i)
  <1>1. CASE d.scns[i].data = << >>
    BY <1>1, ReadDataFact DEF WithData
  <1>2. CASE d.scns[i].data # << >>
    <2>1. WithData(d, i) = Does(d, "ok")
      BY <1>2 DEF WithData
    <2>2. d.scns[i] \in Scn
      BY ElfFact
    <2> QED BY <2>1, <2>2, ButSame DEF DataRead, Does, SameHeader, Words
  <1> QED BY <1>1, <1>2

-----------------------------------------------------------------------------
(***************************************************************************)
(* The extent of one section.                                              *)
(***************************************************************************)
LEMMA Bounded ==
  ASSUME NEW n \in Nat, NEW f \in [1 .. n -> Nat]
  PROVE  \E u \in Nat : \A k \in 1 .. n : f[k] <= u
  <1> DEFINE S == {m \in 0 .. n : \E u \in Nat : \A k \in 1 .. m : f[k] <= u}
  <1>1. 0 \in S
    OBVIOUS
  <1>2. ASSUME NEW m \in 1 .. n, m - 1 \in S PROVE m \in S
    <2>1. PICK u \in Nat : \A k \in 1 .. m - 1 : f[k] <= u
      BY <1>2
    <2>2. PICK v : v = f[m]
      OBVIOUS
    <2>3. v \in Nat /\ u + v \in Nat
      BY <2>2
    <2>4. ASSUME NEW k \in 1 .. m PROVE f[k] <= u + v
      <3>1. CASE k = m
        BY <2>2, <2>3, <3>1
      <3>2. CASE k # m
        <4>1. k \in 1 .. m - 1 /\ f[k] \in Nat
          BY <3>2
        <4>2. f[k] <= u
          BY <2>1, <4>1
        <4> QED BY <2>3, <4>1, <4>2
      <3> QED BY <3>1, <3>2
    <2> QED BY <2>3, <2>4
  <1> HIDE DEF S
  <1>3. 0 .. n \subseteq S
    BY <1>1, <1>2, UpTo
  <1>4. n \in S
    BY <1>3
  <1> QED BY <1>4 DEF S

LEMMA MaxOfAll ==
  ASSUME NEW n \in Nat, NEW f \in [1 .. n -> Nat]
  PROVE  /\ Max({0} \cup {f[k] : k \in 1 .. n}) \in Nat
         /\ \A k \in 1 .. n : f[k] <= Max({0} \cup {f[k_1] : k_1 \in 1 .. n})
  <1> DEFINE A == {0} \cup {f[k] : k \in 1 .. n}
  <1>1. PICK u \in Nat : \A k \in 1 .. n : f[k] <= u
    BY Bounded
  <1>2. A \in SUBSET Nat /\ 0 \in A /\ \A y \in A : y <= u
    BY <1>1
  <1>3. \A k \in 1 .. n : f[k] \in A
    OBVIOUS
  <1> HIDE DEF A
  <1>4. Max(A) \in A /\ \A y \in A : Max(A) >= y
    BY <1>2, MaxFact
  <1>5. Max(A) \in Nat /\ \A k \in 1 .. n : f[k] <= Max(A)
    BY <1>2, <1>3, <1>4
  <1> QED BY <1>5 DEF A

LEMMA BufferFact ==
  ASSUME NEW data \in Seq(Buffer), NEW k \in 1 .. Len(data)
  PROVE  /\ data[k] \in Buffer /\ data[k].d_off \in Nat /\ data[k].d_align \in Nat
         /\ data[k].d_size \in Nat /\ data[k].d_buf \in Seq(Cells) /\ Len(data[k].d_buf) \in Nat
  <1>1. data[k] \in Buffer
    OBVIOUS
  <1>2. /\ data[k].d_off \in Nat /\ data[k].d_align \in Nat /\ data[k].d_size \in Nat
        /\ data[k].d_buf \in Seq(Cells)
    BY <1>1 DEF Buffer
  <1>3. Len(data[k].d_buf) \in Nat
    BY <1>2, LenProperties
  <1> QED BY <1>1, <1>2, <1>3

LEMMA ScnAlignFact ==
  ASSUME NEW s \in Scn
  PROVE  ScnAlign(s) \in Nat
  <1>1. PICK n, data : data = s.data /\ n = Len(data)
    OBVIOUS
  <1>2. data \in Seq(Buffer) /\ n \in Nat /\ DOMAIN data = 1 .. n
    BY <1>1, ScnFact
  <1>3. PICK f : f = [k \in 1 .. n |-> data[k].d_align]
    OBVIOUS
  <1>4. f \in [1 .. n -> Nat]
    BY <1>1, <1>2, <1>3, BufferFact
  <1>5. {s.data[k].d_align : k \in DOMAIN s.data} = {f[k] : k \in 1 .. n}
    BY <1>1, <1>2, <1>3
  <1>6. Max({0} \cup {f[k] : k \in 1 .. n}) \in Nat
    BY <1>2, <1>4, MaxOfAll
  <1> QED BY <1>5, <1>6 DEF ScnAlign

LEMMA OwnAlignFact ==
  ASSUME NEW h \in Shdr
  PROVE  OwnAlign(h) \in Nat \ {0}
  BY ShdrFact DEF OwnAlign

\* The loop over the data, turn by turn.
PlacedNext(b, x) ==
    LET off == Roundup(b.size, x.d_align)
    IN  [size |-> off + Len(x.d_buf), data |-> Append(b.data, [x EXCEPT !.d_off = off])]

PlacedTurns(data, f) ==
    /\ f[0] = [size |-> 0, data |-> << >>]
    /\ \A k \in 1 .. Len(data) : f[k] = PlacedNext(f[k - 1], data[k])

LEMMA PlacedTurn ==
  ASSUME NEW data, Len(data) \in Nat
  PROVE  \E f : PlacedTurns(data, f) /\ Placed(data) = f[Len(data)]
  <1> DEFINE n == Len(data)
             first == [size |-> 0, data |-> << >>]
             Body(f, m) == [k \in 0 .. m |-> IF k = 0 THEN first ELSE PlacedNext(f[k - 1], data[k])]
             S == {m \in 0 .. n : \E f : f = Body(f, m)}
             at == CHOOSE f : f = Body(f, n)
  <1>0. n \in Nat
    OBVIOUS
  <1>1. 0 \in S
    <2>1. [k \in 0 .. 0 |-> first] = Body([k \in 0 .. 0 |-> first], 0)
      OBVIOUS
    <2> HIDE DEF Body
    <2>2. \E f : f = Body(f, 0)
      BY <2>1
    <2> QED BY <1>0, <2>2
  <1>2. ASSUME NEW m \in 1 .. n, m - 1 \in S PROVE m \in S
    <2>1. PICK f : f = Body(f, m - 1)
      BY <1>2
    <2> DEFINE g == [k \in 0 .. m |-> IF k = m THEN PlacedNext(f[m - 1], data[m]) ELSE f[k]]
    <2>2. g = Body(g, m)
      <3>1. ASSUME NEW k \in 0 .. m PROVE g[k] = Body(g, m)[k]
        <4>1. CASE k = m
          BY <1>0, <4>1
        <4>2. CASE k # m
          <5>1. k \in 0 .. m - 1 /\ f[k] = Body(f, m - 1)[k] /\ g[k] = f[k]
            BY <1>0, <2>1, <4>2
          <5>2. k # 0 => g[k - 1] = f[k - 1]
            BY <1>0, <4>2
          <5> QED BY <5>1, <5>2
        <4> QED BY <4>1, <4>2
      <3> QED BY <3>1
    <2> HIDE DEF Body, g
    <2>3. \E g_1 : g_1 = Body(g_1, m)
      BY <2>2
    <2> QED BY <2>3
  <1>3. n \in S
    <2> HIDE DEF S
    <2>1. 0 .. n \subseteq S
      BY <1>0, <1>1, <1>2, UpTo
    <2> QED BY <1>0, <2>1
  <1>4. at = Body(at, n)
    <2> HIDE DEF Body
    <2> QED BY <1>3
  <1>5. Placed(data) = at[Len(data)]
    BY DEF Placed, PlacedNext
  <1> HIDE DEF at
  <1>6. PlacedTurns(data, at)
    BY <1>0, <1>4 DEF PlacedTurns
  <1> QED BY <1>5, <1>6

Aligned(data) == \A k \in 1 .. Len(data) : data[k].d_align # 0

PlacedBuffers(data, b, k) ==
    /\ b.size \in Nat /\ b.data \in Seq(Buffer) /\ Len(b.data) = k
    /\ \A j \in 1 .. k : b.data[j] = [data[j] EXCEPT !.d_off = b.data[j].d_off]

LEMMA PlacedStep ==
  ASSUME NEW data \in Seq(Buffer), NEW k \in 1 .. Len(data), data[k].d_align # 0,
         NEW b, PlacedBuffers(data, b, k - 1)
  PROVE  PlacedBuffers(data, PlacedNext(b, data[k]), k)
  <1> DEFINE x   == data[k]
             off == Roundup(b.size, x.d_align)
             y   == [x EXCEPT !.d_off = off]
             c   == Append(b.data, y)
  <1>1. x \in Buffer /\ x.d_align \in Nat \ {0} /\ Len(x.d_buf) \in Nat
    BY BufferFact
  <1>2. b.size \in Nat /\ b.data \in Seq(Buffer) /\ Len(b.data) = k - 1
        /\ \A j \in 1 .. k - 1 : b.data[j] = [data[j] EXCEPT !.d_off = b.data[j].d_off]
    BY DEF PlacedBuffers
  <1> HIDE DEF x
  <1>3. off \in Nat
    BY <1>1, <1>2, RoundupFact
  <1> HIDE DEF off
  <1>4. y \in Buffer /\ y.d_off = off
    BY <1>1, <1>3 DEF Buffer
  <1> HIDE DEF y
  <1>5. k \in Nat /\ k >= 1
    OBVIOUS
  <1>6. c \in Seq(Buffer) /\ Len(c) = k /\ c[k] = y /\ \A j \in 1 .. k - 1 : c[j] = b.data[j]
    BY <1>2, <1>4, <1>5
  <1> HIDE DEF c
  <1>7. \A j \in 1 .. k : c[j] = [data[j] EXCEPT !.d_off = c[j].d_off]
    <2> SUFFICES ASSUME NEW j \in 1 .. k PROVE c[j] = [data[j] EXCEPT !.d_off = c[j].d_off]
      OBVIOUS
    <2>1. CASE j = k
      BY <1>4, <1>6, <2>1 DEF y, x
    <2>2. CASE j # k
      <3>1. j \in 1 .. k - 1
        BY <1>5, <2>2
      <3> QED BY <1>2, <1>6, <3>1
    <2> QED BY <2>1, <2>2
  <1>8. PlacedNext(b, data[k]) = [size |-> off + Len(x.d_buf), data |-> c]
    BY DEF PlacedNext, x, off, y, c
  <1>9. off + Len(x.d_buf) \in Nat
    BY <1>1, <1>3
  <1> QED BY <1>6, <1>7, <1>8, <1>9 DEF PlacedBuffers

LEMMA PlacedEach ==
  ASSUME NEW data \in Seq(Buffer), Aligned(data), NEW f, PlacedTurns(data, f)
  PROVE  \A k \in 0 .. Len(data) : PlacedBuffers(data, f[k], k)
  <1> DEFINE S == {k \in 0 .. Len(data) : PlacedBuffers(data, f[k], k)}
  <1>1. Len(data) \in Nat
    OBVIOUS
  <1>2. 0 \in S
    <2>1. f[0] = [size |-> 0, data |-> << >>]
      BY DEF PlacedTurns
    <2>2. << >> \in Seq(Buffer) /\ Len(<< >>) = 0
      OBVIOUS
    <2>3. PlacedBuffers(data, f[0], 0)
      BY <2>1, <2>2 DEF PlacedBuffers
    <2> QED BY <1>1, <2>3
  <1>3. ASSUME NEW k \in 1 .. Len(data), k - 1 \in S PROVE k \in S
    <2>1. f[k] = PlacedNext(f[k - 1], data[k]) /\ data[k].d_align # 0
      BY DEF PlacedTurns, Aligned
    <2>2. PlacedBuffers(data, f[k - 1], k - 1)
      BY <1>3
    <2>3. PlacedBuffers(data, f[k], k)
      BY <2>1, <2>2, PlacedStep
    <2> QED BY <2>3
  <1> HIDE DEF S
  <1>4. 0 .. Len(data) \subseteq S
    BY <1>1, <1>2, <1>3, UpTo
  <1> QED BY <1>4 DEF S

LEMMA PlacedFact ==
  ASSUME NEW data \in Seq(Buffer), Aligned(data)
  PROVE  PlacedBuffers(data, Placed(data), Len(data))
  <1>1. Len(data) \in Nat
    OBVIOUS
  <1>2. PICK f : PlacedTurns(data, f) /\ Placed(data) = f[Len(data)]
    BY <1>1, PlacedTurn
  <1>3. PlacedBuffers(data, f[Len(data)], Len(data))
    <2>1. Len(data) \in 0 .. Len(data)
      BY <1>1
    <2> QED BY <1>2, <2>1, PlacedEach
  <1> QED BY <1>2, <1>3

LEMMA FirstWrongFact ==
  ASSUME NEW d, NEW data \in Seq(Buffer)
  PROVE  LET n == FirstWrong(d, data)
         IN  /\ n \in 1 .. Len(data) + 1
             /\ \A k \in 1 .. Len(data) : k < n => DataSays(d, data[k]) = "ok"
             /\ n <= Len(data) => DataSays(d, data[n]) # "ok"
  <1> DEFINE A == {Len(data) + 1} \cup {k \in DOMAIN data : DataSays(d, data[k]) # "ok"}
  <1>1. Len(data) \in Nat /\ DOMAIN data = 1 .. Len(data)
    OBVIOUS
  <1>2. A \in SUBSET Nat /\ A # {} /\ A \subseteq 1 .. Len(data) + 1
    BY <1>1
  <1>3. \A k \in 1 .. Len(data) : k \notin A => DataSays(d, data[k]) = "ok"
    BY <1>1
  <1>4. \A k \in A : k <= Len(data) => DataSays(d, data[k]) # "ok"
    BY <1>1
  <1>5. PICK n : n = Min(A)
    OBVIOUS
  <1> HIDE DEF A
  <1>6. n \in A /\ \A y \in A : n <= y
    BY <1>2, <1>5, MinFact
  <1>7. \A k \in 1 .. Len(data) : k < n => k \notin A
    BY <1>1, <1>2, <1>6
  <1>8. FirstWrong(d, data) = n
    BY <1>5 DEF FirstWrong, A
  <1> QED BY <1>2, <1>3, <1>4, <1>6, <1>7, <1>8

LEMMA DataSaysFact ==
  ASSUME NEW d, NEW x
  PROVE  DataSays(d, x) \in Words /\ (DataSays(d, x) = "ok" => x.d_align # 0)
  BY DEF DataSays, PowerOf2, Words

\* A section that was placed: s_offset and s_size are those of its header.
Stands(t) == t.s_offset = t.shdr.sh_offset /\ t.s_size = t.shdr.sh_size

\* t is the section s, placed.
Laid(s, t) == /\ t \in Scn /\ t.s_ndx = s.s_ndx /\ t.shdr.sh_type = s.shdr.sh_type /\ Stands(t)

LEMMA DescribedFact ==
  ASSUME NEW s \in Scn
  PROVE  Laid(s, Described(s)) /\ Described(s).data = s.data
  <1>1. s.shdr \in Shdr /\ s.shdr.sh_size \in Nat /\ s.shdr.sh_offset \in Nat
    BY ScnFact, ShdrFact
  <1>2. Described(s) \in Scn
    BY <1>1 DEF Described, Scn
  <1> QED BY <1>1, <1>2 DEF Described, Scn, Laid, Stands

LEMMA AtFact ==
  ASSUME NEW s \in Scn, NEW rc \in Nat, NEW align \in Nat \ {0}, NEW size \in Nat
  PROVE  /\ Laid(s, At(s, rc, align, size)) /\ At(s, rc, align, size).data = s.data
         /\ At(s, rc, align, size).s_offset >= rc
  <1> DEFINE off == Roundup(rc, align)
             h   == [s.shdr EXCEPT !.sh_addralign = align, !.sh_size = size, !.sh_offset = off]
             t   == [s EXCEPT !.shdr = h]
  <1>1. off \in Nat /\ off >= rc
    BY RoundupFact
  <1>2. s.shdr \in Shdr
    BY ScnFact
  <1>3. At(s, rc, align, size) = Described(t)
    BY <1>2 DEF At, Scn, Shdr
  <1> HIDE DEF off
  <1>4. h \in Shdr /\ h.sh_offset = off /\ h.sh_type = s.shdr.sh_type
    BY <1>1, <1>2 DEF Shdr
  <1> HIDE DEF h
  <1>5. t \in Scn /\ t.shdr = h /\ t.data = s.data /\ t.s_ndx = s.s_ndx
    BY <1>4 DEF Scn
  <1> HIDE DEF t
  <1>6. Laid(t, Described(t)) /\ Described(t).data = t.data
    BY <1>5, DescribedFact
  <1>7. Described(t).s_offset = off
    BY <1>4, <1>5 DEF Described, Scn
  <1> QED BY <1>1, <1>3, <1>4, <1>5, <1>6, <1>7 DEF Laid

\* What the extent of a section leaves.
IsPlaced(d, x, i) ==
    /\ x.d \in Elf /\ x.says \in Words /\ But(d, x.d, i)
    /\ x.d.scns[i] \in Scn /\ x.d.scns[i].shdr.sh_type = d.scns[i].shdr.sh_type
    /\ x.says = "ok" => Stands(x.d.scns[i])

LEMMA PutLaid ==
  ASSUME NEW d \in Elf, NEW i \in 1 .. Len(d.scns), NEW t, Laid(d.scns[i], t)
  PROVE  IsPlaced(d, Does(Put(d, i, t), "ok"), i)
  BY PutBut DEF Laid, IsPlaced, Does, Words

LEMMA UntouchedFact ==
  ASSUME NEW d \in Elf, NEW i \in 1 .. Len(d.scns), NEW rc \in Nat
  PROVE  IsPlaced(d, Does(Untouched(d, i, rc), "ok"), i)
  <1>1. PICK s : s = d.scns[i]
    OBVIOUS
  <1>2. s \in Scn /\ OwnAlign(s.shdr) \in Nat \ {0} /\ s.shdr.sh_size \in Nat
    BY <1>1, ElfFact, ScnFact, ShdrFact, OwnAlignFact
  <1>3. Laid(s, Described(s)) /\ Laid(s, At(s, rc, OwnAlign(s.shdr), s.shdr.sh_size))
    BY <1>2, DescribedFact, AtFact
  <1>4. CASE Layout(d)
    BY <1>1, <1>3, <1>4, PutLaid DEF Untouched
  <1>5. CASE ~Layout(d)
    BY <1>1, <1>3, <1>5, PutLaid DEF Untouched
  <1> QED BY <1>4, <1>5

LEMMA ByProgramFact ==
  ASSUME NEW d \in Elf, NEW i \in 1 .. Len(d.scns)
  PROVE  IsPlaced(d, ByProgram(d, i), i)
  <1>1. PICK s : s = d.scns[i]
    OBVIOUS
  <1>2. s \in Scn
    BY <1>1, ElfFact
  <1>3. IsPlaced(d, Does(Put(d, i, Described(s)), "ok"), i)
    BY <1>1, <1>2, DescribedFact, PutLaid
  <1>4. IsPlaced(d, Does(d, "LAYOUT"), i)
    BY <1>1, <1>2, ButSame DEF IsPlaced, Does, Words
  <1> QED BY <1>1, <1>3, <1>4 DEF ByProgram

LEMMA ByLibraryFact ==
  ASSUME NEW d \in Elf, NEW i \in 1 .. Len(d.scns), NEW rc \in Nat, Aligned(d.scns[i].data)
  PROVE  IsPlaced(d, ByLibrary(d, i, rc), i)
  <1> DEFINE s0 == d.scns[i]
             p  == Placed(s0.data)
             s  == [s0 EXCEPT !.data = p.data]
             a  == Max({OwnAlign(s.shdr), ScnAlign(s)})
  <1>1. s0 \in Scn /\ s0.data \in Seq(Buffer)
    BY ElfFact, ScnFact
  <1>2. p.size \in Nat /\ p.data \in Seq(Buffer)
    BY <1>1, PlacedFact DEF PlacedBuffers
  <1> HIDE DEF p
  <1>3. s \in Scn /\ s.s_ndx = s0.s_ndx /\ s.shdr = s0.shdr
    BY <1>1, <1>2 DEF Scn
  <1>4. ByLibrary(d, i, rc) = Does(Put(d, i, At(s, rc, a, p.size)), "ok")
    BY DEF ByLibrary, p
  <1> HIDE DEF s
  <1>5. a \in Nat \ {0}
    <2>1. PICK b, c : b = OwnAlign(s.shdr) /\ c = ScnAlign(s)
      OBVIOUS
    <2>2. b \in Nat \ {0} /\ c \in Nat
      BY <1>3, <2>1, OwnAlignFact, ScnAlignFact, ScnFact
    <2>3. Max({b, c}) \in {b, c} /\ Max({b, c}) >= b
      <3>1. b \in Int /\ c \in Int
        BY <2>2
      <3> QED BY <3>1, MaxOfTwo
    <2> QED BY <2>1, <2>2, <2>3
  <1> HIDE DEF a
  <1>6. Laid(s, At(s, rc, a, p.size))
    BY <1>2, <1>3, <1>5, AtFact
  <1>7. Laid(s0, At(s, rc, a, p.size))
    BY <1>3, <1>6 DEF Laid
  <1> QED BY <1>4, <1>7, PutLaid

LEMMA AtWrongFact ==
  ASSUME NEW d \in Elf, NEW i \in 1 .. Len(d.scns), FirstWrong(d, d.scns[i].data) <= Len(d.scns[i].data)
  PROVE  IsPlaced(d, AtWrong(d, i), i)
  <1> DEFINE s    == d.scns[i]
             data == s.data
             k    == FirstWrong(d, data)
             head == SubSeq(data, 1, k - 1)
             tail == SubSeq(data, k, Len(data))
             new  == Placed(head).data \o tail
             t    == [s EXCEPT !.data = new]
             says == DataSays(d, data[k])
  <1>1. s \in Scn /\ data \in Seq(Buffer) /\ Len(data) \in Nat
    BY ElfFact, ScnFact
  <1>2. /\ k \in 1 .. Len(data) /\ says \in Words /\ says # "ok"
        /\ \A j \in 1 .. Len(data) : j < k => data[j].d_align # 0
    BY <1>1, FirstWrongFact, DataSaysFact
  <1>3. AtWrong(d, i) = Does(IF Layout(d) THEN d ELSE Put(d, i, t), says)
    BY DEF AtWrong
  <1> HIDE DEF k, says
  <1>4. head \in Seq(Buffer) /\ Len(head) = k - 1 /\ \A j \in 1 .. k - 1 : head[j] = data[j]
    BY <1>1, <1>2
  <1>5. tail \in Seq(Buffer)
    BY <1>1, <1>2
  <1> HIDE DEF head, tail
  <1>6. Aligned(head)
    <2> SUFFICES ASSUME NEW j \in 1 .. Len(head) PROVE head[j].d_align # 0
      BY DEF Aligned
    <2>1. j \in 1 .. k - 1 /\ j \in 1 .. Len(data) /\ j < k
      BY <1>1, <1>2, <1>4
    <2> QED BY <1>2, <1>4, <2>1
  <1>7. new \in Seq(Buffer)
    <2>1. Placed(head).data \in Seq(Buffer)
      BY <1>4, <1>6, PlacedFact DEF PlacedBuffers
    <2> QED BY <1>5, <2>1
  <1> HIDE DEF new
  <1>8. t \in Scn /\ t.s_ndx = s.s_ndx /\ t.shdr = s.shdr
    BY <1>1, <1>7 DEF Scn
  <1> HIDE DEF t
  <1>9. IsPlaced(d, Does(Put(d, i, t), says), i)
    BY <1>2, <1>8, PutBut DEF IsPlaced, Does
  <1>10. IsPlaced(d, Does(d, says), i)
    BY <1>1, <1>2, ButSame DEF IsPlaced, Does
  <1> QED BY <1>3, <1>9, <1>10

LEMMA PlacingFact ==
  ASSUME NEW d \in Elf, NEW i \in 1 .. Len(d.scns), NEW rc \in Nat
  PROVE  IsPlaced(d, Placing(d, i, rc), i)
  <1> DEFINE data == d.scns[i].data
  <1>1. data \in Seq(Buffer) /\ Len(data) \in Nat
    BY ElfFact, ScnFact
  <1>2. CASE FirstWrong(d, data) <= Len(data)
    BY <1>2, AtWrongFact DEF Placing
  <1>3. CASE ~(FirstWrong(d, data) <= Len(data))
    <2>1. Aligned(data)
      <3>1. FirstWrong(d, data) \in 1 .. Len(data) + 1
            /\ \A k \in 1 .. Len(data) : k < FirstWrong(d, data) => DataSays(d, data[k]) = "ok"
        BY <1>1, FirstWrongFact
      <3>2. \A k \in 1 .. Len(data) : DataSays(d, data[k]) = "ok"
        BY <1>1, <1>3, <3>1
      <3> QED BY <3>2, DataSaysFact DEF Aligned
    <2>2. Placing(d, i, rc) = IF Layout(d) THEN ByProgram(d, i) ELSE ByLibrary(d, i, rc)
      BY <1>3 DEF Placing
    <2> QED BY <2>1, <2>2, ByProgramFact, ByLibraryFact
  <1> QED BY <1>2, <1>3

LEMMA ExtentsFact ==
  ASSUME NEW d \in Elf, NEW i \in 1 .. Len(d.scns), NEW rc \in Nat
  PROVE  IsPlaced(d, Extents(d, i, rc), i)
  <1>1. CASE d.scns[i].data = << >> /\ ~d.scns[i].dirty
    BY <1>1, UntouchedFact DEF Extents
  <1>2. CASE ~(d.scns[i].data = << >> /\ ~d.scns[i].dirty)
    <2>1. PICK x : x = IF d.e_cmd = "WRITE" THEN Does(d, "ok") ELSE WithData(d, i)
      OBVIOUS
    <2>2. Extents(d, i, rc) = IF x.says # "ok" THEN x ELSE Placing(x.d, i, rc)
      BY <1>2, <2>1 DEF Extents
    <2>3. d.scns[i] \in Scn
      BY ElfFact
    <2>4. /\ x.d \in Elf /\ x.says \in Words /\ But(d, x.d, i)
          /\ x.d.scns[i] \in Scn /\ SameHeader(d.scns[i], x.d.scns[i])
      <3>1. CASE d.e_cmd = "WRITE"
        BY <2>1, <2>3, <3>1, ButSame DEF Does, SameHeader, Words
      <3>2. CASE d.e_cmd # "WRITE"
        BY <2>1, <3>2, WithDataFact DEF DataRead
      <3> QED BY <3>1, <3>2
    <2>5. CASE x.says # "ok"
      BY <2>2, <2>4, <2>5 DEF IsPlaced, SameHeader
    <2>6. CASE x.says = "ok"
      <3>1. i \in 1 .. Len(x.d.scns)
        BY <2>4 DEF But, Beside
      <3>2. IsPlaced(x.d, Placing(x.d, i, rc), i)
        BY <2>4, <3>1, PlacingFact
      <3>3. PICK y : y = Placing(x.d, i, rc)
        OBVIOUS
      <3>4. But(d, y.d, i)
        BY <2>4, <3>2, <3>3, ButTrans DEF IsPlaced
      <3> QED BY <2>2, <2>4, <2>6, <3>2, <3>3, <3>4 DEF IsPlaced, SameHeader
    <2> QED BY <2>5, <2>6
  <1> QED BY <1>1, <1>2

-----------------------------------------------------------------------------
(***************************************************************************)
(* The layout.                                                             *)
(***************************************************************************)
Ats == [d : Elf, says : Words, ext : Seq(Extent), rc : Nat, phoff : Nat, shoff : Nat]

ExtentOf(type, start, size, i) ==
    [ex_start |-> start, ex_size |-> size, ex_type |-> type, ex_scn |-> i]

\* What is placed is in order and inside, and the ELF header is there.
Ordering(at) ==
    /\ Ordered(at.ext) /\ at.rc >= 1
    /\ \A x \in Elements(at.ext) : EndOf(x) <= at.rc
    /\ ExtentOf("ehdr", 0, 1, 0) \in Elements(at.ext)

\* Only the first n sections have extents, each where the section is.
Sections(at, n) ==
    \A x \in Elements(at.ext) :
        x.ex_type = "section" => /\ x.ex_scn \in 1 .. n
                                 /\ x.ex_start = at.d.scns[x.ex_scn].s_offset

PhdrPlaced(at) ==
    at.d.e_nphdr # 0 => /\ ExtentOf("phdr", at.phoff, at.d.e_nphdr, 0) \in Elements(at.ext)
                        /\ Layout(at.d) => at.phoff = at.d.ehdr.e_phoff

ShdrPlaced(at) ==
    at.d.e_nscn # 0 => /\ ExtentOf("shdr", at.shoff, at.d.e_nscn, 0) \in Elements(at.ext)
                       /\ Layout(at.d) => at.shoff = at.d.ehdr.e_shoff

HasRoom(s, i, ext) ==
    s.shdr.sh_type = "bits" /\ s.shdr.sh_size # 0 =>
        ExtentOf("section", s.shdr.sh_offset, s.shdr.sh_size, i) \in Elements(ext)

ScnsPlaced(at, n) == \A i \in 1 .. n : HasRoom(at.d.scns[i], i, at.ext)

\* A step that did not fail keeps what was placed.
Good(at, n) == /\ at \in Ats /\ Sound(at.d)
               /\ at.says = "ok" => "ehdr" \in at.d.has /\ Ordering(at) /\ Sections(at, n)

LEMMA AtsFact ==
  ASSUME NEW at \in Ats
  PROVE  /\ at.d \in Elf /\ at.says \in Words /\ at.ext \in Seq(Extent) /\ at.rc \in Nat
         /\ at.phoff \in Nat /\ at.shoff \in Nat
  BY DEF Ats

LEMMA StopFact ==
  ASSUME NEW at \in Ats, NEW says \in Words
  PROVE  /\ Stop(at, says) \in Ats /\ Stop(at, says).says = says /\ Stop(at, says).d = at.d
         /\ Stop(at, says).ext = at.ext /\ Stop(at, says).rc = at.rc
         /\ Stop(at, says).phoff = at.phoff /\ Stop(at, says).shoff = at.shoff
  BY DEF Stop, Ats

\* at with another extent, or refused.
Grown(at, y, x) ==
    /\ y \in Ats /\ y.d = at.d /\ y.rc = at.rc /\ y.phoff = at.phoff /\ y.shoff = at.shoff
    /\ y.says = "ok" => Ordered(y.ext) /\ Elements(y.ext) = Elements(at.ext) \cup {x}

LEMMA InsertFact ==
  ASSUME NEW at \in Ats, Ordered(at.ext), NEW type \in {"ehdr", "phdr", "section", "shdr"},
         NEW start \in Nat, NEW size \in Nat \ {0}, NEW i \in Nat
  PROVE  Grown(at, Insert(at, type, start, size, i), ExtentOf(type, start, size, i))
  <1> DEFINE x == ExtentOf(type, start, size, i)
  <1>1. x \in Extent
    BY DEF ExtentOf, Extent
  <1>2. Insert(at, type, start, size, i) =
            IF Unused(at.ext, x) THEN [at EXCEPT !.ext = Inserted(@, x)] ELSE Stop(at, "LAYOUT")
    BY DEF Insert, ExtentOf
  <1> HIDE DEF x
  <1>3. at.ext \in Seq(Extent)
    BY AtsFact
  <1>4. Grown(at, Stop(at, "LAYOUT"), x)
    BY StopFact DEF Grown, Words
  <1>5. ASSUME Unused(at.ext, x)
        PROVE  Grown(at, [at EXCEPT !.ext = Inserted(@, x)], x)
    <2>1. PICK xs : xs = Inserted(at.ext, x)
      OBVIOUS
    <2>2. xs \in Seq(Extent) /\ Ordered(xs) /\ Elements(xs) = Elements(at.ext) \cup {x}
      BY <1>1, <1>3, <1>5, <2>1, InsertedFact, InsertKeepsOrder, InsertKeepsElements
    <2>3. PICK y : y = [at EXCEPT !.ext = xs]
      OBVIOUS
    <2>4. y = [at EXCEPT !.ext = Inserted(@, x)]
      BY <2>1, <2>3 DEF Ats
    <2>5. /\ y \in Ats /\ y.d = at.d /\ y.rc = at.rc /\ y.phoff = at.phoff /\ y.shoff = at.shoff
          /\ y.ext = xs
      BY <2>2, <2>3 DEF Ats
    <2> QED BY <2>2, <2>4, <2>5 DEF Grown
  <1> QED BY <1>2, <1>4, <1>5 DEF x

\* A section or a table that is placed.
LEMMA GrownGood ==
  ASSUME NEW at \in Ats, NEW n, Ordering(at), Sections(at, n), Sound(at.d), "ehdr" \in at.d.has,
         NEW x \in Extent, EndOf(x) <= at.rc,
         x.ex_type = "section" => /\ x.ex_scn \in 1 .. n
                                  /\ x.ex_start = at.d.scns[x.ex_scn].s_offset,
         NEW y, Grown(at, y, x)
  PROVE  Good(y, n)
  <1>1. y.says = "ok" => Ordering(y) /\ Sections(y, n)
    BY DEF Grown, Ordering, Sections
  <1> QED BY <1>1 DEF Good, Grown

Start(d) ==
    LET x == WithEhdr(d)
    IN  [d |-> x.d, says |-> x.says, ext |-> << >>, rc |-> 1, phoff |-> 0, shoff |-> 0]

Headed(at) == Insert(at, "ehdr", 0, 1, 0)

LEMMA HeadedFact ==
  ASSUME NEW d, Sound(d)
  PROVE  LET at == Then(Start(d), Headed) IN Good(at, 0)
  <1>1. PICK at : at = Start(d)
    OBVIOUS
  <1>2. HeaderRead(d, WithEhdr(d))
    BY WithEhdrFact
  <1>3. << >> \in Seq(Extent) /\ Elements(<< >>) = {} /\ Ordered(<< >>)
    BY DEF Elements, Ordered
  <1>4. /\ at \in Ats /\ Sound(at.d) /\ at.ext = << >> /\ at.rc = 1
        /\ at.says = "ok" => "ehdr" \in at.d.has
    BY <1>1, <1>2, <1>3 DEF Start, HeaderRead, Ats, Sound
  <1>5. PICK x : x = ExtentOf("ehdr", 0, 1, 0)
    OBVIOUS
  <1>6. CASE at.says = "ok"
    <2>1. Grown(at, Headed(at), x)
      <3>1. Ordered(at.ext)
        BY <1>3, <1>4
      <3> QED BY <1>4, <1>5, <3>1, InsertFact DEF Headed
    <2>2. PICK y : y = Headed(at)
      OBVIOUS
    <2>3. Elements(at.ext) \cup {x} = {x}
      BY <1>3, <1>4
    <2>4. EndOf(x) = 1 /\ x.ex_type = "ehdr"
      BY <1>5 DEF ExtentOf, EndOf
    <2>5. y.says = "ok" => Ordering(y) /\ Sections(y, 0)
      <3>1. y.says = "ok" => Ordered(y.ext) /\ Elements(y.ext) = {x} /\ y.rc = 1
        BY <1>4, <2>1, <2>2, <2>3 DEF Grown
      <3>2. y.says = "ok" => Ordering(y)
        BY <1>5, <2>4, <3>1 DEF Ordering
      <3> QED BY <2>4, <3>1, <3>2 DEF Sections
    <2> QED BY <1>1, <1>4, <1>6, <2>1, <2>2, <2>5 DEF Good, Grown, Then
  <1>7. CASE at.says # "ok"
    BY <1>1, <1>4, <1>7 DEF Good, Then
  <1> QED BY <1>6, <1>7

PhdrOff(at) == IF Layout(at.d) THEN at.d.ehdr.e_phoff ELSE Roundup(at.rc, TableAlign)

LEMMA PlacePhdrsFact ==
  ASSUME NEW at, Good(at, 0), at.says = "ok"
  PROVE  /\ Good(PlacePhdrs(at), 0) /\ PlacePhdrs(at).shoff = at.shoff
         /\ PlacePhdrs(at).says = "ok" => PhdrPlaced(PlacePhdrs(at))
  <1> DEFINE n   == at.d.e_nphdr
             off == PhdrOff(at)
             p   == WithPhdr(at.d).d
             with == [at EXCEPT !.d = p, !.rc = off + n, !.phoff = off]
             x   == ExtentOf("phdr", off, n, 0)
             y   == Insert(with, "phdr", off, n, 0)
  <1>0. /\ at \in Ats /\ Sound(at.d) /\ at.d \in Elf /\ "ehdr" \in at.d.has /\ Ordering(at)
        /\ Sections(at, 0) /\ n \in Nat /\ at.rc \in Nat /\ at.d.ehdr.e_phoff \in Nat
    <2>1. at \in Ats /\ Sound(at.d) /\ at.d \in Elf /\ at.rc \in Nat /\ "ehdr" \in at.d.has
          /\ Ordering(at) /\ Sections(at, 0)
      BY AtsFact DEF Good
    <2>2. n \in Nat /\ at.d.ehdr \in Ehdr
      BY <2>1, ElfFact
    <2> QED BY <2>1, <2>2 DEF Ehdr
  <1>1. off \in Nat
    BY <1>0, Constants, RoundupFact DEF PhdrOff
  <1>2. CASE n = 0
    <2>1. PlacePhdrs(at) = at
      BY <1>2 DEF PlacePhdrs
    <2> QED BY <1>2, <2>1 DEF PhdrPlaced
  <1>3. CASE n # 0 /\ Layout(at.d) /\ (at.rc > off \/ off % TableAlign # 0)
    <2>1. PlacePhdrs(at) = Stop(at, "LAYOUT")
      BY <1>3 DEF PlacePhdrs, PhdrOff
    <2>2. "LAYOUT" \in Words /\ "LAYOUT" # "ok"
      BY DEF Words
    <2> QED BY <1>0, <2>1, <2>2, StopFact DEF Good
  <1>4. CASE n # 0 /\ ~(Layout(at.d) /\ (at.rc > off \/ off % TableAlign # 0))
    <2>1. PlacePhdrs(at) = y
      <3>1. [at EXCEPT !.d = WithPhdr(@).d, !.rc = off + n, !.phoff = off] = with
        BY <1>0 DEF Ats
      <3> QED BY <1>4, <3>1 DEF PlacePhdrs, PhdrOff
    <2>2. off >= at.rc
      <3>1. CASE Layout(at.d)
        BY <1>0, <1>1, <1>4, <3>1
      <3>2. CASE ~Layout(at.d)
        BY <1>0, <3>2, Constants, RoundupFact DEF PhdrOff
      <3> QED BY <3>1, <3>2
    <2>3. PhdrRead(at.d, WithPhdr(at.d))
      BY <1>0, WithPhdrFact
    <2>4. /\ p \in Elf /\ Sound(p) /\ "ehdr" \in p.has /\ p.scns = at.d.scns /\ p.ehdr = at.d.ehdr
          /\ p.e_nphdr = n /\ (Layout(p) <=> Layout(at.d))
      <3>1. Sound(p) /\ "ehdr" \in p.has /\ p.scns = at.d.scns /\ p.ehdr = at.d.ehdr /\ p.e_nphdr = n
        BY <2>3 DEF PhdrRead
      <3>2. "LAYOUT" \in p.has \ {"phdr"} <=> "LAYOUT" \in at.d.has \ {"phdr"}
        BY <2>3 DEF PhdrRead
      <3> QED BY <3>1, <3>2 DEF Sound, Layout
    <2> HIDE DEF p, off
    <2>5. /\ with \in Ats /\ with.d = p /\ with.rc = off + n /\ with.phoff = off /\ with.ext = at.ext
          /\ with.shoff = at.shoff
      <3>1. off + n \in Nat
        BY <1>0, <1>1
      <3>2. PICK rc : rc = off + n
        OBVIOUS
      <3> QED BY <1>0, <1>1, <2>4, <3>1, <3>2 DEF Ats
    <2>6. x \in Extent /\ EndOf(x) = off + n /\ x.ex_type = "phdr"
      BY <1>0, <1>1, <1>4 DEF ExtentOf, Extent, EndOf
    <2>7. Ordering(with) /\ Sections(with, 0)
      <3>1. at.rc \in Nat /\ at.rc >= 1 /\ at.ext \in Seq(Extent) /\ off + n \in Nat /\ off + n >= at.rc
        BY <1>0, <1>1, <2>2, AtsFact DEF Ordering
      <3>2. \A z \in Elements(with.ext) : EndOf(z) <= with.rc
        <4> SUFFICES ASSUME NEW z \in Elements(at.ext) PROVE EndOf(z) <= off + n
          BY <2>5
        <4>1. EndOf(z) <= at.rc /\ EndOf(z) \in Nat
          BY <1>0, <3>1, ElementFact DEF Ordering, Elements
        <4> QED BY <3>1, <4>1
      <3>3. with.rc >= 1
        BY <2>5, <3>1
      <3> HIDE DEF with
      <3> QED BY <1>0, <2>4, <2>5, <3>2, <3>3 DEF Ordering, Sections
    <2> HIDE DEF with
    <2>8. Grown(with, y, x)
      BY <1>0, <1>1, <1>4, <2>5, <2>7, InsertFact DEF Ordering
    <2> HIDE DEF y, x
    <2>9. Good(y, 0)
      BY <1>0, <1>1, <2>4, <2>5, <2>6, <2>7, <2>8, GrownGood
    <2>10. y.says = "ok" => PhdrPlaced(y)
      <3>1. y.d = p /\ y.phoff = off /\ (y.says = "ok" => x \in Elements(y.ext))
        BY <2>5, <2>8 DEF Grown
      <3> QED BY <2>4, <3>1 DEF PhdrPlaced, x, off, PhdrOff
    <2> QED BY <2>1, <2>5, <2>8, <2>9, <2>10 DEF Grown
  <1> QED BY <1>2, <1>3, <1>4

\* A step that looks at the i-th section disturbs nothing placed before it.
LEMMA KeptPlaced ==
  ASSUME NEW b \in Ats, NEW i \in Nat \ {0}, Ordering(b), Sections(b, i - 1), Sound(b.d),
         "ehdr" \in b.d.has, PhdrPlaced(b), ScnsPlaced(b, i - 1), i <= Len(b.d.scns),
         NEW w \in Ats, But(b.d, w.d, i), w.ext = b.ext, w.rc >= b.rc, w.phoff = b.phoff
  PROVE  /\ Ordering(w) /\ Sections(w, i - 1) /\ Sound(w.d) /\ "ehdr" \in w.d.has
         /\ PhdrPlaced(w) /\ ScnsPlaced(w, i - 1)
  <1>0. b.rc \in Nat /\ w.rc \in Nat /\ b.ext \in Seq(Extent) /\ w.d \in Elf
    BY AtsFact
  <1>1. Beside(b.d, w.d) /\ \A j \in 1 .. i - 1 : w.d.scns[j] = b.d.scns[j]
    <2>1. Len(b.d.scns) \in Nat
      BY ElfFact, AtsFact
    <2>2. \A j \in 1 .. i - 1 : j \in 1 .. Len(b.d.scns) /\ j # i
      BY <2>1
    <2> QED BY <2>2 DEF But
  <1>2. Ordering(w)
    <2>1. \A x \in Elements(w.ext) : EndOf(x) <= w.rc
      <3> SUFFICES ASSUME NEW x \in Elements(b.ext) PROVE EndOf(x) <= w.rc
        OBVIOUS
      <3>1. EndOf(x) <= b.rc /\ EndOf(x) \in Nat
        BY <1>0, ElementFact DEF Ordering, Elements
      <3> QED BY <1>0, <3>1
    <2>2. w.rc >= 1
      BY <1>0 DEF Ordering
    <2> QED BY <2>1, <2>2 DEF Ordering
  <1>3. Sections(w, i - 1)
    BY <1>1 DEF Sections
  <1>4. Sound(w.d) /\ "ehdr" \in w.d.has
    BY <1>0, <1>1, BesideSound DEF Beside
  <1>5. PhdrPlaced(w)
    BY <1>1 DEF PhdrPlaced, Beside, Layout
  <1>6. ScnsPlaced(w, i - 1)
    BY <1>1 DEF ScnsPlaced
  <1> QED BY <1>2, <1>3, <1>4, <1>5, <1>6

\* What the turn of a section leaves.
Turned(b, y, i) ==
    /\ Good(y, i) /\ Beside(b.d, y.d) /\ y.shoff = b.shoff
    /\ y.says = "ok" => PhdrPlaced(y) /\ ScnsPlaced(y, i)

LEMMA UpToNext ==
  ASSUME NEW w, NEW i \in Nat \ {0}
  PROVE  /\ Sections(w, i - 1) => Sections(w, i)
         /\ ScnsPlaced(w, i - 1) /\ HasRoom(w.d.scns[i], i, w.ext) => ScnsPlaced(w, i)
  <1>1. \A j \in 1 .. i - 1 : j \in 1 .. i
    OBVIOUS
  <1>2. \A j \in 1 .. i : j = i \/ j \in 1 .. i - 1
    OBVIOUS
  <1> QED BY <1>1, <1>2 DEF Sections, ScnsPlaced

LEMMA PlaceScnFact ==
  ASSUME NEW b, NEW i \in Nat \ {0}, Good(b, i - 1), b.says = "ok", PhdrPlaced(b),
         ScnsPlaced(b, i - 1), i <= Len(b.d.scns)
  PROVE  Turned(b, PlaceScn(b, i), i)
  <1> DEFINE x == Extents(b.d, i, b.rc)
             s == x.d.scns[i]
             with == [b EXCEPT !.d = x.d]
             end  == LargestEnd(b, s)
             room == [with EXCEPT !.rc = end]
             y    == Insert(room, "section", s.s_offset, s.s_size, i)
  <1>0. /\ b \in Ats /\ Sound(b.d) /\ b.d \in Elf /\ "ehdr" \in b.d.has /\ Ordering(b)
        /\ Sections(b, i - 1) /\ b.rc \in Nat /\ Len(b.d.scns) \in Nat /\ i \in 1 .. Len(b.d.scns)
    <2>1. b \in Ats /\ Sound(b.d) /\ b.d \in Elf /\ "ehdr" \in b.d.has /\ Ordering(b)
          /\ Sections(b, i - 1) /\ b.rc \in Nat
      BY AtsFact DEF Good
    <2>2. Len(b.d.scns) \in Nat
      BY <2>1, ElfFact
    <2> QED BY <2>1, <2>2
  <1>1. IsPlaced(b.d, x, i)
    BY <1>0, ExtentsFact
  <1> HIDE DEF x
  <1>2. /\ x.d \in Elf /\ x.says \in Words /\ But(b.d, x.d, i) /\ s \in Scn
        /\ s.shdr.sh_type = b.d.scns[i].shdr.sh_type /\ (x.says = "ok" => Stands(s))
    BY <1>1 DEF IsPlaced
  <1>3. CASE b.d.scns[i].shdr.sh_type \in {"null", "nobits"}
    <2>1. PlaceScn(b, i) = b
      BY <1>3 DEF PlaceScn
    <2>2. HasRoom(b.d.scns[i], i, b.ext)
      BY <1>3 DEF HasRoom
    <2>3. Sections(b, i) /\ ScnsPlaced(b, i)
      BY <1>0, <2>2, UpToNext
    <2> QED BY <1>0, <2>1, <2>3 DEF Turned, Good, Beside
  <1>4. CASE b.d.scns[i].shdr.sh_type \notin {"null", "nobits"}
    <2>1. PlaceScn(b, i) = IF x.says # "ok" THEN Stop(with, x.says) ELSE IF s.s_size = 0 THEN with ELSE y
      BY <1>4 DEF PlaceScn, x
    <2>2. /\ with \in Ats /\ with.d = x.d /\ with.ext = b.ext /\ with.rc = b.rc
          /\ with.phoff = b.phoff /\ with.shoff = b.shoff /\ with.says = "ok"
      BY <1>0, <1>2 DEF Ats
    <2> HIDE DEF with
    <2>3. Beside(b.d, x.d)
      BY <1>2 DEF But
    <2>4. with.rc >= b.rc
      BY <1>0, <2>2
    <2>5. /\ Ordering(with) /\ Sections(with, i - 1) /\ Sound(x.d) /\ "ehdr" \in x.d.has
          /\ PhdrPlaced(with) /\ ScnsPlaced(with, i - 1)
      BY <1>0, <1>2, <2>2, <2>4, KeptPlaced
    <2>6. CASE x.says # "ok"
      <3>1. PICK z : z = Stop(with, x.says)
        OBVIOUS
      <3>2. z \in Ats /\ z.says # "ok" /\ z.d = x.d /\ z.shoff = b.shoff
        BY <1>2, <2>2, <2>6, <3>1, StopFact
      <3> QED BY <2>1, <2>3, <2>5, <2>6, <3>1, <3>2 DEF Turned, Good
    <2>7. CASE x.says = "ok" /\ s.s_size = 0
      <3>1. HasRoom(with.d.scns[i], i, with.ext)
        BY <1>2, <2>2, <2>7 DEF HasRoom, Stands
      <3>2. Sections(with, i) /\ ScnsPlaced(with, i)
        BY <2>5, <3>1, UpToNext
      <3> QED BY <2>1, <2>2, <2>3, <2>5, <2>7, <3>2 DEF Turned, Good
    <2>8. CASE x.says = "ok" /\ s.s_size # 0
      <3>1. s.s_offset \in Nat /\ s.s_size \in Nat \ {0} /\ s.shdr.sh_offset = s.s_offset
            /\ s.shdr.sh_size = s.s_size
        BY <1>2, <2>8, ScnFact DEF Stands
      <3> HIDE DEF s
      <3>2. end \in Nat /\ end >= b.rc /\ end >= s.s_offset + s.s_size
        <4>1. PICK m : m = s.s_offset + s.s_size
          OBVIOUS
        <4>2. m \in Nat /\ m \in Int /\ b.rc \in Int
          BY <1>0, <3>1, <4>1
        <4>3. Max({b.rc, m}) \in {b.rc, m} /\ Max({b.rc, m}) >= b.rc /\ Max({b.rc, m}) >= m
          BY <4>2, MaxOfTwo
        <4> QED BY <1>0, <4>1, <4>2, <4>3 DEF LargestEnd
      <3> HIDE DEF end
      <3>3. /\ room \in Ats /\ room.d = x.d /\ room.ext = b.ext /\ room.rc = end
            /\ room.phoff = b.phoff /\ room.shoff = b.shoff /\ room.says = "ok"
        BY <2>2, <3>2 DEF Ats
      <3> HIDE DEF room
      <3>4. room.rc >= b.rc
        BY <3>2, <3>3
      <3>5. /\ Ordering(room) /\ Sections(room, i - 1) /\ PhdrPlaced(room) /\ ScnsPlaced(room, i - 1)
        BY <1>0, <1>2, <3>3, <3>4, KeptPlaced
      <3>6. PICK e1 : e1 = ExtentOf("section", s.s_offset, s.s_size, i)
        OBVIOUS
      <3>7. /\ e1 \in Extent /\ EndOf(e1) <= room.rc /\ e1.ex_type = "section" /\ e1.ex_scn = i
            /\ e1.ex_start = s.s_offset
        BY <3>1, <3>2, <3>3, <3>6 DEF ExtentOf, Extent, EndOf
      <3>8. Grown(room, y, e1)
        BY <3>1, <3>3, <3>5, <3>6, InsertFact DEF Ordering
      <3> HIDE DEF y
      <3>9. Good(y, i)
        <4>1. Sections(room, i)
          BY <3>5, UpToNext
        <4>2. e1.ex_scn \in 1 .. i /\ e1.ex_start = room.d.scns[e1.ex_scn].s_offset
          BY <3>3, <3>7 DEF s
        <4>3. room.d \in Elf /\ Sound(room.d) /\ "ehdr" \in room.d.has
          BY <1>2, <2>5, <3>3
        <4> QED BY <3>3, <3>5, <3>7, <3>8, <4>1, <4>2, <4>3, GrownGood
      <3>10. ASSUME y.says = "ok"
             PROVE  PhdrPlaced(y) /\ ScnsPlaced(y, i)
        <4>1. /\ y.d = room.d /\ y.phoff = room.phoff
              /\ Elements(y.ext) = Elements(room.ext) \cup {e1}
          BY <3>8, <3>10 DEF Grown
        <4>2. PhdrPlaced(y)
          BY <3>5, <4>1 DEF PhdrPlaced
        <4>3. ScnsPlaced(y, i - 1)
          BY <3>5, <4>1 DEF ScnsPlaced, HasRoom
        <4>4. HasRoom(y.d.scns[i], i, y.ext)
          BY <3>1, <3>3, <3>6, <4>1 DEF HasRoom, s
        <4> QED BY <4>2, <4>3, <4>4, UpToNext
      <3>11. Beside(b.d, y.d) /\ y.shoff = b.shoff
        BY <2>3, <3>3, <3>8 DEF Grown
      <3> QED BY <2>1, <2>8, <3>9, <3>10, <3>11 DEF Turned
    <2> QED BY <2>6, <2>7, <2>8
  <1> QED BY <1>3, <1>4

\* The loop over the sections, turn by turn.
TurnOf(b, i) == IF b.says = "ok" THEN PlaceScn(b, i) ELSE b

FirstTurn(at) == Stop([at EXCEPT !.d = WithShdrs(at.d).d], WithShdrs(at.d).says)

ScnTurns(at, f) ==
    /\ f[0] = FirstTurn(at)
    /\ \A i \in 1 .. Len(WithShdrs(at.d).d.scns) : f[i] = TurnOf(f[i - 1], i)

LEMMA ScnTurn ==
  ASSUME NEW at, Len(WithShdrs(at.d).d.scns) \in Nat
  PROVE  \E f : ScnTurns(at, f) /\ PlaceScns(at) = f[Len(WithShdrs(at.d).d.scns)]
  <1> DEFINE n == Len(WithShdrs(at.d).d.scns)
             first == FirstTurn(at)
             Body(f, m) == [i \in 0 .. m |-> IF i = 0 THEN first ELSE TurnOf(f[i - 1], i)]
             S == {m \in 0 .. n : \E f : f = Body(f, m)}
             after == CHOOSE f : f = Body(f, n)
  <1>0. n \in Nat
    OBVIOUS
  <1>1. 0 \in S
    <2>1. [i \in 0 .. 0 |-> first] = Body([i \in 0 .. 0 |-> first], 0)
      OBVIOUS
    <2> HIDE DEF Body
    <2>2. \E f : f = Body(f, 0)
      BY <2>1
    <2> QED BY <1>0, <2>2
  <1>2. ASSUME NEW m \in 1 .. n, m - 1 \in S PROVE m \in S
    <2>1. PICK f : f = Body(f, m - 1)
      BY <1>2
    <2> DEFINE g == [i \in 0 .. m |-> IF i = m THEN TurnOf(f[m - 1], m) ELSE f[i]]
    <2> HIDE DEF n, first
    <2>2. g = Body(g, m)
      <3>1. ASSUME NEW i \in 0 .. m PROVE g[i] = Body(g, m)[i]
        <4>1. CASE i = m
          BY <1>0, <4>1
        <4>2. CASE i # m
          <5>1. i \in 0 .. m - 1 /\ f[i] = Body(f, m - 1)[i] /\ g[i] = f[i]
            BY <1>0, <2>1, <4>2
          <5>2. i # 0 => g[i - 1] = f[i - 1]
            BY <1>0, <4>2
          <5> QED BY <5>1, <5>2
        <4> QED BY <4>1, <4>2
      <3> QED BY <3>1
    <2> HIDE DEF Body, g
    <2>3. \E g_1 : g_1 = Body(g_1, m)
      BY <2>2
    <2> QED BY <2>3
  <1>3. n \in S
    <2> HIDE DEF S, n
    <2>1. 0 .. n \subseteq S
      BY <1>0, <1>1, <1>2, UpTo
    <2> QED BY <1>0, <2>1
  <1>4. after = Body(after, n)
    <2> HIDE DEF Body, n
    <2> QED BY <1>3
  <1>5. PlaceScns(at) = after[n]
    BY DEF PlaceScns, FirstTurn, TurnOf
  <1> HIDE DEF after
  <1>6. after[0] = first /\ \A i \in 1 .. n : after[i] = TurnOf(after[i - 1], i)
    <2> HIDE DEF n, first
    <2> QED BY <1>0, <1>4
  <1> QED BY <1>5, <1>6 DEF ScnTurns

FirstTurnGood(at, b) ==
    /\ Good(b, 0) /\ b.shoff = at.shoff /\ b.d = WithShdrs(at.d).d /\ b.says = WithShdrs(at.d).says
    /\ b.says = "ok" => PhdrPlaced(b)

LEMMA FirstTurnFact ==
  ASSUME NEW at, Good(at, 0), at.says = "ok", PhdrPlaced(at)
  PROVE  FirstTurnGood(at, FirstTurn(at))
  <1>1. PICK x : x = WithShdrs(at.d)
    OBVIOUS
  <1>2. at \in Ats /\ Sound(at.d) /\ "ehdr" \in at.d.has /\ Ordering(at) /\ Sections(at, 0)
    BY DEF Good
  <1>3. Sound(x.d) /\ x.says \in Words /\ (x.says = "ok" => "ehdr" \in x.d.has) /\ Settled(at.d, x.d)
    BY <1>1, <1>2, WithShdrsFact DEF SectionsRead
  <1>4. PICK w : w = [at EXCEPT !.d = x.d]
    OBVIOUS
  <1>5. /\ w \in Ats /\ w.d = x.d /\ w.ext = at.ext /\ w.rc = at.rc /\ w.phoff = at.phoff
        /\ w.shoff = at.shoff
    BY <1>2, <1>3, <1>4 DEF Ats, Sound
  <1>6. PICK b : b = Stop(w, x.says)
    OBVIOUS
  <1>7. /\ b \in Ats /\ b.d = x.d /\ b.ext = at.ext /\ b.rc = at.rc /\ b.phoff = at.phoff
        /\ b.shoff = at.shoff /\ b.says = x.says
    BY <1>3, <1>5, <1>6, StopFact
  <1>8. b = FirstTurn(at)
    BY <1>1, <1>4, <1>6 DEF FirstTurn
  <1>9. Ordering(b) /\ Sections(b, 0)
    BY <1>2, <1>7 DEF Ordering, Sections
  <1>10. PhdrPlaced(b)
    <2>1. Layout(b.d) <=> Layout(at.d)
      <3>1. "LAYOUT" \in x.d.has \ {"shdrs"} <=> "LAYOUT" \in at.d.has \ {"shdrs"}
        BY <1>3 DEF Settled
      <3> QED BY <1>7, <3>1 DEF Layout
    <2>2. b.d.ehdr = at.d.ehdr /\ b.d.e_nphdr = at.d.e_nphdr
      BY <1>3, <1>7 DEF Settled
    <2> QED BY <1>7, <2>1, <2>2 DEF PhdrPlaced
  <1> QED BY <1>1, <1>3, <1>7, <1>8, <1>9, <1>10 DEF FirstTurnGood, Good

\* What the loop leaves.
AllTurned(at, y) ==
    /\ Good(y, Len(y.d.scns)) /\ y.shoff = at.shoff
    /\ y.says = "ok" => PhdrPlaced(y) /\ ScnsPlaced(y, Len(y.d.scns))

\* What the i-th turn of n leaves.
TurnGood(at, n, b, i) ==
    /\ Good(b, i) /\ b.shoff = at.shoff /\ Len(b.d.scns) = n
    /\ b.says = "ok" => PhdrPlaced(b) /\ ScnsPlaced(b, i)

LEMMA EachTurn ==
  ASSUME NEW at, Good(at, 0), at.says = "ok", PhdrPlaced(at), NEW f, ScnTurns(at, f),
         NEW n, n = Len(WithShdrs(at.d).d.scns)
  PROVE  n \in Nat /\ \A i \in 0 .. n : TurnGood(at, n, f[i], i)
  <1>1. PICK c : c = WithShdrs(at.d).d /\ n = Len(c.scns)
    OBVIOUS
  <1>2. FirstTurnGood(at, FirstTurn(at))
    BY FirstTurnFact
  <1>3. n \in Nat
    <2>1. c \in Elf
      BY <1>1, <1>2 DEF FirstTurnGood, Good, Sound
    <2> QED BY <1>1, <2>1, ElfFact
  <1> DEFINE S == {i \in 0 .. n : TurnGood(at, n, f[i], i)}
  <1>5. 0 \in S
    <2>1. f[0] = FirstTurn(at)
      BY DEF ScnTurns
    <2>2. ScnsPlaced(f[0], 0)
      BY DEF ScnsPlaced
    <2> QED BY <1>1, <1>2, <1>3, <2>1, <2>2 DEF FirstTurnGood, TurnGood
  <1>6. ASSUME NEW i \in 1 .. n, i - 1 \in S PROVE i \in S
    <2>1. f[i] = TurnOf(f[i - 1], i)
      BY <1>1 DEF ScnTurns
    <2>2. PICK b : b = f[i - 1]
      OBVIOUS
    <2>3. TurnGood(at, n, b, i - 1)
      BY <1>6, <2>2
    <2>4. i \in Nat \ {0} /\ i <= n
      BY <1>3
    <2>5. CASE b.says = "ok"
      <3>1. Turned(b, PlaceScn(b, i), i)
        BY <2>3, <2>4, <2>5, PlaceScnFact DEF TurnGood
      <3>2. TurnGood(at, n, PlaceScn(b, i), i)
        BY <2>3, <3>1 DEF Turned, Beside, TurnGood
      <3> QED BY <2>1, <2>2, <2>5, <3>2 DEF TurnOf
    <2>6. CASE b.says # "ok"
      <3>1. TurnGood(at, n, b, i)
        BY <2>3, <2>6 DEF Good, TurnGood
      <3> QED BY <2>1, <2>2, <2>6, <3>1 DEF TurnOf
    <2> QED BY <2>5, <2>6
  <1> HIDE DEF S
  <1>7. 0 .. n \subseteq S
    BY <1>3, <1>5, <1>6, UpTo
  <1> QED BY <1>3, <1>7 DEF S

LEMMA PlaceScnsFact ==
  ASSUME NEW at, Good(at, 0), at.says = "ok", PhdrPlaced(at)
  PROVE  AllTurned(at, PlaceScns(at))
  <1>1. PICK c, n : c = WithShdrs(at.d).d /\ n = Len(c.scns)
    OBVIOUS
  <1>2. FirstTurnGood(at, FirstTurn(at))
    BY FirstTurnFact
  <1>3. n \in Nat
    <2>1. c \in Elf
      BY <1>1, <1>2 DEF FirstTurnGood, Good, Sound
    <2> QED BY <1>1, <2>1, ElfFact
  <1>4. PICK f : ScnTurns(at, f) /\ PlaceScns(at) = f[n]
    BY <1>1, <1>3, ScnTurn
  <1>5. TurnGood(at, n, f[n], n)
    BY <1>1, <1>3, <1>4, EachTurn
  <1> QED BY <1>4, <1>5 DEF AllTurned, TurnGood

ShdrOff(at) == IF Layout(at.d) THEN at.d.ehdr.e_shoff ELSE Roundup(at.rc, TableAlign)

\* The whole layout, but for the header's fields.
LaidOut(y) ==
    /\ Good(y, Len(y.d.scns))
    /\ y.says = "ok" => PhdrPlaced(y) /\ ShdrPlaced(y) /\ ScnsPlaced(y, Len(y.d.scns))

LEMMA PlaceShdrsFact ==
  ASSUME NEW at, at.says = "ok", Good(at, Len(at.d.scns)), PhdrPlaced(at),
         ScnsPlaced(at, Len(at.d.scns))
  PROVE  LaidOut(PlaceShdrs(at))
  <1> DEFINE n   == at.d.e_nscn
             off == ShdrOff(at)
             end == Max({at.rc, off + n})
             with == [at EXCEPT !.rc = end, !.shoff = off]
             x   == ExtentOf("shdr", off, n, 0)
             y   == Insert(with, "shdr", off, n, 0)
             m   == Len(at.d.scns)
  <1>0. /\ at \in Ats /\ Sound(at.d) /\ at.d \in Elf /\ "ehdr" \in at.d.has /\ Ordering(at)
        /\ Sections(at, m) /\ n \in Nat /\ at.rc \in Nat /\ at.d.ehdr.e_shoff \in Nat
    <2>1. at \in Ats /\ Sound(at.d) /\ at.d \in Elf /\ at.rc \in Nat /\ "ehdr" \in at.d.has
          /\ Ordering(at) /\ Sections(at, m)
      BY AtsFact DEF Good
    <2>2. n \in Nat /\ at.d.ehdr \in Ehdr
      BY <2>1, ElfFact
    <2> QED BY <2>1, <2>2 DEF Ehdr
  <1>1. off \in Nat
    BY <1>0, Constants, RoundupFact DEF ShdrOff
  <1>2. CASE n = 0
    <2>1. PlaceShdrs(at) = at
      BY <1>2 DEF PlaceShdrs
    <2> QED BY <1>2, <2>1 DEF ShdrPlaced, LaidOut
  <1>3. CASE n # 0 /\ Layout(at.d) /\ off % TableAlign # 0
    <2>1. PlaceShdrs(at) = Stop(at, "LAYOUT")
      BY <1>3 DEF PlaceShdrs, ShdrOff
    <2>2. "LAYOUT" \in Words /\ "LAYOUT" # "ok"
      BY DEF Words
    <2> QED BY <1>0, <2>1, <2>2, StopFact DEF LaidOut, Good
  <1>4. CASE n # 0 /\ ~(Layout(at.d) /\ off % TableAlign # 0)
    <2>1. PlaceShdrs(at) = y
      <3>1. [at EXCEPT !.rc = Max({@, off + n}), !.shoff = off] = with
        BY <1>0 DEF Ats
      <3> QED BY <1>4, <3>1 DEF PlaceShdrs, ShdrOff
    <2> HIDE DEF off
    <2>2. end \in Nat /\ end >= at.rc /\ end >= off + n
      <3>1. PICK k : k = off + n
        OBVIOUS
      <3>2. k \in Nat /\ k \in Int /\ at.rc \in Int
        BY <1>0, <1>1, <3>1
      <3>3. Max({at.rc, k}) \in {at.rc, k} /\ Max({at.rc, k}) >= at.rc /\ Max({at.rc, k}) >= k
        BY <3>2, MaxOfTwo
      <3> QED BY <1>0, <3>1, <3>2, <3>3
    <2> HIDE DEF end
    <2>3. /\ with \in Ats /\ with.d = at.d /\ with.rc = end /\ with.shoff = off /\ with.ext = at.ext
          /\ with.phoff = at.phoff
      BY <1>0, <1>1, <2>2 DEF Ats
    <2>4. x \in Extent /\ EndOf(x) = off + n /\ x.ex_type = "shdr"
      BY <1>0, <1>1, <1>4 DEF ExtentOf, Extent, EndOf
    <2> HIDE DEF with
    <2>5. Ordering(with) /\ Sections(with, m)
      <3>1. \A z \in Elements(with.ext) : EndOf(z) <= with.rc
        <4> SUFFICES ASSUME NEW z \in Elements(at.ext) PROVE EndOf(z) <= end
          BY <2>3
        <4>1. at.ext \in Seq(Extent)
          BY <1>0, AtsFact
        <4>2. EndOf(z) <= at.rc /\ EndOf(z) \in Nat
          BY <1>0, <4>1, ElementFact DEF Ordering, Elements
        <4> QED BY <1>0, <2>2, <4>2
      <3>2. with.rc >= 1
        BY <1>0, <2>2, <2>3 DEF Ordering
      <3> QED BY <1>0, <2>3, <3>1, <3>2 DEF Ordering, Sections
    <2>6. Grown(with, y, x)
      BY <1>0, <1>1, <1>4, <2>3, <2>5, InsertFact DEF Ordering
    <2> HIDE DEF y
    <2>7. EndOf(x) <= with.rc
      BY <2>2, <2>3, <2>4
    <2>8. Good(y, m)
      <3> HIDE DEF x, m
      <3> QED BY <1>0, <2>3, <2>4, <2>5, <2>6, <2>7, GrownGood
    <2>9. y.d = at.d /\ y.phoff = at.phoff /\ y.shoff = off
          /\ (y.says = "ok" => Elements(y.ext) = Elements(at.ext) \cup {x})
      BY <2>3, <2>6 DEF Grown
    <2>10. y.says = "ok" => PhdrPlaced(y) /\ ShdrPlaced(y) /\ ScnsPlaced(y, m)
      BY <2>9 DEF PhdrPlaced, ShdrPlaced, ScnsPlaced, HasRoom, off, ShdrOff
    <2> QED BY <2>1, <2>8, <2>9, <2>10 DEF LaidOut
  <1> QED BY <1>2, <1>3, <1>4

\* The numbers in the header, and in the first section where they are
\* extended, which it may have to make.
SameFirst(s, t, extended) ==
    /\ t.s_offset = s.s_offset /\ t.s_ndx = s.s_ndx
    /\ t.shdr.sh_type = s.shdr.sh_type /\ t.shdr.sh_offset = s.shdr.sh_offset
    /\ extended \/ t.shdr.sh_size = s.shdr.sh_size

NumbersSet(d, c) ==
    /\ c \in Elf /\ Sound(c) /\ "ehdr" \in c.has
    /\ c.e_cmd = d.e_cmd /\ c.mapped = d.mapped /\ c.raw = d.raw /\ c.e_nscn = d.e_nscn
    /\ c.e_nphdr = d.e_nphdr /\ c.phdr = d.phdr /\ c.has = d.has
    /\ c.ehdr.e_phoff = d.ehdr.e_phoff /\ c.ehdr.e_shoff = d.ehdr.e_shoff
    /\ d.scns # << >> => Len(c.scns) = Len(d.scns)
                         /\ SameFirst(d.scns[1], c.scns[1], d.e_nscn >= LoReserve)
    /\ d.scns = << >> => Len(c.scns) \in {0, 1}
                         /\ (Len(c.scns) = 1 => c.scns[1].shdr.sh_type = "null")
    /\ \A i \in 2 .. Len(c.scns) : c.scns[i] = d.scns[i]

LEMMA NumbersSetTrans ==
  ASSUME NEW a \in Elf, NEW b, NEW c, NumbersSet(a, b), NumbersSet(b, c)
  PROVE  NumbersSet(a, c)
  <1>0. /\ b \in Elf /\ c \in Elf /\ Len(b.scns) \in Nat /\ Len(c.scns) \in Nat
        /\ Len(a.scns) \in Nat /\ (b.scns = << >> => Len(b.scns) = 0)
        /\ (a.scns # << >> => Len(a.scns) # 0)
    BY ElfFact DEF NumbersSet
  <1>1. CASE a.scns # << >>
    <2>1. Len(b.scns) = Len(a.scns) /\ SameFirst(a.scns[1], b.scns[1], a.e_nscn >= LoReserve)
      BY <1>1 DEF NumbersSet
    <2>2. CASE b.scns # << >>
      <3>1. /\ Len(c.scns) = Len(b.scns) /\ SameFirst(b.scns[1], c.scns[1], b.e_nscn >= LoReserve)
            /\ b.e_nscn = a.e_nscn
        BY <2>2 DEF NumbersSet
      <3>2. SameFirst(a.scns[1], c.scns[1], a.e_nscn >= LoReserve)
        BY <2>1, <3>1 DEF SameFirst
      <3>3. \A i \in 2 .. Len(c.scns) : c.scns[i] = a.scns[i]
        BY <3>1 DEF NumbersSet
      <3> QED BY <1>1, <2>1, <3>1, <3>2, <3>3 DEF NumbersSet
    <2>3. CASE b.scns = << >>
      <3> QED BY <1>0, <1>1, <2>1, <2>3
    <2> QED BY <2>2, <2>3
  <1>2. CASE a.scns = << >>
    <2>1. Len(b.scns) \in {0, 1} /\ (Len(b.scns) = 1 => b.scns[1].shdr.sh_type = "null")
      BY <1>2 DEF NumbersSet
    <2>2. Len(c.scns) \in {0, 1} /\ (Len(c.scns) = 1 => c.scns[1].shdr.sh_type = "null")
      <3>1. CASE b.scns = << >>
        BY <3>1 DEF NumbersSet
      <3>2. CASE b.scns # << >>
        <4>1. Len(c.scns) = Len(b.scns) /\ c.scns[1].shdr.sh_type = b.scns[1].shdr.sh_type
          BY <3>2 DEF NumbersSet, SameFirst
        <4> QED BY <2>1, <4>1
      <3> QED BY <3>1, <3>2
    <2>3. \A i \in 2 .. Len(c.scns) : c.scns[i] = a.scns[i]
      BY <2>2
    <2> QED BY <1>2, <2>2, <2>3 DEF NumbersSet
  <1> QED BY <1>1, <1>2

Scn0Made(d, c) ==
    /\ NumbersSet(d, c) /\ c.ehdr = d.ehdr /\ 1 \in 1 .. Len(c.scns)
    /\ c.scns # << >> /\ c.scns[1] \in Scn

LEMMA WithScn0Fact ==
  ASSUME NEW d, Sound(d), "ehdr" \in d.has
  PROVE  Scn0Made(d, WithScn0(d))
  <1>0. d \in Elf /\ d.scns \in Seq(Scn) /\ Len(d.scns) \in Nat
    BY ElfFact DEF Sound
  <1>1. CASE d.scns # << >>
    <2>1. WithScn0(d) = d
      BY <1>1 DEF WithScn0
    <2>2. 1 \in 1 .. Len(d.scns) /\ d.scns[1] \in Scn
      BY <1>0, <1>1
    <2>3. NumbersSet(d, d)
      BY <1>0, <1>1 DEF NumbersSet, SameFirst
    <2> QED BY <1>1, <2>1, <2>2, <2>3 DEF Scn0Made
  <1>2. CASE d.scns = << >>
    <2>1. PICK s, ss : s = NewScn(0, NoShdr) /\ ss = << s >>
      OBVIOUS
    <2>2. s \in Scn /\ s.s_ndx = 0 /\ s.shdr = NoShdr
      <3>1. 0 \in Nat
        OBVIOUS
      <3> QED BY <2>1, <3>1, NewScnFact, NoHeaders
    <2>3. ss \in Seq(Scn) /\ Len(ss) = 1 /\ ss[1] = s /\ ss # << >>
      BY <2>1, <2>2
    <2>4. PICK c : c = [d EXCEPT !.scns = ss]
      OBVIOUS
    <2>5. WithScn0(d) = c
      BY <1>2, <2>1, <2>4 DEF WithScn0
    <2>6. /\ c \in Elf /\ c.scns = ss
          /\ c.e_cmd = d.e_cmd /\ c.mapped = d.mapped /\ c.raw = d.raw /\ c.e_nscn = d.e_nscn
          /\ c.e_nphdr = d.e_nphdr /\ c.phdr = d.phdr /\ c.has = d.has /\ c.ehdr = d.ehdr
      BY <1>0, <2>3, <2>4 DEF Elf
    <2>7. Len(c.scns) = 1 /\ c.scns[1].s_ndx = 0 /\ c.scns[1].shdr.sh_type = "null"
      BY <2>2, <2>3, <2>6 DEF NoShdr
    <2>10. InPlace(c)
      BY <2>7 DEF InPlace
    <2>8. Sound(c)
      <3>1. Numbering(c)
        BY <2>7, <2>10 DEF Numbering
      <3>2. Unread(c)
        BY <2>6, <2>7, <2>10 DEF Unread, Sound, Counted
      <3> QED BY <2>6, <3>1, <3>2 DEF Sound
    <2>9. NumbersSet(d, c)
      BY <1>2, <2>6, <2>7, <2>8 DEF NumbersSet
    <2> QED BY <2>2, <2>3, <2>5, <2>6, <2>7, <2>9 DEF Scn0Made
  <1> QED BY <1>1, <1>2

\* A number that is put in the first section.
LEMMA MarkFact ==
  ASSUME NEW d, Sound(d), "ehdr" \in d.has, d.scns # << >>, NEW h \in Shdr,
         h.sh_type = d.scns[1].shdr.sh_type, h.sh_offset = d.scns[1].shdr.sh_offset,
         d.e_nscn >= LoReserve \/ h.sh_size = d.scns[1].shdr.sh_size,
         NEW k \in Ehdr, k.e_phoff = d.ehdr.e_phoff, k.e_shoff = d.ehdr.e_shoff
  PROVE  NumbersSet(d, [Mark(d, h) EXCEPT !.ehdr = k])
  <1>0. /\ d \in Elf /\ d.scns \in Seq(Scn) /\ Len(d.scns) \in Nat /\ 1 \in 1 .. Len(d.scns)
        /\ d.scns[1] \in Scn
    BY ElfFact DEF Sound
  <1>1. PICK s, t : s = d.scns[1] /\ t = [s EXCEPT !.shdr = h, !.dirty = TRUE]
    OBVIOUS
  <1>2. /\ t \in Scn /\ t.s_ndx = d.scns[1].s_ndx /\ t.s_offset = d.scns[1].s_offset
        /\ t.shdr = h
    BY <1>0, <1>1 DEF Scn
  <1>3. PICK c : c = Put(d, 1, t)
    OBVIOUS
  <1>4. /\ c \in Elf /\ Beside(d, c) /\ c.scns[1] = t
        /\ \A j \in 1 .. Len(d.scns) : j # 1 => c.scns[j] = d.scns[j]
    BY <1>0, <1>2, <1>3, PutFact
  <1>5. Mark(d, h) = c
    BY <1>1, <1>3 DEF Mark
  <1>6. PICK b : b = [c EXCEPT !.ehdr = k]
    OBVIOUS
  <1>7. /\ b \in Elf /\ b.ehdr = k /\ b.scns = c.scns /\ b.e_cmd = c.e_cmd /\ b.mapped = c.mapped
        /\ b.raw = c.raw /\ b.e_nscn = c.e_nscn /\ b.e_nphdr = c.e_nphdr /\ b.phdr = c.phdr
        /\ b.has = c.has
    BY <1>4, <1>6 DEF Elf
  <1>8. Sound(b)
    <2>1. SameNumbers(d, b)
      BY <1>4, <1>7 DEF SameNumbers, Beside, Sound, Unread, Counted
    <2> QED BY <1>7, <2>1, SameNumbersSound
  <1>9. SameFirst(d.scns[1], b.scns[1], d.e_nscn >= LoReserve)
    <2>1. b.scns[1] = t
      BY <1>4, <1>7
    <2>2. /\ t.s_offset = d.scns[1].s_offset /\ t.s_ndx = d.scns[1].s_ndx
          /\ t.shdr.sh_type = d.scns[1].shdr.sh_type
          /\ t.shdr.sh_offset = d.scns[1].shdr.sh_offset
          /\ (d.e_nscn >= LoReserve \/ t.shdr.sh_size = d.scns[1].shdr.sh_size)
      BY <1>2
    <2> QED BY <2>1, <2>2, Zenon DEF SameFirst
  <1>10. NumbersSet(d, b)
    BY <1>0, <1>4, <1>7, <1>8, <1>9 DEF NumbersSet, Beside
  <1> QED BY <1>5, <1>6, <1>10

LEMMA HeaderSet ==
  ASSUME NEW d, Sound(d), "ehdr" \in d.has,
         NEW k \in Ehdr, k.e_phoff = d.ehdr.e_phoff, k.e_shoff = d.ehdr.e_shoff
  PROVE  NumbersSet(d, [d EXCEPT !.ehdr = k])
  <1>0. d \in Elf /\ Len(d.scns) \in Nat
    BY ElfFact DEF Sound
  <1>1. PICK c : c = [d EXCEPT !.ehdr = k]
    OBVIOUS
  <1>2. /\ c \in Elf /\ c.ehdr = k /\ c.scns = d.scns /\ c.e_cmd = d.e_cmd /\ c.mapped = d.mapped
        /\ c.raw = d.raw /\ c.e_nscn = d.e_nscn /\ c.e_nphdr = d.e_nphdr /\ c.phdr = d.phdr
        /\ c.has = d.has
    BY <1>0, <1>1 DEF Elf
  <1>3. SameNumbers(d, c)
    BY <1>2 DEF SameNumbers, Sound, Unread, Counted
  <1>4. Sound(c)
    BY <1>2, <1>3, SameNumbersSound
  <1>5. NumbersSet(d, c)
    BY <1>0, <1>2, <1>4 DEF NumbersSet, SameFirst
  <1> QED BY <1>1, <1>5

LEMMA SetPhnumFact ==
  ASSUME NEW d, Sound(d), "ehdr" \in d.has
  PROVE  NumbersSet(d, SetPhnum(d))
  <1>0. d \in Elf /\ d.ehdr \in Ehdr /\ d.e_nphdr \in Nat /\ PnXnum \in Nat
    BY ElfFact, Constants DEF Sound
  <1>1. CASE d.e_nphdr < PnXnum
    <2>1. PICK k : k = [d.ehdr EXCEPT !.e_phnum = d.e_nphdr]
      OBVIOUS
    <2>2. k \in Ehdr /\ k.e_phoff = d.ehdr.e_phoff /\ k.e_shoff = d.ehdr.e_shoff
      BY <1>0, <2>1 DEF Ehdr
    <2>3. SetPhnum(d) = [d EXCEPT !.ehdr = k]
      BY <1>0, <1>1, <2>1 DEF SetPhnum, Elf
    <2> QED BY <2>2, <2>3, HeaderSet
  <1>2. CASE ~(d.e_nphdr < PnXnum)
    <2>1. PICK w : w = WithScn0(d)
      OBVIOUS
    <2>2. Scn0Made(d, w)
      BY <2>1, WithScn0Fact
    <2>3. w \in Elf /\ Sound(w) /\ "ehdr" \in w.has /\ w.ehdr = d.ehdr /\ w.scns # << >> /\ w.scns[1] \in Scn
      BY <2>2 DEF Scn0Made, NumbersSet
    <2>4. PICK g, h, k : /\ g = w.scns[1].shdr /\ h = [g EXCEPT !.sh_info = d.e_nphdr]
                         /\ k = [w.ehdr EXCEPT !.e_phnum = PnXnum]
      OBVIOUS
    <2>5. g \in Shdr
      BY <2>3, <2>4, ScnFact
    <2>6. h \in Shdr /\ h.sh_type = g.sh_type /\ h.sh_offset = g.sh_offset /\ h.sh_size = g.sh_size
      BY <1>0, <2>4, <2>5 DEF Shdr
    <2>7. k \in Ehdr /\ k.e_phoff = w.ehdr.e_phoff /\ k.e_shoff = w.ehdr.e_shoff
      BY <1>0, <2>3, <2>4 DEF Ehdr
    <2>8. SetPhnum(d) = [Mark(w, h) EXCEPT !.ehdr = k]
      <3>1. Mark(w, h).ehdr = w.ehdr
        BY <2>3 DEF Mark, Put, Elf
      <3>2. SetPhnum(d) = [Mark(w, h) EXCEPT !.ehdr.e_phnum = PnXnum]
        BY <1>2, <2>1, <2>4 DEF SetPhnum
      <3>3. Mark(w, h) \in Elf \/ Mark(w, h) = [w EXCEPT !.scns = [@ EXCEPT ![1] = [w.scns[1] EXCEPT !.shdr = h, !.dirty = TRUE]]]
        BY DEF Mark, Put
      <3> QED BY <2>3, <2>4, <3>1, <3>2, <3>3 DEF Elf
    <2>9. NumbersSet(w, SetPhnum(d))
      <3>1. /\ h.sh_type = w.scns[1].shdr.sh_type /\ h.sh_offset = w.scns[1].shdr.sh_offset
            /\ h.sh_size = w.scns[1].shdr.sh_size
        BY <2>4, <2>6
      <3>2. NumbersSet(w, [Mark(w, h) EXCEPT !.ehdr = k])
        BY ONLY <2>3, <2>6, <2>7, <3>1, MarkFact
      <3> QED BY <2>8, <3>2
    <2> QED BY <1>0, <2>2, <2>9, NumbersSetTrans DEF Scn0Made
  <1> QED BY <1>1, <1>2

LEMMA SetShnumFact ==
  ASSUME NEW d, Sound(d), "ehdr" \in d.has
  PROVE  NumbersSet(d, SetShnum(d))
  <1>0. d \in Elf /\ d.ehdr \in Ehdr /\ d.e_nscn \in Nat /\ LoReserve \in Nat
    BY ElfFact, Constants DEF Sound
  <1>1. CASE d.e_nscn < LoReserve
    <2>1. PICK k : k = [d.ehdr EXCEPT !.e_shnum = d.e_nscn]
      OBVIOUS
    <2>2. k \in Ehdr /\ k.e_phoff = d.ehdr.e_phoff /\ k.e_shoff = d.ehdr.e_shoff
      BY <1>0, <2>1 DEF Ehdr
    <2>3. SetShnum(d) = [d EXCEPT !.ehdr = k]
      BY <1>0, <1>1, <2>1 DEF SetShnum, Elf
    <2> QED BY <2>2, <2>3, HeaderSet
  <1>2. CASE ~(d.e_nscn < LoReserve)
    <2>1. PICK w : w = WithScn0(d)
      OBVIOUS
    <2>2. Scn0Made(d, w)
      BY <2>1, WithScn0Fact
    <2>3. /\ w \in Elf /\ Sound(w) /\ "ehdr" \in w.has /\ w.ehdr = d.ehdr /\ w.scns # << >>
          /\ w.scns[1] \in Scn /\ w.e_nscn = d.e_nscn
      BY <2>2 DEF Scn0Made, NumbersSet
    <2>4. PICK g, h, k : /\ g = w.scns[1].shdr /\ h = [g EXCEPT !.sh_size = d.e_nscn]
                         /\ k = [w.ehdr EXCEPT !.e_shnum = 0]
      OBVIOUS
    <2>5. g \in Shdr
      BY <2>3, <2>4, ScnFact
    <2>6. h \in Shdr /\ h.sh_type = g.sh_type /\ h.sh_offset = g.sh_offset
      BY <1>0, <2>4, <2>5 DEF Shdr
    <2>7. k \in Ehdr /\ k.e_phoff = w.ehdr.e_phoff /\ k.e_shoff = w.ehdr.e_shoff
      BY <1>0, <2>3, <2>4 DEF Ehdr
    <2>8. SetShnum(d) = [Mark(w, h) EXCEPT !.ehdr = k]
      <3>1. Mark(w, h).ehdr = w.ehdr
        BY <2>3 DEF Mark, Put, Elf
      <3>2. SetShnum(d) = [Mark(w, h) EXCEPT !.ehdr.e_shnum = 0]
        BY <1>2, <2>1, <2>4 DEF SetShnum
      <3> QED BY <2>3, <2>4, <3>1, <3>2 DEF Elf, Mark, Put
    <2>9. w.e_nscn >= LoReserve
      BY <1>0, <1>2, <2>3
    <2>10. NumbersSet(w, SetShnum(d))
      <3>1. h.sh_type = w.scns[1].shdr.sh_type /\ h.sh_offset = w.scns[1].shdr.sh_offset
        BY <2>4, <2>6
      <3>2. NumbersSet(w, [Mark(w, h) EXCEPT !.ehdr = k])
        BY ONLY <2>3, <2>6, <2>7, <2>9, <3>1, MarkFact
      <3> QED BY <2>8, <3>2
    <2> QED BY <1>0, <2>2, <2>10, NumbersSetTrans DEF Scn0Made
  <1> QED BY <1>1, <1>2

\* Where everything is that has a place, the sections' headers as d has them.
TidyIn(d, rc, xs) ==
    /\ Ordered(xs) /\ \A x \in Elements(xs) : EndOf(x) <= rc
    /\ ExtentOf("ehdr", 0, 1, 0) \in Elements(xs)
    /\ d.e_nphdr # 0 => ExtentOf("phdr", d.ehdr.e_phoff, d.e_nphdr, 0) \in Elements(xs)
    /\ d.e_nscn # 0 => ExtentOf("shdr", d.ehdr.e_shoff, d.e_nscn, 0) \in Elements(xs)
    /\ \A i \in 1 .. Len(d.scns) :
          ~(i = 1 /\ d.e_nscn >= LoReserve) => HasRoom(d.scns[i], i, xs)

Tidy(d, rc) == \E xs \in Seq(Extent) : TidyIn(d, rc, xs)

Resynced(at) == Good(at, Len(at.d.scns)) /\ (at.says = "ok" => TidyIn(at.d, at.rc, at.ext))

Finish(at) ==
    LET d1 == SetShnum(SetPhnum(at.d)) IN [at EXCEPT !.d = SetTables([at EXCEPT !.d = d1])]

\* The places of the tables, put in the header.
LEMMA SetTablesFact ==
  ASSUME NEW at \in Ats, Sound(at.d), "ehdr" \in at.d.has
  PROVE  LET c == SetTables(at)
         IN  /\ c \in Elf /\ Sound(c) /\ c.has = at.d.has /\ c.scns = at.d.scns
             /\ c.e_nscn = at.d.e_nscn /\ c.e_nphdr = at.d.e_nphdr
             /\ c.ehdr.e_phoff = IF Layout(at.d) THEN at.d.ehdr.e_phoff ELSE at.phoff
             /\ c.ehdr.e_shoff = IF Layout(at.d) THEN at.d.ehdr.e_shoff ELSE at.shoff
  <1>0. /\ at.d \in Elf /\ at.phoff \in Nat /\ at.shoff \in Nat /\ at.d.ehdr \in Ehdr
    BY AtsFact, ElfFact
  <1>1. CASE Layout(at.d)
    <2>1. SetTables(at) = at.d
      BY <1>1 DEF SetTables
    <2> QED BY <1>0, <1>1, <2>1
  <1>2. CASE ~Layout(at.d)
    <2>1. PICK k : k = [at.d.ehdr EXCEPT !.e_phoff = at.phoff, !.e_shoff = at.shoff]
      OBVIOUS
    <2>2. k \in Ehdr /\ k.e_phoff = at.phoff /\ k.e_shoff = at.shoff
      BY <1>0, <2>1 DEF Ehdr
    <2>3. PICK c : c = [at.d EXCEPT !.ehdr = k]
      OBVIOUS
    <2>4. SetTables(at) = c
      BY <1>0, <1>2, <2>1, <2>3 DEF SetTables, Elf
    <2>5. /\ c \in Elf /\ c.ehdr = k /\ c.scns = at.d.scns /\ c.e_cmd = at.d.e_cmd
          /\ c.raw = at.d.raw /\ c.e_nscn = at.d.e_nscn /\ c.e_nphdr = at.d.e_nphdr
          /\ c.phdr = at.d.phdr /\ c.has = at.d.has
      BY <1>0, <2>2, <2>3 DEF Elf
    <2>6. SameNumbers(at.d, c)
      BY <2>5 DEF SameNumbers, Sound, Unread, Counted
    <2>7. Sound(c)
      BY <2>5, <2>6, SameNumbersSound
    <2> QED BY <1>2, <2>2, <2>4, <2>5, <2>7
  <1> QED BY <1>1, <1>2

LEMMA FinishFact ==
  ASSUME NEW at, LaidOut(at), at.says = "ok"
  PROVE  Resynced(Finish(at))
  <1>0. /\ at \in Ats /\ Sound(at.d) /\ at.d \in Elf /\ "ehdr" \in at.d.has /\ Ordering(at)
        /\ Sections(at, Len(at.d.scns)) /\ PhdrPlaced(at) /\ ShdrPlaced(at)
        /\ ScnsPlaced(at, Len(at.d.scns)) /\ at.d.scns \in Seq(Scn) /\ Len(at.d.scns) \in Nat
        /\ at.ext \in Seq(Extent)
    BY AtsFact, ElfFact DEF LaidOut, Good
  <1>1. PICK c : c = SetShnum(SetPhnum(at.d))
    OBVIOUS
  <1>2. NumbersSet(at.d, c)
    <2>1. NumbersSet(at.d, SetPhnum(at.d))
      BY <1>0, SetPhnumFact
    <2>2. NumbersSet(SetPhnum(at.d), c)
      BY <1>1, <2>1, SetShnumFact DEF NumbersSet
    <2> QED BY <1>0, <2>1, <2>2, NumbersSetTrans
  <1>3. PICK w : w = [at EXCEPT !.d = c]
    OBVIOUS
  <1>4. /\ w \in Ats /\ w.d = c /\ w.says = "ok" /\ w.ext = at.ext /\ w.rc = at.rc
        /\ w.phoff = at.phoff /\ w.shoff = at.shoff
    BY <1>0, <1>2, <1>3 DEF Ats, NumbersSet
  <1>5. PICK b : b = SetTables(w)
    OBVIOUS
  <1>6. /\ b \in Elf /\ Sound(b) /\ b.has = c.has /\ b.scns = c.scns
        /\ b.e_nscn = c.e_nscn /\ b.e_nphdr = c.e_nphdr
        /\ b.ehdr.e_phoff = IF Layout(c) THEN c.ehdr.e_phoff ELSE at.phoff
        /\ b.ehdr.e_shoff = IF Layout(c) THEN c.ehdr.e_shoff ELSE at.shoff
    BY <1>2, <1>4, <1>5, SetTablesFact DEF NumbersSet
  <1>7. PICK y : y = [w EXCEPT !.d = b]
    OBVIOUS
  <1>8. /\ y \in Ats /\ y.d = b /\ y.says = "ok" /\ y.ext = at.ext /\ y.rc = at.rc
    BY <1>4, <1>6, <1>7 DEF Ats
  <1>9. Finish(at) = y
    <2>1. [at EXCEPT !.d = b] = y
      BY <1>0, <1>2, <1>3, <1>6, <1>7 DEF Ats, NumbersSet
    <2> QED BY <1>1, <1>3, <1>5, <2>1 DEF Finish
  <1>10. /\ at.d.scns # << >> => Len(b.scns) = Len(at.d.scns)
         /\ at.d.scns # << >> => SameFirst(at.d.scns[1], b.scns[1], at.d.e_nscn >= LoReserve)
         /\ at.d.scns = << >> => /\ Len(b.scns) \in {0, 1}
                                 /\ Len(b.scns) = 1 => b.scns[1].shdr.sh_type = "null"
         /\ \A i \in 2 .. Len(b.scns) : b.scns[i] = at.d.scns[i]
         /\ b.e_nscn = at.d.e_nscn /\ b.e_nphdr = at.d.e_nphdr
         /\ Layout(c) <=> Layout(at.d)
         /\ c.ehdr.e_phoff = at.d.ehdr.e_phoff /\ c.ehdr.e_shoff = at.d.ehdr.e_shoff
    BY <1>2, <1>6 DEF NumbersSet, Layout
  <1>11. Ordering(y)
    BY <1>0, <1>8 DEF Ordering
  <1>12. Sections(y, Len(b.scns))
    <2> SUFFICES ASSUME NEW x \in Elements(at.ext), x.ex_type = "section"
                 PROVE  x.ex_scn \in 1 .. Len(b.scns) /\ x.ex_start = b.scns[x.ex_scn].s_offset
      BY <1>8 DEF Sections
    <2>1. x.ex_scn \in 1 .. Len(at.d.scns) /\ x.ex_start = at.d.scns[x.ex_scn].s_offset
      BY <1>0 DEF Sections
    <2>2. at.d.scns # << >>
      BY <1>0, <2>1
    <2>3. b.scns[x.ex_scn].s_offset = at.d.scns[x.ex_scn].s_offset
      <3>1. CASE x.ex_scn = 1
        BY <1>10, <2>2, <3>1 DEF SameFirst
      <3>2. CASE x.ex_scn # 1
        BY <1>10, <2>1, <2>2, <3>2
      <3> QED BY <3>1, <3>2
    <2> QED BY <1>10, <2>1, <2>2, <2>3
  <1>13. \A i \in 1 .. Len(b.scns) :
            ~(i = 1 /\ b.e_nscn >= LoReserve) => HasRoom(b.scns[i], i, at.ext)
    <2> SUFFICES ASSUME NEW i \in 1 .. Len(b.scns), ~(i = 1 /\ b.e_nscn >= LoReserve)
                 PROVE  HasRoom(b.scns[i], i, at.ext)
      OBVIOUS
    <2>1. CASE i # 1
      <3>1. b.scns[i] = at.d.scns[i] /\ at.d.scns # << >>
        BY <1>6, <1>10, <2>1, ElfFact
      <3> QED BY <1>0, <1>10, <3>1 DEF ScnsPlaced
    <2>2. CASE i = 1 /\ at.d.scns # << >>
      <3>1. SameFirst(at.d.scns[1], b.scns[1], FALSE) /\ 1 \in 1 .. Len(at.d.scns)
        BY <1>10, <2>2 DEF SameFirst
      <3>2. HasRoom(at.d.scns[1], 1, at.ext)
        BY <1>0, <3>1 DEF ScnsPlaced
      <3> QED BY <2>2, <3>1, <3>2 DEF HasRoom, SameFirst
    <2>3. CASE i = 1 /\ at.d.scns = << >>
      <3>1. Len(b.scns) = 1
        BY <1>10, <2>3
      <3> QED BY <1>10, <2>3, <3>1 DEF HasRoom
    <2> QED BY <2>1, <2>2, <2>3
  <1>14. TidyIn(b, y.rc, at.ext)
    <2>1. b.e_nphdr # 0 => ExtentOf("phdr", b.ehdr.e_phoff, b.e_nphdr, 0) \in Elements(at.ext)
      BY <1>0, <1>6, <1>10 DEF PhdrPlaced
    <2>2. b.e_nscn # 0 => ExtentOf("shdr", b.ehdr.e_shoff, b.e_nscn, 0) \in Elements(at.ext)
      BY <1>0, <1>6, <1>10 DEF ShdrPlaced
    <2> QED BY <1>0, <1>8, <1>13, <2>1, <2>2 DEF TidyIn, Ordering
  <1>15. "ehdr" \in b.has
    BY <1>2, <1>6 DEF NumbersSet
  <1> QED BY <1>6, <1>8, <1>9, <1>11, <1>12, <1>14, <1>15 DEF Resynced, Good

LEMMA ResyncFact ==
  ASSUME NEW d, Sound(d)
  PROVE  Resynced(Resync(d))
  <1>1. PICK a, b, c, y : /\ a = Then(Start(d), Headed) /\ b = Then(a, PlacePhdrs)
                          /\ c = Then(b, PlaceScns) /\ y = Then(c, PlaceShdrs)
    OBVIOUS
  <1>2. Resync(d) = Then(y, Finish)
    BY <1>1 DEF Resync, Then, Start, Headed, Finish
  <1>3. Good(a, 0)
    BY <1>1, HeadedFact
  <1>4. Good(b, 0) /\ (b.says = "ok" => PhdrPlaced(b))
    <2>1. CASE a.says = "ok"
      BY <1>1, <1>3, <2>1, PlacePhdrsFact DEF Then
    <2>2. CASE a.says # "ok"
      BY <1>1, <1>3, <2>2 DEF Then
    <2> QED BY <2>1, <2>2
  <1>5. Good(c, Len(c.d.scns)) /\ (c.says = "ok" => PhdrPlaced(c) /\ ScnsPlaced(c, Len(c.d.scns)))
    <2>1. CASE b.says = "ok"
      BY <1>1, <1>4, <2>1, PlaceScnsFact DEF Then, AllTurned
    <2>2. CASE b.says # "ok"
      BY <1>1, <1>4, <2>2 DEF Then, Good
    <2> QED BY <2>1, <2>2
  <1>6. LaidOut(y)
    <2>1. CASE c.says = "ok"
      BY <1>1, <1>5, <2>1, PlaceShdrsFact DEF Then
    <2>2. CASE c.says # "ok"
      BY <1>1, <1>5, <2>2 DEF Then, LaidOut
    <2> QED BY <2>1, <2>2
  <1>7. CASE y.says = "ok"
    BY <1>2, <1>6, <1>7, FinishFact DEF Then
  <1>8. CASE y.says # "ok"
    BY <1>2, <1>6, <1>8 DEF Then, LaidOut, Resynced
  <1> QED BY <1>7, <1>8

-----------------------------------------------------------------------------
(***************************************************************************)
(* What a layout guarantees.                                               *)
(***************************************************************************)
\* Each area has an extent of its own.
OwnerIs(x, k) ==
    \/ k = 1 /\ x.ex_type = "ehdr"
    \/ k = 2 /\ x.ex_type = "phdr"
    \/ k = 3 /\ x.ex_type = "shdr"
    \/ k >= 4 /\ x.ex_type = "section" /\ x.ex_scn = k - 3

LEMMA AreasFact ==
  ASSUME e \in Elf
  PROVE  /\ Len(Areas) = 3 + Len(e.scns) /\ DOMAIN Areas = 1 .. 3 + Len(e.scns)
         /\ Areas[1] = {0}
         /\ Areas[2] = IF e.e_nphdr = 0 THEN {} ELSE Area(e.ehdr.e_phoff, e.e_nphdr)
         /\ Areas[3] = IF e.e_nscn = 0 THEN {} ELSE Area(e.ehdr.e_shoff, e.e_nscn)
         /\ \A i \in 1 .. Len(e.scns) :
               Areas[3 + i] = IF e.scns[i].shdr.sh_type # "bits" \/ (i = 1 /\ e.e_nscn >= LoReserve)
                              THEN {} ELSE Area(e.scns[i].shdr.sh_offset, e.scns[i].shdr.sh_size)
  <1>0. e.scns \in Seq(Scn) /\ Len(e.scns) \in Nat /\ DOMAIN e.scns = 1 .. Len(e.scns)
    BY ElfFact
  <1>1. PICK a, b, f :
           /\ a = IF e.e_nphdr = 0 THEN {} ELSE Area(e.ehdr.e_phoff, e.e_nphdr)
           /\ b = IF e.e_nscn = 0 THEN {} ELSE Area(e.ehdr.e_shoff, e.e_nscn)
           /\ f = [i \in DOMAIN e.scns |->
                      IF e.scns[i].shdr.sh_type # "bits" \/ (i = 1 /\ e.e_nscn >= LoReserve) THEN {}
                      ELSE Area(e.scns[i].shdr.sh_offset, e.scns[i].shdr.sh_size)]
    OBVIOUS
  <1>2. PICK S : S = {f[i] : i \in 1 .. Len(e.scns)}
    OBVIOUS
  <1>3. f \in Seq(S) /\ Len(f) = Len(e.scns)
    BY <1>0, <1>1, <1>2
  <1>4. PICK T : T = S \cup {{0}, a, b}
    OBVIOUS
  <1>5. f \in Seq(T) /\ << {0}, a, b >> \in Seq(T) /\ Len(<< {0}, a, b >>) = 3
    BY <1>3, <1>4
  <1>6. Areas = << {0}, a, b >> \o f
    BY <1>1 DEF Areas
  <1>7. \A i \in 1 .. Len(e.scns) :
           f[i] = IF e.scns[i].shdr.sh_type # "bits" \/ (i = 1 /\ e.e_nscn >= LoReserve)
                  THEN {} ELSE Area(e.scns[i].shdr.sh_offset, e.scns[i].shdr.sh_size)
    BY <1>0, <1>1
  <1>8. /\ Len(Areas) = 3 + Len(e.scns) /\ DOMAIN Areas = 1 .. 3 + Len(e.scns)
        /\ Areas[1] = {0} /\ Areas[2] = a /\ Areas[3] = b
        /\ \A i \in 1 .. Len(e.scns) : Areas[3 + i] = f[i]
    BY <1>0, <1>3, <1>5, <1>6
  <1> QED BY <1>1, <1>7, <1>8

LEMMA AreaOwned ==
  ASSUME e \in Elf, NEW xs, NEW k \in DOMAIN Areas, Areas[k] # {},
         ExtentOf("ehdr", 0, 1, 0) \in Elements(xs),
         e.e_nphdr # 0 => ExtentOf("phdr", e.ehdr.e_phoff, e.e_nphdr, 0) \in Elements(xs),
         e.e_nscn # 0 => ExtentOf("shdr", e.ehdr.e_shoff, e.e_nscn, 0) \in Elements(xs),
         \A i \in 1 .. Len(e.scns) :
            ~(i = 1 /\ e.e_nscn >= LoReserve) => HasRoom(e.scns[i], i, xs)
  PROVE  \E x \in Elements(xs) : OwnerIs(x, k) /\ Areas[k] = Area(x.ex_start, x.ex_size)
  <1>0. k \in 1 .. 3 + Len(e.scns) /\ Len(e.scns) \in Nat
    BY AreasFact, ElfFact
  <1>1. CASE k = 1
    <2>1. Area(0, 1) = {0}
      BY DEF Area
    <2> QED BY <1>1, <2>1, AreasFact DEF OwnerIs, ExtentOf
  <1>2. CASE k = 2
    BY <1>2, AreasFact DEF OwnerIs, ExtentOf
  <1>3. CASE k = 3
    BY <1>3, AreasFact DEF OwnerIs, ExtentOf
  <1>4. CASE k >= 4
    <2>1. PICK i \in 1 .. Len(e.scns) : k = 3 + i
      <3>1. k - 3 \in 1 .. Len(e.scns) /\ k = 3 + (k - 3)
        BY <1>0, <1>4
      <3> QED BY <3>1
    <2>2. PICK h : h = e.scns[i].shdr
      OBVIOUS
    <2>3. h \in Shdr
      BY <2>2, ElfFact, ScnFact
    <2>4. /\ h.sh_type = "bits" /\ ~(i = 1 /\ e.e_nscn >= LoReserve)
          /\ Areas[k] = Area(h.sh_offset, h.sh_size)
      BY <2>1, <2>2, AreasFact
    <2>5. h.sh_size # 0
      <3>1. h.sh_offset \in Nat
        BY <2>3, ShdrFact
      <3>2. Area(h.sh_offset, 0) = {}
        BY <3>1 DEF Area
      <3> QED BY <2>4, <3>2
    <2>6. ExtentOf("section", h.sh_offset, h.sh_size, i) \in Elements(xs)
      BY <2>2, <2>4, <2>5 DEF HasRoom
    <2>7. OwnerIs(ExtentOf("section", h.sh_offset, h.sh_size, i), k)
      BY <1>4, <2>1 DEF OwnerIs, ExtentOf
    <2> QED BY <2>4, <2>6, <2>7 DEF ExtentOf
  <1> QED BY <1>0, <1>1, <1>2, <1>3, <1>4

LEMMA TidyApart ==
  ASSUME e \in Elf, NEW rc \in Nat, Tidy(e, rc)
  PROVE  /\ \A i, j \in DOMAIN Areas : i # j => Areas[i] \cap Areas[j] = {}
         /\ \A i \in DOMAIN Areas : Areas[i] \subseteq 0 .. rc - 1
  <1>1. PICK xs \in Seq(Extent) :
           /\ Ordered(xs) /\ \A x \in Elements(xs) : EndOf(x) <= rc
           /\ ExtentOf("ehdr", 0, 1, 0) \in Elements(xs)
           /\ e.e_nphdr # 0 => ExtentOf("phdr", e.ehdr.e_phoff, e.e_nphdr, 0) \in Elements(xs)
           /\ e.e_nscn # 0 => ExtentOf("shdr", e.ehdr.e_shoff, e.e_nscn, 0) \in Elements(xs)
           /\ \A i \in 1 .. Len(e.scns) :
                 ~(i = 1 /\ e.e_nscn >= LoReserve) => HasRoom(e.scns[i], i, xs)
    BY DEF Tidy, TidyIn
  <1>2. \A x \in Elements(xs) : x \in Extent /\ x.ex_start \in Nat /\ x.ex_size \in Nat
    <2> SUFFICES ASSUME NEW m \in DOMAIN xs
                 PROVE  xs[m] \in Extent /\ xs[m].ex_start \in Nat /\ xs[m].ex_size \in Nat
      BY DEF Elements
    <2>1. xs[m] \in Extent
      BY <1>1
    <2> QED BY <2>1 DEF Extent
  <1>3. ASSUME NEW i \in DOMAIN Areas, NEW j \in DOMAIN Areas, i # j
        PROVE  Areas[i] \cap Areas[j] = {}
    <2>1. SUFFICES ASSUME Areas[i] # {}, Areas[j] # {} PROVE Areas[i] \cap Areas[j] = {}
      OBVIOUS
    <2>2. PICK x \in Elements(xs) : OwnerIs(x, i) /\ Areas[i] = Area(x.ex_start, x.ex_size)
      BY <1>1, <2>1, AreaOwned
    <2>3. PICK y \in Elements(xs) : OwnerIs(y, j) /\ Areas[j] = Area(y.ex_start, y.ex_size)
      BY <1>1, <2>1, AreaOwned
    <2>4. x # y
      <3>1. i \in Nat /\ j \in Nat
        BY AreasFact, ElfFact
      <3> QED BY <1>3, <2>2, <2>3, <3>1 DEF OwnerIs
    <2>5. Before(x, y) \/ Before(y, x)
      <3>1. PICK m \in 1 .. Len(xs), n \in 1 .. Len(xs) : x = xs[m] /\ y = xs[n]
        BY <1>1 DEF Elements
      <3>2. m < n \/ n < m
        BY <1>1, <2>4, <3>1
      <3> QED BY <1>1, <3>1, <3>2 DEF Ordered
    <2>6. PICK a, m, b, n : /\ a = x.ex_start /\ m = x.ex_size
                            /\ b = y.ex_start /\ n = y.ex_size
      OBVIOUS
    <2>7. /\ a \in Nat /\ m \in Nat /\ b \in Nat /\ n \in Nat
          /\ a + m <= b \/ b + n <= a
      BY <1>2, <2>5, <2>6 DEF Before, EndOf
    <2>8. (a .. a + m - 1) \cap (b .. b + n - 1) = {}
      BY ONLY <2>7
    <2> QED BY <2>2, <2>3, <2>6, <2>8 DEF Area
  <1>4. ASSUME NEW i \in DOMAIN Areas PROVE Areas[i] \subseteq 0 .. rc - 1
    <2>1. SUFFICES ASSUME Areas[i] # {} PROVE Areas[i] \subseteq 0 .. rc - 1
      OBVIOUS
    <2>2. PICK x \in Elements(xs) : OwnerIs(x, i) /\ Areas[i] = Area(x.ex_start, x.ex_size)
      BY <1>1, <2>1, AreaOwned
    <2> QED BY <1>1, <1>2, <2>2 DEF EndOf, Area
  <1> QED BY <1>3, <1>4

-----------------------------------------------------------------------------
(***************************************************************************)
(* The new file: it begins with the ELF header.                            *)
(***************************************************************************)
\* What FlattenSeq puts together, turn by turn.
FlattenTurns(seqs, f) ==
    \A i \in 1 .. Len(seqs) : f[i] = IF i = 1 THEN seqs[i] ELSE f[i - 1] \o seqs[i]

LEMMA FlattenTurn ==
  ASSUME NEW W, NEW seqs \in Seq(Seq(W))
  PROVE  /\ seqs = << >> => FlattenSeq(seqs) = << >>
         /\ seqs # << >> => \E f : FlattenTurns(seqs, f) /\ FlattenSeq(seqs) = f[Len(seqs)]
  <1> DEFINE n == Len(seqs)
             Body(f, m) == [i \in 1 .. m |-> IF i = 1 THEN seqs[i] ELSE f[i - 1] \o seqs[i]]
             S == {m \in 0 .. n : \E f : f = Body(f, m)}
             flatten == CHOOSE f : f = Body(f, n)
  <1>0. n \in Nat /\ \A i \in 1 .. n : seqs[i] \in Seq(W)
    OBVIOUS
  <1>1. CASE n = 0
    <2>1. FlattenSeq(seqs) = seqs /\ seqs = << >>
      BY <1>1 DEF FlattenSeq
    <2> QED BY <2>1
  <1>2. CASE n # 0
    <2>1. 0 \in S
      <3>1. [i \in 1 .. 0 |-> 0] = Body([i \in 1 .. 0 |-> 0], 0)
        OBVIOUS
      <3> HIDE DEF Body
      <3>2. \E f : f = Body(f, 0)
        BY <3>1
      <3> QED BY <1>0, <3>2
    <2>2. ASSUME NEW m \in 1 .. n, m - 1 \in S PROVE m \in S
      <3>1. PICK f : f = Body(f, m - 1)
        BY <2>2
      <3> DEFINE g == [i \in 1 .. m |-> IF i < m THEN f[i]
                                        ELSE IF i = 1 THEN seqs[1] ELSE f[i - 1] \o seqs[i]]
      <3>2. g = Body(g, m)
        <4>1. ASSUME NEW i \in 1 .. m PROVE g[i] = Body(g, m)[i]
          <5>0. i # 1 => g[i - 1] = f[i - 1]
            BY <1>0
          <5>1. CASE i < m
            <6>1. i \in 1 .. m - 1 /\ g[i] = f[i]
              BY <1>0, <5>1
            <6>2. Body(f, m - 1)[i] = IF i = 1 THEN seqs[i] ELSE f[i - 1] \o seqs[i]
              BY <6>1
            <6>3. f[i] = Body(f, m - 1)[i]
              <7> HIDE DEF Body, g
              <7> QED BY <3>1
            <6>4. Body(g, m)[i] = IF i = 1 THEN seqs[i] ELSE g[i - 1] \o seqs[i]
              OBVIOUS
            <6> HIDE DEF Body, g
            <6> QED BY <5>0, <6>1, <6>2, <6>3, <6>4
          <5>2. CASE ~(i < m)
            <6>1. g[i] = IF i = 1 THEN seqs[1] ELSE f[i - 1] \o seqs[i]
              BY <5>2
            <6>2. Body(g, m)[i] = IF i = 1 THEN seqs[i] ELSE g[i - 1] \o seqs[i]
              OBVIOUS
            <6> HIDE DEF Body, g
            <6>3. i = m
              BY <1>0, <5>2
            <6>4. CASE i = 1
              BY <6>1, <6>2, <6>4
            <6>5. CASE i # 1
              BY <5>0, <6>1, <6>2, <6>5
            <6> QED BY <6>4, <6>5
          <5> QED BY <5>1, <5>2
        <4>2. g = [i \in 1 .. m |-> g[i]] /\ Body(g, m) = [i \in 1 .. m |-> Body(g, m)[i]]
          OBVIOUS
        <4> HIDE DEF g, Body
        <4> QED BY <4>1, <4>2
      <3> HIDE DEF Body, g
      <3>3. \E f_1 : f_1 = Body(f_1, m)
        BY <3>2
      <3> QED BY <3>3
    <2>3. n \in S
      <3> HIDE DEF S
      <3>1. 0 .. n \subseteq S
        BY <1>0, <2>1, <2>2, UpTo
      <3> QED BY <1>0, <3>1
    <2>4. flatten = Body(flatten, n)
      <3> HIDE DEF Body
      <3> QED BY <2>3
    <2>5. FlattenSeq(seqs) = flatten[n]
      BY <1>2 DEF FlattenSeq
    <2> HIDE DEF flatten
    <2>6. FlattenTurns(seqs, flatten)
      BY <2>4 DEF FlattenTurns
    <2> QED BY <1>2, <2>5, <2>6
  <1> QED BY <1>1, <1>2

LEMMA FlattenFact ==
  ASSUME NEW W, NEW seqs \in Seq(Seq(W))
  PROVE  /\ FlattenSeq(seqs) \in Seq(W)
         /\ seqs # << >> /\ seqs[1] # << >> => /\ Len(FlattenSeq(seqs)) >= 1
                                               /\ FlattenSeq(seqs)[1] = seqs[1][1]
  <1> DEFINE n == Len(seqs)
             Begins(f) == seqs[1] # << >> => Len(f) >= 1 /\ f[1] = seqs[1][1]
  <1>0. n \in Nat /\ \A i \in 1 .. n : seqs[i] \in Seq(W)
    OBVIOUS
  <1>1. CASE n = 0
    <2>1. seqs = << >>
      BY <1>1
    <2>2. FlattenSeq(seqs) = << >>
      BY ONLY <2>1, FlattenTurn, seqs \in Seq(Seq(W))
    <2>3. << >> \in Seq(W)
      OBVIOUS
    <2> HIDE DEF n, Begins
    <2> QED BY <2>1, <2>2, <2>3
  <1>2. CASE n # 0
    <2>1. seqs # << >>
      BY <1>2
    <2>4. PICK flatten : FlattenTurns(seqs, flatten) /\ FlattenSeq(seqs) = flatten[n]
      BY <2>1, FlattenTurn
    <2> DEFINE R == {m \in 0 .. n : m # 0 => flatten[m] \in Seq(W) /\ Begins(flatten[m])}
    <2>6. 0 \in R
      BY <1>0
    <2>7. ASSUME NEW m \in 1 .. n, m - 1 \in R PROVE m \in R
      <3>1. flatten[m] = IF m = 1 THEN seqs[m] ELSE flatten[m - 1] \o seqs[m]
        BY <2>4 DEF FlattenTurns
      <3>2. m # 1 => flatten[m - 1] \in Seq(W) /\ Begins(flatten[m - 1])
        <4> HIDE DEF Begins
        <4> QED BY <1>0, <2>7
      <3>3. seqs[m] \in Seq(W)
        BY <1>0
      <3>4. flatten[m] \in Seq(W) /\ Begins(flatten[m])
        <4>1. CASE m = 1
          BY <3>1, <3>3, <4>1
        <4>2. CASE m # 1
          <5>1. PICK a, b : a = flatten[m - 1] /\ b = seqs[m]
            OBVIOUS
          <5>2. a \in Seq(W) /\ b \in Seq(W) /\ flatten[m] = a \o b /\ Begins(a)
            BY <3>1, <3>2, <3>3, <4>2, <5>1
          <5>3. /\ a \o b \in Seq(W) /\ Len(a \o b) = Len(a) + Len(b)
                /\ Len(a) >= 1 => (a \o b)[1] = a[1]
            BY <5>2
          <5>4. Len(a) \in Nat /\ Len(b) \in Nat
            BY <5>2
          <5> QED BY <5>2, <5>3, <5>4
        <4> QED BY <4>1, <4>2
      <3> QED BY <1>0, <3>4
    <2>8. n \in R
      <3> HIDE DEF R
      <3>1. 0 .. n \subseteq R
        BY <1>0, <2>6, <2>7, UpTo
      <3> QED BY <1>0, <3>1
    <2> QED BY <1>2, <2>4, <2>8
  <1> QED BY <1>1, <1>2

\* A write, which if it hits the first cell puts a header there.
Cut == {w \in [at : Nat, cells : Seq(Cells)] :
           w.at = 0 /\ 1 \in DOMAIN w.cells => w.cells[1][1] = "ehdr"}

LEMMA ImageFact ==
  ASSUME NEW w \in Seq(Cut), NEW len \in Nat, NEW else \in Cells
  PROVE  /\ Image(w, len, else) \in Seq(Cells) /\ Len(Image(w, len, else)) = len
         /\ len >= 1 /\ Len(w) >= 1 /\ w[1].at = 0 /\ 1 \in DOMAIN w[1].cells
               => Image(w, len, else)[1][1] = "ehdr"
  <1> DEFINE hits(k) == {j \in DOMAIN w : k - w[j].at \in DOMAIN w[j].cells}
             seen(k) == IF hits(k) = {} THEN else ELSE w[Max(hits(k))].cells[k - w[Max(hits(k))].at]
             all == [k \in 1 .. len |-> seen(k)]
  <1>1. ASSUME NEW k \in 1 .. len
        PROVE  seen(k) \in Cells /\ (k = 1 /\ hits(k) # {} => seen(k)[1] = "ehdr")
    <2>1. CASE hits(k) = {}
      BY <2>1
    <2>2. CASE hits(k) # {}
      <3>1. Max(hits(k)) \in hits(k)
        <4>1. hits(k) \in SUBSET Nat /\ Len(w) \in Nat /\ \A y \in hits(k) : y <= Len(w)
          OBVIOUS
        <4>2. PICK x : x \in hits(k)
          BY <2>2
        <4> HIDE DEF hits
        <4> QED BY <4>1, <4>2, MaxFact
      <3>2. PICK j : j = Max(hits(k))
        OBVIOUS
      <3>3. w[j] \in Cut /\ k - w[j].at \in DOMAIN w[j].cells
        BY <3>1, <3>2
      <3>4. w[j].cells \in Seq(Cells) /\ w[j].at \in Nat
        BY <3>3 DEF Cut
      <3>5. seen(k) = w[j].cells[k - w[j].at]
        <4> HIDE DEF hits
        <4> QED BY <2>2, <3>2
      <3>6. w[j].cells[k - w[j].at] \in Cells
        BY <3>3, <3>4
      <3>7. k = 1 => w[j].at = 0 /\ 1 \in DOMAIN w[j].cells /\ k - w[j].at = 1
        BY <3>3, <3>4
      <3>8. k = 1 => w[j].cells[1][1] = "ehdr"
        BY <3>3, <3>7 DEF Cut
      <3> HIDE DEF seen
      <3> QED BY <3>5, <3>6, <3>7, <3>8
    <2> QED BY <2>1, <2>2
  <1>2. Len(w) >= 1 /\ w[1].at = 0 /\ 1 \in DOMAIN w[1].cells => hits(1) # {}
    OBVIOUS
  <1>3. Image(w, len, else) = Listed(all)
    BY DEF Image
  <1> HIDE DEF hits, seen
  <1>4. all \in [1 .. len -> Cells]
    BY <1>1
  <1>5. \A k \in 1 .. len : all[k] = seen(k)
    OBVIOUS
  <1> HIDE DEF all
  <1>6. /\ Listed(all) \in Seq(Cells) /\ Len(Listed(all)) = len
        /\ \A k \in 1 .. len : Listed(all)[k] = all[k]
    BY <1>4, ListedFact
  <1> QED BY <1>1, <1>2, <1>3, <1>5, <1>6

LEMMA WriteCut ==
  ASSUME NEW off \in Nat \ {0}, NEW cells \in Seq(Cells)
  PROVE  Write(off, cells) \in Seq(Cut)
  <1>1. PICK w : w = [at |-> off, cells |-> cells]
    OBVIOUS
  <1>2. w \in Cut
    BY <1>1 DEF Cut
  <1>3. Write(off, cells) = << w >>
    BY <1>1 DEF Write
  <1> QED BY <1>2, <1>3

LEMMA GapCut ==
  ASSUME NEW from \in Nat \ {0}, NEW to \in Nat
  PROVE  Gap(from, to) \in Seq(Cut)
  <1>1. CASE from < to
    <2>1. PICK cells : cells = [k \in 1 .. to - from |-> Fill]
      OBVIOUS
    <2>2. cells \in Seq(Cells)
      <3>1. to - from \in Nat /\ Fill \in Cells
        BY <1>1, NewCells
      <3> QED BY <2>1, <3>1
    <2>3. Gap(from, to) = Write(from, cells)
      BY <1>1, <2>1 DEF Gap
    <2> QED BY <2>2, <2>3, WriteCut
  <1>2. CASE ~(from < to)
    BY <1>2 DEF Gap
  <1> QED BY <1>1, <1>2

\* The loop over the data of a section that is written, turn by turn.
WriteNext(s, b, k) ==
    LET off == s.s_offset + s.data[k].d_off
    IN  [w   |-> b.w \o Gap(b.end, off) \o Write(off, s.data[k].d_buf),
         end |-> off + Len(s.data[k].d_buf)]

WriteTurns(s, f) ==
    /\ f[0] = [w |-> << >>, end |-> s.s_offset]
    /\ \A k \in 1 .. Len(s.data) : f[k] = WriteNext(s, f[k - 1], k)

LEMMA WriteTurn ==
  ASSUME NEW s, Len(s.data) \in Nat
  PROVE  \E f : WriteTurns(s, f) /\ WriteData(s) = f[Len(s.data)]
  <1> DEFINE n == Len(s.data)
             first == [w |-> << >>, end |-> s.s_offset]
             Body(f, m) == [k \in 0 .. m |-> IF k = 0 THEN first ELSE WriteNext(s, f[k - 1], k)]
             S == {m \in 0 .. n : \E f : f = Body(f, m)}
             at == CHOOSE f : f = Body(f, n)
  <1>0. n \in Nat
    OBVIOUS
  <1>1. 0 \in S
    <2>1. [k \in 0 .. 0 |-> first] = Body([k \in 0 .. 0 |-> first], 0)
      OBVIOUS
    <2> HIDE DEF Body
    <2>2. \E f : f = Body(f, 0)
      BY <2>1
    <2> QED BY <1>0, <2>2
  <1>2. ASSUME NEW m \in 1 .. n, m - 1 \in S PROVE m \in S
    <2>1. PICK f : f = Body(f, m - 1)
      BY <1>2
    <2> DEFINE g == [k \in 0 .. m |-> IF k = m THEN WriteNext(s, f[m - 1], m) ELSE f[k]]
    <2>2. g = Body(g, m)
      <3>1. ASSUME NEW k \in 0 .. m PROVE g[k] = Body(g, m)[k]
        <4>1. CASE k = m
          BY <1>0, <4>1
        <4>2. CASE k # m
          <5>1. k \in 0 .. m - 1 /\ f[k] = Body(f, m - 1)[k] /\ g[k] = f[k]
            BY <1>0, <2>1, <4>2
          <5>2. k # 0 => g[k - 1] = f[k - 1]
            BY <1>0, <4>2
          <5> QED BY <5>1, <5>2
        <4> QED BY <4>1, <4>2
      <3> QED BY <3>1
    <2> HIDE DEF Body, g
    <2>3. \E g_1 : g_1 = Body(g_1, m)
      BY <2>2
    <2> QED BY <2>3
  <1>3. n \in S
    <2> HIDE DEF S
    <2>1. 0 .. n \subseteq S
      BY <1>0, <1>1, <1>2, UpTo
    <2> QED BY <1>0, <2>1
  <1>4. at = Body(at, n)
    <2> HIDE DEF Body
    <2> QED BY <1>3
  <1>5. WriteData(s) = at[Len(s.data)]
    BY DEF WriteData, WriteNext
  <1> HIDE DEF at
  <1>6. WriteTurns(s, at)
    <2>1. at[0] = first
      <3>1. 0 \in 0 .. n
        BY <1>0
      <3>2. Body(at, n)[0] = first
        BY <3>1
      <3> HIDE DEF Body
      <3> QED BY <1>4, <3>2
    <2>2. ASSUME NEW k \in 1 .. n PROVE at[k] = WriteNext(s, at[k - 1], k)
      <3>1. k \in 0 .. n /\ k # 0
        BY <1>0
      <3>2. Body(at, n)[k] = WriteNext(s, at[k - 1], k)
        BY <3>1
      <3> HIDE DEF Body
      <3> QED BY <1>4, <3>2
    <2> HIDE DEF Body
    <2> QED BY <2>1, <2>2 DEF WriteTurns
  <1> QED BY <1>5, <1>6

\* Each turn ends behind its data, and writes nothing in front of the section.
LEMMA WriteTurnsFact ==
  ASSUME NEW s \in Scn, s.s_offset # 0, NEW f, WriteTurns(s, f), NEW m \in 0 .. Len(s.data)
  PROVE  /\ f[m].w \in Seq(Cut) /\ f[m].end \in Nat \ {0}
         /\ m = 0 => f[m].w = << >> /\ f[m].end = s.s_offset
         /\ m # 0 => f[m].end = s.s_offset + s.data[m].d_off + Len(s.data[m].d_buf)
  <1>0. s.data \in Seq(Buffer) /\ Len(s.data) \in Nat /\ s.s_offset \in Nat \ {0}
    BY ScnFact
  <1> DEFINE S == {k \in 0 .. Len(s.data) :
                      /\ f[k].w \in Seq(Cut) /\ f[k].end \in Nat \ {0}
                      /\ k = 0 => f[k].w = << >> /\ f[k].end = s.s_offset
                      /\ k # 0 => f[k].end = s.s_offset + s.data[k].d_off + Len(s.data[k].d_buf)}
  <1>2. 0 \in S
    <2>1. f[0] = [w |-> << >>, end |-> s.s_offset]
      BY DEF WriteTurns
    <2>2. << >> \in Seq(Cut)
      OBVIOUS
    <2>3. PICK k : k = 0
      OBVIOUS
    <2>4. /\ f[k].w \in Seq(Cut) /\ f[k].w = << >> /\ f[k].end \in Nat \ {0} /\ f[k].end = s.s_offset
          /\ k \in 0 .. Len(s.data) /\ ~(k # 0)
      <3>1. f[k].w = << >> /\ f[k].end = s.s_offset
        BY <2>1, <2>3
      <3>2. k \in 0 .. Len(s.data) /\ ~(k # 0)
        BY <1>0, <2>3
      <3> QED BY ONLY <1>0, <2>2, <3>1, <3>2
    <2>5. k \in S
      BY ONLY <2>4
    <2> QED BY <2>3, <2>5
  <1>3. ASSUME NEW k \in 1 .. Len(s.data), k - 1 \in S PROVE k \in S
    <2>0. PICK p, q : p = s.s_offset /\ q = s.data[k].d_off
      OBVIOUS
    <2>1. PICK off, buf, b : off = p + q /\ buf = s.data[k].d_buf /\ b = f[k - 1]
      OBVIOUS
    <2>2. f[k] = [w |-> b.w \o Gap(b.end, off) \o Write(off, buf), end |-> off + Len(buf)]
      BY <2>0, <2>1 DEF WriteTurns, WriteNext
    <2>3. p \in Nat \ {0} /\ q \in Nat /\ buf \in Seq(Cells) /\ Len(buf) \in Nat
      BY <1>0, <2>0, <2>1, BufferFact
    <2>4. off \in Nat \ {0} /\ off + Len(buf) \in Nat \ {0}
      <3>1. PICK l : l = Len(buf)
        OBVIOUS
      <3>2. off = p + q /\ l \in Nat /\ p \in Nat \ {0} /\ q \in Nat
        BY <2>1, <2>3, <3>1
      <3>3. off \in Nat \ {0} /\ off + l \in Nat \ {0}
        BY ONLY <3>2
      <3> QED BY <3>1, <3>3
    <2>5. b.w \in Seq(Cut) /\ b.end \in Nat \ {0}
      BY <1>3, <2>1
    <2>6. Gap(b.end, off) \in Seq(Cut)
      BY <2>4, <2>5, GapCut
    <2>7. Write(off, buf) \in Seq(Cut)
      BY <2>3, <2>4, WriteCut
    <2>8. b.w \o Gap(b.end, off) \o Write(off, buf) \in Seq(Cut)
      BY <2>5, <2>6, <2>7, ConcatProperties
    <2>9. /\ f[k].w \in Seq(Cut) /\ f[k].end \in Nat \ {0} /\ k \in 0 .. Len(s.data) /\ k # 0
          /\ f[k].end = s.s_offset + s.data[k].d_off + Len(s.data[k].d_buf)
      BY <1>0, <2>0, <2>1, <2>2, <2>4, <2>8
    <2> QED BY <2>9
  <1>4. m \in S
    <2> HIDE DEF S
    <2>1. 0 .. Len(s.data) \subseteq S
      BY <1>0, <1>2, <1>3, UpTo
    <2> QED BY <2>1
  <1> QED BY <1>4

\* The writes of a section lie behind the ELF header.
LEMMA WriteDataFact ==
  ASSUME NEW s \in Scn, s.s_offset # 0
  PROVE  WriteData(s).w \in Seq(Cut)
  <1>1. Len(s.data) \in Nat /\ Len(s.data) \in 0 .. Len(s.data)
    BY ScnFact
  <1>2. PICK f : WriteTurns(s, f) /\ WriteData(s) = f[Len(s.data)]
    BY <1>1, WriteTurn
  <1> QED BY <1>1, <1>2, WriteTurnsFact

LEMMA InFileFact ==
  ASSUME NEW d \in Elf, NEW s \in Scn
  PROVE  /\ InFile(d, s) \in Seq(Cells) /\ Len(InFile(d, s)) = s.shdr.sh_size
         /\ \A k \in 1 .. s.shdr.sh_size :
               InFile(d, s)[k] = IF s.s_rawoff + k <= Len(d.raw) THEN d.raw[s.s_rawoff + k] ELSE Junk
  <1>0. d.raw \in Seq(Cells) /\ Len(d.raw) \in Nat /\ s.shdr \in Shdr /\ s.s_rawoff \in Nat
    BY ElfFact, ScnFact
  <1>1. PICK n : n = s.shdr.sh_size
    OBVIOUS
  <1>2. n \in Nat
    BY <1>0, <1>1, ShdrFact
  <1>3. PICK all : all = [k \in 1 .. n |-> IF s.s_rawoff + k <= Len(d.raw) THEN d.raw[s.s_rawoff + k]
                                           ELSE Junk]
    OBVIOUS
  <1>4. \A k \in 1 .. n : (IF s.s_rawoff + k <= Len(d.raw) THEN d.raw[s.s_rawoff + k] ELSE Junk) \in Cells
    <2> TAKE k \in 1 .. n
    <2>1. CASE s.s_rawoff + k <= Len(d.raw)
      <3>1. s.s_rawoff + k \in 1 .. Len(d.raw)
        BY <1>0, <1>2, <2>1
      <3>2. d.raw[s.s_rawoff + k] \in Cells
        BY <1>0, <3>1
      <3> QED BY <2>1, <3>2
    <2>2. CASE ~(s.s_rawoff + k <= Len(d.raw))
      BY <2>2, NewCells
    <2> QED BY <2>1, <2>2
  <1>5. all \in [1 .. n -> Cells]
    BY <1>3, <1>4
  <1>6. InFile(d, s) = Listed(all)
    BY <1>1, <1>3 DEF InFile
  <1>7. /\ Listed(all) \in Seq(Cells) /\ Len(Listed(all)) = n
        /\ \A k \in 1 .. n : Listed(all)[k] = all[k]
    BY <1>2, <1>5, ListedFact
  <1> QED BY <1>1, <1>3, <1>6, <1>7

LEMMA WriteExtentFact ==
  ASSUME NEW d, Sound(d), NEW x \in Extent, x.ex_start # 0,
         x.ex_type = "section" => /\ x.ex_scn \in 1 .. Len(d.scns)
                                  /\ x.ex_start = d.scns[x.ex_scn].s_offset
  PROVE  WriteExtent(d, x).w \in Seq(Cut)
  <1>0. /\ d \in Elf /\ d.ehdr \in Ehdr /\ d.phdr \in Seq(Cells) /\ d.scns \in Seq(Scn)
        /\ Len(d.scns) \in Nat /\ DOMAIN d.scns = 1 .. Len(d.scns)
    BY ElfFact DEF Sound
  <1>1. x.ex_start \in Nat \ {0} /\ x.ex_type \in {"ehdr", "phdr", "section", "shdr"}
    BY DEF Extent
  <1>2. CASE x.ex_type = "ehdr"
    <2>1. PICK w, c : w = [at |-> 0, cells |-> << c >>] /\ c = <<"ehdr", d.ehdr>>
      OBVIOUS
    <2>2. c \in Cells /\ c[1] = "ehdr"
      BY <1>0, <2>1, NewCells
    <2>3. w \in Cut
      <3>1. << c >> \in Seq(Cells) /\ << c >>[1] = c
        BY <2>2
      <3> QED BY <2>1, <2>2, <3>1 DEF Cut
    <2>4. WriteExtent(d, x).w = << w >>
      BY <1>2, <2>1 DEF WriteExtent, Write
    <2> QED BY <2>3, <2>4
  <1>3. CASE x.ex_type = "phdr"
    <2>1. WriteExtent(d, x).w = Write(x.ex_start, d.phdr)
      BY <1>3 DEF WriteExtent
    <2> QED BY <1>0, <1>1, <2>1, WriteCut
  <1>4. CASE x.ex_type = "section"
    <2>1. PICK s : s = d.scns[x.ex_scn]
      OBVIOUS
    <2>2. s \in Scn /\ s.s_offset \in Nat \ {0}
      BY <1>0, <1>1, <1>4, <2>1
    <2>3. WriteExtent(d, x) = IF s.data = << >> THEN WriteRaw(d, s) ELSE WriteData(s)
      BY <1>4, <2>1 DEF WriteExtent, WriteScn
    <2>4. CASE s.data = << >>
      <3>1. WriteRaw(d, s).w = Write(s.s_offset, InFile(d, s))
        BY DEF WriteRaw
      <3> QED BY <1>0, <2>2, <2>3, <2>4, <3>1, InFileFact, WriteCut
    <2>5. CASE s.data # << >>
      BY <2>2, <2>3, <2>5, WriteDataFact
    <2> QED BY <2>4, <2>5
  <1>5. CASE x.ex_type = "shdr"
    <2>1. PICK n, f : /\ n = Len(d.scns)
                      /\ f = [k \in 1 .. n |-> [at    |-> x.ex_start + d.scns[k].s_ndx,
                                                cells |-> << <<"shdr", d.scns[k].shdr>> >>]]
      OBVIOUS
    <2>2. WriteExtent(d, x).w = f
      BY <1>0, <1>5, <2>1 DEF WriteExtent
    <2>3. \A k \in 1 .. n : [at    |-> x.ex_start + d.scns[k].s_ndx,
                             cells |-> << <<"shdr", d.scns[k].shdr>> >>] \in Cut
      <3> TAKE k \in 1 .. n
      <3>1. d.scns[k] \in Scn
        BY <1>0, <2>1
      <3>2. PICK off, c : off = x.ex_start + d.scns[k].s_ndx /\ c = <<"shdr", d.scns[k].shdr>>
        OBVIOUS
      <3>3. d.scns[k].s_ndx \in Nat /\ d.scns[k].shdr \in Shdr
        BY <3>1, ScnFact
      <3>4. off \in Nat \ {0} /\ c \in Cells
        BY <1>1, <3>2, <3>3, NewCells
      <3>5. << c >> \in Seq(Cells)
        BY <3>4
      <3>6. [at |-> off, cells |-> << c >>] \in Cut
        BY <3>4, <3>5 DEF Cut
      <3> QED BY <3>2, <3>6
    <2>4. f \in Seq(Cut)
      BY <1>0, <2>1, <2>3
    <2> QED BY <2>2, <2>4
  <1> QED BY <1>1, <1>2, <1>3, <1>4, <1>5

\* The ELF header comes first, everything else behind it.
LEMMA FirstExtent ==
  ASSUME NEW xs \in Seq(Extent), Ordered(xs), ExtentOf("ehdr", 0, 1, 0) \in Elements(xs)
  PROVE  /\ Len(xs) >= 1 /\ xs[1] = ExtentOf("ehdr", 0, 1, 0)
         /\ \A k \in 2 .. Len(xs) : xs[k].ex_start # 0
  <1>1. PICK i \in 1 .. Len(xs) : xs[i] = ExtentOf("ehdr", 0, 1, 0)
    BY DEF Elements
  <1>2. 1 \in 1 .. Len(xs) /\ Len(xs) \in Nat
    BY <1>1
  <1>3. xs[1].ex_start \in Nat /\ EndOf(xs[1]) \in Nat /\ xs[1].ex_start < EndOf(xs[1])
    BY <1>2, ElementFact
  <1>4. i = 1
    <2> SUFFICES ASSUME i # 1 PROVE FALSE
      OBVIOUS
    <2>1. Before(xs[1], xs[i])
      BY <1>1, <1>2 DEF Ordered
    <2> QED BY <1>1, <1>3, <2>1 DEF Before, ExtentOf
  <1>5. ASSUME NEW k \in 2 .. Len(xs) PROVE xs[k].ex_start # 0
    <2>1. Before(xs[1], xs[k])
      BY <1>2 DEF Ordered
    <2> QED BY <1>3, <2>1 DEF Before
  <1> QED BY <1>1, <1>2, <1>4, <1>5

\* What the extents write, with the gaps in front of them.
LEMMA FilledFact ==
  ASSUME NEW at, Good(at, Len(at.d.scns)), at.says = "ok"
  PROVE  /\ Len(at.ext) >= 1
         /\ Filled(at, 1) = << [at |-> 0, cells |-> << <<"ehdr", at.d.ehdr>> >>] >>
         /\ \A k \in 1 .. Len(at.ext) : Filled(at, k) \in Seq(Cut)
         /\ \A k \in 2 .. Len(at.ext) :
               /\ Gap(EndOf(at.ext[k - 1]), at.ext[k].ex_start) \in Seq(Cut)
               /\ WriteExtent(at.d, at.ext[k]).w \in Seq(Cut)
               /\ Filled(at, k) = Gap(EndOf(at.ext[k - 1]), at.ext[k].ex_start)
                                      \o WriteExtent(at.d, at.ext[k]).w
  <1>0. /\ at \in Ats /\ Sound(at.d) /\ at.d \in Elf /\ at.ext \in Seq(Extent)
        /\ Ordered(at.ext) /\ ExtentOf("ehdr", 0, 1, 0) \in Elements(at.ext)
        /\ Sections(at, Len(at.d.scns)) /\ at.d.ehdr \in Ehdr
    BY AtsFact, ElfFact DEF Good, Ordering
  <1>1. PICK n : n = Len(at.ext)
    OBVIOUS
  <1>2. /\ n \in Nat /\ n >= 1 /\ at.ext[1] = ExtentOf("ehdr", 0, 1, 0)
        /\ \A k \in 2 .. n : at.ext[k].ex_start # 0
    BY <1>0, <1>1, FirstExtent
  <1>3. PICK c, w1 : c = <<"ehdr", at.d.ehdr>> /\ w1 = [at |-> 0, cells |-> << c >>]
    OBVIOUS
  <1>4. c \in Cells /\ c[1] = "ehdr"
    BY <1>0, <1>3, NewCells
  <1>5. << c >> \in Seq(Cells) /\ << c >>[1] = c /\ 1 \in DOMAIN << c >>
    BY <1>4
  <1>6. w1 \in Cut
    BY <1>3, <1>4, <1>5 DEF Cut
  <1>7. Filled(at, 1) = << w1 >>
    <2>1. Gap(0, at.ext[1].ex_start) = << >>
      BY <1>2 DEF Gap, ExtentOf
    <2>2. WriteExtent(at.d, at.ext[1]).w = << w1 >>
      BY <1>2, <1>3 DEF WriteExtent, Write, ExtentOf
    <2>3. << >> \o << w1 >> = << w1 >>
      OBVIOUS
    <2> QED BY <2>1, <2>2, <2>3 DEF Filled
  <1>8. ASSUME NEW k \in 2 .. n
        PROVE  /\ Gap(EndOf(at.ext[k - 1]), at.ext[k].ex_start) \in Seq(Cut)
               /\ WriteExtent(at.d, at.ext[k]).w \in Seq(Cut)
               /\ Filled(at, k) \in Seq(Cut)
               /\ Filled(at, k) = Gap(EndOf(at.ext[k - 1]), at.ext[k].ex_start)
                                      \o WriteExtent(at.d, at.ext[k]).w
    <2>1. k - 1 \in 1 .. n /\ k \in 1 .. n /\ k # 1
      BY <1>2
    <2>2. EndOf(at.ext[k - 1]) \in Nat \ {0} /\ at.ext[k] \in Extent /\ at.ext[k].ex_start \in Nat
      BY <1>0, <1>1, <2>1, ElementFact
    <2>3. Gap(EndOf(at.ext[k - 1]), at.ext[k].ex_start) \in Seq(Cut)
      BY <2>2, GapCut
    <2>4. at.ext[k].ex_type = "section" =>
             /\ at.ext[k].ex_scn \in 1 .. Len(at.d.scns)
             /\ at.ext[k].ex_start = at.d.scns[at.ext[k].ex_scn].s_offset
      <3>1. at.ext[k] \in Elements(at.ext)
        BY <1>0, <1>1, <2>1 DEF Elements
      <3> QED BY <1>0, <3>1 DEF Sections
    <2>5. WriteExtent(at.d, at.ext[k]).w \in Seq(Cut)
      BY <1>0, <1>2, <2>2, <2>4, WriteExtentFact
    <2> QED BY <2>1, <2>3, <2>5, ConcatProperties DEF Filled
  <1>9. ASSUME NEW k \in 1 .. n PROVE Filled(at, k) \in Seq(Cut)
    <2>1. << w1 >> \in Seq(Cut)
      BY <1>6
    <2>2. CASE k = 1
      BY <1>7, <2>1, <2>2
    <2>3. CASE k # 1
      <3>1. k \in 2 .. n
        BY <1>2, <2>3
      <3> QED BY <1>8, <3>1
    <2> QED BY <2>2, <2>3
  <1> QED BY <1>1, <1>2, <1>3, <1>7, <1>8, <1>9

LEMMA NewFileFact ==
  ASSUME NEW at, Good(at, Len(at.d.scns)), at.says = "ok"
  PROVE  /\ NewFile(at) \in Seq(Cells) /\ NewFile(at) # << >> /\ NewFile(at)[1][1] = "ehdr"
         /\ Len(NewFile(at)) = at.rc
  <1>0. at.ext \in Seq(Extent) /\ at.rc \in Nat /\ at.rc >= 1
    BY AtsFact DEF Good, Ordering
  <1>1. PICK n : n = Len(at.ext)
    OBVIOUS
  <1>2. PICK c, w1 : c = <<"ehdr", at.d.ehdr>> /\ w1 = [at |-> 0, cells |-> << c >>]
    OBVIOUS
  <1>3. n \in Nat /\ n >= 1 /\ Filled(at, 1) = << w1 >> /\ \A k \in 1 .. n : Filled(at, k) \in Seq(Cut)
    <2>1. Len(at.ext) >= 1 /\ \A k \in 1 .. Len(at.ext) : Filled(at, k) \in Seq(Cut)
      BY FilledFact
    <2>2. Filled(at, 1) = << [at |-> 0, cells |-> << <<"ehdr", at.d.ehdr>> >>] >>
      BY FilledFact, Zenon
    <2>3. Filled(at, 1) = << w1 >>
      BY <1>2, <2>2
    <2> QED BY <1>0, <1>1, <2>1, <2>3
  <1>4. w1.at = 0 /\ 1 \in DOMAIN w1.cells
    BY <1>2
  <1>5. PICK parts : parts = [k \in DOMAIN at.ext |-> Filled(at, k)]
    OBVIOUS
  <1>6. parts \in Seq(Seq(Cut)) /\ parts # << >> /\ parts[1] = << w1 >>
    <2>1. parts = [k \in 1 .. n |-> Filled(at, k)]
      BY <1>0, <1>1, <1>5
    <2>2. parts \in [1 .. n -> Seq(Cut)] /\ parts[1] = Filled(at, 1)
      BY <1>3, <2>1
    <2>3. parts \in Seq(Seq(Cut)) /\ Len(parts) = n
      BY <1>3, <2>2
    <2> QED BY <1>3, <2>2, <2>3
  <1>7. PICK w : w = FlattenSeq(parts)
    OBVIOUS
  <1>8. w \in Seq(Cut) /\ Len(w) >= 1 /\ w[1] = w1
    <2>1. parts[1] # << >> /\ parts[1][1] = w1
      <3>1. << w1 >> # << >> /\ << w1 >>[1] = w1
        OBVIOUS
      <3> QED BY <1>6, <3>1
    <2>2. /\ FlattenSeq(parts) \in Seq(Cut) /\ Len(FlattenSeq(parts)) >= 1
          /\ FlattenSeq(parts)[1] = parts[1][1]
      BY <1>6, <2>1, FlattenFact
    <2> QED BY <1>7, <2>1, <2>2
  <1>9. NewFile(at) = Image(w, at.rc, Junk)
    BY <1>5, <1>7 DEF NewFile
  <1>10. Junk \in Cells
    BY NewCells
  <1>11. /\ Image(w, at.rc, Junk) \in Seq(Cells) /\ Len(Image(w, at.rc, Junk)) = at.rc
         /\ Image(w, at.rc, Junk)[1][1] = "ehdr"
    BY <1>0, <1>4, <1>8, <1>10, ImageFact
  <1> QED BY <1>0, <1>9, <1>11

-----------------------------------------------------------------------------
(***************************************************************************)
(* Laying out again what was laid out.                                     *)
(***************************************************************************)
LEMMA PutSame ==
  ASSUME NEW d \in Elf, NEW i \in 1 .. Len(d.scns)
  PROVE  Put(d, i, d.scns[i]) = d
  <1>1. d.scns \in Seq(Scn) /\ DOMAIN d.scns = 1 .. Len(d.scns)
    BY ElfFact
  <1>2. [d.scns EXCEPT ![i] = d.scns[i]] = d.scns
    BY <1>1
  <1> QED BY <1>2 DEF Put, Elf

LEMMA DescribedTwice ==
  ASSUME NEW s \in Scn
  PROVE  Described(Described(s)) = Described(s)
  <1>1. PICK t : t = Described(s)
    OBVIOUS
  <1>2. t \in Scn /\ t.s_size = t.shdr.sh_size /\ t.s_offset = t.shdr.sh_offset
    BY <1>1, DescribedFact DEF Laid, Stands
  <1>3. Described(t) = t
    BY <1>2 DEF Described, Scn
  <1> QED BY <1>1, <1>3

\* t is s where the library placed it, and is placed there again.
AtStays(s, t, rc, align, size) ==
    /\ t \in Scn /\ At(t, rc, align, size) = t
    /\ OwnAlign(t.shdr) = align /\ t.shdr.sh_size = size
    /\ t.data = s.data /\ t.dirty = s.dirty /\ t.s_ndx = s.s_ndx

LEMMA AtTwice ==
  ASSUME NEW s \in Scn, NEW rc \in Nat, NEW align \in Nat \ {0}, NEW size \in Nat
  PROVE  AtStays(s, At(s, rc, align, size), rc, align, size)
  <1>1. PICK off, h : /\ off = Roundup(rc, align)
                      /\ h = [s.shdr EXCEPT !.sh_addralign = align, !.sh_size = size, !.sh_offset = off]
    OBVIOUS
  <1>2. off \in Nat /\ s.shdr \in Shdr
    BY <1>1, RoundupFact, ScnFact
  <1>3. /\ h \in Shdr /\ h.sh_addralign = align /\ h.sh_size = size /\ h.sh_offset = off
    BY <1>1, <1>2 DEF Shdr
  <1>4. PICK t : t = [s EXCEPT !.shdr = h, !.s_size = size, !.s_offset = off]
    OBVIOUS
  <1>5. /\ t \in Scn /\ t.shdr = h /\ t.s_size = size /\ t.s_offset = off /\ t.data = s.data
        /\ t.dirty = s.dirty /\ t.s_ndx = s.s_ndx
    BY <1>2, <1>3, <1>4 DEF Scn
  <1>6. At(s, rc, align, size) = t
    BY <1>1, <1>2, <1>3, <1>4 DEF At, Described, Scn, Shdr
  <1>7. [h EXCEPT !.sh_addralign = align, !.sh_size = size, !.sh_offset = off] = h
    BY <1>3 DEF Shdr
  <1>8. At(t, rc, align, size) = t
    <2>1. [t EXCEPT !.shdr = h] = t
      BY <1>5 DEF Scn
    <2>2. [t EXCEPT !.shdr.sh_addralign = align, !.shdr.sh_size = size, !.shdr.sh_offset = off]
             = [t EXCEPT !.shdr = [h EXCEPT !.sh_addralign = align, !.sh_size = size,
                                            !.sh_offset = off]]
      BY <1>3, <1>5 DEF Scn, Shdr
    <2>3. Described(t) = t
      BY <1>3, <1>5 DEF Described, Scn
    <2> QED BY <1>1, <1>7, <2>1, <2>2, <2>3 DEF At
  <1>9. OwnAlign(t.shdr) = align
    BY <1>3, <1>5 DEF OwnAlign
  <1> QED BY <1>3, <1>5, <1>6, <1>8, <1>9 DEF AtStays

\* Where the data go depends on their alignments and lengths only.
LEMMA PlacedTwice ==
  ASSUME NEW data \in Seq(Buffer), Aligned(data)
  PROVE  Placed(Placed(data).data) = Placed(data)
  <1>0. Len(data) \in Nat
    OBVIOUS
  <1>1. PICK f : PlacedTurns(data, f) /\ Placed(data) = f[Len(data)]
    BY <1>0, PlacedTurn
  <1>2. PICK p : p = Placed(data).data
    OBVIOUS
  <1>3. /\ p \in Seq(Buffer) /\ Len(p) = Len(data)
        /\ \A j \in 1 .. Len(data) : p[j] = [data[j] EXCEPT !.d_off = p[j].d_off]
    BY <1>2, PlacedFact DEF PlacedBuffers
  <1>4. PICK g : PlacedTurns(p, g) /\ Placed(p) = g[Len(data)]
    BY <1>0, <1>3, PlacedTurn
  <1> DEFINE S == {k \in 0 .. Len(data) : g[k] = f[k]}
  <1>5. 0 \in S
    BY <1>0, <1>1, <1>4 DEF PlacedTurns
  <1>6. ASSUME NEW k \in 1 .. Len(data), k - 1 \in S PROVE k \in S
    <2>1. g[k - 1] = f[k - 1]
      BY <1>6
    <2>2. f[k] = PlacedNext(f[k - 1], data[k]) /\ g[k] = PlacedNext(g[k - 1], p[k])
      BY <1>1, <1>3, <1>4 DEF PlacedTurns
    <2>3. data[k] \in Buffer /\ p[k] \in Buffer
      BY <1>3
    <2>4. p[k] = [data[k] EXCEPT !.d_off = p[k].d_off]
      BY <1>3
    <2>5. p[k].d_align = data[k].d_align /\ p[k].d_buf = data[k].d_buf
          /\ \A off \in Nat : [p[k] EXCEPT !.d_off = off] = [data[k] EXCEPT !.d_off = off]
      BY <2>3, <2>4 DEF Buffer
    <2>6. PICK b : b = f[k - 1]
      OBVIOUS
    <2>7. b.size \in Nat /\ data[k].d_align \in Nat \ {0}
      <3>1. k - 1 \in 0 .. Len(data) /\ data[k].d_align # 0
        BY <1>0 DEF Aligned
      <3>2. PlacedBuffers(data, b, k - 1)
        BY <1>1, <2>6, <3>1, PlacedEach
      <3> QED BY <3>1, <3>2, BufferFact DEF PlacedBuffers
    <2>8. Roundup(b.size, data[k].d_align) \in Nat
      BY <2>7, RoundupFact
    <2>9. PlacedNext(b, p[k]) = PlacedNext(b, data[k])
      BY <2>5, <2>8 DEF PlacedNext
    <2>10. g[k] = f[k]
      BY <2>1, <2>2, <2>6, <2>9
    <2> QED BY <1>0, <2>10
  <1>7. Len(data) \in S
    <2> HIDE DEF S
    <2>1. 0 .. Len(data) \subseteq S
      BY <1>0, <1>5, <1>6, UpTo
    <2> QED BY <1>0, <2>1
  <1> QED BY <1>1, <1>2, <1>4, <1>7

LEMMA MaxAgain ==
  ASSUME NEW a \in Int, NEW b \in Int
  PROVE  Max({Max({a, b}), b}) = Max({a, b})
  <1>1. PICK m : m = Max({a, b})
    OBVIOUS
  <1>2. m \in Int /\ m >= b
    BY <1>1, MaxOfTwo
  <1>3. PICK k : k = Max({m, b})
    OBVIOUS
  <1>4. k \in {m, b} /\ k >= m
    BY <1>2, <1>3, MaxOfTwo
  <1>5. k = m
    BY <1>2, <1>4
  <1> QED BY <1>1, <1>3, <1>5

NoneWrong(d, data) == \A k \in 1 .. Len(data) : DataSays(d, data[k]) = "ok"

LEMMA NoneWrongFact ==
  ASSUME NEW d, NEW data \in Seq(Buffer)
  PROVE  NoneWrong(d, data) <=> ~(FirstWrong(d, data) <= Len(data))
  <1>1. PICK n : n = FirstWrong(d, data)
    OBVIOUS
  <1>2. Len(data) \in Nat
    OBVIOUS
  <1>3. /\ n \in 1 .. Len(data) + 1
        /\ \A k \in 1 .. Len(data) : k < n => DataSays(d, data[k]) = "ok"
        /\ n <= Len(data) => DataSays(d, data[n]) # "ok"
    BY <1>1, FirstWrongFact
  <1>4. CASE n <= Len(data)
    <2>1. n \in 1 .. Len(data) /\ DataSays(d, data[n]) # "ok"
      BY <1>2, <1>3, <1>4
    <2> QED BY <1>1, <1>4, <2>1 DEF NoneWrong
  <1>5. CASE ~(n <= Len(data))
    <2>1. \A k \in 1 .. Len(data) : DataSays(d, data[k]) = "ok"
      BY <1>2, <1>3, <1>5
    <2> QED BY <1>1, <1>5, <2>1 DEF NoneWrong
  <1> QED BY <1>4, <1>5

\* Of a buffer's place only an application's counts.
LEMMA DataSaysAgain ==
  ASSUME NEW d, NEW c, Layout(c) <=> Layout(d), NEW x \in Buffer, NEW off \in Nat,
         Layout(d) => off = x.d_off
  PROVE  DataSays(c, [x EXCEPT !.d_off = off]) = DataSays(d, x)
  <1>1. PICK y : y = [x EXCEPT !.d_off = off]
    OBVIOUS
  <1>2. y.d_align = x.d_align /\ y.d_size = x.d_size /\ y.d_type = x.d_type /\ y.d_off = off
    BY <1>1 DEF Buffer
  <1>3. DataSays(c, y) = DataSays(d, x)
    BY <1>2 DEF DataSays
  <1> QED BY <1>1, <1>3

\* t is what a layout made of the section s.
MadeOf(s, t) == t \in Scn /\ t.dirty = s.dirty /\ Len(t.data) = Len(s.data)

LEMMA ByProgramTwice ==
  ASSUME NEW d \in Elf, NEW i \in 1 .. Len(d.scns), ByProgram(d, i).says = "ok",
         NEW c \in Elf, i \in 1 .. Len(c.scns), c.scns[i] = ByProgram(d, i).d.scns[i]
  PROVE  /\ ByProgram(c, i) = Does(c, "ok") /\ MadeOf(d.scns[i], c.scns[i])
         /\ c.scns[i].data = d.scns[i].data
  <1>1. PICK s, t : s = d.scns[i] /\ t = Described(s)
    OBVIOUS
  <1>2. s \in Scn
    BY <1>1, ElfFact
  <1>3. t \in Scn /\ t.s_ndx = s.s_ndx /\ t.data = s.data /\ t.shdr = s.shdr /\ t.dirty = s.dirty
    BY <1>1, <1>2, DescribedFact DEF Laid, Described, Scn
  <1>4. /\ ~(\/ ScnAlign(s) > OwnAlign(s.shdr) \/ s.shdr.sh_offset % OwnAlign(s.shdr) # 0
             \/ s.shdr.sh_size < MemoryEnd(s))
        /\ ByProgram(d, i) = Does(Put(d, i, t), "ok")
    BY <1>1 DEF ByProgram, Does
  <1>5. Put(d, i, t).scns[i] = t
    BY <1>1, <1>3, PutBut
  <1>6. c.scns[i] = t
    BY <1>4, <1>5 DEF Does
  <1>7. ScnAlign(t) = ScnAlign(s) /\ MemoryEnd(t) = MemoryEnd(s)
    BY <1>3 DEF ScnAlign, MemoryEnd
  <1>8. ByProgram(c, i) = Does(Put(c, i, Described(t)), "ok")
    BY <1>3, <1>4, <1>6, <1>7 DEF ByProgram
  <1>9. Put(c, i, Described(t)) = c
    BY <1>1, <1>2, <1>6, DescribedTwice, PutSame
  <1> QED BY <1>1, <1>3, <1>6, <1>8, <1>9 DEF MadeOf

LEMMA ByLibraryTwice ==
  ASSUME NEW d \in Elf, NEW i \in 1 .. Len(d.scns), NEW rc \in Nat, Aligned(d.scns[i].data),
         NEW c \in Elf, i \in 1 .. Len(c.scns), c.scns[i] = ByLibrary(d, i, rc).d.scns[i]
  PROVE  /\ ByLibrary(c, i, rc) = Does(c, "ok") /\ MadeOf(d.scns[i], c.scns[i])
         /\ c.scns[i].data = Placed(d.scns[i].data).data
  <1>1. PICK s0, p, s : /\ s0 = d.scns[i] /\ p = Placed(s0.data)
                        /\ s = [s0 EXCEPT !.data = p.data]
    OBVIOUS
  <1>2. s0 \in Scn /\ s0.data \in Seq(Buffer)
    BY <1>1, ElfFact, ScnFact
  <1>3. p.size \in Nat /\ p.data \in Seq(Buffer) /\ Len(p.data) = Len(s0.data)
    BY <1>1, <1>2, PlacedFact DEF PlacedBuffers
  <1>4. /\ s \in Scn /\ s.s_ndx = s0.s_ndx /\ s.shdr = s0.shdr /\ s.data = p.data
        /\ s.dirty = s0.dirty
    BY <1>1, <1>2, <1>3 DEF Scn
  <1>5. PICK o, n, a : o = OwnAlign(s.shdr) /\ n = ScnAlign(s) /\ a = Max({o, n})
    OBVIOUS
  <1>6. o \in Nat \ {0} /\ n \in Nat
    BY <1>4, <1>5, OwnAlignFact, ScnAlignFact, ScnFact
  <1>7. a \in Nat \ {0} /\ Max({a, n}) = a
    <2>1. o \in Int /\ n \in Int
      BY <1>6
    <2>2. a \in {o, n} /\ a >= o
      BY <1>5, <2>1, MaxOfTwo
    <2>3. Max({a, n}) = a
      BY <1>5, <2>1, MaxAgain
    <2> QED BY <1>6, <2>2, <2>3
  <1>8. PICK t : t = At(s, rc, a, p.size)
    OBVIOUS
  <1>9. /\ t \in Scn /\ At(t, rc, a, p.size) = t /\ OwnAlign(t.shdr) = a /\ t.data = p.data
        /\ t.dirty = s.dirty /\ t.s_ndx = s0.s_ndx
    <2>1. AtStays(s, t, rc, a, p.size)
      BY <1>3, <1>4, <1>7, <1>8, AtTwice
    <2> QED BY <1>4, <2>1 DEF AtStays
  <1>10. t.s_ndx = s0.s_ndx
    BY <1>9
  <1>11. ByLibrary(d, i, rc) = Does(Put(d, i, t), "ok")
    BY <1>1, <1>5, <1>8 DEF ByLibrary
  <1>12. Put(d, i, t).scns[i] = t
    BY <1>1, <1>9, <1>10, PutBut
  <1>13. c.scns[i] = t
    BY <1>11, <1>12 DEF Does
  <1>14. Placed(t.data) = p
    BY <1>1, <1>2, <1>9, PlacedTwice
  <1>15. [t EXCEPT !.data = p.data] = t
    BY <1>9 DEF Scn
  <1>16. ScnAlign(t) = n
    BY <1>4, <1>5, <1>9 DEF ScnAlign
  <1>17. ByLibrary(c, i, rc) = Does(Put(c, i, t), "ok")
    BY <1>7, <1>9, <1>13, <1>14, <1>15, <1>16 DEF ByLibrary
  <1>18. Put(c, i, t) = c
    BY <1>13, PutSame
  <1> QED BY <1>1, <1>3, <1>4, <1>9, <1>13, <1>17, <1>18 DEF MadeOf

LEMMA PlacingTwice ==
  ASSUME NEW d \in Elf, NEW i \in 1 .. Len(d.scns), NEW rc \in Nat, Placing(d, i, rc).says = "ok",
         NEW c \in Elf, i \in 1 .. Len(c.scns), c.scns[i] = Placing(d, i, rc).d.scns[i],
         Layout(c) <=> Layout(d)
  PROVE  Placing(c, i, rc) = Does(c, "ok") /\ MadeOf(d.scns[i], c.scns[i])
  <1>1. PICK data : data = d.scns[i].data
    OBVIOUS
  <1>2. data \in Seq(Buffer) /\ Len(data) \in Nat
    BY <1>1, ElfFact, ScnFact
  <1>3. NoneWrong(d, data)
    <2> SUFFICES ASSUME FirstWrong(d, data) <= Len(data) PROVE FALSE
      BY <1>2, NoneWrongFact
    <2>1. PICK k : k = FirstWrong(d, data)
      OBVIOUS
    <2>2. DataSays(d, data[k]) # "ok"
      BY <1>2, <2>1, FirstWrongFact
    <2>3. Placing(d, i, rc) = AtWrong(d, i)
      BY <1>1 DEF Placing
    <2>4. AtWrong(d, i).says = DataSays(d, data[k])
      BY <1>1, <2>1 DEF AtWrong, Does
    <2> QED BY <2>2, <2>3, <2>4
  <1>4. Aligned(data)
    BY <1>3, DataSaysFact DEF NoneWrong, Aligned
  <1>5. Placing(d, i, rc) = IF Layout(d) THEN ByProgram(d, i) ELSE ByLibrary(d, i, rc)
    BY <1>1, <1>2, <1>3, NoneWrongFact DEF Placing
  <1>6. c.scns[i] \in Scn /\ c.scns[i].data \in Seq(Buffer)
    BY ElfFact, ScnFact
  <1>7. CASE Layout(d)
    <2>1. ByProgram(c, i) = Does(c, "ok") /\ MadeOf(d.scns[i], c.scns[i]) /\ c.scns[i].data = data
      BY <1>1, <1>5, <1>7, ByProgramTwice
    <2>2. NoneWrong(c, data)
      BY <1>3 DEF NoneWrong, DataSays
    <2> QED BY <1>2, <1>7, <2>1, <2>2, NoneWrongFact DEF Placing
  <1>8. CASE ~Layout(d)
    <2>1. /\ ByLibrary(c, i, rc) = Does(c, "ok") /\ MadeOf(d.scns[i], c.scns[i])
          /\ c.scns[i].data = Placed(data).data
      BY <1>1, <1>4, <1>5, <1>8, ByLibraryTwice
    <2>2. PICK new : new = c.scns[i].data
      OBVIOUS
    <2>3. /\ new \in Seq(Buffer) /\ Len(new) = Len(data)
          /\ \A k \in 1 .. Len(data) : new[k] = [data[k] EXCEPT !.d_off = new[k].d_off]
      BY <1>2, <1>4, <2>1, <2>2, PlacedFact DEF PlacedBuffers
    <2>4. NoneWrong(c, new)
      <3> SUFFICES ASSUME NEW k \in 1 .. Len(data) PROVE DataSays(c, new[k]) = "ok"
        BY <2>3 DEF NoneWrong
      <3>1. data[k] \in Buffer /\ new[k].d_off \in Nat
        BY <1>2, <2>3, BufferFact
      <3>2. DataSays(c, [data[k] EXCEPT !.d_off = new[k].d_off]) = DataSays(d, data[k])
        BY <1>8, <3>1, DataSaysAgain
      <3> QED BY <1>3, <2>3, <3>2 DEF NoneWrong
    <2>5. ~(FirstWrong(c, new) <= Len(new))
      BY <2>3, <2>4, NoneWrongFact
    <2>6. Placing(c, i, rc) = ByLibrary(c, i, rc)
      BY <1>8, <2>2, <2>5 DEF Placing
    <2> QED BY <2>1, <2>6
  <1> QED BY <1>7, <1>8

\* Data that are there are not read again.
LEMMA WithDataTwice ==
  ASSUME NEW d \in Elf, NEW i \in 1 .. Len(d.scns), WithData(d, i).says = "ok"
  PROVE  WithData(d, i).d.scns[i].data # << >>
  <1>1. PICK s : s = d.scns[i]
    OBVIOUS
  <1>2. s \in Scn /\ d.scns \in Seq(Scn) /\ i \in DOMAIN d.scns
    BY <1>1, ElfFact
  <1>3. CASE s.data # << >>
    BY <1>1, <1>3 DEF WithData, Does
  <1>4. CASE s.data = << >>
    <2>1. WithData(d, i) = ReadData(d, i)
      BY <1>1, <1>4 DEF WithData
    <2>0. PICK all :
             all = [d_off |-> 0, d_align |-> s.shdr.sh_addralign, d_type |-> "byte",
                       d_size |-> s.shdr.sh_size,
                       d_buf |-> IF s.shdr.sh_type = "nobits" THEN << >>
                                 ELSE SubSeq(d.raw, s.shdr.sh_offset + 1,
                                             s.shdr.sh_offset + s.shdr.sh_size)]
      OBVIOUS
    <2>3. PICK t : t = [s EXCEPT !.data = << all >>]
      OBVIOUS
    <2>2. ReadData(d, i) = Does(Put(d, i, t), "ok")
      <3>2. ReadData(d, i).says = "ok"
        BY <2>1
      <3>3. CASE "raw" \notin d.has
        <4>1. ReadData(d, i) = Does(d, "ARGUMENT")
          BY <3>3 DEF ReadData
        <4> QED BY <3>2, <4>1 DEF Does
      <3>4. CASE "raw" \in d.has /\ (s.shdr.sh_type = "null"
                                     \/ (s.shdr.sh_type # "nobits" /\ ~InRaw(d, s.shdr)))
        <4>1. ReadData(d, i) = Does(d, "SECTION")
          BY <1>1, <3>4 DEF ReadData
        <4> QED BY <3>2, <4>1 DEF Does
      <3>5. CASE "raw" \in d.has /\ ~(s.shdr.sh_type = "null"
                                      \/ (s.shdr.sh_type # "nobits" /\ ~InRaw(d, s.shdr)))
        BY <1>1, <2>0, <2>3, <3>5 DEF ReadData
      <3> QED BY <3>3, <3>4, <3>5
    <2>4. t.data = << all >>
      BY <1>2, <2>3 DEF Scn
    <2>5. Put(d, i, t).scns[i] = t
      BY <1>2 DEF Put, Elf
    <2>6. << all >> # << >>
      OBVIOUS
    <2>7. WithData(d, i).d = Put(d, i, t)
      BY <2>1, <2>2 DEF Does
    <2>8. Put(d, i, t).scns[i].data = << all >>
      BY <2>4, <2>5
    <2> QED BY <2>6, <2>7, <2>8
  <1> QED BY <1>3, <1>4

LEMMA UntouchedTwice ==
  ASSUME NEW d \in Elf, NEW i \in 1 .. Len(d.scns), NEW rc \in Nat,
         NEW c \in Elf, i \in 1 .. Len(c.scns), c.scns[i] = Untouched(d, i, rc).scns[i],
         Layout(c) <=> Layout(d)
  PROVE  /\ Untouched(c, i, rc) = c
         /\ c.scns[i].data = d.scns[i].data /\ c.scns[i].dirty = d.scns[i].dirty
  <1>1. PICK s, t : s = d.scns[i] /\ t = c.scns[i]
    OBVIOUS
  <1>2. s \in Scn /\ t \in Scn /\ OwnAlign(s.shdr) \in Nat \ {0} /\ s.shdr.sh_size \in Nat
    BY <1>1, ElfFact, ScnFact, ShdrFact, OwnAlignFact
  <1>3. CASE Layout(d)
    <2>1. t = Described(s)
      <3>1. Untouched(d, i, rc) = Put(d, i, Described(s))
        BY <1>1, <1>3 DEF Untouched
      <3>2. Put(d, i, Described(s)).scns[i] = Described(s)
        BY <1>1, <1>2, DescribedFact, PutBut DEF Laid
      <3> QED BY <1>1, <3>1, <3>2
    <2>2. Described(t) = t /\ t.data = s.data /\ t.dirty = s.dirty
      BY <1>2, <2>1, DescribedTwice DEF Described, Scn
    <2>3. Untouched(c, i, rc) = Put(c, i, t)
      BY <1>1, <1>3, <2>2 DEF Untouched
    <2> QED BY <1>1, <2>2, <2>3, PutSame
  <1>4. CASE ~Layout(d)
    <2>1. PICK a, n : a = OwnAlign(s.shdr) /\ n = s.shdr.sh_size
      OBVIOUS
    <2>2. t = At(s, rc, a, n)
      <3>1. Untouched(d, i, rc) = Put(d, i, At(s, rc, a, n))
        BY <1>1, <1>4, <2>1 DEF Untouched
      <3>2. At(s, rc, a, n) \in Scn /\ At(s, rc, a, n).s_ndx = s.s_ndx
        <4>1. a \in Nat \ {0} /\ n \in Nat
          BY <1>2, <2>1
        <4>2. AtStays(s, At(s, rc, a, n), rc, a, n)
          BY <1>2, <4>1, AtTwice
        <4> QED BY <4>2 DEF AtStays
      <3>3. Put(d, i, At(s, rc, a, n)).scns[i] = At(s, rc, a, n)
        BY <1>1, <3>2, PutBut
      <3> QED BY <1>1, <3>1, <3>3
    <2>3. /\ At(t, rc, a, n) = t /\ OwnAlign(t.shdr) = a /\ t.shdr.sh_size = n
          /\ t.data = s.data /\ t.dirty = s.dirty
      <3>1. a \in Nat \ {0} /\ n \in Nat
        BY <1>2, <2>1
      <3>2. AtStays(s, t, rc, a, n)
        BY <1>2, <2>2, <3>1, AtTwice
      <3> QED BY <3>2 DEF AtStays
    <2>4. Untouched(c, i, rc) = Put(c, i, t)
      BY <1>1, <1>4, <2>3 DEF Untouched
    <2> QED BY <1>1, <2>3, <2>4, PutSame
  <1> QED BY <1>3, <1>4

\* A section that was placed is placed there again.
LEMMA ExtentsTwice ==
  ASSUME NEW d \in Elf, NEW i \in 1 .. Len(d.scns), NEW rc \in Nat, Extents(d, i, rc).says = "ok",
         NEW c \in Elf, i \in 1 .. Len(c.scns), c.scns[i] = Extents(d, i, rc).d.scns[i],
         Layout(c) <=> Layout(d), c.e_cmd = d.e_cmd
  PROVE  Extents(c, i, rc) = Does(c, "ok")
  <1>1. PICK s, t : s = d.scns[i] /\ t = c.scns[i]
    OBVIOUS
  <1>2. s \in Scn /\ t \in Scn
    BY <1>1, ElfFact
  <1>3. CASE s.data = << >> /\ ~s.dirty
    <2>1. Extents(d, i, rc) = Does(Untouched(d, i, rc), "ok")
      BY <1>1, <1>3 DEF Extents
    <2>2. Untouched(c, i, rc) = c /\ t.data = s.data /\ t.dirty = s.dirty
      BY <1>1, <2>1, UntouchedTwice DEF Does
    <2> QED BY <1>1, <1>3, <2>2 DEF Extents
  <1>4. CASE ~(s.data = << >> /\ ~s.dirty)
    <2>1. PICK x : x = IF d.e_cmd = "WRITE" THEN Does(d, "ok") ELSE WithData(d, i)
      OBVIOUS
    <2>2. Extents(d, i, rc) = IF x.says # "ok" THEN x ELSE Placing(x.d, i, rc)
      BY <1>1, <1>4, <2>1 DEF Extents
    <2>3. x.says = "ok" /\ Extents(d, i, rc) = Placing(x.d, i, rc)
      BY <2>2
    <2>4. /\ x.d \in Elf /\ i \in 1 .. Len(x.d.scns) /\ x.d.has = d.has
          /\ x.d.scns[i] \in Scn /\ x.d.scns[i].dirty = s.dirty
          /\ s.data # << >> => x.d.scns[i].data = s.data
      <3>1. CASE d.e_cmd = "WRITE"
        BY <1>1, <1>2, <2>1, <3>1 DEF Does
      <3>2. CASE d.e_cmd # "WRITE"
        <4>1. DataRead(d, x, i)
          BY <2>1, <3>2, WithDataFact
        <4>2. s.data # << >> => x = Does(d, "ok")
          BY <1>1, <2>1, <3>2 DEF WithData
        <4>3. s.data # << >> => x.d = d
          BY <4>2 DEF Does
        <4> QED BY <1>1, <4>1, <4>3 DEF DataRead, But, Beside, SameHeader
      <3> QED BY <3>1, <3>2
    <2>5. Layout(c) <=> Layout(x.d)
      BY <2>4 DEF Layout
    <2>6. Placing(c, i, rc) = Does(c, "ok") /\ MadeOf(x.d.scns[i], t)
      BY <1>1, <2>3, <2>4, <2>5, PlacingTwice
    <2>7. PICK old : old = x.d.scns[i].data
      OBVIOUS
    <2>8. old \in Seq(Buffer) /\ t.data \in Seq(Buffer) /\ Len(t.data) = Len(old) /\ t.dirty = s.dirty
      BY <1>2, <2>4, <2>6, <2>7, ScnFact DEF MadeOf
    <2>9. old # << >> => t.data # << >>
      <3>1. old # << >> => Len(old) # 0
        BY <2>8
      <3>2. t.data = << >> => Len(t.data) = 0
        OBVIOUS
      <3> QED BY <2>8, <3>1, <3>2
    <2>10. ~(t.data = << >> /\ ~t.dirty)
      <3>1. CASE s.dirty
        BY <2>8, <3>1
      <3>2. CASE s.data # << >>
        BY <2>4, <2>7, <2>9, <3>2
      <3> QED BY <1>4, <3>1, <3>2
    <2>11. (IF c.e_cmd = "WRITE" THEN Does(c, "ok") ELSE WithData(c, i)) = Does(c, "ok")
      <3> SUFFICES ASSUME d.e_cmd # "WRITE" PROVE WithData(c, i) = Does(c, "ok")
        OBVIOUS
      <3>1. old # << >>
        BY <2>1, <2>3, <2>7, WithDataTwice
      <3> QED BY <1>1, <2>9, <3>1 DEF WithData
    <2>12. Extents(c, i, rc) = Placing(c, i, rc)
      <3>1. PICK z : z = IF c.e_cmd = "WRITE" THEN Does(c, "ok") ELSE WithData(c, i)
        OBVIOUS
      <3>2. z.says = "ok" /\ z.d = c
        BY <2>11, <3>1 DEF Does
      <3>3. Extents(c, i, rc) = IF z.says # "ok" THEN z ELSE Placing(z.d, i, rc)
        BY <1>1, <2>10, <3>1 DEF Extents
      <3> QED BY <3>2, <3>3
    <2> QED BY <2>6, <2>12
  <1> QED BY <1>3, <1>4

\* y is b, laid out as a was.
SameSteps(b, y, a) ==
    /\ y.d = b.d /\ y.says = "ok" /\ y.rc = a.rc /\ y.ext = a.ext
    /\ y.phoff = b.phoff /\ y.shoff = b.shoff /\ y \in Ats

LEMMA InsertAgain ==
  ASSUME NEW a \in Ats, NEW type, NEW start, NEW size, NEW i, a.says = "ok",
         Insert(a, type, start, size, i) \in Ats, Insert(a, type, start, size, i).says = "ok",
         NEW b \in Ats, b.rc = a.rc, b.ext = a.ext, b.says = "ok"
  PROVE  SameSteps(b, Insert(b, type, start, size, i), Insert(a, type, start, size, i))
  <1>1. PICK x : x = [ex_start |-> start, ex_size |-> size, ex_type |-> type, ex_scn |-> i]
    OBVIOUS
  <1>2. PICK xs : xs = Inserted(a.ext, x)
    OBVIOUS
  <1>3. Unused(a.ext, x)
    <2> SUFFICES ASSUME ~Unused(a.ext, x) PROVE FALSE
      OBVIOUS
    <2>1. Insert(a, type, start, size, i) = Stop(a, "LAYOUT")
      BY <1>1 DEF Insert
    <2>2. Stop(a, "LAYOUT").says = "LAYOUT"
      BY StopFact DEF Words
    <2> QED BY <2>1, <2>2
  <1>4. Insert(a, type, start, size, i) = [a EXCEPT !.ext = xs]
    <2>1. Insert(a, type, start, size, i) = [a EXCEPT !.ext = Inserted(@, x)]
      BY <1>1, <1>3 DEF Insert
    <2> QED BY <1>2, <2>1 DEF Ats
  <1>5. Insert(b, type, start, size, i) = [b EXCEPT !.ext = xs]
    <2>1. Insert(b, type, start, size, i) = [b EXCEPT !.ext = Inserted(@, x)]
      BY <1>1, <1>3 DEF Insert
    <2> QED BY <1>2, <2>1 DEF Ats
  <1>6. PICK z, y : z = [a EXCEPT !.ext = xs] /\ y = [b EXCEPT !.ext = xs]
    OBVIOUS
  <1>7. xs \in Seq(Extent) /\ z.rc = a.rc /\ z.ext = xs
    <2>1. z \in Ats
      BY <1>4, <1>6
    <2>2. z.ext = xs /\ z.rc = a.rc
      BY <1>6 DEF Ats
    <2> QED BY <2>1, <2>2, AtsFact
  <1>8. /\ y \in Ats /\ y.d = b.d /\ y.says = "ok" /\ y.rc = b.rc /\ y.ext = xs
        /\ y.phoff = b.phoff /\ y.shoff = b.shoff
    BY <1>6, <1>7 DEF Ats
  <1> QED BY <1>4, <1>5, <1>6, <1>7, <1>8 DEF SameSteps

LEMMA InsertKeeps ==
  ASSUME NEW a \in Ats, NEW type, NEW start, NEW size, NEW i
  PROVE  /\ Insert(a, type, start, size, i).d = a.d
         /\ Insert(a, type, start, size, i).phoff = a.phoff
         /\ Insert(a, type, start, size, i).shoff = a.shoff
  <1>1. PICK x : x = [ex_start |-> start, ex_size |-> size, ex_type |-> type, ex_scn |-> i]
    OBVIOUS
  <1>2. CASE Unused(a.ext, x)
    <2>1. Insert(a, type, start, size, i) = [a EXCEPT !.ext = Inserted(@, x)]
      BY <1>1, <1>2 DEF Insert
    <2> QED BY <2>1 DEF Ats
  <1>3. CASE ~Unused(a.ext, x)
    <2>1. Insert(a, type, start, size, i) = Stop(a, "LAYOUT")
      BY <1>1, <1>3 DEF Insert
    <2> QED BY <2>1, StopFact DEF Words
  <1> QED BY <1>2, <1>3

\* The turn of a section touches this section only, and not its type.
TurnKeeps(b, y, i) ==
    /\ But(b.d, y.d, i) /\ y.d.scns[i].shdr.sh_type = b.d.scns[i].shdr.sh_type
    /\ y.phoff = b.phoff /\ y.shoff = b.shoff

LEMMA LargestEndFact ==
  ASSUME NEW b, b.rc \in Nat, NEW s \in Scn
  PROVE  LargestEnd(b, s) \in Nat
  <1>1. PICK k, m : k = b.rc /\ m = s.s_offset + s.s_size
    OBVIOUS
  <1>2. k \in Nat /\ m \in Nat
    BY <1>1, ScnFact
  <1>3. k \in Int /\ m \in Int
    BY <1>2
  <1>4. Max({k, m}) \in {k, m}
    BY ONLY <1>3, MaxOfTwo
  <1>5. LargestEnd(b, s) = Max({k, m})
    BY <1>1 DEF LargestEnd
  <1> QED BY <1>2, <1>4, <1>5

LEMMA PlaceScnBut ==
  ASSUME NEW b \in Ats, NEW i \in 1 .. Len(b.d.scns)
  PROVE  /\ TurnKeeps(b, PlaceScn(b, i), i)
         /\ b.d.scns[i].shdr.sh_type \in {"null", "nobits"} => PlaceScn(b, i) = b
         /\ b.d.scns[i].shdr.sh_type \notin {"null", "nobits"} =>
                PlaceScn(b, i).d = Extents(b.d, i, b.rc).d
  <1>0. b.d \in Elf /\ b.rc \in Nat
    BY AtsFact
  <1>1. PICK x : x = Extents(b.d, i, b.rc)
    OBVIOUS
  <1>2. IsPlaced(b.d, x, i)
    BY <1>0, <1>1, ExtentsFact
  <1>3. x.d \in Elf /\ x.says \in Words /\ But(b.d, x.d, i)
        /\ x.d.scns[i].shdr.sh_type = b.d.scns[i].shdr.sh_type
    BY <1>2 DEF IsPlaced
  <1>4. CASE b.d.scns[i].shdr.sh_type \in {"null", "nobits"}
    <2>1. PlaceScn(b, i) = b
      BY <1>4 DEF PlaceScn
    <2> QED BY <1>4, <2>1, ButSame DEF TurnKeeps
  <1>5. CASE b.d.scns[i].shdr.sh_type \notin {"null", "nobits"}
    <2>1. PICK w, s, z : /\ w = [b EXCEPT !.d = x.d] /\ s = x.d.scns[i]
                         /\ z = [w EXCEPT !.rc = LargestEnd(b, s)]
      OBVIOUS
    <2>2. PlaceScn(b, i) = IF x.says # "ok" THEN Stop(w, x.says) ELSE IF s.s_size = 0 THEN w
                           ELSE Insert(z, "section", s.s_offset, s.s_size, i)
      BY <1>1, <1>5, <2>1 DEF PlaceScn
    <2>3. w \in Ats /\ w.d = x.d /\ w.phoff = b.phoff /\ w.shoff = b.shoff
      BY <1>3, <2>1 DEF Ats
    <2>4. /\ Stop(w, x.says).d = x.d /\ Stop(w, x.says).phoff = b.phoff
          /\ Stop(w, x.says).shoff = b.shoff
      BY <1>3, <2>3, StopFact
    <2>5. s \in Scn => z \in Ats /\ z.d = x.d /\ z.phoff = b.phoff /\ z.shoff = b.shoff
      <3>1. s \in Scn => LargestEnd(b, s) \in Nat
        BY <1>0, LargestEndFact
      <3> QED BY <2>1, <2>3, <3>1 DEF Ats
    <2>6. s \in Scn
      BY <1>2, <2>1 DEF IsPlaced
    <2>7. PICK v : v = Insert(z, "section", s.s_offset, s.s_size, i)
      OBVIOUS
    <2>8. v.d = x.d /\ v.phoff = b.phoff /\ v.shoff = b.shoff
      BY <2>5, <2>6, <2>7, InsertKeeps
    <2>9. PICK y : y = PlaceScn(b, i)
      OBVIOUS
    <2>10. y.d = x.d /\ y.phoff = b.phoff /\ y.shoff = b.shoff
      BY <2>2, <2>3, <2>4, <2>7, <2>8, <2>9
    <2> QED BY <1>1, <1>3, <1>5, <2>9, <2>10 DEF TurnKeeps
  <1> QED BY <1>4, <1>5

LEMMA PlaceScnTwice ==
  ASSUME NEW b \in Ats, NEW i \in 1 .. Len(b.d.scns), b.says = "ok",
         NEW y, y = PlaceScn(b, i), y.says = "ok", y \in Ats,
         NEW c \in Ats, c.says = "ok", c.rc = b.rc, c.ext = b.ext, i \in 1 .. Len(c.d.scns),
         c.d.scns[i] = y.d.scns[i], Layout(c.d) <=> Layout(b.d), c.d.e_cmd = b.d.e_cmd
  PROVE  SameSteps(c, PlaceScn(c, i), y)
  <1>0. b.d \in Elf /\ b.rc \in Nat /\ c.d \in Elf
    BY AtsFact
  <1>1. /\ y.d.scns[i].shdr.sh_type = b.d.scns[i].shdr.sh_type
        /\ b.d.scns[i].shdr.sh_type \in {"null", "nobits"} => y = b
        /\ b.d.scns[i].shdr.sh_type \notin {"null", "nobits"} => y.d = Extents(b.d, i, b.rc).d
    BY PlaceScnBut DEF TurnKeeps
  <1>2. CASE b.d.scns[i].shdr.sh_type \in {"null", "nobits"}
    <2>1. PlaceScn(c, i) = c
      BY <1>1, <1>2 DEF PlaceScn
    <2> QED BY <1>1, <1>2, <2>1 DEF SameSteps
  <1>3. CASE b.d.scns[i].shdr.sh_type \notin {"null", "nobits"}
    <2>1. PICK x, s : x = Extents(b.d, i, b.rc) /\ s = x.d.scns[i]
      OBVIOUS
    <2>2. IsPlaced(b.d, x, i)
      BY <1>0, <2>1, ExtentsFact
    <2>3. PICK w : w = [b EXCEPT !.d = x.d]
      OBVIOUS
    <2>4. /\ w \in Ats /\ w.d = x.d /\ w.rc = b.rc /\ w.ext = b.ext /\ w.says = "ok"
      BY <2>2, <2>3 DEF Ats, IsPlaced
    <2>5. PICK end : end = LargestEnd(b, s)
      OBVIOUS
    <2>6. PICK z, zc : z = [w EXCEPT !.rc = end] /\ zc = [c EXCEPT !.rc = end]
      OBVIOUS
    <2>7. PlaceScn(b, i) = IF x.says # "ok" THEN Stop(w, x.says) ELSE IF s.s_size = 0 THEN w
                           ELSE Insert(z, "section", s.s_offset, s.s_size, i)
      BY <1>3, <2>1, <2>3, <2>5, <2>6 DEF PlaceScn
    <2>8. x.says = "ok"
      <3>1. x.says \in Words
        BY <2>2 DEF IsPlaced
      <3>2. Stop(w, x.says).says = x.says
        BY <2>4, <3>1, StopFact
      <3> QED BY <2>7, <3>2
    <2>9. Extents(c.d, i, c.rc) = Does(c.d, "ok")
      BY <1>0, <1>1, <1>3, <2>1, <2>8, ExtentsTwice
    <2>10. c.d.scns[i] = s /\ s \in Scn
      BY <1>1, <1>3, <2>1, <2>2 DEF IsPlaced
    <2>11. [c EXCEPT !.d = c.d] = c
      BY DEF Ats
    <2>12. LargestEnd(c, s) = end
      BY <2>5 DEF LargestEnd
    <2>13. PlaceScn(c, i) = IF s.s_size = 0 THEN c
                            ELSE Insert(zc, "section", s.s_offset, s.s_size, i)
      <3>1. PICK v : v = Extents(c.d, i, c.rc)
        OBVIOUS
      <3>2. v.d = c.d /\ v.says = "ok"
        BY <2>9, <3>1 DEF Does
      <3>3. PlaceScn(c, i) = IF v.says # "ok" THEN Stop([c EXCEPT !.d = v.d], v.says)
                             ELSE IF v.d.scns[i].s_size = 0 THEN [c EXCEPT !.d = v.d]
                             ELSE Insert([[c EXCEPT !.d = v.d] EXCEPT !.rc = LargestEnd(c, v.d.scns[i])],
                                         "section", v.d.scns[i].s_offset, v.d.scns[i].s_size, i)
        BY <1>1, <1>3, <3>1 DEF PlaceScn
      <3> QED BY <2>6, <2>10, <2>11, <2>12, <3>2, <3>3
    <2>14. CASE s.s_size = 0
      <3>1. y = w /\ PlaceScn(c, i) = c
        BY <2>7, <2>8, <2>13, <2>14
      <3> QED BY <2>4, <3>1 DEF SameSteps
    <2>15. CASE s.s_size # 0
      <3>1. y = Insert(z, "section", s.s_offset, s.s_size, i)
        BY <2>7, <2>8, <2>15
      <3>2. PlaceScn(c, i) = Insert(zc, "section", s.s_offset, s.s_size, i)
        BY <2>13, <2>15
      <3>3. end \in Nat
        BY <1>0, <2>5, <2>10, LargestEndFact
      <3>4. /\ z \in Ats /\ z.rc = end /\ z.ext = b.ext /\ z.says = "ok"
        BY <2>4, <2>6, <3>3 DEF Ats
      <3>5. /\ zc \in Ats /\ zc.rc = end /\ zc.ext = b.ext /\ zc.says = "ok" /\ zc.d = c.d
            /\ zc.phoff = c.phoff /\ zc.shoff = c.shoff
        BY <2>6, <3>3 DEF Ats
      <3>6. SameSteps(zc, PlaceScn(c, i), y)
        BY <3>1, <3>2, <3>4, <3>5, InsertAgain
      <3> QED BY <3>5, <3>6 DEF SameSteps
    <2> QED BY <2>14, <2>15
  <1> QED BY <1>2, <1>3

LEMMA FirstTurnKeeps ==
  ASSUME NEW at \in Ats
  PROVE  /\ FirstTurn(at).d = WithShdrs(at.d).d /\ FirstTurn(at).says = WithShdrs(at.d).says
         /\ FirstTurn(at).rc = at.rc /\ FirstTurn(at).ext = at.ext
         /\ FirstTurn(at).phoff = at.phoff /\ FirstTurn(at).shoff = at.shoff
  <1>1. PICK x, w : x = WithShdrs(at.d) /\ w = [at EXCEPT !.d = x.d]
    OBVIOUS
  <1>2. PICK z : z = [w EXCEPT !.says = x.says]
    OBVIOUS
  <1>3. /\ z.d = x.d /\ z.says = x.says /\ z.rc = at.rc /\ z.ext = at.ext /\ z.phoff = at.phoff
        /\ z.shoff = at.shoff
    BY <1>1, <1>2 DEF Ats
  <1> QED BY <1>1, <1>2, <1>3 DEF FirstTurn, Stop

\* What the turns of the first layout leave for the second.
TurnsKept(at, f, n) ==
    /\ \A i \in 0 .. n : /\ f[i] \in Ats /\ f[i].says = "ok" /\ Beside(f[0].d, f[i].d)
                         /\ Len(f[i].d.scns) = n /\ f[i].phoff = at.phoff /\ f[i].shoff = at.shoff
    /\ \A i \in 1 .. n : /\ f[i] = PlaceScn(f[i - 1], i) /\ f[n].d.scns[i] = f[i].d.scns[i]
                         /\ f[i].d.scns[i].shdr.sh_type = f[i - 1].d.scns[i].shdr.sh_type

LEMMA TurnsKeptFact ==
  ASSUME NEW at, Good(at, 0), at.says = "ok", PhdrPlaced(at), NEW f, ScnTurns(at, f),
         NEW n, n = Len(WithShdrs(at.d).d.scns), f[n].says = "ok"
  PROVE  n \in Nat /\ TurnsKept(at, f, n)
  <1>1. n \in Nat /\ \A i \in 0 .. n : TurnGood(at, n, f[i], i)
    BY EachTurn
  <1>2. \A i \in 0 .. n : f[i] \in Ats /\ Len(f[i].d.scns) = n
    BY <1>1 DEF TurnGood, Good
  <1>3. \A i \in 1 .. n : f[i] = TurnOf(f[i - 1], i)
    BY DEF ScnTurns
  <1>4. \A i \in 0 .. n : f[i].says = "ok"
    <2> DEFINE S == {j \in 0 .. n : f[n - j].says = "ok"}
    <2>1. 0 \in S
      BY <1>1
    <2>2. ASSUME NEW j \in 1 .. n, j - 1 \in S PROVE j \in S
      <3>1. PICK k : k = n - j
        OBVIOUS
      <3>2. k \in 0 .. n /\ k + 1 \in 1 .. n /\ n - (j - 1) = k + 1 /\ (k + 1) - 1 = k
        BY <1>1, <3>1
      <3>3. f[k + 1].says = "ok" /\ f[k + 1] = TurnOf(f[k], k + 1)
        BY <1>3, <2>2, <3>2
      <3>4. f[k].says = "ok"
        BY <3>3 DEF TurnOf
      <3> QED BY <1>1, <3>1, <3>4
    <2> HIDE DEF S
    <2>3. 0 .. n \subseteq S
      BY <1>1, <2>1, <2>2, UpTo
    <2> SUFFICES ASSUME NEW i \in 0 .. n PROVE f[i].says = "ok"
      OBVIOUS
    <2>4. n - i \in S /\ n - (n - i) = i
      BY <1>1, <2>3
    <2> QED BY <2>4 DEF S
  <1>5. ASSUME NEW i \in 1 .. n
        PROVE  f[i] = PlaceScn(f[i - 1], i) /\ TurnKeeps(f[i - 1], f[i], i)
    <2>1. i - 1 \in 0 .. n
      BY <1>1
    <2>2. f[i] = PlaceScn(f[i - 1], i)
      BY <1>3, <1>4, <2>1 DEF TurnOf
    <2>3. f[i - 1] \in Ats /\ i \in 1 .. Len(f[i - 1].d.scns)
      BY <1>2, <2>1
    <2> QED BY <2>2, <2>3, PlaceScnBut
  <1>6. \A i \in 0 .. n : Beside(f[0].d, f[i].d) /\ f[i].phoff = at.phoff /\ f[i].shoff = at.shoff
    <2> DEFINE S == {i \in 0 .. n : Beside(f[0].d, f[i].d) /\ f[i].phoff = at.phoff
                                    /\ f[i].shoff = at.shoff}
    <2>1. 0 \in S
      <3>1. f[0] = FirstTurn(at) /\ at \in Ats
        BY DEF ScnTurns, Good
      <3>2. f[0].phoff = at.phoff /\ f[0].shoff = at.shoff
        BY <3>1, FirstTurnKeeps
      <3> QED BY <1>1, <3>2 DEF Beside
    <2>2. ASSUME NEW i \in 1 .. n, i - 1 \in S PROVE i \in S
      <3>1. Beside(f[i - 1].d, f[i].d) /\ f[i].phoff = f[i - 1].phoff /\ f[i].shoff = f[i - 1].shoff
        BY <1>5 DEF TurnKeeps, But
      <3>2. Beside(f[0].d, f[i - 1].d)
        BY <2>2
      <3>3. Beside(f[0].d, f[i].d)
        BY <3>1, <3>2, BesideTrans
      <3> QED BY <1>1, <2>2, <3>1, <3>3
    <2> HIDE DEF S
    <2>3. 0 .. n \subseteq S
      BY <1>1, <2>1, <2>2, UpTo
    <2> QED BY <2>3 DEF S
  <1>7. ASSUME NEW i \in 1 .. n PROVE f[n].d.scns[i] = f[i].d.scns[i]
    <2> DEFINE S == {j \in 0 .. n : j >= i => f[j].d.scns[i] = f[i].d.scns[i]}
    <2>1. 0 \in S
      BY <1>1
    <2>2. ASSUME NEW j \in 1 .. n, j - 1 \in S PROVE j \in S
      <3>1. CASE j <= i
        BY <1>1, <3>1
      <3>2. CASE ~(j <= i)
        <4>1. f[j - 1].d.scns[i] = f[i].d.scns[i]
          BY <2>2, <3>2
        <4>2. j - 1 \in 0 .. n /\ i \in 1 .. n /\ i # j
          BY <1>1, <3>2
        <4>3. f[j].d.scns[i] = f[j - 1].d.scns[i]
          BY <1>2, <1>5, <4>2 DEF TurnKeeps, But
        <4> QED BY <1>1, <4>1, <4>3
      <3> QED BY <3>1, <3>2
    <2> HIDE DEF S
    <2>3. 0 .. n \subseteq S
      BY <1>1, <2>1, <2>2, UpTo
    <2>4. n \in S /\ n >= i
      BY <1>1, <2>3
    <2> QED BY <2>4 DEF S
  <1>8. \A i \in 1 .. n : f[i].d.scns[i].shdr.sh_type = f[i - 1].d.scns[i].shdr.sh_type
    BY <1>5 DEF TurnKeeps
  <1> QED BY <1>1, <1>2, <1>4, <1>5, <1>6, <1>7, <1>8 DEF TurnsKept

\* c has the sections the layout left in d, and the first is none.
SameScns(d, c) ==
    /\ d.scns # << >> => Len(c.scns) = Len(d.scns) /\ d.scns[1].shdr.sh_type = "null"
    /\ d.scns = << >> => Len(c.scns) \in {0, 1}
    /\ c.scns # << >> => c.scns[1].shdr.sh_type = "null"
    /\ \A i \in 2 .. Len(c.scns) : c.scns[i] = d.scns[i]

LEMMA SectionsThere ==
  ASSUME NEW d, "ehdr" \in d.has, d.e_cmd = "WRITE" \/ "shdrs" \in d.has
  PROVE  WithShdrs(d) = Does(d, "ok")
  <1>1. WithEhdr(d) = Does(d, "ok")
    BY DEF WithEhdr
  <1>2. PICK x : x = WithEhdr(d)
    OBVIOUS
  <1>3. WithShdrs(d) = x
    BY <1>2 DEF WithShdrs
  <1> QED BY <1>1, <1>2, <1>3

LEMMA SameStepsTrans ==
  ASSUME NEW a, NEW b, NEW c, NEW z, NEW y, SameSteps(c, b, z), SameSteps(b, a, y)
  PROVE  SameSteps(c, a, y)
  BY DEF SameSteps

LEMMA PlaceScnsTwice ==
  ASSUME NEW at, Good(at, 0), at.says = "ok", PhdrPlaced(at),
         NEW y, y = PlaceScns(at), y.says = "ok",
         NEW c \in Ats, c.says = "ok", c.rc = at.rc, c.ext = at.ext, "ehdr" \in c.d.has,
         c.d.e_cmd = "WRITE" \/ "shdrs" \in c.d.has,
         Layout(c.d) <=> Layout(y.d), c.d.e_cmd = y.d.e_cmd, SameScns(y.d, c.d)
  PROVE  SameSteps(c, PlaceScns(c), y)
  <1>1. PICK n, m : n = Len(WithShdrs(at.d).d.scns) /\ m = Len(c.d.scns)
    OBVIOUS
  <1>2. n \in Nat
    <2>1. SectionsRead(at.d, WithShdrs(at.d))
      BY WithShdrsFact DEF Good
    <2> QED BY <1>1, <2>1, ElfFact DEF SectionsRead, Sound
  <1>3. PICK f : ScnTurns(at, f) /\ y = f[n]
    BY <1>1, <1>2, ScnTurn
  <1>4. TurnsKept(at, f, n)
    BY <1>1, <1>3, TurnsKeptFact
  <1>5. c.d \in Elf /\ m \in Nat /\ WithShdrs(c.d) = Does(c.d, "ok")
    BY <1>1, AtsFact, ElfFact, SectionsThere
  <1>6. PICK g : ScnTurns(c, g) /\ PlaceScns(c) = g[m]
    <2>1. Len(WithShdrs(c.d).d.scns) = m
      BY <1>1, <1>5 DEF Does
    <2> QED BY <1>5, <2>1, ScnTurn
  <1>7. \A i \in 1 .. m : g[i] = TurnOf(g[i - 1], i)
    BY <1>1, <1>5, <1>6 DEF ScnTurns, Does
  <1>8. SameSteps(c, g[0], f[0])
    <2>1. f[0] = FirstTurn(at) /\ g[0] = FirstTurn(c) /\ at \in Ats
      BY <1>3, <1>6 DEF ScnTurns, Good
    <2>2. f[0].rc = at.rc /\ f[0].ext = at.ext
      BY <2>1, FirstTurnKeeps
    <2>3. g[0] = c
      <3>1. FirstTurn(c) = Stop([c EXCEPT !.d = c.d], "ok")
        BY <1>5 DEF FirstTurn, Does
      <3>2. [c EXCEPT !.d = c.d] = c
        BY DEF Ats
      <3>3. Stop(c, "ok") = c
        BY DEF Stop, Ats
      <3> QED BY <2>1, <3>1, <3>2, <3>3
    <2> QED BY <2>2, <2>3 DEF SameSteps
  <1>9. Len(y.d.scns) = n /\ (n = 0 <=> y.d.scns = << >>)
    <2>1. n \in 0 .. n
      BY <1>2
    <2>2. y \in Ats /\ Len(y.d.scns) = n
      BY <1>3, <1>4, <2>1 DEF TurnsKept
    <2>3. y.d.scns \in Seq(Scn)
      BY <2>2, AtsFact, ElfFact
    <2> QED BY <2>2, <2>3
  <1>10. m # 0 => c.d.scns[1].shdr.sh_type = "null"
    <2>1. m # 0 => c.d.scns # << >>
      BY <1>1
    <2> QED BY <2>1 DEF SameScns
  <1>11. ASSUME NEW b, SameSteps(c, b, f[0]), m # 0
         PROVE  TurnOf(b, 1) = b
    <2>1. b.d = c.d /\ b.says = "ok"
      BY <1>11 DEF SameSteps
    <2> QED BY <1>10, <1>11, <2>1 DEF TurnOf, PlaceScn
  <1>12. CASE n = 0
    <2>1. m \in {0, 1} /\ y = f[0]
      BY <1>1, <1>3, <1>9, <1>12 DEF SameScns
    <2>2. g[m] = g[0]
      <3>1. CASE m = 0
        BY <3>1
      <3>2. CASE m = 1
        <4>1. g[1] = TurnOf(g[0], 1)
          BY <1>7, <3>2
        <4> QED BY <1>8, <1>11, <3>2, <4>1
      <3> QED BY <2>1, <3>1, <3>2
    <2> QED BY <1>6, <1>8, <2>1, <2>2
  <1>13. CASE n # 0
    <2>1. m = n /\ y.d.scns[1].shdr.sh_type = "null"
      BY <1>1, <1>9, <1>13 DEF SameScns
    <2> DEFINE S == {i \in 0 .. n : SameSteps(c, g[i], f[i])}
    <2>2. 0 \in S
      BY <1>2, <1>8
    <2>3. ASSUME NEW i \in 1 .. n, i - 1 \in S PROVE i \in S
      <3>1. PICK b, h : b = f[i - 1] /\ h = g[i - 1]
        OBVIOUS
      <3>2. SameSteps(c, h, b)
        BY <2>3, <3>1
      <3>3. /\ b \in Ats /\ b.says = "ok" /\ Len(b.d.scns) = n /\ Beside(f[0].d, b.d)
            /\ f[i] \in Ats /\ f[i].says = "ok" /\ f[i] = PlaceScn(b, i)
            /\ y.d.scns[i] = f[i].d.scns[i]
            /\ f[i].d.scns[i].shdr.sh_type = b.d.scns[i].shdr.sh_type
        <4>1. i - 1 \in 0 .. n /\ i \in 0 .. n
          BY <1>2
        <4> QED BY <1>3, <1>4, <3>1, <4>1 DEF TurnsKept
      <3>4. g[i] = PlaceScn(h, i)
        BY <1>7, <2>1, <3>1, <3>2 DEF TurnOf, SameSteps
      <3>5. CASE i = 1
        <4>1. b.d.scns[1].shdr.sh_type = "null"
          BY <2>1, <3>3, <3>5
        <4>2. PlaceScn(b, 1) = b
          BY <4>1 DEF PlaceScn
        <4>3. PlaceScn(h, 1) = h
          <5>1. h.d = c.d
            BY <3>2 DEF SameSteps
          <5> QED BY <1>10, <1>13, <2>1, <5>1 DEF PlaceScn
        <4> QED BY <3>2, <3>3, <3>4, <3>5, <4>2, <4>3
      <3>6. CASE i # 1
        <4>1. c.d.scns[i] = y.d.scns[i]
          <5>1. i \in 2 .. Len(c.d.scns)
            BY <1>1, <1>2, <2>1, <3>6
          <5> QED BY <5>1 DEF SameScns
        <4>2. /\ h \in Ats /\ h.d = c.d /\ h.says = "ok" /\ h.rc = b.rc /\ h.ext = b.ext
          BY <3>2 DEF SameSteps
        <4>3. Beside(f[0].d, y.d)
          <5>1. n \in 0 .. n
            BY <1>2
          <5> QED BY <1>3, <1>4, <5>1 DEF TurnsKept
        <4>4. (Layout(h.d) <=> Layout(b.d)) /\ h.d.e_cmd = b.d.e_cmd
          BY <3>3, <4>2, <4>3 DEF Beside, Layout
        <4>5. i \in 1 .. Len(b.d.scns) /\ i \in 1 .. Len(h.d.scns)
          BY <1>1, <2>1, <3>3, <4>2
        <4>6. SameSteps(h, PlaceScn(h, i), f[i])
          BY <3>3, <4>1, <4>2, <4>4, <4>5, PlaceScnTwice
        <4>7. SameSteps(c, g[i], f[i])
          BY <3>2, <3>4, <4>6, SameStepsTrans
        <4> QED BY <4>7
      <3> QED BY <3>5, <3>6
    <2> HIDE DEF S
    <2>4. 0 .. n \subseteq S
      BY <1>2, <2>2, <2>3, UpTo
    <2>5. n \in S
      BY <1>2, <2>4
    <2> QED BY <1>3, <1>6, <2>1, <2>5 DEF S
  <1> QED BY <1>12, <1>13

\* c is a later state of the same layout, or of the next.
Along(d, c) ==
    /\ c.e_cmd = d.e_cmd /\ c.e_nscn = d.e_nscn /\ c.e_nphdr = d.e_nphdr
    /\ Layout(c) <=> Layout(d)
    /\ Layout(d) => c.ehdr.e_phoff = d.ehdr.e_phoff /\ c.ehdr.e_shoff = d.ehdr.e_shoff

LEMMA AlongTrans ==
  ASSUME NEW a, NEW b, NEW c, Along(a, b), Along(b, c)
  PROVE  Along(a, c)
  BY DEF Along

\* The second of two layouts is at z, where the first was at y.
Follows(z, y) ==
    /\ z \in Ats /\ z.says = "ok" /\ z.rc = y.rc /\ z.ext = y.ext
    /\ z.phoff = y.phoff /\ z.shoff = y.shoff

LEMMA PhdrReadAlong ==
  ASSUME NEW d, NEW x, PhdrRead(d, x)
  PROVE  Along(d, x.d)
  <1>1. "LAYOUT" \in x.d.has \ {"phdr"} <=> "LAYOUT" \in d.has \ {"phdr"}
    BY DEF PhdrRead
  <1> QED BY <1>1 DEF Along, PhdrRead, Layout

LEMMA PlacePhdrsTwice ==
  ASSUME NEW at, Good(at, 0), at.says = "ok", NEW y, y = PlacePhdrs(at), y.says = "ok",
         NEW c \in Ats, Sound(c.d), "ehdr" \in c.d.has, c.says = "ok", c.rc = at.rc, c.ext = at.ext,
         c.phoff = at.phoff, c.shoff = at.shoff, Along(at.d, c.d)
  PROVE  Follows(PlacePhdrs(c), y) /\ PhdrRead(c.d, PlacePhdrs(c))
  <1> DEFINE n   == at.d.e_nphdr
             off == PhdrOff(at)
  <1>0. /\ at \in Ats /\ Sound(at.d) /\ at.d \in Elf /\ "ehdr" \in at.d.has /\ at.rc \in Nat
        /\ n \in Nat /\ at.d.ehdr \in Ehdr /\ c.d \in Elf
    BY AtsFact, ElfFact DEF Good
  <1>1. off \in Nat
    BY <1>0, Constants, RoundupFact DEF PhdrOff, Ehdr
  <1>2. c.d.e_nphdr = n /\ (Layout(c.d) <=> Layout(at.d)) /\ PhdrOff(c) = off
    BY DEF Along, PhdrOff
  <1>3. CASE n = 0
    <2>1. y = at /\ PlacePhdrs(c) = c
      BY <1>2, <1>3 DEF PlacePhdrs
    <2>2. PhdrRead(c.d, c)
      BY DEF PhdrRead
    <2> QED BY <2>1, <2>2 DEF Follows
  <1>4. CASE n # 0
    <2>1. PICK p, q : p = WithPhdr(at.d) /\ q = WithPhdr(c.d)
      OBVIOUS
    <2>2. PhdrRead(at.d, p) /\ PhdrRead(c.d, q)
      BY <1>0, <2>1, WithPhdrFact
    <2>3. PICK w, v : /\ w = [at EXCEPT !.d = p.d, !.rc = off + n, !.phoff = off]
                      /\ v = [c EXCEPT !.d = q.d, !.rc = off + n, !.phoff = off]
      OBVIOUS
    <2>4. off + n \in Nat /\ p.d \in Elf /\ q.d \in Elf
      BY <1>0, <1>1, <2>2 DEF PhdrRead, Sound
    <2>5. /\ w \in Ats /\ w.d = p.d /\ w.rc = off + n /\ w.phoff = off /\ w.shoff = at.shoff
          /\ w.ext = at.ext /\ w.says = "ok"
      BY <1>0, <1>1, <2>3, <2>4 DEF Ats
    <2>6. /\ v \in Ats /\ v.d = q.d /\ v.rc = off + n /\ v.phoff = off /\ v.shoff = at.shoff
          /\ v.ext = at.ext /\ v.says = "ok"
      BY <1>0, <1>1, <2>3, <2>4 DEF Ats
    <2>7. ~(Layout(at.d) /\ (at.rc > off \/ off % TableAlign # 0))
      <3> SUFFICES ASSUME Layout(at.d) /\ (at.rc > off \/ off % TableAlign # 0) PROVE FALSE
        OBVIOUS
      <3>1. y = Stop(at, "LAYOUT")
        BY <1>4 DEF PlacePhdrs, PhdrOff
      <3>2. y.says = "LAYOUT"
        BY <1>0, <3>1, StopFact DEF Words
      <3> QED BY <3>2
    <2>8. y = Insert(w, "phdr", off, n, 0)
      <3>1. [at EXCEPT !.d = WithPhdr(@).d, !.rc = off + n, !.phoff = off] = w
        BY <1>0, <2>1, <2>3 DEF Ats
      <3> QED BY <1>4, <2>7, <3>1 DEF PlacePhdrs, PhdrOff
    <2>9. PlacePhdrs(c) = Insert(v, "phdr", off, n, 0)
      <3>1. [c EXCEPT !.d = WithPhdr(@).d, !.rc = off + n, !.phoff = off] = v
        BY <2>1, <2>3 DEF Ats
      <3>2. PlacePhdrs(c) = IF Layout(c.d) /\ (c.rc > off \/ off % TableAlign # 0)
                            THEN Stop(c, "LAYOUT")
                            ELSE Insert([c EXCEPT !.d = WithPhdr(@).d, !.rc = off + n, !.phoff = off],
                                        "phdr", off, n, 0)
        BY <1>2, <1>4 DEF PlacePhdrs, PhdrOff
      <3> QED BY <1>2, <2>7, <3>1, <3>2
    <2> HIDE DEF off, n
    <2>10. y \in Ats
      BY PlacePhdrsFact DEF Good
    <2>11. SameSteps(v, PlacePhdrs(c), y)
      BY <2>5, <2>6, <2>8, <2>9, <2>10, InsertAgain
    <2>12. y.d = p.d /\ y.phoff = off /\ y.shoff = at.shoff
      BY <2>5, <2>8, InsertKeeps
    <2>13. PlacePhdrs(c).d = q.d
      BY <2>6, <2>11 DEF SameSteps
    <2>14. PhdrRead(c.d, PlacePhdrs(c))
      BY <2>2, <2>13 DEF PhdrRead
    <2> QED BY <2>6, <2>11, <2>12, <2>14 DEF Follows, SameSteps
  <1> QED BY <1>3, <1>4

LEMMA PlaceShdrsTwice ==
  ASSUME NEW at \in Ats, at.says = "ok", NEW y, y = PlaceShdrs(at), y.says = "ok", y \in Ats,
         NEW c \in Ats, c.says = "ok", c.rc = at.rc, c.ext = at.ext, c.shoff = at.shoff,
         c.phoff = at.phoff, Along(at.d, c.d)
  PROVE  Follows(PlaceShdrs(c), y) /\ PlaceShdrs(c).d = c.d
  <1> DEFINE n   == at.d.e_nscn
             off == ShdrOff(at)
             end == Max({at.rc, off + n})
  <1>0. at.d \in Elf /\ at.rc \in Nat /\ n \in Nat /\ at.d.ehdr \in Ehdr
    BY AtsFact, ElfFact
  <1>1. off \in Nat
    BY <1>0, Constants, RoundupFact DEF ShdrOff, Ehdr
  <1>2. c.d.e_nscn = n /\ (Layout(c.d) <=> Layout(at.d)) /\ ShdrOff(c) = off
    BY DEF Along, ShdrOff
  <1>3. CASE n = 0
    <2>1. y = at /\ PlaceShdrs(c) = c
      BY <1>2, <1>3 DEF PlaceShdrs
    <2> QED BY <2>1 DEF Follows
  <1>4. CASE n # 0
    <2>1. ~(Layout(at.d) /\ off % TableAlign # 0)
      <3> SUFFICES ASSUME Layout(at.d) /\ off % TableAlign # 0 PROVE FALSE
        OBVIOUS
      <3>1. y = Stop(at, "LAYOUT")
        BY <1>4 DEF PlaceShdrs, ShdrOff
      <3>2. y.says = "LAYOUT"
        BY <3>1, StopFact DEF Words
      <3> QED BY <3>2
    <2>2. PICK w, v : /\ w = [at EXCEPT !.rc = end, !.shoff = off]
                      /\ v = [c EXCEPT !.rc = end, !.shoff = off]
      OBVIOUS
    <2>3. y = Insert(w, "shdr", off, n, 0)
      <3>1. [at EXCEPT !.rc = Max({@, off + n}), !.shoff = off] = w
        BY <2>2 DEF Ats
      <3> QED BY <1>4, <2>1, <3>1 DEF PlaceShdrs, ShdrOff
    <2>4. PlaceShdrs(c) = Insert(v, "shdr", off, n, 0)
      <3>1. [c EXCEPT !.rc = Max({@, off + n}), !.shoff = off] = v
        BY <2>2 DEF Ats
      <3>2. PlaceShdrs(c) = IF Layout(c.d) /\ off % TableAlign # 0 THEN Stop(c, "LAYOUT")
                            ELSE Insert([c EXCEPT !.rc = Max({@, off + n}), !.shoff = off],
                                        "shdr", off, n, 0)
        BY <1>2, <1>4 DEF PlaceShdrs, ShdrOff
      <3> QED BY <1>2, <2>1, <3>1, <3>2
    <2> HIDE DEF off
    <2>5. end \in Nat
      <3>1. PICK k, m : k = off + n /\ m = at.rc
        OBVIOUS
      <3>2. k \in Nat /\ m \in Nat
        BY <1>0, <1>1, <3>1
      <3>3. k \in Int /\ m \in Int
        BY <3>2
      <3>4. Max({m, k}) \in {m, k}
        BY ONLY <3>3, MaxOfTwo
      <3> QED BY <3>1, <3>2, <3>4
    <2> HIDE DEF end, n
    <2>6. /\ w \in Ats /\ w.d = at.d /\ w.rc = end /\ w.phoff = at.phoff /\ w.shoff = off
          /\ w.ext = at.ext /\ w.says = "ok"
      BY <1>1, <2>2, <2>5 DEF Ats
    <2>7. /\ v \in Ats /\ v.d = c.d /\ v.rc = end /\ v.phoff = at.phoff /\ v.shoff = off
          /\ v.ext = at.ext /\ v.says = "ok"
      BY <1>1, <2>2, <2>5 DEF Ats
    <2>8. SameSteps(v, PlaceShdrs(c), y)
      BY <2>3, <2>4, <2>6, <2>7, InsertAgain
    <2>9. y.phoff = at.phoff /\ y.shoff = off
      BY <2>3, <2>6, InsertKeeps
    <2> QED BY <2>7, <2>8, <2>9 DEF Follows, SameSteps
  <1> QED BY <1>3, <1>4

\* The numbers are where SetPhnum and SetShnum put them.
PhnumStands(d) ==
    IF d.e_nphdr < PnXnum THEN d.ehdr.e_phnum = d.e_nphdr
    ELSE /\ d.ehdr.e_phnum = PnXnum /\ d.scns # << >>
         /\ d.scns[1].shdr.sh_info = d.e_nphdr /\ d.scns[1].dirty = TRUE

ShnumStands(d) ==
    IF d.e_nscn < LoReserve THEN d.ehdr.e_shnum = d.e_nscn
    ELSE /\ d.ehdr.e_shnum = 0 /\ d.scns # << >>
         /\ d.scns[1].shdr.sh_size = d.e_nscn /\ d.scns[1].dirty = TRUE

LEMMA MarkAgain ==
  ASSUME NEW d \in Elf, d.scns # << >>, d.scns[1].dirty = TRUE
  PROVE  Mark(d, d.scns[1].shdr) = d
  <1>1. 1 \in 1 .. Len(d.scns) /\ d.scns[1] \in Scn
    BY ElfFact
  <1>2. [d.scns[1] EXCEPT !.shdr = d.scns[1].shdr, !.dirty = TRUE] = d.scns[1]
    BY <1>1 DEF Scn
  <1> QED BY <1>1, <1>2, PutSame DEF Mark

LEMMA NumbersSetTwice ==
  ASSUME NEW d \in Elf, PhnumStands(d), ShnumStands(d)
  PROVE  SetPhnum(d) = d /\ SetShnum(d) = d
  <1>0. d.ehdr \in Ehdr /\ (d.scns # << >> => d.scns[1].shdr \in Shdr)
    <2>1. d.scns # << >> => d.scns[1] \in Scn
      BY ElfFact
    <2> QED BY <2>1, ElfFact, ScnFact
  <1>1. PICK h, k : h = d.scns[1].shdr /\ k = d.ehdr
    OBVIOUS
  <1>2. [d EXCEPT !.ehdr = k] = d
    BY <1>1 DEF Elf
  <1>3. d.scns # << >> => WithScn0(d) = d
    BY DEF WithScn0
  <1>4. SetPhnum(d) = d
    <2>1. CASE d.e_nphdr < PnXnum
      <3>1. [k EXCEPT !.e_phnum = d.e_nphdr] = k
        BY <1>0, <1>1, <2>1 DEF PhnumStands, Ehdr
      <3>2. SetPhnum(d) = [d EXCEPT !.ehdr = [k EXCEPT !.e_phnum = d.e_nphdr]]
        BY <1>1, <2>1 DEF SetPhnum, Elf
      <3> QED BY <1>2, <3>1, <3>2
    <2>2. CASE ~(d.e_nphdr < PnXnum)
      <3>1. d.scns # << >> /\ h.sh_info = d.e_nphdr /\ d.scns[1].dirty = TRUE /\ k.e_phnum = PnXnum
        BY <1>0, <1>1, <2>2 DEF PhnumStands
      <3>2. [h EXCEPT !.sh_info = d.e_nphdr] = h /\ [k EXCEPT !.e_phnum = PnXnum] = k
        BY <1>0, <1>1, <3>1 DEF Shdr, Ehdr
      <3>3. SetPhnum(d) = [Mark(d, [h EXCEPT !.sh_info = d.e_nphdr]) EXCEPT !.ehdr.e_phnum = PnXnum]
        BY <1>1, <1>3, <2>2, <3>1 DEF SetPhnum
      <3>4. Mark(d, h) = d
        BY <1>1, <3>1, MarkAgain
      <3>5. SetPhnum(d) = [d EXCEPT !.ehdr.e_phnum = PnXnum]
        BY <3>2, <3>3, <3>4
      <3>6. [d EXCEPT !.ehdr.e_phnum = PnXnum] = [d EXCEPT !.ehdr = [k EXCEPT !.e_phnum = PnXnum]]
        BY <1>1 DEF Elf
      <3> QED BY <1>2, <3>2, <3>5, <3>6
    <2> QED BY <2>1, <2>2
  <1>5. SetShnum(d) = d
    <2>1. CASE d.e_nscn < LoReserve
      <3>1. [k EXCEPT !.e_shnum = d.e_nscn] = k
        BY <1>0, <1>1, <2>1 DEF ShnumStands, Ehdr
      <3>2. SetShnum(d) = [d EXCEPT !.ehdr = [k EXCEPT !.e_shnum = d.e_nscn]]
        BY <1>1, <2>1 DEF SetShnum, Elf
      <3> QED BY <1>2, <3>1, <3>2
    <2>2. CASE ~(d.e_nscn < LoReserve)
      <3>1. d.scns # << >> /\ h.sh_size = d.e_nscn /\ d.scns[1].dirty = TRUE /\ k.e_shnum = 0
        BY <1>0, <1>1, <2>2 DEF ShnumStands
      <3>2. [h EXCEPT !.sh_size = d.e_nscn] = h /\ [k EXCEPT !.e_shnum = 0] = k
        BY <1>0, <1>1, <3>1 DEF Shdr, Ehdr
      <3>3. SetShnum(d) = [Mark(d, [h EXCEPT !.sh_size = d.e_nscn]) EXCEPT !.ehdr.e_shnum = 0]
        BY <1>1, <1>3, <2>2, <3>1 DEF SetShnum
      <3>4. Mark(d, h) = d
        BY <1>1, <3>1, MarkAgain
      <3>5. SetShnum(d) = [d EXCEPT !.ehdr.e_shnum = 0]
        BY <3>2, <3>3, <3>4
      <3>6. [d EXCEPT !.ehdr.e_shnum = 0] = [d EXCEPT !.ehdr = [k EXCEPT !.e_shnum = 0]]
        BY <1>1 DEF Elf
      <3> QED BY <1>2, <3>2, <3>5, <3>6
    <2> QED BY <2>1, <2>2
  <1> QED BY <1>4, <1>5

\* c is w with h in the first section and the header k.
Shows(w, c, h, k) ==
    /\ c.ehdr = k /\ c.scns # << >> /\ c.scns[1].shdr = h /\ c.scns[1].dirty = TRUE
    /\ c.e_nphdr = w.e_nphdr /\ c.e_nscn = w.e_nscn

LEMMA Marked ==
  ASSUME NEW w \in Elf, w.scns # << >>, NEW h \in Shdr, NEW k \in Ehdr
  PROVE  Shows(w, [Mark(w, h) EXCEPT !.ehdr = k], h, k)
  <1>0. w.scns \in Seq(Scn) /\ 1 \in 1 .. Len(w.scns) /\ w.scns[1] \in Scn
    BY ElfFact
  <1>1. PICK t, m : t = [w.scns[1] EXCEPT !.shdr = h, !.dirty = TRUE] /\ m = Put(w, 1, t)
    OBVIOUS
  <1>2. t \in Scn /\ t.s_ndx = w.scns[1].s_ndx /\ t.shdr = h /\ t.dirty = TRUE
    BY <1>0, <1>1 DEF Scn
  <1>3. m \in Elf /\ Beside(w, m) /\ m.scns[1] = t
    <2>1. PICK i : i = 1
      OBVIOUS
    <2>2. i \in 1 .. Len(w.scns) /\ t \in Scn /\ t.s_ndx = w.scns[i].s_ndx /\ m = Put(w, i, t)
      BY <1>0, <1>1, <1>2, <2>1
    <2>3. m \in Elf /\ Beside(w, m) /\ m.scns[i] = t
      BY <2>2, PutFact
    <2> QED BY <2>1, <2>3
  <1>4. m.scns # << >>
    <2>1. Len(m.scns) = Len(w.scns) /\ Len(w.scns) # 0
      BY <1>0, <1>3 DEF Beside
    <2> QED BY <2>1
  <1>5. PICK c : c = [m EXCEPT !.ehdr = k]
    OBVIOUS
  <1>6. c.ehdr = k /\ c.scns = m.scns /\ c.e_nphdr = m.e_nphdr /\ c.e_nscn = m.e_nscn
    BY <1>3, <1>5 DEF Elf
  <1>7. Mark(w, h) = m
    BY <1>1 DEF Mark
  <1> QED BY <1>2, <1>3, <1>4, <1>5, <1>6, <1>7 DEF Beside, Shows

LEMMA SetPhnumStands ==
  ASSUME NEW d, Sound(d), "ehdr" \in d.has
  PROVE  PhnumStands(SetPhnum(d))
  <1>0. d \in Elf /\ d.ehdr \in Ehdr /\ d.e_nphdr \in Nat /\ PnXnum \in Nat
    BY ElfFact, Constants DEF Sound
  <1>1. CASE d.e_nphdr < PnXnum
    <2>1. PICK k, c : k = [d.ehdr EXCEPT !.e_phnum = d.e_nphdr] /\ c = [d EXCEPT !.ehdr = k]
      OBVIOUS
    <2>2. SetPhnum(d) = c
      BY <1>0, <1>1, <2>1 DEF SetPhnum, Elf
    <2>3. c.e_nphdr = d.e_nphdr /\ c.ehdr.e_phnum = d.e_nphdr
      BY <1>0, <2>1 DEF Elf, Ehdr
    <2> QED BY <1>1, <2>2, <2>3 DEF PhnumStands
  <1>2. CASE ~(d.e_nphdr < PnXnum)
    <2>1. PICK w : w = WithScn0(d)
      OBVIOUS
    <2>2. w \in Elf /\ w.scns # << >> /\ w.scns[1] \in Scn /\ w.ehdr = d.ehdr /\ w.e_nphdr = d.e_nphdr
      BY <2>1, WithScn0Fact DEF Scn0Made, NumbersSet
    <2>3. PICK h, k : /\ h = [w.scns[1].shdr EXCEPT !.sh_info = d.e_nphdr]
                      /\ k = [w.ehdr EXCEPT !.e_phnum = PnXnum]
      OBVIOUS
    <2>4. w.scns[1].shdr \in Shdr
      BY <2>2, ScnFact
    <2>5. h \in Shdr /\ h.sh_info = d.e_nphdr /\ k \in Ehdr /\ k.e_phnum = PnXnum
      BY <1>0, <2>2, <2>3, <2>4 DEF Shdr, Ehdr
    <2>6. PICK c : c = [Mark(w, h) EXCEPT !.ehdr = k]
      OBVIOUS
    <2>7. /\ c.ehdr = k /\ c.scns # << >> /\ c.scns[1].shdr = h /\ c.scns[1].dirty = TRUE
          /\ c.e_nphdr = d.e_nphdr
      <3>1. Shows(w, c, h, k)
        BY <2>2, <2>5, <2>6, Marked
      <3> QED BY <2>2, <3>1 DEF Shows
    <2>8. SetPhnum(d) = c
      <3>1. SetPhnum(d) = [Mark(w, h) EXCEPT !.ehdr.e_phnum = PnXnum]
        BY <1>2, <2>1, <2>3 DEF SetPhnum
      <3> QED BY <2>2, <2>3, <2>6, <3>1 DEF Elf, Mark, Put
    <2> QED BY <1>2, <2>5, <2>7, <2>8 DEF PhnumStands
  <1> QED BY <1>1, <1>2

LEMMA SetShnumStands ==
  ASSUME NEW d, Sound(d), "ehdr" \in d.has, PhnumStands(d)
  PROVE  PhnumStands(SetShnum(d)) /\ ShnumStands(SetShnum(d))
  <1>0. d \in Elf /\ d.ehdr \in Ehdr /\ d.e_nscn \in Nat /\ LoReserve \in Nat
    BY ElfFact, Constants DEF Sound
  <1>1. CASE d.e_nscn < LoReserve
    <2>1. PICK k, c : k = [d.ehdr EXCEPT !.e_shnum = d.e_nscn] /\ c = [d EXCEPT !.ehdr = k]
      OBVIOUS
    <2>2. SetShnum(d) = c
      BY <1>0, <1>1, <2>1 DEF SetShnum, Elf
    <2>3. c.e_nscn = d.e_nscn /\ c.e_nphdr = d.e_nphdr /\ c.scns = d.scns /\ c.ehdr = k
      BY <1>0, <2>1 DEF Elf
    <2>4. k.e_shnum = d.e_nscn /\ k.e_phnum = d.ehdr.e_phnum
      BY <1>0, <2>1 DEF Ehdr
    <2> QED BY <1>1, <2>2, <2>3, <2>4 DEF PhnumStands, ShnumStands
  <1>2. CASE ~(d.e_nscn < LoReserve)
    <2>1. PICK w : w = WithScn0(d)
      OBVIOUS
    <2>2. /\ w \in Elf /\ w.scns # << >> /\ w.scns[1] \in Scn /\ w.ehdr = d.ehdr
          /\ w.e_nscn = d.e_nscn /\ w.e_nphdr = d.e_nphdr
      BY <2>1, WithScn0Fact DEF Scn0Made, NumbersSet
    <2>3. PICK h, k : /\ h = [w.scns[1].shdr EXCEPT !.sh_size = d.e_nscn]
                      /\ k = [w.ehdr EXCEPT !.e_shnum = 0]
      OBVIOUS
    <2>4. w.scns[1].shdr \in Shdr
      BY <2>2, ScnFact
    <2>5. /\ h \in Shdr /\ h.sh_size = d.e_nscn /\ h.sh_info = w.scns[1].shdr.sh_info
          /\ k \in Ehdr /\ k.e_shnum = 0 /\ k.e_phnum = d.ehdr.e_phnum
      BY <1>0, <2>2, <2>3, <2>4 DEF Shdr, Ehdr
    <2>6. PICK c : c = [Mark(w, h) EXCEPT !.ehdr = k]
      OBVIOUS
    <2>7. /\ c.ehdr = k /\ c.scns # << >> /\ c.scns[1].shdr = h /\ c.scns[1].dirty = TRUE
          /\ c.e_nphdr = d.e_nphdr /\ c.e_nscn = d.e_nscn
      <3>1. Shows(w, c, h, k)
        BY <2>2, <2>5, <2>6, Marked
      <3> QED BY <2>2, <3>1 DEF Shows
    <2>8. SetShnum(d) = c
      <3>1. SetShnum(d) = [Mark(w, h) EXCEPT !.ehdr.e_shnum = 0]
        BY <1>2, <2>1, <2>3 DEF SetShnum
      <3> QED BY <2>2, <2>3, <2>6, <3>1 DEF Elf, Mark, Put
    <2>9. ShnumStands(c)
      BY <1>2, <2>5, <2>7 DEF ShnumStands
    <2>10. PhnumStands(c)
      <3>1. CASE d.e_nphdr < PnXnum
        BY <2>5, <2>7, <3>1 DEF PhnumStands
      <3>2. CASE ~(d.e_nphdr < PnXnum)
        <4>1. d.scns # << >> /\ d.scns[1].shdr.sh_info = d.e_nphdr /\ d.ehdr.e_phnum = PnXnum
          BY <3>2 DEF PhnumStands
        <4>2. w = d
          BY <2>1, <4>1 DEF WithScn0
        <4> QED BY <2>5, <2>7, <3>2, <4>1, <4>2 DEF PhnumStands
      <3> QED BY <3>1, <3>2
    <2> QED BY <2>8, <2>9, <2>10
  <1> QED BY <1>1, <1>2

LEMMA SetTablesKeeps ==
  ASSUME NEW at \in Ats
  PROVE  LET c == SetTables(at)
         IN  /\ c.e_cmd = at.d.e_cmd /\ c.ehdr.e_phnum = at.d.ehdr.e_phnum
             /\ c.ehdr.e_shnum = at.d.ehdr.e_shnum
  <1>0. at.d \in Elf /\ at.d.ehdr \in Ehdr
    BY AtsFact, ElfFact
  <1>1. CASE Layout(at.d)
    BY <1>1 DEF SetTables
  <1>2. CASE ~Layout(at.d)
    <2>1. PICK k, c : /\ k = [at.d.ehdr EXCEPT !.e_phoff = at.phoff, !.e_shoff = at.shoff]
                      /\ c = [at.d EXCEPT !.ehdr = k]
      OBVIOUS
    <2>2. k.e_phnum = at.d.ehdr.e_phnum /\ k.e_shnum = at.d.ehdr.e_shnum
      BY <1>0, <2>1 DEF Ehdr
    <2>3. SetTables(at) = c
      BY <1>0, <1>2, <2>1 DEF SetTables, Elf
    <2>4. c.ehdr = k /\ c.e_cmd = at.d.e_cmd
      BY <1>0, <2>1 DEF Elf
    <2> QED BY <2>2, <2>3, <2>4
  <1> QED BY <1>1, <1>2

\* The tables are where they were placed.
TablesStand(at, d) == ~Layout(d) => d.ehdr.e_phoff = at.phoff /\ d.ehdr.e_shoff = at.shoff

\* The sections are those that were placed, but for the numbers in the first.
SectionsLike(d, c) ==
    /\ d.scns # << >> => /\ Len(c.scns) = Len(d.scns)
                         /\ c.scns[1].shdr.sh_type = d.scns[1].shdr.sh_type
    /\ d.scns = << >> => Len(c.scns) \in {0, 1}
    /\ \A i \in 2 .. Len(c.scns) : c.scns[i] = d.scns[i]

Finished(at, y) ==
    /\ y.says = "ok" /\ y.rc = at.rc /\ Sound(y.d) /\ PhnumStands(y.d) /\ ShnumStands(y.d)
    /\ TablesStand(at, y.d) /\ Along(at.d, y.d) /\ y.d.has = at.d.has /\ SectionsLike(at.d, y.d)

LEMMA FinishMakes ==
  ASSUME NEW at \in Ats, Sound(at.d), "ehdr" \in at.d.has, at.says = "ok"
  PROVE  Finished(at, Finish(at))
  <1>0. at.d \in Elf
    BY AtsFact
  <1>1. PICK b, c : b = SetPhnum(at.d) /\ c = SetShnum(b)
    OBVIOUS
  <1>2. NumbersSet(at.d, b) /\ PhnumStands(b)
    BY <1>1, SetPhnumFact, SetPhnumStands
  <1>3. NumbersSet(b, c) /\ PhnumStands(c) /\ ShnumStands(c)
    BY <1>1, <1>2, SetShnumFact, SetShnumStands DEF NumbersSet
  <1>4. NumbersSet(at.d, c)
    BY <1>0, <1>2, <1>3, NumbersSetTrans
  <1>5. PICK w : w = [at EXCEPT !.d = c]
    OBVIOUS
  <1>6. w \in Ats /\ w.d = c /\ w.phoff = at.phoff /\ w.shoff = at.shoff
    BY <1>4, <1>5 DEF Ats, NumbersSet
  <1>7. PICK t : t = SetTables(w)
    OBVIOUS
  <1>8. /\ t \in Elf /\ Sound(t) /\ t.has = c.has /\ t.scns = c.scns
        /\ t.e_nscn = c.e_nscn /\ t.e_nphdr = c.e_nphdr
        /\ t.ehdr.e_phoff = IF Layout(c) THEN c.ehdr.e_phoff ELSE at.phoff
        /\ t.ehdr.e_shoff = IF Layout(c) THEN c.ehdr.e_shoff ELSE at.shoff
    BY <1>4, <1>6, <1>7, SetTablesFact DEF NumbersSet
  <1>9. t.e_cmd = c.e_cmd /\ t.ehdr.e_phnum = c.ehdr.e_phnum /\ t.ehdr.e_shnum = c.ehdr.e_shnum
    BY <1>6, <1>7, SetTablesKeeps
  <1>10. PICK y : y = [at EXCEPT !.d = t]
    OBVIOUS
  <1>11. y.d = t /\ y.says = "ok" /\ y.rc = at.rc
    BY <1>10 DEF Ats
  <1>12. Finish(at) = y
    BY <1>1, <1>5, <1>7, <1>10 DEF Finish
  <1>13. PhnumStands(t) /\ ShnumStands(t)
    BY <1>3, <1>8, <1>9 DEF PhnumStands, ShnumStands
  <1>14. Layout(t) <=> Layout(c)
    BY <1>8 DEF Layout
  <1>15. Layout(c) <=> Layout(at.d)
    BY <1>4 DEF NumbersSet, Layout
  <1>16. Along(at.d, t)
    BY <1>4, <1>8, <1>9, <1>14, <1>15 DEF Along, NumbersSet
  <1>17. TablesStand(at, t)
    BY <1>8, <1>14 DEF TablesStand
  <1>18. SectionsLike(at.d, t)
    BY <1>4, <1>8 DEF SectionsLike, NumbersSet, SameFirst
  <1> QED BY <1>4, <1>8, <1>11, <1>12, <1>13, <1>16, <1>17, <1>18 DEF Finished, NumbersSet

LEMMA FinishTwice ==
  ASSUME NEW at, NEW y, Finished(at, y),
         NEW c \in Ats, c.phoff = at.phoff, c.shoff = at.shoff, PhdrRead(y.d, c)
  PROVE  Finish(c) = c
  <1>0. c.d \in Elf /\ c.d.ehdr \in Ehdr
    BY AtsFact, ElfFact
  <1>1. PhnumStands(c.d) /\ ShnumStands(c.d)
    BY DEF Finished, PhdrRead, PhnumStands, ShnumStands
  <1>2. SetPhnum(c.d) = c.d /\ SetShnum(c.d) = c.d
    BY <1>0, <1>1, NumbersSetTwice
  <1>3. [c EXCEPT !.d = c.d] = c
    BY DEF Ats
  <1>4. SetTables(c) = c.d
    <2>1. CASE Layout(c.d)
      BY <2>1 DEF SetTables
    <2>2. CASE ~Layout(c.d)
      <3>1. ~Layout(y.d)
        BY <2>2, PhdrReadAlong DEF Along
      <3>2. PICK k : k = c.d.ehdr
        OBVIOUS
      <3>3. k \in Ehdr /\ k.e_phoff = c.phoff /\ k.e_shoff = c.shoff
        BY <1>0, <3>1, <3>2 DEF Finished, TablesStand, PhdrRead
      <3>4. [k EXCEPT !.e_phoff = c.phoff, !.e_shoff = c.shoff] = k
        BY <3>3 DEF Ehdr
      <3>5. SetTables(c) = [c.d EXCEPT !.ehdr = [k EXCEPT !.e_phoff = c.phoff, !.e_shoff = c.shoff]]
        BY <1>0, <2>2, <3>2 DEF SetTables, Elf
      <3>6. [c.d EXCEPT !.ehdr = k] = c.d
        BY <1>0, <3>2 DEF Elf
      <3> QED BY <3>4, <3>5, <3>6
    <2> QED BY <2>1, <2>2
  <1> QED BY <1>2, <1>3, <1>4 DEF Finish

\* A step of the first layout goes from at to y.
Proceeds(at, y) == Along(at.d, y.d) /\ y.phoff = at.phoff /\ y.shoff = at.shoff

LEMMA PlacePhdrsAlong ==
  ASSUME NEW at, Good(at, 0), at.says = "ok", PlacePhdrs(at).says = "ok"
  PROVE  Along(at.d, PlacePhdrs(at).d)
  <1> DEFINE n   == at.d.e_nphdr
             off == PhdrOff(at)
  <1>0. /\ at \in Ats /\ Sound(at.d) /\ at.d \in Elf /\ "ehdr" \in at.d.has /\ at.rc \in Nat
        /\ n \in Nat /\ at.d.ehdr \in Ehdr
    BY AtsFact, ElfFact DEF Good
  <1>1. off \in Nat
    BY <1>0, Constants, RoundupFact DEF PhdrOff, Ehdr
  <1>2. Along(at.d, at.d)
    BY DEF Along
  <1>3. CASE n = 0
    BY <1>2, <1>3 DEF PlacePhdrs
  <1>4. CASE n # 0
    <2>1. PICK p : p = WithPhdr(at.d)
      OBVIOUS
    <2>2. PhdrRead(at.d, p)
      BY <1>0, <2>1, WithPhdrFact
    <2>3. PICK w : w = [at EXCEPT !.d = p.d, !.rc = off + n, !.phoff = off]
      OBVIOUS
    <2>4. w \in Ats /\ w.d = p.d
      <3>1. off + n \in Nat /\ p.d \in Elf
        BY <1>0, <1>1, <2>2 DEF PhdrRead, Sound
      <3> QED BY <1>0, <1>1, <2>3, <3>1 DEF Ats
    <2>5. \/ PlacePhdrs(at) = Stop(at, "LAYOUT") \/ PlacePhdrs(at) = Insert(w, "phdr", off, n, 0)
      <3>1. [at EXCEPT !.d = WithPhdr(@).d, !.rc = off + n, !.phoff = off] = w
        BY <1>0, <2>1, <2>3 DEF Ats
      <3> QED BY <1>4, <3>1 DEF PlacePhdrs, PhdrOff
    <2>6. PlacePhdrs(at) # Stop(at, "LAYOUT")
      BY <1>0, StopFact DEF Words
    <2> HIDE DEF off, n
    <2>7. PlacePhdrs(at).d = p.d
      BY <2>4, <2>5, <2>6, InsertKeeps
    <2> QED BY <2>2, <2>7, PhdrReadAlong
  <1> QED BY <1>3, <1>4

LEMMA PlaceScnsAlong ==
  ASSUME NEW at, Good(at, 0), at.says = "ok", PhdrPlaced(at), NEW y, y = PlaceScns(at), y.says = "ok"
  PROVE  Proceeds(at, y) /\ (y.d.e_cmd = "WRITE" \/ "shdrs" \in y.d.has)
  <1>1. PICK x, n : x = WithShdrs(at.d) /\ n = Len(x.d.scns)
    OBVIOUS
  <1>2. Sound(at.d) /\ "ehdr" \in at.d.has /\ SectionsRead(at.d, x) /\ n \in Nat
    <2>1. SectionsRead(at.d, x)
      BY <1>1, WithShdrsFact DEF Good
    <2> QED BY <1>1, <2>1, ElfFact DEF SectionsRead, Sound, Good
  <1>3. PICK f : ScnTurns(at, f) /\ y = f[n]
    BY <1>1, <1>2, ScnTurn
  <1>4. TurnsKept(at, f, n)
    BY <1>1, <1>3, TurnsKeptFact
  <1>5. f[0].d = x.d /\ f[0].says = x.says
    BY <1>1, <1>3, FirstTurnKeeps DEF ScnTurns, Good
  <1>6. /\ f[0].says = "ok" /\ Beside(x.d, y.d) /\ y.phoff = at.phoff /\ y.shoff = at.shoff
    <2>1. 0 \in 0 .. n /\ n \in 0 .. n
      BY <1>2
    <2> QED BY <1>3, <1>4, <1>5, <2>1 DEF TurnsKept
  <1>7. Settled(at.d, x.d) /\ (at.d.e_cmd = "WRITE" \/ "shdrs" \in x.d.has)
    BY <1>2, <1>5, <1>6 DEF SectionsRead
  <1>8. Layout(y.d) <=> Layout(at.d)
    <2>1. "LAYOUT" \in x.d.has \ {"shdrs"} <=> "LAYOUT" \in at.d.has \ {"shdrs"}
      BY <1>7 DEF Settled
    <2> QED BY <1>6, <2>1 DEF Layout, Beside
  <1> QED BY <1>6, <1>7, <1>8 DEF Proceeds, Along, Settled, Beside

LEMMA PlaceShdrsKeeps ==
  ASSUME NEW at \in Ats, PlaceShdrs(at).says = "ok"
  PROVE  PlaceShdrs(at).d = at.d
  <1> DEFINE n   == at.d.e_nscn
             off == ShdrOff(at)
             end == Max({at.rc, off + n})
  <1>0. at.d \in Elf /\ at.rc \in Nat /\ n \in Nat /\ at.d.ehdr \in Ehdr
    BY AtsFact, ElfFact
  <1>1. off \in Nat
    BY <1>0, Constants, RoundupFact DEF ShdrOff, Ehdr
  <1>2. CASE n = 0
    BY <1>2 DEF PlaceShdrs
  <1>3. CASE n # 0
    <2>1. PICK w : w = [at EXCEPT !.rc = end, !.shoff = off]
      OBVIOUS
    <2>2. \/ PlaceShdrs(at) = Stop(at, "LAYOUT") \/ PlaceShdrs(at) = Insert(w, "shdr", off, n, 0)
      <3>1. [at EXCEPT !.rc = Max({@, off + n}), !.shoff = off] = w
        BY <2>1 DEF Ats
      <3> QED BY <1>3, <3>1 DEF PlaceShdrs, ShdrOff
    <2>3. Stop(at, "LAYOUT").d = at.d
      BY StopFact DEF Words
    <2>4. end \in Nat
      <3>1. PICK k, m : k = off + n /\ m = at.rc
        OBVIOUS
      <3>2. k \in Nat /\ m \in Nat
        BY <1>0, <1>1, <3>1
      <3>3. k \in Int /\ m \in Int
        BY <3>2
      <3>4. Max({m, k}) \in {m, k}
        BY ONLY <3>3, MaxOfTwo
      <3> QED BY <3>1, <3>2, <3>4
    <2> HIDE DEF off, end, n
    <2>5. w \in Ats /\ w.d = at.d
      BY <1>1, <2>1, <2>4 DEF Ats
    <2> QED BY <2>2, <2>3, <2>5, InsertKeeps
  <1> QED BY <1>2, <1>3

\* The first section has no contents of its own.
NullFirst(d) == d.scns # << >> => d.scns[1].shdr.sh_type = "null"

\* Laying out d changes nothing of what a layout decides.
Steady(d, rc) ==
    /\ Resync(d).says = "ok" /\ Resync(d).rc = rc
    /\ Resync(d).d.ehdr = d.ehdr /\ Resync(d).d.scns = d.scns

LEMMA ResyncSteps ==
  ASSUME NEW d, NEW a, NEW b, NEW c, NEW z,
         a = Then(Start(d), Headed), b = Then(a, PlacePhdrs), c = Then(b, PlaceScns),
         z = Then(c, PlaceShdrs)
  PROVE  Resync(d) = Then(z, Finish)
  BY DEF Resync, Then, Start, Headed, Finish

\* The steps of a layout that succeeds.
StepsOf(d, a, b, c, z, y) ==
    /\ a = Headed(Start(d)) /\ b = PlacePhdrs(a) /\ c = PlaceScns(b) /\ z = PlaceShdrs(c)
    /\ y = Finish(z)
    /\ Start(d).says = "ok" /\ a.says = "ok" /\ b.says = "ok" /\ c.says = "ok" /\ z.says = "ok"

LEMMA StepsMade ==
  ASSUME NEW d, Resync(d).says = "ok"
  PROVE  \E a, b, c, z : StepsOf(d, a, b, c, z, Resync(d))
  <1>1. PICK s, a, b, c, z : /\ s = Start(d) /\ a = Then(s, Headed) /\ b = Then(a, PlacePhdrs)
                             /\ c = Then(b, PlaceScns) /\ z = Then(c, PlaceShdrs)
    OBVIOUS
  <1>2. Resync(d) = Then(z, Finish)
    BY <1>1, ResyncSteps
  <1>3. z.says = "ok" /\ Resync(d) = Finish(z)
    BY <1>2 DEF Then
  <1>4. c.says = "ok" /\ z = PlaceShdrs(c)
    BY <1>1, <1>3 DEF Then
  <1>5. b.says = "ok" /\ c = PlaceScns(b)
    BY <1>1, <1>4 DEF Then
  <1>6. a.says = "ok" /\ b = PlacePhdrs(a)
    BY <1>1, <1>5 DEF Then
  <1>7. s.says = "ok" /\ a = Headed(s)
    BY <1>1, <1>6 DEF Then
  <1>8. StepsOf(d, a, b, c, z, Resync(d))
    BY <1>1, <1>3, <1>4, <1>5, <1>6, <1>7 DEF StepsOf
  <1> QED BY <1>8

LEMMA StepsMake ==
  ASSUME NEW d, NEW a, NEW b, NEW c, NEW z, NEW y, StepsOf(d, a, b, c, z, y)
  PROVE  Resync(d) = y
  <1>1. /\ a = Then(Start(d), Headed) /\ b = Then(a, PlacePhdrs)
        /\ c = Then(b, PlaceScns) /\ z = Then(c, PlaceShdrs) /\ y = Then(z, Finish)
    BY DEF StepsOf, Then
  <1>2. Resync(d) = Then(z, Finish)
    BY <1>1, ResyncSteps
  <1> QED BY <1>1, <1>2

\* Where the first layout is after each step.
LEMMA StepsFact ==
  ASSUME NEW d, Sound(d), NEW a, NEW b, NEW c, NEW z, NEW y, StepsOf(d, a, b, c, z, y)
  PROVE  /\ Good(a, 0) /\ Good(b, 0) /\ PhdrPlaced(b) /\ Good(c, Len(c.d.scns)) /\ z \in Ats
         /\ a.phoff = 0 /\ a.shoff = 0 /\ b.shoff = 0 /\ c.phoff = b.phoff /\ c.shoff = 0
         /\ Along(a.d, b.d) /\ Along(b.d, c.d) /\ z.d = c.d /\ Finished(z, y)
         /\ c.d.e_cmd = "WRITE" \/ "shdrs" \in c.d.has
  <1>1. Good(a, 0)
    BY HeadedFact DEF StepsOf, Then
  <1>2. a.phoff = 0 /\ a.shoff = 0
    <2>1. PICK s : s = Start(d)
      OBVIOUS
    <2>2. s \in Ats /\ s.phoff = 0 /\ s.shoff = 0
      <3>1. HeaderRead(d, WithEhdr(d)) /\ << >> \in Seq(Extent)
        BY WithEhdrFact
      <3> QED BY <2>1, <3>1 DEF Start, HeaderRead, Ats, Sound
    <2> QED BY <2>1, <2>2, InsertKeeps DEF StepsOf, Headed
  <1>3. Good(b, 0) /\ b.shoff = a.shoff /\ PhdrPlaced(b)
    BY <1>1, PlacePhdrsFact DEF StepsOf
  <1>4. Along(a.d, b.d)
    BY <1>1, PlacePhdrsAlong DEF StepsOf
  <1>5. Proceeds(b, c) /\ (c.d.e_cmd = "WRITE" \/ "shdrs" \in c.d.has)
    BY <1>3, PlaceScnsAlong DEF StepsOf
  <1>6. Good(c, Len(c.d.scns)) /\ PhdrPlaced(c) /\ ScnsPlaced(c, Len(c.d.scns))
    BY <1>3, PlaceScnsFact DEF StepsOf, AllTurned
  <1>7. z \in Ats /\ z.d = c.d
    <2>1. LaidOut(z)
      BY <1>6, PlaceShdrsFact DEF StepsOf
    <2>2. z.d = c.d
      BY <1>6, PlaceShdrsKeeps DEF StepsOf, Good
    <2> QED BY <2>1, <2>2 DEF LaidOut, Good
  <1>8. Finished(z, y)
    <2>1. Sound(z.d) /\ "ehdr" \in z.d.has /\ z.says = "ok" /\ y = Finish(z)
      BY <1>6, <1>7 DEF StepsOf, Good
    <2> QED BY <1>7, <2>1, FinishMakes
  <1> QED BY <1>1, <1>2, <1>3, <1>4, <1>5, <1>6, <1>7, <1>8 DEF Proceeds

\* A layout that succeeded is made again, and changes nothing.
LEMMA ResyncTwice ==
  ASSUME NEW d, Sound(d), Resync(d).says = "ok", NullFirst(Resync(d).d)
  PROVE  Steady(Resync(d).d, Resync(d).rc)
  <1>1. PICK y : y = Resync(d)
    OBVIOUS
  <1>2. PICK a, b, c, z : StepsOf(d, a, b, c, z, y)
    BY <1>1, StepsMade
  <1>3. /\ Good(a, 0) /\ Good(b, 0) /\ PhdrPlaced(b) /\ Good(c, Len(c.d.scns)) /\ z \in Ats
        /\ a.phoff = 0 /\ a.shoff = 0 /\ b.shoff = 0 /\ c.phoff = b.phoff /\ c.shoff = 0
        /\ Along(a.d, b.d) /\ Along(b.d, c.d) /\ z.d = c.d /\ Finished(z, y)
        /\ c.d.e_cmd = "WRITE" \/ "shdrs" \in c.d.has
    BY <1>2, StepsFact
  <1>4. /\ a = Headed(Start(d)) /\ b = PlacePhdrs(a) /\ c = PlaceScns(b) /\ z = PlaceShdrs(c)
        /\ Start(d).says = "ok" /\ a.says = "ok" /\ b.says = "ok" /\ c.says = "ok" /\ z.says = "ok"
        /\ a \in Ats /\ b \in Ats /\ c \in Ats
    BY <1>2, <1>3 DEF StepsOf, Good
  <1>5. PICK e0 : e0 = y.d
    OBVIOUS
  <1>6. /\ Sound(e0) /\ "ehdr" \in e0.has /\ e0.has = c.d.has /\ Along(c.d, e0)
        /\ SectionsLike(c.d, e0) /\ y.rc = z.rc
    BY <1>3, <1>4, <1>5 DEF Finished, Good
  <1>7. Along(a.d, e0)
    <2>1. Along(a.d, c.d)
      BY <1>3, AlongTrans
    <2> QED BY <1>6, <2>1, AlongTrans
  <1>8. PICK a2 : a2 = Headed(Start(e0))
    OBVIOUS
  <1>9. /\ Start(e0).says = "ok" /\ a2 \in Ats /\ a2.d = e0 /\ a2.says = "ok" /\ a2.rc = a.rc
        /\ a2.ext = a.ext /\ a2.phoff = 0 /\ a2.shoff = 0
    <2>1. PICK s, t : s = Start(d) /\ t = Start(e0)
      OBVIOUS
    <2>2. << >> \in Seq(Extent)
      OBVIOUS
    <2>3. s \in Ats /\ s.says = "ok" /\ s.rc = 1 /\ s.ext = << >>
      <3>1. HeaderRead(d, WithEhdr(d))
        BY WithEhdrFact
      <3> QED BY <1>4, <2>1, <2>2, <3>1 DEF Start, HeaderRead, Ats, Sound
    <2>4. /\ t \in Ats /\ t.says = "ok" /\ t.rc = 1 /\ t.ext = << >> /\ t.d = e0
          /\ t.phoff = 0 /\ t.shoff = 0
      <3>1. WithEhdr(e0) = Does(e0, "ok")
        BY <1>6 DEF WithEhdr
      <3> QED BY <1>6, <2>1, <2>2, <3>1 DEF Start, Does, Ats, Sound, Words
    <2>5. SameSteps(t, a2, a)
      BY <1>4, <1>8, <2>1, <2>3, <2>4, InsertAgain DEF Headed
    <2> QED BY <2>1, <2>4, <2>5 DEF SameSteps
  <1>10. PICK b2 : b2 = PlacePhdrs(a2)
    OBVIOUS
  <1>11. Follows(b2, b) /\ PhdrRead(e0, b2)
    BY <1>3, <1>4, <1>6, <1>7, <1>9, <1>10, PlacePhdrsTwice
  <1>12. /\ b2 \in Ats /\ b2.says = "ok" /\ b2.rc = b.rc /\ b2.ext = b.ext
         /\ b2.phoff = b.phoff /\ b2.shoff = 0 /\ "ehdr" \in b2.d.has
         /\ b2.d.scns = e0.scns /\ b2.d.ehdr = e0.ehdr
    BY <1>3, <1>11 DEF Follows, PhdrRead
  <1>13. Along(e0, b2.d) /\ Along(c.d, b2.d)
    <2>1. Along(e0, b2.d)
      BY <1>11, PhdrReadAlong
    <2> QED BY <1>6, <2>1, AlongTrans
  <1>14. SameScns(c.d, b2.d)
    <2>1. NullFirst(e0)
      BY <1>1, <1>5
    <2>2. c.d.scns # << >> => e0.scns # << >>
      <3>1. c.d.scns \in Seq(Scn)
        BY <1>4, AtsFact, ElfFact
      <3>2. c.d.scns # << >> => Len(c.d.scns) # 0
        BY <3>1
      <3>3. e0.scns = << >> => Len(e0.scns) = 0
        OBVIOUS
      <3> QED BY <1>6, <3>2, <3>3 DEF SectionsLike
    <2> QED BY <1>6, <1>12, <2>1, <2>2 DEF SectionsLike, SameScns, NullFirst
  <1>15. b2.d.e_cmd = "WRITE" \/ "shdrs" \in b2.d.has
    <2>1. "shdrs" \in b2.d.has \ {"phdr"} <=> "shdrs" \in e0.has \ {"phdr"}
      BY <1>11 DEF PhdrRead
    <2> QED BY <1>3, <1>6, <1>13, <2>1 DEF Along
  <1>16. PICK c2 : c2 = PlaceScns(b2)
    OBVIOUS
  <1>17. SameSteps(b2, c2, c)
    <2>1. (Layout(b2.d) <=> Layout(c.d)) /\ b2.d.e_cmd = c.d.e_cmd
      BY <1>13 DEF Along
    <2> QED BY <1>3, <1>4, <1>12, <1>14, <1>15, <1>16, <2>1, PlaceScnsTwice
  <1>18. /\ c2 \in Ats /\ c2.says = "ok" /\ c2.d = b2.d /\ c2.rc = c.rc /\ c2.ext = c.ext
         /\ c2.phoff = c.phoff /\ c2.shoff = c.shoff
    BY <1>3, <1>12, <1>17 DEF SameSteps
  <1>19. PICK z2 : z2 = PlaceShdrs(c2)
    OBVIOUS
  <1>20. Follows(z2, z) /\ z2.d = b2.d
    BY <1>3, <1>4, <1>13, <1>18, <1>19, PlaceShdrsTwice
  <1>21. Finish(z2) = z2
    <2>1. PhdrRead(e0, z2)
      BY <1>11, <1>20 DEF PhdrRead
    <2> QED BY <1>3, <1>5, <1>20, <2>1, FinishTwice DEF Follows
  <1>22. StepsOf(e0, a2, b2, c2, z2, z2)
    BY <1>8, <1>9, <1>10, <1>12, <1>16, <1>18, <1>19, <1>20, <1>21 DEF StepsOf, Follows
  <1>23. Resync(e0) = z2
    BY <1>22, StepsMake
  <1>24. z2.says = "ok" /\ z2.rc = y.rc /\ z2.d.ehdr = e0.ehdr /\ z2.d.scns = e0.scns
    BY <1>6, <1>12, <1>20 DEF Follows
  <1> QED BY <1>1, <1>5, <1>23, <1>24 DEF Steady

-----------------------------------------------------------------------------
(***************************************************************************)
(* The invariant.                                                          *)
(***************************************************************************)
\* What a layout that succeeded leaves, and what it said.
Told(d, rc) == "ehdr" \in d.has /\ Tidy(d, rc) /\ (NullFirst(d) => Steady(d, rc))

LayoutInv ==
    /\ Sound(e)
    /\ said.size \in Nat /\ calls \in 0 .. MaxCalls
    /\ said.cmd = "NULL" /\ said.says = "ok" => Told(e, said.size)

\* What the calls that are no layout do to said and calls.
Quiet == said' = Silent /\ calls' \in 0 .. MaxCalls

LEMMA QuietFact ==
  ASSUME Sound(e)', Quiet
  PROVE  LayoutInv'
  <1>1. said'.cmd = "none" /\ said'.size = 0
    BY DEF Quiet, Silent
  <1> QED BY <1>1 DEF LayoutInv, Quiet

LEMMA CallsFact ==
  ASSUME LayoutInv, Calls
  PROVE  Quiet /\ Sound(e) /\ e \in Elf
  BY Constants DEF LayoutInv, Calls, Quiet, Sound

LEMMA Fact_Init ==
  ASSUME Init
  PROVE  LayoutInv
  <1>1. PICK cmd \in {"READ", "RDWR", "WRITE"}, mapped \in BOOLEAN :
           file \in (IF cmd = "WRITE" THEN {<< >>} ELSE Stored) /\ e = Fresh(cmd, mapped, file)
    BY DEF Init
  <1>2. file \in Seq(Cells) /\ (file # << >> => file[1][1] = "ehdr")
    <2>1. << >> \in Seq(Cells)
      OBVIOUS
    <2> QED BY <1>1, <2>1, StoredFact
  <1>3. Blank \in Ehdr /\ << >> \in Seq(Cells) /\ << >> \in Seq(Scn)
    BY NoHeaders
  <1>4. e \in Elf
    <2>1. (IF cmd = "WRITE" THEN {} ELSE {"class", "raw"})
              \in SUBSET {"class", "ehdr", "phdr", "shdrs", "raw", "LAYOUT"}
      OBVIOUS
    <2> QED BY <1>1, <1>2, <1>3, <2>1 DEF Fresh, Elf
  <1>5. /\ e.scns = << >> /\ e.phdr = << >> /\ e.ehdr = Blank /\ e.raw = file
        /\ Len(e.scns) = 0 /\ "phdr" \notin e.has
    BY <1>1 DEF Fresh
  <1>6. InPlace(e)
    BY <1>5 DEF InPlace
  <1>7. Sound(e)
    BY <1>2, <1>4, <1>5, <1>6 DEF Sound, Numbering, Unread, Counted
  <1>8. said.cmd = "none" /\ said.size = 0 /\ calls = 0
    BY DEF Init, Silent
  <1> QED BY <1>7, <1>8, Constants DEF LayoutInv

-----------------------------------------------------------------------------
(***************************************************************************)
(* The calls.                                                              *)
(***************************************************************************)
LEMMA Fact_elf_newehdr ==
  ASSUME LayoutInv, elf_newehdr
  PROVE  LayoutInv'
  <1>0. e \in Elf /\ Sound(e)
    BY DEF LayoutInv, Sound
  <1>1. PICK d : d = [e EXCEPT !.has = e.has \cup {"class", "ehdr"}]
    OBVIOUS
  <1>2. e' = d
    <2>1. e' = Gains(Gains(e, "class"), "ehdr")
      BY DEF elf_newehdr
    <2>2. Gains(Gains(e, "class"), "ehdr") = [e EXCEPT !.has = (e.has \cup {"class"}) \cup {"ehdr"}]
      BY <1>0 DEF Gains, Elf
    <2>3. (e.has \cup {"class"}) \cup {"ehdr"} = e.has \cup {"class", "ehdr"}
      OBVIOUS
    <2> QED BY <1>1, <2>1, <2>2, <2>3
  <1>3. /\ d \in Elf /\ d.e_cmd = e.e_cmd /\ d.raw = e.raw /\ d.ehdr = e.ehdr /\ d.e_nscn = e.e_nscn
        /\ d.e_nphdr = e.e_nphdr /\ d.phdr = e.phdr /\ d.scns = e.scns
        /\ d.has = e.has \cup {"class", "ehdr"}
    BY <1>0, <1>1 DEF Elf
  <1>4. Sound(d)
    BY <1>0, <1>3 DEF Sound, Numbering, Unread, InPlace, Counted
  <1>5. ~(said.cmd = "NULL" /\ said.says = "ok")
    BY DEF elf_newehdr, LayoutInv, Told
  <1>6. said' = said /\ calls' = calls
    BY DEF elf_newehdr
  <1> QED BY <1>2, <1>4, <1>5, <1>6 DEF LayoutInv

LEMMA Fact_elf_getscn ==
  ASSUME LayoutInv, elf_getscn
  PROVE  LayoutInv'
  <1>1. Sound(WithShdrs(e).d)
    BY WithShdrsFact DEF LayoutInv, SectionsRead
  <1>2. e' = WithShdrs(e).d /\ Quiet
    BY DEF elf_getscn, Quiet, LayoutInv
  <1> QED BY <1>1, <1>2, QuietFact

\* A section more.
LEMMA AppendedFact ==
  ASSUME NEW d, Sound(d), "ehdr" \in d.has, d.e_cmd = "WRITE" \/ "shdrs" \in d.has,
         NEW first \in Seq(Scn), NEW n \in Nat, NEW s \in Scn, s.s_ndx = n,
         Len(first) <= n,
         Len(first) = n => \A i \in 1 .. Len(first) : first[i].s_ndx = i - 1
  PROVE  Sound([d EXCEPT !.e_nscn = n + 1, !.scns = Append(first, s)])
  <1>0. d \in Elf
    BY DEF Sound
  <1>1. PICK ss, c : ss = Append(first, s) /\ c = [d EXCEPT !.e_nscn = n + 1, !.scns = ss]
    OBVIOUS
  <1>2. PICK m : m = Len(first)
    OBVIOUS
  <1>3. m \in Nat /\ m <= n
    BY <1>2
  <1>4. /\ ss \in Seq(Scn) /\ Len(ss) = m + 1 /\ ss[m + 1] = s
        /\ \A i \in 1 .. m : ss[i] = first[i]
    BY <1>1, <1>2
  <1>5. n + 1 \in Nat
    OBVIOUS
  <1>6. /\ c \in Elf /\ c.scns = ss /\ c.e_nscn = n + 1 /\ c.has = d.has /\ c.phdr = d.phdr
        /\ c.e_nphdr = d.e_nphdr /\ c.e_cmd = d.e_cmd /\ c.raw = d.raw
    BY <1>0, <1>1, <1>4, <1>5 DEF Elf
  <1>7. m = n => InPlace(c)
    <2> SUFFICES ASSUME m = n, NEW i \in 1 .. m + 1 PROVE ss[i].s_ndx = i - 1
      BY <1>4, <1>6 DEF InPlace
    <2>1. CASE i = m + 1
      BY <1>3, <1>4, <2>1
    <2>2. CASE i # m + 1
      <3>1. i \in 1 .. m
        BY <1>3, <2>2
      <3> QED BY <1>2, <1>4, <3>1
    <2> QED BY <2>1, <2>2
  <1>8. Numbering(c)
    BY <1>3, <1>4, <1>6, <1>7 DEF Numbering
  <1>9. Unread(c)
    BY <1>6 DEF Unread, Sound, Counted
  <1>10. Sound(c)
    BY <1>6, <1>8, <1>9 DEF Sound
  <1> QED BY <1>1, <1>10

LEMMA Fact_elf_newscn ==
  ASSUME LayoutInv, elf_newscn
  PROVE  LayoutInv'
  <1>1. PICK d, first, n :
           /\ d = WithShdrs(e).d
           /\ first = IF d.scns = << >> THEN << NewScn(0, NoShdr) >> ELSE d.scns
           /\ n = IF d.scns = << >> THEN 1 ELSE d.e_nscn
    OBVIOUS
  <1>2. PICK s : s = [NewScn(n, NoShdr) EXCEPT !.dirty = TRUE]
    OBVIOUS
  <1>3. /\ WithShdrs(e).says = "ok" /\ calls' = calls + 1 /\ calls < MaxCalls
        /\ IF (d.scns = << >>) # (d.e_nscn = 0)
           THEN e' = d /\ said' = [Silent EXCEPT !.says = "assert"]
           ELSE /\ e' = [d EXCEPT !.e_nscn = n + 1, !.scns = Append(first, s)]
                /\ said' = Silent
    BY <1>1, <1>2 DEF elf_newscn
  <1>4. /\ Sound(d) /\ "ehdr" \in d.has /\ (d.e_cmd = "WRITE" \/ "shdrs" \in d.has)
        /\ d \in Elf /\ d.scns \in Seq(Scn) /\ d.e_nscn \in Nat /\ Len(d.scns) \in Nat
    <2>1. Sound(e) /\ e.e_cmd = d.e_cmd
      BY <1>1, WithShdrsFact DEF LayoutInv, SectionsRead
    <2>2. Sound(d) /\ "ehdr" \in d.has /\ (d.e_cmd = "WRITE" \/ "shdrs" \in d.has)
      BY <1>1, <1>3, <2>1, WithShdrsFact DEF SectionsRead
    <2> QED BY <2>2, ElfFact DEF Sound
  <1>5. calls' \in 0 .. MaxCalls
    BY <1>3, Constants DEF LayoutInv
  <1>6. CASE (d.scns = << >>) # (d.e_nscn = 0)
    <2>1. e' = d /\ said' = [Silent EXCEPT !.says = "assert"]
      BY <1>3, <1>6
    <2>2. said'.cmd = "none" /\ said'.size = 0
      BY <2>1 DEF Silent
    <2> QED BY <1>4, <1>5, <2>1, <2>2 DEF LayoutInv
  <1>7. CASE (d.scns = << >>) <=> (d.e_nscn = 0)
    <2>1. e' = [d EXCEPT !.e_nscn = n + 1, !.scns = Append(first, s)] /\ said' = Silent
      BY <1>3, <1>7
    <2>2. n \in Nat
      BY <1>1, <1>4
    <2>3. s \in Scn /\ s.s_ndx = n
      <3>1. NewScn(n, NoShdr) \in Scn /\ NewScn(n, NoShdr).s_ndx = n
        BY <2>2, NewScnFact, NoHeaders
      <3> QED BY <1>2, <3>1 DEF Scn
    <2>4. /\ first \in Seq(Scn) /\ Len(first) <= n
          /\ Len(first) = n => \A i \in 1 .. Len(first) : first[i].s_ndx = i - 1
      <3>1. CASE d.scns = << >>
        <4>1. PICK z : z = NewScn(0, NoShdr)
          OBVIOUS
        <4>2. z \in Scn /\ z.s_ndx = 0
          BY <4>1, NewScnFact, NoHeaders
        <4>3. first = << z >> /\ n = 1
          BY <1>1, <3>1, <4>1
        <4> QED BY <4>2, <4>3
      <3>2. CASE d.scns # << >>
        <4>1. first = d.scns /\ n = d.e_nscn /\ d.e_nscn # 0
          BY <1>1, <1>7, <3>2
        <4>2. Len(d.scns) <= 1 \/ Len(d.scns) <= d.e_nscn
          BY <1>4 DEF Sound, Numbering
        <4>3. Len(d.scns) >= d.e_nscn => InPlace(d)
          BY <1>4 DEF Sound, Numbering
        <4>4. Len(first) <= n
          BY <1>4, <4>1, <4>2
        <4> QED BY <1>4, <4>1, <4>3, <4>4 DEF InPlace
      <3> QED BY <3>1, <3>2
    <2>5. Sound([d EXCEPT !.e_nscn = n + 1, !.scns = Append(first, s)])
      BY ONLY <1>4, <2>2, <2>3, <2>4, AppendedFact
    <2>6. Quiet
      BY <1>5, <2>1 DEF Quiet
    <2> QED BY <2>1, <2>5, <2>6, QuietFact
  <1> QED BY <1>6, <1>7

LEMMA Fact_gelf_newphdr ==
  ASSUME LayoutInv, gelf_newphdr
  PROVE  LayoutInv'
  <1>0. Quiet /\ Sound(e)
    BY CallsFact DEF gelf_newphdr
  <1>1. PICK d : d = WithEhdr(e).d
    OBVIOUS
  <1>2. PICK count \in PhCounts :
           e' = [d EXCEPT !.phdr = Listed([j \in 1 .. count |-> <<"phdr", 0>>]),
                          !.e_nphdr = count,
                          !.has = IF count = 0 THEN d.has \ {"phdr"} ELSE d.has \cup {"phdr"}]
    <2>1. d \in Elf
      BY <1>0, <1>1, WithEhdrFact DEF HeaderRead, Sound
    <2> QED BY <1>1, <2>1 DEF gelf_newphdr, Elf
  <1>3. Sound(d) /\ "ehdr" \in d.has /\ d \in Elf /\ count \in Nat
    <2>1. WithEhdr(e).says = "ok"
      BY DEF gelf_newphdr
    <2> QED BY <1>0, <1>1, <2>1, WithEhdrFact, Constants DEF HeaderRead, Sound
  <1>4. PICK p, h : /\ p = Listed([j \in 1 .. count |-> <<"phdr", 0>>])
                    /\ h = IF count = 0 THEN d.has \ {"phdr"} ELSE d.has \cup {"phdr"}
    OBVIOUS
  <1>5. p \in Seq(Cells) /\ Len(p) = count
    <2>1. <<"phdr", 0>> \in Cells
      BY NewCells
    <2>2. PICK f : f = [j \in 1 .. count |-> <<"phdr", 0>>]
      OBVIOUS
    <2>3. f \in [1 .. count -> Cells]
      BY <2>1, <2>2
    <2> QED BY <1>3, <1>4, <2>2, <2>3, ListedFact
  <1>6. h \in SUBSET {"class", "ehdr", "phdr", "shdrs", "raw", "LAYOUT"}
    BY <1>3, <1>4, ElfFact
  <1>7. PICK c : c = [d EXCEPT !.phdr = p, !.e_nphdr = count, !.has = h]
    OBVIOUS
  <1>8. /\ c \in Elf /\ c.e_cmd = d.e_cmd /\ c.raw = d.raw /\ c.ehdr = d.ehdr
        /\ c.e_nscn = d.e_nscn /\ c.e_nphdr = count /\ c.phdr = p /\ c.scns = d.scns /\ c.has = h
    BY <1>3, <1>5, <1>6, <1>7 DEF Elf
  <1>9. SameNumbers(d, c)
    <2>1. "ehdr" \in h /\ ("shdrs" \in h <=> "shdrs" \in d.has)
      BY <1>3, <1>4
    <2>2. IF "phdr" \in h THEN Len(p) = count ELSE p = << >>
      BY <1>4, <1>5
    <2> QED BY <1>3, <1>8, <2>1, <2>2 DEF SameNumbers, Counted
  <1>10. Sound(c)
    BY <1>3, <1>8, <1>9, SameNumbersSound
  <1> QED BY <1>0, <1>2, <1>4, <1>7, <1>10, QuietFact

LEMMA NumberedFact ==
  ASSUME e \in Elf
  PROVE  \A i \in Numbered : i \in 1 .. Len(e.scns)
  BY ElfFact DEF Numbered

\* A section that is replaced by one of the same number.
LEMMA ReplacedFact ==
  ASSUME NEW d, Sound(d), NEW i \in 1 .. Len(d.scns), NEW s \in Scn, s.s_ndx = d.scns[i].s_ndx
  PROVE  Sound(Put(d, i, s))
  <1>1. d \in Elf
    BY DEF Sound
  <1>2. Put(d, i, s) \in Elf /\ Beside(d, Put(d, i, s))
    BY <1>1, PutFact
  <1> QED BY <1>2, BesideSound

LEMMA Fact_elf_getdata ==
  ASSUME LayoutInv, elf_getdata
  PROVE  LayoutInv'
  <1>0. Quiet /\ Sound(e) /\ e \in Elf
    BY CallsFact DEF elf_getdata
  <1>1. PICK i \in Numbered : e' = WithData(e, i).d
    BY DEF elf_getdata
  <1>2. DataRead(e, WithData(e, i), i)
    BY <1>0, NumberedFact, WithDataFact
  <1>3. Sound(WithData(e, i).d)
    BY <1>0, <1>2, BesideSound DEF DataRead, But
  <1> QED BY <1>0, <1>1, <1>3, QuietFact

LEMMA Fact_elf_newdata ==
  ASSUME LayoutInv, elf_newdata
  PROVE  LayoutInv'
  <1>0. Quiet /\ Sound(e) /\ e \in Elf
    BY CallsFact DEF elf_newdata
  <1>1. PICK i \in Numbered, b \in Blocks :
           LET x == IF "raw" \in e.has /\ e.scns[i].s_size > 0 THEN WithData(e, i) ELSE Does(e, "ok")
           IN  e' = Put(x.d, i, [x.d.scns[i] EXCEPT !.data = Append(x.d.scns[i].data, b),
                                                    !.dirty = TRUE])
    <2>1. PICK i \in Numbered, b \in Blocks :
             LET x == IF "raw" \in e.has /\ e.scns[i].s_size > 0 THEN WithData(e, i) ELSE Does(e, "ok")
             IN  e' = Put(x.d, i, [x.d.scns[i] EXCEPT !.data = Append(@, b), !.dirty = TRUE])
      BY DEF elf_newdata
    <2>2. i \in 1 .. Len(e.scns)
      BY <1>0, NumberedFact
    <2>3. PICK x : x = IF "raw" \in e.has /\ e.scns[i].s_size > 0 THEN WithData(e, i) ELSE Does(e, "ok")
      OBVIOUS
    <2>4. x.d.scns[i] \in Scn
      <3>1. e.scns[i] \in Scn
        BY <1>0, <2>2, ElfFact
      <3>2. WithData(e, i).d.scns[i] \in Scn
        BY <1>0, <2>2, WithDataFact DEF DataRead
      <3> QED BY <2>3, <3>1, <3>2 DEF Does
    <2>5. [x.d.scns[i] EXCEPT !.data = Append(@, b), !.dirty = TRUE]
             = [x.d.scns[i] EXCEPT !.data = Append(x.d.scns[i].data, b), !.dirty = TRUE]
      BY <2>4 DEF Scn
    <2> QED BY <2>1, <2>3, <2>5
  <1>2. i \in 1 .. Len(e.scns)
    BY <1>0, NumberedFact
  <1>3. PICK x, d : /\ x = IF "raw" \in e.has /\ e.scns[i].s_size > 0 THEN WithData(e, i)
                           ELSE Does(e, "ok")
                    /\ d = x.d
    OBVIOUS
  <1>4. Sound(d) /\ i \in 1 .. Len(d.scns) /\ d.scns[i] \in Scn
    <2>1. CASE "raw" \in e.has /\ e.scns[i].s_size > 0
      <3>1. x = WithData(e, i)
        BY <1>3, <2>1
      <3>2. DataRead(e, x, i)
        BY <1>0, <1>2, <3>1, WithDataFact
      <3>3. d \in Elf /\ Beside(e, d) /\ d.scns[i] \in Scn
        BY <1>3, <3>2 DEF DataRead, But
      <3>4. Sound(d)
        BY <1>0, <3>3, BesideSound
      <3> QED BY <1>2, <3>3, <3>4 DEF Beside
    <2>2. CASE ~("raw" \in e.has /\ e.scns[i].s_size > 0)
      <3>1. d = e
        BY <1>3, <2>2 DEF Does
      <3> QED BY <1>0, <1>2, <3>1, ElfFact
    <2> QED BY <2>1, <2>2
  <1>5. PICK s, t, data : /\ s = d.scns[i] /\ data = Append(s.data, b)
                          /\ t = [s EXCEPT !.data = data, !.dirty = TRUE]
    OBVIOUS
  <1>6. data \in Seq(Buffer)
    <2>1. s.data \in Seq(Buffer) /\ b \in Buffer
      BY <1>4, <1>5, ScnFact, BlockFact
    <2> QED BY <1>5, <2>1
  <1>7. t \in Scn /\ t.s_ndx = s.s_ndx
    BY <1>4, <1>5, <1>6 DEF Scn
  <1>8. Sound(Put(d, i, t))
    BY <1>4, <1>5, <1>7, ReplacedFact
  <1>9. e' = Put(d, i, t)
    BY <1>1, <1>3, <1>5
  <1> QED BY <1>0, <1>8, <1>9, QuietFact

LEMMA Fact_elf_flagscn ==
  ASSUME LayoutInv, elf_flagscn
  PROVE  LayoutInv'
  <1>0. Quiet /\ Sound(e) /\ e \in Elf
    BY CallsFact DEF elf_flagscn
  <1>1. PICK i \in Numbered : e' = Put(e, i, [e.scns[i] EXCEPT !.dirty = TRUE])
    BY DEF elf_flagscn
  <1>2. i \in 1 .. Len(e.scns)
    BY <1>0, NumberedFact
  <1>3. e.scns[i] \in Scn
    BY <1>0, <1>2, ElfFact
  <1>4. PICK t : t = [e.scns[i] EXCEPT !.dirty = TRUE]
    OBVIOUS
  <1>5. t \in Scn /\ t.s_ndx = e.scns[i].s_ndx
    BY <1>3, <1>4 DEF Scn
  <1>6. Sound(Put(e, i, t))
    BY <1>0, <1>2, <1>5, ReplacedFact
  <1> QED BY <1>0, <1>1, <1>4, <1>6, QuietFact

LEMMA SetShdrFact ==
  ASSUME e \in Elf, Sound(e), NEW i \in Numbered, NEW h \in Shdr, SetShdr(i, h)
  PROVE  Sound(e)'
  <1>2. i \in 1 .. Len(e.scns)
    BY NumberedFact
  <1>3. e.scns[i] \in Scn
    BY <1>2, ElfFact
  <1>4. PICK t : t = [e.scns[i] EXCEPT !.shdr = h, !.dirty = TRUE]
    OBVIOUS
  <1>5. t \in Scn /\ t.s_ndx = e.scns[i].s_ndx
    BY <1>3, <1>4 DEF Scn
  <1>6. Sound(Put(e, i, t))
    BY <1>2, <1>5, ReplacedFact
  <1> QED BY <1>4, <1>6 DEF SetShdr

LEMMA Fact_SetType ==
  ASSUME LayoutInv, SetType
  PROVE  LayoutInv'
  <1>0. Quiet /\ Sound(e) /\ e \in Elf
    BY DEF SetType, Quiet, LayoutInv, Sound
  <1>1. PICK i \in Numbered, t \in {"bits", "nobits"} :
           SetShdr(i, [e.scns[i].shdr EXCEPT !.sh_type = t])
    BY DEF SetType
  <1>2. e.scns[i].shdr \in Shdr
    BY <1>0, NumberedFact, ElfFact, ScnFact
  <1>3. PICK h : h = [e.scns[i].shdr EXCEPT !.sh_type = t]
    OBVIOUS
  <1>4. h \in Shdr
    BY <1>2, <1>3 DEF Shdr
  <1>5. Sound(e)'
    BY <1>0, <1>1, <1>3, <1>4, SetShdrFact
  <1> QED BY <1>0, <1>5, QuietFact

LEMMA Fact_gelf_update_shdr ==
  ASSUME LayoutInv, gelf_update_shdr
  PROVE  LayoutInv'
  <1>0. Quiet /\ Sound(e) /\ e \in Elf
    BY CallsFact DEF gelf_update_shdr
  <1>1. PICK i \in Numbered, off \in Places, size \in Sizes :
           SetShdr(i, [e.scns[i].shdr EXCEPT !.sh_offset = off, !.sh_size = size])
    BY DEF gelf_update_shdr
  <1>2. e.scns[i].shdr \in Shdr /\ off \in Nat /\ size \in Nat
    BY <1>0, NumberedFact, ElfFact, ScnFact, Constants
  <1>3. PICK h : h = [e.scns[i].shdr EXCEPT !.sh_offset = off, !.sh_size = size]
    OBVIOUS
  <1>4. h \in Shdr
    BY <1>2, <1>3 DEF Shdr
  <1>5. Sound(e)'
    BY <1>0, <1>1, <1>3, <1>4, SetShdrFact
  <1> QED BY <1>0, <1>5, QuietFact

LEMMA EhdrReplaced ==
  ASSUME NEW d, Sound(d), "ehdr" \in d.has, NEW k \in Ehdr
  PROVE  Sound([d EXCEPT !.ehdr = k])
  <1>0. d \in Elf
    BY DEF Sound
  <1>1. PICK c : c = [d EXCEPT !.ehdr = k]
    OBVIOUS
  <1>2. /\ c \in Elf /\ c.scns = d.scns /\ c.e_cmd = d.e_cmd /\ c.raw = d.raw
        /\ c.e_nscn = d.e_nscn /\ c.phdr = d.phdr /\ c.has = d.has /\ c.e_nphdr = d.e_nphdr
    BY <1>0, <1>1 DEF Elf
  <1>3. SameNumbers(d, c)
    BY <1>2 DEF SameNumbers, Sound, Unread, Counted
  <1> QED BY <1>1, <1>2, <1>3, SameNumbersSound

LEMMA Fact_gelf_update_ehdr ==
  ASSUME LayoutInv, gelf_update_ehdr
  PROVE  LayoutInv'
  <1>0. Quiet /\ Sound(e) /\ e \in Elf /\ "ehdr" \in e.has /\ e.ehdr \in Ehdr
    BY CallsFact, ElfFact DEF gelf_update_ehdr
  <1>1. PICK off \in Places : \/ e' = [e EXCEPT !.ehdr.e_phoff = off]
                              \/ e' = [e EXCEPT !.ehdr.e_shoff = off]
    BY DEF gelf_update_ehdr
  <1>2. off \in Nat
    BY Constants
  <1>3. PICK h, k : h = [e.ehdr EXCEPT !.e_phoff = off] /\ k = [e.ehdr EXCEPT !.e_shoff = off]
    OBVIOUS
  <1>4. h \in Ehdr /\ k \in Ehdr
    BY <1>0, <1>2, <1>3 DEF Ehdr
  <1>5. e' = [e EXCEPT !.ehdr = h] \/ e' = [e EXCEPT !.ehdr = k]
    BY <1>0, <1>1, <1>3 DEF Elf
  <1>6. Sound([e EXCEPT !.ehdr = h]) /\ Sound([e EXCEPT !.ehdr = k])
    BY <1>0, <1>4, EhdrReplaced
  <1>7. Sound(e)'
    BY <1>5, <1>6
  <1> QED BY <1>0, <1>7, QuietFact

\* Flags that tell nothing of what was read.
LEMMA FlagsFact ==
  ASSUME NEW d, Sound(d), NEW h \in SUBSET {"class", "ehdr", "phdr", "shdrs", "raw", "LAYOUT"},
         \A what \in {"ehdr", "phdr", "shdrs"} : what \in h <=> what \in d.has
  PROVE  Sound([d EXCEPT !.has = h])
  <1>0. d \in Elf
    BY DEF Sound
  <1>1. PICK c : c = [d EXCEPT !.has = h]
    OBVIOUS
  <1>2. /\ c \in Elf /\ c.scns = d.scns /\ c.e_cmd = d.e_cmd /\ c.raw = d.raw /\ c.ehdr = d.ehdr
        /\ c.e_nscn = d.e_nscn /\ c.phdr = d.phdr /\ c.has = h /\ c.e_nphdr = d.e_nphdr
    BY <1>0, <1>1 DEF Elf
  <1>3. InPlace(d) => InPlace(c)
    BY <1>2 DEF InPlace
  <1>4. Numbering(c)
    BY <1>2, <1>3 DEF Numbering, Sound
  <1>5. Unread(c)
    BY <1>2, <1>3 DEF Unread, Sound, Counted
  <1>6. Sound(c)
    BY <1>2, <1>4, <1>5 DEF Sound
  <1> QED BY <1>1, <1>6

LEMMA Fact_elf_flagelf ==
  ASSUME LayoutInv, elf_flagelf
  PROVE  LayoutInv'
  <1>0. Quiet /\ Sound(e) /\ e \in Elf /\ e.has \in SUBSET {"class", "ehdr", "phdr", "shdrs", "raw", "LAYOUT"}
    BY CallsFact, ElfFact DEF elf_flagelf
  <1>1. PICK h : h = IF Layout(e) THEN e.has \ {"LAYOUT"} ELSE e.has \cup {"LAYOUT"}
    OBVIOUS
  <1>2. e' = [e EXCEPT !.has = h]
    BY <1>0, <1>1 DEF elf_flagelf, Elf
  <1>3. /\ h \in SUBSET {"class", "ehdr", "phdr", "shdrs", "raw", "LAYOUT"}
        /\ \A what \in {"ehdr", "phdr", "shdrs"} : what \in h <=> what \in e.has
    BY <1>0, <1>1
  <1>4. Sound(e)'
    BY <1>0, <1>2, <1>3, FlagsFact
  <1> QED BY <1>0, <1>4, QuietFact

\* elf_rawdata is asked for some sections.
LEMMA AskedFact ==
  ASSUME NEW at, Sound(at.d)
  PROVE  Sound(Asked(at))
  <1>0. at.d \in Elf /\ at.d.scns \in Seq(Scn) /\ Len(at.d.scns) \in Nat
        /\ DOMAIN at.d.scns = 1 .. Len(at.d.scns)
    BY ElfFact DEF Sound
  <1>1. PICK some, n : some = {at.ext[k].ex_scn : k \in 1 .. WrittenExtents(at)} /\ n = Len(at.d.scns)
    OBVIOUS
  <1>2. PICK f : f = [i \in 1 .. n |-> IF i \in some /\ at.d.scns[i].data = << >>
                                       THEN [at.d.scns[i] EXCEPT !.rawdata = TRUE] ELSE at.d.scns[i]]
    OBVIOUS
  <1>3. \A i \in 1 .. n : f[i] \in Scn /\ f[i].s_ndx = at.d.scns[i].s_ndx
    <2> TAKE i \in 1 .. n
    <2>1. at.d.scns[i] \in Scn
      BY <1>0, <1>1
    <2>2. /\ [at.d.scns[i] EXCEPT !.rawdata = TRUE] \in Scn
          /\ [at.d.scns[i] EXCEPT !.rawdata = TRUE].s_ndx = at.d.scns[i].s_ndx
      BY <2>1 DEF Scn
    <2> QED BY <1>2, <2>1, <2>2
  <1>4. f \in [1 .. n -> Scn]
    BY <1>2, <1>3
  <1>5. PICK ss : ss = Listed(f)
    OBVIOUS
  <1>6. ss \in Seq(Scn) /\ Len(ss) = n /\ \A i \in 1 .. n : ss[i] = f[i]
    <2>1. n \in Nat
      BY <1>0, <1>1
    <2>2. Listed(f) \in Seq(Scn) /\ Len(Listed(f)) = n /\ \A i \in 1 .. n : Listed(f)[i] = f[i]
      BY ONLY <1>4, <2>1, ListedFact
    <2> QED BY <1>5, <2>2
  <1>7. PICK c : c = [at.d EXCEPT !.scns = ss]
    OBVIOUS
  <1>8. Asked(at) = c
    BY <1>0, <1>1, <1>2, <1>5, <1>7 DEF Asked, Elf
  <1>9. c \in Elf /\ Beside(at.d, c)
    BY <1>0, <1>1, <1>3, <1>6, <1>7 DEF Elf, Beside
  <1> QED BY <1>8, <1>9, BesideSound

LEMMA UnmappedFact ==
  ASSUME NEW d, Sound(d)
  PROVE  Sound([d EXCEPT !.has = @ \ {"raw"}])
  <1>0. d \in Elf /\ d.has \in SUBSET {"class", "ehdr", "phdr", "shdrs", "raw", "LAYOUT"}
    BY ElfFact DEF Sound
  <1>1. PICK h : h = d.has \ {"raw"}
    OBVIOUS
  <1>2. /\ h \in SUBSET {"class", "ehdr", "phdr", "shdrs", "raw", "LAYOUT"}
        /\ \A what \in {"ehdr", "phdr", "shdrs"} : what \in h <=> what \in d.has
    BY <1>0, <1>1
  <1>3. [d EXCEPT !.has = @ \ {"raw"}] = [d EXCEPT !.has = h]
    BY <1>0, <1>1 DEF Elf
  <1> QED BY <1>2, <1>3, FlagsFact

LEMMA ReleasedFact ==
  ASSUME NEW d, Sound(d), NEW f \in Seq(Cells), f # << >>, f[1][1] = "ehdr"
  PROVE  Sound(Released(d, f))
  <1>0. d \in Elf /\ d.has \in SUBSET {"class", "ehdr", "phdr", "shdrs", "raw", "LAYOUT"}
        /\ d.raw \in Seq(Cells) /\ (d.raw # << >> => d.raw[1][1] = "ehdr")
    BY ElfFact DEF Sound
  <1>1. PICK ss, p, h, r : /\ ss = << >> /\ p = << >> /\ h = d.has \ {"ehdr", "phdr"}
                           /\ r = IF d.e_cmd = "RDWR" THEN f ELSE d.raw
    OBVIOUS
  <1>2. PICK c : c = [d EXCEPT !.scns = ss, !.phdr = p, !.ehdr = Blank, !.has = h, !.raw = r]
    OBVIOUS
  <1>3. Released(d, f) = c
    BY <1>0, <1>1, <1>2 DEF Released, Elf
  <1>4. /\ ss \in Seq(Scn) /\ p \in Seq(Cells) /\ Blank \in Ehdr /\ r \in Seq(Cells)
        /\ h \in SUBSET {"class", "ehdr", "phdr", "shdrs", "raw", "LAYOUT"}
        /\ r # << >> => r[1][1] = "ehdr"
    BY <1>0, <1>1, NoHeaders
  <1>5. /\ c \in Elf /\ c.scns = << >> /\ c.phdr = << >> /\ c.ehdr = Blank /\ c.raw = r
        /\ Len(c.scns) = 0 /\ "phdr" \notin c.has
    BY <1>0, <1>1, <1>2, <1>4 DEF Elf
  <1>6. InPlace(c)
    BY <1>5 DEF InPlace
  <1>7. Sound(c)
    BY <1>4, <1>5, <1>6 DEF Sound, Numbering, Unread, Counted
  <1> QED BY <1>3, <1>7

LEMMA SaysFact ==
  ASSUME NEW cmd, NEW says, NEW size, Says(cmd, says, size)
  PROVE  said'.cmd = cmd /\ said'.says = says /\ said'.size = size
  BY DEF Says, Silent

\* Program headers that are read when they are to be written.
LEMMA AgainFact ==
  ASSUME NEW at, Good(at, Len(at.d.scns)), at.says = "ok", NEW b, b = PhdrsAgain(at)
  PROVE  /\ Good(b, Len(b.d.scns)) /\ b.says = "ok" /\ b.rc = at.rc /\ b.ext = at.ext
         /\ "ehdr" \in b.d.has /\ b.d.ehdr = at.d.ehdr /\ b.d.scns = at.d.scns
         /\ b.d.e_nscn = at.d.e_nscn /\ b.d.e_nphdr = at.d.e_nphdr
  <1>0. at \in Ats /\ Sound(at.d) /\ "ehdr" \in at.d.has
    BY DEF Good
  <1>1. CASE at.d.e_nphdr = 0
    <2>1. b = at
      BY <1>1 DEF PhdrsAgain
    <2> QED BY <1>0, <2>1
  <1>2. CASE at.d.e_nphdr # 0
    <2>1. PICK x, c : x = WithPhdr(at.d) /\ c = x.d
      OBVIOUS
    <2>2. PhdrRead(at.d, x)
      BY <1>0, <2>1, WithPhdrFact
    <2>3. /\ Sound(c) /\ "ehdr" \in c.has /\ c.ehdr = at.d.ehdr /\ c.scns = at.d.scns
          /\ c.e_nscn = at.d.e_nscn /\ c.e_nphdr = at.d.e_nphdr /\ c \in Elf
      BY <2>1, <2>2 DEF PhdrRead, Sound
    <2>4. b = [at EXCEPT !.d = c]
      BY <1>2, <2>1 DEF PhdrsAgain
    <2>5. /\ b \in Ats /\ b.d = c /\ b.says = at.says /\ b.rc = at.rc /\ b.ext = at.ext
          /\ b.phoff = at.phoff /\ b.shoff = at.shoff
      BY <1>0, <2>3, <2>4 DEF Ats
    <2> QED BY <2>3, <2>5 DEF Good, Ordering, Sections
  <1> QED BY <1>1, <1>2

LEMMA Fact_elf_update ==
  ASSUME LayoutInv, elf_update
  PROVE  LayoutInv'
  <1>0. Sound(e) /\ calls \in 0 .. MaxCalls /\ MaxCalls \in Nat
    BY Constants DEF LayoutInv
  <1>1. PICK at, b : /\ at = Resync(e) /\ b = PhdrsAgain(at)
                     /\ \/ UpdateLaysOut(at) \/ UpdateRefuses(at) \/ UpdateStarves(at)
                        \/ UpdateStops(b) \/ UpdateWrites(b) \/ UpdateFails(b)
    BY DEF elf_update
  <1>2. /\ Resynced(at) /\ at \in Ats /\ Sound(at.d) /\ at.rc \in Nat
        /\ at.says = "ok" => Good(at, Len(at.d.scns)) /\ Tidy(at.d, at.rc)
    <2>1. Resynced(at)
      BY <1>0, <1>1, ResyncFact
    <2>2. at.says = "ok" => Tidy(at.d, at.rc)
      BY <2>1, AtsFact DEF Resynced, Good, Tidy
    <2> QED BY <2>1, <2>2, AtsFact DEF Resynced, Good
  <1>3. CASE UpdateLaysOut(at)
    <2>1. e' = at.d /\ calls' = calls /\ Says("NULL", "ok", at.rc) /\ at.says = "ok"
      BY <1>3 DEF UpdateLaysOut
    <2>2. said'.size = at.rc
      BY <2>1, SaysFact
    <2>3. Told(at.d, at.rc)
      <3>1. NullFirst(at.d) => Steady(at.d, at.rc)
        BY <1>0, <1>1, <2>1, ResyncTwice
      <3> QED BY <1>2, <2>1, <3>1 DEF Told, Good
    <2> QED BY <1>0, <1>2, <2>1, <2>2, <2>3 DEF LayoutInv
  <1>4. CASE UpdateRefuses(at)
    <2>1. PICK cmd : Says(cmd, at.says, 0)
      BY <1>4 DEF UpdateRefuses
    <2>2. e' = at.d /\ calls' = calls /\ at.says # "ok"
      BY <1>4 DEF UpdateRefuses
    <2>3. said'.says # "ok" /\ said'.size = 0
      BY <2>1, <2>2, SaysFact
    <2> QED BY <1>0, <1>2, <2>2, <2>3 DEF LayoutInv
  <1>5. CASE UpdateStarves(at)
    <2>1. e' = at.d /\ Says("WRITE", "RESOURCE", 0)
      BY <1>5 DEF UpdateStarves
    <2>2. said'.cmd = "WRITE" /\ said'.size = 0
      BY <2>1, SaysFact
    <2>3. calls' \in 0 .. MaxCalls
      BY <1>0, <1>5 DEF UpdateStarves
    <2> QED BY <1>2, <2>1, <2>2, <2>3 DEF LayoutInv
  <1>6. at.says = "ok" => Good(b, Len(b.d.scns)) /\ b.says = "ok" /\ Sound(b.d) /\ b.rc \in Nat
    <2>1. SUFFICES ASSUME at.says = "ok"
                   PROVE  Good(b, Len(b.d.scns)) /\ b.says = "ok" /\ Sound(b.d) /\ b.rc \in Nat
      OBVIOUS
    <2>2. Good(b, Len(b.d.scns)) /\ b.says = "ok" /\ b.rc = at.rc
      BY <1>1, <1>2, <2>1, AgainFact
    <2> QED BY <1>2, <2>2 DEF Good
  <1>7. b.says = "ok" => at.says = "ok"
    BY <1>1, <1>2 DEF PhdrsAgain, Ats
  <1>8. CASE UpdateStops(b)
    <2>1. e' = Asked(b) /\ calls' = calls /\ Says("WRITE", Stopped(b), 0) /\ b.says = "ok"
      BY <1>8 DEF UpdateStops
    <2>2. said'.cmd = "WRITE" /\ said'.size = 0
      BY <2>1, SaysFact
    <2> QED BY <1>0, <1>6, <1>7, <2>1, <2>2, AskedFact DEF LayoutInv
  <1>9. CASE UpdateWrites(b)
    <2>1. /\ b.says = "ok" /\ e' = Released(b.d, NewFile(b)) /\ calls' = calls
          /\ said'.cmd = "WRITE" /\ said'.size = b.rc
      BY <1>9 DEF UpdateWrites, Writable
    <2>2. Sound(Released(b.d, NewFile(b)))
      BY <1>6, <1>7, <2>1, NewFileFact, ReleasedFact
    <2> QED BY <1>0, <1>6, <1>7, <2>1, <2>2 DEF LayoutInv
  <1>10. CASE UpdateFails(b)
    <2>1. calls' \in 0 .. MaxCalls /\ b.says = "ok"
      BY <1>0, <1>10 DEF UpdateFails, Writable
    <2>2. \E says : Says("WRITE", says, 0)
      BY <1>10 DEF UpdateFails
    <2>3. said'.cmd = "WRITE" /\ said'.size = 0
      BY <2>2, SaysFact
    <2>4. \/ e' = Asked(b) \/ e' = [Asked(b) EXCEPT !.has = @ \ {"raw"}]
      BY <1>10 DEF UpdateFails
    <2>5. Sound(Asked(b)) /\ Sound([Asked(b) EXCEPT !.has = @ \ {"raw"}])
      BY <1>6, <1>7, <2>1, AskedFact, UnmappedFact
    <2>6. Sound(e)'
      BY <2>4, <2>5
    <2> QED BY <2>1, <2>3, <2>6 DEF LayoutInv
  <1> QED BY <1>1, <1>3, <1>4, <1>5, <1>8, <1>9, <1>10

LEMMA Fact_Stutter ==
  ASSUME LayoutInv, UNCHANGED vars
  PROVE  LayoutInv'
  BY DEF LayoutInv, vars

LEMMA Fact_Next ==
  ASSUME LayoutInv, [Next]_vars
  PROVE  LayoutInv'
  BY Fact_elf_newehdr, Fact_elf_getscn, Fact_elf_newscn, Fact_gelf_newphdr, Fact_elf_getdata,
     Fact_elf_newdata, Fact_elf_flagscn, Fact_SetType, Fact_gelf_update_shdr,
     Fact_gelf_update_ehdr, Fact_elf_flagelf, Fact_elf_update, Fact_Stutter DEF Next

\* The invariant the others follow from: between any two calls the
\* descriptor is sound, and after a layout that succeeded everything has an
\* extent of its own and would be placed there again.
THEOREM Invariant == Spec => []LayoutInv
  <1>1. Init => LayoutInv
    BY Fact_Init
  <1>2. LayoutInv /\ [Next]_vars => LayoutInv'
    BY Fact_Next
  <1> QED BY <1>1, <1>2, PTL DEF Spec

LEMMA InvTypes ==
  ASSUME LayoutInv
  PROVE  TypeOK
  <1>1. Sound(e) /\ e \in Elf /\ said.size \in Nat /\ calls \in 0 .. MaxCalls
    BY DEF LayoutInv, Sound
  <1>2. /\ e.e_cmd \in {"READ", "RDWR", "WRITE"} /\ e.mapped \in BOOLEAN
        /\ e.has \in SUBSET {"class", "ehdr", "phdr", "shdrs", "raw", "LAYOUT"}
        /\ e.e_nscn \in Nat /\ e.e_nphdr \in Nat
        /\ DOMAIN e.scns = 1 .. Len(e.scns) /\ Len(e.scns) \in Nat
    BY <1>1, ElfFact
  <1>3. \A i \in 1 .. Len(e.scns) : e.scns[i].shdr \in Shdr
    BY <1>1, ElfFact, ScnFact
  <1>4. ~Forgotten(e) => InPlace(e)
    BY <1>1, <1>2 DEF Sound, Numbering, Forgotten
  <1> QED BY <1>1, <1>2, <1>3, <1>4 DEF TypeOK, Sound, Unread, InPlace, Counted

\* Whatever the files at hand and whatever the calls, the fields of the
\* descriptor keep their types, nothing is in memory that was not read, and
\* a section's place in the list is its number.
THEOREM Types == Spec => []TypeOK
  <1>1. LayoutInv => TypeOK
    BY InvTypes
  <1> QED BY <1>1, Invariant, PTL

\* After a layout that succeeded the header, the tables and the sections
\* share no byte and lie inside the size elf_update returned, for every file,
\* every number of sections and every place an application may choose.
THEOREM LayoutApart == Spec => []LaidApart
  <1>1. LayoutInv => LaidApart
    BY TidyApart DEF LayoutInv, LaidApart, Sound, Told
  <1> QED BY <1>1, Invariant, PTL

\* Laying out again changes nothing and tells the same size, whatever the
\* file, the calls before and the places chosen: what ELF_C_NULL says is
\* what ELF_C_WRITE writes.
THEOREM Settles == Spec => []LayoutSettles
  <1>1. LayoutInv => LayoutSettles
    <2> SUFFICES ASSUME LayoutInv, said.cmd = "NULL", said.says = "ok", ~Misread(e)
                 PROVE  LayoutSettles
      BY DEF LayoutSettles
    <2>1. NullFirst(e)
      BY DEF Misread, NullFirst
    <2>2. Steady(e, said.size)
      BY <2>1 DEF LayoutInv, Told
    <2> QED BY <2>2 DEF Steady, LayoutSettles
  <1> QED BY <1>1, Invariant, PTL

-----------------------------------------------------------------------------
(***************************************************************************)
(* Which cells the writes leave.                                           *)
(***************************************************************************)
Hits(x, k) == k - x.at \in DOMAIN x.cells

Misses(w, k) == \A j \in 1 .. Len(w) : ~Hits(w[j], k)

\* The last write that hits the k-th cell puts c there.
Ends(w, k, c) ==
    \E j \in 1 .. Len(w) : /\ Hits(w[j], k) /\ c = w[j].cells[k - w[j].at]
                           /\ \A m \in j + 1 .. Len(w) : ~Hits(w[m], k)

\* What an image has in the k-th cell.
Hitting(w, k) == {j \in DOMAIN w : k - w[j].at \in DOMAIN w[j].cells}
SeenIn(w, else, k) ==
    IF Hitting(w, k) = {} THEN else ELSE w[Max(Hitting(w, k))].cells[k - w[Max(Hitting(w, k))].at]

\* f has the length n.
Spans(f, n) == f = [k \in 1 .. n |-> f[k]]

LEMMA ImageList ==
  ASSUME NEW w, NEW len \in Nat, NEW else
  PROVE  /\ Spans(Image(w, len, else), len)
         /\ \A k \in 1 .. len : Image(w, len, else)[k] = SeenIn(w, else, k)
  <1>1. PICK all, S : /\ all = [k \in 1 .. len |-> SeenIn(w, else, k)]
                      /\ S = {SeenIn(w, else, k) : k \in 1 .. len}
    OBVIOUS
  <1>2. Image(w, len, else) = Listed(all)
    BY <1>1 DEF Image, SeenIn, Hitting
  <1>3. all \in [1 .. len -> S] /\ \A k \in 1 .. len : all[k] = SeenIn(w, else, k)
    BY <1>1
  <1>4. /\ Listed(all) \in Seq(S) /\ Len(Listed(all)) = len
        /\ \A k \in 1 .. len : Listed(all)[k] = all[k]
    BY <1>3, ListedFact
  <1>5. Spans(Listed(all), len)
    BY <1>4 DEF Spans
  <1> QED BY <1>2, <1>3, <1>4, <1>5

LEMMA ImageAt ==
  ASSUME NEW W, NEW w \in Seq(W), NEW len \in Nat, NEW else, NEW k \in 1 .. len
  PROVE  /\ \A c : Ends(w, k, c) => Image(w, len, else)[k] = c
         /\ Misses(w, k) => Image(w, len, else)[k] = else
  <1> DEFINE hits == Hitting(w, k)
             seen == SeenIn(w, else, k)
  <1>0. Len(w) \in Nat /\ DOMAIN w = 1 .. Len(w)
    OBVIOUS
  <1>1. Image(w, len, else)[k] = seen
    BY ImageList
  <1>2. \A c : Ends(w, k, c) => seen = c
    <2> SUFFICES ASSUME NEW c, Ends(w, k, c) PROVE seen = c
      OBVIOUS
    <2>1. PICK j \in 1 .. Len(w) : /\ Hits(w[j], k) /\ c = w[j].cells[k - w[j].at]
                                   /\ \A m \in j + 1 .. Len(w) : ~Hits(w[m], k)
      BY DEF Ends
    <2>2. PICK H : H = hits
      OBVIOUS
    <2>3. H \in SUBSET Nat /\ j \in H /\ \A y \in H : y <= j
      <3>1. \A y \in H : y \in 1 .. Len(w) /\ Hits(w[y], k)
        BY <1>0, <2>2 DEF Hits, Hitting
      <3>2. j \in H
        BY <1>0, <2>1, <2>2 DEF Hits, Hitting
      <3>3. ASSUME NEW y \in H, ~(y <= j) PROVE FALSE
        <4>1. y \in j + 1 .. Len(w)
          BY <1>0, <3>1, <3>3
        <4> QED BY <2>1, <3>1, <4>1
      <3> QED BY <1>0, <3>1, <3>2, <3>3
    <2>4. Max(H) \in H /\ Max(H) >= j
      BY ONLY <1>0, <2>3, MaxFact
    <2>5. Max(H) = j
      <3>1. Max(H) <= j /\ Max(H) \in Nat /\ j \in Nat
        BY <2>3, <2>4
      <3> QED BY <2>4, <3>1
    <2>6. H # {}
      BY <2>3
    <2> QED BY <2>1, <2>2, <2>5, <2>6 DEF SeenIn
  <1>3. Misses(w, k) => seen = else
    <2> SUFFICES ASSUME Misses(w, k) PROVE hits = {}
      BY DEF SeenIn
    <2> QED BY <1>0 DEF Misses, Hits, Hitting
  <1> HIDE DEF seen
  <1> QED BY <1>1, <1>2, <1>3

LEMMA EndsBehind ==
  ASSUME NEW W, NEW u \in Seq(W), NEW v \in Seq(W), NEW k, NEW c, Ends(v, k, c)
  PROVE  Ends(u \o v, k, c)
  <1>1. PICK j \in 1 .. Len(v) : /\ Hits(v[j], k) /\ c = v[j].cells[k - v[j].at]
                                 /\ \A m \in j + 1 .. Len(v) : ~Hits(v[m], k)
    BY DEF Ends
  <1>2. PICK a, b, w : a = Len(u) /\ b = Len(v) /\ w = u \o v
    OBVIOUS
  <1>3. /\ a \in Nat /\ b \in Nat /\ Len(w) = a + b
        /\ \A i \in 1 .. b : w[a + i] = v[i]
    BY <1>2
  <1>4. j \in 1 .. b /\ a + j \in 1 .. a + b /\ w[a + j] = v[j]
    BY <1>1, <1>2, <1>3
  <1>5. ASSUME NEW m \in a + j + 1 .. Len(w) PROVE ~Hits(w[m], k)
    <2>1. m - a \in j + 1 .. b /\ m - a \in 1 .. b /\ a + (m - a) = m
      BY <1>3, <1>4, <1>5
    <2>2. w[m] = v[m - a]
      BY <1>3, <2>1
    <2> QED BY <1>1, <1>2, <2>1, <2>2
  <1> QED BY <1>1, <1>2, <1>3, <1>4, <1>5 DEF Ends

LEMMA EndsBefore ==
  ASSUME NEW W, NEW u \in Seq(W), NEW v \in Seq(W), NEW k, NEW c, Ends(u, k, c), Misses(v, k)
  PROVE  Ends(u \o v, k, c)
  <1>1. PICK j \in 1 .. Len(u) : /\ Hits(u[j], k) /\ c = u[j].cells[k - u[j].at]
                                 /\ \A m \in j + 1 .. Len(u) : ~Hits(u[m], k)
    BY DEF Ends
  <1>2. PICK a, b, w : a = Len(u) /\ b = Len(v) /\ w = u \o v
    OBVIOUS
  <1>3. /\ a \in Nat /\ b \in Nat /\ Len(w) = a + b
        /\ \A i \in 1 .. a : w[i] = u[i]
        /\ \A i \in 1 .. b : w[a + i] = v[i]
    BY <1>2
  <1>4. j \in 1 .. a + b /\ w[j] = u[j]
    BY <1>1, <1>2, <1>3
  <1>5. ASSUME NEW m \in j + 1 .. Len(w) PROVE ~Hits(w[m], k)
    <2>1. CASE m <= a
      BY <1>1, <1>2, <1>3, <1>5, <2>1
    <2>2. CASE m > a
      <3>1. m - a \in 1 .. b /\ a + (m - a) = m
        BY <1>1, <1>2, <1>3, <1>5, <2>2
      <3>2. w[m] = v[m - a]
        BY <1>3, <3>1
      <3> QED BY <1>2, <3>1, <3>2 DEF Misses
    <2> QED BY <1>1, <1>2, <1>3, <1>5, <2>1, <2>2
  <1> QED BY <1>1, <1>2, <1>3, <1>4, <1>5 DEF Ends

LEMMA MissesBoth ==
  ASSUME NEW W, NEW u \in Seq(W), NEW v \in Seq(W), NEW k, Misses(u, k), Misses(v, k)
  PROVE  Misses(u \o v, k)
  <1>1. PICK a, b, w : a = Len(u) /\ b = Len(v) /\ w = u \o v
    OBVIOUS
  <1>2. /\ a \in Nat /\ b \in Nat /\ Len(w) = a + b
        /\ \A i \in 1 .. a : w[i] = u[i]
        /\ \A i \in 1 .. b : w[a + i] = v[i]
    BY <1>1
  <1>3. ASSUME NEW m \in 1 .. Len(w) PROVE ~Hits(w[m], k)
    <2>1. CASE m <= a
      <3>1. m \in 1 .. a
        BY <1>2, <2>1
      <3> QED BY <1>1, <1>2, <3>1 DEF Misses
    <2>2. CASE m > a
      <3>1. m - a \in 1 .. b /\ a + (m - a) = m
        BY <1>2, <1>3, <2>2
      <3>2. w[m] = v[m - a]
        BY <1>2, <3>1
      <3> QED BY <1>1, <3>1, <3>2 DEF Misses
    <2> QED BY <1>2, <2>1, <2>2
  <1> QED BY <1>1, <1>3 DEF Misses

LEMMA EndsOne ==
  ASSUME NEW off \in Nat, NEW cells, NEW k
  PROVE  /\ k - off \in DOMAIN cells => Ends(Write(off, cells), k, cells[k - off])
         /\ k - off \notin DOMAIN cells => Misses(Write(off, cells), k)
  <1>1. PICK x : x = [at |-> off, cells |-> cells]
    OBVIOUS
  <1>2. Write(off, cells) = << x >> /\ Len(<< x >>) = 1 /\ << x >>[1] = x
    BY <1>1 DEF Write
  <1>3. x.at = off /\ x.cells = cells
    BY <1>1
  <1>4. 1 + 1 .. 1 = {} /\ 1 .. 1 = {1}
    OBVIOUS
  <1> QED BY <1>2, <1>3, <1>4 DEF Ends, Misses, Hits

LEMMA GapEnds ==
  ASSUME NEW from \in Nat, NEW to \in Nat, NEW k \in Nat
  PROVE  /\ from < k /\ k <= to => Ends(Gap(from, to), k, Fill)
         /\ ~(from < k /\ k <= to) => Misses(Gap(from, to), k)
  <1>1. CASE from < to
    <2>1. PICK cells : cells = [i \in 1 .. to - from |-> Fill]
      OBVIOUS
    <2>2. Gap(from, to) = Write(from, cells)
      BY <1>1, <2>1 DEF Gap
    <2>3. (from < k /\ k <= to) <=> k - from \in 1 .. to - from
      BY <1>1
    <2>4. DOMAIN cells = 1 .. to - from /\ \A i \in 1 .. to - from : cells[i] = Fill
      BY <2>1
    <2> QED BY <2>2, <2>3, <2>4, EndsOne
  <1>2. CASE ~(from < to)
    <2>1. Gap(from, to) = << >> /\ Len(<< >>) = 0
      BY <1>2 DEF Gap
    <2>2. ~(from < k /\ k <= to)
      BY <1>2
    <2> QED BY <2>1, <2>2 DEF Misses
  <1> QED BY <1>1, <1>2

\* What the i-th sequence puts in a cell stays if no later one hits it.
LEMMA FlattenEnds ==
  ASSUME NEW W, NEW seqs \in Seq(Seq(W)), NEW i \in 1 .. Len(seqs), NEW k, NEW c,
         Ends(seqs[i], k, c), \A j \in i + 1 .. Len(seqs) : Misses(seqs[j], k)
  PROVE  Ends(FlattenSeq(seqs), k, c)
  <1>1. PICK n : n = Len(seqs)
    OBVIOUS
  <1>2. n \in Nat /\ i \in 1 .. n /\ seqs # << >> /\ \A j \in 1 .. n : seqs[j] \in Seq(W)
    BY <1>1
  <1>3. PICK f : FlattenTurns(seqs, f) /\ FlattenSeq(seqs) = f[n]
    BY <1>1, <1>2, FlattenTurn
  <1> DEFINE Kept(m) == (m # 0 => f[m] \in Seq(W)) /\ (m >= i => Ends(f[m], k, c))
             R == {m \in 0 .. n : Kept(m)}
  <1>4. 0 \in R
    BY <1>2
  <1>5. ASSUME NEW m \in 1 .. n, m - 1 \in R PROVE m \in R
    <2>1. f[m] = IF m = 1 THEN seqs[m] ELSE f[m - 1] \o seqs[m]
      BY <1>1, <1>3 DEF FlattenTurns
    <2>2. PICK a, b : a = f[m - 1] /\ b = seqs[m]
      OBVIOUS
    <2>3. b \in Seq(W) /\ (m # 1 => a \in Seq(W)) /\ (m - 1 >= i => Ends(a, k, c))
      BY <1>2, <1>5, <2>2
    <2>4. f[m] \in Seq(W)
      <3>1. m # 1 => a \o b \in Seq(W)
        BY <2>3, ConcatProperties
      <3> QED BY <2>1, <2>2, <2>3, <3>1
    <2>5. ASSUME m >= i PROVE Ends(f[m], k, c)
      <3>1. CASE m = i
        <4>1. Ends(b, k, c)
          BY <2>2, <3>1
        <4>2. m # 1 => Ends(a \o b, k, c)
          BY <2>3, <4>1, EndsBehind
        <4> QED BY <2>1, <2>2, <4>1, <4>2
      <3>2. CASE m # i
        <4>1. m - 1 >= i /\ m # 1 /\ m \in i + 1 .. n
          BY <1>2, <2>5, <3>2
        <4>2. Misses(b, k)
          BY <1>1, <2>2, <4>1
        <4>3. Ends(a \o b, k, c)
          BY <2>3, <4>1, <4>2, EndsBefore
        <4> QED BY <2>1, <2>2, <4>1, <4>3
      <3> QED BY <3>1, <3>2
    <2>6. m \in 0 .. n
      BY <1>2
    <2> QED BY <1>2, <2>4, <2>5, <2>6
  <1>6. n \in R
    <2> HIDE DEF R
    <2>1. 0 .. n \subseteq R
      BY <1>2, <1>4, <1>5, UpTo
    <2> QED BY <1>2, <2>1
  <1> QED BY <1>2, <1>3, <1>6

\* Nothing stopped the write: no extent was refused.
LEMMA StoppedFact ==
  ASSUME NEW at, at.ext \in Seq(Extent), Stopped(at) = "ok"
  PROVE  \A k \in 1 .. Len(at.ext) : ExtentSays(at, k) = "ok"
  <1> DEFINE bad == {j \in DOMAIN at.ext : ExtentSays(at, j) # "ok"}
             S == {Len(at.ext)} \cup {k - 1 : k \in bad}
  <1>0. Len(at.ext) \in Nat /\ DOMAIN at.ext = 1 .. Len(at.ext)
    OBVIOUS
  <1>1. S \in SUBSET Nat /\ S # {}
    BY <1>0
  <1>2. WrittenExtents(at) = Min(S)
    BY DEF WrittenExtents
  <1>3. PICK m : m = Min(S)
    OBVIOUS
  <1>4. m \in S /\ \A y \in S : m <= y
    <2> HIDE DEF S
    <2> QED BY <1>1, <1>3, MinFact
  <1>5. Stopped(at) = IF m = Len(at.ext) THEN "ok" ELSE ExtentSays(at, m + 1)
    BY <1>2, <1>3 DEF Stopped
  <1>6. CASE m = Len(at.ext)
    <2> SUFFICES ASSUME NEW k \in 1 .. Len(at.ext), ExtentSays(at, k) # "ok" PROVE FALSE
      OBVIOUS
    <2>1. k - 1 \in S
      BY <1>0
    <2>2. m <= k - 1
      BY <1>4, <2>1
    <2> QED BY <1>0, <1>6, <2>2
  <1>7. CASE m # Len(at.ext)
    <2>1. PICK k \in bad : m = k - 1
      BY <1>4, <1>7
    <2>2. m + 1 = k
      BY <1>0, <2>1
    <2> QED BY <1>5, <1>7, <2>1, <2>2
  <1> QED BY <1>6, <1>7

\* Nothing of w lies in front of offset p.
Clear(w, p) == \A k \in 1 .. p : Misses(w, k)

LEMMA ClearMost ==
  ASSUME NEW off \in Nat, NEW cells \in Seq(Cells), NEW p \in Nat, p <= off
  PROVE  Clear(Write(off, cells), p)
  <1> SUFFICES ASSUME NEW k \in 1 .. p PROVE Misses(Write(off, cells), k)
    BY DEF Clear
  <1>1. k - off \notin DOMAIN cells
    <2>1. DOMAIN cells = 1 .. Len(cells) /\ ~(k - off >= 1)
      OBVIOUS
    <2> QED BY <2>1
  <1> QED BY <1>1, EndsOne

LEMMA ClearGap ==
  ASSUME NEW from \in Nat, NEW to \in Nat, NEW p \in Nat, p <= from
  PROVE  Clear(Gap(from, to), p)
  <1> SUFFICES ASSUME NEW k \in 1 .. p PROVE Misses(Gap(from, to), k)
    BY DEF Clear
  <1>1. ~(from < k) /\ k \in Nat
    OBVIOUS
  <1> QED BY <1>1, GapEnds

LEMMA ClearBoth ==
  ASSUME NEW W, NEW u \in Seq(W), NEW v \in Seq(W), NEW p, Clear(u, p), Clear(v, p)
  PROVE  Clear(u \o v, p)
  BY MissesBoth DEF Clear

LEMMA TurnFact ==
  ASSUME NEW s \in Scn, s.s_offset # 0, NEW f, WriteTurns(s, f), NEW m \in 1 .. Len(s.data),
         NEW off, off = s.s_offset + s.data[m].d_off
  PROVE  /\ off \in Nat \ {0} /\ s.s_offset <= off
         /\ f[m - 1].end \in Nat \ {0} /\ s.s_offset <= f[m - 1].end
         /\ f[m - 1].w \in Seq(Cut) /\ Gap(f[m - 1].end, off) \in Seq(Cut)
         /\ Write(off, s.data[m].d_buf) \in Seq(Cut) /\ s.data[m].d_buf \in Seq(Cells)
         /\ f[m].w = f[m - 1].w \o Gap(f[m - 1].end, off) \o Write(off, s.data[m].d_buf)
  <1>0. s.data \in Seq(Buffer) /\ Len(s.data) \in Nat /\ s.s_offset \in Nat \ {0}
    BY ScnFact
  <1>1. PICK p, q, buf, b : p = s.s_offset /\ q = s.data[m].d_off /\ buf = s.data[m].d_buf /\ b = f[m - 1]
    OBVIOUS
  <1>2. q \in Nat /\ buf \in Seq(Cells) /\ off \in Nat \ {0} /\ p <= off /\ p \in Nat \ {0}
    <2>1. q \in Nat /\ buf \in Seq(Cells)
      BY <1>0, <1>1, BufferFact
    <2>2. p \in Nat \ {0} /\ off = p + q
      BY <1>0, <1>1
    <2> QED BY <2>1, <2>2
  <1>3. b.w \in Seq(Cut) /\ b.end \in Nat \ {0} /\ p <= b.end
    <2>1. m - 1 \in 0 .. Len(s.data)
      BY <1>0
    <2>2. /\ b.w \in Seq(Cut) /\ b.end \in Nat \ {0}
          /\ m - 1 = 0 => b.end = p
          /\ m - 1 # 0 => b.end = p + s.data[m - 1].d_off + Len(s.data[m - 1].d_buf)
      BY <1>0, <1>1, <2>1, WriteTurnsFact
    <2>3. CASE m - 1 = 0
      BY <1>2, <2>2, <2>3
    <2>4. CASE m - 1 # 0
      <3>1. m - 1 \in 1 .. Len(s.data)
        BY <2>1, <2>4
      <3>2. PICK u, v : u = s.data[m - 1].d_off /\ v = Len(s.data[m - 1].d_buf)
        OBVIOUS
      <3>3. u \in Nat /\ v \in Nat
        BY <1>0, <3>1, <3>2, BufferFact
      <3>4. b.end = p + u + v
        BY <2>2, <2>4, <3>2
      <3>5. p <= p + u + v
        BY ONLY <1>2, <3>3
      <3> QED BY <2>2, <3>4, <3>5
    <2> QED BY <2>3, <2>4
  <1>4. PICK ws : ws = b.w \o Gap(b.end, off) \o Write(off, buf)
    OBVIOUS
  <1>5. f[m].w = ws
    <2>1. f[m] = [w |-> ws, end |-> off + Len(buf)]
      BY <1>1, <1>4 DEF WriteTurns, WriteNext
    <2> QED BY ONLY <2>1
  <1>6. Gap(b.end, off) \in Seq(Cut) /\ Write(off, buf) \in Seq(Cut)
    BY <1>2, <1>3, GapCut, WriteCut
  <1> QED BY <1>1, <1>2, <1>3, <1>4, <1>5, <1>6

LEMMA WriteDataClear ==
  ASSUME NEW s \in Scn, s.s_offset # 0
  PROVE  Clear(WriteData(s).w, s.s_offset)
  <1>0. s.data \in Seq(Buffer) /\ Len(s.data) \in Nat /\ s.s_offset \in Nat \ {0}
    BY ScnFact
  <1>1. PICK n, p : n = Len(s.data) /\ p = s.s_offset
    OBVIOUS
  <1>2. PICK f : WriteTurns(s, f) /\ WriteData(s) = f[n]
    BY <1>0, <1>1, WriteTurn
  <1> DEFINE S == {m \in 0 .. n : Clear(f[m].w, p)}
  <1>3. 0 \in S
    <2>1. f[0].w = << >>
      BY <1>0, <1>2, WriteTurnsFact
    <2>2. Len(<< >>) = 0
      OBVIOUS
    <2>3. Clear(f[0].w, p)
      BY <2>1, <2>2 DEF Clear, Misses
    <2> QED BY <1>0, <1>1, <2>3
  <1>4. ASSUME NEW m \in 1 .. n, m - 1 \in S PROVE m \in S
    <2>1. PICK off, buf, b : off = s.s_offset + s.data[m].d_off /\ buf = s.data[m].d_buf /\ b = f[m - 1]
      OBVIOUS
    <2>2. /\ off \in Nat \ {0} /\ p <= off /\ b.end \in Nat \ {0} /\ p <= b.end /\ buf \in Seq(Cells)
          /\ b.w \in Seq(Cut) /\ Gap(b.end, off) \in Seq(Cut) /\ Write(off, buf) \in Seq(Cut)
          /\ f[m].w = b.w \o Gap(b.end, off) \o Write(off, buf)
      <3>1. m \in 1 .. Len(s.data) /\ WriteTurns(s, f) /\ s \in Scn /\ s.s_offset # 0
        BY <1>1, <1>2
      <3> QED BY ONLY <1>1, <2>1, <3>1, TurnFact
    <2>3. Clear(b.w, p) /\ Clear(Gap(b.end, off), p) /\ Clear(Write(off, buf), p)
      BY <1>0, <1>1, <1>4, <2>1, <2>2, ClearGap, ClearMost
    <2>4. Clear(b.w \o Gap(b.end, off), p) /\ b.w \o Gap(b.end, off) \in Seq(Cut)
      BY <2>2, <2>3, ClearBoth, ConcatProperties
    <2>5. Clear(b.w \o Gap(b.end, off) \o Write(off, buf), p)
      BY <2>2, <2>3, <2>4, ClearBoth
    <2>6. m \in 0 .. n
      BY <1>0, <1>1
    <2> QED BY <2>2, <2>5, <2>6
  <1>5. n \in S
    <2> HIDE DEF S
    <2>1. 0 .. n \subseteq S
      BY <1>0, <1>1, <1>3, <1>4, UpTo
    <2> QED BY <1>0, <1>1, <2>1
  <1> QED BY <1>1, <1>2, <1>5

\* The i-th cell of the section lies in the l-th buffer.
Covers(s, l, i) == i - s.data[l].d_off \in 1 .. Len(s.data[l].d_buf)

\* What the first m turns leave in the i-th cell: what the last buffer there
\* has, or the filling up to the end of what was written.
Leaves(s, f, m, i) ==
    /\ \A l \in 1 .. m :
          Covers(s, l, i) /\ (\A k \in l + 1 .. m : ~Covers(s, k, i)) =>
              Ends(f[m].w, s.s_offset + i, s.data[l].d_buf[i - s.data[l].d_off])
    /\ (\A k \in 1 .. m : ~Covers(s, k, i)) /\ s.s_offset + i <= f[m].end =>
          Ends(f[m].w, s.s_offset + i, Fill)

\* No gap reaches over a buffer that was written before.
Unfilled(s) ==
    \A j, k \in 1 .. Len(s.data) :
        j < k => Area(s.data[j].d_off, Len(s.data[j].d_buf))
                     \cap (s.data[k - 1].d_off + Len(s.data[k - 1].d_buf) .. s.data[k].d_off - 1) = {}

\* One more turn.
LEMMA LeavesNext ==
  ASSUME NEW s \in Scn, s.s_offset # 0, Unfilled(s), NEW f, WriteTurns(s, f),
         NEW i \in Nat \ {0}, NEW m \in 1 .. Len(s.data), Leaves(s, f, m - 1, i)
  PROVE  Leaves(s, f, m, i)
  <1>0. s.data \in Seq(Buffer) /\ Len(s.data) \in Nat /\ s.s_offset \in Nat \ {0}
    BY ScnFact
  <1>1. PICK p, q, off, buf, b, g, c, c1 :
            /\ p = s.s_offset /\ q = s.data[m].d_off /\ off = p + q /\ buf = s.data[m].d_buf
            /\ b = f[m - 1] /\ g = Gap(b.end, off) /\ c = p + i /\ c1 = Write(off, buf)
    OBVIOUS
  <1>2. /\ off \in Nat \ {0} /\ p <= off /\ b.end \in Nat \ {0} /\ p <= b.end /\ buf \in Seq(Cells)
        /\ b.w \in Seq(Cut) /\ g \in Seq(Cut) /\ c1 \in Seq(Cut)
        /\ f[m].w = b.w \o g \o c1
    <2>1. /\ m \in 1 .. Len(s.data) /\ WriteTurns(s, f) /\ s \in Scn /\ s.s_offset # 0
          /\ off = s.s_offset + s.data[m].d_off
      BY <1>1
    <2>2. /\ off \in Nat \ {0} /\ s.s_offset <= off
          /\ f[m - 1].end \in Nat \ {0} /\ s.s_offset <= f[m - 1].end
      BY ONLY <2>1, TurnFact
    <2>3. /\ f[m - 1].w \in Seq(Cut) /\ Gap(f[m - 1].end, off) \in Seq(Cut)
          /\ Write(off, s.data[m].d_buf) \in Seq(Cut) /\ s.data[m].d_buf \in Seq(Cells)
      BY ONLY <2>1, TurnFact
    <2>4. f[m].w = f[m - 1].w \o Gap(f[m - 1].end, off) \o Write(off, s.data[m].d_buf)
      BY ONLY <2>1, TurnFact
    <2> QED BY ONLY <1>1, <2>2, <2>3, <2>4
  <1>3. p \in Nat \ {0} /\ q \in Nat /\ c \in Nat /\ b.w \o g \in Seq(Cut) /\ Len(buf) \in Nat
    <2>1. p \in Nat \ {0} /\ q \in Nat
      BY <1>0, <1>1, BufferFact
    <2>2. b.w \o g \in Seq(Cut)
      BY ONLY <1>2, ConcatProperties
    <2>3. Len(buf) \in Nat
      BY <1>2
    <2>4. c \in Nat
      BY <1>1, <2>1
    <2> QED BY <2>1, <2>2, <2>3, <2>4
  <1>4. off = p + q /\ c = p + i /\ off \in Nat /\ p \in Nat /\ q \in Nat /\ c \in Nat /\ i \in Nat
    BY <1>1, <1>2, <1>3
  <1>5. c - off = i - q
    BY ONLY <1>4
  <1>6. Covers(s, m, i) <=> c - off \in DOMAIN buf
    <2>1. DOMAIN buf = 1 .. Len(buf)
      BY <1>2
    <2> QED BY <1>1, <1>5, <2>1 DEF Covers
  <1>7. CASE Covers(s, m, i)
    <2>1. Ends(c1, c, buf[c - off])
      BY <1>1, <1>2, <1>6, <1>7, EndsOne
    <2>2. Ends(f[m].w, c, buf[i - q])
      BY <1>2, <1>3, <1>5, <2>1, EndsBehind
    <2>3. ASSUME NEW l \in 1 .. m, \A k \in l + 1 .. m : ~Covers(s, k, i) PROVE l = m
      <3>1. l < m => m \in l + 1 .. m
        OBVIOUS
      <3> QED BY <1>7, <2>3, <3>1
    <2> QED BY <1>1, <1>7, <2>2, <2>3 DEF Leaves
  <1>8. CASE ~Covers(s, m, i)
    <2>1. Misses(c1, c)
      BY <1>1, <1>2, <1>6, <1>8, EndsOne
    <2>2. ASSUME NEW l \in 1 .. m, Covers(s, l, i), \A k \in l + 1 .. m : ~Covers(s, k, i)
          PROVE  Ends(f[m].w, c, s.data[l].d_buf[i - s.data[l].d_off])
      <3>1. l \in 1 .. m - 1 /\ l < m /\ l \in 1 .. Len(s.data) /\ m - 1 \in 1 .. Len(s.data)
        <4>1. l # m
          BY <1>8, <2>2
        <4> QED BY <1>0, <4>1
      <3>2. \A k \in l + 1 .. m - 1 : ~Covers(s, k, i)
        BY <2>2
      <3>3. PICK v : v = s.data[l].d_buf[i - s.data[l].d_off]
        OBVIOUS
      <3>4. Ends(b.w, c, v)
        BY <1>1, <2>2, <3>1, <3>2, <3>3 DEF Leaves
      <3>5. Misses(g, c)
        <4>1. PICK x, y, z, t : /\ x = s.data[m - 1].d_off /\ y = Len(s.data[m - 1].d_buf)
                                /\ z = s.data[l].d_off /\ t = Len(s.data[l].d_buf)
          OBVIOUS
        <4>2. x \in Nat /\ y \in Nat /\ z \in Nat /\ t \in Nat
          BY <1>0, <3>1, <4>1, BufferFact
        <4>3. b.end = p + x + y
          <5>1. m - 1 \in 0 .. Len(s.data) /\ m - 1 # 0
            BY <3>1
          <5>2. f[m - 1].end = s.s_offset + s.data[m - 1].d_off + Len(s.data[m - 1].d_buf)
            BY <5>1, WriteTurnsFact
          <5> QED BY <1>1, <4>1, <5>2
        <4>4. z < i /\ i <= z + t
          <5>1. i - z \in 1 .. t
            BY <2>2, <4>1 DEF Covers
          <5> QED BY ONLY <4>2, <5>1, i \in Nat
        <4>5. Area(z, t) \cap (x + y .. q - 1) = {}
          BY <1>1, <3>1, <4>1 DEF Unfilled
        <4>6. ~(b.end < c /\ c <= off)
          <5> SUFFICES ASSUME b.end < c, c <= off PROVE FALSE
            OBVIOUS
          <5>1. i - 1 \in z .. z + t - 1
            BY ONLY <4>2, <4>4, i \in Nat
          <5>2. i - 1 \in x + y .. q - 1
            <6>1. x + y < i
              BY ONLY <1>4, <4>2, <4>3, b.end < c
            <6>2. i <= q
              BY ONLY <1>4, c <= off
            <6> QED BY ONLY <1>3, <4>2, <6>1, <6>2, i \in Nat
          <5> QED BY <4>5, <5>1, <5>2 DEF Area
        <4> QED BY <1>1, <1>2, <1>3, <4>6, GapEnds
      <3>6. Ends(b.w \o g, c, v)
        BY <1>2, <3>4, <3>5, EndsBefore
      <3> QED BY <1>2, <1>3, <2>1, <3>3, <3>6, EndsBefore
    <2>3. ASSUME \A k \in 1 .. m : ~Covers(s, k, i), c <= f[m].end
          PROVE  Ends(f[m].w, c, Fill)
      <3>1. c <= off
        <4>1. PICK t : t = Len(buf)
          OBVIOUS
        <4>2. f[m].end = p + q + t
          <5>1. m \in 0 .. Len(s.data) /\ m # 0
            OBVIOUS
          <5>2. f[m].end = s.s_offset + s.data[m].d_off + Len(s.data[m].d_buf)
            BY <5>1, WriteTurnsFact
          <5> QED BY <1>1, <4>1, <5>2
        <4>3. ~(i - q \in 1 .. t)
          BY <1>1, <1>8, <4>1 DEF Covers
        <4>4. p + i <= p + q + t /\ t \in Nat
          BY <1>1, <1>3, <2>3, <4>1, <4>2
        <4> QED BY ONLY <1>4, <4>3, <4>4
      <3>2. CASE b.end < c
        <4>1. Ends(g, c, Fill)
          BY <1>1, <1>2, <1>3, <3>1, <3>2, GapEnds
        <4>2. Ends(b.w \o g, c, Fill)
          BY <1>2, <4>1, EndsBehind
        <4> QED BY <1>2, <1>3, <2>1, <4>2, EndsBefore
      <3>3. CASE ~(b.end < c)
        <4>1. c <= b.end
          BY <1>2, <1>3, <3>3
        <4>2. \A k \in 1 .. m - 1 : ~Covers(s, k, i)
          BY <2>3
        <4>3. Ends(b.w, c, Fill)
          BY <1>1, <4>1, <4>2 DEF Leaves
        <4>4. Misses(g, c)
          BY <1>1, <1>2, <1>3, <3>3, GapEnds
        <4>5. Ends(b.w \o g, c, Fill)
          BY <1>2, <4>3, <4>4, EndsBefore
        <4> QED BY <1>2, <1>3, <2>1, <4>5, EndsBefore
      <3> QED BY <3>2, <3>3
    <2> QED BY <1>1, <2>2, <2>3 DEF Leaves
  <1> QED BY <1>7, <1>8

\* The section is written as it is in memory.
LEMMA WriteDataShows ==
  ASSUME NEW s \in Scn, s.s_offset # 0, Unfilled(s), NEW len \in Nat,
         WriteData(s).end = s.s_offset + len, NEW i \in 1 .. len,
         NEW w, w = [k \in DOMAIN s.data |-> [at |-> s.data[k].d_off, cells |-> s.data[k].d_buf]]
  PROVE  Ends(WriteData(s).w, s.s_offset + i, Image(w, len, Fill)[i])
  <1>0. /\ s.data \in Seq(Buffer) /\ Len(s.data) \in Nat /\ s.s_offset \in Nat \ {0}
        /\ DOMAIN s.data = 1 .. Len(s.data) /\ i \in Nat \ {0}
    BY ScnFact
  <1>1. PICK n, p : n = Len(s.data) /\ p = s.s_offset
    OBVIOUS
  <1>2. PICK f : WriteTurns(s, f) /\ WriteData(s) = f[n]
    BY <1>0, <1>1, WriteTurn
  <1> DEFINE S == {m \in 0 .. n : Leaves(s, f, m, i)}
  <1>3. 0 \in S
    <2>1. f[0].end = p
      BY <1>0, <1>1, <1>2, WriteTurnsFact
    <2>2. ~(p + i <= f[0].end)
      BY <1>0, <1>1, <2>1
    <2>3. Leaves(s, f, 0, i)
      BY <1>1, <2>2 DEF Leaves
    <2> QED BY <1>0, <1>1, <2>3
  <1>4. ASSUME NEW m \in 1 .. n, m - 1 \in S PROVE m \in S
    <2>1. Leaves(s, f, m, i)
      BY <1>0, <1>1, <1>2, <1>4, LeavesNext
    <2> QED BY <1>0, <1>1, <2>1
  <1>5. Leaves(s, f, n, i)
    <2> HIDE DEF S
    <2>1. 0 .. n \subseteq S
      BY <1>0, <1>1, <1>3, <1>4, UpTo
    <2>2. n \in S
      BY <1>0, <1>1, <2>1
    <2> QED BY <2>2 DEF S
  <1> DEFINE W == {w[k] : k \in 1 .. n}
  <1>6. w \in Seq(W) /\ Len(w) = n
    BY <1>0, <1>1
  <1>7. ASSUME NEW l \in 1 .. n
        PROVE  /\ Hits(w[l], i) <=> Covers(s, l, i)
               /\ w[l].cells[i - w[l].at] = s.data[l].d_buf[i - s.data[l].d_off]
    <2>1. w[l].at = s.data[l].d_off /\ w[l].cells = s.data[l].d_buf
      BY <1>0, <1>1
    <2>2. DOMAIN s.data[l].d_buf = 1 .. Len(s.data[l].d_buf)
      BY <1>0, <1>1, BufferFact
    <2> QED BY <2>1, <2>2 DEF Hits, Covers
  <1> HIDE DEF W
  <1>8. PICK u : u = Image(w, len, Fill)
    OBVIOUS
  <1>9. /\ \A c : Ends(w, i, c) => u[i] = c
        /\ Misses(w, i) => u[i] = Fill
    <2>1. PICK V : w \in Seq(V)
      BY <1>6
    <2>2. \A c : Ends(w, i, c) => Image(w, len, Fill)[i] = c
      BY <2>1, ImageAt
    <2>3. Misses(w, i) => Image(w, len, Fill)[i] = Fill
      BY <2>1, ImageAt
    <2> QED BY <1>8, <2>2, <2>3
  <1>10. CASE \E l \in 1 .. n : Covers(s, l, i)
    <2>1. PICK H : H = {l \in 1 .. n : Covers(s, l, i)}
      OBVIOUS
    <2>2. PICK x : x \in H
      BY <1>10, <2>1
    <2>3. H \in SUBSET Nat /\ n \in Nat /\ \A y \in H : y <= n
      BY <1>0, <1>1, <2>1
    <2>4. PICK l : l = Max(H)
      OBVIOUS
    <2>5. l \in H /\ \A y \in H : l >= y
      BY <2>2, <2>3, <2>4, MaxFact
    <2>6. l \in 1 .. n /\ Covers(s, l, i)
      BY <2>1, <2>5
    <2>7. ASSUME NEW k \in l + 1 .. n PROVE ~Covers(s, k, i)
      <3>1. k \in 1 .. n /\ ~(l >= k)
        BY <2>3, <2>6
      <3> QED BY <2>1, <2>5, <3>1
    <2>8. PICK c : c = s.data[l].d_buf[i - s.data[l].d_off]
      OBVIOUS
    <2>9. Ends(f[n].w, p + i, c)
      BY <1>1, <1>5, <2>6, <2>7, <2>8 DEF Leaves
    <2>10. Ends(w, i, c)
      <3>1. Hits(w[l], i) /\ c = w[l].cells[i - w[l].at]
        BY <1>7, <2>6, <2>8
      <3>2. \A k \in l + 1 .. n : ~Hits(w[k], i)
        <4> TAKE k \in l + 1 .. n
        <4>1. k \in 1 .. n
          BY <2>3, <2>6
        <4> QED BY <1>7, <2>7, <4>1
      <3> QED BY <1>6, <2>6, <3>1, <3>2 DEF Ends
    <2> QED BY <1>1, <1>2, <1>8, <1>9, <2>9, <2>10
  <1>11. CASE ~\E l \in 1 .. n : Covers(s, l, i)
    <2>1. Misses(w, i)
      BY <1>6, <1>7, <1>11 DEF Misses
    <2>2. p + i <= f[n].end
      BY <1>0, <1>1, <1>2
    <2>3. Ends(f[n].w, p + i, Fill)
      BY <1>1, <1>5, <1>11, <2>2 DEF Leaves
    <2> QED BY <1>1, <1>2, <1>8, <1>9, <2>1, <2>3
  <1> QED BY <1>10, <1>11

-----------------------------------------------------------------------------
(***************************************************************************)
(* What an extent writes, and what the file has there.                     *)
(***************************************************************************)
LEMMA WriteExtentClear ==
  ASSUME NEW d, Sound(d), NEW x \in Extent, x.ex_type # "ehdr", x.ex_start # 0,
         x.ex_type = "section" => /\ x.ex_scn \in 1 .. Len(d.scns)
                                  /\ x.ex_start = d.scns[x.ex_scn].s_offset
  PROVE  Clear(WriteExtent(d, x).w, x.ex_start)
  <1>0. /\ d \in Elf /\ d.phdr \in Seq(Cells) /\ d.scns \in Seq(Scn)
        /\ Len(d.scns) \in Nat /\ DOMAIN d.scns = 1 .. Len(d.scns)
    BY ElfFact DEF Sound
  <1>1. x.ex_start \in Nat \ {0} /\ x.ex_type \in {"phdr", "section", "shdr"}
    BY DEF Extent
  <1>2. CASE x.ex_type = "phdr"
    <2>1. WriteExtent(d, x).w = Write(x.ex_start, d.phdr)
      BY <1>2 DEF WriteExtent
    <2> QED BY <1>0, <1>1, <2>1, ClearMost
  <1>3. CASE x.ex_type = "section"
    <2>1. PICK s : s = d.scns[x.ex_scn]
      OBVIOUS
    <2>2. s \in Scn /\ s.s_offset = x.ex_start
      BY <1>0, <1>3, <2>1
    <2>3. WriteExtent(d, x) = IF s.data = << >> THEN WriteRaw(d, s) ELSE WriteData(s)
      BY <1>3, <2>1 DEF WriteExtent, WriteScn
    <2>4. CASE s.data = << >>
      <3>1. WriteRaw(d, s).w = Write(s.s_offset, InFile(d, s))
        BY DEF WriteRaw
      <3>2. InFile(d, s) \in Seq(Cells)
        BY <1>0, <2>2, InFileFact
      <3> QED BY <1>1, <2>2, <2>3, <2>4, <3>1, <3>2, ClearMost
    <2>5. CASE s.data # << >>
      BY <1>1, <2>2, <2>3, <2>5, WriteDataClear
    <2> QED BY <2>4, <2>5
  <1>4. CASE x.ex_type = "shdr"
    <2>1. PICK n, f : /\ n = Len(d.scns)
                      /\ f = [k \in 1 .. n |-> [at    |-> x.ex_start + d.scns[k].s_ndx,
                                                cells |-> << <<"shdr", d.scns[k].shdr>> >>]]
      OBVIOUS
    <2>2. WriteExtent(d, x).w = f /\ Len(f) = n
      <3>1. Len(f) = n
        BY <1>0, <2>1
      <3>2. WriteExtent(d, x).w = f
        BY ONLY <1>0, <1>4, <2>1 DEF WriteExtent
      <3> QED BY <3>1, <3>2
    <2>3. ASSUME NEW k \in 1 .. x.ex_start, NEW j \in 1 .. n PROVE ~Hits(f[j], k)
      <3>1. PICK c, q, off : c = <<"shdr", d.scns[j].shdr>> /\ q = d.scns[j].s_ndx /\ off = x.ex_start + q
        OBVIOUS
      <3>2. q \in Nat
        BY <1>0, <2>1, <3>1, ScnFact
      <3>3. f[j] = [at |-> off, cells |-> << c >>]
        BY <2>1, <3>1
      <3>4. ~(k - off \in 1 .. 1)
        BY <1>1, <3>1, <3>2
      <3> QED BY <3>3, <3>4 DEF Hits
    <2> QED BY <2>2, <2>3 DEF Clear, Misses
  <1> QED BY <1>1, <1>2, <1>3, <1>4

LEMMA WritesPhdr ==
  ASSUME NEW d, Sound(d), NEW x \in Extent, x.ex_type = "phdr", NEW j \in 1 .. Len(d.phdr)
  PROVE  Ends(WriteExtent(d, x).w, x.ex_start + j, d.phdr[j])
  <1>0. d.phdr \in Seq(Cells) /\ x.ex_start \in Nat
    BY ElfFact DEF Sound, Extent
  <1>1. WriteExtent(d, x).w = Write(x.ex_start, d.phdr)
    BY DEF WriteExtent
  <1>2. PICK p, k, c : p = x.ex_start /\ k = p + j /\ c = d.phdr
    OBVIOUS
  <1>3. p \in Nat /\ k - p = j /\ j \in DOMAIN c
    BY <1>0, <1>2
  <1>4. Ends(Write(p, c), k, c[k - p])
    BY <1>3, EndsOne
  <1> QED BY <1>1, <1>2, <1>3, <1>4

LEMMA WritesShdr ==
  ASSUME NEW d, Sound(d), InPlace(d), NEW x \in Extent, x.ex_type = "shdr", NEW j \in 1 .. Len(d.scns)
  PROVE  Ends(WriteExtent(d, x).w, x.ex_start + j, <<"shdr", d.scns[j].shdr>>)
  <1>0. /\ d.scns \in Seq(Scn) /\ Len(d.scns) \in Nat /\ DOMAIN d.scns = 1 .. Len(d.scns)
        /\ x.ex_start \in Nat
    BY ElfFact DEF Sound, Extent
  <1>1. PICK n, p, q, f : /\ n = Len(d.scns) /\ p = x.ex_start /\ q = p + j
                       /\ f = [k \in 1 .. n |-> [at    |-> x.ex_start + d.scns[k].s_ndx,
                                                 cells |-> << <<"shdr", d.scns[k].shdr>> >>]]
    OBVIOUS
  <1>2. WriteExtent(d, x).w = f /\ Len(f) = n
    <2>1. Len(f) = n
      BY <1>0, <1>1
    <2>2. WriteExtent(d, x).w = f
      BY <1>0, <1>1 DEF WriteExtent
    <2> QED BY <2>1, <2>2
  <1>3. ASSUME NEW k \in 1 .. n
        PROVE  /\ Hits(f[k], q) <=> k = j
               /\ f[j].cells[q - f[j].at] = <<"shdr", d.scns[j].shdr>>
    <2>1. PICK c, off : c = <<"shdr", d.scns[k].shdr>> /\ off = p + d.scns[k].s_ndx
      OBVIOUS
    <2>2. off = p + (k - 1)
      BY <1>1, <2>1 DEF InPlace
    <2>3. f[k] = [at |-> off, cells |-> << c >>]
      BY <1>1, <2>1
    <2>4. q - off \in 1 .. 1 <=> k = j
      <3>1. p \in Nat /\ k \in Nat /\ j \in Nat
        BY <1>0, <1>1
      <3>2. q - off = j - k + 1
        BY <1>1, <2>2, <3>1
      <3> QED BY ONLY <3>1, <3>2
    <2>5. PICK b, o : b = <<"shdr", d.scns[j].shdr>> /\ o = p + d.scns[j].s_ndx
      OBVIOUS
    <2>6. o = p + (j - 1)
      BY <1>1, <2>5 DEF InPlace
    <2>7. f[j] = [at |-> o, cells |-> << b >>]
      BY <1>1, <2>5
    <2>8. q - o = 1
      BY <1>0, <1>1, <2>6
    <2>9. Hits(f[k], q) <=> k = j
      <3>1. f[k].at = off /\ DOMAIN f[k].cells = 1 .. 1
        BY <2>3
      <3>2. Hits(f[k], q) <=> q - off \in 1 .. 1
        BY ONLY <3>1 DEF Hits
      <3> QED BY ONLY <2>4, <3>2
    <2>10. f[j].at = o /\ f[j].cells[1] = b
      BY <2>7
    <2> QED BY <2>5, <2>8, <2>9, <2>10
  <1>4. ASSUME NEW k \in j + 1 .. n PROVE ~Hits(f[k], q)
    <2>1. k \in 1 .. n /\ k # j
      BY <1>0, <1>1
    <2> QED BY <1>3, <2>1
  <1>5. Hits(f[j], q) /\ j \in 1 .. n
    BY <1>1, <1>3
  <1>6. Ends(f, q, <<"shdr", d.scns[j].shdr>>)
    <2>1. PICK c : c = <<"shdr", d.scns[j].shdr>>
      OBVIOUS
    <2>2. c = f[j].cells[q - f[j].at]
      BY <1>3, <1>5, <2>1
    <2>3. Ends(f, q, c)
      <3>1. j \in 1 .. Len(f) /\ \A m \in j + 1 .. Len(f) : ~Hits(f[m], q)
        BY <1>2, <1>4, <1>5
      <3> QED BY ONLY <1>5, <2>2, <3>1, Zenon DEF Ends
    <2> QED BY <2>1, <2>3
  <1> QED BY <1>1, <1>2, <1>6

\* What is read of the section when it is opened, is written.
LEMMA WritesScn ==
  ASSUME NEW d, Sound(d), NEW x \in Extent, x.ex_type = "section",
         NEW s, s = d.scns[x.ex_scn], x.ex_scn \in 1 .. Len(d.scns), s.s_offset # 0,
         s.shdr.sh_type = "bits", ~FilledOver(s),
         WriteExtent(d, x).end = s.s_offset + s.shdr.sh_size, NEW j \in 1 .. s.shdr.sh_size
  PROVE  Ends(WriteExtent(d, x).w, s.s_offset + j, Contents(d, s)[j])
  <1>0. /\ d \in Elf /\ s \in Scn /\ s.s_offset \in Nat \ {0} /\ s.shdr.sh_size \in Nat
        /\ s.data \in Seq(Buffer) /\ DOMAIN s.data = 1 .. Len(s.data)
    <2>1. d \in Elf /\ d.scns \in Seq(Scn)
      BY ElfFact DEF Sound
    <2>2. s \in Scn
      BY <2>1
    <2> QED BY <2>1, <2>2, ScnFact, ShdrFact
  <1>1. s.shdr.sh_size # 0
    BY <1>0
  <1>2. WriteExtent(d, x) = IF s.data = << >> THEN WriteRaw(d, s) ELSE WriteData(s)
    BY DEF WriteExtent, WriteScn
  <1>3. CASE s.data = << >>
    <2>1. PICK cells, n : cells = InFile(d, s) /\ n = s.shdr.sh_size
      OBVIOUS
    <2>2. WriteExtent(d, x).w = Write(s.s_offset, cells)
      BY <1>2, <1>3, <2>1 DEF WriteRaw
    <2>3. Contents(d, s) = cells
      BY <1>1, <1>3, <2>1 DEF Contents
    <2>4. cells \in Seq(Cells) /\ Len(cells) = n
      BY <1>0, <2>1, InFileFact
    <2>5. PICK p, k : p = s.s_offset /\ k = p + j
      OBVIOUS
    <2>6. p \in Nat /\ k - p = j /\ j \in DOMAIN cells
      <3>1. p \in Nat /\ n \in Nat /\ j \in 1 .. n
        BY <1>0, <2>1, <2>5
      <3> QED BY ONLY <2>4, <2>5, <3>1
    <2>7. Ends(Write(p, cells), k, cells[k - p])
      BY <2>6, EndsOne
    <2> QED BY <2>2, <2>3, <2>5, <2>6, <2>7
  <1>4. CASE s.data # << >>
    <2>1. PICK n, w : /\ n = s.shdr.sh_size
                      /\ w = [k \in DOMAIN s.data |-> [at |-> s.data[k].d_off, cells |-> s.data[k].d_buf]]
      OBVIOUS
    <2>2. Contents(d, s) = Image(w, n, Fill)
      BY <1>1, <1>4, <2>1 DEF Contents
    <2>3. Unfilled(s)
      BY <1>0 DEF FilledOver, Unfilled
    <2>4. n \in Nat /\ j \in 1 .. n /\ WriteData(s).end = s.s_offset + n
      BY <1>0, <1>2, <1>4, <2>1
    <2>5. Ends(WriteData(s).w, s.s_offset + j, Image(w, n, Fill)[j])
      BY <1>0, <2>1, <2>3, <2>4, WriteDataShows
    <2> QED BY <1>2, <1>4, <2>2, <2>5
  <1> QED BY <1>3, <1>4

\* A layout that is written: no extent was refused.
Written(at) == Good(at, Len(at.d.scns)) /\ at.says = "ok" /\ Stopped(at) = "ok"

LEMMA ExtentWritten ==
  ASSUME NEW at, Written(at), NEW k \in 1 .. Len(at.ext), NEW x, x = at.ext[k]
  PROVE  /\ x \in Extent /\ x \in Elements(at.ext) /\ x.ex_start \in Nat /\ EndOf(x) \in Nat
         /\ x.ex_start < EndOf(x) /\ EndOf(x) <= at.rc
         /\ WriteExtent(at.d, x).end = EndOf(x)
         /\ x.ex_type = "phdr" => "phdr" \in at.d.has
         /\ x.ex_type = "section" => /\ x.ex_scn \in 1 .. Len(at.d.scns)
                                     /\ x.ex_start = at.d.scns[x.ex_scn].s_offset
         /\ k # 1 => x.ex_start # 0 /\ x.ex_type # "ehdr"
         /\ k = 1 => x = ExtentOf("ehdr", 0, 1, 0)
  <1>0. /\ at \in Ats /\ at.ext \in Seq(Extent) /\ Len(at.ext) \in Nat
        /\ Ordered(at.ext) /\ ExtentOf("ehdr", 0, 1, 0) \in Elements(at.ext)
        /\ Sections(at, Len(at.d.scns)) /\ \A y \in Elements(at.ext) : EndOf(y) <= at.rc
    BY AtsFact DEF Written, Good, Ordering
  <1>1. x \in Extent /\ x \in Elements(at.ext)
    BY <1>0 DEF Elements
  <1>2. x.ex_start \in Nat /\ EndOf(x) \in Nat /\ x.ex_start < EndOf(x)
    BY <1>1, ExtentFact
  <1>3. ExtentSays(at, k) = "ok"
    BY <1>0, StoppedFact DEF Written
  <1>4. WriteExtent(at.d, x).end = EndOf(x) /\ (x.ex_type = "phdr" => "phdr" \in at.d.has)
    <2>1. x.ex_type = "section" => RawRefused(at.d, at.d.scns[x.ex_scn]) = "ok"
      BY <1>3 DEF ExtentSays
    <2> QED BY <1>3, <2>1 DEF ExtentSays
  <1>5. /\ at.ext[1] = ExtentOf("ehdr", 0, 1, 0)
        /\ \A j \in 2 .. Len(at.ext) : at.ext[j].ex_start # 0
    BY <1>0, FirstExtent
  <1>6. ASSUME k # 1 PROVE x.ex_start # 0 /\ x.ex_type # "ehdr"
    <2>1. x.ex_start # 0
      <3>1. k \in 2 .. Len(at.ext)
        BY <1>0, <1>6
      <3> QED BY <1>5, <3>1
    <2>2. x.ex_type = "ehdr" => WriteExtent(at.d, x).end = 1
      BY DEF WriteExtent
    <2> QED BY <1>2, <1>4, <2>1, <2>2
  <1> QED BY <1>0, <1>1, <1>2, <1>4, <1>5, <1>6 DEF Sections

\* What comes later leaves what is in front of it.
LEMMA LaterClear ==
  ASSUME NEW at, Written(at), NEW i \in 1 .. Len(at.ext), NEW m \in i + 1 .. Len(at.ext)
  PROVE  Clear(Filled(at, m), EndOf(at.ext[i]))
  <1>0. /\ at \in Ats /\ at.ext \in Seq(Extent) /\ Len(at.ext) \in Nat /\ Ordered(at.ext)
        /\ Sound(at.d)
    BY AtsFact DEF Written, Good, Ordering
  <1>1. /\ m \in 2 .. Len(at.ext) /\ m \in 1 .. Len(at.ext) /\ m - 1 \in 1 .. Len(at.ext) /\ m # 1
        /\ i <= m - 1
    BY <1>0
  <1>2. PICK x, y, z : x = at.ext[i] /\ y = at.ext[m - 1] /\ z = at.ext[m]
    OBVIOUS
  <1>3. /\ x.ex_start \in Nat /\ EndOf(x) \in Nat /\ x.ex_start < EndOf(x)
        /\ y.ex_start \in Nat /\ EndOf(y) \in Nat /\ y.ex_start < EndOf(y)
    <2>1. x.ex_start \in Nat /\ EndOf(x) \in Nat /\ x.ex_start < EndOf(x)
      BY ONLY Written(at), i \in 1 .. Len(at.ext), <1>2, ExtentWritten
    <2>2. y.ex_start \in Nat /\ EndOf(y) \in Nat /\ y.ex_start < EndOf(y)
      BY ONLY Written(at), <1>1, <1>2, ExtentWritten
    <2> QED BY <2>1, <2>2
  <1>4. /\ z \in Extent /\ z.ex_start \in Nat /\ z.ex_start # 0 /\ z.ex_type # "ehdr"
        /\ z.ex_type = "section" => /\ z.ex_scn \in 1 .. Len(at.d.scns)
                                    /\ z.ex_start = at.d.scns[z.ex_scn].s_offset
    <2>1. z \in Extent /\ z.ex_start \in Nat /\ z.ex_start # 0 /\ z.ex_type # "ehdr"
      BY ONLY Written(at), <1>1, <1>2, ExtentWritten
    <2>2. z.ex_type = "section" => /\ z.ex_scn \in 1 .. Len(at.d.scns)
                                   /\ z.ex_start = at.d.scns[z.ex_scn].s_offset
      BY ONLY Written(at), <1>1, <1>2, ExtentWritten
    <2> QED BY <2>1, <2>2
  <1>5. EndOf(x) <= EndOf(y)
    <2>1. CASE i = m - 1
      BY <1>2, <1>3, <2>1
    <2>2. CASE i # m - 1
      <3>1. i < m - 1
        BY <1>0, <1>1, <2>2
      <3>2. Before(x, y)
        BY <1>0, <1>1, <1>2, <3>1 DEF Ordered
      <3> QED BY <1>3, <3>2 DEF Before
    <2> QED BY <2>1, <2>2
  <1>6. EndOf(y) <= z.ex_start
    <2>1. Before(y, z)
      BY <1>0, <1>1, <1>2 DEF Ordered
    <2> QED BY <2>1 DEF Before
  <1>7. PICK p, g, w : p = EndOf(x) /\ g = Gap(EndOf(y), z.ex_start) /\ w = WriteExtent(at.d, z).w
    OBVIOUS
  <1>8. g \in Seq(Cut) /\ w \in Seq(Cut) /\ Filled(at, m) = g \o w
    BY <1>1, <1>2, <1>7, FilledFact DEF Written
  <1>9. Clear(g, p)
    BY <1>3, <1>4, <1>5, <1>7, ClearGap
  <1>10. Clear(w, p)
    <2>1. Clear(w, z.ex_start)
      BY <1>0, <1>4, <1>7, WriteExtentClear
    <2>2. \A k \in 1 .. p : k \in 1 .. z.ex_start
      BY <1>3, <1>4, <1>5, <1>6, <1>7
    <2> QED BY <2>1, <2>2 DEF Clear
  <1>11. Clear(g \o w, p)
    BY <1>8, <1>9, <1>10, ClearBoth
  <1> QED BY <1>2, <1>7, <1>8, <1>11

\* What an extent leaves in a cell of its own is what the file has there.
LEMMA FileHas ==
  ASSUME NEW at, Written(at), NEW x \in Elements(at.ext), NEW k \in Nat,
         x.ex_start < k, k <= EndOf(x), NEW c, Ends(WriteExtent(at.d, x).w, k, c)
  PROVE  NewFile(at)[k] = c /\ k \in 1 .. at.rc
  <1>0. /\ at \in Ats /\ at.ext \in Seq(Extent) /\ Len(at.ext) \in Nat /\ at.rc \in Nat
        /\ DOMAIN at.ext = 1 .. Len(at.ext)
    BY AtsFact DEF Written, Good
  <1>1. PICK n, i : n = Len(at.ext) /\ i \in 1 .. n /\ x = at.ext[i]
    BY <1>0 DEF Elements
  <1>2. x.ex_start \in Nat /\ EndOf(x) \in Nat /\ EndOf(x) <= at.rc
    BY <1>1, ExtentWritten
  <1>3. k \in 1 .. at.rc /\ k \in 1 .. EndOf(x)
    BY <1>0, <1>2
  <1>4. PICK parts : parts = [j \in DOMAIN at.ext |-> Filled(at, j)]
    OBVIOUS
  <1>5. \A j \in 1 .. n : Filled(at, j) \in Seq(Cut)
    BY <1>1, FilledFact DEF Written
  <1>6. parts \in Seq(Seq(Cut)) /\ Len(parts) = n /\ \A j \in 1 .. n : parts[j] = Filled(at, j)
    <2>1. parts = [j \in 1 .. n |-> Filled(at, j)]
      BY <1>0, <1>1, <1>4
    <2>2. parts \in [1 .. n -> Seq(Cut)]
      BY <1>5, <2>1
    <2> QED BY <1>0, <1>1, <2>1, <2>2
  <1>7. Ends(parts[i], k, c)
    <2>1. CASE i = 1
      <3>1. PICK w1 : w1 = << <<"ehdr", at.d.ehdr>> >>
        OBVIOUS
      <3>2. Filled(at, 1) = << [at |-> 0, cells |-> << <<"ehdr", at.d.ehdr>> >>] >>
        BY FilledFact, Zenon DEF Written
      <3>3. x = ExtentOf("ehdr", 0, 1, 0)
        BY <1>1, <2>1, ExtentWritten
      <3>4. WriteExtent(at.d, x).w = Write(0, w1)
        BY <3>1, <3>3 DEF WriteExtent, ExtentOf
      <3>5. Filled(at, 1) = WriteExtent(at.d, x).w
        BY <3>1, <3>2, <3>4 DEF Write
      <3> QED BY <1>1, <1>6, <2>1, <3>5
    <2>2. CASE i # 1
      <3>1. i \in 2 .. Len(at.ext)
        BY <1>0, <1>1, <2>2
      <3>2. PICK g, w : g = Gap(EndOf(at.ext[i - 1]), at.ext[i].ex_start) /\ w = WriteExtent(at.d, at.ext[i]).w
        OBVIOUS
      <3>3. g \in Seq(Cut) /\ w \in Seq(Cut) /\ Filled(at, i) = g \o w
        BY <3>1, <3>2, FilledFact DEF Written
      <3>4. Ends(g \o w, k, c)
        BY <1>1, <3>2, <3>3, EndsBehind
      <3> QED BY <1>1, <1>6, <3>3, <3>4
    <2> QED BY <2>1, <2>2
  <1>8. \A j \in i + 1 .. n : Misses(parts[j], k)
    <2> SUFFICES ASSUME NEW j \in i + 1 .. n PROVE Misses(parts[j], k)
      OBVIOUS
    <2>1. Clear(Filled(at, j), EndOf(x))
      BY <1>1, LaterClear
    <2>2. j \in 1 .. n
      BY <1>0, <1>1
    <2> QED BY <1>3, <1>6, <2>1, <2>2 DEF Clear
  <1>9. PICK w : w = FlattenSeq(parts)
    OBVIOUS
  <1>10. Ends(w, k, c)
    BY <1>1, <1>6, <1>7, <1>8, <1>9, FlattenEnds
  <1>11. w \in Seq(Cut)
    BY <1>6, <1>9, FlattenFact
  <1>12. NewFile(at) = Image(w, at.rc, Junk)
    BY <1>4, <1>9 DEF NewFile
  <1>13. Image(w, at.rc, Junk)[k] = c
    BY <1>0, <1>3, <1>10, <1>11, ImageAt
  <1> QED BY <1>3, <1>12, <1>13

-----------------------------------------------------------------------------
(***************************************************************************)
(* What the file has of a descriptor without flaws.                        *)
(***************************************************************************)
HasPhdrs(d, f) ==
    d.e_nphdr # 0 => /\ Len(d.phdr) = d.e_nphdr /\ d.ehdr.e_phoff + d.e_nphdr <= Len(f)
                     /\ \A j \in 1 .. d.e_nphdr : f[d.ehdr.e_phoff + j] = d.phdr[j]

HasShdrs(d, f) ==
    d.e_nscn # 0 =>
        /\ d.ehdr.e_shoff # 0 /\ d.ehdr.e_shoff + d.e_nscn <= Len(f)
        /\ \A j \in 1 .. d.e_nscn : f[d.ehdr.e_shoff + j] = <<"shdr", d.scns[j].shdr>>

HasContents(d, f, i) ==
    LET s == d.scns[i]
    IN  s.shdr.sh_type = "bits" /\ s.shdr.sh_size # 0 /\ ~(i = 1 /\ d.e_nscn >= LoReserve) =>
            /\ s.shdr.sh_offset + s.shdr.sh_size <= Len(f)
            /\ \A j \in 1 .. s.shdr.sh_size : f[s.shdr.sh_offset + j] = Contents(d, s)[j]

Agrees(d, f) ==
    /\ Len(f) >= 1 /\ f[1] = <<"ehdr", d.ehdr>>
    /\ HasPhdrs(d, f) /\ HasShdrs(d, f)
    /\ \A i \in 1 .. Len(d.scns) : HasContents(d, f, i)

LEMMA PlacedExtent ==
  ASSUME NEW at, Written(at), NEW x \in Elements(at.ext)
  PROVE  /\ x \in Extent /\ x.ex_start \in Nat /\ EndOf(x) \in Nat /\ EndOf(x) <= at.rc
         /\ WriteExtent(at.d, x).end = EndOf(x)
         /\ x.ex_type = "phdr" => "phdr" \in at.d.has
         /\ x.ex_type = "section" => /\ x.ex_scn \in 1 .. Len(at.d.scns)
                                     /\ x.ex_start = at.d.scns[x.ex_scn].s_offset
         /\ x.ex_type # "ehdr" => x.ex_start # 0
  <1>0. at.ext \in Seq(Extent) /\ DOMAIN at.ext = 1 .. Len(at.ext)
    BY AtsFact DEF Written, Good
  <1>1. PICK k \in 1 .. Len(at.ext) : x = at.ext[k]
    BY <1>0 DEF Elements
  <1>2. k = 1 => x.ex_type = "ehdr"
    BY <1>1, ExtentWritten DEF ExtentOf
  <1>3. x.ex_type # "ehdr" => x.ex_start # 0
    BY <1>1, <1>2, ExtentWritten
  <1>4. x \in Extent /\ x.ex_start \in Nat /\ EndOf(x) \in Nat /\ EndOf(x) <= at.rc
    BY <1>1, ExtentWritten
  <1>5. WriteExtent(at.d, x).end = EndOf(x)
    BY <1>1, ExtentWritten
  <1>6. /\ x.ex_type = "phdr" => "phdr" \in at.d.has
        /\ x.ex_type = "section" => /\ x.ex_scn \in 1 .. Len(at.d.scns)
                                    /\ x.ex_start = at.d.scns[x.ex_scn].s_offset
    BY <1>1, ExtentWritten
  <1> QED BY <1>3, <1>4, <1>5, <1>6

LEMMA FileAgrees ==
  ASSUME NEW at, Written(at), TidyIn(at.d, at.rc, at.ext), ~Forgotten(at.d),
         \A i \in DOMAIN at.d.scns : ~FilledOver(at.d.scns[i])
  PROVE  Agrees(at.d, NewFile(at))
  <1>0. /\ at \in Ats /\ Sound(at.d) /\ at.d \in Elf /\ at.ext \in Seq(Extent) /\ at.rc \in Nat
        /\ Len(NewFile(at)) = at.rc /\ at.d.scns \in Seq(Scn) /\ Len(at.d.scns) \in Nat
        /\ DOMAIN at.d.scns = 1 .. Len(at.d.scns) /\ at.d.ehdr \in Ehdr
        /\ at.d.e_nscn \in Nat /\ at.d.e_nphdr \in Nat
    <2>1. /\ at \in Ats /\ Sound(at.d) /\ at.d \in Elf /\ at.ext \in Seq(Extent) /\ at.rc \in Nat
          /\ Len(NewFile(at)) = at.rc
      BY AtsFact, NewFileFact DEF Written, Good
    <2> QED BY <2>1, ElfFact
  <1>1. PICK d, f, n : d = at.d /\ f = NewFile(at) /\ n = Len(d.scns)
    OBVIOUS
  <1>2. at.d.ehdr.e_phoff \in Nat /\ at.d.ehdr.e_shoff \in Nat
    BY <1>0 DEF Ehdr
  <1>3. Len(f) >= 1 /\ f[1] = <<"ehdr", d.ehdr>>
    <2>1. PICK x, c : x = ExtentOf("ehdr", 0, 1, 0) /\ c = <<"ehdr", at.d.ehdr>>
      OBVIOUS
    <2>2. x \in Elements(at.ext)
      BY <2>1 DEF TidyIn
    <2>3. x.ex_start = 0 /\ EndOf(x) = 1 /\ WriteExtent(at.d, x).w = Write(0, << c >>)
      BY <2>1 DEF ExtentOf, EndOf, WriteExtent
    <2>4. PICK k : k = 1
      OBVIOUS
    <2>5. k - 0 \in DOMAIN << c >> /\ << c >>[k - 0] = c /\ k \in Nat /\ 0 < k /\ k <= 1
      BY <2>4
    <2>6. Ends(WriteExtent(at.d, x).w, k, c)
      BY <2>3, <2>5, EndsOne
    <2>7. NewFile(at)[k] = c /\ k \in 1 .. at.rc
      BY <2>2, <2>3, <2>5, <2>6, FileHas
    <2> QED BY <1>0, <1>1, <2>1, <2>4, <2>7
  <1>4. HasPhdrs(d, f)
    <2> SUFFICES ASSUME d.e_nphdr # 0
                 PROVE  /\ Len(d.phdr) = d.e_nphdr /\ d.ehdr.e_phoff + d.e_nphdr <= Len(f)
                        /\ \A j \in 1 .. d.e_nphdr : f[d.ehdr.e_phoff + j] = d.phdr[j]
      BY DEF HasPhdrs
    <2>1. PICK x, p, m : x = ExtentOf("phdr", p, m, 0) /\ p = d.ehdr.e_phoff /\ m = d.e_nphdr
      OBVIOUS
    <2>2. x \in Elements(at.ext)
      BY <1>1, <2>1 DEF TidyIn
    <2>3. x.ex_type = "phdr" /\ x.ex_start = p /\ EndOf(x) = p + m
      BY <2>1 DEF ExtentOf, EndOf
    <2>4. x \in Extent /\ EndOf(x) <= at.rc /\ "phdr" \in at.d.has
      BY <2>2, <2>3, PlacedExtent
    <2>5. Len(d.phdr) = m
      BY <1>0, <1>1, <2>1, <2>4 DEF Sound, Unread, Counted
    <2>6. ASSUME NEW j \in 1 .. m PROVE f[p + j] = d.phdr[j]
      <3>1. PICK k, c : k = p + j /\ c = d.phdr[j]
        OBVIOUS
      <3>2. k \in Nat /\ p < k /\ k <= p + m
        BY <1>0, <1>1, <1>2, <2>1, <3>1
      <3>3. Ends(WriteExtent(at.d, x).w, k, c)
        BY <1>0, <1>1, <2>3, <2>4, <2>5, <3>1, WritesPhdr
      <3>4. NewFile(at)[k] = c
        BY <2>2, <2>3, <3>2, <3>3, FileHas
      <3> QED BY <1>1, <3>1, <3>4
    <2> QED BY <1>0, <1>1, <2>1, <2>3, <2>4, <2>5, <2>6
  <1>5. HasShdrs(d, f)
    <2> SUFFICES ASSUME d.e_nscn # 0
                 PROVE  /\ d.ehdr.e_shoff # 0 /\ d.ehdr.e_shoff + d.e_nscn <= Len(f)
                        /\ \A j \in 1 .. d.e_nscn : f[d.ehdr.e_shoff + j] = <<"shdr", d.scns[j].shdr>>
      BY DEF HasShdrs
    <2>1. PICK x, p, m : x = ExtentOf("shdr", p, m, 0) /\ p = d.ehdr.e_shoff /\ m = d.e_nscn
      OBVIOUS
    <2>2. x \in Elements(at.ext)
      BY <1>1, <2>1 DEF TidyIn
    <2>3. x.ex_type = "shdr" /\ x.ex_start = p /\ EndOf(x) = p + m
      BY <2>1 DEF ExtentOf, EndOf
    <2>4. x \in Extent /\ EndOf(x) <= at.rc /\ x.ex_start # 0
      BY <2>2, <2>3, PlacedExtent
    <2>5. m <= n /\ InPlace(at.d)
      BY <1>0, <1>1, <2>1 DEF Forgotten, Sound, Numbering
    <2>6. ASSUME NEW j \in 1 .. m PROVE f[p + j] = <<"shdr", d.scns[j].shdr>>
      <3>1. PICK k : k = p + j
        OBVIOUS
      <3>2. PICK c : c = <<"shdr", d.scns[j].shdr>>
        OBVIOUS
      <3>3. p \in Nat /\ m \in Nat /\ n \in Nat
        BY <1>0, <1>1, <1>2, <2>1
      <3>4. k \in Nat /\ p < k /\ k <= p + m /\ j \in 1 .. n
        BY <2>5, <3>1, <3>3
      <3>5. Ends(WriteExtent(at.d, x).w, x.ex_start + j, <<"shdr", at.d.scns[j].shdr>>)
        BY <1>0, <1>1, <2>3, <2>4, <2>5, <3>4, WritesShdr
      <3>6. Ends(WriteExtent(at.d, x).w, k, c)
        BY <1>1, <2>3, <3>1, <3>2, <3>5
      <3>7. x.ex_start < k /\ k <= EndOf(x)
        BY <2>3, <3>4
      <3>8. NewFile(at)[k] = c
        BY ONLY Written(at), <2>2, <3>4, <3>6, <3>7, FileHas
      <3> QED BY <1>1, <3>1, <3>2, <3>8
    <2> QED BY <1>0, <1>1, <2>1, <2>3, <2>4, <2>6
  <1>6. ASSUME NEW i \in 1 .. n PROVE HasContents(d, f, i)
    <2>1. PICK s, p, m : s = d.scns[i] /\ p = s.shdr.sh_offset /\ m = s.shdr.sh_size
      OBVIOUS
    <2> SUFFICES ASSUME s.shdr.sh_type = "bits", m # 0, ~(i = 1 /\ d.e_nscn >= LoReserve)
                 PROVE  p + m <= Len(f) /\ \A j \in 1 .. m : f[p + j] = Contents(d, s)[j]
      BY <2>1 DEF HasContents
    <2>2. PICK x : x = ExtentOf("section", p, m, i)
      OBVIOUS
    <2>3. HasRoom(s, i, at.ext)
      BY <1>1, <2>1 DEF TidyIn
    <2>4. x \in Elements(at.ext)
      BY <2>1, <2>2, <2>3 DEF HasRoom
    <2>5. x.ex_type = "section" /\ x.ex_start = p /\ EndOf(x) = p + m /\ x.ex_scn = i
      BY <2>2 DEF ExtentOf, EndOf
    <2>6. /\ x \in Extent /\ EndOf(x) <= at.rc /\ p # 0 /\ p = s.s_offset
          /\ WriteExtent(at.d, x).end = p + m
      BY <1>1, <2>1, <2>4, <2>5, PlacedExtent
    <2>7. p \in Nat /\ m \in Nat
      <3>1. s \in Scn
        BY <1>0, <1>1, <2>1
      <3> QED BY <2>1, <3>1, ScnFact, ShdrFact
    <2>8. ASSUME NEW j \in 1 .. m PROVE f[p + j] = Contents(d, s)[j]
      <3>1. PICK k, c : k = p + j /\ c = Contents(d, s)[j]
        OBVIOUS
      <3>2. k \in Nat /\ p < k /\ k <= p + m
        BY <2>7, <3>1
      <3>3. ~FilledOver(s)
        BY <1>0, <1>1, <2>1
      <3>4. Ends(WriteExtent(at.d, x).w, s.s_offset + j, Contents(at.d, s)[j])
        BY <1>0, <1>1, <2>1, <2>5, <2>6, <3>3, WritesScn
      <3>5. Ends(WriteExtent(at.d, x).w, k, c)
        BY <1>1, <2>6, <3>1, <3>4
      <3>6. x.ex_start < k /\ k <= EndOf(x)
        BY <2>5, <3>2
      <3>7. NewFile(at)[k] = c
        BY ONLY Written(at), <2>4, <3>2, <3>5, <3>6, FileHas
      <3> QED BY <1>1, <3>1, <3>7
    <2> QED BY <1>0, <1>1, <2>5, <2>6, <2>8
  <1> QED BY <1>1, <1>3, <1>4, <1>5, <1>6 DEF Agrees

-----------------------------------------------------------------------------
(***************************************************************************)
(* The file, opened anew.                                                  *)
(***************************************************************************)
\* A descriptor whose numbers were set, with nothing Flaws names.
Flawless(d) ==
    /\ Sound(d) /\ PhnumStands(d) /\ ShnumStands(d) /\ ~Forgotten(d) /\ ~HalfExtended(d)
    /\ ~(d.e_nscn >= LoReserve /\ Misread(d)) /\ ~Nowhere(d)

HeadOf(d, f, r) ==
    /\ r \in Elf /\ r.e_cmd = "READ" /\ r.raw = f /\ r.ehdr = d.ehdr
    /\ r.e_nscn = d.e_nscn /\ r.e_nphdr = d.e_nphdr
    /\ r.phdr = << >> /\ r.has = {"class", "raw", "ehdr"}
    /\ r.scns = IF d.e_nscn >= LoReserve THEN << NewScn(0, d.scns[1].shdr) >> ELSE << >>

\* The cases _libelf_ehdr tells apart.
LEMMA NumbersTold ==
  ASSUME NEW d, Flawless(d), NEW f, Agrees(d, f)
  PROVE  /\ d.ehdr.e_shnum < LoReserve
         /\ d.ehdr.e_shoff = 0 => d.e_nscn = 0 /\ d.ehdr.e_shnum = 0 /\ d.ehdr.e_phnum # PnXnum
         /\ d.e_nscn >= LoReserve <=>
                (d.ehdr.e_shnum = 0 /\ d.ehdr.e_shoff # 0) \/ d.ehdr.e_phnum = PnXnum
         /\ d.e_nscn < LoReserve => d.ehdr.e_shnum = d.e_nscn /\ d.ehdr.e_phnum = d.e_nphdr
         /\ d.e_nscn >= LoReserve =>
                /\ d.e_nscn # 0 /\ d.scns # << >> /\ d.scns[1].shdr.sh_type = "null"
                /\ d.scns[1].shdr.sh_size = d.e_nscn
                /\ d.e_nphdr = IF d.ehdr.e_phnum # PnXnum THEN d.ehdr.e_phnum
                               ELSE d.scns[1].shdr.sh_info
  <1>0. /\ d \in Elf /\ d.ehdr \in Ehdr /\ d.e_nscn \in Nat /\ d.e_nphdr \in Nat
        /\ LoReserve \in Nat \ {0} /\ PnXnum \in Nat \ {0}
    BY ElfFact, Constants DEF Flawless, Sound
  <1>1. d.ehdr.e_shnum \in Nat /\ d.ehdr.e_phnum \in Nat /\ d.ehdr.e_shoff \in Nat
    BY <1>0 DEF Ehdr
  <1>2. d.e_nscn # 0 => d.ehdr.e_shoff # 0
    BY DEF Agrees, HasShdrs
  <1>3. d.e_nscn = 0 => d.ehdr.e_shoff = 0
    BY DEF Flawless, Nowhere
  <1>4. CASE d.e_nscn < LoReserve
    <2>1. d.ehdr.e_shnum = d.e_nscn
      BY <1>4 DEF Flawless, ShnumStands
    <2>2. d.e_nphdr < PnXnum
      BY <1>0, <1>4 DEF Flawless, HalfExtended
    <2>3. d.ehdr.e_phnum = d.e_nphdr
      BY <2>2 DEF Flawless, PhnumStands
    <2> QED BY <1>0, <1>1, <1>2, <1>3, <1>4, <2>1, <2>2, <2>3
  <1>5. CASE ~(d.e_nscn < LoReserve)
    <2>1. d.ehdr.e_shnum = 0 /\ d.scns # << >> /\ d.scns[1].shdr.sh_size = d.e_nscn
      BY <1>5 DEF Flawless, ShnumStands
    <2>2. d.e_nscn # 0 /\ d.e_nscn >= LoReserve
      BY <1>0, <1>5
    <2>3. d.scns[1].shdr.sh_type = "null"
      BY <2>1, <2>2 DEF Flawless, Misread
    <2>4. d.e_nphdr = IF d.ehdr.e_phnum # PnXnum THEN d.ehdr.e_phnum ELSE d.scns[1].shdr.sh_info
      <3>1. CASE d.e_nphdr < PnXnum
        <4>1. d.ehdr.e_phnum = d.e_nphdr
          BY <3>1 DEF Flawless, PhnumStands
        <4> QED BY <1>0, <3>1, <4>1
      <3>2. CASE ~(d.e_nphdr < PnXnum)
        BY <3>2 DEF Flawless, PhnumStands
      <3> QED BY <3>1, <3>2
    <2> QED BY <1>0, <1>1, <1>2, <2>1, <2>2, <2>3, <2>4
  <1> QED BY <1>4, <1>5

LEMMA ReadsHeader ==
  ASSUME NEW d, Flawless(d), NEW f \in Seq(Cells), Agrees(d, f), NEW r, r = Fresh("READ", FALSE, f)
  PROVE  WithEhdr(r).says = "ok" /\ HeadOf(d, f, WithEhdr(r).d)
  <1>0. /\ d \in Elf /\ d.ehdr \in Ehdr /\ d.e_nscn \in Nat /\ d.e_nphdr \in Nat
        /\ d.scns \in Seq(Scn)
    BY ElfFact DEF Flawless, Sound
  <1>1. /\ r \in Elf /\ r.e_cmd = "READ" /\ r.raw = f /\ r.phdr = << >> /\ r.scns = << >>
        /\ r.has = {"class", "raw"}
    <2>1. /\ << >> \in Seq(Cells) /\ << >> \in Seq(Scn) /\ Blank \in Ehdr
          /\ {"class", "raw"} \in SUBSET {"class", "ehdr", "phdr", "shdrs", "raw", "LAYOUT"}
      BY NoHeaders
    <2> QED BY <2>1 DEF Fresh, Elf
  <1>2. PICK h : h = d.ehdr
    OBVIOUS
  <1>3. f # << >> /\ CellAt(r.raw, 0)[2] = h
    <2>1. f[1] = <<"ehdr", h>> /\ Len(f) >= 1
      BY <1>2 DEF Agrees
    <2>2. f[1][2] = h
      BY <2>1
    <2>3. CellAt(r.raw, 0) = f[1]
      <3>1. r.raw = f
        BY <1>1
      <3> QED BY ONLY <3>1 DEF CellAt
    <2>4. f # << >>
      BY <2>1
    <2> QED BY <2>2, <2>3, <2>4
  <1>4. PICK g : g = {"class", "raw", "ehdr"}
    OBVIOUS
  <1>5. PICK w : w = [r EXCEPT !.has = g, !.ehdr = h]
    OBVIOUS
  <1>6. [Gains(r, "ehdr") EXCEPT !.ehdr = h] = w
    <2>1. r.has \cup {"ehdr"} = g
      BY <1>1, <1>4
    <2>2. Gains(r, "ehdr") = [r EXCEPT !.has = g]
      BY <1>1, <2>1 DEF Gains, Elf
    <2> QED BY <1>1, <1>5, <2>2 DEF Elf
  <1>7. /\ w \in Elf /\ w.e_cmd = "READ" /\ w.raw = f /\ w.phdr = << >> /\ w.scns = << >>
        /\ w.has = g /\ w.ehdr = h
    <2>1. h \in Ehdr /\ g \in SUBSET {"class", "ehdr", "phdr", "shdrs", "raw", "LAYOUT"}
      BY <1>0, <1>2, <1>4
    <2> QED BY <1>1, <1>5, <2>1 DEF Elf
  <1>8. WithEhdr(r) = ReadEhdr(r)
    BY <1>1, <1>3 DEF WithEhdr
  <1>9. /\ ~(h.e_shnum >= LoReserve) /\ ~(h.e_shoff = 0 /\ (h.e_shnum # 0 \/ h.e_phnum = PnXnum))
        /\ d.e_nscn >= LoReserve <=> (h.e_shnum = 0 /\ h.e_shoff # 0) \/ h.e_phnum = PnXnum
        /\ ~(d.e_nscn >= LoReserve) => h.e_shnum = d.e_nscn /\ h.e_phnum = d.e_nphdr
    <2>1. h.e_shnum \in Nat /\ LoReserve \in Nat
      BY <1>0, <1>2, Constants DEF Ehdr
    <2> QED BY <1>0, <1>2, <2>1, NumbersTold
  <1>10. CASE d.e_nscn >= LoReserve
    <2>1. WithEhdr(r) = LoadExtended(w, h)
      BY <1>3, <1>6, <1>8, <1>9, <1>10 DEF ReadEhdr
    <2>2. PICK zero : zero = d.scns[1].shdr
      OBVIOUS
    <2>3. /\ d.e_nscn # 0 /\ d.scns # << >> /\ zero.sh_type = "null" /\ zero.sh_size = d.e_nscn
          /\ d.e_nphdr = IF h.e_phnum # PnXnum THEN h.e_phnum ELSE zero.sh_info
      BY <1>2, <1>10, <2>2, NumbersTold
    <2>4. ShdrAt(f, h.e_shoff) = zero /\ h.e_shoff + 1 <= Len(f)
      <3>1. /\ h.e_shoff + d.e_nscn <= Len(f) /\ 1 \in 1 .. d.e_nscn
            /\ f[h.e_shoff + 1] = <<"shdr", d.scns[1].shdr>>
        <4>1. 1 \in 1 .. d.e_nscn
          BY <1>0, <2>3
        <4> QED BY <1>2, <2>3, <4>1 DEF Agrees, HasShdrs
      <3>2. h.e_shoff \in Nat /\ Len(f) \in Nat
        BY <1>0, <1>2 DEF Ehdr
      <3>3. f[h.e_shoff + 1][1] = "shdr" /\ f[h.e_shoff + 1][2] = zero
        BY <2>2, <3>1
      <3> QED BY <1>0, <3>1, <3>2, <3>3 DEF ShdrAt, CellAt
    <2>5. PICK ss : ss = << NewScn(0, zero) >>
      OBVIOUS
    <2>6. ss \in Seq(Scn)
      <3>1. 1 \in 1 .. Len(d.scns)
        BY <1>0, <2>3
      <3>2. zero \in Shdr
        BY <1>0, <2>2, <3>1, ScnFact
      <3>3. NewScn(0, zero) \in Scn
        BY <3>2, NewScnFact
      <3> QED BY <2>5, <3>3
    <2>7. PICK x : x = [w EXCEPT !.scns = ss, !.e_nscn = d.e_nscn, !.e_nphdr = d.e_nphdr]
      OBVIOUS
    <2>8. LoadExtended(w, h) = Does(x, "ok")
      <3>1. ~(Len(w.raw) < h.e_shoff + 1)
        <4>1. h.e_shoff \in Nat /\ Len(f) \in Nat
          BY <1>0, <1>2 DEF Ehdr
        <4> QED BY <1>7, <2>4, <4>1
      <3>2. PICK y : y = [w EXCEPT !.scns = ss]
        OBVIOUS
      <3>3. [y EXCEPT !.e_nscn = zero.sh_size,
                      !.e_nphdr = IF h.e_phnum # PnXnum THEN h.e_phnum ELSE zero.sh_info] = x
        BY <1>7, <2>3, <2>7, <3>2 DEF Elf
      <3> QED BY <1>7, <2>3, <2>4, <2>5, <3>1, <3>2, <3>3 DEF LoadExtended
    <2>9. /\ x \in Elf /\ x.e_cmd = "READ" /\ x.raw = f /\ x.phdr = << >> /\ x.scns = ss
          /\ x.has = g /\ x.ehdr = h /\ x.e_nscn = d.e_nscn /\ x.e_nphdr = d.e_nphdr
      BY <1>0, <1>7, <2>6, <2>7 DEF Elf
    <2>10. HeadOf(d, f, x)
      BY <1>2, <1>4, <1>10, <2>2, <2>5, <2>9 DEF HeadOf
    <2>11. Does(x, "ok").says = "ok" /\ Does(x, "ok").d = x
      BY DEF Does
    <2> QED BY <2>1, <2>8, <2>10, <2>11
  <1>11. CASE ~(d.e_nscn >= LoReserve)
    <2>1. PICK x : x = [w EXCEPT !.e_nphdr = d.e_nphdr, !.e_nscn = d.e_nscn]
      OBVIOUS
    <2>2. WithEhdr(r) = Does(x, "ok")
      BY <1>3, <1>6, <1>8, <1>9, <1>11, <2>1 DEF ReadEhdr
    <2>3. /\ x \in Elf /\ x.e_cmd = "READ" /\ x.raw = f /\ x.phdr = << >> /\ x.scns = << >>
          /\ x.has = g /\ x.ehdr = h /\ x.e_nscn = d.e_nscn /\ x.e_nphdr = d.e_nphdr
      BY <1>0, <1>7, <2>1 DEF Elf
    <2>4. HeadOf(d, f, x)
      BY <1>2, <1>4, <1>11, <2>3 DEF HeadOf
    <2>5. Does(x, "ok").says = "ok" /\ Does(x, "ok").d = x
      BY DEF Does
    <2> QED BY <2>2, <2>4, <2>5
  <1> QED BY <1>10, <1>11

\* The section headers, as they were written; nothing of the data is read.
ScnsOf(d, f, r) ==
    /\ Sound(r) /\ "ehdr" \in r.has /\ r.raw = f /\ r.ehdr = d.ehdr
    /\ r.e_nscn = d.e_nscn /\ r.e_nphdr = d.e_nphdr /\ "phdr" \notin r.has
    /\ Len(r.scns) = d.e_nscn
    /\ \A i \in 1 .. d.e_nscn :
          /\ r.scns[i].shdr = d.scns[i].shdr /\ r.scns[i].data = << >>
          /\ ~(i = 1 /\ d.e_nscn >= LoReserve) => r.scns[i].s_rawoff = d.scns[i].shdr.sh_offset

LEMMA ReadsScns ==
  ASSUME NEW d, Flawless(d), NEW f \in Seq(Cells), Agrees(d, f), NEW r, r = Fresh("READ", FALSE, f)
  PROVE  WithShdrs(r).says = "ok" /\ ScnsOf(d, f, WithShdrs(r).d)
  <1>0. /\ d \in Elf /\ d.ehdr \in Ehdr /\ d.e_nscn \in Nat /\ d.scns \in Seq(Scn)
        /\ LoReserve \in Nat \ {0} /\ Len(d.scns) \in Nat /\ Len(d.scns) >= d.e_nscn
    <2>1. d \in Elf /\ ~(Len(d.scns) < d.e_nscn)
      BY DEF Flawless, Sound, Forgotten
    <2>2. d.ehdr \in Ehdr /\ d.e_nscn \in Nat /\ d.scns \in Seq(Scn) /\ Len(d.scns) \in Nat
      BY <2>1, ElfFact
    <2> QED BY <2>1, <2>2, Constants
  <1>1. PICK x, c : x = WithEhdr(r) /\ c = x.d
    OBVIOUS
  <1>2. x.says = "ok" /\ HeadOf(d, f, c)
    BY <1>1, ReadsHeader
  <1>3. Sound(c)
    <2>1. r.raw = f /\ r.phdr = << >> /\ r.scns = << >> /\ r.has = {"class", "raw"} /\ r.ehdr = Blank
      BY DEF Fresh
    <2>2. r \in Elf
      <3>1. /\ << >> \in Seq(Cells) /\ << >> \in Seq(Scn) /\ Blank \in Ehdr
            /\ {"class", "raw"} \in SUBSET {"class", "ehdr", "phdr", "shdrs", "raw", "LAYOUT"}
        BY NoHeaders
      <3> QED BY <3>1 DEF Fresh, Elf
    <2>3. f[1][1] = "ehdr"
      BY DEF Agrees
    <2>4. Len(r.scns) = 0 /\ "phdr" \notin r.has
      BY <2>1
    <2>5. InPlace(r)
      BY ONLY <2>4 DEF InPlace
    <2>6. Sound(r)
      BY ONLY <2>1, <2>2, <2>3, <2>4, <2>5 DEF Sound, Numbering, Unread, Counted
    <2> QED BY <1>1, <2>6, WithEhdrFact DEF HeaderRead
  <1>4. PICK y, n, q : y = LoadShdrs(c) /\ n = d.e_nscn /\ q = d.ehdr.e_shoff
    OBVIOUS
  <1>5. WithShdrs(r) = y
    <2>1. r.e_cmd = "READ" /\ r.has = {"class", "raw"}
      BY DEF Fresh
    <2> QED BY <1>1, <1>2, <1>4, <2>1 DEF WithShdrs
  <1>6. /\ c.e_cmd = "READ" /\ c.raw = f /\ c.ehdr = d.ehdr /\ c.e_nscn = n
        /\ c.e_nphdr = d.e_nphdr /\ "ehdr" \in c.has /\ "shdrs" \notin c.has /\ "phdr" \notin c.has
        /\ c.scns = IF n >= LoReserve THEN << NewScn(0, d.scns[1].shdr) >> ELSE << >>
    BY <1>2, <1>4 DEF HeadOf
  <1>7. q \in Nat /\ n \in Nat /\ q + n <= Len(f) /\ (n # 0 => HasShdrs(d, f))
    <2>1. q \in Nat /\ n \in Nat
      BY <1>0, <1>4 DEF Ehdr
    <2>2. CASE n = 0
      <3>1. q = 0
        BY <1>4, <2>2 DEF Flawless, Nowhere
      <3> QED BY <2>1, <2>2, <3>1
    <2>3. CASE n # 0
      BY <1>4, <2>1, <2>3 DEF Agrees, HasShdrs
    <2> QED BY <2>1, <2>2, <2>3
  <1>8. SectionsRead(c, y) /\ y.says = "ok" /\ Loads(c, y.d)
    <2>1. c.ehdr.e_shoff + c.e_nscn <= Len(c.raw)
      BY <1>4, <1>6, <1>7
    <2> QED BY <1>3, <1>4, <1>6, <2>1, LoadShdrsFact
  <1>9. PICK m : m = Len(c.scns)
    OBVIOUS
  <1>10. /\ m \in Nat /\ m <= n /\ (n >= LoReserve => m = 1) /\ (n < LoReserve => m = 0)
    BY <1>0, <1>6, <1>7, <1>9
  <1>11. Len(y.d.scns) = n
    <2>1. Len(y.d.scns) = m + Max({0, n - m})
      BY <1>6, <1>8, <1>9 DEF Loads
    <2>2. PICK k, o : k = n - m /\ o = 0
      OBVIOUS
    <2>3. k \in Int /\ o \in Int /\ k >= o /\ m + k = n
      BY <1>7, <1>10, <2>2
    <2>4. Max({o, k}) \in {o, k} /\ Max({o, k}) >= k
      BY ONLY <2>3, MaxOfTwo
    <2>5. Max({o, k}) = k
      BY <2>3, <2>4
    <2> QED BY <2>1, <2>2, <2>3, <2>5
  <1>12. ASSUME NEW i \in 1 .. n
         PROVE  /\ y.d.scns[i].shdr = d.scns[i].shdr /\ y.d.scns[i].data = << >>
                /\ ~(i = 1 /\ n >= LoReserve) => y.d.scns[i].s_rawoff = d.scns[i].shdr.sh_offset
    <2>1. PICK h : h = d.scns[i].shdr
      OBVIOUS
    <2>2. h \in Shdr
      <3>1. i \in 1 .. Len(d.scns)
        BY <1>0, <1>4
      <3>2. d.scns[i] \in Scn
        BY <1>0, <3>1
      <3> QED BY <2>1, <3>2, ScnFact
    <2>3. CASE n >= LoReserve /\ i = 1
      <3>1. y.d.scns[i] = c.scns[i]
        <4>1. i \in 1 .. Len(c.scns)
          BY <1>9, <1>10, <2>3
        <4> QED BY <1>8, <4>1 DEF Loads
      <3>2. c.scns[i] = NewScn(0, h)
        BY <1>6, <2>1, <2>3
      <3> QED BY <2>1, <2>2, <2>3, <3>1, <3>2, NewScnFact
    <2>4. CASE ~(n >= LoReserve /\ i = 1)
      <3>1. y.d.scns[i] = LoadedAt(c, i - 1)
        <4>1. i \in m + 1 .. n
          BY <1>0, <1>7, <1>10, <2>4
        <4>2. i \in Len(c.scns) + 1 .. Len(y.d.scns)
          BY <1>9, <1>11, <4>1
        <4> QED BY <1>8, <4>2 DEF Loads
      <3>2. ShdrAt(f, q + (i - 1)) = h
        <4>1. q + (i - 1) + 1 = q + i
          BY <1>7
        <4>2. f[q + i] = <<"shdr", h>>
          <5>1. n # 0
            BY <1>7
          <5> QED BY <1>4, <1>7, <2>1, <5>1 DEF HasShdrs
        <4>3. CellAt(f, q + (i - 1)) = <<"shdr", h>>
          BY <4>1, <4>2 DEF CellAt
        <4> QED BY <4>3 DEF ShdrAt
      <3>3. y.d.scns[i] = [NewScn(i - 1, h) EXCEPT !.s_rawoff = h.sh_offset, !.s_offset = h.sh_offset,
                                                  !.s_size = h.sh_size]
        BY <1>4, <1>6, <3>1, <3>2 DEF LoadedAt
      <3>4. i - 1 \in Nat
        BY <1>7
      <3>5. PICK t : t = NewScn(i - 1, h)
        OBVIOUS
      <3>6. t \in Scn /\ t.shdr = h /\ t.data = << >>
        BY <2>2, <3>4, <3>5, NewScnFact
      <3>7. /\ y.d.scns[i].shdr = h /\ y.d.scns[i].data = << >>
            /\ y.d.scns[i].s_rawoff = h.sh_offset
        BY <3>3, <3>5, <3>6 DEF Scn
      <3> QED BY <2>1, <3>7
    <2> QED BY <2>3, <2>4
  <1>13. /\ Sound(y.d) /\ y.d.raw = f /\ y.d.ehdr = d.ehdr /\ y.d.e_nscn = n
         /\ y.d.e_nphdr = d.e_nphdr /\ "phdr" \notin y.d.has /\ "ehdr" \in y.d.has
    <2>1. Sound(y.d) /\ Settled(c, y.d) /\ "ehdr" \in y.d.has
      BY <1>6, <1>8 DEF SectionsRead
    <2>2. "phdr" \notin y.d.has
      <3>1. "phdr" \in y.d.has \ {"shdrs"} <=> "phdr" \in c.has \ {"shdrs"}
        BY <2>1 DEF Settled
      <3> QED BY <1>6, <3>1
    <2> QED BY <1>6, <2>1, <2>2 DEF Settled
  <1> QED BY <1>4, <1>5, <1>8, <1>11, <1>12, <1>13 DEF ScnsOf

LEMMA ContentsFact ==
  ASSUME NEW d \in Elf, NEW s \in Scn, s.shdr.sh_type = "bits", s.shdr.sh_size # 0
  PROVE  Spans(Contents(d, s), s.shdr.sh_size)
  <1>0. s.shdr.sh_size \in Nat /\ s.data \in Seq(Buffer)
    BY ScnFact, ShdrFact
  <1>1. PICK n : n = s.shdr.sh_size
    OBVIOUS
  <1>2. CASE s.data = << >>
    <2>1. PICK c : c = InFile(d, s)
      OBVIOUS
    <2>2. Contents(d, s) = c
      BY <1>2, <2>1 DEF Contents
    <2>3. c \in Seq(Cells) /\ Len(c) = n
      BY <1>1, <2>1, InFileFact
    <2>4. Spans(c, n)
      BY <2>3 DEF Spans
    <2> QED BY <1>1, <2>2, <2>4
  <1>3. CASE s.data # << >>
    <2>1. PICK w : w = [k \in DOMAIN s.data |-> [at |-> s.data[k].d_off, cells |-> s.data[k].d_buf]]
      OBVIOUS
    <2>2. Contents(d, s) = Image(w, n, Fill)
      BY <1>1, <1>3, <2>1 DEF Contents
    <2>3. Spans(Image(w, n, Fill), n)
      BY <1>0, <1>1, ImageList
    <2> QED BY <1>1, <2>2, <2>3
  <1> QED BY <1>2, <1>3

\* The contents of a section, as read from the file.
LEMMA ReadsContents ==
  ASSUME NEW d, Flawless(d), NEW f \in Seq(Cells), Agrees(d, f), NEW r, ScnsOf(d, f, r),
         NEW i \in 1 .. d.e_nscn
  PROVE  Contents(r, r.scns[i]) = Contents(d, d.scns[i])
  <1>0. /\ d \in Elf /\ r \in Elf /\ d.scns \in Seq(Scn) /\ r.scns \in Seq(Scn)
        /\ i \in 1 .. Len(d.scns) /\ i \in 1 .. Len(r.scns) /\ r.raw = f
        /\ d.e_nscn \in Nat /\ LoReserve \in Nat
    <2>1. d \in Elf /\ ~(Len(d.scns) < d.e_nscn) /\ r \in Elf /\ Len(r.scns) = d.e_nscn /\ r.raw = f
      BY DEF Flawless, Sound, Forgotten, ScnsOf
    <2>2. /\ d.e_nscn \in Nat /\ d.scns \in Seq(Scn) /\ Len(d.scns) \in Nat
          /\ r.scns \in Seq(Scn)
      BY <2>1, ElfFact
    <2> QED BY <2>1, <2>2, Constants
  <1>1. PICK s, t, h : s = d.scns[i] /\ t = r.scns[i] /\ h = s.shdr
    OBVIOUS
  <1>2. /\ s \in Scn /\ t \in Scn /\ h \in Shdr /\ h.sh_size \in Nat /\ h.sh_offset \in Nat
        /\ t.shdr = h /\ t.data = << >>
        /\ ~(i = 1 /\ d.e_nscn >= LoReserve) => t.s_rawoff = h.sh_offset
    <2>1. s \in Scn /\ t \in Scn
      BY <1>0, <1>1
    <2>2. h \in Shdr /\ h.sh_size \in Nat /\ h.sh_offset \in Nat
      BY <1>1, <2>1, ScnFact, ShdrFact
    <2> QED BY <1>1, <2>1, <2>2 DEF ScnsOf
  <1>3. CASE h.sh_type # "bits" \/ h.sh_size = 0
    BY <1>1, <1>2, <1>3 DEF Contents
  <1>4. CASE h.sh_type = "bits" /\ h.sh_size # 0
    <2>1. ~(i = 1 /\ d.e_nscn >= LoReserve)
      <3> SUFFICES ASSUME i = 1, d.e_nscn >= LoReserve PROVE FALSE
        OBVIOUS
      <3>1. h.sh_type = "null"
        BY <1>1, NumbersTold
      <3> QED BY <1>4, <3>1
    <2>2. PICK n, p, u, v : /\ n = h.sh_size /\ p = h.sh_offset
                            /\ u = Contents(d, s) /\ v = Contents(r, t)
      OBVIOUS
    <2>3. p + n <= Len(f) /\ \A j \in 1 .. n : f[p + j] = u[j]
      BY <1>0, <1>1, <1>4, <2>1, <2>2 DEF Agrees, HasContents
    <2>4. Spans(u, n)
      BY <1>0, <1>1, <1>2, <1>4, <2>2, ContentsFact
    <2>5. Spans(v, n)
      BY <1>0, <1>2, <1>4, <2>2, ContentsFact
    <2>6. ASSUME NEW j \in 1 .. n PROVE v[j] = u[j]
      <3>1. v = InFile(r, t)
        BY <1>2, <1>4, <2>2 DEF Contents
      <3>2. InFile(r, t)[j] = IF t.s_rawoff + j <= Len(r.raw) THEN r.raw[t.s_rawoff + j] ELSE Junk
        BY <1>0, <1>2, <2>2, InFileFact
      <3>3. t.s_rawoff = p /\ r.raw = f
        BY <1>0, <1>2, <2>1, <2>2
      <3>4. p + j <= Len(f)
        BY <1>2, <2>2, <2>3
      <3> QED BY <2>3, <3>1, <3>2, <3>3, <3>4
    <2>7. u = v
      BY ONLY <2>4, <2>5, <2>6 DEF Spans
    <2> QED BY <1>1, <2>2, <2>7
  <1> QED BY <1>3, <1>4

\* The program headers, if there are any, are read as well.
LEMMA ReadsPhdrs ==
  ASSUME NEW d, Flawless(d), NEW f \in Seq(Cells), Agrees(d, f), NEW r, ScnsOf(d, f, r),
         d.e_nphdr # 0
  PROVE  /\ WithPhdr(r).says = "ok" /\ WithPhdr(r).d.phdr = d.phdr
         /\ WithPhdr(r).d.e_nphdr = d.e_nphdr /\ WithPhdr(r).d.e_nscn = r.e_nscn
         /\ WithPhdr(r).d.scns = r.scns /\ WithPhdr(r).d.raw = r.raw
  <1>0. /\ d \in Elf /\ d.ehdr \in Ehdr /\ d.phdr \in Seq(Cells) /\ d.e_nphdr \in Nat
        /\ r \in Elf /\ r.raw = f /\ r.ehdr = d.ehdr /\ r.e_nphdr = d.e_nphdr
        /\ "ehdr" \in r.has /\ "phdr" \notin r.has /\ Sound(r)
    BY ElfFact DEF Flawless, Sound, ScnsOf
  <1>1. PICK p, n : p = d.ehdr.e_phoff /\ n = d.e_nphdr
    OBVIOUS
  <1>2. /\ Len(d.phdr) = n /\ p + n <= Len(f) /\ p \in Nat /\ n \in Nat
        /\ \A j \in 1 .. n : f[p + j] = d.phdr[j]
    BY <1>0, <1>1 DEF Agrees, HasPhdrs, Ehdr
  <1>3. PICK x : x = WithEhdr(r)
    OBVIOUS
  <1>4. x.d = r /\ x.says = "ok"
    BY <1>0, <1>3 DEF WithEhdr, Does
  <1>5. PICK new : new = [j \in 1 .. n |-> CellAt(f, p + j - 1)]
    OBVIOUS
  <1>6. Listed(new) = d.phdr
    <2>1. \A j \in 1 .. n : new[j] = d.phdr[j]
      <3> TAKE j \in 1 .. n
      <3>1. p + j - 1 + 1 = p + j
        BY <1>2
      <3>2. new[j] = f[p + j]
        BY <1>5, <3>1 DEF CellAt
      <3> QED BY <1>2, <3>2
    <2>2. new = d.phdr
      <3>1. new = [j \in 1 .. n |-> new[j]]
        BY <1>5
      <3>2. d.phdr = [j \in 1 .. n |-> d.phdr[j]]
        BY <1>0, <1>2
      <3> QED BY ONLY <2>1, <3>1, <3>2
    <2>3. << >> \o d.phdr = d.phdr
      BY <1>0
    <2> QED BY <2>2, <2>3 DEF Listed
  <1>7. PICK c : c = [Gains(r, "phdr") EXCEPT !.phdr = d.phdr]
    OBVIOUS
  <1>8. WithPhdr(r) = Does(c, "ok")
    <2>1. ~(Len(x.d.raw) < p + n)
      <3>1. Len(f) \in Nat
        OBVIOUS
      <3> QED BY <1>0, <1>2, <1>4, <3>1
    <2>2. x.d.ehdr.e_phoff = p /\ x.d.e_nphdr = n /\ x.d.raw = f
      BY <1>0, <1>1, <1>4
    <2> QED BY <1>0, <1>3, <1>4, <1>5, <1>6, <1>7, <2>1, <2>2 DEF WithPhdr
  <1>9. Does(c, "ok").says = "ok" /\ Does(c, "ok").d = c
    BY DEF Does
  <1>10. /\ c.phdr = d.phdr /\ c.e_nphdr = r.e_nphdr /\ c.e_nscn = r.e_nscn /\ c.scns = r.scns
         /\ c.raw = r.raw
    BY <1>0, <1>7 DEF Gains, Elf
  <1> QED BY <1>0, <1>8, <1>9, <1>10

LEMMA ReadBack ==
  ASSUME NEW d, Flawless(d), NEW f \in Seq(Cells), Agrees(d, f)
  PROVE  Opened(f).says = "ok" /\ Seen(Opened(f).d) = Seen(d)
  <1>0. /\ d \in Elf /\ d.e_nscn \in Nat /\ d.scns \in Seq(Scn) /\ Len(d.scns) >= d.e_nscn
        /\ Len(d.scns) \in Nat
    <2>1. d \in Elf /\ ~(Len(d.scns) < d.e_nscn)
      BY DEF Flawless, Sound, Forgotten
    <2> QED BY <2>1, ElfFact
  <1>1. PICK x, r, o : x = WithShdrs(Fresh("READ", FALSE, f)) /\ r = x.d /\ o = Opened(f)
    OBVIOUS
  <1>2. x.says = "ok" /\ ScnsOf(d, f, r)
    BY <1>1, ReadsScns
  <1>3. r.raw = f /\ r.e_nscn = d.e_nscn /\ r.e_nphdr = d.e_nphdr /\ Len(r.scns) = d.e_nscn
    BY <1>2 DEF ScnsOf
  <1>4. /\ o.says = "ok" /\ o.d.scns = r.scns /\ o.d.raw = f
        /\ o.d.e_nscn = d.e_nscn /\ o.d.e_nphdr = d.e_nphdr
        /\ d.e_nphdr # 0 => o.d.phdr = d.phdr
    <2>1. CASE d.e_nphdr = 0
      <3>1. o = x
        BY <1>1, <1>3, <2>1 DEF Opened
      <3> QED BY <1>1, <1>2, <1>3, <2>1, <3>1
    <2>2. CASE d.e_nphdr # 0
      <3>1. o = WithPhdr(r)
        BY <1>1, <1>2, <1>3, <2>2 DEF Opened
      <3> QED BY <1>2, <1>3, <2>2, <3>1, ReadsPhdrs
    <2> QED BY <2>1, <2>2
  <1>5. PICK n : n = d.e_nscn
    OBVIOUS
  <1>6. Min({Len(d.scns), d.e_nscn}) = n /\ Min({Len(o.d.scns), o.d.e_nscn}) = n
    <2>1. PICK a, S, T : a = Len(d.scns) /\ S = {a, n} /\ T = {n}
      OBVIOUS
    <2>2. a \in Nat /\ n \in Nat /\ n <= a
      BY <1>0, <1>5, <2>1
    <2>3. S \in SUBSET Nat /\ S # {} /\ T \in SUBSET Nat /\ T # {} /\ n \in S
      BY <2>1, <2>2
    <2>4. Min(S) \in S /\ Min(S) <= n /\ Min(T) \in T
      BY <2>3, MinFact
    <2>5. Min(S) = n /\ Min(T) = n
      BY <2>1, <2>2, <2>4
    <2>6. {Len(d.scns), d.e_nscn} = S /\ {Len(o.d.scns), o.d.e_nscn} = T
      BY <1>3, <1>4, <1>5, <2>1
    <2> QED BY <2>5, <2>6
  <1>7. \A i \in 1 .. n : /\ o.d.scns[i].shdr = d.scns[i].shdr
                          /\ Contents(o.d, o.d.scns[i]) = Contents(d, d.scns[i])
    <2> TAKE i \in 1 .. n
    <2>1. o.d.scns[i].shdr = d.scns[i].shdr /\ o.d.scns[i].data = << >>
      BY <1>2, <1>4, <1>5 DEF ScnsOf
    <2>2. Contents(r, r.scns[i]) = Contents(d, d.scns[i])
      BY <1>2, <1>5, ReadsContents
    <2>3. PICK s : s = r.scns[i]
      OBVIOUS
    <2>4. InFile(o.d, s) = InFile(r, s)
      BY <1>3, <1>4 DEF InFile
    <2>5. Contents(o.d, s) = Contents(r, s)
      BY <1>4, <2>1, <2>3, <2>4 DEF Contents
    <2> QED BY <1>4, <2>1, <2>2, <2>3, <2>5
  <1>8. [i \in 1 .. n |-> << o.d.scns[i].shdr, Contents(o.d, o.d.scns[i]) >>]
        = [i \in 1 .. n |-> << d.scns[i].shdr, Contents(d, d.scns[i]) >>]
    BY <1>7, Zenon
  <1>9. Seen(o.d) = Seen(d)
    BY <1>4, <1>6, <1>8 DEF Seen
  <1> QED BY <1>1, <1>4, <1>9

LEMMA UnflawedFact ==
  ASSUME NEW d, Sound(d), PhnumStands(d), ShnumStands(d), Flaws(d) = {}
  PROVE  Flawless(d) /\ \A i \in DOMAIN d.scns : ~FilledOver(d.scns[i])
  <1>1. "forgotten" \notin Flaws(d) /\ "half extended" \notin Flaws(d) /\ "misread" \notin Flaws(d)
        /\ "nowhere" \notin Flaws(d) /\ "filled over" \notin Flaws(d)
    OBVIOUS
  <1>2. ~Forgotten(d)
    BY <1>1, Zenon DEF Flaws
  <1>3. ~HalfExtended(d)
    BY <1>1, Zenon DEF Flaws
  <1>4. ~(d.e_nscn >= LoReserve /\ Misread(d))
    BY <1>1, Zenon DEF Flaws
  <1>5. ~Nowhere(d)
    BY <1>1, Zenon DEF Flaws
  <1>6. ~(\E i \in DOMAIN d.scns : FilledOver(d.scns[i]))
    BY <1>1, Zenon DEF Flaws
  <1> QED BY <1>2, <1>3, <1>4, <1>5, <1>6 DEF Flawless

LEMMA WritesReadBack ==
  ASSUME LayoutInv, NEW at, at = Resync(e), NEW b, b = PhdrsAgain(at), UpdateWrites(b)
  PROVE  SavedReadsBack'
  <1>1. Sound(e) /\ b.says = "ok" /\ Stopped(b) = "ok"
    BY DEF LayoutInv, UpdateWrites, Writable
  <1>2. /\ file' = NewFile(b) /\ flaws' = Flaws(b.d)
        /\ said'.size = b.rc /\ said'.seen = Seen(b.d)
    BY DEF UpdateWrites
  <1>3. Resynced(at) /\ at.says = "ok"
    <2>1. Resynced(at) /\ at \in Ats
      BY <1>1, ResyncFact DEF Resynced, Good
    <2> QED BY <1>1, <2>1 DEF PhdrsAgain, Ats
  <1>4. Sound(at.d) /\ PhnumStands(at.d) /\ ShnumStands(at.d)
    <2>1. PICK v, w, c, z : StepsOf(e, v, w, c, z, at)
      BY <1>3, StepsMade
    <2>2. Finished(z, at)
      BY <1>1, <2>1, StepsFact
    <2> QED BY <2>2 DEF Finished
  <1>5. /\ Good(b, Len(b.d.scns)) /\ b.rc = at.rc /\ b.ext = at.ext
        /\ b.d.ehdr = at.d.ehdr /\ b.d.scns = at.d.scns
        /\ b.d.e_nscn = at.d.e_nscn /\ b.d.e_nphdr = at.d.e_nphdr
    BY <1>3, AgainFact DEF Resynced
  <1>6. Written(b) /\ TidyIn(b.d, b.rc, b.ext)
    <2>1. TidyIn(at.d, at.rc, at.ext)
      BY <1>3 DEF Resynced
    <2>2. TidyIn(b.d, b.rc, b.ext)
      BY <1>5, <2>1 DEF TidyIn
    <2> QED BY <1>1, <1>5, <2>2 DEF Written
  <1>7. Sound(b.d) /\ PhnumStands(b.d) /\ ShnumStands(b.d)
    BY <1>4, <1>5 DEF Good, PhnumStands, ShnumStands
  <1>8. NewFile(b) \in Seq(Cells) /\ Len(NewFile(b)) = b.rc
    BY <1>6, NewFileFact DEF Written
  <1>9. ASSUME Flaws(b.d) = {}
        PROVE  /\ Opened(NewFile(b)).says = "ok"
               /\ Seen(Opened(NewFile(b)).d) = Seen(b.d)
    <2>1. Flawless(b.d) /\ \A i \in DOMAIN b.d.scns : ~FilledOver(b.d.scns[i])
      BY <1>7, <1>9, UnflawedFact
    <2>2. Agrees(b.d, NewFile(b))
      BY <1>6, <2>1, FileAgrees DEF Flawless
    <2> QED BY <1>8, <2>1, <2>2, ReadBack
  <1> QED BY <1>2, <1>8, <1>9 DEF SavedReadsBack

\* The other calls do not say that they wrote.
LEMMA SavedElse ==
  ASSUME said'.cmd # "WRITE" \/ said'.says # "ok"
  PROVE  SavedReadsBack'
  BY DEF SavedReadsBack

LEMMA SavedStep ==
  ASSUME LayoutInv, SavedReadsBack, [Next]_vars
  PROVE  SavedReadsBack'
  <1>1. CASE elf_newehdr
    BY <1>1 DEF elf_newehdr, SavedReadsBack
  <1>2. CASE UNCHANGED vars
    BY <1>2 DEF vars, SavedReadsBack
  <1>3. CASE elf_getscn
    BY <1>3, SavedElse DEF elf_getscn, Silent
  <1>4. CASE elf_newscn
    <2>1. said' = [Silent EXCEPT !.says = "assert"] \/ said' = Silent
      BY <1>4 DEF elf_newscn
    <2>2. said'.cmd # "WRITE"
      BY <2>1 DEF Silent
    <2> QED BY <2>2, SavedElse
  <1>5. CASE Calls
    BY <1>5, SavedElse DEF Calls, Silent
  <1>6. CASE SetType
    BY <1>6, SavedElse DEF SetType, Silent
  <1>7. CASE elf_update
    <2>1. PICK at, b : /\ at = Resync(e) /\ b = PhdrsAgain(at)
                       /\ \/ UpdateLaysOut(at) \/ UpdateRefuses(at) \/ UpdateStarves(at)
                          \/ UpdateStops(b) \/ UpdateWrites(b) \/ UpdateFails(b)
      BY <1>7 DEF elf_update
    <2>2. CASE UpdateLaysOut(at)
      <3>1. Says("NULL", "ok", at.rc)
        BY <2>2 DEF UpdateLaysOut
      <3> QED BY <3>1, SaysFact, SavedElse
    <2>3. CASE UpdateRefuses(at)
      <3>1. at.says # "ok" /\ \E cmd : Says(cmd, at.says, 0)
        BY <2>3 DEF UpdateRefuses
      <3> QED BY <3>1, SaysFact, SavedElse
    <2>4. CASE UpdateStarves(at)
      <3>1. Says("WRITE", "RESOURCE", 0)
        BY <2>4 DEF UpdateStarves
      <3> QED BY <3>1, SaysFact, SavedElse
    <2>5. CASE UpdateStops(b)
      <3>1. Stopped(b) # "ok" /\ Says("WRITE", Stopped(b), 0)
        BY <2>5 DEF UpdateStops
      <3> QED BY <3>1, SaysFact, SavedElse
    <2>6. CASE UpdateWrites(b)
      BY <2>1, <2>6, WritesReadBack
    <2>7. CASE UpdateFails(b)
      <3>1. Says("WRITE", "IO", 0)
        BY <2>7 DEF UpdateFails
      <3> QED BY <3>1, SaysFact, SavedElse
    <2> QED BY <2>1, <2>2, <2>3, <2>4, <2>5, <2>6, <2>7
  <1>8. elf_newehdr \/ elf_getscn \/ elf_newscn \/ Calls \/ SetType \/ elf_update \/ UNCHANGED vars
    BY DEF Next, gelf_newphdr, elf_getdata, elf_newdata, elf_flagscn, gelf_update_shdr,
           gelf_update_ehdr, elf_flagelf
  <1> QED BY <1>1, <1>2, <1>3, <1>4, <1>5, <1>6, <1>7, <1>8

\* A file elf_update wrote is read anew as what the application had in
\* memory: the program headers, the section headers and the contents of every
\* section, read or not, moved or not, whatever the file at first, the calls
\* and the places an application chose, if nothing that Flaws names was wrong
\* with the descriptor.
THEOREM ReadsBack == Spec => []SavedReadsBack
  <1>1. Init => SavedReadsBack
    BY DEF Init, Silent, SavedReadsBack
  <1>2. LayoutInv /\ SavedReadsBack /\ [Next]_vars => SavedReadsBack'
    BY SavedStep
  <1> QED BY <1>1, <1>2, Invariant, PTL DEF Spec
=============================================================================
