--------------------------- MODULE ElfImage_proofs ---------------------------
(***************************************************************************)
(* The blocks of a descriptor, their owners and their contents.            *)
(***************************************************************************)
EXTENDS ElfImage, FiniteSetTheorems, SequenceTheorems, WellFoundedInduction, TLAPS

-----------------------------------------------------------------------------
(***************************************************************************)
(* The invariant.  x is a descriptor, c the content of its sections, sp    *)
(* those that are spoiled, fr the fresh copies, ag what agrees, fl the     *)
(* file.                                                                   *)
(***************************************************************************)
Cell == [val : Nat, times : Int]

(* The fields, with any heap.                                              *)
Elves(heap) ==
    [heap : {heap}, e_data : Nat, e_rawdata : Nat, e_size : Nat,
     e_cooked : BOOLEAN, e_disabled : BOOLEAN,
     s_offset : [Scns -> Nat], s_size : [Scns -> Nat],
     sd_memdata : [Scns -> [block : Nat, at : Nat]], sd_free_data : [Scns -> BOOLEAN],
     d_size : [Scns -> Nat], d_buf : [Scns -> Seq(Cell)], replaced : [Scns -> BOOLEAN],
     s_rawdata : [Scns -> Nat]]

Heap(h) == h \in [DOMAIN h -> Seq(Cell)] /\ DOMAIN h \subseteq Nat \ {0}

Typed(x) == x \in Elves(x.heap) /\ Heap(x.heap)

(* Every block has one owner: the file image, the raw image, translated    *)
(* data or a raw copy; the two images may be one.  Data with no block of   *)
(* its own are in a file image that was translated in place.               *)
Owned(x) ==
    /\ x.e_data \in DOMAIN x.heap
    /\ x.e_rawdata # 0 => x.e_rawdata \in DOMAIN x.heap
    /\ x.e_cooked => ~Frozen(x)
    /\ \A s \in Scns :
          /\ x.sd_free_data[s] => x.sd_memdata[s].block \in DOMAIN x.heap \ {x.e_data, x.e_rawdata}
          /\ x.s_rawdata[s] # 0 => x.s_rawdata[s] \in DOMAIN x.heap \ {x.e_data, x.e_rawdata}
          /\ x.sd_memdata[s] # Null /\ ~x.sd_free_data[s] =>
                x.sd_memdata[s].block = x.e_data /\ x.e_cooked
    /\ \A s, t \in Scns :
          /\ x.sd_free_data[s] /\ x.s_rawdata[t] # 0 => x.sd_memdata[s].block # x.s_rawdata[t]
          /\ s # t /\ x.sd_free_data[s] /\ x.sd_free_data[t] =>
                x.sd_memdata[s].block # x.sd_memdata[t].block
          /\ s # t /\ x.s_rawdata[s] # 0 => x.s_rawdata[s] # x.s_rawdata[t]
    /\ \A b \in DOMAIN x.heap \ {x.e_data, x.e_rawdata} :
          \E s \in Scns : b = x.s_rawdata[s] \/ (x.sd_free_data[s] /\ b = x.sd_memdata[s].block)

(* What is pointed to is as long as it should be.                          *)
Sized(x) ==
    /\ x.e_size <= Len(x.heap[x.e_data])
    /\ x.e_rawdata # 0 => x.e_size <= Len(x.heap[x.e_rawdata])
    /\ \A s \in Scns :
          /\ x.replaced[s] => Len(x.d_buf[s]) = x.d_size[s]
          /\ ~IsLoaded(x, s) /\ (~x.replaced[s] \/ ~HasNone(x, s)) => x.d_size[s] = x.s_size[s]
          /\ IsLoaded(x, s) /\ ~x.replaced[s] =>
                /\ x.sd_memdata[s].at + x.d_size[s] <= Len(x.heap[x.sd_memdata[s].block])
                /\ x.d_size[s] > 0

Disjoint(o, m, p, n) == m = 0 \/ n = 0 \/ o + m <= p \/ p + n <= o

InPlace(x, s) == IsLoaded(x, s) /\ ~x.sd_free_data[s] /\ ~x.replaced[s]

(* Data translated in place do not touch each other; before the first      *)
(* write of an image that is not frozen they are where they are in the     *)
(* file.                                                                   *)
Laid(x, sp, ag) ==
    /\ \A s \in Scns \ sp : \A t \in Scns \ {s} :
          InPlace(x, s) /\ InPlace(x, t) =>
             Disjoint(x.sd_memdata[s].at, x.d_size[s], x.sd_memdata[t].at, x.d_size[t])
    /\ "image" \in ag /\ ~Frozen(x) =>
          /\ \A s \in Scns \ sp : \A t \in Scns \ {s} :
                Disjoint(x.s_offset[s], x.s_size[s], x.s_offset[t], x.s_size[t])
          /\ \A s \in Scns : InPlace(x, s) =>
                x.sd_memdata[s].at = x.s_offset[s] /\ x.d_size[s] = x.s_size[s]

(* What sections were given is in the blocks, translated once ...          *)
Current(x, c, s) ==
    /\ Len(DataOf(x, s)) = Len(c[s])
    /\ \A i \in DOMAIN c[s] : DataOf(x, s)[i] = InMemory(c[s][i])

DataOK(x, c, sp) == \A s \in Scns \ sp : ~Unread(x, s) => Current(x, c, s)

(* ... or in the file and the image that is read, not translated.          *)
SourceOK(x, c, sp, ag, fl) ==
    "image" \in ag =>
        \A s \in Scns \ sp :
            Unread(x, s) /\ Inside(x, s) =>
                /\ Len(c[s]) = x.s_size[s]
                /\ \A i \in 1 .. x.s_size[s] :
                      /\ fl[x.s_offset[s] + i] = InFile(c[s][i])
                      /\ x.heap[Source(x)][x.s_offset[s] + i] = InFile(c[s][i])

(* Raw reads.                                                              *)
RawOK(x, fr, ag, fl) ==
    /\ "fields" \in ag => Len(fl) = x.e_size
    /\ "image" \in ag => "fields" \in ag
    /\ "image" \in ag /\ ~x.e_cooked => Part(x.heap[x.e_data], 0, x.e_size) = fl
    /\ 0 \in fr => x.e_rawdata # 0 /\ Part(x.heap[x.e_rawdata], 0, x.e_size) = fl
    /\ \A s \in fr \ {0} :
          /\ s \in Scns /\ x.s_rawdata[s] # 0
          /\ x.heap[x.s_rawdata[s]] = Part(fl, x.s_offset[s], x.s_size[s])

Good(x, c, sp, fr, ag, fl) ==
    /\ Typed(x) /\ Owned(x) /\ Sized(x) /\ Laid(x, sp, ag)
    /\ DataOK(x, c, sp) /\ SourceOK(x, c, sp, ag, fl) /\ RawOK(x, fr, ag, fl)
    /\ fl \in Seq(Cell) /\ c \in [Scns -> Seq(Nat)] /\ sp \subseteq Scns

Inv ==
    /\ phase \in {"open", "ended", "lost"}
    /\ phase = "open" =>
          /\ Good(elf, content, spoiled, fresh, agrees, file)
          /\ mode = "borrowed" => elf.e_data = 1 /\ elf.e_rawdata = 1
    /\ phase = "ended" => DOMAIN elf.heap = IF mode = "borrowed" THEN {1} ELSE {}

-----------------------------------------------------------------------------
(***************************************************************************)
(* Numbers.                                                                *)
(***************************************************************************)
LEMMA LeastNumber ==
  ASSUME NEW B \in SUBSET Nat, B # {}
  PROVE  \E m \in B : \A n \in B : m <= n
  <1>1. PICK m \in B : \A n \in B : << n, m >> \notin OpToRel(<, Nat)
    BY NatLessThanWellFounded, WFMin
  <1>2. ASSUME NEW n \in B, n < m
        PROVE  FALSE
    <2>1. << n, m >> \in Nat \X Nat /\ << n, m >>[1] < << n, m >>[2]
      BY <1>2
    <2>2. << n, m >> \in OpToRel(<, Nat)
      BY <2>1 DEF OpToRel
    <2> QED BY <1>1, <2>2
  <1> QED BY <1>2

\* Induction up to n: a set with 0 and each successor has every number.
LEMMA UpTo ==
  ASSUME NEW n \in Nat, NEW S, 0 \in S,
         \A i \in 1 .. n : i - 1 \in S => i \in S
  PROVE  0 .. n \subseteq S
  <1> DEFINE B == {i \in 0 .. n : i \notin S}
  <1> SUFFICES ASSUME B # {} PROVE FALSE
    OBVIOUS
  <1>1. PICK m \in B : \A k \in B : m <= k
    <2>1. B \in SUBSET Nat
      OBVIOUS
    <2> HIDE DEF B
    <2> QED BY <2>1, LeastNumber
  <1>2. m \in 1 .. n /\ m - 1 \notin B
    BY <1>1
  <1> QED BY <1>1, <1>2

LEMMA MaxOfTwo ==
  ASSUME NEW a \in Nat, NEW b \in Nat
  PROVE  Max({a, b}) \in {a, b} /\ Max({a, b}) >= a /\ Max({a, b}) >= b
  <1>1. \E z \in {a, b} : \A y \in {a, b} : z >= y
    OBVIOUS
  <1> QED BY <1>1 DEF Max

LEMMA MinOfTwo ==
  ASSUME NEW a \in Nat, NEW b \in Nat
  PROVE  Min({a, b}) \in {a, b} /\ Min({a, b}) <= a /\ Min({a, b}) <= b
  <1>1. \E z \in {a, b} : \A y \in {a, b} : z =< y
    OBVIOUS
  <1> QED BY <1>1 DEF Min

LEMMA ShiftFact ==
  ASSUME NEW o \in Nat, NEW n \in Nat, NEW m \in Nat, o + n <= m, NEW i \in 1 .. n
  PROVE  o + i \in 1 .. m
  OBVIOUS

-----------------------------------------------------------------------------
(***************************************************************************)
(* Cells.                                                                  *)
(***************************************************************************)
LEMMA CellFact ==
  ASSUME NEW v \in Nat
  PROVE  InFile(v) \in Cell /\ InMemory(v) \in Cell /\ Junk \in Cell
  BY DEF InFile, InMemory, Junk, Cell

LEMMA TurnedFact ==
  ASSUME NEW cs \in Seq(Cell), NEW by \in Int
  PROVE  /\ Turned(cs, by) \in Seq(Cell) /\ Len(Turned(cs, by)) = Len(cs)
         /\ \A i \in 1 .. Len(cs) : Turned(cs, by)[i] = [cs[i] EXCEPT !.times = @ + by]
  <1> DEFINE t == [i \in 1 .. Len(cs) |-> [cs[i] EXCEPT !.times = @ + by]]
  <1>1. Turned(cs, by) = t
    BY DEF Turned
  <1>2. ASSUME NEW i \in 1 .. Len(cs) PROVE [cs[i] EXCEPT !.times = @ + by] \in Cell
    <2>1. cs[i] \in Cell
      OBVIOUS
    <2> QED BY <2>1, SMTT(30) DEF Cell
  <1>3. t \in [1 .. Len(cs) -> Cell] /\ Len(cs) \in Nat
    BY <1>2
  <1>4. t \in Seq(Cell) /\ Len(t) = Len(cs)
    <2> HIDE DEF t
    <2> QED BY <1>3, SeqDef
  <1> QED BY <1>1, <1>4

LEMMA TurnedCell ==
  ASSUME NEW v \in Nat
  PROVE  /\ [InFile(v) EXCEPT !.times = @ + 1] = InMemory(v)
         /\ [InMemory(v) EXCEPT !.times = @ + (-1)] = InFile(v)
  BY DEF InFile, InMemory

LEMMA PartFact ==
  ASSUME NEW S, NEW cs \in Seq(S), NEW off \in Nat, NEW n \in Nat
  PROVE  /\ Part(cs, off, n) \in Seq(S)
         /\ off + n <= Len(cs) =>
               /\ Len(Part(cs, off, n)) = n
               /\ \A i \in 1 .. n : Part(cs, off, n)[i] = cs[off + i]
  <1> DEFINE m == Min({off + n, Len(cs)})
  <1>1. m \in Nat /\ m <= Len(cs) /\ (off + n <= Len(cs) => m = off + n)
    BY MinOfTwo
  <1>2. Part(cs, off, n) = SubSeq(cs, off + 1, m)
    BY DEF Part
  <1> HIDE DEF m
  <1>3. SubSeq(cs, off + 1, m) \in Seq(S)
    BY <1>1
  <1>4. ASSUME off + n <= Len(cs)
        PROVE  Len(SubSeq(cs, off + 1, m)) = n /\ \A i \in 1 .. n : SubSeq(cs, off + 1, m)[i] = cs[off + i]
    BY <1>1, <1>4
  <1> QED BY <1>2, <1>3, <1>4

LEMMA OverwrittenFact ==
  ASSUME NEW cs \in Seq(Cell), NEW off \in Nat, NEW by \in Seq(Cell)
  PROVE  /\ Overwritten(cs, off, by) \in Seq(Cell) /\ Len(Overwritten(cs, off, by)) = Len(cs)
         /\ \A i \in 1 .. Len(cs) :
               Overwritten(cs, off, by)[i] = IF i - off \in 1 .. Len(by) THEN by[i - off] ELSE cs[i]
  <1> DEFINE t == [i \in 1 .. Len(cs) |-> IF i - off \in 1 .. Len(by) THEN by[i - off] ELSE cs[i]]
  <1>1. Overwritten(cs, off, by) = t
    BY DEF Overwritten
  <1>2. t \in [1 .. Len(cs) -> Cell] /\ Len(cs) \in Nat
    OBVIOUS
  <1>3. t \in Seq(Cell) /\ Len(t) = Len(cs)
    <2> HIDE DEF t
    <2> QED BY <1>2, SeqDef
  <1> QED BY <1>1, <1>3

LEMMA ResizedFact ==
  ASSUME NEW cs \in Seq(Cell), NEW n \in Nat
  PROVE  /\ Resized(cs, n) \in Seq(Cell) /\ Len(Resized(cs, n)) = n
         /\ \A i \in 1 .. n : i <= Len(cs) => Resized(cs, n)[i] = cs[i]
  <1> DEFINE t == [i \in 1 .. n |-> IF i \in 1 .. Len(cs) THEN cs[i] ELSE Junk]
  <1>1. Resized(cs, n) = t
    BY DEF Resized
  <1>2. t \in [1 .. n -> Cell] /\ Len(cs) \in Nat
    BY CellFact DEF Junk
  <1>3. t \in Seq(Cell) /\ Len(t) = n
    <2> HIDE DEF t
    <2> QED BY <1>2, SeqDef
  <1> QED BY <1>1, <1>3

\* Two sequences that are as long and have the same cells are the same.
LEMMA SameCells ==
  ASSUME NEW S, NEW a \in Seq(S), NEW b \in Seq(S), Len(a) = Len(b),
         \A i \in 1 .. Len(a) : a[i] = b[i]
  PROVE  a = b
  BY SeqEqual

-----------------------------------------------------------------------------
(***************************************************************************)
(* Sections, blocks.                                                       *)
(***************************************************************************)
LEMMA ScnsFact == Cardinality(Scns) \in Nat /\ Scns = 1 .. Cardinality(Scns)
  BY FilesAssumption, FS_CardinalityType

\* The fields of a descriptor.
LEMMA ElfFact ==
  ASSUME NEW x, Typed(x)
  PROVE  /\ x.e_data \in Nat /\ x.e_rawdata \in Nat /\ x.e_size \in Nat
         /\ x.e_cooked \in BOOLEAN /\ x.e_disabled \in BOOLEAN
         /\ x.s_offset \in [Scns -> Nat] /\ x.s_size \in [Scns -> Nat]
         /\ x.sd_memdata \in [Scns -> [block : Nat, at : Nat]]
         /\ x.sd_free_data \in [Scns -> BOOLEAN]
         /\ x.d_size \in [Scns -> Nat] /\ x.d_buf \in [Scns -> Seq(Cell)]
         /\ x.replaced \in [Scns -> BOOLEAN] /\ x.s_rawdata \in [Scns -> Nat]
         /\ DOMAIN x.heap \subseteq Nat \ {0}
         /\ \A b \in DOMAIN x.heap : x.heap[b] \in Seq(Cell)
  BY DEF Typed, Elves, Heap

LEMMA ScnFact ==
  ASSUME NEW x, Typed(x), NEW s \in Scns
  PROVE  /\ x.s_offset[s] \in Nat /\ x.s_size[s] \in Nat /\ x.d_size[s] \in Nat
         /\ x.sd_memdata[s] \in [block : Nat, at : Nat]
         /\ x.sd_memdata[s].block \in Nat /\ x.sd_memdata[s].at \in Nat
         /\ x.sd_free_data[s] \in BOOLEAN /\ x.replaced[s] \in BOOLEAN
         /\ x.d_buf[s] \in Seq(Cell) /\ x.s_rawdata[s] \in Nat
  <1>1. x.sd_memdata[s] \in [block : Nat, at : Nat]
    BY ElfFact
  <1>2. /\ x.s_offset[s] \in Nat /\ x.s_size[s] \in Nat /\ x.d_size[s] \in Nat
        /\ x.sd_free_data[s] \in BOOLEAN /\ x.replaced[s] \in BOOLEAN
        /\ x.d_buf[s] \in Seq(Cell) /\ x.s_rawdata[s] \in Nat
    BY ElfFact
  <1> QED BY <1>1, <1>2

\* Null and the pointers that are not.
LEMMA PointerFact ==
  ASSUME NEW b \in Nat, NEW a \in Nat
  PROVE  /\ [block |-> b, at |-> a] \in [block : Nat, at : Nat]
         /\ [block |-> b, at |-> a].block = b /\ [block |-> b, at |-> a].at = a
         /\ [block |-> b, at |-> a] = Null => b = 0
         /\ Null.block = 0 /\ Null \in [block : Nat, at : Nat]
  BY DEF Null

\* malloc finds a block: there are more than owners.
LEMMA NewBlockFact ==
  ASSUME NEW x, Typed(x), Owned(x)
  PROVE  /\ NewBlock(x) \in Nat \ {0} /\ NewBlock(x) \notin DOMAIN x.heap
         /\ NewBlock(x) \notin {x.e_data, x.e_rawdata}
         /\ \A s \in Scns : NewBlock(x) # x.sd_memdata[s].block /\ NewBlock(x) # x.s_rawdata[s]
  <1> DEFINE n == Cardinality(Scns)
             g == [i \in 1 .. 2 * n + 2 |-> IF i = 2 * n + 2 THEN x.e_data
                                            ELSE IF i = 2 * n + 1 THEN x.e_rawdata
                                            ELSE IF i <= n THEN x.sd_memdata[i].block
                                            ELSE x.s_rawdata[i - n]]
             T == Named(x)
             F == (1 .. 2 * n + 4) \ (DOMAIN x.heap \cup T)
  <1>1. n \in Nat /\ Scns = 1 .. n
    BY ScnsFact
  <1>2. DOMAIN x.heap \subseteq T
    <2> SUFFICES ASSUME NEW b \in DOMAIN x.heap, b \notin {x.e_data, x.e_rawdata}
                 PROVE  b \in T
      BY DEF Named
    <2>1. PICK s \in Scns : b = x.s_rawdata[s] \/ b = x.sd_memdata[s].block
      BY DEF Owned
    <2> QED BY <2>1 DEF Named
  <1>3. T \subseteq {g[i] : i \in 1 .. 2 * n + 2}
    <2> SUFFICES ASSUME NEW b \in T
                 PROVE  \E i \in 1 .. 2 * n + 2 : b = g[i]
      OBVIOUS
    <2>1. CASE b = x.e_data
      <3>1. 2 * n + 2 \in 1 .. 2 * n + 2 /\ g[2 * n + 2] = x.e_data
        BY <1>1
      <3> QED BY <2>1, <3>1
    <2>2. CASE b = x.e_rawdata
      <3>1. 2 * n + 1 \in 1 .. 2 * n + 2 /\ g[2 * n + 1] = x.e_rawdata
        BY <1>1
      <3> QED BY <2>2, <3>1
    <2>3. ASSUME NEW s \in Scns, b = x.sd_memdata[s].block PROVE \E i \in 1 .. 2 * n + 2 : b = g[i]
      <3>1. s \in 1 .. 2 * n + 2 /\ g[s] = x.sd_memdata[s].block
        BY <1>1
      <3> QED BY <2>3, <3>1
    <2>4. ASSUME NEW s \in Scns, b = x.s_rawdata[s] PROVE \E i \in 1 .. 2 * n + 2 : b = g[i]
      <3>1. s + n \in 1 .. 2 * n + 2 /\ g[s + n] = x.s_rawdata[s]
        BY <1>1
      <3> QED BY <2>4, <3>1
    <2> QED BY <2>1, <2>2, <2>3, <2>4 DEF Named
  <1>4. \E b \in F : TRUE
    <2> DEFINE I == 1 .. 2 * n + 2
               R == {g[i] : i \in I}
    <2>1. IsFiniteSet(I) /\ Cardinality(I) = 2 * n + 2
      BY <1>1, FS_Interval, SMTT(30)
    <2>2. g \in Surjection(I, R)
      BY DEF Surjection
    <2>3. IsFiniteSet(R) /\ Cardinality(R) <= 2 * n + 2
      <3> HIDE DEF g, I, R
      <3> QED BY <2>1, <2>2, FS_Surjection
    <2>4. Cardinality(1 .. 2 * n + 4) = 2 * n + 4
      BY <1>1, FS_Interval
    <2>5. ~(1 .. 2 * n + 4 \subseteq R)
      <3> HIDE DEF g, I, R
      <3>1. ASSUME 1 .. 2 * n + 4 \subseteq R PROVE FALSE
        <4>1. Cardinality(1 .. 2 * n + 4) <= Cardinality(R)
          BY <2>3, <3>1, FS_Subset
        <4>2. Cardinality(R) \in Nat
          BY <2>3, FS_CardinalityType
        <4> QED BY <1>1, <2>3, <2>4, <4>1, <4>2
      <3> QED BY <3>1
    <2> QED BY <1>2, <1>3, <2>5
  <1>5. NewBlock(x) \in F
    <2>1. F \in SUBSET Nat /\ F # {}
      BY <1>4
    <2>2. NewBlock(x) = Min(F)
      BY DEF NewBlock
    <2> HIDE DEF F
    <2>3. PICK m \in F : \A b \in F : m <= b
      BY <2>1, LeastNumber
    <2> QED BY <2>2, <2>3 DEF Min
  <1> QED BY <1>1, <1>5 DEF Named

-----------------------------------------------------------------------------
(***************************************************************************)
(* _elf_cook_scn.                                                          *)
(***************************************************************************)
Unset(x, s) == Unread(x, s) /\ Inside(x, s)

Cooked(x, s) ==
    Turned(Resized(Part(x.heap[Source(x)], x.s_offset[s], x.d_size[s]), x.d_size[s]), 1)

Pointer(x, s) == IF Frozen(x) THEN [block |-> NewBlock(x), at |-> 0]
                 ELSE [block |-> x.e_data, at |-> x.s_offset[s]]

CookedHeap(x, s) ==
    IF Frozen(x) THEN Placed(x.heap, NewBlock(x), Cooked(x, s))
    ELSE [x.heap EXCEPT ![x.e_data] = Overwritten(@, x.s_offset[s], Cooked(x, s))]

LEMMA CookIs ==
  ASSUME NEW x, NEW s
  PROVE  CookScn(x, s) =
           [x EXCEPT !.heap = CookedHeap(x, s), !.sd_memdata[s] = Pointer(x, s),
                     !.sd_free_data[s] = Frozen(x), !.replaced[s] = FALSE, !.d_buf[s] = << >>,
                     !.e_cooked = @ \/ ~Frozen(x)]
  BY DEF CookScn, CookedHeap, Cooked, Pointer

\* What _elf_cook_scn makes of the fields.
CookFrame(x, s, y) ==
    /\ y.e_data = x.e_data /\ y.e_rawdata = x.e_rawdata /\ y.e_size = x.e_size
    /\ y.e_disabled = x.e_disabled /\ y.s_offset = x.s_offset /\ y.s_size = x.s_size
    /\ y.d_size = x.d_size /\ y.s_rawdata = x.s_rawdata
    /\ y.heap = CookedHeap(x, s)
    /\ y.e_cooked = (x.e_cooked \/ ~Frozen(x))
    /\ y.sd_memdata[s] = Pointer(x, s) /\ y.sd_free_data[s] = Frozen(x) /\ y.replaced[s] = FALSE
    /\ \A t \in Scns \ {s} :
          /\ y.sd_memdata[t] = x.sd_memdata[t] /\ y.sd_free_data[t] = x.sd_free_data[t]
          /\ y.replaced[t] = x.replaced[t] /\ y.d_buf[t] = x.d_buf[t]

LEMMA SourceFact ==
  ASSUME NEW x, Typed(x), Owned(x), Sized(x), NEW s \in Scns, Unset(x, s)
  PROVE  /\ x.d_size[s] = x.s_size[s] /\ x.d_size[s] \in Nat \ {0}
         /\ x.s_offset[s] + x.d_size[s] <= x.e_size
         /\ Source(x) \in DOMAIN x.heap /\ x.heap[Source(x)] \in Seq(Cell)
         /\ x.e_size <= Len(x.heap[Source(x)]) /\ x.e_size <= Len(x.heap[x.e_data])
  <1>1. x.d_size[s] = x.s_size[s] /\ x.s_size[s] # 0 /\ x.s_offset[s] + x.s_size[s] <= x.e_size
    BY DEF Unset, Unread, Sized, HasNone, Inside
  <1>2. x.d_size[s] \in Nat
    BY ScnFact
  <1>3. Source(x) \in DOMAIN x.heap /\ x.e_size <= Len(x.heap[Source(x)])
    BY DEF Source, Owned, Sized
  <1>4. x.heap[Source(x)] \in Seq(Cell)
    BY <1>3, ElfFact
  <1> QED BY <1>1, <1>2, <1>3, <1>4 DEF Sized

LEMMA CookedFact ==
  ASSUME NEW x, Typed(x), Owned(x), Sized(x), NEW s \in Scns, Unset(x, s)
  PROVE  /\ Cooked(x, s) \in Seq(Cell) /\ Len(Cooked(x, s)) = x.d_size[s]
         /\ \A i \in 1 .. x.d_size[s] : \A v \in Nat :
               x.heap[Source(x)][x.s_offset[s] + i] = InFile(v) => Cooked(x, s)[i] = InMemory(v)
  <1> DEFINE cs == x.heap[Source(x)]
             off == x.s_offset[s]
             n == x.d_size[s]
             p == Part(cs, off, n)
             r == Resized(p, n)
  <1>1. cs \in Seq(Cell) /\ off \in Nat /\ n \in Nat /\ off + n <= Len(cs)
    <2>1. off \in Nat /\ x.e_size \in Nat
      BY ScnFact, ElfFact
    <2>2. Len(cs) \in Nat
      BY SourceFact
    <2> QED BY <2>1, <2>2, SourceFact
  <1>2. Cooked(x, s) = Turned(r, 1)
    BY DEF Cooked
  <1> HIDE DEF cs, off, n
  <1>3. p \in Seq(Cell) /\ Len(p) = n /\ \A i \in 1 .. n : p[i] = cs[off + i]
    BY <1>1, PartFact
  <1> HIDE DEF p
  <1>4. r \in Seq(Cell) /\ Len(r) = n /\ \A i \in 1 .. n : r[i] = p[i]
    <2>1. r \in Seq(Cell) /\ Len(r) = n /\ \A i \in 1 .. n : i <= Len(p) => r[i] = p[i]
      BY <1>1, <1>3, ResizedFact
    <2> HIDE DEF r
    <2> QED BY <1>1, <1>3, <2>1
  <1> HIDE DEF r
  <1>5. /\ Turned(r, 1) \in Seq(Cell) /\ Len(Turned(r, 1)) = n
        /\ \A i \in 1 .. n : Turned(r, 1)[i] = [r[i] EXCEPT !.times = @ + 1]
    BY <1>4, TurnedFact, SMTT(30)
  <1>6. ASSUME NEW i \in 1 .. n, NEW v \in Nat, cs[off + i] = InFile(v)
        PROVE  Turned(r, 1)[i] = InMemory(v)
    <2>1. r[i] = InFile(v)
      BY <1>3, <1>4, <1>6
    <2>2. Turned(r, 1)[i] = [r[i] EXCEPT !.times = @ + 1]
      BY <1>5
    <2> QED BY <2>1, <2>2, TurnedCell
  <1> QED BY <1>2, <1>5, <1>6 DEF cs, off, n

\* The heap after it: the new block, or the file image written over.
LEMMA CookedHeapFact ==
  ASSUME NEW x, Typed(x), Owned(x), Sized(x), NEW s \in Scns, Unset(x, s)
  PROVE  /\ Heap(CookedHeap(x, s))
         /\ Frozen(x) =>
               /\ DOMAIN CookedHeap(x, s) = DOMAIN x.heap \cup {NewBlock(x)}
               /\ CookedHeap(x, s)[NewBlock(x)] = Cooked(x, s)
               /\ \A b \in DOMAIN x.heap : CookedHeap(x, s)[b] = x.heap[b]
         /\ ~Frozen(x) =>
               /\ DOMAIN CookedHeap(x, s) = DOMAIN x.heap
               /\ CookedHeap(x, s)[x.e_data] =
                     Overwritten(x.heap[x.e_data], x.s_offset[s], Cooked(x, s))
               /\ \A b \in DOMAIN x.heap \ {x.e_data} : CookedHeap(x, s)[b] = x.heap[b]
  <1> DEFINE h == CookedHeap(x, s)
             cs == Cooked(x, s)
             o == Overwritten(x.heap[x.e_data], x.s_offset[s], cs)
  <1>1. cs \in Seq(Cell)
    BY CookedFact
  <1>2. x.e_data \in DOMAIN x.heap /\ x.s_offset[s] \in Nat
    BY ScnFact DEF Owned
  <1>3. o \in Seq(Cell)
    <2>1. x.heap[x.e_data] \in Seq(Cell)
      BY <1>2, ElfFact
    <2> QED BY <1>1, <1>2, <2>1, OverwrittenFact
  <1>4. DOMAIN x.heap \subseteq Nat \ {0} /\ \A b \in DOMAIN x.heap : x.heap[b] \in Seq(Cell)
    BY ElfFact
  <1>5. NewBlock(x) \in Nat \ {0} /\ NewBlock(x) \notin DOMAIN x.heap
    BY NewBlockFact
  <1>6. CASE Frozen(x)
    <2>1. h = [c \in DOMAIN x.heap \cup {NewBlock(x)} |-> IF c = NewBlock(x) THEN cs ELSE x.heap[c]]
      BY <1>6 DEF CookedHeap, Placed
    <2> HIDE DEF h, cs
    <2>2. Heap(h)
      BY <1>1, <1>4, <1>5, <2>1 DEF Heap
    <2> QED BY <1>5, <1>6, <2>1, <2>2 DEF h, cs
  <1>7. CASE ~Frozen(x)
    <2>1. h = [x.heap EXCEPT ![x.e_data] = o]
      BY <1>7 DEF CookedHeap
    <2>2. x.heap \in [DOMAIN x.heap -> Seq(Cell)]
      BY DEF Typed, Heap
    <2> HIDE DEF h, cs, o
    <2>3. Heap(h)
      BY <1>2, <1>3, <1>4, <2>1, <2>2 DEF Heap
    <2> QED BY <1>2, <1>7, <2>1, <2>2, <2>3 DEF h, cs, o
  <1> QED BY <1>6, <1>7

LEMMA CookFields ==
  ASSUME NEW x, Typed(x), Owned(x), Sized(x), NEW s \in Scns, Unset(x, s)
  PROVE  Typed(CookScn(x, s)) /\ CookFrame(x, s, CookScn(x, s))
  <1> DEFINE h == CookedHeap(x, s)
             p == Pointer(x, s)
             fz == Frozen(x)
             y == [x EXCEPT !.heap = h, !.sd_memdata[s] = p, !.sd_free_data[s] = fz,
                            !.replaced[s] = FALSE, !.d_buf[s] = << >>, !.e_cooked = @ \/ ~fz]
  <1>1. Heap(h)
    BY CookedHeapFact
  <1>2. p \in [block : Nat, at : Nat] /\ fz \in BOOLEAN
    <2>1. x.e_data \in Nat /\ NewBlock(x) \in Nat /\ x.s_offset[s] \in Nat
      BY ScnFact, ElfFact, NewBlockFact
    <2> QED BY <2>1, PointerFact DEF Pointer, Frozen
  <1>3. CookScn(x, s) = y
    BY CookIs
  <1>4. << >> \in Seq(Cell)
    OBVIOUS
  <1>5. x \in Elves(x.heap)
    BY DEF Typed
  <1> HIDE DEF h, p, fz
  <1>6. y \in Elves(h)
    BY <1>2, <1>4, <1>5 DEF Elves
  <1>7. y.heap = h
    BY <1>5 DEF Elves
  <1>8. Typed(y)
    <2> HIDE DEF y
    <2> QED BY <1>1, <1>6, <1>7 DEF Typed
  <1>9. /\ y.e_data = x.e_data /\ y.e_rawdata = x.e_rawdata /\ y.e_size = x.e_size
        /\ y.e_disabled = x.e_disabled /\ y.s_offset = x.s_offset /\ y.s_size = x.s_size
        /\ y.d_size = x.d_size /\ y.s_rawdata = x.s_rawdata
        /\ y.e_cooked = (x.e_cooked \/ ~fz)
    BY <1>5 DEF Elves
  <1>10. /\ y.sd_memdata = [x.sd_memdata EXCEPT ![s] = p]
         /\ y.sd_free_data = [x.sd_free_data EXCEPT ![s] = fz]
         /\ y.replaced = [x.replaced EXCEPT ![s] = FALSE]
         /\ y.d_buf = [x.d_buf EXCEPT ![s] = << >>]
    BY <1>5 DEF Elves
  <1> HIDE DEF y
  <1>11. /\ y.sd_memdata[s] = p /\ y.sd_free_data[s] = fz /\ y.replaced[s] = FALSE
         /\ \A t \in Scns \ {s} :
               /\ y.sd_memdata[t] = x.sd_memdata[t] /\ y.sd_free_data[t] = x.sd_free_data[t]
               /\ y.replaced[t] = x.replaced[t] /\ y.d_buf[t] = x.d_buf[t]
    BY <1>10, ElfFact
  <1> QED BY <1>3, <1>7, <1>8, <1>9, <1>11 DEF CookFrame, h, p, fz

\* A section without translated data owns no block for them.
LEMMA NotLoaded ==
  ASSUME NEW x, Typed(x), Owned(x), NEW s \in Scns, ~IsLoaded(x, s)
  PROVE  x.sd_memdata[s] = Null /\ x.sd_memdata[s].block = 0 /\ x.sd_free_data[s] = FALSE
  <1>1. x.sd_memdata[s] = Null /\ x.sd_memdata[s].block = 0
    BY DEF IsLoaded, Null
  <1>2. 0 \notin DOMAIN x.heap /\ x.sd_free_data[s] \in BOOLEAN
    BY ElfFact, ScnFact
  <1>3. x.sd_free_data[s] => x.sd_memdata[s].block \in DOMAIN x.heap
    BY DEF Owned
  <1> QED BY <1>1, <1>2, <1>3

LEMMA FrozenSame ==
  ASSUME NEW x, NEW y, y.e_data = x.e_data, y.e_rawdata = x.e_rawdata
  PROVE  Frozen(y) = Frozen(x) /\ Source(y) = Source(x)
  BY DEF Frozen, Source

LEMMA CookOwned ==
  ASSUME NEW x, Typed(x), Owned(x), Sized(x), NEW s \in Scns, Unset(x, s),
         NEW y, CookFrame(x, s, y)
  PROVE  Owned(y)
  <1> DEFINE new == NewBlock(x)
  <1>1. Frozen(y) = Frozen(x) /\ x.sd_free_data[s] = FALSE /\ y.e_data = x.e_data
        /\ y.e_rawdata = x.e_rawdata /\ y.s_rawdata = x.s_rawdata
    <2>1. ~IsLoaded(x, s)
      BY DEF Unset, Unread
    <2> QED BY <2>1, NotLoaded, FrozenSame DEF CookFrame
  <1>2. /\ new \in Nat \ {0} /\ new \notin DOMAIN x.heap
        /\ new \notin {x.e_data, x.e_rawdata}
        /\ \A t \in Scns : new # x.sd_memdata[t].block /\ new # x.s_rawdata[t]
    BY NewBlockFact
  <1>3. \A t \in Scns \ {s} :
          y.sd_memdata[t] = x.sd_memdata[t] /\ y.sd_free_data[t] = x.sd_free_data[t]
    BY DEF CookFrame
  <1>4. CASE Frozen(x)
    <2>1. DOMAIN y.heap = DOMAIN x.heap \cup {new}
      <3>1. y.heap = CookedHeap(x, s)
        BY DEF CookFrame
      <3> QED BY <1>4, <3>1, CookedHeapFact
    <2>2. y.sd_memdata[s].block = new /\ y.sd_free_data[s] = TRUE /\ y.e_cooked = x.e_cooked
          /\ x.e_cooked = FALSE
      <3>1. y.sd_memdata[s] = [block |-> new, at |-> 0] /\ y.sd_free_data[s] = Frozen(x)
            /\ y.e_cooked = (x.e_cooked \/ ~Frozen(x))
        BY <1>4 DEF CookFrame, Pointer
      <3>2. x.e_cooked \in BOOLEAN /\ ~x.e_cooked
        BY <1>4, ElfFact DEF Owned
      <3>3. Frozen(x) = TRUE
        BY <1>4 DEF Frozen
      <3> QED BY <3>1, <3>2, <3>3
    <2> HIDE DEF new
    <2> QED BY <1>1, <1>2, <1>3, <2>1, <2>2 DEF Owned
  <1>5. CASE ~Frozen(x)
    <2>1. DOMAIN y.heap = DOMAIN x.heap
      <3>1. y.heap = CookedHeap(x, s)
        BY DEF CookFrame
      <3> QED BY <1>5, <3>1, CookedHeapFact
    <2>2. y.sd_memdata[s].block = x.e_data /\ y.sd_free_data[s] = FALSE /\ y.e_cooked = TRUE
      <3>1. y.sd_memdata[s] = [block |-> x.e_data, at |-> x.s_offset[s]] /\ y.sd_free_data[s] = Frozen(x)
            /\ y.e_cooked = (x.e_cooked \/ ~Frozen(x))
        BY <1>5 DEF CookFrame, Pointer
      <3>2. Frozen(x) = FALSE /\ (x.e_cooked \/ ~Frozen(x)) = TRUE
        BY <1>5 DEF Frozen
      <3>3. y.sd_memdata[s].block = x.e_data
        BY <3>1
      <3> QED BY <3>1, <3>2, <3>3, Zenon
    <2> HIDE DEF new
    <2> QED BY <1>1, <1>3, <1>5, <2>1, <2>2 DEF Owned
  <1> QED BY <1>4, <1>5

\* The block a pointer is to, and how long the blocks are.
LEMMA CookLengths ==
  ASSUME NEW x, Typed(x), Owned(x), Sized(x), NEW s \in Scns, Unset(x, s),
         NEW y, CookFrame(x, s, y)
  PROVE  /\ \A b \in DOMAIN x.heap : b \in DOMAIN y.heap /\ Len(y.heap[b]) = Len(x.heap[b])
         /\ \A b \in DOMAIN x.heap : Frozen(x) \/ b # x.e_data => y.heap[b] = x.heap[b]
         /\ y.sd_memdata[s].at + y.d_size[s] <= Len(y.heap[y.sd_memdata[s].block])
         /\ IsLoaded(y, s)
  <1>1. x.e_data \in DOMAIN x.heap /\ x.heap[x.e_data] \in Seq(Cell) /\ x.s_offset[s] \in Nat
    BY ElfFact, ScnFact DEF Owned
  <1>2. /\ Cooked(x, s) \in Seq(Cell) /\ Len(Cooked(x, s)) = x.d_size[s] /\ x.d_size[s] \in Nat
        /\ x.s_offset[s] + x.d_size[s] <= Len(x.heap[x.e_data])
    <2>1. x.s_offset[s] + x.d_size[s] <= x.e_size /\ x.e_size <= Len(x.heap[x.e_data])
          /\ x.d_size[s] \in Nat
      BY SourceFact
    <2>2. x.e_size \in Nat /\ Len(x.heap[x.e_data]) \in Nat
      BY <1>1, ElfFact
    <2> QED BY <1>1, <2>1, <2>2, CookedFact
  <1>3. y.heap = CookedHeap(x, s) /\ y.sd_memdata[s] = Pointer(x, s) /\ y.d_size = x.d_size
    BY DEF CookFrame
  <1>4. CASE Frozen(x)
    <2>1. NewBlock(x) \in Nat \ {0} /\ NewBlock(x) \notin DOMAIN x.heap
      BY NewBlockFact
    <2>2. /\ DOMAIN y.heap = DOMAIN x.heap \cup {NewBlock(x)}
          /\ y.heap[NewBlock(x)] = Cooked(x, s)
          /\ \A b \in DOMAIN x.heap : y.heap[b] = x.heap[b]
      BY <1>3, <1>4, CookedHeapFact, ZenonT(30)
    <2>3. y.sd_memdata[s].block = NewBlock(x) /\ y.sd_memdata[s].at = 0
          /\ y.sd_memdata[s] # Null
      BY <1>3, <1>4, <2>1, PointerFact DEF Pointer
    <2> QED BY <1>2, <1>3, <2>2, <2>3 DEF IsLoaded
  <1>5. CASE ~Frozen(x)
    <2>1. /\ DOMAIN y.heap = DOMAIN x.heap
          /\ y.heap[x.e_data] = Overwritten(x.heap[x.e_data], x.s_offset[s], Cooked(x, s))
          /\ \A b \in DOMAIN x.heap \ {x.e_data} : y.heap[b] = x.heap[b]
      <3>1. /\ DOMAIN CookedHeap(x, s) = DOMAIN x.heap
            /\ CookedHeap(x, s)[x.e_data] =
                  Overwritten(x.heap[x.e_data], x.s_offset[s], Cooked(x, s))
            /\ \A b \in DOMAIN x.heap \ {x.e_data} : CookedHeap(x, s)[b] = x.heap[b]
        BY <1>5, CookedHeapFact
      <3> QED BY <1>3, <3>1, Zenon
    <2>2. y.sd_memdata[s].block = x.e_data /\ y.sd_memdata[s].at = x.s_offset[s]
          /\ y.sd_memdata[s] # Null
      <3>1. x.e_data \in Nat \ {0}
        BY <1>1, ElfFact
      <3> QED BY <1>1, <1>3, <1>5, <3>1, PointerFact DEF Pointer
    <2>3. Len(y.heap[x.e_data]) = Len(x.heap[x.e_data])
      BY <1>1, <1>2, <2>1, OverwrittenFact
    <2> QED BY <1>2, <1>3, <1>5, <2>1, <2>2, <2>3 DEF IsLoaded
  <1> QED BY <1>4, <1>5

LEMMA LoadedBlock ==
  ASSUME NEW x, Typed(x), Owned(x), NEW s \in Scns, IsLoaded(x, s)
  PROVE  /\ x.sd_memdata[s].block \in DOMAIN x.heap
         /\ ~x.sd_free_data[s] => x.sd_memdata[s].block = x.e_data /\ ~Frozen(x)
         /\ x.sd_free_data[s] => x.sd_memdata[s].block \notin {x.e_data, x.e_rawdata}
  BY DEF Owned, IsLoaded

LEMMA CookSized ==
  ASSUME NEW x, Typed(x), Owned(x), Sized(x), NEW s \in Scns, Unset(x, s),
         NEW y, CookFrame(x, s, y)
  PROVE  Sized(y)
  <1>1. /\ y.e_data = x.e_data /\ y.e_rawdata = x.e_rawdata /\ y.e_size = x.e_size
        /\ y.s_size = x.s_size /\ y.d_size = x.d_size /\ y.replaced[s] = FALSE
        /\ \A t \in Scns \ {s} :
              /\ y.sd_memdata[t] = x.sd_memdata[t]
              /\ y.replaced[t] = x.replaced[t] /\ y.d_buf[t] = x.d_buf[t]
    BY DEF CookFrame
  <1>2. /\ \A b \in DOMAIN x.heap : b \in DOMAIN y.heap /\ Len(y.heap[b]) = Len(x.heap[b])
        /\ y.sd_memdata[s].at + y.d_size[s] <= Len(y.heap[y.sd_memdata[s].block])
        /\ IsLoaded(y, s)
    BY CookLengths
  <1>3. y.e_size <= Len(y.heap[y.e_data]) /\ (y.e_rawdata # 0 => y.e_size <= Len(y.heap[y.e_rawdata]))
    BY <1>1, <1>2 DEF Sized, Owned
  <1>4. ASSUME NEW t \in Scns
        PROVE  /\ y.replaced[t] => Len(y.d_buf[t]) = y.d_size[t]
               /\ ~IsLoaded(y, t) /\ (~y.replaced[t] \/ ~HasNone(y, t)) => y.d_size[t] = y.s_size[t]
               /\ IsLoaded(y, t) /\ ~y.replaced[t] =>
                     /\ y.sd_memdata[t].at + y.d_size[t] <= Len(y.heap[y.sd_memdata[t].block])
                     /\ y.d_size[t] > 0
    <2>1. CASE t = s
      <3>1. x.d_size[s] > 0
        BY SourceFact
      <3> QED BY <1>1, <1>2, <2>1, <3>1
    <2>2. CASE t # s
      <3>1. IsLoaded(y, t) = IsLoaded(x, t) /\ HasNone(y, t) = HasNone(x, t)
        BY <1>1, <2>2 DEF IsLoaded, HasNone
      <3>2. ASSUME IsLoaded(x, t) PROVE x.sd_memdata[t].block \in DOMAIN x.heap
        BY <3>2, LoadedBlock
      <3>3. ASSUME IsLoaded(x, t), ~x.replaced[t]
            PROVE  x.sd_memdata[t].at + x.d_size[t] <= Len(x.heap[x.sd_memdata[t].block]) /\ x.d_size[t] > 0
        BY <3>3 DEF Sized
      <3>4. /\ x.replaced[t] => Len(x.d_buf[t]) = x.d_size[t]
            /\ ~IsLoaded(x, t) /\ (~x.replaced[t] \/ ~HasNone(x, t)) => x.d_size[t] = x.s_size[t]
        BY DEF Sized
      <3> QED BY <1>1, <1>2, <2>2, <3>1, <3>2, <3>3, <3>4
    <2> QED BY <2>1, <2>2
  <1> QED BY <1>3, <1>4 DEF Sized

-----------------------------------------------------------------------------
(***************************************************************************)
(* What an application that follows d_buf finds.                           *)
(***************************************************************************)
LEMMA DataOfLoaded ==
  ASSUME NEW x, Typed(x), Owned(x), Sized(x), NEW s \in Scns, IsLoaded(x, s), ~x.replaced[s]
  PROVE  /\ DataOf(x, s) \in Seq(Cell) /\ Len(DataOf(x, s)) = x.d_size[s]
         /\ \A i \in 1 .. x.d_size[s] :
               DataOf(x, s)[i] = x.heap[x.sd_memdata[s].block][x.sd_memdata[s].at + i]
  <1> DEFINE p == x.sd_memdata[s]
             cs == x.heap[p.block]
             n == x.d_size[s]
  <1>1. p.block \in DOMAIN x.heap /\ p # Null
    BY LoadedBlock DEF IsLoaded
  <1>2. cs \in Seq(Cell) /\ p.at \in Nat /\ n \in Nat /\ p.at + n <= Len(cs)
    <2>1. cs \in Seq(Cell)
      BY <1>1, ElfFact
    <2>2. p.at \in Nat /\ n \in Nat
      BY ScnFact
    <2> QED BY <2>1, <2>2 DEF Sized
  <1>3. DataOf(x, s) = Part(cs, p.at, n)
    BY <1>1 DEF DataOf
  <1> HIDE DEF cs, p, n
  <1>4. /\ Part(cs, p.at, n) \in Seq(Cell) /\ Len(Part(cs, p.at, n)) = n
        /\ \A i \in 1 .. n : Part(cs, p.at, n)[i] = cs[p.at + i]
    BY <1>2, PartFact, ZenonT(30)
  <1> QED BY <1>3, <1>4 DEF cs, p, n

LEMMA DataOfOther ==
  ASSUME NEW x, NEW s
  PROVE  /\ x.replaced[s] => DataOf(x, s) = x.d_buf[s]
         /\ ~x.replaced[s] /\ ~IsLoaded(x, s) => DataOf(x, s) = << >>
  BY DEF DataOf, IsLoaded

LEMMA DataOfType ==
  ASSUME NEW x, Typed(x), Owned(x), Sized(x), NEW s \in Scns
  PROVE  DataOf(x, s) \in Seq(Cell)
  <1>1. CASE x.replaced[s]
    BY <1>1, ScnFact, DataOfOther
  <1>2. CASE ~x.replaced[s] /\ ~IsLoaded(x, s)
    <2>1. DataOf(x, s) = << >>
      BY <1>2, DataOfOther
    <2> QED BY <2>1
  <1>3. CASE ~x.replaced[s] /\ IsLoaded(x, s)
    BY <1>3, DataOfLoaded
  <1> QED BY <1>1, <1>2, <1>3

\* Data are as they were when the cells they are in are.
LEMMA DataSame ==
  ASSUME NEW x, Typed(x), Owned(x), Sized(x), NEW y, Typed(y), Owned(y), Sized(y),
         NEW s \in Scns,
         y.replaced[s] <=> x.replaced[s], y.d_buf[s] = x.d_buf[s], y.d_size[s] = x.d_size[s],
         IsLoaded(y, s) <=> IsLoaded(x, s),
         ASSUME IsLoaded(x, s), ~x.replaced[s]
         PROVE  \A i \in 1 .. x.d_size[s] :
                   y.heap[y.sd_memdata[s].block][y.sd_memdata[s].at + i]
                     = x.heap[x.sd_memdata[s].block][x.sd_memdata[s].at + i]
  PROVE  DataOf(y, s) = DataOf(x, s)
  <1>1. CASE x.replaced[s]
    <2>1. DataOf(x, s) = x.d_buf[s] /\ DataOf(y, s) = y.d_buf[s]
      BY <1>1, DataOfOther
    <2> QED BY <2>1
  <1>2. CASE ~x.replaced[s] /\ ~IsLoaded(x, s)
    <2>1. DataOf(x, s) = << >> /\ DataOf(y, s) = << >>
      BY <1>2, DataOfOther
    <2> QED BY <2>1
  <1>3. CASE ~x.replaced[s] /\ IsLoaded(x, s)
    <2>1. /\ DataOf(x, s) \in Seq(Cell) /\ Len(DataOf(x, s)) = x.d_size[s]
          /\ \A i \in 1 .. x.d_size[s] :
                DataOf(x, s)[i] = x.heap[x.sd_memdata[s].block][x.sd_memdata[s].at + i]
      BY <1>3, DataOfLoaded
    <2>2. /\ DataOf(y, s) \in Seq(Cell) /\ Len(DataOf(y, s)) = x.d_size[s]
          /\ \A i \in 1 .. x.d_size[s] :
                DataOf(y, s)[i] = y.heap[y.sd_memdata[s].block][y.sd_memdata[s].at + i]
      <3>1. IsLoaded(y, s) /\ ~y.replaced[s]
        BY <1>3
      <3>2. /\ DataOf(y, s) \in Seq(Cell) /\ Len(DataOf(y, s)) = y.d_size[s]
            /\ \A i \in 1 .. y.d_size[s] :
                  DataOf(y, s)[i] = y.heap[y.sd_memdata[s].block][y.sd_memdata[s].at + i]
        BY <3>1, DataOfLoaded
      <3> QED BY <3>2
    <2>3. \A i \in 1 .. x.d_size[s] : DataOf(y, s)[i] = DataOf(x, s)[i]
      BY <1>3, <2>1, <2>2
    <2> QED BY <2>1, <2>2, <2>3, SameCells
  <1> QED BY <1>1, <1>2, <1>3

LEMMA DisjointFact ==
  ASSUME NEW o \in Nat, NEW m \in Nat, NEW p \in Nat, NEW n \in Nat, Disjoint(o, m, p, n)
  PROVE  Disjoint(p, n, o, m) /\ \A i \in 1 .. m : o + i - p \notin 1 .. n
  BY DEF Disjoint

\* May be read without spoiling: the image has not been left behind.
Safe(ag, sp) == "image" \in ag \/ sp = Scns

LEMMA CookLaid ==
  ASSUME NEW x, Typed(x), Owned(x), Sized(x), NEW s \in Scns, Unset(x, s),
         NEW y, Typed(y), CookFrame(x, s, y),
         NEW sp \in SUBSET Scns, NEW ag, Safe(ag, sp), Laid(x, sp, ag)
  PROVE  Laid(y, sp, ag)
  <1>1. /\ Frozen(y) = Frozen(x) /\ y.s_offset = x.s_offset /\ y.s_size = x.s_size
        /\ y.d_size = x.d_size /\ x.d_size[s] = x.s_size[s]
        /\ \A t \in Scns \ {s} : InPlace(y, t) = InPlace(x, t) /\ y.sd_memdata[t] = x.sd_memdata[t]
    BY FrozenSame, SourceFact DEF CookFrame, InPlace, IsLoaded
  <1>2. InPlace(y, s) => ~Frozen(x) /\ y.sd_memdata[s].at = x.s_offset[s]
    <2>1. y.sd_free_data[s] = Frozen(x) /\ y.sd_memdata[s] = Pointer(x, s)
      BY DEF CookFrame
    <2> QED BY <2>1 DEF InPlace, Pointer
  <1>3. ASSUME "image" \in ag, ~Frozen(x), NEW t \in Scns, InPlace(y, t)
        PROVE  y.sd_memdata[t].at = y.s_offset[t] /\ y.d_size[t] = y.s_size[t]
    BY <1>1, <1>2, <1>3 DEF Laid
  <1>4. ASSUME "image" \in ag, ~Frozen(x), NEW t \in Scns \ sp, NEW u \in Scns \ {t}
        PROVE  Disjoint(y.s_offset[t], y.s_size[t], y.s_offset[u], y.s_size[u])
    BY <1>1, <1>4 DEF Laid
  <1>5. ASSUME NEW t \in Scns \ sp, NEW u \in Scns \ {t}, InPlace(y, t), InPlace(y, u)
        PROVE  Disjoint(y.sd_memdata[t].at, y.d_size[t], y.sd_memdata[u].at, y.d_size[u])
    <2>1. "image" \in ag
      BY <1>5 DEF Safe
    <2>2. CASE Frozen(x)
      <3>1. t # s /\ u # s
        BY <1>2, <1>5, <2>2
      <3> QED BY <1>1, <1>5, <3>1 DEF Laid
    <2>3. CASE ~Frozen(x)
      <3>1. /\ y.sd_memdata[t].at = y.s_offset[t] /\ y.d_size[t] = y.s_size[t]
            /\ y.sd_memdata[u].at = y.s_offset[u] /\ y.d_size[u] = y.s_size[u]
        BY <1>3, <1>5, <2>1, <2>3
      <3>2. Disjoint(y.s_offset[t], y.s_size[t], y.s_offset[u], y.s_size[u])
        BY <1>4, <2>1, <2>3
      <3> QED BY <3>1, <3>2
    <2> QED BY <2>2, <2>3
  <1> QED BY <1>1, <1>3, <1>4, <1>5 DEF Laid

\* Cells behind a pointer into the file image that the section is not at
\* stay.
LEMMA CookKeepsCells ==
  ASSUME NEW x, Typed(x), Owned(x), Sized(x), NEW s \in Scns, Unset(x, s),
         NEW y, CookFrame(x, s, y), ~Frozen(x),
         NEW t \in Scns, Disjoint(x.s_offset[t], x.s_size[t], x.s_offset[s], x.s_size[s]),
         x.s_offset[t] + x.s_size[t] <= Len(x.heap[x.e_data])
  PROVE  \A i \in 1 .. x.s_size[t] :
            y.heap[x.e_data][x.s_offset[t] + i] = x.heap[x.e_data][x.s_offset[t] + i]
  <1> DEFINE o == x.s_offset[t]
             m == x.s_size[t]
             cs == x.heap[x.e_data]
             off == x.s_offset[s]
             n == x.s_size[s]
  <1>1. cs \in Seq(Cell) /\ off \in Nat /\ n \in Nat /\ o \in Nat /\ m \in Nat
    BY ElfFact, ScnFact DEF Owned
  <1>2. Cooked(x, s) \in Seq(Cell) /\ Len(Cooked(x, s)) = n
    BY CookedFact, SourceFact
  <1>3. y.heap[x.e_data] = Overwritten(cs, off, Cooked(x, s))
    <2>1. y.heap = CookedHeap(x, s)
      BY DEF CookFrame
    <2>2. CookedHeap(x, s)[x.e_data] = Overwritten(cs, off, Cooked(x, s))
      BY CookedHeapFact
    <2> QED BY <2>1, <2>2, Zenon
  <1>4. \A i \in 1 .. m : o + i - off \notin 1 .. n
    BY <1>1, DisjointFact
  <1>5. \A i \in 1 .. m : o + i \in 1 .. Len(cs)
    <2>1. Len(cs) \in Nat /\ o + m <= Len(cs)
      BY <1>1
    <2> HIDE DEF cs, o, m
    <2> QED BY <1>1, <2>1
  <1> HIDE DEF cs, off, n, o, m
  <1>6. \A j \in 1 .. Len(cs) : Overwritten(cs, off, Cooked(x, s))[j] =
           IF j - off \in 1 .. n THEN Cooked(x, s)[j - off] ELSE cs[j]
    <2>1. \A j \in 1 .. Len(cs) : Overwritten(cs, off, Cooked(x, s))[j] =
             IF j - off \in 1 .. Len(Cooked(x, s)) THEN Cooked(x, s)[j - off] ELSE cs[j]
      BY <1>1, <1>2, OverwrittenFact
    <2> QED BY <1>2, <2>1
  <1>7. \A i \in 1 .. m : Overwritten(cs, off, Cooked(x, s))[o + i] = cs[o + i]
    <2> SUFFICES ASSUME NEW i \in 1 .. m
                 PROVE  Overwritten(cs, off, Cooked(x, s))[o + i] = cs[o + i]
      OBVIOUS
    <2>1. o + i \in 1 .. Len(cs) /\ o + i - off \notin 1 .. n
      BY <1>1, <1>4, <1>5
    <2> QED BY <1>1, <1>6, <2>1
  <1> QED BY <1>3, <1>7 DEF cs, off, n, o, m

LEMMA CookData ==
  ASSUME NEW x, Typed(x), Owned(x), Sized(x), NEW s \in Scns, Unset(x, s),
         NEW y, Typed(y), CookFrame(x, s, y),
         NEW sp \in SUBSET Scns, NEW ag, Safe(ag, sp), Laid(x, sp, ag),
         NEW c \in [Scns -> Seq(Nat)], NEW fl, DataOK(x, c, sp), SourceOK(x, c, sp, ag, fl)
  PROVE  DataOK(y, c, sp)
  <1> SUFFICES ASSUME NEW t \in Scns \ sp, ~Unread(y, t)
               PROVE  Current(y, c, t)
    BY DEF DataOK
  <1>0. Owned(y) /\ Sized(y) /\ IsLoaded(y, s)
    BY CookOwned, CookSized, CookLengths
  <1>1. "image" \in ag
    BY DEF Safe
  <1>2. CASE t = s
    <2> DEFINE n == x.d_size[s]
               k == y.sd_memdata[s]
    <2>1. /\ Len(c[s]) = n /\ n \in Nat /\ c[s] \in Seq(Nat)
          /\ \A i \in 1 .. n : x.heap[Source(x)][x.s_offset[s] + i] = InFile(c[s][i])
      BY <1>1, <1>2, SourceFact DEF SourceOK, Unset
    <2>2. \A i \in 1 .. n : c[s][i] \in Nat /\ Cooked(x, s)[i] = InMemory(c[s][i])
      <3>1. \A i \in 1 .. n : c[s][i] \in Nat
        BY <2>1
      <3>2. ASSUME NEW i \in 1 .. n PROVE Cooked(x, s)[i] = InMemory(c[s][i])
        <4>1. \A v \in Nat :
                 x.heap[Source(x)][x.s_offset[s] + i] = InFile(v) => Cooked(x, s)[i] = InMemory(v)
          BY CookedFact
        <4> QED BY <2>1, <3>1, <4>1
      <3> QED BY <3>1, <3>2
    <2>3. /\ Len(DataOf(y, s)) = n
          /\ \A i \in 1 .. n : DataOf(y, s)[i] = y.heap[k.block][k.at + i]
      <3>1. ~y.replaced[s] /\ y.d_size[s] = n
        BY DEF CookFrame
      <3> QED BY <1>0, <3>1, DataOfLoaded
    <2>4. \A i \in 1 .. n : y.heap[k.block][k.at + i] = Cooked(x, s)[i]
      <3>1. y.heap = CookedHeap(x, s) /\ k = Pointer(x, s)
        BY DEF CookFrame
      <3>2. CASE Frozen(x)
        <4>1. CookedHeap(x, s)[NewBlock(x)] = Cooked(x, s)
          BY <3>2, CookedHeapFact
        <4>2. k.block = NewBlock(x) /\ k.at = 0
          BY <3>1, <3>2 DEF Pointer
        <4> QED BY <2>1, <3>1, <4>1, <4>2
      <3>3. CASE ~Frozen(x)
        <4> DEFINE cs == x.heap[x.e_data]
                   off == x.s_offset[s]
        <4>1. CookedHeap(x, s)[x.e_data] = Overwritten(cs, off, Cooked(x, s))
          BY <3>3, CookedHeapFact
        <4>2. k.block = x.e_data /\ k.at = off
          BY <3>1, <3>3 DEF Pointer
        <4>3. cs \in Seq(Cell) /\ off \in Nat /\ off + n <= Len(cs)
          <5>1. cs \in Seq(Cell) /\ off \in Nat /\ x.e_size \in Nat
            BY ElfFact, ScnFact DEF Owned
          <5>2. off + n <= x.e_size /\ x.e_size <= Len(cs)
            BY SourceFact
          <5> QED BY <2>1, <5>1, <5>2
        <4>4. Cooked(x, s) \in Seq(Cell) /\ Len(Cooked(x, s)) = n
          BY CookedFact
        <4> HIDE DEF cs, off, n
        <4>5. \A i \in 1 .. n : Overwritten(cs, off, Cooked(x, s))[off + i] = Cooked(x, s)[i]
          <5>1. \A j \in 1 .. Len(cs) : Overwritten(cs, off, Cooked(x, s))[j] =
                   IF j - off \in 1 .. Len(Cooked(x, s)) THEN Cooked(x, s)[j - off] ELSE cs[j]
            BY <4>3, <4>4, OverwrittenFact
          <5>2. \A i \in 1 .. n : off + i \in 1 .. Len(cs) /\ (off + i) - off = i
            BY <2>1, <4>3
          <5> QED BY <4>4, <5>1, <5>2
        <4> QED BY <3>1, <4>1, <4>2, <4>5
      <3> QED BY <3>2, <3>3
    <2> HIDE DEF n, k
    <2>5. DOMAIN c[s] = 1 .. n
      BY <2>1
    <2> QED BY <1>2, <2>1, <2>2, <2>3, <2>4, <2>5 DEF Current
  <1>3. CASE t # s
    <2>1. /\ y.sd_memdata[t] = x.sd_memdata[t] /\ y.replaced[t] = x.replaced[t]
          /\ y.d_buf[t] = x.d_buf[t] /\ y.d_size[t] = x.d_size[t] /\ y.s_size = x.s_size
          /\ y.sd_free_data[t] = x.sd_free_data[t]
      BY <1>3 DEF CookFrame
    <2>2. (IsLoaded(y, t) <=> IsLoaded(x, t)) /\ ~Unread(x, t)
      BY <2>1 DEF IsLoaded, Unread, HasNone
    <2>3. ASSUME IsLoaded(x, t), ~x.replaced[t]
          PROVE  \A i \in 1 .. x.d_size[t] :
                   y.heap[y.sd_memdata[t].block][y.sd_memdata[t].at + i]
                     = x.heap[x.sd_memdata[t].block][x.sd_memdata[t].at + i]
      <3>0. y.sd_memdata[t] = x.sd_memdata[t]
        BY <2>1
      <3>1. x.sd_memdata[t].block \in DOMAIN x.heap
        BY <2>3, LoadedBlock
      <3>2. CASE Frozen(x) \/ x.sd_memdata[t].block # x.e_data
        BY <3>0, <3>1, <3>2, CookLengths
      <3>3. CASE ~Frozen(x) /\ x.sd_memdata[t].block = x.e_data
        <4>1. InPlace(x, t)
          <5>1. ~x.sd_free_data[t]
            BY <2>3, <3>3, LoadedBlock
          <5> QED BY <2>3, <5>1 DEF InPlace
        <4>2. x.sd_memdata[t].at = x.s_offset[t] /\ x.d_size[t] = x.s_size[t]
          BY <1>1, <3>3, <4>1 DEF Laid
        <4>3. Disjoint(x.sd_memdata[t].at, x.d_size[t], x.s_offset[s], x.s_size[s])
          BY <1>1, <1>3, <3>3, <4>2 DEF Laid
        <4>4. x.sd_memdata[t].at \in Nat /\ x.d_size[t] \in Nat
          BY ScnFact
        <4>5. x.sd_memdata[t].at + x.d_size[t] <= Len(x.heap[x.e_data])
          BY <2>3, <3>3 DEF Sized
        <4>6. \A i \in 1 .. x.d_size[t] : y.heap[x.e_data][x.sd_memdata[t].at + i]
                                               = x.heap[x.e_data][x.sd_memdata[t].at + i]
          <5>1. Disjoint(x.s_offset[t], x.s_size[t], x.s_offset[s], x.s_size[s])
                /\ x.s_offset[t] + x.s_size[t] <= Len(x.heap[x.e_data]) /\ ~Frozen(x) /\ t \in Scns
            BY <3>3, <4>2, <4>3, <4>5
          <5>2. \A i \in 1 .. x.s_size[t] :
                   y.heap[x.e_data][x.s_offset[t] + i] = x.heap[x.e_data][x.s_offset[t] + i]
            BY <5>1, CookKeepsCells
          <5> QED BY <4>2, <5>2
        <4> QED BY <3>0, <3>3, <4>6
      <3> QED BY <3>2, <3>3
    <2>4. DataOf(y, t) = DataOf(x, t)
      <3>1. (y.replaced[t] <=> x.replaced[t]) /\ t \in Scns
        BY <2>1
      <3> QED BY <1>0, <2>1, <2>2, <2>3, <3>1, DataSame
    <2> QED BY <2>2, <2>4 DEF DataOK, Current
  <1> QED BY <1>2, <1>3

LEMMA CookSource ==
  ASSUME NEW x, Typed(x), Owned(x), Sized(x), NEW s \in Scns, Unset(x, s),
         NEW y, Typed(y), CookFrame(x, s, y),
         NEW sp \in SUBSET Scns, NEW ag, Laid(x, sp, ag),
         NEW c, NEW fl, SourceOK(x, c, sp, ag, fl)
  PROVE  SourceOK(y, c, sp, ag, fl)
  <1> SUFFICES ASSUME "image" \in ag, NEW t \in Scns \ sp, Unread(y, t), Inside(y, t)
               PROVE  /\ Len(c[t]) = y.s_size[t]
                      /\ \A i \in 1 .. y.s_size[t] :
                            /\ fl[y.s_offset[t] + i] = InFile(c[t][i])
                            /\ y.heap[Source(y)][y.s_offset[t] + i] = InFile(c[t][i])
    BY DEF SourceOK
  <1>1. t # s
    BY CookLengths DEF Unread
  <1>2. /\ Source(y) = Source(x) /\ y.s_size = x.s_size /\ y.s_offset = x.s_offset
        /\ y.sd_memdata[t] = x.sd_memdata[t] /\ y.e_size = x.e_size
    BY <1>1, FrozenSame DEF CookFrame
  <1>3. Unread(x, t) /\ Inside(x, t)
    BY <1>2 DEF Unread, IsLoaded, HasNone, Inside
  <1>4. /\ Len(c[t]) = x.s_size[t]
        /\ \A i \in 1 .. x.s_size[t] :
              /\ fl[x.s_offset[t] + i] = InFile(c[t][i])
              /\ x.heap[Source(x)][x.s_offset[t] + i] = InFile(c[t][i])
    BY <1>3 DEF SourceOK
  <1>5. \A i \in 1 .. x.s_size[t] :
           y.heap[Source(x)][x.s_offset[t] + i] = x.heap[Source(x)][x.s_offset[t] + i]
    <2>1. Source(x) \in DOMAIN x.heap
      BY SourceFact
    <2>2. CASE Frozen(x) \/ Source(x) # x.e_data
      <3>1. y.heap[Source(x)] = x.heap[Source(x)]
        BY <2>1, <2>2, CookLengths
      <3> QED BY <3>1
    <2>3. CASE ~Frozen(x) /\ Source(x) = x.e_data
      <3>1. Disjoint(x.s_offset[t], x.s_size[t], x.s_offset[s], x.s_size[s])
        BY <1>1, <2>3 DEF Laid
      <3>2. x.s_offset[t] + x.s_size[t] <= Len(x.heap[x.e_data])
        <4>1. x.s_offset[t] + x.s_size[t] <= x.e_size /\ x.e_size <= Len(x.heap[x.e_data])
          BY <1>3 DEF Inside, Sized
        <4>2. x.s_offset[t] \in Nat /\ x.s_size[t] \in Nat /\ x.e_size \in Nat
              /\ x.heap[x.e_data] \in Seq(Cell)
          BY ElfFact, ScnFact DEF Owned
        <4>3. Len(x.heap[x.e_data]) \in Nat
          BY <4>2
        <4> QED BY <4>1, <4>2, <4>3
      <3>3. \A i \in 1 .. x.s_size[t] :
               y.heap[x.e_data][x.s_offset[t] + i] = x.heap[x.e_data][x.s_offset[t] + i]
        BY <2>3, <3>1, <3>2, CookKeepsCells
      <3> QED BY <2>3, <3>3
    <2> QED BY <2>2, <2>3
  <1>6. y.s_size[t] = x.s_size[t] /\ y.s_offset[t] = x.s_offset[t]
    BY <1>2
  <1> QED BY <1>2, <1>4, <1>5, <1>6

LEMMA CookRaw ==
  ASSUME NEW x, Typed(x), Owned(x), Sized(x), NEW s \in Scns, Unset(x, s),
         NEW y, CookFrame(x, s, y),
         NEW fr, NEW ag, NEW fl, RawOK(x, fr, ag, fl)
  PROVE  RawOK(y, fr, ag, fl)
  <1>1. /\ y.e_size = x.e_size /\ y.e_data = x.e_data /\ y.e_rawdata = x.e_rawdata
        /\ y.s_offset = x.s_offset /\ y.s_size = x.s_size /\ y.s_rawdata = x.s_rawdata
    BY DEF CookFrame
  <1>2. ~y.e_cooked => ~x.e_cooked /\ Frozen(x)
    BY DEF CookFrame
  <1>3. \A b \in DOMAIN x.heap : Frozen(x) \/ b # x.e_data => y.heap[b] = x.heap[b]
    BY CookLengths
  <1>4. ~y.e_cooked => y.heap[x.e_data] = x.heap[x.e_data]
    BY <1>2, <1>3 DEF Owned
  <1>5. x.e_rawdata # 0 => y.heap[x.e_rawdata] = x.heap[x.e_rawdata]
    BY <1>3 DEF Owned, Frozen
  <1>6. \A t \in Scns : x.s_rawdata[t] # 0 => y.heap[x.s_rawdata[t]] = x.heap[x.s_rawdata[t]]
    BY <1>3 DEF Owned
  <1> QED BY <1>1, <1>2, <1>4, <1>5, <1>6 DEF RawOK

-----------------------------------------------------------------------------
(***************************************************************************)
(* elf_getdata, for one section and for all.                               *)
(***************************************************************************)
\* What reading data leaves alone.
Kept(x, y) ==
    /\ y.e_data = x.e_data /\ y.e_rawdata = x.e_rawdata /\ y.e_size = x.e_size
    /\ y.e_disabled = x.e_disabled /\ y.s_offset = x.s_offset /\ y.s_size = x.s_size
    /\ y.d_size = x.d_size /\ y.s_rawdata = x.s_rawdata
    /\ \A t \in Scns : Unread(y, t) => Unread(x, t)

LEMMA CookGood ==
  ASSUME NEW x, NEW s \in Scns, Unset(x, s),
         NEW c, NEW sp, NEW fr, NEW ag, NEW fl, Good(x, c, sp, fr, ag, fl), Safe(ag, sp)
  PROVE  /\ Good(CookScn(x, s), c, sp, fr, ag, fl) /\ Kept(x, CookScn(x, s))
         /\ ~Unread(CookScn(x, s), s)
  <1> DEFINE y == CookScn(x, s)
  <1>1. /\ Typed(x) /\ Owned(x) /\ Sized(x) /\ Laid(x, sp, ag)
        /\ DataOK(x, c, sp) /\ SourceOK(x, c, sp, ag, fl) /\ RawOK(x, fr, ag, fl)
        /\ fl \in Seq(Cell) /\ c \in [Scns -> Seq(Nat)] /\ sp \in SUBSET Scns
    BY DEF Good
  <1>2. Typed(y) /\ CookFrame(x, s, y)
    BY <1>1, CookFields
  <1> HIDE DEF y
  <1>3. Owned(y) /\ Sized(y) /\ IsLoaded(y, s)
    BY <1>1, <1>2, CookOwned, CookSized, CookLengths
  <1>4. Laid(y, sp, ag)
    BY <1>1, <1>2, CookLaid
  <1>5. DataOK(y, c, sp)
    BY <1>1, <1>2, CookData
  <1>6. SourceOK(y, c, sp, ag, fl)
    BY <1>1, <1>2, CookSource
  <1>7. RawOK(y, fr, ag, fl)
    BY <1>1, <1>2, CookRaw
  <1>8. Good(y, c, sp, fr, ag, fl)
    BY <1>1, <1>2, <1>3, <1>4, <1>5, <1>6, <1>7 DEF Good
  <1>9. Kept(x, y)
    <2>1. \A t \in Scns \ {s} : y.sd_memdata[t] = x.sd_memdata[t] /\ y.s_size[t] = x.s_size[t]
      BY <1>2 DEF CookFrame
    <2>2. \A t \in Scns : Unread(y, t) => Unread(x, t)
      BY <1>3, <2>1 DEF Unread, IsLoaded, HasNone
    <2> QED BY <1>2, <2>2 DEF CookFrame, Kept
  <1>10. ~Unread(y, s)
    BY <1>3 DEF Unread
  <1> QED BY <1>8, <1>9, <1>10 DEF y

LEMMA KeptSame == \A x : Kept(x, x)
  BY DEF Kept

LEMMA KeptTwice ==
  ASSUME NEW x, NEW y, NEW z, Kept(x, y), Kept(y, z)
  PROVE  Kept(x, z)
  BY DEF Kept

\* elf_getdata keeps everything as it should be, and reads the section.
LEMMA WithDataGood ==
  ASSUME NEW x, NEW s \in Scns, NEW c, NEW sp, NEW fr, NEW ag, NEW fl,
         Good(x, c, sp, fr, ag, fl), Unread(x, s) => Safe(ag, sp)
  PROVE  /\ Good(WithData(x, s), c, sp, fr, ag, fl) /\ Kept(x, WithData(x, s))
         /\ Inside(x, s) => ~Unread(WithData(x, s), s)
  <1>1. CASE Unset(x, s)
    <2>1. WithData(x, s) = CookScn(x, s)
      BY <1>1 DEF WithData, Unset, Unread
    <2>2. Safe(ag, sp)
      BY <1>1 DEF Unset
    <2> QED BY <1>1, <2>1, <2>2, CookGood
  <1>2. CASE ~Unset(x, s)
    <2>1. WithData(x, s) = x /\ (Inside(x, s) => ~Unread(x, s))
      BY <1>2 DEF WithData, Unset, Unread
    <2> QED BY <2>1, KeptSame
  <1> QED BY <1>1, <1>2

LEMMA LoadedTurn ==
  ASSUME NEW x
  PROVE  /\ Loaded(x)[0] = x
         /\ \A k \in 1 .. Cardinality(Scns) : Loaded(x)[k] = WithData(Loaded(x)[k - 1], k)
  <1> DEFINE n == Cardinality(Scns)
             Body(f, m) == [k \in 0 .. m |-> IF k = 0 THEN x ELSE WithData(f[k - 1], k)]
             S == {m \in 0 .. n : \E f : f = Body(f, m)}
  <1>0. n \in Nat
    BY ScnsFact
  <1>1. 0 \in S
    <2>1. [k \in 0 .. 0 |-> x] = Body([k \in 0 .. 0 |-> x], 0)
      OBVIOUS
    <2> HIDE DEF Body
    <2>2. \E f : f = Body(f, 0)
      BY <2>1
    <2> QED BY <1>0, <2>2
  <1>2. ASSUME NEW m \in 1 .. n, m - 1 \in S PROVE m \in S
    <2>1. PICK f : f = Body(f, m - 1)
      BY <1>2
    <2> DEFINE g == [k \in 0 .. m |-> IF k = m THEN WithData(f[m - 1], m) ELSE f[k]]
    <2>2. g = Body(g, m)
      <3>1. ASSUME NEW k \in 0 .. m PROVE g[k] = Body(g, m)[k]
        <4>1. CASE k = m
          BY <1>0, <4>1
        <4>2. CASE k # m
          <5>1. k \in 0 .. m - 1 /\ f[k] = Body(f, m - 1)[k] /\ g[k] = f[k]
            BY <1>0, <2>1, <4>2
          <5>2. k # 0 => g[k - 1] = f[k - 1]
            BY <1>0, <4>2
          <5> QED BY <5>1, <5>2
        <4> QED BY <4>1, <4>2
      <3> QED BY <3>1
    <2> HIDE DEF Body, g
    <2>3. \E h : h = Body(h, m)
      BY <2>2
    <2> QED BY <2>3
  <1>3. n \in S
    <2> HIDE DEF S
    <2>1. 0 .. n \subseteq S
      BY <1>0, <1>1, <1>2, UpTo
    <2> QED BY <1>0, <2>1
  <1>4. Loaded(x) = CHOOSE f : f = Body(f, n)
    BY DEF Loaded
  <1>5. Loaded(x) = Body(Loaded(x), n)
    <2> HIDE DEF Body
    <2> QED BY <1>3, <1>4
  <1> QED BY <1>0, <1>5

\* All data are read: everything stays as it should be.
LEMMA AllDataGood ==
  ASSUME NEW x, NEW c, NEW sp, NEW fr, NEW ag, NEW fl, Good(x, c, sp, fr, ag, fl),
         \A s \in Scns : Unread(x, s) => Safe(ag, sp) /\ Inside(x, s)
  PROVE  /\ Good(AllData(x), c, sp, fr, ag, fl) /\ Kept(x, AllData(x))
         /\ \A s \in Scns : ~Unread(AllData(x), s)
  <1> DEFINE n == Cardinality(Scns)
             f == Loaded(x)
             S == {k \in 0 .. n : /\ Good(f[k], c, sp, fr, ag, fl) /\ Kept(x, f[k])
                                  /\ \A s \in 1 .. k : ~Unread(f[k], s)}
  <1>0. n \in Nat /\ Scns = 1 .. n
    BY ScnsFact
  <1>1. f[0] = x /\ \A k \in 1 .. n : f[k] = WithData(f[k - 1], k)
    BY LoadedTurn
  <1>2. 0 \in S
    BY <1>0, <1>1, KeptSame
  <1>3. ASSUME NEW k \in 1 .. n, k - 1 \in S PROVE k \in S
    <2> DEFINE y == f[k - 1]
               z == f[k]
    <2>1. /\ Good(y, c, sp, fr, ag, fl) /\ Kept(x, y) /\ \A s \in 1 .. k - 1 : ~Unread(y, s)
          /\ z = WithData(y, k) /\ k \in Scns
      BY <1>0, <1>1, <1>3
    <2> HIDE DEF y, z
    <2>2. /\ Unread(y, k) => Unread(x, k)
          /\ Inside(x, k) => Inside(y, k)
      BY <2>1 DEF Kept, Inside
    <2>3. Good(z, c, sp, fr, ag, fl) /\ Kept(y, z) /\ (Inside(y, k) => ~Unread(z, k))
      BY <2>1, <2>2, WithDataGood
    <2>4. Kept(x, z)
      BY <2>1, <2>3, KeptTwice
    <2>5. ~Unread(z, k)
      <3>1. CASE Unread(y, k)
        BY <2>1, <2>2, <2>3, <3>1
      <3>2. CASE ~Unread(y, k)
        BY <2>1, <2>3, <3>2 DEF Kept
      <3> QED BY <3>1, <3>2
    <2>6. ASSUME NEW s \in 1 .. k PROVE ~Unread(z, s)
      <3>1. s = k \/ (s \in 1 .. k - 1 /\ s \in Scns)
        BY <1>0
      <3> QED BY <2>1, <2>3, <2>5, <3>1 DEF Kept
    <2>7. k \in 0 .. n
      BY <1>0
    <2> QED BY <2>3, <2>4, <2>6, <2>7 DEF z
  <1>4. n \in S
    <2> HIDE DEF S
    <2>1. 0 .. n \subseteq S
      BY <1>0, <1>2, <1>3, UpTo
    <2> QED BY <1>0, <2>1
  <1>5. AllData(x) = f[n]
    BY DEF AllData
  <1> HIDE DEF f
  <1> QED BY <1>0, <1>4, <1>5

\* More may be spoiled.
LEMMA GoodSpoiled ==
  ASSUME NEW x, NEW c, NEW sp, NEW fr, NEW ag, NEW fl, Good(x, c, sp, fr, ag, fl),
         NEW more \in SUBSET Scns, sp \subseteq more
  PROVE  Good(x, c, more, fr, ag, fl)
  <1>1. \A s \in Scns \ more : s \in Scns \ sp
    OBVIOUS
  <1>2. Laid(x, sp, ag) => Laid(x, more, ag)
    BY <1>1 DEF Laid
  <1>3. DataOK(x, c, sp) => DataOK(x, c, more)
    BY <1>1 DEF DataOK
  <1>4. SourceOK(x, c, sp, ag, fl) => SourceOK(x, c, more, ag, fl)
    BY <1>1 DEF SourceOK
  <1> QED BY <1>2, <1>3, <1>4 DEF Good

-----------------------------------------------------------------------------
(***************************************************************************)
(* elf_cntl, elf_rawdata and elf_rawfile.                                  *)
(***************************************************************************)
\* The fields that say where data are.
SameData(x, y) ==
    /\ y.e_size = x.e_size /\ y.e_data = x.e_data
    /\ y.s_offset = x.s_offset /\ y.s_size = x.s_size
    /\ y.sd_memdata = x.sd_memdata /\ y.sd_free_data = x.sd_free_data /\ y.e_cooked = x.e_cooked
    /\ y.d_size = x.d_size /\ y.d_buf = x.d_buf /\ y.replaced = x.replaced
    /\ \A b \in DOMAIN x.heap : b \in DOMAIN y.heap /\ y.heap[b] = x.heap[b]

LEMMA SameDataFact ==
  ASSUME NEW x, NEW y, SameData(x, y), NEW s
  PROVE  /\ IsLoaded(y, s) <=> IsLoaded(x, s)
         /\ HasNone(y, s) <=> HasNone(x, s)
         /\ Unread(y, s) <=> Unread(x, s)
         /\ Inside(y, s) <=> Inside(x, s)
         /\ InPlace(y, s) <=> InPlace(x, s)
  BY DEF SameData, IsLoaded, HasNone, Unread, Inside, InPlace

LEMMA SameDataOK ==
  ASSUME NEW x, Typed(x), Owned(x), Sized(x), NEW y, Typed(y), Owned(y), Sized(y),
         SameData(x, y), NEW c, NEW sp, DataOK(x, c, sp)
  PROVE  DataOK(y, c, sp)
  <1> SUFFICES ASSUME NEW s \in Scns \ sp, ~Unread(y, s)
               PROVE  Current(y, c, s)
    BY DEF DataOK
  <1>1. (IsLoaded(y, s) <=> IsLoaded(x, s)) /\ ~Unread(x, s)
    BY SameDataFact
  <1>2. /\ y.replaced[s] <=> x.replaced[s]
        /\ y.d_buf[s] = x.d_buf[s] /\ y.d_size[s] = x.d_size[s] /\ s \in Scns
    BY DEF SameData
  <1>3. ASSUME IsLoaded(x, s), ~x.replaced[s]
        PROVE  \A i \in 1 .. x.d_size[s] :
                  y.heap[y.sd_memdata[s].block][y.sd_memdata[s].at + i]
                    = x.heap[x.sd_memdata[s].block][x.sd_memdata[s].at + i]
    <2>1. x.sd_memdata[s].block \in DOMAIN x.heap
      BY <1>3, LoadedBlock
    <2>2. y.sd_memdata = x.sd_memdata /\ y.heap[x.sd_memdata[s].block] = x.heap[x.sd_memdata[s].block]
      BY <2>1 DEF SameData
    <2> QED BY <2>2
  <1>4. DataOf(y, s) = DataOf(x, s)
    BY <1>1, <1>2, <1>3, DataSame
  <1> QED BY <1>1, <1>4 DEF DataOK, Current

LEMMA SameSized ==
  ASSUME NEW x, Typed(x), Owned(x), Sized(x), NEW y, SameData(x, y),
         y.e_rawdata # 0 => y.e_size <= Len(y.heap[y.e_rawdata])
  PROVE  Sized(y)
  <1>1. y.e_size <= Len(y.heap[y.e_data])
    BY DEF SameData, Sized, Owned
  <1>2. ASSUME NEW s \in Scns
        PROVE  /\ y.replaced[s] => Len(y.d_buf[s]) = y.d_size[s]
               /\ ~IsLoaded(y, s) /\ (~y.replaced[s] \/ ~HasNone(y, s)) => y.d_size[s] = y.s_size[s]
               /\ IsLoaded(y, s) /\ ~y.replaced[s] =>
                     /\ y.sd_memdata[s].at + y.d_size[s] <= Len(y.heap[y.sd_memdata[s].block])
                     /\ y.d_size[s] > 0
    <2>1. (IsLoaded(y, s) <=> IsLoaded(x, s)) /\ (HasNone(y, s) <=> HasNone(x, s))
      BY SameDataFact
    <2>2. IsLoaded(x, s) => y.heap[x.sd_memdata[s].block] = x.heap[x.sd_memdata[s].block]
      BY LoadedBlock DEF SameData
    <2>3. /\ x.replaced[s] => Len(x.d_buf[s]) = x.d_size[s]
          /\ ~IsLoaded(x, s) /\ (~x.replaced[s] \/ ~HasNone(x, s)) => x.d_size[s] = x.s_size[s]
          /\ IsLoaded(x, s) /\ ~x.replaced[s] =>
                /\ x.sd_memdata[s].at + x.d_size[s] <= Len(x.heap[x.sd_memdata[s].block])
                /\ x.d_size[s] > 0
      BY DEF Sized
    <2>4. /\ y.sd_memdata = x.sd_memdata /\ y.d_size = x.d_size /\ y.d_buf = x.d_buf
          /\ y.replaced = x.replaced /\ y.s_size = x.s_size
      BY DEF SameData
    <2> QED BY <2>1, <2>2, <2>3, <2>4
  <1> QED BY <1>1, <1>2 DEF Sized

LEMMA SameLaid ==
  ASSUME NEW x, NEW y, SameData(x, y), ~Frozen(y) => ~Frozen(x),
         NEW sp, NEW ag, Laid(x, sp, ag)
  PROVE  Laid(y, sp, ag)
  <1>1. \A s : InPlace(y, s) <=> InPlace(x, s)
    BY SameDataFact
  <1>2. y.s_offset = x.s_offset /\ y.s_size = x.s_size /\ y.sd_memdata = x.sd_memdata
        /\ y.d_size = x.d_size
    BY DEF SameData
  <1> QED BY <1>1, <1>2 DEF Laid

LEMMA SameSource ==
  ASSUME NEW x, Owned(x), NEW y, SameData(x, y), Source(y) = Source(x),
         NEW c, NEW sp, NEW ag, NEW fl, SourceOK(x, c, sp, ag, fl)
  PROVE  SourceOK(y, c, sp, ag, fl)
  <1>1. \A s : (Unread(y, s) <=> Unread(x, s)) /\ (Inside(y, s) <=> Inside(x, s))
    BY SameDataFact
  <1>2. Source(x) \in DOMAIN x.heap
    BY DEF Source, Owned
  <1>3. y.heap[Source(y)] = x.heap[Source(x)] /\ y.s_offset = x.s_offset /\ y.s_size = x.s_size
    BY <1>2 DEF SameData
  <1> QED BY <1>1, <1>3 DEF SourceOK

LEMMA DisabledGood ==
  ASSUME NEW x, NEW c, NEW sp, NEW fr, NEW ag, NEW fl, Good(x, c, sp, fr, ag, fl)
  PROVE  /\ Good([x EXCEPT !.e_disabled = TRUE], c, sp, fr, ag, fl)
         /\ [x EXCEPT !.e_disabled = TRUE].e_data = x.e_data
         /\ [x EXCEPT !.e_disabled = TRUE].e_rawdata = x.e_rawdata
  <1> DEFINE y == [x EXCEPT !.e_disabled = TRUE]
  <1>0. Typed(x) /\ Owned(x) /\ Sized(x)
    BY DEF Good
  <1>1. y.heap = x.heap /\ y \in Elves(x.heap)
    BY <1>0 DEF Typed, Elves
  <1>2. SameData(x, y) /\ y.e_rawdata = x.e_rawdata /\ y.s_rawdata = x.s_rawdata
    BY <1>0 DEF Typed, Elves, SameData
  <1> HIDE DEF y
  <1>3. Typed(y)
    BY <1>0, <1>1 DEF Typed
  <1>4. /\ Frozen(y) <=> Frozen(x)
        /\ Source(y) = Source(x)
        /\ y.e_data = x.e_data
    BY <1>2 DEF SameData, Frozen, Source
  <1>5. Owned(y)
    BY <1>0, <1>1, <1>2, <1>4 DEF Owned, SameData
  <1>6. Sized(y)
    <2>1. y.e_rawdata # 0 => y.e_size <= Len(y.heap[y.e_rawdata])
      BY <1>0, <1>1, <1>2 DEF Sized, SameData
    <2> QED BY <1>0, <1>2, <2>1, SameSized
  <1>7. Laid(y, sp, ag) /\ SourceOK(y, c, sp, ag, fl) /\ DataOK(y, c, sp)
    BY <1>0, <1>2, <1>3, <1>4, <1>5, <1>6, SameLaid, SameSource, SameDataOK DEF Good
  <1>8. RawOK(y, fr, ag, fl)
    <2>1. RawOK(x, fr, ag, fl)
      BY DEF Good
    <2> QED BY <1>1, <1>2, <2>1 DEF SameData, RawOK
  <1>9. Good(y, c, sp, fr, ag, fl)
    BY <1>3, <1>5, <1>6, <1>7, <1>8 DEF Good
  <1> QED BY <1>2, <1>4, <1>9 DEF y

\* One block more.
LEMMA PlacedFact ==
  ASSUME NEW h, Heap(h), NEW b \in Nat \ {0}, NEW cells \in Seq(Cell), b \notin DOMAIN h
  PROVE  /\ Heap(Placed(h, b, cells)) /\ DOMAIN Placed(h, b, cells) = DOMAIN h \cup {b}
         /\ Placed(h, b, cells)[b] = cells
         /\ \A a \in DOMAIN h : Placed(h, b, cells)[a] = h[a]
  <1> DEFINE g == [a \in DOMAIN h \cup {b} |-> IF a = b THEN cells ELSE h[a]]
  <1>1. Placed(h, b, cells) = g
    BY DEF Placed
  <1>2. Heap(g)
    BY DEF Heap
  <1> QED BY <1>1, <1>2

\* malloc takes one that is free.
LEMMA AllocatedFact ==
  ASSUME NEW x, Typed(x), Owned(x), NEW cells \in Seq(Cell)
  PROVE  /\ Heap(Placed(x.heap, NewBlock(x), cells))
         /\ DOMAIN Placed(x.heap, NewBlock(x), cells) = DOMAIN x.heap \cup {NewBlock(x)}
         /\ Placed(x.heap, NewBlock(x), cells)[NewBlock(x)] = cells
         /\ \A a \in DOMAIN x.heap : Placed(x.heap, NewBlock(x), cells)[a] = x.heap[a]
  <1> DEFINE h == x.heap
             b == NewBlock(x)
  <1>1. Heap(h) /\ b \in Nat \ {0} /\ b \notin DOMAIN h
    BY NewBlockFact DEF Typed
  <1> HIDE DEF h, b
  <1>2. Heap(Placed(h, b, cells))
    BY <1>1, PlacedFact
  <1>3. DOMAIN Placed(h, b, cells) = DOMAIN h \cup {b}
    BY <1>1 DEF Placed
  <1>4. Placed(h, b, cells)[b] = cells
    BY <1>1 DEF Placed
  <1>5. ASSUME NEW a \in DOMAIN h PROVE Placed(h, b, cells)[a] = h[a]
    BY <1>1 DEF Placed
  <1> QED BY <1>2, <1>3, <1>4, <1>5 DEF h, b

\* The section has a raw copy.
Copied(x, s, cells, y) ==
    y = [x EXCEPT !.heap = Placed(@, NewBlock(x), cells), !.s_rawdata[s] = NewBlock(x)]

LEMMA RawDataGood ==
  ASSUME NEW x, NEW c, NEW sp, NEW fr, NEW ag, NEW fl, Good(x, c, sp, fr, ag, fl),
         NEW s \in Scns, x.s_rawdata[s] = 0,
         NEW cells \in Seq(Cell),
         NEW y, Copied(x, s, cells, y),
         NEW fr2, fr2 = fr \/ (fr2 = fr \cup {s} /\ cells = Part(fl, x.s_offset[s], x.s_size[s]))
  PROVE  Good(y, c, sp, fr2, ag, fl) /\ y.e_data = x.e_data /\ y.e_rawdata = x.e_rawdata
  <1> DEFINE b == NewBlock(x)
             h == Placed(x.heap, b, cells)
  <1>0. Typed(x) /\ Owned(x) /\ Sized(x)
    BY DEF Good
  <1>1. /\ b \in Nat \ {0} /\ b \notin DOMAIN x.heap /\ b \notin {x.e_data, x.e_rawdata}
        /\ \A t \in Scns : b # x.sd_memdata[t].block /\ b # x.s_rawdata[t]
    BY <1>0, NewBlockFact
  <1> HIDE DEF b
  <1>2. /\ Heap(h) /\ DOMAIN h = DOMAIN x.heap \cup {b} /\ h[b] = cells
        /\ \A a \in DOMAIN x.heap : h[a] = x.heap[a]
    BY <1>0, AllocatedFact DEF b
  <1>3. y = [x EXCEPT !.heap = h, !.s_rawdata[s] = b]
    BY DEF b, Copied
  <1> HIDE DEF h
  <1>4. y.heap = h /\ y \in Elves(h)
    <2>1. x \in Elves(x.heap) /\ b \in Nat
      BY <1>0, <1>1 DEF Typed
    <2>2. [x.s_rawdata EXCEPT ![s] = b] \in [Scns -> Nat]
      BY <1>0, <2>1, ElfFact
    <2>3. y = [x EXCEPT !.heap = h, !.s_rawdata = [x.s_rawdata EXCEPT ![s] = b]]
      BY <1>3
    <2> QED BY <2>1, <2>2, <2>3 DEF Elves
  <1>5. SameData(x, y) /\ y.e_rawdata = x.e_rawdata /\ y.s_rawdata = [x.s_rawdata EXCEPT ![s] = b]
    BY <1>0, <1>2, <1>3, <1>4 DEF Typed, Elves, SameData
  <1>6. Typed(y)
    BY <1>2, <1>4 DEF Typed
  <1>7. /\ Frozen(y) <=> Frozen(x)
        /\ Source(y) = Source(x)
        /\ y.e_data = x.e_data
    BY <1>5 DEF SameData, Frozen, Source
  <1>8. y.s_rawdata[s] = b /\ \A t \in Scns \ {s} : y.s_rawdata[t] = x.s_rawdata[t]
    BY <1>0, <1>5, ElfFact
  <1>9. Owned(y)
    <2>1. /\ DOMAIN y.heap = DOMAIN x.heap \cup {b} /\ y.e_data = x.e_data
          /\ y.e_rawdata = x.e_rawdata
          /\ y.sd_memdata = x.sd_memdata /\ y.sd_free_data = x.sd_free_data /\ y.e_cooked = x.e_cooked
      BY <1>2, <1>4, <1>5 DEF SameData
    <2>2. x.s_rawdata[s] = 0 /\ 0 \notin DOMAIN x.heap
      BY <1>0, ElfFact
    <2> QED BY <1>0, <1>1, <1>7, <1>8, <2>1, <2>2 DEF Owned
  <1>10. Sized(y)
    <2>1. y.e_rawdata # 0 => y.e_size <= Len(y.heap[y.e_rawdata])
      BY <1>0, <1>2, <1>4, <1>5 DEF Sized, SameData, Owned
    <2> QED BY <1>0, <1>5, <2>1, SameSized
  <1>11. Laid(y, sp, ag) /\ SourceOK(y, c, sp, ag, fl) /\ DataOK(y, c, sp)
    BY <1>0, <1>5, <1>6, <1>7, <1>9, <1>10, SameLaid, SameSource, SameDataOK DEF Good
  <1>12. RawOK(y, fr2, ag, fl)
    <2>1. RawOK(x, fr, ag, fl)
      BY DEF Good
    <2>2. y.e_size = x.e_size /\ y.e_data = x.e_data /\ y.s_offset = x.s_offset
          /\ y.s_size = x.s_size /\ y.e_cooked = x.e_cooked /\ y.e_rawdata = x.e_rawdata
      BY <1>5 DEF SameData
    <2>3. y.heap[x.e_data] = x.heap[x.e_data]
          /\ (x.e_rawdata # 0 => y.heap[x.e_rawdata] = x.heap[x.e_rawdata])
      BY <1>0, <1>2, <1>4 DEF Owned
    <2>4. ASSUME NEW t \in fr2 \ {0}
          PROVE  /\ t \in Scns /\ y.s_rawdata[t] # 0
                 /\ y.heap[y.s_rawdata[t]] = Part(fl, y.s_offset[t], y.s_size[t])
      <3>1. CASE t \in fr
        <4>1. /\ t \in Scns /\ x.s_rawdata[t] # 0
              /\ x.heap[x.s_rawdata[t]] = Part(fl, x.s_offset[t], x.s_size[t])
          BY <2>1, <3>1 DEF RawOK
        <4>2. t # s /\ y.s_rawdata[t] = x.s_rawdata[t]
          BY <1>8, <4>1
        <4>3. x.s_rawdata[t] \in DOMAIN x.heap
          BY <1>0, <4>1 DEF Owned
        <4> QED BY <1>2, <1>4, <2>2, <4>1, <4>2, <4>3
      <3>2. CASE t \notin fr
        <4>1. t = s /\ cells = Part(fl, x.s_offset[s], x.s_size[s])
          BY <3>2
        <4>2. y.heap[y.s_rawdata[s]] = cells /\ y.s_rawdata[s] # 0
          BY <1>1, <1>2, <1>4, <1>8
        <4> QED BY <2>2, <4>1, <4>2
      <3> QED BY <3>1, <3>2
    <2>5. 0 \in fr2 => 0 \in fr
      BY <1>0, ScnsFact
    <2> QED BY <2>1, <2>2, <2>3, <2>4, <2>5 DEF RawOK
  <1>13. Good(y, c, sp, fr2, ag, fl)
    BY <1>6, <1>9, <1>10, <1>11, <1>12 DEF Good
  <1> QED BY <1>5, <1>7, <1>13

\* The raw image is the file image, which was not translated.
LEMMA FreezeGood ==
  ASSUME NEW x, NEW c, NEW sp, NEW fr, NEW ag, NEW fl, Good(x, c, sp, fr, ag, fl),
         x.e_rawdata = 0, Untouched(x),
         NEW y, y = [x EXCEPT !.e_rawdata = x.e_data],
         NEW fr2, fr2 = IF "image" \in ag THEN fr \cup {0} ELSE fr
  PROVE  Good(y, c, sp, fr2, ag, fl) /\ y.e_data = x.e_data
  <1>0. Typed(x) /\ Owned(x) /\ Sized(x) /\ ~x.e_cooked
    BY DEF Good, Untouched
  <1>1. y.heap = x.heap /\ y \in Elves(x.heap) /\ y.e_rawdata = x.e_data /\ y.s_rawdata = x.s_rawdata
    BY <1>0, ElfFact DEF Typed, Elves
  <1>2. SameData(x, y)
    BY <1>0, <1>1 DEF Typed, Elves, SameData
  <1>3. Typed(y)
    BY <1>0, <1>1 DEF Typed
  <1>4. /\ x.e_data # 0 /\ y.e_data = x.e_data /\ Frozen(y)
        /\ Source(y) = x.e_data /\ Source(x) = x.e_data
    <2>1. x.e_data # 0
      BY <1>0, ElfFact DEF Owned
    <2> QED BY <1>1, <1>2, <2>1 DEF SameData, Frozen, Source
  <1>5. Owned(y)
    <2>1. /\ y.sd_memdata = x.sd_memdata /\ y.sd_free_data = x.sd_free_data /\ ~y.e_cooked
          /\ y.e_data = x.e_data /\ y.e_rawdata = x.e_data
      BY <1>0, <1>1, <1>2 DEF SameData
    <2>2. 0 \notin DOMAIN x.heap
      BY <1>0, ElfFact
    <2> QED BY <1>0, <1>1, <1>4, <2>1, <2>2 DEF Owned
  <1>6. Sized(y)
    <2>1. y.e_rawdata # 0 => y.e_size <= Len(y.heap[y.e_rawdata])
      BY <1>0, <1>1, <1>2 DEF Sized, SameData
    <2> QED BY <1>0, <1>2, <2>1, SameSized
  <1>7. Laid(y, sp, ag) /\ SourceOK(y, c, sp, ag, fl) /\ DataOK(y, c, sp)
    BY <1>0, <1>2, <1>3, <1>4, <1>5, <1>6, SameLaid, SameSource, SameDataOK DEF Good
  <1>8. RawOK(y, fr2, ag, fl)
    <2>1. RawOK(x, fr, ag, fl)
      BY DEF Good
    <2>2. y.e_size = x.e_size /\ y.e_data = x.e_data /\ y.s_offset = x.s_offset
          /\ y.s_size = x.s_size /\ y.e_cooked = x.e_cooked
      BY <1>2 DEF SameData
    <2>3. 0 \notin fr
      BY <2>1 DEF RawOK
    <2>4. \A t \in fr2 \ {0} : t \in fr \ {0}
      OBVIOUS
    <2>5. 0 \in fr2 => "image" \in ag
      BY <2>3
    <2> QED BY <1>0, <1>1, <1>4, <2>1, <2>2, <2>4, <2>5 DEF RawOK
  <1> QED BY <1>3, <1>4, <1>5, <1>6, <1>7, <1>8 DEF Good

LEMMA PartWhole ==
  ASSUME NEW S, NEW cs \in Seq(S)
  PROVE  Part(cs, 0, Len(cs)) = cs
  <1>1. /\ Part(cs, 0, Len(cs)) \in Seq(S) /\ Len(Part(cs, 0, Len(cs))) = Len(cs)
        /\ \A i \in 1 .. Len(cs) : Part(cs, 0, Len(cs))[i] = cs[0 + i]
    <2>1. 0 \in Nat /\ Len(cs) \in Nat /\ 0 + Len(cs) <= Len(cs)
      OBVIOUS
    <2> QED BY <2>1, PartFact
  <1>2. \A i \in 1 .. Len(cs) : cs[0 + i] = cs[i]
    OBVIOUS
  <1> HIDE DEF Part
  <1> QED BY <1>1, <1>2, SameCells

LEMMA PartFirst ==
  ASSUME NEW S, NEW cs \in Seq(S), NEW n \in Nat, n <= Len(cs)
  PROVE  /\ Part(cs, 0, n) \in Seq(S) /\ Len(Part(cs, 0, n)) = n
         /\ \A i \in 1 .. n : Part(cs, 0, n)[i] = cs[i]
  <1>1. 0 \in Nat /\ Len(cs) \in Nat /\ 0 + n <= Len(cs)
    OBVIOUS
  <1>2. /\ Part(cs, 0, n) \in Seq(S) /\ Len(Part(cs, 0, n)) = n
        /\ \A i \in 1 .. n : Part(cs, 0, n)[i] = cs[0 + i]
    BY <1>1, PartFact
  <1>3. \A i \in 1 .. n : cs[0 + i] = cs[i]
    OBVIOUS
  <1> HIDE DEF Part
  <1> QED BY <1>2, <1>3

\* The raw image is read again.
LEMMA RawFileGood ==
  ASSUME NEW x, NEW c, NEW sp, NEW fr, NEW ag, NEW fl, Good(x, c, sp, fr, ag, fl),
         x.e_rawdata = 0, ~Untouched(x), x.e_size <= Len(fl),
         NEW y, y = [x EXCEPT !.heap = Placed(@, NewBlock(x), Part(fl, 0, x.e_size)),
                              !.e_rawdata = NewBlock(x)],
         NEW fr2, fr2 = IF "fields" \in ag THEN fr \cup {0} ELSE fr
  PROVE  Good(y, c, sp, fr2, ag, fl)
  <1> DEFINE b == NewBlock(x)
             cells == Part(fl, 0, x.e_size)
             h == Placed(x.heap, b, cells)
  <1>0. Typed(x) /\ Owned(x) /\ Sized(x) /\ x.e_cooked /\ fl \in Seq(Cell) /\ x.e_size \in Nat
    BY ElfFact DEF Good, Untouched
  <1>1. /\ b \in Nat \ {0} /\ b \notin DOMAIN x.heap /\ b \notin {x.e_data, x.e_rawdata}
        /\ \A t \in Scns : b # x.sd_memdata[t].block /\ b # x.s_rawdata[t]
    BY <1>0, NewBlockFact
  <1>a. /\ cells \in Seq(Cell) /\ Len(cells) = x.e_size
        /\ \A i \in 1 .. x.e_size : cells[i] = fl[i]
    BY <1>0, PartFirst
  <1> HIDE DEF cells
  <1>2. /\ Heap(h) /\ DOMAIN h = DOMAIN x.heap \cup {b} /\ h[b] = cells
        /\ \A a \in DOMAIN x.heap : h[a] = x.heap[a]
    BY <1>0, <1>a, AllocatedFact DEF b
  <1>3. y = [x EXCEPT !.heap = h, !.e_rawdata = b]
    BY DEF b, cells
  <1> HIDE DEF b, h
  <1>4. y.heap = h /\ y \in Elves(h) /\ y.e_rawdata = b /\ y.s_rawdata = x.s_rawdata
    BY <1>0, <1>1, <1>3 DEF Typed, Elves
  <1>5. SameData(x, y)
    BY <1>0, <1>2, <1>3, <1>4 DEF Typed, Elves, SameData
  <1>6. Typed(y)
    BY <1>2, <1>4 DEF Typed
  <1>7. ~Frozen(x) /\ ~Frozen(y) /\ Source(y) = b /\ y.e_data = x.e_data /\ x.e_data \in DOMAIN x.heap
    <2>1. x.e_data \in DOMAIN x.heap /\ 0 \notin DOMAIN x.heap
      BY <1>0, ElfFact DEF Owned
    <2>2. y.e_data = x.e_data
      BY <1>5 DEF SameData
    <2> QED BY <1>1, <1>4, <2>1, <2>2 DEF Frozen, Source
  <1>9. Owned(y)
    <2>1. /\ DOMAIN y.heap = DOMAIN x.heap \cup {b}
          /\ y.sd_memdata = x.sd_memdata /\ y.sd_free_data = x.sd_free_data /\ y.e_cooked = x.e_cooked
      BY <1>2, <1>4, <1>5 DEF SameData
    <2>2. 0 \notin DOMAIN x.heap
      BY <1>0, ElfFact
    <2> QED BY <1>0, <1>1, <1>4, <1>7, <2>1, <2>2 DEF Owned
  <1>10. Sized(y)
    <2>1. y.e_rawdata # 0 => y.e_size <= Len(y.heap[y.e_rawdata])
      BY <1>0, <1>2, <1>4, <1>5, <1>a DEF SameData
    <2> QED BY <1>0, <1>5, <2>1, SameSized
  <1>11. Laid(y, sp, ag) /\ DataOK(y, c, sp)
    BY <1>0, <1>5, <1>6, <1>7, <1>9, <1>10, SameLaid, SameDataOK DEF Good
  <1>12. SourceOK(y, c, sp, ag, fl)
    <2> SUFFICES ASSUME "image" \in ag, NEW s \in Scns \ sp, Unread(y, s), Inside(y, s)
                 PROVE  /\ Len(c[s]) = y.s_size[s]
                        /\ \A i \in 1 .. y.s_size[s] :
                              /\ fl[y.s_offset[s] + i] = InFile(c[s][i])
                              /\ y.heap[Source(y)][y.s_offset[s] + i] = InFile(c[s][i])
      BY DEF SourceOK
    <2>1. Unread(x, s) /\ Inside(x, s)
      BY <1>5, SameDataFact
    <2>2. y.s_offset = x.s_offset /\ y.s_size = x.s_size
      BY <1>5 DEF SameData
    <2>3. /\ Len(c[s]) = x.s_size[s]
          /\ \A i \in 1 .. x.s_size[s] : fl[x.s_offset[s] + i] = InFile(c[s][i])
      BY <2>1 DEF Good, SourceOK
    <2>4. \A i \in 1 .. x.s_size[s] : cells[x.s_offset[s] + i] = fl[x.s_offset[s] + i]
      <3>1. x.s_offset[s] \in Nat /\ x.s_size[s] \in Nat /\ x.s_offset[s] + x.s_size[s] <= x.e_size
        BY <1>0, <2>1, ScnFact DEF Inside
      <3>2. ASSUME NEW i \in 1 .. x.s_size[s] PROVE x.s_offset[s] + i \in 1 .. x.e_size
        BY <1>0, <3>1
      <3> QED BY <1>a, <3>2
    <2>5. y.heap[Source(y)] = cells
      BY <1>2, <1>4, <1>7
    <2> QED BY <2>2, <2>3, <2>4, <2>5
  <1>13. RawOK(y, fr2, ag, fl)
    <2>1. RawOK(x, fr, ag, fl)
      BY DEF Good
    <2>2. y.e_size = x.e_size /\ y.s_offset = x.s_offset
          /\ y.s_size = x.s_size /\ y.e_cooked
      BY <1>0, <1>5 DEF SameData
    <2>3. 0 \notin fr
      BY <2>1 DEF RawOK
    <2>4. \A t \in fr2 \ {0} : t \in fr \ {0}
      OBVIOUS
    <2>5. 0 \in fr2 => "fields" \in ag
      BY <2>3
    <2>6. "fields" \in ag => Part(y.heap[y.e_rawdata], 0, y.e_size) = fl
      <3> SUFFICES ASSUME "fields" \in ag PROVE Part(y.heap[y.e_rawdata], 0, y.e_size) = fl
        OBVIOUS
      <3>1. x.e_size = Len(fl)
        BY <2>1 DEF RawOK
      <3>2. cells = fl
        BY <1>0, <3>1, PartWhole DEF cells
      <3>3. y.heap[y.e_rawdata] = fl /\ y.e_size = Len(fl)
        BY <1>2, <1>4, <2>2, <3>1, <3>2
      <3> QED BY <1>0, <3>3, PartWhole
    <2>7. \A t \in fr \ {0} : y.heap[x.s_rawdata[t]] = x.heap[x.s_rawdata[t]]
      BY <1>0, <1>2, <1>4, <2>1 DEF Owned, RawOK
    <2> QED BY <1>0, <1>1, <1>4, <2>1, <2>2, <2>4, <2>5, <2>6, <2>7 DEF RawOK
  <1>14. Good(y, c, sp, fr2, ag, fl)
    BY <1>6, <1>9, <1>10, <1>11, <1>12, <1>13 DEF Good
  <1> QED BY <1>14

-----------------------------------------------------------------------------
(***************************************************************************)
(* An application changes its data.                                        *)
(***************************************************************************)
\* Only the heap is another one, with blocks at least as long.
Rewritten(x, y) ==
    /\ y = [x EXCEPT !.heap = y.heap] /\ y.heap \in [DOMAIN x.heap -> Seq(Cell)]
    /\ \A b \in DOMAIN x.heap : Len(y.heap[b]) >= Len(x.heap[b])

LEMMA RewrittenFields ==
  ASSUME NEW x, Typed(x), NEW y, Rewritten(x, y)
  PROVE  /\ Typed(y) /\ DOMAIN y.heap = DOMAIN x.heap
         /\ y.e_data = x.e_data /\ y.e_rawdata = x.e_rawdata /\ y.e_size = x.e_size
         /\ y.e_cooked = x.e_cooked /\ y.s_offset = x.s_offset /\ y.s_size = x.s_size
         /\ y.sd_memdata = x.sd_memdata /\ y.sd_free_data = x.sd_free_data
         /\ y.d_size = x.d_size /\ y.d_buf = x.d_buf /\ y.replaced = x.replaced
         /\ y.s_rawdata = x.s_rawdata
  <1>1. PICK h : h = y.heap
    OBVIOUS
  <1>2. y = [x EXCEPT !.heap = h] /\ h \in [DOMAIN x.heap -> Seq(Cell)]
    BY <1>1 DEF Rewritten
  <1>3. x \in Elves(x.heap)
    BY DEF Typed
  <1>4. y \in Elves(h)
    BY <1>2, <1>3 DEF Elves
  <1>5. Heap(h) /\ DOMAIN h = DOMAIN x.heap
    BY <1>2 DEF Typed, Heap
  <1> QED BY <1>1, <1>2, <1>3, <1>4, <1>5 DEF Typed, Elves

LEMMA RewrittenShape ==
  ASSUME NEW x, Typed(x), Owned(x), Sized(x), NEW y, Rewritten(x, y)
  PROVE  /\ Owned(y) /\ Sized(y)
         /\ Frozen(y) <=> Frozen(x)
         /\ Source(y) = Source(x)
         /\ \A s : /\ IsLoaded(y, s) <=> IsLoaded(x, s)
                   /\ HasNone(y, s) <=> HasNone(x, s)
                   /\ Unread(y, s) <=> Unread(x, s)
                   /\ Inside(y, s) <=> Inside(x, s)
                   /\ InPlace(y, s) <=> InPlace(x, s)
  <1>1. /\ DOMAIN y.heap = DOMAIN x.heap
        /\ y.e_data = x.e_data /\ y.e_rawdata = x.e_rawdata /\ y.e_size = x.e_size
        /\ y.e_cooked = x.e_cooked /\ y.s_offset = x.s_offset /\ y.s_size = x.s_size
        /\ y.sd_memdata = x.sd_memdata /\ y.sd_free_data = x.sd_free_data
        /\ y.d_size = x.d_size /\ y.d_buf = x.d_buf /\ y.replaced = x.replaced
        /\ y.s_rawdata = x.s_rawdata
    BY RewrittenFields
  <1>2. /\ Frozen(y) <=> Frozen(x)
        /\ Source(y) = Source(x)
    BY <1>1 DEF Frozen, Source
  <1>3. \A s : /\ IsLoaded(y, s) <=> IsLoaded(x, s)
               /\ HasNone(y, s) <=> HasNone(x, s)
               /\ Unread(y, s) <=> Unread(x, s)
               /\ Inside(y, s) <=> Inside(x, s)
               /\ InPlace(y, s) <=> InPlace(x, s)
    BY <1>1 DEF IsLoaded, HasNone, Unread, Inside, InPlace
  <1>4. Owned(y)
    BY <1>1, <1>2 DEF Owned
  <1>5. Sized(y)
    <2>1. \A b \in DOMAIN x.heap : /\ Len(y.heap[b]) >= Len(x.heap[b])
                                  /\ Len(y.heap[b]) \in Nat /\ Len(x.heap[b]) \in Nat
      BY ElfFact DEF Rewritten
    <2>2. /\ y.e_size <= Len(y.heap[y.e_data])
          /\ y.e_rawdata # 0 => y.e_size <= Len(y.heap[y.e_rawdata])
      <3>1. x.e_size \in Nat
        BY ElfFact
      <3> QED BY <1>1, <2>1, <3>1 DEF Sized, Owned
    <2>3. ASSUME NEW s \in Scns
          PROVE  /\ y.replaced[s] => Len(y.d_buf[s]) = y.d_size[s]
                 /\ ~IsLoaded(y, s) /\ (~y.replaced[s] \/ ~HasNone(y, s)) => y.d_size[s] = y.s_size[s]
                 /\ IsLoaded(y, s) /\ ~y.replaced[s] =>
                       /\ y.sd_memdata[s].at + y.d_size[s] <= Len(y.heap[y.sd_memdata[s].block])
                       /\ y.d_size[s] > 0
      <3>1. IsLoaded(x, s) => /\ Len(y.heap[x.sd_memdata[s].block]) >= Len(x.heap[x.sd_memdata[s].block])
                              /\ Len(y.heap[x.sd_memdata[s].block]) \in Nat
                              /\ Len(x.heap[x.sd_memdata[s].block]) \in Nat
        BY <2>1, LoadedBlock
      <3>2. /\ x.replaced[s] => Len(x.d_buf[s]) = x.d_size[s]
            /\ ~IsLoaded(x, s) /\ (~x.replaced[s] \/ ~HasNone(x, s)) => x.d_size[s] = x.s_size[s]
            /\ IsLoaded(x, s) /\ ~x.replaced[s] =>
                  /\ x.sd_memdata[s].at + x.d_size[s] <= Len(x.heap[x.sd_memdata[s].block])
                  /\ x.d_size[s] > 0
        BY DEF Sized
      <3>3. x.sd_memdata[s].at \in Nat /\ x.d_size[s] \in Nat
        BY ScnFact
      <3>4. IsLoaded(x, s) /\ ~x.replaced[s] =>
               x.sd_memdata[s].at + x.d_size[s] <= Len(y.heap[x.sd_memdata[s].block])
        <4> DEFINE k == x.sd_memdata[s].block
                   e == x.sd_memdata[s].at + x.d_size[s]
        <4> SUFFICES ASSUME IsLoaded(x, s), ~x.replaced[s] PROVE e <= Len(y.heap[k])
          OBVIOUS
        <4>1. /\ Len(y.heap[k]) >= Len(x.heap[k]) /\ e <= Len(x.heap[k])
              /\ Len(y.heap[k]) \in Nat /\ Len(x.heap[k]) \in Nat /\ e \in Nat
          BY <3>1, <3>2, <3>3
        <4> HIDE DEF k, e
        <4> QED BY <4>1
      <3> QED BY <1>1, <1>3, <3>2, <3>4
    <2> QED BY <2>2, <2>3 DEF Sized
  <1> QED BY <1>2, <1>3, <1>4, <1>5

\* The first cell of a section's data is another one.
Wrote(x, s, v, y) ==
    LET p == x.sd_memdata[s]
    IN  /\ y = [x EXCEPT !.heap = y.heap]
        /\ y.heap = [x.heap EXCEPT ![p.block] =
                        Overwritten(x.heap[p.block], p.at, << InMemory(v) >>)]

LEMMA WroteFact ==
  ASSUME NEW x, Typed(x), Owned(x), Sized(x), NEW s \in Scns, IsLoaded(x, s), ~x.replaced[s],
         NEW v \in Nat, NEW y, Wrote(x, s, v, y)
  PROVE  /\ Rewritten(x, y)
         /\ \A b \in DOMAIN x.heap \ {x.sd_memdata[s].block} : y.heap[b] = x.heap[b]
         /\ y.heap[x.sd_memdata[s].block][x.sd_memdata[s].at + 1] = InMemory(v)
         /\ \A i \in 1 .. Len(x.heap[x.sd_memdata[s].block]) \ {x.sd_memdata[s].at + 1} :
               y.heap[x.sd_memdata[s].block][i] = x.heap[x.sd_memdata[s].block][i]
  <1> DEFINE p == x.sd_memdata[s]
             cs == x.heap[p.block]
             by == << InMemory(v) >>
             new == Overwritten(cs, p.at, by)
  <1>1. /\ p.block \in DOMAIN x.heap /\ p.at \in Nat /\ cs \in Seq(Cell)
        /\ p.at + 1 <= Len(cs)
    <2>1. p.block \in DOMAIN x.heap /\ p.at \in Nat /\ cs \in Seq(Cell)
      BY LoadedBlock, ElfFact, ScnFact
    <2>2. p.at + x.d_size[s] <= Len(cs) /\ x.d_size[s] > 0 /\ x.d_size[s] \in Nat
      BY ScnFact DEF Sized
    <2> HIDE DEF p, cs
    <2> QED BY <2>1, <2>2
  <1>2. by \in Seq(Cell) /\ Len(by) = 1 /\ by[1] = InMemory(v)
    BY CellFact
  <1>3. y = [x EXCEPT !.heap = y.heap] /\ y.heap = [x.heap EXCEPT ![p.block] = new]
    BY DEF Wrote
  <1> HIDE DEF p, cs, by
  <1>4. /\ new \in Seq(Cell) /\ Len(new) = Len(cs)
        /\ \A i \in 1 .. Len(cs) : new[i] = IF i - p.at \in 1 .. Len(by) THEN by[i - p.at] ELSE cs[i]
    BY <1>1, <1>2, OverwrittenFact
  <1>5. x.heap \in [DOMAIN x.heap -> Seq(Cell)]
    BY DEF Typed, Heap
  <1> HIDE DEF new
  <1>6. /\ y.heap \in [DOMAIN x.heap -> Seq(Cell)] /\ y.heap[p.block] = new
        /\ \A b \in DOMAIN x.heap \ {p.block} : y.heap[b] = x.heap[b]
    BY <1>1, <1>3, <1>4, <1>5
  <1>7. Rewritten(x, y)
    BY <1>3, <1>4, <1>6 DEF Rewritten, cs
  <1>8. new[p.at + 1] = InMemory(v)
    <2>1. p.at + 1 \in 1 .. Len(cs) /\ (p.at + 1) - p.at = 1
      BY <1>1
    <2> QED BY <1>2, <1>4, <2>1
  <1>9. ASSUME NEW i \in 1 .. Len(cs), i # p.at + 1 PROVE new[i] = cs[i]
    <2>1. i - p.at \notin 1 .. Len(by)
      BY <1>1, <1>2, <1>9
    <2> QED BY <1>4, <2>1
  <1> QED BY <1>6, <1>7, <1>8, <1>9 DEF p, cs

LEMMA FirstApart ==
  ASSUME NEW o \in Nat, NEW m \in Nat, NEW p \in Nat, NEW n \in Nat, n > 0, Disjoint(o, m, p, n),
         NEW i \in 1 .. m
  PROVE  o + i # p + 1
  BY DEF Disjoint

LEMMA FirstChanged ==
  ASSUME NEW q \in Seq(Nat), NEW v \in Nat
  PROVE  /\ [q EXCEPT ![1] = v] \in Seq(Nat) /\ Len([q EXCEPT ![1] = v]) = Len(q)
         /\ \A i \in 1 .. Len(q) : [q EXCEPT ![1] = v][i] = IF i = 1 THEN v ELSE q[i]
  <1> DEFINE f == [q EXCEPT ![1] = v]
  <1>1. Len(q) \in Nat /\ q \in [1 .. Len(q) -> Nat]
    OBVIOUS
  <1>2. f \in [1 .. Len(q) -> Nat] /\ \A i \in 1 .. Len(q) : f[i] = IF i = 1 THEN v ELSE q[i]
    BY <1>1
  <1> HIDE DEF f
  <1>3. f \in Seq(Nat) /\ Len(f) = Len(q)
    BY <1>1, <1>2, SeqDef
  <1> QED BY <1>2, <1>3 DEF f

LEMMA WroteSource ==
  ASSUME NEW x, Typed(x), Owned(x), Sized(x), NEW s \in Scns, InPlace(x, s), NEW sp, NEW ag,
         Laid(x, sp, ag), "image" \in ag, NEW t \in Scns \ sp, Unread(x, t),
         x.sd_memdata[s].block = Source(x)
  PROVE  /\ x.sd_memdata[s].at \in Nat /\ x.s_offset[t] \in Nat /\ x.s_size[t] \in Nat
         /\ \A i \in 1 .. x.s_size[t] : x.s_offset[t] + i # x.sd_memdata[s].at + 1
  <1>1. x.sd_memdata[s].block = x.e_data /\ ~Frozen(x) /\ t # s
    BY LoadedBlock DEF InPlace, Unread
  <1>2. /\ Disjoint(x.s_offset[t], x.s_size[t], x.s_offset[s], x.s_size[s])
        /\ x.sd_memdata[s].at = x.s_offset[s] /\ x.d_size[s] = x.s_size[s]
    BY <1>1 DEF Laid
  <1>3. /\ x.s_offset[t] \in Nat /\ x.s_size[t] \in Nat
        /\ x.s_offset[s] \in Nat /\ x.s_size[s] \in Nat
    BY ScnFact
  <1>4. x.s_size[s] > 0
    BY <1>2 DEF Sized, InPlace
  <1>5. ASSUME NEW i \in 1 .. x.s_size[t] PROVE x.s_offset[t] + i # x.s_offset[s] + 1
    BY <1>2, <1>3, <1>4 DEF Disjoint
  <1> QED BY <1>2, <1>3, <1>5

\* elf_getdata's buffers may be written through.
LEMMA WroteGood ==
  ASSUME NEW x, NEW c, NEW sp, NEW fr, NEW ag, NEW fl, Good(x, c, sp, fr, ag, fl),
         NEW s \in Scns, IsLoaded(x, s), ~x.replaced[s], NEW v \in Nat, NEW y, Wrote(x, s, v, y)
  PROVE  Good(y, [c EXCEPT ![s][1] = v], sp, fr, ag, fl) /\ y.e_data = x.e_data /\ y.e_rawdata = x.e_rawdata
  <1> DEFINE k == x.sd_memdata[s].block
             a == x.sd_memdata[s].at
             d == [c EXCEPT ![s][1] = v]
  <1>0. /\ Typed(x) /\ Owned(x) /\ Sized(x) /\ Laid(x, sp, ag)
        /\ c \in [Scns -> Seq(Nat)] /\ sp \subseteq Scns /\ c[s] \in Seq(Nat)
    BY DEF Good
  <1>1. /\ Rewritten(x, y)
        /\ \A b \in DOMAIN x.heap \ {k} : y.heap[b] = x.heap[b]
        /\ y.heap[k][a + 1] = InMemory(v)
        /\ \A i \in 1 .. Len(x.heap[k]) \ {a + 1} : y.heap[k][i] = x.heap[k][i]
    BY <1>0, WroteFact, SMTT(30)
  <1>2. /\ Typed(y) /\ DOMAIN y.heap = DOMAIN x.heap
        /\ y.e_data = x.e_data /\ y.e_rawdata = x.e_rawdata /\ y.e_size = x.e_size
        /\ y.e_cooked = x.e_cooked /\ y.s_offset = x.s_offset /\ y.s_size = x.s_size
        /\ y.sd_memdata = x.sd_memdata /\ y.sd_free_data = x.sd_free_data
        /\ y.d_size = x.d_size /\ y.d_buf = x.d_buf /\ y.replaced = x.replaced
        /\ y.s_rawdata = x.s_rawdata
    BY <1>0, <1>1, RewrittenFields
  <1>3. /\ Owned(y) /\ Sized(y)
        /\ Frozen(y) <=> Frozen(x)
        /\ Source(y) = Source(x)
        /\ \A t : /\ IsLoaded(y, t) <=> IsLoaded(x, t)
                  /\ HasNone(y, t) <=> HasNone(x, t)
                  /\ Unread(y, t) <=> Unread(x, t)
                  /\ Inside(y, t) <=> Inside(x, t)
                  /\ InPlace(y, t) <=> InPlace(x, t)
    BY <1>0, <1>1, RewrittenShape
  <1>4. /\ k \in DOMAIN x.heap /\ a \in Nat /\ x.heap[k] \in Seq(Cell)
        /\ ~x.sd_free_data[s] => k = x.e_data /\ ~Frozen(x) /\ x.e_cooked
        /\ x.sd_free_data[s] => k \notin {x.e_data, x.e_rawdata}
    <2>1. k \in DOMAIN x.heap /\ a \in Nat
      BY <1>0, LoadedBlock, ScnFact
    <2>2. x.heap[k] \in Seq(Cell)
      BY <1>0, <2>1, ElfFact
    <2>3. ~x.sd_free_data[s] => x.e_cooked
      BY <1>0 DEF Owned, IsLoaded
    <2> QED BY <1>0, <2>1, <2>2, <2>3, LoadedBlock
  <1>5. d \in [Scns -> Seq(Nat)] /\ \A t \in Scns \ {s} : d[t] = c[t]
    <2>1. [c[s] EXCEPT ![1] = v] \in Seq(Nat)
      BY <1>0, FirstChanged
    <2>2. d = [c EXCEPT ![s] = [c[s] EXCEPT ![1] = v]]
      OBVIOUS
    <2> HIDE DEF d
    <2> QED BY <1>0, <2>1, <2>2
  <1>6. /\ Len(d[s]) = Len(c[s]) /\ \A i \in 1 .. Len(c[s]) : d[s][i] = IF i = 1 THEN v ELSE c[s][i]
    <2>1. d[s] = [c[s] EXCEPT ![1] = v]
      BY <1>0
    <2> HIDE DEF d
    <2> QED BY <1>0, <2>1, FirstChanged
  <1> HIDE DEF k, a, d
  <1>7. Laid(y, sp, ag)
    BY <1>0, <1>2, <1>3 DEF Laid
  <1>8. DataOK(y, d, sp)
    <2> SUFFICES ASSUME NEW t \in Scns \ sp, ~Unread(y, t)
                 PROVE  Current(y, d, t)
      BY DEF DataOK
    <2>1. ~Unread(x, t) /\ Current(x, c, t) /\ t \in Scns
      BY <1>3 DEF Good, DataOK
    <2>2. CASE t # s
      <3>1. ASSUME IsLoaded(x, t), ~x.replaced[t], NEW i \in 1 .. x.d_size[t]
            PROVE  x.heap[x.sd_memdata[t].block][x.sd_memdata[t].at + i]
                     = y.heap[x.sd_memdata[t].block][x.sd_memdata[t].at + i]
        <4>1. x.sd_memdata[t].block \in DOMAIN x.heap
          BY <1>0, <2>1, <3>1, LoadedBlock
        <4>2. CASE x.sd_memdata[t].block # k
          BY <1>1, <4>1, <4>2
        <4>3. CASE x.sd_memdata[t].block = k
          <5>1. InPlace(x, s) /\ InPlace(x, t)
            BY <1>0, <1>4, <2>1, <2>2, <3>1, <4>3, LoadedBlock DEF Owned, InPlace, k
          <5>2. Disjoint(x.sd_memdata[t].at, x.d_size[t], a, x.d_size[s])
            BY <1>0, <2>2, <5>1 DEF Laid, a
          <5>3. /\ x.sd_memdata[t].at \in Nat /\ x.d_size[t] \in Nat /\ x.d_size[s] \in Nat
                /\ x.d_size[s] > 0 /\ x.sd_memdata[t].at + x.d_size[t] <= Len(x.heap[k])
            BY <1>0, <2>1, <3>1, <4>3, ScnFact DEF Sized
          <5>4. x.sd_memdata[t].at + i # a + 1 /\ x.sd_memdata[t].at + i \in 1 .. Len(x.heap[k])
            <6>1. Len(x.heap[k]) \in Nat
              BY <1>4
            <6>2. x.sd_memdata[t].at + i \in 1 .. Len(x.heap[k])
              BY <5>3, <6>1, ShiftFact
            <6>3. x.sd_memdata[t].at + i # a + 1
              BY <1>4, <5>2, <5>3, FirstApart
            <6> QED BY <6>2, <6>3
          <5> QED BY <1>1, <4>3, <5>4
        <4> QED BY <4>2, <4>3
      <3>2. DataOf(y, t) = DataOf(x, t)
        <4>1. /\ y.replaced[t] <=> x.replaced[t]
              /\ y.d_buf[t] = x.d_buf[t] /\ y.d_size[t] = x.d_size[t]
              /\ IsLoaded(y, t) <=> IsLoaded(x, t)
          BY <1>2, <1>3
        <4>2. ASSUME IsLoaded(x, t), ~x.replaced[t]
              PROVE  \A i \in 1 .. x.d_size[t] :
                        y.heap[y.sd_memdata[t].block][y.sd_memdata[t].at + i]
                          = x.heap[x.sd_memdata[t].block][x.sd_memdata[t].at + i]
          BY <1>2, <3>1, <4>2
        <4>3. Typed(x) /\ Owned(x) /\ Sized(x) /\ Typed(y) /\ Owned(y) /\ Sized(y) /\ t \in Scns
          BY <1>0, <1>2, <1>3
        <4> QED BY <4>1, <4>2, <4>3, DataSame
      <3> QED BY <1>5, <2>1, <2>2, <3>2 DEF Current
    <2>3. CASE t = s
      <3>1. /\ DataOf(x, s) \in Seq(Cell) /\ Len(DataOf(x, s)) = x.d_size[s]
            /\ \A i \in 1 .. x.d_size[s] : DataOf(x, s)[i] = x.heap[k][a + i]
        BY <1>0, DataOfLoaded DEF k, a
      <3>2. /\ DataOf(y, s) \in Seq(Cell) /\ Len(DataOf(y, s)) = x.d_size[s]
            /\ \A i \in 1 .. x.d_size[s] : DataOf(y, s)[i] = y.heap[k][a + i]
        <4>1. /\ Typed(y) /\ Owned(y) /\ Sized(y) /\ IsLoaded(y, s) /\ ~y.replaced[s]
              /\ y.sd_memdata = x.sd_memdata /\ y.d_size = x.d_size
          BY <1>2, <1>3
        <4>2. /\ DataOf(y, s) \in Seq(Cell) /\ Len(DataOf(y, s)) = y.d_size[s]
              /\ \A i \in 1 .. y.d_size[s] :
                    DataOf(y, s)[i] = y.heap[y.sd_memdata[s].block][y.sd_memdata[s].at + i]
          BY <4>1, DataOfLoaded
        <4> QED BY <4>1, <4>2 DEF k, a
      <3>3. /\ x.d_size[s] \in Nat /\ a + x.d_size[s] <= Len(x.heap[k])
            /\ x.d_size[s] = Len(c[s])
            /\ \A i \in 1 .. Len(c[s]) : DataOf(x, s)[i] = InMemory(c[s][i])
        <4>1. a + x.d_size[s] <= Len(x.heap[k])
          BY <1>0 DEF Sized, a, k
        <4>2. x.d_size[s] \in Nat
          BY <1>0, ScnFact
        <4>3. Len(DataOf(x, s)) = Len(c[s]) /\ \A i \in DOMAIN c[s] : DataOf(x, s)[i] = InMemory(c[s][i])
          BY <2>1, <2>3 DEF Current
        <4>4. DOMAIN c[s] = 1 .. Len(c[s])
          BY <1>0
        <4> QED BY <3>1, <4>1, <4>2, <4>3, <4>4
      <3>4. ASSUME NEW i \in 1 .. Len(c[s]) PROVE DataOf(y, s)[i] = InMemory(d[s][i])
        <4>1. CASE i = 1
          BY <1>1, <1>6, <3>2, <3>3, <4>1
        <4>2. CASE i # 1
          <5>1. a + i \in 1 .. Len(x.heap[k]) \ {a + 1}
            BY <1>4, <3>3, <4>2
          <5> QED BY <1>1, <1>6, <3>1, <3>2, <3>3, <4>2, <5>1, SMTT(30)
        <4> QED BY <4>1, <4>2
      <3>5. DOMAIN d[s] = 1 .. Len(c[s])
        BY <1>5, <1>6
      <3> QED BY <1>6, <2>3, <3>2, <3>3, <3>4, <3>5 DEF Current
    <2> QED BY <2>2, <2>3
  <1>9. SourceOK(y, d, sp, ag, fl)
    <2> SUFFICES ASSUME "image" \in ag, NEW t \in Scns \ sp, Unread(y, t), Inside(y, t)
                 PROVE  /\ Len(d[t]) = y.s_size[t]
                        /\ \A i \in 1 .. y.s_size[t] :
                              /\ fl[y.s_offset[t] + i] = InFile(d[t][i])
                              /\ y.heap[Source(y)][y.s_offset[t] + i] = InFile(d[t][i])
      BY DEF SourceOK
    <2>1. Unread(x, t) /\ Inside(x, t) /\ t # s /\ t \in Scns
      BY <1>3 DEF Unread
    <2>2. /\ Len(c[t]) = x.s_size[t]
          /\ \A i \in 1 .. x.s_size[t] :
                /\ fl[x.s_offset[t] + i] = InFile(c[t][i])
                /\ x.heap[Source(x)][x.s_offset[t] + i] = InFile(c[t][i])
      BY <2>1 DEF Good, SourceOK
    <2>3. Source(x) \in DOMAIN x.heap /\ x.e_size <= Len(x.heap[Source(x)]) /\ x.e_size \in Nat
      BY <1>0, ElfFact DEF Source, Owned, Sized
    <2>4. ASSUME NEW i \in 1 .. x.s_size[t]
          PROVE  y.heap[Source(x)][x.s_offset[t] + i] = x.heap[Source(x)][x.s_offset[t] + i]
      <3>1. CASE Source(x) # k
        BY <1>1, <2>3, <3>1
      <3>2. CASE Source(x) = k
        <4>1. InPlace(x, s)
          BY <1>4, <3>2 DEF Source, InPlace
        <4>2. /\ x.s_offset[t] \in Nat /\ x.s_size[t] \in Nat
              /\ \A j \in 1 .. x.s_size[t] : x.s_offset[t] + j # a + 1
          BY <1>0, <2>1, <3>2, <4>1, WroteSource DEF k, a
        <4>3. x.s_offset[t] + i \in 1 .. Len(x.heap[k])
          <5>1. Len(x.heap[k]) \in Nat /\ x.s_offset[t] + x.s_size[t] <= x.e_size
            BY <1>4, <2>1 DEF Inside
          <5>2. x.e_size <= Len(x.heap[k])
            BY <2>3, <3>2
          <5>3. i \in Nat /\ 1 <= i /\ i <= x.s_size[t]
            BY <4>2
          <5>4. x.s_offset[t] + x.s_size[t] <= Len(x.heap[k])
            BY <2>3, <4>2, <5>1, <5>2, SMTT(30)
          <5> QED BY <4>2, <5>1, <5>4, ShiftFact
        <4> QED BY <1>1, <3>2, <4>2, <4>3
      <3> QED BY <3>1, <3>2
    <2>5. y.heap[Source(y)] = y.heap[Source(x)] /\ d[t] = c[t]
          /\ y.s_offset[t] = x.s_offset[t] /\ y.s_size[t] = x.s_size[t]
      BY <1>2, <1>3, <1>5, <2>1
    <2> QED BY <2>2, <2>4, <2>5
  <1>10. RawOK(y, fr, ag, fl)
    <2>1. RawOK(x, fr, ag, fl)
      BY DEF Good
    <2>2. /\ ~x.e_cooked => y.heap[x.e_data] = x.heap[x.e_data]
          /\ x.e_rawdata # 0 => y.heap[x.e_rawdata] = x.heap[x.e_rawdata]
      BY <1>0, <1>1, <1>4, ScnFact DEF Owned, Frozen
    <2>3. ASSUME NEW t \in Scns, x.s_rawdata[t] # 0
          PROVE  y.heap[x.s_rawdata[t]] = x.heap[x.s_rawdata[t]]
      BY <1>0, <1>1, <1>4, <2>3, ScnFact DEF Owned, k
    <2> QED BY <1>2, <2>1, <2>2, <2>3 DEF RawOK
  <1>11. Good(y, d, sp, fr, ag, fl)
    BY <1>2, <1>3, <1>5, <1>7, <1>8, <1>9, <1>10 DEF Good
  <1> QED BY <1>2, <1>11 DEF d

\* The section has a buffer of the application's.
Given(x, s, n, v, y) ==
    y = [x EXCEPT !.replaced[s] = TRUE, !.d_size[s] = n,
                  !.d_buf[s] = [i \in 1 .. n |-> InMemory(v)]]

GivenFrame(x, s, n, v, y) ==
    /\ Typed(y) /\ y.heap = x.heap
    /\ y.e_data = x.e_data /\ y.e_rawdata = x.e_rawdata /\ y.e_size = x.e_size
    /\ y.e_cooked = x.e_cooked /\ y.s_offset = x.s_offset /\ y.s_size = x.s_size
    /\ y.sd_memdata = x.sd_memdata /\ y.sd_free_data = x.sd_free_data
    /\ y.s_rawdata = x.s_rawdata
    /\ y.replaced[s] = TRUE /\ y.d_size[s] = n
    /\ y.d_buf[s] \in Seq(Cell) /\ Len(y.d_buf[s]) = n
    /\ \A i \in 1 .. n : y.d_buf[s][i] = InMemory(v)
    /\ \A t \in Scns \ {s} : /\ y.replaced[t] = x.replaced[t]
                             /\ y.d_size[t] = x.d_size[t] /\ y.d_buf[t] = x.d_buf[t]

LEMMA GivenFields ==
  ASSUME NEW x, Typed(x), NEW s \in Scns, NEW n \in Nat, NEW v \in Nat, NEW y, Given(x, s, n, v, y)
  PROVE  GivenFrame(x, s, n, v, y)
  <1> DEFINE b == [i \in 1 .. n |-> InMemory(v)]
             r == [x.replaced EXCEPT ![s] = TRUE]
             z == [x.d_size EXCEPT ![s] = n]
             f == [x.d_buf EXCEPT ![s] = b]
  <1>1. b \in Seq(Cell) /\ Len(b) = n /\ \A i \in 1 .. n : b[i] = InMemory(v)
    <2>1. b \in [1 .. n -> Cell] /\ \A i \in 1 .. n : b[i] = InMemory(v)
      BY CellFact
    <2> HIDE DEF b
    <2> QED BY <2>1, SeqDef
  <1>2. y = [x EXCEPT !.replaced = r, !.d_size = z, !.d_buf = f]
    BY DEF Given
  <1> HIDE DEF b
  <1>3. /\ r \in [Scns -> BOOLEAN] /\ z \in [Scns -> Nat] /\ f \in [Scns -> Seq(Cell)]
        /\ r[s] = TRUE /\ z[s] = n /\ f[s] = b
        /\ \A t \in Scns \ {s} : r[t] = x.replaced[t] /\ z[t] = x.d_size[t] /\ f[t] = x.d_buf[t]
    BY <1>1, ElfFact
  <1>4. x \in Elves(x.heap) /\ Heap(x.heap)
    BY DEF Typed
  <1> HIDE DEF r, z, f
  <1>5. y \in Elves(x.heap) /\ y.heap = x.heap /\ y.replaced = r /\ y.d_size = z /\ y.d_buf = f
    BY <1>2, <1>3, <1>4 DEF Elves
  <1>6. /\ y.e_data = x.e_data /\ y.e_rawdata = x.e_rawdata /\ y.e_size = x.e_size
        /\ y.e_cooked = x.e_cooked /\ y.s_offset = x.s_offset /\ y.s_size = x.s_size
        /\ y.sd_memdata = x.sd_memdata /\ y.sd_free_data = x.sd_free_data
        /\ y.s_rawdata = x.s_rawdata
    BY <1>2, <1>4 DEF Elves
  <1>7. Typed(y)
    BY <1>4, <1>5 DEF Typed
  <1> QED BY <1>1, <1>3, <1>5, <1>6, <1>7 DEF GivenFrame

Filled(c, s, n, v) == [c EXCEPT ![s] = [i \in 1 .. n |-> v]]

LEMMA GivenGood ==
  ASSUME NEW x, NEW c, NEW sp, NEW fr, NEW ag, NEW fl, Good(x, c, sp, fr, ag, fl),
         NEW s \in Scns, ~Unread(x, s), NEW n \in Nat, NEW v \in Nat, NEW y, Given(x, s, n, v, y)
  PROVE  /\ Good(y, Filled(c, s, n, v), sp, fr, ag, fl)
         /\ y.e_data = x.e_data /\ y.e_rawdata = x.e_rawdata
  <1> DEFINE b == [i \in 1 .. n |-> v]
             d == [c EXCEPT ![s] = b]
  <1>0. /\ Typed(x) /\ Owned(x) /\ Sized(x) /\ Laid(x, sp, ag)
        /\ c \in [Scns -> Seq(Nat)] /\ sp \subseteq Scns
    BY DEF Good
  <1>1. /\ Typed(y) /\ y.heap = x.heap
        /\ y.e_data = x.e_data /\ y.e_rawdata = x.e_rawdata /\ y.e_size = x.e_size
        /\ y.e_cooked = x.e_cooked /\ y.s_offset = x.s_offset /\ y.s_size = x.s_size
        /\ y.sd_memdata = x.sd_memdata /\ y.sd_free_data = x.sd_free_data
        /\ y.s_rawdata = x.s_rawdata
        /\ y.replaced[s] = TRUE /\ y.d_size[s] = n
        /\ y.d_buf[s] \in Seq(Cell) /\ Len(y.d_buf[s]) = n
        /\ \A i \in 1 .. n : y.d_buf[s][i] = InMemory(v)
        /\ \A t \in Scns \ {s} : /\ y.replaced[t] = x.replaced[t]
                                 /\ y.d_size[t] = x.d_size[t] /\ y.d_buf[t] = x.d_buf[t]
    <2>1. GivenFrame(x, s, n, v, y)
      BY <1>0, GivenFields
    <2> QED BY <2>1 DEF GivenFrame
  <1>2. /\ Frozen(y) <=> Frozen(x)
        /\ Source(y) = Source(x)
        /\ \A t : /\ IsLoaded(y, t) <=> IsLoaded(x, t)
                  /\ HasNone(y, t) <=> HasNone(x, t)
                  /\ Unread(y, t) <=> Unread(x, t)
                  /\ Inside(y, t) <=> Inside(x, t)
    BY <1>1 DEF Frozen, Source, IsLoaded, HasNone, Unread, Inside
  <1>3. ~InPlace(y, s) /\ \A t \in Scns \ {s} : InPlace(y, t) <=> InPlace(x, t)
    BY <1>1, <1>2 DEF InPlace
  <1>4. b \in Seq(Nat) /\ Len(b) = n /\ \A i \in 1 .. n : b[i] = v
    <2>1. b \in [1 .. n -> Nat] /\ \A i \in 1 .. n : b[i] = v
      OBVIOUS
    <2> HIDE DEF b
    <2> QED BY <2>1, SeqDef
  <1> HIDE DEF b
  <1>5. /\ d \in [Scns -> Seq(Nat)] /\ d[s] = b /\ \A t \in Scns \ {s} : d[t] = c[t]
    BY <1>0, <1>4
  <1> HIDE DEF d
  <1>6. Owned(y)
    BY <1>0, <1>1, <1>2 DEF Owned
  <1>7. Sized(y)
    <2>1. y.e_size <= Len(y.heap[y.e_data]) /\ (y.e_rawdata # 0 => y.e_size <= Len(y.heap[y.e_rawdata]))
      BY <1>0, <1>1 DEF Sized
    <2>2. ASSUME NEW t \in Scns
          PROVE  /\ y.replaced[t] => Len(y.d_buf[t]) = y.d_size[t]
                 /\ ~IsLoaded(y, t) /\ (~y.replaced[t] \/ ~HasNone(y, t)) => y.d_size[t] = y.s_size[t]
                 /\ IsLoaded(y, t) /\ ~y.replaced[t] =>
                       /\ y.sd_memdata[t].at + y.d_size[t] <= Len(y.heap[y.sd_memdata[t].block])
                       /\ y.d_size[t] > 0
      <3>1. CASE t = s
        <4>1. IsLoaded(y, s) \/ HasNone(y, s)
          BY <1>2 DEF Unread
        <4> QED BY <1>1, <3>1, <4>1
      <3>2. CASE t # s
        <4>1. /\ x.replaced[t] => Len(x.d_buf[t]) = x.d_size[t]
              /\ ~IsLoaded(x, t) /\ (~x.replaced[t] \/ ~HasNone(x, t)) => x.d_size[t] = x.s_size[t]
              /\ IsLoaded(x, t) /\ ~x.replaced[t] =>
                    /\ x.sd_memdata[t].at + x.d_size[t] <= Len(x.heap[x.sd_memdata[t].block])
                    /\ x.d_size[t] > 0
          BY <1>0 DEF Sized
        <4> QED BY <1>1, <1>2, <3>2, <4>1
      <3> QED BY <3>1, <3>2
    <2> QED BY <2>1, <2>2 DEF Sized
  <1>8. Laid(y, sp, ag)
    <2>1. \A t \in Scns : InPlace(y, t) => InPlace(x, t) /\ y.d_size[t] = x.d_size[t]
      BY <1>1, <1>3
    <2> QED BY <1>0, <1>1, <1>2, <2>1 DEF Laid
  <1>9. DataOK(y, d, sp)
    <2> SUFFICES ASSUME NEW t \in Scns \ sp, ~Unread(y, t) PROVE Current(y, d, t)
      BY DEF DataOK
    <2>1. CASE t = s
      <3>1. DataOf(y, s) = y.d_buf[s]
        BY <1>1, DataOfOther
      <3>2. DOMAIN b = 1 .. n
        BY <1>4
      <3> QED BY <1>1, <1>4, <1>5, <2>1, <3>1, <3>2 DEF Current
    <2>2. CASE t # s
      <3>1. Current(x, c, t)
        BY <1>2 DEF Good, DataOK
      <3>2. DataOf(y, t) = DataOf(x, t)
        <4>1. y.replaced[t] = x.replaced[t] /\ y.d_size[t] = x.d_size[t] /\ y.d_buf[t] = x.d_buf[t]
          BY <1>1, <2>2
        <4> QED BY <1>1, <4>1 DEF DataOf
      <3>3. d[t] = c[t]
        BY <1>5, <2>2
      <3> QED BY <3>1, <3>2, <3>3 DEF Current
    <2> QED BY <2>1, <2>2
  <1>10. SourceOK(y, d, sp, ag, fl)
    <2>1. \A t \in Scns : Unread(y, t) => Unread(x, t) /\ d[t] = c[t]
      BY <1>2, <1>5
    <2>2. SourceOK(x, c, sp, ag, fl)
      BY DEF Good
    <2> QED BY <1>1, <1>2, <2>1, <2>2 DEF SourceOK
  <1>11. RawOK(y, fr, ag, fl)
    <2>1. RawOK(x, fr, ag, fl)
      BY DEF Good
    <2> QED BY <1>1, <2>1 DEF RawOK
  <1>12. Good(y, d, sp, fr, ag, fl)
    BY <1>1, <1>5, <1>6, <1>7, <1>8, <1>9, <1>10, <1>11 DEF Good
  <1> QED BY <1>1, <1>12 DEF d, b, Filled

-----------------------------------------------------------------------------
(***************************************************************************)
(* The image that is written.                                              *)
(***************************************************************************)
LEMMA BuiltTurn ==
  ASSUME NEW x, NEW o
  PROVE  /\ Built(x, o)[0] = << InFile(1) >>
         /\ \A k \in 1 .. Cardinality(Scns) :
               Built(x, o)[k] = Built(x, o)[k - 1] \o Turned(DataOf(x, o[k]), -1)
  <1> DEFINE n == Cardinality(Scns)
             Body(f, m) == [k \in 0 .. m |-> IF k = 0 THEN << InFile(1) >>
                                             ELSE f[k - 1] \o Turned(DataOf(x, o[k]), -1)]
             S == {m \in 0 .. n : \E f : f = Body(f, m)}
  <1>0. n \in Nat
    BY ScnsFact
  <1>1. 0 \in S
    <2>1. [k \in 0 .. 0 |-> << InFile(1) >>] = Body([k \in 0 .. 0 |-> << InFile(1) >>], 0)
      OBVIOUS
    <2> HIDE DEF Body
    <2>2. \E f : f = Body(f, 0)
      BY <2>1
    <2> QED BY <1>0, <2>2
  <1>2. ASSUME NEW m \in 1 .. n, m - 1 \in S PROVE m \in S
    <2>1. PICK f : f = Body(f, m - 1)
      BY <1>2
    <2>0. ASSUME NEW h PROVE Body(h, m)[m] = h[m - 1] \o Turned(DataOf(x, o[m]), -1)
      <3>1. m \in 0 .. m /\ m # 0
        BY <1>0
      <3> QED BY <3>1
    <2> DEFINE last == f[m - 1] \o Turned(DataOf(x, o[m]), -1)
               g == [k \in 0 .. m |-> IF k = m THEN last ELSE f[k]]
    <2>2. g = Body(g, m)
      <3>1. ASSUME NEW k \in 0 .. m PROVE g[k] = Body(g, m)[k]
        <4>1. CASE k = m
          <5>1. g[m] = last /\ g[m - 1] = f[m - 1]
            BY <1>0
          <5>2. Body(g, m)[m] = g[m - 1] \o Turned(DataOf(x, o[m]), -1)
            BY <2>0
          <5> QED BY <4>1, <5>1, <5>2
        <4>2. CASE k # m
          <5>1. k \in 0 .. m - 1 /\ g[k] = f[k]
            BY <1>0, <4>2
          <5>2. f[k] = Body(f, m - 1)[k]
            <6> HIDE DEF Body
            <6> QED BY <2>1
          <5>3. k # 0 => g[k - 1] = f[k - 1]
            BY <1>0, <4>2
          <5> HIDE DEF g
          <5> QED BY <5>1, <5>2, <5>3
        <4> QED BY <4>1, <4>2
      <3> QED BY <3>1
    <2> HIDE DEF Body, g
    <2>3. \E h : h = Body(h, m)
      BY <2>2
    <2> QED BY <2>3
  <1>3. n \in S
    <2> HIDE DEF S
    <2>1. 0 .. n \subseteq S
      BY <1>0, <1>1, <1>2, UpTo
    <2> QED BY <1>0, <2>1
  <1>4. Built(x, o) = CHOOSE f : f = Body(f, n)
    BY DEF Built
  <1>5. Built(x, o) = Body(Built(x, o), n)
    <2> HIDE DEF Body
    <2> QED BY <1>3, <1>4
  <1> HIDE DEF S
  <1> QED BY <1>0, <1>5

\* What each section adds.
Adds(x, o, k) ==
    /\ Built(x, o)[k] \in Seq(Cell)
    /\ Len(Built(x, o)[k]) = Len(Built(x, o)[k - 1]) + Len(DataOf(x, o[k]))
    /\ \A i \in 1 .. Len(Built(x, o)[k - 1]) : Built(x, o)[k][i] = Built(x, o)[k - 1][i]
    /\ \A i \in 1 .. Len(DataOf(x, o[k])) :
          Built(x, o)[k][Len(Built(x, o)[k - 1]) + i] = [DataOf(x, o[k])[i] EXCEPT !.times = @ + (-1)]

LEMMA BuiltStep ==
  ASSUME NEW x, Typed(x), Owned(x), Sized(x), NEW o \in [1 .. Cardinality(Scns) -> Scns],
         NEW k \in 1 .. Cardinality(Scns), Built(x, o)[k - 1] \in Seq(Cell)
  PROVE  Adds(x, o, k)
  <1> DEFINE a == Built(x, o)[k - 1]
             d == DataOf(x, o[k])
             b == Turned(d, -1)
  <1>1. Built(x, o)[k] = a \o b
    BY BuiltTurn
  <1>2. d \in Seq(Cell)
    BY DataOfType
  <1> HIDE DEF d
  <1>3. /\ b \in Seq(Cell) /\ Len(b) = Len(d)
        /\ \A i \in 1 .. Len(d) : b[i] = [d[i] EXCEPT !.times = @ + (-1)]
    BY <1>2, TurnedFact
  <1> HIDE DEF a, b
  <1>4. /\ a \o b \in Seq(Cell) /\ Len(a \o b) = Len(a) + Len(b)
        /\ \A i \in 1 .. Len(a) : (a \o b)[i] = a[i]
        /\ \A i \in 1 .. Len(b) : (a \o b)[Len(a) + i] = b[i]
    <2>1. a \in Seq(Cell)
      BY DEF a
    <2>2. ASSUME NEW p \in Seq(Cell), NEW q \in Seq(Cell)
          PROVE  /\ p \o q \in Seq(Cell) /\ Len(p \o q) = Len(p) + Len(q)
                 /\ \A i \in 1 .. Len(p) : (p \o q)[i] = p[i]
                 /\ \A i \in 1 .. Len(q) : (p \o q)[Len(p) + i] = q[i]
      OBVIOUS
    <2> QED BY <1>3, <2>1, <2>2
  <1> QED BY <1>1, <1>3, <1>4 DEF a, d, Adds

LEMMA BuiltType ==
  ASSUME NEW x, Typed(x), Owned(x), Sized(x), NEW o \in [1 .. Cardinality(Scns) -> Scns]
  PROVE  \A k \in 0 .. Cardinality(Scns) : Built(x, o)[k] \in Seq(Cell)
  <1> DEFINE n == Cardinality(Scns)
             S == {k \in 0 .. n : Built(x, o)[k] \in Seq(Cell)}
  <1>0. n \in Nat
    BY ScnsFact
  <1>1. 0 \in S
    <2>1. << InFile(1) >> \in Seq(Cell)
      BY CellFact
    <2>2. Built(x, o)[0] \in Seq(Cell)
      BY <2>1, BuiltTurn
    <2> QED BY <1>0, <2>2
  <1>2. ASSUME NEW k \in 1 .. n, k - 1 \in S PROVE k \in S
    <2>1. Built(x, o)[k - 1] \in Seq(Cell)
      BY <1>2
    <2>2. Built(x, o)[k] \in Seq(Cell)
      BY <2>1, BuiltStep DEF Adds
    <2> QED BY <1>0, <2>2
  <1> HIDE DEF S
  <1>3. 0 .. n \subseteq S
    BY <1>0, <1>1, <1>2, UpTo
  <1> QED BY <1>3 DEF S

\* What was there stays.
LEMMA BuiltGrows ==
  ASSUME NEW x, Typed(x), Owned(x), Sized(x), NEW o \in [1 .. Cardinality(Scns) -> Scns],
         NEW j \in 0 .. Cardinality(Scns), NEW k \in 0 .. Cardinality(Scns), j <= k
  PROVE  /\ Len(Built(x, o)[j]) <= Len(Built(x, o)[k])
         /\ \A i \in 1 .. Len(Built(x, o)[j]) : Built(x, o)[k][i] = Built(x, o)[j][i]
  <1> DEFINE n == Cardinality(Scns)
             B == Built(x, o)
             S == {m \in 0 .. n : j <= m => /\ Len(B[j]) <= Len(B[m])
                                            /\ \A i \in 1 .. Len(B[j]) : B[m][i] = B[j][i]}
  <1>0. n \in Nat /\ \A m \in 0 .. n : B[m] \in Seq(Cell) /\ Len(B[m]) \in Nat
    BY ScnsFact, BuiltType
  <1>1. 0 \in S
    <2>1. j <= 0 => j = 0
      BY <1>0
    <2> QED BY <1>0, <2>1
  <1>2. ASSUME NEW m \in 1 .. n, m - 1 \in S PROVE m \in S
    <2>1. /\ Len(B[m]) = Len(B[m - 1]) + Len(DataOf(x, o[m]))
          /\ \A i \in 1 .. Len(B[m - 1]) : B[m][i] = B[m - 1][i]
      <3>1. m - 1 \in 0 .. n
        BY <1>0
      <3>2. B[m - 1] \in Seq(Cell)
        BY <1>0, <3>1
      <3>3. Adds(x, o, m)
        BY <3>2, BuiltStep
      <3> QED BY <3>3 DEF Adds
    <2>2. o[m] \in Scns /\ DataOf(x, o[m]) \in Seq(Cell) /\ Len(DataOf(x, o[m])) \in Nat
      BY <1>0, DataOfType
    <2> HIDE DEF B
    <2>3. CASE j = m
      BY <1>0, <2>3
    <2>4. CASE j # m
      <3>1. j <= m => j <= m - 1
        BY <1>0, <2>4
      <3>2. j <= m - 1 => /\ Len(B[j]) <= Len(B[m - 1])
                          /\ \A i \in 1 .. Len(B[j]) : B[m - 1][i] = B[j][i]
        BY <1>2
      <3>3. m \in 0 .. n /\ m - 1 \in 0 .. n
        BY <1>0
      <3>4. Len(B[j]) \in Nat /\ Len(B[m - 1]) \in Nat /\ Len(B[m]) \in Nat
        BY <1>0, <3>3
      <3>5. j <= m => Len(B[j]) <= Len(B[m]) /\ Len(B[j]) <= Len(B[m - 1])
        BY <2>1, <2>2, <3>1, <3>2, <3>4
      <3>6. ASSUME j <= m, NEW i \in 1 .. Len(B[j]) PROVE B[m][i] = B[j][i]
        <4>1. i \in 1 .. Len(B[m - 1])
          BY <3>4, <3>5, <3>6
        <4> QED BY <2>1, <3>1, <3>2, <3>6, <4>1
      <3> QED BY <3>3, <3>5, <3>6
    <2> QED BY <2>3, <2>4
  <1> HIDE DEF S
  <1>3. 0 .. n \subseteq S
    BY <1>0, <1>1, <1>2, UpTo
  <1> QED BY <1>3 DEF S

\* Every section has a place.
LEMMA PlaceFact ==
  ASSUME NEW o \in Orders, NEW s \in Scns
  PROVE  PlaceOf(o, s) \in 1 .. Cardinality(Scns) /\ o[PlaceOf(o, s)] = s
  <1> DEFINE n == Cardinality(Scns)
             N == 1 .. n
  <1>0. n \in Nat /\ Scns = N /\ IsFiniteSet(Scns)
    BY ScnsFact, FilesAssumption
  <1>1. o \in [N -> Scns] /\ o \in Injection(N, Scns)
    BY DEF Orders, Injection
  <1> HIDE DEF N
  <1>2. Cardinality(N) = n
    BY <1>0
  <1>3. o \in Surjection(N, Scns)
    BY <1>0, <1>1, <1>2, FS_Injection
  <1>4. \E i \in N : o[i] = s
    BY <1>3 DEF Surjection
  <1>5. DOMAIN o = N
    BY <1>1
  <1> QED BY <1>4, <1>5 DEF PlaceOf, N

\* An image with the data of every section, translated back.
ImageOf(x, out, h) ==
    /\ out \in Seq(Cell) /\ h.offset \in [Scns -> Nat] /\ h.size \in [Scns -> Nat]
    /\ \A s \in Scns :
          /\ h.size[s] = Len(DataOf(x, s)) /\ h.offset[s] + h.size[s] <= Len(out)
          /\ \A i \in 1 .. h.size[s] :
                out[h.offset[s] + i] = [DataOf(x, s)[i] EXCEPT !.times = @ + (-1)]

LEMMA OutFact ==
  ASSUME NEW x, Typed(x), Owned(x), Sized(x), NEW o \in Orders
  PROVE  ImageOf(x, Out(x, o), Headers(x, o))
  <1> DEFINE n == Cardinality(Scns)
             B == Built(x, o)
             h == Headers(x, o)
  <1>0. n \in Nat /\ o \in [1 .. n -> Scns]
    BY ScnsFact DEF Orders
  <1>1. \A k \in 0 .. n : B[k] \in Seq(Cell)
    BY <1>0, BuiltType
  <1>2. \A s \in Scns : PlaceOf(o, s) \in 1 .. n /\ o[PlaceOf(o, s)] = s
    BY PlaceFact
  <1>3. Out(x, o) = B[n] /\ Out(x, o) \in Seq(Cell)
    BY <1>0, <1>1 DEF Out
  <1>4. /\ h.offset = [s \in Scns |-> Len(B[PlaceOf(o, s) - 1])]
        /\ h.size = [s \in Scns |-> Len(DataOf(x, s))]
    BY DEF Headers
  <1> HIDE DEF h, B
  <1>5. ASSUME NEW s \in Scns
        PROVE  /\ h.offset[s] \in Nat /\ h.size[s] \in Nat
               /\ h.size[s] = Len(DataOf(x, s)) /\ h.offset[s] + h.size[s] <= Len(Out(x, o))
               /\ \A i \in 1 .. h.size[s] :
                     Out(x, o)[h.offset[s] + i] = [DataOf(x, s)[i] EXCEPT !.times = @ + (-1)]
    <2> DEFINE k == PlaceOf(o, s)
               a == B[k - 1]
               b == B[k]
               d == DataOf(x, s)
    <2>1. k \in 1 .. n /\ o[k] = s /\ k - 1 \in 0 .. n /\ k \in 0 .. n
      BY <1>0, <1>2
    <2>2. a \in Seq(Cell) /\ b \in Seq(Cell) /\ d \in Seq(Cell)
      BY <1>1, <2>1, DataOfType
    <2>3. h.offset[s] = Len(a) /\ h.size[s] = Len(d)
      BY <1>4
    <2>4. Adds(x, o, k)
      <3>1. Built(x, o)[k - 1] \in Seq(Cell)
        BY <2>2 DEF B
      <3> HIDE DEF k
      <3> QED BY <1>0, <2>1, <3>1, BuiltStep
    <2>5. /\ Len(b) = Len(a) + Len(d)
          /\ \A i \in 1 .. Len(d) : b[Len(a) + i] = [d[i] EXCEPT !.times = @ + (-1)]
      <3> HIDE DEF k
      <3> QED BY <2>1, <2>4 DEF Adds, B
    <2>6. Len(b) <= Len(B[n]) /\ \A i \in 1 .. Len(b) : B[n][i] = b[i]
      <3> HIDE DEF k
      <3>1. n \in 0 .. n /\ k <= n
        BY <1>0, <2>1
      <3> QED BY <1>0, <2>1, <3>1, BuiltGrows DEF B
    <2> HIDE DEF a, b, d, k
    <2>7. Len(a) \in Nat /\ Len(b) \in Nat /\ Len(d) \in Nat
      BY <2>2
    <2>8. ASSUME NEW i \in 1 .. Len(d) PROVE B[n][Len(a) + i] = [d[i] EXCEPT !.times = @ + (-1)]
      <3>1. Len(a) + i \in 1 .. Len(b)
        BY <2>5, <2>7
      <3> QED BY <2>5, <2>6, <3>1
    <2> QED BY <1>3, <2>3, <2>5, <2>6, <2>7, <2>8 DEF d
  <1>6. h.offset \in [Scns -> Nat] /\ h.size \in [Scns -> Nat]
    BY <1>4, <1>5
  <1> QED BY <1>3, <1>5, <1>6 DEF ImageOf, h

\* What was current is in the image.
InImage(c, s, out, h) ==
    /\ Len(c[s]) = h.size[s]
    /\ \A i \in 1 .. h.size[s] : out[h.offset[s] + i] = InFile(c[s][i])

LEMMA ImageCurrent ==
  ASSUME NEW x, NEW c \in [Scns -> Seq(Nat)], NEW s \in Scns, Current(x, c, s),
         NEW out, NEW h, ImageOf(x, out, h)
  PROVE  InImage(c, s, out, h)
  <1>1. /\ h.size[s] = Len(DataOf(x, s))
        /\ \A i \in 1 .. h.size[s] :
              out[h.offset[s] + i] = [DataOf(x, s)[i] EXCEPT !.times = @ + (-1)]
    BY DEF ImageOf
  <1>2. Len(DataOf(x, s)) = Len(c[s]) /\ \A i \in DOMAIN c[s] : DataOf(x, s)[i] = InMemory(c[s][i])
    BY DEF Current
  <1>3. c[s] \in Seq(Nat) /\ DOMAIN c[s] = 1 .. Len(c[s])
    OBVIOUS
  <1>4. ASSUME NEW i \in 1 .. h.size[s] PROVE out[h.offset[s] + i] = InFile(c[s][i])
    <2>1. c[s][i] \in Nat /\ DataOf(x, s)[i] = InMemory(c[s][i])
      BY <1>1, <1>2, <1>3
    <2>2. [InMemory(c[s][i]) EXCEPT !.times = @ + (-1)] = InFile(c[s][i])
      BY <2>1, TurnedCell
    <2>3. out[h.offset[s] + i] = [DataOf(x, s)[i] EXCEPT !.times = @ + (-1)]
      BY <1>1
    <2> QED BY <2>1, <2>2, <2>3
  <1> QED BY <1>1, <1>2, <1>4 DEF InImage

-----------------------------------------------------------------------------
(***************************************************************************)
(* The file image is resized, moves, and pointers follow.                  *)
(***************************************************************************)
\* Where the file image may be afterwards.
Target(x, d) == d = x.e_data \/ d = NewBlock(x)

LEMMA TargetFact ==
  ASSUME NEW x, Typed(x), Owned(x), NEW d, Target(x, d)
  PROVE  /\ d \in Nat \ {0} /\ d \notin DOMAIN x.heap \ {x.e_data}
         /\ d = x.e_rawdata => Frozen(x)
         /\ \A s \in Scns : /\ x.sd_free_data[s] => x.sd_memdata[s].block # d
                            /\ x.s_rawdata[s] # 0 => x.s_rawdata[s] # d
  <1>1. CASE d = x.e_data
    <2>1. d \in Nat \ {0} /\ x.e_data \in DOMAIN x.heap
      BY <1>1, ElfFact DEF Owned
    <2> QED BY <1>1, <2>1 DEF Owned, Frozen
  <1>2. CASE d = NewBlock(x)
    BY <1>2, NewBlockFact
  <1> QED BY <1>1, <1>2 DEF Target

\* h is the heap after the file image, resized for out, is at d.
Resizing(x, out, d, h) ==
    /\ Heap(h) /\ DOMAIN h = (DOMAIN x.heap \ {x.e_data}) \cup {d}
    /\ Len(h[d]) >= Len(out) /\ Len(h[d]) >= Len(x.heap[x.e_data])
    /\ \A i \in 1 .. Len(x.heap[x.e_data]) : h[d][i] = x.heap[x.e_data][i]
    /\ \A b \in DOMAIN x.heap \ {x.e_data} : h[b] = x.heap[b]

LEMMA ReallocatedFact ==
  ASSUME NEW x, Typed(x), Owned(x), NEW out \in Seq(Cell), NEW d, Target(x, d)
  PROVE  Resizing(x, out, d, Reallocated(x, out, d))
  <1> DEFINE old == x.heap[x.e_data]
             m == Max({Len(out), Len(old)})
             cs == Resized(old, m)
             D == Dropped(x.heap, {x.e_data})
             h == [b \in DOMAIN D \cup {d} |-> IF b = d THEN cs ELSE D[b]]
  <1>1. x.e_data \in DOMAIN x.heap /\ old \in Seq(Cell)
    BY ElfFact DEF Owned
  <1>2. d \in Nat \ {0} /\ d \notin DOMAIN x.heap \ {x.e_data}
    BY TargetFact
  <1>3. Len(out) \in Nat /\ Len(old) \in Nat
    BY <1>1
  <1>4. m \in Nat /\ m >= Len(out) /\ m >= Len(old)
    BY <1>3, MaxOfTwo
  <1>5. Reallocated(x, out, d) = h
    BY DEF Reallocated, Placed
  <1> HIDE DEF m, old
  <1>6. /\ cs \in Seq(Cell) /\ Len(cs) = m
        /\ \A i \in 1 .. m : i <= Len(old) => cs[i] = old[i]
    BY <1>1, <1>4, ResizedFact
  <1>7. DOMAIN D = DOMAIN x.heap \ {x.e_data} /\ \A b \in DOMAIN D : D[b] = x.heap[b]
    BY DEF Dropped
  <1> HIDE DEF cs, D
  <1>8. \A b \in DOMAIN x.heap : b \in Nat \ {0} /\ x.heap[b] \in Seq(Cell)
    BY ElfFact
  <1>9. Heap(h)
    <2>1. h \in [DOMAIN h -> Seq(Cell)]
      BY <1>6, <1>7, <1>8
    <2>2. DOMAIN h \subseteq Nat \ {0}
      BY <1>2, <1>7, <1>8
    <2> QED BY <2>1, <2>2 DEF Heap
  <1>10. /\ DOMAIN h = (DOMAIN x.heap \ {x.e_data}) \cup {d} /\ h[d] = cs
         /\ \A b \in DOMAIN x.heap \ {x.e_data} : h[b] = x.heap[b]
    BY <1>2, <1>7
  <1> HIDE DEF h
  <1>11. \A i \in 1 .. Len(old) : h[d][i] = old[i]
    BY <1>3, <1>4, <1>6, <1>10
  <1> QED BY <1>4, <1>5, <1>6, <1>9, <1>10, <1>11 DEF Resizing, old

\* y is x with another heap, other images, pointers and headers.
Saved(x, y, h, d, r, md, hd, n) ==
    y = [x EXCEPT !.heap = h, !.e_data = d, !.e_rawdata = r, !.sd_memdata = md,
                  !.s_offset = hd.offset, !.s_size = hd.size, !.e_size = n]

SavedFrame(x, y, h, d, r, md, hd, n) ==
    /\ Typed(y) /\ y.heap = h /\ y.e_data = d /\ y.e_rawdata = r /\ y.sd_memdata = md
    /\ y.s_offset = hd.offset /\ y.s_size = hd.size /\ y.e_size = n
    /\ y.e_cooked = x.e_cooked /\ y.sd_free_data = x.sd_free_data
    /\ y.d_size = x.d_size /\ y.d_buf = x.d_buf /\ y.replaced = x.replaced
    /\ y.s_rawdata = x.s_rawdata

LEMMA SavedFields ==
  ASSUME NEW x, Typed(x), NEW h, Heap(h), NEW d \in Nat, NEW r \in Nat,
         NEW md \in [Scns -> [block : Nat, at : Nat]],
         NEW hd, hd.offset \in [Scns -> Nat], hd.size \in [Scns -> Nat], NEW n \in Nat,
         NEW y, Saved(x, y, h, d, r, md, hd, n)
  PROVE  SavedFrame(x, y, h, d, r, md, hd, n)
  <1>1. PICK o, z : o = hd.offset /\ z = hd.size
    OBVIOUS
  <1>2. /\ y = [x EXCEPT !.heap = h, !.e_data = d, !.e_rawdata = r, !.sd_memdata = md,
                        !.s_offset = o, !.s_size = z, !.e_size = n]
        /\ o \in [Scns -> Nat] /\ z \in [Scns -> Nat]
    BY <1>1 DEF Saved
  <1>3. x \in Elves(x.heap)
    BY DEF Typed
  <1>4. y \in Elves(h) /\ y.heap = h
    BY <1>2, <1>3 DEF Elves
  <1>5. /\ y.e_data = d /\ y.e_rawdata = r /\ y.sd_memdata = md
        /\ y.s_offset = o /\ y.s_size = z /\ y.e_size = n
    BY <1>2, <1>3 DEF Elves
  <1>6. /\ y.e_cooked = x.e_cooked /\ y.sd_free_data = x.sd_free_data
        /\ y.d_size = x.d_size /\ y.d_buf = x.d_buf /\ y.replaced = x.replaced
        /\ y.s_rawdata = x.s_rawdata
    BY <1>2, <1>3 DEF Elves
  <1>7. Typed(y)
    BY <1>4 DEF Typed
  <1> QED BY <1>1, <1>4, <1>5, <1>6, <1>7 DEF SavedFrame

\* elf_update when the file image is the raw image too.
LEMMA FrozenSaved ==
  ASSUME NEW x, Typed(x), Owned(x), Sized(x), Frozen(x), \A s \in Scns : ~Unread(x, s),
         NEW c \in [Scns -> Seq(Nat)], NEW sp \in SUBSET Scns, DataOK(x, c, sp),
         NEW out, NEW hd, ImageOf(x, out, hd), NEW d, Target(x, d),
         NEW H, Resizing(x, out, d, H),
         NEW y, Saved(x, y, [H EXCEPT ![d] = Overwritten(H[d], 0, out)], d, d, x.sd_memdata, hd, Len(out))
  PROVE  Good(y, c, sp, {0}, {"fields", "image"}, out)
  <1> DEFINE cs == Overwritten(H[d], 0, out)
             h == [H EXCEPT ![d] = cs]
  <1>1. /\ out \in Seq(Cell) /\ hd.offset \in [Scns -> Nat] /\ hd.size \in [Scns -> Nat]
        /\ \A s \in Scns : hd.size[s] = Len(DataOf(x, s)) /\ hd.offset[s] + hd.size[s] <= Len(out)
    BY DEF ImageOf
  <1>2. /\ Heap(H) /\ DOMAIN H = (DOMAIN x.heap \ {x.e_data}) \cup {d}
        /\ Len(H[d]) >= Len(out)
        /\ \A b \in DOMAIN x.heap \ {x.e_data} : H[b] = x.heap[b]
    BY DEF Resizing
  <1>3. /\ d \in Nat \ {0} /\ d \notin DOMAIN x.heap \ {x.e_data}
        /\ \A s \in Scns : /\ x.sd_free_data[s] => x.sd_memdata[s].block # d
                           /\ x.s_rawdata[s] # 0 => x.s_rawdata[s] # d
    BY TargetFact
  <1>4. H[d] \in Seq(Cell) /\ Len(out) \in Nat /\ Len(H[d]) \in Nat
    <2>1. H[d] \in Seq(Cell)
      BY <1>2 DEF Heap
    <2> QED BY <1>1, <2>1
  <1>5. /\ cs \in Seq(Cell) /\ Len(cs) = Len(H[d])
        /\ \A i \in 1 .. Len(out) : cs[i] = out[i]
    <2>1. /\ cs \in Seq(Cell) /\ Len(cs) = Len(H[d])
          /\ \A i \in 1 .. Len(H[d]) : cs[i] = IF i - 0 \in 1 .. Len(out) THEN out[i - 0] ELSE H[d][i]
      <3>1. 0 \in Nat
        OBVIOUS
      <3> QED BY <1>1, <1>4, <3>1, OverwrittenFact
    <2> HIDE DEF cs
    <2>2. ASSUME NEW i \in 1 .. Len(out) PROVE cs[i] = out[i]
      <3>1. i \in 1 .. Len(H[d]) /\ i - 0 = i
        BY <1>2, <1>4
      <3> QED BY <2>1, <3>1
    <2> QED BY <2>1, <2>2
  <1> HIDE DEF cs
  <1>6. /\ Heap(h) /\ DOMAIN h = (DOMAIN x.heap \ {x.e_data}) \cup {d} /\ h[d] = cs
        /\ \A b \in DOMAIN x.heap \ {x.e_data} : h[b] = x.heap[b]
    BY <1>2, <1>3, <1>5 DEF Heap
  <1>7. Saved(x, y, h, d, d, x.sd_memdata, hd, Len(out))
    BY DEF cs
  <1> HIDE DEF h
  <1>8. /\ Typed(y) /\ y.heap = h /\ y.e_data = d /\ y.e_rawdata = d /\ y.sd_memdata = x.sd_memdata
        /\ y.s_offset = hd.offset /\ y.s_size = hd.size /\ y.e_size = Len(out)
        /\ y.e_cooked = x.e_cooked /\ y.sd_free_data = x.sd_free_data
        /\ y.d_size = x.d_size /\ y.d_buf = x.d_buf /\ y.replaced = x.replaced
        /\ y.s_rawdata = x.s_rawdata
    <2>1. SavedFrame(x, y, h, d, d, x.sd_memdata, hd, Len(out))
      BY <1>1, <1>3, <1>4, <1>6, <1>7, ElfFact, SavedFields
    <2> QED BY <2>1 DEF SavedFrame
  <1>9. /\ ~x.e_cooked /\ x.e_rawdata = x.e_data /\ Frozen(y)
        /\ \A s \in Scns : /\ IsLoaded(x, s) => x.sd_free_data[s]
                           /\ IsLoaded(y, s) <=> IsLoaded(x, s)
    BY <1>8, ScnFact DEF Owned, Frozen, IsLoaded
  <1>10. Owned(y)
    <2>1. \A s \in Scns :
             /\ x.sd_free_data[s] => x.sd_memdata[s].block \in DOMAIN x.heap \ {x.e_data, x.e_rawdata}
             /\ x.s_rawdata[s] # 0 => x.s_rawdata[s] \in DOMAIN x.heap \ {x.e_data, x.e_rawdata}
      BY DEF Owned
    <2>2. \A s \in Scns :
             /\ y.sd_free_data[s] => y.sd_memdata[s].block \in DOMAIN y.heap \ {y.e_data, y.e_rawdata}
             /\ y.s_rawdata[s] # 0 => y.s_rawdata[s] \in DOMAIN y.heap \ {y.e_data, y.e_rawdata}
             /\ y.sd_memdata[s] # Null => y.sd_free_data[s]
      BY <1>3, <1>6, <1>8, <1>9, <2>1 DEF IsLoaded
    <2>3. \A s, t \in Scns :
             /\ y.sd_free_data[s] /\ y.s_rawdata[t] # 0 => y.sd_memdata[s].block # y.s_rawdata[t]
             /\ s # t /\ y.sd_free_data[s] /\ y.sd_free_data[t] =>
                   y.sd_memdata[s].block # y.sd_memdata[t].block
             /\ s # t /\ y.s_rawdata[s] # 0 => y.s_rawdata[s] # y.s_rawdata[t]
      BY <1>8 DEF Owned
    <2>4. \A b \in DOMAIN y.heap \ {y.e_data, y.e_rawdata} :
             \E s \in Scns : b = y.s_rawdata[s] \/ (y.sd_free_data[s] /\ b = y.sd_memdata[s].block)
      <3>1. \A b \in DOMAIN y.heap \ {y.e_data, y.e_rawdata} :
               b \in DOMAIN x.heap \ {x.e_data, x.e_rawdata}
        BY <1>6, <1>8, <1>9
      <3> QED BY <1>8, <3>1 DEF Owned
    <2>5. y.e_data \in DOMAIN y.heap /\ y.e_rawdata \in DOMAIN y.heap /\ ~y.e_cooked
      BY <1>6, <1>8, <1>9
    <2> QED BY <2>2, <2>3, <2>4, <2>5 DEF Owned
  <1>11. ASSUME NEW s \in Scns, IsLoaded(x, s)
         PROVE  /\ x.sd_memdata[s].block \in DOMAIN x.heap \ {x.e_data}
                /\ h[x.sd_memdata[s].block] = x.heap[x.sd_memdata[s].block]
    BY <1>6, <1>9, <1>11 DEF Owned
  <1>12. ASSUME NEW s \in Scns, ~IsLoaded(x, s)
         PROVE  /\ x.replaced[s] => x.d_size[s] = hd.size[s]
                /\ ~x.replaced[s] => x.d_size[s] = 0 /\ hd.size[s] = 0
    <2>1. CASE x.replaced[s]
      BY <1>1, <2>1, DataOfOther, ZenonT(30) DEF Sized
    <2>2. CASE ~x.replaced[s]
      <3>1. HasNone(x, s)
        BY <1>12 DEF Unread
      <3>2. x.d_size[s] = 0
        BY <1>12, <2>2, <3>1 DEF Sized, HasNone
      <3>3. DataOf(x, s) = << >>
        BY <1>12, <2>2, DataOfOther
      <3> QED BY <1>1, <2>2, <3>2, <3>3
    <2> QED BY <2>1, <2>2
  <1>13. Sized(y)
    <2>1. y.e_size <= Len(y.heap[y.e_data]) /\ y.e_size <= Len(y.heap[y.e_rawdata])
      BY <1>2, <1>4, <1>5, <1>6, <1>8
    <2>2. ASSUME NEW s \in Scns
          PROVE  /\ y.replaced[s] => Len(y.d_buf[s]) = y.d_size[s]
                 /\ ~IsLoaded(y, s) /\ (~y.replaced[s] \/ ~HasNone(y, s)) => y.d_size[s] = y.s_size[s]
                 /\ IsLoaded(y, s) /\ ~y.replaced[s] =>
                       /\ y.sd_memdata[s].at + y.d_size[s] <= Len(y.heap[y.sd_memdata[s].block])
                       /\ y.d_size[s] > 0
      <3>1. /\ x.replaced[s] => Len(x.d_buf[s]) = x.d_size[s]
            /\ IsLoaded(x, s) /\ ~x.replaced[s] =>
                  /\ x.sd_memdata[s].at + x.d_size[s] <= Len(x.heap[x.sd_memdata[s].block])
                  /\ x.d_size[s] > 0
        BY DEF Sized
      <3>2. ~IsLoaded(y, s) => x.d_size[s] = hd.size[s]
        BY <1>9, <1>12
      <3> QED BY <1>8, <1>9, <1>11, <3>1, <3>2
    <2> QED BY <2>1, <2>2 DEF Sized
  <1>14. Laid(y, sp, {"fields", "image"})
    BY <1>8, <1>9 DEF Laid, InPlace
  <1>15. ASSUME NEW s \in Scns \ sp
         PROVE  Current(x, c, s) /\ DataOf(y, s) = DataOf(x, s)
    <2>1. Current(x, c, s)
      BY DEF DataOK
    <2>2. ASSUME IsLoaded(x, s), ~x.replaced[s]
          PROVE  \A i \in 1 .. x.d_size[s] :
                    y.heap[y.sd_memdata[s].block][y.sd_memdata[s].at + i]
                      = x.heap[x.sd_memdata[s].block][x.sd_memdata[s].at + i]
      BY <1>8, <1>11, <2>2
    <2>3. /\ y.replaced[s] <=> x.replaced[s]
          /\ y.d_buf[s] = x.d_buf[s] /\ y.d_size[s] = x.d_size[s]
          /\ IsLoaded(y, s) <=> IsLoaded(x, s)
      BY <1>8, <1>9
    <2>4. DataOf(y, s) = DataOf(x, s)
      BY <1>8, <1>10, <1>13, <2>2, <2>3, DataSame
    <2> QED BY <2>1, <2>4
  <1>16. DataOK(y, c, sp)
    BY <1>15 DEF DataOK, Current
  <1>17. SourceOK(y, c, sp, {"fields", "image"}, out)
    <2> SUFFICES ASSUME NEW s \in Scns \ sp
                 PROVE  /\ Len(c[s]) = y.s_size[s]
                        /\ \A i \in 1 .. y.s_size[s] :
                              /\ out[y.s_offset[s] + i] = InFile(c[s][i])
                              /\ y.heap[Source(y)][y.s_offset[s] + i] = InFile(c[s][i])
      BY DEF SourceOK
    <2>1. /\ Len(c[s]) = hd.size[s]
          /\ \A i \in 1 .. hd.size[s] : out[hd.offset[s] + i] = InFile(c[s][i])
      <3>1. s \in Scns /\ Current(x, c, s)
        BY <1>15
      <3>2. InImage(c, s, out, hd)
        BY <3>1, ImageCurrent
      <3> QED BY <3>2 DEF InImage
    <2>2. y.heap[Source(y)] = cs
      BY <1>3, <1>6, <1>8 DEF Source
    <2>3. ASSUME NEW i \in 1 .. hd.size[s] PROVE cs[hd.offset[s] + i] = out[hd.offset[s] + i]
      <3>1. hd.offset[s] \in Nat /\ hd.size[s] \in Nat /\ hd.offset[s] + hd.size[s] <= Len(out)
        BY <1>1
      <3>2. hd.offset[s] + i \in 1 .. Len(out)
        BY <1>4, <3>1, ShiftFact
      <3> QED BY <1>5, <3>2
    <2> QED BY <1>8, <2>1, <2>2, <2>3
  <1>18. RawOK(y, {0}, {"fields", "image"}, out)
    <2>1. Part(cs, 0, Len(out)) = out
      <3>1. Len(out) <= Len(cs)
        BY <1>2, <1>4, <1>5
      <3>2. /\ Part(cs, 0, Len(out)) \in Seq(Cell) /\ Len(Part(cs, 0, Len(out))) = Len(out)
            /\ \A i \in 1 .. Len(out) : Part(cs, 0, Len(out))[i] = cs[i]
        BY <1>4, <1>5, <3>1, PartFirst
      <3>3. \A i \in 1 .. Len(out) : Part(cs, 0, Len(out))[i] = out[i]
        BY <1>5, <3>2
      <3> QED BY <1>1, <3>2, <3>3, SameCells
    <2>2. {0} \ {0} = {}
      OBVIOUS
    <2>3. "fields" \in {"fields", "image"}
      OBVIOUS
    <2> QED BY <1>3, <1>6, <1>8, <2>1, <2>2, <2>3 DEF RawOK
  <1> QED BY <1>1, <1>8, <1>10, <1>13, <1>14, <1>16, <1>17, <1>18 DEF Good

\* What becomes of a block that is not the file image.
UpdatedIs(x, b, out, hd, moved) ==
    /\ Updated(x, b, out, hd, moved) \in Seq(Cell)
    /\ b = x.e_rawdata => Updated(x, b, out, hd, moved) = out
    /\ b # x.e_rawdata /\ (\A s \in Scns : x.s_rawdata[s] # b) =>
          Updated(x, b, out, hd, moved) = x.heap[b]
    /\ \A s \in CopiesOf(x) : moved /\ x.s_rawdata[s] = b =>
          Updated(x, b, out, hd, moved) = Part(out, hd.offset[s], hd.size[s])

LEMMA UpdatedFact ==
  ASSUME NEW x, Typed(x), Owned(x), NEW out, NEW hd, ImageOf(x, out, hd),
         NEW moved \in BOOLEAN, NEW b \in DOMAIN x.heap \ {x.e_data}
  PROVE  UpdatedIs(x, b, out, hd, moved)
  <1> DEFINE mine == {s \in CopiesOf(x) : x.s_rawdata[s] = b}
             one == CHOOSE s \in mine : TRUE
             old == Reallocated(x, out, x.e_data)[b]
             u == Updated(x, b, out, hd, moved)
  <1>1. u = IF b = x.e_rawdata THEN out
            ELSE IF moved /\ mine # {} THEN Part(out, hd.offset[one], hd.size[one]) ELSE old
    BY DEF Updated
  <1>2. out \in Seq(Cell) /\ hd.offset \in [Scns -> Nat] /\ hd.size \in [Scns -> Nat]
    BY DEF ImageOf
  <1>3. old = x.heap[b] /\ x.heap[b] \in Seq(Cell)
    <2>1. Target(x, x.e_data)
      BY DEF Target
    <2>2. Resizing(x, out, x.e_data, Reallocated(x, out, x.e_data))
      BY <1>2, <2>1, ReallocatedFact
    <2> QED BY <2>2, ElfFact DEF Resizing
  <1>4. mine \subseteq Scns /\ \A s \in mine : s \in Scns /\ x.s_rawdata[s] = b
    BY DEF CopiesOf
  <1>5. mine # {} => one \in mine
    OBVIOUS
  <1>6. b # 0 /\ b \in DOMAIN x.heap
    BY ElfFact
  <1>7. \A s, t \in mine : s = t
    BY <1>4, <1>6 DEF Owned
  <1>8. ASSUME NEW s \in mine, moved PROVE u = Part(out, hd.offset[s], hd.size[s])
    <2>1. one = s
      BY <1>5, <1>7
    <2>2. b # x.e_rawdata
      BY <1>4, <1>6 DEF Owned
    <2> HIDE DEF u, one
    <2> QED BY <1>1, <1>8, <2>1, <2>2
  <1>9. u \in Seq(Cell)
    <2>1. CASE mine # {}
      <3>1. one \in Scns /\ hd.offset[one] \in Nat /\ hd.size[one] \in Nat
        BY <1>2, <1>4, <1>5, <2>1
      <3> HIDE DEF one, u
      <3>2. Part(out, hd.offset[one], hd.size[one]) \in Seq(Cell)
        BY <1>2, <3>1, PartFact
      <3> QED BY <1>1, <1>2, <1>3, <3>2
    <2>2. CASE mine = {}
      BY <1>1, <1>2, <1>3, <2>2
    <2> QED BY <2>1, <2>2
  <1>10. (\A s \in Scns : x.s_rawdata[s] # b) => mine = {}
    BY <1>4
  <1> HIDE DEF one, u
  <1>11. b # x.e_rawdata /\ mine = {} => u = x.heap[b]
    BY <1>1, <1>3
  <1>12. b = x.e_rawdata => u = out
    BY <1>1
  <1>13. \A s \in CopiesOf(x) : x.s_rawdata[s] = b => s \in mine
    OBVIOUS
  <1> HIDE DEF mine
  <1> QED BY <1>8, <1>9, <1>10, <1>11, <1>12, <1>13 DEF u, UpdatedIs

LEMMA MovedFact ==
  ASSUME NEW x, Typed(x), Owned(x), NEW d \in Nat \ {0}
  PROVE  /\ MovedPointers(x, d) \in [Scns -> [block : Nat, at : Nat]]
         /\ \A s \in Scns :
               /\ x.sd_free_data[s] \/ ~IsLoaded(x, s) => MovedPointers(x, d)[s] = x.sd_memdata[s]
               /\ ~x.sd_free_data[s] /\ IsLoaded(x, s) =>
                     /\ MovedPointers(x, d)[s].block = d
                     /\ MovedPointers(x, d)[s].at = x.sd_memdata[s].at
               /\ MovedPointers(x, d)[s] # Null <=> IsLoaded(x, s)
  <1> DEFINE q == MovedPointers(x, d)
  <1>1. ASSUME NEW s \in Scns
        PROVE  /\ q[s] \in [block : Nat, at : Nat]
               /\ x.sd_free_data[s] \/ ~IsLoaded(x, s) => q[s] = x.sd_memdata[s]
               /\ ~x.sd_free_data[s] /\ IsLoaded(x, s) =>
                     q[s].block = d /\ q[s].at = x.sd_memdata[s].at
               /\ q[s] # Null <=> IsLoaded(x, s)
    <2> DEFINE p == x.sd_memdata[s]
    <2>1. q[s] = IF p # Null /\ ~x.sd_free_data[s] THEN [p EXCEPT !.block = d] ELSE p
      BY DEF MovedPointers
    <2>2. p \in [block : Nat, at : Nat] /\ (IsLoaded(x, s) <=> p # Null)
      BY ScnFact DEF IsLoaded
    <2> HIDE DEF p, q
    <2>3. /\ [p EXCEPT !.block = d] \in [block : Nat, at : Nat]
          /\ [p EXCEPT !.block = d].block = d /\ [p EXCEPT !.block = d].at = p.at
      BY <2>2
    <2>4. [p EXCEPT !.block = d] # Null
      BY <2>3, PointerFact
    <2> QED BY <2>1, <2>2, <2>3, <2>4 DEF p
  <1>2. q = [s \in Scns |-> q[s]]
    BY DEF MovedPointers
  <1>3. q \in [Scns -> [block : Nat, at : Nat]]
    <2> HIDE DEF q
    <2> QED BY <1>1, <1>2
  <1> QED BY <1>1, <1>3

\* The other blocks are brought up to date.
Refreshed(x, out, hd, d, H) ==
    [b \in (DOMAIN x.heap \ {x.e_data}) \cup {d} |->
        IF b = d THEN H[d] ELSE Updated(x, b, out, hd, d # x.e_data)]

\* elf_update when there is a raw image of its own, or none.
LEMMA ThawedSaved ==
  ASSUME NEW x, Typed(x), Owned(x), Sized(x), ~Frozen(x), \A s \in Scns : ~Unread(x, s),
         NEW c \in [Scns -> Seq(Nat)], NEW sp \in SUBSET Scns, NEW ag, Laid(x, sp, ag),
         DataOK(x, c, sp),
         NEW out, NEW hd, ImageOf(x, out, hd), NEW d, Target(x, d),
         NEW H, Resizing(x, out, d, H),
         NEW y, Saved(x, y, Refreshed(x, out, hd, d, H), d, x.e_rawdata, MovedPointers(x, d), hd, Len(out))
  PROVE  Good(y, c, sp, FreshAfter(x, hd, d # x.e_data), {"fields"}, out)
  <1> DEFINE h == Refreshed(x, out, hd, d, H)
             md == MovedPointers(x, d)
             fr == FreshAfter(x, hd, d # x.e_data)
  <1>1. /\ out \in Seq(Cell) /\ hd.offset \in [Scns -> Nat] /\ hd.size \in [Scns -> Nat]
        /\ \A s \in Scns : hd.size[s] = Len(DataOf(x, s)) /\ hd.offset[s] + hd.size[s] <= Len(out)
        /\ Len(out) \in Nat
    BY DEF ImageOf
  <1>2. /\ Heap(H) /\ d \in DOMAIN H
        /\ Len(H[d]) >= Len(out) /\ Len(H[d]) >= Len(x.heap[x.e_data])
        /\ \A i \in 1 .. Len(x.heap[x.e_data]) : H[d][i] = x.heap[x.e_data][i]
    BY DEF Resizing
  <1>3. /\ d \in Nat \ {0} /\ d \notin DOMAIN x.heap \ {x.e_data} /\ d # x.e_rawdata
        /\ \A s \in Scns : /\ x.sd_free_data[s] => x.sd_memdata[s].block # d
                           /\ x.s_rawdata[s] # 0 => x.s_rawdata[s] # d
    BY TargetFact
  <1>4. H[d] \in Seq(Cell)
    BY <1>2 DEF Heap
  <1>5. ASSUME NEW b \in DOMAIN x.heap \ {x.e_data}
        PROVE  /\ Updated(x, b, out, hd, d # x.e_data) \in Seq(Cell)
               /\ b = x.e_rawdata => Updated(x, b, out, hd, d # x.e_data) = out
               /\ b # x.e_rawdata /\ (\A s \in Scns : x.s_rawdata[s] # b) =>
                     Updated(x, b, out, hd, d # x.e_data) = x.heap[b]
               /\ \A s \in CopiesOf(x) : d # x.e_data /\ x.s_rawdata[s] = b =>
                     Updated(x, b, out, hd, d # x.e_data) = Part(out, hd.offset[s], hd.size[s])
    <2>1. (d # x.e_data) \in BOOLEAN
      OBVIOUS
    <2>2. UpdatedIs(x, b, out, hd, d # x.e_data)
      BY <2>1, UpdatedFact
    <2> QED BY <2>2 DEF UpdatedIs
  <1>6. /\ DOMAIN h = (DOMAIN x.heap \ {x.e_data}) \cup {d} /\ h[d] = H[d]
        /\ \A b \in DOMAIN x.heap \ {x.e_data} : h[b] = Updated(x, b, out, hd, d # x.e_data)
    BY <1>3 DEF Refreshed
  <1>7. Heap(h)
    <2>1. \A b \in DOMAIN h : h[b] \in Seq(Cell)
      BY <1>4, <1>5, <1>6
    <2>2. h = [b \in DOMAIN h |-> h[b]]
      BY DEF Refreshed
    <2>3. DOMAIN h \subseteq Nat \ {0}
      BY <1>3, <1>6, ElfFact
    <2> HIDE DEF h
    <2> QED BY <2>1, <2>2, <2>3 DEF Heap
  <1>8. /\ md \in [Scns -> [block : Nat, at : Nat]]
        /\ \A s \in Scns :
              /\ x.sd_free_data[s] \/ ~IsLoaded(x, s) => md[s] = x.sd_memdata[s]
              /\ ~x.sd_free_data[s] /\ IsLoaded(x, s) => md[s].block = d /\ md[s].at = x.sd_memdata[s].at
              /\ md[s] # Null <=> IsLoaded(x, s)
    BY <1>3, MovedFact
  <1> HIDE DEF h, md, fr
  <1>9. /\ Typed(y) /\ y.heap = h /\ y.e_data = d /\ y.e_rawdata = x.e_rawdata /\ y.sd_memdata = md
        /\ y.s_offset = hd.offset /\ y.s_size = hd.size /\ y.e_size = Len(out)
        /\ y.e_cooked = x.e_cooked /\ y.sd_free_data = x.sd_free_data
        /\ y.d_size = x.d_size /\ y.d_buf = x.d_buf /\ y.replaced = x.replaced
        /\ y.s_rawdata = x.s_rawdata
    <2>1. Saved(x, y, h, d, x.e_rawdata, md, hd, Len(out))
      BY DEF h, md
    <2>2. SavedFrame(x, y, h, d, x.e_rawdata, md, hd, Len(out))
      BY <1>1, <1>3, <1>7, <1>8, <2>1, ElfFact, SavedFields
    <2> QED BY <2>2 DEF SavedFrame
  <1>10. /\ ~Frozen(y) /\ x.e_rawdata # x.e_data
         /\ \A s \in Scns : IsLoaded(y, s) <=> IsLoaded(x, s)
    BY <1>3, <1>8, <1>9 DEF Frozen, IsLoaded
  <1>11. Owned(y)
    <2>0. \A s \in Scns : x.sd_free_data[s] => md[s] = x.sd_memdata[s]
      BY <1>8
    <2>1. \A s \in Scns :
             /\ x.sd_free_data[s] => x.sd_memdata[s].block \in DOMAIN x.heap \ {x.e_data, x.e_rawdata}
             /\ x.s_rawdata[s] # 0 => x.s_rawdata[s] \in DOMAIN x.heap \ {x.e_data, x.e_rawdata}
             /\ IsLoaded(x, s) /\ ~x.sd_free_data[s] => x.e_cooked
      BY DEF Owned, IsLoaded
    <2>2. \A s \in Scns :
             /\ y.sd_free_data[s] => y.sd_memdata[s].block \in DOMAIN y.heap \ {y.e_data, y.e_rawdata}
             /\ y.s_rawdata[s] # 0 => y.s_rawdata[s] \in DOMAIN y.heap \ {y.e_data, y.e_rawdata}
             /\ y.sd_memdata[s] # Null /\ ~y.sd_free_data[s] => y.sd_memdata[s].block = y.e_data /\ y.e_cooked
      BY <1>3, <1>6, <1>8, <1>9, <2>1
    <2>3. \A s, t \in Scns :
             /\ y.sd_free_data[s] /\ y.s_rawdata[t] # 0 => y.sd_memdata[s].block # y.s_rawdata[t]
             /\ s # t /\ y.sd_free_data[s] /\ y.sd_free_data[t] =>
                   y.sd_memdata[s].block # y.sd_memdata[t].block
             /\ s # t /\ y.s_rawdata[s] # 0 => y.s_rawdata[s] # y.s_rawdata[t]
      BY <1>9, <2>0 DEF Owned
    <2>4. \A b \in DOMAIN y.heap \ {y.e_data, y.e_rawdata} :
             \E s \in Scns : b = y.s_rawdata[s] \/ (y.sd_free_data[s] /\ b = y.sd_memdata[s].block)
      <3>1. \A b \in DOMAIN y.heap \ {y.e_data, y.e_rawdata} :
               b \in DOMAIN x.heap \ {x.e_data, x.e_rawdata}
        BY <1>6, <1>9
      <3>2. \A b \in DOMAIN x.heap \ {x.e_data, x.e_rawdata} :
               \E s \in Scns : b = x.s_rawdata[s] \/ (x.sd_free_data[s] /\ b = md[s].block)
        BY <2>0 DEF Owned
      <3> QED BY <1>9, <3>1, <3>2
    <2>5. y.e_data \in DOMAIN y.heap /\ (y.e_rawdata # 0 => y.e_rawdata \in DOMAIN y.heap)
      BY <1>6, <1>9, <1>10 DEF Owned
    <2> QED BY <1>10, <2>2, <2>3, <2>4, <2>5 DEF Owned
  <1>12. ASSUME NEW s \in Scns, IsLoaded(x, s), x.sd_free_data[s]
         PROVE  md[s] = x.sd_memdata[s] /\ h[x.sd_memdata[s].block] = x.heap[x.sd_memdata[s].block]
    <2>1. /\ x.sd_memdata[s].block \in DOMAIN x.heap \ {x.e_data, x.e_rawdata}
          /\ \A t \in Scns : x.s_rawdata[t] # 0 => x.s_rawdata[t] # x.sd_memdata[s].block
      BY <1>12 DEF Owned
    <2>2. 0 \notin DOMAIN x.heap
      BY ElfFact
    <2> DEFINE b == x.sd_memdata[s].block
    <2>3. b \in DOMAIN x.heap \ {x.e_data} /\ b # x.e_rawdata /\ \A t \in Scns : x.s_rawdata[t] # b
      BY <2>1, <2>2
    <2>4. h[b] = x.heap[b]
      <3> HIDE DEF b
      <3> QED BY <1>5, <1>6, <2>3
    <2> QED BY <1>8, <1>12, <2>4
  <1>13. ASSUME NEW s \in Scns, IsLoaded(x, s), ~x.sd_free_data[s]
         PROVE  /\ md[s].block = d /\ md[s].at = x.sd_memdata[s].at /\ h[d] = H[d]
                /\ x.sd_memdata[s].block = x.e_data
    BY <1>6, <1>8, <1>13, LoadedBlock
  <1>14. Sized(y)
    <2>1. y.e_size <= Len(y.heap[y.e_data])
      BY <1>2, <1>6, <1>9
    <2>2. y.e_rawdata # 0 => y.heap[y.e_rawdata] = out
      BY <1>5, <1>6, <1>9, <1>10 DEF Owned
    <2>3. ASSUME NEW s \in Scns
          PROVE  /\ y.replaced[s] => Len(y.d_buf[s]) = y.d_size[s]
                 /\ ~IsLoaded(y, s) /\ (~y.replaced[s] \/ ~HasNone(y, s)) => y.d_size[s] = y.s_size[s]
                 /\ IsLoaded(y, s) /\ ~y.replaced[s] =>
                       /\ y.sd_memdata[s].at + y.d_size[s] <= Len(y.heap[y.sd_memdata[s].block])
                       /\ y.d_size[s] > 0
      <3>1. /\ x.replaced[s] => Len(x.d_buf[s]) = x.d_size[s]
            /\ ~IsLoaded(x, s) /\ (~x.replaced[s] \/ ~HasNone(x, s)) => x.d_size[s] = x.s_size[s]
            /\ IsLoaded(x, s) /\ ~x.replaced[s] =>
                  /\ x.sd_memdata[s].at + x.d_size[s] <= Len(x.heap[x.sd_memdata[s].block])
                  /\ x.d_size[s] > 0
        BY DEF Sized
      <3>2. ~IsLoaded(x, s) => x.d_size[s] = hd.size[s]
        <4> SUFFICES ASSUME ~IsLoaded(x, s) PROVE x.d_size[s] = hd.size[s]
          OBVIOUS
        <4>1. CASE x.replaced[s]
          BY <1>1, <3>1, <4>1, DataOfOther
        <4>2. CASE ~x.replaced[s]
          <5>1. HasNone(x, s)
            BY DEF Unread
          <5>2. x.d_size[s] = 0
            BY <3>1, <4>2, <5>1 DEF HasNone
          <5>3. DataOf(x, s) = << >>
            BY <4>2, DataOfOther
          <5> QED BY <1>1, <5>2, <5>3
        <4> QED BY <4>1, <4>2
      <3>3. IsLoaded(x, s) /\ ~x.replaced[s] => md[s].at + x.d_size[s] <= Len(h[md[s].block])
        <4>1. CASE x.sd_free_data[s]
          BY <1>12, <3>1, <4>1
        <4>2. CASE ~x.sd_free_data[s]
          <5>1. /\ x.sd_memdata[s].at \in Nat /\ x.d_size[s] \in Nat
                /\ Len(H[d]) \in Nat /\ Len(x.heap[x.e_data]) \in Nat
            BY <1>4, ScnFact, ElfFact DEF Owned
          <5>2. Len(x.heap[x.e_data]) <= Len(H[d])
            BY <1>2, <5>1
          <5>3. ASSUME IsLoaded(x, s), ~x.replaced[s]
                PROVE  x.sd_memdata[s].at + x.d_size[s] <= Len(x.heap[x.e_data])
            BY <1>13, <3>1, <4>2, <5>3
          <5>4. ASSUME IsLoaded(x, s), ~x.replaced[s]
                PROVE  x.sd_memdata[s].at + x.d_size[s] <= Len(H[d])
            BY <5>1, <5>2, <5>3, <5>4, SMTT(30)
          <5> QED BY <1>13, <4>2, <5>4
        <4> QED BY <4>1, <4>2
      <3> QED BY <1>9, <1>10, <3>1, <3>2, <3>3
    <2> QED BY <1>1, <1>9, <2>1, <2>2, <2>3 DEF Sized
  <1>15. Laid(y, sp, {"fields"})
    <2>1. \A s \in Scns : InPlace(y, s) =>
             InPlace(x, s) /\ y.sd_memdata[s].at = x.sd_memdata[s].at /\ y.d_size[s] = x.d_size[s]
      BY <1>9, <1>10, <1>13 DEF InPlace
    <2>2. "image" \notin {"fields"}
      OBVIOUS
    <2> QED BY <2>1, <2>2 DEF Laid
  <1>16. ASSUME NEW s \in Scns
         PROVE  DataOf(y, s) = DataOf(x, s)
    <2>1. ASSUME IsLoaded(x, s), ~x.replaced[s]
          PROVE  \A i \in 1 .. x.d_size[s] :
                    y.heap[y.sd_memdata[s].block][y.sd_memdata[s].at + i]
                      = x.heap[x.sd_memdata[s].block][x.sd_memdata[s].at + i]
      <3>1. CASE x.sd_free_data[s]
        BY <1>9, <1>12, <2>1, <3>1
      <3>2. CASE ~x.sd_free_data[s]
        <4>1. /\ x.sd_memdata[s].at \in Nat /\ x.d_size[s] \in Nat /\ Len(x.heap[x.e_data]) \in Nat
              /\ x.sd_memdata[s].at + x.d_size[s] <= Len(x.heap[x.e_data])
          BY <1>13, <2>1, <3>2, ScnFact, ElfFact, SMTT(30) DEF Owned, Sized
        <4>2. ASSUME NEW i \in 1 .. x.d_size[s]
              PROVE  H[d][x.sd_memdata[s].at + i] = x.heap[x.e_data][x.sd_memdata[s].at + i]
          <5>1. x.sd_memdata[s].at + i \in 1 .. Len(x.heap[x.e_data])
            BY <4>1, ShiftFact
          <5> QED BY <1>2, <5>1
        <4>3. /\ y.sd_memdata[s].block = d /\ y.sd_memdata[s].at = x.sd_memdata[s].at
              /\ y.heap[d] = H[d] /\ x.sd_memdata[s].block = x.e_data
          BY <1>9, <1>13, <2>1, <3>2
        <4> QED BY <4>2, <4>3
      <3> QED BY <3>1, <3>2
    <2>2. /\ y.replaced[s] <=> x.replaced[s]
          /\ y.d_buf[s] = x.d_buf[s] /\ y.d_size[s] = x.d_size[s]
          /\ IsLoaded(y, s) <=> IsLoaded(x, s)
      BY <1>9, <1>10
    <2> QED BY <1>9, <1>11, <1>14, <2>1, <2>2, DataSame
  <1>17. DataOK(y, c, sp)
    BY <1>16 DEF DataOK, Current
  <1>18. SourceOK(y, c, sp, {"fields"}, out)
    BY DEF SourceOK
  <1>19. RawOK(y, fr, {"fields"}, out)
    <2>1. 0 \in fr => x.e_rawdata # 0 /\ Part(h[x.e_rawdata], 0, Len(out)) = out
      <3> SUFFICES ASSUME 0 \in fr PROVE x.e_rawdata # 0 /\ Part(h[x.e_rawdata], 0, Len(out)) = out
        OBVIOUS
      <3>1. x.e_rawdata # 0
        BY ScnsFact DEF fr, FreshAfter, CopiesOf
      <3>2. h[x.e_rawdata] = out
        BY <1>5, <1>6, <1>10, <3>1 DEF Owned
      <3> QED BY <1>1, <3>1, <3>2, PartWhole
    <2>2. ASSUME NEW s \in fr \ {0}
          PROVE  /\ s \in Scns /\ x.s_rawdata[s] # 0
                 /\ h[x.s_rawdata[s]] = Part(out, hd.offset[s], hd.size[s])
      <3>1. s \in CopiesOf(x) /\ d # x.e_data
        BY DEF fr, FreshAfter
      <3>2. s \in Scns /\ x.s_rawdata[s] # 0
        BY <3>1 DEF CopiesOf
      <3>3. x.s_rawdata[s] \in DOMAIN x.heap \ {x.e_data}
        BY <3>2 DEF Owned
      <3> QED BY <1>5, <1>6, <3>1, <3>2, <3>3
    <2>3. "image" \notin {"fields"}
      OBVIOUS
    <2> QED BY <1>9, <2>1, <2>2, <2>3 DEF RawOK
  <1> QED BY <1>1, <1>9, <1>11, <1>14, <1>15, <1>17, <1>18, <1>19 DEF Good, fr

\* The file is written, and the descriptor left as it was ...
LEMMA LeftGood ==
  ASSUME NEW x, NEW c, NEW sp, NEW fr, NEW ag, NEW fl, Good(x, c, sp, fr, ag, fl),
         NEW out \in Seq(Cell)
  PROVE  Good(x, c, sp, {}, {}, out)
  <1>1. Laid(x, sp, {})
    BY DEF Good, Laid
  <1>2. SourceOK(x, c, sp, {}, out)
    BY DEF SourceOK
  <1>3. RawOK(x, {}, {}, out)
    BY DEF RawOK
  <1> QED BY <1>1, <1>2, <1>3 DEF Good

\* ... or with a longer file image.
LEMMA LongerGood ==
  ASSUME NEW x, NEW c, NEW sp, NEW fr, NEW ag, NEW fl, Good(x, c, sp, fr, ag, fl),
         NEW out \in Seq(Cell),
         NEW y, y = [x EXCEPT !.heap = Reallocated(x, out, x.e_data)]
  PROVE  /\ Good(y, c, sp, {}, {}, out)
         /\ y.e_data = x.e_data /\ y.e_rawdata = x.e_rawdata
  <1> DEFINE h == Reallocated(x, out, x.e_data)
  <1>0. /\ Typed(x) /\ Owned(x) /\ Sized(x) /\ Laid(x, sp, ag) /\ x.e_data \in DOMAIN x.heap
        /\ c \in [Scns -> Seq(Nat)] /\ sp \subseteq Scns
    BY DEF Good, Owned
  <1>1. Resizing(x, out, x.e_data, h)
    BY <1>0, ReallocatedFact DEF Target
  <1> HIDE DEF h
  <1>2. /\ Heap(h) /\ DOMAIN h = DOMAIN x.heap
        /\ Len(h[x.e_data]) >= Len(x.heap[x.e_data])
        /\ \A i \in 1 .. Len(x.heap[x.e_data]) : h[x.e_data][i] = x.heap[x.e_data][i]
        /\ \A b \in DOMAIN x.heap \ {x.e_data} : h[b] = x.heap[b]
    BY <1>0, <1>1 DEF Resizing
  <1>3. y.heap = h /\ y = [x EXCEPT !.heap = h]
    BY <1>0 DEF Typed, Elves, h
  <1>4. \A b \in DOMAIN x.heap : Len(x.heap[b]) \in Nat
    BY <1>0, ElfFact
  <1>5. Rewritten(x, y)
    <2>1. \A b \in DOMAIN x.heap : Len(h[b]) >= Len(x.heap[b])
      BY <1>2, <1>4
    <2>2. h \in [DOMAIN x.heap -> Seq(Cell)]
      BY <1>2 DEF Heap
    <2> QED BY <1>3, <2>1, <2>2 DEF Rewritten
  <1>6. /\ Typed(y) /\ DOMAIN y.heap = DOMAIN x.heap
        /\ y.e_data = x.e_data /\ y.e_rawdata = x.e_rawdata /\ y.e_size = x.e_size
        /\ y.e_cooked = x.e_cooked /\ y.s_offset = x.s_offset /\ y.s_size = x.s_size
        /\ y.sd_memdata = x.sd_memdata /\ y.sd_free_data = x.sd_free_data
        /\ y.d_size = x.d_size /\ y.d_buf = x.d_buf /\ y.replaced = x.replaced
        /\ y.s_rawdata = x.s_rawdata
    BY <1>0, <1>5, RewrittenFields, ZenonT(30)
  <1>7. /\ Owned(y) /\ Sized(y)
        /\ \A s : /\ IsLoaded(y, s) <=> IsLoaded(x, s)
                  /\ Unread(y, s) <=> Unread(x, s)
                  /\ InPlace(y, s) <=> InPlace(x, s)
    BY <1>0, <1>5, RewrittenShape, ZenonT(30)
  <1>8. Laid(y, sp, {})
    BY <1>0, <1>6, <1>7 DEF Laid
  <1>9. DataOK(y, c, sp)
    <2> SUFFICES ASSUME NEW s \in Scns \ sp, ~Unread(y, s) PROVE Current(y, c, s)
      BY DEF DataOK
    <2>1. Current(x, c, s)
      BY <1>7 DEF Good, DataOK
    <2>2. ASSUME IsLoaded(x, s), ~x.replaced[s]
          PROVE  \A i \in 1 .. x.d_size[s] :
                    y.heap[y.sd_memdata[s].block][y.sd_memdata[s].at + i]
                      = x.heap[x.sd_memdata[s].block][x.sd_memdata[s].at + i]
      <3>1. x.sd_memdata[s].block \in DOMAIN x.heap
        BY <1>0, <2>2, LoadedBlock
      <3>2. CASE x.sd_memdata[s].block # x.e_data
        BY <1>2, <1>3, <1>6, <3>1, <3>2
      <3>3. CASE x.sd_memdata[s].block = x.e_data
        <4>1. /\ x.sd_memdata[s].at \in Nat /\ x.d_size[s] \in Nat /\ Len(x.heap[x.e_data]) \in Nat
              /\ x.sd_memdata[s].at + x.d_size[s] <= Len(x.heap[x.e_data])
          BY <1>0, <1>4, <2>2, <3>3, ScnFact DEF Sized
        <4>2. ASSUME NEW i \in 1 .. x.d_size[s]
              PROVE  h[x.e_data][x.sd_memdata[s].at + i] = x.heap[x.e_data][x.sd_memdata[s].at + i]
          <5>1. x.sd_memdata[s].at + i \in 1 .. Len(x.heap[x.e_data])
            BY <4>1, ShiftFact
          <5> QED BY <1>2, <5>1
        <4> QED BY <1>3, <1>6, <3>3, <4>2
      <3> QED BY <3>2, <3>3
    <2>3. /\ y.replaced[s] <=> x.replaced[s]
          /\ y.d_buf[s] = x.d_buf[s] /\ y.d_size[s] = x.d_size[s]
          /\ IsLoaded(y, s) <=> IsLoaded(x, s)
      BY <1>6, <1>7
    <2>4. DataOf(y, s) = DataOf(x, s)
      <3>1. Typed(y) /\ Owned(y) /\ Sized(y)
        BY <1>6, <1>7
      <3>2. Typed(x) /\ Owned(x) /\ Sized(x) /\ s \in Scns
        BY <1>0
      <3> QED BY <2>2, <2>3, <3>1, <3>2, DataSame, ZenonT(30)
    <2> QED BY <2>1, <2>4 DEF Current
  <1>10. SourceOK(y, c, sp, {}, out) /\ RawOK(y, {}, {}, out)
    BY DEF SourceOK, RawOK
  <1>11. Good(y, c, sp, {}, {}, out)
    BY <1>0, <1>6, <1>7, <1>8, <1>9, <1>10 DEF Good
  <1> QED BY <1>6, <1>11

-----------------------------------------------------------------------------
(***************************************************************************)
(* A descriptor that is opened.                                            *)
(***************************************************************************)
LEMMA FunctionFact ==
  ASSUME NEW S, NEW n \in Nat, NEW t \in [1 .. n -> S]
  PROVE  t \in Seq(S) /\ Len(t) = n
  BY SeqDef

LEMMA StoredFact ==
  ASSUME NEW f \in Files
  PROVE  /\ f.length \in Nat /\ f.offset \in [Scns -> Nat] /\ f.size \in [Scns -> Nat]
         /\ Stored(f) \in Seq(Cell) /\ Len(Stored(f)) = f.length
         /\ \A i \in 1 .. f.length : Stored(f)[i] = InFile(i)
  <1> DEFINE t == [i \in 1 .. f.length |-> InFile(i)]
  <1>1. f.length \in Nat /\ f.offset \in [Scns -> Nat] /\ f.size \in [Scns -> Nat]
    BY FilesAssumption
  <1>2. Stored(f) = t
    BY DEF Stored
  <1>3. t \in [1 .. f.length -> Cell]
    BY <1>1, CellFact
  <1>4. t \in Seq(Cell) /\ Len(t) = f.length
    <2> HIDE DEF t
    <2> QED BY <1>1, <1>3, FunctionFact
  <1> QED BY <1>1, <1>2, <1>4

\* No byte in common.
LEMMA AloneFact ==
  ASSUME NEW o \in Nat, NEW m \in Nat, NEW p \in Nat, NEW n \in Nat,
         (o + 1 .. o + m) \cap (p + 1 .. p + n) = {}
  PROVE  Disjoint(o, m, p, n)
  <1> SUFFICES ASSUME m > 0, n > 0, o + m > p, p + n > o PROVE FALSE
    BY DEF Disjoint
  <1>1. CASE o <= p
    BY <1>1
  <1>2. CASE p <= o
    BY <1>2
  <1> QED BY <1>1, <1>2

OpenedAs(x, f, m) ==
    /\ Typed(x) /\ DOMAIN x.heap = {1} /\ x.heap[1] = Stored(f)
    /\ x.e_data = 1 /\ x.e_rawdata = (IF m = "borrowed" THEN 1 ELSE 0)
    /\ x.e_size = f.length /\ x.e_cooked = FALSE
    /\ x.s_offset = f.offset /\ x.s_size = f.size /\ x.d_size = f.size
    /\ \A s \in Scns : /\ x.sd_memdata[s] = Null /\ x.sd_free_data[s] = FALSE
                       /\ x.replaced[s] = FALSE /\ x.s_rawdata[s] = 0

LEMMA OpenedFields ==
  ASSUME NEW f \in Files, NEW m, NEW x, x = Opened(f, m)
  PROVE  OpenedAs(x, f, m)
  <1> DEFINE h == Placed(<< >>, 1, Stored(f))
             r == IF m = "borrowed" THEN 1 ELSE 0
             md == [s \in Scns |-> Null]
             no == [s \in Scns |-> FALSE]
             db == [s \in Scns |-> << >>]
             zs == [s \in Scns |-> 0]
  <1>1. /\ f.length \in Nat /\ f.offset \in [Scns -> Nat] /\ f.size \in [Scns -> Nat]
        /\ Stored(f) \in Seq(Cell)
    BY StoredFact
  <1>2. DOMAIN h = {1} /\ h[1] = Stored(f) /\ Heap(h)
    <2>1. DOMAIN << >> = {}
      OBVIOUS
    <2>2. h = [b \in {1} |-> Stored(f)]
      BY <2>1 DEF Placed
    <2> HIDE DEF h
    <2> QED BY <1>1, <2>2 DEF Heap
  <1>3. /\ md \in [Scns -> [block : Nat, at : Nat]] /\ no \in [Scns -> BOOLEAN]
        /\ db \in [Scns -> Seq(Cell)] /\ zs \in [Scns -> Nat] /\ r \in Nat
    BY PointerFact
  <1>4. x = [heap |-> h, e_data |-> 1, e_rawdata |-> r,
             e_size |-> f.length, e_cooked |-> FALSE, e_disabled |-> FALSE,
             s_offset |-> f.offset, s_size |-> f.size,
             sd_memdata |-> md, sd_free_data |-> no,
             d_size |-> f.size, d_buf |-> db, replaced |-> no, s_rawdata |-> zs]
    BY DEF Opened
  <1>5. \A s \in Scns : md[s] = Null /\ no[s] = FALSE /\ zs[s] = 0
    OBVIOUS
  <1> HIDE DEF h, md, no, db, zs
  <1>6. x \in Elves(h) /\ x.heap = h
    BY <1>1, <1>3, <1>4 DEF Elves
  <1>7. Typed(x)
    BY <1>2, <1>6 DEF Typed
  <1> QED BY <1>2, <1>4, <1>5, <1>7 DEF OpenedAs

LEMMA OpenedGood ==
  ASSUME NEW f \in Files, NEW m, NEW x, x = Opened(f, m),
         NEW c, c = [s \in Scns |-> [i \in 1 .. f.size[s] |-> f.offset[s] + i]],
         NEW fr, fr = IF m = "borrowed" THEN {0} ELSE {},
         NEW sp, sp = {s \in Scns : ~Alone(f, s)}
  PROVE  /\ Good(x, c, sp, fr, {"fields", "image"}, Stored(f))
         /\ m = "borrowed" => x.e_data = 1 /\ x.e_rawdata = 1
  <1> DEFINE ag == {"fields", "image"}
             fl == Stored(f)
  <1>1. /\ f.length \in Nat /\ f.offset \in [Scns -> Nat] /\ f.size \in [Scns -> Nat]
        /\ fl \in Seq(Cell) /\ Len(fl) = f.length
        /\ \A i \in 1 .. f.length : fl[i] = InFile(i)
    BY StoredFact
  <1>2. /\ Typed(x) /\ DOMAIN x.heap = {1} /\ x.heap[1] = fl
        /\ x.e_data = 1 /\ x.e_rawdata = (IF m = "borrowed" THEN 1 ELSE 0)
        /\ x.e_size = f.length /\ x.e_cooked = FALSE
        /\ x.s_offset = f.offset /\ x.s_size = f.size /\ x.d_size = f.size
        /\ \A s \in Scns : /\ x.sd_memdata[s] = Null /\ x.sd_free_data[s] = FALSE
                           /\ x.replaced[s] = FALSE /\ x.s_rawdata[s] = 0
    <2>1. OpenedAs(x, f, m)
      BY OpenedFields
    <2> QED BY <2>1 DEF OpenedAs
  <1> HIDE DEF fl, ag
  <1>3. \A s \in Scns : f.offset[s] \in Nat /\ f.size[s] \in Nat
    BY <1>1
  <1>4. \A s \in Scns : /\ ~IsLoaded(x, s) /\ ~InPlace(x, s)
                        /\ Unread(x, s) <=> f.size[s] # 0
    BY <1>2 DEF IsLoaded, InPlace, Unread, HasNone
  <1>5. Owned(x)
    BY <1>2 DEF Owned, Frozen
  <1>6. Sized(x)
    <2>1. x.e_size <= Len(x.heap[x.e_data]) /\ (x.e_rawdata # 0 => x.e_size <= Len(x.heap[x.e_rawdata]))
      BY <1>1, <1>2
    <2>2. \A s \in Scns : ~x.replaced[s] /\ x.d_size[s] = x.s_size[s]
      BY <1>2
    <2> QED BY <1>4, <2>1, <2>2 DEF Sized
  <1>7. ASSUME NEW s \in Scns \ sp, NEW t \in Scns \ {s}
        PROVE  Disjoint(f.offset[s], f.size[s], f.offset[t], f.size[t])
    <2>1. Bytes(f, s) \cap Bytes(f, t) = {}
      BY <1>7 DEF Alone
    <2> QED BY <1>3, <2>1, AloneFact DEF Bytes
  <1>8. Laid(x, sp, ag)
    BY <1>2, <1>4, <1>7 DEF Laid
  <1>9. c \in [Scns -> Seq(Nat)] /\ \A s \in Scns : /\ Len(c[s]) = f.size[s]
                                                   /\ \A i \in 1 .. f.size[s] : c[s][i] = f.offset[s] + i
    <2>1. ASSUME NEW s \in Scns
          PROVE  /\ c[s] \in Seq(Nat) /\ Len(c[s]) = f.size[s]
                 /\ \A i \in 1 .. f.size[s] : c[s][i] = f.offset[s] + i
      <3>1. c[s] = [i \in 1 .. f.size[s] |-> f.offset[s] + i]
        OBVIOUS
      <3>2. c[s] \in [1 .. f.size[s] -> Nat]
        BY <1>3, <3>1
      <3>3. c[s] \in Seq(Nat) /\ Len(c[s]) = f.size[s]
        BY <1>3, <3>2, SeqDef
      <3> QED BY <3>1, <3>3
    <2> QED BY <2>1
  <1>10. DataOK(x, c, sp)
    <2> SUFFICES ASSUME NEW s \in Scns, f.size[s] = 0 PROVE Current(x, c, s)
      BY <1>4 DEF DataOK
    <2>1. DataOf(x, s) = << >>
      BY <1>2, <1>4, DataOfOther
    <2>2. DOMAIN c[s] = {}
      BY <1>9
    <2> QED BY <1>9, <2>1, <2>2 DEF Current
  <1>11. SourceOK(x, c, sp, ag, fl)
    <2>1. x.heap[Source(x)] = fl
      BY <1>2 DEF Source
    <2>2. ASSUME NEW s \in Scns, Inside(x, s)
          PROVE  /\ Len(c[s]) = x.s_size[s]
                 /\ \A i \in 1 .. x.s_size[s] : fl[x.s_offset[s] + i] = InFile(c[s][i])
      <3>1. f.offset[s] + f.size[s] <= f.length
        BY <1>2, <2>2 DEF Inside
      <3>2. ASSUME NEW i \in 1 .. f.size[s] PROVE fl[f.offset[s] + i] = InFile(f.offset[s] + i)
        <4>1. f.offset[s] + i \in 1 .. f.length
          BY <1>1, <1>3, <3>1, ShiftFact
        <4> QED BY <1>1, <4>1
      <3> QED BY <1>2, <1>9, <3>2, ZenonT(30)
    <2> QED BY <2>1, <2>2 DEF SourceOK
  <1>12. RawOK(x, fr, ag, fl)
    <2>1. Part(fl, 0, f.length) = fl
      BY <1>1, PartWhole
    <2>2. 0 \in fr => x.e_rawdata = 1
      BY <1>2
    <2>3. fr \ {0} = {} /\ "fields" \in ag
      BY DEF ag
    <2> QED BY <1>1, <1>2, <2>1, <2>2, <2>3 DEF RawOK
  <1> QED BY <1>1, <1>2, <1>5, <1>6, <1>8, <1>9, <1>10, <1>11, <1>12 DEF Good, fl, ag

-----------------------------------------------------------------------------
(***************************************************************************)
(* elf_end.                                                                *)
(***************************************************************************)
\* Who the owners are.
LEMMA OwnerFact ==
  ASSUME NEW x, NEW o \in Owners(x)
  PROVE  \/ mode # "borrowed" /\ o = << "e_data", 0 >> /\ BlockOf(x, o) = x.e_data
         \/ \E s \in Scns : /\ o = << "sd_memdata", s >> /\ x.sd_free_data[s]
                            /\ BlockOf(x, o) = x.sd_memdata[s].block
         \/ \E s \in Scns : /\ o = << "s_rawdata", s >> /\ x.s_rawdata[s] # 0
                            /\ BlockOf(x, o) = x.s_rawdata[s]
         \/ FreesRawdata(x) /\ o = << "e_rawdata", 0 >> /\ BlockOf(x, o) = x.e_rawdata
  <1>1. CASE mode # "borrowed" /\ o = << "e_data", 0 >>
    BY <1>1 DEF BlockOf
  <1>2. CASE o \in {"sd_memdata"} \X {s \in Scns : x.sd_free_data[s]}
    <2>1. PICK s \in Scns : o = << "sd_memdata", s >> /\ x.sd_free_data[s]
      BY <1>2
    <2>2. BlockOf(x, o) = x.sd_memdata[s].block
      BY <2>1 DEF BlockOf
    <2> QED BY <2>1, <2>2
  <1>3. CASE o \in {"s_rawdata"} \X {s \in Scns : x.s_rawdata[s] # 0}
    <2>1. PICK s \in Scns : o = << "s_rawdata", s >> /\ x.s_rawdata[s] # 0
      BY <1>3
    <2>2. BlockOf(x, o) = x.s_rawdata[s]
      BY <2>1 DEF BlockOf
    <2> QED BY <2>1, <2>2
  <1>4. CASE FreesRawdata(x) /\ o = << "e_rawdata", 0 >>
    BY <1>4 DEF BlockOf
  <1> QED BY <1>1, <1>2, <1>3, <1>4 DEF Owners

LEMMA OwnersFact ==
  ASSUME NEW x
  PROVE  /\ mode # "borrowed" => << "e_data", 0 >> \in Owners(x)
         /\ \A s \in Scns : x.sd_free_data[s] => << "sd_memdata", s >> \in Owners(x)
         /\ \A s \in Scns : x.s_rawdata[s] # 0 => << "s_rawdata", s >> \in Owners(x)
         /\ FreesRawdata(x) => << "e_rawdata", 0 >> \in Owners(x)
  BY DEF Owners

\* Every block is freed once, but a lent image.
LEMMA EndFact ==
  ASSUME NEW x, Typed(x), Owned(x), mode = "borrowed" => x.e_data = 1 /\ x.e_rawdata = 1
  PROVE  /\ IsInjective(Freed(x)) /\ Range(Freed(x)) \subseteq DOMAIN x.heap
         /\ DOMAIN Dropped(x.heap, Range(Freed(x))) = IF mode = "borrowed" THEN {1} ELSE {}
  <1>1. DOMAIN Freed(x) = Owners(x) /\ \A o \in Owners(x) : Freed(x)[o] = BlockOf(x, o)
    BY DEF Freed
  <1>2. /\ x.e_data \in DOMAIN x.heap
        /\ x.e_rawdata # 0 => x.e_rawdata \in DOMAIN x.heap
        /\ \A s \in Scns :
              /\ x.sd_free_data[s] => x.sd_memdata[s].block \in DOMAIN x.heap \ {x.e_data, x.e_rawdata}
              /\ x.s_rawdata[s] # 0 => x.s_rawdata[s] \in DOMAIN x.heap \ {x.e_data, x.e_rawdata}
        /\ \A s, t \in Scns :
              /\ x.sd_free_data[s] /\ x.s_rawdata[t] # 0 => x.sd_memdata[s].block # x.s_rawdata[t]
              /\ s # t /\ x.sd_free_data[s] /\ x.sd_free_data[t] =>
                    x.sd_memdata[s].block # x.sd_memdata[t].block
              /\ s # t /\ x.s_rawdata[s] # 0 => x.s_rawdata[s] # x.s_rawdata[t]
        /\ \A b \in DOMAIN x.heap \ {x.e_data, x.e_rawdata} :
              \E s \in Scns : b = x.s_rawdata[s] \/ (x.sd_free_data[s] /\ b = x.sd_memdata[s].block)
        /\ 0 \notin DOMAIN x.heap
    BY ElfFact DEF Owned
  <1>3. ASSUME NEW o \in Owners(x), NEW p \in Owners(x), BlockOf(x, o) = BlockOf(x, p)
        PROVE  o = p
    <2>1. CASE mode # "borrowed" /\ o = << "e_data", 0 >> /\ BlockOf(x, o) = x.e_data
      BY <1>2, <1>3, <2>1, OwnerFact DEF FreesRawdata
    <2>2. CASE \E s \in Scns : /\ o = << "sd_memdata", s >> /\ x.sd_free_data[s]
                               /\ BlockOf(x, o) = x.sd_memdata[s].block
      BY <1>2, <1>3, <2>2, OwnerFact
    <2>3. CASE \E s \in Scns : /\ o = << "s_rawdata", s >> /\ x.s_rawdata[s] # 0
                               /\ BlockOf(x, o) = x.s_rawdata[s]
      BY <1>2, <1>3, <2>3, OwnerFact
    <2>4. CASE FreesRawdata(x) /\ o = << "e_rawdata", 0 >> /\ BlockOf(x, o) = x.e_rawdata
      BY <1>2, <1>3, <2>4, OwnerFact DEF FreesRawdata
    <2> QED BY <2>1, <2>2, <2>3, <2>4, OwnerFact
  <1>4. IsInjective(Freed(x))
    BY <1>1, <1>3 DEF IsInjective
  <1>5. ASSUME NEW o \in Owners(x)
        PROVE  /\ BlockOf(x, o) \in DOMAIN x.heap
               /\ mode = "borrowed" => BlockOf(x, o) # 1
    BY <1>2, OwnerFact DEF FreesRawdata
  <1>6. Range(Freed(x)) = {BlockOf(x, o) : o \in Owners(x)}
    BY <1>1 DEF Range
  <1>7. ASSUME NEW b \in DOMAIN x.heap, mode = "borrowed" => b # 1
        PROVE  \E o \in Owners(x) : b = BlockOf(x, o)
    <2>1. CASE b = x.e_data
      <3>1. mode # "borrowed"
        BY <1>7, <2>1
      <3>2. << "e_data", 0 >> \in Owners(x) /\ BlockOf(x, << "e_data", 0 >>) = x.e_data
        BY <3>1, OwnersFact DEF BlockOf
      <3> QED BY <2>1, <3>2
    <2>2. CASE b # x.e_data /\ b = x.e_rawdata
      <3>1. << "e_rawdata", 0 >> \in Owners(x) /\ BlockOf(x, << "e_rawdata", 0 >>) = x.e_rawdata
        BY <1>2, <2>2, OwnersFact DEF BlockOf, FreesRawdata
      <3> QED BY <2>2, <3>1
    <2>3. CASE b \notin {x.e_data, x.e_rawdata}
      <3>1. PICK s \in Scns : b = x.s_rawdata[s] \/ (x.sd_free_data[s] /\ b = x.sd_memdata[s].block)
        BY <1>2, <2>3
      <3>2. CASE b = x.s_rawdata[s]
        <4>1. << "s_rawdata", s >> \in Owners(x) /\ BlockOf(x, << "s_rawdata", s >>) = x.s_rawdata[s]
          BY <1>2, <3>2, OwnersFact DEF BlockOf
        <4> QED BY <3>2, <4>1
      <3>3. CASE x.sd_free_data[s] /\ b = x.sd_memdata[s].block
        <4>1. /\ << "sd_memdata", s >> \in Owners(x)
              /\ BlockOf(x, << "sd_memdata", s >>) = x.sd_memdata[s].block
          BY <3>3, OwnersFact DEF BlockOf
        <4> QED BY <3>3, <4>1
      <3> QED BY <3>1, <3>2, <3>3
    <2> QED BY <2>1, <2>2, <2>3
  <1>8. DOMAIN Dropped(x.heap, Range(Freed(x))) = DOMAIN x.heap \ Range(Freed(x))
    BY DEF Dropped
  <1>9. PICK R : R = Range(Freed(x))
    OBVIOUS
  <1>10. /\ \A b \in R : b \in DOMAIN x.heap /\ (mode = "borrowed" => b # 1)
         /\ \A b \in DOMAIN x.heap : (mode = "borrowed" => b # 1) => b \in R
    <2>1. ASSUME NEW b \in R
          PROVE  b \in DOMAIN x.heap /\ (mode = "borrowed" => b # 1)
      <3>1. PICK o \in Owners(x) : b = BlockOf(x, o)
        BY <1>6, <1>9, <2>1
      <3> QED BY <1>5, <3>1
    <2>2. ASSUME NEW b \in DOMAIN x.heap, mode = "borrowed" => b # 1
          PROVE  b \in R
      <3>1. PICK o \in Owners(x) : b = BlockOf(x, o)
        BY <1>7, <2>2
      <3> QED BY <1>6, <1>9, <3>1
    <2> QED BY <2>1, <2>2
  <1>11. R \subseteq DOMAIN x.heap
    BY <1>10
  <1>12. DOMAIN x.heap \ R = IF mode = "borrowed" THEN {1} ELSE {}
    <2>1. CASE mode = "borrowed"
      <3>1. 1 \in DOMAIN x.heap
        BY <1>2, <2>1
      <3>2. DOMAIN x.heap \ R = {1}
        BY <1>10, <2>1, <3>1
      <3> QED BY <2>1, <3>2
    <2>2. CASE mode # "borrowed"
      <3>1. DOMAIN x.heap \ R = {}
        BY <1>10, <2>2
      <3> QED BY <2>2, <3>1
    <2> QED BY <2>1, <2>2
  <1> QED BY <1>4, <1>8, <1>9, <1>11, <1>12

-----------------------------------------------------------------------------
(***************************************************************************)
(* The invariant, step by step.                                            *)
(***************************************************************************)
LEMMA OpenBefore ==
  ASSUME Inv, phase = "open"
  PROVE  /\ Good(elf, content, spoiled, fresh, agrees, file)
         /\ Typed(elf) /\ Owned(elf) /\ Sized(elf) /\ spoiled \subseteq Scns
         /\ mode = "borrowed" => elf.e_data = 1 /\ elf.e_rawdata = 1
  BY DEF Inv, Good

LEMMA OpenAfter ==
  ASSUME phase' = "open", Good(elf', content', spoiled', fresh', agrees', file'),
         mode' = "borrowed" => elf'.e_data = 1 /\ elf'.e_rawdata = 1
  PROVE  Inv'
  BY DEF Inv

LEMMA SpoiledFact ==
  ASSUME NEW S \in SUBSET Scns, spoiled \subseteq Scns
  PROVE  /\ spoiled \subseteq SpoiledBy(S) /\ SpoiledBy(S) \subseteq Scns
         /\ \A s \in S : Unread(elf, s) => Safe(agrees, SpoiledBy(S))
  BY DEF SpoiledBy, Safe

LEMMA InitInv == Init => Inv
  <1> SUFFICES ASSUME Init PROVE Inv
    OBVIOUS
  <1>1. PICK f \in Files, m \in {"mapped", "loaded", "borrowed"} :
          /\ mode = m /\ file = Stored(f) /\ elf = Opened(f, m)
          /\ content = [s \in Scns |-> [i \in 1 .. f.size[s] |-> f.offset[s] + i]]
          /\ fresh = IF m = "borrowed" THEN {0} ELSE {}
          /\ spoiled = {s \in Scns : ~Alone(f, s)}
    BY DEF Init
  <1>2. Good(elf, content, spoiled, fresh, {"fields", "image"}, file)
    BY <1>1, OpenedGood
  <1>3. mode = "borrowed" => elf.e_data = 1 /\ elf.e_rawdata = 1
    BY <1>1, OpenedGood
  <1>4. phase = "open" /\ agrees = {"fields", "image"}
    BY DEF Init
  <1> QED BY <1>2, <1>3, <1>4 DEF Inv

\* elf_getdata.
LEMMA GetDataInv ==
  ASSUME Inv, NEW s \in Scns, GetData(s)
  PROVE  Inv'
  <1>1. /\ phase = "open" /\ elf' = WithData(elf, s) /\ spoiled' = SpoiledBy({s})
        /\ UNCHANGED << phase, mode, file, content, fresh, agrees >>
    BY DEF GetData
  <1>2. Good(elf, content, spoiled, fresh, agrees, file) /\ spoiled \subseteq Scns
    BY <1>1, OpenBefore
  <1>3. /\ spoiled \subseteq spoiled' /\ spoiled' \in SUBSET Scns
        /\ Unread(elf, s) => Safe(agrees, spoiled')
    BY <1>1, <1>2, SpoiledFact
  <1>4. Good(elf, content, spoiled', fresh, agrees, file)
    BY <1>2, <1>3, GoodSpoiled
  <1>5. Good(elf', content, spoiled', fresh, agrees, file) /\ Kept(elf, elf')
    BY <1>1, <1>3, <1>4, WithDataGood
  <1>6. elf'.e_data = elf.e_data /\ elf'.e_rawdata = elf.e_rawdata
    BY <1>5 DEF Kept
  <1> QED BY <1>1, <1>5, <1>6, OpenBefore, OpenAfter

\* Everything is read before elf_update, and by elf_cntl.
LEMMA AllRead ==
  ASSUME Inv, phase = "open", \A s \in Scns : Unread(elf, s) => Inside(elf, s),
         spoiled' = SpoiledBy(Scns)
  PROVE  /\ Good(AllData(elf), content, spoiled', fresh, agrees, file)
         /\ Kept(elf, AllData(elf)) /\ \A s \in Scns : ~Unread(AllData(elf), s)
  <1>1. Good(elf, content, spoiled, fresh, agrees, file) /\ spoiled \subseteq Scns
    BY OpenBefore
  <1>2. /\ spoiled \subseteq spoiled' /\ spoiled' \in SUBSET Scns
        /\ \A s \in Scns : Unread(elf, s) => Safe(agrees, spoiled')
    BY <1>1, SpoiledFact
  <1>3. Good(elf, content, spoiled', fresh, agrees, file)
    BY <1>1, <1>2, GoodSpoiled
  <1>4. \A s \in Scns : Unread(elf, s) => Safe(agrees, spoiled') /\ Inside(elf, s)
    BY <1>2
  <1> QED BY <1>3, <1>4, AllDataGood

\* elf_cntl.
LEMMA CntlInv ==
  ASSUME Inv, Cntl
  PROVE  Inv'
  <1>1. phase = "open" /\ UNCHANGED << phase, mode, file, content, fresh, agrees >>
    BY DEF Cntl
  <1>2. CASE /\ \A s \in Scns : Unread(elf, s) => Inside(elf, s)
             /\ elf' = [AllData(elf) EXCEPT !.e_disabled = TRUE]
             /\ spoiled' = SpoiledBy(Scns)
    <2>1. PICK e : e = AllData(elf)
      OBVIOUS
    <2>2. Good(e, content, spoiled', fresh, agrees, file) /\ Kept(elf, e)
      BY <1>1, <1>2, <2>1, AllRead
    <2>3. elf' = [e EXCEPT !.e_disabled = TRUE]
      BY <1>2, <2>1
    <2>4. /\ Good(elf', content, spoiled', fresh, agrees, file)
          /\ elf'.e_data = elf.e_data /\ elf'.e_rawdata = elf.e_rawdata
      BY <2>2, <2>3, DisabledGood DEF Kept
    <2> QED BY <1>1, <2>4, OpenBefore, OpenAfter
  <1>3. CASE elf' = [elf EXCEPT !.e_disabled = TRUE] /\ UNCHANGED spoiled
    <2>1. Good(elf, content, spoiled, fresh, agrees, file)
      BY <1>1, OpenBefore
    <2>2. /\ Good(elf', content, spoiled, fresh, agrees, file)
          /\ elf'.e_data = elf.e_data /\ elf'.e_rawdata = elf.e_rawdata
      BY <1>3, <2>1, DisabledGood
    <2> QED BY <1>1, <1>3, <2>2, OpenBefore, OpenAfter
  <1> QED BY <1>2, <1>3 DEF Cntl

\* A part of what is the start of a sequence is a part of it.
LEMMA PartOfPart ==
  ASSUME NEW a \in Seq(Cell), NEW n \in Nat, n <= Len(a), NEW b, Part(a, 0, n) = b,
         NEW off \in Nat, NEW m \in Nat, off + m <= n
  PROVE  Part(a, off, m) = Part(b, off, m)
  <1>1. b \in Seq(Cell) /\ Len(b) = n /\ \A i \in 1 .. n : b[i] = a[i]
    BY PartFirst
  <1>2. off + m <= Len(a) /\ Len(a) \in Nat
    OBVIOUS
  <1>3. /\ Part(a, off, m) \in Seq(Cell) /\ Len(Part(a, off, m)) = m
        /\ \A i \in 1 .. m : Part(a, off, m)[i] = a[off + i]
    BY <1>2, PartFact, ZenonT(30)
  <1>4. /\ Part(b, off, m) \in Seq(Cell) /\ Len(Part(b, off, m)) = m
        /\ \A i \in 1 .. m : Part(b, off, m)[i] = b[off + i]
    <2>1. b \in Seq(Cell) /\ off + m <= Len(b)
      BY <1>1
    <2> QED BY <2>1, PartFact, ZenonT(30)
  <1>5. ASSUME NEW i \in 1 .. m PROVE Part(a, off, m)[i] = Part(b, off, m)[i]
    <2>1. off + i \in 1 .. n
      BY ShiftFact
    <2> QED BY <1>1, <1>3, <1>4, <2>1
  <1> QED BY <1>3, <1>4, <1>5, SameCells

\* elf_rawdata reads what is stored, when the headers are those of the file.
LEMMA RawCellsFact ==
  ASSUME NEW x, NEW c, NEW sp, NEW fr, NEW ag, NEW fl, Good(x, c, sp, fr, ag, fl),
         file = fl, NEW off \in Nat, NEW n \in Nat, off + n <= x.e_size
  PROVE  /\ RawCells(x, off, n) \in Seq(Cell)
         /\ x.e_rawdata = 0 \/ 0 \in fr => RawCells(x, off, n) = Part(fl, off, n)
  <1>1. Typed(x) /\ Owned(x) /\ Sized(x) /\ RawOK(x, fr, ag, fl) /\ fl \in Seq(Cell)
    BY DEF Good
  <1>2. CASE x.e_rawdata = 0
    <2>1. RawCells(x, off, n) = Part(fl, off, n)
      BY <1>2 DEF RawCells
    <2>2. Part(fl, off, n) \in Seq(Cell)
      <3>1. fl \in Seq(Cell)
        BY <1>1
      <3> QED BY <3>1, PartFact
    <2> QED BY <2>1, <2>2
  <1>3. CASE x.e_rawdata # 0
    <2> DEFINE a == x.heap[x.e_rawdata]
    <2>1. RawCells(x, off, n) = Part(a, off, n)
      BY <1>3 DEF RawCells
    <2>2. a \in Seq(Cell) /\ x.e_size \in Nat /\ x.e_size <= Len(a)
      BY <1>1, <1>3, ElfFact DEF Owned, Sized
    <2>3. 0 \in fr => Part(a, 0, x.e_size) = fl
      BY <1>1 DEF RawOK
    <2> HIDE DEF a
    <2>4. Part(a, off, n) \in Seq(Cell)
      BY <2>2, PartFact
    <2>5. ASSUME 0 \in fr PROVE Part(a, off, n) = Part(fl, off, n)
      BY <2>2, <2>3, <2>5, PartOfPart
    <2> QED BY <1>3, <2>1, <2>4, <2>5
  <1> QED BY <1>2, <1>3

\* elf_rawdata.
LEMMA RawDataInv ==
  ASSUME Inv, NEW s \in Scns, RawData(s)
  PROVE  Inv'
  <1>1. PICK off, n, cells :
          off = elf.s_offset[s] /\ n = elf.s_size[s] /\ cells = RawCells(elf, off, n)
    OBVIOUS
  <1>2. /\ phase = "open" /\ elf.s_rawdata[s] = 0 /\ Inside(elf, s)
        /\ elf' = [elf EXCEPT !.heap = Placed(@, NewBlock(elf), cells),
                              !.s_rawdata[s] = NewBlock(elf)]
        /\ fresh' = IF "fields" \in agrees /\ (elf.e_rawdata = 0 \/ 0 \in fresh)
                    THEN fresh \cup {s} ELSE fresh
        /\ UNCHANGED << phase, mode, file, content, spoiled, agrees >>
    BY <1>1 DEF RawData
  <1>3. Good(elf, content, spoiled, fresh, agrees, file) /\ Typed(elf)
    BY <1>2, OpenBefore
  <1>4. off \in Nat /\ n \in Nat /\ off + n <= elf.e_size
    BY <1>1, <1>2, <1>3, ScnFact DEF Inside
  <1>5. /\ cells \in Seq(Cell)
        /\ elf.e_rawdata = 0 \/ 0 \in fresh => cells = Part(file, off, n)
    BY <1>1, <1>3, <1>4, RawCellsFact
  <1>6. \/ fresh' = fresh
        \/ fresh' = fresh \cup {s} /\ cells = Part(file, elf.s_offset[s], elf.s_size[s])
    BY <1>1, <1>2, <1>5
  <1>7. PICK y, fr2 : y = elf' /\ fr2 = fresh'
    OBVIOUS
  <1>8. /\ Copied(elf, s, cells, y)
        /\ \/ fr2 = fresh
           \/ fr2 = fresh \cup {s} /\ cells = Part(file, elf.s_offset[s], elf.s_size[s])
    BY <1>2, <1>6, <1>7 DEF Copied
  <1>9. /\ Good(y, content, spoiled, fr2, agrees, file)
        /\ y.e_data = elf.e_data /\ y.e_rawdata = elf.e_rawdata
    <2>1. /\ Good(elf, content, spoiled, fresh, agrees, file)
          /\ elf.s_rawdata[s] = 0 /\ cells \in Seq(Cell)
      BY <1>2, <1>3, <1>5
    <2> QED BY ONLY <2>1, <1>8, RawDataGood, s \in Scns
  <1>10. mode' = "borrowed" => y.e_data = 1 /\ y.e_rawdata = 1
    BY <1>2, <1>9, OpenBefore
  <1> QED BY <1>2, <1>7, <1>9, <1>10, OpenAfter

\* elf_rawfile.
LEMMA RawFileInv ==
  ASSUME Inv, RawFile
  PROVE  Inv'
  <1>1. /\ phase = "open" /\ elf.e_rawdata = 0
        /\ UNCHANGED << phase, mode, file, content, spoiled, agrees >>
    BY DEF RawFile
  <1>2. /\ Good(elf, content, spoiled, fresh, agrees, file) /\ Typed(elf)
        /\ mode # "borrowed"
    BY <1>1, OpenBefore
  <1>3. PICK y, fr2 : y = elf' /\ fr2 = fresh'
    OBVIOUS
  <1>4. CASE /\ Untouched(elf)
             /\ elf' = [elf EXCEPT !.e_rawdata = elf.e_data]
             /\ fresh' = IF "image" \in agrees THEN fresh \cup {0} ELSE fresh
    <2>1. Good(y, content, spoiled, fr2, agrees, file)
      BY <1>1, <1>2, <1>3, <1>4, FreezeGood
    <2> QED BY <1>1, <1>2, <1>3, <2>1, OpenAfter
  <1>5. CASE /\ ~Untouched(elf)
             /\ CanRead(elf, 0, elf.e_size)
             /\ elf' = [elf EXCEPT !.heap = Placed(@, NewBlock(elf), Part(file, 0, elf.e_size)),
                                   !.e_rawdata = NewBlock(elf)]
             /\ fresh' = IF "fields" \in agrees THEN fresh \cup {0} ELSE fresh
    <2>1. elf.e_size <= Len(file)
      <3>1. elf.e_size \in Nat
        BY <1>2, ElfFact
      <3> QED BY <1>5, <3>1 DEF CanRead
    <2>2. Good(y, content, spoiled, fr2, agrees, file)
      BY <1>1, <1>2, <1>3, <1>5, <2>1, RawFileGood
    <2> QED BY <1>1, <1>2, <1>3, <2>2, OpenAfter
  <1> QED BY <1>4, <1>5 DEF RawFile

\* An application changes its data ...
LEMMA ChangeInv ==
  ASSUME Inv, NEW s \in Scns, Change(s)
  PROVE  Inv'
  <1>1. PICK p, v, y : p = elf.sd_memdata[s] /\ v = NewValue(s) /\ y = elf'
    OBVIOUS
  <1>2. /\ phase = "open" /\ IsLoaded(elf, s) /\ ~elf.replaced[s]
        /\ y = [elf EXCEPT !.heap[p.block] = Overwritten(@, p.at, << InMemory(v) >>)]
        /\ content' = [content EXCEPT ![s][1] = v]
        /\ UNCHANGED << phase, mode, file, fresh, spoiled, agrees >>
    BY <1>1 DEF Change
  <1>3. Good(elf, content, spoiled, fresh, agrees, file) /\ Typed(elf)
    BY <1>2, OpenBefore
  <1>4. Wrote(elf, s, v, y)
    <2>1. PICK h : h = [elf.heap EXCEPT ![p.block] = Overwritten(@, p.at, << InMemory(v) >>)]
      OBVIOUS
    <2>2. y = [elf EXCEPT !.heap = h]
      BY <1>2, <2>1
    <2>3. y.heap = h
      BY <1>3, <2>2 DEF Typed, Elves
    <2> QED BY <1>1, <2>1, <2>2, <2>3 DEF Wrote
  <1>5. v \in Nat
    BY <1>1, ScnsFact DEF NewValue
  <1>6. /\ Good(y, [content EXCEPT ![s][1] = v], spoiled, fresh, agrees, file)
        /\ y.e_data = elf.e_data /\ y.e_rawdata = elf.e_rawdata
    <2>1. /\ Good(elf, content, spoiled, fresh, agrees, file)
          /\ IsLoaded(elf, s) /\ ~elf.replaced[s]
      BY <1>2, <1>3
    <2> QED BY ONLY <2>1, <1>4, <1>5, WroteGood, s \in Scns
  <1>7. mode' = "borrowed" => y.e_data = 1 /\ y.e_rawdata = 1
    BY <1>2, <1>6, OpenBefore
  <1> QED BY <1>1, <1>2, <1>6, <1>7, OpenAfter

\* ... or gives the section a buffer.
LEMMA ReplaceInv ==
  ASSUME Inv, NEW s \in Scns, NEW n \in Sizes, Replace(s, n)
  PROVE  Inv'
  <1>1. PICK v, y : v = NewValue(s) /\ y = elf'
    OBVIOUS
  <1>2. /\ phase = "open" /\ ~Unread(elf, s)
        /\ y = [elf EXCEPT !.replaced[s] = TRUE, !.d_size[s] = n,
                           !.d_buf[s] = [i \in 1 .. n |-> InMemory(v)]]
        /\ content' = [content EXCEPT ![s] = [i \in 1 .. n |-> v]]
        /\ UNCHANGED << phase, mode, file, fresh, spoiled, agrees >>
    BY <1>1 DEF Replace
  <1>3. Good(elf, content, spoiled, fresh, agrees, file)
    BY <1>2, OpenBefore
  <1>4. v \in Nat /\ n \in Nat
    BY <1>1, ScnsFact, FilesAssumption DEF NewValue
  <1>5. Given(elf, s, n, v, y)
    BY <1>2 DEF Given
  <1>6. /\ Good(y, content', spoiled, fresh, agrees, file)
        /\ y.e_data = elf.e_data /\ y.e_rawdata = elf.e_rawdata
    <2>1. Good(elf, content, spoiled, fresh, agrees, file) /\ ~Unread(elf, s)
      BY <1>2, <1>3
    <2>2. /\ Good(y, Filled(content, s, n, v), spoiled, fresh, agrees, file)
          /\ y.e_data = elf.e_data /\ y.e_rawdata = elf.e_rawdata
      BY <2>1, <1>4, <1>5, GivenGood
    <2> QED BY <1>2, <2>2 DEF Filled
  <1>7. mode' = "borrowed" => y.e_data = 1 /\ y.e_rawdata = 1
    BY <1>2, <1>6, OpenBefore
  <1> QED BY <1>1, <1>2, <1>6, <1>7, OpenAfter

\* elf_update.
LEMMA UpdateInv ==
  ASSUME Inv, Update
  PROVE  Inv'
  <1>1. PICK e : e = AllData(elf)
    OBVIOUS
  <1>0. \E o \in Orders, m \in BOOLEAN : \E image, headers, to :
          /\ image = Out(e, o) /\ headers = Headers(e, o)
          /\ to = IF m THEN NewBlock(e) ELSE e.e_data
          /\ file' = image
          /\ elf' = [UpdatePointers(e, image, headers, to)
                     EXCEPT !.s_offset = headers.offset, !.s_size = headers.size,
                            !.e_size = Len(image)]
          /\ fresh' = FreshAfter(e, headers, m)
          /\ agrees' = IF Frozen(e) THEN {"fields", "image"} ELSE {"fields"}
    BY <1>1 DEF Update
  <1>2. PICK order, moved, out, hdrs, d :
          /\ order \in Orders /\ moved \in BOOLEAN
          /\ out = Out(e, order) /\ hdrs = Headers(e, order)
          /\ d = IF moved THEN NewBlock(e) ELSE e.e_data
          /\ file' = out
          /\ elf' = [UpdatePointers(e, out, hdrs, d)
                     EXCEPT !.s_offset = hdrs.offset, !.s_size = hdrs.size,
                            !.e_size = Len(out)]
          /\ fresh' = FreshAfter(e, hdrs, moved)
          /\ agrees' = IF Frozen(e) THEN {"fields", "image"} ELSE {"fields"}
    BY <1>0
  <1>3. /\ phase = "open" /\ mode = "loaded" /\ spoiled' = SpoiledBy(Scns)
        /\ \A s \in Scns : Unread(elf, s) => Inside(elf, s)
        /\ UNCHANGED << phase, mode, content >>
    BY DEF Update, MayUpdate
  <1>4. Good(e, content, spoiled', fresh, agrees, file) /\ \A s \in Scns : ~Unread(e, s)
    BY <1>1, <1>3, AllRead
  <1>5. /\ Typed(e) /\ Owned(e) /\ Sized(e) /\ Laid(e, spoiled', agrees)
        /\ DataOK(e, content, spoiled')
        /\ content \in [Scns -> Seq(Nat)] /\ spoiled' \in SUBSET Scns
    BY <1>4 DEF Good
  <1>6. ImageOf(e, out, hdrs)
    BY <1>2, <1>5, OutFact
  <1>7. Target(e, d) /\ (d # e.e_data <=> moved)
    BY <1>2, <1>5, NewBlockFact DEF Target
  <1>8. PICK H : H = Reallocated(e, out, d)
    OBVIOUS
  <1>9. Resizing(e, out, d, H)
    <2>1. out \in Seq(Cell)
      BY <1>6 DEF ImageOf
    <2> QED BY <1>5, <1>7, <1>8, <2>1, ReallocatedFact
  <1>10. PICK y, sp : y = elf' /\ sp = spoiled'
    OBVIOUS
  <1>11. CASE Frozen(e)
    <2>1. Saved(e, y, [H EXCEPT ![d] = Overwritten(H[d], 0, out)], d, d, e.sd_memdata, hdrs, Len(out))
      <3>1. PICK h : h = [H EXCEPT ![d] = Overwritten(@, 0, out)]
        OBVIOUS
      <3>2. UpdatePointers(e, out, hdrs, d) = [e EXCEPT !.heap = h, !.e_data = d, !.e_rawdata = d]
        BY <1>8, <1>11, <3>1 DEF UpdatePointers
      <3>3. y = [e EXCEPT !.heap = h, !.e_data = d, !.e_rawdata = d, !.sd_memdata = e.sd_memdata,
                          !.s_offset = hdrs.offset, !.s_size = hdrs.size, !.e_size = Len(out)]
        <4>1. PICK o, z, n : o = hdrs.offset /\ z = hdrs.size /\ n = Len(out)
          OBVIOUS
        <4>2. PICK u : u = UpdatePointers(e, out, hdrs, d)
          OBVIOUS
        <4>3. y = [u EXCEPT !.s_offset = o, !.s_size = z, !.e_size = n]
          BY <1>2, <1>10, <4>1, <4>2
        <4>4. e \in Elves(e.heap) /\ u = [e EXCEPT !.heap = h, !.e_data = d, !.e_rawdata = d]
          BY <1>5, <3>2, <4>2 DEF Typed
        <4>5. y = [e EXCEPT !.heap = h, !.e_data = d, !.e_rawdata = d, !.sd_memdata = e.sd_memdata,
                            !.s_offset = o, !.s_size = z, !.e_size = n]
          BY <4>3, <4>4 DEF Elves
        <4> QED BY <4>1, <4>5
      <3> QED BY <3>1, <3>3 DEF Saved
    <2>2. fresh' = {0} /\ agrees' = {"fields", "image"}
      <3>1. e.e_rawdata # 0
        BY <1>5, <1>11, ElfFact DEF Owned, Frozen
      <3> QED BY <1>2, <1>11, <3>1 DEF FreshAfter
    <2>3. /\ Typed(e) /\ Owned(e) /\ Sized(e) /\ \A s \in Scns : ~Unread(e, s)
          /\ content \in [Scns -> Seq(Nat)] /\ sp \in SUBSET Scns /\ DataOK(e, content, sp)
      BY <1>4, <1>5, <1>10
    <2>4. Good(y, content, sp, {0}, {"fields", "image"}, out)
      BY ONLY <2>3, <1>6, <1>7, <1>9, <1>11, <2>1, FrozenSaved
    <2> QED BY <1>2, <1>3, <1>10, <2>2, <2>4, OpenAfter
  <1>12. CASE ~Frozen(e)
    <2>1. Saved(e, y, Refreshed(e, out, hdrs, d, H), d, e.e_rawdata, MovedPointers(e, d), hdrs, Len(out))
      <3>1. PICK h : h = Refreshed(e, out, hdrs, d, H)
        OBVIOUS
      <3>2. UpdatePointers(e, out, hdrs, d) =
              [e EXCEPT !.heap = h, !.e_data = d, !.sd_memdata = MovedPointers(e, d)]
        BY <1>7, <1>8, <1>12, <3>1 DEF UpdatePointers, Refreshed
      <3>3. PICK md : md = MovedPointers(e, d)
        OBVIOUS
      <3>4. y = [e EXCEPT !.heap = h, !.e_data = d, !.e_rawdata = e.e_rawdata, !.sd_memdata = md,
                          !.s_offset = hdrs.offset, !.s_size = hdrs.size, !.e_size = Len(out)]
        <4>1. PICK o, z, n : o = hdrs.offset /\ z = hdrs.size /\ n = Len(out)
          OBVIOUS
        <4>2. PICK u : u = UpdatePointers(e, out, hdrs, d)
          OBVIOUS
        <4>3. y = [u EXCEPT !.s_offset = o, !.s_size = z, !.e_size = n]
          BY <1>2, <1>10, <4>1, <4>2
        <4>4. e \in Elves(e.heap) /\ u = [e EXCEPT !.heap = h, !.e_data = d, !.sd_memdata = md]
          BY <1>5, <3>2, <3>3, <4>2 DEF Typed
        <4>5. y = [e EXCEPT !.heap = h, !.e_data = d, !.e_rawdata = e.e_rawdata, !.sd_memdata = md,
                            !.s_offset = o, !.s_size = z, !.e_size = n]
          BY <4>3, <4>4 DEF Elves
        <4> QED BY <4>1, <4>5
      <3> QED BY <3>1, <3>3, <3>4 DEF Saved
    <2>2. fresh' = FreshAfter(e, hdrs, d # e.e_data) /\ agrees' = {"fields"}
      <3>1. fresh' = FreshAfter(e, hdrs, moved) /\ agrees' = {"fields"}
        BY <1>2, <1>12
      <3>2. FreshAfter(e, hdrs, moved) = FreshAfter(e, hdrs, d # e.e_data)
        BY <1>7 DEF FreshAfter
      <3> QED BY <3>1, <3>2
    <2>3. /\ Typed(e) /\ Owned(e) /\ Sized(e) /\ \A s \in Scns : ~Unread(e, s)
          /\ content \in [Scns -> Seq(Nat)] /\ sp \in SUBSET Scns /\ Laid(e, sp, agrees)
          /\ DataOK(e, content, sp)
      BY <1>4, <1>5, <1>10
    <2>4. Good(y, content, sp, FreshAfter(e, hdrs, d # e.e_data), {"fields"}, out)
      BY ONLY <2>3, <1>6, <1>7, <1>9, <1>12, <2>1, ThawedSaved
    <2> QED BY <1>2, <1>3, <1>10, <2>2, <2>4, OpenAfter
  <1> QED BY <1>11, <1>12

\* elf_update fails.
LEMMA UpdateFailsInv ==
  ASSUME Inv, UpdateFails
  PROVE  Inv'
  <1>1. PICK e : e = AllData(elf)
    OBVIOUS
  <1>2. PICK order, out, y :
          /\ order \in Orders
          /\ out = Out(e, order) /\ file' = out /\ y = elf'
          /\ y = e \/ y = [e EXCEPT !.heap = Reallocated(e, out, e.e_data)]
    BY <1>1 DEF UpdateFails
  <1>3. /\ phase = "open" /\ mode = "loaded" /\ spoiled' = SpoiledBy(Scns)
        /\ \A s \in Scns : Unread(elf, s) => Inside(elf, s)
        /\ fresh' = {} /\ agrees' = {}
        /\ UNCHANGED << phase, mode, content >>
    BY DEF UpdateFails, MayUpdate
  <1>4. Good(e, content, spoiled', fresh, agrees, file)
    BY <1>1, <1>3, AllRead
  <1>5. out \in Seq(Cell)
    <2>1. Typed(e) /\ Owned(e) /\ Sized(e)
      BY <1>4 DEF Good
    <2>2. ImageOf(e, out, Headers(e, order))
      BY <1>2, <2>1, OutFact
    <2> QED BY <2>2 DEF ImageOf
  <1>6. Good(y, content, spoiled', {}, {}, out)
    <2>1. CASE y = e
      BY <1>4, <1>5, <2>1, LeftGood
    <2>2. CASE y = [e EXCEPT !.heap = Reallocated(e, out, e.e_data)]
      BY <1>4, <1>5, <2>2, LongerGood
    <2> QED BY <1>2, <2>1, <2>2
  <1> QED BY <1>2, <1>3, <1>6, OpenAfter

LEMMA UpdateDanglesInv ==
  ASSUME Inv, UpdateDangles
  PROVE  Inv'
  BY DEF UpdateDangles, Inv

\* elf_end.
LEMMA EndInv ==
  ASSUME Inv, End
  PROVE  Inv'
  <1>1. phase = "open" /\ UNCHANGED mode
    BY DEF End
  <1>2. Typed(elf) /\ Owned(elf) /\ (mode = "borrowed" => elf.e_data = 1 /\ elf.e_rawdata = 1)
    BY <1>1, OpenBefore
  <1>3. /\ IsInjective(Freed(elf)) /\ Range(Freed(elf)) \subseteq DOMAIN elf.heap
        /\ DOMAIN Dropped(elf.heap, Range(Freed(elf))) = IF mode = "borrowed" THEN {1} ELSE {}
    BY <1>2, EndFact
  <1>4. phase' = "ended" /\ elf' = [heap |-> Dropped(elf.heap, Range(Freed(elf)))]
    BY <1>3 DEF End, Gone
  <1>5. elf'.heap = Dropped(elf.heap, Range(Freed(elf)))
    BY <1>4
  <1> QED BY <1>1, <1>3, <1>4, <1>5 DEF Inv

\* The initial states satisfy the invariant, and every step keeps it.
THEOREM Invariant == Spec => []Inv
  <1>1. Inv /\ [Next]_vars => Inv'
    <2> SUFFICES ASSUME Inv, [Next]_vars
                 PROVE  Inv'
      OBVIOUS
    <2>1. ASSUME NEW s \in Scns, GetData(s) PROVE Inv'
      BY <2>1, GetDataInv
    <2>2. ASSUME NEW s \in Scns, RawData(s) PROVE Inv'
      BY <2>2, RawDataInv
    <2>3. ASSUME NEW s \in Scns, Change(s) PROVE Inv'
      BY <2>3, ChangeInv
    <2>4. ASSUME NEW s \in Scns, NEW n \in Sizes, Replace(s, n) PROVE Inv'
      BY <2>4, ReplaceInv
    <2>5. CASE Cntl
      BY <2>5, CntlInv
    <2>6. CASE RawFile
      BY <2>6, RawFileInv
    <2>7. CASE Update
      BY <2>7, UpdateInv
    <2>8. CASE UpdateFails
      BY <2>8, UpdateFailsInv
    <2>9. CASE UpdateDangles
      BY <2>9, UpdateDanglesInv
    <2>10. CASE End
      BY <2>10, EndInv
    <2>11. CASE UNCHANGED vars
      BY <2>11 DEF Inv, vars
    <2> QED BY <2>1, <2>2, <2>3, <2>4, <2>5, <2>6, <2>7, <2>8, <2>9, <2>10, <2>11 DEF Next
  <1> QED BY <1>1, InitInv, PTL DEF Spec

-----------------------------------------------------------------------------
(***************************************************************************)
(* Whatever was read raw or translated before, and however elf_update      *)
(* moved, froze or lengthened an image, the data of a section are those of *)
(* the file, or the application's, translated once (_elf_cook_scn,         *)
(* _elf_update_pointers).                                                  *)
(***************************************************************************)
THEOREM DataAlwaysCurrent == Spec => []DataIsCurrent
  <1>1. Inv => DataIsCurrent
    BY DEF Inv, Good, DataOK, Current, DataIsCurrent
  <1> QED BY <1>1, Invariant, PTL

(***************************************************************************)
(* elf_rawdata and elf_rawfile give what is stored, also after data were   *)
(* translated where the file image is, or were changed by the application. *)
(***************************************************************************)
THEOREM RawAlwaysTheFile == Spec => []RawIsTheFile
  <1>1. Inv => RawIsTheFile
    BY DEF Inv, Good, RawOK, RawIsTheFile
  <1> QED BY <1>1, Invariant, PTL

(***************************************************************************)
(* elf_end frees every block that was allocated, each once, and none that  *)
(* the library was lent.                                                   *)
(***************************************************************************)
THEOREM AlwaysReturned == Spec => []BuffersReturned
  <1>1. Inv => BuffersReturned
    BY DEF Inv, BuffersReturned
  <1> QED BY <1>1, Invariant, PTL
=============================================================================
