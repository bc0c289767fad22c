-------------------------- MODULE Accessors_proofs --------------------------
(***************************************************************************)
(* What gelf_update_* accepted reads back, for words of any size: the      *)
(* narrowing of each field loses nothing of a value that fits, and a value *)
(* is accepted only when all its fields fit.                               *)
(***************************************************************************)
EXTENDS Accessors, SequenceTheorems, TLAPS

Objects == DataObjects \cup HeaderObjects
Given   == GivenOf[o.lib][o.kind]

\* A value that was accepted, and the record as it was then written.
Matches(ndx, v) ==
    /\ ndx \in Indices /\ Accepted(ndx)
    /\ v \in Given
    /\ Misfits(ndx, v) = {}
    /\ elems[ndx] = [n \in Names |-> Stored(n, v[n])]

IInv ==
    /\ o \in Objects
    /\ DOMAIN elems = 0 .. 2 /\ DOMAIN want = 0 .. 2
    /\ \A i \in 0 .. 2 : want[i] = Unknown \/ Matches(i, want[i])

-----------------------------------------------------------------------------
(* Arithmetic: a division has one result.                                  *)

LEMMA Division ==
  ASSUME NEW b \in Nat \ {0}, NEW q \in Int, NEW r \in 0 .. b - 1
  PROVE  (q * b + r) \div b = q /\ (q * b + r) % b = r
  <1> DEFINE x == q * b + r
             p == x \div b
             s == x % b
  <1>1. x \in Int /\ p \in Int /\ s \in 0 .. b - 1 /\ x = b * p + s
    OBVIOUS
  <1>2. (q - p) * b = s - r
    BY <1>1
  <1>3. q - p >= 1 => (q - p) * b >= b
    BY <1>1
  <1>4. q - p <= -1 => (q - p) * b <= -b
    BY <1>1
  <1>5. q = p
    BY <1>1, <1>2, <1>3, <1>4
  <1> QED BY <1>1, <1>2, <1>5

LEMMA Remainder ==
  ASSUME NEW b \in Nat \ {0}, NEW r \in 0 .. b - 1
  PROVE  r % b = r
  <1>1. (0 * b + r) % b = r
    BY Division
  <1> QED BY <1>1

LEMMA Numbers ==
  /\ {Byte, Sym, Word, Wide} \subseteq Nat \ {0} /\ Word = Sym * Byte
  /\ (Wide - 1) \div Byte >= Word - 1
  /\ Word \div 2 \in Nat /\ Word = 2 * (Word \div 2)
  <1>1. Word \in Nat \ {0} /\ Word % 2 = 0
    BY AccessorsAssumption DEF AccessorsAssumption
  <1>2. Word \div 2 \in Nat /\ Word = 2 * (Word \div 2)
    BY <1>1
  <1> QED BY <1>2, AccessorsAssumption DEF AccessorsAssumption

\* The limits of a symbol index that are not beyond every index.
LEMMA SymbolLimit ==
  ASSUME NEW y \in Nat, y <= (Word - 1) \div Byte
  PROVE  y < Sym
  <1>1. Word - 1 = (Sym - 1) * Byte + (Byte - 1)
    BY Numbers
  <1>2. Byte \in Nat \ {0} /\ Sym - 1 \in Int /\ Byte - 1 \in 0 .. Byte - 1
    BY Numbers
  <1>3. ((Sym - 1) * Byte + (Byte - 1)) \div Byte = Sym - 1
    BY <1>2, Division
  <1> QED BY <1>1, <1>3, Numbers

-----------------------------------------------------------------------------
(* One field: narrowed and widened again it is what it was.                *)

LEMMA NarrowInfo ==
  ASSUME NEW v
  PROVE  Narrow("info", v) = ((v[1] * Byte) + (v[2] % Byte)) % Word
  BY DEF Narrow

LEMMA NarrowSigned ==
  ASSUME NEW v
  PROVE  Narrow("s32", v) = ((v + Word \div 2) % Word) - Word \div 2
  BY DEF Narrow

LEMMA InfoReadsBack ==
  ASSUME NEW y \in Nat, NEW t \in Nat, y < Sym, t < Byte
  PROVE  Widen("info", Narrow("info", << y, t >>)) = << y, t >>
  <1>1. t % Byte = t
    BY Numbers, Remainder
  <1>2. y * Byte + t \in 0 .. Word - 1
    <2>1. (y + 1) * Byte <= Sym * Byte
      BY Numbers
    <2>2. y * Byte + t < (y + 1) * Byte /\ y * Byte + t \in Nat
      BY Numbers
    <2> QED BY <2>1, <2>2, Numbers
  <1>3. (y * Byte + t) % Word = y * Byte + t
    BY <1>2, Numbers, Remainder
  <1>4. (y * Byte + t) \div Byte = y /\ (y * Byte + t) % Byte = t
    <2>1. Byte \in Nat \ {0} /\ y \in Int /\ t \in 0 .. Byte - 1
      BY Numbers
    <2> QED BY <2>1, Division
  <1>5. Narrow("info", << y, t >>) = y * Byte + t
    BY <1>1, <1>3, NarrowInfo
  <1> QED BY <1>4, <1>5 DEF Widen

LEMMA SignedReadsBack ==
  ASSUME NEW v \in Int, -(Word \div 2) <= v, v < Word \div 2
  PROVE  Widen("s32", Narrow("s32", v)) = v
  <1>1. v + Word \div 2 \in 0 .. Word - 1
    BY Numbers
  <1>2. (v + Word \div 2) % Word = v + Word \div 2
    BY <1>1, Numbers, Remainder
  <1>3. Narrow("s32", v) = v
    BY <1>2, NarrowSigned, Numbers
  <1> QED BY <1>3 DEF Widen

LEMMA UnsignedReadsBack ==
  ASSUME NEW v \in Nat, v < Word
  PROVE  Widen("u32", Narrow("u32", v)) = v
  <1>1. v % Word = v
    BY Numbers, Remainder
  <1> QED BY <1>1 DEF Widen, Narrow

LEMMA ObjectFact ==
  ASSUME o \in Objects
  PROVE  /\ o.lib \in {"local", "toolchain"} /\ o.kind \in Kinds[o.lib]
         /\ o.class \in {32, 64} /\ o.long \in {32, 64} /\ o.size \in {2, 3, 4}
         /\ IsHeader => o.size \in {2, 4} /\ (o.kind # "phdr" => o.size = 2)
         /\ o.kind = "symshndx" => o.lib = "toolchain"
  <1>1. CASE o \in DataObjects
    <2>1. /\ o.lib \in {"local", "toolchain"} /\ o.kind \in Kinds[o.lib]
          /\ o.class \in {32, 64} /\ o.long \in {32, 64} /\ o.size \in 2 .. 4
          /\ o.kind \notin Headers
      BY <1>1 DEF DataObjects
    <2> QED BY <2>1 DEF IsHeader, Kinds, Headers
  <1>2. CASE o \in HeaderObjects
    <2>1. /\ o.lib \in {"local", "toolchain"} /\ o.class \in {32, 64} /\ o.long = 64
          /\ o.kind \in Headers /\ o.size \in {2, 4} /\ (o.kind # "phdr" => o.size = 2)
      BY <1>2 DEF HeaderObjects
    <2> QED BY <2>1 DEF Kinds, Headers
  <1> QED BY <1>1, <1>2 DEF Objects

\* The numbers an application gives a field.
Values(conv) == Edges(conv) \cup {Plain(conv)}

LEMMA FieldReadsBack ==
  ASSUME o \in Objects, NEW conv, NEW ndx, NEW v \in Values(conv),
         Fits(conv, ndx, v), ~Cut(conv, v)
  PROVE  Widen(conv, Narrow(conv, v)) = v
  <1>1. CASE conv = "u32"
    <2>1. v \in Nat /\ v < Word
      BY <1>1, Numbers DEF Values, Edges, Plain, Fits
    <2> QED BY <1>1, <2>1, UnsignedReadsBack
  <1>2. CASE conv = "s32"
    <2>1. v \in Int /\ -(Word \div 2) <= v /\ v < Word \div 2
      BY <1>2, Numbers DEF Values, Edges, Plain, Fits
    <2> QED BY <1>2, <2>1, SignedReadsBack
  <1>3. CASE conv = "info"
    <2>1. PICK y \in Nat, t \in Nat : v = << y, t >>
      BY <1>3, Numbers DEF Values, Edges, Plain
    <2>2. y <= SymLimit /\ t < Byte
      BY <1>3, <2>1 DEF Fits
    <2>3. y < Sym
      <3>1. CASE o.lib = "local"
        BY <2>2, <3>1, Numbers DEF SymLimit
      <3>2. CASE o.lib = "toolchain" /\ o.long = 32
        BY <2>2, <3>2, SymbolLimit DEF SymLimit
      <3>3. CASE o.lib = "toolchain" /\ o.long = 64
        BY <1>3, <2>1, <3>3, Numbers DEF Cut
      <3> QED BY <3>1, <3>2, <3>3, ObjectFact
    <2> QED BY <1>3, <2>1, <2>2, <2>3, InfoReadsBack
  <1>4. CASE conv \notin {"u32", "s32", "info"}
    BY <1>4 DEF Widen, Narrow
  <1> QED BY <1>1, <1>2, <1>3, <1>4

-----------------------------------------------------------------------------
(* The fields of a record and the values given for them.                   *)

LEMMA ConvFact ==
  ASSUME o \in Objects, NEW n \in Names
  PROVE  \E i \in DOMAIN Fields : Fields[i][1] = n /\ Fields[i][2] = Conv[n]
  <1> DEFINE at == CHOOSE i \in DOMAIN Fields : Fields[i][1] = n
  <1>1. Conv = [m \in {Fields[i][1] : i \in DOMAIN Fields} |->
                   Fields[CHOOSE i \in DOMAIN Fields : Fields[i][1] = m][2]]
    BY ObjectFact DEF Conv, ConvOf, Fields
  <1>2. n \in {Fields[i][1] : i \in DOMAIN Fields}
    BY <1>1 DEF Names
  <1>3. \E i \in DOMAIN Fields : Fields[i][1] = n
    BY <1>2
  <1>4. at \in DOMAIN Fields /\ Fields[at][1] = n
    BY <1>3
  <1>5. Conv[n] = Fields[at][2]
    BY <1>1, <1>2
  <1> QED BY <1>4, <1>5

LEMMA GivenFact ==
  ASSUME o \in Objects, NEW v \in Given
  PROVE  /\ v = [n \in Names |-> v[n]]
         /\ \A n \in Names : v[n] \in Values(Conv[n])
  <1>1. Given = UNION { {[n \in Names |-> IF n = m THEN w ELSE Plain(Conv[n])] : w \in Edges(Conv[m])}
                        : m \in Names }
    BY ObjectFact DEF Given, GivenOf, Conv, Names
  <1>2. PICK m \in Names :
            v \in {[n \in Names |-> IF n = m THEN w ELSE Plain(Conv[n])] : w \in Edges(Conv[m])}
    BY <1>1
  <1>3. PICK w \in Edges(Conv[m]) : v = [n \in Names |-> IF n = m THEN w ELSE Plain(Conv[n])]
    BY <1>2
  <1> QED BY <1>3 DEF Values

LEMMA Pairs ==
  ASSUME NEW S, NEW names \in Seq(S)
  PROVE  Same(names) \in Seq(S \X {"same", "u32"}) /\ U32(names) \in Seq(S \X {"same", "u32"})
  <1>1. Len(names) \in Nat /\ DOMAIN names = 1 .. Len(names)
    BY LenProperties
  <1>2. \A i \in 1 .. Len(names) : names[i] \in S
    BY LenProperties
  <1>3. [i \in DOMAIN names |-> << names[i], "same" >>] \in [1 .. Len(names) -> S \X {"same", "u32"}]
    BY <1>1, <1>2
  <1>4. [i \in DOMAIN names |-> << names[i], "u32" >>] \in [1 .. Len(names) -> S \X {"same", "u32"}]
    BY <1>1, <1>2
  <1> QED BY <1>1, <1>3, <1>4, SeqDef DEF Same, U32

LEMMA XindexFact ==
  ASSUME o \in Objects, o.kind = "symshndx"
  PROVE  \E i \in DOMAIN Fields : Fields[i][2] = "xindex"
  <1> DEFINE s == SymFields.toolchain
             x == << "xindex", "xindex" >>
             S == {"st_name", "st_info", "st_other", "st_shndx", "st_value", "st_size", "xindex"}
  <1>1. Fields = s \o << x >>
    BY ObjectFact DEF Fields, FieldsOf, Kinds
  <1>2. s \in Seq(S \X {"same", "u32"})
    <2>1. Same(<<"st_name", "st_info", "st_other", "st_shndx">>) \in Seq(S \X {"same", "u32"})
      <3>1. <<"st_name", "st_info", "st_other", "st_shndx">> \in Seq(S)
        OBVIOUS
      <3> QED BY <3>1, Pairs
    <2>2. U32(<<"st_value", "st_size">>) \in Seq(S \X {"same", "u32"})
      <3>1. <<"st_value", "st_size">> \in Seq(S)
        OBVIOUS
      <3> QED BY <3>1, Pairs
    <2> QED BY <2>1, <2>2, ConcatProperties DEF SymFields
  <1>3. Len(s) + 1 \in DOMAIN (s \o << x >>) /\ (s \o << x >>)[Len(s) + 1] = x
    BY <1>2
  <1> QED BY <1>1, <1>3

-----------------------------------------------------------------------------
(* No table names a field twice, so that a field is narrowed in one way.   *)

Ways == {"same", "u32", "s32", "info", "xindex"}

\* Fields with names of S, each named once.
Listed(f, S) ==
    /\ f \in Seq(S \X Ways)
    /\ \A i, j \in 1 .. Len(f) : f[i][1] = f[j][1] => i = j

Once(names, S) ==
    /\ names \in Seq(S)
    /\ \A i, j \in 1 .. Len(names) : names[i] = names[j] => i = j

LEMMA PairsListed ==
  ASSUME NEW S, NEW names, Once(names, S)
  PROVE  Listed(Same(names), S) /\ Listed(U32(names), S)
  <1>1. /\ names \in Seq(S) /\ Len(names) \in Nat /\ DOMAIN names = 1 .. Len(names)
        /\ \A i \in 1 .. Len(names) : names[i] \in S
    BY LenProperties DEF Once
  <1>2. ASSUME NEW way \in Ways, NEW f, f = [i \in 1 .. Len(names) |-> << names[i], way >>]
        PROVE  Listed(f, S)
    <2>1. f \in [1 .. Len(names) -> S \X Ways]
      BY <1>1, <1>2
    <2>2. f \in Seq(S \X Ways) /\ Len(f) = Len(names)
      BY <1>1, <2>1, SeqDef, LenProperties
    <2>3. \A i \in 1 .. Len(names) : f[i][1] = names[i]
      BY <1>2
    <2> QED BY <2>2, <2>3 DEF Listed, Once
  <1>3. /\ Same(names) = [i \in 1 .. Len(names) |-> << names[i], "same" >>]
        /\ U32(names) = [i \in 1 .. Len(names) |-> << names[i], "u32" >>]
    BY <1>1 DEF Same, U32
  <1>4. "same" \in Ways /\ "u32" \in Ways
    BY DEF Ways
  <1>5. Listed(Same(names), S)
    BY <1>2, <1>3, <1>4
  <1>6. Listed(U32(names), S)
    BY <1>2, <1>3, <1>4
  <1> QED BY <1>5, <1>6

LEMMA ConcatListed ==
  ASSUME NEW S, NEW T, NEW f, NEW g, Listed(f, S), Listed(g, T), S \cap T = {}
  PROVE  Listed(f \o g, S \cup T)
  <1> DEFINE h == f \o g
             A == S \X Ways
             B == T \X Ways
             C == (S \cup T) \X Ways
  <1>1. f \in Seq(A) /\ g \in Seq(B)
    BY DEF Listed
  <1>2. Len(f) \in Nat /\ Len(g) \in Nat
    BY <1>1, LenProperties
  <1>3. f \in Seq(C) /\ g \in Seq(C)
    <2>1. A \subseteq C /\ B \subseteq C
      OBVIOUS
    <2> HIDE DEF A, B, C
    <2> QED BY <1>1, <2>1
  <1>4. /\ h \in Seq(C) /\ Len(h) = Len(f) + Len(g)
        /\ \A i \in 1 .. Len(f) + Len(g) :
              h[i] = IF i <= Len(f) THEN f[i] ELSE g[i - Len(f)]
    <2> HIDE DEF A, B, C
    <2> QED BY <1>3, ConcatProperties
  <1>5. \A i \in 1 .. Len(f) : f[i][1] \in S
    BY <1>1, LenProperties
  <1>6. \A i \in 1 .. Len(g) : g[i][1] \in T
    BY <1>1, LenProperties
  <1> HIDE DEF h
  <1>7. ASSUME NEW i \in 1 .. Len(h), NEW j \in 1 .. Len(h), h[i][1] = h[j][1]
        PROVE  i = j
    <2>1. CASE i <= Len(f) /\ j <= Len(f)
      <3>1. f[i][1] = f[j][1] /\ i \in 1 .. Len(f) /\ j \in 1 .. Len(f)
        BY <1>2, <1>4, <1>7, <2>1
      <3> QED BY <3>1 DEF Listed
    <2>2. CASE i > Len(f) /\ j > Len(f)
      <3>1. /\ g[i - Len(f)][1] = g[j - Len(f)][1]
            /\ i - Len(f) \in 1 .. Len(g) /\ j - Len(f) \in 1 .. Len(g)
        BY <1>2, <1>4, <1>7, <2>2
      <3>2. i - Len(f) = j - Len(f)
        BY <3>1 DEF Listed
      <3> QED BY <1>2, <1>7, <3>2
    <2>3. CASE i <= Len(f) /\ j > Len(f)
      <3>1. f[i][1] = g[j - Len(f)][1] /\ i \in 1 .. Len(f) /\ j - Len(f) \in 1 .. Len(g)
        BY <1>2, <1>4, <1>7, <2>3
      <3> QED BY <1>5, <1>6, <3>1
    <2>4. CASE i > Len(f) /\ j <= Len(f)
      <3>1. g[i - Len(f)][1] = f[j][1] /\ j \in 1 .. Len(f) /\ i - Len(f) \in 1 .. Len(g)
        BY <1>2, <1>4, <1>7, <2>4
      <3> QED BY <1>5, <1>6, <3>1
    <2> QED BY <1>2, <1>4, <2>1, <2>2, <2>3, <2>4
  <1>8. h \in Seq((S \cup T) \X Ways)
    BY <1>4
  <1>9. Listed(h, S \cup T)
    BY <1>7, <1>8 DEF Listed
  <1> QED BY <1>9 DEF h

\* A table of a few fields written out.
LEMMA ShortListed ==
  /\ Listed(Info, {"r_info"})
  /\ \A n : Listed(S32(n), {n})
  <1>1. ASSUME NEW n, NEW way \in Ways, NEW f, f = << << n, way >> >>
        PROVE  Listed(f, {n})
    <2>1. << n, way >> \in {n} \X Ways
      OBVIOUS
    <2>2. f \in Seq({n} \X Ways) /\ Len(f) = 1
      <3> DEFINE A == {n} \X Ways
                 x == << n, way >>
      <3>1. x \in A
        BY <2>1
      <3> HIDE DEF A, x
      <3>2. << x >> \in Seq(A) /\ Len(<< x >>) = 1
        BY <3>1
      <3> QED BY <1>1, <3>2 DEF A, x
    <2> QED BY <2>2 DEF Listed
  <1>2. "info" \in Ways /\ "s32" \in Ways
    BY DEF Ways
  <1> QED BY <1>1, <1>2 DEF Info, S32

\* Two parts of a table, of names that differ.
LEMMA SymbolsListed ==
  /\ \E S : Listed(SymFields.local, S)
  /\ "xindex" \notin {"st_name", "st_info", "st_other", "st_shndx", "st_value", "st_size"}
  /\ Listed(SymFields.toolchain, {"st_name", "st_info", "st_other", "st_shndx"}
                                     \cup {"st_value", "st_size"})
  <1>1. Once(<<"st_name">>, {"st_name"}) /\ Once(<<"st_value", "st_size">>, {"st_value", "st_size"})
    BY DEF Once
  <1>2. Once(<<"st_info", "st_other", "st_shndx">>, {"st_info", "st_other", "st_shndx"})
    BY DEF Once
  <1>3. Once(<<"st_name", "st_info", "st_other", "st_shndx">>,
             {"st_name", "st_info", "st_other", "st_shndx"})
    BY DEF Once
  <1>4. Listed(Same(<<"st_name">>) \o U32(<<"st_value", "st_size">>),
               {"st_name"} \cup {"st_value", "st_size"})
    <2>1. {"st_name"} \cap {"st_value", "st_size"} = {}
      OBVIOUS
    <2> QED BY <1>1, <2>1, PairsListed, ConcatListed
  <1>5. Listed(Same(<<"st_name">>) \o U32(<<"st_value", "st_size">>)
                   \o Same(<<"st_info", "st_other", "st_shndx">>),
               ({"st_name"} \cup {"st_value", "st_size"}) \cup {"st_info", "st_other", "st_shndx"})
    <2>1. ({"st_name"} \cup {"st_value", "st_size"}) \cap {"st_info", "st_other", "st_shndx"} = {}
      OBVIOUS
    <2> QED BY <1>2, <1>4, <2>1, PairsListed, ConcatListed
  <1>6. Listed(Same(<<"st_name", "st_info", "st_other", "st_shndx">>) \o U32(<<"st_value", "st_size">>),
               {"st_name", "st_info", "st_other", "st_shndx"} \cup {"st_value", "st_size"})
    <2>1. {"st_name", "st_info", "st_other", "st_shndx"} \cap {"st_value", "st_size"} = {}
      OBVIOUS
    <2> QED BY <1>1, <1>3, <2>1, PairsListed, ConcatListed
  <1> QED BY <1>5, <1>6 DEF SymFields

LEMMA RecordsListed ==
  /\ Listed(RelFields, {"r_offset"} \cup {"r_info"})
  /\ Listed(RelaFields, ({"r_offset"} \cup {"r_info"}) \cup {"r_addend"})
  /\ Listed(DynFields, {"d_tag"} \cup {"d_val"})
  /\ Listed(CapFields, {"c_tag", "c_val"})
  /\ Listed(SyminfoFields, {"si_boundto", "si_flags"})
  /\ Listed(MoveFields, ({"m_value"} \cup {"m_info", "m_poffset"}) \cup {"m_repeat", "m_stride"})
  <1>1. /\ Once(<<"r_offset">>, {"r_offset"}) /\ Once(<<"d_val">>, {"d_val"})
        /\ Once(<<"c_tag", "c_val">>, {"c_tag", "c_val"})
        /\ Once(<<"si_boundto", "si_flags">>, {"si_boundto", "si_flags"})
    BY DEF Once
  <1>2. /\ Once(<<"m_value">>, {"m_value"}) /\ Once(<<"m_info", "m_poffset">>, {"m_info", "m_poffset"})
        /\ Once(<<"m_repeat", "m_stride">>, {"m_repeat", "m_stride"})
    BY DEF Once
  <1>3. Listed(RelFields, {"r_offset"} \cup {"r_info"})
    <2>1. {"r_offset"} \cap {"r_info"} = {}
      OBVIOUS
    <2> QED BY <1>1, <2>1, PairsListed, ShortListed, ConcatListed DEF RelFields
  <1>4. Listed(RelaFields, ({"r_offset"} \cup {"r_info"}) \cup {"r_addend"})
    <2>1. ({"r_offset"} \cup {"r_info"}) \cap {"r_addend"} = {}
      OBVIOUS
    <2> QED BY <1>3, <2>1, ShortListed, ConcatListed DEF RelaFields
  <1>5. Listed(DynFields, {"d_tag"} \cup {"d_val"})
    <2>1. {"d_tag"} \cap {"d_val"} = {}
      OBVIOUS
    <2> QED BY <1>1, <2>1, PairsListed, ShortListed, ConcatListed DEF DynFields
  <1>6. Listed(CapFields, {"c_tag", "c_val"}) /\ Listed(SyminfoFields, {"si_boundto", "si_flags"})
    BY <1>1, PairsListed DEF CapFields, SyminfoFields
  <1>7. Listed(Same(<<"m_value">>) \o U32(<<"m_info", "m_poffset">>),
               {"m_value"} \cup {"m_info", "m_poffset"})
    <2>1. {"m_value"} \cap {"m_info", "m_poffset"} = {}
      OBVIOUS
    <2> QED BY <1>2, <2>1, PairsListed, ConcatListed
  <1>8. Listed(MoveFields, ({"m_value"} \cup {"m_info", "m_poffset"}) \cup {"m_repeat", "m_stride"})
    <2>1. ({"m_value"} \cup {"m_info", "m_poffset"}) \cap {"m_repeat", "m_stride"} = {}
      OBVIOUS
    <2> QED BY <1>2, <1>7, <2>1, PairsListed, ConcatListed DEF MoveFields
  <1> QED BY <1>3, <1>4, <1>5, <1>6, <1>8

LEMMA SegmentsListed ==
  \A lib \in {"local", "toolchain"} : \E S : Listed(PhdrFields[lib], S)
  <1> DEFINE T == {"p_type"}
             U == {"p_offset", "p_vaddr", "p_paddr", "p_filesz", "p_memsz"}
             V == {"p_flags"}
             W == {"p_align"}
             X == {"p_type", "p_flags"}
             Y == {"p_offset", "p_vaddr", "p_paddr", "p_filesz", "p_memsz", "p_align"}
  <1>1. /\ Once(<<"p_type">>, T) /\ Once(<<"p_flags">>, V) /\ Once(<<"p_align">>, W)
        /\ Once(<<"p_type", "p_flags">>, X)
        /\ Once(<<"p_offset", "p_vaddr", "p_paddr", "p_filesz", "p_memsz">>, U)
        /\ Once(<<"p_offset", "p_vaddr", "p_paddr", "p_filesz", "p_memsz", "p_align">>, Y)
    BY DEF Once
  <1>2. T \cap U = {} /\ (T \cup U) \cap V = {} /\ ((T \cup U) \cup V) \cap W = {} /\ X \cap Y = {}
    OBVIOUS
  <1> HIDE DEF T, U, V, W, X, Y
  <1>3. Listed(Same(<<"p_type">>) \o U32(<<"p_offset", "p_vaddr", "p_paddr", "p_filesz", "p_memsz">>),
               T \cup U)
    BY <1>1, <1>2, PairsListed, ConcatListed
  <1>4. Listed(Same(<<"p_type">>) \o U32(<<"p_offset", "p_vaddr", "p_paddr", "p_filesz", "p_memsz">>)
                   \o Same(<<"p_flags">>), (T \cup U) \cup V)
    BY <1>1, <1>2, <1>3, PairsListed, ConcatListed
  <1>5. Listed(PhdrFields.local, ((T \cup U) \cup V) \cup W)
    BY <1>1, <1>2, <1>4, PairsListed, ConcatListed DEF PhdrFields
  <1>6. Listed(PhdrFields.toolchain, X \cup Y)
    BY <1>1, <1>2, PairsListed, ConcatListed DEF PhdrFields
  <1> QED BY <1>5, <1>6

LEMMA HeadersListed ==
  (\E S : Listed(ShdrFields, S)) /\ (\E S : Listed(EhdrFields, S))
  <1> DEFINE T == {"sh_name", "sh_type"}
             U == {"sh_flags", "sh_addr", "sh_offset", "sh_size"}
             V == {"sh_link", "sh_info"}
             W == {"sh_addralign", "sh_entsize"}
             X == {"e_ident", "e_type", "e_machine", "e_version"}
             Y == {"e_entry", "e_phoff", "e_shoff"}
             Z == {"e_flags", "e_ehsize", "e_phentsize", "e_phnum", "e_shentsize", "e_shnum",
                   "e_shstrndx"}
  <1>1. /\ Once(<<"sh_name", "sh_type">>, T) /\ Once(<<"sh_link", "sh_info">>, V)
        /\ Once(<<"sh_flags", "sh_addr", "sh_offset", "sh_size">>, U)
        /\ Once(<<"sh_addralign", "sh_entsize">>, W)
    BY DEF Once
  <1>2. /\ Once(<<"e_ident", "e_type", "e_machine", "e_version">>, X)
        /\ Once(<<"e_entry", "e_phoff", "e_shoff">>, Y)
        /\ Once(<<"e_flags", "e_ehsize", "e_phentsize", "e_phnum", "e_shentsize", "e_shnum",
                  "e_shstrndx">>, Z)
    BY DEF Once
  <1>3. /\ T \cap U = {} /\ (T \cup U) \cap V = {} /\ ((T \cup U) \cup V) \cap W = {}
        /\ X \cap Y = {} /\ (X \cup Y) \cap Z = {}
    OBVIOUS
  <1> HIDE DEF T, U, V, W, X, Y, Z
  <1>4. Listed(Same(<<"sh_name", "sh_type">>)
                   \o U32(<<"sh_flags", "sh_addr", "sh_offset", "sh_size">>), T \cup U)
    BY <1>1, <1>3, PairsListed, ConcatListed
  <1>5. Listed(Same(<<"sh_name", "sh_type">>)
                   \o U32(<<"sh_flags", "sh_addr", "sh_offset", "sh_size">>)
                   \o Same(<<"sh_link", "sh_info">>), (T \cup U) \cup V)
    BY <1>1, <1>3, <1>4, PairsListed, ConcatListed
  <1>6. Listed(ShdrFields, ((T \cup U) \cup V) \cup W)
    BY <1>1, <1>3, <1>5, PairsListed, ConcatListed DEF ShdrFields
  <1>7. Listed(Same(<<"e_ident", "e_type", "e_machine", "e_version">>)
                   \o U32(<<"e_entry", "e_phoff", "e_shoff">>), X \cup Y)
    BY <1>2, <1>3, PairsListed, ConcatListed
  <1>8. Listed(EhdrFields, (X \cup Y) \cup Z)
    BY <1>2, <1>3, <1>7, PairsListed, ConcatListed DEF EhdrFields
  <1> QED BY <1>6, <1>8

LEMMA FieldsListed ==
  ASSUME o \in Objects
  PROVE  \E S : Listed(Fields, S)
  <1>1. o.lib \in {"local", "toolchain"} /\ o.kind \in Kinds[o.lib]
    BY ObjectFact
  <1>2. CASE o.kind = "sym"
    BY <1>1, <1>2, SymbolsListed DEF Fields, FieldsOf
  <1>3. CASE o.kind = "symshndx"
    <2> DEFINE S == {"st_name", "st_info", "st_other", "st_shndx"} \cup {"st_value", "st_size"}
               x == << << "xindex", "xindex" >> >>
    <2>1. Listed(x, {"xindex"})
      BY ShortListed DEF Listed, S32, Ways
    <2>2. Listed(SymFields.toolchain, S) /\ S \cap {"xindex"} = {}
      BY SymbolsListed
    <2>3. Fields = SymFields.toolchain \o x
      BY <1>1, <1>3 DEF Fields, FieldsOf
    <2> HIDE DEF S, x
    <2> QED BY <2>1, <2>2, <2>3, ConcatListed
  <1>4. CASE o.kind \in {"rel", "rela", "dyn", "cap", "move", "syminfo"}
    BY <1>1, <1>4, RecordsListed DEF Fields, FieldsOf
  <1>5. CASE o.kind = "phdr"
    BY <1>1, <1>5, SegmentsListed DEF Fields, FieldsOf
  <1>6. CASE o.kind \in {"shdr", "ehdr"}
    BY <1>1, <1>6, HeadersListed DEF Fields, FieldsOf
  <1> QED BY <1>1, <1>2, <1>3, <1>4, <1>5, <1>6 DEF Kinds, Headers

\* Every field is narrowed the way its entry in the table says.
LEMMA FieldWay ==
  ASSUME o \in Objects, NEW i \in DOMAIN Fields
  PROVE  i \in Nat /\ Fields[i][1] \in Names /\ Conv[Fields[i][1]] = Fields[i][2]
  <1>1. PICK S : Listed(Fields, S)
    BY FieldsListed
  <1>2. DOMAIN Fields = 1 .. Len(Fields) /\ Len(Fields) \in Nat
    BY <1>1, LenProperties DEF Listed
  <1>3. Conv = [m \in {Fields[j][1] : j \in DOMAIN Fields} |->
                   Fields[CHOOSE j \in DOMAIN Fields : Fields[j][1] = m][2]]
    BY ObjectFact DEF Conv, ConvOf, Fields
  <1>4. Fields[i][1] \in Names
    BY <1>3 DEF Names
  <1>5. PICK j \in DOMAIN Fields : Fields[j][1] = Fields[i][1] /\ Fields[j][2] = Conv[Fields[i][1]]
    BY <1>4, ConvFact
  <1>6. i = j
    BY <1>1, <1>2, <1>5 DEF Listed
  <1> QED BY <1>2, <1>4, <1>5, <1>6

-----------------------------------------------------------------------------
(* A record that was accepted reads back.                                  *)

\* The indices the checks let through.
LEMMA AcceptedIndex ==
  ASSUME o \in Objects, NEW ndx \in Indices, Accepted(ndx), IsHeader
  PROVE  Owned(ndx) \/ Overruns(ndx)
  <1>1. CASE o.kind = "phdr"
    <2>1. ndx \in -1 .. 2 /\ o.size \in {2, 4}
      BY <1>1, ObjectFact DEF Indices
    <2>2. CASE o.lib = "local"
      BY <2>2 DEF Accepted, HeaderUpdates
    <2>3. CASE o.lib = "toolchain"
      <3>1. ndx >= 0 /\ 2 * ndx <= o.size
        BY <1>1, <2>3 DEF Accepted, HeaderUpdates
      <3> QED BY <2>1, <2>3, <3>1 DEF Owned, Overruns
    <2> QED BY <2>2, <2>3, ObjectFact
  <1>2. CASE o.kind # "phdr"
    BY <1>2, ObjectFact DEF Owned, Indices, IsHeader, Headers
  <1> QED BY <1>1, <1>2

LEMMA MatchReadsBack ==
  ASSUME o \in Objects, NEW ndx \in Indices, NEW v, Matches(ndx, v),
         ~(IsHeader /\ Overruns(ndx)), ~(o.kind = "symshndx" /\ o.itype # "word"),
         ~(o.class = 32 /\ \E n \in Names : Cut(Conv[n], v[n]))
  PROVE  Got(ndx) = v
  <1>1. v \in Given /\ Misfits(ndx, v) = {} /\ Accepted(ndx)
    BY DEF Matches
  <1>2. Got(ndx) = Loaded(elems[ndx])
    <2>1. CASE IsHeader
      BY <1>1, <2>1, AcceptedIndex DEF Got
    <2>2. CASE ~IsHeader /\ o.kind # "symshndx"
      BY <1>1, <2>2 DEF Got, Accepted
    <2>3. CASE ~IsHeader /\ o.kind = "symshndx"
      <3>1. PICK i \in DOMAIN Fields : Fields[i][2] = "xindex"
        BY <2>3, XindexFact
      <3>2. Fits("xindex", ndx, v[Fields[i][1]])
        BY <1>1, <3>1 DEF Misfits
      <3>3. ndx < o.words
        BY <3>2 DEF Fits
      <3> QED BY <1>1, <2>3, <3>3 DEF Got, Accepted
    <2> QED BY <2>1, <2>2, <2>3
  <1>3. Loaded(elems[ndx]) = [n \in Names |-> v[n]]
    <2>1. CASE o.class = 64
      BY <2>1 DEF Matches, Loaded, Stored
    <2>2. CASE o.class = 32
      <3> SUFFICES ASSUME NEW n \in Names
                   PROVE  Widen(Conv[n], Narrow(Conv[n], v[n])) = v[n]
        BY <2>2 DEF Matches, Loaded, Stored
      <3>1. PICK i \in DOMAIN Fields : Fields[i][1] = n /\ Fields[i][2] = Conv[n]
        BY ConvFact
      <3>2. Fits(Conv[n], ndx, v[n])
        BY <1>1, <2>2, <3>1 DEF Misfits
      <3>3. v[n] \in Values(Conv[n])
        BY <1>1, GivenFact
      <3> QED BY <2>2, <3>2, <3>3, FieldReadsBack
    <2> QED BY <2>1, <2>2, ObjectFact
  <1> QED BY <1>1, <1>2, <1>3, GivenFact

-----------------------------------------------------------------------------
LEMMA InitIInv == Init => IInv
  BY DEF Init, IInv, Objects

\* A record nobody touched still matches.
LEMMA MatchStays ==
  ASSUME o' = o, NEW ndx, NEW v, elems'[ndx] = elems[ndx], Matches(ndx, v)
  PROVE  Matches(ndx, v)'
  BY DEF Matches, Indices, Accepted, HeaderUpdates, DataFound, Owned, Starts, Given, Misfits, Fits,
         SymLimit, Fields, Conv, Names, Stored, IsHeader

\* Every step keeps the invariant: an accepted update writes the whole record.
LEMMA NextIInv ==
  ASSUME IInv, [Next]_vars
  PROVE  IInv'
  <1>1. CASE UNCHANGED << o, elems, want >>
    <2>1. o' \in Objects' /\ DOMAIN elems' = 0 .. 2 /\ DOMAIN want' = 0 .. 2
      BY <1>1 DEF IInv, Objects, DataObjects, HeaderObjects
    <2>2. ASSUME NEW i \in 0 .. 2, want[i] # Unknown
          PROVE  Matches(i, want[i])'
      BY <1>1, <2>2, MatchStays DEF IInv
    <2> QED BY <1>1, <2>1, <2>2 DEF IInv
  <1>2. ASSUME NEW ndx \in Indices, NEW v \in Given, Update(ndx, v),
               Accepted(ndx), ~Null(ndx)
        PROVE  IInv'
    <2>1. /\ o' = o /\ o' \in Objects' /\ Objects' = Objects
          /\ DOMAIN elems' = 0 .. 2 /\ DOMAIN want' = 0 .. 2
      BY <1>2 DEF Update, IInv, Objects, DataObjects, HeaderObjects
    <2>2. elems' = [elems EXCEPT ![ndx] = Updated(@, ndx, v)]
      BY <1>2 DEF Update
    <2>3. ASSUME NEW i \in 0 .. 2, i # ndx
          PROVE  (want[i] = Unknown \/ Matches(i, want[i]))'
      <3>1. elems'[i] = elems[i] /\ want'[i] = want[i]
        BY <1>2, <2>2, <2>3 DEF Update, IInv
      <3> QED BY <2>1, <3>1, MatchStays DEF IInv
    <2>4. ASSUME ndx \in 0 .. 2
          PROVE  (want[ndx] = Unknown \/ Matches(ndx, want[ndx]))'
      <3>1. CASE Misfits(ndx, v) # {}
        BY <1>2, <2>4, <3>1 DEF Update, IInv
      <3>2. CASE Misfits(ndx, v) = {}
        <4>1. want'[ndx] = v
          BY <1>2, <2>4, <3>2 DEF Update, IInv
        <4>2. elems'[ndx] = Updated(elems[ndx], ndx, v)
          BY <2>2, <2>4 DEF IInv
        <4>3. Updated(elems[ndx], ndx, v) = [n \in Names |-> Stored(n, v[n])]
          <5> SUFFICES ASSUME NEW n \in Names
                       PROVE  \E i \in DOMAIN Fields :
                                 Fields[i][1] = n /\ \A j \in Misfits(ndx, v) : i < j
            BY DEF Updated
          <5> QED BY <3>2, ConvFact DEF IInv
        <4>4. (Misfits(ndx, v) = {})'
          BY <2>1, <3>2 DEF Misfits, Fits, SymLimit, Fields
        <4>5. Accepted(ndx)'
          BY <1>2, <2>1 DEF Accepted, HeaderUpdates, DataFound, Owned, Starts, IsHeader
        <4>6. (elems[ndx] = [n \in Names |-> Stored(n, v[n])])'
          BY <2>1, <4>2, <4>3 DEF Conv, Names, Stored
        <4>7. (ndx \in Indices /\ v \in Given)'
          BY <2>1 DEF Indices, Given
        <4>8. Matches(ndx, v)'
          BY <4>4, <4>5, <4>6, <4>7 DEF Matches
        <4> QED BY <4>1, <4>8
      <3> QED BY <3>1, <3>2
    <2> QED BY <2>1, <2>3, <2>4 DEF IInv
  <1>3. CASE Next
    <2>1. PICK ndx \in Indices : Get(ndx) \/ \E v \in Given : Update(ndx, v)
      BY <1>3 DEF Next, Given
    <2>2. CASE Get(ndx)
      BY <1>1, <2>2 DEF Get
    <2>3. ASSUME NEW v \in Given, Update(ndx, v)
          PROVE  IInv'
      <3>1. CASE Accepted(ndx) /\ ~Null(ndx)
        BY <1>2, <2>3, <3>1
      <3>2. CASE ~Accepted(ndx) \/ Null(ndx)
        BY <1>1, <2>3, <3>2 DEF Update
      <3> QED BY <3>1, <3>2
    <2> QED BY <2>1, <2>2, <2>3
  <1> QED BY <1>1, <1>3 DEF vars

LEMMA IInvReadsBack == IInv => AcceptedReadsBack
  <1> SUFFICES ASSUME IInv, NEW i \in 0 .. 2, want[i] # Unknown,
                      ~(o.class = 32 /\ \E n \in Names : Cut(Conv[n], want[i][n])),
                      ~(IsHeader /\ Overruns(i)), ~(o.kind = "symshndx" /\ o.itype # "word")
               PROVE  Got(i) = want[i]
    BY DEF AcceptedReadsBack
  <1>1. o \in Objects /\ Matches(i, want[i]) /\ i \in Indices
    BY DEF IInv, Matches
  <1> QED BY <1>1, MatchReadsBack

(* What gelf_update_* accepted last for an index is what gelf_get* returns *)
(* for it, for words of every size: a record that changed in between was   *)
(* accepted anew or is no longer known.  The exceptions are those that     *)
(* AcceptedReadsBack names.                                                *)
THEOREM AcceptedIsKept == Spec => []AcceptedReadsBack
  <1>1. Spec => []IInv
    BY InitIInv, NextIInv, PTL DEF Spec
  <1> QED BY <1>1, IInvReadsBack, PTL

-----------------------------------------------------------------------------
(* What a step of an update touches.                                       *)

\* The step of OnlyTheRecord.
Touched ==
    \A i \in 0 .. 2 : elems'[i] # elems[i] =>
        /\ i = said'.ndx /\ (Owned(i) \/ Overruns(i))
        /\ \A n \in Names :
              \/ elems'[i][n] = elems[i][n]
              \/ Loaded(elems'[i])[n] = said'.given[n]
              \/ o.class = 32 /\ Cut(Conv[n], said'.given[n])
        /\ IsHeader /\ o.lib = "toolchain" => dirty'

\* The indices the checks let through, of a header or of a record.
LEMMA AcceptedPlace ==
  ASSUME o \in Objects, NEW ndx \in Indices, Accepted(ndx)
  PROVE  Owned(ndx) \/ Overruns(ndx)
  <1>1. CASE IsHeader
    BY <1>1, AcceptedIndex
  <1>2. CASE ~IsHeader
    <2>1. ndx \in Int /\ o.size \in {2, 3, 4} /\ o.lib \in {"local", "toolchain"}
      BY ObjectFact DEF Indices
    <2>2. CASE o.lib = "local"
      BY <1>2, <2>2 DEF Accepted, DataFound
    <2>3. CASE o.lib = "toolchain"
      <3>1. ndx >= 0 /\ 2 * ndx < o.size
        BY <1>2, <2>3 DEF Accepted, DataFound, Starts
      <3>2. 2 * ndx + 1 = o.size \/ 2 * (ndx + 1) <= o.size
        BY <2>1, <3>1
      <3> QED BY <1>2, <2>3, <3>1, <3>2 DEF Owned, Overruns
    <2> QED BY <2>1, <2>2, <2>3
  <1> QED BY <1>1, <1>2

\* A field of an updated record is the old one, or reads as it was given.
LEMMA UpdatedField ==
  ASSUME o \in Objects, NEW x, NEW ndx, NEW v \in Given, NEW n \in Names
  PROVE  \/ Updated(x, ndx, v)[n] = x[n]
         \/ Loaded(Updated(x, ndx, v))[n] = v[n]
         \/ o.class = 32 /\ Cut(Conv[n], v[n])
  <1>1. CASE \E i \in DOMAIN Fields : Fields[i][1] = n /\ \A j \in Misfits(ndx, v) : i < j
    <2>1. PICK i \in DOMAIN Fields : Fields[i][1] = n /\ \A j \in Misfits(ndx, v) : i < j
      BY <1>1
    <2>2. i \in Nat /\ Conv[n] = Fields[i][2]
      BY <2>1, FieldWay
    <2>3. i \notin Misfits(ndx, v)
      BY <2>1, <2>2
    <2>4. Updated(x, ndx, v)[n] = Stored(n, v[n])
      BY <1>1 DEF Updated
    <2>5. CASE o.class = 64
      BY <2>4, <2>5 DEF Stored, Loaded
    <2>6. CASE o.class = 32 /\ ~Cut(Conv[n], v[n])
      <3>1. Fits(Conv[n], ndx, v[n])
        BY <2>1, <2>2, <2>3, <2>6 DEF Misfits
      <3>2. v[n] \in Values(Conv[n])
        BY GivenFact
      <3>3. Widen(Conv[n], Narrow(Conv[n], v[n])) = v[n]
        BY <2>6, <3>1, <3>2, FieldReadsBack
      <3> QED BY <2>4, <2>6, <3>3 DEF Stored, Loaded
    <2> QED BY <2>5, <2>6, ObjectFact
  <1>2. CASE ~\E i \in DOMAIN Fields : Fields[i][1] = n /\ \A j \in Misfits(ndx, v) : i < j
    BY <1>2 DEF Updated
  <1> QED BY <1>1, <1>2

LEMMA NextTouched ==
  ASSUME IInv, [Next]_vars
  PROVE  Touched
  <1>1. CASE elems' = elems
    BY <1>1 DEF Touched
  <1>2. CASE elems' # elems
    <2>1. PICK ndx \in Indices, v \in Given : Update(ndx, v)
      <3>1. Next
        BY <1>2 DEF vars
      <3>2. PICK ndx \in Indices : Get(ndx) \/ \E v \in Given : Update(ndx, v)
        BY <3>1 DEF Next, Given
      <3> QED BY <1>2, <3>2 DEF Get
    <2>2. /\ Accepted(ndx) /\ o \in Objects
          /\ elems' = [elems EXCEPT ![ndx] = Updated(@, ndx, v)]
          /\ dirty' = (dirty \/ (IsHeader /\ o.lib = "toolchain"))
          /\ said'.ndx = ndx /\ said'.given = v
      BY <1>2, <2>1 DEF Update, IInv
    <2>3. Owned(ndx) \/ Overruns(ndx)
      BY <2>2, AcceptedPlace
    <2>4. ASSUME NEW i \in 0 .. 2, elems'[i] # elems[i]
          PROVE  i = ndx /\ elems'[i] = Updated(elems[i], ndx, v)
      BY <2>2, <2>4 DEF IInv
    <2>5. ASSUME NEW i \in 0 .. 2, elems'[i] # elems[i], NEW n \in Names
          PROVE  \/ elems'[i][n] = elems[i][n]
                 \/ Loaded(elems'[i])[n] = v[n]
                 \/ o.class = 32 /\ Cut(Conv[n], v[n])
      BY <2>2, <2>4, <2>5, UpdatedField
    <2> QED BY <2>2, <2>3, <2>4, <2>5 DEF Touched
  <1> QED BY <1>1, <1>2

(* For words of every size: an update writes to the record it was called   *)
(* for and, but for the overruns that OnlyTheRecord names, to nothing      *)
(* behind the object; a field it leaves behind, whether it was refused or  *)
(* not, is whole, the old value or the given one; and a header of the      *)
(* second library that it changed is marked dirty.                         *)
THEOREM UpdatesStayInTheRecord == Spec => OnlyTheRecord
  <1>1. Spec => []IInv
    BY InitIInv, NextIInv, PTL DEF Spec
  <1>2. IInv /\ [Next]_vars => [Touched]_vars
    BY NextTouched
  <1>3. OnlyTheRecord <=> [][Touched]_vars
    BY DEF OnlyTheRecord, Touched
  <1> QED BY <1>1, <1>2, <1>3, PTL DEF Spec
=============================================================================
