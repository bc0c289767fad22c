------------------------- MODULE Translation_proofs -------------------------
(***************************************************************************)
(* Translation, for any table of any type, with buffers anywhere: where    *)
(* the members of a record are, what a call reads and writes, that a       *)
(* record is read before it is overwritten, that a walk goes the way the   *)
(* source says although it overwrites it, and with these that a call       *)
(* translates what it should and refuses only what is not whole.           *)
(***************************************************************************)
EXTENDS Translation, SequenceTheorems, FiniteSetTheorems, TLAPS

-----------------------------------------------------------------------------
(***************************************************************************)
(* Numbers.                                                                *)
(***************************************************************************)
LEMMA LeastOne ==
  ASSUME NEW B \in SUBSET Nat, B # {}
  PROVE  \E m \in B : \A n \in B : m <= n
  <1>1. PICK m \in B : \A n \in B : << n, m >> \notin OpToRel(<, Nat)
    BY NatLessThanWellFounded, WFMin
  <1>2. ASSUME NEW n \in B, n < m
        PROVE  FALSE
    <2>1. << n, m >> \in Nat \X Nat /\ << n, m >>[1] < << n, m >>[2]
      BY <1>2
    <2>2. << n, m >> \in OpToRel(<, Nat)
      BY <2>1 DEF OpToRel
    <2> QED BY <1>1, <2>2
  <1> QED BY <1>2

\* Induction up to n: a set with 0 and each successor has every number.
LEMMA UpTo ==
  ASSUME NEW n \in Nat, NEW S, 0 \in S,
         \A i \in 1 .. n : i - 1 \in S => i \in S
  PROVE  0 .. n \subseteq S
  <1> DEFINE B == {i \in 0 .. n : i \notin S}
  <1> SUFFICES ASSUME B # {} PROVE FALSE
    OBVIOUS
  <1>1. PICK m \in B : \A k \in B : m <= k
    <2>1. B \in SUBSET Nat
      OBVIOUS
    <2> HIDE DEF B
    <2> QED BY <2>1, LeastOne
  <1>2. m \in 1 .. n /\ m - 1 \notin B
    BY <1>1
  <1> QED BY <1>1, <1>2

LEMMA RoundUpFact ==
  ASSUME NEW n \in Nat, NEW to \in {1, 2, 4, 8}
  PROVE  RoundUp(n, to) \in Nat /\ RoundUp(n, to) >= n /\ RoundUp(n, to) < n + to
  <1>1. CASE to = 1
    BY <1>1 DEF RoundUp
  <1>2. CASE to = 2
    BY <1>2 DEF RoundUp
  <1>3. CASE to = 4
    BY <1>3 DEF RoundUp
  <1>4. CASE to = 8
    BY <1>4 DEF RoundUp
  <1> QED BY <1>1, <1>2, <1>3, <1>4

LEMMA TableIs ==
  ASSUME NEW f
  PROVE  Table(f) = f
  BY DEF Table

-----------------------------------------------------------------------------
(***************************************************************************)
(* The tables of members.                                                  *)
(***************************************************************************)
Types == {"Ident", "Byte", "Half", "Word", "Sword", "Lword", "Xword", "Sxword", "Addr", "Off"}

IsFields(f) ==
    /\ Len(f) \in Nat \ {0} /\ DOMAIN f = 1 .. Len(f)
    /\ \A i \in 1 .. Len(f) : f[i][2] \in Types
    /\ \A i, j \in 1 .. Len(f) : f[i][1] = f[j][1] => i = j

LEMMA WidthFact ==
  ASSUME NEW c \in Class, NEW t \in Types
  PROVE  /\ Width[c][t] \in {1, 2, 4, 8, 16}
         /\ Align(c, t) \in {1, 2, 4, 8} /\ RoundUp(Width[c][t], Align(c, t)) = Width[c][t]
  <1>1. c \div 8 \in {4, 8}
    BY DEF Class
  <1>2. Width[c][t] \in {1, 2, 4, 8, 16} /\ (Width[c][t] = 16 <=> t = "Ident")
    BY <1>1 DEF Width, Types
  <1>3. Align(c, t) = IF t = "Ident" THEN 1 ELSE IF Width[c][t] = 8 THEN LwordAlign ELSE Width[c][t]
    <2>1. CASE t = "Ident"
      <3>1. Width[c][t] # 8
        BY <1>2, <2>1
      <3>2. Align(c, t) = 1
        BY <2>1, <3>1, Zenon DEF Align
      <3> QED BY <2>1, <3>2
    <2>2. CASE t # "Ident" /\ Width[c][t] = 8
      <3>2. Align(c, t) = LwordAlign
        BY <2>2, Zenon DEF Align
      <3> QED BY <2>2, <3>2
    <2>3. CASE t # "Ident" /\ Width[c][t] # 8
      <3>2. Align(c, t) = Width[c][t]
        BY <2>3, Zenon DEF Align
      <3> QED BY <2>3, <3>2
    <2> QED BY <2>1, <2>2, <2>3
  <1>4. LwordAlign \in {4, 8}
    BY LwordAlignAssumption DEF LwordAlignAssumption
  <1> QED BY <1>2, <1>3, <1>4 DEF RoundUp

LEMMA Fields32 ==
  ASSUME NEW t \in DOMAIN CvtTable(32)
  PROVE  IsFields(CvtTable(32)[t])
  <1>1. IsFields(Cvt!EHDR32)
    BY DEF IsFields, Types, Cvt!EHDR32
  <1>2. IsFields(Cvt!PHDR32)
    BY DEF IsFields, Types, Cvt!PHDR32
  <1>3. IsFields(Cvt!SHDR32)
    BY DEF IsFields, Types, Cvt!SHDR32
  <1>4. IsFields(Cvt!SYM32) /\ IsFields(Cvt!RELA32)
    BY DEF IsFields, Types, Cvt!SYM32, Cvt!RELA32
  <1>5. IsFields(Cvt!REL32) /\ IsFields(Cvt!DYN32) /\ IsFields(Cvt!CAP32)
    BY DEF IsFields, Types, Cvt!REL32, Cvt!DYN32, Cvt!CAP32
  <1>6. IsFields(Cvt!MOVE32) /\ IsFields(Cvt!SYMINFO32)
    BY DEF IsFields, Types, Cvt!MOVE32, Cvt!SYMINFO32
  <1>7. IsFields(Cvt!ADDR32) /\ IsFields(Cvt!HALF) /\ IsFields(Cvt!LWORD) /\ IsFields(Cvt!OFF32)
       /\ IsFields(Cvt!SWORD) /\ IsFields(Cvt!WORD) /\ IsFields(Cvt!BYTE)
    BY DEF IsFields, Types, Cvt!ADDR32, Cvt!HALF, Cvt!LWORD, Cvt!OFF32, Cvt!SWORD, Cvt!WORD, Cvt!BYTE
  <1> QED BY <1>1, <1>2, <1>3, <1>4, <1>5, <1>6, <1>7 DEF CvtTable

LEMMA Fields64 ==
  ASSUME NEW t \in DOMAIN CvtTable(64)
  PROVE  IsFields(CvtTable(64)[t])
  <1>1. IsFields(Cvt!EHDR64)
    BY DEF IsFields, Types, Cvt!EHDR64, Cvt!EHDR32
  <1>2. IsFields(Cvt!PHDR64)
    BY DEF IsFields, Types, Cvt!PHDR64
  <1>3. IsFields(Cvt!SHDR64)
    BY DEF IsFields, Types, Cvt!SHDR64
  <1>4. IsFields(Cvt!SYM64) /\ IsFields(Cvt!RELA64)
    BY DEF IsFields, Types, Cvt!SYM64, Cvt!RELA64
  <1>5. IsFields(Cvt!REL64) /\ IsFields(Cvt!DYN64) /\ IsFields(Cvt!CAP64)
    BY DEF IsFields, Types, Cvt!REL64, Cvt!DYN64, Cvt!CAP64
  <1>6. IsFields(Cvt!MOVE64) /\ IsFields(Cvt!SYMINFO64)
    BY DEF IsFields, Types, Cvt!MOVE64, Cvt!SYMINFO64, Cvt!SYMINFO32
  <1>7. IsFields(Cvt!ADDR64) /\ IsFields(Cvt!HALF) /\ IsFields(Cvt!LWORD) /\ IsFields(Cvt!OFF64)
       /\ IsFields(Cvt!SWORD) /\ IsFields(Cvt!WORD) /\ IsFields(Cvt!BYTE) /\
       IsFields(Cvt!SXWORD) /\ IsFields(Cvt!XWORD)
    BY DEF IsFields, Types, Cvt!ADDR64, Cvt!HALF, Cvt!LWORD, Cvt!OFF64, Cvt!SWORD, Cvt!WORD, Cvt!BYTE,
           Cvt!SXWORD, Cvt!XWORD
  <1> QED BY <1>1, <1>2, <1>3, <1>4, <1>5, <1>6, <1>7 DEF CvtTable

LEMMA CvtFields ==
  ASSUME NEW c \in Class, NEW t \in DOMAIN CvtTable(c)
  PROVE  IsFields(CvtTable(c)[t])
  <1>1. CASE c = 32
    BY <1>1, Fields32
  <1>2. CASE c = 64
    BY <1>2, Fields64
  <1> QED BY <1>1, <1>2 DEF Class

LEMMA NamedFact ==
  ASSUME NEW f, IsFields(f)
  PROVE  /\ Name(f) = {f[i][1] : i \in 1 .. Len(f)}
         /\ \A i \in 1 .. Len(f) : f[i][1] \in Name(f) /\ Named(f, f[i][1]) = i
  BY DEF IsFields, Name, Named

-----------------------------------------------------------------------------
(***************************************************************************)
(* Where the members are.                                                  *)
(***************************************************************************)
WidthAt(c, f, i) == Width[c][f[i][2]]

PackedAt(c, f, end) ==
    /\ end[0] = 0
    /\ \A i \in 1 .. Len(f) : end[i] = end[i - 1] + WidthAt(c, f, i)
    /\ Packed(c, f).size = end[Len(f)]
    /\ \A i \in 1 .. Len(f) : Packed(c, f).at[f[i][1]] = end[i - 1]

LEMMA PackedFact ==
  ASSUME NEW c \in Class, NEW f, IsFields(f)
  PROVE  \E end : PackedAt(c, f, end)
  <1> DEFINE n == Len(f)
             Body(g, m) == [i \in 0 .. m |-> IF i = 0 THEN 0 ELSE g[i - 1] + Width[c][f[i][2]]]
             S == {m \in 0 .. n : \E g : g = Body(g, m)}
             end == CHOOSE g : g = Body(g, n)
  <1>0. n \in Nat
    BY DEF IsFields
  <1>1. 0 \in S
    <2>1. [i \in 0 .. 0 |-> 0] = Body([i \in 0 .. 0 |-> 0], 0)
      OBVIOUS
    <2> HIDE DEF Body
    <2>2. \E g : g = Body(g, 0)
      BY <2>1
    <2> QED BY <1>0, <2>2
  <1>2. ASSUME NEW m \in 1 .. n, m - 1 \in S PROVE m \in S
    <2>1. PICK g : g = Body(g, m - 1)
      BY <1>2
    <2> DEFINE h == [i \in 0 .. m |-> IF i = m THEN g[m - 1] + Width[c][f[m][2]] ELSE g[i]]
    <2>2. h = Body(h, m)
      <3>0. h = [i \in 0 .. m |-> h[i]] /\ Body(h, m) = [i \in 0 .. m |-> Body(h, m)[i]]
        OBVIOUS
      <3>1. ASSUME NEW i \in 0 .. m PROVE h[i] = Body(h, m)[i]
        <4>1. CASE i = m
          BY <1>0, <4>1
        <4>2. CASE i # m
          <5>1. i \in 0 .. m - 1 /\ g[i] = Body(g, m - 1)[i] /\ h[i] = g[i]
            BY <1>0, <2>1, <4>2
          <5>2. i # 0 => h[i - 1] = g[i - 1]
            BY <1>0, <4>2
          <5> QED BY <5>1, <5>2
        <4> QED BY <4>1, <4>2
      <3> HIDE DEF Body, h
      <3> QED BY <3>0, <3>1
    <2> HIDE DEF Body, h
    <2>3. \E g_1 : g_1 = Body(g_1, m)
      BY <2>2
    <2> QED BY <1>0, <2>3
  <1>3. n \in S
    <2>1. \A m \in 1 .. n : m - 1 \in S => m \in S
      BY <1>2
    <2> HIDE DEF S, n
    <2>2. 0 .. n \subseteq S
      BY ONLY <1>0, <1>1, <2>1, UpTo
    <2> QED BY <1>0, <2>2
  <1>4. end = Body(end, n)
    <2> HIDE DEF Body
    <2> QED BY <1>3
  <1>5. Packed(c, f) = [at |-> [x \in Name(f) |-> end[Named(f, x) - 1]], size |-> end[n], align |-> 1]
    BY DEF Packed
  <1> HIDE DEF end
  <1>6. end[0] = 0 /\ \A i \in 1 .. n : end[i] = end[i - 1] + WidthAt(c, f, i)
    <2>1. \A i \in 0 .. n : Body(end, n)[i] = IF i = 0 THEN 0 ELSE end[i - 1] + WidthAt(c, f, i)
      BY DEF WidthAt
    <2> HIDE DEF Body, n
    <2>2. \A i \in 0 .. n : end[i] = IF i = 0 THEN 0 ELSE end[i - 1] + WidthAt(c, f, i)
      BY <1>4, <2>1
    <2> QED BY <1>0, <2>2
  <1>7. \A i \in 1 .. n : Packed(c, f).at[f[i][1]] = end[i - 1]
    BY <1>5, NamedFact
  <1>8. PackedAt(c, f, end)
    BY <1>5, <1>6, <1>7 DEF PackedAt
  <1> QED BY <1>8

\* Of members placed one behind the other, perhaps with padding between.
NaturallyAt(c, f, off, al) ==
    /\ off[1] = 0 /\ al \in {1, 2, 4, 8} /\ \E i \in 1 .. Len(f) : al = Align(c, f[i][2])
    /\ \A i \in 2 .. Len(f) : off[i] = RoundUp(off[i - 1] + WidthAt(c, f, i - 1), Align(c, f[i][2]))
    /\ Natural(c, f).size = RoundUp(off[Len(f)] + WidthAt(c, f, Len(f)), al)
    /\ Len(f) = 1 => al = Align(c, f[1][2])
    /\ \A i \in 1 .. Len(f) : Natural(c, f).at[f[i][1]] = off[i]

LEMMA NaturalFact ==
  ASSUME NEW c \in Class, NEW f, IsFields(f)
  PROVE  \E off, al : NaturallyAt(c, f, off, al)
  <1> DEFINE n == Len(f)
             al(i) == Align(c, f[i][2])
             Body(g, m) == [i \in 1 .. m |-> IF i = 1 THEN 0
                                ELSE RoundUp(g[i - 1] + Width[c][f[i - 1][2]], al(i))]
             S == {m \in 0 .. n : \E g : g = Body(g, m)}
             off == CHOOSE g : g = Body(g, n)
             most == Greatest({al(i) : i \in 1 .. n})
  <1>0. n \in Nat \ {0}
    BY DEF IsFields
  <1>1. 0 \in S
    <2>1. [i \in 1 .. 0 |-> 0] = Body([i \in 1 .. 0 |-> 0], 0)
      OBVIOUS
    <2> HIDE DEF Body
    <2>2. \E g : g = Body(g, 0)
      BY <2>1
    <2> QED BY <1>0, <2>2
  <1>2. ASSUME NEW m \in 1 .. n, m - 1 \in S PROVE m \in S
    <2>1. PICK g : g = Body(g, m - 1)
      BY <1>2
    <2> DEFINE h == [i \in 1 .. m |-> IF i < m THEN g[i] ELSE IF i = 1 THEN 0
                                ELSE RoundUp(g[i - 1] + Width[c][f[i - 1][2]], al(i))]
    <2>2. h = Body(h, m)
      <3>0. h = [i \in 1 .. m |-> h[i]] /\ Body(h, m) = [i \in 1 .. m |-> Body(h, m)[i]]
        OBVIOUS
      <3>1. ASSUME NEW i \in 1 .. m PROVE h[i] = Body(h, m)[i]
        <4> HIDE DEF al
        <4>0. i # 1 => h[i - 1] = g[i - 1]
          BY <1>0
        <4>3. Body(h, m)[i] = IF i = 1 THEN 0 ELSE RoundUp(h[i - 1] + Width[c][f[i - 1][2]], al(i))
          OBVIOUS
        <4>1. CASE i < m
          <5>1. i \in 1 .. m - 1 /\ h[i] = g[i]
            BY <1>0, <4>1
          <5>2. Body(g, m - 1)[i] = IF i = 1 THEN 0 ELSE RoundUp(g[i - 1] + Width[c][f[i - 1][2]], al(i))
            BY <5>1
          <5>3. g[i] = Body(g, m - 1)[i]
            <6> HIDE DEF Body, h
            <6> QED BY <2>1
          <5> HIDE DEF Body, h
          <5> QED BY <4>0, <4>3, <5>1, <5>2, <5>3
        <4>2. CASE ~(i < m)
          <5>1. h[i] = IF i = 1 THEN 0 ELSE RoundUp(g[i - 1] + Width[c][f[i - 1][2]], al(i))
            BY <4>2
          <5> HIDE DEF Body, h
          <5> QED BY <4>0, <4>3, <5>1
        <4> QED BY <4>1, <4>2
      <3> HIDE DEF Body, h
      <3> QED BY <3>0, <3>1
    <2> HIDE DEF Body, h
    <2>3. \E g_1 : g_1 = Body(g_1, m)
      BY <2>2
    <2> QED BY <1>0, <2>3
  <1>3. n \in S
    <2>1. \A m \in 1 .. n : m - 1 \in S => m \in S
      BY <1>2
    <2> HIDE DEF S, n
    <2>2. 0 .. n \subseteq S
      BY ONLY <1>0, <1>1, <2>1, UpTo
    <2> QED BY <1>0, <2>2
  <1>4. off = Body(off, n)
    <2> HIDE DEF Body
    <2> QED BY <1>3
  <1>5. Natural(c, f) = [at |-> [x \in Name(f) |-> off[Named(f, x)]],
                         size |-> RoundUp(off[n] + Width[c][f[n][2]], most), align |-> most]
    BY DEF Natural
  <1> HIDE DEF off
  <1>6. \A i \in 1 .. n : off[i] = IF i = 1 THEN 0 ELSE RoundUp(off[i - 1] + WidthAt(c, f, i - 1), al(i))
    <2>1. \A i \in 1 .. n : Body(off, n)[i] =
                              IF i = 1 THEN 0 ELSE RoundUp(off[i - 1] + WidthAt(c, f, i - 1), al(i))
      BY DEF WidthAt
    <2> HIDE DEF Body, n
    <2> QED BY <1>4, <2>1
  <1>7. \A i \in 1 .. n : Natural(c, f).at[f[i][1]] = off[i]
    BY <1>5, NamedFact
  <1>8. most \in {1, 2, 4, 8} /\ (n = 1 => most = al(1)) /\ \E i \in 1 .. n : most = al(i)
    <2> DEFINE A == {al(i) : i \in 1 .. n}
    <2>1. A \subseteq {1, 2, 4, 8} /\ al(1) \in A
      BY <1>0, WidthFact DEF IsFields
    <2>2. n = 1 => A = {al(1)}
      OBVIOUS
    <2> HIDE DEF A, al
    <2>3. \E x \in A : \A y \in A : y <= x
      <3>1. CASE 8 \in A
        BY <2>1, <3>1
      <3>2. CASE 8 \notin A /\ 4 \in A
        BY <2>1, <3>2
      <3>3. CASE 8 \notin A /\ 4 \notin A /\ 2 \in A
        BY <2>1, <3>3
      <3>4. CASE 8 \notin A /\ 4 \notin A /\ 2 \notin A
        <4>1. 1 \in A /\ \A y \in A : y = 1
          BY <2>1, <3>4
        <4> QED BY <4>1
      <3> QED BY <3>1, <3>2, <3>3, <3>4
    <2>4. Greatest(A) \in A
      BY <2>3 DEF Greatest
    <2>5. most = Greatest(A)
      BY DEF A
    <2>6. \E i \in 1 .. n : Greatest(A) = al(i)
      BY <2>4 DEF A
    <2> HIDE DEF most
    <2> QED BY <2>1, <2>2, <2>4, <2>5, <2>6
  <1> HIDE DEF most
  <1>9. /\ off[1] = 0
        /\ \A i \in 2 .. n : off[i] = RoundUp(off[i - 1] + WidthAt(c, f, i - 1), Align(c, f[i][2]))
    BY <1>0, <1>6
  <1>10. Natural(c, f).size = RoundUp(off[n] + WidthAt(c, f, n), most)
    BY <1>5 DEF WidthAt
  <1>11. NaturallyAt(c, f, off, most)
    BY <1>7, <1>8, <1>9, <1>10 DEF NaturallyAt
  <1> QED BY <1>11

\* Members on both sides: apart, in order, and in memory never before their
\* place in the file, the later the farther behind it.
WellLaid(p) ==
    LET n == Len(p.order)
        w(i) == p.width[p.order[i]]
        at(i) == p.file.at[p.order[i]]
        mat(i) == p.mem.at[p.order[i]]
    IN  /\ n \in Nat \ {0} /\ p.file.size \in Nat \ {0} /\ p.mem.size \in Nat \ {0}
        /\ DOMAIN p.width = {p.order[i] : i \in 1 .. n}
        /\ \A i, j \in 1 .. n : p.order[i] = p.order[j] => i = j
        /\ \A i \in 1 .. n :
              /\ w(i) \in Nat \ {0} /\ at(i) \in Nat /\ mat(i) \in Nat
              /\ at(i) + w(i) <= p.file.size /\ mat(i) + w(i) <= p.mem.size
              /\ at(i) <= mat(i) /\ mat(i) - at(i) <= p.mem.size - p.file.size
        /\ \A i, j \in 1 .. n : i < j =>
              /\ at(i) + w(i) <= at(j) /\ mat(i) + w(i) <= mat(j)
              /\ mat(i) - at(i) <= mat(j) - at(j)
        /\ n = 1 => p.file.size = p.mem.size

Places(c, f, end, off) ==
    LET n == Len(f)
    IN  /\ n \in Nat \ {0}
        /\ \A i \in 1 .. n :
              /\ end[i - 1] \in Nat /\ off[i] \in Nat /\ WidthAt(c, f, i) \in Nat \ {0}
              /\ end[i] = end[i - 1] + WidthAt(c, f, i) /\ end[i - 1] <= off[i]
              /\ Packed(c, f).at[f[i][1]] = end[i - 1] /\ Natural(c, f).at[f[i][1]] = off[i]
              /\ i # 1 => off[i - 1] + WidthAt(c, f, i - 1) <= off[i]
        /\ Packed(c, f).size = end[n] /\ Natural(c, f).size \in Nat
        /\ off[n] + WidthAt(c, f, n) <= Natural(c, f).size
        /\ n = 1 => Natural(c, f).size = Packed(c, f).size

LEMMA PlacesFact ==
  ASSUME NEW c \in Class, NEW f, IsFields(f)
  PROVE  \E end, off : Places(c, f, end, off)
  <1> DEFINE n == Len(f)
             w(i) == WidthAt(c, f, i)
  <1>0. n \in Nat \ {0}
    BY DEF IsFields
  <1>1. \A i \in 1 .. n : w(i) \in {1, 2, 4, 8, 16} /\ Align(c, f[i][2]) \in {1, 2, 4, 8}
    BY WidthFact DEF IsFields, WidthAt
  <1>21. PICK end : PackedAt(c, f, end)
    BY PackedFact
  <1>2. /\ end[0] = 0
        /\ \A i \in 1 .. n : end[i] = end[i - 1] + w(i)
        /\ Packed(c, f).size = end[n]
        /\ \A i \in 1 .. n : Packed(c, f).at[f[i][1]] = end[i - 1]
    BY <1>21 DEF PackedAt
  <1>20. PICK off, al : NaturallyAt(c, f, off, al)
    BY NaturalFact
  <1>3. /\ off[1] = 0 /\ al \in {1, 2, 4, 8}
        /\ \A i \in 2 .. n : off[i] = RoundUp(off[i - 1] + w(i - 1), Align(c, f[i][2]))
        /\ Natural(c, f).size = RoundUp(off[n] + w(n), al)
        /\ n = 1 => al = Align(c, f[1][2])
        /\ \A i \in 1 .. n : Natural(c, f).at[f[i][1]] = off[i]
    BY <1>20 DEF NaturallyAt
  <1> DEFINE S == {m \in 0 .. n : m # n => /\ end[m] \in Nat /\ off[m + 1] \in Nat /\ end[m] <= off[m + 1]
                                           /\ m # 0 => off[m] + w(m) <= off[m + 1]}
  <1>4. 0 \in S
    BY <1>0, <1>2, <1>3
  <1>5. ASSUME NEW m \in 1 .. n, m - 1 \in S PROVE m \in S
    <2> HIDE DEF w
    <2>1. SUFFICES ASSUME m # n
                   PROVE  /\ end[m] \in Nat /\ off[m + 1] \in Nat /\ end[m] <= off[m + 1]
                          /\ off[m] + w(m) <= off[m + 1]
      BY <1>0
    <2>2. end[m - 1] \in Nat /\ off[m] \in Nat /\ end[m - 1] <= off[m]
      BY <1>0, <1>5
    <2>3. end[m] = end[m - 1] + w(m) /\ w(m) \in Nat
      BY <1>0, <1>1, <1>2
    <2>4. off[m + 1] = RoundUp(off[m] + w(m), Align(c, f[m + 1][2])) /\ Align(c, f[m + 1][2]) \in {1, 2, 4, 8}
      <3>1. m + 1 \in 2 .. n /\ m + 1 \in 1 .. n /\ m + 1 - 1 = m
        BY <1>0, <2>1
      <3> QED BY <1>1, <1>3, <3>1
    <2>5. off[m] + w(m) \in Nat
      BY <2>2, <2>3
    <2>6. off[m + 1] \in Nat /\ off[m + 1] >= off[m] + w(m)
      BY <2>4, <2>5, RoundUpFact
    <2> QED BY <2>2, <2>3, <2>6
  <1>6. 0 .. n \subseteq S
    <2>1. \A m \in 1 .. n : m - 1 \in S => m \in S
      BY <1>5
    <2> HIDE DEF S, n
    <2> QED BY ONLY <1>0, <1>4, <2>1, UpTo
  <1> HIDE DEF w
  <1>7. ASSUME NEW i \in 1 .. n
        PROVE  /\ end[i - 1] \in Nat /\ off[i] \in Nat /\ end[i - 1] <= off[i]
               /\ i # 1 => off[i - 1] + w(i - 1) <= off[i]
    <2>0. i - 1 \in 0 .. n /\ i - 1 # n /\ i - 1 + 1 = i
      BY <1>0
    <2>1. i - 1 \in S
      <3> HIDE DEF S
      <3> QED BY <1>6, <2>0
    <2> QED BY <2>0, <2>1
  <1>8. /\ n \in 1 .. n /\ off[n] + w(n) \in Nat
        /\ Natural(c, f).size \in Nat /\ off[n] + w(n) <= Natural(c, f).size
    <2>1. n \in 1 .. n
      BY <1>0
    <2>2. off[n] + w(n) \in Nat
      BY <1>1, <1>7, <2>1
    <2> QED BY <1>3, <2>1, <2>2, RoundUpFact
  <1>9. n = 1 => Natural(c, f).size = Packed(c, f).size
    <2>1. SUFFICES ASSUME n = 1 PROVE Natural(c, f).size = Packed(c, f).size
      OBVIOUS
    <2>2. w(1) = Width[c][f[1][2]] /\ f[1][2] \in Types
      BY <1>0, <2>1 DEF IsFields, w, WidthAt
    <2>3. RoundUp(w(1), Align(c, f[1][2])) = w(1)
      BY <2>2, WidthFact
    <2>4. off[n] + w(n) = w(1) /\ end[n] = w(1)
      BY <1>0, <1>1, <1>2, <1>3, <2>1
    <2> QED BY <1>2, <1>3, <2>1, <2>3, <2>4
  <1>10. \A i \in 1 .. n : w(i) \in Nat \ {0}
    BY <1>1
  <1>11. Places(c, f, end, off)
    BY <1>0, <1>2, <1>3, <1>7, <1>8, <1>9, <1>10 DEF w, Places
  <1> QED BY <1>11

LEMMA PlanFact ==
  ASSUME NEW c \in Class, NEW f, IsFields(f)
  PROVE  WellLaid(Plan(Packed(c, f), Natural(c, f), f, c))
  <1> DEFINE n == Len(f)
             w(i) == WidthAt(c, f, i)
             p == Plan(Packed(c, f), Natural(c, f), f, c)
  <1>1. PICK end, off : Places(c, f, end, off)
    BY PlacesFact
  <1>2. /\ n \in Nat \ {0}
        /\ \A i \in 1 .. n :
              /\ end[i - 1] \in Nat /\ off[i] \in Nat /\ w(i) \in Nat \ {0}
              /\ end[i] = end[i - 1] + w(i) /\ end[i - 1] <= off[i]
              /\ Packed(c, f).at[f[i][1]] = end[i - 1] /\ Natural(c, f).at[f[i][1]] = off[i]
              /\ i # 1 => off[i - 1] + w(i - 1) <= off[i]
        /\ Packed(c, f).size = end[n] /\ Natural(c, f).size \in Nat
        /\ off[n] + w(n) <= Natural(c, f).size
        /\ n = 1 => Natural(c, f).size = Packed(c, f).size
    BY <1>1 DEF Places
  <1>3. /\ p.file = Packed(c, f) /\ p.mem = Natural(c, f)
        /\ Len(p.order) = n /\ \A i \in 1 .. n : p.order[i] = f[i][1]
        /\ DOMAIN p.width = {f[i][1] : i \in 1 .. n}
        /\ \A i \in 1 .. n : p.width[f[i][1]] = w(i)
    <2>1. p = [file |-> Packed(c, f), mem |-> Natural(c, f), width |-> Widths(c, f),
               number |-> Numbers(f), order |-> [i \in DOMAIN f |-> f[i][1]]]
      BY TableIs DEF Plan
    <2> HIDE DEF p
    <2>2. DOMAIN f = 1 .. n
      BY DEF IsFields
    <2>3. DOMAIN p.width = Name(f) /\ \A i \in 1 .. n : p.width[f[i][1]] = w(i)
      BY <2>1, NamedFact DEF Widths, WidthAt
    <2>4. p.order = [i \in 1 .. n |-> f[i][1]] /\ Len(p.order) = n
      BY <1>2, <2>1, <2>2
    <2> QED BY <2>1, <2>3, <2>4, NamedFact
  <1>4. \A i, j \in 1 .. n : f[i][1] = f[j][1] => i = j
    BY DEF IsFields
  <1> HIDE DEF p, w
  <1> DEFINE S == {j \in 0 .. n : \A i \in 1 .. j : i < j =>
                     /\ end[i] <= end[j - 1] /\ off[i] + w(i) <= off[j]
                     /\ off[i] - end[i - 1] <= off[j] - end[j - 1]}
  <1>5. 0 \in S
    BY <1>2
  <1>6. ASSUME NEW j \in 1 .. n, j - 1 \in S PROVE j \in S
    <2>1. SUFFICES ASSUME NEW i \in 1 .. j, i < j
                   PROVE  /\ end[i] <= end[j - 1] /\ off[i] + w(i) <= off[j]
                          /\ off[i] - end[i - 1] <= off[j] - end[j - 1]
      BY <1>2
    <2>2. PICK k : k = j - 1
      OBVIOUS
    <2>3. /\ k \in 1 .. n /\ i \in 1 .. n /\ i \in 1 .. k /\ j # 1 /\ j \in 1 .. n
      BY <1>2, <2>1, <2>2
    <2>4. /\ end[k - 1] \in Nat /\ off[k] \in Nat /\ w(k) \in Nat
          /\ end[k] = end[k - 1] + w(k) /\ off[k] + w(k) <= off[j] /\ end[k] \in Nat
          /\ off[j] \in Nat
      BY <1>2, <2>2, <2>3
    <2>5. off[k] - end[k - 1] <= off[j] - end[k]
      BY ONLY <2>4
    <2>6. CASE i = k
      BY <2>2, <2>4, <2>5, <2>6
    <2>7. CASE i # k
      <3>1. /\ end[i] <= end[k - 1] /\ off[i] + w(i) <= off[k]
            /\ off[i] - end[i - 1] <= off[k] - end[k - 1]
        BY <1>6, <2>2, <2>3, <2>7
      <3>2. /\ end[i] \in Nat /\ off[i] \in Nat /\ w(i) \in Nat /\ end[i - 1] \in Nat
        <4>1. i \in 1 .. n
          BY <2>3
        <4> QED BY <1>2, <4>1
      <3>3. PICK ei, oi, wi, di, ek, ok2, wk, dk, oj :
                   /\ ei = end[i] /\ oi = off[i] /\ wi = w(i) /\ di = end[i - 1] /\ ek = end[k]
                   /\ ok2 = off[k] /\ wk = w(k) /\ dk = end[k - 1] /\ oj = off[j]
        OBVIOUS
      <3>4. /\ ei \in Nat /\ oi \in Nat /\ wi \in Nat /\ di \in Nat /\ ek \in Nat /\ ok2 \in Nat
            /\ wk \in Nat /\ dk \in Nat /\ oj \in Nat /\ ek = dk + wk /\ ok2 + wk <= oj
            /\ ok2 - dk <= oj - ek /\ ei <= dk /\ oi + wi <= ok2 /\ oi - di <= ok2 - dk
        BY ONLY <2>4, <2>5, <3>1, <3>2, <3>3
      <3>5. ei <= ek /\ oi + wi <= oj /\ oi - di <= oj - ek
        BY ONLY <3>4
      <3> QED BY <2>2, <3>3, <3>5
    <2> QED BY <2>6, <2>7
  <1>7. 0 .. n \subseteq S
    <2>1. \A m \in 1 .. n : m - 1 \in S => m \in S
      BY <1>6
    <2>2. n \in Nat
      BY <1>2
    <2> HIDE DEF S, n
    <2> QED BY ONLY <2>2, <1>5, <2>1, UpTo
  <1>8. ASSUME NEW i \in 1 .. n, NEW j \in 1 .. n, i < j
        PROVE  /\ end[i] <= end[j - 1] /\ off[i] + w(i) <= off[j]
               /\ off[i] - end[i - 1] <= off[j] - end[j - 1]
    <2>1. j \in S
      <3>1. j \in 0 .. n
        BY <1>2
      <3> HIDE DEF S
      <3> QED BY <1>7, <3>1
    <2> QED BY <1>2, <1>8, <2>1
  <1> HIDE DEF S
  <1>9. ASSUME NEW i \in 1 .. n
        PROVE  /\ end[i - 1] + w(i) <= end[n] /\ off[i] + w(i) <= Natural(c, f).size
               /\ off[i] - end[i - 1] <= Natural(c, f).size - end[n] /\ end[n] \in Nat \ {0}
    <2>1. n \in 1 .. n
      BY <1>2
    <2>2. /\ end[n] = end[n - 1] + w(n) /\ end[n - 1] \in Nat /\ off[n] \in Nat /\ w(n) \in Nat \ {0}
          /\ off[n] + w(n) <= Natural(c, f).size /\ Natural(c, f).size \in Nat
      BY <1>2, <2>1
    <2>3. /\ end[i] = end[i - 1] + w(i) /\ end[i - 1] \in Nat /\ off[i] \in Nat /\ w(i) \in Nat \ {0}
      BY <1>2
    <2>4. PICK en, on, wn, dn, sz, oi, wi, di, ei :
                   /\ en = end[n] /\ on = off[n] /\ wn = w(n) /\ dn = end[n - 1]
                   /\ sz = Natural(c, f).size /\ oi = off[i] /\ wi = w(i) /\ di = end[i - 1] /\ ei = end[i]
      OBVIOUS
    <2>5. /\ en = dn + wn /\ dn \in Nat /\ on \in Nat /\ wn \in Nat \ {0} /\ on + wn <= sz /\ sz \in Nat
          /\ ei = di + wi /\ di \in Nat /\ oi \in Nat /\ wi \in Nat \ {0}
      BY ONLY <2>2, <2>3, <2>4
    <2>6. ei <= en /\ oi + wi <= on + wn /\ oi - di <= on - dn
      <3>1. CASE i = n
        <4>1. ei = en /\ oi = on /\ wi = wn /\ di = dn
          BY <2>4, <3>1
        <4> QED BY ONLY <2>5, <4>1
      <3>2. CASE i # n
        <4>1. ei <= dn /\ oi + wi <= on /\ oi - di <= on - dn
          BY <1>2, <1>8, <2>1, <2>4, <3>2
        <4> QED BY ONLY <2>5, <4>1
      <3> QED BY <3>1, <3>2
    <2>7. di + wi <= en /\ oi + wi <= sz /\ oi - di <= sz - en /\ en \in Nat \ {0}
      BY ONLY <2>5, <2>6
    <2> QED BY <2>4, <2>7
  <1>10. \A i \in 1 .. n : /\ p.order[i] = f[i][1] /\ p.width[p.order[i]] = w(i)
                           /\ p.file.at[p.order[i]] = end[i - 1] /\ p.mem.at[p.order[i]] = off[i]
    BY <1>2, <1>3
  <1>11. DOMAIN p.width = {p.order[i] : i \in 1 .. n}
    BY <1>3
  <1>12. p.file.size = end[n] /\ p.mem.size = Natural(c, f).size /\ p.file.size \in Nat \ {0} /\ p.mem.size \in Nat \ {0}
    <2>1. 1 \in 1 .. n
      BY <1>2
    <2>2. 0 + w(1) <= off[1] + w(1) /\ w(1) \in Nat \ {0} /\ off[1] \in Nat
      BY <1>2, <2>1
    <2>3. off[1] + w(1) <= Natural(c, f).size /\ end[n] \in Nat \ {0}
      BY <1>9, <2>1
    <2>4. Natural(c, f).size \in Nat \ {0}
      BY <1>2, <2>2, <2>3
    <2> QED BY <1>2, <1>3, <2>3, <2>4
  <1>13. \A i \in 1 .. n :
              /\ w(i) \in Nat \ {0} /\ end[i - 1] \in Nat /\ off[i] \in Nat
              /\ end[i - 1] + w(i) <= p.file.size /\ off[i] + w(i) <= p.mem.size
              /\ end[i - 1] <= off[i] /\ off[i] - end[i - 1] <= p.mem.size - p.file.size
    BY <1>2, <1>9, <1>12
  <1>14. \A i, j \in 1 .. n : i < j =>
              /\ end[i - 1] + w(i) <= end[j - 1] /\ off[i] + w(i) <= off[j]
              /\ off[i] - end[i - 1] <= off[j] - end[j - 1]
    <2>1. \A i \in 1 .. n : end[i] = end[i - 1] + w(i)
      BY <1>2
    <2> QED BY <1>8, <2>1
  <1>15. \A i, j \in 1 .. n : p.order[i] = p.order[j] => i = j
    BY <1>4, <1>10
  <1>16. n = 1 => p.file.size = p.mem.size
    BY <1>2, <1>12
  <1>17. n \in Nat \ {0} /\ Len(p.order) = n
    BY <1>2, <1>3
  <1> HIDE DEF n
  <1>18. \A i \in 1 .. n :
              /\ p.width[p.order[i]] \in Nat \ {0}
              /\ p.file.at[p.order[i]] \in Nat /\ p.mem.at[p.order[i]] \in Nat
              /\ p.file.at[p.order[i]] + p.width[p.order[i]] <= p.file.size
              /\ p.mem.at[p.order[i]] + p.width[p.order[i]] <= p.mem.size
              /\ p.file.at[p.order[i]] <= p.mem.at[p.order[i]]
              /\ p.mem.at[p.order[i]] - p.file.at[p.order[i]] <= p.mem.size - p.file.size
    <2> TAKE i \in 1 .. n
    <2> QED BY <1>10, <1>13
  <1>19. \A i, j \in 1 .. n : i < j =>
              /\ p.file.at[p.order[i]] + p.width[p.order[i]] <= p.file.at[p.order[j]]
              /\ p.mem.at[p.order[i]] + p.width[p.order[i]] <= p.mem.at[p.order[j]]
              /\ p.mem.at[p.order[i]] - p.file.at[p.order[i]] <= p.mem.at[p.order[j]] - p.file.at[p.order[j]]
    <2> TAKE i, j \in 1 .. n
    <2> QED BY <1>10, <1>14
  <1>20. WellLaid(p)
    BY ONLY <1>11, <1>12, <1>15, <1>16, <1>17, <1>18, <1>19, Zenon DEF WellLaid
  <1> QED BY <1>20 DEF p

-----------------------------------------------------------------------------
(***************************************************************************)
(* The declarations and converters of both libraries are of one layout.    *)
(***************************************************************************)
LEMMA Records32 ==
  /\ Host!Ehdr32 = Cvt!EHDR32 /\ Repl!Ehdr32 = Cvt!EHDR32 /\ Ext!Ehdr32 = Cvt!EHDR32 /\ Tr!ehdr32 = Cvt!EHDR32
  /\ Host!Phdr32 = Cvt!PHDR32 /\ Repl!Phdr32 = Cvt!PHDR32 /\ Ext!Phdr32 = Cvt!PHDR32 /\ Tr!phdr32 = Cvt!PHDR32
  /\ Host!Shdr32 = Cvt!SHDR32 /\ Repl!Shdr32 = Cvt!SHDR32 /\ Ext!Shdr32 = Cvt!SHDR32 /\ Tr!shdr32 = Cvt!SHDR32
  /\ Host!Sym32 = Cvt!SYM32 /\ Repl!Sym32 = Cvt!SYM32 /\ Ext!Sym32 = Cvt!SYM32 /\ Tr!sym32 = Cvt!SYM32
  /\ Host!Rel32 = Cvt!REL32 /\ Repl!Rel32 = Cvt!REL32 /\ Ext!Rel32 = Cvt!REL32 /\ Tr!rel32 = Cvt!REL32
  /\ Host!Rela32 = Cvt!RELA32 /\ Repl!Rela32 = Cvt!RELA32 /\ Ext!Rela32 = Cvt!RELA32 /\ Tr!rela32 = Cvt!RELA32
  /\ Host!Dyn32 = Cvt!DYN32 /\ Repl!Dyn32 = Cvt!DYN32 /\ Ext!Dyn32 = Cvt!DYN32
  /\ Host!Cap32 = Cvt!CAP32 /\ Repl!Cap32 = Cvt!CAP32
  /\ Host!Move32 = Cvt!MOVE32 /\ Repl!Move32 = Cvt!MOVE32 /\ Ext!Move32 = Cvt!MOVE32
  /\ Host!Syminfo32 = Cvt!SYMINFO32 /\ Repl!Syminfo32 = Cvt!SYMINFO32
  <1>1. Host!Ehdr32 = Cvt!EHDR32 /\ Repl!Ehdr32 = Cvt!EHDR32 /\ Ext!Ehdr32 = Cvt!EHDR32 /\ Tr!ehdr32 = Cvt!EHDR32
    BY DEF Cvt!EHDR32, Host!Ehdr32, Repl!Ehdr32, Ext!Ehdr32, Tr!ehdr32
  <1>2. Host!Phdr32 = Cvt!PHDR32 /\ Repl!Phdr32 = Cvt!PHDR32 /\ Ext!Phdr32 = Cvt!PHDR32 /\ Tr!phdr32 = Cvt!PHDR32
    BY DEF Cvt!PHDR32, Host!Phdr32, Repl!Phdr32, Ext!Phdr32, Tr!phdr32
  <1>3. Host!Shdr32 = Cvt!SHDR32 /\ Repl!Shdr32 = Cvt!SHDR32 /\ Ext!Shdr32 = Cvt!SHDR32 /\ Tr!shdr32 = Cvt!SHDR32
    BY DEF Cvt!SHDR32, Host!Shdr32, Repl!Shdr32, Ext!Shdr32, Tr!shdr32
  <1>4. Host!Sym32 = Cvt!SYM32 /\ Repl!Sym32 = Cvt!SYM32 /\ Ext!Sym32 = Cvt!SYM32 /\ Tr!sym32 = Cvt!SYM32
    BY DEF Cvt!SYM32, Host!Sym32, Repl!Sym32, Ext!Sym32, Tr!sym32
  <1>5. Host!Rel32 = Cvt!REL32 /\ Repl!Rel32 = Cvt!REL32 /\ Ext!Rel32 = Cvt!REL32 /\ Tr!rel32 = Cvt!REL32
    BY DEF Cvt!REL32, Host!Rel32, Repl!Rel32, Ext!Rel32, Tr!rel32
  <1>6. Host!Rela32 = Cvt!RELA32 /\ Repl!Rela32 = Cvt!RELA32 /\ Ext!Rela32 = Cvt!RELA32 /\ Tr!rela32 = Cvt!RELA32
    BY DEF Cvt!RELA32, Host!Rela32, Repl!Rela32, Ext!Rela32, Tr!rela32
  <1>7. Host!Dyn32 = Cvt!DYN32 /\ Repl!Dyn32 = Cvt!DYN32 /\ Ext!Dyn32 = Cvt!DYN32
    BY DEF Cvt!DYN32, Host!Dyn32, Repl!Dyn32, Ext!Dyn32
  <1>8. Host!Cap32 = Cvt!CAP32 /\ Repl!Cap32 = Cvt!CAP32
    BY DEF Cvt!CAP32, Host!Cap32, Repl!Cap32
  <1>9. Host!Move32 = Cvt!MOVE32 /\ Repl!Move32 = Cvt!MOVE32 /\ Ext!Move32 = Cvt!MOVE32
    BY DEF Cvt!MOVE32, Host!Move32, Repl!Move32, Ext!Move32
  <1>10. Host!Syminfo32 = Cvt!SYMINFO32 /\ Repl!Syminfo32 = Cvt!SYMINFO32
    BY DEF Cvt!SYMINFO32, Host!Syminfo32, Repl!Syminfo32
  <1> QED BY <1>1, <1>2, <1>3, <1>4, <1>5, <1>6, <1>7, <1>8, <1>9, <1>10

LEMMA Records64 ==
  /\ Host!Ehdr64 = Cvt!EHDR64 /\ Repl!Ehdr64 = Cvt!EHDR64 /\ Ext!Ehdr64 = Cvt!EHDR64 /\ Tr!ehdr64 = Cvt!EHDR64
  /\ Host!Phdr64 = Cvt!PHDR64 /\ Repl!Phdr64 = Cvt!PHDR64 /\ Ext!Phdr64 = Cvt!PHDR64 /\ Tr!phdr64 = Cvt!PHDR64
  /\ Host!Shdr64 = Cvt!SHDR64 /\ Repl!Shdr64 = Cvt!SHDR64 /\ Ext!Shdr64 = Cvt!SHDR64 /\ Tr!shdr64 = Cvt!SHDR64
  /\ Host!Sym64 = Cvt!SYM64 /\ Repl!Sym64 = Cvt!SYM64 /\ Ext!Sym64 = Cvt!SYM64 /\ Tr!sym64 = Cvt!SYM64
  /\ Host!Rel64 = Cvt!REL64 /\ Repl!Rel64 = Cvt!REL64 /\ Ext!Rel64 = Cvt!REL64 /\ Tr!rel64 = Cvt!REL64
  /\ Host!Rela64 = Cvt!RELA64 /\ Repl!Rela64 = Cvt!RELA64 /\ Ext!Rela64 = Cvt!RELA64 /\ Tr!rela64 = Cvt!RELA64
  /\ Host!Dyn64 = Cvt!DYN64 /\ Repl!Dyn64 = Cvt!DYN64 /\ Ext!Dyn64 = Cvt!DYN64
  /\ Host!Cap64 = Cvt!CAP64 /\ Repl!Cap64 = Cvt!CAP64
  /\ Host!Move64 = Cvt!MOVE64 /\ Repl!Move64 = Cvt!MOVE64 /\ Ext!Move64 = Cvt!MOVE64
  /\ Host!Syminfo64 = Cvt!SYMINFO64 /\ Repl!Syminfo64 = Cvt!SYMINFO64
  <1>1. Host!Ehdr64 = Cvt!EHDR64 /\ Repl!Ehdr64 = Cvt!EHDR64 /\ Ext!Ehdr64 = Cvt!EHDR64 /\ Tr!ehdr64 = Cvt!EHDR64
    BY DEF Cvt!EHDR64, Host!Ehdr64, Repl!Ehdr64, Ext!Ehdr64, Tr!ehdr64, Cvt!EHDR32,
           Host!Ehdr32, Repl!Ehdr32, Ext!Ehdr32, Tr!ehdr32
  <1>2. Host!Phdr64 = Cvt!PHDR64 /\ Repl!Phdr64 = Cvt!PHDR64 /\ Ext!Phdr64 = Cvt!PHDR64 /\ Tr!phdr64 = Cvt!PHDR64
    BY DEF Cvt!PHDR64, Host!Phdr64, Repl!Phdr64, Ext!Phdr64, Tr!phdr64
  <1>3. Host!Shdr64 = Cvt!SHDR64 /\ Repl!Shdr64 = Cvt!SHDR64 /\ Ext!Shdr64 = Cvt!SHDR64 /\ Tr!shdr64 = Cvt!SHDR64
    BY DEF Cvt!SHDR64, Host!Shdr64, Repl!Shdr64, Ext!Shdr64, Tr!shdr64
  <1>4. Host!Sym64 = Cvt!SYM64 /\ Repl!Sym64 = Cvt!SYM64 /\ Ext!Sym64 = Cvt!SYM64 /\ Tr!sym64 = Cvt!SYM64
    BY DEF Cvt!SYM64, Host!Sym64, Repl!Sym64, Ext!Sym64, Tr!sym64
  <1>5. Host!Rel64 = Cvt!REL64 /\ Repl!Rel64 = Cvt!REL64 /\ Ext!Rel64 = Cvt!REL64 /\ Tr!rel64 = Cvt!REL64
    BY DEF Cvt!REL64, Host!Rel64, Repl!Rel64, Ext!Rel64, Tr!rel64
  <1>6. Host!Rela64 = Cvt!RELA64 /\ Repl!Rela64 = Cvt!RELA64 /\ Ext!Rela64 = Cvt!RELA64 /\ Tr!rela64 = Cvt!RELA64
    BY DEF Cvt!RELA64, Host!Rela64, Repl!Rela64, Ext!Rela64, Tr!rela64
  <1>7. Host!Dyn64 = Cvt!DYN64 /\ Repl!Dyn64 = Cvt!DYN64 /\ Ext!Dyn64 = Cvt!DYN64
    BY DEF Cvt!DYN64, Host!Dyn64, Repl!Dyn64, Ext!Dyn64
  <1>8. Host!Cap64 = Cvt!CAP64 /\ Repl!Cap64 = Cvt!CAP64
    BY DEF Cvt!CAP64, Host!Cap64, Repl!Cap64
  <1>9. Host!Move64 = Cvt!MOVE64 /\ Repl!Move64 = Cvt!MOVE64 /\ Ext!Move64 = Cvt!MOVE64
    BY DEF Cvt!MOVE64, Host!Move64, Repl!Move64, Ext!Move64
  <1>10. Host!Syminfo64 = Cvt!SYMINFO64 /\ Repl!Syminfo64 = Cvt!SYMINFO64
    BY DEF Cvt!SYMINFO64, Host!Syminfo64, Repl!Syminfo64, Cvt!SYMINFO32, Host!Syminfo32,
           Repl!Syminfo32
  <1> QED BY <1>1, <1>2, <1>3, <1>4, <1>5, <1>6, <1>7, <1>8, <1>9, <1>10

Declared(c, t) == CvtTable(c)[t]
ThePlan(c, t) == Plan(Packed(c, Declared(c, t)), Natural(c, Declared(c, t)), Declared(c, t), c)

TablesAgreeOn(c, t) ==
    /\ Of(HostTable(c), HostNumbers(c), t) = CvtTable(c)[t]
    /\ Of(ReplTable(c), HostNumbers(c), t) = CvtTable(c)[t]
    /\ Has(ExtTable(c), ExtNumbers(c), t) => Of(ExtTable(c), ExtNumbers(c), t) = CvtTable(c)[t]
    /\ t \in DOMAIN LibTable(c) => /\ Has(ExtTable(c), ExtNumbers(c), t)
                                   /\ t # "DYN" => LibTable(c)[t] = CvtTable(c)[t]

LEMMA TablesAgree ==
  ASSUME NEW c \in Class, NEW t \in DOMAIN CvtTable(c)
  PROVE  TablesAgreeOn(c, t)
  <1>1. CASE c = 32
    <2>0. /\ Number("Addr") = Cvt!ADDR32 /\ Number("Half") = Cvt!HALF /\ Number("Lword") = Cvt!LWORD
          /\ Number("Off") = Cvt!OFF32 /\ Number("Sword") = Cvt!SWORD /\ Number("Word") = Cvt!WORD
          /\ Number("Byte") = Cvt!BYTE
      BY DEF Number, Cvt!ADDR32, Cvt!HALF, Cvt!LWORD, Cvt!OFF32, Cvt!SWORD, Cvt!WORD, Cvt!BYTE
    <2>1. Of(HostTable(32), HostNumbers(32), t) = CvtTable(32)[t]
      BY <1>1, <2>0, Records32 DEF Of, HostTable, HostNumbers, CvtTable
    <2>2. Of(ReplTable(32), HostNumbers(32), t) = CvtTable(32)[t]
      BY <1>1, <2>0, Records32 DEF Of, ReplTable, HostNumbers, CvtTable
    <2>3. Has(ExtTable(32), ExtNumbers(32), t) => Of(ExtTable(32), ExtNumbers(32), t) = CvtTable(32)[t]
      BY <1>1, <2>0, Records32 DEF Of, Has, ExtTable, ExtNumbers, CvtTable
    <2>4. t \in DOMAIN LibTable(32) => Has(ExtTable(32), ExtNumbers(32), t)
      BY DEF Has, ExtTable, ExtNumbers, LibTable, Xlate32
    <2>5. t \in DOMAIN LibTable(32) /\ t # "DYN" => LibTable(32)[t] = CvtTable(32)[t]
      BY <1>1, <2>0, Records32 DEF LibTable, Xlate32, CvtTable
    <2> QED BY <1>1, <2>1, <2>2, <2>3, <2>4, <2>5 DEF TablesAgreeOn
  <1>2. CASE c = 64
    <2>0. /\ Number("Addr") = Cvt!ADDR64 /\ Number("Half") = Cvt!HALF /\ Number("Lword") = Cvt!LWORD
          /\ Number("Off") = Cvt!OFF64 /\ Number("Sword") = Cvt!SWORD /\ Number("Word") = Cvt!WORD
          /\ Number("Byte") = Cvt!BYTE /\ Number("Xword") = Cvt!XWORD /\ Number("Sxword") = Cvt!SXWORD
      BY DEF Number, Cvt!ADDR64, Cvt!HALF, Cvt!LWORD, Cvt!OFF64, Cvt!SWORD, Cvt!WORD, Cvt!BYTE,
             Cvt!XWORD, Cvt!SXWORD
    <2>1. Of(HostTable(64), HostNumbers(64), t) = CvtTable(64)[t]
      BY <1>2, <2>0, Records64 DEF Of, HostTable, HostNumbers, CvtTable
    <2>2. Of(ReplTable(64), HostNumbers(64), t) = CvtTable(64)[t]
      BY <1>2, <2>0, Records64 DEF Of, ReplTable, HostNumbers, CvtTable
    <2>3. Has(ExtTable(64), ExtNumbers(64), t) => Of(ExtTable(64), ExtNumbers(64), t) = CvtTable(64)[t]
      BY <1>2, <2>0, Records64 DEF Of, Has, ExtTable, ExtNumbers, CvtTable
    <2>4. t \in DOMAIN LibTable(64) => Has(ExtTable(64), ExtNumbers(64), t)
      BY DEF Has, ExtTable, ExtNumbers, LibTable, Xlate64
    <2>5. t \in DOMAIN LibTable(64) /\ t # "DYN" => LibTable(64)[t] = CvtTable(64)[t]
      BY <1>2, <2>0, Records64 DEF LibTable, Xlate64, CvtTable
    <2> QED BY <1>2, <2>1, <2>2, <2>3, <2>4, <2>5 DEF TablesAgreeOn
  <1> QED BY <1>1, <1>2 DEF Class

LEMMA LibTypes ==
  ASSUME NEW c \in Class, NEW t \in DOMAIN LibTable(c)
  PROVE  t \in DOMAIN CvtTable(c)
  BY DEF Class, LibTable, Xlate32, Xlate64, CvtTable

\* lib copies the members of Dyn with types of other names and equal widths.
LEMMA DynWidths ==
  ASSUME NEW c \in Class
  PROVE  /\ "DYN" \in DOMAIN CvtTable(c) /\ "DYN" \in DOMAIN LibTable(c)
         /\ LET f == CvtTable(c)["DYN"]   g == LibTable(c)["DYN"]
            IN  Widths(c, f) = Widths(c, g) /\ Numbers(f) = Numbers(g) /\ DOMAIN f = DOMAIN g
                /\ \A i \in DOMAIN f : f[i][1] = g[i][1]
  <1> DEFINE f == CvtTable(c)["DYN"]
             g == LibTable(c)["DYN"]
  <1>0. "DYN" \in DOMAIN CvtTable(c) /\ "DYN" \in DOMAIN LibTable(c)
    BY DEF Class, CvtTable, LibTable, Xlate32, Xlate64
  <1>1. /\ DOMAIN f = 1 .. 2 /\ DOMAIN g = 1 .. 2
        /\ f[1][1] = "d_tag" /\ f[2][1] = "d_un" /\ g[1][1] = "d_tag" /\ g[2][1] = "d_un"
        /\ f[1][2] # "Ident" /\ f[2][2] # "Ident" /\ g[1][2] # "Ident" /\ g[2][2] # "Ident"
        /\ Width[c][f[1][2]] = Width[c][g[1][2]] /\ Width[c][f[2][2]] = Width[c][g[2][2]]
    <2>1. CASE c = 32
      BY <2>1 DEF CvtTable, LibTable, Xlate32, Cvt!DYN32, Tr!dyn32, Width, Class
    <2>2. CASE c = 64
      BY <2>2 DEF CvtTable, LibTable, Xlate64, Cvt!DYN64, Tr!dyn64, Width, Class
    <2> QED BY <2>1, <2>2 DEF Class
  <1> HIDE DEF f, g
  <1>2. Name(f) = {"d_tag", "d_un"} /\ Name(g) = {"d_tag", "d_un"}
    BY <1>1 DEF Name
  <1>3. /\ Named(f, "d_tag") = 1 /\ Named(f, "d_un") = 2
        /\ Named(g, "d_tag") = 1 /\ Named(g, "d_un") = 2
    BY <1>1 DEF Named
  <1>4. Widths(c, f) = Widths(c, g) /\ Numbers(f) = Numbers(g)
    BY <1>1, <1>2, <1>3 DEF Widths, Numbers
  <1> QED BY <1>0, <1>1, <1>4 DEF f, g

LEMMA PlansAgree ==
  ASSUME NEW c \in Class, NEW t \in DOMAIN CvtTable(c)
  PROVE  /\ ToolchainPlan(c, t) = ThePlan(c, t)
         /\ t \in DOMAIN LibTable(c) => LibPlan(c, t) = ThePlan(c, t)
         /\ RefPlan("elftoolchain", c, t) = ThePlan(c, t) /\ RefPlan("lib", c, t) = ThePlan(c, t)
         /\ WellLaid(ThePlan(c, t))
  <1>1. TablesAgreeOn(c, t)
    BY TablesAgree
  <1>2. ToolchainPlan(c, t) = ThePlan(c, t)
    BY <1>1 DEF ToolchainPlan, ThePlan, Declared, TablesAgreeOn
  <1>3. RefPlan("elftoolchain", c, t) = ThePlan(c, t) /\ RefPlan("lib", c, t) = ThePlan(c, t)
    BY <1>1 DEF RefPlan, ThePlan, Declared, TablesAgreeOn
  <1>4. ASSUME t \in DOMAIN LibTable(c) PROVE LibPlan(c, t) = ThePlan(c, t)
    <2>1. LibPlan(c, t) = Plan(Packed(c, Declared(c, t)), Natural(c, Declared(c, t)), LibTable(c)[t], c)
      BY <1>1, <1>4 DEF LibPlan, Declared, TablesAgreeOn
    <2>2. CASE t # "DYN"
      BY <1>1, <1>4, <2>1, <2>2 DEF Declared, ThePlan, TablesAgreeOn
    <2>3. CASE t = "DYN"
      <3> DEFINE f == Declared(c, t)
                 g == LibTable(c)[t]
      <3>1. /\ Widths(c, f) = Widths(c, g) /\ Numbers(f) = Numbers(g) /\ DOMAIN f = DOMAIN g
            /\ \A i \in DOMAIN f : f[i][1] = g[i][1]
        BY <2>3, DynWidths DEF Declared
      <3> HIDE DEF f, g
      <3>2. [i \in DOMAIN f |-> f[i][1]] = [i \in DOMAIN g |-> g[i][1]]
        BY <3>1
      <3>3. \A a, b : Plan(a, b, f, c) = Plan(a, b, g, c)
        BY <3>1, <3>2 DEF Plan
      <3> QED BY <2>1, <3>3 DEF ThePlan, f, g
    <2> QED BY <2>2, <2>3
  <1>5. WellLaid(ThePlan(c, t))
    BY CvtFields, PlanFact DEF ThePlan, Declared
  <1> QED BY <1>2, <1>3, <1>4, <1>5

-----------------------------------------------------------------------------
(***************************************************************************)
(* lib's records have no padding: each member begins where its width       *)
(* divides, so the compiler places it where the file has it.               *)
(***************************************************************************)
LEMMA AlignDivides ==
  ASSUME NEW c \in Class, NEW t \in Types, NEW n \in Nat, t # "Ident" => n % Width[c][t] = 0
  PROVE  n % Align(c, t) = 0
  <1>1. c \div 8 \in {4, 8}
    BY DEF Class
  <1>2. Width[c][t] \in {1, 2, 4, 8, 16} /\ (Width[c][t] = 16 <=> t = "Ident")
    BY <1>1 DEF Width, Types
  <1>3. CASE t = "Ident"
    <2>1. Width[c][t] # 8
      BY <1>2, <1>3
    <2>2. Align(c, t) = 1
      BY <1>3, <2>1, Zenon DEF Align
    <2> QED BY <2>2
  <1>4. CASE t # "Ident" /\ Width[c][t] = 8
    <2>1. Align(c, t) = LwordAlign
      BY <1>4, Zenon DEF Align
    <2>2. n % 8 = 0 /\ n % 4 = 0
      BY <1>4
    <2>3. LwordAlign \in {4, 8}
      BY LwordAlignAssumption DEF LwordAlignAssumption
    <2> QED BY <2>1, <2>2, <2>3
  <1>5. CASE t # "Ident" /\ Width[c][t] # 8
    <2>1. Align(c, t) = Width[c][t]
      BY <1>5, Zenon DEF Align
    <2> QED BY <1>5, <2>1
  <1> QED BY <1>3, <1>4, <1>5

LEMMA RoundUpEven ==
  ASSUME NEW n \in Nat, NEW to \in {1, 2, 4, 8}, n % to = 0
  PROVE  RoundUp(n, to) = n
  <1>1. CASE to = 1
    BY <1>1 DEF RoundUp
  <1>2. CASE to = 2
    BY <1>2 DEF RoundUp
  <1>3. CASE to = 4
    BY <1>3 DEF RoundUp
  <1>4. CASE to = 8
    BY <1>4 DEF RoundUp
  <1> QED BY <1>1, <1>2, <1>3, <1>4

\* Members each of which begins where its width divides, as does the end.
Even(c, f, end) ==
    \A i \in 1 .. Len(f) : f[i][2] # "Ident" =>
        end[i - 1] % WidthAt(c, f, i) = 0 /\ end[Len(f)] % WidthAt(c, f, i) = 0

LEMMA NoPadding ==
  ASSUME NEW c \in Class, NEW f, IsFields(f), NEW end, PackedAt(c, f, end), Even(c, f, end)
  PROVE  Natural(c, f).size = Packed(c, f).size
  <1> DEFINE n == Len(f)
             w(i) == WidthAt(c, f, i)
             a(i) == Align(c, f[i][2])
  <1>0. n \in Nat \ {0}
    BY DEF IsFields
  <1>1. \A i \in 1 .. n : w(i) \in Nat /\ a(i) \in {1, 2, 4, 8} /\ f[i][2] \in Types
    BY WidthFact DEF IsFields, WidthAt
  <1>2. end[0] = 0 /\ (\A i \in 1 .. n : end[i] = end[i - 1] + w(i)) /\ Packed(c, f).size = end[n]
    BY DEF PackedAt
  <1>3. PICK off, al : NaturallyAt(c, f, off, al)
    BY NaturalFact
  <1>4. /\ off[1] = 0 /\ al \in {1, 2, 4, 8} /\ \E i \in 1 .. n : al = a(i)
        /\ \A i \in 2 .. n : off[i] = RoundUp(off[i - 1] + w(i - 1), a(i))
        /\ Natural(c, f).size = RoundUp(off[n] + w(n), al)
    BY <1>3 DEF NaturallyAt
  <1>5. \A i \in 1 .. n : end[i - 1] \in Nat => end[i - 1] % a(i) = 0
    <2> SUFFICES ASSUME NEW i \in 1 .. n, end[i - 1] \in Nat PROVE end[i - 1] % a(i) = 0
      OBVIOUS
    <2>1. f[i][2] # "Ident" => end[i - 1] % Width[c][f[i][2]] = 0
      BY DEF Even, WidthAt
    <2> QED BY <1>1, <2>1, AlignDivides
  <1>6. end[n] \in Nat => end[n] % al = 0
    <2> HAVE end[n] \in Nat
    <2>1. PICK i \in 1 .. n : al = a(i)
      BY <1>4
    <2>2. f[i][2] # "Ident" => end[n] % Width[c][f[i][2]] = 0
      BY DEF Even, WidthAt
    <2> QED BY <1>1, <2>1, <2>2, AlignDivides
  <1> HIDE DEF w, a
  <1> DEFINE S == {m \in 0 .. n : end[m] \in Nat /\ (m # n => off[m + 1] = end[m])}
  <1>7. 0 \in S
    BY <1>0, <1>2, <1>4
  <1>8. ASSUME NEW m \in 1 .. n, m - 1 \in S PROVE m \in S
    <2>1. end[m - 1] \in Nat /\ off[m] = end[m - 1]
      BY <1>0, <1>8
    <2>2. end[m] = end[m - 1] + w(m) /\ end[m] \in Nat
      BY <1>1, <1>2, <2>1
    <2>3. m # n => off[m + 1] = end[m]
      <3> HAVE m # n
      <3>1. m + 1 \in 2 .. n /\ m + 1 \in 1 .. n /\ m + 1 - 1 = m
        BY <1>0
      <3>2. off[m + 1] = RoundUp(off[m] + w(m), a(m + 1)) /\ a(m + 1) \in {1, 2, 4, 8}
        BY <1>1, <1>4, <3>1
      <3>3. end[m] % a(m + 1) = 0
        BY <1>5, <2>2, <3>1
      <3> QED BY <2>1, <2>2, <3>2, <3>3, RoundUpEven
    <2> QED BY <1>0, <2>2, <2>3
  <1>9. 0 .. n \subseteq S
    <2>1. \A m \in 1 .. n : m - 1 \in S => m \in S
      BY <1>8
    <2> HIDE DEF S, n
    <2> QED BY ONLY <1>0, <1>7, <2>1, UpTo
  <1>10. n - 1 \in S /\ n \in S /\ n \in 1 .. n
    <2> HIDE DEF S
    <2> QED BY <1>0, <1>9
  <1>11. off[n] = end[n - 1] /\ end[n] = end[n - 1] + w(n) /\ end[n] \in Nat
    BY <1>0, <1>2, <1>10
  <1> QED BY <1>2, <1>4, <1>6, <1>11, RoundUpEven

LEMMA SameWidths ==
  ASSUME NEW c \in Class, NEW f, IsFields(f), NEW end, PackedAt(c, f, end), NEW w \in {4, 8},
         \A i \in 1 .. Len(f) : WidthAt(c, f, i) = w
  PROVE  Even(c, f, end)
  <1> DEFINE n == Len(f)
             S == {m \in 0 .. n : end[m] \in Nat /\ end[m] % w = 0}
  <1>0. n \in Nat
    BY DEF IsFields
  <1>1. end[0] = 0 /\ \A i \in 1 .. n : end[i] = end[i - 1] + w
    BY DEF PackedAt
  <1>2. 0 \in S
    BY <1>0, <1>1
  <1>3. ASSUME NEW m \in 1 .. n, m - 1 \in S PROVE m \in S
    <2>1. end[m - 1] \in Nat /\ end[m - 1] % w = 0 /\ end[m] = end[m - 1] + w
      BY <1>1, <1>3
    <2>2. (end[m - 1] + w) % w = 0
      BY <2>1
    <2> QED BY <1>0, <2>1, <2>2
  <1>4. 0 .. n \subseteq S
    <2>1. \A m \in 1 .. n : m - 1 \in S => m \in S
      BY <1>3
    <2> HIDE DEF S, n
    <2> QED BY ONLY <1>0, <1>2, <2>1, UpTo
  <1>5. \A i \in 1 .. n : i - 1 \in S /\ n \in S
    <2> HIDE DEF S
    <2> QED BY <1>0, <1>4
  <1> QED BY <1>5 DEF Even

LEMMA EvenSym32 ==
  ASSUME NEW end, PackedAt(32, Cvt!SYM32, end)
  PROVE  Even(32, Cvt!SYM32, end)
  <1> DEFINE f == Cvt!SYM32
  <1>1. Len(f) = 6
        /\ WidthAt(32, f, 1) = 4 /\ WidthAt(32, f, 2) = 4 /\ WidthAt(32, f, 3) = 4 /\ WidthAt(32, f, 4) = 1
        /\ WidthAt(32, f, 5) = 1 /\ WidthAt(32, f, 6) = 2
    BY DEF Cvt!SYM32, WidthAt, Width, Class
  <1>2. \A i \in 1 .. 6 : end[i] = end[i - 1] + WidthAt(32, f, i)
    BY <1>1 DEF PackedAt
  <1> HIDE DEF f
  <1>3. /\ end[1] = end[0] + 4 /\ end[2] = end[1] + 4 /\ end[3] = end[2] + 4 /\ end[4] = end[3] + 1
        /\ end[5] = end[4] + 1 /\ end[6] = end[5] + 2
    BY <1>1, <1>2
  <1>4. end[0] = 0
    BY DEF PackedAt, f
  <1>5. /\ end[1] = 4 /\ end[2] = 8 /\ end[3] = 12 /\ end[4] = 13 /\ end[5] = 14 /\ end[6] = 16
    BY ONLY <1>3, <1>4
  <1>6. ASSUME NEW i \in 1 .. 6, f[i][2] # "Ident"
        PROVE  end[i - 1] % WidthAt(32, f, i) = 0 /\ end[6] % WidthAt(32, f, i) = 0
    <2>1. CASE i = 1
      BY <1>1, <1>4, <1>5, <2>1
    <2>2. CASE i = 2
      BY <1>1, <1>4, <1>5, <2>2
    <2>3. CASE i = 3
      BY <1>1, <1>4, <1>5, <2>3
    <2>4. CASE i = 4
      BY <1>1, <1>4, <1>5, <2>4
    <2>5. CASE i = 5
      BY <1>1, <1>4, <1>5, <2>5
    <2>6. CASE i = 6
      BY <1>1, <1>4, <1>5, <2>6
    <2> QED BY <2>1, <2>2, <2>3, <2>4, <2>5, <2>6
  <1> QED BY <1>1, <1>6 DEF Even, f

LEMMA EvenEhdr32 ==
  ASSUME NEW end, PackedAt(32, Cvt!EHDR32, end)
  PROVE  Even(32, Cvt!EHDR32, end)
  <1> DEFINE f == Cvt!EHDR32
  <1>1. Len(f) = 14
        /\ WidthAt(32, f, 1) = 16 /\ WidthAt(32, f, 2) = 2 /\ WidthAt(32, f, 3) = 2 /\ WidthAt(32, f, 4) = 4
        /\ WidthAt(32, f, 5) = 4 /\ WidthAt(32, f, 6) = 4 /\ WidthAt(32, f, 7) = 4 /\ WidthAt(32, f, 8) = 4
        /\ WidthAt(32, f, 9) = 2 /\ WidthAt(32, f, 10) = 2 /\ WidthAt(32, f, 11) = 2 /\ WidthAt(32, f, 12) = 2
        /\ WidthAt(32, f, 13) = 2 /\ WidthAt(32, f, 14) = 2
    BY DEF Cvt!EHDR32, WidthAt, Width, Class
  <1>2. \A i \in 1 .. 14 : end[i] = end[i - 1] + WidthAt(32, f, i)
    BY <1>1 DEF PackedAt
  <1> HIDE DEF f
  <1>3. /\ end[1] = end[0] + 16 /\ end[2] = end[1] + 2 /\ end[3] = end[2] + 2 /\ end[4] = end[3] + 4
        /\ end[5] = end[4] + 4 /\ end[6] = end[5] + 4 /\ end[7] = end[6] + 4 /\ end[8] = end[7] + 4
        /\ end[9] = end[8] + 2 /\ end[10] = end[9] + 2 /\ end[11] = end[10] + 2 /\ end[12] = end[11] + 2
        /\ end[13] = end[12] + 2 /\ end[14] = end[13] + 2
    BY <1>1, <1>2
  <1>4. end[0] = 0
    BY DEF PackedAt, f
  <1>5. /\ end[1] = 16 /\ end[2] = 18 /\ end[3] = 20 /\ end[4] = 24 /\ end[5] = 28 /\ end[6] = 32
        /\ end[7] = 36 /\ end[8] = 40 /\ end[9] = 42 /\ end[10] = 44 /\ end[11] = 46 /\ end[12] = 48
        /\ end[13] = 50 /\ end[14] = 52
    BY ONLY <1>3, <1>4
  <1>6. ASSUME NEW i \in 1 .. 14, f[i][2] # "Ident"
        PROVE  end[i - 1] % WidthAt(32, f, i) = 0 /\ end[14] % WidthAt(32, f, i) = 0
    <2>1. CASE i = 1
      BY <1>6, <2>1 DEF f, Cvt!EHDR32
    <2>2. CASE i = 2
      BY <1>1, <1>4, <1>5, <2>2
    <2>3. CASE i = 3
      BY <1>1, <1>4, <1>5, <2>3
    <2>4. CASE i = 4
      BY <1>1, <1>4, <1>5, <2>4
    <2>5. CASE i = 5
      BY <1>1, <1>4, <1>5, <2>5
    <2>6. CASE i = 6
      BY <1>1, <1>4, <1>5, <2>6
    <2>7. CASE i = 7
      BY <1>1, <1>4, <1>5, <2>7
    <2>8. CASE i = 8
      BY <1>1, <1>4, <1>5, <2>8
    <2>9. CASE i = 9
      BY <1>1, <1>4, <1>5, <2>9
    <2>10. CASE i = 10
      BY <1>1, <1>4, <1>5, <2>10
    <2>11. CASE i = 11
      BY <1>1, <1>4, <1>5, <2>11
    <2>12. CASE i = 12
      BY <1>1, <1>4, <1>5, <2>12
    <2>13. CASE i = 13
      BY <1>1, <1>4, <1>5, <2>13
    <2>14. CASE i = 14
      BY <1>1, <1>4, <1>5, <2>14
    <2> QED BY <2>1, <2>2, <2>3, <2>4, <2>5, <2>6, <2>7, <2>8, <2>9, <2>10, <2>11, <2>12, <2>13, <2>14
  <1> QED BY <1>1, <1>6 DEF Even, f

LEMMA EvenSym64 ==
  ASSUME NEW end, PackedAt(64, Cvt!SYM64, end)
  PROVE  Even(64, Cvt!SYM64, end)
  <1> DEFINE f == Cvt!SYM64
  <1>1. Len(f) = 6
        /\ WidthAt(64, f, 1) = 4 /\ WidthAt(64, f, 2) = 1 /\ WidthAt(64, f, 3) = 1 /\ WidthAt(64, f, 4) = 2
        /\ WidthAt(64, f, 5) = 8 /\ WidthAt(64, f, 6) = 8
    BY DEF Cvt!SYM64, WidthAt, Width, Class
  <1>2. \A i \in 1 .. 6 : end[i] = end[i - 1] + WidthAt(64, f, i)
    BY <1>1 DEF PackedAt
  <1> HIDE DEF f
  <1>3. /\ end[1] = end[0] + 4 /\ end[2] = end[1] + 1 /\ end[3] = end[2] + 1 /\ end[4] = end[3] + 2
        /\ end[5] = end[4] + 8 /\ end[6] = end[5] + 8
    BY <1>1, <1>2
  <1>4. end[0] = 0
    BY DEF PackedAt, f
  <1>5. /\ end[1] = 4 /\ end[2] = 5 /\ end[3] = 6 /\ end[4] = 8 /\ end[5] = 16 /\ end[6] = 24
    BY ONLY <1>3, <1>4
  <1>6. ASSUME NEW i \in 1 .. 6, f[i][2] # "Ident"
        PROVE  end[i - 1] % WidthAt(64, f, i) = 0 /\ end[6] % WidthAt(64, f, i) = 0
    <2>1. CASE i = 1
      BY <1>1, <1>4, <1>5, <2>1
    <2>2. CASE i = 2
      BY <1>1, <1>4, <1>5, <2>2
    <2>3. CASE i = 3
      BY <1>1, <1>4, <1>5, <2>3
    <2>4. CASE i = 4
      BY <1>1, <1>4, <1>5, <2>4
    <2>5. CASE i = 5
      BY <1>1, <1>4, <1>5, <2>5
    <2>6. CASE i = 6
      BY <1>1, <1>4, <1>5, <2>6
    <2> QED BY <2>1, <2>2, <2>3, <2>4, <2>5, <2>6
  <1> QED BY <1>1, <1>6 DEF Even, f

LEMMA EvenEhdr64 ==
  ASSUME NEW end, PackedAt(64, Cvt!EHDR64, end)
  PROVE  Even(64, Cvt!EHDR64, end)
  <1> DEFINE f == Cvt!EHDR64
  <1>1. Len(f) = 14
        /\ WidthAt(64, f, 1) = 16 /\ WidthAt(64, f, 2) = 2 /\ WidthAt(64, f, 3) = 2 /\ WidthAt(64, f, 4) = 4
        /\ WidthAt(64, f, 5) = 8 /\ WidthAt(64, f, 6) = 8 /\ WidthAt(64, f, 7) = 8 /\ WidthAt(64, f, 8) = 4
        /\ WidthAt(64, f, 9) = 2 /\ WidthAt(64, f, 10) = 2 /\ WidthAt(64, f, 11) = 2 /\ WidthAt(64, f, 12) = 2
        /\ WidthAt(64, f, 13) = 2 /\ WidthAt(64, f, 14) = 2
    BY DEF Cvt!EHDR64, Cvt!EHDR32, WidthAt, Width, Class
  <1>2. \A i \in 1 .. 14 : end[i] = end[i - 1] + WidthAt(64, f, i)
    BY <1>1 DEF PackedAt
  <1> HIDE DEF f
  <1>3. /\ end[1] = end[0] + 16 /\ end[2] = end[1] + 2 /\ end[3] = end[2] + 2 /\ end[4] = end[3] + 4
        /\ end[5] = end[4] + 8 /\ end[6] = end[5] + 8 /\ end[7] = end[6] + 8 /\ end[8] = end[7] + 4
        /\ end[9] = end[8] + 2 /\ end[10] = end[9] + 2 /\ end[11] = end[10] + 2 /\ end[12] = end[11] + 2
        /\ end[13] = end[12] + 2 /\ end[14] = end[13] + 2
    BY <1>1, <1>2
  <1>4. end[0] = 0
    BY DEF PackedAt, f
  <1>5. /\ end[1] = 16 /\ end[2] = 18 /\ end[3] = 20 /\ end[4] = 24 /\ end[5] = 32 /\ end[6] = 40
        /\ end[7] = 48 /\ end[8] = 52 /\ end[9] = 54 /\ end[10] = 56 /\ end[11] = 58 /\ end[12] = 60
        /\ end[13] = 62 /\ end[14] = 64
    BY ONLY <1>3, <1>4
  <1>6. ASSUME NEW i \in 1 .. 14, f[i][2] # "Ident"
        PROVE  end[i - 1] % WidthAt(64, f, i) = 0 /\ end[14] % WidthAt(64, f, i) = 0
    <2>1. CASE i = 1
      BY <1>6, <2>1 DEF f, Cvt!EHDR64, Cvt!EHDR32
    <2>2. CASE i = 2
      BY <1>1, <1>4, <1>5, <2>2
    <2>3. CASE i = 3
      BY <1>1, <1>4, <1>5, <2>3
    <2>4. CASE i = 4
      BY <1>1, <1>4, <1>5, <2>4
    <2>5. CASE i = 5
      BY <1>1, <1>4, <1>5, <2>5
    <2>6. CASE i = 6
      BY <1>1, <1>4, <1>5, <2>6
    <2>7. CASE i = 7
      BY <1>1, <1>4, <1>5, <2>7
    <2>8. CASE i = 8
      BY <1>1, <1>4, <1>5, <2>8
    <2>9. CASE i = 9
      BY <1>1, <1>4, <1>5, <2>9
    <2>10. CASE i = 10
      BY <1>1, <1>4, <1>5, <2>10
    <2>11. CASE i = 11
      BY <1>1, <1>4, <1>5, <2>11
    <2>12. CASE i = 12
      BY <1>1, <1>4, <1>5, <2>12
    <2>13. CASE i = 13
      BY <1>1, <1>4, <1>5, <2>13
    <2>14. CASE i = 14
      BY <1>1, <1>4, <1>5, <2>14
    <2> QED BY <2>1, <2>2, <2>3, <2>4, <2>5, <2>6, <2>7, <2>8, <2>9, <2>10, <2>11, <2>12, <2>13, <2>14
  <1> QED BY <1>1, <1>6 DEF Even, f

LEMMA EvenPhdr64 ==
  ASSUME NEW end, PackedAt(64, Cvt!PHDR64, end)
  PROVE  Even(64, Cvt!PHDR64, end)
  <1> DEFINE f == Cvt!PHDR64
  <1>1. Len(f) = 8
        /\ WidthAt(64, f, 1) = 4 /\ WidthAt(64, f, 2) = 4 /\ WidthAt(64, f, 3) = 8 /\ WidthAt(64, f, 4) = 8
        /\ WidthAt(64, f, 5) = 8 /\ WidthAt(64, f, 6) = 8 /\ WidthAt(64, f, 7) = 8 /\ WidthAt(64, f, 8) = 8
    BY DEF Cvt!PHDR64, WidthAt, Width, Class
  <1>2. \A i \in 1 .. 8 : end[i] = end[i - 1] + WidthAt(64, f, i)
    BY <1>1 DEF PackedAt
  <1> HIDE DEF f
  <1>3. /\ end[1] = end[0] + 4 /\ end[2] = end[1] + 4 /\ end[3] = end[2] + 8 /\ end[4] = end[3] + 8
        /\ end[5] = end[4] + 8 /\ end[6] = end[5] + 8 /\ end[7] = end[6] + 8 /\ end[8] = end[7] + 8
    BY <1>1, <1>2
  <1>4. end[0] = 0
    BY DEF PackedAt, f
  <1>5. /\ end[1] = 4 /\ end[2] = 8 /\ end[3] = 16 /\ end[4] = 24 /\ end[5] = 32 /\ end[6] = 40
        /\ end[7] = 48 /\ end[8] = 56
    BY ONLY <1>3, <1>4
  <1>6. ASSUME NEW i \in 1 .. 8, f[i][2] # "Ident"
        PROVE  end[i - 1] % WidthAt(64, f, i) = 0 /\ end[8] % WidthAt(64, f, i) = 0
    <2>1. CASE i = 1
      BY <1>1, <1>4, <1>5, <2>1
    <2>2. CASE i = 2
      BY <1>1, <1>4, <1>5, <2>2
    <2>3. CASE i = 3
      BY <1>1, <1>4, <1>5, <2>3
    <2>4. CASE i = 4
      BY <1>1, <1>4, <1>5, <2>4
    <2>5. CASE i = 5
      BY <1>1, <1>4, <1>5, <2>5
    <2>6. CASE i = 6
      BY <1>1, <1>4, <1>5, <2>6
    <2>7. CASE i = 7
      BY <1>1, <1>4, <1>5, <2>7
    <2>8. CASE i = 8
      BY <1>1, <1>4, <1>5, <2>8
    <2> QED BY <2>1, <2>2, <2>3, <2>4, <2>5, <2>6, <2>7, <2>8
  <1> QED BY <1>1, <1>6 DEF Even, f

LEMMA EvenShdr64 ==
  ASSUME NEW end, PackedAt(64, Cvt!SHDR64, end)
  PROVE  Even(64, Cvt!SHDR64, end)
  <1> DEFINE f == Cvt!SHDR64
  <1>1. Len(f) = 10
        /\ WidthAt(64, f, 1) = 4 /\ WidthAt(64, f, 2) = 4 /\ WidthAt(64, f, 3) = 8 /\ WidthAt(64, f, 4) = 8
        /\ WidthAt(64, f, 5) = 8 /\ WidthAt(64, f, 6) = 8 /\ WidthAt(64, f, 7) = 4 /\ WidthAt(64, f, 8) = 4
        /\ WidthAt(64, f, 9) = 8 /\ WidthAt(64, f, 10) = 8
    BY DEF Cvt!SHDR64, WidthAt, Width, Class
  <1>2. \A i \in 1 .. 10 : end[i] = end[i - 1] + WidthAt(64, f, i)
    BY <1>1 DEF PackedAt
  <1> HIDE DEF f
  <1>3. /\ end[1] = end[0] + 4 /\ end[2] = end[1] + 4 /\ end[3] = end[2] + 8 /\ end[4] = end[3] + 8
        /\ end[5] = end[4] + 8 /\ end[6] = end[5] + 8 /\ end[7] = end[6] + 4 /\ end[8] = end[7] + 4
        /\ end[9] = end[8] + 8 /\ end[10] = end[9] + 8
    BY <1>1, <1>2
  <1>4. end[0] = 0
    BY DEF PackedAt, f
  <1>5. /\ end[1] = 4 /\ end[2] = 8 /\ end[3] = 16 /\ end[4] = 24 /\ end[5] = 32 /\ end[6] = 40
        /\ end[7] = 44 /\ end[8] = 48 /\ end[9] = 56 /\ end[10] = 64
    BY ONLY <1>3, <1>4
  <1>6. ASSUME NEW i \in 1 .. 10, f[i][2] # "Ident"
        PROVE  end[i - 1] % WidthAt(64, f, i) = 0 /\ end[10] % WidthAt(64, f, i) = 0
    <2>1. CASE i = 1
      BY <1>1, <1>4, <1>5, <2>1
    <2>2. CASE i = 2
      BY <1>1, <1>4, <1>5, <2>2
    <2>3. CASE i = 3
      BY <1>1, <1>4, <1>5, <2>3
    <2>4. CASE i = 4
      BY <1>1, <1>4, <1>5, <2>4
    <2>5. CASE i = 5
      BY <1>1, <1>4, <1>5, <2>5
    <2>6. CASE i = 6
      BY <1>1, <1>4, <1>5, <2>6
    <2>7. CASE i = 7
      BY <1>1, <1>4, <1>5, <2>7
    <2>8. CASE i = 8
      BY <1>1, <1>4, <1>5, <2>8
    <2>9. CASE i = 9
      BY <1>1, <1>4, <1>5, <2>9
    <2>10. CASE i = 10
      BY <1>1, <1>4, <1>5, <2>10
    <2> QED BY <2>1, <2>2, <2>3, <2>4, <2>5, <2>6, <2>7, <2>8, <2>9, <2>10
  <1> QED BY <1>1, <1>6 DEF Even, f

\* A record of lib's is as long in memory as in the file.
LEMMA EvenRecords ==
  ASSUME NEW c \in Class, NEW t \in {"REL", "RELA", "DYN", "SYM", "PHDR", "SHDR", "EHDR"},
         NEW end, PackedAt(c, CvtTable(c)[t], end)
  PROVE  Even(c, CvtTable(c)[t], end)
  <1> DEFINE f == CvtTable(c)[t]
  <1>0. t \in DOMAIN CvtTable(c)
    BY DEF Class, CvtTable
  <1>1. IsFields(f)
    BY <1>0, CvtFields
  <1>2. CASE c = 32
    <2>1. CASE t = "REL"
      <3>1. f = Cvt!REL32
        BY <1>2, <2>1 DEF CvtTable
      <3>2. Len(f) = 2 /\ WidthAt(c, f, 1) = 4 /\ WidthAt(c, f, 2) = 4
        BY <1>2, <3>1 DEF Cvt!REL32, WidthAt, Width, Class
      <3> HIDE DEF f
      <3>3. \A i \in 1 .. Len(f) : WidthAt(c, f, i) = 4
        BY <3>2
      <3> QED BY <1>1, <3>3, SameWidths DEF f
    <2>2. CASE t = "RELA"
      <3>1. f = Cvt!RELA32
        BY <1>2, <2>2 DEF CvtTable
      <3>2. Len(f) = 3 /\ WidthAt(c, f, 1) = 4 /\ WidthAt(c, f, 2) = 4 /\ WidthAt(c, f, 3) = 4
        BY <1>2, <3>1 DEF Cvt!RELA32, WidthAt, Width, Class
      <3> HIDE DEF f
      <3>3. \A i \in 1 .. Len(f) : WidthAt(c, f, i) = 4
        BY <3>2
      <3> QED BY <1>1, <3>3, SameWidths DEF f
    <2>3. CASE t = "DYN"
      <3>1. f = Cvt!DYN32
        BY <1>2, <2>3 DEF CvtTable
      <3>2. Len(f) = 2 /\ WidthAt(c, f, 1) = 4 /\ WidthAt(c, f, 2) = 4
        BY <1>2, <3>1 DEF Cvt!DYN32, WidthAt, Width, Class
      <3> HIDE DEF f
      <3>3. \A i \in 1 .. Len(f) : WidthAt(c, f, i) = 4
        BY <3>2
      <3> QED BY <1>1, <3>3, SameWidths DEF f
    <2>4. CASE t = "SYM"
      <3>1. f = Cvt!SYM32
        BY <1>2, <2>4 DEF CvtTable
      <3> HIDE DEF f
      <3> QED BY <1>2, <3>1, EvenSym32 DEF f
    <2>5. CASE t = "PHDR"
      <3>1. f = Cvt!PHDR32
        BY <1>2, <2>5 DEF CvtTable
      <3>2. /\ Len(f) = 8 /\ WidthAt(c, f, 1) = 4 /\ WidthAt(c, f, 2) = 4 /\ WidthAt(c, f, 3) = 4
            /\ WidthAt(c, f, 4) = 4 /\ WidthAt(c, f, 5) = 4 /\ WidthAt(c, f, 6) = 4
            /\ WidthAt(c, f, 7) = 4 /\ WidthAt(c, f, 8) = 4
        BY <1>2, <3>1 DEF Cvt!PHDR32, WidthAt, Width, Class
      <3> HIDE DEF f
      <3>3. \A i \in 1 .. Len(f) : WidthAt(c, f, i) = 4
        BY <3>2
      <3> QED BY <1>1, <3>3, SameWidths DEF f
    <2>6. CASE t = "SHDR"
      <3>1. f = Cvt!SHDR32
        BY <1>2, <2>6 DEF CvtTable
      <3>2. /\ Len(f) = 10 /\ WidthAt(c, f, 1) = 4 /\ WidthAt(c, f, 2) = 4 /\ WidthAt(c, f, 3) = 4
            /\ WidthAt(c, f, 4) = 4 /\ WidthAt(c, f, 5) = 4 /\ WidthAt(c, f, 6) = 4
            /\ WidthAt(c, f, 7) = 4 /\ WidthAt(c, f, 8) = 4 /\ WidthAt(c, f, 9) = 4
            /\ WidthAt(c, f, 10) = 4
        BY <1>2, <3>1 DEF Cvt!SHDR32, WidthAt, Width, Class
      <3> HIDE DEF f
      <3>3. \A i \in 1 .. Len(f) : WidthAt(c, f, i) = 4
        BY <3>2
      <3> QED BY <1>1, <3>3, SameWidths DEF f
    <2>7. CASE t = "EHDR"
      <3>1. f = Cvt!EHDR32
        BY <1>2, <2>7 DEF CvtTable
      <3> HIDE DEF f
      <3> QED BY <1>2, <3>1, EvenEhdr32 DEF f
    <2> QED BY <2>1, <2>2, <2>3, <2>4, <2>5, <2>6, <2>7
  <1>3. CASE c = 64
    <2>1. CASE t = "REL"
      <3>1. f = Cvt!REL64
        BY <1>3, <2>1 DEF CvtTable
      <3>2. Len(f) = 2 /\ WidthAt(c, f, 1) = 8 /\ WidthAt(c, f, 2) = 8
        BY <1>3, <3>1 DEF Cvt!REL64, WidthAt, Width, Class
      <3> HIDE DEF f
      <3>3. \A i \in 1 .. Len(f) : WidthAt(c, f, i) = 8
        BY <3>2
      <3> QED BY <1>1, <3>3, SameWidths DEF f
    <2>2. CASE t = "RELA"
      <3>1. f = Cvt!RELA64
        BY <1>3, <2>2 DEF CvtTable
      <3>2. Len(f) = 3 /\ WidthAt(c, f, 1) = 8 /\ WidthAt(c, f, 2) = 8 /\ WidthAt(c, f, 3) = 8
        BY <1>3, <3>1 DEF Cvt!RELA64, WidthAt, Width, Class
      <3> HIDE DEF f
      <3>3. \A i \in 1 .. Len(f) : WidthAt(c, f, i) = 8
        BY <3>2
      <3> QED BY <1>1, <3>3, SameWidths DEF f
    <2>3. CASE t = "DYN"
      <3>1. f = Cvt!DYN64
        BY <1>3, <2>3 DEF CvtTable
      <3>2. Len(f) = 2 /\ WidthAt(c, f, 1) = 8 /\ WidthAt(c, f, 2) = 8
        BY <1>3, <3>1 DEF Cvt!DYN64, WidthAt, Width, Class
      <3> HIDE DEF f
      <3>3. \A i \in 1 .. Len(f) : WidthAt(c, f, i) = 8
        BY <3>2
      <3> QED BY <1>1, <3>3, SameWidths DEF f
    <2>4. CASE t = "SYM"
      <3>1. f = Cvt!SYM64
        BY <1>3, <2>4 DEF CvtTable
      <3> HIDE DEF f
      <3> QED BY <1>3, <3>1, EvenSym64 DEF f
    <2>5. CASE t = "PHDR"
      <3>1. f = Cvt!PHDR64
        BY <1>3, <2>5 DEF CvtTable
      <3> HIDE DEF f
      <3> QED BY <1>3, <3>1, EvenPhdr64 DEF f
    <2>6. CASE t = "SHDR"
      <3>1. f = Cvt!SHDR64
        BY <1>3, <2>6 DEF CvtTable
      <3> HIDE DEF f
      <3> QED BY <1>3, <3>1, EvenShdr64 DEF f
    <2>7. CASE t = "EHDR"
      <3>1. f = Cvt!EHDR64
        BY <1>3, <2>7 DEF CvtTable
      <3> HIDE DEF f
      <3> QED BY <1>3, <3>1, EvenEhdr64 DEF f
    <2> QED BY <2>1, <2>2, <2>3, <2>4, <2>5, <2>6, <2>7
  <1> QED BY <1>2, <1>3 DEF Class

LEMMA LibFlat ==
  ASSUME NEW c \in Class, NEW t \in DOMAIN LibTable(c)
  PROVE  ThePlan(c, t).file.size = ThePlan(c, t).mem.size
  <1> DEFINE f == CvtTable(c)[t]
             p == ThePlan(c, t)
  <1>0. t \in DOMAIN CvtTable(c)
    BY LibTypes
  <1>1. IsFields(f)
    BY <1>0, CvtFields
  <1>2. p.file = Packed(c, f) /\ p.mem = Natural(c, f)
    BY TableIs DEF ThePlan, Plan, Declared
  <1>3. CASE t \in {"REL", "RELA", "DYN", "SYM", "PHDR", "SHDR", "EHDR"}
    <2>1. PICK end : PackedAt(c, f, end)
      BY <1>1, PackedFact
    <2>2. Even(c, f, end)
      BY <1>3, <2>1, EvenRecords
    <2> QED BY <1>1, <1>2, <2>1, <2>2, NoPadding
  <1>4. CASE t \notin {"REL", "RELA", "DYN", "SYM", "PHDR", "SHDR", "EHDR"}
    <2>1. Len(f) = 1
      <3>1. t \in {"BYTE", "ADDR", "HALF", "OFF", "SWORD", "WORD", "SXWORD", "XWORD"}
        BY <1>4 DEF LibTable, Xlate32, Xlate64
      <3>2. CASE c = 32
        BY <1>0, <3>1, <3>2 DEF CvtTable, Cvt!BYTE, Cvt!ADDR32, Cvt!HALF, Cvt!OFF32, Cvt!SWORD, Cvt!WORD
      <3>3. CASE c = 64
        BY <1>0, <3>1, <3>3 DEF CvtTable, Cvt!BYTE, Cvt!ADDR64, Cvt!HALF, Cvt!OFF64, Cvt!SWORD, Cvt!WORD,
                               Cvt!SXWORD, Cvt!XWORD
      <3> QED BY <3>2, <3>3 DEF Class
    <2>2. WellLaid(p)
      BY <1>0, PlansAgree
    <2>3. Len(p.order) = 1
      <3>1. p.order = [i \in DOMAIN f |-> f[i][1]] /\ DOMAIN f = 1 .. 1
        BY <1>1, <2>1, TableIs DEF ThePlan, Plan, Declared, IsFields
      <3> QED BY <3>1
    <2> HIDE DEF p
    <2>4. p.file.size = p.mem.size
      BY <2>2, <2>3, Zenon DEF WellLaid
    <2> QED BY <2>4 DEF p
  <1> QED BY <1>3, <1>4

-----------------------------------------------------------------------------
(***************************************************************************)
(* Which byte goes where.                                                  *)
(***************************************************************************)
Inside(side, width) ==
    /\ side.size \in Nat
    /\ \A n \in DOMAIN width :
          side.at[n] \in Nat /\ width[n] \in Nat \ {0} /\ side.at[n] + width[n] <= side.size

LEMMA WellLaidInside ==
  ASSUME NEW p, WellLaid(p), NEW tof \in BOOLEAN
  PROVE  Inside(From(p, tof), p.width) /\ Inside(To(p, tof), p.width)
  <1>1. Inside(p.file, p.width)
    BY DEF WellLaid, Inside
  <1>2. Inside(p.mem, p.width)
    BY DEF WellLaid, Inside
  <1> QED BY <1>1, <1>2 DEF From, To

LEMMA FieldBytesFact ==
  ASSUME NEW p, NEW tof \in BOOLEAN, NEW swap \in BOOLEAN, NEW n \in DOMAIN p.width,
         Inside(From(p, tof), p.width), Inside(To(p, tof), p.width)
  PROVE  LET b == FieldBytes(p, n, tof, swap)
             s == From(p, tof).at[n]   d == To(p, tof).at[n]   w == p.width[n]
         IN  /\ DOMAIN b = d .. d + w - 1 /\ s \in Nat /\ d \in Nat /\ w \in Nat \ {0}
             /\ \A o \in d .. d + w - 1 :
                   /\ b[o] = IF swap /\ n \in p.number THEN s + w - 1 - (o - d) ELSE s + (o - d)
                   /\ b[o] \in s .. s + w - 1
             /\ d + w <= To(p, tof).size /\ s + w <= From(p, tof).size
             /\ To(p, tof).size \in Nat /\ From(p, tof).size \in Nat
  <1> DEFINE s == From(p, tof).at[n]
             d == To(p, tof).at[n]
             w == p.width[n]
             b == FieldBytes(p, n, tof, swap)
  <1>1. /\ s \in Nat /\ d \in Nat /\ w \in Nat \ {0}
        /\ d + w <= To(p, tof).size /\ s + w <= From(p, tof).size
        /\ To(p, tof).size \in Nat /\ From(p, tof).size \in Nat
    BY DEF Inside
  <1>2. b = [o \in d .. (d + w - 1) |-> IF swap /\ n \in p.number THEN s + w - 1 - (o - d) ELSE s + (o - d)]
    BY DEF FieldBytes
  <1> HIDE DEF s, d, w, b
  <1>3. \A o \in d .. d + w - 1 :
           /\ b[o] = IF swap /\ n \in p.number THEN s + w - 1 - (o - d) ELSE s + (o - d)
           /\ b[o] \in s .. s + w - 1
    <2> TAKE o \in d .. d + w - 1
    <2>1. b[o] = IF swap /\ n \in p.number THEN s + w - 1 - (o - d) ELSE s + (o - d)
      BY <1>2
    <2> QED BY <1>1, <2>1
  <1> QED BY <1>1, <1>2, <1>3 DEF s, d, w, b

\* Byte o of a converted record is byte b of member n.
Takes(p, tof, swap, o, n) ==
    n \in DOMAIN p.width /\ o \in To(p, tof).at[n] .. To(p, tof).at[n] + p.width[n] - 1

LEMMA RecordBytesFact ==
  ASSUME NEW p, NEW tof \in BOOLEAN, NEW swap \in BOOLEAN,
         Inside(From(p, tof), p.width), Inside(To(p, tof), p.width)
  PROVE  LET b == RecordBytes(p, tof, swap)
         IN  /\ DOMAIN b = 0 .. To(p, tof).size - 1
             /\ \A o \in DOMAIN b :
                   \/ b[o] = Padding /\ \A n : ~Takes(p, tof, swap, o, n)
                   \/ \E n : Takes(p, tof, swap, o, n) /\ b[o] = FieldBytes(p, n, tof, swap)[o]
             /\ \A o \in DOMAIN b : b[o] = Padding \/ b[o] \in 0 .. From(p, tof).size - 1
  <1> DEFINE b == RecordBytes(p, tof, swap)
  <1>1. DOMAIN b = 0 .. To(p, tof).size - 1
    BY DEF RecordBytes
  <1>2. ASSUME NEW o \in 0 .. To(p, tof).size - 1
        PROVE  /\ \/ b[o] = Padding /\ \A n : ~Takes(p, tof, swap, o, n)
                  \/ \E n : Takes(p, tof, swap, o, n) /\ b[o] = FieldBytes(p, n, tof, swap)[o]
               /\ b[o] = Padding \/ b[o] \in 0 .. From(p, tof).size - 1
    <2>1. \A n \in DOMAIN p.width : o \in DOMAIN FieldBytes(p, n, tof, swap) <=> Takes(p, tof, swap, o, n)
      BY FieldBytesFact DEF Takes
    <2>2. CASE \E n \in DOMAIN p.width : o \in DOMAIN FieldBytes(p, n, tof, swap)
      <3>1. PICK n : /\ n = CHOOSE m \in DOMAIN p.width : o \in DOMAIN FieldBytes(p, m, tof, swap)
                     /\ n \in DOMAIN p.width /\ o \in DOMAIN FieldBytes(p, n, tof, swap)
        BY <2>2
      <3>2. b[o] = FieldBytes(p, n, tof, swap)[o]
        BY <2>2, <3>1 DEF RecordBytes
      <3>3. Takes(p, tof, swap, o, n)
        BY <2>1, <3>1
      <3>4. b[o] \in 0 .. From(p, tof).size - 1
        <4> DEFINE s == From(p, tof).at[n]
                   w == p.width[n]
                   g == FieldBytes(p, n, tof, swap)[o]
                   size == From(p, tof).size
        <4>1. n \in DOMAIN p.width /\ o \in To(p, tof).at[n] .. To(p, tof).at[n] + p.width[n] - 1
          BY <3>3 DEF Takes
        <4>2. g \in s .. s + w - 1 /\ s \in Nat /\ w \in Nat /\ s + w <= size /\ size \in Nat
          BY <4>1, FieldBytesFact
        <4> HIDE DEF s, w, b, g, size
        <4>3. g \in 0 .. size - 1
          BY <4>2
        <4> QED BY <3>2, <4>3 DEF g, size
      <3> QED BY <3>2, <3>3, <3>4
    <2>3. CASE ~ \E n \in DOMAIN p.width : o \in DOMAIN FieldBytes(p, n, tof, swap)
      <3>1. b[o] = Padding
        BY <2>3 DEF RecordBytes
      <3>2. \A n : ~Takes(p, tof, swap, o, n)
        BY <2>1, <2>3 DEF Takes
      <3> QED BY <3>1, <3>2
    <2> QED BY <2>2, <2>3
  <1> HIDE DEF b
  <1> QED BY <1>1, <1>2 DEF b

\* A packed record has no byte that belongs to no member.
LEMMA PackedCovers ==
  ASSUME NEW c \in Class, NEW f, IsFields(f)
  PROVE  /\ Inside(Packed(c, f), Widths(c, f)) /\ Packed(c, f).size \in Nat \ {0}
         /\ DOMAIN Widths(c, f) = Name(f)
         /\ \A o \in 0 .. Packed(c, f).size - 1 : \E n \in Name(f) :
               o \in Packed(c, f).at[n] .. Packed(c, f).at[n] + Widths(c, f)[n] - 1
  <1> DEFINE p == Packed(c, f)
             n == Len(f)
             w(i) == WidthAt(c, f, i)
  <1>1. PICK end, off : Places(c, f, end, off)
    BY PlacesFact
  <1>2. end[0] = 0
    <2>0. PICK e : PackedAt(c, f, e)
      BY PackedFact
    <2>1. e[0] = 0 /\ n \in Nat \ {0} /\ p.at[f[1][1]] = e[0]
      BY <2>0 DEF IsFields, PackedAt
    <2>2. p.at[f[1][1]] = end[1 - 1]
      BY <1>1 DEF Places
    <2> QED BY <2>1, <2>2
  <1>3. /\ n \in Nat \ {0} /\ p.size = end[n]
        /\ \A i \in 1 .. n : /\ end[i - 1] \in Nat /\ w(i) \in Nat \ {0} /\ end[i] = end[i - 1] + w(i)
                             /\ p.at[f[i][1]] = end[i - 1]
    BY <1>1 DEF Places
  <1>4. DOMAIN Widths(c, f) = Name(f) /\ \A i \in 1 .. n : Widths(c, f)[f[i][1]] = w(i)
    BY NamedFact DEF Widths, WidthAt
  <1>5. Name(f) = {f[i][1] : i \in 1 .. n}
    BY NamedFact
  <1> DEFINE S == {m \in 0 .. n : /\ end[m] \in Nat /\ \A i \in 1 .. m : end[i] <= end[m]
                                  /\ \A o \in 0 .. end[m] - 1 : \E i \in 1 .. m : o \in end[i - 1] .. end[i - 1] + w(i) - 1}
  <1> HIDE DEF p, w
  <1>6. 0 \in S
    BY <1>2, <1>3
  <1>7. ASSUME NEW m \in 1 .. n, m - 1 \in S PROVE m \in S
    <2> HIDE DEF n
    <2>0. m \in 0 .. n /\ m - 1 \in 0 .. n /\ m \in Nat
      BY <1>3
    <2>1. /\ end[m - 1] \in Nat /\ \A i \in 1 .. m - 1 : end[i] <= end[m - 1]
          /\ \A o \in 0 .. end[m - 1] - 1 : \E i \in 1 .. m - 1 : o \in end[i - 1] .. end[i - 1] + w(i) - 1
      BY <1>7
    <2>2. end[m] = end[m - 1] + w(m) /\ w(m) \in Nat \ {0}
      BY <1>3
    <2>3. ASSUME NEW i \in 1 .. m PROVE end[i] <= end[m]
      <3>1. CASE i = m
        BY <2>1, <2>2, <3>1
      <3>2. CASE i # m
        <4>1. end[i] <= end[m - 1] /\ end[i] = end[i - 1] + w(i) /\ end[i - 1] \in Nat /\ w(i) \in Nat
          BY <1>3, <2>0, <2>1, <3>2
        <4> QED BY <2>1, <2>2, <4>1
      <3> QED BY <3>1, <3>2
    <2>4. ASSUME NEW o \in 0 .. end[m] - 1
          PROVE  \E i \in 1 .. m : o \in end[i - 1] .. end[i - 1] + w(i) - 1
      <3>1. CASE o < end[m - 1]
        <4>1. PICK i \in 1 .. m - 1 : o \in end[i - 1] .. end[i - 1] + w(i) - 1
          BY <2>1, <3>1
        <4> QED BY <2>0, <4>1
      <3>2. CASE ~(o < end[m - 1])
        <4>1. m \in 1 .. m /\ o \in end[m - 1] .. end[m - 1] + w(m) - 1
          BY <2>0, <2>1, <2>2, <3>2
        <4> QED BY <4>1
      <3> QED BY <3>1, <3>2
    <2>5. end[m] \in Nat
      BY <2>1, <2>2
    <2> QED BY <2>0, <2>3, <2>4, <2>5
  <1>8. n \in S
    <2>1. \A m \in 1 .. n : m - 1 \in S => m \in S
      BY <1>7
    <2>2. n \in Nat
      BY <1>3
    <2> HIDE DEF S, n
    <2>3. 0 .. n \subseteq S
      BY ONLY <2>2, <1>6, <2>1, UpTo
    <2> QED BY <2>2, <2>3
  <1>9. /\ end[n] \in Nat /\ \A i \in 1 .. n : end[i] <= end[n]
        /\ \A o \in 0 .. end[n] - 1 : \E i \in 1 .. n : o \in end[i - 1] .. end[i - 1] + w(i) - 1
    BY <1>8
  <1> HIDE DEF S, n
  <1>10. p.size \in Nat \ {0}
    <2>1. 1 \in 1 .. n /\ end[1] = end[1 - 1] + w(1) /\ w(1) \in Nat \ {0} /\ end[1 - 1] \in Nat
      BY <1>3
    <2>2. end[1] <= end[n] /\ end[n] \in Nat
      BY <1>9, <2>1
    <2> QED BY <1>3, <2>1, <2>2
  <1>11. ASSUME NEW x \in Name(f)
         PROVE  /\ p.at[x] \in Nat /\ Widths(c, f)[x] \in Nat \ {0} /\ p.at[x] + Widths(c, f)[x] <= p.size
    <2>1. PICK i \in 1 .. n : x = f[i][1]
      BY <1>5
    <2>2. /\ end[i - 1] \in Nat /\ w(i) \in Nat \ {0} /\ end[i] = end[i - 1] + w(i)
          /\ p.at[x] = end[i - 1] /\ Widths(c, f)[x] = w(i) /\ end[i] <= p.size
      BY <1>3, <1>4, <1>9, <2>1
    <2> QED BY <2>2
  <1>12. ASSUME NEW o \in 0 .. p.size - 1
         PROVE  \E x \in Name(f) : o \in p.at[x] .. p.at[x] + Widths(c, f)[x] - 1
    <2>1. PICK i \in 1 .. n : o \in end[i - 1] .. end[i - 1] + w(i) - 1
      BY <1>3, <1>9
    <2>2. f[i][1] \in Name(f) /\ p.at[f[i][1]] = end[i - 1] /\ Widths(c, f)[f[i][1]] = w(i)
      BY <1>3, <1>4, <1>5
    <2> QED BY <2>1, <2>2
  <1> QED BY <1>4, <1>10, <1>11, <1>12 DEF p, Inside

\* Every byte of a record of a walked table takes a byte of the same record.
LEMMA TableBytesFact ==
  ASSUME NEW k, k.class \in Class, k.tof \in BOOLEAN, k.swap \in BOOLEAN, NEW f, IsFields(f)
  PROVE  /\ Packed(k.class, f).size \in Nat \ {0}
         /\ DOMAIN TableBytes(k, f) = 0 .. Packed(k.class, f).size - 1
         /\ \A o \in DOMAIN TableBytes(k, f) : TableBytes(k, f)[o] \in 0 .. Packed(k.class, f).size - 1
  <1> DEFINE side == Packed(k.class, f)
             p == Plan(side, side, f, k.class)
             b == RecordBytes(p, k.tof, k.swap)
  <1>1. /\ Inside(side, Widths(k.class, f)) /\ side.size \in Nat \ {0}
        /\ DOMAIN Widths(k.class, f) = Name(f)
        /\ \A o \in 0 .. side.size - 1 : \E n \in Name(f) :
               o \in side.at[n] .. side.at[n] + Widths(k.class, f)[n] - 1
    BY PackedCovers
  <1>2. p.file = side /\ p.mem = side /\ p.width = Widths(k.class, f)
    BY TableIs DEF Plan
  <1> HIDE DEF p, side
  <1>3. From(p, k.tof) = side /\ To(p, k.tof) = side
    BY <1>2 DEF From, To
  <1>4. /\ DOMAIN b = 0 .. side.size - 1
        /\ \A o \in DOMAIN b :
              \/ b[o] = Padding /\ \A n : ~Takes(p, k.tof, k.swap, o, n)
              \/ \E n : Takes(p, k.tof, k.swap, o, n) /\ b[o] = FieldBytes(p, n, k.tof, k.swap)[o]
        /\ \A o \in DOMAIN b : b[o] = Padding \/ b[o] \in 0 .. side.size - 1
    <2>1. Inside(From(p, k.tof), p.width) /\ Inside(To(p, k.tof), p.width)
      BY <1>1, <1>2, <1>3
    <2> QED BY <1>3, <2>1, RecordBytesFact
  <1>5. ASSUME NEW o \in 0 .. side.size - 1
        PROVE  b[o] \in 0 .. side.size - 1
    <2>1. PICK n \in Name(f) : o \in side.at[n] .. side.at[n] + Widths(k.class, f)[n] - 1
      BY <1>1
    <2>2. Takes(p, k.tof, k.swap, o, n)
      BY <1>1, <1>2, <1>3, <2>1 DEF Takes
    <2>3. n \in DOMAIN p.width /\ Inside(side, p.width)
      BY <1>1, <1>2
    <2>4. \E x : Takes(p, k.tof, k.swap, o, x) /\ b[o] = FieldBytes(p, x, k.tof, k.swap)[o]
      BY <1>4, <2>2
    <2>5. PICK x : Takes(p, k.tof, k.swap, o, x) /\ b[o] = FieldBytes(p, x, k.tof, k.swap)[o]
      BY <2>4
    <2>6. x \in DOMAIN p.width /\ o \in side.at[x] .. side.at[x] + p.width[x] - 1
      BY <1>3, <2>5 DEF Takes
    <2>7. /\ FieldBytes(p, x, k.tof, k.swap)[o] \in side.at[x] .. side.at[x] + p.width[x] - 1
          /\ side.at[x] \in Nat /\ p.width[x] \in Nat /\ side.at[x] + p.width[x] <= side.size
          /\ side.size \in Nat
      BY <1>3, <2>3, <2>6, FieldBytesFact
    <2> HIDE DEF b
    <2> QED BY <2>5, <2>7
  <1>6. TableBytes(k, f) = b
    BY DEF TableBytes, p, side
  <1> HIDE DEF b
  <1> QED BY <1>1, <1>4, <1>5, <1>6 DEF side

-----------------------------------------------------------------------------
(***************************************************************************)
(* The records of the tables that are walked.                              *)
(***************************************************************************)
\* Both libraries have the same records for a version table.
Verdef  == Cvt!VDEF32_tof
Verneed == Cvt!VNEED32_tof
VersionRecord(k) == IF k.type = "VDEF" THEN Verdef ELSE Verneed

LEMMA VersionRecordsAgree ==
  ASSUME NEW k, k.class \in Class, k.tof \in BOOLEAN
  PROVE  /\ CvtRecords(k).head = VersionRecord(k).head /\ CvtRecords(k).aux = VersionRecord(k).aux
         /\ LibRecords(k).head = VersionRecord(k).head /\ LibRecords(k).aux = VersionRecord(k).aux
  <1>1. /\ Cvt!VDEF32_tom = Verdef /\ Cvt!VDEF64_tof = Verdef /\ Cvt!VDEF64_tom = Verdef
        /\ Cvt!VNEED32_tom = Verneed /\ Cvt!VNEED64_tof = Verneed /\ Cvt!VNEED64_tom = Verneed
    BY DEF Cvt!VDEF32_tom, Cvt!VDEF64_tof, Cvt!VDEF64_tom, Cvt!VNEED32_tom, Cvt!VNEED64_tof,
           Cvt!VNEED64_tom, Verdef, Verneed
  <1>2. CvtRecords(k) = VersionRecord(k)
    BY <1>1 DEF CvtRecords, VersionRecord, Verdef, Verneed
  <1>3. LibVerdef(k).head = Verdef.head /\ LibVerdef(k).aux = Verdef.aux
    BY DEF LibVerdef, Verdef, Cvt!VDEF32_tof, Ext!Verdef32, Ext!Verdef64, Ext!Verdaux32, Ext!Verdaux64
  <1>4. LibVerneed(k).head = Verneed.head /\ LibVerneed(k).aux = Verneed.aux
    BY DEF LibVerneed, Verneed, Cvt!VNEED32_tof, Ext!Verneed32, Ext!Verneed64, Ext!Vernaux32,
           Ext!Vernaux64
  <1> QED BY <1>2, <1>3, <1>4 DEF LibRecords, VersionRecord

LEMMA HeadAndAux ==
  ASSUME NEW k, k.class \in Class, k.tof \in BOOLEAN
  PROVE  /\ HeadFields(k) = VersionRecord(k).head /\ AuxFields(k) = VersionRecord(k).aux
         /\ RefHead(k) = VersionRecord(k).head /\ RefAux(k) = VersionRecord(k).aux
  BY VersionRecordsAgree DEF HeadFields, AuxFields, RefHead, RefAux, RecordsOf

\* A number of two or four bytes among the members.
HasNumber(c, f, n) == n \in Name(f) /\ Widths(c, f)[n] \in {2, 4}

LEMMA VersionNumbers ==
  ASSUME NEW k, k.class \in Class
  PROVE  /\ IsFields(VersionRecord(k).head) /\ IsFields(VersionRecord(k).aux)
         /\ HasNumber(k.class, VersionRecord(k).head, Versioned(k, "vd_aux", "vn_aux"))
         /\ HasNumber(k.class, VersionRecord(k).head, Versioned(k, "vd_cnt", "vn_cnt"))
         /\ HasNumber(k.class, VersionRecord(k).head, Versioned(k, "vd_next", "vn_next"))
         /\ HasNumber(k.class, VersionRecord(k).head, Versioned(k, "vd_version", "vn_version"))
         /\ HasNumber(k.class, VersionRecord(k).aux, Versioned(k, "vda_next", "vna_next"))
  <1>0. Width[k.class]["Half"] = 2 /\ Width[k.class]["Word"] = 4
    BY DEF Width
  <1>1. ASSUME NEW f, IsFields(f), NEW i \in 1 .. Len(f), f[i][2] \in {"Half", "Word"}
        PROVE  HasNumber(k.class, f, f[i][1])
    BY <1>0, <1>1, NamedFact DEF HasNumber, Widths
  <1>2. CASE k.type = "VDEF"
    <2> DEFINE f == Verdef.head
               g == Verdef.aux
    <2>1. IsFields(f) /\ IsFields(g)
      BY DEF Verdef, Cvt!VDEF32_tof, IsFields, Types
    <2>2. /\ 6 \in 1 .. Len(f) /\ f[6][1] = "vd_aux" /\ f[6][2] \in {"Half", "Word"}
          /\ 4 \in 1 .. Len(f) /\ f[4][1] = "vd_cnt" /\ f[4][2] \in {"Half", "Word"}
          /\ 7 \in 1 .. Len(f) /\ f[7][1] = "vd_next" /\ f[7][2] \in {"Half", "Word"}
          /\ 1 \in 1 .. Len(f) /\ f[1][1] = "vd_version" /\ f[1][2] \in {"Half", "Word"}
          /\ 2 \in 1 .. Len(g) /\ g[2][1] = "vda_next" /\ g[2][2] \in {"Half", "Word"}
      BY DEF Verdef, Cvt!VDEF32_tof
    <2> HIDE DEF f, g
    <2>3. /\ HasNumber(k.class, f, "vd_aux") /\ HasNumber(k.class, f, "vd_cnt")
          /\ HasNumber(k.class, f, "vd_next") /\ HasNumber(k.class, f, "vd_version")
          /\ HasNumber(k.class, g, "vda_next")
      BY <1>1, <2>1, <2>2
    <2> QED BY <1>2, <2>1, <2>3 DEF VersionRecord, Versioned, f, g
  <1>3. CASE k.type # "VDEF"
    <2> DEFINE f == Verneed.head
               g == Verneed.aux
    <2>1. IsFields(f) /\ IsFields(g)
      BY DEF Verneed, Cvt!VNEED32_tof, IsFields, Types
    <2>2. /\ 4 \in 1 .. Len(f) /\ f[4][1] = "vn_aux" /\ f[4][2] \in {"Half", "Word"}
          /\ 2 \in 1 .. Len(f) /\ f[2][1] = "vn_cnt" /\ f[2][2] \in {"Half", "Word"}
          /\ 5 \in 1 .. Len(f) /\ f[5][1] = "vn_next" /\ f[5][2] \in {"Half", "Word"}
          /\ 1 \in 1 .. Len(f) /\ f[1][1] = "vn_version" /\ f[1][2] \in {"Half", "Word"}
          /\ 5 \in 1 .. Len(g) /\ g[5][1] = "vna_next" /\ g[5][2] \in {"Half", "Word"}
      BY DEF Verneed, Cvt!VNEED32_tof
    <2> HIDE DEF f, g
    <2>3. /\ HasNumber(k.class, f, "vn_aux") /\ HasNumber(k.class, f, "vn_cnt")
          /\ HasNumber(k.class, f, "vn_next") /\ HasNumber(k.class, f, "vn_version")
          /\ HasNumber(k.class, g, "vna_next")
      BY <1>1, <2>1, <2>2
    <2> QED BY <1>3, <2>1, <2>3 DEF VersionRecord, Versioned, f, g
  <1> QED BY <1>2, <1>3

LEMMA NoteNumbers ==
  ASSUME NEW c \in Class
  PROVE  /\ IsFields(NoteHdr) /\ Packed(c, NoteHdr).size = NoteHdrSize
         /\ HasNumber(c, NoteHdr, "n_namesz") /\ HasNumber(c, NoteHdr, "n_descsz")
         /\ Packed(c, NoteHdr).at["n_namesz"] = 0 /\ Packed(c, NoteHdr).at["n_descsz"] = 4
         /\ Widths(c, NoteHdr)["n_namesz"] = 4 /\ Widths(c, NoteHdr)["n_descsz"] = 4
         /\ Packed(c, NoteHdr).at["n_type"] = 8 /\ Widths(c, NoteHdr)["n_type"] = 4
         /\ Name(NoteHdr) = {"n_namesz", "n_descsz", "n_type"} /\ Numbers(NoteHdr) = Name(NoteHdr)
  <1> DEFINE f == NoteHdr
  <1>0. Width[c]["Word"] = 4
    BY DEF Width
  <1>1. IsFields(f)
    BY DEF NoteHdr, IsFields, Types
  <1>2. /\ Len(f) = 3 /\ f[1][1] = "n_namesz" /\ f[2][1] = "n_descsz" /\ f[3][1] = "n_type"
        /\ f[1][2] = "Word" /\ f[2][2] = "Word" /\ f[3][2] = "Word"
    BY DEF NoteHdr
  <1> HIDE DEF f
  <1>3. /\ Named(f, "n_namesz") = 1 /\ Named(f, "n_descsz") = 2 /\ Named(f, "n_type") = 3
        /\ Name(f) = {"n_namesz", "n_descsz", "n_type"}
    <2>1. Name(f) = {f[i][1] : i \in 1 .. 3} /\ \A i \in 1 .. 3 : Named(f, f[i][1]) = i
      BY <1>1, <1>2, NamedFact
    <2>2. 1 .. 3 = {1, 2, 3}
      OBVIOUS
    <2> QED BY <1>2, <2>1, <2>2
  <1>4. /\ Widths(c, f)["n_namesz"] = 4 /\ Widths(c, f)["n_descsz"] = 4 /\ Widths(c, f)["n_type"] = 4
        /\ Numbers(f) = Name(f)
    BY <1>0, <1>2, <1>3 DEF Widths, Numbers
  <1>50. PICK end : PackedAt(c, f, end)
    BY <1>1, PackedFact
  <1>5. /\ end[0] = 0
        /\ \A i \in 1 .. 3 : end[i] = end[i - 1] + WidthAt(c, f, i)
        /\ Packed(c, f).size = end[3]
        /\ \A i \in 1 .. 3 : Packed(c, f).at[f[i][1]] = end[i - 1]
    BY <1>2, <1>50 DEF PackedAt
  <1>6. end[1] = 4 /\ end[2] = 8 /\ end[3] = 12
    BY <1>0, <1>2, <1>5 DEF WidthAt
  <1>7. /\ Packed(c, f).at["n_namesz"] = 0 /\ Packed(c, f).at["n_descsz"] = 4
        /\ Packed(c, f).at["n_type"] = 8
    <2>1. /\ Packed(c, f).at[f[1][1]] = end[1 - 1] /\ Packed(c, f).at[f[2][1]] = end[2 - 1]
          /\ Packed(c, f).at[f[3][1]] = end[3 - 1]
      BY <1>5
    <2> QED BY <1>2, <1>5, <1>6, <2>1
  <1> QED BY <1>1, <1>3, <1>4, <1>5, <1>6, <1>7 DEF f, HasNumber, NoteHdrSize

LEMMA HashNumbers ==
  ASSUME NEW c \in Class
  PROVE  /\ IsFields(HashHdr) /\ Packed(c, HashHdr).size = HashHdrSize
         /\ HasNumber(c, HashHdr, "gh_nbuckets") /\ HasNumber(c, HashHdr, "gh_maskwords")
         /\ Packed(c, HashHdr).at["gh_nbuckets"] = 0 /\ Packed(c, HashHdr).at["gh_maskwords"] = 8
         /\ Widths(c, HashHdr)["gh_nbuckets"] = 4 /\ Widths(c, HashHdr)["gh_maskwords"] = 4
  <1> DEFINE f == HashHdr
  <1>0. Width[c]["Word"] = 4
    BY DEF Width
  <1>1. IsFields(f)
    BY DEF HashHdr, IsFields, Types
  <1>2. /\ Len(f) = 4 /\ f[1][1] = "gh_nbuckets" /\ f[3][1] = "gh_maskwords"
        /\ \A i \in 1 .. 4 : f[i][2] = "Word"
    BY DEF HashHdr
  <1> HIDE DEF f
  <1>3. /\ Named(f, "gh_nbuckets") = 1 /\ Named(f, "gh_maskwords") = 3
        /\ "gh_nbuckets" \in Name(f) /\ "gh_maskwords" \in Name(f)
    <2>1. \A i \in 1 .. 4 : f[i][1] \in Name(f) /\ Named(f, f[i][1]) = i
      BY <1>1, <1>2, NamedFact
    <2> QED BY <1>2, <2>1
  <1>4. Widths(c, f)["gh_nbuckets"] = 4 /\ Widths(c, f)["gh_maskwords"] = 4
    BY <1>0, <1>2, <1>3 DEF Widths
  <1>50. PICK end : PackedAt(c, f, end)
    BY <1>1, PackedFact
  <1>5. /\ end[0] = 0
        /\ \A i \in 1 .. 4 : end[i] = end[i - 1] + WidthAt(c, f, i)
        /\ Packed(c, f).size = end[4]
        /\ \A i \in 1 .. 4 : Packed(c, f).at[f[i][1]] = end[i - 1]
    BY <1>2, <1>50 DEF PackedAt
  <1>6. end[1] = 4 /\ end[2] = 8 /\ end[3] = 12 /\ end[4] = 16
    BY <1>0, <1>2, <1>5 DEF WidthAt
  <1>7. Packed(c, f).at["gh_nbuckets"] = 0 /\ Packed(c, f).at["gh_maskwords"] = 8
    <2>1. Packed(c, f).at[f[1][1]] = end[1 - 1] /\ Packed(c, f).at[f[3][1]] = end[3 - 1]
      BY <1>5
    <2> QED BY <1>2, <1>5, <1>6, <2>1
  <1> QED BY <1>1, <1>3, <1>4, <1>5, <1>6, <1>7 DEF f, HasNumber, HashHdrSize

-----------------------------------------------------------------------------
(***************************************************************************)
(* Reading and converting.                                                 *)
(***************************************************************************)
AreBytes(m, lo, n) == \A a \in lo .. lo + n - 1 : m[a] \in 0 .. 255

LEMMA HugeFact == Huge \in Nat /\ Huge <= 65536
  BY HugeAssumption DEF HugeAssumption

LEMMA NativeFact ==
  ASSUME NEW w \in {2, 4}, NEW g, \A i \in 1 .. w : g[i] \in 0 .. 255
  PROVE  Native([i \in 1 .. w |-> g[i]]) \in Nat
  <1> DEFINE b == [i \in 1 .. w |-> g[i]]
  <1>1. Len(b) \in Nat /\ b[1] \in 0 .. 255 /\ b[2] \in 0 .. 255
    OBVIOUS
  <1> HIDE DEF b
  <1>2. Native(b) \in Nat
    <2>1. Huge \in Nat
      BY HugeFact
    <2>2. \A x, y \in 0 .. 255 : x + 256 * y \in Nat
      OBVIOUS
    <2>3. b[1] + 256 * b[2] \in Nat
      BY ONLY <1>1, <2>2
    <2> QED BY <2>1, <2>3, Zenon DEF Native
  <1> QED BY <1>2 DEF b

LEMMA MemberFact ==
  ASSUME NEW k, k.class \in Class, NEW f, IsFields(f), NEW n, HasNumber(k.class, f, n), NEW m,
         NEW base \in Int, AreBytes(m, base, Packed(k.class, f).size)
  PROVE  Member(k, m, base, f, n) \in Nat
  <1> DEFINE a == base + Packed(k.class, f).at[n]
             w == Widths(k.class, f)[n]
             size == Packed(k.class, f).size
             g == [i \in 1 .. w |-> m[IF k.swap /\ ~k.tof THEN a + w - i ELSE a + i - 1]]
  <1>1. w \in {2, 4} /\ Packed(k.class, f).at[n] \in Nat /\ Packed(k.class, f).at[n] + w <= size /\ size \in Nat
    BY PackedCovers DEF HasNumber, Inside
  <1>2. \A i \in 1 .. w : g[i] \in 0 .. 255
    <2> TAKE i \in 1 .. w
    <2>1. a + w - i \in base .. base + size - 1 /\ a + i - 1 \in base .. base + size - 1
      <3> DEFINE at == Packed(k.class, f).at[n]
      <3> HIDE DEF w, at, size
      <3>1. w \in {2, 4} /\ at \in Nat /\ at + w <= size /\ size \in Nat /\ i \in 1 .. w /\ a = base + at
        BY <1>1 DEF at
      <3> HIDE DEF a
      <3> QED BY <3>1
    <2>2. \A x \in base .. base + size - 1 : m[x] \in 0 .. 255
      BY DEF AreBytes
    <2>3. g[i] = m[IF k.swap /\ ~k.tof THEN a + w - i ELSE a + i - 1]
      OBVIOUS
    <2> HIDE DEF g, a, w, size
    <2> QED BY <2>1, <2>2, <2>3
  <1>3. Member(k, m, base, f, n) = Native([i \in 1 .. w |-> g[i]])
    <2>1. [i \in 1 .. w |-> g[i]] = g
      OBVIOUS
    <2> HIDE DEF g
    <2>2. Member(k, m, base, f, n) = Native(g)
      BY DEF Member, Value, g
    <2> QED BY <2>1, <2>2
  <1> HIDE DEF g, w
  <1> QED BY <1>1, <1>2, <1>3, NativeFact

LEMMA CallFact ==
  ASSUME NEW k \in Calls
  PROVE  /\ k.lib \in {"lib", "elftoolchain"} /\ k.class \in Class
         /\ k.tof \in BOOLEAN /\ k.swap \in BOOLEAN
         /\ k.size \in Nat /\ k.room \in Nat /\ k.sb \in Nat /\ k.db \in Nat
         /\ k.type \in Walked => k.size <= Huge /\ k.image \in [0 .. k.size - 1 -> 0 .. 255]
         /\ Top(k) \in Nat /\ k.sb + k.size <= Top(k) /\ k.db + k.room <= Top(k)
         /\ Huge \in Nat
  <1>1. IsCall(k) /\ Huge \in Nat
    <2>1. IsCall(k)
      BY CallsAssumption, Zenon DEF CallsAssumption
    <2> QED BY <2>1, HugeFact
  <1>2. k.size \in Nat /\ k.room \in Nat /\ k.sb \in Nat /\ k.db \in Nat
    BY <1>1 DEF IsCall
  <1>3. Top(k) \in Nat /\ k.sb + k.size <= Top(k) /\ k.db + k.room <= Top(k)
    BY <1>2 DEF Top
  <1> QED BY <1>1, <1>2, <1>3 DEF IsCall

\* Writes only into the destination's records and reads only the source.
Proper(k, d, s, bytes) ==
    \A o \in DOMAIN bytes :
        /\ o \in Int /\ d + o \in k.db .. k.db + Need(k) - 1
        /\ bytes[o] = Padding \/ (bytes[o] \in Int /\ s + bytes[o] \in k.sb .. k.sb + k.size - 1)

\* The memory of a call: bytes outside the destination's records are as they
\* were, and what is walked stays bytes.
Kept(k, m) ==
    /\ m \in [0 .. Top(k) -> Int]
    /\ \A a \in 0 .. Top(k) : a \notin k.db .. k.db + Need(k) - 1 => m[a] = Original(k)[a]
    /\ k.type \in Walked => AreBytes(m, k.sb, k.size)

LEMMA OriginalFact ==
  ASSUME NEW k \in Calls
  PROVE  Kept(k, Original(k))
  <1>1. /\ k.size \in Nat /\ k.sb \in Nat /\ Top(k) \in Nat /\ k.sb + k.size <= Top(k)
        /\ k.type \in Walked => k.image \in [0 .. k.size - 1 -> 0 .. 255]
    BY CallFact
  <1>2. ASSUME NEW a \in 0 .. Top(k)
        PROVE  /\ Original(k)[a] \in Int
               /\ k.type \in Walked /\ a \in k.sb .. k.sb + k.size - 1 => Original(k)[a] \in 0 .. 255
    <2>1. CASE ~InSrc(k, a)
      BY <1>1, <2>1 DEF Original, Blank, InSrc
    <2>2. CASE InSrc(k, a) /\ k.type \in Walked
      <3>1. a - k.sb \in 0 .. k.size - 1 /\ Original(k)[a] = k.image[a - k.sb]
        <4>1. a - k.sb \in 0 .. k.size - 1
          BY <1>1, <2>2 DEF InSrc
        <4>2. Original(k)[a] = k.image[a - k.sb]
          BY <2>2 DEF Original, InSrc
        <4> QED BY <4>1, <4>2
      <3>2. k.image[a - k.sb] \in 0 .. 255
        BY <1>1, <2>2, <3>1
      <3>3. \A x \in 0 .. 255 : x \in Int
        OBVIOUS
      <3> QED BY ONLY <3>1, <3>2, <3>3
    <2>3. CASE InSrc(k, a) /\ k.type \notin Walked
      <3>1. Original(k)[a] = a
        BY <2>3, Zenon DEF Original
      <3> QED BY <2>3, <3>1
    <2> QED BY <2>1, <2>2, <2>3
  <1>3. Original(k) = [a \in 0 .. Top(k) |-> Original(k)[a]]
    BY DEF Original
  <1>4. \A a \in k.sb .. k.sb + k.size - 1 : a \in 0 .. Top(k)
    BY <1>1
  <1> QED BY <1>2, <1>3, <1>4 DEF Kept, AreBytes

LEMMA ConvertFact ==
  ASSUME NEW k \in Calls, NEW m, Kept(k, m), NEW d \in Int, NEW s \in Int, NEW bytes,
         Proper(k, d, s, bytes), k.type \in Walked => \A o \in DOMAIN bytes : bytes[o] # Padding
  PROVE  Kept(k, Convert(m, d, s, bytes))
  <1> DEFINE g == Convert(m, d, s, bytes)
  <1>1. /\ k.size \in Nat /\ k.sb \in Nat /\ k.db \in Nat /\ Top(k) \in Nat /\ k.sb + k.size <= Top(k)
    BY CallFact
  <1>2. m \in [0 .. Top(k) -> Int] /\ \A a \in k.sb .. k.sb + k.size - 1 : m[a] \in Int
    <2>1. m \in [0 .. Top(k) -> Int]
      BY DEF Kept
    <2>2. \A a \in k.sb .. k.sb + k.size - 1 : a \in 0 .. Top(k)
      BY <1>1
    <2> QED BY <2>1, <2>2
  <1>3. g = [a \in 0 .. Top(k) |->
                IF a - d \notin DOMAIN bytes THEN m[a]
                ELSE IF bytes[a - d] = Padding THEN Junk ELSE m[s + bytes[a - d]]]
    BY <1>2 DEF Convert
  <1> HIDE DEF g
  <1>4. ASSUME NEW a \in 0 .. Top(k)
        PROVE  /\ g[a] \in Int
               /\ a \notin k.db .. k.db + Need(k) - 1 => g[a] = m[a]
               /\ (k.type \in Walked /\ m[a] \in 0 .. 255) => g[a] \in 0 .. 255
               /\ (k.type \in Walked /\ a \in k.sb .. k.sb + k.size - 1) => m[a] \in 0 .. 255
    <2>0. (k.type \in Walked /\ a \in k.sb .. k.sb + k.size - 1) => m[a] \in 0 .. 255
      BY DEF Kept, AreBytes
    <2>1. CASE a - d \notin DOMAIN bytes
      BY <1>2, <1>3, <2>0, <2>1
    <2>2. CASE a - d \in DOMAIN bytes
      <3>1. /\ d + (a - d) \in k.db .. k.db + Need(k) - 1
            /\ \/ bytes[a - d] = Padding
               \/ s + bytes[a - d] \in k.sb .. k.sb + k.size - 1
        BY <2>2 DEF Proper
      <3>2. a \in k.db .. k.db + Need(k) - 1
        BY <1>1, <3>1
      <3>3. CASE bytes[a - d] = Padding
        BY <1>3, <2>0, <2>2, <3>2, <3>3 DEF Junk
      <3>4. CASE bytes[a - d] # Padding
        <4>1. g[a] = m[s + bytes[a - d]] /\ s + bytes[a - d] \in k.sb .. k.sb + k.size - 1
          BY <1>3, <2>2, <3>1, <3>4
        <4>2. k.type \in Walked => g[a] \in 0 .. 255
          BY <4>1 DEF Kept, AreBytes
        <4> QED BY <1>2, <2>0, <3>2, <4>1, <4>2
      <3> QED BY <3>3, <3>4
    <2> QED BY <2>1, <2>2
  <1>5. g \in [0 .. Top(k) -> Int]
    BY <1>3, <1>4
  <1>6. \A a \in 0 .. Top(k) : a \notin k.db .. k.db + Need(k) - 1 => g[a] = Original(k)[a]
    BY <1>4 DEF Kept
  <1>7. k.type \in Walked => \A a \in k.sb .. k.sb + k.size - 1 : g[a] \in 0 .. 255
    <2>1. \A a \in k.sb .. k.sb + k.size - 1 : a \in 0 .. Top(k)
      BY <1>1
    <2> QED BY <1>4, <2>1
  <1>8. Kept(k, g)
    BY <1>5, <1>6, <1>7 DEF Kept, AreBytes
  <1> QED BY <1>8 DEF g

-----------------------------------------------------------------------------
(***************************************************************************)
(* A call's plan, and where its records are.                               *)
(***************************************************************************)
LEMMA PlansFact ==
  ASSUME NEW c \in Class
  PROVE  /\ DOMAIN CvtPlans[c] = DOMAIN CvtTable(c) /\ DOMAIN LibPlans[c] = DOMAIN LibTable(c)
         /\ \A t \in DOMAIN CvtTable(c) : CvtPlans[c][t] = ThePlan(c, t) /\ WellLaid(ThePlan(c, t))
         /\ \A t \in DOMAIN LibTable(c) : LibPlans[c][t] = ThePlan(c, t) /\ t \in DOMAIN CvtTable(c)
  <1>1. CvtPlans[c] = [t \in DOMAIN CvtTable(c) |-> ToolchainPlan(c, t)]
    BY TableIs DEF CvtPlans
  <1>2. LibPlans[c] = [t \in DOMAIN LibTable(c) |-> LibPlan(c, t)]
    BY TableIs DEF LibPlans
  <1>3. \A t \in DOMAIN CvtTable(c) : ToolchainPlan(c, t) = ThePlan(c, t) /\ WellLaid(ThePlan(c, t))
    BY PlansAgree
  <1>4. \A t \in DOMAIN LibTable(c) : LibPlan(c, t) = ThePlan(c, t) /\ t \in DOMAIN CvtTable(c)
    BY LibTypes, PlansAgree
  <1> QED BY <1>1, <1>2, <1>3, <1>4

LEMMA TypesFact ==
  ASSUME NEW c \in Class
  PROVE  /\ \A t \in Walked : t \notin DOMAIN LibTable(c) /\ t \notin DOMAIN CvtTable(c)
         /\ "WORD" \in DOMAIN CvtTable(c) /\ CvtTable(c)["WORD"] = Cvt!WORD
  BY DEF Class, Walked, LibTable, Xlate32, Xlate64, CvtTable

LEMMA SupportedFact ==
  ASSUME NEW k \in Calls, Supported(k)
  PROVE  \/ /\ k.type \in Walked
            /\ k.lib = "lib" => k.type \in {"VDEF", "VNEED"}
         \/ /\ k.type \notin Walked /\ k.type \in DOMAIN CvtTable(k.class)
            /\ k.lib = "lib" => k.type \in DOMAIN LibTable(k.class)
  <1>1. k.class \in Class /\ k.lib \in {"lib", "elftoolchain"}
    BY CallFact
  <1>2. CASE k.lib = "lib"
    BY <1>1, <1>2, PlansFact, TypesFact DEF Supported, Walked
  <1>3. CASE k.lib # "lib"
    <2>1. fsize(k.class, k.type) # 0
      BY <1>3 DEF Supported
    <2> QED BY <1>1, <1>3, <2>1, PlansFact DEF fsize
  <1> QED BY <1>2, <1>3

LEMMA TranslatorFact ==
  ASSUME NEW k
  PROVE  Translator(k) = IF k.type \in {"VDEF", "VNEED"} THEN "head"
                         ELSE IF k.type = "NOTE" THEN "notes"
                         ELSE IF k.type = "GNUHASH" /\ ~WordTable(k) THEN "hash" ELSE "records"
  <1>1. CASE k.type \in {"VDEF", "VNEED"}
    <2>1. k.type # "NOTE" /\ k.type # "GNUHASH"
      BY <1>1
    <2> QED BY <1>1, <2>1, Zenon DEF Translator
  <1>2. CASE k.type \notin {"VDEF", "VNEED"} /\ k.type = "NOTE"
    <2>1. k.type # "GNUHASH"
      BY <1>2
    <2> QED BY <1>2, <2>1, Zenon DEF Translator
  <1>3. CASE k.type \notin {"VDEF", "VNEED"} /\ k.type # "NOTE" /\ k.type = "GNUHASH" /\ ~WordTable(k)
    BY <1>3, Zenon DEF Translator
  <1>4. CASE k.type \notin {"VDEF", "VNEED"} /\ k.type # "NOTE" /\ ~(k.type = "GNUHASH" /\ ~WordTable(k))
    BY <1>4, Zenon DEF Translator
  <1> QED BY <1>1, <1>2, <1>3, <1>4

LEMMA DivFact ==
  ASSUME NEW n \in Nat, NEW f \in Nat \ {0}
  PROVE  n \div f \in Nat /\ (n \div f) * f <= n
  OBVIOUS

LEMMA TimesFact ==
  ASSUME NEW r \in Nat, NEW n \in Nat, r < n, NEW a \in Nat, NEW b \in Nat, a <= b
  PROVE  r * a + a <= n * b /\ r * a \in Nat /\ n * b \in Nat
  <1>1. \A x, y, z \in Nat : x <= y => x * z <= y * z /\ z * x <= z * y /\ x * z \in Nat
    OBVIOUS
  <1>2. (r + 1) * a <= n * a /\ n * a <= n * b
    BY <1>1
  <1>3. (r + 1) * a = r * a + a /\ r * a \in Nat /\ n * a \in Nat /\ n * b \in Nat
    OBVIOUS
  <1> QED BY <1>2, <1>3

PlanType(k) == IF WordTable(k) THEN "WORD" ELSE k.type
RecordCall(k) == Accepts(k) /\ Translator(k) = "records"

LEMMA AcceptsFact ==
  ASSUME NEW k \in Calls, Accepts(k)
  PROVE  /\ Supported(k) /\ k.room >= Need(k)
         /\ k.type \in Walked => Need(k) = k.size
  <1>1. Supported(k) /\ k.room >= Need(k)
    BY DEF Accepts, LibAccepts, ToolchainAccepts
  <1>2. k.type \in Walked => Need(k) = (k.size \div 1) * 1
    BY DEF Need, FromSize, ToSize
  <1>3. k.size \in Nat
    BY CallFact
  <1> QED BY <1>1, <1>2, <1>3

\* The plan of a call that converts records.
Planned(k) ==
    /\ PlanType(k) \in DOMAIN CvtTable(k.class)
    /\ PlanOf(k) = ThePlan(k.class, PlanType(k)) /\ WellLaid(PlanOf(k))
    /\ ~WordTable(k) => k.type \notin Walked
    /\ WordTable(k) => /\ From(PlanOf(k), k.tof).size = 4 /\ To(PlanOf(k), k.tof).size = 4
                       /\ \A o \in 0 .. 3 : \E n : Takes(PlanOf(k), k.tof, k.swap, o, n)

LEMMA PlannedFact ==
  ASSUME NEW k \in Calls, RecordCall(k)
  PROVE  Planned(k)
  <1>1. /\ k.class \in Class /\ k.lib \in {"lib", "elftoolchain"}
    BY CallFact
  <1>2. Supported(k)
    BY AcceptsFact DEF RecordCall
  <1>3. k.type \notin Walked \/ WordTable(k)
    BY TranslatorFact DEF RecordCall, Walked
  <1>4. CASE WordTable(k)
    <2>1. PlanOf(k) = CvtPlans[k.class]["WORD"] /\ PlanType(k) = "WORD"
      BY <1>4 DEF WordTable, PlanOf, PlanType
    <2>2. "WORD" \in DOMAIN CvtTable(k.class) /\ CvtTable(k.class)["WORD"] = Cvt!WORD
      BY <1>1, TypesFact
    <2>3. PlanOf(k) = ThePlan(k.class, PlanType(k)) /\ WellLaid(PlanOf(k))
      BY <1>1, <2>1, <2>2, PlansFact
    <2> DEFINE f == Cvt!WORD
               p == PlanOf(k)
    <2>4. p.file = Packed(k.class, f) /\ p.order = [i \in DOMAIN f |-> f[i][1]]
      BY <2>1, <2>2, <2>3, TableIs DEF ThePlan, Plan, Declared
    <2>5. IsFields(f)
      BY <1>1, <2>2, CvtFields
    <2>6. Len(f) = 1 /\ f[1][2] = "Word" /\ DOMAIN f = 1 .. 1
      BY DEF Cvt!WORD
    <2> HIDE DEF f, p
    <2>7. PICK end : PackedAt(k.class, f, end)
      BY <1>1, <2>5, PackedFact
    <2>8. end[0] = 0 /\ end[1] = end[0] + WidthAt(k.class, f, 1) /\ p.file.size = end[1]
      BY <2>4, <2>6, <2>7 DEF PackedAt
    <2>9. p.file.size = 4
      BY <1>1, <2>6, <2>8 DEF WidthAt, Width
    <2>10. Len(p.order) = 1
      BY <2>4, <2>6
    <2>11. p.mem.size = 4
      BY <2>3, <2>9, <2>10 DEF WellLaid, p
    <2>12. From(p, k.tof).size = 4 /\ To(p, k.tof).size = 4
      BY <2>9, <2>11 DEF From, To
    <2>13. PICK x : x = f[1][1]
      OBVIOUS
    <2>14. p.order[1] = x /\ p.file.at[x] = 0
      <3>1. Packed(k.class, f).at[f[1][1]] = end[1 - 1]
        BY <2>6, <2>7 DEF PackedAt
      <3> QED BY <2>4, <2>6, <2>8, <2>13, <3>1
    <2>15. x \in DOMAIN p.width /\ p.width[x] = 4
      <3>1. p.width = Widths(k.class, f)
        BY <2>1, <2>2, <2>3, TableIs DEF ThePlan, Plan, Declared, p, f
      <3>2. x \in Name(f) /\ Named(f, x) = 1
        BY <2>5, <2>6, <2>13, NamedFact
      <3> QED BY <1>1, <2>6, <3>1, <3>2 DEF Widths, Width
    <2>16. p.mem.at[x] = 0
      <3>1. /\ p.mem.at[p.order[1]] \in Nat
            /\ p.mem.at[p.order[1]] - p.file.at[p.order[1]] <= p.mem.size - p.file.size
        <4>1. 1 \in 1 .. Len(p.order) /\ WellLaid(p)
          BY <2>3, <2>10 DEF p
        <4> QED BY ONLY <4>1, Zenon DEF WellLaid
      <3> QED BY <2>9, <2>11, <2>14, <3>1
    <2>17. ASSUME NEW o \in 0 .. 3
           PROVE  \E n : Takes(p, k.tof, k.swap, o, n)
      <3>1. Takes(p, k.tof, k.swap, o, x)
        BY <2>14, <2>15, <2>16 DEF Takes, To
      <3> QED BY <3>1
    <2> QED BY <1>4, <2>1, <2>2, <2>3, <2>12, <2>17 DEF Planned, p
  <1>5. CASE ~WordTable(k)
    <2>1. /\ k.type \notin Walked /\ k.type \in DOMAIN CvtTable(k.class)
          /\ k.lib = "lib" => k.type \in DOMAIN LibTable(k.class)
      BY <1>2, <1>3, <1>5, SupportedFact
    <2>2. PlanType(k) = k.type
      BY <1>5 DEF PlanType
    <2>3. PlanOf(k) = ThePlan(k.class, k.type) /\ WellLaid(PlanOf(k))
      BY <1>1, <1>5, <2>1, PlansFact DEF PlanOf
    <2> QED BY <1>5, <2>1, <2>2, <2>3 DEF Planned
  <1> QED BY <1>4, <1>5

LEMMA RecordFact ==
  ASSUME NEW k \in Calls, RecordCall(k)
  PROVE  LET F == From(PlanOf(k), k.tof).size   T == To(PlanOf(k), k.tof).size
         IN  /\ F \in Nat \ {0} /\ T \in Nat \ {0} /\ Count(k) \in Nat /\ Need(k) \in Nat
             /\ Count(k) * F <= k.size /\ Count(k) * T <= Need(k) /\ Need(k) <= k.room
             /\ ~WordTable(k) => /\ FromSize(k) = F /\ ToSize(k) = T /\ Need(k) = Count(k) * T
                                 /\ Count(k) = k.size \div F
  <1> DEFINE F == From(PlanOf(k), k.tof).size
             T == To(PlanOf(k), k.tof).size
  <1>1. Planned(k) /\ Accepts(k)
    BY PlannedFact DEF RecordCall
  <1>2. F \in Nat \ {0} /\ T \in Nat \ {0}
    <2>1. PlanOf(k).file.size \in Nat \ {0} /\ PlanOf(k).mem.size \in Nat \ {0}
      BY <1>1, Zenon DEF Planned, WellLaid
    <2> QED BY <2>1 DEF From, To
  <1>3. k.room >= Need(k) /\ (k.type \in Walked => Need(k) = k.size) /\ k.size \in Nat /\ k.room \in Nat
    BY <1>1, AcceptsFact, CallFact
  <1>4. CASE WordTable(k)
    <2>1. k.type \in Walked /\ F = 4 /\ T = 4 /\ Count(k) = k.size \div 4
      BY <1>1, <1>4 DEF WordTable, Walked, Planned, Count
    <2> HIDE DEF F, T
    <2> QED BY <1>2, <1>3, <1>4, <2>1, DivFact DEF F, T
  <1>5. CASE ~WordTable(k)
    <2>1. FromSize(k) = F /\ ToSize(k) = T
      BY <1>1, <1>5 DEF Planned, FromSize, ToSize
    <2>2. Count(k) = k.size \div F /\ Need(k) = (k.size \div F) * T
      BY <1>5, <2>1 DEF Count, Need
    <2> HIDE DEF F, T
    <2>3. k.size \div F \in Nat /\ (k.size \div F) * F <= k.size
      BY <1>2, <1>3, DivFact
    <2>4. Need(k) \in Nat
      BY <1>2, <2>2, <2>3
    <2> QED BY <1>2, <1>3, <1>5, <2>1, <2>2, <2>3, <2>4 DEF F, T
  <1> QED BY <1>4, <1>5

-----------------------------------------------------------------------------
(***************************************************************************)
(* What one conversion writes.                                             *)
(***************************************************************************)
LEMMA AreBytesIn ==
  ASSUME NEW m, NEW lo \in Int, NEW n \in Int, AreBytes(m, lo, n),
         NEW base \in Int, NEW w \in Int, lo <= base, base + w <= lo + n
  PROVE  AreBytes(m, base, w)
  <1> SUFFICES ASSUME NEW a \in base .. base + w - 1 PROVE m[a] \in 0 .. 255
    BY DEF AreBytes
  <1>1. a \in lo .. lo + n - 1
    OBVIOUS
  <1> QED BY <1>1 DEF AreBytes

\* Of a table that is walked.
LEMMA WalkedConvert ==
  ASSUME NEW k \in Calls, Accepts(k), k.type \in Walked, NEW m, Kept(k, m), NEW off \in Nat,
         NEW n \in Nat, off + n <= k.size, NEW bytes, DOMAIN bytes = 0 .. n - 1,
         \A o \in 0 .. n - 1 : bytes[o] \in 0 .. n - 1
  PROVE  Kept(k, Convert(m, k.db + off, k.sb + off, bytes))
  <1>1. k.size \in Nat /\ k.sb \in Nat /\ k.db \in Nat /\ Need(k) = k.size
    BY CallFact, AcceptsFact
  <1>2. Proper(k, k.db + off, k.sb + off, bytes)
    <2> SUFFICES ASSUME NEW o \in 0 .. n - 1
                 PROVE  /\ o \in Int /\ (k.db + off) + o \in k.db .. k.db + Need(k) - 1
                        /\ bytes[o] \in Int /\ (k.sb + off) + bytes[o] \in k.sb .. k.sb + k.size - 1
      BY DEF Proper
    <2>1. bytes[o] \in 0 .. n - 1
      OBVIOUS
    <2>2. PICK x, size, sb, db : x = bytes[o] /\ size = k.size /\ sb = k.sb /\ db = k.db
      OBVIOUS
    <2>3. /\ o \in Int /\ (db + off) + o \in db .. db + size - 1
          /\ x \in Int /\ (sb + off) + x \in sb .. sb + size - 1
      <3>1. /\ x \in 0 .. n - 1 /\ o \in 0 .. n - 1 /\ n \in Nat /\ off \in Nat /\ size \in Nat
            /\ sb \in Nat /\ db \in Nat /\ off + n <= size
        BY <1>1, <2>1, <2>2
      <3> QED BY ONLY <3>1
    <2> QED BY <1>1, <2>2, <2>3
  <1>3. \A o \in DOMAIN bytes : bytes[o] # Padding
    <2> SUFFICES ASSUME NEW o \in 0 .. n - 1 PROVE bytes[o] # Padding
      OBVIOUS
    <2>1. bytes[o] \in 0 .. n - 1
      OBVIOUS
    <2> QED BY <2>1 DEF Padding
  <1>4. k.db + off \in Int /\ k.sb + off \in Int
    BY <1>1
  <1> QED BY <1>2, <1>3, <1>4, ConvertFact

\* A record of a version table, and a number in one.
LEMMA VersionConvert ==
  ASSUME NEW k \in Calls, Accepts(k), k.type \in Walked, NEW m, Kept(k, m), NEW off \in Nat,
         NEW f, IsFields(f), off + Packed(k.class, f).size <= k.size
  PROVE  Kept(k, Convert(m, k.db + off, k.sb + off, TableBytes(k, f)))
  <1>1. k.class \in Class /\ k.tof \in BOOLEAN /\ k.swap \in BOOLEAN
    BY CallFact
  <1>2. /\ Packed(k.class, f).size \in Nat
        /\ DOMAIN TableBytes(k, f) = 0 .. Packed(k.class, f).size - 1
        /\ \A o \in 0 .. Packed(k.class, f).size - 1 : TableBytes(k, f)[o] \in 0 .. Packed(k.class, f).size - 1
    BY <1>1, TableBytesFact
  <1> QED BY <1>2, WalkedConvert

LEMMA VersionRead ==
  ASSUME NEW k \in Calls, k.type \in Walked, NEW m, Kept(k, m), NEW off \in Nat,
         NEW f, IsFields(f), off + Packed(k.class, f).size <= k.size,
         NEW n, HasNumber(k.class, f, n)
  PROVE  Member(k, m, k.sb + off, f, n) \in Nat
  <1>1. k.class \in Class /\ k.sb \in Nat /\ k.size \in Nat
    BY CallFact
  <1>2. Packed(k.class, f).size \in Nat
    BY <1>1, PackedCovers
  <1>3. AreBytes(m, k.sb, k.size)
    BY DEF Kept
  <1>4. AreBytes(m, k.sb + off, Packed(k.class, f).size)
    BY <1>1, <1>2, <1>3, AreBytesIn
  <1> QED BY <1>1, <1>4, MemberFact

LEMMA RecordIn ==
  ASSUME NEW k \in Calls, RecordCall(k), NEW r \in 0 .. Count(k) - 1
  PROVE  LET F == From(PlanOf(k), k.tof).size   T == To(PlanOf(k), k.tof).size
         IN  /\ SrcAt(k, r) \in Nat /\ DstAt(k, r) \in Nat
             /\ k.sb <= SrcAt(k, r) /\ SrcAt(k, r) + F <= k.sb + k.size
             /\ k.db <= DstAt(k, r) /\ DstAt(k, r) + T <= k.db + Need(k)
  <1> DEFINE F == From(PlanOf(k), k.tof).size
             T == To(PlanOf(k), k.tof).size
             n == Count(k)
  <1>1. /\ F \in Nat \ {0} /\ T \in Nat \ {0} /\ n \in Nat /\ Need(k) \in Nat
        /\ n * F <= k.size /\ n * T <= Need(k)
    BY RecordFact
  <1>2. k.sb \in Nat /\ k.db \in Nat /\ k.size \in Nat
    BY CallFact
  <1>3. SrcAt(k, r) = k.sb + r * F /\ DstAt(k, r) = k.db + r * T
    BY DEF SrcAt, DstAt
  <1> HIDE DEF F, T, n
  <1>4. r \in Nat /\ r < n
    BY <1>1 DEF n
  <1>5. r * F + F <= n * F /\ r * F \in Nat /\ n * F \in Nat
    BY <1>1, <1>4, TimesFact
  <1>6. r * T + T <= n * T /\ r * T \in Nat /\ n * T \in Nat
    BY <1>1, <1>4, TimesFact
  <1>7. PICK x, y, xx, yy : x = r * F /\ y = r * T /\ xx = n * F /\ yy = n * T
    OBVIOUS
  <1>8. /\ x \in Nat /\ y \in Nat /\ xx \in Nat /\ yy \in Nat /\ x + F <= xx /\ y + T <= yy
        /\ xx <= k.size /\ yy <= Need(k) /\ SrcAt(k, r) = k.sb + x /\ DstAt(k, r) = k.db + y
    BY <1>1, <1>3, <1>5, <1>6, <1>7
  <1> QED BY <1>1, <1>2, <1>8 DEF F, T

LEMMA SidesFact ==
  ASSUME NEW k \in Calls, RecordCall(k)
  PROVE  /\ Inside(From(PlanOf(k), k.tof), PlanOf(k).width) /\ Inside(To(PlanOf(k), k.tof), PlanOf(k).width)
         /\ k.tof \in BOOLEAN /\ k.swap \in BOOLEAN
  BY PlannedFact, WellLaidInside, CallFact DEF Planned

\* One record, or one member of it, at its place.
LEMMA RecordConvert ==
  ASSUME NEW k \in Calls, RecordCall(k), NEW m, Kept(k, m), NEW r \in 0 .. Count(k) - 1,
         NEW bytes, DOMAIN bytes \subseteq 0 .. To(PlanOf(k), k.tof).size - 1,
         \A o \in DOMAIN bytes : bytes[o] = Padding \/ bytes[o] \in 0 .. From(PlanOf(k), k.tof).size - 1,
         WordTable(k) => \A o \in DOMAIN bytes : bytes[o] # Padding
  PROVE  Kept(k, Convert(m, DstAt(k, r), SrcAt(k, r), bytes))
  <1> DEFINE F == From(PlanOf(k), k.tof).size
             T == To(PlanOf(k), k.tof).size
  <1>1. /\ SrcAt(k, r) \in Nat /\ DstAt(k, r) \in Nat
        /\ k.sb <= SrcAt(k, r) /\ SrcAt(k, r) + F <= k.sb + k.size
        /\ k.db <= DstAt(k, r) /\ DstAt(k, r) + T <= k.db + Need(k)
    BY RecordIn
  <1>2. /\ k.sb \in Nat /\ k.db \in Nat /\ k.size \in Nat /\ Need(k) \in Nat /\ F \in Nat /\ T \in Nat
    BY CallFact, RecordFact
  <1>3. Proper(k, DstAt(k, r), SrcAt(k, r), bytes)
    <2> SUFFICES ASSUME NEW o \in DOMAIN bytes
                 PROVE  /\ o \in Int /\ DstAt(k, r) + o \in k.db .. k.db + Need(k) - 1
                        /\ bytes[o] # Padding =>
                              bytes[o] \in Int /\ SrcAt(k, r) + bytes[o] \in k.sb .. k.sb + k.size - 1
      BY DEF Proper
    <2>1. o \in 0 .. T - 1 /\ (bytes[o] # Padding => bytes[o] \in 0 .. F - 1)
      OBVIOUS
    <2> HIDE DEF F, T
    <2> QED BY <1>1, <1>2, <2>1
  <1>4. k.type \in Walked => WordTable(k)
    BY PlannedFact DEF Planned
  <1> QED BY <1>1, <1>3, <1>4, ConvertFact

\* One byte stored.
LEMMA ByteStored ==
  ASSUME NEW D, NEW m \in [D -> Int], NEW to \in Int, NEW i \in Int, NEW from \in Int, NEW j \in Int,
         to + i \in D, from + j \in D
  PROVE  /\ su(m, to, i, from, j) \in [D -> Int]
         /\ su(m, to, i, from, j)[to + i] = m[from + j]
         /\ \A a \in D : a # to + i => su(m, to, i, from, j)[a] = m[a]
  BY DEF su

\* A number stored byte by byte: each byte is the one it takes, unless that
\* was stored over before.
NumberStored(g, D, m, to, from, w, swap) ==
    /\ g \in [D -> Int]
    /\ \A a \in D : (\A i \in 0 .. w - 1 : a # to + i) => g[a] = m[a]
    /\ \A i \in 0 .. w - 1 :
          LET j == IF swap THEN w - 1 - i ELSE i
          IN  (\A h \in 0 .. w - 1 : (IF swap THEN h < i ELSE i < h) => to + h # from + j)
                  => g[to + i] = m[from + j]

LEMMA HalfStored ==
  ASSUME NEW D, NEW m \in [D -> Int], NEW to \in Int, NEW from \in Int, NEW swap \in BOOLEAN,
         \A i \in 0 .. 1 : to + i \in D /\ from + i \in D
  PROVE  NumberStored(store_u16(m, to, from, swap), D, m, to, from, 2, swap)
  <1>1. to + 0 \in D /\ to + 1 \in D /\ from + 0 \in D /\ from + 1 \in D
    OBVIOUS
  <1>2. to + 0 # to + 1
    OBVIOUS
  <1>3. CASE swap = TRUE
    <2> DEFINE p == su(m, to, 0, from, 1)
               g == su(p, to, 1, from, 0)
    <2>1. /\ p \in [D -> Int] /\ p[to + 0] = m[from + 1] /\ \A a \in D : a # to + 0 => p[a] = m[a]
      BY <1>1, ByteStored
    <2> HIDE DEF p
    <2>2. /\ g \in [D -> Int] /\ g[to + 1] = p[from + 0] /\ \A a \in D : a # to + 1 => g[a] = p[a]
      BY <1>1, <2>1, ByteStored
    <2> HIDE DEF g
    <2>3. g = store_u16(m, to, from, swap)
      BY <1>3 DEF store_u16, p, g
    <2>4. /\ g[to + 0] = m[from + 1]
          /\ to + 0 # from + 0 => g[to + 1] = m[from + 0]
          /\ \A a \in D : a # to + 0 /\ a # to + 1 => g[a] = m[a]
      BY <1>1, <1>2, <2>1, <2>2
    <2>5. ASSUME NEW i \in 0 .. 2 - 1, \A h \in 0 .. 2 - 1 : h < i => to + h # from + (2 - 1 - i)
          PROVE  g[to + i] = m[from + (2 - 1 - i)]
      <3>1. CASE i = 0
        BY <2>4, <3>1
      <3>2. CASE i = 1
        <4>1. to + 0 # from + 0
          BY <2>5, <3>2
        <4> QED BY <2>4, <3>2, <4>1
      <3> QED BY <3>1, <3>2
    <2>6. \A a \in D : (\A i \in 0 .. 2 - 1 : a # to + i) => g[a] = m[a]
      BY <2>4
    <2> QED BY <1>3, <2>2, <2>3, <2>5, <2>6 DEF NumberStored
  <1>4. CASE swap = FALSE
    <2> DEFINE p == su(m, to, 1, from, 1)
               g == su(p, to, 0, from, 0)
    <2>1. /\ p \in [D -> Int] /\ p[to + 1] = m[from + 1] /\ \A a \in D : a # to + 1 => p[a] = m[a]
      BY <1>1, ByteStored
    <2> HIDE DEF p
    <2>2. /\ g \in [D -> Int] /\ g[to + 0] = p[from + 0] /\ \A a \in D : a # to + 0 => g[a] = p[a]
      BY <1>1, <2>1, ByteStored
    <2> HIDE DEF g
    <2>3. g = store_u16(m, to, from, swap)
      BY <1>4 DEF store_u16, p, g
    <2>4. /\ g[to + 1] = m[from + 1]
          /\ to + 1 # from + 0 => g[to + 0] = m[from + 0]
          /\ \A a \in D : a # to + 0 /\ a # to + 1 => g[a] = m[a]
      BY <1>1, <1>2, <2>1, <2>2
    <2>5. ASSUME NEW i \in 0 .. 2 - 1, \A h \in 0 .. 2 - 1 : i < h => to + h # from + i
          PROVE  g[to + i] = m[from + i]
      <3>1. CASE i = 0
        <4>1. to + 1 # from + 0
          BY <2>5, <3>1
        <4> QED BY <2>4, <3>1, <4>1
      <3>2. CASE i = 1
        BY <2>4, <3>2
      <3> QED BY <3>1, <3>2
    <2>6. \A a \in D : (\A i \in 0 .. 2 - 1 : a # to + i) => g[a] = m[a]
      BY <2>4
    <2> QED BY <1>4, <2>2, <2>3, <2>5, <2>6 DEF NumberStored
  <1> QED BY <1>3, <1>4

LEMMA WordStored ==
  ASSUME NEW D, NEW m \in [D -> Int], NEW to \in Int, NEW from \in Int, NEW swap \in BOOLEAN,
         \A i \in 0 .. 3 : to + i \in D /\ from + i \in D
  PROVE  NumberStored(store_u32(m, to, from, swap), D, m, to, from, 4, swap)
  <1>1. /\ to + 0 \in D /\ to + 1 \in D /\ to + 2 \in D /\ to + 3 \in D
        /\ from + 0 \in D /\ from + 1 \in D /\ from + 2 \in D /\ from + 3 \in D
    OBVIOUS
  <1>2. /\ to + 0 # to + 1 /\ to + 0 # to + 2 /\ to + 0 # to + 3
        /\ to + 1 # to + 2 /\ to + 1 # to + 3 /\ to + 2 # to + 3
    OBVIOUS
  <1>3. CASE swap = TRUE
    <2> DEFINE p == su(m, to, 0, from, 3)
               q == su(p, to, 1, from, 2)
               r == su(q, to, 2, from, 1)
               g == su(r, to, 3, from, 0)
    <2>1. /\ p \in [D -> Int] /\ p[to + 0] = m[from + 3]
          /\ \A a \in D : a # to + 0 => p[a] = m[a]
      BY <1>1, ByteStored
    <2> HIDE DEF p
    <2>2. /\ q \in [D -> Int] /\ q[to + 1] = p[from + 2]
          /\ \A a \in D : a # to + 1 => q[a] = p[a]
      BY <1>1, <2>1, ByteStored
    <2> HIDE DEF q
    <2>3. /\ r \in [D -> Int] /\ r[to + 2] = q[from + 1]
          /\ \A a \in D : a # to + 2 => r[a] = q[a]
      BY <1>1, <2>2, ByteStored
    <2> HIDE DEF r
    <2>4. /\ g \in [D -> Int] /\ g[to + 3] = r[from + 0]
          /\ \A a \in D : a # to + 3 => g[a] = r[a]
      BY <1>1, <2>3, ByteStored
    <2> HIDE DEF g
    <2>5. g = store_u32(m, to, from, swap)
      BY <1>3 DEF store_u32, p, q, r, g
    <2>6. g[to + 0] = m[from + 3]
      BY <1>1, <1>2, <2>1, <2>2, <2>3, <2>4
    <2>7. to + 0 # from + 2 => g[to + 1] = m[from + 2]
      BY <1>1, <1>2, <2>1, <2>2, <2>3, <2>4
    <2>8. to + 0 # from + 1 /\ to + 1 # from + 1 => g[to + 2] = m[from + 1]
      BY <1>1, <1>2, <2>1, <2>2, <2>3, <2>4
    <2>9. to + 0 # from + 0 /\ to + 1 # from + 0 /\ to + 2 # from + 0 => g[to + 3] = m[from + 0]
      BY <1>1, <1>2, <2>1, <2>2, <2>3, <2>4
    <2>10. \A a \in D : a # to + 0 /\ a # to + 1 /\ a # to + 2 /\ a # to + 3 => g[a] = m[a]
      BY <2>1, <2>2, <2>3, <2>4
    <2>11. ASSUME NEW i \in 0 .. 4 - 1, \A h \in 0 .. 4 - 1 : h < i => to + h # from + (4 - 1 - i)
           PROVE  g[to + i] = m[from + (4 - 1 - i)]
      <3>1. CASE i = 0
        BY <2>6, <3>1
      <3>2. CASE i = 1
        <4>1. to + 0 # from + 2
          BY <2>11, <3>2
        <4> QED BY <2>7, <3>2, <4>1
      <3>3. CASE i = 2
        <4>1. to + 0 # from + 1 /\ to + 1 # from + 1
          BY <2>11, <3>3
        <4> QED BY <2>8, <3>3, <4>1
      <3>4. CASE i = 3
        <4>1. to + 0 # from + 0 /\ to + 1 # from + 0 /\ to + 2 # from + 0
          BY <2>11, <3>4
        <4> QED BY <2>9, <3>4, <4>1
      <3> QED BY <3>1, <3>2, <3>3, <3>4
    <2>12. \A a \in D : (\A i \in 0 .. 4 - 1 : a # to + i) => g[a] = m[a]
      BY <2>10
    <2> QED BY <1>3, <2>4, <2>5, <2>11, <2>12 DEF NumberStored
  <1>4. CASE swap = FALSE
    <2> DEFINE p == su(m, to, 3, from, 3)
               q == su(p, to, 2, from, 2)
               r == su(q, to, 1, from, 1)
               g == su(r, to, 0, from, 0)
    <2>1. /\ p \in [D -> Int] /\ p[to + 3] = m[from + 3]
          /\ \A a \in D : a # to + 3 => p[a] = m[a]
      BY <1>1, ByteStored
    <2> HIDE DEF p
    <2>2. /\ q \in [D -> Int] /\ q[to + 2] = p[from + 2]
          /\ \A a \in D : a # to + 2 => q[a] = p[a]
      BY <1>1, <2>1, ByteStored
    <2> HIDE DEF q
    <2>3. /\ r \in [D -> Int] /\ r[to + 1] = q[from + 1]
          /\ \A a \in D : a # to + 1 => r[a] = q[a]
      BY <1>1, <2>2, ByteStored
    <2> HIDE DEF r
    <2>4. /\ g \in [D -> Int] /\ g[to + 0] = r[from + 0]
          /\ \A a \in D : a # to + 0 => g[a] = r[a]
      BY <1>1, <2>3, ByteStored
    <2> HIDE DEF g
    <2>5. g = store_u32(m, to, from, swap)
      BY <1>4 DEF store_u32, p, q, r, g
    <2>6. g[to + 3] = m[from + 3]
      BY <1>1, <1>2, <2>1, <2>2, <2>3, <2>4
    <2>7. to + 3 # from + 2 => g[to + 2] = m[from + 2]
      BY <1>1, <1>2, <2>1, <2>2, <2>3, <2>4
    <2>8. to + 3 # from + 1 /\ to + 2 # from + 1 => g[to + 1] = m[from + 1]
      BY <1>1, <1>2, <2>1, <2>2, <2>3, <2>4
    <2>9. to + 3 # from + 0 /\ to + 2 # from + 0 /\ to + 1 # from + 0 => g[to + 0] = m[from + 0]
      BY <1>1, <1>2, <2>1, <2>2, <2>3, <2>4
    <2>10. \A a \in D : a # to + 0 /\ a # to + 1 /\ a # to + 2 /\ a # to + 3 => g[a] = m[a]
      BY <2>1, <2>2, <2>3, <2>4
    <2>11. ASSUME NEW i \in 0 .. 4 - 1, \A h \in 0 .. 4 - 1 : i < h => to + h # from + i
           PROVE  g[to + i] = m[from + i]
      <3>1. CASE i = 3
        BY <2>6, <3>1
      <3>2. CASE i = 2
        <4>1. to + 3 # from + 2
          BY <2>11, <3>2
        <4> QED BY <2>7, <3>2, <4>1
      <3>3. CASE i = 1
        <4>1. to + 3 # from + 1 /\ to + 2 # from + 1
          BY <2>11, <3>3
        <4> QED BY <2>8, <3>3, <4>1
      <3>4. CASE i = 0
        <4>1. to + 3 # from + 0 /\ to + 2 # from + 0 /\ to + 1 # from + 0
          BY <2>11, <3>4
        <4> QED BY <2>9, <3>4, <4>1
      <3> QED BY <3>1, <3>2, <3>3, <3>4
    <2>12. \A a \in D : (\A i \in 0 .. 4 - 1 : a # to + i) => g[a] = m[a]
      BY <2>10
    <2> QED BY <1>4, <2>4, <2>5, <2>11, <2>12 DEF NumberStored
  <1> QED BY <1>3, <1>4

LEMMA MemberSides ==
  ASSUME NEW k \in Calls, RecordCall(k), NEW r \in 0 .. Count(k) - 1, NEW n \in DOMAIN PlanOf(k).width
  PROVE  LET to == DstAt(k, r) + To(PlanOf(k), k.tof).at[n]
             from == SrcAt(k, r) + From(PlanOf(k), k.tof).at[n]
             w == PlanOf(k).width[n]
         IN  /\ to \in Nat /\ from \in Nat /\ w \in Nat
             /\ \A i \in 0 .. w - 1 : /\ to + i \in 0 .. Top(k) /\ from + i \in 0 .. Top(k)
                                      /\ to + i \in k.db .. k.db + Need(k) - 1
  <1> DEFINE F == From(PlanOf(k), k.tof).size
             T == To(PlanOf(k), k.tof).size
             s == From(PlanOf(k), k.tof).at[n]
             d == To(PlanOf(k), k.tof).at[n]
             w == PlanOf(k).width[n]
  <1>1. /\ SrcAt(k, r) \in Nat /\ DstAt(k, r) \in Nat
        /\ k.sb <= SrcAt(k, r) /\ SrcAt(k, r) + F <= k.sb + k.size
        /\ k.db <= DstAt(k, r) /\ DstAt(k, r) + T <= k.db + Need(k)
    BY RecordIn
  <1>2. /\ k.sb \in Nat /\ k.db \in Nat /\ k.size \in Nat /\ k.room \in Nat
        /\ Top(k) \in Nat /\ k.sb + k.size <= Top(k) /\ k.db + k.room <= Top(k)
    BY CallFact
  <1>3. Need(k) \in Nat /\ Need(k) <= k.room
    BY RecordFact
  <1>4. s \in Nat /\ d \in Nat /\ w \in Nat /\ s + w <= F /\ d + w <= T /\ F \in Nat /\ T \in Nat
    BY SidesFact DEF Inside
  <1> HIDE DEF F, T, s, d, w
  <1>5. DstAt(k, r) + d \in Nat /\ SrcAt(k, r) + s \in Nat
    BY <1>1, <1>4
  <1>6. ASSUME NEW i \in 0 .. w - 1
        PROVE  /\ DstAt(k, r) + d + i \in 0 .. Top(k) /\ SrcAt(k, r) + s + i \in 0 .. Top(k)
               /\ DstAt(k, r) + d + i \in k.db .. k.db + Need(k) - 1
    BY <1>1, <1>2, <1>3, <1>4
  <1> QED BY <1>4, <1>5, <1>6 DEF s, d, w

\* A small number on its way to the file.
LEMMA MemberStore ==
  ASSUME NEW k \in Calls, RecordCall(k), NEW m \in [0 .. Top(k) -> Int], NEW r \in 0 .. Count(k) - 1,
         NEW n \in DOMAIN PlanOf(k).width, Stored(k, n)
  PROVE  NumberStored(MemberCopied(k, m, r, n), 0 .. Top(k), m, DstAt(k, r) + To(PlanOf(k), k.tof).at[n],
                      SrcAt(k, r) + From(PlanOf(k), k.tof).at[n], PlanOf(k).width[n], k.swap)
  <1> DEFINE to == DstAt(k, r) + To(PlanOf(k), k.tof).at[n]
             from == SrcAt(k, r) + From(PlanOf(k), k.tof).at[n]
             w == PlanOf(k).width[n]
             D == 0 .. Top(k)
             g == MemberCopied(k, m, r, n)
  <1>1. /\ to \in Int /\ from \in Int /\ k.swap \in BOOLEAN
        /\ \A i \in 0 .. w - 1 : to + i \in D /\ from + i \in D
    BY MemberSides, CallFact
  <1>2. m \in [D -> Int]
    OBVIOUS
  <1>3. w = 2 \/ w = 4
    BY DEF Stored
  <1>4. g = IF w = 2 THEN store_u16(m, to, from, k.swap) ELSE store_u32(m, to, from, k.swap)
    BY DEF MemberCopied
  <1> HIDE DEF to, from, w, D, g
  <1>5. NumberStored(g, D, m, to, from, w, k.swap)
    <2>1. CASE w = 2
      <3>1. \A i \in 0 .. 1 : to + i \in D /\ from + i \in D
        BY <1>1, <2>1
      <3>2. NumberStored(store_u16(m, to, from, k.swap), D, m, to, from, 2, k.swap)
        BY <1>1, <1>2, <3>1, HalfStored
      <3> QED BY <1>4, <2>1, <3>2
    <2>2. CASE w = 4
      <3>1. \A i \in 0 .. 3 : to + i \in D /\ from + i \in D
        BY <1>1, <2>2
      <3>2. NumberStored(store_u32(m, to, from, k.swap), D, m, to, from, 4, k.swap)
        BY <1>1, <1>2, <3>1, WordStored
      <3> QED BY <1>4, <2>2, <3>2
    <2> QED BY <1>3, <2>1, <2>2
  <1> QED BY <1>5 DEF to, from, w, D, g

LEMMA MemberKept ==
  ASSUME NEW k \in Calls, RecordCall(k), ~WordTable(k), NEW m, Kept(k, m), NEW r \in 0 .. Count(k) - 1,
         NEW n \in DOMAIN PlanOf(k).width
  PROVE  Kept(k, MemberCopied(k, m, r, n))
  <1>1. CASE Stored(k, n)
    <2> DEFINE g == MemberCopied(k, m, r, n)
               to == DstAt(k, r) + To(PlanOf(k), k.tof).at[n]
               from == SrcAt(k, r) + From(PlanOf(k), k.tof).at[n]
               w == PlanOf(k).width[n]
    <2>1. NumberStored(g, 0 .. Top(k), m, to, from, w, k.swap)
      BY <1>1, MemberStore DEF Kept
    <2>2. \A i \in 0 .. w - 1 : to + i \in k.db .. k.db + Need(k) - 1
      BY MemberSides
    <2>3. k.type \notin Walked
      BY PlannedFact DEF Planned
    <2> HIDE DEF g, to, from, w
    <2>4. g \in [0 .. Top(k) -> Int]
      BY <2>1 DEF NumberStored
    <2>5. \A a \in 0 .. Top(k) : a \notin k.db .. k.db + Need(k) - 1 => g[a] = m[a]
      BY <2>1, <2>2 DEF NumberStored
    <2>6. Kept(k, g)
      BY <2>3, <2>4, <2>5 DEF Kept
    <2> QED BY <2>6 DEF g
  <1>2. CASE ~Stored(k, n)
    <2> DEFINE F == From(PlanOf(k), k.tof).size
               T == To(PlanOf(k), k.tof).size
               b == FieldBytes(PlanOf(k), n, k.tof, k.swap)
    <2>1. /\ DOMAIN b \subseteq 0 .. T - 1
          /\ \A o \in DOMAIN b : b[o] = Padding \/ b[o] \in 0 .. F - 1
      <3> DEFINE s == From(PlanOf(k), k.tof).at[n]
                 d == To(PlanOf(k), k.tof).at[n]
                 w == PlanOf(k).width[n]
      <3>1. /\ DOMAIN b = d .. d + w - 1 /\ s \in Nat /\ d \in Nat /\ w \in Nat \ {0}
            /\ \A o \in d .. d + w - 1 : b[o] \in s .. s + w - 1
            /\ d + w <= T /\ s + w <= F /\ T \in Nat /\ F \in Nat
        BY SidesFact, FieldBytesFact
      <3> HIDE DEF s, d, w, b, T, F
      <3>2. DOMAIN b \subseteq 0 .. T - 1
        BY <3>1
      <3>3. ASSUME NEW o \in DOMAIN b PROVE b[o] \in 0 .. F - 1
        <4>1. b[o] \in s .. s + w - 1
          BY <3>1
        <4> QED BY <3>1, <4>1
      <3> QED BY <3>2, <3>3
    <2>2. MemberCopied(k, m, r, n) = Convert(m, DstAt(k, r), SrcAt(k, r), b)
      BY <1>2 DEF MemberCopied
    <2> HIDE DEF b
    <2> QED BY <2>1, <2>2, RecordConvert
  <1> QED BY <1>1, <1>2

LEMMA RecordMapFact ==
  ASSUME NEW k \in Calls, RecordCall(k)
  PROVE  RecordMap(k) = RecordBytes(PlanOf(k), k.tof, k.swap)
  <1>1. k.class \in Class /\ k.tof \in BOOLEAN /\ k.swap \in BOOLEAN
    BY CallFact
  <1>2. PlanType(k) \in DOMAIN CvtTable(k.class) /\ PlanOf(k) = ThePlan(k.class, PlanType(k))
    BY PlannedFact DEF Planned
  <1>3. RecordMap(k) = RecordBytes(CvtPlans[k.class][PlanType(k)], k.tof, k.swap)
    BY <1>1, <1>2, TableIs DEF RecordMap, RecordMaps, PlanType
  <1>4. PlanOf(k) = CvtPlans[k.class][PlanType(k)]
    BY <1>1, <1>2, PlansFact
  <1> QED BY <1>3, <1>4

\* A number, and a byte, is as long in the file as in memory.
LEMMA ScalarFact ==
  ASSUME NEW k \in Calls, RecordCall(k), Scalar(k) \/ k.type = "BYTE"
  PROVE  From(PlanOf(k), k.tof).size = To(PlanOf(k), k.tof).size
  <1>1. Planned(k) /\ k.class \in Class
    BY PlannedFact, CallFact
  <1>2. Len(PlanOf(k).order) = 1
    <2>1. CASE Scalar(k)
      BY <2>1 DEF Scalar
    <2>2. CASE k.type = "BYTE"
      <3>1. PlanType(k) = "BYTE"
        BY <2>2 DEF PlanType, WordTable
      <3>2. CvtTable(k.class)["BYTE"] = Cvt!BYTE
        BY <1>1 DEF Class, CvtTable
      <3>3. PlanOf(k) = ThePlan(k.class, "BYTE")
        BY <1>1, <3>1 DEF Planned
      <3>4. PlanOf(k).order = [i \in DOMAIN Cvt!BYTE |-> Cvt!BYTE[i][1]]
        BY <3>2, <3>3, TableIs DEF ThePlan, Declared, Plan
      <3>5. DOMAIN Cvt!BYTE = 1 .. 1
        BY DEF Cvt!BYTE
      <3> QED BY <3>4, <3>5
    <2> QED BY <2>1, <2>2
  <1>3. PlanOf(k).file.size = PlanOf(k).mem.size
    BY <1>1, <1>2, Zenon DEF Planned, WellLaid
  <1> QED BY <1>3 DEF From, To

-----------------------------------------------------------------------------
(***************************************************************************)
(* The invariant of a call.                                                *)
(***************************************************************************)
WalkOK == walk \in [off : Nat, next : Nat, aoff : Nat, cnt : Nat, anext : Nat]

Phase ==
    /\ pc \in {"called", "records", "head", "aux", "notes", "hash", "done"}
    /\ ~Accepts(call) => pc \in {"called", "done"}
    /\ pc \notin {"called", "done"} =>
          ~Ready(call) /\ (pc = Translator(call) \/ (pc = "aux" /\ Translator(call) = "head"))

Progress ==
    /\ done \in Nat /\ field \in Nat
    /\ pc = "called" => done = 0 /\ field = 1
    /\ pc = "records" =>
          /\ done <= Count(call)
          /\ call.lib = "lib" /\ ~CopiedAtOnce(call) =>
                done < Count(call) /\ field \in 1 .. Len(PlanOf(call).order)

CallInv ==
    /\ call \in Calls
    /\ Kept(call, mem)
    /\ (pc = "called" \/ ~Accepts(call)) => mem = Original(call)
    /\ Phase /\ Progress /\ WalkOK
    /\ dst.d_size \in Nat /\ ok \in BOOLEAN

LEMMA InitCallInv == Init => CallInv
  <1> SUFFICES ASSUME Init PROVE CallInv
    OBVIOUS
  <1> USE DEF Init
  <1>1. call \in Calls /\ mem = Original(call) /\ Kept(call, mem)
    BY OriginalFact
  <1>2. Phase /\ Progress /\ WalkOK
    BY DEF Phase, Progress, WalkOK
  <1>3. dst.d_size \in Nat /\ ok \in BOOLEAN
    BY CallFact
  <1> QED BY <1>1, <1>2, <1>3 DEF CallInv

\* A step of a translator: what it leaves, and how it ends.
Going == pc \notin {"called", "done"}

\* A call in a translator's hands is accepted, and of that translator's type.
LEMMA GoingFact ==
  ASSUME CallInv, Going
  PROVE  /\ call \in Calls /\ Accepts(call) /\ Kept(call, mem) /\ ~Ready(call)
         /\ pc \in {"head", "aux"} => call.type \in {"VDEF", "VNEED"} /\ call.type \in Walked
         /\ pc = "notes" => call.type = "NOTE" /\ call.type \in Walked
         /\ pc = "hash" => call.type = "GNUHASH" /\ call.type \in Walked /\ ~WordTable(call)
         /\ pc = "records" => RecordCall(call)
  BY TranslatorFact DEF CallInv, Phase, Going, Walked, RecordCall

\* How a step behind the checks goes on.
Goes ==
    \/ pc' = "done" /\ done' \in Nat /\ field' \in Nat
    \/ pc' = pc /\ done' = done /\ field' = field
    \/ pc \in {"head", "aux"} /\ pc' \in {"head", "aux"} /\ done' = done /\ field' = field

\* Enough to show of it.
LEMMA GoingStep ==
  ASSUME CallInv, Going, call' = call, Kept(call, mem'), WalkOK', ok' \in BOOLEAN,
         dst' = dst \/ dst'.d_size = Need(call), Goes
  PROVE  CallInv'
  <1>1. Accepts(call) /\ call \in Calls
    BY GoingFact
  <1>2. dst'.d_size \in Nat
    <2>1. Need(call) \in Nat
      <3>1. CASE call.type \in Walked
        BY <1>1, <3>1, AcceptsFact, CallFact
      <3>2. CASE call.type \notin Walked
        <4>1. RecordCall(call)
          BY <1>1, <3>2, TranslatorFact DEF RecordCall, Walked
        <4> QED BY <1>1, <4>1, RecordFact
      <3> QED BY <3>1, <3>2
    <2> QED BY <2>1 DEF CallInv
  <1>3. Kept(call, mem)'
    <2>1. Kept(call, mem)' = Kept(call, mem')
      OBVIOUS
    <2> QED BY <2>1
  <1>4. Accepts(call)' = Accepts(call) /\ Ready(call)' = Ready(call) /\ Translator(call)' = Translator(call)
    OBVIOUS
  <1>5. Count(call)' = Count(call) /\ CopiedAtOnce(call)' = CopiedAtOnce(call) /\ PlanOf(call)' = PlanOf(call)
    OBVIOUS
  <1>6. Phase'
    <2>1. ~Ready(call) /\ (pc = Translator(call) \/ (pc = "aux" /\ Translator(call) = "head"))
      BY DEF CallInv, Phase, Going
    <2>2. pc' \in {"called", "records", "head", "aux", "notes", "hash", "done"}
      BY DEF CallInv, Phase, Goes
    <2>3. CASE pc' = "done"
      BY <1>1, <1>4, <2>2, <2>3 DEF Phase
    <2>4. CASE pc' = pc
      BY <1>1, <1>4, <2>1, <2>2, <2>4 DEF Phase
    <2>5. CASE pc \in {"head", "aux"} /\ pc' \in {"head", "aux"}
      <3>1. Translator(call) = "head"
        BY <2>1, <2>5, TranslatorFact
      <3> QED BY <1>1, <1>4, <2>1, <2>2, <2>5, <3>1 DEF Phase
    <2> QED BY <2>3, <2>4, <2>5 DEF Goes
  <1>7. Progress'
    BY <1>5 DEF CallInv, Progress, Goes, Going
  <1> QED BY <1>1, <1>2, <1>3, <1>4, <1>6, <1>7 DEF CallInv, Phase, Going, Goes

-----------------------------------------------------------------------------
(***************************************************************************)
(* The steps of a call.                                                    *)
(***************************************************************************)
LEMMA ChecksStep ==
  ASSUME CallInv, Refuse \/ Accept
  PROVE  CallInv'
  <1>1. call' = call /\ mem' = mem /\ done' = done /\ field' = field /\ walk' = walk /\ pc = "called"
    BY DEF Refuse, Accept
  <1>2. call \in Calls /\ Kept(call, mem) /\ mem = Original(call) /\ WalkOK /\ done = 0 /\ field = 1
    BY <1>1 DEF CallInv, Progress
  <1>3. CASE Refuse
    <2>1. ~Accepts(call) /\ pc' = "done" /\ ok' = FALSE /\ dst' = dst
      BY <1>3 DEF Refuse, Return
    <2>2. Phase' /\ Progress' /\ WalkOK'
      BY <1>1, <1>2, <2>1 DEF Phase, Progress, WalkOK
    <2> QED BY <1>1, <1>2, <2>1, <2>2 DEF CallInv
  <1>4. CASE Accept
    <2>1. /\ Accepts(call)
          /\ IF Ready(call) THEN pc' = "done" /\ ok' = TRUE ELSE pc' = Translator(call) /\ ok' = ok
          /\ dst' = dst \/ dst'.d_size = Need(call)
      BY <1>4 DEF Accept, Return, Described
    <2>2. dst'.d_size \in Nat
      <3>1. CASE call.type \in Walked
        BY <1>2, <2>1, <3>1, AcceptsFact, CallFact DEF CallInv
      <3>2. CASE call.type \notin Walked
        <4>1. RecordCall(call)
          BY <2>1, <3>2, TranslatorFact DEF RecordCall, Walked
        <4> QED BY <1>2, <2>1, <4>1, RecordFact DEF CallInv
      <3> QED BY <3>1, <3>2
    <2>3. Phase'
      <3>1. Translator(call) \in {"records", "head", "notes", "hash"}
        BY TranslatorFact
      <3> QED BY <1>1, <2>1, <3>1 DEF Phase
    <2>4. Progress'
      <3>1. CASE Translator(call) = "records" /\ ~Ready(call)
        <4>1. RecordCall(call) /\ pc' = "records"
          BY <2>1, <3>1 DEF RecordCall
        <4>2. Count(call) \in Nat
          BY <1>2, <4>1, RecordFact
        <4>3. call.lib = "lib" => Count(call) # 0
          <5>1. SUFFICES ASSUME call.lib = "lib", Count(call) = 0 PROVE FALSE
            OBVIOUS
          <5>2. ~WordTable(call) /\ Need(call) # 0
            BY <3>1, <5>1 DEF WordTable, Ready
          <5>3. Need(call) = Count(call) * To(PlanOf(call), call.tof).size
                /\ To(PlanOf(call), call.tof).size \in Nat
            BY <1>2, <4>1, <5>2, RecordFact
          <5> QED BY <5>1, <5>2, <5>3
        <4>4. 1 \in 1 .. Len(PlanOf(call).order)
          <5>1. Len(PlanOf(call).order) \in Nat \ {0}
            BY <1>2, <4>1, PlannedFact, Zenon DEF Planned, WellLaid
          <5> QED BY <5>1
        <4> QED BY <1>1, <1>2, <4>1, <4>2, <4>3, <4>4 DEF Progress
      <3>2. CASE ~(Translator(call) = "records" /\ ~Ready(call))
        <4>1. pc' # "records" /\ pc' # "called"
          BY <2>1, <3>2, TranslatorFact
        <4> QED BY <1>1, <1>2, <4>1 DEF Progress
      <3> QED BY <3>1, <3>2
    <2>5. WalkOK' /\ ok' \in BOOLEAN /\ Kept(call, mem)'
      BY <1>1, <1>2, <2>1 DEF WalkOK, CallInv
    <2>6. pc' # "called"
      BY <2>1, TranslatorFact
    <2> QED BY <1>1, <1>2, <2>1, <2>2, <2>3, <2>4, <2>5, <2>6 DEF CallInv
  <1> QED BY <1>3, <1>4

LEMMA CopyAtOnceStep ==
  ASSUME CallInv, CopyAtOnce
  PROVE  CallInv'
  <1> USE DEF CopyAtOnce
  <1>1. RecordCall(call) /\ Going /\ call \in Calls /\ Kept(call, mem)
    BY GoingFact DEF Going
  <1> DEFINE F == From(PlanOf(call), call.tof).size
             T == To(PlanOf(call), call.tof).size
             n == Count(call) * T
  <1>2. F = T
    BY <1>1, ScalarFact DEF CopiedAtOnce
  <1>3. /\ n \in Nat /\ n <= call.size /\ n <= Need(call) /\ Need(call) \in Nat
    <2>1. /\ F \in Nat \ {0} /\ T \in Nat \ {0} /\ Count(call) \in Nat /\ Need(call) \in Nat
          /\ Count(call) * F <= call.size /\ Count(call) * T <= Need(call)
      BY <1>1, RecordFact
    <2> HIDE DEF F, T
    <2> QED BY <1>2, <2>1
  <1>4. call.sb \in Nat /\ call.db \in Nat /\ call.size \in Nat
    BY <1>1, CallFact
  <1> HIDE DEF n, F, T
  <1>5. Proper(call, call.db, call.sb, Same(n))
    BY <1>3, <1>4 DEF Proper, Same
  <1>6. \A o \in DOMAIN Same(n) : Same(n)[o] # Padding
    BY <1>3 DEF Same, Padding
  <1>7. Kept(call, mem')
    BY <1>1, <1>4, <1>5, <1>6, ConvertFact DEF n, T
  <1>8. /\ call' = call /\ pc' = "done" /\ ok' \in BOOLEAN /\ done' = done /\ field' = field /\ walk' = walk
        /\ dst' = dst \/ dst'.d_size = Need(call)
    BY DEF Return, Described
  <1>9. WalkOK' /\ done \in Nat /\ field \in Nat
    BY <1>8 DEF CallInv, WalkOK, Progress
  <1>10. Goes
    BY <1>8, <1>9 DEF Goes
  <1> QED BY <1>1, <1>7, <1>8, <1>9, <1>10, GoingStep

LEMMA ConvertRecordStep ==
  ASSUME CallInv, ConvertRecord
  PROVE  CallInv'
  <1> USE DEF ConvertRecord
  <1>1. RecordCall(call) /\ Going /\ call \in Calls /\ Kept(call, mem) /\ call.lib = "elftoolchain"
    BY GoingFact DEF Going
  <1>2. done \in Nat /\ field \in Nat /\ done <= Count(call) /\ WalkOK /\ dst.d_size \in Nat /\ ok \in BOOLEAN
    BY DEF CallInv, Progress
  <1>3. call' = call /\ field' = field /\ walk' = walk /\ dst' = dst /\ WalkOK'
    BY <1>2 DEF WalkOK
  <1>4. CASE done = Count(call)
    <2>1. pc' = "done" /\ ok' = TRUE /\ mem' = mem /\ done' = done
      BY <1>4 DEF Return
    <2>2. Goes
      BY <1>2, <1>3, <2>1 DEF Goes
    <2> QED BY <1>1, <1>2, <1>3, <2>1, <2>2, GoingStep
  <1>5. CASE done # Count(call)
    <2> DEFINE r == Record(call, done)
    <2>1. /\ mem' = Convert(mem, DstAt(call, r), SrcAt(call, r), RecordMap(call))
          /\ done' = done + 1 /\ pc' = pc /\ ok' = ok
      BY <1>5
    <2>2. Count(call) \in Nat /\ done < Count(call)
      BY <1>1, <1>2, <1>5, RecordFact
    <2>3. r \in 0 .. Count(call) - 1
      BY <1>2, <2>2 DEF Record
    <2> DEFINE b == RecordMap(call)
    <2>4. /\ DOMAIN b = 0 .. To(PlanOf(call), call.tof).size - 1
          /\ \A o \in DOMAIN b : b[o] = Padding \/ b[o] \in 0 .. From(PlanOf(call), call.tof).size - 1
      BY <1>1, SidesFact, RecordMapFact, RecordBytesFact
    <2>5. ASSUME WordTable(call), NEW o \in DOMAIN b
          PROVE  b[o] # Padding
      <3>1. To(PlanOf(call), call.tof).size = 4 /\ \E n : Takes(PlanOf(call), call.tof, call.swap, o, n)
        <4>1. Planned(call) /\ To(PlanOf(call), call.tof).size = 4
          BY <1>1, <2>5, PlannedFact DEF Planned
        <4>2. o \in 0 .. 3
          BY <2>4, <4>1
        <4> QED BY <2>5, <4>1, <4>2 DEF Planned
      <3>2. \/ b[o] = Padding /\ \A n : ~Takes(PlanOf(call), call.tof, call.swap, o, n)
            \/ \E n : /\ Takes(PlanOf(call), call.tof, call.swap, o, n)
                      /\ b[o] = FieldBytes(PlanOf(call), n, call.tof, call.swap)[o]
        BY <1>1, SidesFact, RecordMapFact, RecordBytesFact
      <3>3. PICK n : /\ Takes(PlanOf(call), call.tof, call.swap, o, n)
                     /\ b[o] = FieldBytes(PlanOf(call), n, call.tof, call.swap)[o]
        BY <3>1, <3>2
      <3>4. b[o] \in Nat
        <4> DEFINE g == FieldBytes(PlanOf(call), n, call.tof, call.swap)[o]
                   s == From(PlanOf(call), call.tof).at[n]
                   w == PlanOf(call).width[n]
        <4>1. g \in s .. s + w - 1 /\ s \in Nat /\ w \in Nat
          BY <1>1, <3>3, SidesFact, FieldBytesFact DEF Takes
        <4> HIDE DEF g, s, w, b
        <4>2. g \in Nat
          BY <4>1
        <4> QED BY <3>3, <4>2 DEF g
      <3> HIDE DEF b
      <3> QED BY <3>4 DEF Padding
    <2>6. Kept(call, mem')
      <3> HIDE DEF r, b
      <3>1. DOMAIN b \subseteq 0 .. To(PlanOf(call), call.tof).size - 1
        BY <2>4
      <3>2. mem' = Convert(mem, DstAt(call, r), SrcAt(call, r), b)
        BY <2>1 DEF b
      <3> QED BY <1>1, <2>3, <2>4, <2>5, <3>1, <3>2, RecordConvert
    <2>7. Kept(call, mem)' /\ Phase' /\ ~(pc' = "called")
      BY <1>3, <2>1, <2>6 DEF CallInv, Phase
    <2>8. Progress'
      BY <1>1, <1>2, <1>3, <2>1, <2>2 DEF Progress
    <2>9. Accepts(call)
      BY <1>1 DEF RecordCall
    <2> QED BY <1>1, <1>2, <1>3, <2>1, <2>7, <2>8, <2>9 DEF CallInv
  <1> QED BY <1>4, <1>5

LEMMA CopyMemberStep ==
  ASSUME CallInv, CopyMember
  PROVE  CallInv'
  <1> DEFINE r == LibRecord(call, done)
             n == LibMember(call, field)
             order == PlanOf(call).order
             last == field = Len(order)
  <1>0. /\ pc = "records" /\ call.lib = "lib" /\ ~CopiedAtOnce(call)
        /\ mem' = MemberCopied(call, mem, r, n)
        /\ field' = (IF last THEN 1 ELSE field + 1)
        /\ done' = (IF last THEN done + 1 ELSE done)
        /\ IF last /\ done + 1 = Count(call)
           THEN pc' = "done" /\ ok' = TRUE /\ dst'.d_size = Need(call)
           ELSE pc' = pc /\ ok' = ok /\ dst' = dst
        /\ call' = call /\ walk' = walk
    BY DEF CopyMember, Return, Described
  <1>1. RecordCall(call) /\ Going /\ call \in Calls /\ Kept(call, mem) /\ ~WordTable(call)
    BY <1>0, GoingFact DEF Going, WordTable
  <1>2. /\ done \in Nat /\ field \in Nat /\ done < Count(call) /\ field \in 1 .. Len(order)
        /\ WalkOK /\ dst.d_size \in Nat /\ ok \in BOOLEAN
    BY <1>0 DEF CallInv, Progress
  <1>3. Count(call) \in Nat /\ Need(call) \in Nat
    BY <1>1, RecordFact
  <1>4. Len(order) \in Nat /\ \A i \in 1 .. Len(order) : order[i] \in DOMAIN PlanOf(call).width
    <2>1. /\ Len(order) \in Nat
          /\ DOMAIN PlanOf(call).width = {order[i] : i \in 1 .. Len(order)}
      BY <1>1, PlannedFact, Zenon DEF Planned, WellLaid
    <2> QED BY <2>1
  <1>5. n \in DOMAIN PlanOf(call).width
    <2> HIDE DEF order
    <2>1. n = order[IF Grows(call) THEN Len(order) + 1 - field ELSE field]
      BY DEF LibMember, order
    <2>2. Len(order) + 1 - field \in 1 .. Len(order)
      BY <1>2, <1>4
    <2> HIDE DEF n
    <2> QED BY <1>2, <1>4, <2>1, <2>2
  <1>6. r \in 0 .. Count(call) - 1
    BY <1>2, <1>3 DEF LibRecord
  <1>8. Kept(call, mem')
    BY <1>0, <1>1, <1>5, <1>6, MemberKept
  <1> HIDE DEF r, n
  <1>9. WalkOK' /\ dst'.d_size \in Nat /\ ok' \in BOOLEAN /\ Kept(call, mem)' /\ pc' # "called"
    BY <1>0, <1>2, <1>3, <1>8 DEF WalkOK
  <1>10. done' \in Nat /\ field' \in Nat
    BY <1>0, <1>2
  <1>11. Progress'
    <2>1. CASE last /\ done + 1 = Count(call)
      BY <1>0, <1>10, <2>1 DEF Progress
    <2>2. CASE ~(last /\ done + 1 = Count(call))
      <3>1. done' < Count(call) /\ done' <= Count(call) /\ field' \in 1 .. Len(order) /\ pc' = "records"
        BY <1>0, <1>2, <1>3, <1>4, <2>2
      <3> QED BY <1>0, <1>10, <3>1 DEF Progress
    <2> QED BY <2>1, <2>2
  <1>12. Phase' /\ Accepts(call)
    BY <1>0, <1>1 DEF CallInv, Phase, RecordCall
  <1> QED BY <1>0, <1>1, <1>9, <1>11, <1>12 DEF CallInv

\* What the links and counts of a version table say are numbers.
LEMMA HeadReads ==
  ASSUME NEW k \in Calls, k.type \in {"VDEF", "VNEED"}, NEW m, Kept(k, m), NEW off \in Nat,
         off + HeadSize(k) <= k.size
  PROVE  /\ AuxOf(k, m, k.sb + off) \in Nat /\ CntOf(k, m, k.sb + off) \in Nat
         /\ NextOf(k, m, k.sb + off) \in Nat /\ VersionOf(k, m, k.sb + off) \in Nat
  <1>1. k.class \in Class /\ k.tof \in BOOLEAN /\ k.type \in Walked
    BY CallFact DEF Walked
  <1>2. HeadFields(k) = VersionRecord(k).head
    BY <1>1, HeadAndAux
  <1>3. /\ IsFields(HeadFields(k))
        /\ HasNumber(k.class, HeadFields(k), Versioned(k, "vd_aux", "vn_aux"))
        /\ HasNumber(k.class, HeadFields(k), Versioned(k, "vd_cnt", "vn_cnt"))
        /\ HasNumber(k.class, HeadFields(k), Versioned(k, "vd_next", "vn_next"))
        /\ HasNumber(k.class, HeadFields(k), Versioned(k, "vd_version", "vn_version"))
    BY <1>1, <1>2, VersionNumbers
  <1>4. off + Packed(k.class, HeadFields(k)).size <= k.size
    BY DEF HeadSize
  <1> QED BY <1>1, <1>3, <1>4, VersionRead DEF AuxOf, CntOf, NextOf, VersionOf

LEMMA AuxReads ==
  ASSUME NEW k \in Calls, k.type \in {"VDEF", "VNEED"}, NEW m, Kept(k, m), NEW off \in Nat,
         off + AuxSize(k) <= k.size
  PROVE  AuxNextOf(k, m, k.sb + off) \in Nat
  <1>1. k.class \in Class /\ k.tof \in BOOLEAN /\ k.type \in Walked
    BY CallFact DEF Walked
  <1>2. AuxFields(k) = VersionRecord(k).aux
    BY <1>1, HeadAndAux
  <1>3. IsFields(AuxFields(k)) /\ HasNumber(k.class, AuxFields(k), Versioned(k, "vda_next", "vna_next"))
    BY <1>1, <1>2, VersionNumbers
  <1>4. off + Packed(k.class, AuxFields(k)).size <= k.size
    BY DEF AuxSize
  <1> QED BY <1>1, <1>3, <1>4, VersionRead DEF AuxNextOf

LEMMA VersionFields ==
  ASSUME NEW k \in Calls
  PROVE  /\ IsFields(HeadFields(k)) /\ IsFields(AuxFields(k))
         /\ HeadSize(k) \in Nat \ {0} /\ AuxSize(k) \in Nat \ {0}
  <1>1. k.class \in Class /\ k.tof \in BOOLEAN
    BY CallFact
  <1>2. IsFields(HeadFields(k)) /\ IsFields(AuxFields(k))
    BY <1>1, HeadAndAux, VersionNumbers
  <1> QED BY <1>1, <1>2, PackedCovers DEF HeadSize, AuxSize

\* A step that converts a record of the table at off, or nothing.
LEMMA TableStep ==
  ASSUME CallInv, pc \in {"head", "aux"}, call' = call, done' = done, field' = field,
         pc' \in {"head", "aux", "done"}, WalkOK', ok' \in BOOLEAN,
         dst' = dst \/ dst'.d_size = Need(call),
         \/ mem' = mem
         \/ \E off \in Nat, f \in {HeadFields(call), AuxFields(call)} :
               off + Packed(call.class, f).size <= call.size /\ ConvertAt(call, off, f)
  PROVE  CallInv'
  <1>1. /\ Going /\ call \in Calls /\ Accepts(call) /\ Kept(call, mem) /\ call.type \in Walked
    BY GoingFact DEF Going
  <1>2. IsFields(HeadFields(call)) /\ IsFields(AuxFields(call))
    BY <1>1, VersionFields
  <1>3. Kept(call, mem')
    <2>1. CASE mem' = mem
      BY <1>1, <2>1
    <2>2. ASSUME NEW off \in Nat, NEW f \in {HeadFields(call), AuxFields(call)},
                 off + Packed(call.class, f).size <= call.size, ConvertAt(call, off, f)
          PROVE  Kept(call, mem')
      <3>1. IsFields(f)
        BY <1>2, <2>2
      <3> QED BY <1>1, <2>2, <3>1, VersionConvert DEF ConvertAt
    <2> QED BY <2>1, <2>2
  <1>4. Goes
    BY DEF Goes, CallInv, Progress
  <1> QED BY <1>1, <1>3, <1>4, GoingStep

LEMMA WalkFact ==
  ASSUME WalkOK
  PROVE  /\ walk.off \in Nat /\ walk.next \in Nat /\ walk.aoff \in Nat /\ walk.cnt \in Nat
         /\ walk.anext \in Nat
  BY DEF WalkOK

LEMMA WalkRecord ==
  ASSUME NEW a \in Nat, NEW b \in Nat, NEW c \in Nat, NEW d \in Nat, NEW e \in Nat,
         walk' = [off |-> a, next |-> b, aoff |-> c, cnt |-> d, anext |-> e]
  PROVE  WalkOK'
  BY DEF WalkOK

LEMMA WalkChange ==
  ASSUME WalkOK, NEW a \in Nat, NEW b \in Nat, NEW c \in Nat
  PROVE  /\ walk' = [walk EXCEPT !.off = a] => WalkOK'
         /\ walk' = [walk EXCEPT !.anext = a, !.aoff = b, !.cnt = c] => WalkOK'
         /\ walk' = [walk EXCEPT !.next = a, !.aoff = b, !.cnt = c] => WalkOK'
         /\ walk' = [walk EXCEPT !.aoff = a, !.cnt = b] => WalkOK'
         /\ walk' = walk => WalkOK'
  <1>1. walk' = [walk EXCEPT !.off = a] => WalkOK'
    BY DEF WalkOK
  <1>2. walk' = [walk EXCEPT !.anext = a, !.aoff = b, !.cnt = c] => WalkOK'
    BY DEF WalkOK
  <1>3. walk' = [walk EXCEPT !.next = a, !.aoff = b, !.cnt = c] => WalkOK'
    BY DEF WalkOK
  <1>4. walk' = [walk EXCEPT !.aoff = a, !.cnt = b] => WalkOK'
    BY DEF WalkOK
  <1>5. walk' = walk => WalkOK'
    BY DEF WalkOK
  <1> QED BY <1>1, <1>2, <1>3, <1>4, <1>5

LEMMA CvtHeadStep ==
  ASSUME CallInv, CvtHead \/ CvtHeadsEnd
  PROVE  CallInv'
  <1>1. /\ call \in Calls /\ Kept(call, mem) /\ pc = "head" /\ call.type \in {"VDEF", "VNEED"}
        /\ WalkOK /\ ok \in BOOLEAN /\ walk.off \in Nat
    BY GoingFact, WalkFact DEF CallInv, Going, CvtHead, CvtHeadsEnd
  <1>2. CASE CvtHead
    <2> DEFINE aux == AuxOf(call, mem, Here(walk.off))
    <2>1. /\ walk.off + HeadSize(call) <= call.size /\ ConvertAt(call, walk.off, HeadFields(call))
          /\ call' = call /\ done' = done /\ field' = field /\ dst' = dst
          /\ \/ pc' = "done" /\ ok' = FALSE /\ walk' = walk
             \/ /\ pc' = "aux" /\ ok' = ok
                /\ walk' = [off |-> walk.off, next |-> NextOf(call, mem, Here(walk.off)),
                            aoff |-> walk.off + aux, cnt |-> CntOf(call, mem, Here(walk.off)),
                            anext |-> 1]
      BY <1>2 DEF CvtHead, Fits, Return
    <2>2. /\ aux \in Nat /\ CntOf(call, mem, Here(walk.off)) \in Nat
          /\ NextOf(call, mem, Here(walk.off)) \in Nat
      BY <1>1, <2>1, HeadReads DEF Here
    <2> HIDE DEF aux
    <2>3. WalkOK' /\ ok' \in BOOLEAN
      <3>1. walk.off + aux \in Nat
        BY <1>1, <2>2
      <3>2. CASE walk' = walk
        BY <1>1, <2>1, <3>2 DEF WalkOK
      <3>3. CASE walk' # walk
        BY <1>1, <2>1, <2>2, <3>1, <3>3, WalkRecord
      <3> QED BY <3>2, <3>3
    <2>4. walk.off + Packed(call.class, HeadFields(call)).size <= call.size
      BY <2>1 DEF HeadSize
    <2> QED BY <1>1, <2>1, <2>3, <2>4, TableStep
  <1>3. CASE CvtHeadsEnd
    <2>1. /\ call' = call /\ done' = done /\ field' = field /\ dst' = dst /\ mem' = mem /\ walk' = walk
          /\ pc' = "done" /\ ok' \in BOOLEAN
      BY <1>3 DEF CvtHeadsEnd, Return
    <2>2. WalkOK'
      BY <1>1, <2>1 DEF WalkOK
    <2> QED BY <1>1, <2>1, <2>2, TableStep
  <1> QED BY <1>2, <1>3

LEMMA CvtAuxStep ==
  ASSUME CallInv, CvtAux \/ CvtAuxEnd
  PROVE  CallInv'
  <1>1. /\ call \in Calls /\ Kept(call, mem) /\ pc = "aux" /\ call.type \in {"VDEF", "VNEED"}
        /\ WalkOK /\ ok \in BOOLEAN
        /\ walk.off \in Nat /\ walk.next \in Nat /\ walk.aoff \in Nat /\ walk.cnt \in Nat
    BY GoingFact, WalkFact DEF CallInv, Going, CvtAux, CvtAuxEnd
  <1>2. CASE CvtAux
    <2> DEFINE anext == AuxNextOf(call, mem, Here(walk.aoff))
    <2>1. /\ walk.aoff + AuxSize(call) <= call.size /\ ConvertAt(call, walk.aoff, AuxFields(call))
          /\ call' = call /\ done' = done /\ field' = field /\ dst' = dst /\ pc' = pc /\ ok' = ok
          /\ walk.cnt # 0
          /\ walk' = [walk EXCEPT !.anext = anext, !.aoff = @ + anext, !.cnt = @ - 1]
      BY <1>2 DEF CvtAux, Fits, MoreAux
    <2>2. anext \in Nat
      BY <1>1, <2>1, AuxReads DEF Here
    <2> HIDE DEF anext
    <2>3. WalkOK'
      <3>1. walk.aoff + anext \in Nat /\ walk.cnt - 1 \in Nat
        BY <1>1, <2>1, <2>2
      <3> QED BY <1>1, <2>1, <2>2, <3>1, WalkChange
    <2>4. walk.aoff + Packed(call.class, AuxFields(call)).size <= call.size
      BY <2>1 DEF AuxSize
    <2> QED BY <1>1, <2>1, <2>3, <2>4, TableStep
  <1>3. CASE CvtAuxEnd
    <2>1. /\ call' = call /\ done' = done /\ field' = field /\ dst' = dst /\ mem' = mem
          /\ \/ pc' = "done" /\ ok' = FALSE /\ walk' = walk
             \/ pc' = "head" /\ ok' = ok /\ walk' = [walk EXCEPT !.off = @ + walk.next]
      BY <1>3 DEF CvtAuxEnd, Return
    <2>2. WalkOK' /\ ok' \in BOOLEAN
      <3>1. walk.off + walk.next \in Nat
        BY <1>1
      <3> QED BY <1>1, <2>1, <3>1, WalkChange
    <2> QED BY <1>1, <2>1, <2>2, TableStep
  <1> QED BY <1>2, <1>3

LEMMA OnwardFact ==
  ASSUME WalkOK, ok \in BOOLEAN, Onward
  PROVE  /\ pc' \in {"head", "done"} /\ WalkOK' /\ ok' \in BOOLEAN
         /\ dst' = dst \/ dst'.d_size = Need(call)
  <1>1. walk.off \in Nat /\ walk.next \in Nat
    BY WalkFact
  <1>2. CASE walk.next = 0
    BY <1>2 DEF Onward, Return, Described, WalkOK
  <1>3. CASE walk.next # 0
    BY <1>1, <1>3 DEF Onward, WalkOK
  <1> QED BY <1>2, <1>3

LEMMA XltHeadStep ==
  ASSUME CallInv, XltHead \/ XltHeadsEnd
  PROVE  CallInv'
  <1>1. /\ call \in Calls /\ Kept(call, mem) /\ pc = "head" /\ call.type \in {"VDEF", "VNEED"}
        /\ WalkOK /\ ok \in BOOLEAN /\ walk.off \in Nat
    BY GoingFact, WalkFact DEF CallInv, Going, XltHead, XltHeadsEnd
  <1>2. CASE XltHead
    <2> DEFINE at == Here(walk.off)
               cnt == CntOf(call, mem, at)
               aux == AuxOf(call, mem, at)
    <2>1. /\ walk.off + HeadSize(call) <= call.size
          /\ call' = call /\ done' = done /\ field' = field /\ dst' = dst
          /\ \/ pc' = "done" /\ ok' = FALSE /\ walk' = walk /\ mem' = mem
             \/ /\ ConvertAt(call, walk.off, HeadFields(call)) /\ pc' = "aux" /\ ok' = ok
                /\ walk' = [walk EXCEPT !.next = NextOf(call, mem, at),
                                        !.aoff = walk.off + aux, !.cnt = cnt]
      BY <1>2 DEF XltHead, Fits, Return
    <2>2. aux \in Nat /\ cnt \in Nat /\ NextOf(call, mem, at) \in Nat
      BY <1>1, <2>1, HeadReads DEF Here
    <2> HIDE DEF aux, cnt, at
    <2>3. WalkOK' /\ ok' \in BOOLEAN
      <3>1. walk.off + aux \in Nat
        BY <1>1, <2>2
      <3> QED BY <1>1, <2>1, <2>2, <3>1, WalkChange
    <2>4. walk.off + Packed(call.class, HeadFields(call)).size <= call.size
      BY <2>1 DEF HeadSize
    <2> QED BY <1>1, <2>1, <2>3, <2>4, TableStep
  <1>3. CASE XltHeadsEnd
    <2>1. /\ call' = call /\ done' = done /\ field' = field /\ mem' = mem /\ walk' = walk
          /\ pc' = "done" /\ ok' \in BOOLEAN /\ dst'.d_size = Need(call)
      BY <1>3 DEF XltHeadsEnd, Return, Described
    <2>2. WalkOK'
      BY <1>1, <2>1 DEF WalkOK
    <2> QED BY <1>1, <2>1, <2>2, TableStep
  <1> QED BY <1>2, <1>3

LEMMA XltAuxStep ==
  ASSUME CallInv, XltAux \/ XltAuxEnd \/ XltAuxMisplaced
  PROVE  CallInv'
  <1>1. /\ call \in Calls /\ Kept(call, mem) /\ pc = "aux" /\ call.type \in {"VDEF", "VNEED"}
        /\ WalkOK /\ ok \in BOOLEAN
        /\ walk.off \in Nat /\ walk.next \in Nat /\ walk.aoff \in Nat /\ walk.cnt \in Nat
    BY GoingFact, WalkFact DEF CallInv, Going, XltAux, XltAuxEnd, XltAuxMisplaced
  <1>2. CASE XltAux
    <2> DEFINE anext == AuxNextOf(call, mem, Here(walk.aoff))
    <2>1. /\ walk.aoff + AuxSize(call) <= call.size /\ ConvertAt(call, walk.aoff, AuxFields(call))
          /\ call' = call /\ done' = done /\ field' = field /\ walk.cnt # 0
          /\ \/ Onward
             \/ /\ walk' = [walk EXCEPT !.aoff = @ + anext, !.cnt = @ - 1]
                /\ pc' = pc /\ ok' = ok /\ dst' = dst
      BY <1>2 DEF XltAux, Fits
    <2>2. anext \in Nat
      BY <1>1, <2>1, AuxReads DEF Here
    <2> HIDE DEF anext
    <2>3. pc' \in {"head", "aux", "done"} /\ WalkOK' /\ ok' \in BOOLEAN
          /\ (dst' = dst \/ dst'.d_size = Need(call))
      <3>1. CASE Onward
        BY <1>1, <3>1, OnwardFact
      <3>2. CASE ~Onward
        <4>1. walk.aoff + anext \in Nat /\ walk.cnt - 1 \in Nat
          BY <1>1, <2>1, <2>2
        <4> QED BY <1>1, <2>1, <2>2, <3>2, <4>1, WalkChange
      <3> QED BY <3>1, <3>2
    <2>4. walk.aoff + Packed(call.class, AuxFields(call)).size <= call.size
      BY <2>1 DEF AuxSize
    <2> QED BY <1>1, <2>1, <2>3, <2>4, TableStep
  <1>3. CASE XltAuxEnd
    <2>1. call' = call /\ done' = done /\ field' = field /\ mem' = mem /\ Onward
      BY <1>3 DEF XltAuxEnd
    <2> QED BY <1>1, <2>1, OnwardFact, TableStep
  <1>4. CASE XltAuxMisplaced
    <2>1. /\ call' = call /\ done' = done /\ field' = field /\ mem' = mem /\ walk' = walk /\ dst' = dst
          /\ pc' = "done" /\ ok' \in BOOLEAN
      BY <1>4 DEF XltAuxMisplaced, Return
    <2>2. WalkOK'
      BY <1>1, <2>1 DEF WalkOK
    <2> QED BY <1>1, <2>1, <2>2, TableStep
  <1> QED BY <1>2, <1>3, <1>4

LEMMA NoteStep ==
  ASSUME CallInv, CopyNotes \/ SwapNote \/ NotesEnd
  PROVE  CallInv'
  <1>1. /\ call \in Calls /\ Kept(call, mem) /\ pc = "notes" /\ Going /\ Accepts(call)
        /\ call.type \in Walked /\ WalkOK /\ ok \in BOOLEAN /\ walk.off \in Nat
        /\ call.size \in Nat /\ call.sb \in Nat /\ call.db \in Nat /\ call.class \in Class
        /\ call.tof \in BOOLEAN /\ call.swap \in BOOLEAN /\ done \in Nat /\ field \in Nat
    BY GoingFact, WalkFact, CallFact DEF CallInv, Progress, Going, CopyNotes, SwapNote, NotesEnd
  <1>2. CASE CopyNotes
    <2>1. /\ call' = call /\ done' = done /\ field' = field /\ dst' = dst /\ walk' = walk
          /\ pc' = "done" /\ ok' \in BOOLEAN
          /\ mem' = mem \/ mem' = Convert(mem, call.db, call.sb, Same(call.size))
      BY <1>2 DEF CopyNotes, Return
    <2>2. Kept(call, mem')
      <3>1. /\ DOMAIN Same(call.size) = 0 .. call.size - 1 /\ 0 + call.size <= call.size
            /\ \A o \in 0 .. call.size - 1 : Same(call.size)[o] \in 0 .. call.size - 1
            /\ call.db + 0 = call.db /\ call.sb + 0 = call.sb
        BY <1>1 DEF Same
      <3>2. Kept(call, Convert(mem, call.db + 0, call.sb + 0, Same(call.size)))
        <4>1. 0 \in Nat
          OBVIOUS
        <4> QED BY ONLY <1>1, <3>1, <4>1, WalkedConvert
      <3> QED BY <1>1, <2>1, <3>1, <3>2
    <2>3. WalkOK' /\ Goes
      BY <1>1, <2>1 DEF WalkOK, Goes
    <2> QED BY <1>1, <2>1, <2>2, <2>3, GoingStep
  <1>3. CASE SwapNote
    <2> DEFINE n == NoteBody(Here(walk.off))
               rest == Rest - NoteHdrSize
    <2>1. /\ call' = call /\ done' = done /\ field' = field /\ dst' = dst /\ rest > 0
          /\ IF n > rest
             THEN /\ mem' = Convert(mem, call.db + walk.off, Here(walk.off), NoteBytes(0))
                  /\ pc' = "done" /\ ok' = FALSE /\ walk' = walk
             ELSE /\ mem' = Convert(mem, call.db + walk.off, Here(walk.off), NoteBytes(n))
                  /\ walk' = [walk EXCEPT !.off = @ + NoteHdrSize + n]
                  /\ pc' = pc /\ ok' = ok
      <3>1. Rest > NoteHdrSize => rest > 0
        BY <1>1 DEF Rest, NoteHdrSize
      <3> QED BY <1>3, <3>1 DEF SwapNote, Return
    <2>2. rest = call.size - walk.off - 12 /\ rest \in Nat /\ walk.off + (12 + rest) <= call.size
      BY <1>1, <2>1 DEF Rest, NoteHdrSize
    <2>3. n \in Nat
      <3> DEFINE namesz == Member(call, mem, Here(walk.off), NoteHdr, "n_namesz")
                 descsz == Member(call, mem, Here(walk.off), NoteHdr, "n_descsz")
      <3>1. namesz \in Nat /\ descsz \in Nat
        <4>1. walk.off + Packed(call.class, NoteHdr).size <= call.size
          BY <1>1, <2>2, NoteNumbers DEF NoteHdrSize
        <4> QED BY <1>1, <4>1, NoteNumbers, VersionRead DEF Here
      <3>2. n = IF call.tof THEN Least(RoundUp(RoundUp(namesz, 4) + descsz, 4), rest)
                ELSE RoundUp(namesz, 4) + RoundUp(descsz, 4)
        BY DEF NoteBody
      <3> HIDE DEF namesz, descsz, rest, n
      <3>3. RoundUp(namesz, 4) \in Nat /\ RoundUp(descsz, 4) \in Nat
        BY <3>1, RoundUpFact
      <3>4. RoundUp(namesz, 4) + descsz \in Nat
        BY <3>1, <3>3
      <3>5. RoundUp(RoundUp(namesz, 4) + descsz, 4) \in Nat
        BY <3>4, RoundUpFact
      <3> QED BY <2>2, <3>2, <3>3, <3>5 DEF Least
    <2> HIDE DEF n, rest
    <2>4. ASSUME NEW x \in Nat, x <= rest
          PROVE  Kept(call, Convert(mem, call.db + walk.off, Here(walk.off), NoteBytes(x)))
      <3> DEFINE h == TableBytes(call, NoteHdr)
                 b == NoteBytes(x)
      <3>1. DOMAIN h = 0 .. 11 /\ \A o \in 0 .. 11 : h[o] \in 0 .. 11
        <4>1. /\ Packed(call.class, NoteHdr).size = 12
              /\ DOMAIN h = 0 .. Packed(call.class, NoteHdr).size - 1
              /\ \A o \in DOMAIN h : h[o] \in 0 .. Packed(call.class, NoteHdr).size - 1
          BY <1>1, NoteNumbers, TableBytesFact DEF NoteHdrSize
        <4> HIDE DEF h
        <4> QED BY <4>1
      <3>2. b = [o \in 0 .. (12 + x - 1) |-> IF o < 12 THEN h[o] ELSE o]
        BY DEF NoteBytes, NoteHdrSize
      <3> HIDE DEF h, b
      <3>3. 12 + x \in Nat /\ DOMAIN b = 0 .. (12 + x) - 1 /\ walk.off + (12 + x) <= call.size
        BY <1>1, <2>2, <2>4, <3>2
      <3>4. \A o \in 0 .. (12 + x) - 1 : b[o] \in 0 .. (12 + x) - 1
        <4> TAKE o \in 0 .. (12 + x) - 1
        <4>1. CASE o < 12
          <5>1. h[o] \in 0 .. 11 /\ b[o] = h[o]
            BY <3>1, <3>2, <4>1
          <5> QED BY <5>1
        <4>2. CASE ~(o < 12)
          BY <3>2, <4>2
        <4> QED BY <4>1, <4>2
      <3> QED BY <1>1, <3>3, <3>4, WalkedConvert DEF Here, b
    <2>5. Kept(call, mem')
      BY <2>1, <2>2, <2>3, <2>4
    <2>6. WalkOK'
      <3>1. walk.off + NoteHdrSize + n \in Nat
        BY <1>1, <2>3 DEF NoteHdrSize
      <3> QED BY <1>1, <2>1, <3>1, WalkChange
    <2>7. Goes /\ ok' \in BOOLEAN
      BY <1>1, <2>1 DEF Goes
    <2> QED BY <1>1, <2>1, <2>5, <2>6, <2>7, GoingStep
  <1>4. CASE NotesEnd
    <2>1. /\ call' = call /\ done' = done /\ field' = field /\ dst' = dst /\ walk' = walk /\ mem' = mem
          /\ pc' = "done" /\ ok' \in BOOLEAN
      BY <1>4 DEF NotesEnd, Return
    <2>2. WalkOK' /\ Goes
      BY <1>1, <2>1 DEF WalkOK, Goes
    <2> QED BY <1>1, <2>1, <2>2, GoingStep
  <1> QED BY <1>2, <1>3, <1>4

\* The bytes of a hash table, from its two counts.
LEMMA HashBytesFact ==
  ASSUME NEW k, NEW bloom \in Nat, bloom % 8 = 0, NEW whole \in Nat, whole % 4 = 0, 16 + bloom <= whole
  PROVE  /\ DOMAIN HashBytes(k, bloom, whole) = 0 .. whole - 1
         /\ \A o \in 0 .. whole - 1 : HashBytes(k, bloom, whole)[o] \in 0 .. whole - 1
  <1> DEFINE b == HashBytes(k, bloom, whole)
  <1>1. PICK x, y : x = bloom \div 8 /\ y = whole \div 4
    OBVIOUS
  <1>2. x \in Nat /\ y \in Nat /\ bloom = 8 * x /\ whole = 4 * y
    BY <1>1
  <1>3. b = [o \in 0 .. (whole - 1) |->
               IF ~k.swap THEN o
               ELSE IF o >= 16 /\ o < 16 + bloom THEN Turned(o, 16, 8) ELSE Turned(o, 0, 4)]
    BY DEF HashBytes, HashHdrSize
  <1> HIDE DEF b
  <1>4. ASSUME NEW o \in 0 .. whole - 1
        PROVE  b[o] \in 0 .. whole - 1
    <2>1. o >= 16 /\ o < 16 + bloom => Turned(o, 16, 8) \in 0 .. whole - 1
      <3>1. SUFFICES ASSUME o >= 16, o < 16 + bloom PROVE Turned(o, 16, 8) \in 0 .. whole - 1
        OBVIOUS
      <3>2. PICK q, r : q = (o - 16) \div 8 /\ r = (o - 16) % 8
        OBVIOUS
      <3>3. q \in Nat /\ r \in 0 .. 7 /\ o - 16 = q * 8 + r
        BY <3>1, <3>2
      <3>4. q < x
        BY <1>2, <3>1, <3>3
      <3>5. Turned(o, 16, 8) = 16 + q * 8 + (7 - r)
        BY <3>2 DEF Turned
      <3> QED BY <1>2, <3>3, <3>4, <3>5
    <2>2. Turned(o, 0, 4) \in 0 .. whole - 1
      <3>2. PICK q, r : q = o \div 4 /\ r = o % 4
        OBVIOUS
      <3>3. q \in Nat /\ r \in 0 .. 3 /\ o = q * 4 + r
        BY <3>2
      <3>4. q < y
        BY <1>2, <3>3
      <3>5. Turned(o, 0, 4) = q * 4 + (3 - r)
        BY <3>2, <3>3 DEF Turned
      <3> QED BY <1>2, <3>3, <3>4, <3>5
    <2> QED BY <1>3, <2>1, <2>2
  <1> QED BY <1>3, <1>4 DEF b

LEMMA ConvertHashStep ==
  ASSUME CallInv, ConvertHash
  PROVE  CallInv'
  <1>1. /\ call \in Calls /\ Kept(call, mem) /\ pc = "hash" /\ Going /\ Accepts(call)
        /\ call.type \in Walked /\ WalkOK /\ ok \in BOOLEAN
        /\ call.size \in Nat /\ call.sb \in Nat /\ call.db \in Nat /\ call.class \in Class
        /\ done \in Nat /\ field \in Nat
    BY GoingFact, CallFact DEF CallInv, Progress, Going, ConvertHash
  <1> DEFINE rest == call.size - HashHdrSize
             words == Member(call, mem, call.sb, HashHdr, "gh_maskwords")
             buckets == Member(call, mem, call.sb, HashHdr, "gh_nbuckets")
             table == 8 * words + 4 * buckets
             chains == 4 * ((rest - table) \div 4)
  <1>2. /\ call' = call /\ done' = done /\ field' = field /\ dst' = dst /\ walk' = walk
        /\ pc' = "done" /\ ok' \in BOOLEAN
        /\ IF rest < 0 \/ rest < table THEN mem' = mem
           ELSE mem' = Convert(mem, call.db, call.sb,
                               HashBytes(call, 8 * words, HashHdrSize + table + chains))
    BY DEF ConvertHash, Return
  <1>3. Kept(call, mem')
    <2>1. CASE rest < 0 \/ rest < table
      BY <1>1, <1>2, <2>1
    <2>2. CASE ~(rest < 0 \/ rest < table)
      <3>1. rest = call.size - 16 /\ rest \in Nat
        BY <1>1, <2>2 DEF HashHdrSize
      <3>2. words \in Nat /\ buckets \in Nat
        <4>1. 0 + Packed(call.class, HashHdr).size <= call.size /\ call.sb + 0 = call.sb
          BY <1>1, <3>1, HashNumbers DEF HashHdrSize
        <4>2. /\ Member(call, mem, call.sb + 0, HashHdr, "gh_maskwords") \in Nat
              /\ Member(call, mem, call.sb + 0, HashHdr, "gh_nbuckets") \in Nat
          BY <1>1, <4>1, HashNumbers, VersionRead
        <4> QED BY <4>1, <4>2
      <3> HIDE DEF words, buckets, rest
      <3>3. PICK z : z = (rest - table) \div 4
        OBVIOUS
      <3>4. z \in Nat /\ 4 * z <= rest - table /\ chains = 4 * z
        BY <2>2, <3>1, <3>2, <3>3
      <3> DEFINE whole == 16 + 8 * words + 4 * buckets + 4 * z
                 b == HashBytes(call, 8 * words, whole)
      <3>5. whole = HashHdrSize + table + chains /\ whole \in Nat /\ 0 + whole <= call.size
        BY <1>1, <3>1, <3>2, <3>4 DEF HashHdrSize
      <3>6. DOMAIN b = 0 .. whole - 1 /\ \A o \in 0 .. whole - 1 : b[o] \in 0 .. whole - 1
        <4>1. /\ 8 * words \in Nat /\ (8 * words) % 8 = 0 /\ whole \in Nat /\ whole % 4 = 0
              /\ 16 + 8 * words <= whole
          BY <3>2, <3>4
        <4> HIDE DEF whole
        <4> QED BY <4>1, HashBytesFact
      <3>7. mem' = Convert(mem, call.db, call.sb, b)
        BY <1>2, <2>2, <3>5
      <3> HIDE DEF whole, b
      <3>8. 0 \in Nat /\ call.db + 0 = call.db /\ call.sb + 0 = call.sb
        BY <1>1
      <3>9. Kept(call, Convert(mem, call.db + 0, call.sb + 0, b))
        BY ONLY <1>1, <3>5, <3>6, <3>8, WalkedConvert
      <3> QED BY <3>7, <3>8, <3>9
    <2> QED BY <2>1, <2>2
  <1>4. WalkOK' /\ Goes
    BY <1>1, <1>2 DEF WalkOK, Goes
  <1> QED BY <1>1, <1>2, <1>3, <1>4, GoingStep

\* Every step of a call, of either library, keeps CallInv: a call behind the
\* checks is one they accept, its records and members are counted within the
\* table, the bytes outside the destination are as they were and what a walk
\* reads of the source are still bytes.
THEOREM Invariant == Spec => []CallInv
  <1>1. Init => CallInv
    BY InitCallInv
  <1>2. CallInv /\ [Next]_vars => CallInv'
    <2> SUFFICES ASSUME CallInv, [Next]_vars PROVE CallInv'
      OBVIOUS
    <2>1. CASE Refuse \/ Accept
      BY <2>1, ChecksStep
    <2>2. CASE CopyAtOnce
      BY <2>2, CopyAtOnceStep
    <2>3. CASE ConvertRecord
      BY <2>3, ConvertRecordStep
    <2>4. CASE CopyMember
      BY <2>4, CopyMemberStep
    <2>5. CASE CvtHead \/ CvtHeadsEnd
      BY <2>5, CvtHeadStep
    <2>6. CASE CvtAux \/ CvtAuxEnd
      BY <2>6, CvtAuxStep
    <2>7. CASE XltHead \/ XltHeadsEnd
      BY <2>7, XltHeadStep
    <2>8. CASE XltAux \/ XltAuxEnd \/ XltAuxMisplaced
      BY <2>8, XltAuxStep
    <2>9. CASE CopyNotes \/ SwapNote \/ NotesEnd
      BY <2>9, NoteStep
    <2>10. CASE ConvertHash
      BY <2>10, ConvertHashStep
    <2>11. CASE Answered \/ UNCHANGED vars
      <3>1. /\ call' = call /\ mem' = mem /\ pc' = pc /\ done' = done /\ field' = field /\ walk' = walk
            /\ dst' = dst /\ ok' = ok
        BY <2>11 DEF Answered, vars
      <3> QED BY <3>1 DEF CallInv, Phase, Progress, WalkOK
    <2> QED BY <2>1, <2>2, <2>3, <2>4, <2>5, <2>6, <2>7, <2>8, <2>9, <2>10, <2>11 DEF Next
  <1> QED BY <1>1, <1>2, PTL DEF Spec

\* The memory stays bytes at addresses, the walk's places numbers, in every
\* call of either library.
THEOREM TypeCorrect == Spec => []TypeOK
  <1>1. CallInv => TypeOK
    BY DEF CallInv, Kept, Phase, Progress, WalkOK, TypeOK
  <1> QED BY <1>1, Invariant, PTL

\* Of any call, with buffers of any size anywhere: no byte outside the
\* records of the destination changes, and none at all when the call is
\* refused for its arguments.
THEOREM Contained == Spec => []StaysInside
  <1>1. CallInv => StaysInside
    <2> SUFFICES ASSUME CallInv PROVE StaysInside
      OBVIOUS
    <2>1. CASE Accepts(call)
      <3>1. call \in Calls /\ Kept(call, mem) /\ call.room >= Need(call)
        BY <2>1, AcceptsFact DEF CallInv
      <3>2. Need(call) \in Nat
        <4>1. CASE call.type \in Walked
          BY <2>1, <3>1, <4>1, AcceptsFact, CallFact
        <4>2. CASE call.type \notin Walked
          <5>1. RecordCall(call)
            BY <2>1, <4>2, TranslatorFact DEF RecordCall, Walked
          <5> QED BY <3>1, <5>1, RecordFact
        <4> QED BY <4>1, <4>2
      <3>3. Least(Need(call), call.room) = Need(call)
        BY <3>1, <3>2, CallFact DEF Least
      <3>4. /\ DOMAIN mem = 0 .. Top(call)
            /\ \A a \in 0 .. Top(call) :
                  a \notin call.db .. call.db + Need(call) - 1 => mem[a] = Original(call)[a]
        BY <3>1 DEF Kept
      <3> QED BY <2>1, <3>3, <3>4 DEF StaysInside, Was
    <2>2. CASE ~Accepts(call)
      BY <2>2 DEF CallInv, StaysInside, Was
    <2> QED BY <2>1, <2>2
  <1> QED BY <1>1, Invariant, PTL

-----------------------------------------------------------------------------
(***************************************************************************)
(* One record over the other: what is written and what is still to be read *)
(* are apart.                                                              *)
(***************************************************************************)
LEMMA FileIsNoLonger ==
  ASSUME NEW p, WellLaid(p)
  PROVE  p.file.size <= p.mem.size
  <1> DEFINE n == Len(p.order)
             x == p.order[1]
  <1>1. /\ n \in Nat \ {0} /\ p.file.size \in Nat /\ p.mem.size \in Nat
        /\ \A i \in 1 .. n :
              /\ p.file.at[p.order[i]] \in Nat /\ p.mem.at[p.order[i]] \in Nat
              /\ p.file.at[p.order[i]] <= p.mem.at[p.order[i]]
              /\ p.mem.at[p.order[i]] - p.file.at[p.order[i]] <= p.mem.size - p.file.size
    BY Zenon DEF WellLaid
  <1>2. 1 \in 1 .. n
    BY <1>1
  <1>3. /\ p.file.at[x] \in Nat /\ p.mem.at[x] \in Nat /\ p.file.at[x] <= p.mem.at[x]
        /\ p.mem.at[x] - p.file.at[x] <= p.mem.size - p.file.size
    BY <1>1, <1>2
  <1> QED BY <1>1, <1>3

LEMMA DstApart ==
  ASSUME NEW k \in Calls, RecordCall(k), NEW r \in 0 .. Count(k) - 1, NEW q \in 0 .. Count(k) - 1, r < q
  PROVE  DstAt(k, r) + To(PlanOf(k), k.tof).size <= DstAt(k, q)
  <1> DEFINE T == To(PlanOf(k), k.tof).size
  <1>1. T \in Nat /\ k.db \in Nat /\ Count(k) \in Nat
    BY RecordFact, CallFact
  <1>2. DstAt(k, r) = k.db + r * T /\ DstAt(k, q) = k.db + q * T
    BY DEF DstAt
  <1> HIDE DEF T
  <1>3. r * T + T <= q * T /\ r * T \in Nat /\ q * T \in Nat
    BY <1>1, TimesFact
  <1>4. PICK x, y : x = r * T /\ y = q * T
    OBVIOUS
  <1>5. x + T <= y /\ x \in Nat /\ y \in Nat /\ DstAt(k, r) = k.db + x /\ DstAt(k, q) = k.db + y
    BY <1>2, <1>3, <1>4
  <1> QED BY <1>1, <1>5 DEF T

\* In place, and from r on to q: forward where records shrink or keep their
\* size, backward where they grow.
LEMMA SrcApart ==
  ASSUME NEW k \in Calls, RecordCall(k), ~Overlap(k), NEW r \in 0 .. Count(k) - 1, NEW q \in 0 .. Count(k) - 1,
         \/ r < q /\ To(PlanOf(k), k.tof).size <= From(PlanOf(k), k.tof).size
         \/ q < r /\ From(PlanOf(k), k.tof).size <= To(PlanOf(k), k.tof).size
  PROVE  \/ DstAt(k, r) + To(PlanOf(k), k.tof).size <= SrcAt(k, q)
         \/ SrcAt(k, q) + From(PlanOf(k), k.tof).size <= DstAt(k, r)
  <1> DEFINE F == From(PlanOf(k), k.tof).size
             T == To(PlanOf(k), k.tof).size
  <1>1. /\ F \in Nat /\ T \in Nat /\ k.db \in Nat /\ k.sb \in Nat /\ Count(k) \in Nat
        /\ Need(k) \in Nat /\ Need(k) <= k.room /\ k.room \in Nat /\ k.size \in Nat
    BY RecordFact, CallFact
  <1>2. /\ SrcAt(k, q) = k.sb + q * F /\ DstAt(k, r) = k.db + r * T
        /\ SrcAt(k, q) \in Nat /\ DstAt(k, r) \in Nat
        /\ k.sb <= SrcAt(k, q) /\ SrcAt(k, q) + F <= k.sb + k.size
        /\ k.db <= DstAt(k, r) /\ DstAt(k, r) + T <= k.db + Need(k)
    BY RecordIn DEF SrcAt, DstAt
  <1>3. \/ r < q /\ T <= F
        \/ q < r /\ F <= T
    OBVIOUS
  <1> HIDE DEF F, T
  <1>4. CASE k.db # k.sb
    <2>1. k.db + k.room <= k.sb \/ k.sb + k.size <= k.db
      BY <1>1, <1>4 DEF Overlap
    <2> QED BY <1>1, <1>2, <2>1 DEF F, T
  <1>5. CASE k.db = k.sb /\ r < q /\ T <= F
    <2>1. r * T + T <= q * F /\ r * T \in Nat /\ q * F \in Nat
      BY <1>1, <1>5, TimesFact
    <2>2. PICK x, y : x = r * T /\ y = q * F
      OBVIOUS
    <2>3. x + T <= y /\ x \in Nat /\ y \in Nat /\ SrcAt(k, q) = k.sb + y /\ DstAt(k, r) = k.sb + x
      BY <1>2, <1>5, <2>1, <2>2
    <2> QED BY <1>1, <2>3 DEF F, T
  <1>6. CASE k.db = k.sb /\ q < r /\ F <= T
    <2>1. q * F + F <= r * T /\ r * T \in Nat /\ q * F \in Nat
      BY <1>1, <1>6, TimesFact
    <2>2. PICK x, y : x = r * T /\ y = q * F
      OBVIOUS
    <2>3. y + F <= x /\ x \in Nat /\ y \in Nat /\ SrcAt(k, q) = k.sb + y /\ DstAt(k, r) = k.sb + x
      BY <1>2, <1>6, <2>1, <2>2
    <2> QED BY <1>1, <2>3 DEF F, T
  <1> QED BY <1>3, <1>4, <1>5, <1>6

\* elftoolchain takes them in that order.
LEMMA RecordOrder ==
  ASSUME NEW k \in Calls, RecordCall(k), NEW i \in 0 .. Count(k) - 1, NEW j \in 0 .. Count(k) - 1, j < i
  PROVE  /\ Record(k, i) \in 0 .. Count(k) - 1 /\ Record(k, j) \in 0 .. Count(k) - 1
         /\ \/ Record(k, j) < Record(k, i) /\ To(PlanOf(k), k.tof).size <= From(PlanOf(k), k.tof).size
            \/ Record(k, i) < Record(k, j) /\ From(PlanOf(k), k.tof).size <= To(PlanOf(k), k.tof).size
  <1>1. Count(k) \in Nat /\ k.tof \in BOOLEAN
    BY RecordFact, CallFact
  <1>2. PlanOf(k).file.size <= PlanOf(k).mem.size
    BY PlannedFact, FileIsNoLonger DEF Planned
  <1>3. CASE Backward(k)
    <2>1. From(PlanOf(k), k.tof).size <= To(PlanOf(k), k.tof).size
      BY <1>1, <1>2, <1>3 DEF Backward, From, To
    <2> QED BY <1>1, <1>3, <2>1 DEF Record
  <1>4. CASE ~Backward(k)
    <2>1. To(PlanOf(k), k.tof).size <= From(PlanOf(k), k.tof).size
      <3>1. CASE k.tof
        BY <1>2, <3>1 DEF From, To
      <3>2. CASE ~k.tof
        <4>1. Scalar(k)
          BY <1>4, <3>2 DEF Backward
        <4>2. From(PlanOf(k), k.tof).size = To(PlanOf(k), k.tof).size
          BY <4>1, ScalarFact
        <4>3. From(PlanOf(k), k.tof).size \in Nat
          BY RecordFact
        <4> QED BY <4>2, <4>3
      <3> QED BY <3>1, <3>2
    <2> QED BY <1>1, <1>4, <2>1 DEF Record
  <1> QED BY <1>3, <1>4

\* What a conversion leaves and what it writes.
LEMMA ConvertPoint ==
  ASSUME NEW m, NEW d \in Int, NEW s, NEW bytes, NEW a \in DOMAIN m, a \in Int
  PROVE  /\ a - d \notin DOMAIN bytes => Convert(m, d, s, bytes)[a] = m[a]
         /\ a - d \in DOMAIN bytes /\ bytes[a - d] # Padding =>
               Convert(m, d, s, bytes)[a] = m[s + bytes[a - d]]
  BY DEF Convert

LEMMA RecordAddress ==
  ASSUME NEW k \in Calls, RecordCall(k), NEW m, Kept(k, m), NEW r \in 0 .. Count(k) - 1
  PROVE  /\ \A o \in 0 .. To(PlanOf(k), k.tof).size - 1 : DstAt(k, r) + o \in DOMAIN m /\ DstAt(k, r) + o \in Int
         /\ \A o \in 0 .. From(PlanOf(k), k.tof).size - 1 : SrcAt(k, r) + o \in DOMAIN m /\ SrcAt(k, r) + o \in Int
  <1> DEFINE F == From(PlanOf(k), k.tof).size
             T == To(PlanOf(k), k.tof).size
  <1>1. /\ SrcAt(k, r) \in Nat /\ DstAt(k, r) \in Nat
        /\ k.sb <= SrcAt(k, r) /\ SrcAt(k, r) + F <= k.sb + k.size
        /\ k.db <= DstAt(k, r) /\ DstAt(k, r) + T <= k.db + Need(k)
        /\ F \in Nat /\ T \in Nat /\ Need(k) \in Nat /\ Need(k) <= k.room /\ k.room \in Nat
        /\ k.sb \in Nat /\ k.db \in Nat /\ k.size \in Nat
        /\ Top(k) \in Nat /\ k.sb + k.size <= Top(k) /\ k.db + k.room <= Top(k)
    <2>1. /\ SrcAt(k, r) \in Nat /\ DstAt(k, r) \in Nat
          /\ k.sb <= SrcAt(k, r) /\ SrcAt(k, r) + F <= k.sb + k.size
          /\ k.db <= DstAt(k, r) /\ DstAt(k, r) + T <= k.db + Need(k)
      BY RecordIn, Zenon
    <2>2. F \in Nat /\ T \in Nat /\ Need(k) \in Nat /\ Need(k) <= k.room
      BY RecordFact
    <2> QED BY <2>1, <2>2, CallFact
  <1>2. DOMAIN m = 0 .. Top(k)
    BY DEF Kept
  <1> HIDE DEF F, T
  <1>3. \A o \in 0 .. T - 1 : DstAt(k, r) + o \in 0 .. Top(k)
    BY <1>1
  <1>4. \A o \in 0 .. F - 1 : SrcAt(k, r) + o \in 0 .. Top(k)
    BY <1>1
  <1> QED BY <1>2, <1>3, <1>4 DEF F, T

LEMMA MapFact ==
  ASSUME NEW k \in Calls, RecordCall(k)
  PROVE  /\ DOMAIN RecordMap(k) = 0 .. To(PlanOf(k), k.tof).size - 1
         /\ \A o \in DOMAIN RecordMap(k) :
               RecordMap(k)[o] = Padding \/ RecordMap(k)[o] \in 0 .. From(PlanOf(k), k.tof).size - 1
  <1>1. RecordMap(k) = RecordBytes(PlanOf(k), k.tof, k.swap)
    BY RecordMapFact
  <1>2. /\ Inside(From(PlanOf(k), k.tof), PlanOf(k).width) /\ Inside(To(PlanOf(k), k.tof), PlanOf(k).width)
        /\ k.tof \in BOOLEAN /\ k.swap \in BOOLEAN
    BY SidesFact
  <1> QED BY <1>1, <1>2, RecordBytesFact

RecordWritten(k, m, r) == Convert(m, DstAt(k, r), SrcAt(k, r), RecordMap(k))

\* The record just converted.
LEMMA WrittenIsExact ==
  ASSUME NEW k \in Calls, RecordCall(k), NEW m, Kept(k, m),
         NEW r \in 0 .. Count(k) - 1, Intact(k, m, r)
  PROVE  Exact(k, RecordWritten(k, m, r), r)
  <1> SUFFICES ASSUME NEW o \in DOMAIN RecordMap(k), RecordMap(k)[o] # Padding
               PROVE  RecordWritten(k, m, r)[DstAt(k, r) + o] = Was(k)[SrcAt(k, r) + RecordMap(k)[o]]
    BY DEF Exact
  <1>1. /\ o \in 0 .. To(PlanOf(k), k.tof).size - 1
        /\ RecordMap(k)[o] \in 0 .. From(PlanOf(k), k.tof).size - 1
    BY MapFact
  <1>2. DstAt(k, r) + o \in DOMAIN m /\ DstAt(k, r) + o \in Int /\ DstAt(k, r) \in Nat
    BY <1>1, RecordAddress, RecordIn
  <1>3. (DstAt(k, r) + o) - DstAt(k, r) = o
    BY <1>1, <1>2
  <1>4. RecordWritten(k, m, r)[DstAt(k, r) + o] = m[SrcAt(k, r) + RecordMap(k)[o]]
    BY <1>2, <1>3, ConvertPoint DEF RecordWritten
  <1>5. m[SrcAt(k, r) + RecordMap(k)[o]] = Was(k)[SrcAt(k, r) + RecordMap(k)[o]]
    BY <1>1 DEF Intact
  <1> QED BY <1>4, <1>5

\* A byte that is not of the record just converted.
LEMMA ElsewhereStays ==
  ASSUME NEW k \in Calls, RecordCall(k), NEW m, NEW r \in 0 .. Count(k) - 1,
         NEW a \in DOMAIN m, a \in Int,
         a < DstAt(k, r) \/ DstAt(k, r) + To(PlanOf(k), k.tof).size <= a
  PROVE  RecordWritten(k, m, r)[a] = m[a]
  <1>1. DstAt(k, r) \in Nat /\ To(PlanOf(k), k.tof).size \in Nat
    BY RecordIn, RecordFact
  <1>2. a - DstAt(k, r) \notin 0 .. To(PlanOf(k), k.tof).size - 1
    BY <1>1
  <1>3. a - DstAt(k, r) \notin DOMAIN RecordMap(k)
    BY <1>2, MapFact
  <1> QED BY <1>1, <1>3, ConvertPoint DEF RecordWritten

LEMMA ExactStays ==
  ASSUME NEW k \in Calls, RecordCall(k), NEW m, Kept(k, m),
         NEW r \in 0 .. Count(k) - 1, NEW q \in 0 .. Count(k) - 1, r < q \/ q < r, Exact(k, m, q)
  PROVE  Exact(k, RecordWritten(k, m, r), q)
  <1> SUFFICES ASSUME NEW o \in DOMAIN RecordMap(k), RecordMap(k)[o] # Padding
               PROVE  RecordWritten(k, m, r)[DstAt(k, q) + o] = m[DstAt(k, q) + o]
    BY DEF Exact
  <1>1. o \in 0 .. To(PlanOf(k), k.tof).size - 1 /\ To(PlanOf(k), k.tof).size \in Nat
    BY MapFact, RecordFact
  <1>2. DstAt(k, q) + o \in DOMAIN m /\ DstAt(k, q) + o \in Int /\ DstAt(k, q) \in Nat /\ DstAt(k, r) \in Nat
    BY <1>1, RecordAddress, RecordIn
  <1>3. \/ DstAt(k, r) + To(PlanOf(k), k.tof).size <= DstAt(k, q)
        \/ DstAt(k, q) + To(PlanOf(k), k.tof).size <= DstAt(k, r)
    BY DstApart
  <1>4. \/ DstAt(k, q) + o < DstAt(k, r)
        \/ DstAt(k, r) + To(PlanOf(k), k.tof).size <= DstAt(k, q) + o
    BY <1>1, <1>2, <1>3
  <1> QED BY <1>2, <1>4, ElsewhereStays

LEMMA IntactStays ==
  ASSUME NEW k \in Calls, RecordCall(k), ~Overlap(k), NEW m, Kept(k, m),
         NEW r \in 0 .. Count(k) - 1, NEW q \in 0 .. Count(k) - 1, Intact(k, m, q),
         \/ r < q /\ To(PlanOf(k), k.tof).size <= From(PlanOf(k), k.tof).size
         \/ q < r /\ From(PlanOf(k), k.tof).size <= To(PlanOf(k), k.tof).size
  PROVE  Intact(k, RecordWritten(k, m, r), q)
  <1> SUFFICES ASSUME NEW o \in 0 .. From(PlanOf(k), k.tof).size - 1
               PROVE  RecordWritten(k, m, r)[SrcAt(k, q) + o] = m[SrcAt(k, q) + o]
    BY DEF Intact
  <1>1. From(PlanOf(k), k.tof).size \in Nat /\ To(PlanOf(k), k.tof).size \in Nat
    BY RecordFact
  <1>2. SrcAt(k, q) + o \in DOMAIN m /\ SrcAt(k, q) + o \in Int /\ SrcAt(k, q) \in Nat /\ DstAt(k, r) \in Nat
    BY RecordAddress, RecordIn
  <1>3. \/ DstAt(k, r) + To(PlanOf(k), k.tof).size <= SrcAt(k, q)
        \/ SrcAt(k, q) + From(PlanOf(k), k.tof).size <= DstAt(k, r)
    BY SrcApart
  <1>4. \/ SrcAt(k, q) + o < DstAt(k, r)
        \/ DstAt(k, r) + To(PlanOf(k), k.tof).size <= SrcAt(k, q) + o
    BY <1>1, <1>2, <1>3
  <1> QED BY <1>2, <1>4, ElsewhereStays

\* The inductive form, of one memory and one count of records done.
SoFar(k, m, n) ==
    \A i \in 0 .. Count(k) - 1 :
        IF i < n THEN Exact(k, m, Record(k, i)) ELSE Intact(k, m, Record(k, i))

LEMMA SoFarStep ==
  ASSUME NEW k \in Calls, RecordCall(k), k.lib = "elftoolchain", ~Overlap(k), NEW m, Kept(k, m),
         NEW n \in 0 .. Count(k) - 1, SoFar(k, m, n)
  PROVE  SoFar(k, RecordWritten(k, m, Record(k, n)), n + 1)
  <1> DEFINE w == RecordWritten(k, m, Record(k, n))
  <1> SUFFICES ASSUME NEW i \in 0 .. Count(k) - 1
               PROVE  IF i < n + 1 THEN Exact(k, w, Record(k, i)) ELSE Intact(k, w, Record(k, i))
    BY DEF SoFar
  <1>1. Count(k) \in Nat
    BY RecordFact
  <1>2. Record(k, i) \in 0 .. Count(k) - 1 /\ Record(k, n) \in 0 .. Count(k) - 1
    BY <1>1 DEF Record
  <1>3. CASE i < n
    <2>1. Record(k, i) < Record(k, n) \/ Record(k, n) < Record(k, i)
      BY <1>3, RecordOrder
    <2>2. Exact(k, m, Record(k, i))
      BY <1>3 DEF SoFar
    <2>3. Exact(k, w, Record(k, i))
      BY <1>2, <2>1, <2>2, ExactStays
    <2> QED BY <1>1, <1>3, <2>3
  <1>4. CASE i = n
    <2>1. Intact(k, m, Record(k, i))
      BY <1>1, <1>4 DEF SoFar
    <2>2. Exact(k, w, Record(k, i))
      BY <1>2, <1>4, <2>1, WrittenIsExact
    <2> QED BY <1>1, <1>4, <2>2
  <1>5. CASE n < i
    <2>1. Intact(k, m, Record(k, i))
      BY <1>1, <1>5 DEF SoFar
    <2>2. \/ Record(k, n) < Record(k, i) /\ To(PlanOf(k), k.tof).size <= From(PlanOf(k), k.tof).size
          \/ Record(k, i) < Record(k, n) /\ From(PlanOf(k), k.tof).size <= To(PlanOf(k), k.tof).size
      BY <1>5, RecordOrder
    <2>3. Intact(k, w, Record(k, i))
      BY <1>2, <2>1, <2>2, IntactStays
    <2> QED BY <1>1, <1>5, <2>3
  <1> QED BY <1>1, <1>3, <1>4, <1>5

LEMMA SoFarStart ==
  ASSUME NEW k \in Calls
  PROVE  SoFar(k, Original(k), 0)
  <1>1. \A i \in 0 .. Count(k) - 1 : ~(i < 0) /\ Intact(k, Original(k), Record(k, i))
    BY DEF Intact, Was
  <1> QED BY <1>1 DEF SoFar

\* elftoolchain refuses buffers that overlap.
LEMMA NoOverlap ==
  ASSUME NEW k \in Calls, Accepts(k), k.lib = "elftoolchain"
  PROVE  ~Overlap(k)
  BY DEF Accepts, ToolchainAccepts

LEMMA SoFarNext ==
  ASSUME CallInv, ConvertedSoFar, [Next]_vars
  PROVE  ConvertedSoFar'
  <1>1. call \in Calls
    BY DEF CallInv
  <1>2. CASE UNCHANGED vars
    BY <1>2 DEF vars, ConvertedSoFar
  <1>3. CASE Next
    <2> SUFFICES ASSUME call'.lib = "elftoolchain", pc' = "records", ~CopiedAtOnce(call')
                 PROVE  SoFar(call', mem', done')
      BY DEF ConvertedSoFar, SoFar
    <2>1. CASE Accept
      <3>1. /\ pc = "called" /\ mem' = mem /\ done' = done /\ call' = call
        BY <2>1 DEF Accept
      <3>2. mem = Original(call) /\ done = 0
        BY <3>1 DEF CallInv, Progress
      <3> QED BY <1>1, <3>1, <3>2, SoFarStart
    <2>2. CASE ConvertRecord
      <3>1. /\ pc = "records" /\ call.lib = "elftoolchain" /\ ~CopiedAtOnce(call) /\ call' = call
        BY <2>2 DEF ConvertRecord
      <3>2. done # Count(call)
        BY <2>2 DEF ConvertRecord, Return
      <3>3. mem' = RecordWritten(call, mem, Record(call, done)) /\ done' = done + 1
        BY <2>2, <3>2 DEF ConvertRecord, RecordWritten
      <3>4. RecordCall(call) /\ Kept(call, mem) /\ Accepts(call)
        BY <3>1, GoingFact DEF Going
      <3>5. done \in Nat /\ done <= Count(call) /\ Count(call) \in Nat
        BY <1>1, <3>1, <3>4, RecordFact DEF CallInv, Progress
      <3>6. done \in 0 .. Count(call) - 1
        BY <3>2, <3>5
      <3>7. SoFar(call, mem, done)
        BY <3>1 DEF ConvertedSoFar, SoFar
      <3> QED BY <1>1, <3>1, <3>3, <3>4, <3>6, <3>7, NoOverlap, SoFarStep
    <2>3. CASE CopyMember
      <3>1. call.lib = "lib" /\ call' = call
        BY <2>3 DEF CopyMember
      <3> QED BY <3>1
    <2>4. CASE CvtHead \/ CvtHeadsEnd \/ CvtAux \/ CvtAuxEnd
      BY <2>4 DEF CvtHead, CvtHeadsEnd, CvtAux, CvtAuxEnd, Return
    <2>5. CASE XltHead \/ XltHeadsEnd \/ XltAux \/ XltAuxEnd \/ XltAuxMisplaced
      BY <2>5 DEF XltHead, XltHeadsEnd, XltAux, XltAuxEnd, XltAuxMisplaced, Onward, Return
    <2>6. CASE CopyNotes \/ SwapNote \/ NotesEnd
      BY <2>6 DEF CopyNotes, SwapNote, NotesEnd, Return
    <2>7. CASE Refuse \/ CopyAtOnce \/ ConvertHash
      BY <2>7 DEF Refuse, CopyAtOnce, ConvertHash, Return
    <2>8. CASE Answered
      BY <2>8 DEF Answered, vars, ConvertedSoFar, SoFar
    <2> QED BY <1>3, <2>1, <2>2, <2>3, <2>4, <2>5, <2>6, <2>7, <2>8 DEF Next
  <1> QED BY <1>2, <1>3

\* While elftoolchain converts records in place or into another buffer, those
\* that are done are exact, byte by byte, and those to come have not been
\* overwritten, whatever the sizes of the two layouts and however many records:
\* _tom begins with the last because records grow, _tof with the first.
THEOREM InPlace == Spec => []ConvertedSoFar
  <1>1. Init => ConvertedSoFar
    BY DEF Init, ConvertedSoFar
  <1>2. CallInv /\ ConvertedSoFar /\ [Next]_vars => ConvertedSoFar'
    BY SoFarNext
  <1> QED BY <1>1, <1>2, Invariant, PTL DEF Spec

-----------------------------------------------------------------------------
(***************************************************************************)
(* lib copies member by member: what is written and what is still to be    *)
(* read are apart within a record as well.                                 *)
(***************************************************************************)
SrcSide(k) == From(PlanOf(k), k.tof)
DstSide(k) == To(PlanOf(k), k.tof)
WidthOf(k, x) == PlanOf(k).width[x]
MemberMap(k, x) == FieldBytes(PlanOf(k), x, k.tof, k.swap)
MemberNames(k) == DOMAIN PlanOf(k).width

SrcSpot(k, r, x) == SrcAt(k, r) + SrcSide(k).at[x]
DstSpot(k, r, x) == DstAt(k, r) + DstSide(k).at[x]

\* The bytes of a record that lib's stores lose.
LostIn(k, o) == OverItself(k) /\ LatterHalf(k, o)

MemberExact(k, m, r, x) ==
    \A o \in DOMAIN MemberMap(k, x) :
        ~LostIn(k, o) => m[DstAt(k, r) + o] = Was(k)[SrcAt(k, r) + MemberMap(k, x)[o]]
MemberIntact(k, m, r, x) ==
    \A o \in SrcSide(k).at[x] .. SrcSide(k).at[x] + WidthOf(k, x) - 1 :
        m[SrcAt(k, r) + o] = Was(k)[SrcAt(k, r) + o]

LEMMA MemberPlace ==
  ASSUME NEW k \in Calls, RecordCall(k), NEW x \in MemberNames(k)
  PROVE  /\ SrcSide(k).at[x] \in Nat /\ DstSide(k).at[x] \in Nat /\ WidthOf(k, x) \in Nat \ {0}
         /\ SrcSide(k).at[x] + WidthOf(k, x) <= SrcSide(k).size
         /\ DstSide(k).at[x] + WidthOf(k, x) <= DstSide(k).size
         /\ SrcSide(k).size \in Nat /\ DstSide(k).size \in Nat
         /\ DOMAIN MemberMap(k, x) = DstSide(k).at[x] .. DstSide(k).at[x] + WidthOf(k, x) - 1
         /\ \A o \in DOMAIN MemberMap(k, x) :
               MemberMap(k, x)[o] \in SrcSide(k).at[x] .. SrcSide(k).at[x] + WidthOf(k, x) - 1
  <1> DEFINE p == PlanOf(k)
             b == FieldBytes(p, x, k.tof, k.swap)
             s == From(p, k.tof).at[x]
             d == To(p, k.tof).at[x]
             w == p.width[x]
  <1>1. /\ Inside(From(p, k.tof), p.width) /\ Inside(To(p, k.tof), p.width)
        /\ k.tof \in BOOLEAN /\ k.swap \in BOOLEAN /\ x \in DOMAIN p.width
    BY SidesFact DEF MemberNames
  <1>2. /\ DOMAIN b = d .. d + w - 1 /\ s \in Nat /\ d \in Nat /\ w \in Nat \ {0}
        /\ \A o \in d .. d + w - 1 : b[o] \in s .. s + w - 1
        /\ d + w <= To(p, k.tof).size /\ s + w <= From(p, k.tof).size
        /\ To(p, k.tof).size \in Nat /\ From(p, k.tof).size \in Nat
    <2> HIDE DEF p
    <2> QED BY <1>1, FieldBytesFact
  <1> QED BY <1>2 DEF SrcSide, DstSide, WidthOf, MemberMap

\* Two members, as the declarations have them.
MembersApart(k, i, j) ==
    LET x == PlanOf(k).order[i]
        y == PlanOf(k).order[j]
        F == SrcSide(k).size
        T == DstSide(k).size
    IN  /\ x \in MemberNames(k) /\ y \in MemberNames(k)
        /\ SrcSide(k).at[x] + WidthOf(k, x) <= SrcSide(k).at[y]
        /\ DstSide(k).at[x] + WidthOf(k, x) <= DstSide(k).at[y]
        /\ T <= F => DstSide(k).at[x] + WidthOf(k, x) <= SrcSide(k).at[y]
        /\ F < T => SrcSide(k).at[x] + WidthOf(k, x) <= DstSide(k).at[y]

LEMMA MembersApartFact ==
  ASSUME NEW k \in Calls, RecordCall(k), NEW i \in 1 .. Len(PlanOf(k).order),
         NEW j \in 1 .. Len(PlanOf(k).order), i < j
  PROVE  MembersApart(k, i, j)
  <1> DEFINE p == PlanOf(k)
             x == p.order[i]
             y == p.order[j]
  <1>1. WellLaid(p) /\ k.tof \in BOOLEAN
    BY PlannedFact, CallFact DEF Planned
  <1> HIDE DEF p
  <1>2. /\ Len(p.order) \in Nat /\ p.file.size \in Nat /\ p.mem.size \in Nat
        /\ DOMAIN p.width = {p.order[h] : h \in 1 .. Len(p.order)}
    BY <1>1, Zenon DEF WellLaid
  <1>3. x \in DOMAIN p.width /\ y \in DOMAIN p.width
    BY <1>2 DEF p
  <1>4. i \in 1 .. Len(p.order) /\ j \in 1 .. Len(p.order)
    BY DEF p
  <1>5. /\ p.width[x] \in Nat /\ p.width[y] \in Nat
        /\ p.file.at[x] \in Nat /\ p.mem.at[x] \in Nat /\ p.file.at[y] \in Nat /\ p.mem.at[y] \in Nat
        /\ p.file.at[x] <= p.mem.at[x] /\ p.mem.at[x] - p.file.at[x] <= p.mem.size - p.file.size
        /\ p.file.at[y] <= p.mem.at[y] /\ p.mem.at[y] - p.file.at[y] <= p.mem.size - p.file.size
    BY <1>1, <1>4, Zenon DEF WellLaid
  <1>6. p.file.at[x] + p.width[x] <= p.file.at[y] /\ p.mem.at[x] + p.width[x] <= p.mem.at[y]
    BY <1>1, <1>4, Zenon DEF WellLaid
  <1>7. p.file.size <= p.mem.size
    BY <1>1, FileIsNoLonger
  <1> HIDE DEF x, y
  <1>10. PICK fx, fy, mx, my, wx, fs, ms :
            /\ fx = p.file.at[x] /\ fy = p.file.at[y] /\ mx = p.mem.at[x] /\ my = p.mem.at[y]
            /\ wx = p.width[x] /\ fs = p.file.size /\ ms = p.mem.size
    OBVIOUS
  <1>11. /\ fx \in Nat /\ fy \in Nat /\ mx \in Nat /\ my \in Nat /\ wx \in Nat /\ fs \in Nat /\ ms \in Nat
         /\ fx <= mx /\ mx - fx <= ms - fs /\ fy <= my /\ my - fy <= ms - fs
         /\ fx + wx <= fy /\ mx + wx <= my /\ fs <= ms
    BY <1>2, <1>5, <1>6, <1>7, <1>10
  <1>12. /\ fx + wx <= my /\ ~(ms < fs)
         /\ ms <= fs => mx + wx <= fy
    BY ONLY <1>11
  <1>8. CASE k.tof
    <2>1. SrcSide(k) = p.mem /\ DstSide(k) = p.file
      BY <1>8 DEF SrcSide, DstSide, From, To, p
    <2>2. /\ p.file.at[x] + p.width[x] <= p.mem.at[y] /\ ~(p.mem.size < p.file.size)
      BY <1>10, <1>12
    <2> QED BY <1>3, <1>6, <2>1, <2>2 DEF MembersApart, MemberNames, WidthOf, p, x, y
  <1>9. CASE ~k.tof
    <2>1. SrcSide(k) = p.file /\ DstSide(k) = p.mem
      BY <1>9 DEF SrcSide, DstSide, From, To, p
    <2>2. p.mem.size <= p.file.size => p.mem.at[x] + p.width[x] <= p.file.at[y]
      BY <1>10, <1>12
    <2>3. p.file.at[x] + p.width[x] <= p.mem.at[y]
      BY <1>10, <1>12
    <2> QED BY <1>3, <1>6, <2>1, <2>2, <2>3 DEF MembersApart, MemberNames, WidthOf, p, x, y
  <1> QED BY <1>8, <1>9

\* lib's order: record LibRecord(i), member LibMember(j).
Sooner(i, j, a, b) == i < a \/ (i = a /\ j < b)

LibSpot(k, i, j) ==
    /\ i \in 0 .. Count(k) - 1 /\ j \in 1 .. Len(PlanOf(k).order)

LEMMA LibSpotFact ==
  ASSUME NEW k \in Calls, RecordCall(k), NEW i, NEW j, LibSpot(k, i, j)
  PROVE  LibRecord(k, i) \in 0 .. Count(k) - 1 /\ LibMember(k, j) \in MemberNames(k)
  <1>1. Count(k) \in Nat
    BY RecordFact
  <1>2. WellLaid(PlanOf(k))
    BY PlannedFact DEF Planned
  <1>3. /\ Len(PlanOf(k).order) \in Nat
        /\ MemberNames(k) = {PlanOf(k).order[h] : h \in 1 .. Len(PlanOf(k).order)}
    BY <1>2, Zenon DEF WellLaid, MemberNames
  <1>4. LibRecord(k, i) \in 0 .. Count(k) - 1
    BY <1>1 DEF LibRecord, LibSpot
  <1>5. LibMember(k, j) = PlanOf(k).order[IF Grows(k) THEN Len(PlanOf(k).order) + 1 - j ELSE j]
    BY DEF LibMember
  <1>6. (IF Grows(k) THEN Len(PlanOf(k).order) + 1 - j ELSE j) \in 1 .. Len(PlanOf(k).order)
    BY <1>3 DEF LibSpot
  <1> QED BY <1>3, <1>4, <1>5, <1>6

\* Where a member comes from and goes to, inside its record.
LEMMA SpotIn ==
  ASSUME NEW k \in Calls, RecordCall(k), NEW r \in 0 .. Count(k) - 1, NEW x \in MemberNames(k)
  PROVE  /\ SrcSpot(k, r, x) \in Nat /\ DstSpot(k, r, x) \in Nat /\ WidthOf(k, x) \in Nat
         /\ SrcAt(k, r) \in Nat /\ DstAt(k, r) \in Nat
         /\ SrcAt(k, r) <= SrcSpot(k, r, x)
         /\ SrcSpot(k, r, x) + WidthOf(k, x) <= SrcAt(k, r) + SrcSide(k).size
         /\ DstAt(k, r) <= DstSpot(k, r, x)
         /\ DstSpot(k, r, x) + WidthOf(k, x) <= DstAt(k, r) + DstSide(k).size
  <1>1. SrcAt(k, r) \in Nat /\ DstAt(k, r) \in Nat
    BY RecordIn
  <1>2. /\ SrcSide(k).at[x] \in Nat /\ DstSide(k).at[x] \in Nat /\ WidthOf(k, x) \in Nat
        /\ SrcSide(k).at[x] + WidthOf(k, x) <= SrcSide(k).size
        /\ DstSide(k).at[x] + WidthOf(k, x) <= DstSide(k).size
        /\ SrcSide(k).size \in Nat /\ DstSide(k).size \in Nat
    BY MemberPlace
  <1>3. PICK s, d, w, F, T : /\ s = SrcSide(k).at[x] /\ d = DstSide(k).at[x] /\ w = WidthOf(k, x)
                             /\ F = SrcSide(k).size /\ T = DstSide(k).size
    OBVIOUS
  <1>4. SrcSpot(k, r, x) = SrcAt(k, r) + s /\ DstSpot(k, r, x) = DstAt(k, r) + d
    BY <1>3 DEF SrcSpot, DstSpot
  <1>5. s \in Nat /\ d \in Nat /\ w \in Nat /\ F \in Nat /\ T \in Nat /\ s + w <= F /\ d + w <= T
    BY <1>2, <1>3
  <1> QED BY <1>1, <1>3, <1>4, <1>5

\* Two spots are never written twice.
LEMMA SpotsApart ==
  ASSUME NEW k \in Calls, RecordCall(k), NEW i, NEW j, LibSpot(k, i, j), NEW a, NEW b, LibSpot(k, a, b),
         i # a \/ j # b
  PROVE  LET r == LibRecord(k, i)   x == LibMember(k, j)   q == LibRecord(k, a)   y == LibMember(k, b)
         IN  \/ DstSpot(k, r, x) + WidthOf(k, x) <= DstSpot(k, q, y)
             \/ DstSpot(k, q, y) + WidthOf(k, y) <= DstSpot(k, r, x)
  <1> DEFINE r == LibRecord(k, i)
             x == LibMember(k, j)
             q == LibRecord(k, a)
             y == LibMember(k, b)
  <1>1. r \in 0 .. Count(k) - 1 /\ x \in MemberNames(k) /\ q \in 0 .. Count(k) - 1 /\ y \in MemberNames(k)
    BY LibSpotFact
  <1>2. Count(k) \in Nat /\ i \in 0 .. Count(k) - 1 /\ a \in 0 .. Count(k) - 1
    BY RecordFact DEF LibSpot
  <1>3. CASE i # a
    <2>1. r < q \/ q < r
      BY <1>2, <1>3 DEF LibRecord
    <2> HIDE DEF r, x, q, y
    <2>2. DstAt(k, r) + DstSide(k).size <= DstAt(k, q) \/ DstAt(k, q) + DstSide(k).size <= DstAt(k, r)
      BY <1>1, <2>1, DstApart DEF DstSide
    <2>3. /\ DstAt(k, r) <= DstSpot(k, r, x) /\ DstAt(k, r) \in Nat /\ DstAt(k, q) \in Nat
          /\ DstSpot(k, r, x) \in Nat /\ WidthOf(k, x) \in Nat
          /\ DstSpot(k, q, y) \in Nat /\ WidthOf(k, y) \in Nat
          /\ DstSpot(k, r, x) + WidthOf(k, x) <= DstAt(k, r) + DstSide(k).size
          /\ DstAt(k, q) <= DstSpot(k, q, y)
          /\ DstSpot(k, q, y) + WidthOf(k, y) <= DstAt(k, q) + DstSide(k).size
      BY <1>1, SpotIn
    <2>4. DstSide(k).size \in Nat
      BY <1>1, MemberPlace
    <2> QED BY <2>2, <2>3, <2>4 DEF r, x, q, y
  <1>4. CASE i = a
    <2> DEFINE n == Len(PlanOf(k).order)
               at(h) == IF Grows(k) THEN n + 1 - h ELSE h
    <2>0. n \in Nat
      BY PlannedFact, Zenon DEF Planned, WellLaid
    <2>1. j \in 1 .. n /\ b \in 1 .. n /\ j # b
      BY <1>4 DEF LibSpot
    <2>2. x = PlanOf(k).order[at(j)] /\ y = PlanOf(k).order[at(b)]
      BY DEF LibMember
    <2> HIDE DEF n
    <2>3. at(j) \in 1 .. n /\ at(b) \in 1 .. n /\ (at(j) < at(b) \/ at(b) < at(j))
      BY <2>0, <2>1
    <2> HIDE DEF at, x, y, r, q
    <2>4. \/ DstSide(k).at[x] + WidthOf(k, x) <= DstSide(k).at[y]
          \/ DstSide(k).at[y] + WidthOf(k, y) <= DstSide(k).at[x]
      BY <2>2, <2>3, MembersApartFact DEF MembersApart, n
    <2>5. r = q
      BY <1>4 DEF r, q
    <2>6. /\ DstSide(k).at[x] \in Nat /\ DstSide(k).at[y] \in Nat /\ WidthOf(k, x) \in Nat
          /\ WidthOf(k, y) \in Nat /\ DstAt(k, r) \in Nat
      BY <1>1, MemberPlace, SpotIn
    <2>7. PICK s, d : s = DstSide(k).at[x] /\ d = DstSide(k).at[y]
      OBVIOUS
    <2>8. DstSpot(k, r, x) = DstAt(k, r) + s /\ DstSpot(k, q, y) = DstAt(k, r) + d
      BY <2>5, <2>7 DEF DstSpot
    <2> QED BY <2>4, <2>6, <2>7, <2>8 DEF x, y, r, q
  <1> QED BY <1>3, <1>4

\* What is still to be read is never written before.
LEMMA LaterApart ==
  ASSUME NEW k \in Calls, RecordCall(k), ~WordTable(k), ~Overlap(k),
         NEW i, NEW j, LibSpot(k, i, j), NEW a, NEW b, LibSpot(k, a, b), Sooner(i, j, a, b)
  PROVE  LET r == LibRecord(k, i)   x == LibMember(k, j)   q == LibRecord(k, a)   y == LibMember(k, b)
         IN  \/ DstSpot(k, r, x) + WidthOf(k, x) <= SrcSpot(k, q, y)
             \/ SrcSpot(k, q, y) + WidthOf(k, y) <= DstSpot(k, r, x)
  <1> DEFINE r == LibRecord(k, i)
             x == LibMember(k, j)
             q == LibRecord(k, a)
             y == LibMember(k, b)
             F == SrcSide(k).size
             T == DstSide(k).size
  <1>1. r \in 0 .. Count(k) - 1 /\ x \in MemberNames(k) /\ q \in 0 .. Count(k) - 1 /\ y \in MemberNames(k)
    BY LibSpotFact
  <1>2. Count(k) \in Nat /\ i \in 0 .. Count(k) - 1 /\ a \in 0 .. Count(k) - 1
    BY RecordFact DEF LibSpot
  <1>3. F \in Nat /\ T \in Nat /\ (Grows(k) <=> F < T)
    BY RecordFact DEF Grows, SrcSide, DstSide
  <1>4. /\ DstAt(k, r) <= DstSpot(k, r, x) /\ DstAt(k, r) \in Nat /\ SrcAt(k, q) \in Nat
        /\ DstSpot(k, r, x) \in Nat /\ WidthOf(k, x) \in Nat
        /\ SrcSpot(k, q, y) \in Nat /\ WidthOf(k, y) \in Nat
        /\ DstSpot(k, r, x) + WidthOf(k, x) <= DstAt(k, r) + T
        /\ SrcAt(k, q) <= SrcSpot(k, q, y)
        /\ SrcSpot(k, q, y) + WidthOf(k, y) <= SrcAt(k, q) + F
    BY <1>1, SpotIn
  <1>5. CASE i < a
    <2>1. IF Grows(k) THEN q < r ELSE r < q
      BY <1>2, <1>5 DEF LibRecord
    <2> HIDE DEF r, x, q, y, F, T
    <2>2. (r < q /\ T <= F) \/ (q < r /\ F <= T)
      BY <1>3, <2>1
    <2>3. DstAt(k, r) + T <= SrcAt(k, q) \/ SrcAt(k, q) + F <= DstAt(k, r)
      BY <1>1, <2>2, SrcApart DEF F, T, SrcSide, DstSide
    <2> QED BY <1>3, <1>4, <2>3 DEF r, x, q, y
  <1>6. CASE i = a /\ j < b
    <2> DEFINE n == Len(PlanOf(k).order)
               at(h) == IF Grows(k) THEN n + 1 - h ELSE h
    <2>0. n \in Nat
      BY PlannedFact, Zenon DEF Planned, WellLaid
    <2>1. j \in 1 .. n /\ b \in 1 .. n
      BY DEF LibSpot
    <2>2. x = PlanOf(k).order[at(j)] /\ y = PlanOf(k).order[at(b)]
      BY DEF LibMember
    <2> HIDE DEF n
    <2>3. at(j) \in 1 .. n /\ at(b) \in 1 .. n /\ (IF Grows(k) THEN at(b) < at(j) ELSE at(j) < at(b))
      BY <1>6, <2>0, <2>1
    <2> HIDE DEF at
    <2>4. /\ ~Grows(k) => DstSide(k).at[x] + WidthOf(k, x) <= SrcSide(k).at[y]
          /\ Grows(k) => SrcSide(k).at[y] + WidthOf(k, y) <= DstSide(k).at[x]
      <3>1. CASE Grows(k)
        <4>1. MembersApart(k, at(b), at(j))
          BY <2>3, <3>1, MembersApartFact DEF n
        <4> HIDE DEF x, y
        <4> QED BY <1>3, <2>2, <3>1, <4>1 DEF MembersApart, F, T
      <3>2. CASE ~Grows(k)
        <4>1. MembersApart(k, at(j), at(b))
          BY <2>3, <3>2, MembersApartFact DEF n
        <4>2. T <= F
          BY <1>3, <3>2
        <4> HIDE DEF x, y
        <4> QED BY <2>2, <3>2, <4>1, <4>2 DEF MembersApart, F, T
      <3> QED BY <3>1, <3>2
    <2>5. r = q
      BY <1>6
    <2> HIDE DEF r, x, q, y
    <2>6. PICK s, d : s = SrcSide(k).at[y] /\ d = DstSide(k).at[x]
      OBVIOUS
    <2>7. s \in Nat /\ d \in Nat
      BY <1>1, <2>6, MemberPlace
    <2>8. DstSpot(k, r, x) = DstAt(k, r) + d /\ SrcSpot(k, q, y) = SrcAt(k, r) + s
      BY <2>5, <2>6 DEF DstSpot, SrcSpot
    <2>9. CASE k.db = k.sb
      <3> HIDE DEF F, T
      <3>1. PICK f, t : f = r * F /\ t = r * T
        OBVIOUS
      <3>2. SrcAt(k, r) = k.sb + f /\ DstAt(k, r) = k.sb + t
        BY <2>9, <3>1 DEF SrcAt, DstAt, F, T, SrcSide, DstSide
      <3>3. f \in Nat /\ t \in Nat /\ (T <= F => t <= f) /\ (F <= T => f <= t)
        <4>1. \A u, v, z \in Nat : u <= v => z * u <= z * v /\ z * u \in Nat
          OBVIOUS
        <4>2. r \in Nat
          BY <1>1, <1>2
        <4> QED BY <1>3, <3>1, <4>1, <4>2
      <3>4. k.sb \in Nat
        BY CallFact
      <3>5. PICK wx, wy : wx = WidthOf(k, x) /\ wy = WidthOf(k, y) /\ wx \in Nat /\ wy \in Nat
        BY <1>4
      <3>6. CASE Grows(k)
        <4>1. f <= t /\ s + wy <= d
          BY <1>3, <2>4, <2>6, <3>3, <3>5, <3>6
        <4>2. (k.sb + f) + s + wy <= (k.sb + t) + d
          BY ONLY <2>7, <3>3, <3>4, <3>5, <4>1
        <4> QED BY <2>8, <3>2, <3>5, <4>2 DEF r, x, q, y
      <3>7. CASE ~Grows(k)
        <4>1. t <= f /\ d + wx <= s
          BY <1>3, <2>4, <2>6, <3>3, <3>5, <3>7
        <4>2. (k.sb + t) + d + wx <= (k.sb + f) + s
          BY ONLY <2>7, <3>3, <3>4, <3>5, <4>1
        <4> QED BY <2>8, <3>2, <3>5, <4>2 DEF r, x, q, y
      <3> QED BY <3>6, <3>7
    <2>10. CASE k.db # k.sb
      <3>1. k.db + k.room <= k.sb \/ k.sb + k.size <= k.db
        BY <2>10, CallFact DEF Overlap
      <3>2. /\ k.sb <= SrcAt(k, q) /\ SrcAt(k, q) + F <= k.sb + k.size
            /\ k.db <= DstAt(k, r) /\ DstAt(k, r) + T <= k.db + Need(k)
        BY <1>1, RecordIn DEF F, T, SrcSide, DstSide
      <3>3. Need(k) \in Nat /\ Need(k) <= k.room
        BY RecordFact
      <3>4. k.db \in Nat /\ k.sb \in Nat /\ k.room \in Nat /\ k.size \in Nat
        BY CallFact
      <3> HIDE DEF F, T
      <3> QED BY <1>3, <1>4, <3>1, <3>2, <3>3, <3>4 DEF r, x, q, y
    <2> QED BY <2>9, <2>10
  <1> QED BY <1>5, <1>6 DEF Sooner

MemberWritten(k, m, r, x) == MemberCopied(k, m, r, x)

\* Addresses of a member.
LEMMA MemberAddress ==
  ASSUME NEW k \in Calls, RecordCall(k), NEW m, Kept(k, m), NEW r \in 0 .. Count(k) - 1,
         NEW x \in MemberNames(k)
  PROVE  /\ \A o \in DOMAIN MemberMap(k, x) :
               /\ DstAt(k, r) + o \in DOMAIN m /\ DstAt(k, r) + o \in Int /\ o \in Nat
               /\ DstSpot(k, r, x) <= DstAt(k, r) + o
               /\ DstAt(k, r) + o < DstSpot(k, r, x) + WidthOf(k, x)
         /\ \A o \in SrcSide(k).at[x] .. SrcSide(k).at[x] + WidthOf(k, x) - 1 :
               /\ SrcAt(k, r) + o \in DOMAIN m /\ SrcAt(k, r) + o \in Int /\ o \in Nat
               /\ SrcSpot(k, r, x) <= SrcAt(k, r) + o
               /\ SrcAt(k, r) + o < SrcSpot(k, r, x) + WidthOf(k, x)
  <1>1. PICK s, d, w, F, T : /\ s = SrcSide(k).at[x] /\ d = DstSide(k).at[x] /\ w = WidthOf(k, x)
                             /\ F = SrcSide(k).size /\ T = DstSide(k).size
    OBVIOUS
  <1>2. /\ s \in Nat /\ d \in Nat /\ w \in Nat /\ F \in Nat /\ T \in Nat /\ s + w <= F /\ d + w <= T
        /\ DOMAIN MemberMap(k, x) = d .. d + w - 1
    BY <1>1, MemberPlace
  <1>3. SrcAt(k, r) \in Nat /\ DstAt(k, r) \in Nat
    BY RecordIn
  <1>4. SrcSpot(k, r, x) = SrcAt(k, r) + s /\ DstSpot(k, r, x) = DstAt(k, r) + d
    BY <1>1 DEF SrcSpot, DstSpot
  <1>5. /\ \A o \in 0 .. T - 1 : DstAt(k, r) + o \in DOMAIN m
        /\ \A o \in 0 .. F - 1 : SrcAt(k, r) + o \in DOMAIN m
    BY <1>1, RecordAddress DEF SrcSide, DstSide
  <1>6. ASSUME NEW o \in d .. d + w - 1
        PROVE  /\ DstAt(k, r) + o \in DOMAIN m /\ DstAt(k, r) + o \in Int /\ o \in Nat
               /\ DstSpot(k, r, x) <= DstAt(k, r) + o
               /\ DstAt(k, r) + o < DstSpot(k, r, x) + w
    <2>1. o \in 0 .. T - 1
      BY <1>2
    <2> QED BY <1>2, <1>3, <1>4, <1>5, <2>1
  <1>7. ASSUME NEW o \in s .. s + w - 1
        PROVE  /\ SrcAt(k, r) + o \in DOMAIN m /\ SrcAt(k, r) + o \in Int /\ o \in Nat
               /\ SrcSpot(k, r, x) <= SrcAt(k, r) + o
               /\ SrcAt(k, r) + o < SrcSpot(k, r, x) + w
    <2>1. o \in 0 .. F - 1
      BY <1>2
    <2> QED BY <1>2, <1>3, <1>4, <1>5, <2>1
  <1> QED BY <1>1, <1>2, <1>6, <1>7

\* A byte that is not of the member just copied.
LEMMA OutsideMember ==
  ASSUME NEW k \in Calls, RecordCall(k), NEW m, Kept(k, m), NEW r \in 0 .. Count(k) - 1,
         NEW x \in MemberNames(k), NEW a \in DOMAIN m, a \in Int,
         a < DstSpot(k, r, x) \/ DstSpot(k, r, x) + WidthOf(k, x) <= a
  PROVE  MemberWritten(k, m, r, x)[a] = m[a]
  <1>1. DstAt(k, r) \in Nat /\ DstSpot(k, r, x) \in Nat /\ WidthOf(k, x) \in Nat
    BY SpotIn
  <1>2. CASE ~Stored(k, x)
    <2>1. a - DstAt(k, r) \notin DOMAIN MemberMap(k, x)
      <3> SUFFICES ASSUME a - DstAt(k, r) \in DOMAIN MemberMap(k, x) PROVE FALSE
        OBVIOUS
      <3>1. /\ DstSpot(k, r, x) <= DstAt(k, r) + (a - DstAt(k, r))
            /\ DstAt(k, r) + (a - DstAt(k, r)) < DstSpot(k, r, x) + WidthOf(k, x)
        BY MemberAddress
      <3> QED BY <1>1, <3>1
    <2>2. MemberWritten(k, m, r, x) = Convert(m, DstAt(k, r), SrcAt(k, r), MemberMap(k, x))
      BY <1>2 DEF MemberWritten, MemberCopied, MemberMap
    <2> QED BY <1>1, <2>1, <2>2, ConvertPoint
  <1>3. CASE Stored(k, x)
    <2>1. NumberStored(MemberWritten(k, m, r, x), 0 .. Top(k), m, DstSpot(k, r, x), SrcSpot(k, r, x),
                       WidthOf(k, x), k.swap)
      BY <1>3, MemberStore DEF Kept, MemberNames, MemberWritten, DstSpot, SrcSpot, DstSide, SrcSide, WidthOf
    <2>2. \A i \in 0 .. WidthOf(k, x) - 1 : a # DstSpot(k, r, x) + i
      BY <1>1
    <2>3. a \in 0 .. Top(k)
      BY DEF Kept
    <2> QED BY <2>1, <2>2, <2>3 DEF NumberStored
  <1> QED BY <1>2, <1>3

\* Layouts of one size have their members at the same places.
LEMMA SamePlace ==
  ASSUME NEW k \in Calls, RecordCall(k), SrcSide(k).size = DstSide(k).size, NEW x \in MemberNames(k)
  PROVE  SrcSide(k).at[x] = DstSide(k).at[x]
  <1> DEFINE p == PlanOf(k)
  <1>1. WellLaid(p)
    BY PlannedFact DEF Planned
  <1> HIDE DEF p
  <1>2. /\ p.file.size \in Nat /\ p.mem.size \in Nat /\ Len(p.order) \in Nat
        /\ DOMAIN p.width = {p.order[h] : h \in 1 .. Len(p.order)}
        /\ \A h \in 1 .. Len(p.order) :
              /\ p.file.at[p.order[h]] \in Nat /\ p.mem.at[p.order[h]] \in Nat
              /\ p.file.at[p.order[h]] <= p.mem.at[p.order[h]]
              /\ p.mem.at[p.order[h]] - p.file.at[p.order[h]] <= p.mem.size - p.file.size
    BY <1>1, Zenon DEF WellLaid
  <1>3. PICK h \in 1 .. Len(p.order) : x = p.order[h]
    BY <1>2 DEF MemberNames, p
  <1>4. p.file.size = p.mem.size
    BY DEF SrcSide, DstSide, From, To, p
  <1>5. p.file.at[x] = p.mem.at[x]
    <2>1. /\ p.file.at[x] \in Nat /\ p.mem.at[x] \in Nat /\ p.file.at[x] <= p.mem.at[x]
          /\ p.mem.at[x] - p.file.at[x] <= p.mem.size - p.file.size
      BY <1>2, <1>3
    <2> QED BY <1>2, <1>4, <2>1
  <1> QED BY <1>5 DEF SrcSide, DstSide, From, To, p

\* Where lib stores a number, it is over the number itself or apart from it.
LEMMA StoredPlace ==
  ASSUME NEW k \in Calls, RecordCall(k), ~WordTable(k), ~Overlap(k), k.lib = "lib",
         NEW r \in 0 .. Count(k) - 1, NEW x \in MemberNames(k)
  PROVE  \/ k.db = k.sb /\ DstSpot(k, r, x) = SrcSpot(k, r, x)
         \/ DstSpot(k, r, x) + WidthOf(k, x) <= SrcSpot(k, r, x)
         \/ SrcSpot(k, r, x) + WidthOf(k, x) <= DstSpot(k, r, x)
  <1> DEFINE F == SrcSide(k).size
             T == DstSide(k).size
  <1>1. CASE k.db = k.sb
    <2>1. F = T
      <3>1. k.class \in Class
        BY CallFact
      <3>2. Planned(k) /\ Supported(k)
        BY PlannedFact, AcceptsFact DEF RecordCall
      <3>3. k.type \notin Walked /\ PlanOf(k) = ThePlan(k.class, k.type)
        BY <3>2 DEF Planned, PlanType
      <3>4. k.type \in DOMAIN LibTable(k.class)
        BY <3>2, <3>3, SupportedFact
      <3> QED BY <3>1, <3>3, <3>4, LibFlat DEF SrcSide, DstSide, From, To
    <2>2. DstAt(k, r) = SrcAt(k, r)
      BY <1>1, <2>1 DEF DstAt, SrcAt, SrcSide, DstSide
    <2>3. DstSide(k).at[x] = SrcSide(k).at[x]
      BY <2>1, SamePlace
    <2> QED BY <1>1, <2>2, <2>3 DEF DstSpot, SrcSpot
  <1>2. CASE k.db # k.sb
    <2>1. k.db + k.room <= k.sb \/ k.sb + k.size <= k.db
      BY <1>2, CallFact DEF Overlap
    <2>2. /\ k.sb <= SrcAt(k, r) /\ SrcAt(k, r) + F <= k.sb + k.size
          /\ k.db <= DstAt(k, r) /\ DstAt(k, r) + T <= k.db + Need(k)
      BY RecordIn DEF SrcSide, DstSide
    <2>3. Need(k) \in Nat /\ Need(k) <= k.room /\ F \in Nat /\ T \in Nat
      BY RecordFact DEF SrcSide, DstSide
    <2>4. k.db \in Nat /\ k.sb \in Nat /\ k.room \in Nat /\ k.size \in Nat
      BY CallFact
    <2>5. /\ DstAt(k, r) <= DstSpot(k, r, x) /\ DstAt(k, r) \in Nat /\ SrcAt(k, r) \in Nat
          /\ DstSpot(k, r, x) \in Nat /\ WidthOf(k, x) \in Nat /\ SrcSpot(k, r, x) \in Nat
          /\ DstSpot(k, r, x) + WidthOf(k, x) <= DstAt(k, r) + T
          /\ SrcAt(k, r) <= SrcSpot(k, r, x)
          /\ SrcSpot(k, r, x) + WidthOf(k, x) <= SrcAt(k, r) + F
      BY SpotIn
    <2> HIDE DEF F, T
    <2> QED BY <2>1, <2>2, <2>3, <2>4, <2>5
  <1> QED BY <1>1, <1>2

LEMMA MemberWrittenIsExact ==
  ASSUME NEW k \in Calls, RecordCall(k), ~WordTable(k), ~Overlap(k), k.lib = "lib", NEW m, Kept(k, m),
         NEW r \in 0 .. Count(k) - 1, NEW x \in MemberNames(k), MemberIntact(k, m, r, x)
  PROVE  MemberExact(k, MemberWritten(k, m, r, x), r, x)
  <1> SUFFICES ASSUME NEW o \in DOMAIN MemberMap(k, x), ~LostIn(k, o)
               PROVE  MemberWritten(k, m, r, x)[DstAt(k, r) + o] = Was(k)[SrcAt(k, r) + MemberMap(k, x)[o]]
    BY DEF MemberExact
  <1>1. /\ MemberMap(k, x)[o] \in SrcSide(k).at[x] .. SrcSide(k).at[x] + WidthOf(k, x) - 1
        /\ SrcSide(k).at[x] \in Nat
    BY MemberPlace
  <1>2. DstAt(k, r) + o \in DOMAIN m /\ DstAt(k, r) + o \in Int /\ o \in Nat /\ DstAt(k, r) \in Nat
    BY MemberAddress, RecordIn
  <1>5. MemberWritten(k, m, r, x)[DstAt(k, r) + o] = m[SrcAt(k, r) + MemberMap(k, x)[o]]
    <2>1. CASE ~Stored(k, x)
      <3>1. MemberMap(k, x)[o] # Padding
        <4> DEFINE g == MemberMap(k, x)[o]
                   s == SrcSide(k).at[x]
                   t == s + WidthOf(k, x) - 1
        <4>1. g \in s .. t /\ s \in Nat
          BY <1>1
        <4> HIDE DEF g, s, t
        <4>2. g # Padding
          BY <4>1 DEF Padding
        <4> QED BY <4>2 DEF g
      <3>2. (DstAt(k, r) + o) - DstAt(k, r) = o
        BY <1>2
      <3>3. MemberWritten(k, m, r, x) = Convert(m, DstAt(k, r), SrcAt(k, r), MemberMap(k, x))
        BY <2>1 DEF MemberWritten, MemberCopied, MemberMap
      <3> QED BY <1>2, <3>1, <3>2, <3>3, ConvertPoint
    <2>2. CASE Stored(k, x)
      <3>1. PICK g, to, from, w, s, d :
               /\ g = MemberWritten(k, m, r, x) /\ to = DstSpot(k, r, x) /\ from = SrcSpot(k, r, x)
               /\ w = WidthOf(k, x) /\ s = SrcSide(k).at[x] /\ d = DstSide(k).at[x]
        OBVIOUS
      <3>2. NumberStored(g, 0 .. Top(k), m, to, from, w, k.swap)
        BY <2>2, <3>1, MemberStore
           DEF Kept, MemberNames, MemberWritten, DstSpot, SrcSpot, DstSide, SrcSide, WidthOf
      <3>3. w \in {2, 4} /\ x \in PlanOf(k).number /\ k.tof = TRUE /\ k.swap \in BOOLEAN
        BY <2>2, <3>1, CallFact DEF Stored, WidthOf
      <3>4. d \in Nat /\ s \in Nat /\ o \in d .. d + w - 1
        BY <3>1, MemberPlace
      <3>5. PICK i : i = o - d
        OBVIOUS
      <3>6. i \in 0 .. w - 1 /\ d + i = o
        BY <3>3, <3>4, <3>5
      <3>7. PICK j : j = IF k.swap THEN w - 1 - i ELSE i
        OBVIOUS
      <3>8. MemberMap(k, x)[o] = s + j
        <4>1. MemberMap(k, x) = [u \in d .. (d + w - 1) |->
                  IF k.swap /\ x \in PlanOf(k).number THEN s + w - 1 - (u - d) ELSE s + (u - d)]
          BY <3>1 DEF MemberMap, FieldBytes, SrcSide, DstSide, WidthOf
        <4>2. MemberMap(k, x)[o] = IF k.swap THEN s + w - 1 - (o - d) ELSE s + (o - d)
          BY <3>3, <3>4, <4>1
        <4> QED BY <3>3, <3>4, <3>5, <3>6, <3>7, <4>2
      <3>9. to = DstAt(k, r) + d /\ from = SrcAt(k, r) + s /\ SrcAt(k, r) \in Nat
        BY <3>1, RecordIn DEF DstSpot, SrcSpot
      <3>10. to + i = DstAt(k, r) + o /\ from + j = SrcAt(k, r) + MemberMap(k, x)[o]
        <4>1. j \in Int
          BY <3>3, <3>6, <3>7
        <4> QED BY <1>2, <3>4, <3>6, <3>8, <3>9, <4>1
      <3>11. ASSUME NEW h \in 0 .. w - 1, IF k.swap THEN h < i ELSE i < h
             PROVE  to + h # from + j
        <4>1. to \in Nat /\ from \in Nat
          BY <1>2, <3>4, <3>9
        <4>2. j \in 0 .. w - 1
          BY <3>3, <3>6, <3>7
        <4>3. \/ k.db = k.sb /\ to = from
              \/ to + w <= from
              \/ from + w <= to
          BY <3>1, StoredPlace
        <4>4. CASE k.db = k.sb /\ to = from
          <5>1. h # j
            <6>1. CASE k.swap
              <7>1. ~LatterHalf(k, o)
                BY <3>3, <4>4, <6>1 DEF LostIn, OverItself
              <7>2. ~(d + w \div 2 <= o)
                BY <3>1, <3>3, <3>4, <7>1 DEF LatterHalf, DstSide, WidthOf
              <7>3. w = 2 \/ w = 4
                BY <3>3
              <7>4. w = 2 => i = 0
                BY <3>4, <3>6, <7>2
              <7>5. w = 4 => i < 2
                BY <3>4, <3>6, <7>2
              <7> QED BY <3>6, <3>7, <3>11, <6>1, <7>3, <7>4, <7>5
            <6>2. CASE ~k.swap
              BY <3>6, <3>7, <3>11, <6>2
            <6> QED BY <6>1, <6>2
          <5> QED BY <4>1, <4>2, <4>4, <5>1
        <4>5. CASE to + w <= from \/ from + w <= to
          BY <3>3, <4>1, <4>2, <4>5
        <4> QED BY <4>3, <4>4, <4>5
      <3>12. g[to + i] = m[from + j]
        BY <3>2, <3>6, <3>7, <3>11, Zenon DEF NumberStored
      <3> QED BY <3>1, <3>10, <3>12
    <2> QED BY <2>1, <2>2
  <1>6. m[SrcAt(k, r) + MemberMap(k, x)[o]] = Was(k)[SrcAt(k, r) + MemberMap(k, x)[o]]
    BY <1>1 DEF MemberIntact
  <1> QED BY <1>5, <1>6

LibSoFar(k, m, a, b) ==
    \A i \in 0 .. Count(k) - 1, j \in 1 .. Len(PlanOf(k).order) :
        IF Sooner(i, j, a, b) THEN MemberExact(k, m, LibRecord(k, i), LibMember(k, j))
        ELSE MemberIntact(k, m, LibRecord(k, i), LibMember(k, j))

LEMMA LibSoFarStart ==
  ASSUME NEW k \in Calls, RecordCall(k)
  PROVE  LibSoFar(k, Original(k), 0, 1)
  <1>1. ASSUME NEW i \in 0 .. Count(k) - 1, NEW j \in 1 .. Len(PlanOf(k).order)
        PROVE  ~Sooner(i, j, 0, 1) /\ MemberIntact(k, Original(k), LibRecord(k, i), LibMember(k, j))
    BY DEF Sooner, MemberIntact, Was
  <1> QED BY <1>1 DEF LibSoFar

LEMMA LibSoFarStep ==
  ASSUME NEW k \in Calls, RecordCall(k), ~WordTable(k), ~Overlap(k), k.lib = "lib", NEW m, Kept(k, m),
         NEW a, NEW b, LibSpot(k, a, b), LibSoFar(k, m, a, b)
  PROVE  LibSoFar(k, MemberWritten(k, m, LibRecord(k, a), LibMember(k, b)), a, b + 1)
  <1> DEFINE r == LibRecord(k, a)
             x == LibMember(k, b)
             g == MemberWritten(k, m, r, x)
  <1>0. r \in 0 .. Count(k) - 1 /\ x \in MemberNames(k)
    BY LibSpotFact
  <1> SUFFICES ASSUME NEW i \in 0 .. Count(k) - 1, NEW j \in 1 .. Len(PlanOf(k).order)
               PROVE  IF Sooner(i, j, a, b + 1) THEN MemberExact(k, g, LibRecord(k, i), LibMember(k, j))
                      ELSE MemberIntact(k, g, LibRecord(k, i), LibMember(k, j))
    BY DEF LibSoFar
  <1> DEFINE q == LibRecord(k, i)
             y == LibMember(k, j)
  <1>1. LibSpot(k, i, j) /\ q \in 0 .. Count(k) - 1 /\ y \in MemberNames(k)
    BY LibSpotFact DEF LibSpot
  <1>2. i \in Int /\ a \in Int /\ j \in Int /\ b \in Int
    BY DEF LibSpot
  <1>3. CASE i = a /\ j = b
    <2>1. ~Sooner(i, j, a, b) /\ Sooner(i, j, a, b + 1)
      BY <1>2, <1>3 DEF Sooner
    <2>2. MemberIntact(k, m, r, x)
      BY <1>3, <2>1 DEF LibSoFar
    <2> QED BY <1>0, <1>3, <2>1, <2>2, MemberWrittenIsExact
  <1>4. CASE Sooner(i, j, a, b)
    <2>1. Sooner(i, j, a, b + 1) /\ (i # a \/ j # b)
      BY <1>2, <1>4 DEF Sooner
    <2>2. MemberExact(k, m, q, y)
      BY <1>4 DEF LibSoFar
    <2>3. \/ DstSpot(k, r, x) + WidthOf(k, x) <= DstSpot(k, q, y)
          \/ DstSpot(k, q, y) + WidthOf(k, y) <= DstSpot(k, r, x)
      BY <1>1, <2>1, SpotsApart
    <2>4. MemberExact(k, g, q, y)
      <3> HIDE DEF r, x, q, y
      <3> SUFFICES ASSUME NEW o \in DOMAIN MemberMap(k, y), ~LostIn(k, o)
                   PROVE  g[DstAt(k, q) + o] = m[DstAt(k, q) + o]
        BY <2>2 DEF MemberExact
      <3>1. /\ DstAt(k, q) + o \in DOMAIN m /\ DstAt(k, q) + o \in Int
            /\ DstSpot(k, q, y) <= DstAt(k, q) + o
            /\ DstAt(k, q) + o < DstSpot(k, q, y) + WidthOf(k, y)
        BY <1>1, MemberAddress
      <3>2. /\ DstSpot(k, r, x) \in Nat /\ WidthOf(k, x) \in Nat
            /\ DstSpot(k, q, y) \in Nat /\ WidthOf(k, y) \in Nat
        BY <1>0, <1>1, SpotIn
      <3>3. DstAt(k, q) + o < DstSpot(k, r, x) \/ DstSpot(k, r, x) + WidthOf(k, x) <= DstAt(k, q) + o
        BY <2>3, <3>1, <3>2
      <3> QED BY <1>0, <3>1, <3>3, OutsideMember
    <2> QED BY <2>1, <2>4
  <1>5. CASE ~Sooner(i, j, a, b) /\ ~(i = a /\ j = b)
    <2>1. ~Sooner(i, j, a, b + 1) /\ Sooner(a, b, i, j)
      BY <1>2, <1>5 DEF Sooner
    <2>2. MemberIntact(k, m, q, y)
      BY <1>5 DEF LibSoFar
    <2>3. \/ DstSpot(k, r, x) + WidthOf(k, x) <= SrcSpot(k, q, y)
          \/ SrcSpot(k, q, y) + WidthOf(k, y) <= DstSpot(k, r, x)
      BY <1>1, <2>1, LaterApart
    <2>4. MemberIntact(k, g, q, y)
      <3> HIDE DEF r, x, q, y
      <3> SUFFICES ASSUME NEW o \in SrcSide(k).at[y] .. SrcSide(k).at[y] + WidthOf(k, y) - 1
                   PROVE  g[SrcAt(k, q) + o] = m[SrcAt(k, q) + o]
        BY <2>2 DEF MemberIntact
      <3>1. /\ SrcAt(k, q) + o \in DOMAIN m /\ SrcAt(k, q) + o \in Int
            /\ SrcSpot(k, q, y) <= SrcAt(k, q) + o
            /\ SrcAt(k, q) + o < SrcSpot(k, q, y) + WidthOf(k, y)
        BY <1>1, MemberAddress
      <3>2. /\ DstSpot(k, r, x) \in Nat /\ WidthOf(k, x) \in Nat
            /\ SrcSpot(k, q, y) \in Nat /\ WidthOf(k, y) \in Nat
        BY <1>0, <1>1, SpotIn
      <3>3. SrcAt(k, q) + o < DstSpot(k, r, x) \/ DstSpot(k, r, x) + WidthOf(k, x) <= SrcAt(k, q) + o
        BY <2>3, <3>1, <3>2
      <3> QED BY <1>0, <3>1, <3>3, OutsideMember
    <2> QED BY <2>1, <2>4
  <1> QED BY <1>3, <1>4, <1>5

\* On to the next record.
LEMMA LibSoFarOnward ==
  ASSUME NEW k \in Calls, NEW m, NEW a \in Int, LibSoFar(k, m, a, Len(PlanOf(k).order) + 1),
         Len(PlanOf(k).order) \in Nat
  PROVE  LibSoFar(k, m, a + 1, 1)
  <1>1. ASSUME NEW i \in 0 .. Count(k) - 1, NEW j \in 1 .. Len(PlanOf(k).order)
        PROVE  Sooner(i, j, a + 1, 1) <=> Sooner(i, j, a, Len(PlanOf(k).order) + 1)
    BY DEF Sooner
  <1> QED BY <1>1 DEF LibSoFar

-----------------------------------------------------------------------------
(***************************************************************************)
(* All records, and what was expected of them.                             *)
(***************************************************************************)
AllExact(k, m) ==
    \A r \in 0 .. Count(k) - 1 : \A o \in DOMAIN RecordMap(k) :
        RecordMap(k)[o] # Padding /\ ~LostIn(k, o)
            => m[DstAt(k, r) + o] = Was(k)[SrcAt(k, r) + RecordMap(k)[o]]

LEMMA SoFarEnd ==
  ASSUME NEW k \in Calls, RecordCall(k), NEW m, SoFar(k, m, Count(k))
  PROVE  AllExact(k, m)
  <1> SUFFICES ASSUME NEW r \in 0 .. Count(k) - 1 PROVE Exact(k, m, r)
    BY DEF AllExact, Exact
  <1>1. Count(k) \in Nat
    BY RecordFact
  <1>2. PICK i \in 0 .. Count(k) - 1 : Record(k, i) = r
    <2>1. CASE Backward(k)
      <3>1. Count(k) - 1 - r \in 0 .. Count(k) - 1 /\ Count(k) - 1 - (Count(k) - 1 - r) = r
        BY <1>1
      <3> QED BY <2>1, <3>1 DEF Record
    <2>2. CASE ~Backward(k)
      BY <2>2 DEF Record
    <2> QED BY <2>1, <2>2
  <1>3. i < Count(k)
    BY <1>1
  <1> QED BY <1>2, <1>3 DEF SoFar

LEMMA LibSoFarEnd ==
  ASSUME NEW k \in Calls, RecordCall(k), NEW m, LibSoFar(k, m, Count(k), 1)
  PROVE  AllExact(k, m)
  <1> DEFINE n == Len(PlanOf(k).order)
  <1> SUFFICES ASSUME NEW r \in 0 .. Count(k) - 1, NEW o \in DOMAIN RecordMap(k), RecordMap(k)[o] # Padding,
                      ~LostIn(k, o)
               PROVE  m[DstAt(k, r) + o] = Was(k)[SrcAt(k, r) + RecordMap(k)[o]]
    BY DEF AllExact
  <1>1. Count(k) \in Nat
    BY RecordFact
  <1>2. PICK x : Takes(PlanOf(k), k.tof, k.swap, o, x) /\ RecordMap(k)[o] = MemberMap(k, x)[o]
    <2>1. RecordMap(k) = RecordBytes(PlanOf(k), k.tof, k.swap)
      BY RecordMapFact
    <2>2. /\ Inside(From(PlanOf(k), k.tof), PlanOf(k).width) /\ Inside(To(PlanOf(k), k.tof), PlanOf(k).width)
          /\ k.tof \in BOOLEAN /\ k.swap \in BOOLEAN
      BY SidesFact
    <2>3. \/ RecordMap(k)[o] = Padding
          \/ \E x : /\ Takes(PlanOf(k), k.tof, k.swap, o, x)
                    /\ RecordMap(k)[o] = FieldBytes(PlanOf(k), x, k.tof, k.swap)[o]
      BY <2>1, <2>2, RecordBytesFact
    <2> QED BY <2>3 DEF MemberMap
  <1>3. x \in MemberNames(k) /\ o \in DOMAIN MemberMap(k, x)
    <2>1. x \in MemberNames(k)
      BY <1>2 DEF Takes, MemberNames
    <2>2. DOMAIN MemberMap(k, x) = DstSide(k).at[x] .. DstSide(k).at[x] + WidthOf(k, x) - 1
      BY <2>1, MemberPlace
    <2> QED BY <1>2, <2>1, <2>2 DEF Takes, DstSide, WidthOf
  <1>4. PICK i \in 0 .. Count(k) - 1 : LibRecord(k, i) = r
    <2>1. CASE Grows(k)
      <3>1. Count(k) - 1 - r \in 0 .. Count(k) - 1 /\ Count(k) - 1 - (Count(k) - 1 - r) = r
        BY <1>1
      <3> QED BY <2>1, <3>1 DEF LibRecord
    <2>2. CASE ~Grows(k)
      BY <2>2 DEF LibRecord
    <2> QED BY <2>1, <2>2
  <1>5. PICK j \in 1 .. n : LibMember(k, j) = x
    <2>1. n \in Nat /\ MemberNames(k) = {PlanOf(k).order[h] : h \in 1 .. n}
      BY PlannedFact, Zenon DEF Planned, WellLaid, MemberNames
    <2>2. PICK h \in 1 .. n : PlanOf(k).order[h] = x
      BY <1>3, <2>1
    <2> HIDE DEF n
    <2>3. CASE Grows(k)
      <3>1. n + 1 - h \in 1 .. n /\ n + 1 - (n + 1 - h) = h
        BY <2>1
      <3> QED BY <2>2, <2>3, <3>1 DEF LibMember, n
    <2>4. CASE ~Grows(k)
      BY <2>2, <2>4 DEF LibMember
    <2> QED BY <2>3, <2>4
  <1>6. Sooner(i, j, Count(k), 1)
    BY <1>1 DEF Sooner
  <1>7. MemberExact(k, m, r, x)
    BY <1>4, <1>5, <1>6 DEF LibSoFar
  <1> QED BY <1>2, <1>3, <1>7 DEF MemberExact

\* Where nothing turns round and nothing moves.
LEMMA ByteWidth ==
  ASSUME NEW k \in Calls, RecordCall(k), k.type = "BYTE", NEW x \in MemberNames(k)
  PROVE  WidthOf(k, x) = 1
  <1>1. k.class \in Class
    BY CallFact
  <1>2. PlanType(k) = "BYTE"
    BY DEF PlanType, WordTable
  <1>3. CvtTable(k.class)["BYTE"] = Cvt!BYTE /\ "BYTE" \in DOMAIN CvtTable(k.class)
    BY <1>1 DEF Class, CvtTable
  <1>4. PlanOf(k).width = Widths(k.class, Cvt!BYTE)
    <2>1. PlanOf(k) = ThePlan(k.class, "BYTE")
      BY <1>2, PlannedFact DEF Planned
    <2> QED BY <1>3, <2>1, TableIs DEF ThePlan, Declared, Plan
  <1>5. IsFields(Cvt!BYTE)
    BY <1>1, <1>3, CvtFields
  <1> DEFINE f == Cvt!BYTE
  <1>6. DOMAIN f = 1 .. 1 /\ Len(f) = 1 /\ f[1][2] = "Byte"
    BY DEF Cvt!BYTE
  <1> HIDE DEF f
  <1>7. Name(f) = {f[i][1] : i \in 1 .. 1} /\ Named(f, f[1][1]) = 1
    BY <1>5, <1>6, NamedFact DEF f
  <1>8. x \in Name(f) /\ WidthOf(k, x) = Width[k.class][f[Named(f, x)][2]]
    BY <1>4 DEF Widths, MemberNames, WidthOf, f
  <1>9. Named(f, x) = 1
    BY <1>7, <1>8
  <1> QED BY <1>1, <1>6, <1>8, <1>9 DEF Width

LEMMA StaysInPlace ==
  ASSUME NEW k \in Calls, RecordCall(k), SrcSide(k).size = DstSide(k).size, ~k.swap \/ k.type = "BYTE",
         NEW o \in DOMAIN RecordMap(k), RecordMap(k)[o] # Padding
  PROVE  RecordMap(k)[o] = o
  <1> DEFINE p == PlanOf(k)
  <1>1. PICK x : Takes(p, k.tof, k.swap, o, x) /\ RecordMap(k)[o] = MemberMap(k, x)[o]
    <2>1. RecordMap(k) = RecordBytes(p, k.tof, k.swap)
      BY RecordMapFact
    <2>2. /\ Inside(From(p, k.tof), p.width) /\ Inside(To(p, k.tof), p.width)
          /\ k.tof \in BOOLEAN /\ k.swap \in BOOLEAN
      BY SidesFact
    <2>3. \/ RecordMap(k)[o] = Padding
          \/ \E x : /\ Takes(p, k.tof, k.swap, o, x)
                    /\ RecordMap(k)[o] = FieldBytes(p, x, k.tof, k.swap)[o]
      BY <2>1, <2>2, RecordBytesFact
    <2> QED BY <2>3 DEF MemberMap
  <1>2. x \in MemberNames(k)
    BY <1>1 DEF Takes, MemberNames
  <1>3. SrcSide(k).at[x] = DstSide(k).at[x]
    BY <1>2, SamePlace
  <1>4. PICK d, w : d = DstSide(k).at[x] /\ w = WidthOf(k, x)
    OBVIOUS
  <1>5. /\ d \in Nat /\ w \in Nat \ {0} /\ o \in d .. d + w - 1
        /\ MemberMap(k, x)[o] = IF k.swap /\ x \in p.number THEN d + w - 1 - (o - d) ELSE d + (o - d)
    <2>1. d \in Nat /\ w \in Nat \ {0} /\ o \in d .. d + w - 1
      BY <1>1, <1>2, <1>4, MemberPlace DEF Takes, DstSide, WidthOf
    <2>2. MemberMap(k, x) = [u \in d .. (d + w - 1) |->
              IF k.swap /\ x \in p.number THEN d + w - 1 - (u - d) ELSE d + (u - d)]
      BY <1>3, <1>4 DEF MemberMap, FieldBytes, SrcSide, DstSide, WidthOf
    <2> QED BY <2>1, <2>2
  <1>6. k.type = "BYTE" => w = 1
    BY <1>2, <1>4, ByteWidth
  <1> HIDE DEF p
  <1> QED BY <1>1, <1>5, <1>6

\* Nothing to do: in place, in the same order of bytes.
LEMMA ReadyIsExact ==
  ASSUME NEW k \in Calls, RecordCall(k), Ready(k)
  PROVE  AllExact(k, Original(k))
  <1>1. Planned(k) /\ k.class \in Class /\ k.size \in Nat /\ k.tof \in BOOLEAN
    BY PlannedFact, CallFact
  <1>2. SrcSide(k).size \in Nat \ {0} /\ DstSide(k).size \in Nat \ {0} /\ Count(k) \in Nat
    BY RecordFact DEF SrcSide, DstSide
  <1>3. CASE Count(k) = 0
    BY <1>3 DEF AllExact
  <1>4. CASE k.db = k.sb /\ ~k.swap /\ fsize(k.class, k.type) = msize(k.class, k.type) /\ k.lib # "lib"
    <2>1. SrcSide(k).size = DstSide(k).size
      <3>1. CASE WordTable(k)
        BY <1>1, <3>1 DEF Planned, SrcSide, DstSide
      <3>2. CASE ~WordTable(k)
        <4>1. /\ k.type \notin Walked /\ k.type \in DOMAIN CvtTable(k.class)
              /\ PlanOf(k) = CvtPlans[k.class][k.type]
          BY <1>1, <1>4, <3>2 DEF Planned, PlanType, PlanOf
        <4>2. k.type \in DOMAIN CvtPlans[k.class]
          BY <1>1, <4>1, PlansFact
        <4>3. PlanOf(k).file.size = PlanOf(k).mem.size
          BY <1>4, <4>1, <4>2 DEF fsize, msize
        <4> QED BY <4>3 DEF SrcSide, DstSide, From, To
      <3> QED BY <3>1, <3>2
    <2> SUFFICES ASSUME NEW r \in 0 .. Count(k) - 1, NEW o \in DOMAIN RecordMap(k), RecordMap(k)[o] # Padding
                 PROVE  Original(k)[DstAt(k, r) + o] = Was(k)[SrcAt(k, r) + RecordMap(k)[o]]
      BY DEF AllExact
    <2>2. RecordMap(k)[o] = o
      BY <1>4, <2>1, StaysInPlace
    <2>3. DstAt(k, r) = SrcAt(k, r)
      BY <1>4, <2>1 DEF DstAt, SrcAt, SrcSide, DstSide
    <2> QED BY <2>2, <2>3 DEF Was
  <1>5. CASE k.lib = "lib"
    <2>1. Need(k) = 0 /\ ~WordTable(k)
      BY <1>5 DEF Ready, WordTable
    <2>2. Need(k) = Count(k) * DstSide(k).size
      BY <2>1, RecordFact DEF DstSide
    <2>3. Count(k) = 0
      BY <1>2, <2>1, <2>2
    <2> QED BY <1>3, <2>3
  <1>6. CASE k.size = 0
    <2>1. Count(k) * SrcSide(k).size <= 0
      BY <1>6, RecordFact DEF SrcSide
    <2>2. Count(k) = 0
      BY <1>2, <2>1
    <2> QED BY <1>3, <2>2
  <1> QED BY <1>4, <1>5, <1>6 DEF Ready

\* memcpy or memmove of all the records.
LEMMA CopyIsExact ==
  ASSUME NEW k \in Calls, RecordCall(k), CopiedAtOnce(k)
  PROVE  AllExact(k, Convert(Original(k), k.db, k.sb, Same(Count(k) * To(PlanOf(k), k.tof).size)))
  <1> DEFINE T == DstSide(k).size
             n == Count(k) * T
             g == Convert(Original(k), k.db, k.sb, Same(n))
  <1>1. SrcSide(k).size = DstSide(k).size /\ (~k.swap \/ k.type = "BYTE")
    BY ScalarFact DEF CopiedAtOnce, SrcSide, DstSide
  <1>2. T \in Nat \ {0} /\ Count(k) \in Nat /\ k.db \in Nat /\ k.sb \in Nat
    BY RecordFact, CallFact DEF DstSide
  <1> SUFFICES ASSUME NEW r \in 0 .. Count(k) - 1, NEW o \in DOMAIN RecordMap(k), RecordMap(k)[o] # Padding
               PROVE  g[DstAt(k, r) + o] = Was(k)[SrcAt(k, r) + RecordMap(k)[o]]
    BY DEF AllExact, DstSide
  <1>3. RecordMap(k)[o] = o /\ o \in 0 .. T - 1
    BY <1>1, StaysInPlace, MapFact DEF DstSide
  <1>4. DstAt(k, r) = k.db + r * T /\ SrcAt(k, r) = k.sb + r * T
    BY <1>1 DEF DstAt, SrcAt, SrcSide, DstSide
  <1>5. DstAt(k, r) + o \in DOMAIN Original(k) /\ DstAt(k, r) + o \in Int
    BY <1>3, OriginalFact, RecordAddress DEF DstSide
  <1> HIDE DEF T
  <1>6. r * T + T <= n /\ r * T \in Nat /\ n \in Nat
    BY <1>2, TimesFact
  <1> HIDE DEF n
  <1>7. PICK x : x = r * T
    OBVIOUS
  <1>8. (DstAt(k, r) + o) - k.db = x + o /\ x + o \in 0 .. n - 1 /\ k.sb + (x + o) = SrcAt(k, r) + o
    BY <1>2, <1>3, <1>4, <1>6, <1>7
  <1>9. DOMAIN Same(n) = 0 .. n - 1 /\ Same(n)[x + o] = x + o /\ x + o # Padding
    BY <1>8 DEF Same, Padding
  <1>10. g[DstAt(k, r) + o] = Original(k)[k.sb + (x + o)]
    <2>1. PICK a : a = DstAt(k, r) + o
      OBVIOUS
    <2>2. a - k.db \in DOMAIN Same(n) /\ Same(n)[a - k.db] = x + o /\ x + o # Padding
      BY <1>8, <1>9, <2>1
    <2>3. a \in DOMAIN Original(k) /\ a \in Int /\ k.db \in Int
      BY <1>2, <1>5, <2>1
    <2>4. g[a] = Original(k)[k.sb + Same(n)[a - k.db]]
      BY <2>2, <2>3, ConvertPoint
    <2> QED BY <2>1, <2>2, <2>4
  <1> QED BY <1>3, <1>8, <1>10 DEF Was

\* The words of a hash table of class 32.
LEMMA WordMap ==
  ASSUME NEW k \in Calls, RecordCall(k), WordTable(k), NEW o \in 0 .. 3
  PROVE  /\ o \in DOMAIN RecordMap(k) /\ DstSide(k).size = 4 /\ SrcSide(k).size = 4
         /\ RecordMap(k)[o] = IF k.swap THEN 3 - o ELSE o
         /\ RecordMap(k)[o] # Padding
  <1> DEFINE p == PlanOf(k)
  <1>1. Planned(k) /\ k.class \in Class /\ k.tof \in BOOLEAN /\ k.swap \in BOOLEAN
    BY PlannedFact, CallFact
  <1>2. SrcSide(k).size = 4 /\ DstSide(k).size = 4 /\ \E x : Takes(p, k.tof, k.swap, o, x)
    BY <1>1 DEF Planned, SrcSide, DstSide
  <1>3. DOMAIN RecordMap(k) = 0 .. 3
    <2>1. DOMAIN RecordMap(k) = 0 .. DstSide(k).size - 1
      BY MapFact DEF DstSide
    <2> QED BY <1>2, <2>1
  <1>4. PICK x : Takes(p, k.tof, k.swap, o, x) /\ RecordMap(k)[o] = MemberMap(k, x)[o]
    <2>1. RecordMap(k) = RecordBytes(p, k.tof, k.swap)
      BY RecordMapFact
    <2>2. Inside(From(p, k.tof), p.width) /\ Inside(To(p, k.tof), p.width)
      BY SidesFact
    <2>3. \/ RecordMap(k)[o] = Padding /\ \A x : ~Takes(p, k.tof, k.swap, o, x)
          \/ \E x : /\ Takes(p, k.tof, k.swap, o, x)
                    /\ RecordMap(k)[o] = FieldBytes(p, x, k.tof, k.swap)[o]
      BY <1>1, <1>3, <2>1, <2>2, RecordBytesFact
    <2> QED BY <1>2, <2>3 DEF MemberMap
  <1> DEFINE f == Cvt!WORD
  <1>5. CvtTable(k.class)["WORD"] = f /\ "WORD" \in DOMAIN CvtTable(k.class)
    BY <1>1, TypesFact
  <1>6. p = ThePlan(k.class, "WORD")
    BY <1>1 DEF Planned, PlanType
  <1>7. p.width = Widths(k.class, f) /\ p.number = Numbers(f)
    BY <1>5, <1>6, TableIs DEF ThePlan, Declared, Plan
  <1>8. DOMAIN f = 1 .. 1 /\ Len(f) = 1 /\ f[1][2] = "Word"
    BY DEF Cvt!WORD
  <1>9. IsFields(f)
    BY <1>1, <1>5, CvtFields
  <1> HIDE DEF f
  <1>10. Name(f) = {f[i][1] : i \in 1 .. 1} /\ Named(f, f[1][1]) = 1
    BY <1>8, <1>9, NamedFact
  <1>11. x \in Name(f) /\ Named(f, x) = 1
    BY <1>4, <1>7, <1>10 DEF Takes, Widths
  <1>12. p.width[x] = 4 /\ x \in p.number
    BY <1>1, <1>7, <1>8, <1>11 DEF Widths, Width, Numbers
  <1>13. x \in MemberNames(k) /\ WidthOf(k, x) = 4
    BY <1>4, <1>12 DEF Takes, MemberNames, WidthOf
  <1>14. /\ SrcSide(k).at[x] = 0 /\ DstSide(k).at[x] = 0
    BY <1>2, <1>13, MemberPlace
  <1>15. MemberMap(k, x) = [u \in 0 .. (0 + 4 - 1) |-> IF k.swap THEN 0 + 4 - 1 - (u - 0) ELSE 0 + (u - 0)]
    BY <1>12, <1>13, <1>14 DEF MemberMap, FieldBytes, SrcSide, DstSide, WidthOf
  <1>16. MemberMap(k, x)[o] = IF k.swap THEN 3 - o ELSE o
    BY <1>15
  <1>17. RecordMap(k)[o] = (IF k.swap THEN 3 - o ELSE o) /\ RecordMap(k)[o] # Padding
    BY <1>4, <1>16 DEF Padding
  <1> QED BY <1>2, <1>3, <1>17

AsExpected(k, m) == \A o \in DOMAIN Expected(k) \ LostBytes(k) : m[k.db + o] = Was(k)[k.sb + Expected(k)[o]]

LEMMA ExpectedFact ==
  ASSUME NEW k
  PROVE  Expected(k) = IF k.type \in {"VDEF", "VNEED"} THEN VersionBytes(k)
                       ELSE IF k.type = "NOTE" THEN NotesBytes(k)
                       ELSE IF k.type = "GNUHASH" THEN TableOfWords(k) ELSE RecordsBytes(k)
  <1>1. CASE k.type \in {"VDEF", "VNEED"}
    <2>1. k.type # "NOTE" /\ k.type # "GNUHASH"
      BY <1>1
    <2> QED BY <1>1, <2>1, Zenon DEF Expected
  <1>2. CASE k.type \notin {"VDEF", "VNEED"} /\ k.type = "NOTE"
    <2>1. k.type # "GNUHASH"
      BY <1>2
    <2> QED BY <1>2, <2>1, Zenon DEF Expected
  <1>3. CASE k.type \notin {"VDEF", "VNEED"} /\ k.type # "NOTE" /\ k.type = "GNUHASH"
    BY <1>3, Zenon DEF Expected
  <1>4. CASE k.type \notin {"VDEF", "VNEED"} /\ k.type # "NOTE" /\ k.type # "GNUHASH"
    BY <1>4, Zenon DEF Expected
  <1> QED BY <1>1, <1>2, <1>3, <1>4

LEMMA DivMod ==
  ASSUME NEW o \in Nat, NEW n \in Nat, NEW t \in Nat \ {0}, o < n * t
  PROVE  /\ o \div t \in 0 .. n - 1 /\ o % t \in 0 .. t - 1
         /\ o = (o \div t) * t + (o % t)
  <1>1. o \div t \in Nat /\ o % t \in 0 .. t - 1 /\ o = (o \div t) * t + (o % t)
    <2>1. o \div t \in Nat /\ (o \div t) * t <= o /\ o < (o \div t) * t + t
      OBVIOUS
    <2>2. o % t = o - (o \div t) * t
      OBVIOUS
    <2>3. PICK y, e : y = (o \div t) * t /\ e = o % t
      OBVIOUS
    <2>4. y \in Nat /\ y <= o /\ o < y + t /\ e = o - y
      <3>1. (o \div t) * t \in Nat
        BY <2>1
      <3> QED BY <2>1, <2>2, <2>3, <3>1
    <2>5. e \in 0 .. t - 1 /\ o = y + e
      BY ONLY <2>4, o \in Nat, t \in Nat
    <2> QED BY <2>1, <2>3, <2>5, Zenon
  <1>2. PICK q, e : q = o \div t /\ e = o % t
    OBVIOUS
  <1>3. q \in Nat /\ e \in Nat /\ o = q * t + e
    BY <1>1, <1>2
  <1>4. q < n
    <2> SUFFICES ASSUME n <= q PROVE FALSE
      BY <1>3
    <2>1. n * t <= q * t
      <3>1. \A u, v, z \in Nat : u <= v => u * z <= v * z
        OBVIOUS
      <3> QED BY <1>3, <3>1
    <2>2. q * t \in Nat /\ n * t \in Nat
      BY <1>3
    <2> QED BY <1>3, <2>1, <2>2
  <1> QED BY <1>1, <1>2, <1>3, <1>4

LEMMA RefMapIs ==
  ASSUME NEW lib \in {"lib", "elftoolchain"}, NEW c \in Class, NEW t \in DOMAIN CvtTable(c),
         NEW tof \in BOOLEAN, NEW swap \in BOOLEAN, lib = "lib" => t \in DOMAIN LibTable(c)
  PROVE  RefMaps[lib][c][t][tof][swap] = RecordBytes(RefPlan(lib, c, t), tof, swap)
  BY TableIs DEF RefMaps

LEMMA RecordsBytesFact ==
  ASSUME NEW k \in Calls, RecordCall(k), ~WordTable(k)
  PROVE  RecordsBytes(k) = [o \in { p \in 0 .. (Need(k) - 1) : RecordMap(k)[p % DstSide(k).size] # Padding } |->
             (o \div DstSide(k).size) * SrcSide(k).size + RecordMap(k)[o % DstSide(k).size]]
  <1>1. /\ k.class \in Class /\ k.tof \in BOOLEAN /\ k.swap \in BOOLEAN /\ k.lib \in {"lib", "elftoolchain"}
    BY CallFact
  <1>2. Planned(k)
    BY PlannedFact
  <1>3. k.type \in DOMAIN CvtTable(k.class) /\ PlanOf(k) = ThePlan(k.class, k.type) /\ k.type \notin Walked
    BY <1>2 DEF Planned, PlanType
  <1>4. k.lib = "lib" => k.type \in DOMAIN LibTable(k.class)
    <2>1. Supported(k)
      BY AcceptsFact DEF RecordCall
    <2> QED BY <1>3, <2>1, SupportedFact
  <1>5. RefPlan(k.lib, k.class, k.type) = PlanOf(k)
    BY <1>1, <1>3, PlansAgree
  <1>6. RefMaps[k.lib][k.class][k.type][k.tof][k.swap] = RecordBytes(RefPlan(k.lib, k.class, k.type), k.tof, k.swap)
    BY <1>1, <1>3, <1>4, RefMapIs
  <1>7. RefMaps[k.lib][k.class][k.type][k.tof][k.swap] = RecordMap(k)
    BY <1>5, <1>6, RecordMapFact
  <1>8. ToSize(k) = DstSide(k).size /\ FromSize(k) = SrcSide(k).size
    BY RecordFact DEF DstSide, SrcSide
  <1> QED BY <1>7, <1>8 DEF RecordsBytes

LEMMA RecordsAsExpected ==
  ASSUME NEW k \in Calls, RecordCall(k), NEW m, AllExact(k, m)
  PROVE  AsExpected(k, m)
  <1>1. /\ k.class \in Class /\ k.tof \in BOOLEAN /\ k.swap \in BOOLEAN
        /\ k.db \in Nat /\ k.sb \in Nat /\ k.size \in Nat
    BY CallFact
  <1>2. CASE ~WordTable(k)
    <2> DEFINE F == SrcSide(k).size
               T == DstSide(k).size
               map == RecordMap(k)
    <2>1. Expected(k) = RecordsBytes(k)
      <3>1. k.type \notin Walked
        BY <1>2, PlannedFact DEF Planned
      <3> QED BY <3>1, ExpectedFact DEF Walked
    <2>2. Expected(k) = [o \in { p \in 0 .. (Need(k) - 1) : map[p % T] # Padding } |-> (o \div T) * F + map[o % T]]
      BY <1>2, <2>1, RecordsBytesFact
    <2>3. /\ F \in Nat \ {0} /\ T \in Nat \ {0} /\ Count(k) \in Nat /\ Need(k) = Count(k) * T /\ Need(k) \in Nat
      BY <1>2, RecordFact DEF SrcSide, DstSide
    <2> SUFFICES ASSUME NEW o \in 0 .. (Need(k) - 1), map[o % T] # Padding, o \notin LostBytes(k)
                 PROVE  m[k.db + o] = Was(k)[k.sb + ((o \div T) * F + map[o % T])]
      BY <2>2 DEF AsExpected
    <2>4. PICK r, e : r = o \div T /\ e = o % T
      OBVIOUS
    <2>5. r \in 0 .. Count(k) - 1 /\ e \in 0 .. T - 1 /\ o = r * T + e
      <3> HIDE DEF T
      <3>1. o \in Nat /\ o < Count(k) * T
        BY <2>3
      <3> QED BY <2>3, <2>4, <3>1, DivMod
    <2>6. e \in DOMAIN map /\ map[e] \in 0 .. F - 1
      BY <2>4, <2>5, MapFact DEF SrcSide, DstSide
    <2>7. m[DstAt(k, r) + e] = Was(k)[SrcAt(k, r) + map[e]]
      <3>1. ToSize(k) = T /\ Translator(k) = "records"
        BY <1>2, RecordFact DEF DstSide, RecordCall
      <3>2. ~LostIn(k, e)
        BY <2>4, <3>1 DEF LostIn, LostBytes
      <3> QED BY <2>4, <2>5, <2>6, <3>2 DEF AllExact
    <2>8. PICK x, y, c : x = r * T /\ y = r * F /\ c = map[e]
      OBVIOUS
    <2>9. x \in Nat /\ y \in Nat /\ c \in Nat
      <3>1. \A u, v \in Nat : u * v \in Nat
        OBVIOUS
      <3>2. r \in Nat
        BY <2>3, <2>5
      <3> HIDE DEF F, T, map
      <3> QED BY <2>3, <2>6, <2>8, <3>1, <3>2
    <2>10. DstAt(k, r) + e = k.db + o /\ SrcAt(k, r) + map[e] = k.sb + (y + c)
      <3>1. DstAt(k, r) = k.db + x /\ SrcAt(k, r) = k.sb + y
        BY <2>8 DEF DstAt, SrcAt, SrcSide, DstSide
      <3>2. e \in Nat /\ o = x + e
        BY <2>3, <2>5, <2>8
      <3> HIDE DEF map
      <3> QED BY <1>1, <2>8, <2>9, <3>1, <3>2
    <2> QED BY <2>4, <2>7, <2>8, <2>10
  <1>3. CASE WordTable(k)
    <2>1. k.type = "GNUHASH" /\ k.class = 32 /\ Count(k) = k.size \div 4
      BY <1>3 DEF WordTable, Count
    <2>2. Expected(k) = TableOfWords(k)
      BY <2>1, ExpectedFact
    <2>3. Expected(k) = [o \in 0 .. (4 * (k.size \div 4) - 1) |->
              IF ~k.swap THEN o
              ELSE IF HashHdrSize <= o /\ o < HashHdrSize + 0 THEN Turned(o, 0, 8) ELSE Turned(o, 0, 4)]
      BY <2>1, <2>2 DEF TableOfWords
    <2> SUFFICES ASSUME NEW o \in 0 .. (4 * (k.size \div 4) - 1)
                 PROVE  m[k.db + o] = Was(k)[k.sb + (IF ~k.swap THEN o ELSE Turned(o, 0, 4))]
      BY <2>3 DEF AsExpected, HashHdrSize
    <2>4. PICK r, e : r = o \div 4 /\ e = o % 4
      OBVIOUS
    <2>5. k.size \div 4 \in Nat
      BY <1>1
    <2>6. r \in 0 .. Count(k) - 1 /\ e \in 0 .. 3 /\ o = r * 4 + e
      BY <2>1, <2>4, <2>5
    <2>7. /\ e \in DOMAIN RecordMap(k) /\ RecordMap(k)[e] = (IF k.swap THEN 3 - e ELSE e)
          /\ RecordMap(k)[e] # Padding /\ DstSide(k).size = 4 /\ SrcSide(k).size = 4
      BY <1>3, <2>6, WordMap
    <2>8. m[DstAt(k, r) + e] = Was(k)[SrcAt(k, r) + (IF k.swap THEN 3 - e ELSE e)]
      <3>1. ~LostIn(k, e)
        BY <1>3 DEF LostIn, OverItself, WordTable
      <3> QED BY <2>6, <2>7, <3>1 DEF AllExact
    <2>9. DstAt(k, r) = k.db + r * 4 /\ SrcAt(k, r) = k.sb + r * 4
      BY <2>7 DEF DstAt, SrcAt, SrcSide, DstSide
    <2>10. (IF ~k.swap THEN o ELSE Turned(o, 0, 4)) = r * 4 + (IF k.swap THEN 3 - e ELSE e)
      BY <1>1, <2>4, <2>6 DEF Turned
    <2>11. r \in Nat
      BY <2>1, <2>5, <2>6
    <2>12. DstAt(k, r) + e = k.db + o
      BY <1>1, <2>6, <2>9, <2>11
    <2>13. SrcAt(k, r) + (IF k.swap THEN 3 - e ELSE e) = k.sb + (r * 4 + (IF k.swap THEN 3 - e ELSE e))
      BY <1>1, <2>6, <2>9, <2>11
    <2> QED BY <2>8, <2>10, <2>12, <2>13
  <1> QED BY <1>2, <1>3

-----------------------------------------------------------------------------
(***************************************************************************)
(* What a table that is walked says, read from the memory of the call.     *)
(***************************************************************************)
SourceIntact(k, m, lo, n) == \A o \in lo .. lo + n - 1 : m[k.sb + o] = Original(k)[k.sb + o]

LEMMA SourceByte ==
  ASSUME NEW k \in Calls, k.type \in Walked, NEW o \in 0 .. k.size - 1
  PROVE  Original(k)[k.sb + o] = k.image[o]
  <1>1. /\ k.size \in Nat /\ k.sb \in Nat /\ Top(k) \in Nat /\ k.sb + k.size <= Top(k)
    BY CallFact
  <1>2. k.sb + o \in 0 .. Top(k) /\ InSrc(k, k.sb + o) /\ (k.sb + o) - k.sb = o
    BY <1>1 DEF InSrc
  <1>3. PICK a : a = k.sb + o
    OBVIOUS
  <1>4. Original(k)[a] = k.image[a - k.sb]
    BY <1>2, <1>3 DEF Original
  <1> QED BY <1>2, <1>3, <1>4

\* A member that is read is what the contents of the source say.
ReadsRight(k, m, off, f, n) ==
    Member(k, m, k.sb + off, f, n) = Says(k, off, Packed(k.class, f), n, Widths(k.class, f)[n])

LEMMA SaysFact ==
  ASSUME NEW k \in Calls, k.type \in Walked, NEW m, NEW off \in Nat, NEW f, IsFields(f),
         off + Packed(k.class, f).size <= k.size, SourceIntact(k, m, off, Packed(k.class, f).size),
         NEW n \in Name(f)
  PROVE  ReadsRight(k, m, off, f, n)
  <1> DEFINE w == Widths(k.class, f)[n]
             at == Packed(k.class, f).at[n]
             size == Packed(k.class, f).size
             a == (k.sb + off) + at
             g == [i \in 1 .. w |-> m[IF k.swap /\ ~k.tof THEN a + w - i ELSE a + i - 1]]
             h == [i \in 1 .. w |-> k.image[IF k.tof \/ ~k.swap THEN (off + at) + i - 1 ELSE (off + at) + w - i]]
  <1>1. w \in Nat \ {0} /\ at \in Nat /\ at + w <= size /\ size \in Nat
    <2>1. k.class \in Class
      BY CallFact
    <2> QED BY <2>1, PackedCovers DEF Inside
  <1>2. k.sb \in Nat /\ k.size \in Nat /\ k.tof \in BOOLEAN /\ k.swap \in BOOLEAN
    BY CallFact
  <1>3. Member(k, m, k.sb + off, f, n) = Native(g) /\ Says(k, off, Packed(k.class, f), n, w) = Native(h)
    BY DEF Member, Value, Says
  <1>4. g = h
    <2> HIDE DEF w, at, size
    <2>1. ASSUME NEW i \in 1 .. w PROVE g[i] = h[i]
      <3>1. PICK u : u = (IF k.tof \/ ~k.swap THEN (off + at) + i - 1 ELSE (off + at) + w - i)
        OBVIOUS
      <3>2. u \in off .. off + size - 1 /\ u \in 0 .. k.size - 1
        <4>1. off + size <= k.size
          BY DEF size
        <4> QED BY <1>1, <1>2, <3>1, <4>1
      <3>3. (IF k.swap /\ ~k.tof THEN a + w - i ELSE a + i - 1) = k.sb + u
        BY <1>1, <1>2, <3>1
      <3>4. g[i] = m[k.sb + u] /\ h[i] = k.image[u]
        BY <3>1, <3>3
      <3>5. m[k.sb + u] = Original(k)[k.sb + u]
        BY <3>2 DEF SourceIntact, size
      <3> QED BY <3>2, <3>4, <3>5, SourceByte
    <2> QED BY <2>1
  <1> QED BY <1>3, <1>4 DEF ReadsRight

LEMMA SaysIsNat ==
  ASSUME NEW k \in Calls, k.type \in Walked, NEW off \in Nat, NEW f, IsFields(f),
         off + Packed(k.class, f).size <= k.size, NEW n, HasNumber(k.class, f, n)
  PROVE  Says(k, off, Packed(k.class, f), n, Widths(k.class, f)[n]) \in Nat
  <1>1. Kept(k, Original(k)) /\ SourceIntact(k, Original(k), off, Packed(k.class, f).size)
    BY OriginalFact DEF SourceIntact
  <1>2. n \in Name(f)
    BY DEF HasNumber
  <1>3. Member(k, Original(k), k.sb + off, f, n) \in Nat
    BY <1>1, VersionRead
  <1>4. ReadsRight(k, Original(k), off, f, n)
    BY <1>1, <1>2, SaysFact
  <1> QED BY <1>3, <1>4 DEF ReadsRight

-----------------------------------------------------------------------------
(***************************************************************************)
(* The hash table.                                                         *)
(***************************************************************************)
HashCall(k) == Accepts(k) /\ Translator(k) = "hash"

LEMMA HashCallFact ==
  ASSUME NEW k \in Calls, HashCall(k)
  PROVE  /\ k.type = "GNUHASH" /\ k.type \in Walked /\ ~WordTable(k) /\ k.class = 64
         /\ k.lib = "elftoolchain" /\ Expected(k) = TableOfWords(k)
  <1>1. k.type = "GNUHASH" /\ ~WordTable(k)
    BY TranslatorFact DEF HashCall
  <1>2. k.lib = "elftoolchain"
    <2>1. Supported(k) /\ k.lib \in {"lib", "elftoolchain"}
      BY AcceptsFact, CallFact DEF HashCall
    <2>2. k.lib = "lib" => k.type \in {"VDEF", "VNEED"}
      BY <1>1, <2>1, SupportedFact DEF Walked
    <2> QED BY <1>1, <2>1, <2>2
  <1>3. k.class = 64
    BY <1>1, <1>2, CallFact DEF WordTable, Class
  <1> QED BY <1>1, <1>2, <1>3, ExpectedFact DEF Walked

HashWords(k) == Says(k, 0, Packed(64, HashHdr), "gh_maskwords", 4)
HashBuckets(k) == Says(k, 0, Packed(64, HashHdr), "gh_nbuckets", 4)

LEMMA HashReads ==
  ASSUME NEW k \in Calls, HashCall(k), HashHdrSize <= k.size
  PROVE  /\ Member(k, Original(k), k.sb, HashHdr, "gh_maskwords") = HashWords(k)
         /\ Member(k, Original(k), k.sb, HashHdr, "gh_nbuckets") = HashBuckets(k)
         /\ HashWords(k) \in Nat /\ HashBuckets(k) \in Nat
  <1>1. k.type \in Walked /\ k.class = 64 /\ k.class \in Class /\ k.sb \in Nat /\ k.size \in Nat
    BY HashCallFact, CallFact
  <1>2. /\ IsFields(HashHdr) /\ Packed(64, HashHdr).size = 16
        /\ HasNumber(64, HashHdr, "gh_nbuckets") /\ HasNumber(64, HashHdr, "gh_maskwords")
        /\ Widths(64, HashHdr)["gh_nbuckets"] = 4 /\ Widths(64, HashHdr)["gh_maskwords"] = 4
    BY <1>1, HashNumbers DEF HashHdrSize
  <1>3. "gh_nbuckets" \in Name(HashHdr) /\ "gh_maskwords" \in Name(HashHdr)
    BY <1>2 DEF HasNumber
  <1>4. 0 + Packed(k.class, HashHdr).size <= k.size /\ k.sb + 0 = k.sb
    BY <1>1, <1>2 DEF HashHdrSize
  <1>5. SourceIntact(k, Original(k), 0, Packed(k.class, HashHdr).size)
    BY DEF SourceIntact
  <1>6. /\ Member(k, Original(k), k.sb + 0, HashHdr, "gh_maskwords") = HashWords(k)
        /\ Member(k, Original(k), k.sb + 0, HashHdr, "gh_nbuckets") = HashBuckets(k)
    <2>1. PICK f, z : f = HashHdr /\ z = 0
      OBVIOUS
    <2>2. /\ z \in Nat /\ IsFields(f) /\ z + Packed(k.class, f).size <= k.size
          /\ SourceIntact(k, Original(k), z, Packed(k.class, f).size)
          /\ "gh_nbuckets" \in Name(f) /\ "gh_maskwords" \in Name(f) /\ k.type \in Walked
      BY <1>1, <1>2, <1>3, <1>4, <1>5, <2>1
    <2>3. ASSUME NEW n \in Name(f)
          PROVE  ReadsRight(k, Original(k), z, f, n)
      BY <2>2, SaysFact
    <2>4. /\ Member(k, Original(k), k.sb + z, f, "gh_nbuckets")
                = Says(k, z, Packed(k.class, f), "gh_nbuckets", Widths(k.class, f)["gh_nbuckets"])
          /\ Member(k, Original(k), k.sb + z, f, "gh_maskwords")
                = Says(k, z, Packed(k.class, f), "gh_maskwords", Widths(k.class, f)["gh_maskwords"])
      BY <2>2, <2>3 DEF ReadsRight
    <2> QED BY <1>1, <1>2, <2>1, <2>4 DEF HashWords, HashBuckets
  <1>7. HashWords(k) \in Nat /\ HashBuckets(k) \in Nat
    BY <1>1, <1>2, <1>4, SaysIsNat DEF HashWords, HashBuckets
  <1> QED BY <1>4, <1>6, <1>7

\* Where the bytes of a number go does not depend on where counting begins.
LEMMA TurnedFact ==
  ASSUME NEW o \in Nat, 16 <= o
  PROVE  Turned(o, 16, 8) = Turned(o, 0, 8)
  BY DEF Turned

LEMMA HashAsExpected ==
  ASSUME NEW k \in Calls, HashCall(k), NEW n \in Nat, 16 <= k.size, n = 4 * (k.size \div 4)
  PROVE  AsExpected(k, Convert(Original(k), k.db, k.sb, HashBytes(k, 8 * HashWords(k), n)))
  <1> DEFINE bloom == 8 * HashWords(k)
             b == HashBytes(k, bloom, n)
  <1>1. /\ k.type = "GNUHASH" /\ k.class = 64 /\ Expected(k) = TableOfWords(k) /\ k.type \in Walked
        /\ k.db \in Nat /\ k.size \in Nat /\ k.room \in Nat
        /\ Top(k) \in Nat /\ k.db + k.room <= Top(k) /\ k.sb \in Nat
    BY HashCallFact, CallFact
  <1>2. HashWords(k) \in Nat
    BY HashReads DEF HashHdrSize
  <1>3. Expected(k) = [o \in 0 .. (n - 1) |->
             IF ~k.swap THEN o
             ELSE IF 16 <= o /\ o < 16 + bloom THEN Turned(o, 0, 8) ELSE Turned(o, 0, 4)]
    BY <1>1 DEF TableOfWords, HashHdrSize, HashWords
  <1>4. b = [o \in 0 .. (n - 1) |->
             IF ~k.swap THEN o
             ELSE IF o >= 16 /\ o < 16 + bloom THEN Turned(o, 16, 8) ELSE Turned(o, 0, 4)]
    BY DEF HashBytes, HashHdrSize
  <1> SUFFICES ASSUME NEW o \in 0 .. n - 1
               PROVE  Convert(Original(k), k.db, k.sb, b)[k.db + o] = Was(k)[k.sb + Expected(k)[o]]
    BY <1>3 DEF AsExpected
  <1> HIDE DEF bloom, b
  <1>5. b[o] = Expected(k)[o]
    <2>1. bloom \in Nat
      BY <1>2 DEF bloom
    <2> QED BY <1>3, <1>4, <2>1, TurnedFact
  <1>6. b[o] # Padding
    <2>1. Turned(o, 0, 4) \in Nat /\ (16 <= o => Turned(o, 16, 8) \in Nat)
      BY DEF Turned
    <2>2. b[o] \in Nat
      BY <1>4, <2>1
    <2> QED BY <2>2 DEF Padding
  <1>7. PICK a : a = k.db + o
    OBVIOUS
  <1>8. a - k.db = o /\ a \in 0 .. Top(k)
    <2>1. Need(k) = k.size /\ k.room >= Need(k)
      BY <1>1, AcceptsFact DEF HashCall
    <2> QED BY <1>1, <1>7, <2>1
  <1>9. a \in DOMAIN Original(k) /\ a \in Int /\ DOMAIN b = 0 .. n - 1 /\ k.db \in Int
    BY <1>1, <1>4, <1>8 DEF Original
  <1>10. Convert(Original(k), k.db, k.sb, b)[a] = Original(k)[k.sb + b[a - k.db]]
    BY <1>6, <1>8, <1>9, ConvertPoint
  <1> QED BY <1>5, <1>7, <1>8, <1>10 DEF Was

-----------------------------------------------------------------------------
(***************************************************************************)
(* The places of a chain, each of which tells the next.                    *)
(***************************************************************************)
Follows(at, first, nxt, most) ==
    /\ at \in [1 .. most -> Nat]
    /\ most # 0 => at[1] = first
    /\ \A i \in 2 .. most : at[i] = nxt[at[i - 1]]

LEMMA ChainExists ==
  ASSUME NEW nxt \in [Nat -> Nat], NEW first \in Nat, NEW most \in Nat
  PROVE  \E at : Follows(at, first, nxt, most)
  <1> DEFINE S == {m \in 0 .. most : \E g : Follows(g, first, nxt, m)}
  <1>1. 0 \in S
    <2>1. Follows([i \in 1 .. 0 |-> 0], first, nxt, 0)
      BY DEF Follows
    <2>2. \E g : Follows(g, first, nxt, 0)
      BY <2>1
    <2> QED BY <2>2
  <1>2. ASSUME NEW m \in 1 .. most, m - 1 \in S PROVE m \in S
    <2>1. PICK g : Follows(g, first, nxt, m - 1)
      BY <1>2
    <2> DEFINE last == IF m = 1 THEN first ELSE nxt[g[m - 1]]
               h == [i \in 1 .. m |-> IF i = m THEN last ELSE g[i]]
    <2>2. last \in Nat
      <3>1. m # 1 => g[m - 1] \in Nat
        BY <2>1 DEF Follows
      <3> QED BY <3>1
    <2>3. ASSUME NEW i \in 1 .. m, i # m PROVE h[i] = g[i] /\ g[i] \in Nat /\ i \in 1 .. m - 1
      <3>1. i \in 1 .. m - 1
        BY <2>3
      <3>2. g[i] \in Nat
        BY <2>1, <3>1 DEF Follows
      <3> QED BY <2>3, <3>1, <3>2
    <2>4. h \in [1 .. m -> Nat]
      BY <2>2, <2>3
    <2>5. h[1] = first
      <3>1. CASE m = 1
        BY <3>1
      <3>2. CASE m # 1
        BY <2>1, <3>2 DEF Follows
      <3> QED BY <3>1, <3>2
    <2>6. \A i \in 2 .. m : h[i] = nxt[h[i - 1]]
      <3> TAKE i \in 2 .. m
      <3>1. CASE i = m
        <4>1. h[i] = nxt[g[m - 1]] /\ h[m - 1] = g[m - 1]
          BY <3>1
        <4> QED BY <3>1, <4>1
      <3>2. CASE i # m
        <4>1. i \in 2 .. m - 1 /\ i \in 1 .. m /\ i - 1 \in 1 .. m /\ i - 1 # m
          BY <3>2
        <4>2. h[i] = g[i] /\ h[i - 1] = g[i - 1]
          BY <3>2, <4>1
        <4>3. g[i] = nxt[g[i - 1]]
          BY <2>1, <4>1 DEF Follows
        <4> QED BY <4>2, <4>3
      <3> QED BY <3>1, <3>2
    <2> HIDE DEF h
    <2>7. Follows(h, first, nxt, m)
      BY <2>4, <2>5, <2>6 DEF Follows
    <2>8. \E g_1 : Follows(g_1, first, nxt, m)
      BY <2>7
    <2> QED BY <2>8
  <1>3. most \in S
    <2>1. \A m \in 1 .. most : m - 1 \in S => m \in S
      BY <1>2
    <2> HIDE DEF S
    <2>2. 0 .. most \subseteq S
      BY ONLY most \in Nat, <1>1, <2>1, UpTo
    <2> QED BY <2>2
  <1> QED BY <1>3

\* A property that each place hands to the next.
LEMMA AlongChain ==
  ASSUME NEW most \in Nat, NEW at, NEW P, most # 0 => at[1] \in P,
         \A i \in 2 .. most : at[i - 1] \in P => at[i] \in P
  PROVE  \A i \in 1 .. most : at[i] \in P
  <1> DEFINE S == {i \in 0 .. most : i = 0 \/ at[i] \in P}
  <1>1. 0 \in S
    OBVIOUS
  <1>2. \A i \in 1 .. most : i - 1 \in S => i \in S
    <2> TAKE i \in 1 .. most
    <2> HAVE i - 1 \in S
    <2>1. CASE i = 1
      BY <2>1
    <2>2. CASE i # 1
      BY <2>2
    <2> QED BY <2>1, <2>2
  <1> HIDE DEF S
  <1>3. 0 .. most \subseteq S
    BY ONLY most \in Nat, <1>1, <1>2, UpTo
  <1>4. \A i \in 1 .. most : i \in S
    BY <1>3
  <1> QED BY <1>4 DEF S

-----------------------------------------------------------------------------
(***************************************************************************)
(* Notes.                                                                  *)
(***************************************************************************)
NotesMost(k) == k.size \div NoteHdrSize + 1
NoteNext(k) ==
    [p \in Nat |-> IF p + NoteHdrSize < k.size /\ NoteEnd(k, p) - p # 0 THEN p + (NoteEnd(k, p) - p) ELSE Huge]
NotePlaces(k, at) ==
    /\ Follows(at, 0, NoteNext(k), NotesMost(k))
    /\ NotesOf(k) = {at[i] : i \in {j \in 1 .. NotesMost(k) : at[j] + NoteHdrSize < k.size}}

LEMMA RoundUpWords ==
  ASSUME NEW n \in Nat
  PROVE  /\ RoundUp(n, 4) \in Nat /\ RoundUp(n, 4) >= n /\ RoundUp(n, 4) % 4 = 0
         /\ \A d \in Nat : RoundUp(RoundUp(n, 4) + d, 4) = RoundUp(n, 4) + RoundUp(d, 4)
  BY DEF RoundUp

LEMMA NoteEndFact ==
  ASSUME NEW k \in Calls, k.type = "NOTE", NEW p \in Nat, p + NoteHdrSize <= k.size
  PROVE  /\ NoteSays(k, p, "n_namesz") \in Nat /\ NoteSays(k, p, "n_descsz") \in Nat
         /\ NoteEnd(k, p) \in Nat /\ NoteEnd(k, p) >= p + 12
         /\ (NoteEnd(k, p) - p) % 4 = 0
  <1>1. k.type \in Walked /\ k.class \in Class
    BY CallFact DEF Walked
  <1>2. NoteSays(k, p, "n_namesz") \in Nat /\ NoteSays(k, p, "n_descsz") \in Nat
    <2>1. /\ IsFields(NoteHdr) /\ p + Packed(k.class, NoteHdr).size <= k.size
          /\ HasNumber(k.class, NoteHdr, "n_namesz") /\ HasNumber(k.class, NoteHdr, "n_descsz")
          /\ Widths(k.class, NoteHdr)["n_namesz"] = 4 /\ Widths(k.class, NoteHdr)["n_descsz"] = 4
      BY <1>1, NoteNumbers DEF NoteHdrSize
    <2> QED BY <1>1, <2>1, SaysIsNat DEF NoteSays
  <1>3. PICK n, d : n = RoundUp(NoteSays(k, p, "n_namesz"), 4) /\ d = RoundUp(NoteSays(k, p, "n_descsz"), 4)
    OBVIOUS
  <1>4. n \in Nat /\ d \in Nat /\ n % 4 = 0 /\ d % 4 = 0
    BY <1>2, <1>3, RoundUpWords
  <1>5. NoteEnd(k, p) = p + 12 + n + d
    BY <1>3 DEF NoteEnd, NoteHdrSize
  <1> QED BY <1>2, <1>4, <1>5

LEMMA NoteChain ==
  ASSUME NEW k \in Calls, k.type = "NOTE"
  PROVE  \E at : NotePlaces(k, at)
  <1> DEFINE most == NotesMost(k)
             In(p) == p + NoteHdrSize < k.size
             Body(at) == [i \in 1 .. most |->
                 IF i = 1 THEN 0
                 ELSE LET here == at[i - 1]
                      IN  IF In(here) /\ NoteEnd(k, here) - here # 0 THEN here + (NoteEnd(k, here) - here) ELSE Huge]
             at == CHOOSE g : g = Body(g)
             nxt == NoteNext(k)
  <1>1. k.size \in Nat /\ Huge \in Nat /\ most \in Nat \ {0}
    BY CallFact DEF NotesMost, NoteHdrSize
  <1>2. nxt \in [Nat -> Nat]
    <2>1. ASSUME NEW p \in Nat, In(p) PROVE p + (NoteEnd(k, p) - p) \in Nat
      <3>1. p + NoteHdrSize <= k.size
        BY <1>1, <2>1 DEF NoteHdrSize
      <3>2. NoteEnd(k, p) \in Nat
        BY <3>1, NoteEndFact
      <3> QED BY <3>2
    <2> QED BY <1>1, <2>1 DEF NoteNext
  <1>3. ASSUME NEW p \in Nat
        PROVE  nxt[p] = IF In(p) /\ NoteEnd(k, p) - p # 0 THEN p + (NoteEnd(k, p) - p) ELSE Huge
    BY DEF NoteNext
  <1> HIDE DEF most, nxt
  <1>4. PICK g : Follows(g, 0, nxt, most)
    BY <1>1, <1>2, ChainExists
  <1>5. g = Body(g)
    <2>1. g = [i \in 1 .. most |-> g[i]]
      BY <1>4 DEF Follows
    <2>2. ASSUME NEW i \in 1 .. most PROVE g[i] = Body(g)[i]
      <3>1. CASE i = 1
        BY <1>1, <1>4, <3>1 DEF Follows
      <3>2. CASE i # 1
        <4>1. i \in 2 .. most /\ i - 1 \in 1 .. most
          BY <1>1, <3>2
        <4>2. g[i] = nxt[g[i - 1]] /\ g[i - 1] \in Nat
          BY <1>4, <4>1 DEF Follows
        <4> QED BY <1>3, <3>2, <4>2
      <3> QED BY <3>1, <3>2
    <2> QED BY <2>1, <2>2
  <1>6. at = Body(at)
    <2> HIDE DEF Body
    <2> QED BY <1>5
  <1>7. NotesOf(k) = {at[i] : i \in {j \in 1 .. most : at[j] + NoteHdrSize < k.size}}
    BY DEF NotesOf, Chain, most, NotesMost
  <1> HIDE DEF at
  <1>8. \A i \in 1 .. most : at[i] = IF i = 1 THEN 0
                 ELSE IF In(at[i - 1]) /\ NoteEnd(k, at[i - 1]) - at[i - 1] # 0
                      THEN at[i - 1] + (NoteEnd(k, at[i - 1]) - at[i - 1]) ELSE Huge
    BY <1>6
  <1>9. \A i \in 2 .. most : at[i - 1] \in Nat => at[i] = nxt[at[i - 1]]
    <2> TAKE i \in 2 .. most
    <2> HAVE at[i - 1] \in Nat
    <2>1. i \in 1 .. most /\ i # 1
      BY <1>1
    <2> QED BY <1>3, <1>8, <2>1
  <1> HIDE DEF In
  <1>10. at[1] = 0
    BY <1>1, <1>8
  <1>11. \A i \in 1 .. most : at[i] \in Nat
    <2>1. \A i \in 2 .. most : at[i - 1] \in Nat => at[i] \in Nat
      BY <1>2, <1>9
    <2>2. most \in Nat /\ (most # 0 => at[1] \in Nat)
      BY <1>1, <1>10
    <2> QED BY ONLY <2>1, <2>2, AlongChain
  <1>12. Follows(at, 0, nxt, most)
    <2>1. at = [i \in 1 .. most |-> at[i]]
      BY <1>6
    <2>2. at \in [1 .. most -> Nat]
      BY <1>11, <2>1
    <2>3. \A i \in 2 .. most : at[i] = nxt[at[i - 1]]
      <3> TAKE i \in 2 .. most
      <3>1. i - 1 \in 1 .. most
        BY <1>1
      <3> QED BY <1>9, <1>11, <3>1
    <2> QED BY <1>10, <2>2, <2>3 DEF Follows
  <1>13. NotePlaces(k, at)
    BY <1>7, <1>12 DEF NotePlaces, most, nxt
  <1> QED BY <1>13

\* A byte of a record of a table, and the member it is of.
LEMMA TableByte ==
  ASSUME NEW k, k.class \in Class, k.tof \in BOOLEAN, k.swap \in BOOLEAN, NEW f, IsFields(f),
         NEW o \in 0 .. Packed(k.class, f).size - 1
  PROVE  \E n \in Name(f) :
            LET at == Packed(k.class, f).at[n]
                w == Widths(k.class, f)[n]
            IN  /\ at \in Nat /\ w \in Nat /\ o \in at .. at + w - 1
                /\ TableBytes(k, f)[o] = IF k.swap /\ n \in Numbers(f) THEN at + w - 1 - (o - at) ELSE o
  <1> DEFINE side == Packed(k.class, f)
             p == Plan(side, side, f, k.class)
             b == RecordBytes(p, k.tof, k.swap)
  <1>1. /\ Inside(side, Widths(k.class, f)) /\ side.size \in Nat \ {0}
        /\ DOMAIN Widths(k.class, f) = Name(f)
        /\ \A e \in 0 .. side.size - 1 : \E n \in Name(f) :
               e \in side.at[n] .. side.at[n] + Widths(k.class, f)[n] - 1
    BY PackedCovers
  <1>2. p.file = side /\ p.mem = side /\ p.width = Widths(k.class, f) /\ p.number = Numbers(f)
    BY TableIs DEF Plan
  <1> HIDE DEF p, side
  <1>3. From(p, k.tof) = side /\ To(p, k.tof) = side
    BY <1>2 DEF From, To
  <1>4. PICK n \in Name(f) : o \in side.at[n] .. side.at[n] + Widths(k.class, f)[n] - 1
    BY <1>1 DEF side
  <1>5. Takes(p, k.tof, k.swap, o, n)
    BY <1>1, <1>2, <1>3, <1>4 DEF Takes
  <1>6. Inside(From(p, k.tof), p.width) /\ Inside(To(p, k.tof), p.width)
    BY <1>1, <1>2, <1>3
  <1>7. o \in DOMAIN b
    BY <1>3 DEF RecordBytes, side
  <1>8. \E x : Takes(p, k.tof, k.swap, o, x) /\ b[o] = FieldBytes(p, x, k.tof, k.swap)[o]
    BY <1>5, <1>6, <1>7, RecordBytesFact
  <1>9. PICK x : Takes(p, k.tof, k.swap, o, x) /\ b[o] = FieldBytes(p, x, k.tof, k.swap)[o]
    BY <1>8
  <1>10. x \in DOMAIN p.width /\ o \in side.at[x] .. side.at[x] + p.width[x] - 1
    BY <1>3, <1>9 DEF Takes
  <1> DEFINE at == side.at[x]
             w == p.width[x]
             g == FieldBytes(p, x, k.tof, k.swap)
  <1>11. /\ g[o] = IF k.swap /\ x \in p.number THEN at + w - 1 - (o - at) ELSE at + (o - at)
         /\ at \in Nat /\ w \in Nat
    BY <1>3, <1>6, <1>10, FieldBytesFact
  <1>12. o \in Nat /\ at + (o - at) = o
    <2> HIDE DEF at, w
    <2>1. o \in at .. at + w - 1 /\ at \in Nat /\ w \in Nat
      BY <1>10, <1>11 DEF at, w
    <2> QED BY <2>1
  <1>13. x \in Name(f) /\ w = Widths(k.class, f)[x] /\ TableBytes(k, f) = b
    BY <1>1, <1>2, <1>10 DEF TableBytes, p, side
  <1>14. b[o] = IF k.swap /\ x \in Numbers(f) THEN at + w - 1 - (o - at) ELSE o
    BY <1>2, <1>9, <1>11, <1>12
  <1> HIDE DEF b, g
  <1> QED BY <1>10, <1>11, <1>13, <1>14 DEF side

LEMMA TableBytesStill ==
  ASSUME NEW k, k.class \in Class, k.tof \in BOOLEAN, k.swap = FALSE, NEW f, IsFields(f),
         NEW o \in 0 .. Packed(k.class, f).size - 1
  PROVE  TableBytes(k, f)[o] = o
  <1>1. k.swap \in BOOLEAN
    OBVIOUS
  <1>2. PICK n \in Name(f) :
            LET at == Packed(k.class, f).at[n]
                w == Widths(k.class, f)[n]
            IN  /\ at \in Nat /\ w \in Nat /\ o \in at .. at + w - 1
                /\ TableBytes(k, f)[o] = IF k.swap /\ n \in Numbers(f) THEN at + w - 1 - (o - at) ELSE o
    BY <1>1, TableByte
  <1> QED BY <1>2

LEMMA NoteHeader ==
  ASSUME NEW k, k.class \in Class, k.tof \in BOOLEAN, k.swap = TRUE, NEW o \in 0 .. 11
  PROVE  TableBytes(k, NoteHdr)[o] = Turned(o, 0, 4)
  <1>1. /\ IsFields(NoteHdr) /\ Packed(k.class, NoteHdr).size = 12
        /\ Packed(k.class, NoteHdr).at["n_namesz"] = 0 /\ Packed(k.class, NoteHdr).at["n_descsz"] = 4
        /\ Packed(k.class, NoteHdr).at["n_type"] = 8
        /\ Widths(k.class, NoteHdr)["n_namesz"] = 4 /\ Widths(k.class, NoteHdr)["n_descsz"] = 4
        /\ Widths(k.class, NoteHdr)["n_type"] = 4
        /\ Name(NoteHdr) = {"n_namesz", "n_descsz", "n_type"} /\ Numbers(NoteHdr) = Name(NoteHdr)
    BY NoteNumbers DEF NoteHdrSize
  <1>2. PICK n \in Name(NoteHdr) :
            LET at == Packed(k.class, NoteHdr).at[n]
                w == Widths(k.class, NoteHdr)[n]
            IN  /\ at \in Nat /\ w \in Nat /\ o \in at .. at + w - 1
                /\ TableBytes(k, NoteHdr)[o] = IF k.swap /\ n \in Numbers(NoteHdr) THEN at + w - 1 - (o - at) ELSE o
    <2>1. o \in 0 .. Packed(k.class, NoteHdr).size - 1 /\ k.swap \in BOOLEAN
      <3>1. Packed(k.class, NoteHdr).size - 1 = 11
        BY <1>1
      <3>2. o \in 0 .. Packed(k.class, NoteHdr).size - 1
        BY <3>1
      <3> QED BY <3>2
    <2>2. PICK f : f = NoteHdr
      OBVIOUS
    <2>3. \E n \in Name(f) :
            LET at == Packed(k.class, f).at[n]
                w == Widths(k.class, f)[n]
            IN  /\ at \in Nat /\ w \in Nat /\ o \in at .. at + w - 1
                /\ TableBytes(k, f)[o] = IF k.swap /\ n \in Numbers(f) THEN at + w - 1 - (o - at) ELSE o
      BY <1>1, <2>1, <2>2, TableByte
    <2> QED BY <2>2, <2>3
  <1>3. PICK at \in {0, 4, 8} : o \in at .. at + 3 /\ TableBytes(k, NoteHdr)[o] = at + 3 - (o - at)
    BY <1>1, <1>2
  <1>4. Turned(o, 0, 4) = (o \div 4) * 4 + (3 - (o % 4))
    BY DEF Turned
  <1> QED BY <1>3, <1>4

-----------------------------------------------------------------------------
(***************************************************************************)
(* Converting a piece of a table in its place.                             *)
(***************************************************************************)
Piece(k, m, off, bytes) == Convert(m, k.db + off, k.sb + off, bytes)
Turns(bytes, n) == DOMAIN bytes = 0 .. n - 1 /\ \A o \in 0 .. n - 1 : bytes[o] \in 0 .. n - 1
Moved(k, m, g, off, n, bytes) ==
    /\ \A u \in off .. off + n - 1 : g[k.db + u] = m[k.sb + (off + bytes[u - off])]
    /\ \A u \in 0 .. k.size - 1 : u \notin off .. off + n - 1 => g[k.db + u] = m[k.db + u]
    /\ ~Overlap(k) => \A u \in 0 .. k.size - 1 : u \notin off .. off + n - 1 => g[k.sb + u] = m[k.sb + u]

LEMMA PieceConverted ==
  ASSUME NEW k \in Calls, Accepts(k), k.type \in Walked, NEW m, Kept(k, m), NEW off \in Nat,
         NEW n \in Nat, off + n <= k.size, NEW bytes, Turns(bytes, n)
  PROVE  Moved(k, m, Piece(k, m, off, bytes), off, n, bytes)
  <1> DEFINE g == Piece(k, m, off, bytes)
  <1>0. DOMAIN bytes = 0 .. n - 1 /\ \A o \in 0 .. n - 1 : bytes[o] \in 0 .. n - 1
    BY DEF Turns
  <1>1. /\ k.size \in Nat /\ k.sb \in Nat /\ k.db \in Nat /\ k.room \in Nat /\ Top(k) \in Nat
        /\ k.sb + k.size <= Top(k) /\ k.db + k.room <= Top(k) /\ k.size <= k.room
    BY CallFact, AcceptsFact
  <1>2. DOMAIN m = 0 .. Top(k)
    BY DEF Kept
  <1>3. PICK sb, db, size, top, d, s : /\ sb = k.sb /\ db = k.db /\ size = k.size /\ top = Top(k)
                                       /\ d = db + off /\ s = sb + off
    OBVIOUS
  <1>4. /\ sb \in Nat /\ db \in Nat /\ size \in Nat /\ top \in Nat /\ off + n <= size /\ d = db + off /\ s = sb + off
        /\ sb + size <= top /\ db + size <= top /\ off \in Nat /\ n \in Nat /\ DOMAIN m = 0 .. top
    <2>1. k.db + k.size <= Top(k)
      BY <1>1
    <2> QED BY <1>1, <1>2, <1>3, <2>1
  <1>44. \A u \in 0 .. size - 1 : db + u \in DOMAIN m /\ db + u \in Int /\ sb + u \in DOMAIN m /\ sb + u \in Int
    BY ONLY <1>4
  <1>45. g = Convert(m, d, s, bytes) /\ d \in Int
    BY <1>3, <1>4 DEF Piece
  <1>5. ASSUME NEW u \in off .. off + n - 1 PROVE g[db + u] = m[sb + (off + bytes[u - off])]
    <2>1. u \in 0 .. size - 1 /\ u - off \in 0 .. n - 1 /\ (db + u) - d = u - off
      BY ONLY <1>4, <1>5
    <2>2. PICK e, a : e = u - off /\ a = db + u
      OBVIOUS
    <2>3. bytes[e] \in 0 .. n - 1 /\ bytes[e] # Padding
      <3>1. bytes[e] \in 0 .. n - 1
        BY <1>0, <2>1, <2>2
      <3> QED BY <3>1 DEF Padding
    <2>4. a - d = e /\ a - d \in DOMAIN bytes /\ a \in DOMAIN m /\ a \in Int /\ bytes[a - d] # Padding
      BY <1>0, <1>44, <2>1, <2>2, <2>3
    <2>5. Convert(m, d, s, bytes)[a] = m[s + bytes[a - d]]
      BY <1>45, <2>3, <2>4, ConvertPoint
    <2>6. s + bytes[e] = sb + (off + bytes[e])
      BY <1>4, <2>3
    <2> QED BY <1>45, <2>2, <2>4, <2>5, <2>6
  <1>6. ASSUME NEW u \in 0 .. size - 1, u \notin off .. off + n - 1
        PROVE  g[db + u] = m[db + u]
    <2>1. PICK a : a = db + u
      OBVIOUS
    <2>2. a - d \notin DOMAIN bytes /\ a \in DOMAIN m
      BY <1>0, <1>4, <1>44, <1>6, <2>1
    <2>3. Convert(m, d, s, bytes)[a] = m[a]
      BY ONLY <2>2, Zenon DEF Convert
    <2> QED BY <1>45, <2>1, <2>3
  <1>7. ASSUME ~Overlap(k), NEW u \in 0 .. size - 1, u \notin off .. off + n - 1
        PROVE  g[sb + u] = m[sb + u]
    <2>1. CASE db = sb
      BY <1>6, <1>7, <2>1
    <2>2. CASE db # sb
      <3>1. PICK a : a = sb + u
        OBVIOUS
      <3>2. a \in DOMAIN m /\ a \in Int
        BY <1>44, <3>1
      <3>3. sb + size <= db \/ db + size <= sb
        <4>1. ~(db + k.room > sb /\ sb + size > db)
          BY <1>3, <1>7, <2>2 DEF Overlap
        <4>2. k.room \in Nat /\ size <= k.room
          BY <1>1, <1>3
        <4> QED BY ONLY <1>4, <4>1, <4>2
      <3>4. a - d \notin 0 .. n - 1
        BY ONLY <1>4, <3>1, <3>3, u \in 0 .. size - 1
      <3>5. Convert(m, d, s, bytes)[a] = m[a]
        BY <1>0, <1>45, <3>2, <3>4, ConvertPoint
      <3> QED BY <1>45, <3>1, <3>5
    <2> QED BY <2>1, <2>2
  <1> HIDE DEF g
  <1> QED BY <1>3, <1>5, <1>6, <1>7 DEF g, Moved

\* All of a table, each byte from the place that is expected.
LEMMA WholeConverted ==
  ASSUME NEW k \in Calls, Accepts(k), k.type \in Walked,
         Turns(Expected(k), k.size)
  PROVE  AsExpected(k, Convert(Original(k), k.db, k.sb, Expected(k)))
  <1>1. k.size \in Nat /\ k.sb \in Nat /\ k.db \in Nat /\ Kept(k, Original(k))
    BY CallFact, OriginalFact
  <1>2. PICK z : z = 0
    OBVIOUS
  <1>3. z \in Nat /\ z + k.size <= k.size /\ Piece(k, Original(k), z, Expected(k)) = Convert(Original(k), k.db, k.sb, Expected(k))
    BY <1>1, <1>2 DEF Piece
  <1>4. \A u \in z .. z + k.size - 1 :
           Piece(k, Original(k), z, Expected(k))[k.db + u] = Original(k)[k.sb + (z + Expected(k)[u - z])]
    BY <1>1, <1>3, PieceConverted DEF Moved
  <1> SUFFICES ASSUME NEW o \in 0 .. k.size - 1
               PROVE  Convert(Original(k), k.db, k.sb, Expected(k))[k.db + o] = Was(k)[k.sb + Expected(k)[o]]
    BY DEF AsExpected, Turns
  <1>5. o \in z .. z + k.size - 1 /\ o - z = o
    BY <1>1, <1>2
  <1>6. z + Expected(k)[o] = Expected(k)[o]
    <2>1. Expected(k)[o] \in 0 .. k.size - 1
      BY DEF Turns
    <2> QED BY <1>2, <2>1
  <1> QED BY <1>3, <1>4, <1>5, <1>6 DEF Was

-----------------------------------------------------------------------------
(***************************************************************************)
(* Notes, one behind the other.                                            *)
(***************************************************************************)
\* Induction over the places of a chain.
LEMMA EachPlace ==
  ASSUME NEW n \in Nat, NEW Q, n # 0 => 1 \in Q, \A i \in 2 .. n : i - 1 \in Q => i \in Q
  PROVE  \A i \in 1 .. n : i \in Q
  <1> DEFINE S == Q \cup {0}
  <1>1. 0 \in S
    OBVIOUS
  <1>2. \A i \in 1 .. n : i - 1 \in S => i \in S
    <2> TAKE i \in 1 .. n
    <2> HAVE i - 1 \in S
    <2>1. CASE i = 1
      BY <2>1
    <2>2. CASE i # 1
      <3>1. i \in 2 .. n /\ i - 1 # 0
        BY <2>2
      <3> QED BY <3>1
    <2> QED BY <2>1, <2>2
  <1> HIDE DEF S
  <1>3. 0 .. n \subseteq S
    BY ONLY n \in Nat, <1>1, <1>2, UpTo
  <1> QED BY <1>3 DEF S

LEMMA NotePlace ==
  ASSUME NEW k \in Calls, k.type = "NOTE", NEW at, NotePlaces(k, at), NEW i \in 1 .. NotesMost(k),
         at[i] + NoteHdrSize < k.size
  PROVE  /\ i + 1 \in 1 .. NotesMost(k) /\ at[i + 1] = NoteEnd(k, at[i])
         /\ at[i] \in Nat /\ at[i] % 4 = 0 /\ NoteEnd(k, at[i]) \in Nat /\ NoteEnd(k, at[i]) >= at[i] + 12
  <1> DEFINE most == NotesMost(k)
             Q == {j \in 1 .. most : (at[j] >= 12 * (j - 1) /\ at[j] % 4 = 0) \/ at[j] >= k.size}
  <1>1. k.size \in Nat /\ Huge \in Nat /\ k.size <= Huge /\ most = k.size \div 12 + 1 /\ most \in Nat
    BY CallFact DEF NotesMost, NoteHdrSize, Walked
  <1>2. Follows(at, 0, NoteNext(k), most)
    BY DEF NotePlaces
  <1>3. /\ \A j \in 1 .. most : at[j] \in Nat
        /\ at[1] = 0
        /\ \A j \in 2 .. most : at[j] = NoteNext(k)[at[j - 1]]
    BY <1>1, <1>2 DEF Follows
  <1>4. \A p \in Nat : NoteNext(k)[p] = IF p + 12 < k.size /\ NoteEnd(k, p) - p # 0
                                        THEN p + (NoteEnd(k, p) - p) ELSE Huge
    BY DEF NoteNext, NoteHdrSize
  <1>5. \A p \in Nat : p + 12 < k.size => /\ NoteEnd(k, p) \in Nat /\ NoteEnd(k, p) >= p + 12
                                          /\ (NoteEnd(k, p) - p) % 4 = 0 /\ NoteNext(k)[p] = NoteEnd(k, p)
    <2> TAKE p \in Nat
    <2> HAVE p + 12 < k.size
    <2>1. p + NoteHdrSize <= k.size
      BY <1>1 DEF NoteHdrSize
    <2>2. /\ NoteEnd(k, p) \in Nat /\ NoteEnd(k, p) >= p + 12 /\ (NoteEnd(k, p) - p) % 4 = 0
      BY <2>1, NoteEndFact
    <2>3. NoteEnd(k, p) - p # 0 /\ p + (NoteEnd(k, p) - p) = NoteEnd(k, p)
      BY <2>2
    <2> QED BY <1>4, <2>2, <2>3
  <1> HIDE DEF most
  <1>6. \A j \in 2 .. most : j - 1 \in Q => j \in Q
    <2> TAKE j \in 2 .. most
    <2> HAVE j - 1 \in Q
    <2>1. j \in 1 .. most /\ j - 1 \in 1 .. most
      BY <1>1
    <2>2. PICK p, q : p = at[j - 1] /\ q = at[j]
      OBVIOUS
    <2>3. p \in Nat /\ q \in Nat /\ q = NoteNext(k)[p]
      BY <1>3, <2>1, <2>2
    <2>4. (p >= 12 * (j - 2) /\ p % 4 = 0) \/ p >= k.size
      BY <2>1, <2>2
    <2>5. CASE p + 12 < k.size
      <3>1. PICK d : d = q - p
        OBVIOUS
      <3>2. q = NoteEnd(k, p) /\ q >= p + 12 /\ d % 4 = 0 /\ d \in Nat /\ q = p + d
        BY <1>5, <2>3, <2>5, <3>1
      <3>3. p % 4 = 0 /\ p >= 12 * (j - 2)
        BY <1>1, <2>3, <2>4, <2>5
      <3>4. q % 4 = 0 /\ q >= 12 * (j - 1)
        BY <2>1, <2>3, <3>2, <3>3
      <3> QED BY <2>1, <2>2, <3>4
    <2>6. CASE ~(p + 12 < k.size)
      BY <1>1, <1>4, <2>1, <2>2, <2>3, <2>6
    <2> QED BY <2>5, <2>6
  <1>7. most # 0 => 1 \in Q
    BY <1>1, <1>3
  <1>8. i \in Q
    <2> HIDE DEF Q
    <2>1. \A j \in 1 .. most : j \in Q
      BY ONLY <1>1, <1>6, <1>7, EachPlace
    <2> QED BY <2>1 DEF most
  <1>9. at[i] \in Nat /\ at[i] + 12 < k.size
    BY <1>3 DEF most, NoteHdrSize
  <1>10. at[i] >= 12 * (i - 1) /\ at[i] % 4 = 0
    BY <1>1, <1>8, <1>9
  <1>11. i + 1 \in 2 .. most
    BY <1>1, <1>9, <1>10 DEF most
  <1>12. at[i + 1] = NoteNext(k)[at[i]]
    BY <1>3, <1>11
  <1> QED BY <1>5, <1>9, <1>10, <1>11, <1>12 DEF most

\* A chain ends where a place has no room.
LEMMA NotesBehind ==
  ASSUME NEW k \in Calls, k.type = "NOTE", NEW at, NotePlaces(k, at), NEW i \in 1 .. NotesMost(k),
         ~(at[i] + NoteHdrSize < k.size), NEW p \in NotesOf(k)
  PROVE  \E j \in 1 .. i - 1 : p = at[j]
  <1> DEFINE most == NotesMost(k)
             Q == {j \in 1 .. most : j >= i => ~(at[j] + NoteHdrSize < k.size)}
  <1>1. k.size \in Nat /\ Huge \in Nat /\ k.size <= Huge /\ most \in Nat
    BY CallFact DEF NotesMost, NoteHdrSize, Walked
  <1>2. Follows(at, 0, NoteNext(k), most)
    BY DEF NotePlaces
  <1>3. \A j \in 1 .. most : at[j] \in Nat
    BY <1>2 DEF Follows
  <1> HIDE DEF most
  <1>4. \A j \in 2 .. most : j - 1 \in Q => j \in Q
    <2> TAKE j \in 2 .. most
    <2> HAVE j - 1 \in Q
    <2>1. j \in 1 .. most /\ j - 1 \in 1 .. most
      BY <1>1
    <2>2. CASE j <= i
      BY <1>1, <2>1, <2>2 DEF most
    <2>3. CASE ~(j <= i)
      <3>1. ~(at[j - 1] + NoteHdrSize < k.size)
        BY <2>1, <2>3 DEF most
      <3>2. at[j] = Huge
        BY <1>2, <1>3, <2>1, <3>1 DEF Follows, NoteNext
      <3> QED BY <1>1, <2>1, <3>2 DEF NoteHdrSize
    <2> QED BY <2>2, <2>3
  <1>5. most # 0 => 1 \in Q
    BY <1>1 DEF most
  <1>6. \A j \in 1 .. most : j \in Q
    <2> HIDE DEF Q
    <2> QED BY ONLY <1>1, <1>4, <1>5, EachPlace
  <1>7. PICK j \in 1 .. most : p = at[j] /\ at[j] + NoteHdrSize < k.size
    BY DEF NotePlaces, most
  <1>8. ~(j >= i)
    BY <1>6, <1>7
  <1> QED BY <1>7, <1>8 DEF most

\* How far the swap of the headers has come: i - 1 notes are done, the place is
\* off, what is before it is as expected and what is behind is untouched.
Header(at, i, o) == \E j \in 1 .. i - 1 : at[j] <= o /\ o < at[j] + NoteHdrSize
NotesSoFar(k, m, at, i, off) ==
    /\ i \in 1 .. NotesMost(k)
    /\ off = Least(at[i], k.size)
    /\ \A j \in 1 .. i - 1 : at[j] + NoteHdrSize < k.size /\ NoteEnd(k, at[j]) <= at[i]
    /\ \A o \in 0 .. k.size - 1 :
          IF o < off THEN m[k.db + o] = Original(k)[k.sb + (IF Header(at, i, o) THEN Turned(o, 0, 4) ELSE o)]
          ELSE m[k.sb + o] = Original(k)[k.sb + o]

LEMMA NotesStart ==
  ASSUME NEW k \in Calls, k.type = "NOTE", NEW at, NotePlaces(k, at)
  PROVE  NotesSoFar(k, Original(k), at, 1, 0)
  <1>1. k.size \in Nat /\ NotesMost(k) \in Nat \ {0}
    BY CallFact DEF NotesMost, NoteHdrSize
  <1>2. at[1] = 0
    BY <1>1 DEF NotePlaces, Follows
  <1>3. Least(at[1], k.size) = 0
    BY <1>1, <1>2 DEF Least
  <1> QED BY <1>1, <1>3 DEF NotesSoFar

\* Turning within a word does not depend on the word.
LEMMA TurnedWord ==
  ASSUME NEW p \in Nat, p % 4 = 0, NEW e \in Nat
  PROVE  Turned(p + e, 0, 4) = p + Turned(e, 0, 4)
  <1>1. PICK q, x, y, r : q = p \div 4 /\ x = e \div 4 /\ r = e % 4 /\ y = (p + e) \div 4
    OBVIOUS
  <1>2. q \in Nat /\ p = 4 * q /\ x \in Nat /\ r \in 0 .. 3 /\ e = 4 * x + r
    BY <1>1
  <1>3. y = q + x /\ (p + e) % 4 = r
    BY <1>1, <1>2
  <1>4. Turned(p + e, 0, 4) = y * 4 + (3 - r) /\ Turned(e, 0, 4) = x * 4 + (3 - r)
    <2>1. Turned(e, 0, 4) = x * 4 + (3 - r)
      BY <1>1 DEF Turned
    <2>2. (p + e) - 0 = p + e
      OBVIOUS
    <2>3. Turned(p + e, 0, 4) = 0 + ((p + e) \div 4) * 4 + (4 - 1 - ((p + e) % 4))
      BY <2>2 DEF Turned
    <2> QED BY <1>1, <1>2, <1>3, <2>1, <2>3
  <1> QED BY <1>2, <1>3, <1>4

NoteBytesOf(k, n) == [o \in 0 .. (NoteHdrSize + n - 1) |-> IF o < NoteHdrSize THEN TableBytes(k, NoteHdr)[o] ELSE o]

LEMMA NoteBytesFact ==
  ASSUME NEW k \in Calls, k.swap = TRUE, NEW n \in Nat
  PROVE  /\ Turns(NoteBytesOf(k, n), NoteHdrSize + n)
         /\ \A o \in 0 .. 11 + n : NoteBytesOf(k, n)[o] = IF o < 12 THEN Turned(o, 0, 4) ELSE o
  <1> DEFINE b == NoteBytesOf(k, n)
  <1>1. k.class \in Class /\ k.tof \in BOOLEAN
    BY CallFact
  <1>2. \A o \in 0 .. 11 + n : b[o] = IF o < 12 THEN Turned(o, 0, 4) ELSE o
    <2> TAKE o \in 0 .. 11 + n
    <2>1. o < 12 => o \in 0 .. 11
      OBVIOUS
    <2>2. o \in 0 .. (12 + n - 1)
      OBVIOUS
    <2> QED BY <1>1, <2>1, <2>2, NoteHeader DEF NoteBytesOf, NoteHdrSize
  <1>3. \A o \in 0 .. 11 : Turned(o, 0, 4) \in 0 .. 11
    BY DEF Turned
  <1>4. DOMAIN b = 0 .. (12 + n) - 1
    BY DEF NoteBytesOf, NoteHdrSize
  <1> HIDE DEF b
  <1>5. \A o \in 0 .. (12 + n) - 1 : b[o] \in 0 .. (12 + n) - 1
    <2> TAKE o \in 0 .. (12 + n) - 1
    <2>1. o \in 0 .. 11 + n /\ (o < 12 => o \in 0 .. 11)
      OBVIOUS
    <2>2. o < 12 => Turned(o, 0, 4) \in 0 .. (12 + n) - 1
      <3>1. o < 12 => Turned(o, 0, 4) \in 0 .. 11
        BY <1>3, <2>1
      <3> QED BY <3>1
    <2> QED BY <1>2, <2>1, <2>2
  <1> QED BY <1>2, <1>4, <1>5 DEF Turns, NoteHdrSize, b

LEMMA NotesForward ==
  ASSUME NEW k \in Calls, k.type = "NOTE", k.swap = TRUE, Accepts(k), ~Overlap(k),
         NEW m, Kept(k, m), NEW at, NotePlaces(k, at), NEW i, NEW off, NotesSoFar(k, m, at, i, off),
         off + NoteHdrSize < k.size, NEW n \in Nat,
         off + NoteHdrSize + n = Least(NoteEnd(k, off), k.size)
  PROVE  NotesSoFar(k, Piece(k, m, off, NoteBytesOf(k, n)), at, i + 1, off + NoteHdrSize + n)
  <1> DEFINE b == NoteBytesOf(k, n)
             g == Piece(k, m, off, b)
             to == off + NoteHdrSize + n
  <1>1. k.size \in Nat /\ k.sb \in Nat /\ k.db \in Nat /\ k.type \in Walked /\ NotesMost(k) \in Nat
    BY CallFact DEF Walked, NotesMost, NoteHdrSize
  <1>2. i \in 1 .. NotesMost(k) /\ i \in Nat
    BY <1>1 DEF NotesSoFar
  <1>3. \A j \in 1 .. NotesMost(k) : at[j] \in Nat
    BY <1>1 DEF NotePlaces, Follows
  <1>4. off = at[i] /\ off \in Nat /\ at[i] + NoteHdrSize < k.size
    <2>1. off = Least(at[i], k.size) /\ at[i] \in Nat
      BY <1>2, <1>3 DEF NotesSoFar
    <2> QED BY <1>1, <2>1 DEF Least, NoteHdrSize
  <1>5. /\ i + 1 \in 1 .. NotesMost(k) /\ at[i + 1] = NoteEnd(k, off)
        /\ off % 4 = 0 /\ NoteEnd(k, off) \in Nat /\ NoteEnd(k, off) >= off + 12
    BY <1>2, <1>4, NotePlace
  <1>6. to \in Nat /\ to = off + 12 + n /\ to <= k.size
    BY <1>1, <1>4, <1>5 DEF Least, NoteHdrSize
  <1>7. /\ Turns(b, 12 + n)
        /\ \A o \in 0 .. 11 + n : b[o] = IF o < 12 THEN Turned(o, 0, 4) ELSE o
    BY NoteBytesFact DEF NoteHdrSize
  <1>8. Moved(k, m, g, off, 12 + n, b)
    <2>1. 12 + n \in Nat /\ off + (12 + n) <= k.size
      BY <1>4, <1>6
    <2> HIDE DEF b
    <2> QED BY <1>1, <1>4, <1>7, <2>1, PieceConverted
  <1>9. /\ \A u \in off .. off + (12 + n) - 1 : g[k.db + u] = m[k.sb + (off + b[u - off])]
        /\ \A u \in 0 .. k.size - 1 : u \notin off .. off + (12 + n) - 1 => g[k.db + u] = m[k.db + u]
        /\ \A u \in 0 .. k.size - 1 : u \notin off .. off + (12 + n) - 1 => g[k.sb + u] = m[k.sb + u]
    BY <1>8 DEF Moved
  <1> HIDE DEF g, to
  <1>10. \A j \in 1 .. i : at[j] + NoteHdrSize < k.size /\ NoteEnd(k, at[j]) <= at[i + 1]
    <2> TAKE j \in 1 .. i
    <2>1. CASE j = i
      BY <1>4, <1>5, <2>1
    <2>2. CASE j # i
      <3>1. j \in 1 .. i - 1 /\ j \in 1 .. NotesMost(k)
        BY <1>1, <1>2, <2>2
      <3>2. at[j] + NoteHdrSize < k.size /\ NoteEnd(k, at[j]) <= off
        BY <1>4, <3>1 DEF NotesSoFar
      <3>3. NoteEnd(k, at[j]) \in Nat
        BY <3>1, <3>2, NotePlace
      <3> QED BY <1>4, <1>5, <3>2, <3>3
    <2> QED BY <2>1, <2>2
  <1>11. ASSUME NEW o \in Nat
         PROVE  /\ o < off => (Header(at, i + 1, o) <=> Header(at, i, o))
                /\ off <= o => (Header(at, i + 1, o) <=> o < off + 12)
    <2>0. (i + 1) - 1 = i
      BY <1>2
    <2>1. ASSUME o < off PROVE Header(at, i + 1, o) <=> Header(at, i, o)
      <3>1. ~(at[i] <= o)
        BY ONLY <1>4, <2>1, o \in Nat
      <3>2. \A j \in 1 .. i : j = i \/ j \in 1 .. i - 1
        BY <1>2
      <3>3. \A j \in 1 .. i - 1 : j \in 1 .. i
        BY <1>2
      <3> QED BY <2>0, <3>1, <3>2, <3>3 DEF Header
    <2>2. ASSUME off <= o PROVE Header(at, i + 1, o) <=> o < off + 12
      <3>1. ASSUME NEW j \in 1 .. i - 1 PROVE ~(o < at[j] + NoteHdrSize)
        <4>1. j \in 1 .. NotesMost(k) /\ at[j] + NoteHdrSize < k.size /\ NoteEnd(k, at[j]) <= off
          BY <1>1, <1>2, <1>4 DEF NotesSoFar
        <4>2. at[j] \in Nat /\ NoteEnd(k, at[j]) \in Nat /\ NoteEnd(k, at[j]) >= at[j] + 12
          BY <4>1, NotePlace
        <4> QED BY <1>4, <2>2, <4>1, <4>2 DEF NoteHdrSize
      <3>2. \A j \in 1 .. i : j = i \/ j \in 1 .. i - 1
        BY <1>2
      <3>3. i \in 1 .. i
        BY <1>2
      <3> QED BY <1>4, <2>0, <2>2, <3>1, <3>2, <3>3 DEF Header, NoteHdrSize
    <2> QED BY <2>1, <2>2
  <1>12. ASSUME NEW o \in 0 .. k.size - 1
         PROVE  IF o < to
                THEN g[k.db + o] = Original(k)[k.sb + (IF Header(at, i + 1, o) THEN Turned(o, 0, 4) ELSE o)]
                ELSE g[k.sb + o] = Original(k)[k.sb + o]
    <2>1. \A u \in 0 .. k.size - 1 :
             IF u < off THEN m[k.db + u] = Original(k)[k.sb + (IF Header(at, i, u) THEN Turned(u, 0, 4) ELSE u)]
             ELSE m[k.sb + u] = Original(k)[k.sb + u]
      BY DEF NotesSoFar
    <2>2. o \in Nat /\ o < k.size
      BY <1>1
    <2>3. CASE o < off
      <3>1. o < to /\ o \notin off .. off + (12 + n) - 1
        BY <1>4, <1>6, <2>2, <2>3
      <3>2. Header(at, i + 1, o) <=> Header(at, i, o)
        BY <1>11, <2>2, <2>3
      <3>3. g[k.db + o] = m[k.db + o]
        BY <1>9, <3>1
      <3> QED BY <2>1, <2>3, <3>1, <3>2, <3>3
    <2>4. CASE off <= o /\ o < to
      <3>1. PICK e : e = o - off
        OBVIOUS
      <3>2. e \in 0 .. 11 + n /\ o = off + e /\ o \in off .. off + (12 + n) - 1
        BY <1>4, <1>6, <2>2, <2>4, <3>1
      <3>3. g[k.db + o] = m[k.sb + (off + b[e])]
        BY <1>9, <3>1, <3>2
      <3>4. b[e] \in 0 .. 11 + n
        <4>1. e \in 0 .. (12 + n) - 1 /\ \A x \in 0 .. (12 + n) - 1 : b[x] \in 0 .. (12 + n) - 1
          BY <1>7, <3>2 DEF Turns
        <4>2. b[e] \in 0 .. (12 + n) - 1
          BY <4>1
        <4> QED BY <4>2
      <3>5. off + b[e] \in 0 .. k.size - 1 /\ ~(off + b[e] < off)
        <4>1. PICK v : v = b[e]
          OBVIOUS
        <4>2. v \in 0 .. 11 + n /\ off \in Nat /\ n \in Nat /\ off + 12 + n <= k.size /\ k.size \in Nat
          BY <1>1, <1>4, <1>6, <3>4, <4>1
        <4>3. off + v \in 0 .. k.size - 1 /\ ~(off + v < off)
          BY ONLY <4>2
        <4> QED BY <4>1, <4>3
      <3>6. m[k.sb + (off + b[e])] = Original(k)[k.sb + (off + b[e])]
        BY <2>1, <3>5
      <3>7. off + b[e] = IF Header(at, i + 1, o) THEN Turned(o, 0, 4) ELSE o
        <4>1. Header(at, i + 1, o) <=> o < off + 12
          BY <1>11, <2>2, <2>4
        <4>2. o < off + 12 <=> e < 12
          BY <1>4, <3>2
        <4>3. Turned(o, 0, 4) = off + Turned(e, 0, 4)
          BY <1>4, <1>5, <3>2, TurnedWord
        <4>4. b[e] = IF e < 12 THEN Turned(e, 0, 4) ELSE e
          BY <1>7, <3>2
        <4> QED BY <3>2, <4>1, <4>2, <4>3, <4>4
      <3> QED BY <2>4, <3>3, <3>6, <3>7
    <2>5. CASE ~(o < to)
      <3>1. ~(o < off) /\ o \notin off .. off + (12 + n) - 1
        BY <1>4, <1>6, <2>2, <2>5
      <3> QED BY <1>9, <2>1, <2>5, <3>1
    <2>6. o < off \/ (off <= o /\ o < to) \/ ~(o < to)
      BY <1>4, <1>6, <2>2
    <2> QED BY <2>3, <2>4, <2>5, <2>6
  <1>13. to = Least(at[i + 1], k.size) /\ (i + 1) - 1 = i
    BY <1>2, <1>5 DEF to
  <1> QED BY <1>5, <1>10, <1>12, <1>13 DEF NotesSoFar, g, to, b

\* At the end the headers are swapped and nothing else is.
LEMMA NotesAsExpected ==
  ASSUME NEW k \in Calls, k.type = "NOTE", k.swap = TRUE, NEW m, NEW at, NotePlaces(k, at),
         NEW i, NEW off, NotesSoFar(k, m, at, i, off), ~(off + NoteHdrSize < k.size)
  PROVE  AsExpected(k, m)
  <1>1. k.size \in Nat /\ NotesMost(k) \in Nat
    BY CallFact DEF NotesMost, NoteHdrSize
  <1>2. i \in 1 .. NotesMost(k) /\ off = Least(at[i], k.size) /\ at[i] \in Nat
    BY <1>1 DEF NotesSoFar, NotePlaces, Follows
  <1>3. ~(at[i] + NoteHdrSize < k.size) /\ off \in Nat
    BY <1>1, <1>2 DEF Least, NoteHdrSize
  <1>4. \A p \in NotesOf(k) : \E j \in 1 .. i - 1 : p = at[j]
    BY <1>2, <1>3, NotesBehind
  <1>5. \A j \in 1 .. i - 1 : at[j] \in NotesOf(k) /\ at[j] \in Nat /\ NoteEnd(k, at[j]) \in Nat
                              /\ NoteEnd(k, at[j]) <= at[i]
    <2> TAKE j \in 1 .. i - 1
    <2>1. j \in 1 .. NotesMost(k) /\ at[j] + NoteHdrSize < k.size /\ NoteEnd(k, at[j]) <= at[i]
      BY <1>1, <1>2 DEF NotesSoFar
    <2>2. at[j] \in Nat /\ NoteEnd(k, at[j]) \in Nat
      BY <2>1, NotePlace
    <2> QED BY <2>1, <2>2 DEF NotePlaces
  <1>6. Expected(k) = NotesBytes(k)
    BY ExpectedFact
  <1> DEFINE D == UNION { p..(Least(NoteEnd(k, p), k.size) - 1) : p \in NotesOf(k) }
             In(o) == \E p \in NotesOf(k) : p <= o /\ o < p + NoteHdrSize
  <1>7. NotesBytes(k) = [o \in D |-> IF In(o) THEN Turned(o, 0, 4) ELSE o]
    BY DEF NotesBytes
  <1> SUFFICES ASSUME NEW o \in D
               PROVE  m[k.db + o] = Was(k)[k.sb + (IF In(o) THEN Turned(o, 0, 4) ELSE o)]
    BY <1>6, <1>7 DEF AsExpected
  <1>8. PICK p \in NotesOf(k) : o \in p .. (Least(NoteEnd(k, p), k.size) - 1)
    OBVIOUS
  <1>9. PICK j \in 1 .. i - 1 : p = at[j]
    BY <1>4
  <1>10. o \in 0 .. k.size - 1 /\ o < off
    <2>1. p \in Nat /\ NoteEnd(k, p) \in Nat /\ NoteEnd(k, p) <= at[i]
      BY <1>5, <1>9
    <2> QED BY <1>1, <1>2, <1>8, <2>1 DEF Least
  <1>11. In(o) <=> Header(at, i, o)
    BY <1>4, <1>5 DEF Header
  <1>12. m[k.db + o] = Original(k)[k.sb + (IF Header(at, i, o) THEN Turned(o, 0, 4) ELSE o)]
    BY <1>10 DEF NotesSoFar
  <1> QED BY <1>11, <1>12 DEF Was

-----------------------------------------------------------------------------
(***************************************************************************)
(* Version tables: chains of heads, and of auxiliary records.              *)
(***************************************************************************)
\* A chain goes up as long as it stays inside.
Chained(at, first, in, nxt, most) ==
    /\ Follows(at, first, nxt, most)
    /\ \A p \in Nat : nxt[p] \in in => p \in in /\ p < nxt[p]

LEMMA ChainRises ==
  ASSUME NEW most \in Nat, NEW at, NEW first, NEW in, NEW nxt, Chained(at, first, in, nxt, most),
         NEW i \in 1 .. most, at[i] \in in
  PROVE  \A l \in 1 .. i - 1 : at[l] \in in /\ at[l] < at[i]
  <1> DEFINE Q == {j \in 1 .. most : at[j] \in in => \A l \in 1 .. j - 1 : at[l] \in in /\ at[l] < at[j]}
  <1>1. /\ \A j \in 1 .. most : at[j] \in Nat
        /\ \A j \in 2 .. most : at[j] = nxt[at[j - 1]]
        /\ \A p \in Nat : nxt[p] \in in => p \in in /\ p < nxt[p]
    BY DEF Chained, Follows
  <1>2. \A j \in 2 .. most : j - 1 \in Q => j \in Q
    <2> TAKE j \in 2 .. most
    <2> HAVE j - 1 \in Q
    <2>1. j \in 1 .. most /\ j - 1 \in 1 .. most
      OBVIOUS
    <2> SUFFICES ASSUME at[j] \in in, NEW l \in 1 .. j - 1 PROVE at[l] \in in /\ at[l] < at[j]
      BY <2>1
    <2>2. at[j - 1] \in in /\ at[j - 1] < at[j] /\ at[j - 1] \in Nat /\ at[j] \in Nat
      BY <1>1, <2>1
    <2>3. l = j - 1 \/ l \in 1 .. (j - 1) - 1
      OBVIOUS
    <2>4. l \in 1 .. (j - 1) - 1 => at[l] \in in /\ at[l] < at[j - 1]
      BY <2>2
    <2>5. at[l] \in Nat
      <3>1. l \in 1 .. most
        BY <2>1
      <3> QED BY <1>1, <3>1
    <2> QED BY <2>2, <2>3, <2>4, <2>5
  <1>3. most # 0 => 1 \in Q
    OBVIOUS
  <1>4. i \in Q
    <2> HIDE DEF Q
    <2>1. \A j \in 1 .. most : j \in Q
      BY ONLY most \in Nat, <1>2, <1>3, EachPlace
    <2> QED BY <2>1
  <1> QED BY <1>4

\* Places that are some bytes apart: so many fit.
LEMMA ChainSpaced ==
  ASSUME NEW most \in Nat, NEW at, NEW first, NEW in, NEW nxt, Chained(at, first, in, nxt, most),
         NEW gap \in Nat, \A j \in 2 .. most : at[j] \in in => at[j - 1] + gap <= at[j],
         NEW i \in 1 .. most, at[i] \in in
  PROVE  gap * (i - 1) <= at[i]
  <1> DEFINE Q == {j \in 1 .. most : at[j] \in in => gap * (j - 1) <= at[j]}
  <1>1. /\ \A j \in 1 .. most : at[j] \in Nat
        /\ \A j \in 2 .. most : at[j] = nxt[at[j - 1]]
        /\ \A p \in Nat : nxt[p] \in in => p \in in /\ p < nxt[p]
    BY DEF Chained, Follows
  <1>2. \A j \in 2 .. most : j - 1 \in Q => j \in Q
    <2> TAKE j \in 2 .. most
    <2> HAVE j - 1 \in Q
    <2>1. j \in 1 .. most /\ j - 1 \in 1 .. most
      OBVIOUS
    <2> SUFFICES ASSUME at[j] \in in PROVE gap * (j - 1) <= at[j]
      BY <2>1
    <2>2. at[j - 1] \in in /\ at[j - 1] \in Nat /\ at[j] \in Nat /\ at[j - 1] + gap <= at[j]
      BY <1>1, <2>1
    <2>3. gap * ((j - 1) - 1) <= at[j - 1]
      BY <2>1, <2>2
    <2>4. gap * (j - 1) = gap * ((j - 1) - 1) + gap
      <3>1. PICK x : x = (j - 1) - 1
        OBVIOUS
      <3>2. x \in Int /\ j - 1 = x + 1
        BY <3>1
      <3>3. gap * (x + 1) = gap * x + gap
        BY <3>2
      <3> QED BY <3>1, <3>2, <3>3
    <2>5. PICK y : y = gap * ((j - 1) - 1)
      OBVIOUS
    <2>6. y \in Int
      BY <2>5
    <2> QED BY <2>2, <2>3, <2>4, <2>5, <2>6
  <1>3. most # 0 => 1 \in Q
    <2>1. most # 0 => at[1] \in Nat /\ gap * (1 - 1) = 0
      BY <1>1
    <2> QED BY <2>1
  <1>4. i \in Q
    <2> HIDE DEF Q
    <2>1. \A j \in 1 .. most : j \in Q
      BY ONLY most \in Nat, <1>2, <1>3, EachPlace
    <2> QED BY <2>1
  <1> QED BY <1>4

\* The sizes of the records.
LEMMA VersionSizes ==
  ASSUME NEW k \in Calls
  PROVE  /\ HeadSize(k) >= 16 /\ AuxSize(k) >= 8 /\ HeadSize(k) \in Nat /\ AuxSize(k) \in Nat
         /\ HeadFields(k) # AuxFields(k)
         /\ RefHead(k) = HeadFields(k) /\ RefAux(k) = AuxFields(k)
  <1>1. k.class \in Class /\ k.tof \in BOOLEAN
    BY CallFact
  <1>2. /\ HeadFields(k) = VersionRecord(k).head /\ AuxFields(k) = VersionRecord(k).aux
        /\ RefHead(k) = VersionRecord(k).head /\ RefAux(k) = VersionRecord(k).aux
    BY <1>1, HeadAndAux
  <1> DEFINE h == VersionRecord(k).head
             a == VersionRecord(k).aux
  <1>3. /\ IsFields(h) /\ IsFields(a) /\ HeadSize(k) = Packed(k.class, h).size /\ AuxSize(k) = Packed(k.class, a).size
        /\ HeadSize(k) \in Nat /\ AuxSize(k) \in Nat
    BY <1>1, <1>2, VersionNumbers, VersionFields DEF HeadSize, AuxSize
  <1>4. PICK e : PackedAt(k.class, h, e)
    BY <1>1, <1>3, PackedFact
  <1>5. PICK f : PackedAt(k.class, a, f)
    BY <1>1, <1>3, PackedFact
  <1>6. Width[k.class]["Half"] = 2 /\ Width[k.class]["Word"] = 4
    BY <1>1 DEF Width
  <1>7. CASE k.type = "VDEF"
    <2>1. /\ Len(h) = 7 /\ h[1][2] = "Half" /\ h[2][2] = "Half" /\ h[3][2] = "Half" /\ h[4][2] = "Half"
          /\ h[5][2] = "Word" /\ h[6][2] = "Word" /\ h[7][2] = "Word"
          /\ Len(a) = 2 /\ a[1][2] = "Word" /\ a[2][2] = "Word"
      BY <1>7 DEF VersionRecord, Verdef, Cvt!VDEF32_tof
    <2> HIDE DEF h, a
    <2>2. /\ e[0] = 0 /\ \A i \in 1 .. 7 : e[i] = e[i - 1] + WidthAt(k.class, h, i)
          /\ f[0] = 0 /\ \A i \in 1 .. 2 : f[i] = f[i - 1] + WidthAt(k.class, a, i)
      BY <1>4, <1>5, <2>1 DEF PackedAt
    <2>3. /\ e[1] = 2 /\ e[2] = 4 /\ e[3] = 6 /\ e[4] = 8 /\ e[5] = 12 /\ e[6] = 16 /\ e[7] = 20
          /\ f[1] = 4 /\ f[2] = 8
      BY <1>6, <2>1, <2>2 DEF WidthAt
    <2>4. HeadSize(k) = 20 /\ AuxSize(k) = 8
      BY <1>3, <1>4, <1>5, <2>1, <2>3 DEF PackedAt
    <2>5. HeadFields(k) # AuxFields(k)
      BY <1>2, <2>1 DEF h, a
    <2> QED BY <1>2, <2>4, <2>5
  <1>8. CASE k.type # "VDEF"
    <2>1. /\ Len(h) = 5 /\ h[1][2] = "Half" /\ h[2][2] = "Half" /\ h[3][2] = "Word" /\ h[4][2] = "Word"
          /\ h[5][2] = "Word"
          /\ Len(a) = 5 /\ a[1][2] = "Word" /\ a[2][2] = "Half" /\ a[3][2] = "Half" /\ a[4][2] = "Word"
          /\ a[5][2] = "Word"
      BY <1>8 DEF VersionRecord, Verneed, Cvt!VNEED32_tof
    <2> HIDE DEF h, a
    <2>2. /\ e[0] = 0 /\ \A i \in 1 .. 5 : e[i] = e[i - 1] + WidthAt(k.class, h, i)
          /\ f[0] = 0 /\ \A i \in 1 .. 5 : f[i] = f[i - 1] + WidthAt(k.class, a, i)
      BY <1>4, <1>5, <2>1 DEF PackedAt
    <2>3. /\ e[1] = 2 /\ e[2] = 4 /\ e[3] = 8 /\ e[4] = 12 /\ e[5] = 16
          /\ f[1] = 4 /\ f[2] = 6 /\ f[3] = 8 /\ f[4] = 12 /\ f[5] = 16
      BY <1>6, <2>1, <2>2 DEF WidthAt
    <2>4. HeadSize(k) = 16 /\ AuxSize(k) = 16
      BY <1>3, <1>4, <1>5, <2>1, <2>3 DEF PackedAt
    <2>5. HeadFields(k) # AuxFields(k)
      BY <1>2, <2>1 DEF h, a
    <2> QED BY <1>2, <2>4, <2>5
  <1> QED BY <1>7, <1>8

VersionCall(k) == k \in Calls /\ k.type \in {"VDEF", "VNEED"}
HeadIn(k) == {p \in Nat : p + HeadSize(k) <= k.size}
AuxIn(k)  == {p \in Nat : p + AuxSize(k) <= k.size}
HeadLink(k, p) == HeadSays(k, p, "vd_next", "vn_next")
AuxLink(k, p)  == AuxSays(k, p, "vda_next", "vna_next")
HeadNext(k) == [p \in Nat |-> IF p \in HeadIn(k) /\ HeadLink(k, p) # 0 THEN p + HeadLink(k, p) ELSE Huge]
AuxNext(k)  == [p \in Nat |-> IF p \in AuxIn(k) /\ AuxLink(k, p) # 0 THEN p + AuxLink(k, p) ELSE Huge]
HeadsMost(k) == k.size \div 16 + 1
AuxStart(k, h)  == h + HeadSays(k, h, "vd_aux", "vn_aux")
AuxCount(k, h)  == HeadSays(k, h, "vd_cnt", "vn_cnt")
AuxesMost(k, h) == Least(AuxCount(k, h), k.size \div 8 + 1)
HeadPlaces(k, at) ==
    /\ Chained(at, 0, HeadIn(k), HeadNext(k), HeadsMost(k))
    /\ HeadsOf(k) = {at[i] : i \in {j \in 1 .. HeadsMost(k) : at[j] \in HeadIn(k)}}
AuxPlaces(k, h, at) ==
    /\ Chained(at, AuxStart(k, h), AuxIn(k), AuxNext(k), AuxesMost(k, h))
    /\ AuxesOf(k, h) = {at[i] : i \in {j \in 1 .. AuxesMost(k, h) : at[j] \in AuxIn(k)}}

LEMMA VersionSays ==
  ASSUME NEW k, VersionCall(k)
  PROVE  /\ k \in Calls /\ k.size \in Nat /\ k.sb \in Nat /\ k.db \in Nat /\ k.size <= Huge /\ Huge \in Nat
         /\ k.type \in Walked /\ k.class \in Class /\ k.tof \in BOOLEAN /\ k.swap \in BOOLEAN
         /\ HeadsMost(k) \in Nat \ {0}
         /\ \A p \in HeadIn(k) : /\ HeadLink(k, p) \in Nat /\ AuxStart(k, p) \in Nat /\ AuxCount(k, p) \in Nat
                                 /\ HeadSays(k, p, "vd_aux", "vn_aux") \in Nat
                                 /\ HeadSays(k, p, "vd_version", "vn_version") \in Nat
                                 /\ AuxesMost(k, p) \in Nat
         /\ \A p \in AuxIn(k) : AuxLink(k, p) \in Nat
  <1>1. /\ k \in Calls /\ k.size \in Nat /\ k.sb \in Nat /\ k.db \in Nat /\ k.size <= Huge /\ Huge \in Nat
        /\ k.type \in Walked /\ k.class \in Class /\ k.tof \in BOOLEAN /\ k.swap \in BOOLEAN
    BY CallFact DEF VersionCall, Walked
  <1>2. /\ RefHead(k) = VersionRecord(k).head /\ RefAux(k) = VersionRecord(k).aux
        /\ HeadSize(k) = Packed(k.class, RefHead(k)).size /\ AuxSize(k) = Packed(k.class, RefAux(k)).size
    BY <1>1, HeadAndAux DEF HeadSize, AuxSize
  <1> DEFINE h == RefHead(k)
             a == RefAux(k)
  <1>3. /\ IsFields(h) /\ IsFields(a)
        /\ HasNumber(k.class, h, Versioned(k, "vd_aux", "vn_aux"))
        /\ HasNumber(k.class, h, Versioned(k, "vd_cnt", "vn_cnt"))
        /\ HasNumber(k.class, h, Versioned(k, "vd_next", "vn_next"))
        /\ HasNumber(k.class, h, Versioned(k, "vd_version", "vn_version"))
        /\ HasNumber(k.class, a, Versioned(k, "vda_next", "vna_next"))
    BY <1>1, <1>2, VersionNumbers
  <1> HIDE DEF h, a
  <1>4. ASSUME NEW p \in HeadIn(k)
        PROVE  /\ HeadLink(k, p) \in Nat /\ AuxCount(k, p) \in Nat
               /\ HeadSays(k, p, "vd_aux", "vn_aux") \in Nat
               /\ HeadSays(k, p, "vd_version", "vn_version") \in Nat
    <2>1. p \in Nat /\ p + Packed(k.class, h).size <= k.size
      BY <1>2 DEF HeadIn, h
    <2>2. \A n : HasNumber(k.class, h, n) => Says(k, p, Packed(k.class, h), n, Widths(k.class, h)[n]) \in Nat
      BY <1>1, <1>3, <2>1, SaysIsNat
    <2> QED BY <1>3, <2>2 DEF HeadLink, AuxCount, HeadSays, h
  <1>5. ASSUME NEW p \in AuxIn(k)
        PROVE  AuxLink(k, p) \in Nat
    <2>1. p \in Nat /\ p + Packed(k.class, a).size <= k.size
      BY <1>2 DEF AuxIn, a
    <2>2. \A n : HasNumber(k.class, a, n) => Says(k, p, Packed(k.class, a), n, Widths(k.class, a)[n]) \in Nat
      BY <1>1, <1>3, <2>1, SaysIsNat
    <2> QED BY <1>3, <2>2 DEF AuxLink, AuxSays, a
  <1>6. HeadsMost(k) \in Nat \ {0} /\ k.size \div 8 + 1 \in Nat
    BY <1>1 DEF HeadsMost
  <1>7. ASSUME NEW p \in HeadIn(k) PROVE AuxStart(k, p) \in Nat /\ AuxesMost(k, p) \in Nat
    BY <1>4, <1>6 DEF AuxStart, AuxesMost, Least, HeadIn
  <1> QED BY <1>1, <1>4, <1>5, <1>6, <1>7

LEMMA HeadNextFact ==
  ASSUME NEW k, VersionCall(k)
  PROVE  /\ HeadNext(k) \in [Nat -> Nat]
         /\ \A p \in Nat : HeadNext(k)[p] \in HeadIn(k) => p \in HeadIn(k) /\ p < HeadNext(k)[p]
  <1>1. ASSUME NEW p \in Nat
        PROVE  /\ HeadNext(k)[p] \in Nat
               /\ HeadNext(k)[p] \in HeadIn(k) => p \in HeadIn(k) /\ p < HeadNext(k)[p]
    <2>1. HeadNext(k)[p] = IF p \in HeadIn(k) /\ HeadLink(k, p) # 0 THEN p + HeadLink(k, p) ELSE Huge
      BY DEF HeadNext
    <2>2. CASE p \in HeadIn(k) /\ HeadLink(k, p) # 0
      <3>1. HeadLink(k, p) \in Nat \ {0}
        BY <2>2, VersionSays
      <3> QED BY <2>1, <2>2, <3>1
    <2>3. CASE ~(p \in HeadIn(k) /\ HeadLink(k, p) # 0)
      <3>1. Huge \in Nat /\ k.size \in Nat /\ k.size <= Huge /\ HeadSize(k) >= 8 /\ HeadSize(k) \in Nat
        BY VersionSays, VersionSizes
      <3>2. Huge \notin HeadIn(k)
        BY <3>1 DEF HeadIn
      <3> QED BY <2>1, <2>3, <3>1, <3>2
    <2> QED BY <2>2, <2>3
  <1>2. HeadNext(k) = [p \in Nat |-> HeadNext(k)[p]]
    BY DEF HeadNext
  <1> HIDE DEF HeadNext
  <1> QED BY <1>1, <1>2

LEMMA AuxNextFact ==
  ASSUME NEW k, VersionCall(k)
  PROVE  /\ AuxNext(k) \in [Nat -> Nat]
         /\ \A p \in Nat : AuxNext(k)[p] \in AuxIn(k) => p \in AuxIn(k) /\ p < AuxNext(k)[p]
  <1>1. ASSUME NEW p \in Nat
        PROVE  /\ AuxNext(k)[p] \in Nat
               /\ AuxNext(k)[p] \in AuxIn(k) => p \in AuxIn(k) /\ p < AuxNext(k)[p]
    <2>1. AuxNext(k)[p] = IF p \in AuxIn(k) /\ AuxLink(k, p) # 0 THEN p + AuxLink(k, p) ELSE Huge
      BY DEF AuxNext
    <2>2. CASE p \in AuxIn(k) /\ AuxLink(k, p) # 0
      <3>1. AuxLink(k, p) \in Nat \ {0}
        BY <2>2, VersionSays
      <3> QED BY <2>1, <2>2, <3>1
    <2>3. CASE ~(p \in AuxIn(k) /\ AuxLink(k, p) # 0)
      <3>1. Huge \in Nat /\ k.size \in Nat /\ k.size <= Huge /\ AuxSize(k) >= 8 /\ AuxSize(k) \in Nat
        BY VersionSays, VersionSizes
      <3>2. Huge \notin AuxIn(k)
        BY <3>1 DEF AuxIn
      <3> QED BY <2>1, <2>3, <3>1, <3>2
    <2> QED BY <2>2, <2>3
  <1>2. AuxNext(k) = [p \in Nat |-> AuxNext(k)[p]]
    BY DEF AuxNext
  <1> HIDE DEF AuxNext
  <1> QED BY <1>1, <1>2

LEMMA HeadChain ==
  ASSUME NEW k, VersionCall(k)
  PROVE  \E at : HeadPlaces(k, at)
  <1> DEFINE most == HeadsMost(k)
             first == 0
             In(p) == Within(k, p, RefHead(k))
             Body(at) == [i \in 1 .. most |->
                 IF i = 1 THEN first
                 ELSE LET here == at[i - 1]
                      IN  IF In(here) /\ HeadLink(k, here) # 0 THEN here + HeadLink(k, here) ELSE Huge]
             at == CHOOSE g : g = Body(g)
             nxt == HeadNext(k)
  <1>1. k.size \in Nat /\ Huge \in Nat /\ most \in Nat /\ first \in Nat
    BY VersionSays
  <1>2. nxt \in [Nat -> Nat] /\ \A p \in Nat : nxt[p] \in HeadIn(k) => p \in HeadIn(k) /\ p < nxt[p]
    BY HeadNextFact
  <1>20. \A p \in Nat : In(p) <=> p \in HeadIn(k)
    BY VersionSizes, VersionSays DEF Within, HeadIn, HeadSize
  <1>3. ASSUME NEW p \in Nat
        PROVE  nxt[p] = IF In(p) /\ HeadLink(k, p) # 0 THEN p + HeadLink(k, p) ELSE Huge
    BY <1>20 DEF HeadNext
  <1>7. HeadsOf(k) = {at[i] : i \in {j \in 1 .. most : In(at[j])}}
    BY DEF HeadsOf, Chain, HeadLink, HeadsMost, AuxesMost, AuxCount, AuxStart
  <1> HIDE DEF most, nxt, first, In
  <1>4. PICK g : Follows(g, first, nxt, most)
    BY <1>1, <1>2, ChainExists
  <1>5. g = Body(g)
    <2>1. g = [i \in 1 .. most |-> g[i]]
      BY <1>4 DEF Follows
    <2>2. ASSUME NEW i \in 1 .. most PROVE g[i] = Body(g)[i]
      <3>1. CASE i = 1
        BY <1>1, <1>4, <3>1 DEF Follows
      <3>2. CASE i # 1
        <4>1. i \in 2 .. most /\ i - 1 \in 1 .. most
          BY <1>1, <3>2
        <4>2. g[i] = nxt[g[i - 1]] /\ g[i - 1] \in Nat
          BY <1>4, <4>1 DEF Follows
        <4> QED BY <1>3, <3>2, <4>2
      <3> QED BY <3>1, <3>2
    <2> QED BY <2>1, <2>2
  <1>6. at = Body(at)
    <2> HIDE DEF Body
    <2> QED BY <1>5
  <1> HIDE DEF at
  <1>8. \A i \in 1 .. most : at[i] = IF i = 1 THEN first
                 ELSE IF In(at[i - 1]) /\ HeadLink(k, at[i - 1]) # 0
                      THEN at[i - 1] + HeadLink(k, at[i - 1]) ELSE Huge
    BY <1>6
  <1>9. \A i \in 2 .. most : at[i - 1] \in Nat => at[i] = nxt[at[i - 1]]
    <2> TAKE i \in 2 .. most
    <2> HAVE at[i - 1] \in Nat
    <2>1. i \in 1 .. most /\ i # 1
      BY <1>1
    <2> QED BY <1>3, <1>8, <2>1
  <1>10. most # 0 => at[1] = first
    BY <1>1, <1>8
  <1>11. \A i \in 1 .. most : at[i] \in Nat
    <2>1. \A i \in 2 .. most : at[i - 1] \in Nat => at[i] \in Nat
      BY <1>2, <1>9
    <2>2. most \in Nat /\ (most # 0 => at[1] \in Nat)
      BY <1>1, <1>10
    <2> QED BY ONLY <2>1, <2>2, AlongChain
  <1>12. Chained(at, first, HeadIn(k), nxt, most)
    <2>1. at = [i \in 1 .. most |-> at[i]]
      BY <1>6
    <2>2. at \in [1 .. most -> Nat]
      BY <1>11, <2>1
    <2>3. \A i \in 2 .. most : at[i] = nxt[at[i - 1]]
      <3> TAKE i \in 2 .. most
      <3>1. i - 1 \in 1 .. most
        BY <1>1
      <3> QED BY <1>9, <1>11, <3>1
    <2> QED BY <1>2, <1>10, <2>2, <2>3 DEF Follows, Chained
  <1>13. {at[i] : i \in {j \in 1 .. most : In(at[j])}} = {at[i] : i \in {j \in 1 .. most : at[j] \in HeadIn(k)}}
    BY <1>11, <1>20
  <1>14. HeadPlaces(k, at)
    BY <1>7, <1>12, <1>13 DEF HeadPlaces, most, nxt, first
  <1> QED BY <1>14

LEMMA AuxChain ==
  ASSUME NEW k, VersionCall(k), NEW h \in HeadIn(k)
  PROVE  \E at : AuxPlaces(k, h, at)
  <1> DEFINE most == AuxesMost(k, h)
             first == AuxStart(k, h)
             In(p) == Within(k, p, RefAux(k))
             Body(at) == [i \in 1 .. most |->
                 IF i = 1 THEN first
                 ELSE LET here == at[i - 1]
                      IN  IF In(here) /\ AuxLink(k, here) # 0 THEN here + AuxLink(k, here) ELSE Huge]
             at == CHOOSE g : g = Body(g)
             nxt == AuxNext(k)
  <1>1. k.size \in Nat /\ Huge \in Nat /\ most \in Nat /\ first \in Nat
    BY VersionSays
  <1>2. nxt \in [Nat -> Nat] /\ \A p \in Nat : nxt[p] \in AuxIn(k) => p \in AuxIn(k) /\ p < nxt[p]
    BY AuxNextFact
  <1>20. \A p \in Nat : In(p) <=> p \in AuxIn(k)
    BY VersionSizes, VersionSays DEF Within, AuxIn, AuxSize
  <1>3. ASSUME NEW p \in Nat
        PROVE  nxt[p] = IF In(p) /\ AuxLink(k, p) # 0 THEN p + AuxLink(k, p) ELSE Huge
    BY <1>20 DEF AuxNext
  <1>7. AuxesOf(k, h) = {at[i] : i \in {j \in 1 .. most : In(at[j])}}
    BY DEF AuxesOf, Chain, AuxLink, HeadsMost, AuxesMost, AuxCount, AuxStart
  <1> HIDE DEF most, nxt, first, In
  <1>4. PICK g : Follows(g, first, nxt, most)
    BY <1>1, <1>2, ChainExists
  <1>5. g = Body(g)
    <2>1. g = [i \in 1 .. most |-> g[i]]
      BY <1>4 DEF Follows
    <2>2. ASSUME NEW i \in 1 .. most PROVE g[i] = Body(g)[i]
      <3>1. CASE i = 1
        BY <1>1, <1>4, <3>1 DEF Follows
      <3>2. CASE i # 1
        <4>1. i \in 2 .. most /\ i - 1 \in 1 .. most
          BY <1>1, <3>2
        <4>2. g[i] = nxt[g[i - 1]] /\ g[i - 1] \in Nat
          BY <1>4, <4>1 DEF Follows
        <4> QED BY <1>3, <3>2, <4>2
      <3> QED BY <3>1, <3>2
    <2> QED BY <2>1, <2>2
  <1>6. at = Body(at)
    <2> HIDE DEF Body
    <2> QED BY <1>5
  <1> HIDE DEF at
  <1>8. \A i \in 1 .. most : at[i] = IF i = 1 THEN first
                 ELSE IF In(at[i - 1]) /\ AuxLink(k, at[i - 1]) # 0
                      THEN at[i - 1] + AuxLink(k, at[i - 1]) ELSE Huge
    BY <1>6
  <1>9. \A i \in 2 .. most : at[i - 1] \in Nat => at[i] = nxt[at[i - 1]]
    <2> TAKE i \in 2 .. most
    <2> HAVE at[i - 1] \in Nat
    <2>1. i \in 1 .. most /\ i # 1
      BY <1>1
    <2> QED BY <1>3, <1>8, <2>1
  <1>10. most # 0 => at[1] = first
    BY <1>1, <1>8
  <1>11. \A i \in 1 .. most : at[i] \in Nat
    <2>1. \A i \in 2 .. most : at[i - 1] \in Nat => at[i] \in Nat
      BY <1>2, <1>9
    <2>2. most \in Nat /\ (most # 0 => at[1] \in Nat)
      BY <1>1, <1>10
    <2> QED BY ONLY <2>1, <2>2, AlongChain
  <1>12. Chained(at, first, AuxIn(k), nxt, most)
    <2>1. at = [i \in 1 .. most |-> at[i]]
      BY <1>6
    <2>2. at \in [1 .. most -> Nat]
      BY <1>11, <2>1
    <2>3. \A i \in 2 .. most : at[i] = nxt[at[i - 1]]
      <3> TAKE i \in 2 .. most
      <3>1. i - 1 \in 1 .. most
        BY <1>1
      <3> QED BY <1>9, <1>11, <3>1
    <2> QED BY <1>2, <1>10, <2>2, <2>3 DEF Follows, Chained
  <1>13. {at[i] : i \in {j \in 1 .. most : In(at[j])}} = {at[i] : i \in {j \in 1 .. most : at[j] \in AuxIn(k)}}
    BY <1>11, <1>20
  <1>14. AuxPlaces(k, h, at)
    BY <1>7, <1>12, <1>13 DEF AuxPlaces, most, nxt, first
  <1> QED BY <1>14

HeadRec(k, p) == [at |-> p, fields |-> RefHead(k)]
AuxRec(k, p)  == [at |-> p, fields |-> RefAux(k)]

\* The records of a table are within it.
LEMMA VersionRecordsFact ==
  ASSUME NEW k, VersionCall(k)
  PROVE  /\ HeadsOf(k) \subseteq HeadIn(k)
         /\ \A h \in HeadsOf(k) : AuxesOf(k, h) \subseteq AuxIn(k)
         /\ \A x \in VersionRecords(k) :
               /\ x.at \in Nat /\ IsFields(x.fields) /\ x.at + Packed(k.class, x.fields).size <= k.size
               /\ Packed(k.class, x.fields).size \in Nat \ {0}
         /\ \A h \in HeadsOf(k) : HeadRec(k, h) \in VersionRecords(k)
         /\ \A h \in HeadsOf(k) : \A a \in AuxesOf(k, h) : AuxRec(k, a) \in VersionRecords(k)
  <1>1. HeadsOf(k) \subseteq HeadIn(k)
    <2>1. PICK at : HeadPlaces(k, at)
      BY HeadChain
    <2> QED BY <2>1 DEF HeadPlaces
  <1>2. \A h \in HeadsOf(k) : AuxesOf(k, h) \subseteq AuxIn(k)
    <2> TAKE h \in HeadsOf(k)
    <2>1. PICK at : AuxPlaces(k, h, at)
      BY <1>1, AuxChain
    <2> QED BY <2>1 DEF AuxPlaces
  <1>3. ASSUME NEW x \in VersionRecords(k)
        PROVE  /\ x.at \in Nat /\ IsFields(x.fields) /\ x.at + Packed(k.class, x.fields).size <= k.size
               /\ Packed(k.class, x.fields).size \in Nat \ {0}
    <2>1. k \in Calls /\ k.class \in Class
      BY VersionSays
    <2>2. /\ IsFields(RefHead(k)) /\ IsFields(RefAux(k))
          /\ HeadSize(k) = Packed(k.class, RefHead(k)).size /\ AuxSize(k) = Packed(k.class, RefAux(k)).size
          /\ HeadSize(k) \in Nat \ {0} /\ AuxSize(k) \in Nat \ {0}
      BY <2>1, VersionFields, VersionSizes DEF HeadSize, AuxSize
    <2>3. CASE x \in {[at |-> h, fields |-> RefHead(k)] : h \in HeadsOf(k)}
      <3>1. PICK h \in HeadsOf(k) : x = [at |-> h, fields |-> RefHead(k)]
        BY <2>3
      <3>2. x.at = h /\ x.fields = RefHead(k) /\ h \in Nat /\ h + HeadSize(k) <= k.size
        BY <1>1, <3>1 DEF HeadIn
      <3> QED BY <2>2, <3>2
    <2>4. CASE x \in {[at |-> a, fields |-> RefAux(k)] : a \in UNION {AuxesOf(k, h) : h \in HeadsOf(k)}}
      <3>1. PICK a \in UNION {AuxesOf(k, h) : h \in HeadsOf(k)} : x = [at |-> a, fields |-> RefAux(k)]
        BY <2>4
      <3>2. x.at = a /\ x.fields = RefAux(k) /\ a \in Nat /\ a + AuxSize(k) <= k.size
        BY <1>2, <3>1 DEF AuxIn
      <3> QED BY <2>2, <3>2
    <2> QED BY <2>3, <2>4 DEF VersionRecords
  <1>4. \A h \in HeadsOf(k) : HeadRec(k, h) \in VersionRecords(k)
    BY DEF VersionRecords, HeadRec
  <1>5. \A h \in HeadsOf(k) : \A a \in AuxesOf(k, h) : AuxRec(k, a) \in VersionRecords(k)
    BY DEF VersionRecords, AuxRec
  <1> QED BY <1>1, <1>2, <1>3, <1>4, <1>5

\* The records of D are converted, the others have not been touched.
RecordConverted(k, m, x) ==
    \A o \in Extent(k, x) :
        m[k.db + o] = Original(k)[k.sb + (x.at + TableBytes(k, x.fields)[o - x.at])]
RecordUntouched(k, m, x) == SourceIntact(k, m, x.at, Packed(k.class, x.fields).size)
VersionSoFar(k, m, D) ==
    \A x \in VersionRecords(k) : IF x \in D THEN RecordConverted(k, m, x) ELSE RecordUntouched(k, m, x)

LEMMA VersionStart ==
  ASSUME NEW k, VersionCall(k)
  PROVE  VersionSoFar(k, Original(k), {})
  BY DEF VersionSoFar, RecordUntouched, SourceIntact

LEMMA VersionForward ==
  ASSUME NEW k, VersionCall(k), Accepts(k), ~Overlap(k), Disjoint(k), NEW m, Kept(k, m),
         NEW D, VersionSoFar(k, m, D), NEW x \in VersionRecords(k), x \notin D
  PROVE  VersionSoFar(k, Piece(k, m, x.at, TableBytes(k, x.fields)), D \cup {x})
  <1> DEFINE b == TableBytes(k, x.fields)
             n == Packed(k.class, x.fields).size
             g == Piece(k, m, x.at, b)
  <1>1. /\ k \in Calls /\ k.size \in Nat /\ k.type \in Walked /\ k.class \in Class
        /\ k.tof \in BOOLEAN /\ k.swap \in BOOLEAN
    BY VersionSays
  <1>2. \A y \in VersionRecords(k) :
               /\ y.at \in Nat /\ IsFields(y.fields) /\ y.at + Packed(k.class, y.fields).size <= k.size
               /\ Packed(k.class, y.fields).size \in Nat \ {0}
    BY VersionRecordsFact
  <1>3. x.at \in Nat /\ n \in Nat \ {0} /\ x.at + n <= k.size /\ IsFields(x.fields)
    BY <1>2
  <1>4. Turns(b, n)
    <2>1. DOMAIN b = 0 .. n - 1 /\ \A o \in DOMAIN b : b[o] \in 0 .. n - 1
      BY <1>1, <1>3, TableBytesFact
    <2> HIDE DEF b, n
    <2> QED BY <2>1 DEF Turns
  <1>5. Moved(k, m, g, x.at, n, b)
    <2> HIDE DEF b, n
    <2> QED BY <1>1, <1>3, <1>4, PieceConverted DEF g
  <1>6. /\ \A u \in Extent(k, x) : g[k.db + u] = m[k.sb + (x.at + b[u - x.at])]
        /\ \A u \in 0 .. k.size - 1 : u \notin Extent(k, x) => g[k.db + u] = m[k.db + u] /\ g[k.sb + u] = m[k.sb + u]
    BY <1>5 DEF Moved, Extent
  <1> HIDE DEF g
  <1>7. ASSUME NEW y \in VersionRecords(k), y # x
        PROVE  \A u \in Extent(k, y) : g[k.db + u] = m[k.db + u] /\ g[k.sb + u] = m[k.sb + u]
    <2> TAKE u \in Extent(k, y)
    <2>1. u \notin Extent(k, x)
      BY <1>7 DEF Disjoint
    <2>2. u \in 0 .. k.size - 1
      <3>1. PICK lo, w : lo = y.at /\ w = Packed(k.class, y.fields).size
        OBVIOUS
      <3>2. u \in lo .. (lo + w - 1) /\ lo \in Nat /\ w \in Nat /\ lo + w <= k.size
        BY <1>2, <3>1 DEF Extent
      <3> QED BY <1>1, <3>2
    <2> QED BY <1>6, <2>1, <2>2
  <1>8. RecordConverted(k, g, x)
    <2> SUFFICES ASSUME NEW o \in Extent(k, x)
                 PROVE  g[k.db + o] = Original(k)[k.sb + (x.at + b[o - x.at])]
      BY DEF RecordConverted
    <2>1. g[k.db + o] = m[k.sb + (x.at + b[o - x.at])]
      BY <1>6
    <2>2. x.at + b[o - x.at] \in x.at .. x.at + n - 1
      <3> HIDE DEF b, n
      <3>1. PICK e : e = o - x.at
        OBVIOUS
      <3>2. e \in 0 .. n - 1
        BY <1>3, <3>1 DEF Extent, n
      <3>3. b[e] \in 0 .. n - 1
        BY <1>4, <3>2 DEF Turns
      <3> QED BY <1>3, <3>1, <3>3
    <2>3. SourceIntact(k, m, x.at, n)
      BY DEF VersionSoFar, RecordUntouched
    <2> QED BY <2>1, <2>2, <2>3 DEF SourceIntact
  <1>9. ASSUME NEW y \in VersionRecords(k)
        PROVE  IF y \in D \cup {x} THEN RecordConverted(k, g, y) ELSE RecordUntouched(k, g, y)
    <2>1. CASE y = x
      BY <1>8, <2>1
    <2>2. CASE y # x /\ y \in D
      <3>1. RecordConverted(k, m, y)
        BY <2>2 DEF VersionSoFar
      <3>2. RecordConverted(k, g, y)
        BY <1>7, <2>2, <3>1 DEF RecordConverted
      <3> QED BY <2>2, <3>2
    <2>3. CASE y # x /\ y \notin D
      <3>1. RecordUntouched(k, m, y)
        BY <2>3 DEF VersionSoFar
      <3>2. RecordUntouched(k, g, y)
        BY <1>7, <2>3, <3>1 DEF RecordUntouched, SourceIntact, Extent
      <3> QED BY <2>3, <3>2
    <2> QED BY <2>1, <2>2, <2>3
  <1> QED BY <1>9 DEF VersionSoFar, g

LEMMA VersionsAsExpected ==
  ASSUME NEW k, VersionCall(k), NEW m, NEW D, VersionSoFar(k, m, D), VersionRecords(k) \subseteq D
  PROVE  AsExpected(k, m)
  <1>1. Expected(k) = VersionBytes(k)
    BY ExpectedFact DEF VersionCall
  <1> DEFINE U == UNION { Extent(k, x) : x \in VersionRecords(k) }
             X(o) == CHOOSE y \in VersionRecords(k) : o \in Extent(k, y)
  <1>2. VersionBytes(k) = [o \in U |-> X(o).at + TableBytes(k, X(o).fields)[o - X(o).at]]
    BY DEF VersionBytes
  <1> SUFFICES ASSUME NEW o \in U
               PROVE  m[k.db + o] = Was(k)[k.sb + (X(o).at + TableBytes(k, X(o).fields)[o - X(o).at])]
    BY <1>1, <1>2 DEF AsExpected
  <1>3. PICK y : y = X(o)
    OBVIOUS
  <1>4. y \in VersionRecords(k) /\ o \in Extent(k, y)
    BY <1>3
  <1>5. RecordConverted(k, m, y)
    BY <1>4 DEF VersionSoFar
  <1> HIDE DEF X
  <1> QED BY <1>3, <1>4, <1>5 DEF RecordConverted, Was

\* A walk that is at the i-th place of a chain has been at the places before.
Behind(at, in, most, i) ==
    /\ i \in Nat \ {0}
    /\ \A l \in 1 .. i - 1 : l \in 1 .. most /\ at[l] \in in

EndsBefore(at, in, most, i) == {at[l] : l \in {j \in 1 .. most : at[j] \in in}} = {at[l] : l \in 1 .. i - 1}

LEMMA ChainEnds ==
  ASSUME NEW most \in Nat, NEW at, NEW first, NEW in, NEW nxt, Chained(at, first, in, nxt, most),
         NEW i, Behind(at, in, most, i), i \in 1 .. most => at[i] \notin in
  PROVE  EndsBefore(at, in, most, i)
  <1>1. i \in Nat \ {0} /\ \A l \in 1 .. i - 1 : l \in 1 .. most /\ at[l] \in in
    BY DEF Behind
  <1>2. ASSUME NEW j \in 1 .. most, at[j] \in in PROVE j \in 1 .. i - 1
    <2>1. CASE j < i
      BY <1>1, <2>1
    <2>2. CASE j = i
      BY <1>2, <2>2
    <2>3. CASE i < j
      <3>1. i \in 1 .. j - 1 /\ i \in 1 .. most
        BY <1>1, <2>3
      <3>2. at[i] \in in
        BY <1>2, <3>1, ChainRises
      <3> QED BY <3>1, <3>2
    <2> QED BY <1>1, <2>1, <2>2, <2>3
  <1> QED BY <1>1, <1>2 DEF EndsBefore

LEMMA BehindNext ==
  ASSUME NEW most \in Nat, NEW at, NEW in, NEW i \in 1 .. most, Behind(at, in, most, i), at[i] \in in
  PROVE  Behind(at, in, most, i + 1)
  <1>1. \A l \in 1 .. (i + 1) - 1 : l = i \/ l \in 1 .. i - 1
    OBVIOUS
  <1>2. i + 1 \in Nat \ {0}
    OBVIOUS
  <1> QED BY <1>1, <1>2 DEF Behind

\* Records of one kind are apart when no byte is of two.
LEMMA RecordsApart ==
  ASSUME NEW k, VersionCall(k), Disjoint(k), NEW x \in VersionRecords(k), NEW y \in VersionRecords(k),
         x.fields = y.fields, x.at < y.at
  PROVE  x.at + Packed(k.class, x.fields).size <= y.at
  <1>1. PICK p, q, n : p = x.at /\ q = y.at /\ n = Packed(k.class, x.fields).size
    OBVIOUS
  <1>2. p \in Nat /\ q \in Nat /\ n \in Nat \ {0} /\ p < q
    BY <1>1, VersionRecordsFact
  <1>3. Extent(k, x) = p .. p + n - 1 /\ Extent(k, y) = q .. q + n - 1
    BY <1>1 DEF Extent
  <1>4. Extent(k, x) \cap Extent(k, y) = {}
    <2>1. x # y
      BY <1>1, <1>2
    <2> QED BY <2>1 DEF Disjoint
  <1>5. q \in Extent(k, y)
    BY <1>2, <1>3
  <1>6. q \notin p .. p + n - 1
    BY <1>3, <1>4, <1>5
  <1> QED BY <1>1, <1>2, <1>6

\* So there are as many places as records fit, and one more.
LEMMA HeadsApart ==
  ASSUME NEW k, VersionCall(k), Disjoint(k), NEW at, HeadPlaces(k, at),
         NEW i \in 1 .. HeadsMost(k), at[i] \in HeadIn(k)
  PROVE  /\ i + 1 \in 1 .. HeadsMost(k) /\ at[i] \in HeadsOf(k) /\ at[i] \in Nat
         /\ \A l \in 1 .. i - 1 : at[l] # at[i] /\ at[l] \in HeadsOf(k)
  <1> DEFINE most == HeadsMost(k)
  <1>1. /\ Chained(at, 0, HeadIn(k), HeadNext(k), most) /\ most \in Nat \ {0}
        /\ HeadsOf(k) = {at[l] : l \in {j \in 1 .. most : at[j] \in HeadIn(k)}}
    BY VersionSays DEF HeadPlaces
  <1>2. HeadSize(k) >= 16 /\ HeadSize(k) \in Nat /\ k.size \in Nat /\ RefHead(k) = HeadFields(k)
    BY VersionSizes, VersionSays
  <1>3. \A j \in 1 .. most : at[j] \in HeadIn(k) => at[j] \in HeadsOf(k) /\ at[j] \in Nat
    BY <1>1 DEF HeadIn
  <1>4. ASSUME NEW j \in 2 .. most, at[j] \in HeadIn(k) PROVE at[j - 1] + 16 <= at[j]
    <2>1. j \in 1 .. most /\ j - 1 \in 1 .. j - 1 /\ j - 1 \in 1 .. most
      BY <1>1
    <2>2. at[j - 1] \in HeadIn(k) /\ at[j - 1] < at[j]
      BY <1>1, <1>4, <2>1, ChainRises
    <2>3. PICK p, q : p = at[j - 1] /\ q = at[j]
      OBVIOUS
    <2>4. p \in HeadsOf(k) /\ q \in HeadsOf(k) /\ p \in Nat /\ q \in Nat /\ p < q
      BY <1>3, <1>4, <2>1, <2>2, <2>3
    <2>5. HeadRec(k, p) \in VersionRecords(k) /\ HeadRec(k, q) \in VersionRecords(k)
      BY <2>4, VersionRecordsFact
    <2>6. HeadRec(k, p).at = p /\ HeadRec(k, q).at = q
          /\ HeadRec(k, p).fields = RefHead(k) /\ HeadRec(k, q).fields = RefHead(k)
      BY DEF HeadRec
    <2>7. p + Packed(k.class, RefHead(k)).size <= q
      BY <2>4, <2>5, <2>6, RecordsApart
    <2>8. p + HeadSize(k) <= q
      BY <1>2, <2>7 DEF HeadSize
    <2> QED BY <1>2, <2>3, <2>4, <2>8
  <1>5. 16 * (i - 1) <= at[i]
    <2>1. \A j \in 2 .. most : at[j] \in HeadIn(k) => at[j - 1] + 16 <= at[j]
      BY <1>4
    <2> QED BY <1>1, <2>1, ChainSpaced
  <1>6. at[i] \in Nat /\ at[i] + HeadSize(k) <= k.size
    BY DEF HeadIn
  <1>7. i + 1 \in 1 .. HeadsMost(k)
    <2>1. PICK n : n = k.size \div 16
      OBVIOUS
    <2>2. n \in Nat /\ k.size < 16 * n + 16 /\ HeadsMost(k) = n + 1
      BY <1>2, <2>1 DEF HeadsMost
    <2> QED BY <1>2, <1>5, <1>6, <2>2
  <1>8. \A l \in 1 .. i - 1 : at[l] \in HeadIn(k) /\ at[l] < at[i]
    BY <1>1, ChainRises
  <1>9. \A l \in 1 .. i - 1 : l \in 1 .. most
    BY <1>1
  <1> QED BY <1>3, <1>6, <1>7, <1>8, <1>9

LEMMA AuxesApart ==
  ASSUME NEW k, VersionCall(k), Disjoint(k), NEW h \in HeadsOf(k), NEW at, AuxPlaces(k, h, at),
         NEW i \in 1 .. AuxesMost(k, h), at[i] \in AuxIn(k)
  PROVE  /\ i < AuxCount(k, h) => i + 1 \in 1 .. AuxesMost(k, h)
         /\ at[i] \in AuxesOf(k, h) /\ at[i] \in Nat
         /\ \A l \in 1 .. i - 1 : at[l] # at[i] /\ at[l] \in AuxesOf(k, h)
  <1> DEFINE most == AuxesMost(k, h)
  <1>0. h \in HeadIn(k)
    BY VersionRecordsFact
  <1>1. /\ Chained(at, AuxStart(k, h), AuxIn(k), AuxNext(k), most) /\ most \in Nat
        /\ AuxCount(k, h) \in Nat
        /\ AuxesOf(k, h) = {at[l] : l \in {j \in 1 .. most : at[j] \in AuxIn(k)}}
    BY <1>0, VersionSays DEF AuxPlaces
  <1>2. AuxSize(k) >= 8 /\ AuxSize(k) \in Nat /\ k.size \in Nat /\ RefAux(k) = AuxFields(k)
    BY VersionSizes, VersionSays
  <1>3. \A j \in 1 .. most : at[j] \in AuxIn(k) => at[j] \in AuxesOf(k, h) /\ at[j] \in Nat
    BY <1>1 DEF AuxIn
  <1>4. ASSUME NEW j \in 2 .. most, at[j] \in AuxIn(k) PROVE at[j - 1] + 8 <= at[j]
    <2>1. j \in 1 .. most /\ j - 1 \in 1 .. j - 1 /\ j - 1 \in 1 .. most
      BY <1>1
    <2>2. at[j - 1] \in AuxIn(k) /\ at[j - 1] < at[j]
      BY <1>1, <1>4, <2>1, ChainRises
    <2>3. PICK p, q : p = at[j - 1] /\ q = at[j]
      OBVIOUS
    <2>4. p \in AuxesOf(k, h) /\ q \in AuxesOf(k, h) /\ p \in Nat /\ q \in Nat /\ p < q
      BY <1>3, <1>4, <2>1, <2>2, <2>3
    <2>5. AuxRec(k, p) \in VersionRecords(k) /\ AuxRec(k, q) \in VersionRecords(k)
      BY <2>4, VersionRecordsFact
    <2>6. AuxRec(k, p).at = p /\ AuxRec(k, q).at = q
          /\ AuxRec(k, p).fields = RefAux(k) /\ AuxRec(k, q).fields = RefAux(k)
      BY DEF AuxRec
    <2>7. p + Packed(k.class, RefAux(k)).size <= q
      BY <2>4, <2>5, <2>6, RecordsApart
    <2>8. p + AuxSize(k) <= q
      BY <1>2, <2>7 DEF AuxSize
    <2> QED BY <1>2, <2>3, <2>4, <2>8
  <1>5. 8 * (i - 1) <= at[i]
    <2>1. \A j \in 2 .. most : at[j] \in AuxIn(k) => at[j - 1] + 8 <= at[j]
      BY <1>4
    <2> QED BY <1>1, <2>1, ChainSpaced
  <1>6. at[i] \in Nat /\ at[i] + AuxSize(k) <= k.size
    BY DEF AuxIn
  <1>7. i < AuxCount(k, h) => i + 1 \in 1 .. AuxesMost(k, h)
    <2>1. PICK n : n = k.size \div 8
      OBVIOUS
    <2>2. n \in Nat /\ k.size < 8 * n + 8 /\ AuxesMost(k, h) = Least(AuxCount(k, h), n + 1)
      BY <1>2, <2>1 DEF AuxesMost
    <2>3. i + 1 <= n + 1
      BY <1>2, <1>5, <1>6, <2>2
    <2> QED BY <1>1, <2>2, <2>3 DEF Least
  <1>8. \A l \in 1 .. i - 1 : at[l] \in AuxIn(k) /\ at[l] < at[i]
    BY <1>1, ChainRises
  <1>9. \A l \in 1 .. i - 1 : l \in 1 .. most
    BY <1>1
  <1> QED BY <1>3, <1>6, <1>7, <1>8, <1>9

\* What is converted when the walk is at the i-th head, and at the j-th
\* auxiliary record of it.
DoneRecords(k, at, i) ==
    {HeadRec(k, at[l]) : l \in 1 .. i - 1} \cup
    {AuxRec(k, a) : a \in UNION {AuxesOf(k, at[l]) : l \in 1 .. i - 1}}
AuxDone(k, at, i, aat, j) ==
    DoneRecords(k, at, i) \cup {HeadRec(k, at[i])} \cup {AuxRec(k, aat[l]) : l \in 1 .. j - 1}

AtHead(k, w, at, i) ==
    /\ HeadPlaces(k, at) /\ Behind(at, HeadIn(k), HeadsMost(k), i)
    /\ w.next # 0 => i \in 1 .. HeadsMost(k) /\ w.off = at[i]
    /\ i = 1 => w.next # 0
    /\ i # 1 => w.next = HeadLink(k, at[i - 1])
    /\ k.lib = "lib" => w.next # 0

OnHead(k, w, at, i) ==
    /\ HeadPlaces(k, at) /\ Behind(at, HeadIn(k), HeadsMost(k), i)
    /\ i \in 1 .. HeadsMost(k) /\ at[i] \in HeadIn(k)
    /\ w.off = at[i] /\ w.next = HeadLink(k, at[i])

AtAux(k, w, at, i, aat, j) ==
    /\ OnHead(k, w, at, i)
    /\ AuxPlaces(k, w.off, aat) /\ Behind(aat, AuxIn(k), AuxesMost(k, w.off), j)
    /\ w.cnt \in Nat /\ w.cnt + j = AuxCount(k, w.off) + 1
    /\ w.anext # 0 /\ w.cnt # 0 => j \in 1 .. AuxesMost(k, w.off) /\ w.aoff = aat[j]
    /\ k.lib = "lib" => w.anext # 0
    /\ k.lib # "lib" => (j = 1 => w.anext # 0) /\ (j # 1 => w.anext = AuxLink(k, aat[j - 1]))

HeadSoFar(k, m, w) == \E at, i : AtHead(k, w, at, i) /\ VersionSoFar(k, m, DoneRecords(k, at, i))
AuxSoFar(k, m, w) ==
    \E at, i, aat, j : AtAux(k, w, at, i, aat, j) /\ VersionSoFar(k, m, AuxDone(k, at, i, aat, j))
AuxesSoFar(k, m, w) ==
    \E at, i : OnHead(k, w, at, i) /\ VersionSoFar(k, m, DoneRecords(k, at, i + 1))

\* A record that is about to be converted has not been touched, so that it
\* is read as the source has it.
LEMMA HeadReadsRight ==
  ASSUME NEW k, VersionCall(k), NEW m, NEW p \in HeadsOf(k), RecordUntouched(k, m, HeadRec(k, p))
  PROVE  /\ AuxOf(k, m, k.sb + p) = HeadSays(k, p, "vd_aux", "vn_aux")
         /\ CntOf(k, m, k.sb + p) = AuxCount(k, p)
         /\ NextOf(k, m, k.sb + p) = HeadLink(k, p)
         /\ VersionOf(k, m, k.sb + p) = HeadSays(k, p, "vd_version", "vn_version")
  <1> DEFINE f == HeadFields(k)
  <1>1. k \in Calls /\ k.type \in Walked /\ k.class \in Class /\ k.tof \in BOOLEAN
    BY VersionSays
  <1>2. IsFields(f) /\ RefHead(k) = f /\ f = VersionRecord(k).head
    BY <1>1, VersionFields, VersionSizes, HeadAndAux
  <1>3. p \in Nat /\ p + Packed(k.class, f).size <= k.size
    BY VersionRecordsFact DEF HeadIn, HeadSize
  <1>4. SourceIntact(k, m, p, Packed(k.class, f).size)
    BY <1>2 DEF RecordUntouched, HeadRec
  <1>5. \A n \in Name(f) : ReadsRight(k, m, p, f, n)
    BY <1>1, <1>2, <1>3, <1>4, SaysFact
  <1>6. /\ Versioned(k, "vd_aux", "vn_aux") \in Name(f) /\ Versioned(k, "vd_cnt", "vn_cnt") \in Name(f)
        /\ Versioned(k, "vd_next", "vn_next") \in Name(f)
        /\ Versioned(k, "vd_version", "vn_version") \in Name(f)
    BY <1>1, <1>2, VersionNumbers DEF HasNumber
  <1> HIDE DEF f
  <1>7. \A n \in Name(f) : Member(k, m, k.sb + p, f, n) = Says(k, p, Packed(k.class, f), n, Widths(k.class, f)[n])
    BY <1>5 DEF ReadsRight
  <1> QED BY <1>2, <1>6, <1>7 DEF AuxOf, CntOf, NextOf, VersionOf, HeadSays, AuxCount, HeadLink, f

LEMMA AuxReadsRight ==
  ASSUME NEW k, VersionCall(k), NEW m, NEW h \in HeadsOf(k), NEW p \in AuxesOf(k, h),
         RecordUntouched(k, m, AuxRec(k, p))
  PROVE  AuxNextOf(k, m, k.sb + p) = AuxLink(k, p)
  <1> DEFINE f == AuxFields(k)
             n == Versioned(k, "vda_next", "vna_next")
  <1>1. k \in Calls /\ k.type \in Walked /\ k.class \in Class /\ k.tof \in BOOLEAN
    BY VersionSays
  <1>2. IsFields(f) /\ RefAux(k) = f /\ f = VersionRecord(k).aux
    BY <1>1, VersionFields, VersionSizes, HeadAndAux
  <1>3. p \in Nat /\ p + Packed(k.class, f).size <= k.size
    BY VersionRecordsFact DEF AuxIn, AuxSize
  <1>4. SourceIntact(k, m, p, Packed(k.class, f).size)
    BY <1>2 DEF RecordUntouched, AuxRec
  <1>5. n \in Name(f)
    BY <1>1, <1>2, VersionNumbers DEF HasNumber
  <1>6. ReadsRight(k, m, p, f, n)
    <2> HIDE DEF f, n
    <2> QED BY <1>1, <1>2, <1>3, <1>4, <1>5, SaysFact
  <1> HIDE DEF f
  <1> QED BY <1>2, <1>6 DEF ReadsRight, AuxNextOf, AuxSays, AuxLink, f

\* It is none of those that are converted.
LEMMA HeadFresh ==
  ASSUME NEW k, VersionCall(k), Disjoint(k), NEW at, NEW i, HeadPlaces(k, at),
         i \in 1 .. HeadsMost(k), at[i] \in HeadIn(k)
  PROVE  /\ at[i] \in HeadsOf(k) /\ HeadRec(k, at[i]) \in VersionRecords(k)
         /\ HeadRec(k, at[i]) \notin DoneRecords(k, at, i)
  <1>1. at[i] \in HeadsOf(k) /\ \A l \in 1 .. i - 1 : at[l] # at[i]
    BY HeadsApart
  <1>2. RefHead(k) # RefAux(k)
    BY VersionSays, VersionSizes
  <1>3. HeadRec(k, at[i]).at = at[i] /\ \A l \in 1 .. i - 1 : HeadRec(k, at[l]).at = at[l]
    BY DEF HeadRec
  <1>4. HeadRec(k, at[i]).fields = RefHead(k) /\ \A a : AuxRec(k, a).fields = RefAux(k)
    BY DEF HeadRec, AuxRec
  <1> QED BY <1>1, <1>2, <1>3, <1>4, VersionRecordsFact DEF DoneRecords

LEMMA AuxFresh ==
  ASSUME NEW k, VersionCall(k), Disjoint(k), NEW at, NEW i, HeadPlaces(k, at),
         i \in 1 .. HeadsMost(k), at[i] \in HeadIn(k),
         NEW aat, NEW j, AuxPlaces(k, at[i], aat), j \in 1 .. AuxesMost(k, at[i]), aat[j] \in AuxIn(k)
  PROVE  /\ aat[j] \in AuxesOf(k, at[i]) /\ AuxRec(k, aat[j]) \in VersionRecords(k)
         /\ AuxRec(k, aat[j]) \notin AuxDone(k, at, i, aat, j)
  <1>1. at[i] \in HeadsOf(k) /\ \A l \in 1 .. i - 1 : at[l] # at[i] /\ at[l] \in HeadsOf(k)
    BY HeadsApart
  <1>2. aat[j] \in AuxesOf(k, at[i]) /\ \A l \in 1 .. j - 1 : aat[l] # aat[j]
    BY <1>1, AuxesApart
  <1>3. RefHead(k) # RefAux(k)
    BY VersionSays, VersionSizes
  <1>4. /\ \A a : AuxRec(k, a).at = a /\ AuxRec(k, a).fields = RefAux(k)
        /\ \A p : HeadRec(k, p).fields = RefHead(k)
    BY DEF HeadRec, AuxRec
  <1>5. \A l \in 1 .. i - 1 : aat[j] \notin AuxesOf(k, at[l])
    BY <1>1, <1>2 DEF Disjoint
  <1>6. AuxRec(k, aat[j]) \notin DoneRecords(k, at, i)
    BY <1>3, <1>4, <1>5 DEF DoneRecords
  <1> QED BY <1>1, <1>2, <1>3, <1>4, <1>6, VersionRecordsFact DEF AuxDone

VersionGoes(k) == VersionCall(k) /\ Accepts(k) /\ ~Overlap(k) /\ Disjoint(k)

LEMMA HeadsBegin ==
  ASSUME NEW k, VersionCall(k), NEW w, w.off = 0, w.next = 1
  PROVE  HeadSoFar(k, Original(k), w)
  <1>1. PICK at : HeadPlaces(k, at)
    BY HeadChain
  <1>2. HeadsMost(k) \in Nat \ {0}
    BY VersionSays
  <1>3. AtHead(k, w, at, 1)
    BY <1>1, <1>2 DEF AtHead, Behind, HeadPlaces, Chained, Follows
  <1>4. DoneRecords(k, at, 1) = {}
    BY DEF DoneRecords
  <1>5. VersionSoFar(k, Original(k), DoneRecords(k, at, 1))
    BY <1>4, VersionStart
  <1> QED BY <1>3, <1>5 DEF HeadSoFar

\* A head that is there is read right, and converted.
HeadTaken(k, m, w) ==
    /\ w.off \in HeadsOf(k)
    /\ AuxOf(k, m, k.sb + w.off) = HeadSays(k, w.off, "vd_aux", "vn_aux")
    /\ CntOf(k, m, k.sb + w.off) = AuxCount(k, w.off)
    /\ NextOf(k, m, k.sb + w.off) = HeadLink(k, w.off)
    /\ VersionOf(k, m, k.sb + w.off) = HeadSays(k, w.off, "vd_version", "vn_version")
    /\ \A v : v.off = w.off /\ v.next = HeadLink(k, w.off) /\ v.aoff = AuxStart(k, w.off)
              /\ v.cnt = AuxCount(k, w.off) /\ v.anext # 0
              => AuxSoFar(k, Piece(k, m, w.off, TableBytes(k, HeadFields(k))), v)

LEMMA HeadForward ==
  ASSUME NEW k, VersionGoes(k), NEW m, Kept(k, m), NEW w, HeadSoFar(k, m, w), w.next # 0,
         w.off \in Nat, w.off + HeadSize(k) <= k.size
  PROVE  HeadTaken(k, m, w)
  <1> USE DEF VersionGoes
  <1>1. PICK at, i : AtHead(k, w, at, i) /\ VersionSoFar(k, m, DoneRecords(k, at, i))
    BY DEF HeadSoFar
  <1>2. /\ HeadPlaces(k, at) /\ Behind(at, HeadIn(k), HeadsMost(k), i)
        /\ i \in 1 .. HeadsMost(k) /\ w.off = at[i] /\ at[i] \in HeadIn(k)
    BY <1>1 DEF AtHead, HeadIn
  <1>3. /\ at[i] \in HeadsOf(k) /\ HeadRec(k, at[i]) \in VersionRecords(k)
        /\ HeadRec(k, at[i]) \notin DoneRecords(k, at, i)
    BY <1>2, HeadFresh
  <1>4. RecordUntouched(k, m, HeadRec(k, at[i]))
    BY <1>1, <1>3 DEF VersionSoFar
  <1> DEFINE g == Piece(k, m, w.off, TableBytes(k, HeadFields(k)))
             E == DoneRecords(k, at, i) \cup {HeadRec(k, at[i])}
  <1>5. VersionSoFar(k, g, E)
    <2>1. RefHead(k) = HeadFields(k)
      BY VersionSays, VersionSizes
    <2>2. HeadRec(k, at[i]).at = w.off /\ HeadRec(k, at[i]).fields = HeadFields(k)
      BY <1>2, <2>1 DEF HeadRec
    <2>3. VersionSoFar(k, Piece(k, m, HeadRec(k, at[i]).at, TableBytes(k, HeadRec(k, at[i]).fields)), E)
      BY <1>1, <1>3, VersionForward
    <2> QED BY <2>2, <2>3
  <1> HIDE DEF g
  <1>6. ASSUME NEW v, v.off = w.off, v.next = HeadLink(k, w.off), v.aoff = AuxStart(k, w.off),
               v.cnt = AuxCount(k, w.off), v.anext # 0
        PROVE  AuxSoFar(k, g, v)
    <2>1. PICK aat : AuxPlaces(k, w.off, aat)
      BY <1>2, AuxChain
    <2>2. AuxCount(k, w.off) \in Nat /\ AuxesMost(k, w.off) \in Nat /\ k.size \in Nat
      BY <1>2, VersionSays
    <2>3. v.cnt # 0 => 1 \in 1 .. AuxesMost(k, w.off)
      <3>1. k.size \div 8 + 1 \in Nat \ {0}
        BY <2>2
      <3> QED BY <1>6, <2>2, <3>1 DEF AuxesMost, Least
    <2>4. AuxesMost(k, w.off) # 0 => aat[1] = AuxStart(k, w.off)
      BY <2>1 DEF AuxPlaces, Chained, Follows
    <2>5. AtAux(k, v, at, i, aat, 1)
      <3>1. OnHead(k, v, at, i)
        BY <1>2, <1>6 DEF OnHead
      <3>2. Behind(aat, AuxIn(k), AuxesMost(k, v.off), 1)
        BY DEF Behind
      <3>3. v.cnt \in Nat /\ v.cnt + 1 = AuxCount(k, v.off) + 1
        BY <1>6, <2>2
      <3>4. v.anext # 0 /\ v.cnt # 0 => 1 \in 1 .. AuxesMost(k, v.off) /\ v.aoff = aat[1]
        BY <1>6, <2>2, <2>3, <2>4
      <3> QED BY <1>6, <2>1, <3>1, <3>2, <3>3, <3>4 DEF AtAux
    <2>6. AuxDone(k, at, i, aat, 1) = E
      BY DEF AuxDone
    <2>7. VersionSoFar(k, g, AuxDone(k, at, i, aat, 1))
      BY <1>5, <2>6
    <2> QED BY <2>5, <2>7 DEF AuxSoFar
  <1>7. /\ AuxOf(k, m, k.sb + w.off) = HeadSays(k, w.off, "vd_aux", "vn_aux")
        /\ CntOf(k, m, k.sb + w.off) = AuxCount(k, w.off)
        /\ NextOf(k, m, k.sb + w.off) = HeadLink(k, w.off)
        /\ VersionOf(k, m, k.sb + w.off) = HeadSays(k, w.off, "vd_version", "vn_version")
    BY <1>2, <1>3, <1>4, HeadReadsRight
  <1> QED BY <1>2, <1>3, <1>6, <1>7 DEF HeadTaken, g

\* An auxiliary record that is there is read right, and converted; when its
\* link is 0 it was the last.
Further(k, w, v) ==
    /\ v.off = w.off /\ v.next = w.next /\ v.cnt = w.cnt - 1
    /\ v.aoff = w.aoff + AuxLink(k, w.aoff)
    /\ IF k.lib = "lib" THEN v.anext = w.anext /\ AuxLink(k, w.aoff) # 0
       ELSE v.anext = AuxLink(k, w.aoff)
AuxTaken(k, m, w) ==
    LET g == Piece(k, m, w.aoff, TableBytes(k, AuxFields(k)))
    IN  /\ w.off \in HeadsOf(k) /\ w.aoff \in AuxesOf(k, w.off)
        /\ AuxNextOf(k, m, k.sb + w.aoff) = AuxLink(k, w.aoff)
        /\ \A v : Further(k, w, v) => AuxSoFar(k, g, v)
        /\ AuxLink(k, w.aoff) = 0 => AuxesSoFar(k, g, w)

\* The chain of a head has ended before the j-th place.
LEMMA AuxesEnd ==
  ASSUME NEW k, VersionCall(k), NEW m, NEW w, NEW at, NEW i, NEW aat, NEW j, OnHead(k, w, at, i),
         AuxPlaces(k, w.off, aat), Behind(aat, AuxIn(k), AuxesMost(k, w.off), j),
         j \in 1 .. AuxesMost(k, w.off) => aat[j] \notin AuxIn(k)
  PROVE  /\ AuxesOf(k, w.off) = {aat[l] : l \in 1 .. j - 1}
         /\ VersionSoFar(k, m, AuxDone(k, at, i, aat, j)) => AuxesSoFar(k, m, w)
  <1>1. w.off = at[i] /\ w.off \in HeadIn(k) /\ i \in 1 .. HeadsMost(k) /\ HeadsMost(k) \in Nat
    BY VersionSays DEF OnHead
  <1>2. AuxesMost(k, w.off) \in Nat
    BY <1>1, VersionSays
  <1>3. AuxesOf(k, w.off) = {aat[l] : l \in 1 .. j - 1}
    <2>1. /\ Chained(aat, AuxStart(k, w.off), AuxIn(k), AuxNext(k), AuxesMost(k, w.off))
          /\ AuxesOf(k, w.off) = {aat[l] : l \in {c \in 1 .. AuxesMost(k, w.off) : aat[c] \in AuxIn(k)}}
      BY DEF AuxPlaces
    <2>2. PICK most, in, first, nxt :
             most = AuxesMost(k, w.off) /\ in = AuxIn(k) /\ first = AuxStart(k, w.off) /\ nxt = AuxNext(k)
      OBVIOUS
    <2>3. /\ most \in Nat /\ Chained(aat, first, in, nxt, most) /\ Behind(aat, in, most, j)
          /\ j \in 1 .. most => aat[j] \notin in
      BY <1>2, <2>1, <2>2
    <2>4. EndsBefore(aat, in, most, j)
      BY ONLY <2>3, ChainEnds
    <2> QED BY <2>1, <2>2, <2>4 DEF EndsBefore
  <1>4. AuxDone(k, at, i, aat, j) = DoneRecords(k, at, i + 1)
    <2>1. 1 .. (i + 1) - 1 = (1 .. i - 1) \cup {i}
      BY <1>1
    <2>2. {HeadRec(k, at[l]) : l \in 1 .. (i + 1) - 1} = {HeadRec(k, at[l]) : l \in 1 .. i - 1} \cup {HeadRec(k, at[i])}
      BY <2>1
    <2> DEFINE old == UNION {AuxesOf(k, at[l]) : l \in 1 .. i - 1}
               new == {aat[l] : l \in 1 .. j - 1}
    <2>3. UNION {AuxesOf(k, at[l]) : l \in 1 .. (i + 1) - 1} = old \cup new
      BY <1>1, <1>3, <2>1
    <2>4. DoneRecords(k, at, i) = {HeadRec(k, at[l]) : l \in 1 .. i - 1} \cup {AuxRec(k, a) : a \in old}
      BY DEF DoneRecords
    <2>5. DoneRecords(k, at, i + 1) = {HeadRec(k, at[l]) : l \in 1 .. (i + 1) - 1} \cup {AuxRec(k, a) : a \in old \cup new}
      BY <2>3 DEF DoneRecords
    <2>6. {AuxRec(k, aat[l]) : l \in 1 .. j - 1} = {AuxRec(k, a) : a \in new}
      OBVIOUS
    <2> HIDE DEF old, new
    <2>7. {AuxRec(k, a) : a \in old \cup new} = {AuxRec(k, a) : a \in old} \cup {AuxRec(k, a) : a \in new}
      OBVIOUS
    <2> QED BY <2>2, <2>4, <2>5, <2>6, <2>7 DEF AuxDone
  <1> QED BY <1>3, <1>4 DEF AuxesSoFar

LEMMA AuxForward ==
  ASSUME NEW k, VersionGoes(k), NEW m, Kept(k, m), NEW w, AuxSoFar(k, m, w), w.cnt # 0, w.anext # 0,
         w.aoff \in Nat, w.aoff + AuxSize(k) <= k.size
  PROVE  AuxTaken(k, m, w)
  <1> USE DEF VersionGoes
  <1>1. PICK at, i, aat, j : AtAux(k, w, at, i, aat, j) /\ VersionSoFar(k, m, AuxDone(k, at, i, aat, j))
    BY DEF AuxSoFar
  <1>2. /\ OnHead(k, w, at, i) /\ HeadPlaces(k, at) /\ i \in 1 .. HeadsMost(k) /\ at[i] \in HeadIn(k) /\ w.off = at[i]
        /\ AuxPlaces(k, w.off, aat) /\ Behind(aat, AuxIn(k), AuxesMost(k, w.off), j)
        /\ j \in 1 .. AuxesMost(k, w.off) /\ w.aoff = aat[j] /\ aat[j] \in AuxIn(k)
        /\ w.cnt \in Nat /\ w.cnt + j = AuxCount(k, w.off) + 1
    BY <1>1 DEF AtAux, OnHead, AuxIn
  <1>3. /\ aat[j] \in AuxesOf(k, w.off) /\ AuxRec(k, aat[j]) \in VersionRecords(k)
        /\ AuxRec(k, aat[j]) \notin AuxDone(k, at, i, aat, j) /\ w.off \in HeadsOf(k)
    BY <1>2, AuxFresh, HeadFresh
  <1>4. AuxNextOf(k, m, k.sb + w.aoff) = AuxLink(k, w.aoff)
    <2>1. RecordUntouched(k, m, AuxRec(k, aat[j]))
      BY <1>1, <1>3 DEF VersionSoFar
    <2> QED BY <1>2, <1>3, <2>1, AuxReadsRight
  <1> DEFINE g == Piece(k, m, w.aoff, TableBytes(k, AuxFields(k)))
  <1>5. VersionSoFar(k, g, AuxDone(k, at, i, aat, j + 1))
    <2> DEFINE E == AuxDone(k, at, i, aat, j) \cup {AuxRec(k, aat[j])}
    <2>1. RefAux(k) = AuxFields(k)
      BY VersionSays, VersionSizes
    <2>2. AuxRec(k, aat[j]).at = w.aoff /\ AuxRec(k, aat[j]).fields = AuxFields(k)
      BY <1>2, <2>1 DEF AuxRec
    <2>3. VersionSoFar(k, Piece(k, m, AuxRec(k, aat[j]).at, TableBytes(k, AuxRec(k, aat[j]).fields)), E)
      BY <1>1, <1>3, VersionForward
    <2>4. AuxDone(k, at, i, aat, j + 1) = E
      <3>1. 1 .. (j + 1) - 1 = (1 .. j - 1) \cup {j}
        BY <1>2
      <3>2. {AuxRec(k, aat[l]) : l \in 1 .. (j + 1) - 1} = {AuxRec(k, aat[l]) : l \in 1 .. j - 1} \cup {AuxRec(k, aat[j])}
        BY <3>1
      <3> QED BY <3>2 DEF AuxDone
    <2> QED BY <2>2, <2>3, <2>4
  <1> HIDE DEF g
  <1>6. AuxCount(k, w.off) \in Nat /\ AuxesMost(k, w.off) \in Nat /\ AuxLink(k, w.aoff) \in Nat /\ Huge \in Nat
    BY <1>2, VersionSays
  <1>7. Behind(aat, AuxIn(k), AuxesMost(k, w.off), j + 1)
    BY <1>2, <1>6, BehindNext
  <1>8. j + 1 \in 1 .. AuxesMost(k, w.off) =>
          aat[j + 1] = IF AuxLink(k, w.aoff) # 0 THEN w.aoff + AuxLink(k, w.aoff) ELSE Huge
    <2> HAVE j + 1 \in 1 .. AuxesMost(k, w.off)
    <2>1. j + 1 \in 2 .. AuxesMost(k, w.off) /\ (j + 1) - 1 = j
      BY <1>2, <1>6
    <2>2. aat[j + 1] = AuxNext(k)[aat[j]]
      BY <1>2, <2>1 DEF AuxPlaces, Chained, Follows
    <2>3. w.aoff \in Nat /\ w.aoff \in AuxIn(k)
      BY <1>2
    <2> QED BY <1>2, <2>2, <2>3 DEF AuxNext
  <1>9. ASSUME NEW v, Further(k, w, v) PROVE AuxSoFar(k, g, v)
    <2>1. /\ v.off = w.off /\ v.next = w.next /\ v.cnt = w.cnt - 1 /\ v.aoff = w.aoff + AuxLink(k, w.aoff)
          /\ k.lib = "lib" => v.anext # 0 /\ AuxLink(k, w.aoff) # 0
          /\ k.lib # "lib" => v.anext = AuxLink(k, w.aoff)
      BY <1>9 DEF Further
    <2>2. OnHead(k, v, at, i)
      BY <1>2, <2>1 DEF OnHead
    <2>3. v.cnt \in Nat /\ v.cnt + (j + 1) = AuxCount(k, v.off) + 1
      BY <1>2, <1>6, <2>1
    <2>4. v.anext # 0 /\ v.cnt # 0 => j + 1 \in 1 .. AuxesMost(k, v.off) /\ v.aoff = aat[j + 1]
      <3> HAVE v.anext # 0 /\ v.cnt # 0
      <3>1. AuxLink(k, w.aoff) # 0 /\ j < AuxCount(k, w.off)
        BY <1>2, <1>6, <2>1, <2>3
      <3>2. j + 1 \in 1 .. AuxesMost(k, w.off)
        BY <1>2, <1>3, <3>1, AuxesApart
      <3> QED BY <1>8, <2>1, <3>1, <3>2
    <2>5. j + 1 # 1 /\ (j + 1) - 1 = j
      BY <1>2, <1>6
    <2>6. AtAux(k, v, at, i, aat, j + 1)
      BY <1>2, <1>7, <2>1, <2>2, <2>3, <2>4, <2>5 DEF AtAux
    <2> QED BY <1>5, <2>6 DEF AuxSoFar
  <1>10. AuxLink(k, w.aoff) = 0 => AuxesSoFar(k, g, w)
    <2> HAVE AuxLink(k, w.aoff) = 0
    <2>1. Huge \notin AuxIn(k)
      <3>1. k.size \in Nat /\ k.size <= Huge /\ AuxSize(k) >= 8 /\ AuxSize(k) \in Nat
        BY VersionSays, VersionSizes
      <3> QED BY <1>6, <3>1 DEF AuxIn
    <2>2. j + 1 \in 1 .. AuxesMost(k, w.off) => aat[j + 1] \notin AuxIn(k)
      BY <1>8, <2>1
    <2> QED BY <1>2, <1>5, <1>7, <2>2, AuxesEnd
  <1> QED BY <1>2, <1>3, <1>4, <1>9, <1>10 DEF AuxTaken, g

\* Behind the auxiliary records of a head the next head follows, or none.
LEMMA HeadOnward ==
  ASSUME NEW k, VersionGoes(k), NEW m, NEW w, AuxesSoFar(k, m, w), w.off \in Nat, w.next \in Nat,
         k.lib = "lib" => w.next # 0, NEW v, v.off = w.off + w.next, v.next = w.next
  PROVE  HeadSoFar(k, m, v)
  <1> USE DEF VersionGoes
  <1>1. PICK at, i : OnHead(k, w, at, i) /\ VersionSoFar(k, m, DoneRecords(k, at, i + 1))
    BY DEF AuxesSoFar
  <1>2. /\ HeadPlaces(k, at) /\ Behind(at, HeadIn(k), HeadsMost(k), i) /\ i \in 1 .. HeadsMost(k)
        /\ at[i] \in HeadIn(k) /\ w.off = at[i] /\ w.next = HeadLink(k, at[i]) /\ HeadsMost(k) \in Nat
    BY <1>1, VersionSays DEF OnHead
  <1>3. i + 1 \in 1 .. HeadsMost(k) /\ i \in Nat \ {0}
    BY <1>2, HeadsApart
  <1>4. w.next # 0 => v.off = at[i + 1]
    <2>1. i + 1 \in 2 .. HeadsMost(k) /\ (i + 1) - 1 = i
      BY <1>2, <1>3
    <2>2. at[i + 1] = HeadNext(k)[at[i]]
      BY <1>2, <2>1 DEF HeadPlaces, Chained, Follows
    <2> QED BY <1>2, <2>2 DEF HeadNext
  <1>5. Behind(at, HeadIn(k), HeadsMost(k), i + 1)
    BY <1>2, BehindNext
  <1>6. i + 1 # 1 /\ (i + 1) - 1 = i
    BY <1>3
  <1>7. AtHead(k, v, at, i + 1)
    BY <1>2, <1>3, <1>4, <1>5, <1>6 DEF AtHead
  <1> QED BY <1>1, <1>7 DEF HeadSoFar

LEMMA AuxesEnded ==
  ASSUME NEW k, VersionCall(k), NEW m, NEW w, AuxSoFar(k, m, w),
         w.cnt = 0 \/ (w.anext # 0 /\ ~(w.aoff + AuxSize(k) <= k.size))
  PROVE  AuxesSoFar(k, m, w)
  <1>1. PICK at, i, aat, j : AtAux(k, w, at, i, aat, j) /\ VersionSoFar(k, m, AuxDone(k, at, i, aat, j))
    BY DEF AuxSoFar
  <1>2. /\ OnHead(k, w, at, i) /\ at[i] \in HeadIn(k) /\ w.off = at[i]
        /\ AuxPlaces(k, w.off, aat) /\ Behind(aat, AuxIn(k), AuxesMost(k, w.off), j)
        /\ w.cnt \in Nat /\ w.cnt + j = AuxCount(k, w.off) + 1
    BY <1>1 DEF AtAux, OnHead
  <1>3. j \in 1 .. AuxesMost(k, w.off) => aat[j] \notin AuxIn(k)
    <2>1. CASE w.cnt = 0
      <3>1. AuxCount(k, w.off) \in Nat /\ k.size \div 8 + 1 \in Nat /\ j \in Nat
        BY <1>2, VersionSays DEF Behind
      <3>2. j = AuxCount(k, w.off) + 1
        BY <1>2, <2>1, <3>1
      <3>3. j \notin 1 .. AuxesMost(k, w.off)
        BY <3>1, <3>2 DEF AuxesMost, Least
      <3> QED BY <3>3
    <2>2. CASE w.cnt # 0
      <3>1. j \in 1 .. AuxesMost(k, w.off) => w.aoff = aat[j]
        BY <1>1, <2>2 DEF AtAux
      <3> QED BY <2>2, <3>1 DEF AuxIn
    <2> QED BY <2>1, <2>2
  <1> QED BY <1>1, <1>2, <1>3, AuxesEnd

\* The heads have ended before the i-th place.
LEMMA HeadsEnd ==
  ASSUME NEW k, VersionCall(k), NEW m, NEW at, NEW i, HeadPlaces(k, at),
         Behind(at, HeadIn(k), HeadsMost(k), i), i \in 1 .. HeadsMost(k) => at[i] \notin HeadIn(k),
         VersionSoFar(k, m, DoneRecords(k, at, i))
  PROVE  AsExpected(k, m)
  <1>1. HeadsOf(k) = {at[l] : l \in 1 .. i - 1}
    <2>1. /\ Chained(at, 0, HeadIn(k), HeadNext(k), HeadsMost(k))
          /\ HeadsOf(k) = {at[l] : l \in {c \in 1 .. HeadsMost(k) : at[c] \in HeadIn(k)}}
          /\ HeadsMost(k) \in Nat
      BY VersionSays DEF HeadPlaces
    <2>2. PICK most, in, first, nxt : most = HeadsMost(k) /\ in = HeadIn(k) /\ first = 0 /\ nxt = HeadNext(k)
      OBVIOUS
    <2>3. /\ most \in Nat /\ Chained(at, first, in, nxt, most) /\ Behind(at, in, most, i)
          /\ i \in 1 .. most => at[i] \notin in
      BY <2>1, <2>2
    <2>4. EndsBefore(at, in, most, i)
      BY ONLY <2>3, ChainEnds
    <2> QED BY <2>1, <2>2, <2>4 DEF EndsBefore
  <1> DEFINE auxes == UNION {AuxesOf(k, h) : h \in HeadsOf(k)}
  <1>2. auxes = UNION {AuxesOf(k, at[l]) : l \in 1 .. i - 1}
    BY <1>1
  <1>3. {[at |-> h, fields |-> RefHead(k)] : h \in HeadsOf(k)} \subseteq {HeadRec(k, at[l]) : l \in 1 .. i - 1}
    BY <1>1 DEF HeadRec
  <1>4. VersionRecords(k) = {[at |-> h, fields |-> RefHead(k)] : h \in HeadsOf(k)}
                              \cup {[at |-> a, fields |-> RefAux(k)] : a \in auxes}
    BY DEF VersionRecords
  <1>5. DoneRecords(k, at, i) = {HeadRec(k, at[l]) : l \in 1 .. i - 1} \cup {AuxRec(k, a) : a \in auxes}
    BY <1>2 DEF DoneRecords
  <1> HIDE DEF auxes
  <1>6. {[at |-> a, fields |-> RefAux(k)] : a \in auxes} = {AuxRec(k, a) : a \in auxes}
    BY DEF AuxRec
  <1>7. VersionRecords(k) \subseteq DoneRecords(k, at, i)
    BY <1>3, <1>4, <1>5, <1>6
  <1> QED BY <1>7, VersionsAsExpected

LEMMA NoLinkNoPlace ==
  ASSUME NEW k, VersionCall(k), NEW at, HeadPlaces(k, at), NEW i \in 2 .. HeadsMost(k),
         HeadLink(k, at[i - 1]) = 0
  PROVE  at[i] \notin HeadIn(k)
  <1>1. at[i] = HeadNext(k)[at[i - 1]] /\ i - 1 \in 1 .. HeadsMost(k)
    BY VersionSays DEF HeadPlaces, Chained, Follows
  <1>2. at[i - 1] \in Nat
    BY <1>1 DEF HeadPlaces, Chained, Follows
  <1>3. at[i] = Huge
    BY <1>1, <1>2 DEF HeadNext
  <1>4. k.size \in Nat /\ Huge \in Nat /\ k.size <= Huge /\ HeadSize(k) >= 16 /\ HeadSize(k) \in Nat
    BY VersionSays, VersionSizes
  <1> QED BY <1>3, <1>4 DEF HeadIn

LEMMA HeadsDone ==
  ASSUME NEW k, VersionCall(k), NEW m, NEW w, HeadSoFar(k, m, w),
         w.next = 0 \/ ~(w.off + HeadSize(k) <= k.size)
  PROVE  AsExpected(k, m)
  <1>1. PICK at, i : AtHead(k, w, at, i) /\ VersionSoFar(k, m, DoneRecords(k, at, i))
    BY DEF HeadSoFar
  <1>2. HeadPlaces(k, at) /\ Behind(at, HeadIn(k), HeadsMost(k), i) /\ i \in Nat \ {0}
    BY <1>1 DEF AtHead, Behind
  <1>3. i \in 1 .. HeadsMost(k) => at[i] \notin HeadIn(k)
    <2> HAVE i \in 1 .. HeadsMost(k)
    <2>1. CASE w.next # 0
      BY <1>1, <2>1 DEF AtHead, HeadIn
    <2>2. CASE w.next = 0
      <3>1. i # 1 /\ HeadLink(k, at[i - 1]) = 0
        BY <1>1, <2>2 DEF AtHead
      <3>2. i \in 2 .. HeadsMost(k)
        BY <3>1
      <3> QED BY <1>2, <3>1, <3>2, NoLinkNoPlace
    <2> QED BY <2>1, <2>2
  <1> QED BY <1>1, <1>2, <1>3, HeadsEnd

LEMMA LastHead ==
  ASSUME NEW k, VersionCall(k), NEW m, NEW w, AuxesSoFar(k, m, w), w.next = 0
  PROVE  AsExpected(k, m)
  <1>1. PICK at, i : OnHead(k, w, at, i) /\ VersionSoFar(k, m, DoneRecords(k, at, i + 1))
    BY DEF AuxesSoFar
  <1>2. /\ HeadPlaces(k, at) /\ Behind(at, HeadIn(k), HeadsMost(k), i) /\ i \in 1 .. HeadsMost(k)
        /\ at[i] \in HeadIn(k) /\ HeadLink(k, at[i]) = 0 /\ HeadsMost(k) \in Nat
    BY <1>1, VersionSays DEF OnHead
  <1>3. Behind(at, HeadIn(k), HeadsMost(k), i + 1)
    BY <1>2, BehindNext
  <1>4. i + 1 \in 1 .. HeadsMost(k) => at[i + 1] \notin HeadIn(k)
    <2> HAVE i + 1 \in 1 .. HeadsMost(k)
    <2>1. i + 1 \in 2 .. HeadsMost(k) /\ (i + 1) - 1 = i
      BY <1>2
    <2> QED BY <1>2, <2>1, NoLinkNoPlace
  <1> QED BY <1>1, <1>2, <1>3, <1>4, HeadsEnd

-----------------------------------------------------------------------------
\* A version table that is refused is not whole.
LEMMA WholeHeadsEnd ==
  ASSUME NEW k, VersionCall(k), WholeVersions(k), NEW m, NEW w, HeadSoFar(k, m, w), w.next # 0
  PROVE  w.off + HeadSize(k) <= k.size
  <1>1. PICK at, i : AtHead(k, w, at, i)
    BY DEF HeadSoFar
  <1>2. /\ HeadPlaces(k, at) /\ Behind(at, HeadIn(k), HeadsMost(k), i) /\ i \in 1 .. HeadsMost(k)
        /\ w.off = at[i] /\ HeadsMost(k) \in Nat \ {0} /\ (i # 1 => w.next = HeadLink(k, at[i - 1]))
    BY <1>1, VersionSays DEF AtHead
  <1>3. at[i] \in HeadIn(k)
    <2>1. CASE i = 1
      <3>1. at[1] = 0
        BY <1>2 DEF HeadPlaces, Chained, Follows
      <3>2. 0 \in HeadIn(k)
        BY VersionRecordsFact DEF WholeVersions
      <3> QED BY <2>1, <3>1, <3>2
    <2>2. CASE i # 1
      <3>1. i \in 2 .. HeadsMost(k) /\ i - 1 \in 1 .. i - 1 /\ i - 1 \in 1 .. HeadsMost(k)
        BY <1>2, <2>2
      <3>2. at[i - 1] \in HeadIn(k)
        BY <1>2, <3>1 DEF Behind
      <3>3. at[i - 1] \in HeadsOf(k)
        BY <1>2, <3>1, <3>2 DEF HeadPlaces
      <3>4. at[i - 1] + w.next \in HeadsOf(k)
        BY <1>2, <2>2, <3>3 DEF WholeVersions, HeadLink
      <3>5. at[i] = HeadNext(k)[at[i - 1]] /\ at[i - 1] \in Nat
        BY <1>2, <3>1 DEF HeadPlaces, Chained, Follows
      <3>6. at[i] = at[i - 1] + w.next
        BY <1>2, <2>2, <3>2, <3>5 DEF HeadNext
      <3> QED BY <3>4, <3>6, VersionRecordsFact
    <2> QED BY <2>1, <2>2
  <1> QED BY <1>2, <1>3 DEF HeadIn

LEMMA WholeHead ==
  ASSUME NEW k, VersionCall(k), WholeVersions(k), NEW h \in HeadsOf(k)
  PROVE  /\ HeadSays(k, h, "vd_aux", "vn_aux") >= HeadSize(k)
         /\ HeadSays(k, h, "vd_version", "vn_version") = 1
         /\ AuxCount(k, h) >= 1
         /\ h % 4 = 0 /\ \A a \in AuxesOf(k, h) : a % 4 = 0
  <1>1. /\ HeadSays(k, h, "vd_aux", "vn_aux") >= HeadSize(k)
        /\ HeadSays(k, h, "vd_version", "vn_version") = 1
        /\ AuxesOf(k, h) # {}
        /\ \A x \in VersionRecords(k) : x.at % 4 = 0
    BY DEF WholeVersions
  <1>2. h % 4 = 0 /\ \A a \in AuxesOf(k, h) : a % 4 = 0
    <2>1. HeadRec(k, h) \in VersionRecords(k) /\ \A a \in AuxesOf(k, h) : AuxRec(k, a) \in VersionRecords(k)
      BY VersionRecordsFact
    <2>2. HeadRec(k, h).at = h /\ \A a : AuxRec(k, a).at = a
      BY DEF HeadRec, AuxRec
    <2> QED BY <1>1, <2>1, <2>2
  <1>3. AuxCount(k, h) >= 1
    <2>1. h \in HeadIn(k)
      BY VersionRecordsFact
    <2>2. AuxCount(k, h) \in Nat /\ k.size \div 8 + 1 \in Nat
      BY <2>1, VersionSays
    <2>3. PICK at : AuxPlaces(k, h, at)
      BY <2>1, AuxChain
    <2>4. AuxesMost(k, h) # 0
      BY <1>1, <2>3 DEF AuxPlaces
    <2> QED BY <2>2, <2>4 DEF AuxesMost, Least
  <1> QED BY <1>1, <1>2, <1>3

LEMMA FewPlaces ==
  ASSUME NEW n \in Nat, NEW at
  PROVE  Cardinality({at[l] : l \in 1 .. n}) <= n
  <1> DEFINE S == 1 .. n
             T == {at[l] : l \in S}
             f == [l \in S |-> at[l]]
  <1>1. IsFiniteSet(S) /\ Cardinality(S) = n
    <2>1. 1 \in Int /\ n \in Int
      OBVIOUS
    <2>2. IsFiniteSet(1 .. n) /\ Cardinality(1 .. n) = IF 1 > n THEN 0 ELSE n - 1 + 1
      BY ONLY <2>1, FS_Interval
    <2> QED BY <2>2
  <1>2. f \in Surjection(S, T)
    BY DEF Surjection
  <1>3. IsFiniteSet(T) /\ Cardinality(T) <= Cardinality(S)
    <2> HIDE DEF S, T, f
    <2> QED BY ONLY <1>1, <1>2, FS_Surjection
  <1> QED BY <1>1, <1>3

LEMMA WholeAuxesEnd ==
  ASSUME NEW k, VersionCall(k), WholeVersions(k), k.lib # "lib", NEW m, NEW w, AuxSoFar(k, m, w),
         w.cnt = 0 \/ w.anext = 0 \/ ~(w.aoff + AuxSize(k) <= k.size)
  PROVE  w.cnt = 0 /\ w.anext = 0
  <1>1. PICK at, i, aat, j : AtAux(k, w, at, i, aat, j)
    BY DEF AuxSoFar
  <1> DEFINE h == w.off
             most == AuxesMost(k, h)
  <1>2. /\ OnHead(k, w, at, i) /\ h = at[i] /\ h \in HeadIn(k) /\ HeadPlaces(k, at) /\ i \in 1 .. HeadsMost(k)
        /\ AuxPlaces(k, h, aat) /\ Behind(aat, AuxIn(k), most, j) /\ j \in Nat \ {0}
        /\ w.cnt \in Nat /\ w.cnt + j = AuxCount(k, h) + 1
        /\ w.anext # 0 /\ w.cnt # 0 => j \in 1 .. most /\ w.aoff = aat[j]
        /\ (j = 1 => w.anext # 0) /\ (j # 1 => w.anext = AuxLink(k, aat[j - 1]))
    BY <1>1 DEF AtAux, OnHead, Behind
  <1>3. h \in HeadsOf(k)
    BY <1>2 DEF HeadPlaces
  <1>4. /\ AuxCount(k, h) = Cardinality(AuxesOf(k, h))
        /\ \E a \in AuxesOf(k, h) : AuxLink(k, a) = 0
    BY <1>3 DEF WholeVersions, AuxCount, AuxLink
  <1>5. most \in Nat /\ AuxCount(k, h) \in Nat /\ AuxCount(k, h) >= 1 /\ k.size \div 8 + 1 \in Nat
    BY <1>2, <1>3, VersionSays, WholeHead
  <1>6. ASSUME j \in 1 .. most, j # 1, AuxLink(k, aat[j - 1]) = 0 PROVE aat[j] \notin AuxIn(k)
    <2>1. j \in 2 .. most /\ j - 1 \in 1 .. most
      BY <1>5, <1>6
    <2>2. aat[j] = AuxNext(k)[aat[j - 1]] /\ aat[j - 1] \in Nat
      BY <1>2, <2>1 DEF AuxPlaces, Chained, Follows
    <2>3. aat[j] = Huge
      BY <1>6, <2>2 DEF AuxNext
    <2>4. k.size \in Nat /\ Huge \in Nat /\ k.size <= Huge /\ AuxSize(k) >= 8 /\ AuxSize(k) \in Nat
      BY VersionSays, VersionSizes
    <2> QED BY <2>3, <2>4 DEF AuxIn
  <1>7. w.cnt = 0
    <2> SUFFICES ASSUME w.cnt # 0 PROVE FALSE
      OBVIOUS
    <2>1. j \in 1 .. most => aat[j] \notin AuxIn(k)
      <3> HAVE j \in 1 .. most
      <3>1. CASE w.anext = 0
        BY <1>2, <1>6, <3>1
      <3>2. CASE w.anext # 0
        BY <1>2, <3>2 DEF AuxIn
      <3> QED BY <3>1, <3>2
    <2>2. /\ AuxesOf(k, w.off) = {aat[l] : l \in 1 .. j - 1}
          /\ VersionSoFar(k, m, AuxDone(k, at, i, aat, j)) => AuxesSoFar(k, m, w)
      BY <1>2, <2>1, AuxesEnd
    <2>3. Cardinality({aat[l] : l \in 1 .. j - 1}) <= j - 1
      <3>1. PICK n : n = j - 1
        OBVIOUS
      <3>2. n \in Nat
        BY <1>2, <3>1
      <3>3. Cardinality({aat[l] : l \in 1 .. n}) <= n
        BY <3>2, FewPlaces
      <3> QED BY <3>1, <3>3
    <2>4. AuxCount(k, h) <= j - 1
      BY <1>4, <2>2, <2>3
    <2> QED BY <1>2, <1>5, <2>4
  <1>8. w.anext = 0
    <2> SUFFICES ASSUME w.anext # 0 PROVE FALSE
      OBVIOUS
    <2>1. j = AuxCount(k, h) + 1 /\ j # 1
      BY <1>2, <1>5, <1>7
    <2>2. j \notin 1 .. most
      BY <1>5, <2>1 DEF AuxesMost, Least
    <2>3. /\ AuxesOf(k, w.off) = {aat[l] : l \in 1 .. j - 1}
          /\ VersionSoFar(k, m, AuxDone(k, at, i, aat, j)) => AuxesSoFar(k, m, w)
      BY <1>2, <2>2, AuxesEnd
    <2>4. PICK l \in 1 .. j - 1 : AuxLink(k, aat[l]) = 0
      BY <1>4, <2>3
    <2>5. l # j - 1
      BY <1>2, <2>1, <2>4
    <2>6. l + 1 \in 1 .. j - 1 /\ l + 1 \in 2 .. most /\ (l + 1) - 1 = l /\ l \in 1 .. most
      <3>1. l + 1 \in 1 .. j - 1
        BY <1>2, <2>4, <2>5
      <3>2. l + 1 \in 1 .. most
        BY <1>2, <3>1 DEF Behind
      <3> QED BY <1>5, <2>4, <3>1, <3>2
    <2>7. aat[l + 1] = AuxNext(k)[aat[l]] /\ aat[l] \in Nat
      BY <1>2, <2>6 DEF AuxPlaces, Chained, Follows
    <2>8. aat[l + 1] = Huge
      BY <2>4, <2>7 DEF AuxNext
    <2>9. aat[l + 1] \in AuxIn(k)
      BY <1>2, <2>6 DEF Behind
    <2>10. k.size \in Nat /\ Huge \in Nat /\ k.size <= Huge /\ AuxSize(k) >= 8 /\ AuxSize(k) \in Nat
      BY VersionSays, VersionSizes
    <2> QED BY <2>8, <2>9, <2>10 DEF AuxIn
  <1> QED BY <1>7, <1>8

-----------------------------------------------------------------------------
(***************************************************************************)
(* The whole of a call.                                                    *)
(***************************************************************************)
\* When the destination is described, and that only an accepted call succeeds.
Told == dst = [d_type |-> call.type, d_size |-> Need(call)]
Answers ==
    /\ ok => pc = "done" /\ Accepts(call) /\ Told
    /\ call.lib = "elftoolchain" /\ Accepts(call) /\ pc # "called" => Told

LEMMA AnswersNext ==
  ASSUME CallInv, Answers, [Next]_vars
  PROVE  Answers'
  <1>0. call \in Calls /\ call.lib \in {"lib", "elftoolchain"}
    BY CallFact DEF CallInv
  <1>1. CASE UNCHANGED vars \/ Answered
    BY <1>1 DEF Answered, vars, Answers, Told
  <1>2. CASE Refuse
    BY <1>2 DEF Refuse, Return, Answers, Told
  <1>3. CASE Accept
    BY <1>0, <1>3 DEF Accept, Return, Described, Answers, Told
  <1>4. ASSUME Going, call' = call, pc' # "called", dst' = dst \/ Told', ok' => pc' = "done" /\ Told',
               call.lib = "elftoolchain" => dst' = dst
        PROVE  Answers'
    <2>1. Accepts(call)
      BY <1>4, GoingFact
    <2>2. call.lib = "elftoolchain" => Told
      BY <1>4, <2>1 DEF Answers, Going
    <2> QED BY <1>4, <2>1, <2>2 DEF Answers, Told
  <1>5. ASSUME Going PROVE ~ok /\ (call.lib = "elftoolchain" => Told)
    <2>1. Accepts(call)
      BY <1>5, GoingFact
    <2> QED BY <1>5, <2>1 DEF Answers, Going
  <1>6. CASE CopyAtOnce
    <2>1. Going /\ call' = call /\ pc' = "done"
      BY <1>6 DEF CopyAtOnce, Return, Going
    <2>2. IF call.lib = "lib" THEN Told' ELSE dst' = dst
      BY <1>6 DEF CopyAtOnce, Described, Told
    <2> QED BY <1>0, <1>4, <1>5, <2>1, <2>2 DEF Told
  <1>7. CASE ConvertRecord
    <2>1. Going /\ call' = call /\ pc' # "called" /\ dst' = dst /\ call.lib = "elftoolchain"
          /\ (ok' = ok \/ pc' = "done")
      BY <1>7 DEF ConvertRecord, Return, Going
    <2> QED BY <1>4, <1>5, <2>1 DEF Told
  <1>8. CASE CopyMember
    <2>1. Going /\ call' = call /\ pc' # "called" /\ call.lib = "lib"
          /\ ((pc' = "done" /\ Told') \/ (ok' = ok /\ dst' = dst))
      BY <1>8 DEF CopyMember, Return, Going, Described, Told
    <2> QED BY <1>4, <1>5, <2>1
  <1>9. CASE CvtHead \/ CvtHeadsEnd \/ CvtAux \/ CvtAuxEnd
    <2>1. Going /\ call' = call /\ pc' # "called" /\ dst' = dst /\ call.lib = "elftoolchain"
          /\ (ok' = ok \/ pc' = "done")
      BY <1>9 DEF CvtHead, CvtHeadsEnd, CvtAux, CvtAuxEnd, Return, Going
    <2> QED BY <1>4, <1>5, <2>1 DEF Told
  <1>10. CASE XltHead \/ XltAuxMisplaced
    <2>1. Going /\ call' = call /\ pc' # "called" /\ dst' = dst /\ ~ok'
      BY <1>5, <1>10 DEF XltHead, XltAuxMisplaced, Return, Going
    <2> QED BY <1>4, <2>1
  <1>11. CASE XltHeadsEnd \/ XltAux \/ XltAuxEnd
    <2>1. Going /\ call' = call /\ pc' # "called" /\ call.lib = "lib"
          /\ ((pc' = "done" /\ Told') \/ (ok' = ok /\ dst' = dst))
      BY <1>11 DEF XltHeadsEnd, XltAux, XltAuxEnd, Onward, Return, Going, Described, Told
    <2> QED BY <1>4, <1>5, <2>1
  <1>12. ASSUME Going, call.type = "NOTE" \/ (call.type = "GNUHASH" /\ call.type \in Walked)
         PROVE  call.lib = "elftoolchain"
    <2>1. Supported(call) /\ call.type \in Walked /\ call.type \notin {"VDEF", "VNEED"}
      BY <1>0, <1>12, GoingFact, AcceptsFact DEF Walked
    <2> QED BY <1>0, <2>1, SupportedFact
  <1>13. CASE CopyNotes \/ SwapNote \/ NotesEnd
    <2>1. Going /\ call' = call /\ pc' # "called" /\ dst' = dst /\ pc = "notes"
          /\ (ok' = ok \/ pc' = "done")
      BY <1>13 DEF CopyNotes, SwapNote, NotesEnd, Return, Going
    <2>2. call.lib = "elftoolchain"
      BY <1>12, <2>1, GoingFact
    <2> QED BY <1>4, <1>5, <2>1, <2>2 DEF Told
  <1>14. CASE ConvertHash
    <2>1. Going /\ call' = call /\ pc' = "done" /\ dst' = dst /\ pc = "hash"
      BY <1>14 DEF ConvertHash, Return, Going
    <2>2. call.lib = "elftoolchain"
      BY <1>12, <2>1, GoingFact
    <2> QED BY <1>4, <1>5, <2>1, <2>2 DEF Told
  <1> QED BY <1>1, <1>2, <1>3, <1>6, <1>7, <1>8, <1>9, <1>10, <1>11, <1>13, <1>14 DEF Next

\* What is translated so far, in every translator.
Safe(k) == Clear(k) /\ (k.type \in {"VDEF", "VNEED"} => Disjoint(k))
NotesGoing ==
    IF call.swap THEN \E at, i : NotePlaces(call, at) /\ NotesSoFar(call, mem, at, i, walk.off)
    ELSE mem = Original(call)
Translating ==
    /\ pc = "called" => walk.off = 0 /\ walk.next = 1
    /\ call.lib = "lib" => walk.anext = 1
    /\ pc = "records" /\ CopiedAtOnce(call) => mem = Original(call)
    /\ pc = "records" /\ call.lib = "lib" /\ ~CopiedAtOnce(call) /\ ~Overlap(call) =>
          LibSoFar(call, mem, done, field)
    /\ pc = "head" /\ VersionGoes(call) => HeadSoFar(call, mem, walk)
    /\ pc = "aux" /\ VersionGoes(call) => AuxSoFar(call, mem, walk)
    /\ pc = "notes" => NotesGoing
    /\ pc = "hash" => mem = Original(call)
    /\ pc = "done" /\ ok /\ Safe(call) => AsExpected(call, mem)
    /\ pc = "done" /\ ~ok /\ Accepts(call) /\ Clear(call) => ~Whole(call)

LEMMA Finish ==
  ASSUME Translating, call' = call, pc' = "done", walk' = walk,
         ok' /\ Safe(call) => AsExpected(call, mem'),
         ~ok' /\ Accepts(call) /\ Clear(call) => ~Whole(call)
  PROVE  Translating'
  BY DEF Translating

LEMMA VersionsGoOn ==
  ASSUME Translating, call' = call, pc' \in {"head", "aux"},
         call.lib = "lib" => walk'.anext = 1,
         pc' = "head" /\ VersionGoes(call) => HeadSoFar(call, mem', walk'),
         pc' = "aux" /\ VersionGoes(call) => AuxSoFar(call, mem', walk')
  PROVE  Translating'
  BY DEF Translating

LEMMA VersionIsSafe ==
  ASSUME NEW k, VersionCall(k), Accepts(k)
  PROVE  /\ Safe(k) => VersionGoes(k)
         /\ Clear(k) /\ Whole(k) => VersionGoes(k) /\ WholeVersions(k)
  <1>1. Clear(k) => ~Overlap(k)
    BY CallFact, NoOverlap DEF Clear, VersionCall
  <1>2. Whole(k) => WholeVersions(k)
    BY DEF Whole, VersionCall
  <1>3. WholeVersions(k) => Disjoint(k)
    BY DEF WholeVersions
  <1> QED BY <1>1, <1>2, <1>3 DEF VersionGoes, Safe, VersionCall

\* A walk of a version table, and what it has so far when nothing stands in
\* its way.
LEMMA VersionGoing ==
  ASSUME CallInv, Translating, pc \in {"head", "aux"}
  PROVE  /\ VersionCall(call) /\ call \in Calls /\ Accepts(call) /\ Kept(call, mem)
         /\ walk.off \in Nat /\ walk.next \in Nat /\ walk.aoff \in Nat /\ walk.cnt \in Nat /\ walk.anext \in Nat
         /\ HeadSize(call) \in Nat /\ call.size \in Nat
         /\ VersionGoes(call) /\ pc = "head" => HeadSoFar(call, mem, walk)
         /\ VersionGoes(call) /\ pc = "aux" => AuxSoFar(call, mem, walk)
         /\ call.lib = "lib" => walk.anext = 1
         /\ Safe(call) => VersionGoes(call)
         /\ Clear(call) /\ Whole(call) => VersionGoes(call) /\ WholeVersions(call)
  <1>1. /\ call \in Calls /\ Accepts(call) /\ Kept(call, mem) /\ call.type \in {"VDEF", "VNEED"} /\ WalkOK
    BY GoingFact DEF Going, CallInv
  <1>2. VersionCall(call)
    BY <1>1 DEF VersionCall
  <1>3. HeadSize(call) \in Nat /\ call.size \in Nat
    BY <1>1, CallFact, VersionSizes
  <1> QED BY <1>1, <1>2, <1>3, WalkFact, VersionIsSafe DEF Translating

LEMMA CvtHeadTranslates ==
  ASSUME CallInv, Translating, CvtHead
  PROVE  Translating'
  <1> DEFINE at == Here(walk.off)
             aux == AuxOf(call, mem, at)
  <1>1. /\ pc = "head" /\ call.lib = "elftoolchain" /\ walk.next # 0 /\ call' = call
        /\ walk.off + HeadSize(call) <= call.size
        /\ mem' = Piece(call, mem, walk.off, TableBytes(call, HeadFields(call)))
        /\ IF aux < HeadSize(call) THEN pc' = "done" /\ ok' = FALSE /\ walk' = walk
           ELSE /\ pc' = "aux"
                /\ walk' = [off |-> walk.off, next |-> NextOf(call, mem, at),
                            aoff |-> walk.off + aux, cnt |-> CntOf(call, mem, at), anext |-> 1]
    BY DEF CvtHead, Fits, ConvertAt, Piece, Return
  <1>2. /\ VersionCall(call) /\ Accepts(call) /\ Kept(call, mem) /\ walk.off \in Nat /\ HeadSize(call) \in Nat
        /\ VersionGoes(call) => HeadSoFar(call, mem, walk)
        /\ Clear(call) /\ Whole(call) => VersionGoes(call) /\ WholeVersions(call)
    BY <1>1, VersionGoing
  <1>3. VersionGoes(call) => HeadTaken(call, mem, walk)
    BY <1>1, <1>2, HeadForward
  <1>4. at = call.sb + walk.off
    BY DEF Here
  <1> HIDE DEF at
  <1>5. CASE aux < HeadSize(call)
    <2>1. ASSUME Clear(call), Whole(call) PROVE FALSE
      <3>1. aux = HeadSays(call, walk.off, "vd_aux", "vn_aux") /\ walk.off \in HeadsOf(call)
        BY <1>2, <1>3, <1>4, <2>1 DEF HeadTaken
      <3>2. aux >= HeadSize(call) /\ aux \in Nat
        <4>1. walk.off \in HeadIn(call)
          BY <1>2, <3>1, VersionRecordsFact
        <4> QED BY <1>2, <2>1, <3>1, <4>1, WholeHead, VersionSays
      <3> HIDE DEF aux
      <3> QED BY <1>2, <1>5, <3>2
    <2> QED BY <1>1, <1>5, <2>1, Finish
  <1>6. CASE ~(aux < HeadSize(call))
    <2>1. pc' = "aux"
      BY <1>1, <1>6
    <2>2. VersionGoes(call) => AuxSoFar(call, mem', walk')
      <3> HAVE VersionGoes(call)
      <3>1. HeadTaken(call, mem, walk)
        BY <1>3
      <3>2. /\ walk'.off = walk.off /\ walk'.next = HeadLink(call, walk.off)
            /\ walk'.aoff = AuxStart(call, walk.off) /\ walk'.cnt = AuxCount(call, walk.off)
            /\ walk'.anext # 0
        BY <1>1, <1>4, <1>6, <3>1 DEF HeadTaken, AuxStart
      <3> QED BY <1>1, <3>1, <3>2 DEF HeadTaken
    <2> QED BY <1>1, <2>1, <2>2, VersionsGoOn
  <1> QED BY <1>5, <1>6

LEMMA CvtHeadsEndTranslates ==
  ASSUME CallInv, Translating, CvtHeadsEnd
  PROVE  Translating'
  <1>1. /\ pc = "head" /\ call.lib = "elftoolchain" /\ call' = call /\ mem' = mem /\ walk' = walk /\ pc' = "done"
        /\ walk.next = 0 \/ ~(walk.off + HeadSize(call) <= call.size)
        /\ ok' <=> walk.next = 0
    BY DEF CvtHeadsEnd, Fits, Return
  <1>2. /\ VersionCall(call) /\ (VersionGoes(call) => HeadSoFar(call, mem, walk))
        /\ Safe(call) => VersionGoes(call)
        /\ Clear(call) /\ Whole(call) => VersionGoes(call) /\ WholeVersions(call)
    BY <1>1, VersionGoing
  <1>3. Safe(call) => AsExpected(call, mem')
    BY <1>1, <1>2, HeadsDone
  <1>4. ~ok' /\ Clear(call) => ~Whole(call)
    BY <1>1, <1>2, WholeHeadsEnd
  <1> QED BY <1>1, <1>3, <1>4, Finish

LEMMA CvtAuxTranslates ==
  ASSUME CallInv, Translating, CvtAux
  PROVE  Translating'
  <1> DEFINE anext == AuxNextOf(call, mem, Here(walk.aoff))
  <1>1. /\ pc = "aux" /\ call.lib = "elftoolchain" /\ call' = call /\ pc' = pc
        /\ walk.cnt # 0 /\ walk.anext # 0 /\ walk.aoff + AuxSize(call) <= call.size
        /\ mem' = Piece(call, mem, walk.aoff, TableBytes(call, AuxFields(call)))
        /\ walk' = [walk EXCEPT !.anext = anext, !.aoff = @ + anext, !.cnt = @ - 1]
    BY DEF CvtAux, MoreAux, Fits, ConvertAt, Piece
  <1>2. /\ VersionCall(call) /\ Accepts(call) /\ Kept(call, mem) /\ walk.aoff \in Nat
        /\ VersionGoes(call) => AuxSoFar(call, mem, walk)
    BY <1>1, VersionGoing
  <1>3. WalkOK
    BY DEF CallInv
  <1>4. VersionGoes(call) => AuxSoFar(call, mem', walk')
    <2> HAVE VersionGoes(call)
    <2>1. AuxTaken(call, mem, walk)
      BY <1>1, <1>2, AuxForward
    <2>2. anext = AuxLink(call, walk.aoff)
      BY <2>1 DEF AuxTaken, Here
    <2> HIDE DEF anext
    <2>3. /\ walk'.off = walk.off /\ walk'.next = walk.next /\ walk'.cnt = walk.cnt - 1
          /\ walk'.aoff = walk.aoff + anext /\ walk'.anext = anext
      BY <1>1, <1>3 DEF WalkOK
    <2>4. Further(call, walk, walk')
      BY <1>1, <2>2, <2>3 DEF Further
    <2> QED BY <1>1, <2>1, <2>4 DEF AuxTaken
  <1> QED BY <1>1, <1>4, VersionsGoOn

LEMMA CvtAuxEndTranslates ==
  ASSUME CallInv, Translating, CvtAuxEnd
  PROVE  Translating'
  <1>1. /\ pc = "aux" /\ call.lib = "elftoolchain" /\ call' = call /\ mem' = mem
        /\ walk.cnt = 0 \/ walk.anext = 0 \/ ~(walk.aoff + AuxSize(call) <= call.size)
        /\ IF walk.anext # 0 \/ walk.cnt # 0 THEN pc' = "done" /\ ok' = FALSE /\ walk' = walk
           ELSE pc' = "head" /\ walk' = [walk EXCEPT !.off = @ + walk.next]
    BY DEF CvtAuxEnd, MoreAux, Fits, Return
  <1>2. /\ VersionCall(call) /\ walk.off \in Nat /\ walk.next \in Nat
        /\ VersionGoes(call) => AuxSoFar(call, mem, walk)
        /\ Clear(call) /\ Whole(call) => VersionGoes(call) /\ WholeVersions(call)
    BY <1>1, VersionGoing
  <1>3. CASE walk.anext # 0 \/ walk.cnt # 0
    <2>1. Clear(call) => ~Whole(call)
      BY <1>1, <1>2, <1>3, WholeAuxesEnd
    <2> QED BY <1>1, <1>3, <2>1, Finish
  <1>4. CASE ~(walk.anext # 0 \/ walk.cnt # 0)
    <2>1. pc' = "head" /\ walk'.off = walk.off + walk.next /\ walk'.next = walk.next
      <3>1. WalkOK
        BY DEF CallInv
      <3> QED BY <1>1, <1>4, <3>1 DEF WalkOK
    <2>2. VersionGoes(call) => HeadSoFar(call, mem', walk')
      <3> HAVE VersionGoes(call)
      <3>1. AuxesSoFar(call, mem, walk)
        BY <1>2, <1>4, AuxesEnded
      <3> QED BY <1>1, <1>2, <2>1, <3>1, HeadOnward
    <2> QED BY <1>1, <2>1, <2>2, VersionsGoOn
  <1> QED BY <1>3, <1>4

LEMMA XltHeadTranslates ==
  ASSUME CallInv, Translating, XltHead
  PROVE  Translating'
  <1> DEFINE at == Here(walk.off)
             cnt == CntOf(call, mem, at)
             aux == AuxOf(call, mem, at)
             bad == \/ walk.off % 4 # 0
                    \/ VersionOf(call, mem, at) # 1
                    \/ cnt < 1 \/ aux = 0
  <1>1. /\ pc = "head" /\ call.lib = "lib" /\ call' = call
        /\ walk.off + HeadSize(call) <= call.size
        /\ IF bad THEN pc' = "done" /\ ok' = FALSE /\ walk' = walk
           ELSE /\ pc' = "aux"
                /\ mem' = Piece(call, mem, walk.off, TableBytes(call, HeadFields(call)))
                /\ walk' = [walk EXCEPT !.next = NextOf(call, mem, at), !.aoff = walk.off + aux, !.cnt = cnt]
    BY DEF XltHead, Fits, ConvertAt, Piece, Return, Misplaced
  <1>2. /\ VersionCall(call) /\ Accepts(call) /\ Kept(call, mem) /\ walk.off \in Nat /\ HeadSize(call) \in Nat
        /\ VersionGoes(call) => HeadSoFar(call, mem, walk)
        /\ Clear(call) /\ Whole(call) => VersionGoes(call) /\ WholeVersions(call)
        /\ walk.anext = 1
    BY <1>1, VersionGoing
  <1>3. VersionGoes(call) => HeadTaken(call, mem, walk)
    <2> HAVE VersionGoes(call)
    <2>1. HeadSoFar(call, mem, walk) /\ walk.next # 0
      BY <1>1, <1>2 DEF HeadSoFar, AtHead
    <2> QED BY <1>1, <1>2, <2>1, HeadForward
  <1>4. at = call.sb + walk.off
    BY DEF Here
  <1> HIDE DEF at
  <1>5. CASE bad
    <2>1. ASSUME Clear(call), Whole(call) PROVE FALSE
      <3>1. /\ walk.off \in HeadsOf(call) /\ aux = HeadSays(call, walk.off, "vd_aux", "vn_aux")
            /\ cnt = AuxCount(call, walk.off)
            /\ VersionOf(call, mem, at) = HeadSays(call, walk.off, "vd_version", "vn_version")
        BY <1>2, <1>3, <1>4, <2>1 DEF HeadTaken
      <3>2. aux \in Nat /\ cnt \in Nat
        <4>1. walk.off \in HeadIn(call)
          BY <1>2, <3>1, VersionRecordsFact
        <4> QED BY <1>2, <3>1, <4>1, VersionSays
      <3>3. /\ aux >= HeadSize(call) /\ cnt >= 1 /\ VersionOf(call, mem, at) = 1 /\ walk.off % 4 = 0
        BY <1>2, <2>1, <3>1, WholeHead
      <3>4. HeadSize(call) >= 16
        BY <1>2, VersionSizes DEF VersionCall
      <3> HIDE DEF aux, cnt
      <3> QED BY <1>2, <1>5, <3>2, <3>3, <3>4
    <2> HIDE DEF bad
    <2> QED BY <1>1, <1>5, <2>1, Finish
  <1>6. CASE ~bad
    <2>1. /\ pc' = "aux" /\ mem' = Piece(call, mem, walk.off, TableBytes(call, HeadFields(call)))
          /\ walk' = [walk EXCEPT !.next = NextOf(call, mem, at), !.aoff = walk.off + aux, !.cnt = cnt]
      BY <1>1, <1>6
    <2> HIDE DEF bad
    <2>2. WalkOK
      BY DEF CallInv
    <2>3. /\ walk'.off = walk.off /\ walk'.next = NextOf(call, mem, at) /\ walk'.aoff = walk.off + aux
          /\ walk'.cnt = cnt /\ walk'.anext = walk.anext
      <3> HIDE DEF aux, cnt
      <3> QED BY <2>1, <2>2 DEF WalkOK
    <2>4. VersionGoes(call) => AuxSoFar(call, mem', walk')
      <3> HAVE VersionGoes(call)
      <3>1. HeadTaken(call, mem, walk)
        BY <1>3
      <3>2. /\ walk'.next = HeadLink(call, walk.off) /\ walk'.aoff = AuxStart(call, walk.off)
            /\ walk'.cnt = AuxCount(call, walk.off) /\ walk'.anext # 0
        BY <1>2, <1>4, <2>3, <3>1 DEF HeadTaken, AuxStart
      <3> QED BY <2>1, <2>3, <3>1, <3>2 DEF HeadTaken
    <2> QED BY <1>1, <1>2, <2>1, <2>3, <2>4, VersionsGoOn
  <1> QED BY <1>5, <1>6

LEMMA XltHeadsEndTranslates ==
  ASSUME CallInv, Translating, XltHeadsEnd
  PROVE  Translating'
  <1>1. /\ pc = "head" /\ call.lib = "lib" /\ call' = call /\ mem' = mem /\ walk' = walk /\ pc' = "done" /\ ok' = TRUE
        /\ ~(walk.off + HeadSize(call) <= call.size)
    BY DEF XltHeadsEnd, Fits, Return
  <1>2. /\ VersionCall(call) /\ (VersionGoes(call) => HeadSoFar(call, mem, walk))
        /\ Safe(call) => VersionGoes(call)
    BY <1>1, VersionGoing
  <1>3. Safe(call) => AsExpected(call, mem')
    BY <1>1, <1>2, HeadsDone
  <1> QED BY <1>1, <1>3, Finish

LEMMA OnwardTranslates ==
  ASSUME CallInv, Translating, pc = "aux", call.lib = "lib", call' = call, Onward,
         VersionGoes(call) => AuxesSoFar(call, mem', walk)
  PROVE  Translating'
  <1>1. /\ VersionCall(call) /\ walk.off \in Nat /\ walk.next \in Nat /\ walk.anext = 1
        /\ Safe(call) => VersionGoes(call)
    BY VersionGoing
  <1>2. CASE walk.next = 0
    <2>1. pc' = "done" /\ ok' = TRUE /\ walk' = walk
      BY <1>2 DEF Onward, Return
    <2>2. Safe(call) => AsExpected(call, mem')
      BY <1>1, <1>2, LastHead
    <2> QED BY <2>1, <2>2, Finish
  <1>3. CASE walk.next # 0
    <2>1. pc' = "head" /\ walk' = [walk EXCEPT !.off = @ + walk.next]
      BY <1>3 DEF Onward
    <2>2. walk'.off = walk.off + walk.next /\ walk'.next = walk.next /\ walk'.anext = walk.anext
      <3>1. WalkOK
        BY DEF CallInv
      <3> QED BY <2>1, <3>1 DEF WalkOK
    <2>3. VersionGoes(call) => HeadSoFar(call, mem', walk')
      BY <1>1, <1>3, <2>2, HeadOnward
    <2> QED BY <1>1, <2>1, <2>2, <2>3, VersionsGoOn
  <1> QED BY <1>2, <1>3

LEMMA XltAuxTranslates ==
  ASSUME CallInv, Translating, XltAux
  PROVE  Translating'
  <1> DEFINE anext == AuxNextOf(call, mem, Here(walk.aoff))
  <1>1. /\ pc = "aux" /\ call.lib = "lib" /\ call' = call
        /\ walk.cnt # 0 /\ walk.aoff + AuxSize(call) <= call.size
        /\ mem' = Piece(call, mem, walk.aoff, TableBytes(call, AuxFields(call)))
        /\ IF anext = 0 THEN Onward
           ELSE walk' = [walk EXCEPT !.aoff = @ + anext, !.cnt = @ - 1] /\ pc' = pc
    BY DEF XltAux, Fits, ConvertAt, Piece
  <1>2. /\ VersionCall(call) /\ Accepts(call) /\ Kept(call, mem) /\ walk.aoff \in Nat /\ walk.anext = 1
        /\ VersionGoes(call) => AuxSoFar(call, mem, walk)
    BY <1>1, VersionGoing
  <1>3. WalkOK
    BY DEF CallInv
  <1>4. VersionGoes(call) => AuxTaken(call, mem, walk) /\ anext = AuxLink(call, walk.aoff)
    <2> HAVE VersionGoes(call)
    <2>1. walk.anext # 0
      BY <1>2
    <2>2. AuxTaken(call, mem, walk)
      BY <1>1, <1>2, <2>1, AuxForward
    <2> QED BY <2>2 DEF AuxTaken, Here
  <1> HIDE DEF anext
  <1>5. CASE anext = 0
    <2>1. VersionGoes(call) => AuxesSoFar(call, mem', walk)
      BY <1>1, <1>4, <1>5 DEF AuxTaken
    <2> QED BY <1>1, <1>5, <2>1, OnwardTranslates
  <1>6. CASE anext # 0
    <2>1. pc' = "aux" /\ walk' = [walk EXCEPT !.aoff = @ + anext, !.cnt = @ - 1]
      BY <1>1, <1>6
    <2>2. /\ walk'.off = walk.off /\ walk'.next = walk.next /\ walk'.cnt = walk.cnt - 1
          /\ walk'.aoff = walk.aoff + anext /\ walk'.anext = walk.anext
      BY <1>3, <2>1 DEF WalkOK
    <2>3. VersionGoes(call) => AuxSoFar(call, mem', walk')
      <3> HAVE VersionGoes(call)
      <3>1. Further(call, walk, walk')
        BY <1>1, <1>4, <1>6, <2>2 DEF Further
      <3> QED BY <1>1, <1>4, <3>1 DEF AuxTaken
    <2> QED BY <1>1, <1>2, <2>1, <2>2, <2>3, VersionsGoOn
  <1> QED BY <1>5, <1>6

LEMMA XltAuxEndTranslates ==
  ASSUME CallInv, Translating, XltAuxEnd
  PROVE  Translating'
  <1>1. /\ pc = "aux" /\ call.lib = "lib" /\ call' = call /\ mem' = mem /\ Onward
        /\ walk.cnt = 0 \/ ~(walk.aoff + AuxSize(call) <= call.size)
    BY DEF XltAuxEnd, Fits
  <1>2. /\ VersionCall(call) /\ (VersionGoes(call) => AuxSoFar(call, mem, walk)) /\ walk.anext # 0
    BY <1>1, VersionGoing
  <1>3. VersionGoes(call) => AuxesSoFar(call, mem', walk)
    BY <1>1, <1>2, AuxesEnded
  <1> QED BY <1>1, <1>3, OnwardTranslates

LEMMA XltAuxMisplacedTranslates ==
  ASSUME CallInv, Translating, XltAuxMisplaced
  PROVE  Translating'
  <1>1. /\ pc = "aux" /\ call.lib = "lib" /\ call' = call /\ mem' = mem /\ walk' = walk
        /\ pc' = "done" /\ ok' = FALSE
        /\ walk.cnt # 0 /\ walk.aoff + AuxSize(call) <= call.size /\ walk.aoff % 4 # 0
    BY DEF XltAuxMisplaced, Fits, Misplaced, Return
  <1>2. /\ VersionCall(call) /\ Kept(call, mem) /\ walk.aoff \in Nat /\ walk.anext # 0
        /\ VersionGoes(call) => AuxSoFar(call, mem, walk)
        /\ Clear(call) /\ Whole(call) => VersionGoes(call) /\ WholeVersions(call)
    BY <1>1, VersionGoing
  <1>3. ASSUME Clear(call), Whole(call) PROVE FALSE
    <2>1. AuxTaken(call, mem, walk)
      BY <1>1, <1>2, <1>3, AuxForward
    <2>2. walk.off \in HeadsOf(call) /\ walk.aoff \in AuxesOf(call, walk.off)
      BY <2>1 DEF AuxTaken
    <2> QED BY <1>1, <1>2, <1>3, <2>2, WholeHead
  <1> QED BY <1>1, <1>3, Finish

\* A call with nothing to convert leaves what is expected.
LEMMA ReadyAsExpected ==
  ASSUME NEW k \in Calls, Accepts(k), Ready(k)
  PROVE  AsExpected(k, Original(k))
  <1>0. /\ k.size \in Nat /\ k.class \in Class /\ k.tof \in BOOLEAN /\ k.swap \in BOOLEAN
        /\ k.lib \in {"lib", "elftoolchain"}
    BY CallFact
  <1>1. CASE Translator(k) = "records"
    <2>1. RecordCall(k)
      BY <1>1 DEF RecordCall
    <2> QED BY <2>1, ReadyIsExact, RecordsAsExpected
  <1>2. Translator(k) # "records" => k.type \in Walked
    BY TranslatorFact DEF Walked
  <1>3. k.type \in Walked => k.size = 0 \/ (k.db = k.sb /\ k.swap = FALSE)
    <2> HAVE k.type \in Walked
    <2>1. Need(k) = k.size
      BY AcceptsFact
    <2> QED BY <1>0, <2>1 DEF Ready
  <1>4. CASE k.type \in {"VDEF", "VNEED"}
    <2>1. VersionCall(k) /\ k.type \in Walked
      BY <1>4 DEF VersionCall, Walked
    <2>2. ASSUME NEW x \in VersionRecords(k) PROVE RecordConverted(k, Original(k), x)
      <3>1. /\ x.at \in Nat /\ IsFields(x.fields) /\ x.at + Packed(k.class, x.fields).size <= k.size
            /\ Packed(k.class, x.fields).size \in Nat \ {0}
        BY <2>1, VersionRecordsFact
      <3>2. PICK p, n : p = x.at /\ n = Packed(k.class, x.fields).size
        OBVIOUS
      <3>3. k.size # 0 /\ p \in Nat /\ n \in Nat
        BY <1>0, <3>1, <3>2
      <3>4. k.db = k.sb /\ k.swap = FALSE
        BY <1>3, <2>1, <3>3
      <3> SUFFICES ASSUME NEW o \in Extent(k, x)
                   PROVE  Original(k)[k.db + o] = Original(k)[k.sb + (x.at + TableBytes(k, x.fields)[o - x.at])]
        BY DEF RecordConverted
      <3>5. PICK e : e = o - x.at
        OBVIOUS
      <3>6. e \in 0 .. n - 1 /\ o = p + e
        BY <3>2, <3>3, <3>5 DEF Extent
      <3>7. TableBytes(k, x.fields)[e] = e
        BY <1>0, <3>1, <3>2, <3>4, <3>6, TableBytesStill
      <3> QED BY <3>2, <3>4, <3>5, <3>6, <3>7
    <2>3. VersionSoFar(k, Original(k), VersionRecords(k))
      BY <2>2 DEF VersionSoFar
    <2> QED BY <2>1, <2>3, VersionsAsExpected
  <1>5. CASE k.type = "NOTE"
    <2>1. k.type \in Walked /\ Expected(k) = NotesBytes(k)
      BY <1>5, ExpectedFact DEF Walked
    <2>2. CASE k.swap = FALSE
      <3>1. Expected(k) = Same(k.size)
        BY <2>1, <2>2 DEF NotesBytes
      <3>2. k.size = 0 \/ k.db = k.sb
        BY <1>3, <2>1
      <3>3. ASSUME NEW o \in 0 .. k.size - 1
            PROVE  Original(k)[k.db + o] = Original(k)[k.sb + Same(k.size)[o]]
        BY <1>0, <3>2, <3>3 DEF Same
      <3>4. DOMAIN Same(k.size) = 0 .. k.size - 1
        BY DEF Same
      <3> QED BY <3>1, <3>3, <3>4 DEF AsExpected, Was
    <2>3. CASE k.swap = TRUE
      <3>1. k.size = 0
        BY <1>3, <2>1, <2>3
      <3>2. PICK at : NotePlaces(k, at)
        BY <1>5, NoteChain
      <3>3. PICK z, one : z = 0 /\ one = 1
        OBVIOUS
      <3>4. NotesSoFar(k, Original(k), at, one, z) /\ ~(z + NoteHdrSize < k.size)
        BY <1>5, <3>1, <3>2, <3>3, NotesStart DEF NoteHdrSize
      <3> QED BY <1>5, <2>3, <3>2, <3>4, NotesAsExpected
    <2> QED BY <1>0, <2>2, <2>3
  <1>6. CASE k.type = "GNUHASH" /\ Translator(k) # "records"
    <2>1. HashCall(k) /\ k.type \in Walked /\ Expected(k) = TableOfWords(k)
      <3>1. HashCall(k)
        BY <1>6, TranslatorFact DEF HashCall
      <3> QED BY <3>1, HashCallFact
    <2>2. DOMAIN Expected(k) = 0 .. (4 * (k.size \div 4) - 1)
      BY <2>1 DEF TableOfWords
    <2>3. CASE k.size = 0
      <3>1. 4 * (k.size \div 4) - 1 = -1
        BY <2>3
      <3>2. DOMAIN Expected(k) = {}
        BY <2>2, <3>1
      <3> QED BY <3>2 DEF AsExpected
    <2>4. CASE k.db = k.sb /\ k.swap = FALSE
      <3>1. \A o \in DOMAIN Expected(k) : Expected(k)[o] = o
        BY <2>1, <2>4 DEF TableOfWords
      <3> QED BY <2>4, <3>1 DEF AsExpected, Was
    <2> QED BY <1>3, <2>1, <2>3, <2>4
  <1> QED BY <1>1, <1>2, <1>4, <1>5, <1>6 DEF Walked

LEMMA ChecksTranslate ==
  ASSUME CallInv, Translating, Refuse \/ Accept
  PROVE  Translating'
  <1>1. /\ call' = call /\ mem' = mem /\ done' = done /\ field' = field /\ walk' = walk /\ pc = "called"
    BY DEF Refuse, Accept
  <1>2. /\ call \in Calls /\ mem = Original(call) /\ done = 0 /\ field = 1
        /\ walk.off = 0 /\ walk.next = 1 /\ (call.lib = "lib" => walk.anext = 1)
    BY <1>1 DEF CallInv, Progress, Translating
  <1>3. CASE Refuse
    <2>1. ~Accepts(call) /\ pc' = "done" /\ ok' = FALSE
      BY <1>3 DEF Refuse, Return
    <2> QED BY <1>1, <2>1, Finish
  <1>4. CASE Accept /\ Ready(call)
    <2>1. Accepts(call) /\ pc' = "done" /\ ok' = TRUE
      BY <1>4 DEF Accept, Return
    <2>2. AsExpected(call, mem')
      BY <1>1, <1>2, <1>4, <2>1, ReadyAsExpected
    <2> QED BY <1>1, <2>1, <2>2, Finish
  <1>5. CASE Accept /\ ~Ready(call)
    <2>1. Accepts(call) /\ pc' = Translator(call)
      BY <1>5 DEF Accept
    <2>2. pc' \in {"records", "head", "notes", "hash"}
      BY <2>1, TranslatorFact
    <2>3. pc' = "records" => LibSoFar(call, mem, done, field)
      <3> HAVE pc' = "records"
      <3>1. RecordCall(call)
        BY <2>1 DEF RecordCall
      <3>2. LibSoFar(call, Original(call), 0, 1)
        BY <1>2, <3>1, LibSoFarStart
      <3> QED BY <1>2, <3>2
    <2>4. pc' = "head" => HeadSoFar(call, mem, walk)
      <3> HAVE pc' = "head"
      <3>1. VersionCall(call)
        BY <1>2, <2>1, TranslatorFact DEF VersionCall
      <3> QED BY <1>2, <3>1, HeadsBegin
    <2>5. pc' = "notes" => NotesGoing
      <3> HAVE pc' = "notes"
      <3>1. call.type = "NOTE"
        BY <2>1, TranslatorFact
      <3>2. PICK at : NotePlaces(call, at)
        BY <1>2, <3>1, NoteChain
      <3>3. NotesSoFar(call, mem, at, 1, walk.off)
        BY <1>2, <3>1, <3>2, NotesStart
      <3> QED BY <1>2, <3>2, <3>3 DEF NotesGoing
    <2> QED BY <1>1, <1>2, <2>2, <2>3, <2>4, <2>5 DEF Translating, NotesGoing
  <1> QED BY <1>3, <1>4, <1>5

LEMMA CopyAtOnceTranslates ==
  ASSUME CallInv, Translating, CopyAtOnce
  PROVE  Translating'
  <1>1. /\ pc = "records" /\ CopiedAtOnce(call) /\ call' = call /\ walk' = walk /\ pc' = "done" /\ ok' = TRUE
        /\ mem' = Convert(mem, call.db, call.sb, Same(Count(call) * To(PlanOf(call), call.tof).size))
    BY DEF CopyAtOnce, Return
  <1>2. call \in Calls /\ RecordCall(call)
    BY <1>1, GoingFact DEF Going, CallInv
  <1>3. mem = Original(call)
    BY <1>1 DEF Translating
  <1>4. AsExpected(call, mem')
    BY <1>1, <1>2, <1>3, CopyIsExact, RecordsAsExpected
  <1> QED BY <1>1, <1>4, Finish

LEMMA ConvertRecordTranslates ==
  ASSUME CallInv, ConvertedSoFar, Translating, ConvertRecord
  PROVE  Translating'
  <1>1. /\ pc = "records" /\ call.lib = "elftoolchain" /\ ~CopiedAtOnce(call) /\ call' = call /\ walk' = walk
    BY DEF ConvertRecord
  <1>2. call \in Calls /\ RecordCall(call)
    BY <1>1, GoingFact DEF Going, CallInv
  <1>3. CASE done = Count(call)
    <2>1. pc' = "done" /\ ok' = TRUE /\ mem' = mem
      BY <1>3 DEF ConvertRecord, Return
    <2>2. SoFar(call, mem, Count(call))
      BY <1>1, <1>3 DEF ConvertedSoFar, SoFar
    <2>3. AsExpected(call, mem')
      BY <1>2, <2>1, <2>2, SoFarEnd, RecordsAsExpected
    <2> QED BY <1>1, <2>1, <2>3, Finish
  <1>4. CASE done # Count(call)
    <2>1. pc' = pc
      BY <1>4 DEF ConvertRecord
    <2> QED BY <1>1, <2>1 DEF Translating
  <1> QED BY <1>3, <1>4

LEMMA CopyMemberTranslates ==
  ASSUME CallInv, Translating, CopyMember
  PROVE  Translating'
  <1> DEFINE last == field = Len(PlanOf(call).order)
             g == MemberWritten(call, mem, LibRecord(call, done), LibMember(call, field))
  <1>1. /\ pc = "records" /\ call.lib = "lib" /\ ~CopiedAtOnce(call) /\ call' = call /\ walk' = walk
        /\ mem' = g
        /\ field' = (IF last THEN 1 ELSE field + 1)
        /\ done' = (IF last THEN done + 1 ELSE done)
        /\ IF last /\ done + 1 = Count(call) THEN pc' = "done" /\ ok' = TRUE ELSE pc' = pc
    BY DEF CopyMember, Return, MemberWritten, MemberMap
  <1>2. /\ call \in Calls /\ RecordCall(call) /\ Kept(call, mem) /\ ~WordTable(call)
        /\ done \in Nat /\ field \in Nat /\ done < Count(call) /\ field \in 1 .. Len(PlanOf(call).order)
    BY <1>1, GoingFact DEF Going, CallInv, WordTable, Progress
  <1>3. Count(call) \in Nat /\ Len(PlanOf(call).order) \in Nat
    <2>1. Len(PlanOf(call).order) \in Nat
      BY <1>2, PlannedFact, Zenon DEF Planned, WellLaid
    <2> QED BY <1>2, <2>1, RecordFact
  <1> HIDE DEF last, g
  <1>4. ~Overlap(call) => LibSoFar(call, mem', done, field + 1)
    <2> HAVE ~Overlap(call)
    <2>1. LibSoFar(call, mem, done, field)
      BY <1>1 DEF Translating
    <2>2. LibSpot(call, done, field)
      BY <1>2, <1>3 DEF LibSpot
    <2> QED BY <1>1, <1>2, <2>1, <2>2, LibSoFarStep DEF g
  <1>5. last /\ ~Overlap(call) => LibSoFar(call, mem', done + 1, 1)
    <2> HAVE last /\ ~Overlap(call)
    <2>1. LibSoFar(call, mem', done, Len(PlanOf(call).order) + 1) /\ done \in Int
      BY <1>2, <1>4 DEF last
    <2> QED BY <1>2, <1>3, <2>1, LibSoFarOnward
  <1>6. CASE last /\ done + 1 = Count(call)
    <2>1. pc' = "done" /\ ok' = TRUE
      BY <1>1, <1>6
    <2>2. Safe(call) => AsExpected(call, mem')
      <3> HAVE Safe(call)
      <3>1. ~Overlap(call)
        BY <1>1 DEF Safe, Clear
      <3>2. LibSoFar(call, mem', Count(call), 1)
        BY <1>5, <1>6, <3>1
      <3> QED BY <1>2, <3>2, LibSoFarEnd, RecordsAsExpected
    <2> QED BY <1>1, <2>1, <2>2, Finish
  <1>7. CASE ~(last /\ done + 1 = Count(call))
    <2>1. pc' = "records" /\ (~Overlap(call) => LibSoFar(call, mem', done', field'))
      BY <1>1, <1>4, <1>5, <1>7
    <2> QED BY <1>1, <2>1 DEF Translating
  <1> QED BY <1>6, <1>7

-----------------------------------------------------------------------------
LEMMA NotesGoingFact ==
  ASSUME CallInv, Translating, pc = "notes"
  PROVE  /\ call \in Calls /\ Accepts(call) /\ Kept(call, mem) /\ call.type = "NOTE" /\ call.type \in Walked
         /\ ~Overlap(call) /\ call.lib = "elftoolchain" /\ walk.off \in Nat
         /\ call.size \in Nat /\ call.class \in Class /\ call.tof \in BOOLEAN /\ call.swap \in BOOLEAN
         /\ NotesGoing
  <1>1. /\ call \in Calls /\ Accepts(call) /\ Kept(call, mem) /\ call.type = "NOTE" /\ call.type \in Walked
        /\ WalkOK
    BY GoingFact DEF Going, CallInv
  <1>2. call.lib \in {"lib", "elftoolchain"} /\ Supported(call)
    BY <1>1, CallFact, AcceptsFact
  <1>3. call.lib = "elftoolchain"
    BY <1>1, <1>2, SupportedFact
  <1> QED BY <1>1, <1>3, CallFact, NoOverlap, WalkFact DEF Translating

LEMMA CopyNotesTranslates ==
  ASSUME CallInv, Translating, CopyNotes
  PROVE  Translating'
  <1>1. /\ pc = "notes" /\ ~call.swap /\ call' = call /\ walk' = walk /\ pc' = "done"
        /\ IF ~call.tof /\ call.size < NoteHdrSize THEN ok' = FALSE
           ELSE ok' = TRUE /\ mem' = Convert(mem, call.db, call.sb, Same(call.size))
    BY DEF CopyNotes, Return
  <1>2. /\ call \in Calls /\ Accepts(call) /\ call.type = "NOTE" /\ call.type \in Walked /\ call.size \in Nat
        /\ mem = Original(call)
    BY <1>1, NotesGoingFact DEF NotesGoing
  <1>3. CASE ~call.tof /\ call.size < NoteHdrSize
    <2>1. ~Whole(call)
      BY <1>2, <1>3 DEF Whole, NoteHdrSize
    <2> QED BY <1>1, <1>3, <2>1, Finish
  <1>4. CASE ~(~call.tof /\ call.size < NoteHdrSize)
    <2>1. Expected(call) = Same(call.size)
      BY <1>1, <1>2, ExpectedFact DEF NotesBytes
    <2>2. Turns(Expected(call), call.size)
      BY <1>2, <2>1 DEF Turns, Same
    <2>3. AsExpected(call, mem')
      BY <1>1, <1>2, <1>4, <2>1, <2>2, WholeConverted
    <2> QED BY <1>1, <1>4, <2>3, Finish
  <1> QED BY <1>3, <1>4

\* The sizes in a note's header are those of the source.
LEMMA NoteReads ==
  ASSUME NEW k \in Calls, k.type = "NOTE", NEW m, NEW at, NEW i, NEW off \in Nat,
         NotesSoFar(k, m, at, i, off), off + NoteHdrSize < k.size
  PROVE  /\ Member(k, m, k.sb + off, NoteHdr, "n_namesz") = NoteSays(k, off, "n_namesz")
         /\ Member(k, m, k.sb + off, NoteHdr, "n_descsz") = NoteSays(k, off, "n_descsz")
  <1>1. k.class \in Class /\ k.type \in Walked /\ k.size \in Nat
    BY CallFact DEF Walked
  <1> DEFINE f == NoteHdr
  <1>2. /\ IsFields(f) /\ Packed(k.class, f).size = 12 /\ Name(f) = {"n_namesz", "n_descsz", "n_type"}
        /\ Widths(k.class, f)["n_namesz"] = 4 /\ Widths(k.class, f)["n_descsz"] = 4
    BY <1>1, NoteNumbers DEF NoteHdrSize
  <1>3. SourceIntact(k, m, off, Packed(k.class, f).size)
    <2> SUFFICES ASSUME NEW o \in off .. off + 12 - 1 PROVE m[k.sb + o] = Original(k)[k.sb + o]
      BY <1>2 DEF SourceIntact
    <2>1. o \in 0 .. k.size - 1 /\ ~(o < off)
      BY <1>1 DEF NoteHdrSize
    <2> QED BY <2>1 DEF NotesSoFar
  <1>4. off + Packed(k.class, f).size <= k.size
    BY <1>1, <1>2 DEF NoteHdrSize
  <1> HIDE DEF f
  <1>5. ReadsRight(k, m, off, f, "n_namesz") /\ ReadsRight(k, m, off, f, "n_descsz")
    BY <1>1, <1>2, <1>3, <1>4, SaysFact
  <1> QED BY <1>2, <1>5 DEF ReadsRight, NoteSays, f

LEMMA SwapNoteTranslates ==
  ASSUME CallInv, Translating, SwapNote
  PROVE  Translating'
  <1> DEFINE off == walk.off
             n == NoteBody(Here(walk.off))
             a == RoundUp(NoteSays(call, off, "n_namesz"), 4)
             d == RoundUp(NoteSays(call, off, "n_descsz"), 4)
  <1>1. /\ pc = "notes" /\ call.swap /\ Rest > NoteHdrSize /\ call' = call
        /\ IF n > Rest - NoteHdrSize THEN pc' = "done" /\ ok' = FALSE /\ walk' = walk
           ELSE /\ mem' = Convert(mem, call.db + walk.off, Here(walk.off), NoteBytes(n))
                /\ walk' = [walk EXCEPT !.off = @ + NoteHdrSize + n]
                /\ pc' = pc
    BY DEF SwapNote, Return
  <1>2. /\ call \in Calls /\ Accepts(call) /\ Kept(call, mem) /\ call.type = "NOTE" /\ call.type \in Walked
        /\ ~Overlap(call) /\ call.lib = "elftoolchain" /\ off \in Nat /\ call.swap = TRUE
        /\ call.size \in Nat /\ call.tof \in BOOLEAN
        /\ \E at, i : NotePlaces(call, at) /\ NotesSoFar(call, mem, at, i, off)
    BY <1>1, NotesGoingFact DEF NotesGoing
  <1>3. PICK at, i : NotePlaces(call, at) /\ NotesSoFar(call, mem, at, i, off)
    BY <1>2
  <1>4. Rest = call.size - off /\ off + NoteHdrSize < call.size /\ NoteHdrSize = 12
    BY <1>1, <1>2 DEF Rest, NoteHdrSize
  <1>5. /\ Member(call, mem, Here(off), NoteHdr, "n_namesz") = NoteSays(call, off, "n_namesz")
        /\ Member(call, mem, Here(off), NoteHdr, "n_descsz") = NoteSays(call, off, "n_descsz")
    BY <1>2, <1>3, <1>4, NoteReads DEF Here
  <1>6. /\ NoteSays(call, off, "n_namesz") \in Nat /\ NoteSays(call, off, "n_descsz") \in Nat
        /\ NoteEnd(call, off) \in Nat
    <2>1. off + NoteHdrSize <= call.size
      BY <1>2, <1>4
    <2> QED BY <1>2, <2>1, NoteEndFact
  <1>7. /\ a \in Nat /\ d \in Nat
        /\ RoundUp(a + NoteSays(call, off, "n_descsz"), 4) = a + d
    BY <1>6, RoundUpWords
  <1>8. NoteEnd(call, off) = off + 12 + a + d
    BY <1>4 DEF NoteEnd
  <1>9. n = IF call.tof THEN Least(a + d, Rest - NoteHdrSize) ELSE a + d
    BY <1>5, <1>7 DEF NoteBody
  <1>10. NoteBytes(n) = NoteBytesOf(call, n)
    BY DEF NoteBytes, NoteBytesOf
  <1> HIDE DEF n, a, d, off
  <1>11. CASE n > Rest - NoteHdrSize
    <2>1. ~call.tof /\ NoteEnd(call, off) > call.size
      BY <1>2, <1>4, <1>7, <1>8, <1>9, <1>11 DEF Least
    <2>2. off \in NotesOf(call)
      <3>1. /\ i \in 1 .. NotesMost(call) /\ off = Least(at[i], call.size) /\ at[i] \in Nat
            /\ NotesOf(call) = {at[l] : l \in {j \in 1 .. NotesMost(call) : at[j] + NoteHdrSize < call.size}}
        BY <1>3 DEF NotesSoFar, NotePlaces, Follows
      <3>2. off = at[i]
        BY <1>2, <1>4, <3>1 DEF Least
      <3> QED BY <1>4, <3>1, <3>2
    <2>3. ~Whole(call)
      <3>1. ~(NoteEnd(call, off) <= call.size)
        BY <1>2, <1>6, <2>1
      <3> QED BY <1>2, <2>1, <2>2, <3>1 DEF Whole
    <2> QED BY <1>1, <1>11, <2>3, Finish
  <1>12. CASE ~(n > Rest - NoteHdrSize)
    <2>1. n \in Nat /\ off + NoteHdrSize + n = Least(NoteEnd(call, off), call.size)
      BY <1>2, <1>4, <1>7, <1>8, <1>9, <1>12 DEF Least
    <2>2. /\ mem' = Piece(call, mem, off, NoteBytesOf(call, n)) /\ pc' = "notes"
          /\ walk' = [walk EXCEPT !.off = @ + NoteHdrSize + n]
      BY <1>1, <1>10, <1>12 DEF Piece, Here, off
    <2>3. walk'.off = off + NoteHdrSize + n
      <3>1. WalkOK
        BY DEF CallInv
      <3> QED BY <2>2, <3>1 DEF WalkOK, off
    <2>4. NotesSoFar(call, mem', at, i + 1, walk'.off)
      BY <1>2, <1>3, <1>4, <2>1, <2>2, <2>3, NotesForward
    <2>5. NotesGoing'
      BY <1>1, <1>2, <1>3, <2>4 DEF NotesGoing
    <2> QED BY <1>1, <1>2, <2>2, <2>5 DEF Translating
  <1> QED BY <1>11, <1>12

LEMMA NotesEndTranslates ==
  ASSUME CallInv, Translating, NotesEnd
  PROVE  Translating'
  <1>1. /\ pc = "notes" /\ call.swap /\ Rest <= NoteHdrSize /\ call' = call /\ walk' = walk /\ mem' = mem
        /\ pc' = "done" /\ (ok' <=> ~TooSmall)
    BY DEF NotesEnd, Return
  <1>2. /\ call \in Calls /\ call.type = "NOTE" /\ walk.off \in Nat /\ call.swap = TRUE /\ call.size \in Nat
        /\ \E at, i : NotePlaces(call, at) /\ NotesSoFar(call, mem, at, i, walk.off)
    BY <1>1, NotesGoingFact DEF NotesGoing
  <1>3. PICK at, i : NotePlaces(call, at) /\ NotesSoFar(call, mem, at, i, walk.off)
    BY <1>2
  <1>4. ~(walk.off + NoteHdrSize < call.size)
    BY <1>1, <1>2 DEF Rest, NoteHdrSize
  <1>5. AsExpected(call, mem')
    BY <1>1, <1>2, <1>3, <1>4, NotesAsExpected
  <1>6. TooSmall => ~Whole(call)
    BY <1>2 DEF TooSmall, Whole, NoteHdrSize
  <1> QED BY <1>1, <1>5, <1>6, Finish

LEMMA ConvertHashTranslates ==
  ASSUME CallInv, Translating, ConvertHash
  PROVE  Translating'
  <1> DEFINE rest == call.size - HashHdrSize
             bloom == 8 * Member(call, mem, call.sb, HashHdr, "gh_maskwords")
             table == bloom + 4 * Member(call, mem, call.sb, HashHdr, "gh_nbuckets")
             chains == 4 * ((rest - table) \div 4)
             w == HashWords(call)
             b == HashBuckets(call)
  <1>1. /\ pc = "hash" /\ call' = call /\ walk' = walk /\ pc' = "done"
        /\ IF rest < 0 \/ rest < table THEN ok' = FALSE
           ELSE /\ ok' = TRUE
                /\ mem' = Convert(mem, call.db, call.sb,
                                  HashBytes(call, bloom, HashHdrSize + table + chains))
    BY DEF ConvertHash, Return
  <1>2. /\ call \in Calls /\ call.size \in Nat /\ mem = Original(call) /\ HashCall(call)
    <2>1. Going
      BY <1>1 DEF Going
    <2>2. /\ call \in Calls /\ Accepts(call) /\ call.type = "GNUHASH" /\ ~WordTable(call)
      BY <1>1, <2>1, GoingFact
    <2>3. Translator(call) = "hash"
      BY <2>2, TranslatorFact
    <2> QED BY <1>1, <2>2, <2>3, CallFact DEF Translating, HashCall
  <1>3. call.type = "GNUHASH" /\ call.class = 64
    BY <1>2, HashCallFact
  <1>4. rest = call.size - 16 /\ HashHdrSize = 16
    BY DEF HashHdrSize
  <1>5. 16 <= call.size => bloom = 8 * w /\ table = 8 * w + 4 * b /\ w \in Nat /\ b \in Nat
    BY <1>2, <1>4, HashReads
  <1>6. Whole(call) <=> 16 <= call.size /\ 16 + 8 * w + 4 * b <= call.size
    BY <1>3, <1>4 DEF Whole, HashWords, HashBuckets
  <1> HIDE DEF rest, bloom, table, w, b
  <1>7. CASE rest < 0 \/ rest < table
    <2>1. ~Whole(call)
      BY <1>2, <1>4, <1>5, <1>6, <1>7
    <2> QED BY <1>1, <1>7, <2>1, Finish
  <1>8. CASE ~(rest < 0 \/ rest < table)
    <2>1. 16 <= call.size /\ rest \in Nat
      BY <1>2, <1>4, <1>8
    <2>2. bloom = 8 * w /\ table = 8 * w + 4 * b /\ w \in Nat /\ b \in Nat
      BY <1>5, <2>1
    <2>3. PICK z : z = (rest - table) \div 4
      OBVIOUS
    <2>4. PICK q : q = call.size \div 4
      OBVIOUS
    <2>5. q = 4 + 2 * w + b + z
      BY <1>2, <1>4, <1>8, <2>1, <2>2, <2>3, <2>4
    <2>6. HashHdrSize + table + chains = 4 * (call.size \div 4) /\ 4 * (call.size \div 4) \in Nat
      BY <1>2, <1>4, <2>1, <2>2, <2>3, <2>4, <2>5
    <2> HIDE DEF chains
    <2>7. mem' = Convert(Original(call), call.db, call.sb,
                         HashBytes(call, 8 * HashWords(call), 4 * (call.size \div 4)))
      BY <1>1, <1>2, <1>8, <2>2, <2>6 DEF w
    <2>8. AsExpected(call, mem')
      BY <1>2, <2>1, <2>6, <2>7, HashAsExpected
    <2> QED BY <1>1, <1>8, <2>8, Finish
  <1> QED BY <1>7, <1>8

LEMMA TranslatingNext ==
  ASSUME CallInv, ConvertedSoFar, Translating, [Next]_vars
  PROVE  Translating'
  <1>1. CASE Refuse \/ Accept
    BY <1>1, ChecksTranslate
  <1>2. CASE CopyAtOnce
    BY <1>2, CopyAtOnceTranslates
  <1>3. CASE ConvertRecord
    BY <1>3, ConvertRecordTranslates
  <1>4. CASE CopyMember
    BY <1>4, CopyMemberTranslates
  <1>5. CASE CvtHead
    BY <1>5, CvtHeadTranslates
  <1>6. CASE CvtHeadsEnd
    BY <1>6, CvtHeadsEndTranslates
  <1>7. CASE CvtAux
    BY <1>7, CvtAuxTranslates
  <1>8. CASE CvtAuxEnd
    BY <1>8, CvtAuxEndTranslates
  <1>9. CASE XltHead
    BY <1>9, XltHeadTranslates
  <1>10. CASE XltHeadsEnd
    BY <1>10, XltHeadsEndTranslates
  <1>11. CASE XltAux
    BY <1>11, XltAuxTranslates
  <1>12. CASE XltAuxEnd
    BY <1>12, XltAuxEndTranslates
  <1>13. CASE XltAuxMisplaced
    BY <1>13, XltAuxMisplacedTranslates
  <1>14. CASE CopyNotes
    BY <1>14, CopyNotesTranslates
  <1>15. CASE SwapNote
    BY <1>15, SwapNoteTranslates
  <1>16. CASE NotesEnd
    BY <1>16, NotesEndTranslates
  <1>17. CASE ConvertHash
    BY <1>17, ConvertHashTranslates
  <1>18. CASE Answered \/ UNCHANGED vars
    <2>1. /\ call' = call /\ mem' = mem /\ pc' = pc /\ done' = done /\ field' = field /\ walk' = walk
          /\ ok' = ok
      BY <1>18 DEF Answered, vars
    <2> QED BY <2>1 DEF Translating, NotesGoing
  <1> QED BY <1>1, <1>2, <1>3, <1>4, <1>5, <1>6, <1>7, <1>8, <1>9, <1>10, <1>11, <1>12, <1>13, <1>14,
             <1>15, <1>16, <1>17, <1>18 DEF Next

\* Along every call, of either library: what has been converted is what the
\* other library's declarations say it is and what is still to be converted
\* reads as it was given.
THEOREM Progresses == Spec => []Translating
  <1>1. Init => Translating
    BY DEF Init, Translating
  <1>2. CallInv /\ ConvertedSoFar /\ Translating /\ [Next]_vars => Translating'
    BY TranslatingNext
  <1> QED BY <1>1, <1>2, Invariant, InPlace, PTL DEF Spec

\* A call that succeeds, whatever the table's type, size and contents and
\* wherever the buffers are, has translated each member exactly and has told
\* the caller the type and the size: where the records of a version table
\* lie apart, and where lib's buffers do not overlap.  The exception is the
\* latter half of the 2- and 4-byte numbers that lib turns round over
\* themselves on their way to the file, which its stores read too late.
THEOREM Translated == Spec => []TranslatedExactly
  <1>1. Init => Answers
    BY DEF Init, Answers
  <1>2. CallInv /\ Answers /\ [Next]_vars => Answers'
    BY AnswersNext
  <1>3. Translating /\ Answers => TranslatedExactly
    <2> SUFFICES ASSUME Translating, Answers, pc = "done", ok, Clear(call),
                        call.type \in {"VDEF", "VNEED"} => Disjoint(call)
                 PROVE  /\ \A o \in DOMAIN Expected(call) \ LostBytes(call) :
                               mem[call.db + o] = Was(call)[call.sb + Expected(call)[o]]
                        /\ dst = [d_type |-> call.type, d_size |-> Need(call)]
      BY DEF TranslatedExactly
    <2>1. AsExpected(call, mem)
      BY DEF Translating, Safe
    <2>2. Told
      BY DEF Answers
    <2> QED BY <2>1, <2>2 DEF AsExpected, Told
  <1> QED BY <1>1, <1>2, <1>3, Invariant, Progresses, PTL DEF Spec

\* A table that is whole - chains that end where their links and counts say,
\* notes with their padding, a hash table with all its words - is never
\* refused behind the checks, by either library, whatever its byte order.
THEOREM WholeTranslates == Spec => []WholeTablesTranslate
  <1>1. Translating => WholeTablesTranslate
    BY DEF Translating, WholeTablesTranslate
  <1> QED BY <1>1, Progresses, PTL
=============================================================================
