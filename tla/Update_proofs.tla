---------------------------- MODULE Update_proofs ----------------------------
(***************************************************************************)
(* elf_update: types, and what the layout guarantees.                      *)
(***************************************************************************)
EXTENDS Update, SequenceTheorems, WellFoundedInduction, TLAPS

-----------------------------------------------------------------------------
(***************************************************************************)
(* Numbers.                                                                *)
(***************************************************************************)
LEMMA LeastNumber ==
  ASSUME NEW B \in SUBSET Nat, B # {}
  PROVE  \E m \in B : \A n \in B : m <= n
  <1>1. PICK m \in B : \A n \in B : << n, m >> \notin OpToRel(<, Nat)
    BY NatLessThanWellFounded, WFMin
  <1>2. ASSUME NEW n \in B, n < m
        PROVE  FALSE
    <2>1. << n, m >> \in Nat \X Nat /\ << n, m >>[1] < << n, m >>[2]
      BY <1>2
    <2>2. << n, m >> \in OpToRel(<, Nat)
      BY <2>1 DEF OpToRel
    <2> QED BY <1>1, <2>2
  <1> QED BY <1>2

\* Induction up to n: a set with 0 and each successor has every number.
LEMMA UpTo ==
  ASSUME NEW n \in Nat, NEW S, 0 \in S,
         \A i \in 1 .. n : i - 1 \in S => i \in S
  PROVE  0 .. n \subseteq S
  <1> DEFINE B == {i \in 0 .. n : i \notin S}
  <1> SUFFICES ASSUME B # {} PROVE FALSE
    OBVIOUS
  <1>1. PICK m \in B : \A k \in B : m <= k
    <2>1. B \in SUBSET Nat
      OBVIOUS
    <2> HIDE DEF B
    <2> QED BY <2>1, LeastNumber
  <1>2. m \in 1 .. n /\ m - 1 \notin B
    BY <1>1
  <1> QED BY <1>1, <1>2

LEMMA MaxFact ==
  ASSUME NEW S \in SUBSET Nat, NEW x \in S, NEW u \in Nat, \A y \in S : y <= u
  PROVE  Max(S) \in S /\ \A y \in S : Max(S) >= y
  <1> DEFINE B == {u - y : y \in S}
  <1>1. PICK m \in B : \A n \in B : m <= n
    <2>1. B \in SUBSET Nat /\ B # {}
      OBVIOUS
    <2> HIDE DEF B
    <2> QED BY <2>1, LeastNumber
  <1>2. PICK z \in S : m = u - z
    BY <1>1
  <1>3. \A y \in S : z >= y
    BY <1>1, <1>2
  <1> QED BY <1>3 DEF Max

LEMMA MaxOfTwo ==
  ASSUME NEW a \in Nat, NEW b \in Nat
  PROVE  Max({a, b}) \in {a, b} /\ Max({a, b}) >= a /\ Max({a, b}) >= b
  <1>1. \E z \in {a, b} : \A y \in {a, b} : z >= y
    OBVIOUS
  <1> QED BY <1>1 DEF Max

LEMMA MinOfTwo ==
  ASSUME NEW a \in Nat, NEW b \in Nat
  PROVE  Min({a, b}) \in {a, b} /\ Min({a, b}) <= a /\ Min({a, b}) <= b
  <1>1. \E z \in {a, b} : \A y \in {a, b} : z =< y
    OBVIOUS
  <1> QED BY <1>1 DEF Min

LEMMA Division ==
  ASSUME NEW b \in Nat \ {0}, NEW q \in Int, NEW r \in 0 .. b - 1
  PROVE  (q * b + r) % b = r
  <1> DEFINE x == q * b + r
             p == x \div b
             s == x % b
  <1>1. x \in Int /\ p \in Int /\ s \in 0 .. b - 1 /\ x = b * p + s
    OBVIOUS
  <1>2. (q - p) * b = s - r
    BY <1>1
  <1>3. q - p >= 1 => (q - p) * b >= b
    BY <1>1
  <1>4. q - p <= -1 => (q - p) * b <= -b
    BY <1>1
  <1>5. q = p
    BY <1>1, <1>2, <1>3, <1>4
  <1> QED BY <1>1, <1>2, <1>5

LEMMA Quotient ==
  ASSUME NEW b \in Nat \ {0}, NEW x \in Int
  PROVE  x \div b \in Int /\ x % b \in 0 .. b - 1 /\ x = b * (x \div b) + (x % b)
  OBVIOUS

LEMMA Multiple ==
  ASSUME NEW b \in Nat \ {0}, NEW x \in Int
  PROVE  x % b = 0 <=> \E q \in Int : x = q * b
  <1>1. ASSUME x % b = 0 PROVE \E q \in Int : x = q * b
    <2>1. x \div b \in Int /\ x = b * (x \div b) + (x % b)
      BY Quotient
    <2> QED BY <1>1, <2>1
  <1>2. ASSUME NEW q \in Int, x = q * b PROVE x % b = 0
    <2>1. 0 \in 0 .. b - 1 /\ (q * b + 0) % b = 0
      BY Division
    <2> QED BY <1>2, <2>1
  <1> QED BY <1>1, <1>2

LEMMA AlignUpFact ==
  ASSUME NEW v \in Nat, NEW a \in Nat
  PROVE  AlignUp(v, a) \in Nat /\ AlignUp(v, a) >= v /\ (a > 0 => AlignUp(v, a) % a = 0)
  <1>1. CASE a > 1
    <2> DEFINE x == v + a - 1
    <2>0. a \in Nat \ {0} /\ x \in Int
      BY <1>1
    <2>1. x \in Nat /\ x % a \in 0 .. a - 1 /\ x \div a \in Int /\ x = a * (x \div a) + (x % a)
      <3>1. x \in Nat
        BY <1>1
      <3> HIDE DEF x
      <3> QED BY <2>0, <3>1, Quotient
    <2>2. AlignUp(v, a) = x - (x % a) /\ AlignUp(v, a) = (x \div a) * a
      BY <1>1, <2>1 DEF AlignUp
    <2>3. AlignUp(v, a) \in Int
      BY <2>1, <2>2
    <2> HIDE DEF x
    <2>4. AlignUp(v, a) % a = 0
      BY <2>0, <2>1, <2>2, <2>3, Multiple
    <2>5. x = v + a - 1
      BY DEF x
    <2> QED BY <1>1, <2>1, <2>2, <2>4, <2>5
  <1>2. CASE a = 1
    <2>1. AlignUp(v, a) = v /\ v % 1 = 0
      BY <1>2 DEF AlignUp
    <2> QED BY <1>2, <2>1
  <1>3. CASE a = 0
    BY <1>3 DEF AlignUp
  <1> QED BY <1>1, <1>2, <1>3

-----------------------------------------------------------------------------
(***************************************************************************)
(* The two loops of the layout, turn by turn: scn_data_layout over the     *)
(* data of a section, _elf32_layout over the sections.                     *)
(***************************************************************************)
EndAfter(d, k, end) ==
    IF Layout THEN AlignUp(end, d[k].d_align) + d[k].d_size
    ELSE Max({end, d[k].d_off + d[k].d_size})

DataTurns ==
    \A d \in Seq(Data) :
        /\ DataEnd(d)[0] = 0
        /\ \A k \in 1 .. Len(d) : DataEnd(d)[k] = EndAfter(d, k, DataEnd(d)[k - 1])

LEMMA DataTurn == DataTurns
  <1> SUFFICES ASSUME NEW d \in Seq(Data)
               PROVE  /\ DataEnd(d)[0] = 0
                      /\ \A k \in 1 .. Len(d) : DataEnd(d)[k] = EndAfter(d, k, DataEnd(d)[k - 1])
    BY DEF DataTurns
  <1> DEFINE n == Len(d)
             Body(f, m) == [k \in 0 .. m |-> IF k = 0 THEN 0 ELSE EndAfter(d, k, f[k - 1])]
             S == {m \in 0 .. n : \E f : f = Body(f, m)}
  <1>0. n \in Nat
    OBVIOUS
  <1>1. 0 \in S
    <2>1. [k \in 0 .. 0 |-> 0] = Body([k \in 0 .. 0 |-> 0], 0)
      OBVIOUS
    <2> HIDE DEF Body
    <2>2. \E f : f = Body(f, 0)
      BY <2>1
    <2> QED BY <1>0, <2>2
  <1>2. ASSUME NEW m \in 1 .. n, m - 1 \in S PROVE m \in S
    <2>1. PICK f : f = Body(f, m - 1)
      BY <1>2
    <2> DEFINE g == [k \in 0 .. m |-> IF k = m THEN EndAfter(d, m, f[m - 1]) ELSE f[k]]
    <2>2. g = Body(g, m)
      <3>1. ASSUME NEW k \in 0 .. m PROVE g[k] = Body(g, m)[k]
        <4>1. CASE k = m
          BY <1>0, <4>1
        <4>2. CASE k # m
          <5>1. k \in 0 .. m - 1 /\ f[k] = Body(f, m - 1)[k] /\ g[k] = f[k]
            BY <1>0, <2>1, <4>2
          <5>2. k # 0 => g[k - 1] = f[k - 1]
            BY <1>0, <4>2
          <5> QED BY <5>1, <5>2
        <4> QED BY <4>1, <4>2
      <3> QED BY <3>1
    <2> HIDE DEF Body, g
    <2>3. \E g_1 : g_1 = Body(g_1, m)
      BY <2>2
    <2> QED BY <2>3
  <1>3. n \in S
    <2> HIDE DEF S
    <2>1. 0 .. n \subseteq S
      BY <1>0, <1>1, <1>2, UpTo
    <2> QED BY <1>0, <2>1
  <1>4. DataEnd(d) = CHOOSE f : f = Body(f, n)
    BY DEF DataEnd, EndAfter
  <1>5. DataEnd(d) = Body(DataEnd(d), n)
    <2> HIDE DEF Body
    <2> QED BY <1>3, <1>4
  <1> QED BY <1>0, <1>5

TurnOf(at, i, bad) == IF at.says = "ok" THEN PlaceScn(at, i, bad) ELSE at

ScnTurns ==
    \A bad \in Nat :
        /\ Turns(bad)[0] = AfterPhdrs
        /\ \A i \in 1 .. Len(scns) : Turns(bad)[i] = TurnOf(Turns(bad)[i - 1], i, bad)

LEMMA ScnTurn == scns \in Seq(Scn) => ScnTurns
  <1> SUFFICES ASSUME scns \in Seq(Scn), NEW bad \in Nat
               PROVE  /\ Turns(bad)[0] = AfterPhdrs
                      /\ \A i \in 1 .. Len(scns) : Turns(bad)[i] = TurnOf(Turns(bad)[i - 1], i, bad)
    BY DEF ScnTurns
  <1> DEFINE n == Len(scns)
             Body(f, m) == [i \in 0 .. m |-> IF i = 0 THEN AfterPhdrs ELSE TurnOf(f[i - 1], i, bad)]
             S == {m \in 0 .. n : \E f : f = Body(f, m)}
  <1>0. n \in Nat
    OBVIOUS
  <1>1. 0 \in S
    <2>1. [i \in 0 .. 0 |-> AfterPhdrs] = Body([i \in 0 .. 0 |-> AfterPhdrs], 0)
      OBVIOUS
    <2> HIDE DEF Body
    <2>2. \E f : f = Body(f, 0)
      BY <2>1
    <2> QED BY <1>0, <2>2
  <1>2. ASSUME NEW m \in 1 .. n, m - 1 \in S PROVE m \in S
    <2>1. PICK f : f = Body(f, m - 1)
      BY <1>2
    <2> DEFINE g == [i \in 0 .. m |-> IF i = m THEN TurnOf(f[m - 1], m, bad) ELSE f[i]]
    <2>2. g = Body(g, m)
      <3>1. ASSUME NEW i \in 0 .. m PROVE g[i] = Body(g, m)[i]
        <4>1. CASE i = m
          BY <1>0, <4>1
        <4>2. CASE i # m
          <5>1. i \in 0 .. m - 1 /\ f[i] = Body(f, m - 1)[i] /\ g[i] = f[i]
            BY <1>0, <2>1, <4>2
          <5>2. i # 0 => g[i - 1] = f[i - 1]
            BY <1>0, <4>2
          <5> QED BY <5>1, <5>2
        <4> QED BY <4>1, <4>2
      <3> QED BY <3>1
    <2> HIDE DEF Body, g
    <2>3. \E f_1 : f_1 = Body(f_1, m)
      BY <2>2
    <2> QED BY <2>3
  <1>3. n \in S
    <2> HIDE DEF S
    <2>1. 0 .. n \subseteq S
      BY <1>0, <1>1, <1>2, UpTo
    <2> QED BY <1>0, <2>1
  <1>4. Turns(bad) = CHOOSE f : f = Body(f, n)
    BY DEF Turns, TurnOf
  <1>5. Turns(bad) = Body(Turns(bad), n)
    <2> HIDE DEF Body
    <2> QED BY <1>3, <1>4
  <1> QED BY <1>0, <1>5

-----------------------------------------------------------------------------
(***************************************************************************)
(* Data within a section.                                                  *)
(***************************************************************************)
LEMMA DataFact ==
  ASSUME NEW d \in Seq(Data), NEW k \in 1 .. Len(d)
  PROVE  d[k] \in Data /\ d[k].d_off \in Nat /\ d[k].d_align \in Nat /\ d[k].d_size \in Nat
         /\ d[k].d_buf \in Seq(Byte)
  <1>1. d[k] \in Data
    OBVIOUS
  <1> QED BY <1>1 DEF Data

LEMMA DataEndType ==
  ASSUME NEW d \in Seq(Data), NEW k \in 0 .. Len(d)
  PROVE  DataEnd(d)[k] \in Nat
  <1> DEFINE S == {i \in 0 .. Len(d) : DataEnd(d)[i] \in Nat}
  <1>1. 0 \in S
    BY DataTurn DEF DataTurns
  <1>2. ASSUME NEW i \in 1 .. Len(d), i - 1 \in S PROVE i \in S
    <2> DEFINE e == DataEnd(d)[i - 1]
    <2>1. e \in Nat /\ DataEnd(d)[i] = EndAfter(d, i, e)
      BY <1>2, DataTurn DEF DataTurns
    <2>2. d[i].d_off \in Nat /\ d[i].d_align \in Nat /\ d[i].d_size \in Nat
      BY DataFact
    <2> HIDE DEF e
    <2>3. AlignUp(e, d[i].d_align) \in Nat /\ Max({e, d[i].d_off + d[i].d_size}) \in Nat
      <3>1. d[i].d_off + d[i].d_size \in Nat
        BY <2>2
      <3> QED BY <2>1, <2>2, <3>1, AlignUpFact, MaxOfTwo
    <2>4. EndAfter(d, i, e) \in Nat
      BY <2>2, <2>3 DEF EndAfter
    <2> QED BY <2>1, <2>4
  <1>3. Len(d) \in Nat
    OBVIOUS
  <1> HIDE DEF S
  <1>4. 0 .. Len(d) \subseteq S
    BY <1>1, <1>2, <1>3, UpTo
  <1> QED BY <1>4 DEF S

\* Where the datum k ends, and that those before it end before that.
LEMMA DataEndStep ==
  ASSUME NEW d \in Seq(Data), NEW k \in 1 .. Len(d)
  PROVE  /\ DataEnd(d)[k] \in Nat /\ DataEnd(d)[k - 1] \in Nat
         /\ DataEnd(d)[k - 1] <= DataEnd(d)[k]
         /\ PlacedData(d)[k].d_off + d[k].d_size <= DataEnd(d)[k]
  <1> DEFINE e == DataEnd(d)[k - 1]
  <1>1. e \in Nat /\ DataEnd(d)[k] \in Nat
    BY DataEndType
  <1>2. DataEnd(d)[k] = EndAfter(d, k, e)
    BY DataTurn DEF DataTurns
  <1>3. PlacedData(d)[k].d_off = IF Layout THEN AlignUp(e, d[k].d_align) ELSE d[k].d_off
    BY DataFact DEF PlacedData, Data
  <1>4. d[k].d_off \in Nat /\ d[k].d_align \in Nat /\ d[k].d_size \in Nat
    BY DataFact
  <1> HIDE DEF e
  <1>5. AlignUp(e, d[k].d_align) \in Nat /\ AlignUp(e, d[k].d_align) >= e
    BY <1>1, <1>4, AlignUpFact
  <1>6. /\ Max({e, d[k].d_off + d[k].d_size}) >= e
        /\ Max({e, d[k].d_off + d[k].d_size}) >= d[k].d_off + d[k].d_size
    <2>1. d[k].d_off + d[k].d_size \in Nat
      BY <1>4
    <2> QED BY <1>1, <2>1, MaxOfTwo
  <1>7. CASE Layout
    BY <1>1, <1>2, <1>3, <1>4, <1>5, <1>7 DEF EndAfter, e
  <1>8. CASE ~Layout
    BY <1>1, <1>2, <1>3, <1>4, <1>6, <1>8 DEF EndAfter, e
  <1> QED BY <1>7, <1>8

LEMMA DataInside ==
  ASSUME NEW d \in Seq(Data), NEW k \in 1 .. Len(d)
  PROVE  DataEnd(d)[k] <= DataEnd(d)[Len(d)]
  <1> DEFINE S == {i \in 0 .. Len(d) : i >= k => DataEnd(d)[k] <= DataEnd(d)[i]}
  <1>1. 0 \in S
    OBVIOUS
  <1>2. ASSUME NEW i \in 1 .. Len(d), i - 1 \in S PROVE i \in S
    <2>1. DataEnd(d)[i] \in Nat /\ DataEnd(d)[i - 1] \in Nat /\ DataEnd(d)[i - 1] <= DataEnd(d)[i]
      BY DataEndStep
    <2>2. DataEnd(d)[k] \in Nat
      BY DataEndType
    <2> QED BY <1>2, <2>1, <2>2
  <1>3. Len(d) \in Nat
    OBVIOUS
  <1> HIDE DEF S
  <1>4. 0 .. Len(d) \subseteq S
    BY <1>1, <1>2, <1>3, UpTo
  <1> QED BY <1>3, <1>4 DEF S

LEMMA PlacedFact ==
  ASSUME NEW d \in Seq(Data)
  PROVE  /\ PlacedData(d) \in Seq(Data) /\ Len(PlacedData(d)) = Len(d)
         /\ \A k \in 1 .. Len(d) :
               /\ PlacedData(d)[k].d_align = d[k].d_align
               /\ PlacedData(d)[k].d_size = d[k].d_size
               /\ PlacedData(d)[k].d_buf = d[k].d_buf
               /\ PlacedData(d)[k].d_off = IF Layout THEN AlignUp(DataEnd(d)[k - 1], d[k].d_align)
                                           ELSE d[k].d_off
  <1>1. ASSUME NEW k \in 1 .. Len(d)
        PROVE  /\ PlacedData(d)[k] \in Data
               /\ PlacedData(d)[k].d_align = d[k].d_align
               /\ PlacedData(d)[k].d_size = d[k].d_size
               /\ PlacedData(d)[k].d_buf = d[k].d_buf
               /\ PlacedData(d)[k].d_off = IF Layout THEN AlignUp(DataEnd(d)[k - 1], d[k].d_align)
                                           ELSE d[k].d_off
    <2> DEFINE off == AlignUp(DataEnd(d)[k - 1], d[k].d_align)
    <2>1. off \in Nat
      BY DataEndStep, DataFact, AlignUpFact
    <2>2. PlacedData(d)[k] = IF Layout THEN [d[k] EXCEPT !.d_off = off] ELSE d[k]
      BY DEF PlacedData
    <2> HIDE DEF off
    <2>3. d[k] \in Data
      OBVIOUS
    <2>4. /\ PlacedData(d)[k] \in Data
          /\ PlacedData(d)[k].d_align = d[k].d_align
          /\ PlacedData(d)[k].d_size = d[k].d_size
          /\ PlacedData(d)[k].d_buf = d[k].d_buf
          /\ PlacedData(d)[k].d_off = IF Layout THEN off ELSE d[k].d_off
      BY <2>1, <2>2, <2>3 DEF Data
    <2> QED BY <2>4 DEF off
  <1>2. PlacedData(d) = [k \in 1 .. Len(d) |-> PlacedData(d)[k]] /\ Len(d) \in Nat
    BY DEF PlacedData
  <1>3. PlacedData(d) \in [1 .. Len(d) -> Data]
    BY <1>1, <1>2
  <1>4. PlacedData(d) \in Seq(Data) /\ Len(PlacedData(d)) = Len(d)
    BY <1>2, <1>3, SeqDef
  <1> QED BY <1>1, <1>4

LEMMA ScnAlignFact ==
  ASSUME NEW d \in Seq(Data)
  PROVE  /\ ScnAlign(d) \in Nat \ {0}
         /\ \A k \in 1 .. Len(d) : d[k].d_align <= ScnAlign(d)
         /\ ScnAlign(d) = 1 \/ \E k \in 1 .. Len(d) : ScnAlign(d) = d[k].d_align
  <1> DEFINE A == {1} \cup {d[k].d_align : k \in DOMAIN d}
             S == {i \in 0 .. Len(d) : \E u \in Nat \ {0} : \A k \in 1 .. i : d[k].d_align <= u}
  <1>0. Len(d) \in Nat /\ DOMAIN d = 1 .. Len(d)
    OBVIOUS
  <1>1. 0 \in S
    BY <1>0
  <1>2. ASSUME NEW i \in 1 .. Len(d), i - 1 \in S PROVE i \in S
    <2>1. PICK u \in Nat \ {0} : \A k \in 1 .. i - 1 : d[k].d_align <= u
      BY <1>2
    <2>2. \A k \in 1 .. Len(d) : d[k].d_align \in Nat
      BY DataFact
    <2> DEFINE v == u + d[i].d_align
    <2>3. v \in Nat \ {0} /\ \A k \in 1 .. i : d[k].d_align <= v
      BY <2>1, <2>2
    <2> HIDE DEF v
    <2>4. \E w \in Nat \ {0} : \A k \in 1 .. i : d[k].d_align <= w
      BY <2>3
    <2> QED BY <2>4
  <1>3. PICK u \in Nat \ {0} : \A k \in 1 .. Len(d) : d[k].d_align <= u
    <2> HIDE DEF S
    <2>1. 0 .. Len(d) \subseteq S
      BY <1>0, <1>1, <1>2, UpTo
    <2>2. Len(d) \in S
      BY <1>0, <2>1
    <2> QED BY <2>2 DEF S
  <1>4. A \in SUBSET Nat /\ 1 \in A /\ \A y \in A : y <= u
    BY <1>0, <1>3, DataFact
  <1> HIDE DEF A
  <1>5. Max(A) \in A /\ \A y \in A : Max(A) >= y
    BY <1>4, MaxFact
  <1>6. ScnAlign(d) = Max(A)
    BY DEF ScnAlign, A
  <1>7. \A k \in 1 .. Len(d) : d[k].d_align \in A
    BY <1>0 DEF A
  <1>8. Max(A) \in Nat /\ Max(A) >= 1
    BY <1>4, <1>5
  <1>9. Max(A) = 1 \/ \E k \in 1 .. Len(d) : Max(A) = d[k].d_align
    BY <1>0, <1>5 DEF A
  <1> QED BY <1>5, <1>6, <1>7, <1>8, <1>9

-----------------------------------------------------------------------------
(***************************************************************************)
(* One turn of the loop over the sections.                                 *)
(***************************************************************************)
Says == {"ok", "bad", "small", "overlap"}

Turn == [scns : Seq(Scn), off : Nat \ {0}, says : Says]

LEMMA ShdrFact ==
  ASSUME NEW h \in Shdr
  PROVE  /\ h.sh_offset \in Nat /\ h.sh_size \in Nat /\ h.sh_addralign \in Nat
         /\ h.sh_info \in Nat /\ h.sh_type \in {"null", "bits", "nobits"}
         /\ FileEnd(h) \in Nat /\ h.sh_offset <= FileEnd(h)
  <1>1. /\ h.sh_offset \in Nat /\ h.sh_size \in Nat /\ h.sh_addralign \in Nat
        /\ h.sh_info \in Nat /\ h.sh_type \in {"null", "bits", "nobits"}
    BY DEF Shdr
  <1> QED BY <1>1 DEF FileEnd

LEMMA RewriteFact ==
  ASSUME NEW s \in Scn, NEW h \in Shdr
  PROVE  /\ Rewrite(s, h) \in Scn
         /\ Rewrite(s, h).s_shdr = h /\ Rewrite(s, h).s_data = s.s_data
         /\ Rewrite(s, h).d_flag = s.d_flag /\ Rewrite(s, h).s_null = s.s_null
  BY DEF Rewrite, Scn

LEMMA RewriteDataFact ==
  ASSUME NEW s \in Scn
  PROVE  /\ RewriteData(s) \in Scn
         /\ RewriteData(s).s_shdr = s.s_shdr /\ RewriteData(s).s_data = PlacedData(s.s_data)
         /\ RewriteData(s).s_null = s.s_null
  <1>1. s.s_data \in Seq(Data)
    BY DEF Scn
  <1>2. PlacedData(s.s_data) \in Seq(Data)
    BY <1>1, PlacedFact
  <1> QED BY <1>2 DEF RewriteData, Scn

FirstHeader(h) == [h EXCEPT !.sh_offset = 0, !.sh_size = 0, !.sh_addralign = 0]

LEMMA PlaceFirstFact ==
  ASSUME NEW at \in Turn, Len(at.scns) >= 1
  PROVE  /\ PlaceFirst(at) \in Turn /\ Len(PlaceFirst(at).scns) = Len(at.scns)
         /\ \A j \in 2 .. Len(at.scns) : PlaceFirst(at).scns[j] = at.scns[j]
         /\ PlaceFirst(at).off = at.off /\ PlaceFirst(at).says = at.says
         /\ PlaceFirst(at).scns[1].s_data = at.scns[1].s_data
         /\ PlaceFirst(at).scns[1].s_shdr = IF Layout THEN FirstHeader(at.scns[1].s_shdr)
                                            ELSE at.scns[1].s_shdr
  <1>0. at.scns \in Seq(Scn) /\ 1 \in 1 .. Len(at.scns) /\ at.off \in Nat \ {0} /\ at.says \in Says
    BY DEF Turn
  <1>1. at.scns[1] \in Scn /\ at.scns[1].s_shdr \in Shdr
    <2>1. at.scns[1] \in Scn
      BY <1>0
    <2> QED BY <2>1 DEF Scn
  <1> DEFINE s == Rewrite(at.scns[1], FirstHeader(at.scns[1].s_shdr))
             ss == [at.scns EXCEPT ![1] = s]
  <1>2. FirstHeader(at.scns[1].s_shdr) \in Shdr
    BY <1>1 DEF FirstHeader, Shdr
  <1>3. s \in Scn /\ s.s_shdr = FirstHeader(at.scns[1].s_shdr) /\ s.s_data = at.scns[1].s_data
    BY <1>1, <1>2, RewriteFact
  <1> HIDE DEF s
  <1>4. ss \in Seq(Scn) /\ Len(ss) = Len(at.scns) /\ ss[1] = s
        /\ \A j \in 2 .. Len(at.scns) : ss[j] = at.scns[j]
    BY <1>0, <1>3, ExceptSeq
  <1>5. CASE Layout
    <2>1. PlaceFirst(at) = [at EXCEPT !.scns = ss]
      BY <1>5 DEF PlaceFirst, s, FirstHeader
    <2> HIDE DEF ss
    <2>2. PlaceFirst(at) \in Turn /\ PlaceFirst(at).scns = ss
          /\ PlaceFirst(at).off = at.off /\ PlaceFirst(at).says = at.says
      BY <1>4, <2>1 DEF Turn
    <2> QED BY <1>3, <1>4, <1>5, <2>2
  <1>6. CASE ~Layout
    BY <1>6 DEF PlaceFirst
  <1> QED BY <1>5, <1>6

\* The header and the end of a section the library places behind off.
LibOffset(s, off) == AlignUp(off, ScnAlign(s.s_data))

LibHeader(s, off) ==
    [s.s_shdr EXCEPT !.sh_offset = LibOffset(s, off),
                     !.sh_size = DataEnd(s.s_data)[Len(s.s_data)],
                     !.sh_addralign = ScnAlign(s.s_data)]

LEMMA LibHeaderFact ==
  ASSUME NEW s \in Scn, NEW off \in Nat
  PROVE  /\ LibHeader(s, off) \in Shdr
         /\ LibHeader(s, off).sh_offset >= off
         /\ LibHeader(s, off).sh_offset % ScnAlign(s.s_data) = 0
         /\ LibHeader(s, off).sh_type = s.s_shdr.sh_type
         /\ LibHeader(s, off).sh_size = DataEnd(s.s_data)[Len(s.s_data)]
  <1>1. s.s_data \in Seq(Data) /\ s.s_shdr \in Shdr /\ Len(s.s_data) \in Nat
    BY DEF Scn
  <1>2. ScnAlign(s.s_data) \in Nat \ {0} /\ DataEnd(s.s_data)[Len(s.s_data)] \in Nat
    BY <1>1, ScnAlignFact, DataEndType
  <1>3. /\ LibOffset(s, off) \in Nat /\ LibOffset(s, off) >= off
        /\ LibOffset(s, off) % ScnAlign(s.s_data) = 0
    <2> DEFINE a == ScnAlign(s.s_data)
    <2>1. a \in Nat /\ a > 0
      BY <1>2
    <2> HIDE DEF a
    <2>2. AlignUp(off, a) \in Nat /\ AlignUp(off, a) >= off /\ AlignUp(off, a) % a = 0
      BY <2>1, AlignUpFact
    <2> QED BY <2>2 DEF LibOffset, a
  <1> QED BY <1>1, <1>2, <1>3 DEF LibHeader, Shdr

LEMMA PlaceByLibraryFact ==
  ASSUME NEW at \in Turn, NEW i \in 1 .. Len(at.scns)
  PROVE  LET r == PlaceByLibrary(at, i)
             s == at.scns[i]
             h == LibHeader(s, at.off)
         IN  /\ r \in Turn /\ Len(r.scns) = Len(at.scns)
             /\ \A j \in 1 .. Len(at.scns) : j # i => r.scns[j] = at.scns[j]
             /\ r.says = at.says
             /\ r.scns[i].s_shdr = h /\ r.scns[i].s_data = PlacedData(s.s_data)
             /\ r.scns[i].s_null = s.s_null
             /\ r.off = FileEnd(h)
  <1> DEFINE r == PlaceByLibrary(at, i)
             s == at.scns[i]
             h == LibHeader(s, at.off)
             t == Rewrite(RewriteData(s), h)
             ss == [at.scns EXCEPT ![i] = t]
  <1>0. at.scns \in Seq(Scn) /\ at.off \in Nat \ {0} /\ at.says \in Says
    BY DEF Turn
  <1>1. s \in Scn
    BY <1>0
  <1>2. h \in Shdr /\ h.sh_offset >= at.off
    BY <1>0, <1>1, LibHeaderFact
  <1>3. RewriteData(s) \in Scn /\ RewriteData(s).s_data = PlacedData(s.s_data)
        /\ RewriteData(s).s_null = s.s_null
    BY <1>1, RewriteDataFact
  <1>4. t \in Scn /\ t.s_shdr = h /\ t.s_data = PlacedData(s.s_data) /\ t.s_null = s.s_null
    BY <1>2, <1>3, RewriteFact
  <1>5. r = [at EXCEPT !.scns = ss, !.off = FileEnd(h)]
    <2>1. h.sh_offset = AlignUp(at.off, ScnAlign(at.scns[i].s_data))
      <3>1. s.s_shdr \in Shdr
        BY <1>1 DEF Scn
      <3> QED BY <3>1 DEF LibHeader, LibOffset, Shdr
    <2>2. h.sh_offset \in Nat /\ h.sh_size \in Nat
      BY <1>2, ShdrFact
    <2>3. FileEnd(h) = IF h.sh_type = "nobits" THEN h.sh_offset ELSE h.sh_offset + h.sh_size
      BY <2>2 DEF FileEnd
    <2>4. r = [at EXCEPT !.scns = ss,
                         !.off = IF h.sh_type = "nobits" THEN AlignUp(at.off, ScnAlign(at.scns[i].s_data))
                                 ELSE AlignUp(at.off, ScnAlign(at.scns[i].s_data)) + h.sh_size]
      BY <1>0 DEF PlaceByLibrary, LibHeader, LibOffset, Turn
    <2> QED BY <2>1, <2>3, <2>4
  <1> HIDE DEF t, h
  <1>6. /\ ss \in Seq(Scn) /\ Len(ss) = Len(at.scns) /\ ss[i] = t
        /\ \A j \in 1 .. Len(at.scns) : j # i => ss[j] = at.scns[j]
    BY <1>0, <1>4, ExceptSeq
  <1>7. FileEnd(h) \in Nat \ {0}
    <2>1. FileEnd(h) \in Nat /\ h.sh_offset <= FileEnd(h) /\ h.sh_offset \in Nat
      BY <1>2, ShdrFact
    <2> QED BY <1>0, <1>2, <2>1
  <1> HIDE DEF ss, r
  <1>8. r \in Turn /\ r.scns = ss /\ r.off = FileEnd(h) /\ r.says = at.says
    BY <1>0, <1>5, <1>6, <1>7 DEF Turn
  <1> QED BY <1>4, <1>6, <1>8 DEF r, h

LEMMA PlaceByProgramFact ==
  ASSUME NEW at \in Turn, NEW i \in 1 .. Len(at.scns), at.says = "ok"
  PROVE  LET r == PlaceByProgram(at, i)
             s == at.scns[i]
         IN  /\ r \in Turn /\ r.scns = at.scns /\ r.off >= at.off
             /\ r.says = "ok" => /\ DataEnd(s.s_data)[Len(s.s_data)] <= s.s_shdr.sh_size
                                 /\ ~Refused(at, i)
                                 /\ r.off = Max({at.off, FileEnd(s.s_shdr)})
                                 /\ r.off >= FileEnd(s.s_shdr)
             /\ (/\ DataEnd(s.s_data)[Len(s.s_data)] <= s.s_shdr.sh_size
                 /\ ~Refused(at, i))
                => r.says = "ok"
  <1> DEFINE r == PlaceByProgram(at, i)
             s == at.scns[i]
             end == DataEnd(s.s_data)[Len(s.s_data)]
             max == Max({at.off, FileEnd(s.s_shdr)})
  <1>0. at.scns \in Seq(Scn) /\ at.off \in Nat \ {0} /\ at.says \in Says
    BY DEF Turn
  <1>1. s \in Scn
    BY <1>0
  <1>2. s.s_shdr \in Shdr /\ s.s_data \in Seq(Data) /\ Len(s.s_data) \in Nat
    BY <1>1 DEF Scn
  <1>3. end \in Nat /\ s.s_shdr.sh_size \in Nat /\ FileEnd(s.s_shdr) \in Nat
    BY <1>2, DataEndType, ShdrFact
  <1>4. max \in Nat \ {0} /\ max >= at.off /\ max >= FileEnd(s.s_shdr)
    BY <1>0, <1>3, MaxOfTwo
  <1>5. CASE end > s.s_shdr.sh_size
    <2>1. r = [at EXCEPT !.says = "small"]
      BY <1>5 DEF PlaceByProgram
    <2> HIDE DEF s, end, r
    <2>2. r \in Turn /\ r.scns = at.scns /\ r.off = at.off /\ r.says = "small"
      BY <1>0, <2>1 DEF Turn, Says
    <2> QED BY <1>0, <1>3, <1>5, <2>2 DEF s, end, r
  <1>6. CASE ~(end > s.s_shdr.sh_size) /\ Refused(at, i)
    <2>1. r = [at EXCEPT !.says = "overlap"]
      BY <1>6 DEF PlaceByProgram
    <2> HIDE DEF s, end, r
    <2>2. r \in Turn /\ r.scns = at.scns /\ r.off = at.off /\ r.says = "overlap"
      BY <1>0, <2>1 DEF Turn, Says
    <2> QED BY <1>0, <1>6, <2>2 DEF s, end, r
  <1>7. CASE ~(end > s.s_shdr.sh_size) /\ ~Refused(at, i)
    <2>1. r = [at EXCEPT !.off = max]
      BY <1>0, <1>7 DEF PlaceByProgram, Turn
    <2> HIDE DEF s, end, r, max
    <2>2. r \in Turn /\ r.scns = at.scns /\ r.off = max /\ r.says = "ok"
      BY <1>0, <1>4, <2>1 DEF Turn
    <2> QED BY <1>0, <1>3, <1>4, <1>7, <2>2 DEF s, end, r, max
  <1> QED BY <1>5, <1>6, <1>7

\* What one turn does to whatever section i is.
LEMMA TurnFact ==
  ASSUME NEW at \in Turn, NEW i \in 1 .. Len(at.scns), NEW bad \in Nat
  PROVE  LET r == TurnOf(at, i, bad)
         IN  /\ r \in Turn /\ Len(r.scns) = Len(at.scns)
             /\ \A j \in 1 .. Len(at.scns) : j # i => r.scns[j] = at.scns[j]
             /\ r.off >= at.off
             /\ r.says = "ok" => at.says = "ok"
  <1>0. at.off \in Nat /\ at.says \in Says
    BY DEF Turn
  <1>1. CASE at.says # "ok"
    BY <1>0, <1>1 DEF TurnOf
  <1>2. CASE at.says = "ok" /\ i = 1
    <2>1. TurnOf(at, i, bad) = PlaceFirst(at)
      BY <1>2 DEF TurnOf, PlaceScn
    <2>2. Len(at.scns) \in Nat /\ Len(at.scns) >= 1 /\ \A j \in 1 .. Len(at.scns) : j # 1 => j \in 2 .. Len(at.scns)
      BY <1>2 DEF Turn
    <2> QED BY <1>0, <1>2, <2>1, <2>2, PlaceFirstFact
  <1>3. CASE at.says = "ok" /\ i # 1
    <2> DEFINE null == at.scns[i].s_shdr.sh_type = "null"
               lost == scns[i].s_null \/ (i = bad /\ at.scns[i].s_data # << >>)
    <2>1. CASE null
      BY <1>0, <1>3, <2>1 DEF TurnOf, PlaceScn
    <2>2. CASE ~null /\ lost
      <3>1. TurnOf(at, i, bad) = [at EXCEPT !.says = "bad"]
        BY <1>3, <2>2 DEF TurnOf, PlaceScn
      <3> QED BY <1>0, <1>3, <3>1 DEF Turn, Says
    <2>3. CASE ~null /\ ~lost /\ Layout
      <3>1. TurnOf(at, i, bad) = PlaceByLibrary(at, i)
        BY <1>3, <2>3 DEF TurnOf, PlaceScn
      <3> DEFINE h == LibHeader(at.scns[i], at.off)
      <3>2. at.scns[i] \in Scn
        BY DEF Turn
      <3>3. h \in Shdr /\ h.sh_offset >= at.off
        BY <1>0, <3>2, LibHeaderFact
      <3>4. FileEnd(h) >= at.off
        <4> HIDE DEF h
        <4> QED BY <1>0, <3>3, ShdrFact
      <3> QED BY <1>3, <3>1, <3>4, PlaceByLibraryFact
    <2>4. CASE ~null /\ ~lost /\ ~Layout
      <3>1. TurnOf(at, i, bad) = PlaceByProgram(at, i)
        BY <1>3, <2>4 DEF TurnOf, PlaceScn
      <3> QED BY <1>3, <3>1, PlaceByProgramFact
    <2> QED BY <2>1, <2>2, <2>3, <2>4
  <1> QED BY <1>0, <1>1, <1>2, <1>3 DEF Says

-----------------------------------------------------------------------------
(***************************************************************************)
(* The whole loop.                                                         *)
(***************************************************************************)
LayoutType ==
    /\ e_class \in Classes /\ ehdr \in Ehdr /\ e_phnum \in Nat /\ scns \in Seq(Scn)
    /\ e_phnum >= PnXnum => scns # << >>

LEMMA Constants ==
  /\ {AddrAlign, LoReserve, PnXnum, Word} \subseteq Nat \ {0} /\ LoReserve > 1
  /\ Classes \subseteq {32, 64}
  BY UpdateAssumption DEF UpdateAssumption

LEMMA ExtendedPhnumFact ==
  ASSUME NEW h \in Shdr, e_phnum \in Nat
  PROVE  ExtendedPhnum(h) \in Shdr /\ ExtendedPhnum(h).sh_type = h.sh_type
  <1>1. CASE e_class = 32
    BY <1>1 DEF ExtendedPhnum, Shdr
  <1>2. CASE e_class # 32
    <2> DEFINE off == (h.sh_offset % Word) + e_phnum * Word
    <2>1. Word \in Nat \ {0} /\ h.sh_offset \in Nat
      BY Constants, ShdrFact
    <2>2. h.sh_offset % Word \in Nat
      BY <2>1
    <2>3. off \in Nat
      BY <2>1, <2>2
    <2>4. ExtendedPhnum(h) = [h EXCEPT !.sh_offset = off]
      BY <1>2 DEF ExtendedPhnum, Shdr
    <2> HIDE DEF off
    <2> QED BY <2>3, <2>4 DEF Shdr
  <1> QED BY <1>1, <1>2

LEMMA PhoffFact ==
  ASSUME LayoutType
  PROVE  /\ Phoff \in Nat
         /\ Layout => Phoff % AddrAlign = 0
         /\ Layout /\ e_phnum > 0 => Phoff >= 1
  <1>1. AddrAlign \in Nat \ {0} /\ ehdr.e_phoff \in Nat /\ e_phnum \in Nat
    BY Constants DEF LayoutType, Ehdr
  <1>2. /\ AlignUp(1, AddrAlign) \in Nat /\ AlignUp(1, AddrAlign) >= 1
        /\ AlignUp(1, AddrAlign) % AddrAlign = 0
    <2>1. 1 \in Nat /\ AddrAlign \in Nat /\ AddrAlign > 0
      BY <1>1
    <2> QED BY <2>1, AlignUpFact
  <1>3. 0 % AddrAlign = 0
    BY <1>1
  <1> QED BY <1>1, <1>2, <1>3 DEF Phoff

FirstOf(ss) == IF e_phnum >= PnXnum THEN ExtendedPhnum(ss[1].s_shdr) ELSE ss[1].s_shdr

LEMMA AfterPhdrsFact ==
  ASSUME LayoutType
  PROVE  /\ AfterPhdrs \in Turn /\ Len(AfterPhdrs.scns) = Len(scns) /\ AfterPhdrs.says = "ok"
         /\ \A j \in 2 .. Len(scns) : AfterPhdrs.scns[j] = scns[j]
         /\ scns # << >> => AfterPhdrs.scns[1].s_shdr = FirstOf(scns)
         /\ scns # << >> => AfterPhdrs.scns[1].s_data = scns[1].s_data
         /\ e_phnum > 0 => AfterPhdrs.off >= Phoff + e_phnum
         /\ AfterPhdrs.off = IF e_phnum = 0 THEN 1 ELSE Max({1, Phoff + e_phnum})
  <1> DEFINE ss == IF e_phnum >= PnXnum
                   THEN [scns EXCEPT ![1] = Rewrite(@, ExtendedPhnum(@.s_shdr))] ELSE scns
             off == IF e_phnum = 0 THEN 1 ELSE Max({1, Phoff + e_phnum})
  <1>1. scns \in Seq(Scn) /\ e_phnum \in Nat /\ Phoff \in Nat
    BY PhoffFact DEF LayoutType
  <1>2. off \in Nat \ {0} /\ (e_phnum > 0 => off >= Phoff + e_phnum)
    <2>1. Phoff + e_phnum \in Nat
      BY <1>1
    <2>2. Max({1, Phoff + e_phnum}) >= 1 /\ Max({1, Phoff + e_phnum}) >= Phoff + e_phnum
          /\ Max({1, Phoff + e_phnum}) \in {1, Phoff + e_phnum}
      BY <2>1, MaxOfTwo
    <2> QED BY <1>1, <2>1, <2>2
  <1>3. /\ ss \in Seq(Scn) /\ Len(ss) = Len(scns)
        /\ \A j \in 2 .. Len(scns) : ss[j] = scns[j]
        /\ scns # << >> => ss[1].s_shdr = FirstOf(scns) /\ ss[1].s_data = scns[1].s_data
    <2>1. CASE e_phnum >= PnXnum
      <3>1. scns # << >> /\ 1 \in 1 .. Len(scns)
        BY <1>1, <2>1 DEF LayoutType
      <3>2. scns[1] \in Scn
        BY <1>1, <3>1
      <3>3. scns[1].s_shdr \in Shdr
        BY <3>2 DEF Scn
      <3> DEFINE s == Rewrite(scns[1], ExtendedPhnum(scns[1].s_shdr))
      <3>4. s \in Scn /\ s.s_shdr = ExtendedPhnum(scns[1].s_shdr) /\ s.s_data = scns[1].s_data
        BY <1>1, <3>2, <3>3, ExtendedPhnumFact, RewriteFact
      <3>5. ss = [scns EXCEPT ![1] = s]
        BY <2>1
      <3> HIDE DEF s, ss
      <3>6. /\ ss \in Seq(Scn) /\ Len(ss) = Len(scns) /\ ss[1] = s
            /\ \A j \in 1 .. Len(scns) : j # 1 => ss[j] = scns[j]
        BY <1>1, <3>1, <3>4, <3>5, ExceptSeq
      <3>7. \A j \in 2 .. Len(scns) : j \in 1 .. Len(scns) /\ j # 1
        BY <1>1
      <3> QED BY <2>1, <3>4, <3>6, <3>7 DEF FirstOf
    <2>2. CASE ~(e_phnum >= PnXnum)
      BY <1>1, <2>2 DEF FirstOf
    <2> QED BY <2>1, <2>2
  <1>4. AfterPhdrs = [scns |-> ss, off |-> off, says |-> "ok"]
    BY DEF AfterPhdrs
  <1> HIDE DEF ss, off
  <1>5. AfterPhdrs \in Turn /\ AfterPhdrs.scns = ss /\ AfterPhdrs.off = off /\ AfterPhdrs.says = "ok"
    BY <1>2, <1>3, <1>4 DEF Turn, Says
  <1> QED BY <1>2, <1>3, <1>5 DEF off

\* A section keeps its place until its turn, and after it.
Looped(bad) ==
    /\ \A i \in 0 .. Len(scns) : Turns(bad)[i] \in Turn /\ Len(Turns(bad)[i].scns) = Len(scns)
    /\ \A i \in 0 .. Len(scns) : \A j \in 2 .. Len(scns) : j > i => Turns(bad)[i].scns[j] = scns[j]
    /\ \A i \in 0 .. Len(scns) : \A j \in 1 .. i : Turns(bad)[i].scns[j] = Turns(bad)[j].scns[j]
    /\ \A i \in 0 .. Len(scns) : \A k \in 0 .. i :
          /\ Turns(bad)[k].off <= Turns(bad)[i].off
          /\ Turns(bad)[i].says = "ok" => Turns(bad)[k].says = "ok"

LEMMA LoopFact ==
  ASSUME LayoutType, NEW bad \in Nat
  PROVE  Looped(bad)
  <1> DEFINE n == Len(scns)
             T == Turns(bad)
             Good(i) == T[i] \in Turn /\ Len(T[i].scns) = n
             Later(i) == \A j \in 2 .. n : j > i => T[i].scns[j] = scns[j]
             Kept(i) == \A j \in 1 .. i : T[i].scns[j] = T[j].scns[j]
             Grows(i) == \A k \in 0 .. i : /\ T[k].off \in Nat /\ T[k].off <= T[i].off
                                           /\ T[i].says = "ok" => T[k].says = "ok"
             S == {i \in 0 .. n : Good(i) /\ Later(i) /\ Kept(i) /\ Grows(i)}
  <1>0. n \in Nat /\ scns \in Seq(Scn)
    BY DEF LayoutType
  <1>1. T[0] = AfterPhdrs /\ \A i \in 1 .. n : T[i] = TurnOf(T[i - 1], i, bad)
    BY <1>0, ScnTurn DEF ScnTurns
  <1> HIDE DEF T, n
  <1>2. 0 \in S
    <2>1. Good(0) /\ Later(0)
      BY <1>1, AfterPhdrsFact DEF n
    <2>2. T[0].off \in Nat
      BY <2>1 DEF Turn
    <2>3. Kept(0) /\ Grows(0)
      BY <2>2
    <2> HIDE DEF Good, Later, Kept, Grows
    <2> QED BY <1>0, <2>1, <2>3
  <1>3. ASSUME NEW i \in 1 .. n, i - 1 \in S PROVE i \in S
    <2> DEFINE p == T[i - 1]
               r == T[i]
    <2>0. i - 1 \in 0 .. n /\ Good(i - 1) /\ Later(i - 1) /\ Kept(i - 1) /\ Grows(i - 1)
      BY <1>3
    <2>1. p \in Turn /\ Len(p.scns) = n /\ r = TurnOf(p, i, bad)
      BY <1>1, <2>0
    <2>2. /\ r \in Turn /\ Len(r.scns) = n
          /\ \A j \in 1 .. n : j # i => r.scns[j] = p.scns[j]
          /\ r.off >= p.off /\ (r.says = "ok" => p.says = "ok")
      <3> HIDE DEF p, r
      <3>1. i \in 1 .. Len(p.scns)
        BY <2>1
      <3> QED BY <2>1, <3>1, TurnFact
    <2>3. Later(i)
      <3>1. ASSUME NEW j \in 2 .. n, j > i PROVE T[i].scns[j] = scns[j]
        <4>1. j \in 1 .. n /\ j # i /\ j > i - 1
          BY <1>0, <3>1
        <4> QED BY <2>0, <2>2, <4>1
      <3> QED BY <3>1
    <2>4. Kept(i)
      <3>1. ASSUME NEW j \in 1 .. i PROVE T[i].scns[j] = T[j].scns[j]
        <4>1. CASE j = i
          BY <4>1
        <4>2. CASE j # i
          <5>1. j \in 1 .. i - 1 /\ j \in 1 .. n
            BY <1>0, <4>2
          <5> QED BY <2>0, <2>2, <4>2, <5>1
        <4> QED BY <4>1, <4>2
      <3> QED BY <3>1
    <2>5. Grows(i)
      <3>1. ASSUME NEW k \in 0 .. i
            PROVE  T[k].off \in Nat /\ T[k].off <= T[i].off /\ (T[i].says = "ok" => T[k].says = "ok")
        <4>0. p.off \in Nat /\ r.off \in Nat
          BY <2>1, <2>2 DEF Turn
        <4>1. CASE k = i
          BY <4>0, <4>1
        <4>2. CASE k # i
          <5>1. k \in 0 .. i - 1
            BY <1>0, <4>2
          <5>2. T[k].off \in Nat /\ T[k].off <= p.off /\ (p.says = "ok" => T[k].says = "ok")
            BY <2>0, <5>1
          <5> QED BY <2>2, <4>0, <5>2
        <4> QED BY <4>1, <4>2
      <3> QED BY <3>1
    <2>6. Good(i) /\ i \in 0 .. n
      BY <1>0, <2>2
    <2> HIDE DEF Good, Later, Kept, Grows
    <2> QED BY <2>3, <2>4, <2>5, <2>6
  <1>4. 0 .. n \subseteq S
    <2> HIDE DEF S
    <2> QED BY <1>0, <1>2, <1>3, UpTo
  <1> QED BY <1>4 DEF Looped, T, n

\* Section i > 1 at its turn, in a loop that ends without an error.
LEMMA ScnStep ==
  ASSUME LayoutType, AfterScns(0).says = "ok", NEW i \in 2 .. Len(scns)
  PROVE  LET p == Turns(0)[i - 1]
             r == Turns(0)[i]
             s == scns[i]
             h == LibHeader(s, p.off)
             null == s.s_shdr.sh_type = "null"
         IN  /\ p \in Turn /\ r \in Turn /\ p.says = "ok" /\ r.says = "ok"
             /\ Len(p.scns) = Len(scns) /\ p.scns[i] = s
             /\ AfterScns(0).scns[i] = r.scns[i]
             /\ AfterPhdrs.off <= p.off /\ p.off <= r.off /\ r.off <= AfterScns(0).off
             /\ r.scns[i].s_null = s.s_null /\ (~null => ~s.s_null)
             /\ null => r = p
             /\ Layout /\ ~null => /\ r.scns[i].s_shdr = h
                                   /\ r.scns[i].s_data = PlacedData(s.s_data)
                                   /\ r.off = FileEnd(h)
             /\ ~Layout => r.scns[i] = s
             /\ ~Layout /\ ~null => /\ DataEnd(s.s_data)[Len(s.s_data)] <= s.s_shdr.sh_size
                                    /\ ~Refused(p, i)
                                    /\ r.off = Max({p.off, FileEnd(s.s_shdr)})
                                    /\ r.off >= FileEnd(s.s_shdr)
  <1> DEFINE p == Turns(0)[i - 1]
             r == Turns(0)[i]
             s == scns[i]
             n == Len(scns)
             null == s.s_shdr.sh_type = "null"
  <1>0. n \in Nat /\ scns \in Seq(Scn) /\ 0 \in Nat /\ i \in 1 .. n /\ i - 1 \in 0 .. n /\ n \in 0 .. n /\ 0 \in 0 .. i - 1
    BY DEF LayoutType
  <1>1. Looped(0)
    BY LoopFact
  <1>2. AfterScns(0) = Turns(0)[n] /\ Turns(0)[0] = AfterPhdrs /\ r = TurnOf(p, i, 0)
    BY <1>0, ScnTurn DEF ScnTurns, AfterScns
  <1>3. /\ p \in Turn /\ r \in Turn /\ p.says = "ok" /\ r.says = "ok"
        /\ Len(p.scns) = n /\ p.scns[i] = s
        /\ AfterScns(0).scns[i] = r.scns[i]
        /\ AfterPhdrs.off <= p.off /\ p.off <= r.off /\ r.off <= AfterScns(0).off
    <2>1. p \in Turn /\ r \in Turn /\ Len(p.scns) = n
      BY <1>0, <1>1 DEF Looped
    <2>2. i \in 0 .. n /\ i - 1 \in 0 .. i /\ i > i - 1
      BY <1>0
    <2>3. r.says = "ok" /\ p.says = "ok" /\ p.off <= r.off /\ r.off <= AfterScns(0).off
      BY <1>0, <1>1, <1>2, <2>2 DEF Looped
    <2>4. AfterPhdrs.off <= p.off
      BY <1>0, <1>1, <1>2 DEF Looped
    <2>5. p.scns[i] = s /\ AfterScns(0).scns[i] = r.scns[i]
      BY <1>0, <1>1, <1>2, <2>2 DEF Looped
    <2> QED BY <2>1, <2>3, <2>4, <2>5
  <1>4. r = PlaceScn(p, i, 0)
    BY <1>2, <1>3 DEF TurnOf
  <1>5. i # 1 /\ i # 0 /\ i \in 1 .. Len(p.scns)
    BY <1>0, <1>3
  <1>6. CASE null
    <2>1. r = p
      BY <1>3, <1>4, <1>5, <1>6 DEF PlaceScn
    <2> QED BY <1>3, <1>6, <2>1
  <1>7. ~null => ~s.s_null
    <2>1. ASSUME ~null, s.s_null
          PROVE  r = [p EXCEPT !.says = "bad"]
      BY <1>3, <1>4, <1>5, <2>1 DEF PlaceScn
    <2>2. ASSUME r = [p EXCEPT !.says = "bad"]
          PROVE  r.says = "bad"
      BY <1>3, <2>2 DEF Turn
    <2> QED BY <1>3, <2>1, <2>2
  <1>8. CASE ~null /\ Layout
    <2>1. r = PlaceByLibrary(p, i)
      BY <1>3, <1>4, <1>5, <1>8, <1>7 DEF PlaceScn
    <2>2. /\ r.scns[i].s_shdr = LibHeader(s, p.off)
          /\ r.scns[i].s_null = s.s_null
          /\ r.scns[i].s_data = PlacedData(s.s_data)
          /\ r.off = FileEnd(LibHeader(s, p.off))
      BY <1>3, <1>5, <2>1, PlaceByLibraryFact
    <2> QED BY <1>3, <1>8, <1>7, <2>2
  <1>9. CASE ~null /\ ~Layout
    <2>1. r = PlaceByProgram(p, i)
      BY <1>3, <1>4, <1>5, <1>9, <1>7 DEF PlaceScn
    <2>2. /\ r.scns = p.scns
          /\ DataEnd(s.s_data)[Len(s.s_data)] <= s.s_shdr.sh_size
          /\ ~Refused(p, i)
          /\ r.off = Max({p.off, FileEnd(s.s_shdr)})
          /\ r.off >= FileEnd(s.s_shdr)
      BY <1>3, <1>5, <2>1, PlaceByProgramFact
    <2> QED BY <1>3, <1>9, <1>7, <2>2
  <1> QED BY <1>6, <1>8, <1>9

\* The first section, which has no contents and no data.
LEMMA FirstStep ==
  ASSUME LayoutType, NEW bad \in Nat, scns # << >>
  PROVE  /\ 1 \in 1 .. Len(scns)
         /\ Turns(bad)[1].off = AfterPhdrs.off /\ Turns(bad)[1].says = "ok"
         /\ AfterScns(bad).scns[1] = Turns(bad)[1].scns[1]
         /\ Turns(bad)[1].scns[1].s_data = scns[1].s_data
         /\ Turns(bad)[1].scns[1].s_shdr = IF Layout THEN FirstHeader(FirstOf(scns)) ELSE FirstOf(scns)
  <1> DEFINE n == Len(scns)
  <1>0. n \in Nat /\ scns \in Seq(Scn) /\ n \in 0 .. n /\ 1 \in 1 .. n
    BY DEF LayoutType
  <1>1. Looped(bad)
    BY LoopFact
  <1>2. AfterScns(bad) = Turns(bad)[n] /\ Turns(bad)[1] = TurnOf(AfterPhdrs, 1, bad)
    <2>1. Turns(bad)[1] = TurnOf(Turns(bad)[1 - 1], 1, bad) /\ Turns(bad)[0] = AfterPhdrs
      BY <1>0, ScnTurn DEF ScnTurns
    <2> QED BY <2>1 DEF AfterScns
  <1>3. AfterScns(bad).scns[1] = Turns(bad)[1].scns[1]
    BY <1>0, <1>1, <1>2 DEF Looped
  <1>4. /\ AfterPhdrs \in Turn /\ Len(AfterPhdrs.scns) = n /\ AfterPhdrs.says = "ok"
        /\ AfterPhdrs.scns[1].s_shdr = FirstOf(scns) /\ AfterPhdrs.scns[1].s_data = scns[1].s_data
    BY AfterPhdrsFact
  <1>5. Turns(bad)[1] = PlaceFirst(AfterPhdrs)
    BY <1>2, <1>4 DEF TurnOf, PlaceScn
  <1>6. Len(AfterPhdrs.scns) >= 1
    BY <1>0, <1>4
  <1> QED BY <1>0, <1>3, <1>4, <1>5, <1>6, PlaceFirstFact

-----------------------------------------------------------------------------
(***************************************************************************)
(* What a layout returns.                                                  *)
(***************************************************************************)
LEMMA ShoffFact ==
  ASSUME LayoutType, NEW at \in Turn
  PROVE  /\ Shoff(at) \in Nat
         /\ Layout => Shoff(at) % AddrAlign = 0
         /\ Layout /\ scns # << >> => Shoff(at) >= at.off
         /\ Layout /\ scns = << >> => Shoff(at) = 0
  <1>1. AddrAlign \in Nat /\ AddrAlign > 0 /\ ehdr.e_shoff \in Nat /\ at.off \in Nat
    BY Constants DEF LayoutType, Ehdr, Turn
  <1>2. /\ AlignUp(at.off, AddrAlign) \in Nat /\ AlignUp(at.off, AddrAlign) >= at.off
        /\ AlignUp(at.off, AddrAlign) % AddrAlign = 0
    BY <1>1, AlignUpFact
  <1>3. 0 % AddrAlign = 0
    BY <1>1
  <1> QED BY <1>1, <1>2, <1>3 DEF Shoff

LEMMA PhdrHeaderFact ==
  ASSUME LayoutType
  PROVE  /\ PhdrHeader \in Ehdr
         /\ PhdrHeader.e_phoff = Phoff /\ PhdrHeader.e_phnum = Min({e_phnum, PnXnum})
  <1>1. ehdr \in Ehdr /\ Phoff \in Nat
    BY PhoffFact DEF LayoutType
  <1>2. Min({e_phnum, PnXnum}) \in Nat
    BY Constants, MinOfTwo DEF LayoutType
  <1> QED BY <1>1, <1>2 DEF PhdrHeader, Ehdr

CountedHeader(h) == [h EXCEPT !.sh_size = Len(scns)]

LEMMA ExtendedShnumFact ==
  ASSUME LayoutType, NEW at \in Turn, Len(at.scns) = Len(scns)
  PROVE  LET ss == ExtendedShnum(at)
         IN  /\ ss \in Seq(Scn) /\ Len(ss) = Len(scns)
             /\ \A j \in 2 .. Len(scns) : ss[j] = at.scns[j]
             /\ scns # << >> =>
                   /\ ss[1].s_data = at.scns[1].s_data
                   /\ ss[1].s_shdr = IF Len(scns) >= LoReserve THEN CountedHeader(at.scns[1].s_shdr)
                                     ELSE at.scns[1].s_shdr
  <1>0. Len(scns) \in Nat /\ at.scns \in Seq(Scn) /\ LoReserve \in Nat \ {0}
    BY Constants DEF LayoutType, Turn
  <1>1. CASE Len(scns) >= LoReserve
    <2>1. 1 \in 1 .. Len(at.scns)
      BY <1>0, <1>1
    <2>2. at.scns[1] \in Scn
      BY <1>0, <2>1
    <2>3. at.scns[1].s_shdr \in Shdr
      BY <2>2 DEF Scn
    <2>4. CountedHeader(at.scns[1].s_shdr) \in Shdr
      BY <1>0, <2>3 DEF CountedHeader, Shdr
    <2> DEFINE s == Rewrite(at.scns[1], CountedHeader(at.scns[1].s_shdr))
               ss == ExtendedShnum(at)
    <2>5. s \in Scn /\ s.s_shdr = CountedHeader(at.scns[1].s_shdr) /\ s.s_data = at.scns[1].s_data
      BY <2>2, <2>4, RewriteFact
    <2>6. ss = [at.scns EXCEPT ![1] = s]
      BY <1>1 DEF ExtendedShnum, CountedHeader
    <2> HIDE DEF s, ss
    <2>7. /\ ss \in Seq(Scn) /\ Len(ss) = Len(at.scns) /\ ss[1] = s
          /\ \A j \in 1 .. Len(at.scns) : j # 1 => ss[j] = at.scns[j]
      BY <1>0, <2>1, <2>5, <2>6, ExceptSeq
    <2>8. \A j \in 2 .. Len(scns) : j \in 1 .. Len(at.scns) /\ j # 1
      BY <1>0
    <2> QED BY <1>1, <2>5, <2>7, <2>8 DEF ss
  <1>2. CASE ~(Len(scns) >= LoReserve)
    BY <1>0, <1>2 DEF ExtendedShnum
  <1> QED BY <1>1, <1>2

LEMMA LaidType ==
  ASSUME LayoutType, NEW bad \in Nat
  PROVE  /\ Laid(bad).ehdr \in Ehdr /\ Laid(bad).says \in Says /\ Laid(bad).end \in Nat
         /\ Laid(bad).scns \in Seq(Scn) /\ Len(Laid(bad).scns) = Len(scns)
         /\ AfterScns(bad) \in Turn /\ Len(AfterScns(bad).scns) = Len(scns)
         /\ Laid(bad).says = AfterScns(bad).says
  <1> DEFINE at == AfterScns(bad)
             n == Len(scns)
             l == Laid(bad)
  <1>0. n \in Nat
    BY DEF LayoutType
  <1>1. at \in Turn /\ Len(at.scns) = n
    BY <1>0, LoopFact DEF Looped, AfterScns
  <1>2. at.scns \in Seq(Scn) /\ at.off \in Nat /\ at.says \in Says
    BY <1>1 DEF Turn
  <1>3. PhdrHeader \in Ehdr /\ Shoff(at) \in Nat
    BY <1>1, PhdrHeaderFact, ShoffFact
  <1>4. CASE at.says # "ok"
    <2>1. l = [says |-> at.says, ehdr |-> PhdrHeader, scns |-> at.scns, end |-> 0]
      BY <1>4 DEF Laid
    <2> QED BY <1>1, <1>2, <1>3, <2>1
  <1>5. CASE at.says = "ok"
    <2> DEFINE shnum == IF n >= LoReserve THEN 0 ELSE n
               eh == [PhdrHeader EXCEPT !.e_shoff = Shoff(at), !.e_shnum = shnum]
               end == IF scns = << >> THEN at.off ELSE Max({at.off, Shoff(at) + n})
    <2>1. l = [says |-> "ok", ehdr |-> eh, scns |-> ExtendedShnum(at), end |-> end]
      BY <1>5 DEF Laid
    <2>2. shnum \in Nat
      BY <1>0
    <2>3. eh \in Ehdr
      <3> HIDE DEF shnum
      <3> QED BY <1>3, <2>2 DEF Ehdr
    <2>4. end \in Nat
      <3>1. Shoff(at) + n \in Nat
        BY <1>0, <1>3
      <3> QED BY <1>2, <3>1, MaxOfTwo
    <2>5. ExtendedShnum(at) \in Seq(Scn) /\ Len(ExtendedShnum(at)) = n
      BY <1>1, ExtendedShnumFact
    <2> HIDE DEF eh, end
    <2> QED BY <1>1, <1>2, <1>5, <2>1, <2>3, <2>4, <2>5
  <1> QED BY <1>4, <1>5

LEMMA LaidFact ==
  ASSUME LayoutType, Laid(0).says = "ok"
  PROVE  LET at == AfterScns(0)
             l == Laid(0)
         IN  /\ at \in Turn /\ at.says = "ok" /\ at.off \in Nat \ {0} /\ Shoff(at) \in Nat
             /\ l.ehdr \in Ehdr /\ l.scns \in Seq(Scn) /\ Len(l.scns) = Len(scns)
             /\ l.ehdr.e_phoff = Phoff /\ l.ehdr.e_phnum = Min({e_phnum, PnXnum})
             /\ l.ehdr.e_shoff = Shoff(at)
             /\ l.ehdr.e_shnum = IF Len(scns) >= LoReserve THEN 0 ELSE Len(scns)
             /\ \A j \in 2 .. Len(scns) : l.scns[j] = at.scns[j]
             /\ l.scns = ExtendedShnum(at)
             /\ l.end \in Nat /\ l.end >= at.off
             /\ scns # << >> => l.end >= Shoff(at) + Len(scns)
  <1> DEFINE at == AfterScns(0)
             n == Len(scns)
             l == Laid(0)
             shnum == IF n >= LoReserve THEN 0 ELSE n
             eh == [PhdrHeader EXCEPT !.e_shoff = Shoff(at), !.e_shnum = shnum]
             end == IF scns = << >> THEN at.off ELSE Max({at.off, Shoff(at) + n})
  <1>0. n \in Nat /\ 0 \in Nat
    BY DEF LayoutType
  <1>1. /\ at \in Turn /\ at.says = "ok" /\ Len(at.scns) = n
        /\ l.ehdr \in Ehdr /\ l.scns \in Seq(Scn) /\ Len(l.scns) = n
    BY <1>0, LaidType
  <1>2. at.off \in Nat \ {0}
    BY <1>1 DEF Turn
  <1>3. Shoff(at) \in Nat /\ PhdrHeader \in Ehdr
    BY <1>1, ShoffFact, PhdrHeaderFact
  <1>4. l = [says |-> "ok", ehdr |-> eh, scns |-> ExtendedShnum(at), end |-> end]
    BY <1>1 DEF Laid
  <1>5. /\ eh.e_phoff = Phoff /\ eh.e_phnum = Min({e_phnum, PnXnum})
        /\ eh.e_shoff = Shoff(at) /\ eh.e_shnum = shnum
    <2> HIDE DEF shnum
    <2> QED BY <1>3, PhdrHeaderFact DEF Ehdr
  <1>6. end \in Nat /\ end >= at.off /\ (scns # << >> => end >= Shoff(at) + n)
    <2>1. Shoff(at) + n \in Nat
      BY <1>0, <1>3
    <2> QED BY <1>2, <2>1, MaxOfTwo
  <1>7. \A j \in 2 .. n : ExtendedShnum(at)[j] = at.scns[j]
    BY <1>1, ExtendedShnumFact
  <1> HIDE DEF eh, end, at
  <1> QED BY <1>1, <1>2, <1>3, <1>4, <1>5, <1>6, <1>7 DEF at

-----------------------------------------------------------------------------
(***************************************************************************)
(* What a layout leaves, as a predicate of the state it leaves: off[i] is  *)
(* the end of what is placed after the turn of section i.  It is the       *)
(* invariant from which the properties of a settled layout follow.         *)
(***************************************************************************)
Overlaps == "LAYOUT_OVERLAP" \in e_elf_flags

LaidByLibrary(s, before, after) ==
    /\ s.s_shdr = LibHeader(s, before) /\ PlacedData(s.s_data) = s.s_data
    /\ after = FileEnd(s.s_shdr)

LaidByProgram(i, before, after) ==
    /\ after = Max({before, FileEnd(scns[i].s_shdr)})
    /\ Overlaps \/ scns[i].s_shdr.sh_offset >= before
       \/ \A j \in 1 .. i - 1 : (j > 1 \/ Len(scns) < LoReserve) =>
             ~Collide(scns[i].s_shdr, scns[j].s_shdr)

LaidScn(i, before, after) ==
    LET s == scns[i]
    IN  \/ s.s_shdr.sh_type = "null" /\ after = before
        \/ /\ s.s_shdr.sh_type # "null" /\ ~s.s_null
           /\ DataEnd(s.s_data)[Len(s.s_data)] <= s.s_shdr.sh_size
           /\ FileEnd(s.s_shdr) <= after
           /\ Layout => LaidByLibrary(s, before, after)
           /\ ~Layout => LaidByProgram(i, before, after)

LaidOut(off) ==
    /\ off \in [0 .. Len(scns) -> Nat \ {0}]
    /\ off[0] = AfterPhdrs.off /\ (scns # << >> => off[1] = off[0])
    /\ \A i \in 0 .. Len(scns) : \A k \in 0 .. i : off[k] <= off[i]
    /\ \A i \in 2 .. Len(scns) : LaidScn(i, off[i - 1], off[i])
    /\ Layout => ehdr.e_shoff = IF scns = << >> THEN 0 ELSE AlignUp(off[Len(scns)], AddrAlign)

FirstLaid(h) ==
    LET h1 == IF e_phnum >= PnXnum THEN ExtendedPhnum(h) ELSE h
        h2 == IF Layout THEN FirstHeader(h1) ELSE h1
    IN  IF Len(scns) >= LoReserve THEN CountedHeader(h2) ELSE h2

HeadersLaid ==
    /\ ehdr.e_phoff = Phoff /\ ehdr.e_phnum = Min({e_phnum, PnXnum})
    /\ ehdr.e_shnum = IF Len(scns) >= LoReserve THEN 0 ELSE Len(scns)
    /\ scns # << >> => FirstLaid(scns[1].s_shdr) = scns[1].s_shdr

Settled == HeadersLaid /\ \E off : LaidOut(off)

-----------------------------------------------------------------------------
(***************************************************************************)
(* What follows for a state it holds in.                                   *)
(***************************************************************************)
LEMMA SettledApart == LayoutType /\ Settled => (stage \in {"settled", "saved"} =>
        /\ Layout \/ "LAYOUT_OVERLAP" \notin e_elf_flags => ScnsApart
        /\ Layout => TablesApart)
  <1> SUFFICES ASSUME LayoutType, HeadersLaid, NEW off, LaidOut(off)
               PROVE  /\ Layout \/ ~Overlaps => ScnsApart
                      /\ Layout => TablesApart
    BY DEF Settled, Overlaps
  <1> DEFINE n == Len(scns)
             h(i) == scns[i].s_shdr
  <1>0. n \in Nat /\ scns \in Seq(Scn) /\ e_phnum \in Nat /\ ehdr \in Ehdr
    BY DEF LayoutType
  <1>1. ASSUME NEW i \in 1 .. n
        PROVE  /\ h(i) \in Shdr /\ h(i).sh_offset \in Nat /\ FileEnd(h(i)) \in Nat
               /\ h(i).sh_offset <= FileEnd(h(i))
    <2>1. scns[i] \in Scn
      BY <1>0
    <2>2. h(i) \in Shdr
      BY <2>1 DEF Scn
    <2> HIDE DEF h
    <2> QED BY <2>2, ShdrFact
  <1>2. \A i \in 0 .. n : off[i] \in Nat \ {0}
    BY DEF LaidOut
  <1>3. ASSUME NEW i \in 2 .. n, h(i).sh_type = "bits"
        PROVE  /\ FileEnd(h(i)) <= off[i] /\ off[i] <= off[n]
               /\ LaidScn(i, off[i - 1], off[i])
               /\ Layout => h(i).sh_offset >= off[i - 1] /\ off[i - 1] >= off[0]
    <2>1. LaidScn(i, off[i - 1], off[i]) /\ off[i] <= off[n] /\ off[0] <= off[i - 1]
      <3>1. i \in 0 .. n /\ i - 1 \in 0 .. n /\ 0 \in 0 .. i - 1 /\ n \in 0 .. n /\ i \in 0 .. n
        BY <1>0
      <3> QED BY <3>1 DEF LaidOut
    <2>2. FileEnd(h(i)) <= off[i]
      BY <1>3, <2>1 DEF LaidScn
    <2>3. Layout => h(i) = LibHeader(scns[i], off[i - 1])
      BY <1>3, <2>1 DEF LaidScn, LaidByLibrary
    <2>4. scns[i] \in Scn /\ off[i - 1] \in Nat
      <3>1. i \in 1 .. n /\ i - 1 \in 0 .. n
        BY <1>0
      <3> QED BY <1>0, <1>2, <3>1
    <2>5. LibHeader(scns[i], off[i - 1]).sh_offset >= off[i - 1]
      BY <2>4, LibHeaderFact
    <2>6. off[0] \in Nat /\ off[i - 1] \in Nat
      BY <1>0, <1>2, <2>4
    <2> HIDE DEF h
    <2> QED BY <2>1, <2>2, <2>3, <2>5, <2>6
  <1>4. ASSUME Layout \/ ~Overlaps, NEW i \in 2 .. n, NEW j \in 2 .. n, i < j,
               h(i).sh_type = "bits", h(j).sh_type = "bits"
        PROVE  FileEnd(h(i)) <= h(j).sh_offset \/ FileEnd(h(j)) <= h(i).sh_offset
    <2>1. FileEnd(h(i)) <= off[i] /\ off[i] <= off[j - 1]
      <3>1. i \in 0 .. j - 1 /\ j - 1 \in 0 .. n
        BY <1>0, <1>4
      <3> QED BY <1>3, <1>4, <3>1 DEF LaidOut
    <2>2. off[i] \in Nat /\ off[j - 1] \in Nat
      <3>1. i \in 0 .. n /\ j - 1 \in 0 .. n
        BY <1>0
      <3> QED BY <1>2, <3>1
    <2>3. /\ FileEnd(h(i)) \in Nat /\ FileEnd(h(j)) \in Nat
          /\ h(i).sh_offset \in Nat /\ h(j).sh_offset \in Nat
      <3>1. i \in 1 .. n /\ j \in 1 .. n
        BY <1>0
      <3> QED BY <1>1, <3>1
    <2>4. h(j).sh_offset >= off[j - 1] \/ ~Collide(h(j), h(i))
      <3>1. CASE Layout
        BY <1>3, <1>4, <3>1
      <3>2. CASE ~Layout
        <4>1. LaidByProgram(j, off[j - 1], off[j])
          BY <1>3, <1>4, <3>2 DEF LaidScn
        <4>2. i \in 1 .. j - 1 /\ i > 1
          BY <1>0, <1>4
        <4> QED BY <1>4, <3>2, <4>1, <4>2 DEF LaidByProgram
      <3> QED BY <3>1, <3>2
    <2> HIDE DEF h
    <2> QED BY <2>1, <2>2, <2>3, <2>4 DEF Collide
  <1>5. ASSUME Layout \/ ~Overlaps PROVE ScnsApart
    <2> SUFFICES ASSUME NEW i \in DOMAIN scns, NEW j \in DOMAIN scns, i # j,
                        NEW x \in ScnArea(i) \cap ScnArea(j)
                 PROVE  FALSE
      BY DEF ScnsApart
    <2>1. i \in 2 .. n /\ j \in 2 .. n /\ h(i).sh_type = "bits" /\ h(j).sh_type = "bits"
      BY <1>0 DEF ScnArea
    <2>2. x \in h(i).sh_offset .. FileEnd(h(i)) - 1 /\ x \in h(j).sh_offset .. FileEnd(h(j)) - 1
      BY <2>1 DEF ScnArea
    <2>3. /\ FileEnd(h(i)) \in Nat /\ FileEnd(h(j)) \in Nat
          /\ h(i).sh_offset \in Nat /\ h(j).sh_offset \in Nat
      BY <1>0, <1>1
    <2>4. FileEnd(h(i)) <= h(j).sh_offset \/ FileEnd(h(j)) <= h(i).sh_offset
      <3>1. i < j \/ j < i
        BY <2>1
      <3> QED BY <1>4, <1>5, <2>1, <3>1
    <2> HIDE DEF h
    <2> QED BY <2>2, <2>3, <2>4
  <1>6. ASSUME Layout PROVE TablesApart
    <2>0. /\ Phoff \in Nat /\ (e_phnum > 0 => Phoff >= 1) /\ ehdr.e_phoff = Phoff
          /\ off[0] = AfterPhdrs.off /\ (e_phnum > 0 => off[0] >= Phoff + e_phnum)
          /\ off[0] \in Nat \ {0} /\ off[n] \in Nat \ {0} /\ off[0] <= off[n]
          /\ ehdr.e_shoff = IF scns = << >> THEN 0 ELSE AlignUp(off[n], AddrAlign)
          /\ ehdr.e_shoff \in Nat
      <3>1. 0 \in 0 .. n /\ n \in 0 .. n
        BY <1>0
      <3> QED BY <1>0, <1>2, <1>6, <3>1, PhoffFact, AfterPhdrsFact DEF HeadersLaid, LaidOut, Ehdr
    <2>1. scns # << >> => n > 0 /\ ehdr.e_shoff >= off[n]
      <3>1. AlignUp(off[n], AddrAlign) >= off[n]
        BY <2>0, Constants, AlignUpFact
      <3> QED BY <1>0, <2>0, <3>1
    <2>2. scns = << >> => n = 0
      BY <1>0
    <2>3. PhdrArea \cap ShdrArea = {}
      BY <1>0, <2>0, <2>1, <2>2 DEF PhdrArea, ShdrArea
    <2>4. 0 \notin PhdrArea \cup ShdrArea
      BY <1>0, <2>0, <2>1, <2>2 DEF PhdrArea, ShdrArea
    <2>5. ASSUME NEW i \in DOMAIN scns, NEW x \in ScnArea(i)
          PROVE  x \notin {0} \cup PhdrArea \cup ShdrArea
      <3>1. i \in 2 .. n /\ h(i).sh_type = "bits" /\ x \in h(i).sh_offset .. FileEnd(h(i)) - 1
        BY <1>0, <2>5 DEF ScnArea
      <3>2. /\ h(i).sh_offset \in Nat /\ FileEnd(h(i)) \in Nat
            /\ off[i] \in Nat /\ off[i - 1] \in Nat
            /\ FileEnd(h(i)) <= off[i] /\ off[i] <= off[n]
            /\ h(i).sh_offset >= off[i - 1] /\ off[i - 1] >= off[0]
        <4>1. i \in 1 .. n /\ i \in 0 .. n /\ i - 1 \in 0 .. n
          BY <1>0, <3>1
        <4> QED BY <1>1, <1>2, <1>3, <1>6, <3>1, <4>1
      <3> HIDE DEF h
      <3>3. x \in Int /\ x >= off[0] /\ x < off[n] /\ scns # << >>
        <4>1. scns # << >>
          BY <1>0, <3>1
        <4>2. x \in h(i).sh_offset .. FileEnd(h(i)) - 1 /\ off[0] \in Nat /\ off[n] \in Nat
          BY <2>0, <3>1
        <4> QED BY <3>2, <4>1, <4>2
      <3> QED BY <1>0, <2>0, <2>1, <3>3 DEF PhdrArea, ShdrArea
    <2> QED BY <2>0, <2>3, <2>4, <2>5 DEF TablesApart
  <1> QED BY <1>5, <1>6

DataTyped ==
    \A i \in 1 .. Len(scns) : \A k \in 1 .. Len(scns[i].s_data) :
        LET d == scns[i].s_data[k]
        IN  Len(d.d_buf) \in {0, d.d_size} /\ d.d_align \in Alignments

LEMMA SumOfMultiples ==
  ASSUME NEW a \in Nat \ {0}, NEW b \in Nat \ {0}, NEW x \in Nat, NEW y \in Nat,
         b % a = 0, x % b = 0, y % a = 0
  PROVE  (x + y) % a = 0
  <1>0. b \in Int /\ x \in Int /\ y \in Int
    OBVIOUS
  <1>1. \E p \in Int : b = p * a
    BY <1>0, Multiple
  <1>2. \E q \in Int : x = q * b
    BY <1>0, Multiple
  <1>3. \E r \in Int : y = r * a
    BY <1>0, Multiple
  <1> PICK p \in Int : b = p * a
    BY <1>1
  <1> PICK q \in Int : x = q * b
    BY <1>2
  <1> PICK r \in Int : y = r * a
    BY <1>3
  <1>4. x + y = (q * p + r) * a /\ q * p + r \in Int /\ x + y \in Int
    OBVIOUS
  <1>5. \E m \in Int : x + y = m * a
    BY <1>4
  <1> QED BY <1>4, <1>5, Multiple

LEMMA SettledAligned == LayoutType /\ DataTyped /\ AlignmentsNest /\ Settled =>
        (stage \in {"settled", "saved"} /\ Layout =>
            /\ ehdr.e_phoff % AddrAlign = 0 /\ ehdr.e_shoff % AddrAlign = 0
            /\ \A i \in 2 .. Len(scns) : scns[i].s_shdr.sh_type # "null" =>
                  \A k \in DOMAIN scns[i].s_data :
                      LET d == scns[i].s_data[k]
                      IN  d.d_align > 0 => (scns[i].s_shdr.sh_offset + d.d_off) % d.d_align = 0)
  <1> SUFFICES ASSUME LayoutType, DataTyped, AlignmentsNest, HeadersLaid, NEW off, LaidOut(off), Layout
               PROVE  /\ ehdr.e_phoff % AddrAlign = 0 /\ ehdr.e_shoff % AddrAlign = 0
                      /\ \A i \in 2 .. Len(scns) : scns[i].s_shdr.sh_type # "null" =>
                            \A k \in DOMAIN scns[i].s_data :
                                LET d == scns[i].s_data[k]
                                IN  d.d_align > 0 =>
                                      (scns[i].s_shdr.sh_offset + d.d_off) % d.d_align = 0
    BY DEF Settled
  <1>0. Len(scns) \in Nat /\ scns \in Seq(Scn) /\ off \in [0 .. Len(scns) -> Nat \ {0}]
    BY DEF LayoutType, LaidOut
  <1>1. ehdr.e_phoff % AddrAlign = 0
    BY PhoffFact DEF HeadersLaid
  <1>2. ehdr.e_shoff % AddrAlign = 0
    <2>1. AddrAlign \in Nat /\ AddrAlign > 0 /\ off[Len(scns)] \in Nat
      <3>1. Len(scns) \in 0 .. Len(scns)
        BY <1>0
      <3> QED BY <1>0, <3>1, Constants
    <2>2. AlignUp(off[Len(scns)], AddrAlign) % AddrAlign = 0
      BY <2>1, AlignUpFact
    <2>3. 0 % AddrAlign = 0
      BY <2>1
    <2> QED BY <2>2, <2>3 DEF LaidOut
  <1>3. ASSUME NEW i \in 2 .. Len(scns), scns[i].s_shdr.sh_type # "null",
               NEW k \in DOMAIN scns[i].s_data, scns[i].s_data[k].d_align > 0
        PROVE  (scns[i].s_shdr.sh_offset + scns[i].s_data[k].d_off) % scns[i].s_data[k].d_align = 0
    <2> DEFINE s == scns[i]
               d == s.s_data
               a == d[k].d_align
               b == ScnAlign(d)
    <2>1. s \in Scn /\ i \in 1 .. Len(scns) /\ off[i - 1] \in Nat
      <3>1. i \in 1 .. Len(scns) /\ i - 1 \in 0 .. Len(scns)
        BY <1>0
      <3> QED BY <1>0, <3>1
    <2>2. d \in Seq(Data) /\ k \in 1 .. Len(d)
      BY <2>1 DEF Scn
    <2>3. a \in Nat \ {0} /\ d[k].d_off \in Nat
      BY <1>3, <2>2, DataFact
    <2>4. s.s_shdr = LibHeader(s, off[i - 1]) /\ PlacedData(d) = d
      <3>1. LaidScn(i, off[i - 1], off[i])
        BY DEF LaidOut
      <3> QED BY <1>3, <3>1 DEF LaidScn, LaidByLibrary
    <2>5. s.s_shdr.sh_offset % b = 0 /\ s.s_shdr.sh_offset \in Nat
      <3>1. LibHeader(s, off[i - 1]) \in Shdr
            /\ LibHeader(s, off[i - 1]).sh_offset % ScnAlign(s.s_data) = 0
        BY <2>1, LibHeaderFact
      <3> QED BY <2>4, <3>1, ShdrFact
    <2>6. d[k].d_off % a = 0
      <3>1. d[k].d_off = AlignUp(DataEnd(d)[k - 1], a) /\ DataEnd(d)[k - 1] \in Nat
        BY <2>2, <2>4, PlacedFact, DataEndStep
      <3> QED BY <2>3, <3>1, AlignUpFact
    <2>7. b \in Nat \ {0} /\ b % a = 0
      <3>1. b \in Nat \ {0} /\ a <= b /\ (b = 1 \/ \E m \in 1 .. Len(d) : b = d[m].d_align)
        BY <2>2, ScnAlignFact
      <3>2. CASE b = 1
        <4>1. a = 1 /\ 1 % 1 = 0
          BY <2>3, <3>1, <3>2
        <4> QED BY <3>1, <3>2, <4>1
      <3>3. CASE \E m \in 1 .. Len(d) : b = d[m].d_align
        <4>1. a \in Alignments /\ b \in Alignments
          BY <2>1, <2>2, <3>3 DEF DataTyped
        <4> QED BY <2>3, <3>1, <4>1 DEF AlignmentsNest
      <3> QED BY <3>1, <3>2, <3>3
    <2> HIDE DEF s, d, a, b
    <2>8. (s.s_shdr.sh_offset + d[k].d_off) % a = 0
      BY <2>3, <2>5, <2>6, <2>7, SumOfMultiples
    <2> QED BY <2>8 DEF s, d, a
  <1> QED BY <1>1, <1>2, <1>3

\* A further layout goes through the same offsets.
Tracks(off, i) ==
    LET at == Turns(0)[i]
    IN  /\ at.says = "ok" /\ at.off = off[i]
        /\ \A j \in 2 .. Len(scns) : /\ at.scns[j].s_shdr = scns[j].s_shdr
                                     /\ at.scns[j].s_data = scns[j].s_data

LEMMA TracksStep ==
  ASSUME LayoutType, HeadersLaid, NEW off, LaidOut(off),
         Layout \/ Overlaps \/ Len(scns) < LoReserve,
         NEW i \in 1 .. Len(scns), Tracks(off, i - 1)
  PROVE  Tracks(off, i)
  <1> DEFINE p == Turns(0)[i - 1]
             r == Turns(0)[i]
             s == scns[i]
             n == Len(scns)
             null == s.s_shdr.sh_type = "null"
  <1>0. n \in Nat /\ scns \in Seq(Scn) /\ 0 \in Nat /\ i - 1 \in 0 .. n
    BY DEF LayoutType
  <1>1. /\ p \in Turn /\ Len(p.scns) = n /\ p.says = "ok" /\ p.off = off[i - 1]
        /\ i \in 1 .. Len(p.scns)
        /\ \A j \in 2 .. n : p.scns[j].s_shdr = scns[j].s_shdr /\ p.scns[j].s_data = scns[j].s_data
    BY <1>0, LoopFact DEF Looped, Tracks
  <1>2. r = PlaceScn(p, i, 0)
    BY <1>0, <1>1, ScnTurn DEF ScnTurns, TurnOf
  <1>3. CASE i = 1
    <2>1. r = PlaceFirst(p) /\ Len(p.scns) >= 1
      BY <1>0, <1>1, <1>2, <1>3 DEF PlaceScn
    <2>2. off[i] = off[i - 1]
      <3>1. scns # << >>
        BY <1>0, <1>3
      <3> QED BY <1>3, <3>1 DEF LaidOut
    <2> QED BY <1>1, <2>1, <2>2, PlaceFirstFact DEF Tracks
  <1>4. CASE i # 1
    <2>0. i \in 2 .. n /\ i # 0
      BY <1>0, <1>4
    <2>1. p.scns[i] = s
      BY <1>0, <2>0, LoopFact DEF Looped
    <2>2. LaidScn(i, off[i - 1], off[i])
      BY <2>0 DEF LaidOut
    <2>3. CASE null
      <3>1. r = p /\ off[i] = off[i - 1]
        BY <1>2, <1>4, <2>1, <2>2, <2>3 DEF PlaceScn, LaidScn
      <3> QED BY <1>1, <3>1 DEF Tracks
    <2>4. CASE ~null /\ Layout
      <3>1. r = PlaceByLibrary(p, i)
        BY <1>2, <1>4, <2>0, <2>1, <2>2, <2>4 DEF PlaceScn, LaidScn
      <3>2. LaidByLibrary(s, off[i - 1], off[i])
        BY <2>2, <2>4 DEF LaidScn
      <3>3. /\ r.scns[i].s_shdr = s.s_shdr /\ r.scns[i].s_data = s.s_data
            /\ r.off = off[i] /\ r.says = "ok"
            /\ \A j \in 1 .. n : j # i => r.scns[j] = p.scns[j]
        BY <1>1, <2>1, <3>1, <3>2, PlaceByLibraryFact DEF LaidByLibrary
      <3>4. \A j \in 2 .. n : j \in 1 .. n
        BY <1>0
      <3> QED BY <1>1, <3>3, <3>4 DEF Tracks
    <2>5. CASE ~null /\ ~Layout
      <3>1. r = PlaceByProgram(p, i)
        BY <1>2, <1>4, <2>0, <2>1, <2>2, <2>5 DEF PlaceScn, LaidScn
      <3>2. /\ LaidByProgram(i, off[i - 1], off[i])
            /\ DataEnd(s.s_data)[Len(s.s_data)] <= s.s_shdr.sh_size
        BY <2>2, <2>5 DEF LaidScn
      <3>3. ~Refused(p, i)
        <4>1. SUFFICES ASSUME ~Overlaps, s.s_shdr.sh_offset < off[i - 1],
                              NEW j \in 1 .. i - 1, Collide(s.s_shdr, p.scns[j].s_shdr)
                       PROVE  FALSE
          BY <1>1, <2>1 DEF Refused, Overlaps
        <4>2. n < LoReserve
          BY <2>5, <4>1
        <4>3. ~Collide(s.s_shdr, scns[j].s_shdr)
          <5>1. ~(s.s_shdr.sh_offset >= off[i - 1])
            <6>1. s \in Scn
              BY <1>0
            <6>2. s.s_shdr \in Shdr
              BY <6>1 DEF Scn
            <6>3. s.s_shdr.sh_offset \in Nat /\ off[i - 1] \in Nat
              BY <1>0, <6>2, ShdrFact DEF LaidOut
            <6> QED BY <4>1, <6>3
          <5> QED BY <3>2, <4>1, <4>2, <5>1 DEF LaidByProgram
        <4>4. p.scns[j].s_shdr = scns[j].s_shdr
          <5>1. CASE j = 1
            <6>1. scns # << >> /\ 1 \in 1 .. i - 1
              BY <1>0, <2>0
            <6>2. p.scns[1] = Turns(0)[1].scns[1]
              BY <1>0, <6>1, LoopFact DEF Looped
            <6>3. Turns(0)[1].scns[1].s_shdr = FirstOf(scns)
              BY <1>0, <2>5, <6>1, FirstStep
            <6>4. ~(n >= LoReserve)
              BY <1>0, <4>2, Constants
            <6>5. FirstOf(scns) = FirstLaid(scns[1].s_shdr)
              BY <2>5, <6>4 DEF FirstOf, FirstLaid
            <6> QED BY <5>1, <6>1, <6>2, <6>3, <6>5 DEF HeadersLaid
          <5>2. CASE j # 1
            <6>1. j \in 2 .. n
              BY <1>0, <5>2
            <6> QED BY <1>1, <6>1
          <5> QED BY <5>1, <5>2
        <4> QED BY <4>1, <4>3, <4>4
      <3>4. r.says = "ok" /\ r.scns = p.scns /\ r.off = Max({p.off, FileEnd(s.s_shdr)})
        <4>1. DataEnd(p.scns[i].s_data)[Len(p.scns[i].s_data)] <= p.scns[i].s_shdr.sh_size
          BY <2>1, <3>2
        <4> HIDE DEF p, r
        <4>2. PlaceByProgram(p, i).says = "ok"
          BY <1>1, <3>3, <4>1, PlaceByProgramFact
        <4>3. /\ PlaceByProgram(p, i).scns = p.scns
              /\ PlaceByProgram(p, i).off = Max({p.off, FileEnd(p.scns[i].s_shdr)})
          BY <1>1, <4>2, PlaceByProgramFact
        <4> QED BY <2>1, <3>1, <4>2, <4>3
      <3>5. r.off = off[i]
        BY <1>1, <3>2, <3>4 DEF LaidByProgram
      <3> QED BY <1>1, <3>4, <3>5 DEF Tracks
    <2> QED BY <2>3, <2>4, <2>5
  <1> QED BY <1>3, <1>4

LEMMA TracksAll ==
  ASSUME LayoutType, HeadersLaid, NEW off, LaidOut(off),
         Layout \/ Overlaps \/ Len(scns) < LoReserve
  PROVE  /\ AfterScns(0).says = "ok" /\ AfterScns(0).off = off[Len(scns)]
         /\ \A j \in 2 .. Len(scns) : /\ AfterScns(0).scns[j].s_shdr = scns[j].s_shdr
                                      /\ AfterScns(0).scns[j].s_data = scns[j].s_data
  <1> DEFINE n == Len(scns)
             S == {i \in 0 .. n : Tracks(off, i)}
  <1>0. n \in Nat /\ scns \in Seq(Scn) /\ 0 \in Nat
    BY DEF LayoutType
  <1>1. 0 \in S
    <2>1. Turns(0)[0] = AfterPhdrs
      BY <1>0, ScnTurn DEF ScnTurns
    <2>2. Tracks(off, 0)
      BY <2>1, AfterPhdrsFact DEF Tracks, LaidOut
    <2> QED BY <1>0, <2>2
  <1>2. ASSUME NEW i \in 1 .. n, i - 1 \in S PROVE i \in S
    <2>1. Tracks(off, i)
      BY <1>2, TracksStep
    <2> QED BY <1>0, <2>1
  <1>3. n \in S
    <2> HIDE DEF S
    <2>1. 0 .. n \subseteq S
      BY <1>0, <1>1, <1>2, UpTo
    <2> QED BY <1>0, <2>1
  <1> QED BY <1>3 DEF Tracks, AfterScns

LEMMA SettledLayout == LayoutType /\ Settled =>
        (/\ stage \in {"settled", "saved"}
         /\ Layout \/ "LAYOUT_OVERLAP" \in e_elf_flags \/ Len(scns) < LoReserve
         => /\ Laid(0).says = "ok" /\ Laid(0).ehdr = ehdr
            /\ Len(Laid(0).scns) = Len(scns)
            /\ \A i \in DOMAIN scns : /\ Laid(0).scns[i].s_shdr = scns[i].s_shdr
                                      /\ Laid(0).scns[i].s_data = scns[i].s_data)
  <1> SUFFICES ASSUME LayoutType, HeadersLaid, NEW off, LaidOut(off),
                      Layout \/ Overlaps \/ Len(scns) < LoReserve
               PROVE  /\ Laid(0).says = "ok" /\ Laid(0).ehdr = ehdr
                      /\ Len(Laid(0).scns) = Len(scns)
                      /\ \A i \in DOMAIN scns : /\ Laid(0).scns[i].s_shdr = scns[i].s_shdr
                                                /\ Laid(0).scns[i].s_data = scns[i].s_data
    BY DEF Settled, Overlaps
  <1> DEFINE n == Len(scns)
             at == AfterScns(0)
             l == Laid(0)
  <1>0. n \in Nat /\ scns \in Seq(Scn) /\ 0 \in Nat /\ ehdr \in Ehdr
    BY DEF LayoutType
  <1>1. /\ at.says = "ok" /\ at.off = off[n]
        /\ \A j \in 2 .. n : at.scns[j].s_shdr = scns[j].s_shdr /\ at.scns[j].s_data = scns[j].s_data
    BY TracksAll
  <1>2. l.says = "ok" /\ at \in Turn /\ Len(at.scns) = n
    BY <1>0, <1>1, LaidType
  <1>3. l.ehdr = ehdr
    <2>1. Shoff(at) = ehdr.e_shoff
      BY <1>1 DEF Shoff, LaidOut
    <2>2. /\ l.ehdr.e_phoff = ehdr.e_phoff /\ l.ehdr.e_phnum = ehdr.e_phnum
          /\ l.ehdr.e_shoff = ehdr.e_shoff /\ l.ehdr.e_shnum = ehdr.e_shnum
          /\ l.ehdr \in Ehdr
      BY <1>2, <2>1, LaidFact DEF HeadersLaid
    <2> HIDE DEF l
    <2> QED BY <1>0, <2>2 DEF Ehdr
  <1>4. l.scns = ExtendedShnum(at) /\ Len(l.scns) = n /\ \A j \in 2 .. n : l.scns[j] = at.scns[j]
    BY <1>2, LaidFact
  <1>5. ASSUME NEW i \in DOMAIN scns
        PROVE  l.scns[i].s_shdr = scns[i].s_shdr /\ l.scns[i].s_data = scns[i].s_data
    <2>1. CASE i = 1
      <3>1. scns # << >>
        BY <1>0, <2>1
      <3>2. /\ at.scns[1].s_data = scns[1].s_data
            /\ at.scns[1].s_shdr = IF Layout THEN FirstHeader(FirstOf(scns)) ELSE FirstOf(scns)
        BY <1>0, <3>1, FirstStep
      <3>3. /\ l.scns[1].s_data = at.scns[1].s_data
            /\ l.scns[1].s_shdr = IF n >= LoReserve THEN CountedHeader(at.scns[1].s_shdr)
                                  ELSE at.scns[1].s_shdr
        BY <1>2, <1>4, <3>1, ExtendedShnumFact
      <3>4. l.scns[1].s_shdr = FirstLaid(scns[1].s_shdr)
        BY <3>2, <3>3 DEF FirstLaid, FirstOf
      <3> QED BY <2>1, <3>1, <3>2, <3>3, <3>4 DEF HeadersLaid
    <2>2. CASE i # 1
      <3>1. i \in 2 .. n
        BY <1>0, <2>2
      <3> QED BY <1>1, <1>4, <3>1
    <2> QED BY <2>1, <2>2
  <1> QED BY <1>2, <1>3, <1>4, <1>5

-----------------------------------------------------------------------------
(***************************************************************************)
(* The writes.                                                             *)
(***************************************************************************)
LEMMA FlattenTurn ==
  ASSUME NEW W, NEW seqs \in Seq(Seq(W)), seqs # << >>
  PROVE  \E f : /\ FlattenSeq(seqs) = f[Len(seqs)]
                /\ \A m \in 1 .. Len(seqs) : f[m] = IF m = 1 THEN seqs[m] ELSE f[m - 1] \o seqs[m]
  <1> DEFINE n == Len(seqs)
             Body(f, m) == [i \in 1 .. m |-> IF i = 1 THEN seqs[i] ELSE f[i - 1] \o seqs[i]]
             S == {m \in 0 .. n : \E f : f = Body(f, m)}
             flatten == CHOOSE f : f = Body(f, n)
  <1>0. n \in Nat /\ \A i \in 1 .. n : seqs[i] \in Seq(W)
    OBVIOUS
  <1>9. n # 0 /\ seqs # << >>
    OBVIOUS
  <1>1. 0 \in S
    <2>1. [i \in 1 .. 0 |-> 0] = Body([i \in 1 .. 0 |-> 0], 0)
      OBVIOUS
    <2> HIDE DEF Body
    <2>2. \E f : f = Body(f, 0)
      BY <2>1
    <2> QED BY <1>0, <2>2
  <1>2. ASSUME NEW m \in 1 .. n, m - 1 \in S PROVE m \in S
    <2>1. PICK f : f = Body(f, m - 1)
      BY <1>2
    <2> DEFINE g == [i \in 1 .. m |-> IF i < m THEN f[i]
                                      ELSE IF i = 1 THEN seqs[1] ELSE f[i - 1] \o seqs[i]]
    <2>2. g = Body(g, m)
      <3>0. g = [i \in 1 .. m |-> g[i]] /\ Body(g, m) = [i \in 1 .. m |-> Body(g, m)[i]]
        OBVIOUS
      <3>1. ASSUME NEW i \in 1 .. m PROVE g[i] = Body(g, m)[i]
        <4>0. i # 1 => g[i - 1] = f[i - 1]
          BY <1>0
        <4>1. CASE i < m
          <5>1. i \in 1 .. m - 1 /\ g[i] = f[i]
            BY <1>0, <4>1
          <5>2. Body(f, m - 1)[i] = IF i = 1 THEN seqs[i] ELSE f[i - 1] \o seqs[i]
            BY <5>1
          <5>3. f[i] = Body(f, m - 1)[i]
            <6> HIDE DEF Body, g
            <6> QED BY <2>1
          <5>4. Body(g, m)[i] = IF i = 1 THEN seqs[i] ELSE g[i - 1] \o seqs[i]
            OBVIOUS
          <5> HIDE DEF Body, g
          <5> QED BY <4>0, <5>1, <5>2, <5>3, <5>4
        <4>2. CASE ~(i < m)
          <5>1. g[i] = IF i = 1 THEN seqs[1] ELSE f[i - 1] \o seqs[i]
            BY <4>2
          <5>2. Body(g, m)[i] = IF i = 1 THEN seqs[i] ELSE g[i - 1] \o seqs[i]
            OBVIOUS
          <5> HIDE DEF Body, g
          <5> QED BY <4>0, <5>1, <5>2
        <4> QED BY <4>1, <4>2
      <3> HIDE DEF Body, g
      <3> QED BY <3>0, <3>1
    <2> HIDE DEF Body, g
    <2>3. \E f_1 : f_1 = Body(f_1, m)
      BY <2>2
    <2> QED BY <2>3
  <1>3. n \in S
    <2> HIDE DEF S, n
    <2>1. 0 .. n \subseteq S
      <3>1. n \in Nat
        BY <1>0
      <3>2. \A i \in 1 .. n : i - 1 \in S => i \in S
        BY <1>2
      <3> QED BY ONLY <1>1, <3>1, <3>2, UpTo
    <2>2. n \in 0 .. n
      BY <1>0
    <2> QED BY <2>1, <2>2
  <1>4. flatten = Body(flatten, n)
    <2> HIDE DEF Body
    <2> QED BY <1>3
  <1>5. FlattenSeq(seqs) = flatten[n]
    BY <1>9 DEF FlattenSeq
  <1> HIDE DEF flatten
  <1>6. \A m \in 1 .. n : flatten[m] = IF m = 1 THEN seqs[m] ELSE flatten[m - 1] \o seqs[m]
    BY <1>4
  <1> QED BY <1>5, <1>6

LEMMA FlattenFact ==
  ASSUME NEW W, NEW seqs \in Seq(Seq(W))
  PROVE  FlattenSeq(seqs) \in Seq(W)
  <1> DEFINE n == Len(seqs)
  <1>0. n \in Nat /\ \A i \in 1 .. n : seqs[i] \in Seq(W)
    OBVIOUS
  <1>1. CASE n = 0
    <2>1. FlattenSeq(seqs) = seqs /\ seqs = << >>
      BY <1>1 DEF FlattenSeq
    <2> QED BY <2>1
  <1>2. CASE n # 0
    <2>5. PICK flatten : /\ FlattenSeq(seqs) = flatten[n]
                         /\ \A m \in 1 .. n : flatten[m] = IF m = 1 THEN seqs[m]
                                                             ELSE flatten[m - 1] \o seqs[m]
      <3>1. seqs # << >>
        BY <1>2
      <3> QED BY <3>1, FlattenTurn
    <2> DEFINE R == {m \in 0 .. n : m # 0 => flatten[m] \in Seq(W)}
    <2>6. 0 \in R
      BY <1>0
    <2>7. ASSUME NEW m \in 1 .. n, m - 1 \in R PROVE m \in R
      <3>1. flatten[m] = IF m = 1 THEN seqs[m] ELSE flatten[m - 1] \o seqs[m]
        BY <2>5
      <3>2. m # 1 => flatten[m - 1] \in Seq(W)
        BY <1>0, <2>7
      <3>3. seqs[m] \in Seq(W)
        BY <1>0
      <3>4. flatten[m] \in Seq(W)
        BY <3>1, <3>2, <3>3, ConcatProperties
      <3> QED BY <1>0, <3>4
    <2>8. n \in R
      <3> HIDE DEF R
      <3>1. 0 .. n \subseteq R
        BY <1>0, <2>6, <2>7, UpTo
      <3> QED BY <1>0, <3>1
    <2> QED BY <1>2, <2>5, <2>8
  <1> QED BY <1>1, <1>2

EhdrWrite(h) == [at |-> 0, cells |-> << <<"ehdr", h>> >>, null |-> FALSE]
PhdrWrite(h, j) == [at |-> h.e_phoff + j - 1, cells |-> << <<"phdr", 0>> >>, null |-> FALSE]
ShdrWrite(h, s, i) == [at |-> h.e_shoff + i - 1, cells |-> << <<"shdr", s.s_shdr>> >>, null |-> FALSE]
DataWrite(s, d) == [at |-> s.s_shdr.sh_offset + d.d_off, cells |-> Cells(d),
                    null |-> d.d_buf = << >> /\ d.d_size > 0]

\* The writes are these, of which a set is enough here.
LEMMA WritesIn ==
  ASSUME NEW W, e_phnum \in Nat, NEW h \in Ehdr, NEW ss \in Seq(Scn),
         EhdrWrite(h) \in W,
         \A j \in 1 .. e_phnum : PhdrWrite(h, j) \in W,
         \A i \in 1 .. Len(ss) : ShdrWrite(h, ss[i], i) \in W,
         \A i \in 2 .. Len(ss) : ss[i].s_shdr.sh_type = "bits" =>
            \A k \in 1 .. Len(ss[i].s_data) : DataWrite(ss[i], ss[i].s_data[k]) \in W
  PROVE  Writes(h, ss) \in Seq(W)
  <1> DEFINE ph == [j \in 1 .. e_phnum |-> PhdrWrite(h, j)]
             dw(i) == IF i = 1 THEN << >>
                      ELSE LET d == DataOf(ss[i]) IN [k \in 1 .. Len(d) |-> DataWrite(ss[i], d[k])]
             sw(i) == << ShdrWrite(h, ss[i], i) >> \o dw(i)
             parts == [i \in 1 .. Len(ss) |-> sw(i)]
  <1>0. Len(ss) \in Nat
    OBVIOUS
  <1>1. << EhdrWrite(h) >> \in Seq(W)
    OBVIOUS
  <1>2. ph \in Seq(W)
    <2>1. ph \in [1 .. e_phnum -> W]
      OBVIOUS
    <2> HIDE DEF ph
    <2> QED BY <2>1, SeqDef
  <1>3. ASSUME NEW i \in 1 .. Len(ss) PROVE sw(i) \in Seq(W)
    <2>1. dw(i) \in Seq(W)
      <3>1. CASE i = 1
        <4>1. dw(i) = << >>
          BY <3>1
        <4> HIDE DEF dw
        <4> QED BY <4>1
      <3>2. CASE i # 1
        <4> DEFINE d == DataOf(ss[i])
        <4>1. i \in 2 .. Len(ss) /\ ss[i] \in Scn
          BY <3>2
        <4>2. d \in Seq(Data) /\ \A k \in 1 .. Len(d) : DataWrite(ss[i], d[k]) \in W
          BY <4>1 DEF DataOf, Scn
        <4>3. dw(i) = [k \in 1 .. Len(d) |-> DataWrite(ss[i], d[k])]
          BY <3>2
        <4> HIDE DEF d, dw
        <4>4. dw(i) \in [1 .. Len(d) -> W] /\ Len(d) \in Nat
          BY <4>2, <4>3
        <4> QED BY <4>4, SeqDef
      <3> QED BY <3>1, <3>2
    <2>2. << ShdrWrite(h, ss[i], i) >> \in Seq(W)
      OBVIOUS
    <2> HIDE DEF dw
    <2> QED BY <2>1, <2>2, ConcatProperties
  <1>4. parts \in Seq(Seq(W))
    <2>1. parts \in [1 .. Len(ss) -> Seq(W)]
      BY <1>3
    <2> HIDE DEF parts
    <2> QED BY <1>0, <2>1, SeqDef
  <1>5. Writes(h, ss) = << EhdrWrite(h) >> \o ph \o FlattenSeq(parts)
    BY DEF Writes, EhdrWrite, PhdrWrite, ShdrWrite, DataWrite
  <1> HIDE DEF ph, parts
  <1>6. FlattenSeq(parts) \in Seq(W)
    BY <1>4, FlattenFact
  <1>7. << EhdrWrite(h) >> \o ph \in Seq(W)
    BY <1>1, <1>2, ConcatProperties
  <1> QED BY <1>5, <1>6, <1>7, ConcatProperties

Write == [at : Nat, cells : Seq(Cell), null : BOOLEAN]

LEMMA OneCell ==
  ASSUME NEW c \in Cell, NEW at \in Nat
  PROVE  /\ [at |-> at, cells |-> << c >>, null |-> FALSE] \in Write
         /\ [at |-> at, cells |-> << c >>, null |-> FALSE].at = at
         /\ Len([at |-> at, cells |-> << c >>, null |-> FALSE].cells) = 1
  <1>1. << c >> \in Seq(Cell) /\ Len(<< c >>) = 1
    OBVIOUS
  <1> QED BY <1>1 DEF Write

LEMMA EhdrWriteFact ==
  ASSUME NEW h \in Ehdr
  PROVE  EhdrWrite(h) \in Write /\ EhdrWrite(h).at = 0 /\ Len(EhdrWrite(h).cells) = 1
  <1>1. <<"ehdr", h>> \in Cell
    BY DEF Cell
  <1> QED BY <1>1, OneCell DEF EhdrWrite

LEMMA PhdrWriteFact ==
  ASSUME NEW h \in Ehdr, NEW j \in Nat \ {0}
  PROVE  /\ PhdrWrite(h, j) \in Write /\ PhdrWrite(h, j).at = h.e_phoff + j - 1
         /\ Len(PhdrWrite(h, j).cells) = 1
  <1>1. <<"phdr", 0>> \in Cell
    BY DEF Cell
  <1>2. h.e_phoff + j - 1 \in Nat
    BY DEF Ehdr
  <1> QED BY <1>1, <1>2, OneCell DEF PhdrWrite

LEMMA ShdrWriteFact ==
  ASSUME NEW h \in Ehdr, NEW s \in Scn, NEW i \in Nat \ {0}
  PROVE  /\ ShdrWrite(h, s, i) \in Write /\ ShdrWrite(h, s, i).at = h.e_shoff + i - 1
         /\ Len(ShdrWrite(h, s, i).cells) = 1
  <1>1. <<"shdr", s.s_shdr>> \in Cell
    <2>1. s.s_shdr \in Shdr
      BY DEF Scn
    <2> QED BY <2>1 DEF Cell
  <1>2. h.e_shoff + i - 1 \in Nat
    BY DEF Ehdr
  <1> QED BY <1>1, <1>2, OneCell DEF ShdrWrite

LEMMA DataWriteFact ==
  ASSUME NEW s \in Scn, NEW d \in Data
  PROVE  /\ DataWrite(s, d) \in Write /\ DataWrite(s, d).at = s.s_shdr.sh_offset + d.d_off
         /\ Len(DataWrite(s, d).cells) = Len(d.d_buf)
  <1>1. s.s_shdr.sh_offset \in Nat /\ d.d_off \in Nat /\ d.d_buf \in Seq(Byte)
    <2>1. s.s_shdr \in Shdr
      BY DEF Scn
    <2> QED BY <2>1, ShdrFact DEF Data
  <1>2. Cells(d) \in Seq(Cell) /\ Len(Cells(d)) = Len(d.d_buf)
    <2>1. Len(d.d_buf) \in Nat /\ DOMAIN d.d_buf = 1 .. Len(d.d_buf)
      BY <1>1
    <2>2. \A c \in 1 .. Len(d.d_buf) : <<"data", d.d_buf[c]>> \in Cell
      BY <1>1 DEF Cell
    <2>3. Cells(d) = [c \in 1 .. Len(d.d_buf) |-> <<"data", d.d_buf[c]>>]
      BY <2>1 DEF Cells
    <2>4. Cells(d) \in [1 .. Len(d.d_buf) -> Cell]
      BY <2>2, <2>3
    <2> QED BY <2>1, <2>3, <2>4, SeqDef
  <1>3. (d.d_buf = << >> /\ d.d_size > 0) \in BOOLEAN
    OBVIOUS
  <1> HIDE DEF Cells
  <1> QED BY <1>1, <1>2, <1>3 DEF DataWrite, Write

LEMMA WritesType ==
  ASSUME e_phnum \in Nat, NEW h \in Ehdr, NEW ss \in Seq(Scn)
  PROVE  Writes(h, ss) \in Seq(Write)
  <1>1. \A j \in 1 .. e_phnum : PhdrWrite(h, j) \in Write
    BY PhdrWriteFact
  <1>2. \A i \in 1 .. Len(ss) : ShdrWrite(h, ss[i], i) \in Write
    BY ShdrWriteFact
  <1>3. ASSUME NEW i \in 1 .. Len(ss), NEW k \in 1 .. Len(ss[i].s_data)
        PROVE  DataWrite(ss[i], ss[i].s_data[k]) \in Write
    <2>1. ss[i] \in Scn
      OBVIOUS
    <2>2. ss[i].s_data \in Seq(Data)
      BY <2>1 DEF Scn
    <2>3. ss[i].s_data[k] \in Data
      BY <2>2
    <2> QED BY <2>1, <2>3, DataWriteFact
  <1>4. EhdrWrite(h) \in Write
    BY EhdrWriteFact
  <1>5. \A i \in 2 .. Len(ss) : ss[i].s_shdr.sh_type = "bits" =>
            \A k \in 1 .. Len(ss[i].s_data) : DataWrite(ss[i], ss[i].s_data[k]) \in Write
    BY <1>3
  <1> QED BY <1>1, <1>2, <1>4, <1>5, WritesIn

\* A datum ends inside its section.
LEMMA DatumInside ==
  ASSUME NEW s \in Scn, s.s_shdr.sh_type = "bits", NEW k \in 1 .. Len(s.s_data),
         DataEnd(s.s_data)[Len(s.s_data)] <= s.s_shdr.sh_size,
         PlacedData(s.s_data)[k].d_off = s.s_data[k].d_off,
         Len(s.s_data[k].d_buf) \in {0, s.s_data[k].d_size}
  PROVE  s.s_shdr.sh_offset + s.s_data[k].d_off + Len(s.s_data[k].d_buf) <= FileEnd(s.s_shdr)
  <1> DEFINE d == s.s_data
             a == d[k].d_off
             b == d[k].d_size
             c == Len(d[k].d_buf)
             o == s.s_shdr.sh_offset
             m == s.s_shdr.sh_size
             e == DataEnd(d)[Len(d)]
  <1>1. s.s_shdr \in Shdr /\ d \in Seq(Data)
    BY DEF Scn
  <1>2. a \in Nat /\ b \in Nat
    BY <1>1, DataFact
  <1>3. o \in Nat /\ m \in Nat /\ FileEnd(s.s_shdr) = o + m
    BY <1>1, ShdrFact DEF FileEnd
  <1>4. e \in Nat /\ DataEnd(d)[k] \in Nat
    BY <1>1, DataEndType
  <1>5. a + b <= DataEnd(d)[k] /\ DataEnd(d)[k] <= e
    BY <1>1, DataEndStep, DataInside
  <1>6. e <= m /\ c \in {0, b}
    OBVIOUS
  <1> HIDE DEF a, b, c, o, m, e
  <1>7. a + b <= m
    BY <1>2, <1>3, <1>4, <1>5, <1>6
  <1>8. o + a + c <= o + m
    BY <1>2, <1>3, <1>6, <1>7
  <1> QED BY <1>3, <1>8 DEF a, c, o

\* The writes of a settled state stay inside what the layout returns.
LEMMA SettledInside == LayoutType /\ DataTyped /\ Settled =>
        (stage \in {"settled", "saved"} =>
            (Laid(0).says = "ok" =>
                \A w \in Range(Writes(ehdr, scns)) : w.at + Len(w.cells) <= Laid(0).end))
  <1> SUFFICES ASSUME LayoutType, DataTyped, HeadersLaid, NEW off, LaidOut(off), Laid(0).says = "ok"
               PROVE  \A w \in Range(Writes(ehdr, scns)) : w.at + Len(w.cells) <= Laid(0).end
    BY DEF Settled
  <1> DEFINE n == Len(scns)
             at == AfterScns(0)
             end == Laid(0).end
             W == {w \in Write : w.at + Len(w.cells) <= end}
  <1>0. n \in Nat /\ scns \in Seq(Scn) /\ e_phnum \in Nat /\ ehdr \in Ehdr /\ 0 \in Nat
    BY DEF LayoutType
  <1>1. /\ at.says = "ok" /\ at.off \in Nat \ {0} /\ end \in Nat /\ end >= at.off
        /\ Shoff(at) \in Nat /\ (scns # << >> => end >= Shoff(at) + n)
    BY LaidFact
  <1>2. EhdrWrite(ehdr) \in W
    <2>1. 0 + 1 <= end
      BY <1>1
    <2> HIDE DEF end
    <2> QED BY <1>0, <2>1, EhdrWriteFact
  <1>3. ASSUME NEW j \in 1 .. e_phnum PROVE PhdrWrite(ehdr, j) \in W
    <2>1. ehdr.e_phoff + e_phnum <= AfterPhdrs.off
      BY <1>0, AfterPhdrsFact DEF HeadersLaid
    <2>2. AfterPhdrs.off <= at.off
      <3>1. n \in 0 .. n /\ 0 \in 0 .. n /\ Turns(0)[0] = AfterPhdrs
        BY <1>0, ScnTurn DEF ScnTurns
      <3> QED BY <3>1, LoopFact DEF Looped, AfterScns
    <2>3. AfterPhdrs.off \in Nat /\ ehdr.e_phoff \in Nat
      BY <1>0, AfterPhdrsFact DEF Turn, Ehdr
    <2>4. ehdr.e_phoff + j - 1 + 1 <= end
      BY <1>0, <1>1, <2>1, <2>2, <2>3
    <2>5. j \in Nat \ {0}
      BY <1>0
    <2> QED BY <1>0, <2>4, <2>5, PhdrWriteFact
  <1>4. ASSUME NEW i \in 1 .. n PROVE ShdrWrite(ehdr, scns[i], i) \in W
    <2>1. ehdr.e_shoff = Shoff(at)
      <3>1. CASE Layout
        <4>1. at.off = off[n]
          BY <3>1, TracksAll
        <4> QED BY <3>1, <4>1 DEF Shoff, LaidOut
      <3>2. CASE ~Layout
        BY <3>2 DEF Shoff
      <3> QED BY <3>1, <3>2
    <2>2. ehdr.e_shoff + i - 1 + 1 <= end
      <3>1. scns # << >>
        BY <1>0
      <3> QED BY <1>0, <1>1, <2>1, <3>1
    <2>3. i \in Nat \ {0} /\ scns[i] \in Scn
      BY <1>0
    <2> QED BY <1>0, <2>2, <2>3, ShdrWriteFact
  <1>5. ASSUME NEW i \in 2 .. n, scns[i].s_shdr.sh_type = "bits", NEW k \in 1 .. Len(scns[i].s_data)
        PROVE  DataWrite(scns[i], scns[i].s_data[k]) \in W
    <2> DEFINE s == scns[i]
               d == s.s_data
    <2>1. i \in 1 .. n /\ s \in Scn
      BY <1>0
    <2>2. s.s_shdr \in Shdr /\ d \in Seq(Data)
      BY <2>1 DEF Scn
    <2>3. FileEnd(s.s_shdr) <= at.off
      <3>0. LaidScn(i, off[i - 1], off[i])
        BY DEF LaidOut
      <3>1. CASE Layout
        <4>1. at.off = off[n]
          BY <3>1, TracksAll
        <4>2. FileEnd(s.s_shdr) <= off[i] /\ off[i] <= off[n]
          <5>1. i \in 0 .. n /\ n \in 0 .. n
            BY <1>0
          <5> QED BY <1>5, <3>0, <5>1 DEF LaidScn, LaidOut
        <4>3. FileEnd(s.s_shdr) \in Nat /\ off[i] \in Nat /\ off[n] \in Nat
          <5>1. i \in 0 .. n /\ n \in 0 .. n
            BY <1>0
          <5> QED BY <2>2, <5>1, ShdrFact DEF LaidOut
        <4> HIDE DEF s
        <4> QED BY <4>1, <4>2, <4>3
      <3>2. CASE ~Layout
        <4>1. /\ FileEnd(s.s_shdr) <= Turns(0)[i].off /\ Turns(0)[i].off <= at.off
              /\ Turns(0)[i] \in Turn
          BY <1>1, <1>5, <3>2, ScnStep
        <4>2. FileEnd(s.s_shdr) \in Nat /\ Turns(0)[i].off \in Nat
          BY <2>2, <4>1, ShdrFact DEF Turn
        <4> HIDE DEF s
        <4> QED BY <1>1, <4>1, <4>2
      <3> QED BY <3>1, <3>2
    <2>4. DataEnd(d)[Len(d)] <= s.s_shdr.sh_size
      <3>0. LaidScn(i, off[i - 1], off[i])
        BY DEF LaidOut
      <3> QED BY <1>5, <3>0 DEF LaidScn
    <2>5. d[k] \in Data /\ d[k].d_off \in Nat /\ d[k].d_size \in Nat /\ d[k].d_buf \in Seq(Byte)
      BY <2>2, DataFact
    <2>6. PlacedData(d)[k].d_off = d[k].d_off
      <3>1. CASE Layout
        <4>1. LaidScn(i, off[i - 1], off[i])
          BY DEF LaidOut
        <4>2. PlacedData(d) = d
          BY <1>5, <3>1, <4>1 DEF LaidScn, LaidByLibrary
        <4> QED BY <4>2
      <3>2. CASE ~Layout
        BY <2>2, <3>2, PlacedFact
      <3> QED BY <3>1, <3>2
    <2>7. s.s_shdr.sh_offset + d[k].d_off + Len(d[k].d_buf) <= FileEnd(s.s_shdr)
      <3>1. Len(d[k].d_buf) \in {0, d[k].d_size}
        BY <2>1 DEF DataTyped
      <3> HIDE DEF s
      <3> QED BY <1>5, <2>1, <2>4, <2>6, <3>1, DatumInside DEF s
    <2>8. DataWrite(s, d[k]).at + Len(DataWrite(s, d[k]).cells) <= FileEnd(s.s_shdr)
      BY <2>1, <2>5, <2>7, DataWriteFact
    <2>9. DataWrite(s, d[k]).at + Len(DataWrite(s, d[k]).cells) <= end
      <3>1. FileEnd(s.s_shdr) \in Nat /\ FileEnd(s.s_shdr) <= end
        BY <1>1, <2>2, <2>3, ShdrFact
      <3>2. DataWrite(s, d[k]).at \in Nat /\ Len(DataWrite(s, d[k]).cells) \in Nat
        BY <2>1, <2>5, DataWriteFact DEF Write
      <3> HIDE DEF s, d, end
      <3>3. end \in Nat
        BY <1>1 DEF end
      <3> QED BY <2>8, <3>1, <3>2, <3>3
    <2> HIDE DEF end
    <2> QED BY <2>1, <2>5, <2>9, DataWriteFact
  <1> HIDE DEF W
  <1>6. Writes(ehdr, scns) \in Seq(W)
    BY <1>0, <1>2, <1>3, <1>4, <1>5, WritesIn
  <1>7. Range(Writes(ehdr, scns)) \subseteq W
    BY <1>6 DEF Range
  <1> QED BY <1>7 DEF W

-----------------------------------------------------------------------------
(***************************************************************************)
(* A layout that succeeds leaves a settled state.                          *)
(***************************************************************************)
LEMMA DataTurnNext == DataTurns'
  BY DataTurn, PTL

\* The ends of data do not depend on the offsets the library has chosen.
LEMMA SameEnds ==
  ASSUME NEW d \in Seq(Data), NEW e \in Seq(Data), Len(e) = Len(d), Layout' = Layout,
         \A k \in 1 .. Len(d) : /\ e[k].d_align = d[k].d_align /\ e[k].d_size = d[k].d_size
                                /\ ~Layout => e[k].d_off = d[k].d_off
  PROVE  \A k \in 0 .. Len(d) : (DataEnd(e)')[k] = DataEnd(d)[k]
  <1> DEFINE S == {k \in 0 .. Len(d) : (DataEnd(e)')[k] = DataEnd(d)[k]}
  <1>0. Len(d) \in Nat
    OBVIOUS
  <1>1. 0 \in S
    BY <1>0, DataTurn, DataTurnNext DEF DataTurns
  <1>2. ASSUME NEW k \in 1 .. Len(d), k - 1 \in S PROVE k \in S
    <2>1. (DataEnd(e)')[k - 1] = DataEnd(d)[k - 1]
      BY <1>2
    <2>2. DataEnd(d)[k] = EndAfter(d, k, DataEnd(d)[k - 1])
      BY DataTurn DEF DataTurns
    <2>3. (DataEnd(e)')[k] = (EndAfter(e, k, DataEnd(e)[k - 1]))'
      BY DataTurnNext DEF DataTurns
    <2>4. (DataEnd(e)')[k] = IF Layout THEN AlignUp(DataEnd(d)[k - 1], e[k].d_align) + e[k].d_size
                             ELSE Max({DataEnd(d)[k - 1], e[k].d_off + e[k].d_size})
      BY <2>1, <2>3 DEF EndAfter
    <2>5. (DataEnd(e)')[k] = DataEnd(d)[k]
      BY <2>2, <2>4 DEF EndAfter
    <2> QED BY <1>0, <2>5
  <1> HIDE DEF S
  <1>3. 0 .. Len(d) \subseteq S
    BY <1>0, <1>1, <1>2, UpTo
  <1> QED BY <1>3 DEF S

LEMMA PlacedAgain ==
  ASSUME NEW d \in Seq(Data), NEW e, e = PlacedData(d), Layout, Layout' = Layout
  PROVE  /\ (DataEnd(e)')[Len(e)] = DataEnd(d)[Len(d)]
         /\ PlacedData(e)' = e /\ ScnAlign(e) = ScnAlign(d)
  <1>0. Len(d) \in Nat /\ Len(d) \in 0 .. Len(d)
    OBVIOUS
  <1>1. /\ e \in Seq(Data) /\ Len(e) = Len(d)
        /\ \A k \in 1 .. Len(d) : /\ e[k].d_align = d[k].d_align /\ e[k].d_size = d[k].d_size
                                  /\ e[k].d_off = AlignUp(DataEnd(d)[k - 1], d[k].d_align)
    BY PlacedFact
  <1>2. \A k \in 0 .. Len(d) : (DataEnd(e)')[k] = DataEnd(d)[k]
    BY <1>1, SameEnds
  <1>3. PlacedData(e)' = e
    <2>1. ASSUME NEW k \in 1 .. Len(e)
          PROVE  [e[k] EXCEPT !.d_off = AlignUp((DataEnd(e)')[k - 1], e[k].d_align)] = e[k]
      <3>1. e[k] \in Data /\ k \in 1 .. Len(d) /\ k - 1 \in 0 .. Len(d)
        BY <1>0, <1>1
      <3>2. AlignUp((DataEnd(e)')[k - 1], e[k].d_align) = e[k].d_off
        BY <1>1, <1>2, <3>1
      <3> QED BY <3>1, <3>2 DEF Data
    <2>2. PlacedData(e)' = [k \in 1 .. Len(e) |->
             [e[k] EXCEPT !.d_off = AlignUp((DataEnd(e)')[k - 1], e[k].d_align)]]
      BY DEF PlacedData
    <2>3. PlacedData(e)' = [k \in 1 .. Len(e) |-> e[k]]
      BY <2>1, <2>2
    <2>4. e = [k \in 1 .. Len(e) |-> e[k]]
      BY <1>1
    <2> QED BY <2>3, <2>4
  <1>4. ScnAlign(e) = ScnAlign(d)
    <2>1. DOMAIN e = 1 .. Len(d) /\ DOMAIN d = 1 .. Len(d)
      BY <1>1
    <2>2. {e[k].d_align : k \in DOMAIN e} = {d[k].d_align : k \in DOMAIN d}
      BY <1>1, <2>1
    <2> QED BY <2>2 DEF ScnAlign
  <1> QED BY <1>0, <1>1, <1>2, <1>3, <1>4

LEMMA ExtendedTwice ==
  ASSUME NEW h \in Shdr, NEW g \in Shdr, e_phnum \in Nat,
         g.sh_offset = ExtendedPhnum(h).sh_offset, g.sh_info = ExtendedPhnum(h).sh_info
  PROVE  ExtendedPhnum(g) = g
  <1>1. CASE e_class = 32
    <2>1. g.sh_info = e_phnum
      BY <1>1 DEF ExtendedPhnum, Shdr
    <2> QED BY <1>1, <2>1 DEF ExtendedPhnum, Shdr
  <1>2. CASE e_class # 32
    <2> DEFINE r == h.sh_offset % Word
               off == r + e_phnum * Word
    <2>1. Word \in Nat \ {0} /\ h.sh_offset \in Nat
      BY Constants, ShdrFact
    <2>2. r \in 0 .. Word - 1
      BY <2>1
    <2>3. g.sh_offset = off
      BY <1>2 DEF ExtendedPhnum, Shdr
    <2> HIDE DEF r
    <2>4. (e_phnum * Word + r) % Word = r
      BY <2>1, <2>2, Division
    <2>5. e_phnum * Word + r = off
      BY <2>1, <2>2
    <2>6. (g.sh_offset % Word) + e_phnum * Word = g.sh_offset
      BY <2>3, <2>4, <2>5
    <2>7. ExtendedPhnum(g) = [g EXCEPT !.sh_offset = (g.sh_offset % Word) + e_phnum * Word]
      BY <1>2 DEF ExtendedPhnum, Shdr
    <2> QED BY <2>6, <2>7 DEF Shdr
  <1> QED BY <1>1, <1>2

LEMMA SameHeader ==
  ASSUME NEW g \in Shdr, NEW h \in Shdr,
         g.sh_type = h.sh_type, g.sh_offset = h.sh_offset, g.sh_size = h.sh_size,
         g.sh_addralign = h.sh_addralign, g.sh_info = h.sh_info
  PROVE  g = h
  BY DEF Shdr

LEMMA FirstLaidTwice ==
  ASSUME LayoutType, NEW h \in Shdr
  PROVE  FirstLaid(h) \in Shdr /\ FirstLaid(FirstLaid(h)) = FirstLaid(h)
  <1> DEFINE x(a) == IF e_phnum >= PnXnum THEN ExtendedPhnum(a) ELSE a
             f(a) == IF Layout THEN FirstHeader(a) ELSE a
             c(a) == IF Len(scns) >= LoReserve THEN CountedHeader(a) ELSE a
  <1>0. e_phnum \in Nat /\ Len(scns) \in Nat
    BY DEF LayoutType
  <1>1. \A a : FirstLaid(a) = c(f(x(a)))
    BY DEF FirstLaid
  <1>2. \A a \in Shdr : x(a) \in Shdr
    BY <1>0, ExtendedPhnumFact
  <1>3. \A a \in Shdr : f(a) \in Shdr
    BY DEF FirstHeader, Shdr
  <1>4. \A a \in Shdr : c(a) \in Shdr
    BY <1>0 DEF CountedHeader, Shdr
  <1> DEFINE a == x(h)
             b == c(f(a))
  <1>5. a \in Shdr /\ f(a) \in Shdr /\ b \in Shdr /\ FirstLaid(h) = b
    BY <1>1, <1>2, <1>3, <1>4
  <1>6. CASE ~Layout
    <2>1. b.sh_offset = a.sh_offset /\ b.sh_info = a.sh_info
          /\ (Len(scns) >= LoReserve => b.sh_size = Len(scns))
      <3> HIDE DEF a
      <3> QED BY <1>5, <1>6 DEF CountedHeader, Shdr
    <2>2. x(b) = b
      BY <1>0, <1>5, <2>1, ExtendedTwice
    <2>3. c(b) = b
      <3> HIDE DEF b
      <3> QED BY <1>5, <2>1 DEF CountedHeader, Shdr
    <2> HIDE DEF x, c, b
    <2>4. f(b) = b
      BY <1>6
    <2> QED BY <1>1, <1>5, <2>2, <2>3, <2>4
  <1>7. CASE Layout
    <2>1. /\ b.sh_offset = 0 /\ b.sh_addralign = 0 /\ b.sh_info = a.sh_info
          /\ b.sh_size = IF Len(scns) >= LoReserve THEN Len(scns) ELSE 0
      <3> HIDE DEF a
      <3> QED BY <1>5, <1>7 DEF CountedHeader, FirstHeader, Shdr
    <2>2. x(b).sh_info = b.sh_info /\ x(b).sh_type = b.sh_type /\ x(b) \in Shdr
      <3>1. x(b) \in Shdr
        BY <1>2, <1>5
      <3>2. CASE e_phnum >= PnXnum
        <4>1. ExtendedPhnum(b).sh_info = b.sh_info
          <5>1. CASE e_class = 32
            <6>1. a.sh_info = e_phnum
              BY <3>2, <5>1 DEF ExtendedPhnum, Shdr
            <6> HIDE DEF a, b
            <6> QED BY <1>5, <2>1, <5>1, <6>1 DEF ExtendedPhnum, Shdr
          <5>2. CASE e_class # 32
            <6> HIDE DEF b
            <6> QED BY <1>5, <5>2 DEF ExtendedPhnum, Shdr
          <5> QED BY <5>1, <5>2
        <4>2. ExtendedPhnum(b).sh_type = b.sh_type
          BY <1>0, <1>5, ExtendedPhnumFact
        <4> QED BY <3>1, <3>2, <4>1, <4>2
      <3>3. CASE ~(e_phnum >= PnXnum)
        BY <3>1, <3>3
      <3> QED BY <3>2, <3>3
    <2> DEFINE y == x(b)
    <2>3. c(f(y)) = b
      <3> HIDE DEF y, b
      <3>1. y \in Shdr /\ y.sh_info = b.sh_info /\ y.sh_type = b.sh_type
        BY <2>2 DEF y
      <3>2. /\ f(y) \in Shdr /\ f(y).sh_info = b.sh_info /\ f(y).sh_type = b.sh_type
            /\ f(y).sh_offset = 0 /\ f(y).sh_size = 0 /\ f(y).sh_addralign = 0
        BY <1>7, <3>1 DEF FirstHeader, Shdr
      <3> HIDE DEF f
      <3>3. /\ c(f(y)) \in Shdr /\ c(f(y)).sh_info = b.sh_info /\ c(f(y)).sh_type = b.sh_type
            /\ c(f(y)).sh_offset = 0 /\ c(f(y)).sh_addralign = 0
            /\ c(f(y)).sh_size = IF Len(scns) >= LoReserve THEN Len(scns) ELSE 0
        <4>1. PICK g : g = f(y)
          OBVIOUS
        <4>2. CASE Len(scns) >= LoReserve
          <5>1. c(f(y)) = [g EXCEPT !.sh_size = Len(scns)]
            BY <4>1, <4>2 DEF CountedHeader
          <5> QED BY <1>0, <3>2, <4>1, <4>2, <5>1 DEF Shdr
        <4>3. CASE ~(Len(scns) >= LoReserve)
          BY <3>2, <4>3
        <4> QED BY <4>2, <4>3
      <3> HIDE DEF c
      <3>4. b \in Shdr
        BY <1>5
      <3> HIDE DEF b, y
      <3> QED BY <2>1, <3>3, <3>4, SameHeader
    <2> HIDE DEF x, c, f, b
    <2> QED BY <1>1, <1>5, <2>3 DEF y
  <1> QED BY <1>5, <1>6, <1>7

\* What elf_update keeps of the headers and sections of a layout.
Keeping ==
    /\ ehdr' = Laid(0).ehdr /\ scns' \in Seq(Scn) /\ Len(scns') = Len(scns)
    /\ \A i \in 1 .. Len(scns) : /\ scns'[i].s_shdr = Laid(0).scns[i].s_shdr
                                 /\ scns'[i].s_data = Laid(0).scns[i].s_data
                                 /\ scns'[i].s_null = Laid(0).scns[i].s_null
    /\ e_phnum' = e_phnum /\ e_class' = e_class
    /\ Layout' = Layout /\ Overlaps' = Overlaps

LEMMA KeptScn ==
  ASSUME LayoutType, Laid(0).says = "ok", Keeping, NEW i \in 2 .. Len(scns),
         NEW before, before = Turns(0)[i - 1].off, NEW after, after = Turns(0)[i].off
  PROVE  LaidScn(i, before, after)'
  <1> DEFINE p == Turns(0)[i - 1]
             r == Turns(0)[i]
             n == Len(scns)
  <1>0. n \in Nat /\ scns \in Seq(Scn) /\ i \in 1 .. n /\ AfterScns(0).says = "ok"
    BY LaidFact DEF LayoutType
  <1>1. PICK s, z : s = scns[i] /\ z = scns'[i]
    OBVIOUS
  <1>2. /\ s \in Scn /\ s.s_data \in Seq(Data) /\ s.s_shdr \in Shdr
        /\ z \in Scn /\ z.s_data \in Seq(Data) /\ z.s_shdr \in Shdr
    <2>1. s \in Scn
      BY <1>0, <1>1
    <2>2. z \in Scn
      BY <1>0, <1>1 DEF Keeping
    <2> QED BY <2>1, <2>2 DEF Scn
  <1>3. /\ z.s_shdr = r.scns[i].s_shdr /\ z.s_data = r.scns[i].s_data
        /\ z.s_null = s.s_null
        /\ p \in Turn /\ r \in Turn /\ before <= after /\ before \in Nat /\ after \in Nat
    <2>1. /\ z.s_shdr = Laid(0).scns[i].s_shdr /\ z.s_data = Laid(0).scns[i].s_data
          /\ z.s_null = Laid(0).scns[i].s_null
      BY <1>0, <1>1 DEF Keeping
    <2>2. Laid(0).scns[i] = AfterScns(0).scns[i]
      BY LaidFact
    <2>3. /\ AfterScns(0).scns[i] = r.scns[i] /\ p.off <= r.off /\ p \in Turn /\ r \in Turn
          /\ r.scns[i].s_null = s.s_null
      BY <1>0, <1>1, ScnStep
    <2> QED BY <2>1, <2>2, <2>3 DEF Turn
  <1>4. Layout' = Layout /\ Overlaps' = Overlaps
    BY DEF Keeping
  <1>5. CASE s.s_shdr.sh_type = "null"
    <2>1. r = p /\ p.scns[i] = s
      BY <1>0, <1>1, <1>5, ScnStep
    <2>2. z.s_shdr.sh_type = "null" /\ after = before
      BY <1>3, <1>5, <2>1
    <2> QED BY <1>1, <2>2 DEF LaidScn
  <1>6. CASE s.s_shdr.sh_type # "null" /\ Layout
    <2>0. ~z.s_null
      BY <1>0, <1>1, <1>3, <1>6, ScnStep
    <2>1. PICK d, e : d = s.s_data /\ e = z.s_data
      OBVIOUS
    <2>2. z.s_shdr = LibHeader(s, before) /\ e = PlacedData(d) /\ after = FileEnd(z.s_shdr)
      BY <1>0, <1>1, <1>3, <1>6, <2>1, ScnStep
    <2>3. (DataEnd(e)')[Len(e)] = DataEnd(d)[Len(d)] /\ PlacedData(e)' = e /\ ScnAlign(e) = ScnAlign(d)
      BY <1>2, <1>4, <1>6, <2>1, <2>2, PlacedAgain
    <2>4. z.s_shdr.sh_type # "null" /\ z.s_shdr.sh_size = DataEnd(d)[Len(d)]
      BY <1>2, <1>3, <1>6, <2>1, <2>2, LibHeaderFact
    <2>5. LibHeader(z, before)' = z.s_shdr
      <3>1. /\ z.s_shdr.sh_offset = AlignUp(before, ScnAlign(e))
            /\ z.s_shdr.sh_size = DataEnd(d)[Len(d)]
            /\ z.s_shdr.sh_addralign = ScnAlign(e)
        BY <1>2, <2>1, <2>2, <2>3 DEF LibHeader, LibOffset, Shdr
      <3>2. LibHeader(z, before)' = [z.s_shdr EXCEPT !.sh_offset = AlignUp(before, ScnAlign(e)),
                     !.sh_size = (DataEnd(e)')[Len(e)], !.sh_addralign = ScnAlign(e)]
        BY <2>1 DEF LibHeader, LibOffset
      <3>3. (DataEnd(e)')[Len(e)] = z.s_shdr.sh_size
        BY <2>3, <3>1
      <3>4. PICK h : h = z.s_shdr
        OBVIOUS
      <3>5. LibHeader(z, before)' = [h EXCEPT !.sh_offset = h.sh_offset, !.sh_size = h.sh_size,
                                              !.sh_addralign = h.sh_addralign]
        BY <3>1, <3>2, <3>3, <3>4
      <3>6. h \in Shdr
        BY <1>2, <3>4
      <3> QED BY <3>4, <3>5, <3>6 DEF Shdr
    <2>6. LaidByLibrary(z, before, after)'
      BY <2>1, <2>2, <2>3, <2>5 DEF LaidByLibrary
    <2>7. /\ (DataEnd(z.s_data)[Len(z.s_data)])' <= z.s_shdr.sh_size
          /\ FileEnd(z.s_shdr) <= after
      <3>1. (DataEnd(z.s_data)[Len(z.s_data)])' = z.s_shdr.sh_size
        BY <2>1, <2>3, <2>4
      <3>2. z.s_shdr.sh_size \in Nat /\ FileEnd(z.s_shdr) \in Nat
        BY <1>2, ShdrFact
      <3> QED BY <2>2, <3>1, <3>2
    <2> QED BY <1>1, <1>4, <1>6, <2>0, <2>4, <2>6, <2>7 DEF LaidScn
  <1>7. CASE s.s_shdr.sh_type # "null" /\ ~Layout
    <2>0. ~z.s_null
      BY <1>0, <1>1, <1>3, <1>7, ScnStep
    <2>1. PICK d : d = s.s_data
      OBVIOUS
    <2>2. /\ z.s_shdr = s.s_shdr /\ z.s_data = d
          /\ DataEnd(d)[Len(d)] <= s.s_shdr.sh_size
          /\ ~Refused(p, i)
          /\ after = Max({before, FileEnd(s.s_shdr)})
          /\ after >= FileEnd(s.s_shdr)
      BY <1>0, <1>1, <1>3, <1>7, <2>1, ScnStep
    <2>3. (DataEnd(d)')[Len(d)] = DataEnd(d)[Len(d)]
      <3>1. Len(d) \in 0 .. Len(d) /\ d \in Seq(Data)
        BY <1>2, <2>1
      <3> QED BY <1>4, <3>1, SameEnds
    <2>4. (DataEnd(z.s_data)[Len(z.s_data)])' <= z.s_shdr.sh_size
      BY <2>2, <2>3
    <2>5. ASSUME ~Overlaps, s.s_shdr.sh_offset < before, NEW j \in 1 .. i - 1,
                 j > 1 \/ n < LoReserve
          PROVE  ~Collide(s.s_shdr, scns'[j].s_shdr)
      <3>1. p.scns[i] = s /\ ~Collide(s.s_shdr, p.scns[j].s_shdr)
        <4>1. p.scns[i] = s
          BY <1>0, <1>1, ScnStep
        <4> QED BY <2>2, <2>5, <4>1 DEF Refused, Overlaps
      <3>2. p.scns[j].s_shdr = scns'[j].s_shdr
        <4>0. j \in 1 .. n /\ scns'[j].s_shdr = Laid(0).scns[j].s_shdr /\ i - 1 \in 0 .. n /\ 0 \in Nat
          BY <1>0 DEF Keeping
        <4>1. CASE j = 1
          <5>1. scns # << >> /\ ~(n >= LoReserve) /\ AfterScns(0) \in Turn
            BY <1>0, <2>5, <4>1, Constants, LaidFact
          <5>2. Len(AfterScns(0).scns) = n
            BY <4>0, LaidType
          <5>3. Laid(0).scns[1].s_shdr = AfterScns(0).scns[1].s_shdr
            BY <5>1, <5>2, LaidFact, ExtendedShnumFact
          <5>4. AfterScns(0).scns[1] = Turns(0)[1].scns[1]
            BY <4>0, <5>1, FirstStep
          <5>5. p.scns[1] = Turns(0)[1].scns[1]
            BY <4>0, <4>1, LoopFact DEF Looped
          <5> QED BY <4>0, <4>1, <5>3, <5>4, <5>5
        <4>2. CASE j # 1
          <5>1. j \in 2 .. n
            BY <1>0, <4>2
          <5>2. AfterScns(0).scns[j] = Turns(0)[j].scns[j]
            BY <1>0, <5>1, ScnStep
          <5>3. p.scns[j] = Turns(0)[j].scns[j]
            BY <4>0, LoopFact DEF Looped
          <5>4. Laid(0).scns[j] = AfterScns(0).scns[j]
            BY <5>1, LaidFact
          <5> QED BY <4>0, <5>2, <5>3, <5>4
        <4> QED BY <4>1, <4>2
      <3> QED BY <3>1, <3>2
    <2>6. LaidByProgram(i, before, after)'
      <3>1. before \in Nat /\ s.s_shdr.sh_offset \in Nat
        BY <1>2, <1>3, ShdrFact
      <3>2. Len(scns') = n
        BY DEF Keeping
      <3>3. \/ Overlaps \/ s.s_shdr.sh_offset >= before
            \/ \A j \in 1 .. i - 1 : (j > 1 \/ Len(scns') < LoReserve) =>
                     ~Collide(s.s_shdr, scns'[j].s_shdr)
        BY <2>5, <3>1, <3>2
      <3> QED BY <1>1, <1>4, <2>2, <3>3 DEF LaidByProgram
    <2> QED BY <1>1, <1>4, <1>7, <2>0, <2>2, <2>4, <2>6 DEF LaidScn
  <1> QED BY <1>5, <1>6, <1>7

LEMMA LaidSettles ==
  ASSUME LayoutType, Laid(0).says = "ok", Keeping
  PROVE  Settled'
  <1> DEFINE n == Len(scns)
             T == Turns(0)
  <1>0. /\ n \in Nat /\ scns \in Seq(Scn) /\ 0 \in Nat /\ 0 \in 0 .. n /\ n \in 0 .. n
        /\ AfterScns(0).says = "ok"
    BY LaidFact DEF LayoutType
  <1>1. /\ Len(scns') = n /\ scns' \in Seq(Scn) /\ (scns' = << >> <=> scns = << >>)
        /\ e_phnum' = e_phnum /\ e_class' = e_class /\ Layout' = Layout /\ ehdr' = Laid(0).ehdr
    BY <1>0 DEF Keeping
  <1>2. Phoff' = Phoff /\ ehdr'.e_phoff = Phoff
    BY <1>1, LaidFact DEF Phoff
  <1>3. Looped(0)
    BY <1>0, LoopFact
  <1>4. T[0] = AfterPhdrs /\ AfterScns(0) = T[n]
    BY <1>0, ScnTurn DEF ScnTurns, AfterScns
  <1>5. PICK off : off = [i \in 0 .. n |-> T[i].off]
    OBVIOUS
  <1>6. HeadersLaid'
    <2>1. scns # << >> => (FirstLaid(scns[1].s_shdr) = scns[1].s_shdr)'
      <3>1. SUFFICES ASSUME scns # << >> PROVE (FirstLaid(scns[1].s_shdr) = scns[1].s_shdr)'
        OBVIOUS
      <3>2. 1 \in 1 .. n /\ scns[1] \in Scn
        BY <1>0, <3>1
      <3>3. PICK h, g : h = scns[1].s_shdr /\ g = scns'[1].s_shdr
        OBVIOUS
      <3>4. h \in Shdr
        BY <3>2, <3>3 DEF Scn
      <3>5. g = FirstLaid(h)
        <4>1. g = Laid(0).scns[1].s_shdr
          BY <3>2, <3>3 DEF Keeping
        <4>2. /\ Laid(0).scns = ExtendedShnum(AfterScns(0)) /\ AfterScns(0) \in Turn
              /\ Len(AfterScns(0).scns) = n
          BY <1>0, LaidFact, LaidType
        <4>3. Laid(0).scns[1].s_shdr = IF n >= LoReserve THEN CountedHeader(AfterScns(0).scns[1].s_shdr)
                                       ELSE AfterScns(0).scns[1].s_shdr
          BY <3>1, <4>2, ExtendedShnumFact
        <4>4. AfterScns(0).scns[1].s_shdr = IF Layout THEN FirstHeader(FirstOf(scns)) ELSE FirstOf(scns)
          BY <1>0, <3>1, FirstStep
        <4> QED BY <3>3, <4>1, <4>3, <4>4 DEF FirstLaid, FirstOf
      <3>6. FirstLaid(g) = g
        BY <3>4, <3>5, FirstLaidTwice
      <3>7. FirstLaid(g)' = FirstLaid(g)
        BY <1>1 DEF FirstLaid, ExtendedPhnum, CountedHeader
      <3> QED BY <3>3, <3>6, <3>7
    <2>2. /\ ehdr'.e_phnum = Min({e_phnum, PnXnum})
          /\ ehdr'.e_shnum = IF n >= LoReserve THEN 0 ELSE n
      BY <1>1, LaidFact
    <2> QED BY <1>1, <1>2, <2>1, <2>2 DEF HeadersLaid
  <1>7. LaidOut(off)'
    <2>1. off \in [0 .. n -> Nat \ {0}]
      <3>1. \A i \in 0 .. n : T[i].off \in Nat \ {0}
        BY <1>3 DEF Looped, Turn
      <3> QED BY <1>5, <3>1
    <2>2. off[0] = (AfterPhdrs.off)'
      <3>1. (AfterPhdrs.off)' = IF e_phnum' = 0 THEN 1 ELSE Max({1, Phoff' + e_phnum'})
        BY DEF AfterPhdrs
      <3> QED BY <1>0, <1>1, <1>2, <1>4, <1>5, <3>1, AfterPhdrsFact
    <2>3. scns # << >> => off[1] = off[0]
      <3>1. SUFFICES ASSUME scns # << >> PROVE off[1] = off[0]
        OBVIOUS
      <3>2. 1 \in 0 .. n
        BY <1>0, <3>1
      <3> QED BY <1>0, <1>4, <1>5, <3>1, <3>2, FirstStep
    <2>4. \A i \in 0 .. n : \A k \in 0 .. i : off[k] <= off[i]
      <3>1. \A i \in 0 .. n : \A k \in 0 .. i : k \in 0 .. n /\ T[k].off <= T[i].off
        BY <1>0, <1>3 DEF Looped
      <3> QED BY <1>5, <3>1
    <2>5. \A i \in 2 .. n : LaidScn(i, off[i - 1], off[i])'
      <3>1. TAKE i \in 2 .. n
      <3>2. PICK before, after : before = T[i - 1].off /\ after = T[i].off
        OBVIOUS
      <3>3. LaidScn(i, before, after)'
        BY <1>0, <3>2, KeptScn
      <3>4. off[i - 1] = before /\ off[i] = after
        BY <1>0, <1>5, <3>2
      <3> QED BY <3>3, <3>4
    <2>6. Layout => ehdr'.e_shoff = IF scns = << >> THEN 0 ELSE AlignUp(off[n], AddrAlign)
      BY <1>0, <1>1, <1>4, <1>5, LaidFact DEF Shoff
    <2> QED BY <1>1, <2>1, <2>2, <2>3, <2>4, <2>5, <2>6 DEF LaidOut
  <1>8. \E o : LaidOut(o)'
    BY <1>7
  <1> QED BY <1>6, <1>8 DEF Settled

-----------------------------------------------------------------------------
(***************************************************************************)
(* The types are kept: sections whose data are in memory whole or not at   *)
(* all, with alignments that came from a file or from the application.     *)
(***************************************************************************)
TypedData == {d \in Data : Len(d.d_buf) \in {0, d.d_size} /\ d.d_align \in Alignments}

TypedScn == {s \in Scn : s.s_data \in Seq(TypedData)}

LEMMA SeqOfTyped ==
  ASSUME NEW d \in Seq(Data)
  PROVE  d \in Seq(TypedData)
            <=> \A k \in 1 .. Len(d) : Len(d[k].d_buf) \in {0, d[k].d_size} /\ d[k].d_align \in Alignments
  <1>1. ASSUME d \in Seq(TypedData), NEW k \in 1 .. Len(d)
        PROVE  Len(d[k].d_buf) \in {0, d[k].d_size} /\ d[k].d_align \in Alignments
    <2>1. d[k] \in TypedData
      BY <1>1
    <2> QED BY <2>1 DEF TypedData
  <1>2. ASSUME \A k \in 1 .. Len(d) : Len(d[k].d_buf) \in {0, d[k].d_size} /\ d[k].d_align \in Alignments
        PROVE  d \in Seq(TypedData)
    <2>1. \A k \in 1 .. Len(d) : d[k] \in TypedData
      BY <1>2 DEF TypedData
    <2> QED BY <2>1
  <1> QED BY <1>1, <1>2

TypedScns == scns \in Seq(TypedScn) <=> (scns \in Seq(Scn) /\ DataTyped)

LEMMA ScnsTyped == TypedScns
  <1>1. ASSUME scns \in Seq(TypedScn)
        PROVE  scns \in Seq(Scn) /\ DataTyped
    <2>1. \A i \in 1 .. Len(scns) : scns[i] \in TypedScn
      BY <1>1
    <2>2. \A i \in 1 .. Len(scns) : scns[i] \in Scn /\ scns[i].s_data \in Seq(Data)
                                    /\ scns[i].s_data \in Seq(TypedData)
      BY <2>1 DEF TypedScn, Scn
    <2>3. scns \in Seq(Scn)
      BY <1>1, <2>2
    <2> QED BY <2>2, <2>3, SeqOfTyped DEF DataTyped
  <1>2. ASSUME scns \in Seq(Scn), DataTyped
        PROVE  scns \in Seq(TypedScn)
    <2>1. \A i \in 1 .. Len(scns) : scns[i] \in Scn /\ scns[i].s_data \in Seq(Data)
      <3>1. \A i \in 1 .. Len(scns) : scns[i] \in Scn
        BY <1>2
      <3> QED BY <3>1 DEF Scn
    <2>2. \A i \in 1 .. Len(scns) : scns[i].s_data \in Seq(TypedData)
      BY <1>2, <2>1, SeqOfTyped DEF DataTyped
    <2>3. \A i \in 1 .. Len(scns) : scns[i] \in TypedScn
      BY <2>1, <2>2 DEF TypedScn
    <2> QED BY <1>2, <2>3
  <1> QED BY <1>1, <1>2 DEF TypedScns

LEMMA ScnsTypedNext == TypedScns'
  BY ScnsTyped, PTL

\* A section whose header and flags change.
LEMMA EditedScn ==
  ASSUME NEW s \in TypedScn, NEW t \in Scn, t.s_data = s.s_data
  PROVE  t \in TypedScn
  BY DEF TypedScn

LEMMA TypedIsScn ==
  ASSUME NEW s \in TypedScn
  PROVE  s \in Scn /\ s.s_shdr \in Shdr /\ s.s_data \in Seq(Data) /\ s.s_data \in Seq(TypedData)
  BY DEF TypedScn, Scn

LEMMA RemoveAtFact ==
  ASSUME NEW S, NEW ss \in Seq(S), NEW i \in 1 .. Len(ss)
  PROVE  RemoveAt(ss, i) \in Seq(S) /\ Len(RemoveAt(ss, i)) = Len(ss) - 1
  <1> DEFINE n == Len(ss)
  <1>0. n \in Nat /\ i \in 1 .. n
    OBVIOUS
  <1>1. SubSeq(ss, 1, i - 1) \in Seq(S) /\ Len(SubSeq(ss, 1, i - 1)) = i - 1
    <2>1. 1 \in Int /\ i - 1 \in Int /\ \A j \in 1 .. i - 1 : ss[j] \in S
      BY <1>0
    <2>2. /\ SubSeq(ss, 1, i - 1) \in Seq(S)
          /\ Len(SubSeq(ss, 1, i - 1)) = IF 1 <= i - 1 THEN (i - 1) - 1 + 1 ELSE 0
      BY <2>1, SubSeqProperties
    <2> QED BY <1>0, <2>2
  <1>2. SubSeq(ss, i + 1, n) \in Seq(S) /\ Len(SubSeq(ss, i + 1, n)) = n - i
    <2>1. i + 1 \in Int /\ n \in Int /\ \A j \in i + 1 .. n : ss[j] \in S
      BY <1>0
    <2>2. /\ SubSeq(ss, i + 1, n) \in Seq(S)
          /\ Len(SubSeq(ss, i + 1, n)) = IF i + 1 <= n THEN n - (i + 1) + 1 ELSE 0
      BY <2>1, SubSeqProperties
    <2> QED BY <1>0, <2>2
  <1>3. RemoveAt(ss, i) = SubSeq(ss, 1, i - 1) \o SubSeq(ss, i + 1, n)
    BY DEF RemoveAt
  <1>4. /\ RemoveAt(ss, i) \in Seq(S)
        /\ Len(RemoveAt(ss, i)) = (i - 1) + (n - i)
    <2> DEFINE a == SubSeq(ss, 1, i - 1)
               b == SubSeq(ss, i + 1, n)
    <2>1. a \in Seq(S) /\ b \in Seq(S) /\ Len(a) = i - 1 /\ Len(b) = n - i /\ RemoveAt(ss, i) = a \o b
      BY <1>1, <1>2, <1>3
    <2> HIDE DEF a, b, n
    <2>2. a \o b \in Seq(S) /\ Len(a \o b) = Len(a) + Len(b)
      BY <2>1, ConcatProperties
    <2> QED BY <2>1, <2>2
  <1> QED BY <1>0, <1>4

LEMMA InsertAtFact ==
  ASSUME NEW S, NEW ss \in Seq(S), NEW i \in 1 .. Len(ss) + 1, NEW e \in S
  PROVE  InsertAt(ss, i, e) \in Seq(S) /\ Len(InsertAt(ss, i, e)) = Len(ss) + 1
  <1> DEFINE n == Len(ss)
  <1>0. n \in Nat /\ i \in 1 .. n + 1
    OBVIOUS
  <1>1. SubSeq(ss, 1, i - 1) \in Seq(S) /\ Len(SubSeq(ss, 1, i - 1)) = i - 1
    <2>1. 1 \in Int /\ i - 1 \in Int /\ \A j \in 1 .. i - 1 : ss[j] \in S
      BY <1>0
    <2>2. /\ SubSeq(ss, 1, i - 1) \in Seq(S)
          /\ Len(SubSeq(ss, 1, i - 1)) = IF 1 <= i - 1 THEN (i - 1) - 1 + 1 ELSE 0
      BY <2>1, SubSeqProperties
    <2> QED BY <1>0, <2>2
  <1>2. SubSeq(ss, i, n) \in Seq(S) /\ Len(SubSeq(ss, i, n)) = n - i + 1
    <2>1. i \in Int /\ n \in Int /\ \A j \in i .. n : ss[j] \in S
      BY <1>0
    <2>2. /\ SubSeq(ss, i, n) \in Seq(S)
          /\ Len(SubSeq(ss, i, n)) = IF i <= n THEN n - i + 1 ELSE 0
      BY <2>1, SubSeqProperties
    <2> QED BY <1>0, <2>2
  <1>3. << e >> \in Seq(S) /\ Len(<< e >>) = 1
    OBVIOUS
  <1>4. InsertAt(ss, i, e) = SubSeq(ss, 1, i - 1) \o << e >> \o SubSeq(ss, i, n)
    BY DEF InsertAt
  <1>5. SubSeq(ss, 1, i - 1) \o << e >> \in Seq(S) /\ Len(SubSeq(ss, 1, i - 1) \o << e >>) = i - 1 + 1
    BY <1>1, <1>3, ConcatProperties
  <1>6. /\ InsertAt(ss, i, e) \in Seq(S)
        /\ Len(InsertAt(ss, i, e)) = (i - 1 + 1) + (n - i + 1)
    <2> DEFINE a == SubSeq(ss, 1, i - 1) \o << e >>
               b == SubSeq(ss, i, n)
    <2>1. /\ a \in Seq(S) /\ b \in Seq(S) /\ Len(a) = i - 1 + 1 /\ Len(b) = n - i + 1
          /\ InsertAt(ss, i, e) = a \o b
      BY <1>2, <1>4, <1>5
    <2> HIDE DEF a, b, n
    <2>2. a \o b \in Seq(S) /\ Len(a \o b) = Len(a) + Len(b)
      BY <2>1, ConcatProperties
    <2> QED BY <2>1, <2>2
  <1> QED BY <1>0, <1>6

LEMMA NewScnTyped == NewScn \in TypedScn
  <1>1. << >> \in Seq(Data) /\ << >> \in Seq(TypedData)
    OBVIOUS
  <1>2. NoShdr \in Shdr
    BY DEF NoShdr, Shdr
  <1> QED BY <1>1, <1>2 DEF NewScn, TypedScn, Scn

LEMMA CountedFact ==
  ASSUME NEW ss \in Seq(TypedScn), Len(ss) >= 1
  PROVE  Counted(ss) \in Seq(TypedScn) /\ Len(Counted(ss)) = Len(ss)
  <1> DEFINE size == IF Len(ss) >= LoReserve THEN Len(ss) ELSE 0
             t == [ss[1] EXCEPT !.s_flag = TRUE, !.s_shdr.sh_size = size]
  <1>1. 1 \in 1 .. Len(ss) /\ size \in Nat
    OBVIOUS
  <1>2. ss[1] \in TypedScn
    BY <1>1
  <1> HIDE DEF size
  <1>3. t \in Scn /\ t.s_data = ss[1].s_data
    <2>1. PICK s : s = ss[1]
      OBVIOUS
    <2>2. s \in Scn
      BY <1>2, <2>1, TypedIsScn
    <2>3. t = [s EXCEPT !.s_flag = TRUE, !.s_shdr.sh_size = size]
      BY <2>1
    <2> HIDE DEF t
    <2> QED BY <1>1, <2>1, <2>2, <2>3 DEF Scn, Shdr
  <1>4. t \in TypedScn
    BY <1>2, <1>3, EditedScn
  <1>5. Counted(ss) = [ss EXCEPT ![1] = t]
    BY DEF Counted, size
  <1> HIDE DEF t
  <1> QED BY <1>1, <1>4, <1>5, ExceptSeq

LEMMA CountInFact ==
  ASSUME NEW h \in Ehdr, NEW ss \in Seq(TypedScn)
  PROVE  CountIn(h, ss) \in Ehdr
  <1> DEFINE shnum == IF Len(ss) >= LoReserve THEN 0 ELSE Len(ss)
  <1>1. shnum \in Nat
    OBVIOUS
  <1>2. CountIn(h, ss) = [h EXCEPT !.e_shnum = shnum]
    BY DEF CountIn
  <1> HIDE DEF shnum
  <1> QED BY <1>1, <1>2 DEF Ehdr

LEMMA FirstScnFact ==
  ASSUME scns \in Seq(TypedScn)
  PROVE  FirstScn \in Seq(TypedScn) /\ Len(FirstScn) >= 1
  <1>1. << NewScn >> \in Seq(TypedScn) /\ Len(<< NewScn >>) = 1
    BY NewScnTyped
  <1> QED BY <1>1 DEF FirstScn

\* A layout, one that fails half-way too, changes no more of the data than
\* their offsets.
LEMMA TurnData ==
  ASSUME NEW at \in Turn, NEW i \in 1 .. Len(at.scns), NEW bad \in Nat
  PROVE  TurnOf(at, i, bad).scns[i].s_data \in {at.scns[i].s_data, PlacedData(at.scns[i].s_data)}
  <1>0. i \in Nat /\ Len(at.scns) \in Nat
    BY DEF Turn
  <1>1. CASE at.says # "ok"
    BY <1>1 DEF TurnOf
  <1>2. CASE at.says = "ok" /\ i = 1
    <2>1. TurnOf(at, i, bad) = PlaceFirst(at)
      BY <1>2 DEF TurnOf, PlaceScn
    <2>2. Len(at.scns) >= 1
      BY <1>0, <1>2
    <2> QED BY <1>2, <2>1, <2>2, PlaceFirstFact
  <1>3. CASE at.says = "ok" /\ i # 1
    <2> DEFINE null == at.scns[i].s_shdr.sh_type = "null"
               lost == scns[i].s_null \/ (i = bad /\ at.scns[i].s_data # << >>)
    <2>1. CASE null
      BY <1>3, <2>1 DEF TurnOf, PlaceScn
    <2>2. CASE ~null /\ lost
      <3>1. TurnOf(at, i, bad) = [at EXCEPT !.says = "bad"]
        BY <1>3, <2>2 DEF TurnOf, PlaceScn
      <3> QED BY <3>1 DEF Turn
    <2>3. CASE ~null /\ ~lost /\ Layout
      <3>1. TurnOf(at, i, bad) = PlaceByLibrary(at, i)
        BY <1>3, <2>3 DEF TurnOf, PlaceScn
      <3> QED BY <3>1, PlaceByLibraryFact
    <2>4. CASE ~null /\ ~lost /\ ~Layout
      <3>1. TurnOf(at, i, bad) = PlaceByProgram(at, i)
        BY <1>3, <2>4 DEF TurnOf, PlaceScn
      <3>2. PlaceByProgram(at, i).scns = at.scns
        BY <1>3, PlaceByProgramFact
      <3> QED BY <3>1, <3>2
    <2> QED BY <2>1, <2>2, <2>3, <2>4
  <1> QED BY <1>1, <1>2, <1>3

LEMMA PlacedTyped ==
  ASSUME NEW d \in Seq(Data), d \in Seq(TypedData)
  PROVE  PlacedData(d) \in Seq(TypedData)
  <1>1. \A k \in 1 .. Len(d) : Len(d[k].d_buf) \in {0, d[k].d_size} /\ d[k].d_align \in Alignments
    BY SeqOfTyped
  <1> DEFINE e == PlacedData(d)
  <1>2. /\ e \in Seq(Data) /\ Len(e) = Len(d)
        /\ \A k \in 1 .. Len(d) : /\ e[k].d_align = d[k].d_align /\ e[k].d_size = d[k].d_size
                                  /\ e[k].d_buf = d[k].d_buf
    BY PlacedFact
  <1> HIDE DEF e
  <1>3. \A k \in 1 .. Len(e) : Len(e[k].d_buf) \in {0, e[k].d_size} /\ e[k].d_align \in Alignments
    BY <1>1, <1>2
  <1>4. e \in Seq(TypedData)
    BY <1>2, <1>3, SeqOfTyped
  <1> QED BY <1>4 DEF e

LEMMA LaidTyped ==
  ASSUME LayoutType, DataTyped, NEW bad \in Nat
  PROVE  Laid(bad).scns \in Seq(TypedScn)
  <1> DEFINE n == Len(scns)
             T == Turns(bad)
             at == AfterScns(bad)
             l == Laid(bad)
  <1>0. n \in Nat /\ scns \in Seq(TypedScn) /\ scns \in Seq(Scn)
    BY ScnsTyped DEF TypedScns, LayoutType
  <1>1. /\ l.scns \in Seq(Scn) /\ Len(l.scns) = n /\ at \in Turn /\ Len(at.scns) = n
        /\ at = T[n] /\ Looped(bad)
    BY LaidType, LoopFact DEF AfterScns
  <1>2. ASSUME NEW j \in 1 .. n
        PROVE  l.scns[j].s_data = at.scns[j].s_data
    <2>1. CASE at.says # "ok"
      BY <2>1 DEF Laid
    <2>2. CASE at.says = "ok"
      <3>1. l.scns = ExtendedShnum(at)
        BY <2>2 DEF Laid
      <3>2. scns # << >> /\ (j = 1 \/ j \in 2 .. n)
        BY <1>0
      <3> QED BY <1>1, <3>1, <3>2, ExtendedShnumFact
    <2> QED BY <2>1, <2>2
  <1>3. ASSUME NEW j \in 1 .. n
        PROVE  at.scns[j].s_data \in {scns[j].s_data, PlacedData(scns[j].s_data)}
    <2>0. n \in 0 .. n /\ scns # << >>
      BY <1>0
    <2>1. CASE j = 1
      <3>1. at.scns[1].s_data = scns[1].s_data
        BY <2>0, FirstStep
      <3> QED BY <2>1, <3>1
    <2>2. CASE j # 1
      <3>1. j \in 2 .. n /\ j - 1 \in 0 .. n /\ j > j - 1
        BY <1>0, <2>2
      <3>2. at.scns[j] = T[j].scns[j]
        BY <1>1, <2>0 DEF Looped
      <3>3. T[j - 1] \in Turn /\ Len(T[j - 1].scns) = n /\ T[j - 1].scns[j] = scns[j]
        BY <1>1, <3>1 DEF Looped
      <3>4. T[j] = TurnOf(T[j - 1], j, bad)
        BY <1>0, ScnTurn DEF ScnTurns
      <3> HIDE DEF T
      <3>5. TurnOf(T[j - 1], j, bad).scns[j].s_data \in
               {T[j - 1].scns[j].s_data, PlacedData(T[j - 1].scns[j].s_data)}
        BY <3>3, TurnData
      <3> QED BY <3>2, <3>3, <3>4, <3>5
    <2> QED BY <2>1, <2>2
  <1>4. ASSUME NEW j \in 1 .. n
        PROVE  l.scns[j] \in TypedScn
    <2>1. scns[j] \in TypedScn /\ l.scns[j] \in Scn
      BY <1>0, <1>1
    <2>2. PlacedData(scns[j].s_data) \in Seq(TypedData) /\ scns[j].s_data \in Seq(TypedData)
      BY <2>1, TypedIsScn, PlacedTyped
    <2>3. l.scns[j].s_data \in Seq(TypedData)
      BY <1>2, <1>3, <2>2
    <2> QED BY <2>1, <2>3 DEF TypedScn
  <1> HIDE DEF l
  <1>5. l.scns \in Seq(TypedScn)
    BY <1>0, <1>1, <1>4
  <1> QED BY <1>5 DEF l

\* What is written is the contents of a file.
FileTyped == file \in Seq(Cell)

\* What is seen at cell k behind the start: the last write that hits it.
Hits(w, k) == {j \in DOMAIN w : k - w[j].at \in DOMAIN w[j].cells}

Seen(w, k) == IF Hits(w, k) = {} THEN Zero ELSE w[Max(Hits(w, k))].cells[k - w[Max(Hits(w, k))].at]

LEMMA LastHit ==
  ASSUME NEW w \in Seq(Write), NEW k, Hits(w, k) # {}
  PROVE  Max(Hits(w, k)) \in Hits(w, k) /\ \A j \in Hits(w, k) : j <= Max(Hits(w, k))
  <1>1. Hits(w, k) \in SUBSET Nat /\ Len(w) \in Nat /\ \A y \in Hits(w, k) : y <= Len(w)
    BY DEF Hits
  <1>2. PICK x : x \in Hits(w, k)
    OBVIOUS
  <1>3. Max(Hits(w, k)) \in Hits(w, k) /\ \A y \in Hits(w, k) : Max(Hits(w, k)) >= y
    BY <1>1, <1>2, MaxFact
  <1>4. PICK m : m = Max(Hits(w, k))
    OBVIOUS
  <1> QED BY <1>1, <1>3, <1>4

LEMMA SeenType ==
  ASSUME NEW w \in Seq(Write), NEW k
  PROVE  Seen(w, k) \in Cell
  <1>1. CASE Hits(w, k) = {}
    BY <1>1 DEF Seen, Zero, Cell
  <1>2. CASE Hits(w, k) # {}
    <2>1. PICK j : j = Max(Hits(w, k))
      OBVIOUS
    <2>2. w[j] \in Write /\ k - w[j].at \in DOMAIN w[j].cells
      BY <1>2, <2>1, LastHit DEF Hits
    <2>3. w[j].cells \in Seq(Cell)
      BY <2>2 DEF Write
    <2>4. PICK c : c = w[j].cells[k - w[j].at]
      OBVIOUS
    <2>5. c \in Cell
      BY <2>2, <2>3, <2>4
    <2> QED BY <1>2, <2>1, <2>4, <2>5 DEF Seen
  <1> QED BY <1>1, <1>2

LEMMA ImageFact ==
  ASSUME NEW w \in Seq(Write), NEW len \in Nat
  PROVE  /\ Image(w, len) = [k \in 1 .. len |-> Seen(w, k)]
         /\ Image(w, len) \in Seq(Cell) /\ Len(Image(w, len)) = len
  <1>1. Image(w, len) = [k \in 1 .. len |-> Seen(w, k)]
    BY DEF Image, Seen, Hits
  <1>2. Image(w, len) \in [1 .. len -> Cell]
    BY <1>1, SeenType
  <1> QED BY <1>1, <1>2, SeqDef

LEMMA WrittenFact ==
  ASSUME NEW w \in Seq(Write)
  PROVE  Written(w) \in Seq(Write)
  <1> DEFINE none == {k \in DOMAIN w : w[k].null}
  <1>1. CASE none = {}
    BY <1>1 DEF Written
  <1>2. CASE none # {}
    <2>1. PICK m \in none : \A k \in none : m <= k
      <3>1. none \in SUBSET Nat
        OBVIOUS
      <3> HIDE DEF none
      <3> QED BY <1>2, <3>1, LeastNumber
    <2>2. Min(none) \in none
      <3> HIDE DEF none
      <3>1. \E x \in none : \A y \in none : x =< y
        BY <2>1
      <3> QED BY <3>1 DEF Min
    <2>3. PICK x : x = Min(none)
      OBVIOUS
    <2>4. 1 \in Int /\ x - 1 \in Int /\ \A i \in 1 .. x - 1 : w[i] \in Write
      <3>1. x \in 1 .. Len(w) /\ Len(w) \in Nat
        BY <2>2, <2>3
      <3>2. \A i \in 1 .. x - 1 : i \in 1 .. Len(w)
        BY <3>1
      <3> QED BY <3>1, <3>2
    <2>5. SubSeq(w, 1, x - 1) \in Seq(Write)
      BY <2>4, SubSeqProperties
    <2>6. Written(w) = SubSeq(w, 1, x - 1)
      BY <1>2, <2>3 DEF Written
    <2> QED BY <2>5, <2>6
  <1> QED BY <1>1, <1>2

-----------------------------------------------------------------------------
(***************************************************************************)
(* The types, and what is known before there is an ELF header.             *)
(***************************************************************************)
BeforeHeader ==
    ~e_ehdr => /\ stage = "edited" /\ scns = << >> /\ e_phnum = 0
               /\ e_readable => file \in Stored

TypeInv == TypeOK /\ DataTyped /\ BeforeHeader

LEMMA TypeParts ==
  ASSUME TypeInv
  PROVE  /\ LayoutType /\ scns \in Seq(TypedScn) /\ FileTyped
         /\ {e_readable, e_ehdr, e_ehdr_flags, e_phdr_flags} \subseteq BOOLEAN
         /\ e_elf_flags \subseteq Flags /\ stage \in Stage
         /\ unmarked \subseteq Unmarked[e_class] \cup {"write"}
         /\ calls \in 0 .. MaxCalls /\ MaxCalls \in Nat
  <1>1. scns \in Seq(TypedScn)
    BY ScnsTyped DEF TypedScns, TypeInv, TypeOK
  <1> QED BY <1>1, UpdateAssumption DEF UpdateAssumption, TypeInv, TypeOK, LayoutType, FileTyped

LEMMA TypeInit == Init => TypeInv
  <1> SUFFICES ASSUME Init PROVE TypeInv
    OBVIOUS
  <1>1. /\ e_readable \in BOOLEAN /\ e_class \in Classes
        /\ file \in (IF e_readable THEN Stored ELSE {<< >>})
        /\ e_ehdr = FALSE /\ ehdr = NoEhdr /\ e_phnum = 0 /\ scns = << >>
        /\ e_elf_flags = {} /\ e_ehdr_flags = FALSE /\ e_phdr_flags = FALSE
        /\ stage = "edited" /\ unmarked = {} /\ calls = 0
    BY DEF Init
  <1>2. file \in Seq(Cell)
    <2>1. CASE e_readable
      BY <1>1, <2>1, StoredAssumption DEF WellFormed
    <2>2. CASE ~e_readable
      BY <1>1, <2>2
    <2> QED BY <2>1, <2>2
  <1>3. NoEhdr \in Ehdr
    BY DEF NoEhdr, Ehdr
  <1>4. ~(0 >= PnXnum) /\ MaxCalls \in Nat
    <2>1. PnXnum \in Nat \ {0}
      BY Constants
    <2> QED BY <2>1, UpdateAssumption DEF UpdateAssumption
  <1>5. scns \in Seq(Scn) /\ Len(scns) = 0
    BY <1>1
  <1>6. TypeOK
    <2>1. {e_readable, e_ehdr, e_ehdr_flags, e_phdr_flags} \subseteq BOOLEAN
      BY <1>1
    <2>2. e_elf_flags \subseteq Flags /\ stage \in Stage /\ unmarked \subseteq Unmarked[e_class] \cup {"write"}
      BY <1>1 DEF Stage
    <2>3. ehdr \in Ehdr /\ e_phnum \in Nat /\ (e_phnum >= PnXnum => scns # << >>)
      BY <1>1, <1>3, <1>4
    <2>4. calls \in 0 .. MaxCalls
      BY <1>1, <1>4
    <2> QED BY <1>1, <1>2, <1>5, <2>1, <2>2, <2>3, <2>4 DEF TypeOK
  <1>7. DataTyped
    BY <1>5 DEF DataTyped
  <1>8. BeforeHeader
    BY <1>1 DEF BeforeHeader
  <1> QED BY <1>6, <1>7, <1>8 DEF TypeInv

\* What an edit has to keep.
LEMMA EditTyped ==
  ASSUME TypeInv, Edits, ehdr' \in Ehdr, e_phnum' \in Nat, scns' \in Seq(TypedScn),
         e_phnum' >= PnXnum => scns' # << >>,
         e_elf_flags' \subseteq Flags, e_ehdr_flags' \in BOOLEAN, e_phdr_flags' \in BOOLEAN,
         unmarked' \subseteq Unmarked[e_class] \cup {"write"}
  PROVE  TypeInv'
  <1>1. scns' \in Seq(Scn) /\ DataTyped'
    BY ScnsTypedNext DEF TypedScns
  <1>2. /\ file' = file /\ e_readable' = e_readable /\ e_class' = e_class /\ e_ehdr' = e_ehdr
        /\ e_ehdr /\ stage' = "edited" /\ calls' = calls + 1 /\ calls < MaxCalls
    BY DEF Edits, opened
  <1>3. calls' \in 0 .. MaxCalls
    BY <1>2, TypeParts
  <1>4. TypeOK'
    BY <1>1, <1>2, <1>3 DEF TypeInv, TypeOK, Stage
  <1>5. BeforeHeader'
    BY <1>2 DEF BeforeHeader
  <1> QED BY <1>1, <1>4, <1>5 DEF TypeInv

\* One section changes, in its header, its flags or its data.
LEMMA OneScn ==
  ASSUME NEW ss \in Seq(TypedScn), NEW i \in 1 .. Len(ss), NEW t \in TypedScn
  PROVE  /\ [ss EXCEPT ![i] = t] \in Seq(TypedScn)
         /\ Len([ss EXCEPT ![i] = t]) = Len(ss)
  BY ExceptSeq

LEMMA SomeScns ==
  ASSUME TypeInv, NEW ss \in Seq(TypedScn), Len(ss) >= 1
  PROVE  e_phnum >= PnXnum => ss # << >>
  OBVIOUS

LEMMA ClassFact ==
  ASSUME TypeInv
  PROVE  /\ Places[e_class] \subseteq Nat /\ Sizes[e_class] \subseteq Nat
         /\ PhCounts[e_class] \subseteq Nat /\ Settable[e_class] \subseteq Flags
         /\ Blocks[e_class] \subseteq TypedData
  <1>1. e_class \in Classes
    BY DEF TypeInv, TypeOK
  <1>2. Blocks[e_class] \subseteq TypedData
    <2> SUFFICES ASSUME NEW d \in Blocks[e_class] PROVE d \in TypedData
      OBVIOUS
    <2>1. d \in Data /\ Len(d.d_buf) \in {0, d.d_size}
      BY <1>1, BlocksAssumption
    <2>2. d.d_align \in Alignments
      <3>1. d.d_align \in {b.d_align : b \in Blocks[e_class]}
        OBVIOUS
      <3> QED BY <1>1, <3>1 DEF Alignments
    <2> QED BY <2>1, <2>2 DEF TypedData
  <1> QED BY <1>1, <1>2, UpdateAssumption DEF UpdateAssumption, Flags

LEMMA TypeCook ==
  ASSUME TypeInv, Cook
  PROVE  TypeInv'
  <1>1. /\ e_readable /\ ~e_ehdr /\ e_ehdr' = TRUE /\ ehdr' = At(file, 0)
        /\ scns' \in {<< >>, CookedScns(file)}
        /\ e_phnum' \in {0, CookedPhnum(file)}
        /\ e_phnum' # 0 => scns' = CookedScns(file) /\ e_phnum' = CookedPhnum(file)
        /\ UNCHANGED << file, opened, dirt, stage, unmarked, calls >>
    BY DEF Cook
  <1>2. file \in Stored
    BY <1>1 DEF TypeInv, BeforeHeader
  <1>3. /\ At(file, 0) \in Ehdr /\ CookedPhnum(file) \in Nat /\ CookedShnum(file) \in Nat
        /\ CookedScns(file) \in Seq(Scn)
        /\ CookedPhnum(file) >= PnXnum => CookedScns(file) # << >>
    <2>1. file \in Seq(Cell) /\ IsAt(file, "ehdr", 0)
      BY <1>2, StoredAssumption DEF WellFormed
    <2>2. file[1] \in Cell /\ file[1][1] = "ehdr"
      BY <2>1 DEF IsAt
    <2>3. file[1][2] \in Ehdr
      <3>1. PICK c : c = file[1]
        OBVIOUS
      <3> QED BY <2>2, <3>1 DEF Cell
    <2> QED BY <1>2, <2>3, StoredAssumption DEF WellFormed, At
  <1>4. CookedScns(file) \in Seq(TypedScn)
    <2>1. ASSUME NEW i \in 1 .. CookedShnum(file)
          PROVE  CookedScn(file, i) \in TypedScn
      <3>1. CookedScns(file)[i] = CookedScn(file, i) /\ i \in 1 .. Len(CookedScns(file))
        <4>1. Len(CookedScns(file)) = CookedShnum(file)
          BY <1>3 DEF CookedScns
        <4> QED BY <4>1 DEF CookedScns
      <3>2. PICK s : s = CookedScn(file, i)
        OBVIOUS
      <3>3. s \in Scn
        BY <1>3, <3>1, <3>2
      <3>4. PICK h : h = At(file, At(file, 0).e_shoff + i - 1)
        OBVIOUS
      <3> DEFINE d == [d_off |-> 0, d_align |-> h.sh_addralign, d_size |-> h.sh_size,
                       d_buf |-> CookedBuf(file, h)]
      <3>5. s.s_data = << d >> /\ s.s_shdr = h
        BY <3>2, <3>4 DEF CookedScn
      <3>6. h \in Shdr /\ d \in Data
        <4> HIDE DEF d
        <4>1. << d >> \in Seq(Data) /\ h \in Shdr
          BY <3>3, <3>5 DEF Scn
        <4> QED BY <4>1
      <3>7. Len(CookedBuf(file, h)) \in {0, h.sh_size}
        <4>1. h.sh_size \in Nat
          BY <3>6, ShdrFact
        <4>2. Len(<< >>) = 0
          OBVIOUS
        <4> QED BY <4>1, <4>2 DEF CookedBuf
      <3>8. h.sh_addralign \in Alignments
        <4>1. h.sh_addralign \in {CookedScn(file, j).s_shdr.sh_addralign : j \in 1 .. CookedShnum(file)}
          BY <3>2, <3>5
        <4>2. {CookedScn(file, j).s_shdr.sh_addralign : j \in 1 .. CookedShnum(file)}
              \in {{CookedScn(f, j).s_shdr.sh_addralign : j \in 1 .. CookedShnum(f)} : f \in Stored}
          BY <1>2
        <4> QED BY <4>1, <4>2 DEF Alignments
      <3>9. d \in TypedData
        BY <3>6, <3>7, <3>8 DEF TypedData
      <3> HIDE DEF d
      <3>10. << d >> \in Seq(TypedData)
        BY <3>9
      <3> QED BY <3>2, <3>3, <3>5, <3>10 DEF TypedScn
    <2>2. CookedScns(file) = [i \in 1 .. CookedShnum(file) |-> CookedScn(file, i)]
      BY DEF CookedScns
    <2>3. CookedScns(file) \in [1 .. CookedShnum(file) -> TypedScn]
      BY <2>1, <2>2
    <2> QED BY <1>3, <2>3, SeqDef
  <1>5. scns' \in Seq(TypedScn) /\ scns' \in Seq(Scn) /\ e_phnum' \in Nat
    <2>1. << >> \in Seq(TypedScn)
      OBVIOUS
    <2>2. scns' \in Seq(TypedScn)
      BY <1>1, <1>4, <2>1
    <2>3. e_phnum' \in Nat
      BY <1>1, <1>3
    <2> QED BY <2>2, <2>3, ScnsTypedNext DEF TypedScns
  <1>6. DataTyped'
    BY <1>5, ScnsTypedNext DEF TypedScns
  <1>7. e_phnum' >= PnXnum => scns' # << >>
    <2>1. PnXnum \in Nat \ {0}
      BY Constants
    <2> QED BY <1>1, <1>3, <1>5, <2>1
  <1>8. TypeOK'
    BY <1>1, <1>3, <1>5, <1>7 DEF TypeInv, TypeOK, opened, dirt
  <1>9. BeforeHeader'
    BY <1>1 DEF BeforeHeader
  <1> QED BY <1>6, <1>8, <1>9 DEF TypeInv

LEMMA TypeNewehdr ==
  ASSUME TypeInv, elf_newehdr
  PROVE  TypeInv'
  <1>1. /\ e_ehdr' = TRUE /\ ehdr' = NoEhdr /\ e_ehdr_flags' = TRUE
        /\ file' = file /\ e_readable' = e_readable /\ e_class' = e_class
        /\ e_phnum' = e_phnum /\ scns' = scns /\ e_elf_flags' = e_elf_flags
        /\ e_phdr_flags' = e_phdr_flags /\ stage' = stage /\ unmarked' = unmarked /\ calls' = calls
    BY DEF elf_newehdr, opened
  <1>2. NoEhdr \in Ehdr
    BY DEF NoEhdr, Ehdr
  <1>3. TypeOK' /\ DataTyped'
    BY <1>1, <1>2 DEF TypeInv, TypeOK, DataTyped
  <1>4. BeforeHeader'
    BY <1>1 DEF BeforeHeader
  <1> QED BY <1>3, <1>4 DEF TypeInv

\* The number of sections changes.
LEMMA CountTyped ==
  ASSUME TypeInv, Edits, NEW ss, ss \in Seq(TypedScn), Len(ss) >= 1, UpdateShnum(ss)
  PROVE  TypeInv'
  <1>1. Counted(ss) \in Seq(TypedScn) /\ Len(Counted(ss)) >= 1
    BY CountedFact
  <1>2. CountIn(ehdr, ss) \in Ehdr
    BY TypeParts, CountInFact DEF LayoutType
  <1>3. /\ scns' = Counted(ss) /\ ehdr' = CountIn(ehdr, ss) /\ e_ehdr_flags' = TRUE
        /\ e_phnum' = e_phnum /\ e_elf_flags' = e_elf_flags /\ e_phdr_flags' = e_phdr_flags
        /\ unmarked' = unmarked
    BY DEF UpdateShnum
  <1>4. scns' \in Seq(TypedScn) /\ scns' # << >>
    BY <1>1, <1>3
  <1>5. /\ e_elf_flags' \subseteq Flags /\ e_ehdr_flags' \in BOOLEAN /\ e_phdr_flags' \in BOOLEAN
        /\ unmarked' \subseteq Unmarked[e_class] \cup {"write"} /\ e_phnum' \in Nat
    BY <1>3 DEF TypeInv, TypeOK
  <1> QED BY <1>2, <1>3, <1>4, <1>5, EditTyped

LEMMA TypeNewscn ==
  ASSUME TypeInv, elf_newscn
  PROVE  TypeInv'
  <1>1. FirstScn \in Seq(TypedScn) /\ Len(FirstScn) >= 1
    BY TypeParts, FirstScnFact
  <1>2. Append(FirstScn, NewScn) \in Seq(TypedScn) /\ Len(Append(FirstScn, NewScn)) >= 1
    <2> HIDE DEF FirstScn
    <2>1. /\ Append(FirstScn, NewScn) \in Seq(TypedScn)
          /\ Len(Append(FirstScn, NewScn)) = Len(FirstScn) + 1
      BY <1>1, NewScnTyped, AppendProperties
    <2> QED BY <1>1, <2>1
  <1> QED BY <1>1, <1>2, CountTyped DEF elf_newscn

LEMMA TypeNewphdr ==
  ASSUME TypeInv, elf_newphdr
  PROVE  TypeInv'
  <1> DEFINE ss == IF scns = << >> THEN Counted(FirstScn) ELSE scns
             h == IF scns = << >> THEN CountIn(ehdr, FirstScn) ELSE ehdr
             info(count) == IF count >= PnXnum THEN count ELSE 0
  <1>1. PICK count \in PhCounts[e_class] :
           /\ e_phnum' = count
           /\ ehdr' = [h EXCEPT !.e_phnum = Min({count, PnXnum})]
           /\ scns' = [ss EXCEPT ![1] = [@ EXCEPT !.s_flag = TRUE, !.s_shdr.sh_info = info(count)]]
    BY DEF elf_newphdr
  <1>2. ss \in Seq(TypedScn) /\ Len(ss) >= 1
    <2>1. CASE scns = << >>
      <3>1. FirstScn \in Seq(TypedScn) /\ Len(FirstScn) >= 1
        BY TypeParts, FirstScnFact
      <3>2. Counted(FirstScn) \in Seq(TypedScn) /\ Len(Counted(FirstScn)) = Len(FirstScn)
        BY <3>1, CountedFact
      <3> QED BY <2>1, <3>1, <3>2
    <2>2. CASE scns # << >>
      BY <2>2, TypeParts
    <2> QED BY <2>1, <2>2
  <1>3. h \in Ehdr
    BY TypeParts, FirstScnFact, CountInFact DEF LayoutType
  <1>4. count \in Nat /\ info(count) \in Nat /\ Min({count, PnXnum}) \in Nat
    <2>1. count \in Nat /\ PnXnum \in Nat
      BY ClassFact, Constants
    <2> QED BY <2>1, MinOfTwo
  <1>5. ehdr' \in Ehdr
    <2> HIDE DEF h
    <2> QED BY <1>1, <1>3, <1>4 DEF Ehdr
  <1>6. scns' \in Seq(TypedScn) /\ Len(scns') = Len(ss)
    <2>1. 1 \in 1 .. Len(ss)
      BY <1>2
    <2>2. PICK s : s = ss[1]
      OBVIOUS
    <2>3. s \in TypedScn
      BY <1>2, <2>1, <2>2
    <2>4. PICK t : t = [s EXCEPT !.s_flag = TRUE, !.s_shdr.sh_info = info(count)]
      OBVIOUS
    <2>5. t \in Scn /\ t.s_data = s.s_data
      <3>1. s \in Scn
        BY <2>3, TypedIsScn
      <3> HIDE DEF info
      <3> QED BY <1>4, <2>4, <3>1 DEF Scn, Shdr
    <2>6. t \in TypedScn
      BY <2>3, <2>5, EditedScn
    <2>7. scns' = [ss EXCEPT ![1] = t]
      BY <1>1, <2>2, <2>4
    <2> HIDE DEF ss
    <2> QED BY <1>2, <2>1, <2>6, <2>7, OneScn
  <1>7. scns' # << >>
    BY <1>2, <1>6
  <1>8. /\ e_phdr_flags' = TRUE /\ e_ehdr_flags' = TRUE /\ e_elf_flags' = e_elf_flags
        /\ unmarked' = unmarked /\ Edits
    BY DEF elf_newphdr
  <1>9. /\ e_elf_flags' \subseteq Flags /\ e_ehdr_flags' \in BOOLEAN /\ e_phdr_flags' \in BOOLEAN
        /\ unmarked' \subseteq Unmarked[e_class] \cup {"write"}
    BY <1>8, TypeParts
  <1>10. e_phnum' \in Nat
    BY <1>1, <1>4
  <1> QED BY <1>5, <1>6, <1>7, <1>8, <1>9, <1>10, EditTyped

\* Edits of one section that leave the flags of the descriptor alone.
LEMMA ScnEditTyped ==
  ASSUME TypeInv, Edits, NEW i \in 1 .. Len(scns), NEW t \in TypedScn,
         scns' = [scns EXCEPT ![i] = t], UNCHANGED << ehdr, e_phnum, dirt, unmarked >>
  PROVE  TypeInv'
  <1>1. scns \in Seq(TypedScn) /\ e_phnum \in Nat
    BY TypeParts DEF LayoutType
  <1>2. scns' \in Seq(TypedScn) /\ Len(scns') = Len(scns)
    BY <1>1, OneScn
  <1>3. scns' # << >>
    BY <1>1, <1>2
  <1>4. /\ ehdr' = ehdr /\ e_phnum' = e_phnum /\ e_elf_flags' = e_elf_flags
        /\ e_ehdr_flags' = e_ehdr_flags /\ e_phdr_flags' = e_phdr_flags /\ unmarked' = unmarked
    BY DEF dirt
  <1>5. /\ ehdr' \in Ehdr /\ e_phnum' \in Nat /\ e_elf_flags' \subseteq Flags
        /\ e_ehdr_flags' \in BOOLEAN /\ e_phdr_flags' \in BOOLEAN
        /\ unmarked' \subseteq Unmarked[e_class] \cup {"write"}
    BY <1>4 DEF TypeInv, TypeOK
  <1> QED BY <1>2, <1>3, <1>5, EditTyped

LEMMA TypeNewdata ==
  ASSUME TypeInv, elf_newdata
  PROVE  TypeInv'
  <1>1. PICK i \in 2 .. Len(scns), d \in Blocks[e_class] :
           scns' = [scns EXCEPT ![i].s_data = Append(@, d), ![i].d_flag = TRUE]
    BY DEF elf_newdata
  <1>2. Edits /\ UNCHANGED << ehdr, e_phnum, dirt, unmarked >>
    BY DEF elf_newdata
  <1>3. PICK s : s = scns[i]
    OBVIOUS
  <1>4. i \in 1 .. Len(scns) /\ s \in TypedScn /\ d \in TypedData
    BY <1>3, TypeParts, ClassFact
  <1>5. PICK e : e = Append(s.s_data, d)
    OBVIOUS
  <1>6. e \in Seq(TypedData) /\ e \in Seq(Data)
    <2>1. s.s_data \in Seq(TypedData) /\ s.s_data \in Seq(Data) /\ d \in Data
      BY <1>4, TypedIsScn DEF TypedData
    <2> QED BY <1>4, <1>5, <2>1, AppendProperties
  <1>7. PICK t : t = [scns[i] EXCEPT !.s_data = Append(@, d), !.d_flag = TRUE]
    OBVIOUS
  <1>8. t \in TypedScn
    <2>1. t = [s EXCEPT !.s_data = e, !.d_flag = TRUE]
      BY <1>3, <1>5, <1>7
    <2> QED BY <1>4, <1>6, <2>1, TypedIsScn DEF TypedScn, Scn
  <1>9. scns' = [scns EXCEPT ![i] = t]
    <2>1. scns \in Seq(TypedScn)
      BY TypeParts
    <2>2. DOMAIN scns = 1 .. Len(scns) /\ i \in DOMAIN scns
      BY <1>4, <2>1
    <2> QED BY <1>1, <1>7, <2>2
  <1> QED BY <1>2, <1>4, <1>8, <1>9, ScnEditTyped

LEMMA TypeSetShdr ==
  ASSUME TypeInv, SetShdr
  PROVE  TypeInv'
  <1>1. PICK i \in 2 .. Len(scns) :
          \/ \E t \in {"bits", "nobits"} :
                scns' = [scns EXCEPT ![i] = [@ EXCEPT !.s_flag = TRUE, !.s_shdr.sh_type = t]]
          \/ \E off \in Places[e_class], size \in Sizes[e_class] :
                scns' = [scns EXCEPT ![i] = [@ EXCEPT !.s_flag = TRUE,
                                !.s_shdr.sh_offset = off, !.s_shdr.sh_size = size]]
    BY DEF SetShdr
  <1>2. Edits /\ UNCHANGED << ehdr, e_phnum, dirt, unmarked >>
    BY DEF SetShdr
  <1>3. PICK s : s = scns[i]
    OBVIOUS
  <1>4. i \in 1 .. Len(scns) /\ s \in TypedScn /\ s \in Scn
    <2>1. i \in 1 .. Len(scns) /\ s \in TypedScn
      BY <1>3, TypeParts
    <2> QED BY <2>1, TypedIsScn
  <1>5. ASSUME NEW type \in {"bits", "nobits"},
               scns' = [scns EXCEPT ![i] = [@ EXCEPT !.s_flag = TRUE, !.s_shdr.sh_type = type]]
        PROVE  TypeInv'
    <2>1. PICK t : t = [s EXCEPT !.s_flag = TRUE, !.s_shdr.sh_type = type]
      OBVIOUS
    <2>2. t \in Scn /\ t.s_data = s.s_data
      BY <1>4, <2>1 DEF Scn, Shdr
    <2>3. t \in TypedScn
      BY <1>4, <2>2, EditedScn
    <2>4. scns' = [scns EXCEPT ![i] = t]
      BY <1>3, <1>5, <2>1
    <2> QED BY <1>2, <1>4, <2>3, <2>4, ScnEditTyped
  <1>6. ASSUME NEW off \in Places[e_class], NEW size \in Sizes[e_class],
               scns' = [scns EXCEPT ![i] = [@ EXCEPT !.s_flag = TRUE,
                                !.s_shdr.sh_offset = off, !.s_shdr.sh_size = size]]
        PROVE  TypeInv'
    <2>1. PICK t : t = [s EXCEPT !.s_flag = TRUE, !.s_shdr.sh_offset = off, !.s_shdr.sh_size = size]
      OBVIOUS
    <2>2. off \in Nat /\ size \in Nat
      BY ClassFact
    <2>3. t \in Scn /\ t.s_data = s.s_data
      BY <1>4, <2>1, <2>2 DEF Scn, Shdr
    <2>4. t \in TypedScn
      BY <1>4, <2>3, EditedScn
    <2>5. scns' = [scns EXCEPT ![i] = t]
      BY <1>3, <1>6, <2>1
    <2> QED BY <1>2, <1>4, <2>4, <2>5, ScnEditTyped
  <1> QED BY <1>1, <1>5, <1>6

LEMMA TypeSetEhdr ==
  ASSUME TypeInv, SetEhdr
  PROVE  TypeInv'
  <1>1. PICK off \in Places[e_class] :
          ehdr' \in {[ehdr EXCEPT !.e_phoff = off], [ehdr EXCEPT !.e_shoff = off]}
    BY DEF SetEhdr
  <1>2. off \in Nat /\ ehdr \in Ehdr
    BY ClassFact, TypeParts DEF LayoutType
  <1>3. ehdr' \in Ehdr
    BY <1>1, <1>2 DEF Ehdr
  <1>4. /\ e_phnum' = e_phnum /\ scns' = scns /\ e_ehdr_flags' = TRUE /\ Edits
        /\ e_elf_flags' = e_elf_flags /\ e_phdr_flags' = e_phdr_flags /\ unmarked' = unmarked
    BY DEF SetEhdr
  <1>5. /\ e_phnum' \in Nat /\ scns' \in Seq(TypedScn) /\ (e_phnum' >= PnXnum => scns' # << >>)
        /\ e_elf_flags' \subseteq Flags /\ e_ehdr_flags' \in BOOLEAN /\ e_phdr_flags' \in BOOLEAN
        /\ unmarked' \subseteq Unmarked[e_class] \cup {"write"}
    BY <1>4, TypeParts DEF LayoutType
  <1> QED BY <1>3, <1>4, <1>5, EditTyped

LEMMA TypeFlagelf ==
  ASSUME TypeInv, elf_flagelf
  PROVE  TypeInv'
  <1>1. PICK f \in Settable[e_class] : e_elf_flags' \in {e_elf_flags \cup {f}, e_elf_flags \ {f}}
    BY DEF elf_flagelf
  <1>2. e_elf_flags' \subseteq Flags
    BY <1>1, ClassFact, TypeParts
  <1>3. /\ ehdr' = ehdr /\ e_phnum' = e_phnum /\ scns' = scns /\ Edits
        /\ e_ehdr_flags' = e_ehdr_flags /\ e_phdr_flags' = e_phdr_flags /\ unmarked' = unmarked
    BY DEF elf_flagelf, contents
  <1>4. /\ ehdr' \in Ehdr /\ e_phnum' \in Nat /\ scns' \in Seq(TypedScn)
        /\ (e_phnum' >= PnXnum => scns' # << >>)
        /\ e_ehdr_flags' \in BOOLEAN /\ e_phdr_flags' \in BOOLEAN
        /\ unmarked' \subseteq Unmarked[e_class] \cup {"write"}
    BY <1>3, TypeParts DEF LayoutType
  <1> QED BY <1>2, <1>3, <1>4, EditTyped

LEMMA TypeRemscn ==
  ASSUME TypeInv, elfx_remscn
  PROVE  TypeInv'
  <1>1. PICK i \in 2 .. Len(scns) : UpdateShnum(RemoveAt(scns, i))
    BY DEF elfx_remscn
  <1>2. PICK ss : ss = RemoveAt(scns, i)
    OBVIOUS
  <1>3. ss \in Seq(TypedScn) /\ Len(ss) >= 1
    <2>1. i \in 1 .. Len(scns) /\ scns \in Seq(TypedScn)
      BY TypeParts
    <2>2. ss \in Seq(TypedScn) /\ Len(ss) = Len(scns) - 1
      BY <1>2, <2>1, RemoveAtFact
    <2> QED BY <2>1, <2>2
  <1>4. UpdateShnum(ss) /\ Edits
    BY <1>1, <1>2 DEF elfx_remscn
  <1> QED BY <1>3, <1>4, CountTyped

LEMMA TypeDelscn ==
  ASSUME TypeInv, elf_delscn
  PROVE  TypeInv'
  <1>1. PICK i \in 2 .. Len(scns) : scns' = RemoveAt(scns, i)
    BY DEF elf_delscn
  <1>2. i \in 1 .. Len(scns) /\ scns \in Seq(TypedScn) /\ Len(scns) - 1 \in Nat \ {0}
    <2>1. scns \in Seq(TypedScn)
      BY TypeParts
    <2>2. PICK n \in Nat : n = Len(scns)
      BY <2>1
    <2>3. i \in 2 .. n
      BY <2>2
    <2>4. n - 1 \in Nat \ {0} /\ i \in 1 .. n
      BY <2>3
    <2> QED BY <2>1, <2>2, <2>4
  <1>3. scns' \in Seq(TypedScn) /\ Len(scns') = Len(scns) - 1
    BY <1>1, <1>2, RemoveAtFact
  <1>4. scns' # << >>
    BY <1>2, <1>3
  <1>5. /\ ehdr' = [ehdr EXCEPT !.e_shnum = Len(scns) - 1] /\ Edits
        /\ unmarked' = unmarked \cup {"elf_delscn"} /\ "elf_delscn" \in Unmarked[e_class]
        /\ e_phnum' = e_phnum /\ e_elf_flags' = e_elf_flags
        /\ e_ehdr_flags' = e_ehdr_flags /\ e_phdr_flags' = e_phdr_flags
    BY DEF elf_delscn, dirt
  <1>6. ehdr' \in Ehdr
    <2>1. ehdr \in Ehdr /\ Len(scns) - 1 \in Nat
      BY <1>2, TypeParts DEF LayoutType
    <2> QED BY <1>5, <2>1 DEF Ehdr
  <1>7. /\ e_phnum' \in Nat
        /\ e_elf_flags' \subseteq Flags /\ e_ehdr_flags' \in BOOLEAN /\ e_phdr_flags' \in BOOLEAN
        /\ unmarked' \subseteq Unmarked[e_class] \cup {"write"}
    BY <1>5, TypeParts DEF LayoutType
  <1> QED BY <1>3, <1>4, <1>5, <1>6, <1>7, EditTyped

LEMMA TypeMovscn ==
  ASSUME TypeInv, elfx_movscn
  PROVE  TypeInv'
  <1>1. PICK i \in 2 .. Len(scns), after \in 1 .. Len(scns) :
          /\ after \notin {i, i - 1}
          /\ scns' = InsertAt(RemoveAt(scns, i), IF after < i THEN after + 1 ELSE after, scns[i])
    BY DEF elfx_movscn
  <1>2. i \in 1 .. Len(scns) /\ scns \in Seq(TypedScn) /\ scns[i] \in TypedScn
    BY TypeParts
  <1>3. PICK at, ss, s : /\ at = IF after < i THEN after + 1 ELSE after
                         /\ ss = RemoveAt(scns, i) /\ s = scns[i]
    OBVIOUS
  <1>4. ss \in Seq(TypedScn) /\ Len(ss) = Len(scns) - 1
    BY <1>2, <1>3, RemoveAtFact
  <1>5. at \in 1 .. Len(ss) + 1
    <2>1. PICK n \in Nat : n = Len(scns)
      BY <1>2
    <2>2. i \in 2 .. n /\ after \in 1 .. n
      BY <2>1
    <2>3. at \in 1 .. n
      <3>1. CASE after < i
        BY <1>3, <2>2, <3>1
      <3>2. CASE ~(after < i)
        BY <1>3, <2>2, <3>2
      <3> QED BY <3>1, <3>2
    <2>4. Len(ss) + 1 = n
      BY <1>4, <2>1
    <2> QED BY <2>3, <2>4
  <1>6. scns' \in Seq(TypedScn) /\ Len(scns') = Len(ss) + 1
    <2>1. scns' = InsertAt(ss, at, s)
      BY <1>1, <1>3
    <2>2. ss \in Seq(TypedScn) /\ at \in 1 .. Len(ss) + 1 /\ s \in TypedScn
      BY <1>2, <1>3, <1>4, <1>5
    <2>3. InsertAt(ss, at, s) \in Seq(TypedScn) /\ Len(InsertAt(ss, at, s)) = Len(ss) + 1
      BY <2>2, InsertAtFact
    <2> QED BY <2>1, <2>3
  <1>7. scns' # << >>
    BY <1>4, <1>6
  <1>8. /\ unmarked' = unmarked \cup {"elfx_movscn"} /\ "elfx_movscn" \in Unmarked[e_class]
        /\ ehdr' = ehdr /\ e_phnum' = e_phnum /\ e_elf_flags' = e_elf_flags /\ Edits
        /\ e_ehdr_flags' = e_ehdr_flags /\ e_phdr_flags' = e_phdr_flags
    BY DEF elfx_movscn, dirt
  <1>9. /\ ehdr' \in Ehdr /\ e_phnum' \in Nat
        /\ e_elf_flags' \subseteq Flags /\ e_ehdr_flags' \in BOOLEAN /\ e_phdr_flags' \in BOOLEAN
        /\ unmarked' \subseteq Unmarked[e_class] \cup {"write"}
    BY <1>8, TypeParts DEF LayoutType
  <1> QED BY <1>6, <1>7, <1>8, <1>9, EditTyped

\* What elf_update has to keep, with what it puts into the file.
LEMMA UpdateTyped ==
  ASSUME TypeInv, e_ehdr, e_ehdr' = e_ehdr, UNCHANGED opened,
         ehdr' \in Ehdr, e_phnum' = e_phnum, scns' \in Seq(TypedScn), Len(scns') = Len(scns),
         FileTyped', e_elf_flags' \subseteq Flags,
         e_ehdr_flags' \in BOOLEAN, e_phdr_flags' \in BOOLEAN,
         stage' \in Stage, unmarked' \subseteq Unmarked[e_class] \cup {"write"},
         calls' \in 0 .. MaxCalls
  PROVE  TypeInv'
  <1>1. scns' \in Seq(Scn) /\ DataTyped'
    BY ScnsTypedNext DEF TypedScns
  <1>2. e_phnum >= PnXnum => scns' # << >>
    <2>1. SUFFICES ASSUME e_phnum >= PnXnum PROVE scns' # << >>
      OBVIOUS
    <2>2. scns # << >> /\ scns \in Seq(Scn)
      BY <2>1 DEF TypeInv, TypeOK
    <2> QED BY <1>1, <2>2
  <1>3. e_readable' = e_readable /\ e_class' = e_class
    BY DEF opened
  <1>4. TypeOK'
    BY <1>1, <1>2, <1>3 DEF TypeInv, TypeOK, FileTyped
  <1>5. BeforeHeader'
    BY DEF BeforeHeader
  <1> QED BY <1>1, <1>4, <1>5 DEF TypeInv

LEMMA LaidParts ==
  ASSUME TypeInv, NEW bad \in Nat
  PROVE  /\ Laid(bad).ehdr \in Ehdr /\ Laid(bad).scns \in Seq(TypedScn)
         /\ Len(Laid(bad).scns) = Len(scns) /\ Laid(bad).scns \in Seq(Scn)
         /\ Writes(Laid(bad).ehdr, Laid(bad).scns) \in Seq(Write)
  <1>1. LayoutType /\ DataTyped
    BY TypeParts DEF TypeInv
  <1>2. /\ Laid(bad).ehdr \in Ehdr /\ Laid(bad).scns \in Seq(TypedScn)
        /\ Len(Laid(bad).scns) = Len(scns) /\ Laid(bad).scns \in Seq(Scn)
    BY <1>1, LaidType, LaidTyped
  <1> QED BY <1>1, <1>2, WritesType DEF LayoutType

LEMMA FailsFact ==
  ASSUME TypeInv, Fails
  PROVE  calls' \in 0 .. MaxCalls
  BY TypeParts DEF Fails

\* An update that leaves the headers and sections as the layout made them,
\* and the flags set.
LEMMA KeepsTyped ==
  ASSUME TypeInv, e_ehdr, NEW bad \in Nat, Keeps(Laid(bad)), FileTyped',
         stage' \in Stage, unmarked' = unmarked, calls' \in 0 .. MaxCalls
  PROVE  TypeInv'
  <1>1. /\ ehdr' = Laid(bad).ehdr /\ scns' = Laid(bad).scns
        /\ e_ehdr_flags' = (e_ehdr_flags \/ Laid(bad).ehdr # ehdr)
        /\ e_ehdr' = e_ehdr /\ e_phnum' = e_phnum /\ UNCHANGED opened
        /\ e_elf_flags' = e_elf_flags /\ e_phdr_flags' = e_phdr_flags
    BY DEF Keeps
  <1>2. /\ e_elf_flags' \subseteq Flags /\ e_phdr_flags' \in BOOLEAN
        /\ unmarked' \subseteq Unmarked[e_class] \cup {"write"}
    BY <1>1, TypeParts
  <1>3. e_ehdr_flags' \in BOOLEAN
    BY <1>1
  <1>4. ehdr' \in Ehdr /\ scns' \in Seq(TypedScn) /\ Len(scns') = Len(scns)
    BY <1>1, LaidParts
  <1> QED BY <1>1, <1>2, <1>3, <1>4, UpdateTyped

\* One that clears the flags.
LEMMA CleanedTyped ==
  ASSUME TypeInv, e_ehdr, Cleaned(Laid(0)), FileTyped',
         stage' \in Stage, unmarked' \subseteq Unmarked[e_class] \cup {"write"},
         calls' \in 0 .. MaxCalls
  PROVE  TypeInv'
  <1>1. PICK ss : ss = Laid(0).scns
    OBVIOUS
  <1>2. /\ ehdr' = Laid(0).ehdr
        /\ scns' = [i \in DOMAIN ss |-> [ss[i] EXCEPT !.s_flag = FALSE, !.d_flag = FALSE]]
        /\ e_elf_flags' = e_elf_flags \ {"DIRTY"}
        /\ e_ehdr_flags' = FALSE /\ e_phdr_flags' = FALSE
        /\ e_ehdr' = e_ehdr /\ e_phnum' = e_phnum /\ UNCHANGED opened
    BY <1>1 DEF Cleaned
  <1>3. /\ ss \in Seq(TypedScn) /\ Len(ss) = Len(scns) /\ Laid(0).ehdr \in Ehdr
        /\ DOMAIN ss = 1 .. Len(ss) /\ Len(ss) \in Nat
    <2>1. 0 \in Nat
      OBVIOUS
    <2>2. ss \in Seq(TypedScn) /\ Len(ss) = Len(scns) /\ Laid(0).ehdr \in Ehdr
      BY <1>1, <2>1, LaidParts
    <2> QED BY <2>2
  <1>4. ASSUME NEW i \in 1 .. Len(ss)
        PROVE  [ss[i] EXCEPT !.s_flag = FALSE, !.d_flag = FALSE] \in TypedScn
    <2>1. PICK s : s = ss[i]
      OBVIOUS
    <2>2. s \in TypedScn /\ s \in Scn
      <3>1. s \in TypedScn
        BY <1>3, <2>1
      <3> QED BY <3>1, TypedIsScn
    <2>3. PICK t : t = [s EXCEPT !.s_flag = FALSE, !.d_flag = FALSE]
      OBVIOUS
    <2>4. t \in Scn /\ t.s_data = s.s_data
      BY <2>2, <2>3 DEF Scn
    <2>5. t \in TypedScn
      BY <2>2, <2>4, EditedScn
    <2> QED BY <2>1, <2>3, <2>5
  <1>5. scns' \in Seq(TypedScn) /\ Len(scns') = Len(scns)
    <2>1. scns' \in [1 .. Len(ss) -> TypedScn]
      BY <1>2, <1>3, <1>4
    <2> QED BY <1>3, <2>1, SeqDef
  <1>6. /\ e_elf_flags' \subseteq Flags /\ e_ehdr_flags' \in BOOLEAN /\ e_phdr_flags' \in BOOLEAN
    BY <1>2, TypeParts
  <1> QED BY <1>2, <1>3, <1>5, <1>6, UpdateTyped

\* The bytes that elf_update leaves in the file, whatever stops it.
LEMMA FileImage ==
  ASSUME NEW w \in Seq(Write), NEW len \in Nat, file' = Image(w, len)
  PROVE  FileTyped'
  BY ImageFact DEF FileTyped

LEMMA TypeUpdate ==
  ASSUME TypeInv, elf_update
  PROVE  TypeInv'
  <1>0. e_ehdr /\ 0 \in Nat
    BY DEF elf_update
  <1>1. PICK l, w : l = Laid(0) /\ w = Writes(l.ehdr, l.scns)
    OBVIOUS
  <1>2. w \in Seq(Write) /\ Written(w) \in Seq(Write) /\ << >> \in Seq(Write) /\ l.end \in Nat
    <2>1. w \in Seq(Write)
      BY <1>0, <1>1, LaidParts
    <2>2. l.end \in Nat
      BY <1>0, <1>1, TypeParts, LaidType
    <2> QED BY <2>1, <2>2, WrittenFact
  <1>3. FileTyped /\ stage \in Stage /\ unmarked \subseteq Unmarked[e_class] \cup {"write"}
        /\ calls \in 0 .. MaxCalls
    BY TypeParts
  <1>4. ASSUME UpdateLaysOut(l) \/ UpdateSkips(l)
        PROVE  TypeInv'
    <2>1. /\ Keeps(l) /\ stage' \in {"settled", "saved"}
          /\ file' = file /\ unmarked' = unmarked /\ calls' = calls
      BY <1>4 DEF UpdateLaysOut, UpdateSkips
    <2>2. FileTyped' /\ stage' \in Stage /\ calls' \in 0 .. MaxCalls
      BY <1>3, <2>1 DEF FileTyped, Stage
    <2> QED BY <1>0, <1>1, <2>1, <2>2, KeepsTyped
  <1>5. ASSUME NEW bad \in Nat, UpdateRefuses(Laid(bad)), Fails \/ calls' = calls
        PROVE  TypeInv'
    <2>1. /\ Keeps(Laid(bad)) /\ stage' \in {"overlap", "edited"}
          /\ file' = file /\ unmarked' = unmarked
          /\ Fails \/ calls' = calls
      BY <1>5 DEF UpdateRefuses
    <2>2. FileTyped' /\ stage' \in Stage /\ calls' \in 0 .. MaxCalls
      BY <1>3, <2>1, FailsFact DEF FileTyped, Stage
    <2> QED BY <1>0, <2>1, <2>2, KeepsTyped
  <1>6. ASSUME UpdateWrites(l, w)
        PROVE  TypeInv'
    <2>1. /\ Cleaned(l) /\ file' = Image(w, l.end) /\ stage' = "saved"
          /\ unmarked' = {} /\ calls' = calls
      BY <1>6 DEF UpdateWrites
    <2>2. FileTyped'
      BY <1>2, <2>1, FileImage
    <2>3. stage' \in Stage /\ calls' \in 0 .. MaxCalls
          /\ unmarked' \subseteq Unmarked[e_class] \cup {"write"}
      BY <1>3, <2>1 DEF Stage
    <2> QED BY <1>0, <1>1, <2>1, <2>2, <2>3, CleanedTyped
  <1>7. ASSUME UpdateFails(l, w)
        PROVE  TypeInv'
    <2>1. /\ Keeps(l) /\ Fails /\ stage' = "edited" /\ unmarked' = unmarked
          /\ file' \in {<< >>, Image(<< >>, l.end), Image(Written(w), l.end)}
      BY <1>7 DEF UpdateFails
    <2>2. FileTyped'
      <3>1. CASE file' = << >>
        BY <3>1 DEF FileTyped
      <3>2. CASE file' # << >>
        BY <1>2, <2>1, <3>2, FileImage
      <3> QED BY <3>1, <3>2
    <2>3. stage' \in Stage /\ calls' \in 0 .. MaxCalls
      BY <2>1, FailsFact DEF Stage
    <2> QED BY <1>0, <1>1, <2>1, <2>2, <2>3, KeepsTyped
  <1>8. ASSUME UpdateLosesWrite(l, w)
        PROVE  TypeInv'
    <2>1. PICK n, f : /\ f = Image(w, l.end)
                      /\ file' = [k \in 1 .. l.end |-> IF k <= n THEN f[k] ELSE Zero]
      BY <1>8 DEF UpdateLosesWrite
    <2>2. /\ Cleaned(l) /\ Fails /\ stage' = "edited" /\ unmarked' = unmarked \cup {"write"}
      BY <1>8 DEF UpdateLosesWrite
    <2>3. FileTyped'
      <3>1. f \in Seq(Cell) /\ Len(f) = l.end
        BY <1>2, <2>1, ImageFact
      <3>2. \A k \in 1 .. l.end : f[k] \in Cell
        BY <3>1
      <3>3. Zero \in Cell
        BY DEF Zero, Cell
      <3>4. file' \in [1 .. l.end -> Cell]
        BY <2>1, <3>2, <3>3
      <3> QED BY <1>2, <3>4, SeqDef DEF FileTyped
    <2>4. stage' \in Stage /\ calls' \in 0 .. MaxCalls
          /\ unmarked' \subseteq Unmarked[e_class] \cup {"write"}
      BY <1>3, <2>2, FailsFact DEF Stage
    <2> QED BY <1>0, <1>1, <2>2, <2>3, <2>4, CleanedTyped
  <1>9. ASSUME NEW bad \in DOMAIN scns PROVE bad \in Nat
    <2>1. scns \in Seq(Scn)
      BY DEF TypeInv, TypeOK
    <2> QED BY <2>1
  <1> QED BY <1>0, <1>1, <1>4, <1>5, <1>6, <1>7, <1>8, <1>9 DEF elf_update

LEMMA TypeStep ==
  ASSUME TypeInv, [Next]_vars
  PROVE  TypeInv'
  <1>1. CASE UNCHANGED vars
    BY <1>1 DEF vars, contents, dirt, opened, TypeInv, TypeOK, DataTyped, BeforeHeader
  <1>2. CASE Next
    BY <1>2, TypeCook, TypeNewehdr, TypeNewscn, TypeNewphdr, TypeNewdata, TypeSetShdr,
       TypeSetEhdr, TypeFlagelf, TypeRemscn, TypeDelscn, TypeMovscn, TypeUpdate DEF Next
  <1> QED BY <1>1, <1>2

-----------------------------------------------------------------------------
(***************************************************************************)
(* The inductive invariant: after an elf_update that succeeded the headers *)
(* and sections are laid out, as a layout leaves them.  That sections are  *)
(* apart or data aligned says nothing of the layout that comes next;       *)
(* Settled says where each section is, behind those before it.             *)
(***************************************************************************)
Inv == TypeInv /\ (stage \in {"settled", "saved"} => Settled)

LEMMA SettledStep ==
  ASSUME TypeInv, elf_update, stage' \in {"settled", "saved"}
  PROVE  Settled'
  <1>1. PICK l : l = Laid(0)
    OBVIOUS
  <1>2. /\ l.says = "ok" /\ (Keeps(l) \/ Cleaned(l))
    <2>1. ASSUME UpdateLaysOut(l) \/ UpdateSkips(l)
          PROVE  l.says = "ok" /\ Keeps(l)
      BY <2>1 DEF UpdateLaysOut, UpdateSkips
    <2>2. ASSUME NEW bad, UpdateRefuses(Laid(bad))
          PROVE  FALSE
      BY <2>2 DEF UpdateRefuses
    <2>3. ASSUME MustWrite(l), NEW w, UpdateWrites(l, w) \/ UpdateFails(l, w) \/ UpdateLosesWrite(l, w)
          PROVE  l.says = "ok" /\ Cleaned(l)
      BY <2>3 DEF MustWrite, UpdateWrites, UpdateFails, UpdateLosesWrite
    <2> QED BY <1>1, <2>1, <2>2, <2>3 DEF elf_update
  <1>3. LayoutType /\ l.scns \in Seq(Scn) /\ Len(l.scns) = Len(scns) /\ Len(scns) \in Nat
    <2>1. 0 \in Nat
      OBVIOUS
    <2>2. LayoutType /\ l.scns \in Seq(Scn) /\ Len(l.scns) = Len(scns)
      BY <1>1, <2>1, TypeParts, LaidParts
    <2> QED BY <2>2 DEF LayoutType
  <1>4. scns' \in Seq(Scn)
    <2>1. TypeInv'
      BY TypeUpdate
    <2> QED BY <2>1 DEF TypeInv, TypeOK
  <1>5. Keeping
    <2>1. CASE Keeps(l)
      <3>1. /\ ehdr' = l.ehdr /\ scns' = l.scns /\ e_phnum' = e_phnum
            /\ e_class' = e_class /\ e_elf_flags' = e_elf_flags
        BY <2>1 DEF Keeps, opened
      <3> QED BY <1>1, <1>3, <1>4, <3>1 DEF Keeping, Layout, Overlaps
    <2>2. CASE Cleaned(l)
      <3>1. /\ ehdr' = l.ehdr /\ e_phnum' = e_phnum /\ e_class' = e_class
            /\ scns' = [i \in DOMAIN l.scns |-> [l.scns[i] EXCEPT !.s_flag = FALSE, !.d_flag = FALSE]]
            /\ e_elf_flags' = e_elf_flags \ {"DIRTY"}
        BY <2>2 DEF Cleaned, opened
      <3>2. PICK ss : ss = l.scns
        OBVIOUS
      <3>3. /\ ss \in Seq(Scn) /\ Len(ss) = Len(scns) /\ DOMAIN ss = 1 .. Len(ss) /\ Len(ss) \in Nat
        BY <1>3, <3>2
      <3>4. ASSUME NEW i \in 1 .. Len(ss)
            PROVE  /\ scns'[i].s_shdr = ss[i].s_shdr /\ scns'[i].s_data = ss[i].s_data
                   /\ scns'[i].s_null = ss[i].s_null
        <4>1. PICK s : s = ss[i]
          OBVIOUS
        <4>2. s \in Scn
          BY <3>3, <4>1
        <4>3. scns'[i] = [s EXCEPT !.s_flag = FALSE, !.d_flag = FALSE]
          BY <3>1, <3>2, <3>3, <4>1
        <4> QED BY <4>1, <4>2, <4>3 DEF Scn
      <3>5. Len(scns') = Len(ss)
        <4>1. DOMAIN scns' = 1 .. Len(ss) /\ DOMAIN scns' = 1 .. Len(scns') /\ Len(scns') \in Nat
          <5>1. DOMAIN scns' = 1 .. Len(ss)
            BY <3>1, <3>2, <3>3
          <5>2. DOMAIN scns' = 1 .. Len(scns') /\ Len(scns') \in Nat
            BY <1>4
          <5> QED BY <5>1, <5>2
        <4> QED BY <3>3, <4>1
      <3>6. Layout' = Layout /\ Overlaps' = Overlaps
        <4>1. e_elf_flags' = e_elf_flags \ {"DIRTY"}
          BY <3>1
        <4>2. "LAYOUT" \in e_elf_flags' <=> "LAYOUT" \in e_elf_flags
          BY <4>1
        <4>3. "LAYOUT_OVERLAP" \in e_elf_flags' <=> "LAYOUT_OVERLAP" \in e_elf_flags
          BY <4>1
        <4> QED BY <4>2, <4>3 DEF Layout, Overlaps
      <3>7. ss = Laid(0).scns /\ l.ehdr = Laid(0).ehdr
        BY <1>1, <3>2
      <3>8. Len(scns') = Len(scns) /\ 1 .. Len(scns) = 1 .. Len(ss)
        BY <3>3, <3>5
      <3>9. \A i \in 1 .. Len(scns) : /\ scns'[i].s_shdr = Laid(0).scns[i].s_shdr
                                     /\ scns'[i].s_data = Laid(0).scns[i].s_data
                                     /\ scns'[i].s_null = Laid(0).scns[i].s_null
        BY ONLY <3>4, <3>7, <3>8
      <3>10. ehdr' = Laid(0).ehdr
        BY <3>1, <3>7
      <3> QED BY ONLY <1>4, <3>1, <3>6, <3>8, <3>9, <3>10 DEF Keeping
    <2> QED BY <1>2, <2>1, <2>2
  <1> QED BY <1>1, <1>2, <1>3, <1>5, LaidSettles

\* Settled reads neither stage nor the dirty flags.
LEMMA SettledFrame ==
  ASSUME LayoutType, Settled, UNCHANGED << e_class, contents, e_elf_flags >>
  PROVE  Settled'
  <1>1. /\ ehdr' = ehdr /\ e_phnum' = e_phnum /\ scns' = scns /\ e_class' = e_class
        /\ Layout' = Layout /\ Overlaps' = Overlaps /\ Phoff' = Phoff
    BY DEF contents, Layout, Overlaps, Phoff
  <1>2. PICK off : LaidOut(off)
    BY DEF Settled
  <1>3. HeadersLaid'
    <2>1. PICK h : h = scns[1].s_shdr
      OBVIOUS
    <2>2. FirstLaid(h)' = FirstLaid(h)
      BY <1>1 DEF FirstLaid, ExtendedPhnum, CountedHeader
    <2> QED BY <1>1, <2>1, <2>2 DEF Settled, HeadersLaid
  <1>4. ASSUME NEW i \in 2 .. Len(scns), NEW before, NEW after, LaidScn(i, before, after)
        PROVE  LaidScn(i, before, after)'
    <2>1. PICK s, d : s = scns[i] /\ d = s.s_data
      OBVIOUS
    <2>2. d \in Seq(Data) /\ Len(d) \in Nat
      <3>1. scns[i] \in Scn
        BY DEF LayoutType
      <3> QED BY <2>1, <3>1 DEF Scn
    <2>3. \A k \in 0 .. Len(d) : (DataEnd(d)')[k] = DataEnd(d)[k]
      BY <1>1, <2>2, SameEnds
    <2>4. (DataEnd(d)')[Len(d)] = DataEnd(d)[Len(d)]
      BY <2>2, <2>3
    <2>5. PlacedData(d)' = PlacedData(d)
      <3>1. ASSUME NEW k \in 1 .. Len(d)
            PROVE  (DataEnd(d)')[k - 1] = DataEnd(d)[k - 1]
        BY <2>2, <2>3
      <3> QED BY <1>1, <3>1 DEF PlacedData
    <2>6. LibHeader(s, before)' = LibHeader(s, before)
      BY <2>1, <2>4 DEF LibHeader, LibOffset
    <2>7. LaidByLibrary(s, before, after)' <=> LaidByLibrary(s, before, after)
      BY <2>1, <2>5, <2>6 DEF LaidByLibrary
    <2>8. LaidByProgram(i, before, after)' <=> LaidByProgram(i, before, after)
      BY <1>1 DEF LaidByProgram
    <2> QED BY <1>1, <1>4, <2>1, <2>4, <2>7, <2>8 DEF LaidScn
  <1>5. LaidOut(off)'
    <2>1. (AfterPhdrs.off)' = AfterPhdrs.off
      BY <1>1 DEF AfterPhdrs
    <2>2. \A i \in 2 .. Len(scns) : LaidScn(i, off[i - 1], off[i])'
      BY <1>2, <1>4 DEF LaidOut
    <2> QED BY <1>1, <1>2, <2>1, <2>2 DEF LaidOut
  <1> QED BY <1>3, <1>5 DEF Settled

LEMMA InvInit == Init => Inv
  <1>1. Init => stage = "edited"
    BY DEF Init
  <1> QED BY <1>1, TypeInit DEF Inv

LEMMA InvStep == Inv /\ [Next]_vars => Inv'
  <1> SUFFICES ASSUME Inv, [Next]_vars PROVE Inv'
    OBVIOUS
  <1>0. TypeInv /\ TypeInv'
    BY TypeStep DEF Inv
  <1> SUFFICES ASSUME stage' \in {"settled", "saved"} PROVE Settled'
    BY <1>0 DEF Inv
  <1>1. CASE UNCHANGED vars
    <2>1. Settled /\ UNCHANGED << e_class, contents, e_elf_flags >>
      BY <1>1 DEF vars, Inv, contents, dirt, opened
    <2> QED BY <1>0, <2>1, TypeParts, SettledFrame
  <1>2. CASE Cook \/ elf_newehdr
    <2>1. stage' = stage /\ ~e_ehdr
      BY <1>2 DEF Cook, elf_newehdr
    <2>2. stage = "edited"
      BY <1>0, <2>1 DEF TypeInv, BeforeHeader
    <2> QED BY <2>1, <2>2
  <1>3. CASE Edits
    BY <1>3 DEF Edits
  <1>4. CASE elf_update
    BY <1>0, <1>4, SettledStep
  <1>5. Next => Cook \/ elf_newehdr \/ Edits \/ elf_update
    BY DEF Next, elf_newscn, elf_newphdr, elf_newdata, SetShdr, SetEhdr, elf_flagelf,
           elfx_remscn, elf_delscn, elfx_movscn
  <1> QED BY <1>1, <1>2, <1>3, <1>4, <1>5

LEMMA Invariance == Spec => []Inv
  BY InvInit, InvStep, PTL DEF Spec

-----------------------------------------------------------------------------
(***************************************************************************)
(* What holds of every descriptor that is written.                         *)
(***************************************************************************)

(***************************************************************************)
(* The fields keep their types through every edit, failure and update:     *)
(* a first section is there when its header takes the number of program    *)
(* headers (update.c:202, 405).                                            *)
(***************************************************************************)
THEOREM Types == Spec => []TypeOK
  <1>1. Inv => TypeOK
    BY DEF Inv, TypeInv
  <1> QED BY <1>1, Invariance, PTL

(***************************************************************************)
(* After an elf_update that succeeded no two sections share a cell of the  *)
(* file unless ELF_F_LAYOUT_OVERLAP allows it, and the library puts none   *)
(* over a table (update.c:247-290): for every number of sections, and of   *)
(* data in them, with every place an application chooses.                  *)
(***************************************************************************)
THEOREM Apart == Spec => []SectionsApart
  <1>1. Inv => SectionsApart
    BY TypeParts, SettledApart DEF Inv, SectionsApart
  <1> QED BY <1>1, Invariance, PTL

(***************************************************************************)
(* A layout that succeeded is one a further elf_update neither changes nor *)
(* refuses (update.c:131-347 once more over its own result).               *)
(***************************************************************************)
THEOREM Settles == Spec => []LayoutSettles
  <1>1. Inv => LayoutSettles
    BY TypeParts, SettledLayout DEF Inv, LayoutSettles
  <1> QED BY <1>1, Invariance, PTL

(***************************************************************************)
(* What elf_update puts into the mapping of the output file lies inside    *)
(* the length the layout returned for it (update.c:976, 682-759).          *)
(***************************************************************************)
THEOREM Inside == Spec => []WritesInside
  <1>1. Inv => WritesInside
    BY TypeParts, SettledInside DEF Inv, TypeInv, WritesInside
  <1> QED BY <1>1, Invariance, PTL

(***************************************************************************)
(* The library aligns the data within the section and the section to the   *)
(* greatest alignment of its data (update.c:96-98, 253).  That aligns each *)
(* in the file when of two alignments the greater is a multiple of the     *)
(* smaller, which the code leaves to the application and the file.         *)
(***************************************************************************)
THEOREM Aligned == AlignmentsNest => (Spec => []DataAligned)
  <1> SUFFICES ASSUME AlignmentsNest PROVE Spec => []DataAligned
    OBVIOUS
  <1>1. Inv => DataAligned
    BY TypeParts, SettledAligned DEF Inv, TypeInv, DataAligned
  <1> QED BY <1>1, Invariance, PTL
=============================================================================
