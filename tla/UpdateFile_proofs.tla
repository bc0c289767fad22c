------------------------ MODULE UpdateFile_proofs ------------------------
(***************************************************************************)
(* elf_update: what is written is read back.                               *)
(***************************************************************************)
EXTENDS Update_proofs

-----------------------------------------------------------------------------
(***************************************************************************)
(* What is seen of writes one behind the other.                            *)
(***************************************************************************)
NoHit(w, k) == Hits(w, k) = {}

LEMMA HitsConcat ==
  ASSUME NEW u \in Seq(Write), NEW v \in Seq(Write), NEW k
  PROVE  /\ u \o v \in Seq(Write)
         /\ \A j \in 1 .. Len(u) : j \in Hits(u \o v, k) <=> j \in Hits(u, k)
         /\ \A j \in 1 .. Len(v) : Len(u) + j \in Hits(u \o v, k) <=> j \in Hits(v, k)
         /\ Hits(u \o v, k) \subseteq 1 .. Len(u) + Len(v)
  <1> DEFINE w == u \o v
  <1>1. /\ w \in Seq(Write) /\ Len(w) = Len(u) + Len(v) /\ Len(u) \in Nat /\ Len(v) \in Nat
        /\ \A j \in 1 .. Len(u) : w[j] = u[j]
        /\ \A j \in 1 .. Len(v) : w[Len(u) + j] = v[j]
    OBVIOUS
  <1>2. DOMAIN w = 1 .. Len(u) + Len(v) /\ DOMAIN u = 1 .. Len(u) /\ DOMAIN v = 1 .. Len(v)
    BY <1>1
  <1> HIDE DEF w
  <1>3. \A j \in 1 .. Len(u) : j \in DOMAIN w
    BY <1>1, <1>2
  <1>4. \A j \in 1 .. Len(v) : Len(u) + j \in DOMAIN w
    BY <1>1, <1>2
  <1>5. \A j \in 1 .. Len(u) : j \in Hits(w, k) <=> j \in Hits(u, k)
    BY <1>1, <1>2, <1>3 DEF Hits
  <1>6. \A j \in 1 .. Len(v) : Len(u) + j \in Hits(w, k) <=> j \in Hits(v, k)
    BY <1>1, <1>2, <1>4 DEF Hits
  <1> QED BY <1>1, <1>2, <1>5, <1>6 DEF Hits, w

LEMMA SeenConcat ==
  ASSUME NEW u \in Seq(Write), NEW v \in Seq(Write), NEW k
  PROVE  /\ Seen(u \o v, k) = IF NoHit(v, k) THEN Seen(u, k) ELSE Seen(v, k)
         /\ NoHit(u \o v, k) <=> NoHit(u, k) /\ NoHit(v, k)
  <1> DEFINE w == u \o v
             n == Len(u)
  <1>1. /\ w \in Seq(Write) /\ n \in Nat /\ Len(v) \in Nat
        /\ \A j \in 1 .. n : w[j] = u[j]
        /\ \A j \in 1 .. Len(v) : w[n + j] = v[j]
    OBVIOUS
  <1>2. /\ \A j \in 1 .. n : j \in Hits(w, k) <=> j \in Hits(u, k)
        /\ \A j \in 1 .. Len(v) : n + j \in Hits(w, k) <=> j \in Hits(v, k)
        /\ Hits(w, k) \subseteq 1 .. n + Len(v)
    BY HitsConcat
  <1>3. Hits(u, k) \subseteq 1 .. n /\ Hits(v, k) \subseteq 1 .. Len(v)
    BY DEF Hits
  <1> HIDE DEF w, n
  <1>4. ASSUME NEW j \in Hits(w, k), j > n
        PROVE  j - n \in Hits(v, k)
    <2>1. j \in Int /\ j - n \in 1 .. Len(v) /\ n + (j - n) = j
      BY <1>1, <1>2, <1>4
    <2> QED BY <1>2, <2>1
  <1>5. NoHit(w, k) <=> NoHit(u, k) /\ NoHit(v, k)
    <2>1. ASSUME NEW j \in Hits(w, k)
          PROVE  Hits(u, k) # {} \/ Hits(v, k) # {}
      <3>1. CASE j > n
        BY <1>4, <3>1
      <3>2. CASE ~(j > n)
        <4>1. j \in 1 .. n
          BY <1>1, <1>2, <3>2
        <4> QED BY <1>2, <4>1
      <3> QED BY <3>1, <3>2
    <2>2. Hits(u, k) # {} \/ Hits(v, k) # {} => Hits(w, k) # {}
      BY <1>2, <1>3
    <2> QED BY <2>1, <2>2 DEF NoHit
  <1>6. CASE NoHit(w, k)
    BY <1>5, <1>6 DEF Seen, NoHit, w
  <1>7. CASE ~NoHit(w, k) /\ NoHit(v, k)
    <2>1. Hits(w, k) = Hits(u, k)
      <3>1. ASSUME NEW j \in Hits(w, k) PROVE j \in Hits(u, k)
        <4>1. j \in 1 .. n
          BY <1>1, <1>2, <1>4, <1>7 DEF NoHit
        <4> QED BY <1>2, <4>1
      <3> QED BY <1>2, <1>3, <3>1
    <2>2. PICK m : m = Max(Hits(w, k))
      OBVIOUS
    <2>3. m \in Hits(u, k) /\ m \in 1 .. n
      BY <1>1, <1>3, <1>7, <2>1, <2>2, LastHit DEF NoHit
    <2>4. w[m] = u[m]
      BY <1>1, <2>3
    <2> QED BY <1>7, <2>1, <2>2, <2>4 DEF Seen, NoHit, w
  <1>8. CASE ~NoHit(v, k)
    <2>1. PICK m, l : m = Max(Hits(w, k)) /\ l = Max(Hits(v, k))
      OBVIOUS
    <2>2. l \in Hits(v, k) /\ \A j \in Hits(v, k) : j <= l
      BY <1>8, <2>1, LastHit DEF NoHit
    <2>3. Hits(w, k) # {} /\ m \in Hits(w, k) /\ \A j \in Hits(w, k) : j <= m
      BY <1>1, <1>5, <1>8, <2>1, LastHit DEF NoHit
    <2>4. l \in 1 .. Len(v) /\ n + l \in Hits(w, k)
      BY <1>2, <1>3, <2>2
    <2>5. m \in Int /\ n + l <= m
      BY <1>2, <2>3, <2>4
    <2>6. m - n \in Hits(v, k)
      BY <1>1, <1>4, <2>3, <2>4, <2>5
    <2>7. m = n + l
      <3>1. m - n <= l
        BY <2>2, <2>6
      <3> QED BY <1>1, <2>4, <2>5, <3>1
    <2>8. w[m] = v[l]
      BY <1>1, <2>4, <2>7
    <2>9. Hits(v, k) # {}
      BY <1>8 DEF NoHit
    <2> QED BY <1>8, <2>1, <2>3, <2>8, <2>9 DEF Seen, NoHit, w
  <1> QED BY <1>5, <1>6, <1>7, <1>8 DEF w

LEMMA SeenOne ==
  ASSUME NEW x \in Write, NEW k
  PROVE  /\ << x >> \in Seq(Write)
         /\ NoHit(<< x >>, k) <=> k - x.at \notin DOMAIN x.cells
         /\ ~NoHit(<< x >>, k) => Seen(<< x >>, k) = x.cells[k - x.at]
  <1>1. << x >> \in Seq(Write) /\ DOMAIN << x >> = {1} /\ << x >>[1] = x
    OBVIOUS
  <1>2. Hits(<< x >>, k) = {j \in {1} : k - x.at \in DOMAIN x.cells}
    BY <1>1 DEF Hits
  <1>3. ASSUME ~NoHit(<< x >>, k)
        PROVE  Seen(<< x >>, k) = x.cells[k - x.at]
    <2>1. PICK m : m = Max(Hits(<< x >>, k))
      OBVIOUS
    <2>2. m = 1
      BY <1>1, <1>2, <1>3, <2>1, LastHit DEF NoHit
    <2> QED BY <1>1, <1>3, <2>1, <2>2 DEF Seen, NoHit
  <1> QED BY <1>1, <1>2, <1>3 DEF NoHit

LEMMA SeenNone ==
  ASSUME NEW w, NEW k, NoHit(w, k)
  PROVE  Seen(w, k) = Zero
  BY DEF NoHit, Seen

\* Of sequences of writes in a row, when no more than one hits the cell.
LEMMA SeenFlatten ==
  ASSUME NEW seqs \in Seq(Seq(Write)), NEW k, NEW i \in 1 .. Len(seqs),
         \A j \in 1 .. Len(seqs) : j # i => NoHit(seqs[j], k)
  PROVE  /\ Seen(FlattenSeq(seqs), k) = Seen(seqs[i], k)
         /\ NoHit(FlattenSeq(seqs), k) <=> NoHit(seqs[i], k)
  <1> DEFINE n == Len(seqs)
  <1>0. n \in Nat /\ seqs # << >> /\ \A j \in 1 .. n : seqs[j] \in Seq(Write)
    OBVIOUS
  <1>1. PICK f : /\ FlattenSeq(seqs) = f[n]
                 /\ \A m \in 1 .. n : f[m] = IF m = 1 THEN seqs[m] ELSE f[m - 1] \o seqs[m]
    BY <1>0, FlattenTurn
  <1> DEFINE Before(m) == m < i => NoHit(f[m], k)
             After(m) == m >= i => /\ Seen(f[m], k) = Seen(seqs[i], k)
                                   /\ NoHit(f[m], k) <=> NoHit(seqs[i], k)
             R == {m \in 0 .. n : m # 0 => f[m] \in Seq(Write) /\ Before(m) /\ After(m)}
  <1>2. 0 \in R
    BY <1>0
  <1>3. ASSUME NEW m \in 1 .. n, m - 1 \in R PROVE m \in R
    <2>0. seqs[m] \in Seq(Write) /\ (m # i => NoHit(seqs[m], k))
      BY <1>0
    <2>1. CASE m = 1
      <3>1. f[m] = seqs[m]
        BY <1>1, <2>1
      <3>2. Before(m) /\ After(m)
        BY <2>0, <2>1, <3>1
      <3> QED BY <1>0, <2>0, <3>1, <3>2
    <2>2. CASE m # 1
      <3>1. PICK u, v : u = f[m - 1] /\ v = seqs[m]
        OBVIOUS
      <3>2. m - 1 # 0 /\ u \in Seq(Write) /\ Before(m - 1) /\ After(m - 1)
        BY <1>0, <1>3, <2>2, <3>1
      <3>3. f[m] = u \o v /\ v \in Seq(Write)
        BY <1>1, <2>0, <2>2, <3>1
      <3>4. /\ Seen(u \o v, k) = IF NoHit(v, k) THEN Seen(u, k) ELSE Seen(v, k)
            /\ NoHit(u \o v, k) <=> NoHit(u, k) /\ NoHit(v, k)
            /\ u \o v \in Seq(Write)
        BY <3>2, <3>3, SeenConcat, HitsConcat
      <3>5. (NoHit(u, k) => Seen(u, k) = Zero) /\ (NoHit(v, k) => Seen(v, k) = Zero)
        BY SeenNone
      <3>6. ASSUME m < i PROVE Before(m) /\ After(m)
        <4>1. m - 1 < i /\ m # i
          BY <3>6
        <4>2. Before(m)
          BY <2>0, <3>1, <3>2, <3>3, <3>4, <4>1
        <4>3. After(m)
          BY <1>0, <3>6
        <4> HIDE DEF Before, After
        <4> QED BY <4>2, <4>3
      <3>7. ASSUME m = i PROVE Before(m) /\ After(m)
        <4>1. NoHit(u, k)
          BY <3>1, <3>2, <3>7
        <4>2. After(m)
          BY <3>1, <3>3, <3>4, <3>5, <3>7, <4>1
        <4>3. Before(m)
          BY <1>0, <3>7
        <4> HIDE DEF Before, After
        <4> QED BY <4>2, <4>3
      <3>8. ASSUME m > i PROVE Before(m) /\ After(m)
        <4>1. m - 1 >= i /\ m # i
          BY <3>8
        <4>2. After(m)
          BY <2>0, <3>1, <3>2, <3>3, <3>4, <4>1
        <4>3. Before(m)
          BY <1>0, <3>8
        <4> HIDE DEF Before, After
        <4> QED BY <4>2, <4>3
      <3>9. Before(m) /\ After(m)
        <4> HIDE DEF Before, After
        <4>1. m < i \/ m = i \/ m > i
          BY <1>0
        <4> QED BY <3>6, <3>7, <3>8, <4>1
      <3>10. f[m] \in Seq(Write)
        BY <3>3, <3>4
      <3> HIDE DEF Before, After
      <3> QED BY <1>0, <3>9, <3>10
    <2> QED BY <2>1, <2>2
  <1>4. 0 .. n \subseteq R
    <2> HIDE DEF R
    <2> QED BY <1>0, <1>2, <1>3, UpTo
  <1>5. n \in R /\ n # 0 /\ n >= i
    <2> HIDE DEF R
    <2> QED BY <1>0, <1>4
  <1>6. After(n)
    BY <1>5
  <1> QED BY <1>1, <1>5, <1>6

LEMMA NoneFlatten ==
  ASSUME NEW seqs \in Seq(Seq(Write)), NEW k, \A j \in 1 .. Len(seqs) : NoHit(seqs[j], k)
  PROVE  NoHit(FlattenSeq(seqs), k)
  <1>1. CASE seqs = << >>
    <2>1. FlattenSeq(seqs) = << >>
      BY <1>1 DEF FlattenSeq
    <2> QED BY <2>1 DEF NoHit, Hits
  <1>2. CASE seqs # << >>
    <2>1. 1 \in 1 .. Len(seqs)
      BY <1>2
    <2> QED BY <2>1, SeenFlatten
  <1> QED BY <1>1, <1>2

-----------------------------------------------------------------------------
(***************************************************************************)
(* What is seen of the writes of a file.                                   *)
(***************************************************************************)
PhdrWrites(h) == [j \in 1 .. e_phnum |-> PhdrWrite(h, j)]
DataWrites(s) == [k \in 1 .. Len(DataOf(s)) |-> DataWrite(s, DataOf(s)[k])]
ScnWrites(h, ss, i) ==
    << ShdrWrite(h, ss[i], i) >> \o (IF i = 1 THEN << >> ELSE DataWrites(ss[i]))
ScnParts(h, ss) == [i \in 1 .. Len(ss) |-> ScnWrites(h, ss, i)]

LEMMA DataWritesType ==
  ASSUME NEW s \in Scn
  PROVE  /\ DataOf(s) \in Seq(Data)
         /\ DataWrites(s) \in Seq(Write) /\ Len(DataWrites(s)) = Len(DataOf(s))
         /\ \A k \in 1 .. Len(DataOf(s)) : DataWrites(s)[k] = DataWrite(s, DataOf(s)[k])
  <1> DEFINE d == DataOf(s)
  <1>1. d \in Seq(Data) /\ Len(d) \in Nat /\ \A k \in 1 .. Len(d) : d[k] \in Data
    <2>1. d \in Seq(Data)
      BY DEF DataOf, Scn
    <2> HIDE DEF d
    <2> QED BY <2>1
  <1> HIDE DEF d
  <1>2. \A k \in 1 .. Len(d) : DataWrite(s, d[k]) \in Write
    BY <1>1, DataWriteFact
  <1>3. DataWrites(s) = [k \in 1 .. Len(d) |-> DataWrite(s, d[k])]
    BY DEF DataWrites, d
  <1>4. DataWrites(s) \in [1 .. Len(d) -> Write]
    BY <1>2, <1>3
  <1>5. DataWrites(s) \in Seq(Write) /\ Len(DataWrites(s)) = Len(d)
    BY <1>1, <1>3, <1>4, SeqDef
  <1> QED BY <1>1, <1>3, <1>5 DEF d

LEMMA PhdrWritesType ==
  ASSUME e_phnum \in Nat, NEW h \in Ehdr
  PROVE  PhdrWrites(h) \in Seq(Write) /\ Len(PhdrWrites(h)) = e_phnum
  <1>1. PhdrWrites(h) \in [1 .. e_phnum -> Write]
    BY PhdrWriteFact DEF PhdrWrites
  <1> QED BY <1>1, SeqDef DEF PhdrWrites

LEMMA ScnWritesType ==
  ASSUME NEW h \in Ehdr, NEW ss \in Seq(Scn), NEW i \in 1 .. Len(ss)
  PROVE  ScnWrites(h, ss, i) \in Seq(Write)
  <1>1. ss[i] \in Scn /\ i \in Nat \ {0}
    OBVIOUS
  <1>2. << ShdrWrite(h, ss[i], i) >> \in Seq(Write) /\ << >> \in Seq(Write)
    BY <1>1, ShdrWriteFact, SeenOne
  <1>3. DataWrites(ss[i]) \in Seq(Write)
    BY <1>1, DataWritesType
  <1> QED BY <1>2, <1>3, ConcatProperties DEF ScnWrites

LEMMA WritesParts ==
  ASSUME e_phnum \in Nat, NEW h \in Ehdr, NEW ss \in Seq(Scn)
  PROVE  /\ Writes(h, ss) = << EhdrWrite(h) >> \o PhdrWrites(h) \o FlattenSeq(ScnParts(h, ss))
         /\ ScnParts(h, ss) \in Seq(Seq(Write)) /\ Len(ScnParts(h, ss)) = Len(ss)
         /\ \A i \in 1 .. Len(ss) : ScnParts(h, ss)[i] = ScnWrites(h, ss, i)
         /\ FlattenSeq(ScnParts(h, ss)) \in Seq(Write)
  <1>1. Writes(h, ss) = << EhdrWrite(h) >> \o PhdrWrites(h) \o FlattenSeq(ScnParts(h, ss))
    BY DEF Writes, EhdrWrite, PhdrWrite, ShdrWrite, DataWrite, PhdrWrites, DataWrites, ScnWrites, ScnParts
  <1>2. ScnParts(h, ss) \in [1 .. Len(ss) -> Seq(Write)]
    BY ScnWritesType DEF ScnParts
  <1>3. ScnParts(h, ss) \in Seq(Seq(Write)) /\ Len(ScnParts(h, ss)) = Len(ss)
    <2>1. Len(ss) \in Nat /\ DOMAIN ScnParts(h, ss) = 1 .. Len(ss)
      BY DEF ScnParts
    <2> QED BY <1>2, <2>1, SeqDef
  <1>4. \A i \in 1 .. Len(ss) : ScnParts(h, ss)[i] = ScnWrites(h, ss, i)
    BY DEF ScnParts
  <1> QED BY <1>1, <1>3, <1>4, FlattenFact

LEMMA EhdrSeen ==
  ASSUME NEW h \in Ehdr, NEW k \in Int
  PROVE  /\ NoHit(<< EhdrWrite(h) >>, k) <=> k # 1
         /\ k = 1 => Seen(<< EhdrWrite(h) >>, k) = <<"ehdr", h>>
  <1> DEFINE x == EhdrWrite(h)
  <1>1. x \in Write /\ x.at = 0 /\ x.cells = << <<"ehdr", h>> >>
    BY EhdrWriteFact DEF EhdrWrite
  <1>2. DOMAIN x.cells = {1} /\ x.cells[1] = <<"ehdr", h>>
    BY <1>1
  <1> HIDE DEF x
  <1>3. k - x.at = k
    BY <1>1
  <1>4. NoHit(<< x >>, k) <=> k # 1
    BY <1>1, <1>2, <1>3, SeenOne
  <1>5. k = 1 => Seen(<< x >>, k) = <<"ehdr", h>>
    BY <1>1, <1>2, <1>3, <1>4, SeenOne
  <1> QED BY <1>4, <1>5 DEF x

LEMMA ShdrSeen ==
  ASSUME NEW h \in Ehdr, NEW s \in Scn, NEW i \in Nat \ {0}, NEW k \in Int
  PROVE  /\ NoHit(<< ShdrWrite(h, s, i) >>, k) <=> k # h.e_shoff + i
         /\ k = h.e_shoff + i => Seen(<< ShdrWrite(h, s, i) >>, k) = <<"shdr", s.s_shdr>>
  <1> DEFINE x == ShdrWrite(h, s, i)
  <1>1. x \in Write /\ x.at = h.e_shoff + i - 1 /\ x.cells = << <<"shdr", s.s_shdr>> >> /\ h.e_shoff \in Nat
    BY ShdrWriteFact DEF ShdrWrite, Ehdr
  <1>2. DOMAIN x.cells = {1} /\ x.cells[1] = <<"shdr", s.s_shdr>>
    BY <1>1
  <1> HIDE DEF x
  <1>3. k - x.at = 1 <=> k = h.e_shoff + i
    BY <1>1
  <1>4. NoHit(<< x >>, k) <=> k # h.e_shoff + i
    BY <1>1, <1>2, <1>3, SeenOne
  <1>5. k = h.e_shoff + i => Seen(<< x >>, k) = <<"shdr", s.s_shdr>>
    BY <1>1, <1>2, <1>3, <1>4, SeenOne
  <1> QED BY <1>4, <1>5 DEF x

LEMMA PhdrSeen ==
  ASSUME e_phnum \in Nat, NEW h \in Ehdr, NEW k \in Int
  PROVE  /\ NoHit(PhdrWrites(h), k) <=> k \notin h.e_phoff + 1 .. h.e_phoff + e_phnum
         /\ ~NoHit(PhdrWrites(h), k) => Seen(PhdrWrites(h), k) = <<"phdr", 0>>
  <1> DEFINE w == PhdrWrites(h)
  <1>1. w \in Seq(Write) /\ Len(w) = e_phnum /\ h.e_phoff \in Nat
    BY PhdrWritesType DEF Ehdr
  <1>2. ASSUME NEW j \in 1 .. e_phnum
        PROVE  /\ w[j].at = h.e_phoff + j - 1 /\ DOMAIN w[j].cells = {1}
               /\ w[j].cells[1] = <<"phdr", 0>>
    <2>1. w[j] = PhdrWrite(h, j)
      BY DEF PhdrWrites
    <2> HIDE DEF w
    <2>2. PICK x : x = w[j]
      OBVIOUS
    <2>3. x.at = h.e_phoff + j - 1 /\ x.cells = << <<"phdr", 0>> >>
      BY <2>1, <2>2 DEF PhdrWrite
    <2> QED BY <2>2, <2>3
  <1> HIDE DEF w
  <1>3. DOMAIN w = 1 .. e_phnum
    BY <1>1
  <1>4. ASSUME NEW j \in 1 .. e_phnum
        PROVE  j \in Hits(w, k) <=> k = h.e_phoff + j
    <2>1. k - w[j].at = 1 <=> k = h.e_phoff + j
      BY <1>1, <1>2
    <2> QED BY <1>2, <1>3, <2>1 DEF Hits
  <1>5. Hits(w, k) \subseteq 1 .. e_phnum
    BY <1>3 DEF Hits
  <1>6. NoHit(w, k) <=> k \notin h.e_phoff + 1 .. h.e_phoff + e_phnum
    <2>1. ASSUME k \in h.e_phoff + 1 .. h.e_phoff + e_phnum
          PROVE  Hits(w, k) # {}
      <3>1. k - h.e_phoff \in 1 .. e_phnum /\ k = h.e_phoff + (k - h.e_phoff)
        BY <1>1, <2>1
      <3> QED BY <1>4, <3>1
    <2>2. ASSUME NEW j \in Hits(w, k)
          PROVE  k \in h.e_phoff + 1 .. h.e_phoff + e_phnum
      BY <1>1, <1>4, <1>5
    <2> QED BY <2>1, <2>2 DEF NoHit
  <1>7. ASSUME ~NoHit(w, k)
        PROVE  Seen(w, k) = <<"phdr", 0>>
    <2>1. PICK m : m = Max(Hits(w, k))
      OBVIOUS
    <2>2. m \in Hits(w, k) /\ m \in 1 .. e_phnum
      BY <1>1, <1>5, <1>7, <2>1, LastHit DEF NoHit
    <2>3. k - w[m].at = 1 /\ w[m].cells[1] = <<"phdr", 0>>
      <3>1. k = h.e_phoff + m
        BY <1>4, <2>2
      <3>2. w[m].at = h.e_phoff + m - 1 /\ w[m].cells[1] = <<"phdr", 0>>
        BY <1>2, <2>2
      <3>3. k - w[m].at = 1
        BY <1>1, <2>2, <3>1, <3>2
      <3> QED BY <3>2, <3>3
    <2>4. Seen(w, k) = w[m].cells[k - w[m].at]
      BY <1>7, <2>1 DEF Seen, NoHit
    <2> QED BY <2>3, <2>4
  <1> QED BY <1>6, <1>7 DEF w

\* A section's data end inside it.
DataFits(s) == \A k \in 1 .. Len(DataOf(s)) : DataOf(s)[k].d_off + Len(DataOf(s)[k].d_buf) <= s.s_shdr.sh_size

LEMMA DataSeen ==
  ASSUME NEW s \in Scn, DataFits(s), NEW k \in Int, ~NoHit(DataWrites(s), k)
  PROVE  /\ s.s_shdr.sh_type = "bits"
         /\ k \in s.s_shdr.sh_offset + 1 .. FileEnd(s.s_shdr)
  <1> DEFINE d == DataOf(s)
             w == DataWrites(s)
             o == s.s_shdr.sh_offset
             m == s.s_shdr.sh_size
  <1>1. /\ d \in Seq(Data) /\ w \in Seq(Write) /\ Len(w) = Len(d) /\ Len(d) \in Nat
        /\ \A j \in 1 .. Len(d) : w[j] = DataWrite(s, d[j])
    <2>1. /\ d \in Seq(Data) /\ w \in Seq(Write) /\ Len(w) = Len(d)
          /\ \A j \in 1 .. Len(d) : w[j] = DataWrite(s, d[j])
      BY DataWritesType
    <2> HIDE DEF d, w
    <2> QED BY <2>1
  <1>2. o \in Nat /\ m \in Nat
    <2>1. s.s_shdr \in Shdr
      BY DEF Scn
    <2> QED BY <2>1, ShdrFact
  <1>3. PICK j \in 1 .. Len(d) : k - w[j].at \in DOMAIN w[j].cells
    <2> HIDE DEF d, w
    <2>1. DOMAIN w = 1 .. Len(d)
      BY <1>1
    <2> QED BY <2>1 DEF NoHit, Hits, w
  <1>4. s.s_shdr.sh_type = "bits"
    <2>1. CASE d = << >>
      <3> HIDE DEF d
      <3> QED BY <1>3, <2>1
    <2>2. CASE d # << >>
      BY <2>2 DEF DataOf
    <2> QED BY <2>1, <2>2
  <1>5. PICK x, b : x = w[j] /\ b = d[j]
    OBVIOUS
  <1>6. b \in Data /\ x = DataWrite(s, b) /\ b.d_off + Len(b.d_buf) <= m
    <2>1. d[j] \in Data /\ d[j].d_off + Len(d[j].d_buf) <= m
      <3>1. d[j].d_off + Len(d[j].d_buf) <= m
        BY <1>3 DEF DataFits
      <3> HIDE DEF d, m
      <3> QED BY <1>1, <1>3, <3>1
    <2> HIDE DEF d, w, m
    <2> QED BY <1>1, <1>3, <1>5, <2>1
  <1> HIDE DEF d, w, o, m
  <1>7. /\ x.at = o + b.d_off /\ Len(x.cells) = Len(b.d_buf) /\ x.cells \in Seq(Cell)
        /\ b.d_off \in Nat /\ Len(b.d_buf) \in Nat
    <2>1. x \in Write /\ b.d_off \in Nat /\ b.d_buf \in Seq(Byte)
      BY <1>6, DataWriteFact DEF Data
    <2> QED BY <1>6, <2>1, DataWriteFact DEF Write, o
  <1>8. k - (o + b.d_off) \in 1 .. Len(b.d_buf)
    BY <1>3, <1>5, <1>7
  <1>9. k \in o + 1 .. o + m
    BY <1>2, <1>6, <1>7, <1>8
  <1>10. FileEnd(s.s_shdr) = o + m
    BY <1>4 DEF FileEnd, o, m
  <1> QED BY <1>4, <1>9, <1>10 DEF o

\* The contents are what is seen of the data in the section.
LEMMA ContentsSeen ==
  ASSUME NEW s \in Scn
  PROVE  Contents(s) = [c \in 1 .. s.s_shdr.sh_size |-> Seen(DataWrites(s), s.s_shdr.sh_offset + c)]
  <1> DEFINE d == DataOf(s)
             w == DataWrites(s)
             o == s.s_shdr.sh_offset
             m == s.s_shdr.sh_size
             v == [k \in DOMAIN d |-> [at |-> d[k].d_off, cells |-> Cells(d[k])]]
  <1>1. /\ d \in Seq(Data) /\ w \in Seq(Write) /\ Len(w) = Len(d)
        /\ \A j \in 1 .. Len(d) : w[j] = DataWrite(s, d[j])
    BY DataWritesType
  <1>2. o \in Nat /\ m \in Nat
    <2>1. s.s_shdr \in Shdr
      BY DEF Scn
    <2> QED BY <2>1, ShdrFact
  <1>3. Contents(s) = [c \in 1 .. m |-> Seen(v, c)]
    BY DEF Contents, Image, Seen, Hits
  <1> HIDE DEF d, w
  <1>4. DOMAIN v = 1 .. Len(d) /\ DOMAIN w = 1 .. Len(d)
    BY <1>1
  <1>5. ASSUME NEW j \in 1 .. Len(d)
        PROVE  /\ w[j].at = o + d[j].d_off /\ w[j].cells = Cells(d[j])
               /\ v[j].at = d[j].d_off /\ v[j].cells = Cells(d[j]) /\ d[j].d_off \in Nat
    <2>1. PICK b : b = d[j]
      OBVIOUS
    <2>2. b \in Data /\ w[j] = DataWrite(s, b)
      BY <1>1, <2>1
    <2>3. b.d_off \in Nat
      BY <2>2 DEF Data
    <2>4. w[j].at = o + b.d_off /\ w[j].cells = Cells(b)
      BY <2>2 DEF DataWrite
    <2>5. v[j] = [at |-> b.d_off, cells |-> Cells(b)]
      BY <1>4, <2>1
    <2> QED BY <2>1, <2>3, <2>4, <2>5
  <1> HIDE DEF v, o, m
  <1>6. ASSUME NEW c \in 1 .. m
        PROVE  Seen(v, c) = Seen(w, o + c)
    <2>0. PICK k : k = o + c
      OBVIOUS
    <2>1. \A j \in 1 .. Len(d) : k - w[j].at = c - v[j].at
      BY <1>2, <1>5, <2>0
    <2>2. ASSUME NEW j \in 1 .. Len(d)
          PROVE  j \in Hits(w, k) <=> j \in Hits(v, c)
      <3>1. k - w[j].at = c - v[j].at /\ w[j].cells = v[j].cells
        BY <1>5, <2>1
      <3>2. j \in Hits(w, k) <=> k - w[j].at \in DOMAIN w[j].cells
        BY <1>4 DEF Hits
      <3>3. j \in Hits(v, c) <=> c - v[j].at \in DOMAIN v[j].cells
        BY <1>4 DEF Hits
      <3> QED BY <3>1, <3>2, <3>3
    <2>3. Hits(w, k) \subseteq 1 .. Len(d) /\ Hits(v, c) \subseteq 1 .. Len(d)
      BY <1>4 DEF Hits
    <2>4. Hits(w, k) = Hits(v, c)
      BY <2>2, <2>3
    <2>5. CASE Hits(v, c) = {}
      BY <2>0, <2>4, <2>5 DEF Seen
    <2>6. CASE Hits(v, c) # {}
      <3>1. PICK n : n = Max(Hits(w, k))
        OBVIOUS
      <3>2. n \in Hits(w, k) /\ n \in 1 .. Len(d)
        BY <1>1, <2>3, <2>4, <2>6, <3>1, LastHit
      <3>3. w[n].cells[k - w[n].at] = v[n].cells[c - v[n].at]
        BY <1>5, <2>1, <3>2
      <3>4. Seen(w, k) = w[n].cells[k - w[n].at]
        BY <2>4, <2>6, <3>1 DEF Seen
      <3>5. Seen(v, c) = v[n].cells[c - v[n].at]
        BY <2>4, <2>6, <3>1 DEF Seen
      <3> QED BY <2>0, <3>3, <3>4, <3>5
    <2> QED BY <2>0, <2>5, <2>6
  <1> QED BY <1>3, <1>6 DEF w, o, m

\* Where the writes of section i go, and what is seen of them there.
LEMMA ScnSeen ==
  ASSUME NEW h \in Ehdr, NEW ss \in Seq(Scn), NEW i \in 1 .. Len(ss), i > 1 => DataFits(ss[i]), NEW k \in Int
  PROVE  LET s == ss[i]
             inside == i > 1 /\ s.s_shdr.sh_type = "bits"
                       /\ k \in s.s_shdr.sh_offset + 1 .. FileEnd(s.s_shdr)
             w == ScnWrites(h, ss, i)
         IN  /\ ~NoHit(w, k) => k = h.e_shoff + i \/ inside
             /\ k = h.e_shoff + i /\ ~inside => ~NoHit(w, k) /\ Seen(w, k) = <<"shdr", s.s_shdr>>
             /\ i > 1 /\ k # h.e_shoff + i => Seen(w, k) = Seen(DataWrites(s), k)
  <1> DEFINE s == ss[i]
             inside == i > 1 /\ s.s_shdr.sh_type = "bits"
                       /\ k \in s.s_shdr.sh_offset + 1 .. FileEnd(s.s_shdr)
             u == << ShdrWrite(h, s, i) >>
             v == IF i = 1 THEN << >> ELSE DataWrites(s)
             w == u \o v
  <1>0. s \in Scn /\ i \in Nat \ {0} /\ (i = 1 \/ i > 1) /\ ScnWrites(h, ss, i) = w
    BY DEF ScnWrites
  <1>1. u \in Seq(Write) /\ v \in Seq(Write)
    <2>1. u \in Seq(Write) /\ << >> \in Seq(Write)
      BY <1>0, ShdrWriteFact, SeenOne
    <2>2. DataWrites(s) \in Seq(Write)
      BY <1>0, DataWritesType
    <2> QED BY <2>1, <2>2
  <1>2. /\ NoHit(u, k) <=> k # h.e_shoff + i
        /\ k = h.e_shoff + i => Seen(u, k) = <<"shdr", s.s_shdr>>
    BY <1>0, ShdrSeen
  <1>3. ~NoHit(v, k) => inside
    <2>1. CASE i = 1
      BY <2>1 DEF NoHit, Hits
    <2>2. CASE i > 1
      BY <1>0, <2>2, DataSeen
    <2> QED BY <1>0, <2>1, <2>2
  <1>4. i > 1 => v = DataWrites(s)
    BY <1>0
  <1>5. /\ Seen(u \o v, k) = IF NoHit(v, k) THEN Seen(u, k) ELSE Seen(v, k)
        /\ NoHit(u \o v, k) <=> NoHit(u, k) /\ NoHit(v, k)
    <2> HIDE DEF u, v
    <2> QED BY <1>1, SeenConcat
  <1>6. (NoHit(u, k) => Seen(u, k) = Zero) /\ (NoHit(v, k) => Seen(v, k) = Zero)
    BY SeenNone
  <1> HIDE DEF u, v, inside
  <1> QED BY <1>0, <1>2, <1>3, <1>4, <1>5, <1>6 DEF inside

-----------------------------------------------------------------------------
(***************************************************************************)
(* A file that has what is in memory.                                      *)
(***************************************************************************)
Faithful ==
    /\ IsAt(file, "ehdr", 0) /\ At(file, 0) = ehdr
    /\ \A j \in 1 .. e_phnum : IsAt(file, "phdr", ehdr.e_phoff + j - 1)
    /\ \A i \in 1 .. Len(scns) :
          /\ IsAt(file, "shdr", ehdr.e_shoff + i - 1)
          /\ At(file, ehdr.e_shoff + i - 1) = scns[i].s_shdr
    /\ \A i \in 2 .. Len(scns) : scns[i].s_shdr.sh_type = "bits" =>
          /\ FileEnd(scns[i].s_shdr) <= Len(file)
          /\ SubSeq(file, scns[i].s_shdr.sh_offset + 1, FileEnd(scns[i].s_shdr)) = Contents(scns[i])

DataFit == \A i \in 2 .. Len(scns) : DataFits(scns[i])

\* The file has len cells, which have room for all of it.
Room(len) ==
    /\ len \in Nat /\ len >= 1
    /\ e_phnum > 0 => ehdr.e_phoff + e_phnum <= len
    /\ scns # << >> => ehdr.e_shoff + Len(scns) <= len
    /\ \A i \in 2 .. Len(scns) : scns[i].s_shdr.sh_type = "bits" => FileEnd(scns[i].s_shdr) <= len

WrittenOut == \E len : Room(len) /\ file = Image(Writes(ehdr, scns), len)

\* The value of each cell, as a step of the reading back.
LEMMA CellSeen ==
  ASSUME LayoutType, DataFit, TablesApart, ScnsApart
  PROVE  LET w == Writes(ehdr, scns)
         IN  /\ w \in Seq(Write)
             /\ Seen(w, 1) = <<"ehdr", ehdr>>
             /\ \A j \in 1 .. e_phnum : Seen(w, ehdr.e_phoff + j) = <<"phdr", 0>>
             /\ \A i \in 1 .. Len(scns) : Seen(w, ehdr.e_shoff + i) = <<"shdr", scns[i].s_shdr>>
             /\ \A i \in 2 .. Len(scns) : \A k \in Int : k - 1 \in ScnArea(i) =>
                   Seen(w, k) = Seen(DataWrites(scns[i]), k)
  <1> DEFINE n == Len(scns)
             E == << EhdrWrite(ehdr) >>
             ph == PhdrWrites(ehdr)
             A == E \o ph
             P == ScnParts(ehdr, scns)
             F == FlattenSeq(P)
             w == A \o F
             off == ehdr.e_shoff
  <1>0. /\ n \in Nat /\ scns \in Seq(Scn) /\ ehdr \in Ehdr /\ e_phnum \in Nat
        /\ ehdr.e_phoff \in Nat /\ off \in Nat
    BY DEF LayoutType, Ehdr
  <1>1. /\ E \in Seq(Write) /\ ph \in Seq(Write) /\ A \in Seq(Write) /\ F \in Seq(Write)
        /\ P \in Seq(Seq(Write)) /\ Len(P) = n
        /\ \A i \in 1 .. n : P[i] = ScnWrites(ehdr, scns, i)
        /\ Writes(ehdr, scns) = w /\ w \in Seq(Write)
    <2>1. E \in Seq(Write) /\ ph \in Seq(Write)
      BY <1>0, EhdrWriteFact, SeenOne, PhdrWritesType
    <2>2. A \in Seq(Write)
      <3> HIDE DEF E, ph
      <3> QED BY <2>1, HitsConcat
    <2>3. /\ F \in Seq(Write) /\ P \in Seq(Seq(Write)) /\ Len(P) = n
          /\ \A i \in 1 .. n : P[i] = ScnWrites(ehdr, scns, i)
          /\ Writes(ehdr, scns) = w
      BY <1>0, WritesParts
    <2>4. w \in Seq(Write)
      <3> HIDE DEF A, F
      <3> QED BY <2>2, <2>3, HitsConcat
    <2> QED BY <2>1, <2>2, <2>3, <2>4
  <1>2. ASSUME NEW k \in Int
        PROVE  /\ Seen(w, k) = IF NoHit(F, k) THEN Seen(A, k) ELSE Seen(F, k)
               /\ Seen(A, k) = IF NoHit(ph, k) THEN Seen(E, k) ELSE Seen(ph, k)
               /\ NoHit(A, k) <=> NoHit(E, k) /\ NoHit(ph, k)
    <2>1. /\ Seen(A, k) = IF NoHit(ph, k) THEN Seen(E, k) ELSE Seen(ph, k)
          /\ NoHit(A, k) <=> NoHit(E, k) /\ NoHit(ph, k)
      <3> HIDE DEF E, ph
      <3> QED BY <1>1, SeenConcat
    <2>2. Seen(w, k) = IF NoHit(F, k) THEN Seen(A, k) ELSE Seen(F, k)
      <3> HIDE DEF A, F
      <3> QED BY <1>1, SeenConcat
    <2> QED BY <2>1, <2>2
  <1>3. ASSUME NEW k \in Int
        PROVE  /\ NoHit(E, k) <=> k # 1
               /\ k = 1 => Seen(E, k) = <<"ehdr", ehdr>>
               /\ NoHit(ph, k) <=> k - 1 \notin PhdrArea
               /\ ~NoHit(ph, k) => Seen(ph, k) = <<"phdr", 0>>
    <2>1. k - 1 \in PhdrArea <=> k \in ehdr.e_phoff + 1 .. ehdr.e_phoff + e_phnum
      BY <1>0 DEF PhdrArea
    <2> QED BY <1>0, <2>1, EhdrSeen, PhdrSeen
  <1>4. ASSUME NEW k \in Int, NEW i \in 1 .. n
        PROVE  /\ ~NoHit(P[i], k) => k = off + i \/ k - 1 \in ScnArea(i)
               /\ k = off + i /\ k - 1 \notin ScnArea(i) =>
                     ~NoHit(P[i], k) /\ Seen(P[i], k) = <<"shdr", scns[i].s_shdr>>
               /\ i > 1 /\ k # off + i => Seen(P[i], k) = Seen(DataWrites(scns[i]), k)
    <2>1. i > 1 => DataFits(scns[i])
      BY <1>0 DEF DataFit
    <2>2. PICK o, e : o = scns[i].s_shdr.sh_offset /\ e = FileEnd(scns[i].s_shdr)
      OBVIOUS
    <2>3. o \in Nat /\ e \in Nat
      <3>1. scns[i] \in Scn
        BY <1>0
      <3>2. scns[i].s_shdr \in Shdr
        BY <3>1 DEF Scn
      <3> QED BY <2>2, <3>2, ShdrFact
    <2>4. k - 1 \in ScnArea(i) <=> i > 1 /\ scns[i].s_shdr.sh_type = "bits"
                                   /\ k \in scns[i].s_shdr.sh_offset + 1 .. FileEnd(scns[i].s_shdr)
      <3>1. k - 1 \in o .. e - 1 <=> k \in o + 1 .. e
        BY <2>3
      <3> QED BY <2>2, <3>1 DEF ScnArea
    <2> HIDE DEF P, off
    <2> QED BY <1>0, <1>1, <2>1, <2>4, ScnSeen DEF off
  <1>5. ASSUME NEW k \in Int, NEW i \in 1 .. n, k = off + i
        PROVE  k - 1 \in ShdrArea
    BY <1>0, <1>5 DEF ShdrArea
  <1> HIDE DEF E, ph, A, P, F, w, off, n
  <1>6. \A i \in 1 .. n : ScnArea(i) \cap ({0} \cup PhdrArea \cup ShdrArea) = {}
    <2>1. \A i \in 1 .. n : i \in DOMAIN scns
      BY <1>0 DEF n
    <2> QED BY <2>1 DEF TablesApart
  <1>7. ASSUME NEW k \in Int, k - 1 \in {0} \cup PhdrArea
        PROVE  NoHit(F, k)
    <2>1. ASSUME NEW i \in 1 .. n PROVE NoHit(P[i], k)
      <3>1. k - 1 \notin ScnArea(i)
        BY <1>6, <1>7
      <3>2. k # off + i
        BY <1>5, <1>7 DEF TablesApart
      <3> QED BY <1>4, <3>1, <3>2
    <2> QED BY <1>1, <2>1, NoneFlatten DEF F
  <1>8. Seen(w, 1) = <<"ehdr", ehdr>>
    <2>1. PICK k \in Int : k = 1
      OBVIOUS
    <2>2. k - 1 = 0
      BY <2>1
    <2>3. NoHit(F, k) /\ NoHit(ph, k)
      BY <1>3, <1>7, <2>2 DEF TablesApart
    <2> QED BY <1>2, <1>3, <2>1, <2>3
  <1>9. ASSUME NEW j \in 1 .. e_phnum
        PROVE  Seen(w, ehdr.e_phoff + j) = <<"phdr", 0>>
    <2>1. PICK k \in Int : k = ehdr.e_phoff + j
      BY <1>0
    <2>2. k - 1 \in PhdrArea
      BY <1>0, <2>1 DEF PhdrArea
    <2>3. NoHit(F, k) /\ ~NoHit(ph, k)
      BY <1>3, <1>7, <2>2
    <2> QED BY <1>2, <1>3, <2>1, <2>3
  <1>10. ASSUME NEW i \in 1 .. n
         PROVE  Seen(w, off + i) = <<"shdr", scns[i].s_shdr>>
    <2>1. PICK k \in Int : k = off + i
      BY <1>0
    <2>2. k - 1 \in ShdrArea
      BY <1>5, <2>1
    <2>3. \A j \in 1 .. n : k - 1 \notin ScnArea(j)
      BY <1>6, <2>2
    <2>4. ASSUME NEW j \in 1 .. n, j # i PROVE NoHit(P[j], k)
      <3>1. k # off + j
        BY <1>0, <2>1, <2>4
      <3> QED BY <1>4, <2>3, <3>1
    <2>5. Seen(F, k) = Seen(P[i], k) /\ (NoHit(F, k) <=> NoHit(P[i], k))
      BY <1>1, <2>4, SeenFlatten DEF F
    <2> QED BY <1>2, <1>4, <2>1, <2>3, <2>5
  <1>11. ASSUME NEW i \in 2 .. n, NEW k \in Int, k - 1 \in ScnArea(i)
         PROVE  Seen(w, k) = Seen(DataWrites(scns[i]), k)
    <2>0. i \in 1 .. n /\ i > 1
      BY <1>0
    <2>1. k - 1 # 0 /\ k - 1 \notin PhdrArea /\ k - 1 \notin ShdrArea
      BY <1>6, <1>11, <2>0
    <2>2. ASSUME NEW j \in 1 .. n, j # i PROVE NoHit(P[j], k)
      <3>1. k # off + j
        BY <1>5, <2>1
      <3>2. k - 1 \notin ScnArea(j)
        <4>1. i \in DOMAIN scns /\ j \in DOMAIN scns
          BY <1>0, <2>0 DEF n
        <4> QED BY <1>11, <2>2, <4>1 DEF ScnsApart
      <3> QED BY <1>4, <3>1, <3>2
    <2>3. Seen(F, k) = Seen(P[i], k) /\ (NoHit(F, k) <=> NoHit(P[i], k))
      BY <1>1, <2>0, <2>2, SeenFlatten DEF F
    <2>4. Seen(P[i], k) = Seen(DataWrites(scns[i]), k)
      <3>1. k # off + i
        BY <1>5, <2>0, <2>1
      <3> QED BY <1>4, <2>0, <3>1
    <2>5. NoHit(A, k)
      <3>1. k # 1
        BY <2>1
      <3> QED BY <1>2, <1>3, <2>1, <3>1
    <2>6. Seen(A, k) = Zero /\ (NoHit(F, k) => Seen(F, k) = Zero)
      BY <2>5, SeenNone
    <2> QED BY <1>2, <2>3, <2>4, <2>6
  <1> QED BY <1>1, <1>8, <1>9, <1>10, <1>11 DEF n, off

LEMMA SubSeqCells ==
  ASSUME NEW f \in Seq(Cell), NEW o \in Nat, NEW m \in Nat, o + m <= Len(f)
  PROVE  SubSeq(f, o + 1, o + m) = [c \in 1 .. m |-> f[o + c]]
  <1>1. PICK a, b, t : a = o + 1 /\ b = o + m /\ t = SubSeq(f, a, b)
    OBVIOUS
  <1>2. a \in Int /\ b \in Int /\ \A k \in a .. b : f[k] \in Cell
    <2>1. \A k \in a .. b : k \in 1 .. Len(f)
      BY <1>1
    <2>2. \A k \in 1 .. Len(f) : f[k] \in Cell
      OBVIOUS
    <2> QED BY <1>1, <2>1, <2>2
  <1>3. /\ t \in Seq(Cell)
        /\ Len(t) = IF a <= b THEN b - a + 1 ELSE 0
        /\ \A c \in 1 .. b - a + 1 : t[c] = f[a + c - 1]
    BY ONLY <1>1, <1>2, SubSeqProperties
  <1>4. Len(t) = m /\ b - a + 1 = m
    BY <1>1, <1>3
  <1>5. ASSUME NEW c \in 1 .. m PROVE t[c] = f[o + c]
    <2>1. a + c - 1 = o + c /\ c \in 1 .. b - a + 1
      BY <1>1, <1>4
    <2> QED BY <1>3, <2>1
  <1>6. t = [c \in 1 .. m |-> t[c]]
    BY <1>3, <1>4
  <1> QED BY <1>1, <1>5, <1>6

ReadsBackHere ==
    LayoutType /\ DataFit /\ TablesApart /\ ScnsApart /\ WrittenOut => Faithful

LEMMA ReadBack == ReadsBackHere
  <1> SUFFICES ASSUME LayoutType, DataFit, TablesApart, ScnsApart,
                      NEW len, Room(len), file = Image(Writes(ehdr, scns), len)
               PROVE  Faithful
    BY DEF ReadsBackHere, WrittenOut
  <1> DEFINE n == Len(scns)
             off == ehdr.e_shoff
  <1>0. /\ n \in Nat /\ scns \in Seq(Scn) /\ e_phnum \in Nat /\ ehdr.e_phoff \in Nat /\ off \in Nat
        /\ \A i \in 1 .. n : scns[i] \in Scn
    BY DEF LayoutType, Ehdr
  <1>1. PICK w : w = Writes(ehdr, scns)
    OBVIOUS
  <1>2. /\ w \in Seq(Write)
        /\ Seen(w, 1) = <<"ehdr", ehdr>>
        /\ \A j \in 1 .. e_phnum : Seen(w, ehdr.e_phoff + j) = <<"phdr", 0>>
        /\ \A i \in 1 .. n : Seen(w, off + i) = <<"shdr", scns[i].s_shdr>>
        /\ \A i \in 2 .. n : \A k \in Int : k - 1 \in ScnArea(i) =>
              Seen(w, k) = Seen(DataWrites(scns[i]), k)
    BY <1>1, CellSeen
  <1>3. len \in Nat /\ len >= 1
    BY DEF Room
  <1>4. /\ file \in Seq(Cell) /\ Len(file) = len /\ DOMAIN file = 1 .. len
        /\ \A k \in 1 .. len : file[k] = Seen(w, k)
    <2>1. file = [k \in 1 .. len |-> Seen(w, k)] /\ file \in Seq(Cell) /\ Len(file) = len
      BY <1>1, <1>2, <1>3, ImageFact
    <2> QED BY <2>1
  <1> HIDE DEF n, off
  <1>5. IsAt(file, "ehdr", 0) /\ At(file, 0) = ehdr
    <2>1. 1 \in 1 .. len /\ file[1] = <<"ehdr", ehdr>>
      BY <1>2, <1>3, <1>4
    <2> QED BY <1>4, <2>1 DEF IsAt, At
  <1>6. ASSUME NEW j \in 1 .. e_phnum
        PROVE  IsAt(file, "phdr", ehdr.e_phoff + j - 1)
    <2>1. PICK k : k = ehdr.e_phoff + j
      OBVIOUS
    <2>2. k \in 1 .. len /\ ehdr.e_phoff + j - 1 + 1 = k
      BY <1>0, <1>3, <2>1 DEF Room
    <2>3. file[k] = <<"phdr", 0>>
      BY <1>2, <1>4, <2>1, <2>2
    <2> QED BY <1>4, <2>2, <2>3 DEF IsAt
  <1>7. ASSUME NEW i \in 1 .. n
        PROVE  IsAt(file, "shdr", off + i - 1) /\ At(file, off + i - 1) = scns[i].s_shdr
    <2>1. PICK k : k = off + i
      OBVIOUS
    <2>2. scns # << >>
      BY <1>0 DEF n
    <2>3. off + n <= len
      BY <2>2 DEF Room, off, n
    <2>4. k \in 1 .. len /\ off + i - 1 + 1 = k
      BY <1>0, <1>3, <2>1, <2>3
    <2>5. file[k] = <<"shdr", scns[i].s_shdr>>
      BY <1>2, <1>4, <2>1, <2>4
    <2> QED BY <1>4, <2>4, <2>5 DEF IsAt, At
  <1>8. ASSUME NEW i \in 2 .. n, scns[i].s_shdr.sh_type = "bits"
        PROVE  /\ FileEnd(scns[i].s_shdr) <= Len(file)
               /\ SubSeq(file, scns[i].s_shdr.sh_offset + 1, FileEnd(scns[i].s_shdr)) = Contents(scns[i])
    <2>1. PICK s, o, m : s = scns[i] /\ o = s.s_shdr.sh_offset /\ m = s.s_shdr.sh_size
      OBVIOUS
    <2>2. /\ s \in Scn /\ o \in Nat /\ m \in Nat /\ FileEnd(s.s_shdr) = o + m
          /\ ScnArea(i) = o .. o + m - 1
      <3>1. s \in Scn /\ i > 1
        BY <1>0, <2>1
      <3>2. s.s_shdr \in Shdr
        BY <3>1 DEF Scn
      <3>3. FileEnd(s.s_shdr) = o + m
        BY <1>8, <2>1 DEF FileEnd
      <3>4. o \in Nat /\ m \in Nat
        BY <2>1, <3>2, ShdrFact
      <3>5. ScnArea(i) = o .. o + m - 1
        <4>1. ScnArea(i) = scns[i].s_shdr.sh_offset .. FileEnd(scns[i].s_shdr) - 1
          BY <1>8, <3>1 DEF ScnArea
        <4>2. scns[i].s_shdr.sh_offset = o /\ FileEnd(scns[i].s_shdr) = o + m
          BY <2>1, <3>3
        <4> QED BY ONLY <3>4, <4>1, <4>2
      <3> QED BY <3>1, <3>3, <3>4, <3>5
    <2>3. o + m <= len
      BY <1>8, <2>1, <2>2 DEF Room, n
    <2>4. ASSUME NEW c \in 1 .. m
          PROVE  file[o + c] = Seen(DataWrites(s), o + c)
      <3>1. PICK k : k = o + c
        OBVIOUS
      <3>2. k \in Int /\ k \in 1 .. len /\ k - 1 \in ScnArea(i)
        <4>1. k \in Int /\ k >= o + 1 /\ k <= o + m /\ k >= 1 /\ k - 1 \in o .. o + m - 1
          BY ONLY <2>2, <3>1, c \in 1 .. m
        <4>2. k <= len
          BY ONLY <2>2, <2>3, <4>1, len \in Nat, <1>0, <1>3 DEF Room
        <4> QED BY <2>2, <4>1, <4>2
      <3>3. file[k] = Seen(DataWrites(s), k)
        BY <1>2, <1>4, <2>1, <3>2
      <3> QED BY <3>1, <3>3
    <2>5. Contents(s) = [c \in 1 .. m |-> Seen(DataWrites(s), o + c)]
      BY <2>1, <2>2, ContentsSeen
    <2>6. SubSeq(file, o + 1, o + m) = [c \in 1 .. m |-> file[o + c]]
      BY <1>4, <2>2, <2>3, SubSeqCells
    <2>7. FileEnd(scns[i].s_shdr) <= Len(file)
      BY <1>4, <2>1, <2>2, <2>3
    <2>8. SubSeq(file, o + 1, o + m) = Contents(s)
      BY <2>4, <2>5, <2>6
    <2> QED BY <2>1, <2>2, <2>7, <2>8
  <1> QED BY <1>5, <1>6, <1>7, <1>8 DEF Faithful, n, off

LEMMA ReadBackNext == ReadsBackHere'
  BY ReadBack, PTL

-----------------------------------------------------------------------------
(***************************************************************************)
(* What a layout leaves unmarked it leaves unchanged: rewrite() sets the   *)
(* dirty flag of a header with another value, and scn_data_layout that of  *)
(* data with another offset.                                               *)
(***************************************************************************)
Marked(s, t) ==
    /\ ~t.s_flag => ~s.s_flag /\ t.s_shdr = s.s_shdr
    /\ ~t.d_flag => ~s.d_flag /\ t.s_data = s.s_data

LEMMA MarkedTwice ==
  ASSUME NEW s, NEW t, NEW u, Marked(s, t), Marked(t, u)
  PROVE  Marked(s, u)
  BY DEF Marked

LEMMA MarkedRewrite ==
  ASSUME NEW s \in Scn, NEW h \in Shdr
  PROVE  Marked(s, Rewrite(s, h))
  BY DEF Marked, Rewrite, Scn

LEMMA MarkedData ==
  ASSUME NEW s \in Scn
  PROVE  Marked(s, RewriteData(s))
  <1>1. RewriteData(s) = [s EXCEPT !.s_data = PlacedData(s.s_data),
                                   !.d_flag = s.d_flag \/ PlacedData(s.s_data) # s.s_data]
    BY DEF RewriteData
  <1> QED BY <1>1 DEF Marked, Scn

LEMMA TurnMarked ==
  ASSUME NEW at \in Turn, NEW i \in 1 .. Len(at.scns), NEW bad \in Nat
  PROVE  Marked(at.scns[i], TurnOf(at, i, bad).scns[i])
  <1>0. at.scns \in Seq(Scn) /\ i \in Nat /\ Len(at.scns) \in Nat /\ at.off \in Nat
    BY DEF Turn
  <1>1. PICK s : s = at.scns[i]
    OBVIOUS
  <1>2. s \in Scn /\ s.s_shdr \in Shdr
    <2>1. s \in Scn
      BY <1>0, <1>1
    <2> QED BY <2>1 DEF Scn
  <1>3. ASSUME TurnOf(at, i, bad).scns = at.scns
        PROVE  Marked(at.scns[i], TurnOf(at, i, bad).scns[i])
    BY <1>3 DEF Marked
  <1>4. ASSUME NEW t, NEW r, r = TurnOf(at, i, bad), r.scns = [at.scns EXCEPT ![i] = t], Marked(s, t)
        PROVE  Marked(at.scns[i], TurnOf(at, i, bad).scns[i])
    <2>1. r.scns[i] = t
      BY <1>0, <1>4
    <2> QED BY <1>1, <1>4, <2>1
  <1>5. CASE at.says # "ok"
    BY <1>3, <1>5 DEF TurnOf
  <1>6. CASE at.says = "ok" /\ i = 1
    <2>1. TurnOf(at, i, bad) = PlaceFirst(at)
      BY <1>6 DEF TurnOf, PlaceScn
    <2>2. CASE ~Layout
      BY <1>3, <2>1, <2>2 DEF PlaceFirst
    <2>3. CASE Layout
      <3>1. PICK t, r : t = Rewrite(s, FirstHeader(s.s_shdr)) /\ r = PlaceFirst(at)
        OBVIOUS
      <3>2. r.scns = [at.scns EXCEPT ![i] = t]
        BY <1>1, <1>6, <2>3, <3>1 DEF PlaceFirst, FirstHeader, Turn
      <3>3. FirstHeader(s.s_shdr) \in Shdr
        BY <1>2 DEF FirstHeader, Shdr
      <3>4. Marked(s, t)
        BY <1>2, <3>1, <3>3, MarkedRewrite
      <3> QED BY <1>4, <2>1, <3>1, <3>2, <3>4
    <2> QED BY <2>2, <2>3
  <1>7. CASE at.says = "ok" /\ i # 1
    <2> DEFINE null == s.s_shdr.sh_type = "null"
               lost == scns[i].s_null \/ (i = bad /\ s.s_data # << >>)
    <2>1. CASE null
      BY <1>1, <1>3, <1>7, <2>1 DEF TurnOf, PlaceScn
    <2>2. CASE ~null /\ lost
      <3>1. TurnOf(at, i, bad) = [at EXCEPT !.says = "bad"]
        BY <1>1, <1>7, <2>2 DEF TurnOf, PlaceScn
      <3>2. TurnOf(at, i, bad).scns = at.scns
        BY <3>1 DEF Turn
      <3> QED BY <1>3, <3>2
    <2>3. CASE ~null /\ ~lost /\ Layout
      <3>1. TurnOf(at, i, bad) = PlaceByLibrary(at, i)
        BY <1>1, <1>7, <2>3 DEF TurnOf, PlaceScn
      <3>2. PICK h : h = LibHeader(s, at.off)
        OBVIOUS
      <3>3. PICK t, r : t = Rewrite(RewriteData(s), h) /\ r = PlaceByLibrary(at, i)
        OBVIOUS
      <3>4. h \in Shdr /\ RewriteData(s) \in Scn
        BY <1>0, <1>2, <3>2, LibHeaderFact, RewriteDataFact
      <3>5. Marked(s, t)
        <4>1. Marked(s, RewriteData(s)) /\ Marked(RewriteData(s), t)
          BY <1>2, <3>3, <3>4, MarkedData, MarkedRewrite
        <4> QED BY <4>1, MarkedTwice
      <3>6. r.scns = [at.scns EXCEPT ![i] = t]
        BY <1>0, <1>1, <3>2, <3>3 DEF PlaceByLibrary, LibHeader, LibOffset, Turn
      <3> QED BY <1>4, <3>1, <3>3, <3>5, <3>6
    <2>4. CASE ~null /\ ~lost /\ ~Layout
      <3>1. TurnOf(at, i, bad) = PlaceByProgram(at, i)
        BY <1>1, <1>7, <2>4 DEF TurnOf, PlaceScn
      <3>2. PlaceByProgram(at, i).scns = at.scns
        BY <1>7, PlaceByProgramFact
      <3> QED BY <1>3, <3>1, <3>2
    <2> QED BY <2>1, <2>2, <2>3, <2>4
  <1> QED BY <1>5, <1>6, <1>7

LEMMA FirstMarked ==
  ASSUME LayoutType, scns # << >>
  PROVE  Marked(scns[1], AfterPhdrs.scns[1])
  <1>1. PICK s : s = scns[1]
    OBVIOUS
  <1>2. 1 \in 1 .. Len(scns) /\ s \in Scn /\ s.s_shdr \in Shdr
    <2>1. 1 \in 1 .. Len(scns) /\ s \in Scn
      BY <1>1 DEF LayoutType
    <2> QED BY <2>1 DEF Scn
  <1>3. CASE e_phnum >= PnXnum
    <2>1. PICK h : h = ExtendedPhnum(s.s_shdr)
      OBVIOUS
    <2>2. h \in Shdr
      BY <1>2, <2>1, ExtendedPhnumFact DEF LayoutType
    <2>3. AfterPhdrs.scns[1] = Rewrite(s, h)
      BY <1>1, <1>2, <1>3, <2>1 DEF AfterPhdrs, LayoutType
    <2> QED BY <1>1, <1>2, <2>2, <2>3, MarkedRewrite
  <1>4. CASE ~(e_phnum >= PnXnum)
    BY <1>4 DEF AfterPhdrs, Marked
  <1> QED BY <1>3, <1>4

LEMMA CountMarked ==
  ASSUME LayoutType, NEW at \in Turn, Len(at.scns) = Len(scns), NEW j \in 1 .. Len(scns)
  PROVE  Marked(at.scns[j], ExtendedShnum(at)[j])
  <1>0. Len(scns) \in Nat /\ at.scns \in Seq(Scn)
    BY DEF LayoutType, Turn
  <1>1. PICK s : s = at.scns[1]
    OBVIOUS
  <1>2. 1 \in 1 .. Len(scns) /\ s \in Scn /\ s.s_shdr \in Shdr
    <2>1. 1 \in 1 .. Len(scns) /\ s \in Scn
      BY <1>0, <1>1
    <2> QED BY <2>1 DEF Scn
  <1>3. CASE Len(scns) >= LoReserve /\ j = 1
    <2>1. PICK h : h = CountedHeader(s.s_shdr)
      OBVIOUS
    <2>2. h \in Shdr
      BY <1>0, <1>2, <2>1 DEF CountedHeader, Shdr
    <2>3. ExtendedShnum(at)[j] = Rewrite(s, h)
      BY <1>0, <1>1, <1>2, <1>3, <2>1 DEF ExtendedShnum, CountedHeader
    <2> QED BY <1>1, <1>2, <1>3, <2>2, <2>3, MarkedRewrite
  <1>4. CASE ~(Len(scns) >= LoReserve)
    BY <1>4 DEF ExtendedShnum, Marked
  <1>5. CASE j # 1
    <2>1. ExtendedShnum(at)[j] = at.scns[j]
      BY <1>0, <1>5, ExtendedShnumFact
    <2> QED BY <2>1 DEF Marked
  <1> QED BY <1>3, <1>4, <1>5

LEMMA LaidMarked ==
  ASSUME LayoutType, NEW bad \in Nat, NEW j \in 1 .. Len(scns)
  PROVE  Marked(scns[j], Laid(bad).scns[j])
  <1> DEFINE n == Len(scns)
             T == Turns(bad)
             at == AfterScns(bad)
  <1>0. n \in Nat /\ n \in 0 .. n /\ scns \in Seq(Scn) /\ scns # << >>
    BY DEF LayoutType
  <1>1. at \in Turn /\ Len(at.scns) = n /\ at = T[n] /\ Looped(bad)
    BY LaidType, LoopFact DEF AfterScns
  <1>2. at.scns[j] = T[j].scns[j]
    BY <1>0, <1>1 DEF Looped
  <1>3. T[j] = TurnOf(T[j - 1], j, bad) /\ T[0] = AfterPhdrs
    BY <1>0, ScnTurn DEF ScnTurns
  <1>4. T[j - 1] \in Turn /\ Len(T[j - 1].scns) = n
    <2>1. j - 1 \in 0 .. n
      BY <1>0
    <2> QED BY <1>1, <2>1 DEF Looped
  <1>5. Marked(scns[j], T[j - 1].scns[j])
    <2>1. CASE j = 1
      <3>1. j - 1 = 0
        BY <2>1
      <3> HIDE DEF T
      <3> QED BY <1>0, <1>3, <2>1, <3>1, FirstMarked
    <2>2. CASE j # 1
      <3>1. j \in 2 .. n /\ j - 1 \in 0 .. n /\ j > j - 1
        BY <1>0, <2>2
      <3>2. T[j - 1].scns[j] = scns[j]
        BY <1>1, <3>1 DEF Looped
      <3> QED BY <3>2 DEF Marked
    <2> QED BY <2>1, <2>2
  <1> HIDE DEF T
  <1>6. Marked(T[j - 1].scns[j], T[j].scns[j])
    BY <1>3, <1>4, TurnMarked
  <1>7. Marked(scns[j], at.scns[j])
    BY <1>2, <1>5, <1>6, MarkedTwice
  <1> HIDE DEF at
  <1>8. CASE at.says # "ok"
    <2>1. Laid(bad).scns = at.scns
      BY <1>8 DEF Laid, at
    <2> QED BY <1>7, <2>1
  <1>9. CASE at.says = "ok"
    <2>1. Laid(bad).scns = ExtendedShnum(at)
      BY <1>9 DEF Laid, at
    <2>2. Marked(at.scns[j], ExtendedShnum(at)[j])
      BY <1>1, CountMarked
    <2> QED BY <1>7, <2>1, <2>2, MarkedTwice
  <1> QED BY <1>8, <1>9

(***************************************************************************)
(* The number of program headers past the escape value stays in the first  *)
(* section.                                                                *)
(***************************************************************************)
Escaped == e_phnum >= PnXnum => scns[1].s_shdr.sh_info = e_phnum

LEMMA LaidEscaped ==
  ASSUME LayoutType, Escaped, NEW bad \in Nat, e_phnum >= PnXnum
  PROVE  Laid(bad).scns[1].s_shdr.sh_info = e_phnum
  <1> DEFINE at == AfterScns(bad)
  <1>0. scns # << >> /\ scns \in Seq(Scn) /\ e_phnum \in Nat
    BY DEF LayoutType
  <1>1. scns[1] \in Scn /\ scns[1].s_shdr \in Shdr
    <2>1. scns[1] \in Scn
      BY <1>0
    <2> QED BY <2>1 DEF Scn
  <1>2. PICK h : h = FirstOf(scns)
    OBVIOUS
  <1>3. h \in Shdr /\ h.sh_info = e_phnum
    <2>1. h = ExtendedPhnum(scns[1].s_shdr)
      BY <1>2 DEF FirstOf
    <2>2. PICK g : g = scns[1].s_shdr
      OBVIOUS
    <2>3. g \in Shdr /\ g.sh_info = e_phnum
      BY <1>1, <2>2 DEF Escaped
    <2>4. h \in Shdr
      BY <1>0, <2>1, <2>2, <2>3, ExtendedPhnumFact
    <2>5. h.sh_info = e_phnum
      BY <1>0, <2>1, <2>2, <2>3 DEF ExtendedPhnum, Shdr
    <2> QED BY <2>4, <2>5
  <1>4. at.scns[1].s_shdr.sh_info = e_phnum
    <2>1. at.scns[1].s_shdr = IF Layout THEN FirstHeader(h) ELSE h
      BY <1>0, <1>2, FirstStep
    <2>2. FirstHeader(h).sh_info = h.sh_info
      BY <1>3 DEF FirstHeader, Shdr
    <2> QED BY <1>3, <2>1, <2>2
  <1>5. at \in Turn /\ Len(at.scns) = Len(scns)
    BY LaidType
  <1> HIDE DEF at
  <1>6. CASE at.says # "ok"
    BY <1>4, <1>6 DEF Laid, at
  <1>7. CASE at.says = "ok"
    <2>1. Laid(bad).scns = ExtendedShnum(at)
      BY <1>7 DEF Laid, at
    <2>2. PICK g : g = at.scns[1].s_shdr
      OBVIOUS
    <2>3. ExtendedShnum(at)[1].s_shdr = IF Len(scns) >= LoReserve THEN CountedHeader(g) ELSE g
      BY <1>0, <1>5, <2>2, ExtendedShnumFact
    <2>4. g \in Shdr
      <3>1. at.scns \in Seq(Scn) /\ 1 \in 1 .. Len(at.scns)
        BY <1>0, <1>5 DEF Turn
      <3>2. at.scns[1] \in Scn
        BY <3>1
      <3> QED BY <2>2, <3>2 DEF Scn
    <2>5. CountedHeader(g).sh_info = g.sh_info
      BY <2>4 DEF CountedHeader, Shdr
    <2> QED BY <1>4, <2>1, <2>2, <2>3, <2>5
  <1> QED BY <1>6, <1>7

-----------------------------------------------------------------------------
(***************************************************************************)
(* What a layout that succeeded has room for: the tables and contents lie  *)
(* inside the length it returns, and the data inside their sections.       *)
(***************************************************************************)
LEMMA LaidRoom ==
  ASSUME LayoutType, Laid(0).says = "ok"
  PROVE  LET l == Laid(0)
         IN  /\ l.end \in Nat /\ l.end >= 1
             /\ e_phnum > 0 => l.ehdr.e_phoff + e_phnum <= l.end
             /\ scns # << >> => l.ehdr.e_shoff + Len(scns) <= l.end
             /\ \A i \in 2 .. Len(scns) :
                   l.scns[i].s_shdr.sh_type = "bits" => FileEnd(l.scns[i].s_shdr) <= l.end
  <1>1. PICK l, at : l = Laid(0) /\ at = AfterScns(0)
    OBVIOUS
  <1>2. /\ at \in Turn /\ at.says = "ok" /\ at.off \in Nat \ {0} /\ Shoff(at) \in Nat
        /\ l.ehdr.e_phoff = Phoff /\ l.ehdr.e_shoff = Shoff(at)
        /\ \A j \in 2 .. Len(scns) : l.scns[j] = at.scns[j]
        /\ l.end \in Nat /\ l.end >= at.off
        /\ scns # << >> => l.end >= Shoff(at) + Len(scns)
    BY <1>1, LaidFact
  <1>3. ASSUME e_phnum > 0
        PROVE  l.ehdr.e_phoff + e_phnum <= l.end
    <2>1. /\ AfterPhdrs.off >= Phoff + e_phnum /\ AfterPhdrs.off \in Nat
      BY <1>3, AfterPhdrsFact DEF Turn
    <2>2. AfterPhdrs.off <= at.off
      <3>1. Looped(0) /\ ScnTurns /\ Len(scns) \in Nat /\ 0 \in Nat
        BY ScnTurn, LoopFact DEF LayoutType
      <3>2. 0 \in 0 .. Len(scns) /\ Len(scns) \in 0 .. Len(scns)
        BY <3>1
      <3>3. Turns(0)[0] = AfterPhdrs
        BY <3>1 DEF ScnTurns
      <3>4. Turns(0)[0].off <= Turns(0)[Len(scns)].off
        BY <3>1, <3>2 DEF Looped
      <3> QED BY <1>1, <3>3, <3>4 DEF AfterScns
    <2>3. Phoff \in Nat /\ e_phnum \in Nat
      BY PhoffFact DEF LayoutType
    <2> QED BY <1>2, <2>1, <2>2, <2>3
  <1>4. ASSUME NEW i \in 2 .. Len(scns), l.scns[i].s_shdr.sh_type = "bits"
        PROVE  FileEnd(l.scns[i].s_shdr) <= l.end
    <2>1. PICK r, s, p : r = Turns(0)[i] /\ s = scns[i] /\ p = Turns(0)[i - 1]
      OBVIOUS
    <2>2. at.says = "ok" /\ AfterScns(0).says = "ok"
      BY <1>1, <1>2
    <2>3. /\ r \in Turn /\ at.scns[i] = r.scns[i] /\ r.off <= at.off
          /\ (s.s_shdr.sh_type = "null" => r = p) /\ p.scns[i] = s
          /\ Layout /\ s.s_shdr.sh_type # "null" =>
                /\ r.scns[i].s_shdr = LibHeader(s, p.off)
                /\ r.off = FileEnd(LibHeader(s, p.off))
          /\ ~Layout => r.scns[i] = s
          /\ ~Layout /\ s.s_shdr.sh_type # "null" => r.off >= FileEnd(s.s_shdr)
      BY <1>1, <2>1, <2>2, ScnStep
    <2>4. l.scns[i] = r.scns[i]
      BY <1>2, <2>3
    <2>5. s.s_shdr.sh_type # "null"
      BY <1>4, <2>3, <2>4
    <2>6. FileEnd(l.scns[i].s_shdr) <= r.off
      <3>1. r.off \in Nat
        BY <2>3 DEF Turn
      <3>2. CASE Layout
        BY <2>3, <2>4, <2>5, <3>1, <3>2
      <3>3. CASE ~Layout
        <4>1. FileEnd(s.s_shdr) \in Nat
          <5>1. s \in Scn
            BY <2>1 DEF LayoutType
          <5> QED BY <5>1, ShdrFact DEF Scn
        <4> QED BY <2>3, <2>4, <2>5, <3>1, <3>3, <4>1
      <3> QED BY <3>2, <3>3
    <2>7. FileEnd(l.scns[i].s_shdr) \in Nat /\ r.off \in Nat
      <3>1. l.scns[i] \in Scn
        <4>1. r.scns \in Seq(Scn) /\ Len(r.scns) = Len(scns)
          <5>1. i \in 0 .. Len(scns) /\ Looped(0)
            BY LoopFact DEF LayoutType
          <5> QED BY <2>1, <2>3, <5>1 DEF Looped, Turn
        <4>2. i \in 1 .. Len(r.scns)
          BY <4>1
        <4> QED BY <2>4, <4>1, <4>2
      <3> QED BY <2>3, <3>1, ShdrFact DEF Scn, Turn
    <2> QED BY <1>2, <2>3, <2>6, <2>7
  <1> QED BY <1>1, <1>2, <1>3, <1>4

LEMMA LaidFits ==
  ASSUME LayoutType, DataTyped, Laid(0).says = "ok", NEW i \in 2 .. Len(scns)
  PROVE  DataFits(Laid(0).scns[i])
  <1>1. PICK t, s : t = Laid(0).scns[i] /\ s = scns[i]
    OBVIOUS
  <1>2. PICK r, p : r = Turns(0)[i] /\ p = Turns(0)[i - 1]
    OBVIOUS
  <1>3. PICK d : d = s.s_data
    OBVIOUS
  <1>4. s \in Scn /\ d \in Seq(Data) /\ Len(d) \in Nat /\ i \in 1 .. Len(scns)
    <2>1. s \in Scn /\ i \in 1 .. Len(scns)
      BY <1>1 DEF LayoutType
    <2> QED BY <1>3, <2>1 DEF Scn
  <1>5. AfterScns(0).says = "ok" /\ t = r.scns[i]
    <2>1. AfterScns(0).says = "ok" /\ t = AfterScns(0).scns[i]
      BY <1>1, LaidFact
    <2> QED BY <1>2, <2>1, ScnStep
  <1>6. /\ (s.s_shdr.sh_type = "null" => r = p) /\ p.scns[i] = s /\ p.off \in Nat
        /\ Layout /\ s.s_shdr.sh_type # "null" =>
              /\ r.scns[i].s_shdr = LibHeader(s, p.off)
              /\ r.scns[i].s_data = PlacedData(d)
        /\ ~Layout => r.scns[i] = s
        /\ ~Layout /\ s.s_shdr.sh_type # "null" => DataEnd(d)[Len(d)] <= s.s_shdr.sh_size
    BY <1>1, <1>2, <1>3, <1>5, ScnStep DEF Turn
  <1>7. CASE t.s_shdr.sh_type # "bits"
    BY <1>1, <1>7 DEF DataFits, DataOf
  <1>8. CASE t.s_shdr.sh_type = "bits"
    <2>1. s.s_shdr.sh_type # "null"
      BY <1>5, <1>6, <1>8
    <2>2. t.s_data = PlacedData(d)
      <3>1. CASE Layout
        BY <1>5, <1>6, <2>1, <3>1
      <3>2. CASE ~Layout
        <4>1. PlacedData(d) = [k \in 1 .. Len(d) |-> d[k]]
          BY <3>2 DEF PlacedData
        <4>2. d = [k \in 1 .. Len(d) |-> d[k]]
          BY <1>4
        <4> QED BY <1>3, <1>5, <1>6, <3>2, <4>1, <4>2
      <3> QED BY <3>1, <3>2
    <2>3. DataEnd(d)[Len(d)] <= t.s_shdr.sh_size
      <3>1. DataEnd(d)[Len(d)] \in Nat
        BY <1>4, DataEndType
      <3>2. CASE Layout
        <4>1. LibHeader(s, p.off).sh_size = DataEnd(d)[Len(d)]
          BY <1>3, <1>4, <1>6, LibHeaderFact
        <4> QED BY <1>5, <1>6, <2>1, <3>1, <3>2, <4>1
      <3>3. CASE ~Layout
        BY <1>5, <1>6, <2>1, <3>3
      <3> QED BY <3>2, <3>3
    <2>4. t.s_shdr.sh_size \in Nat
      <3>1. Laid(0).scns \in Seq(Scn) /\ Len(Laid(0).scns) = Len(scns)
        BY LaidFact
      <3>2. t \in Scn
        BY <1>1, <1>4, <3>1
      <3> QED BY <3>2, ShdrFact DEF Scn
    <2>5. ASSUME NEW k \in 1 .. Len(t.s_data)
          PROVE  t.s_data[k].d_off + Len(t.s_data[k].d_buf) <= t.s_shdr.sh_size
      <3>1. PICK e : e = PlacedData(d)[k]
        OBVIOUS
      <3>2. Len(PlacedData(d)) = Len(d) /\ k \in 1 .. Len(d) /\ PlacedData(d) \in Seq(Data)
        <4>1. Len(PlacedData(d)) = Len(d) /\ PlacedData(d) \in Seq(Data)
          BY <1>4, PlacedFact
        <4> QED BY <2>2, <4>1
      <3>3. e \in Data /\ e.d_buf = d[k].d_buf
        BY <1>4, <3>1, <3>2, PlacedFact
      <3>4. Len(d[k].d_buf) \in {0, d[k].d_size} /\ d[k].d_size \in Nat
        BY <1>1, <1>3, <1>4, <3>2, DataFact DEF DataTyped
      <3>5. e.d_off + d[k].d_size <= DataEnd(d)[k] /\ DataEnd(d)[k] <= DataEnd(d)[Len(d)]
            /\ DataEnd(d)[k] \in Nat /\ DataEnd(d)[Len(d)] \in Nat
        <4>1. k \in 0 .. Len(d) /\ Len(d) \in 0 .. Len(d)
          BY <1>4, <3>2
        <4> QED BY <1>4, <3>1, <3>2, <4>1, DataEndStep, DataInside, DataEndType
      <3>6. e.d_off \in Nat
        BY <3>3 DEF Data
      <3>7. PICK o, b, size, end, all, room :
               /\ o = e.d_off /\ b = Len(d[k].d_buf) /\ size = d[k].d_size
               /\ end = DataEnd(d)[k] /\ all = DataEnd(d)[Len(d)] /\ room = t.s_shdr.sh_size
        OBVIOUS
      <3>8. b \in {0, size} /\ size \in Nat /\ o \in Nat /\ end \in Nat /\ all \in Nat /\ room \in Nat
            /\ o + size <= end /\ end <= all /\ all <= room
        BY <2>3, <2>4, <3>4, <3>5, <3>6, <3>7
      <3>9. o + b <= room
        BY ONLY <3>8
      <3>10. t.s_data[k].d_off = o /\ Len(t.s_data[k].d_buf) = b
        BY <2>2, <3>1, <3>3, <3>7
      <3> QED BY <3>7, <3>9, <3>10
    <2> QED BY <1>1, <1>8, <2>5 DEF DataFits, DataOf
  <1> QED BY <1>7, <1>8

-----------------------------------------------------------------------------
(***************************************************************************)
(* A descriptor without a dirty flag, since whose last full write no call  *)
(* was made that marks nothing, is in memory what its file holds: the next *)
(* elf_update need not write it.                                           *)
(***************************************************************************)
Unflagged(ss) ==
    /\ \A i \in 1 .. Len(ss) : ~ss[i].s_flag
    /\ \A i \in 2 .. Len(ss) : ss[i].s_shdr.sh_type # "null" => ~ss[i].d_flag

Clean ==
    /\ e_ehdr /\ unmarked = {}
    /\ "DIRTY" \notin e_elf_flags /\ ~e_ehdr_flags /\ ~e_phdr_flags
    /\ Unflagged(scns)

CleanIsFaithful == Clean /\ TablesApart /\ ScnsApart => Faithful

SavedIsClean == stage = "saved" /\ unmarked = {} => Clean

FileInv == Inv /\ CleanIsFaithful /\ SavedIsClean /\ Escaped

\* What elf_update and the calls that set flags alone leave as it is.
SameForFile ==
    /\ file' = file /\ ehdr' = ehdr /\ e_phnum' = e_phnum
    /\ scns' \in Seq(Scn) /\ Len(scns') = Len(scns)
    /\ \A i \in 1 .. Len(scns) : scns'[i].s_shdr = scns[i].s_shdr
    /\ \A i \in 2 .. Len(scns) : scns[i].s_shdr.sh_type = "bits" => scns'[i].s_data = scns[i].s_data

LEMMA FaithfulFrame ==
  ASSUME LayoutType, SameForFile, TablesApart /\ ScnsApart => Faithful
  PROVE  (TablesApart /\ ScnsApart => Faithful)'
  <1>0. /\ scns \in Seq(Scn) /\ Len(scns) \in Nat /\ DOMAIN scns = 1 .. Len(scns)
        /\ DOMAIN scns' = 1 .. Len(scns) /\ (scns' = << >> <=> scns = << >>)
        /\ 2 .. Len(scns) \subseteq 1 .. Len(scns)
    <2>1. scns \in Seq(Scn) /\ scns' \in Seq(Scn) /\ Len(scns') = Len(scns)
      BY DEF LayoutType, SameForFile
    <2> QED BY <2>1
  <1>1. \A i \in 1 .. Len(scns) : ScnArea(i)' = ScnArea(i)
    BY DEF SameForFile, ScnArea
  <1>2. PhdrArea' = PhdrArea /\ ShdrArea' = ShdrArea
    BY DEF SameForFile, PhdrArea, ShdrArea
  <1>3. TablesApart' <=> TablesApart
    BY <1>0, <1>1, <1>2 DEF SameForFile, TablesApart
  <1>4. ScnsApart' <=> ScnsApart
    BY <1>0, <1>1 DEF ScnsApart
  <1>5. ASSUME Faithful PROVE Faithful'
    <2>1. ASSUME NEW i \in 2 .. Len(scns), scns[i].s_shdr.sh_type = "bits"
          PROVE  Contents(scns'[i]) = Contents(scns[i])
      <3>1. scns'[i].s_shdr = scns[i].s_shdr /\ scns'[i].s_data = scns[i].s_data
        BY <1>0, <2>1 DEF SameForFile
      <3>2. DataOf(scns'[i]) = DataOf(scns[i])
        BY <3>1 DEF DataOf
      <3> QED BY <3>1, <3>2 DEF Contents
    <2>2. ASSUME NEW i \in 2 .. Len(scns'), scns'[i].s_shdr.sh_type = "bits"
          PROVE  /\ FileEnd(scns'[i].s_shdr) <= Len(file')
                 /\ SubSeq(file', scns'[i].s_shdr.sh_offset + 1, FileEnd(scns'[i].s_shdr)) = Contents(scns'[i])
      <3>1. i \in 2 .. Len(scns) /\ scns'[i].s_shdr = scns[i].s_shdr /\ file' = file
        BY <1>0, <2>2 DEF SameForFile
      <3> QED BY <1>5, <2>1, <2>2, <3>1 DEF Faithful
    <2>3. ASSUME NEW i \in 1 .. Len(scns')
          PROVE  /\ IsAt(file', "shdr", ehdr'.e_shoff + i - 1)
                 /\ At(file', ehdr'.e_shoff + i - 1) = scns'[i].s_shdr
      BY <1>5, <2>3 DEF Faithful, SameForFile
    <2>4. /\ IsAt(file', "ehdr", 0) /\ At(file', 0) = ehdr'
          /\ \A j \in 1 .. e_phnum' : IsAt(file', "phdr", ehdr'.e_phoff + j - 1)
      BY <1>5 DEF Faithful, SameForFile
    <2> QED BY <2>2, <2>3, <2>4 DEF Faithful
  <1> QED BY <1>3, <1>4, <1>5

LEMMA CleanFrame ==
  ASSUME LayoutType, SameForFile, CleanIsFaithful, Clean' => Clean
  PROVE  CleanIsFaithful'
  <1> SUFFICES ASSUME Clean, TablesApart', ScnsApart' PROVE Faithful'
    BY DEF CleanIsFaithful
  <1>1. TablesApart /\ ScnsApart => Faithful
    BY DEF CleanIsFaithful
  <1> QED BY <1>1, FaithfulFrame

LEMMA EhdrCell ==
  ASSUME NEW f \in Seq(Cell), IsAt(f, "ehdr", 0)
  PROVE  At(f, 0) \in Ehdr
  <1>1. PICK c : c = f[1]
    OBVIOUS
  <1>2. c \in Cell /\ c[1] = "ehdr" /\ At(f, 0) = c[2]
    BY <1>1 DEF IsAt, At
  <1> QED BY <1>2 DEF Cell

(***************************************************************************)
(* A file that is read is in memory as it is, also when memory runs out    *)
(* half-way: only what is there is compared.                               *)
(***************************************************************************)
LEMMA CookFaithful ==
  ASSUME TypeInv, Cook
  PROVE  Faithful' /\ Escaped'
  <1>1. /\ e_readable /\ ~e_ehdr /\ ehdr' = At(file, 0) /\ file' = file
        /\ scns' \in {<< >>, CookedScns(file)}
        /\ e_phnum' \in {0, CookedPhnum(file)}
        /\ e_phnum' # 0 => scns' = CookedScns(file) /\ e_phnum' = CookedPhnum(file)
    BY DEF Cook
  <1>2. WellFormed(file)
    BY <1>1, StoredAssumption DEF TypeInv, BeforeHeader
  <1>3. PICK n, off : n = CookedShnum(file) /\ off = At(file, 0).e_shoff
    OBVIOUS
  <1>4. /\ file \in Seq(Cell) /\ IsAt(file, "ehdr", 0) /\ n \in Nat
        /\ CookedPhnum(file) \in Nat
        /\ \A j \in 1 .. CookedPhnum(file) : IsAt(file, "phdr", At(file, 0).e_phoff + j - 1)
    BY <1>2, <1>3 DEF WellFormed
  <1>5. /\ CookedScns(file) \in Seq(Scn) /\ Len(CookedScns(file)) = n
        /\ \A i \in 1 .. n : CookedScns(file)[i] = CookedScn(file, i)
    BY <1>2, <1>3, <1>4 DEF WellFormed, CookedScns
  <1>6. ASSUME NEW i \in 1 .. n
        PROVE  /\ CookedScn(file, i).s_shdr = At(file, off + i - 1)
               /\ CookedScn(file, i).s_shdr \in Shdr
               /\ IsAt(file, "shdr", off + i - 1)
    <2>1. CookedScn(file, i) \in Scn
      BY <1>5
    <2> QED BY <1>2, <1>3, <2>1 DEF CookedScn, Scn, WellFormed
  <1>7. ASSUME NEW i \in 2 .. n, CookedScn(file, i).s_shdr.sh_type = "bits"
        PROVE  LET s == CookedScn(file, i)
               IN  /\ FileEnd(s.s_shdr) <= Len(file)
                   /\ SubSeq(file, s.s_shdr.sh_offset + 1, FileEnd(s.s_shdr)) = Contents(s)
    <2>0. i \in 1 .. n /\ i > 1
      BY <1>4
    <2>1. PICK s, h, o, m : s = CookedScn(file, i) /\ h = s.s_shdr /\ o = h.sh_offset /\ m = h.sh_size
      OBVIOUS
    <2>2. h \in Shdr /\ o \in Nat /\ m \in Nat /\ FileEnd(h) = o + m /\ h.sh_type = "bits"
      BY <1>6, <1>7, <2>0, <2>1, ShdrFact DEF FileEnd
    <2>3. o + m <= Len(file) /\ \A k \in o .. o + m - 1 : IsAt(file, "data", k)
      <3>1. /\ FileEnd(h) <= Len(file)
            /\ \A k \in h.sh_offset .. FileEnd(h) - 1 : IsAt(file, "data", k)
        BY <1>2, <1>3, <2>0, <2>1, <2>2 DEF WellFormed
      <3> QED BY <2>1, <2>2, <3>1
    <2>4. ASSUME NEW c \in 1 .. m
          PROVE  o + c \in 1 .. Len(file) /\ file[o + c] = <<"data", At(file, o + c - 1)>>
      <3>1. PICK k : k = o + c
        OBVIOUS
      <3>2. k \in 1 .. Len(file) /\ k - 1 \in o .. o + m - 1 /\ o + c - 1 + 1 = k /\ k - 1 + 1 = k
        BY <1>4, <2>2, <2>3, <3>1
      <3>3. PICK x : x = file[k]
        OBVIOUS
      <3>4. x \in Cell
        BY <1>4, <3>2, <3>3
      <3>5. x[1] = "data"
        <4>1. IsAt(file, "data", k - 1)
          BY <2>3, <3>2
        <4> QED BY <3>2, <3>3, <4>1 DEF IsAt
      <3>6. x = <<"data", x[2]>>
        BY <3>4, <3>5 DEF Cell
      <3>7. At(file, o + c - 1) = x[2]
        BY <3>2, <3>3 DEF At
      <3> QED BY <3>1, <3>2, <3>3, <3>6, <3>7
    <2>5. PICK b : b = [c \in 1 .. m |-> At(file, o + c - 1)]
      OBVIOUS
    <2>6. PICK d : d = [d_off |-> 0, d_align |-> h.sh_addralign, d_size |-> m, d_buf |-> b]
      OBVIOUS
    <2>7. s \in Scn /\ s.s_data = << d >> /\ DataOf(s) = << d >>
      <3>1. s \in Scn
        BY <1>5, <2>0, <2>1
      <3>2. At(file, At(file, 0).e_shoff + i - 1) = h
        BY <1>3, <1>6, <2>0, <2>1
      <3>3. CookedBuf(file, h) = b
        BY <2>1, <2>2, <2>5 DEF CookedBuf
      <3>4. s.s_data = << d >>
        BY <2>1, <2>6, <3>2, <3>3 DEF CookedScn
      <3> QED BY <2>1, <2>2, <3>1, <3>4 DEF DataOf
    <2>8. Contents(s) = [c \in 1 .. m |-> Seen(DataWrites(s), o + c)]
      BY <2>1, <2>7, ContentsSeen
    <2>9. PICK x : x = DataWrite(s, d)
      OBVIOUS
    <2>10. DataWrites(s) = << x >> /\ x \in Write /\ x.at = o /\ x.cells = [c \in 1 .. m |-> <<"data", b[c]>>]
      <3>1. DataWrites(s) = [k \in 1 .. 1 |-> DataWrite(s, << d >>[k])]
        BY <2>7 DEF DataWrites
      <3>2. DataWrites(s) = << x >>
        BY <2>9, <3>1
      <3>3. x \in Write
        <4>1. DataWrites(s) \in Seq(Write)
          BY <2>7, DataWritesType
        <4> QED BY <3>2, <4>1
      <3>4. x.at = o + 0 /\ x.cells = [c \in DOMAIN b |-> <<"data", b[c]>>]
        BY <2>1, <2>6, <2>9 DEF DataWrite, Cells
      <3> QED BY <2>2, <2>5, <3>2, <3>3, <3>4
    <2>11. ASSUME NEW c \in 1 .. m
           PROVE  Seen(DataWrites(s), o + c) = file[o + c]
      <3>1. PICK k : k = o + c
        OBVIOUS
      <3>2. k - x.at = c
        BY <2>2, <2>10, <3>1
      <3>3. Seen(<< x >>, k) = x.cells[c]
        BY <2>10, <3>2, SeenOne
      <3>4. x.cells[c] = <<"data", At(file, o + c - 1)>>
        BY <2>5, <2>10
      <3> QED BY <2>4, <2>10, <3>1, <3>3, <3>4
    <2>12. SubSeq(file, o + 1, o + m) = [c \in 1 .. m |-> file[o + c]]
      BY <1>4, <2>2, <2>3, SubSeqCells
    <2>13. SubSeq(file, o + 1, o + m) = Contents(s)
      BY <2>8, <2>11, <2>12
    <2> QED BY <2>1, <2>2, <2>3, <2>13
  <1>8. scns' \in Seq(Scn) /\ Len(scns') \in {0, n} /\ \A i \in 1 .. Len(scns') : scns'[i] = CookedScn(file, i)
    <2>1. CASE scns' = << >>
      BY <2>1
    <2>2. CASE scns' = CookedScns(file)
      BY <1>5, <2>2
    <2> QED BY <1>1, <2>1, <2>2
  <1>9. Faithful'
    <2>1. IsAt(file', "ehdr", 0) /\ At(file', 0) = ehdr'
      BY <1>1, <1>4
    <2>2. \A j \in 1 .. e_phnum' : IsAt(file', "phdr", ehdr'.e_phoff + j - 1)
      <3>1. CASE e_phnum' = 0
        BY <3>1
      <3>2. CASE e_phnum' = CookedPhnum(file)
        BY <1>1, <1>4, <3>2
      <3> QED BY <1>1, <3>1, <3>2
    <2>3. ASSUME NEW i \in 1 .. Len(scns')
          PROVE  /\ IsAt(file', "shdr", ehdr'.e_shoff + i - 1)
                 /\ At(file', ehdr'.e_shoff + i - 1) = scns'[i].s_shdr
      <3>1. i \in 1 .. n
        BY <1>4, <1>8
      <3> QED BY <1>1, <1>3, <1>6, <1>8, <3>1
    <2>4. ASSUME NEW i \in 2 .. Len(scns'), scns'[i].s_shdr.sh_type = "bits"
          PROVE  /\ FileEnd(scns'[i].s_shdr) <= Len(file')
                 /\ SubSeq(file', scns'[i].s_shdr.sh_offset + 1, FileEnd(scns'[i].s_shdr)) = Contents(scns'[i])
      <3>1. i \in 2 .. n /\ i \in 1 .. Len(scns')
        BY <1>4, <1>8
      <3> QED BY <1>1, <1>7, <1>8, <2>4, <3>1
    <2> QED BY <2>1, <2>2, <2>3, <2>4 DEF Faithful
  <1>10. Escaped'
    <2>1. SUFFICES ASSUME e_phnum' >= PnXnum PROVE scns'[1].s_shdr.sh_info = e_phnum'
      BY DEF Escaped
    <2>2. PnXnum \in Nat \ {0}
      BY Constants
    <2>3. e_phnum' # 0 /\ scns' = CookedScns(file) /\ e_phnum' = CookedPhnum(file)
      BY <1>1, <2>1, <2>2
    <2>4. CookedScns(file) # << >> /\ At(file, 0).e_phnum <= PnXnum
      BY <1>2, <2>1, <2>3 DEF WellFormed
    <2>5. 1 \in 1 .. n /\ off + 1 - 1 = off
      <3>1. n # 0
        BY <1>5, <2>4
      <3>2. off \in Nat
        <4>1. At(file, 0) \in Ehdr
          BY <1>4, EhdrCell
        <4> QED BY <1>3, <4>1 DEF Ehdr
      <3> QED BY <1>4, <3>1, <3>2
    <2>6. scns'[1].s_shdr = At(file, off)
      BY <1>5, <1>6, <2>3, <2>5
    <2>7. CookedPhnum(file) = At(file, off).sh_info
      <3>1. At(file, 0) \in Ehdr
        BY <1>4, EhdrCell
      <3>2. PICK h : h = At(file, 0)
        OBVIOUS
      <3>3. h.e_phnum \in Nat
        BY <3>1, <3>2 DEF Ehdr
      <3>4. CookedPhnum(file) = IF h.e_phoff = 0 THEN 0
                                ELSE IF h.e_phnum # PnXnum THEN h.e_phnum ELSE At(file, off).sh_info
        BY <1>3, <3>2 DEF CookedPhnum
      <3> QED BY <2>1, <2>2, <2>3, <2>4, <3>2, <3>3, <3>4
    <2> QED BY <2>3, <2>6, <2>7
  <1> QED BY <1>9, <1>10

(***************************************************************************)
(* elf_update that writes: the flags are cleared, and what was written is  *)
(* what is in memory then.                                                 *)
(***************************************************************************)
LEMMA CleanedScns ==
  ASSUME TypeInv, Cleaned(Laid(0))
  PROVE  LET ss == Laid(0).scns
         IN  /\ ss \in Seq(Scn) /\ scns' \in Seq(Scn)
             /\ Len(ss) = Len(scns) /\ Len(scns') = Len(scns) /\ Len(scns) \in Nat
             /\ \A i \in 1 .. Len(scns) :
                   /\ scns'[i].s_shdr = ss[i].s_shdr /\ scns'[i].s_data = ss[i].s_data
                   /\ ~scns'[i].s_flag /\ ~scns'[i].d_flag
  <1>1. PICK ss : ss = Laid(0).scns
    OBVIOUS
  <1>2. /\ ss \in Seq(Scn) /\ Len(ss) = Len(scns) /\ DOMAIN ss = 1 .. Len(scns) /\ Len(scns) \in Nat
    <2>1. 0 \in Nat
      OBVIOUS
    <2>2. ss \in Seq(Scn) /\ Len(ss) = Len(scns)
      BY <1>1, <2>1, LaidParts
    <2> QED BY <2>2
  <1>3. scns' = [i \in 1 .. Len(scns) |-> [ss[i] EXCEPT !.s_flag = FALSE, !.d_flag = FALSE]]
    BY <1>1, <1>2 DEF Cleaned
  <1>4. ASSUME NEW i \in 1 .. Len(scns)
        PROVE  /\ scns'[i] \in Scn
               /\ scns'[i].s_shdr = ss[i].s_shdr /\ scns'[i].s_data = ss[i].s_data
               /\ ~scns'[i].s_flag /\ ~scns'[i].d_flag
    <2>1. PICK s : s = ss[i]
      OBVIOUS
    <2>2. s \in Scn
      BY <1>2, <2>1
    <2>3. scns'[i] = [s EXCEPT !.s_flag = FALSE, !.d_flag = FALSE]
      BY <1>3, <2>1
    <2> QED BY <2>1, <2>2, <2>3 DEF Scn
  <1>5. scns' \in Seq(Scn) /\ Len(scns') = Len(scns)
    <2>1. DOMAIN scns' = 1 .. Len(scns) /\ scns' \in [1 .. Len(scns) -> Scn]
      BY <1>3, <1>4
    <2> QED BY <1>2, <2>1, SeqDef
  <1> QED BY <1>1, <1>2, <1>4, <1>5

LEMMA WritesSame ==
  ASSUME TypeInv, Cleaned(Laid(0))
  PROVE  Writes(ehdr, scns)' = Writes(Laid(0).ehdr, Laid(0).scns)
  <1>1. PICK h, ss : h = Laid(0).ehdr /\ ss = Laid(0).scns
    OBVIOUS
  <1>2. /\ h \in Ehdr /\ ehdr' = h /\ e_phnum' = e_phnum /\ e_phnum \in Nat
    <2>1. 0 \in Nat
      OBVIOUS
    <2>2. h \in Ehdr
      BY <1>1, <2>1, LaidParts
    <2> QED BY <1>1, <2>2, TypeParts DEF Cleaned, LayoutType
  <1>3. /\ ss \in Seq(Scn) /\ Len(ss) = Len(scns) /\ Len(scns') = Len(ss)
        /\ \A i \in 1 .. Len(ss) : scns'[i].s_shdr = ss[i].s_shdr /\ scns'[i].s_data = ss[i].s_data
    BY <1>1, CleanedScns
  <1>4. PICK tt : tt = scns'
    OBVIOUS
  <1>5. ASSUME NEW i \in 1 .. Len(ss)
        PROVE  ScnWrites(h, tt, i) = ScnWrites(h, ss, i)
    <2>1. PICK s, t : s = ss[i] /\ t = tt[i]
      OBVIOUS
    <2>2. t.s_shdr = s.s_shdr /\ DataOf(t) = DataOf(s)
      BY <1>3, <1>4, <2>1 DEF DataOf
    <2>3. DataWrites(t) = DataWrites(s) /\ ShdrWrite(h, t, i) = ShdrWrite(h, s, i)
      BY <2>2 DEF DataWrites, DataWrite, ShdrWrite
    <2> QED BY <2>1, <2>3 DEF ScnWrites
  <1>6. ScnParts(h, tt) = ScnParts(h, ss)
    BY <1>3, <1>4, <1>5 DEF ScnParts
  <1>7. Writes(ehdr, scns)' = << EhdrWrite(h) >> \o PhdrWrites(h) \o FlattenSeq(ScnParts(h, tt))
    BY <1>2, <1>4 DEF Writes, EhdrWrite, PhdrWrite, ShdrWrite, DataWrite, PhdrWrites, DataWrites,
       ScnWrites, ScnParts
  <1>8. Writes(h, ss) = << EhdrWrite(h) >> \o PhdrWrites(h) \o FlattenSeq(ScnParts(h, ss))
    BY <1>2, <1>3, WritesParts
  <1> QED BY <1>1, <1>6, <1>7, <1>8

LEMMA WriteFaithful ==
  ASSUME TypeInv, TypeInv', e_ehdr, Laid(0).says = "ok",
         UpdateWrites(Laid(0), Writes(Laid(0).ehdr, Laid(0).scns))
  PROVE  CleanIsFaithful' /\ Clean'
  <1>1. PICK l, w : l = Laid(0) /\ w = Writes(l.ehdr, l.scns)
    OBVIOUS
  <1>2. /\ Cleaned(l) /\ file' = Image(w, l.end) /\ unmarked' = {}
    BY <1>1 DEF UpdateWrites
  <1>3. LayoutType /\ LayoutType' /\ DataTyped
    <2>1. LayoutType'
      BY DEF TypeInv, TypeOK, LayoutType
    <2> QED BY <2>1, TypeParts DEF TypeInv
  <1>4. /\ ehdr' = l.ehdr /\ e_phnum' = e_phnum
        /\ "DIRTY" \notin e_elf_flags' /\ e_ehdr_flags' = FALSE /\ e_phdr_flags' = FALSE
    BY <1>2 DEF Cleaned
  <1>5. /\ scns' \in Seq(Scn) /\ Len(scns') = Len(scns) /\ Len(scns) \in Nat
        /\ \A i \in 1 .. Len(scns) :
              /\ scns'[i].s_shdr = l.scns[i].s_shdr /\ scns'[i].s_data = l.scns[i].s_data
              /\ ~scns'[i].s_flag /\ ~scns'[i].d_flag
    BY <1>1, <1>2, CleanedScns
  <1>6. Clean'
    <2>1. Unflagged(scns')
      BY <1>5 DEF Unflagged
    <2>2. e_ehdr'
      BY <1>2 DEF Cleaned
    <2> QED BY <1>2, <1>4, <2>1, <2>2 DEF Clean
  <1>7. DataFit'
    <2>1. SUFFICES ASSUME NEW i \in 2 .. Len(scns') PROVE DataFits(scns'[i])
      BY DEF DataFit
    <2>2. i \in 2 .. Len(scns) /\ i \in 1 .. Len(scns)
      BY <1>5
    <2>3. DataFits(l.scns[i])
      BY <1>1, <1>3, <2>2, LaidFits
    <2>4. DataOf(scns'[i]) = DataOf(l.scns[i]) /\ scns'[i].s_shdr = l.scns[i].s_shdr
      BY <1>5, <2>2 DEF DataOf
    <2> QED BY <2>3, <2>4 DEF DataFits
  <1>8. Room(l.end)'
    <2>1. /\ l.end \in Nat /\ l.end >= 1
          /\ e_phnum > 0 => l.ehdr.e_phoff + e_phnum <= l.end
          /\ scns # << >> => l.ehdr.e_shoff + Len(scns) <= l.end
          /\ \A i \in 2 .. Len(scns) :
                l.scns[i].s_shdr.sh_type = "bits" => FileEnd(l.scns[i].s_shdr) <= l.end
      BY <1>1, <1>3, LaidRoom
    <2>2. scns' # << >> => scns # << >>
      BY <1>3, <1>5 DEF LayoutType
    <2>3. \A i \in 2 .. Len(scns') :
             scns'[i].s_shdr.sh_type = "bits" => FileEnd(scns'[i].s_shdr) <= l.end
      <3>1. SUFFICES ASSUME NEW i \in 2 .. Len(scns'), scns'[i].s_shdr.sh_type = "bits"
                     PROVE  FileEnd(scns'[i].s_shdr) <= l.end
        OBVIOUS
      <3>2. i \in 2 .. Len(scns) /\ i \in 1 .. Len(scns)
        BY <1>5
      <3>3. scns'[i].s_shdr = l.scns[i].s_shdr
        BY <1>5, <3>2
      <3> QED BY <2>1, <3>1, <3>2, <3>3
    <2> QED BY <1>4, <1>5, <2>1, <2>2, <2>3 DEF Room
  <1>9. WrittenOut'
    <2>1. Writes(ehdr, scns)' = w
      BY <1>1, <1>2, WritesSame
    <2>2. file' = Image(Writes(ehdr, scns)', l.end)
      BY <1>2, <2>1
    <2> QED BY <1>8, <2>2 DEF WrittenOut
  <1>10. (TablesApart /\ ScnsApart => Faithful)'
    BY <1>3, <1>7, <1>9, ReadBackNext DEF ReadsBackHere
  <1> QED BY <1>6, <1>10 DEF CleanIsFaithful

(***************************************************************************)
(* elf_update that leaves the file, and keeps what the layout marked.      *)
(***************************************************************************)
LEMMA KeepsClean ==
  ASSUME TypeInv, e_ehdr, NEW bad \in Nat, Keeps(Laid(bad)), file' = file, unmarked' = unmarked,
         CleanIsFaithful
  PROVE  CleanIsFaithful'
  <1>1. PICK l : l = Laid(bad)
    OBVIOUS
  <1>2. /\ ehdr' = l.ehdr /\ scns' = l.scns /\ e_phnum' = e_phnum /\ e_elf_flags' = e_elf_flags
        /\ e_ehdr_flags' = (e_ehdr_flags \/ l.ehdr # ehdr) /\ e_phdr_flags' = e_phdr_flags
    BY <1>1 DEF Keeps
  <1>3. /\ l.scns \in Seq(Scn) /\ Len(l.scns) = Len(scns) /\ LayoutType
        /\ Len(scns) \in Nat
    <2>1. LayoutType /\ l.scns \in Seq(Scn) /\ Len(l.scns) = Len(scns)
      BY <1>1, TypeParts, LaidParts
    <2> QED BY <2>1 DEF LayoutType
  <1>4. \A i \in 1 .. Len(scns) : Marked(scns[i], l.scns[i])
    BY <1>1, <1>3, LaidMarked
  <1> SUFFICES ASSUME Clean', TablesApart', ScnsApart' PROVE Faithful'
    BY DEF CleanIsFaithful
  <1>5. ehdr' = ehdr /\ ~e_ehdr_flags /\ ~e_phdr_flags /\ "DIRTY" \notin e_elf_flags /\ unmarked = {}
    BY <1>2 DEF Clean
  <1>6. ASSUME NEW i \in 1 .. Len(scns)
        PROVE  ~scns[i].s_flag /\ scns'[i].s_shdr = scns[i].s_shdr
    <2>1. ~l.scns[i].s_flag
      BY <1>2, <1>3 DEF Clean, Unflagged
    <2> QED BY <1>2, <1>4, <2>1 DEF Marked
  <1>7. ASSUME NEW i \in 2 .. Len(scns), scns[i].s_shdr.sh_type # "null"
        PROVE  ~scns[i].d_flag /\ scns'[i].s_data = scns[i].s_data
    <2>1. i \in 1 .. Len(scns)
      BY <1>3
    <2>2. scns'[i].s_shdr.sh_type # "null"
      BY <1>6, <1>7, <2>1
    <2>3. ~l.scns[i].d_flag
      BY <1>2, <1>3, <2>2 DEF Clean, Unflagged
    <2> QED BY <1>2, <1>4, <2>1, <2>3 DEF Marked
  <1>8. SameForFile
    <2>1. \A i \in 2 .. Len(scns) : scns[i].s_shdr.sh_type = "bits" => scns'[i].s_data = scns[i].s_data
      BY <1>7
    <2> QED BY <1>2, <1>3, <1>5, <1>6, <2>1 DEF SameForFile
  <1>9. Clean
    <2>1. Unflagged(scns)
      BY <1>6, <1>7 DEF Unflagged
    <2> QED BY <1>5, <2>1 DEF Clean
  <1>10. (TablesApart /\ ScnsApart => Faithful)'
    BY <1>3, <1>8, <1>9, FaithfulFrame DEF CleanIsFaithful
  <1> QED BY <1>10

\* A layout that succeeded and marked nothing.
LEMMA SkipsClean ==
  ASSUME TypeInv, e_ehdr, UpdateSkips(Laid(0)), unmarked' = {}
  PROVE  Clean'
  <1>1. PICK l : l = Laid(0)
    OBVIOUS
  <1>2. /\ ~DirtyAfter(l) /\ ehdr' = l.ehdr /\ scns' = l.scns /\ e_elf_flags' = e_elf_flags
        /\ e_ehdr_flags' = (e_ehdr_flags \/ l.ehdr # ehdr) /\ e_phdr_flags' = e_phdr_flags
        /\ e_ehdr' = e_ehdr
    BY <1>1 DEF UpdateSkips, Keeps
  <1>3. l.scns \in Seq(Scn) /\ Len(l.scns) \in Nat /\ DOMAIN l.scns = 1 .. Len(l.scns)
    <2>1. 0 \in Nat
      OBVIOUS
    <2>2. l.scns \in Seq(Scn)
      BY <1>1, <2>1, LaidParts
    <2> QED BY <2>2
  <1>4. /\ ("DIRTY" \in e_elf_flags) # TRUE /\ e_phdr_flags # TRUE
        /\ e_ehdr_flags # TRUE /\ (l.ehdr # ehdr) # TRUE
        /\ TRUE \notin {s.s_flag : s \in Range(l.scns)}
        /\ TRUE \notin {l.scns[i].d_flag : i \in {j \in 2 .. Len(l.scns) :
                                                     l.scns[j].s_shdr.sh_type # "null"}}
    BY <1>2 DEF DirtyAfter
  <1>5. e_phdr_flags \in BOOLEAN /\ e_ehdr_flags \in BOOLEAN
    BY TypeParts
  <1>6. ASSUME NEW i \in 1 .. Len(l.scns)
        PROVE  ~l.scns[i].s_flag
    <2>1. l.scns[i] \in Range(l.scns)
      BY <1>3 DEF Range
    <2>2. l.scns[i].s_flag \in BOOLEAN
      <3>1. l.scns[i] \in Scn
        BY <1>3
      <3> QED BY <3>1 DEF Scn
    <2> QED BY <1>4, <2>1, <2>2
  <1>7. ASSUME NEW i \in 2 .. Len(l.scns), l.scns[i].s_shdr.sh_type # "null"
        PROVE  ~l.scns[i].d_flag
    <2>1. l.scns[i].d_flag \in BOOLEAN
      <3>1. i \in 1 .. Len(l.scns)
        BY <1>3
      <3>2. l.scns[i] \in Scn
        BY <1>3, <3>1
      <3> QED BY <3>2 DEF Scn
    <2> QED BY <1>4, <1>7, <2>1
  <1>8. Unflagged(scns')
    BY <1>2, <1>6, <1>7 DEF Unflagged
  <1> QED BY <1>2, <1>4, <1>5, <1>8 DEF Clean

\* An elf_update that had something to write and failed.
LEMMA FailsDirty ==
  ASSUME TypeInv, MustWrite(Laid(0)), Keeps(Laid(0))
  PROVE  ~Clean'
  <1>1. PICK l : l = Laid(0)
    OBVIOUS
  <1>2. /\ DirtyAfter(l) /\ ehdr' = l.ehdr /\ scns' = l.scns /\ e_elf_flags' = e_elf_flags
        /\ e_ehdr_flags' = (e_ehdr_flags \/ l.ehdr # ehdr) /\ e_phdr_flags' = e_phdr_flags
    BY <1>1 DEF MustWrite, Keeps
  <1>3. l.scns \in Seq(Scn) /\ Len(l.scns) \in Nat /\ DOMAIN l.scns = 1 .. Len(l.scns)
    <2>1. 0 \in Nat
      OBVIOUS
    <2>2. l.scns \in Seq(Scn)
      BY <1>1, <2>1, LaidParts
    <2> QED BY <2>2
  <1> SUFFICES ASSUME Clean' PROVE FALSE
    OBVIOUS
  <1>4. /\ "DIRTY" \notin e_elf_flags /\ ~e_phdr_flags /\ ~e_ehdr_flags /\ l.ehdr = ehdr
        /\ Unflagged(l.scns)
    BY <1>2 DEF Clean
  <1>5. TRUE \notin {s.s_flag : s \in Range(l.scns)}
    <2>1. SUFFICES ASSUME NEW s \in Range(l.scns), s.s_flag = TRUE PROVE FALSE
      OBVIOUS
    <2>2. PICK i \in 1 .. Len(l.scns) : s = l.scns[i]
      BY <1>3 DEF Range
    <2> QED BY <1>4, <2>1, <2>2 DEF Unflagged
  <1>6. TRUE \notin {l.scns[i].d_flag : i \in {j \in 2 .. Len(l.scns) :
                                                  l.scns[j].s_shdr.sh_type # "null"}}
    BY <1>4 DEF Unflagged
  <1>7. e_phdr_flags \in BOOLEAN /\ e_ehdr_flags \in BOOLEAN
    BY TypeParts
  <1> QED BY <1>2, <1>4, <1>5, <1>6, <1>7 DEF DirtyAfter

-----------------------------------------------------------------------------
(***************************************************************************)
(* The edits: all but one mark what they change, or are counted as calls   *)
(* that do not.  The exception is data of a section without a type, which  *)
(* is not written.                                                         *)
(***************************************************************************)
Dirties == ~Clean'

FirstKept == e_phnum' = e_phnum /\ (e_phnum >= PnXnum => scns'[1].s_shdr.sh_info = scns[1].s_shdr.sh_info)

LEMMA KeptEscaped ==
  ASSUME Escaped, FirstKept
  PROVE  Escaped'
  BY DEF Escaped, FirstKept

LEMMA RemoveKeepsFirst ==
  ASSUME NEW S, NEW ss \in Seq(S), NEW i \in 2 .. Len(ss)
  PROVE  RemoveAt(ss, i)[1] = ss[1]
  <1>1. PICK n, m : n = Len(ss) /\ m = i - 1
    OBVIOUS
  <1>2. n \in Nat /\ i \in 2 .. n /\ m \in Nat /\ m >= 1 /\ m <= n /\ i + 1 \in Int
    BY <1>1
  <1>3. PICK a, b : a = SubSeq(ss, 1, m) /\ b = SubSeq(ss, i + 1, n)
    OBVIOUS
  <1>4. a \in Seq(S) /\ Len(a) = m /\ a[1] = ss[1]
    <2>1. 1 \in Int /\ m \in Int /\ \A j \in 1 .. m : ss[j] \in S
      BY <1>1, <1>2
    <2>2. /\ a \in Seq(S) /\ Len(a) = IF 1 <= m THEN m - 1 + 1 ELSE 0
          /\ \A j \in 1 .. m - 1 + 1 : a[j] = ss[1 + j - 1]
      BY ONLY <1>3, <2>1, SubSeqProperties
    <2> QED BY <1>2, <2>2
  <1>5. b \in Seq(S)
    <2>1. PICK k : k = i + 1
      OBVIOUS
    <2>2. k \in Int /\ n \in Int /\ \A j \in k .. n : ss[j] \in S
      BY <1>1, <1>2, <2>1
    <2> QED BY ONLY <1>3, <2>1, <2>2, SubSeqProperties
  <1>6. RemoveAt(ss, i) = a \o b
    BY <1>1, <1>3 DEF RemoveAt
  <1>7. (a \o b)[1] = a[1]
    BY <1>2, <1>4, <1>5, ConcatProperties
  <1> QED BY <1>4, <1>6, <1>7

LEMMA InsertKeepsFirst ==
  ASSUME NEW S, NEW ss \in Seq(S), NEW i \in 2 .. Len(ss) + 1, NEW e \in S
  PROVE  InsertAt(ss, i, e)[1] = ss[1]
  <1>1. PICK n, m : n = Len(ss) /\ m = i - 1
    OBVIOUS
  <1>2. n \in Nat /\ i \in 2 .. n + 1 /\ m \in Nat /\ m >= 1 /\ m <= n
    BY <1>1
  <1>3. PICK a, b, c : a = SubSeq(ss, 1, m) /\ b = SubSeq(ss, i, n) /\ c = << e >>
    OBVIOUS
  <1>4. a \in Seq(S) /\ Len(a) = m /\ a[1] = ss[1]
    <2>1. 1 \in Int /\ m \in Int /\ \A j \in 1 .. m : ss[j] \in S
      BY <1>1, <1>2
    <2>2. /\ a \in Seq(S) /\ Len(a) = IF 1 <= m THEN m - 1 + 1 ELSE 0
          /\ \A j \in 1 .. m - 1 + 1 : a[j] = ss[1 + j - 1]
      BY ONLY <1>3, <2>1, SubSeqProperties
    <2> QED BY <1>2, <2>2
  <1>5. b \in Seq(S) /\ c \in Seq(S) /\ Len(c) = 1
    <2>1. i \in Int /\ n \in Int /\ \A j \in i .. n : ss[j] \in S
      BY <1>1, <1>2
    <2>2. b \in Seq(S)
      BY ONLY <1>3, <2>1, SubSeqProperties
    <2> QED BY <1>3, <2>2
  <1>6. InsertAt(ss, i, e) = a \o c \o b
    BY <1>1, <1>3 DEF InsertAt
  <1>7. a \o c \in Seq(S) /\ Len(a \o c) = m + 1 /\ (a \o c)[1] = a[1]
    <2>1. /\ a \o c \in Seq(S) /\ Len(a \o c) = Len(a) + Len(c)
          /\ \A j \in 1 .. Len(a) + Len(c) : (a \o c)[j] = IF j <= Len(a) THEN a[j] ELSE c[j - Len(a)]
      BY ONLY <1>4, <1>5, ConcatProperties
    <2>2. Len(a) + Len(c) = m + 1 /\ 1 \in 1 .. m + 1 /\ 1 <= Len(a)
      BY <1>2, <1>4, <1>5
    <2> QED BY <2>1, <2>2
  <1>8. PICK d : d = a \o c
    OBVIOUS
  <1>9. (d \o b)[1] = d[1]
    BY <1>2, <1>5, <1>7, <1>8, ConcatProperties
  <1> QED BY <1>4, <1>6, <1>7, <1>8, <1>9

LEMMA CountDirties ==
  ASSUME TypeInv, Escaped, NEW ss, ss \in Seq(TypedScn), Len(ss) >= 1, UpdateShnum(ss),
         e_phnum >= PnXnum => ss[1] = scns[1]
  PROVE  Dirties /\ Escaped'
  <1>1. /\ scns' = Counted(ss) /\ e_ehdr_flags' = TRUE /\ e_phnum' = e_phnum
    BY DEF UpdateShnum
  <1>2. Dirties
    BY <1>1 DEF Dirties, Clean
  <1>3. PICK s, size : s = ss[1] /\ size = IF Len(ss) >= LoReserve THEN Len(ss) ELSE 0
    OBVIOUS
  <1>4. 1 \in 1 .. Len(ss) /\ s \in Scn
    <2>1. 1 \in 1 .. Len(ss)
      OBVIOUS
    <2>2. s \in TypedScn
      BY <1>3, <2>1
    <2> QED BY <2>1, <2>2, TypedIsScn
  <1>5. PICK t : t = [s EXCEPT !.s_flag = TRUE, !.s_shdr.sh_size = size]
    OBVIOUS
  <1>6. t.s_shdr.sh_info = s.s_shdr.sh_info
    BY <1>4, <1>5 DEF Scn, Shdr
  <1>7. scns'[1] = t
    <2>1. Counted(ss) = [ss EXCEPT ![1] = t]
      BY <1>3, <1>5 DEF Counted
    <2> QED BY <1>1, <1>4, <2>1
  <1>8. FirstKept
    BY <1>1, <1>3, <1>6, <1>7 DEF FirstKept
  <1> QED BY <1>2, <1>8, KeptEscaped

LEMMA FileNewscn ==
  ASSUME TypeInv, Escaped, elf_newscn
  PROVE  Dirties /\ Escaped'
  <1>1. FirstScn \in Seq(TypedScn) /\ Len(FirstScn) >= 1
    BY TypeParts, FirstScnFact
  <1>2. e_phnum >= PnXnum => FirstScn = scns
    BY TypeParts DEF FirstScn, LayoutType
  <1> HIDE DEF FirstScn
  <1>3. PICK ss : ss = Append(FirstScn, NewScn)
    OBVIOUS
  <1>4. ss \in Seq(TypedScn) /\ Len(ss) = Len(FirstScn) + 1 /\ ss[1] = FirstScn[1] /\ Len(ss) >= 1
    <2>1. /\ ss \in Seq(TypedScn) /\ Len(ss) = Len(FirstScn) + 1
          /\ \A j \in 1 .. Len(FirstScn) : ss[j] = FirstScn[j]
      BY <1>1, <1>3, NewScnTyped, AppendProperties
    <2> QED BY <1>1, <2>1
  <1>5. UpdateShnum(ss) \/ UpdateShnum(FirstScn)
    BY <1>3 DEF elf_newscn
  <1>6. (e_phnum >= PnXnum => ss[1] = scns[1]) /\ (e_phnum >= PnXnum => FirstScn[1] = scns[1])
    BY <1>2, <1>4
  <1> QED BY <1>1, <1>4, <1>5, <1>6, CountDirties

LEMMA FileRemscn ==
  ASSUME TypeInv, Escaped, elfx_remscn
  PROVE  Dirties /\ Escaped'
  <1>1. PICK i \in 2 .. Len(scns) : UpdateShnum(RemoveAt(scns, i))
    BY DEF elfx_remscn
  <1>2. PICK ss : ss = RemoveAt(scns, i)
    OBVIOUS
  <1>3. ss \in Seq(TypedScn) /\ Len(ss) >= 1 /\ ss[1] = scns[1]
    <2>1. i \in 1 .. Len(scns) /\ scns \in Seq(TypedScn)
      BY TypeParts
    <2>2. ss \in Seq(TypedScn) /\ Len(ss) = Len(scns) - 1
      BY <1>2, <2>1, RemoveAtFact
    <2>3. ss[1] = scns[1]
      BY <1>2, <2>1, RemoveKeepsFirst
    <2> QED BY <2>1, <2>2, <2>3
  <1> QED BY <1>1, <1>2, <1>3, CountDirties

LEMMA FileNewphdr ==
  ASSUME TypeInv, elf_newphdr
  PROVE  Dirties /\ Escaped'
  <1> DEFINE ss == IF scns = << >> THEN Counted(FirstScn) ELSE scns
             info(count) == IF count >= PnXnum THEN count ELSE 0
  <1>1. PICK count \in PhCounts[e_class] :
           /\ e_phnum' = count
           /\ scns' = [ss EXCEPT ![1] = [@ EXCEPT !.s_flag = TRUE, !.s_shdr.sh_info = info(count)]]
    BY DEF elf_newphdr
  <1>2. ss \in Seq(TypedScn) /\ Len(ss) >= 1
    <2>1. CASE scns = << >>
      <3>1. FirstScn \in Seq(TypedScn) /\ Len(FirstScn) >= 1
        BY TypeParts, FirstScnFact
      <3>2. Counted(FirstScn) \in Seq(TypedScn) /\ Len(Counted(FirstScn)) = Len(FirstScn)
        BY <3>1, CountedFact
      <3> QED BY <2>1, <3>1, <3>2
    <2>2. CASE scns # << >>
      BY <2>2, TypeParts
    <2> QED BY <2>1, <2>2
  <1>3. Dirties
    BY DEF elf_newphdr, Dirties, Clean
  <1>4. Escaped'
    <2>1. PICK s, c : s = ss[1] /\ c = info(count)
      OBVIOUS
    <2>2. 1 \in 1 .. Len(ss) /\ s \in Scn
      <3>1. 1 \in 1 .. Len(ss)
        BY <1>2
      <3>2. s \in TypedScn
        BY <1>2, <2>1, <3>1
      <3> QED BY <3>1, <3>2, TypedIsScn
    <2>3. PICK t : t = [s EXCEPT !.s_flag = TRUE, !.s_shdr.sh_info = c]
      OBVIOUS
    <2>4. t.s_shdr.sh_info = c
      BY <2>2, <2>3 DEF Scn, Shdr
    <2>5. scns'[1] = t
      <3>1. scns' = [ss EXCEPT ![1] = t]
        BY <1>1, <2>1, <2>3
      <3> HIDE DEF ss
      <3> QED BY <1>2, <2>2, <3>1
    <2>6. c = IF e_phnum' >= PnXnum THEN e_phnum' ELSE 0
      BY <1>1, <2>1
    <2> QED BY <2>4, <2>5, <2>6 DEF Escaped
  <1> QED BY <1>3, <1>4

LEMMA FileNewdata ==
  ASSUME TypeInv, Escaped, CleanIsFaithful, elf_newdata
  PROVE  CleanIsFaithful' /\ Escaped'
  <1>1. PICK i \in 2 .. Len(scns), d \in Blocks[e_class] :
           scns' = [scns EXCEPT ![i].s_data = Append(@, d), ![i].d_flag = TRUE]
    BY DEF elf_newdata
  <1>2. /\ file' = file /\ e_ehdr' = e_ehdr /\ ehdr' = ehdr /\ e_phnum' = e_phnum
        /\ e_elf_flags' = e_elf_flags
        /\ e_ehdr_flags' = e_ehdr_flags /\ e_phdr_flags' = e_phdr_flags /\ unmarked' = unmarked
    BY DEF elf_newdata, Edits, dirt
  <1>3. PICK s, t : s = scns[i] /\ t = [s EXCEPT !.s_data = Append(@, d), !.d_flag = TRUE]
    OBVIOUS
  <1>4. /\ scns \in Seq(Scn) /\ LayoutType /\ Len(scns) \in Nat /\ s \in Scn
        /\ i \in 1 .. Len(scns) /\ i # 1
    <2>1. scns \in Seq(Scn) /\ LayoutType
      BY TypeParts DEF LayoutType
    <2> QED BY <1>3, <2>1
  <1>5. scns' \in Seq(Scn)
    <2>1. TypeInv'
      BY TypeNewdata
    <2> QED BY <2>1 DEF TypeInv, TypeOK
  <1>6. /\ Len(scns') = Len(scns) /\ scns'[i] = t
        /\ \A j \in 1 .. Len(scns) : j # i => scns'[j] = scns[j]
    <2>1. scns' = [scns EXCEPT ![i] = t]
      BY <1>1, <1>3, <1>4
    <2>2. DOMAIN scns' = 1 .. Len(scns)
      BY <1>4, <2>1
    <2> QED BY <1>4, <1>5, <2>1, <2>2
  <1>7. t.s_shdr = s.s_shdr /\ t.d_flag = TRUE /\ t.s_flag = s.s_flag
    BY <1>3, <1>4 DEF Scn
  <1>8. FirstKept
    <2>1. scns # << >> => scns'[1] = scns[1]
      BY <1>4, <1>6
    <2> QED BY <1>2, <1>4, <2>1 DEF FirstKept, LayoutType
  <1>9. CASE s.s_shdr.sh_type # "null"
    <2>1. ~Unflagged(scns')
      BY <1>6, <1>7, <1>9 DEF Unflagged
    <2>2. ~Clean'
      BY <2>1 DEF Clean
    <2> QED BY <1>8, <2>2, KeptEscaped DEF CleanIsFaithful
  <1>10. CASE s.s_shdr.sh_type = "null"
    <2>1. SameForFile
      <3>1. \A j \in 1 .. Len(scns) : scns'[j].s_shdr = scns[j].s_shdr
        BY <1>3, <1>6, <1>7
      <3>2. ASSUME NEW j \in 2 .. Len(scns), scns[j].s_shdr.sh_type = "bits"
            PROVE  scns'[j].s_data = scns[j].s_data
        <4>1. j \in 1 .. Len(scns) /\ j # i
          BY <1>3, <1>4, <1>10, <3>2
        <4> QED BY <1>6, <4>1
      <3> QED BY <1>2, <1>5, <1>6, <3>1, <3>2 DEF SameForFile
    <2>2. Clean' => Clean
      <3>1. ASSUME Unflagged(scns') PROVE Unflagged(scns)
        <4>1. ASSUME NEW j \in 1 .. Len(scns) PROVE ~scns[j].s_flag
          BY <1>3, <1>6, <1>7, <3>1 DEF Unflagged
        <4>2. ASSUME NEW j \in 2 .. Len(scns), scns[j].s_shdr.sh_type # "null" PROVE ~scns[j].d_flag
          <5>1. j \in 1 .. Len(scns) /\ j # i
            BY <1>3, <1>4, <1>10, <4>2
          <5> QED BY <1>6, <3>1, <4>2, <5>1 DEF Unflagged
        <4> QED BY <4>1, <4>2 DEF Unflagged
      <3> QED BY <1>2, <3>1 DEF Clean
    <2>3. CleanIsFaithful'
      BY <1>4, <2>1, <2>2, CleanFrame
    <2> QED BY <1>8, <2>3, KeptEscaped
  <1> QED BY <1>9, <1>10

LEMMA FileSetShdr ==
  ASSUME TypeInv, Escaped, SetShdr
  PROVE  Dirties /\ Escaped'
  <1>1. PICK i \in 2 .. Len(scns) :
          \/ \E t \in {"bits", "nobits"} :
                scns' = [scns EXCEPT ![i] = [@ EXCEPT !.s_flag = TRUE, !.s_shdr.sh_type = t]]
          \/ \E off \in Places[e_class], size \in Sizes[e_class] :
                scns' = [scns EXCEPT ![i] = [@ EXCEPT !.s_flag = TRUE,
                                !.s_shdr.sh_offset = off, !.s_shdr.sh_size = size]]
    BY DEF SetShdr
  <1>2. PICK s : s = scns[i]
    OBVIOUS
  <1>3. /\ scns \in Seq(Scn) /\ Len(scns) \in Nat /\ s \in Scn /\ i \in 1 .. Len(scns) /\ i # 1
        /\ 1 \in 1 .. Len(scns)
    <2>1. scns \in Seq(Scn)
      BY TypeParts DEF LayoutType
    <2> QED BY <1>2, <2>1
  <1>4. PICK t : scns' = [scns EXCEPT ![i] = t] /\ t.s_flag = TRUE
    <2>1. ASSUME NEW type \in {"bits", "nobits"},
                 scns' = [scns EXCEPT ![i] = [@ EXCEPT !.s_flag = TRUE, !.s_shdr.sh_type = type]]
          PROVE  \E t : scns' = [scns EXCEPT ![i] = t] /\ t.s_flag = TRUE
      <3>1. PICK t : t = [s EXCEPT !.s_flag = TRUE, !.s_shdr.sh_type = type]
        OBVIOUS
      <3>2. t.s_flag = TRUE
        BY <1>3, <3>1 DEF Scn
      <3> QED BY <1>2, <2>1, <3>1, <3>2
    <2>2. ASSUME NEW off \in Places[e_class], NEW size \in Sizes[e_class],
                 scns' = [scns EXCEPT ![i] = [@ EXCEPT !.s_flag = TRUE,
                                !.s_shdr.sh_offset = off, !.s_shdr.sh_size = size]]
          PROVE  \E t : scns' = [scns EXCEPT ![i] = t] /\ t.s_flag = TRUE
      <3>1. PICK t : t = [s EXCEPT !.s_flag = TRUE, !.s_shdr.sh_offset = off, !.s_shdr.sh_size = size]
        OBVIOUS
      <3>2. t.s_flag = TRUE
        BY <1>3, <3>1 DEF Scn
      <3> QED BY <1>2, <2>2, <3>1, <3>2
    <2> QED BY <1>1, <2>1, <2>2
  <1>5. scns'[i] = t /\ scns'[1] = scns[1] /\ Len(scns') = Len(scns)
    <2>1. scns' \in Seq(Scn) /\ DOMAIN scns' = 1 .. Len(scns)
      <3>1. TypeInv'
        BY TypeSetShdr
      <3>2. DOMAIN scns' = DOMAIN scns
        BY <1>4
      <3> QED BY <1>3, <3>1, <3>2 DEF TypeInv, TypeOK
    <2>2. Len(scns') = Len(scns)
      BY <1>3, <2>1
    <2> QED BY <1>3, <1>4, <2>2
  <1>6. Dirties
    <2>1. ~Unflagged(scns')
      BY <1>3, <1>4, <1>5 DEF Unflagged
    <2> QED BY <2>1 DEF Dirties, Clean
  <1>7. FirstKept
    BY <1>5 DEF FirstKept, SetShdr
  <1> QED BY <1>6, <1>7, KeptEscaped

LEMMA FileSetEhdr ==
  ASSUME Escaped, SetEhdr
  PROVE  Dirties /\ Escaped'
  <1>1. e_ehdr_flags' = TRUE /\ scns' = scns /\ e_phnum' = e_phnum
    BY DEF SetEhdr
  <1>2. FirstKept
    BY <1>1 DEF FirstKept
  <1> QED BY <1>1, <1>2, KeptEscaped DEF Dirties, Clean

LEMMA FileFlagelf ==
  ASSUME TypeInv, Escaped, CleanIsFaithful, elf_flagelf
  PROVE  CleanIsFaithful' /\ Escaped'
  <1>1. PICK f : e_elf_flags' = e_elf_flags \cup {f}
                 \/ (f # "DIRTY" /\ e_elf_flags' = e_elf_flags \ {f})
    BY DEF elf_flagelf
  <1>2. /\ file' = file /\ e_ehdr' = e_ehdr /\ ehdr' = ehdr /\ e_phnum' = e_phnum /\ scns' = scns
        /\ e_ehdr_flags' = e_ehdr_flags /\ e_phdr_flags' = e_phdr_flags /\ unmarked' = unmarked
    BY DEF elf_flagelf, Edits, contents
  <1>3. LayoutType
    BY TypeParts
  <1>4. SameForFile
    BY <1>2, <1>3 DEF SameForFile, LayoutType
  <1>5. Clean' => Clean
    <2>1. "DIRTY" \in e_elf_flags => "DIRTY" \in e_elf_flags'
      BY <1>1
    <2> QED BY <1>2, <2>1 DEF Clean
  <1>6. FirstKept
    BY <1>2 DEF FirstKept
  <1> QED BY <1>3, <1>4, <1>5, <1>6, CleanFrame, KeptEscaped

LEMMA FileDelscn ==
  ASSUME TypeInv, Escaped, elf_delscn
  PROVE  Dirties /\ Escaped'
  <1>1. PICK i \in 2 .. Len(scns) : scns' = RemoveAt(scns, i)
    BY DEF elf_delscn
  <1>2. unmarked' # {} /\ e_phnum' = e_phnum
    BY DEF elf_delscn
  <1>3. scns \in Seq(Scn)
    BY TypeParts DEF LayoutType
  <1>4. scns'[1] = scns[1]
    BY <1>1, <1>3, RemoveKeepsFirst
  <1>5. FirstKept
    BY <1>2, <1>4 DEF FirstKept
  <1> QED BY <1>2, <1>5, KeptEscaped DEF Dirties, Clean

LEMMA FileMovscn ==
  ASSUME TypeInv, Escaped, elfx_movscn
  PROVE  Dirties /\ Escaped'
  <1>1. PICK i \in 2 .. Len(scns), after \in 1 .. Len(scns) :
          /\ after \notin {i, i - 1}
          /\ scns' = InsertAt(RemoveAt(scns, i), IF after < i THEN after + 1 ELSE after, scns[i])
    BY DEF elfx_movscn
  <1>2. unmarked' # {} /\ e_phnum' = e_phnum
    BY DEF elfx_movscn
  <1>3. PICK n, at, ss, s : /\ n = Len(scns) /\ at = IF after < i THEN after + 1 ELSE after
                            /\ ss = RemoveAt(scns, i) /\ s = scns[i]
    OBVIOUS
  <1>4. scns \in Seq(Scn) /\ n \in Nat /\ i \in 2 .. n /\ after \in 1 .. n /\ i \in 1 .. Len(scns) /\ s \in Scn
    <2>1. scns \in Seq(Scn)
      BY TypeParts DEF LayoutType
    <2>2. n \in Nat /\ i \in 2 .. n /\ after \in 1 .. n /\ i \in 1 .. Len(scns)
      BY <1>3, <2>1
    <2> QED BY <1>3, <2>1, <2>2
  <1>5. ss \in Seq(Scn) /\ Len(ss) = n - 1 /\ ss[1] = scns[1]
    BY <1>3, <1>4, RemoveAtFact, RemoveKeepsFirst
  <1>6. at \in 2 .. Len(ss) + 1
    <2>1. CASE after < i
      BY <1>3, <1>4, <1>5, <2>1
    <2>2. CASE ~(after < i)
      BY <1>3, <1>4, <1>5, <2>2
    <2> QED BY <2>1, <2>2
  <1>7. scns'[1] = ss[1]
    <2>1. scns' = InsertAt(ss, at, s)
      BY <1>1, <1>3
    <2> QED BY <1>4, <1>5, <1>6, <2>1, InsertKeepsFirst
  <1>8. FirstKept
    BY <1>2, <1>5, <1>7 DEF FirstKept
  <1> QED BY <1>2, <1>8, KeptEscaped DEF Dirties, Clean

LEMMA FileUpdate ==
  ASSUME TypeInv, Escaped, CleanIsFaithful, elf_update
  PROVE  CleanIsFaithful' /\ Escaped' /\ SavedIsClean'
  <1>0. e_ehdr /\ 0 \in Nat /\ TypeInv'
    BY TypeUpdate DEF elf_update
  <1>1. PICK l, w : l = Laid(0) /\ w = Writes(l.ehdr, l.scns)
    OBVIOUS
  <1>2. ASSUME NEW bad \in Nat, Keeps(Laid(bad)) PROVE Escaped'
    <2>1. scns' = Laid(bad).scns /\ e_phnum' = e_phnum
      BY <1>2 DEF Keeps
    <2> QED BY <2>1, TypeParts, LaidEscaped DEF Escaped
  <1>3. ASSUME Cleaned(l) PROVE Escaped'
    <2>1. e_phnum' = e_phnum
      BY <1>3 DEF Cleaned
    <2>2. SUFFICES ASSUME e_phnum >= PnXnum PROVE scns'[1].s_shdr.sh_info = e_phnum
      BY <2>1 DEF Escaped
    <2>3. 1 \in 1 .. Len(scns) /\ LayoutType
      BY <2>2, TypeParts DEF LayoutType
    <2>4. scns'[1].s_shdr = l.scns[1].s_shdr
      BY <1>1, <1>3, <2>3, CleanedScns
    <2> QED BY <1>0, <1>1, <2>2, <2>3, <2>4, LaidEscaped
  <1>4. ASSUME UpdateLaysOut(l)
        PROVE  CleanIsFaithful' /\ Escaped' /\ SavedIsClean'
    <2>1. Keeps(l) /\ file' = file /\ unmarked' = unmarked /\ stage' = "settled"
      BY <1>4 DEF UpdateLaysOut
    <2>2. SavedIsClean'
      BY <2>1 DEF SavedIsClean
    <2> QED BY <1>0, <1>1, <1>2, <2>1, <2>2, KeepsClean
  <1>5. ASSUME UpdateSkips(l)
        PROVE  CleanIsFaithful' /\ Escaped' /\ SavedIsClean'
    <2>1. Keeps(l) /\ file' = file /\ unmarked' = unmarked
      BY <1>5 DEF UpdateSkips
    <2>2. SavedIsClean'
      BY <1>0, <1>1, <1>5, SkipsClean DEF SavedIsClean
    <2> QED BY <1>0, <1>1, <1>2, <2>1, <2>2, KeepsClean
  <1>6. ASSUME NEW bad \in Nat, UpdateRefuses(Laid(bad))
        PROVE  CleanIsFaithful' /\ Escaped' /\ SavedIsClean'
    <2>1. /\ Keeps(Laid(bad)) /\ file' = file /\ unmarked' = unmarked
          /\ stage' \in {"overlap", "edited"}
      BY <1>6 DEF UpdateRefuses
    <2>2. SavedIsClean'
      BY <2>1 DEF SavedIsClean
    <2> QED BY <1>0, <1>2, <2>1, <2>2, KeepsClean
  <1>7. ASSUME MustWrite(l), UpdateWrites(l, w)
        PROVE  CleanIsFaithful' /\ Escaped' /\ SavedIsClean'
    <2>1. Cleaned(l) /\ l.says = "ok"
      BY <1>7 DEF UpdateWrites, MustWrite
    <2>2. CleanIsFaithful' /\ Clean'
      BY <1>0, <1>1, <1>7, <2>1, WriteFaithful
    <2> QED BY <1>3, <2>1, <2>2 DEF SavedIsClean
  <1>8. ASSUME MustWrite(l), UpdateFails(l, w)
        PROVE  CleanIsFaithful' /\ Escaped' /\ SavedIsClean'
    <2>1. Keeps(l) /\ stage' = "edited"
      BY <1>8 DEF UpdateFails
    <2>2. ~Clean'
      BY <1>1, <1>8, <2>1, FailsDirty
    <2> QED BY <1>0, <1>1, <1>2, <2>1, <2>2 DEF CleanIsFaithful, SavedIsClean
  <1>9. ASSUME UpdateLosesWrite(l, w)
        PROVE  CleanIsFaithful' /\ Escaped' /\ SavedIsClean'
    <2>1. Cleaned(l) /\ stage' = "edited" /\ unmarked' # {}
      BY <1>9 DEF UpdateLosesWrite
    <2>2. ~Clean'
      BY <2>1 DEF Clean
    <2> QED BY <1>3, <2>1, <2>2 DEF CleanIsFaithful, SavedIsClean
  <1>10. ASSUME NEW bad \in DOMAIN scns PROVE bad \in Nat
    <2>1. scns \in Seq(Scn)
      BY DEF TypeInv, TypeOK
    <2> QED BY <2>1
  <1> QED BY <1>0, <1>1, <1>4, <1>5, <1>6, <1>7, <1>8, <1>9, <1>10 DEF elf_update

LEMMA FileStep == FileInv /\ [Next]_vars => FileInv'
  <1> SUFFICES ASSUME FileInv, [Next]_vars PROVE FileInv'
    OBVIOUS
  <1>0. Inv' /\ TypeInv /\ Escaped /\ CleanIsFaithful /\ SavedIsClean
    BY InvStep DEF FileInv, Inv
  <1>1. ASSUME Edits PROVE SavedIsClean'
    BY <1>1 DEF Edits, SavedIsClean
  <1>2. ASSUME Dirties PROVE CleanIsFaithful'
    BY <1>2 DEF Dirties, CleanIsFaithful
  <1>3. CASE UNCHANGED vars
    <2>1. /\ file' = file /\ e_ehdr' = e_ehdr /\ ehdr' = ehdr /\ e_phnum' = e_phnum /\ scns' = scns
          /\ e_elf_flags' = e_elf_flags /\ e_ehdr_flags' = e_ehdr_flags
          /\ e_phdr_flags' = e_phdr_flags /\ stage' = stage /\ unmarked' = unmarked
      BY <1>3 DEF vars, contents, dirt
    <2>2. LayoutType /\ SameForFile /\ (Clean' <=> Clean)
      BY <1>0, <2>1, TypeParts DEF SameForFile, LayoutType, Clean
    <2>3. CleanIsFaithful'
      BY <1>0, <2>2, CleanFrame
    <2>4. FirstKept /\ SavedIsClean'
      BY <1>0, <2>1, <2>2 DEF FirstKept, SavedIsClean
    <2> QED BY <1>0, <2>3, <2>4, KeptEscaped DEF FileInv
  <1>4. CASE Cook
    <2>1. Faithful' /\ Escaped'
      BY <1>0, <1>4, CookFaithful
    <2>2. stage' = "edited"
      BY <1>0, <1>4 DEF Cook, TypeInv, BeforeHeader
    <2> QED BY <1>0, <2>1, <2>2 DEF FileInv, CleanIsFaithful, SavedIsClean
  <1>5. CASE elf_newehdr
    <2>1. /\ e_ehdr_flags' = TRUE /\ scns' = scns /\ e_phnum' = e_phnum /\ stage' = "edited"
      BY <1>0, <1>5 DEF elf_newehdr, TypeInv, BeforeHeader
    <2>2. Dirties /\ FirstKept /\ SavedIsClean'
      BY <2>1 DEF Dirties, Clean, FirstKept, SavedIsClean
    <2> QED BY <1>0, <1>2, <2>2, KeptEscaped DEF FileInv
  <1>6. CASE elf_newscn
    BY <1>0, <1>1, <1>2, <1>6, FileNewscn DEF FileInv, elf_newscn
  <1>7. CASE elf_newphdr
    BY <1>0, <1>1, <1>2, <1>7, FileNewphdr DEF FileInv, elf_newphdr
  <1>8. CASE elf_newdata
    BY <1>0, <1>1, <1>8, FileNewdata DEF FileInv, elf_newdata
  <1>9. CASE SetShdr
    BY <1>0, <1>1, <1>2, <1>9, FileSetShdr DEF FileInv, SetShdr
  <1>10. CASE SetEhdr
    BY <1>0, <1>1, <1>2, <1>10, FileSetEhdr DEF FileInv, SetEhdr
  <1>11. CASE elf_flagelf
    BY <1>0, <1>1, <1>11, FileFlagelf DEF FileInv, elf_flagelf
  <1>12. CASE elfx_remscn
    BY <1>0, <1>1, <1>2, <1>12, FileRemscn DEF FileInv, elfx_remscn
  <1>13. CASE elf_delscn
    BY <1>0, <1>1, <1>2, <1>13, FileDelscn DEF FileInv, elf_delscn
  <1>14. CASE elfx_movscn
    BY <1>0, <1>1, <1>2, <1>14, FileMovscn DEF FileInv, elfx_movscn
  <1>15. CASE elf_update
    BY <1>0, <1>15, FileUpdate DEF FileInv
  <1> QED BY <1>3, <1>4, <1>5, <1>6, <1>7, <1>8, <1>9, <1>10, <1>11, <1>12, <1>13, <1>14, <1>15 DEF Next

LEMMA FileInit == Init => FileInv
  <1> SUFFICES ASSUME Init PROVE FileInv
    OBVIOUS
  <1>1. e_ehdr = FALSE /\ e_phnum = 0 /\ stage = "edited" /\ PnXnum \in Nat \ {0}
    BY Constants DEF Init
  <1>2. CleanIsFaithful /\ SavedIsClean /\ Escaped
    BY <1>1 DEF CleanIsFaithful, Clean, SavedIsClean, Escaped
  <1> QED BY <1>2, InvInit DEF FileInv

-----------------------------------------------------------------------------
LEMMA FaithfulIsFile ==
  ASSUME LayoutType, HeadersLaid, TablesApart, Escaped, Faithful
  PROVE  IsFileOf
  <1> DEFINE n == Len(scns)
  <1>0. /\ n \in Nat /\ scns \in Seq(Scn) /\ e_phnum \in Nat /\ ehdr \in Ehdr
        /\ ehdr.e_phoff \in Nat /\ ehdr.e_shoff \in Nat /\ (scns = << >> <=> n = 0)
        /\ PnXnum \in Nat \ {0} /\ LoReserve \in Nat \ {0}
    BY Constants DEF LayoutType, Ehdr
  <1>1. /\ IsAt(file, "ehdr", 0) /\ At(file, 0) = ehdr
        /\ \A j \in 1 .. e_phnum : IsAt(file, "phdr", ehdr.e_phoff + j - 1)
        /\ \A i \in 1 .. n : /\ IsAt(file, "shdr", ehdr.e_shoff + i - 1)
                             /\ At(file, ehdr.e_shoff + i - 1) = scns[i].s_shdr
        /\ \A i \in 2 .. n : scns[i].s_shdr.sh_type = "bits" =>
              /\ FileEnd(scns[i].s_shdr) <= Len(file)
              /\ SubSeq(file, scns[i].s_shdr.sh_offset + 1, FileEnd(scns[i].s_shdr)) = Contents(scns[i])
    BY DEF Faithful
  <1>2. scns # << >> => /\ ehdr.e_shoff # 0 /\ IsAt(file, "shdr", ehdr.e_shoff)
                        /\ At(file, ehdr.e_shoff) = scns[1].s_shdr
    <2>1. SUFFICES ASSUME scns # << >>
                   PROVE  /\ ehdr.e_shoff # 0 /\ IsAt(file, "shdr", ehdr.e_shoff)
                          /\ At(file, ehdr.e_shoff) = scns[1].s_shdr
      OBVIOUS
    <2>2. 1 \in 1 .. n /\ ehdr.e_shoff + 1 - 1 = ehdr.e_shoff
      BY <1>0, <2>1
    <2>3. ehdr.e_shoff \in ShdrArea
      BY <1>0, <2>2 DEF ShdrArea
    <2>4. ehdr.e_shoff # 0
      BY <2>3 DEF TablesApart
    <2> QED BY <1>1, <2>2, <2>4
  <1>3. scns = << >> => ehdr.e_shoff = 0
    BY DEF TablesApart
  <1>4. CookedShnum(file) = n
    <2>1. CASE scns = << >>
      BY <1>0, <1>1, <1>3, <2>1 DEF CookedShnum
    <2>2. CASE scns # << >> /\ ~(n >= LoReserve)
      <3>1. ehdr.e_shnum = n /\ n # 0
        BY <1>0, <2>2 DEF HeadersLaid
      <3> HIDE DEF n
      <3> QED BY <1>1, <1>2, <2>2, <3>1 DEF CookedShnum
    <2>3. CASE scns # << >> /\ n >= LoReserve
      <3>1. ehdr.e_shnum = 0 /\ FirstLaid(scns[1].s_shdr) = scns[1].s_shdr
        BY <2>3 DEF HeadersLaid
      <3>2. PICK h, g : h = scns[1].s_shdr /\ CountedHeader(g) = h /\ g \in Shdr
        <4>1. PICK s : s = scns[1]
          OBVIOUS
        <4>2. s.s_shdr \in Shdr
          <5>1. s \in Scn
            BY <1>0, <2>3, <4>1
          <5> QED BY <5>1 DEF Scn
        <4>3. PICK h1 : h1 = IF e_phnum >= PnXnum THEN ExtendedPhnum(s.s_shdr) ELSE s.s_shdr
          OBVIOUS
        <4>4. h1 \in Shdr
          BY <1>0, <4>2, <4>3, ExtendedPhnumFact
        <4>5. PICK h2 : h2 = IF Layout THEN FirstHeader(h1) ELSE h1
          OBVIOUS
        <4>6. h2 \in Shdr
          BY <4>4, <4>5 DEF FirstHeader, Shdr
        <4>7. FirstLaid(s.s_shdr) = CountedHeader(h2)
          BY <2>3, <4>3, <4>5 DEF FirstLaid
        <4> QED BY <3>1, <4>1, <4>6, <4>7
      <3>3. h.sh_size = n
        BY <1>0, <3>2 DEF CountedHeader, Shdr
      <3> HIDE DEF n
      <3> QED BY <1>1, <1>2, <2>3, <3>1, <3>2, <3>3 DEF CookedShnum
    <2> QED BY <2>1, <2>2, <2>3
  <1>5. CookedPhnum(file) = e_phnum
    <2>0. ehdr.e_phnum = Min({e_phnum, PnXnum})
      BY DEF HeadersLaid
    <2>1. ehdr.e_phnum = IF e_phnum >= PnXnum THEN PnXnum ELSE e_phnum
      <3>1. Min({e_phnum, PnXnum}) \in {e_phnum, PnXnum} /\ Min({e_phnum, PnXnum}) <= e_phnum
            /\ Min({e_phnum, PnXnum}) <= PnXnum
        BY <1>0, MinOfTwo
      <3> QED BY <1>0, <2>0, <3>1
    <2>2. CookedPhnum(file) = IF ehdr.e_phoff = 0 THEN 0
                              ELSE IF ehdr.e_phnum # PnXnum THEN ehdr.e_phnum
                              ELSE At(file, ehdr.e_shoff).sh_info
      BY <1>1 DEF CookedPhnum
    <2>3. e_phnum > 0 => ehdr.e_phoff # 0
      <3>1. SUFFICES ASSUME e_phnum > 0 PROVE ehdr.e_phoff # 0
        OBVIOUS
      <3>2. ehdr.e_phoff \in PhdrArea
        BY <1>0, <3>1 DEF PhdrArea
      <3> QED BY <3>2 DEF TablesApart
    <2>4. CASE e_phnum >= PnXnum
      <3>1. scns # << >> /\ scns[1].s_shdr.sh_info = e_phnum
        BY <2>4 DEF LayoutType, Escaped
      <3> QED BY <1>0, <1>2, <2>1, <2>2, <2>3, <2>4, <3>1
    <2>5. CASE ~(e_phnum >= PnXnum)
      BY <1>0, <2>1, <2>2, <2>3, <2>5
    <2> QED BY <2>4, <2>5
  <1>6. \A i \in 2 .. n : i \in 1 .. n
    BY <1>0
  <1> QED BY <1>1, <1>2, <1>3, <1>4, <1>5, <1>6 DEF IsFileOf

(***************************************************************************)
(* When elf_update(ELF_C_WRITE) has returned without an error, whether it  *)
(* wrote or found nothing dirty, the file read anew has the sections, the  *)
(* contents and the numbers that are in memory (update.c:1036-1040 with    *)
(* cook.c), after any sequence of edits, failed updates and reads that     *)
(* memory ran out in: for every number of sections and program headers,    *)
(* past the escape values too, and every place an application chooses.     *)
(***************************************************************************)
THEOREM ReadsBack == Spec => []SavedReadsBack
  <1>1. Spec => []FileInv
    BY FileInit, FileStep, PTL DEF Spec
  <1>2. ASSUME FileInv PROVE SavedReadsBack
    <2>1. SUFFICES ASSUME stage = "saved", unmarked = {},
                          Layout \/ (TablesApart /\ ("LAYOUT_OVERLAP" \in e_elf_flags => ScnsApart))
                   PROVE  IsFileOf
      BY DEF SavedReadsBack
    <2>2. LayoutType /\ Settled /\ Escaped /\ CleanIsFaithful /\ Clean
      BY <1>2, <2>1, TypeParts DEF FileInv, Inv, SavedIsClean
    <2>3. TablesApart /\ ScnsApart
      BY <2>1, <2>2, SettledApart
    <2>4. Faithful /\ HeadersLaid
      BY <2>2, <2>3 DEF CleanIsFaithful, Settled
    <2> QED BY <2>2, <2>3, <2>4, FaithfulIsFile
  <1> QED BY <1>1, <1>2, PTL
=============================================================================
