------------------------- MODULE SectionList_proofs -------------------------
(***************************************************************************)
(* For every block, every supply of addresses and every set of headers:    *)
(* the types of SectionList are invariant, and a section's number is its   *)
(* place on the list.  IndexIsRank alone is not inductive: an address that *)
(* malloc hands out must not be on the list, which needs ListIsAllocated,  *)
(* and freeing a removed section must leave the rest of the list           *)
(* allocated, which needs BlockIsFirst.  With them the linked list behaves  *)
(* as the sequence of SectionSeq: every call that edits the list is one    *)
(* edit of the sequence, for any number of sections.  Place i of the       *)
(* sequence holds the section with number i - 1, of which there is exactly *)
(* one (NumbersArePlaces and NoNumberFree).                                *)
(***************************************************************************)
EXTENDS SectionList, FiniteSetTheorems, FunctionTheorems, WellFoundedInduction, TLAPS, SequenceTheorems

(***************************************************************************)
(* While calls are made, the list is allocated; the first section of the   *)
(* block is the first of the list, so it is never removed.                 *)
(***************************************************************************)
ListIsAllocated == phase = "open" => listed \subseteq alloc

BlockIsFirst == \A s \in listed \cap Blocked : s = Block[1] => e_scn_1 = s

IInv == TypeOK /\ IndexIsRank /\ ListIsAllocated /\ BlockIsFirst

USE SectionListAssumption

-----------------------------------------------------------------------------
(***************************************************************************)
(* Every address of the block has one number.                              *)
(***************************************************************************)
Num == [s \in Blocked |-> CHOOSE i \in 1 .. Len(Block) : Block[i] = s]

LEMMA NumType ==
    /\ Len(Block) \in Nat
    /\ \A i \in 1 .. Len(Block) : Block[i] \in Blocked
    /\ \A s \in Blocked : Num[s] \in 1 .. Len(Block) /\ Block[Num[s]] = s
    /\ \A i \in 1 .. Len(Block) : Num[Block[i]] = i
<1>1. Len(Block) \in Nat
  OBVIOUS
<1>2. \A i \in 1 .. Len(Block) : Block[i] \in Blocked
  BY DEF Blocked
<1>3. \A s \in Blocked : Num[s] \in 1 .. Len(Block) /\ Block[Num[s]] = s
  <2>1. SUFFICES ASSUME NEW s \in Blocked
                 PROVE  Num[s] \in 1 .. Len(Block) /\ Block[Num[s]] = s
    OBVIOUS
  <2>2. \E i \in 1 .. Len(Block) : Block[i] = s
    BY DEF Blocked
  <2>3. Num[s] = CHOOSE i \in 1 .. Len(Block) : Block[i] = s
    BY DEF Num
  <2>4. QED  BY <2>2, <2>3
<1>4. \A i \in 1 .. Len(Block) : Num[Block[i]] = i
  BY <1>1, <1>2, <1>3
<1>5. QED  BY <1>1, <1>2, <1>3, <1>4

LEMMA ScnParts == Scn = Blocked \cup Separate
  BY DEF Scn

LEMMA InitIInv == Init => IInv
<1>1. SUFFICES ASSUME Init PROVE IInv
  OBVIOUS
<1>2. TypeOK
  BY <1>1 DEF Init, TypeOK, Shdr, ShType, Plain
<1>3. QED
  BY <1>1, <1>2 DEF Init, IInv, IndexIsRank, ListIsAllocated, BlockIsFirst
-----------------------------------------------------------------------------
(***************************************************************************)
(* Headers stay headers when elf_delscn renumbers them.                    *)
(***************************************************************************)
LEMMA NewIndexType ==
    ASSUME NEW old \in Nat, NEW index \in Nat
    PROVE  NewIndex(old, index) \in Nat
  BY DEF NewIndex

LEMMA UpdateShdrType ==
    ASSUME NEW h \in Shdr, NEW index \in Nat
    PROVE  UpdateShdr(h, index) \in Shdr
  BY NewIndexType DEF UpdateShdr, Shdr

LEMMA UpdateShnumType ==
    ASSUME NEW n \in Nat, UpdateShnum(n)
    PROVE  e_shnum' \in Nat /\ sh_size' \in Nat /\ cut' \in BOOLEAN
<1>1. cut' = FALSE
  BY DEF UpdateShnum
<1>2. e_shnum' \in Nat /\ sh_size' \in Nat
  BY DEF UpdateShnum
<1>3. QED  BY <1>1, <1>2

LEMMA PlainType == Plain \in Shdr
  BY DEF Plain, Shdr, ShType

LEMMA UnlinkType ==
    ASSUME TypeOK, IndexIsRank, NEW s \in Scn, Unlink(s)
    PROVE  /\ e_scn_1' \in Scn \cup {NULL} /\ e_scn_n' \in Scn
           /\ e_scn_n' \in Scn \cup {NULL}
           /\ listed' \subseteq Scn /\ alloc' \subseteq Scn
           /\ s_link' \in [Scn -> Scn \cup {NULL}]
           /\ s_index' \in [Scn -> Nat]
<1>1. PICK pscn \in listed :
        /\ s \in listed /\ s # e_scn_1
        /\ s_link[pscn] = s
        /\ e_scn_n' = IF e_scn_n = s THEN pscn ELSE e_scn_n
        /\ e_scn_1' = e_scn_1
        /\ listed' = listed \ {s}
        /\ s_link' = [s_link EXCEPT ![pscn] = s_link[s], ![s] = NULL]
        /\ s_index' = [t \in Scn |->
               IF t \in listed /\ s_index[t] > s_index[s] THEN s_index[t] - 1
               ELSE IF t = s THEN 0 ELSE s_index[t]]
        /\ alloc' = IF SFreeme(s) THEN alloc \ Memory(s) ELSE alloc
  BY DEF Unlink
<1>2. /\ e_scn_1 \in Scn \cup {NULL} /\ e_scn_n \in Scn \cup {NULL}
      /\ listed \subseteq Scn /\ alloc \subseteq Scn
      /\ s_link \in [Scn -> Scn \cup {NULL}]
      /\ s_index \in [Scn -> Nat]
  BY DEF TypeOK
<1>3. s_index' \in [Scn -> Nat]
  BY <1>1, <1>2
<1>4. s_link' \in [Scn -> Scn \cup {NULL}]
  BY <1>1, <1>2
<1>5. e_scn_n \in Scn
  BY <1>1, <1>2 DEF IndexIsRank
<1>6. QED  BY <1>1, <1>2, <1>3, <1>4, <1>5

LEMMA TypeStep == TypeOK /\ IndexIsRank /\ [Next]_vars => TypeOK'
<1> SUFFICES ASSUME TypeOK, IndexIsRank, [Next]_vars PROVE TypeOK'
  OBVIOUS
<1> USE DEF TypeOK
<1>1. ASSUME NEW n \in 0 .. LoReserve - 1, CookHeader(n) PROVE TypeOK'
  BY <1>1 DEF CookHeader, list, walk
<1>2. ASSUME NEW n \in 1 .. Len(Block), NEW ext \in BOOLEAN,
             NEW hd \in [Blocked -> Headers \cup {Plain}],
             CookSections(n, ext, hd)
      PROVE  TypeOK'
  <2> DEFINE new == {s \in Blocked : Num[s] <= n}
  <2>1. /\ e_ehdr' = TRUE /\ UNCHANGED << phase, cut, scn, freescn >>
        /\ e_shnum' \in {0, n} /\ sh_size' \in {0, n}
        /\ listed' = new
        /\ e_scn_1' = Block[1] /\ e_scn_n' = Block[n]
        /\ s_index' = [s \in Scn |-> IF s \in new THEN Num[s] - 1 ELSE 0]
        /\ s_link' = [s \in Scn |-> IF s \in new /\ Num[s] < n
                                    THEN Block[Num[s] + 1] ELSE NULL]
        /\ s_shdr' = [s \in Scn |-> IF s \in new THEN hd[s] ELSE Plain]
        /\ alloc' = alloc \cup new
    BY <1>2 DEF CookSections, Num, walk
  <2>2. n \in Nat /\ 1 \in 1 .. Len(Block)
    BY NumType
  <2>3. Block[1] \in Scn /\ Block[n] \in Scn /\ new \subseteq Scn
    BY <2>2, NumType, ScnParts
  <2>4. s_index' \in [Scn -> Nat]
    BY <2>1, NumType
  <2>5. s_link' \in [Scn -> Scn \cup {NULL}]
    <3>1. \A s \in new : Num[s] < n => Block[Num[s] + 1] \in Scn
      BY <2>2, NumType, ScnParts
    <3>2. QED  BY <2>1, <3>1
  <2>6. s_shdr' \in [Scn -> Shdr]
    BY <2>1, PlainType
  <2>7. QED  BY <2>1, <2>2, <2>3, <2>4, <2>5, <2>6
<1>3. ASSUME NEW s \in Scn, FirstScn(s) PROVE TypeOK'
  <2>1. e_shnum' \in Nat /\ sh_size' \in Nat /\ cut' \in BOOLEAN
    BY <1>3, UpdateShnumType DEF FirstScn
  <2>2. s_shdr' \in [Scn -> Shdr] /\ alloc' \subseteq Scn
    BY <1>3, PlainType DEF FirstScn, MakeScn
  <2>3. QED  BY <1>3, <2>1, <2>2 DEF FirstScn, walk
<1>4. ASSUME NEW s \in Scn, elf_newscn(s) PROVE TypeOK'
  <2>1. PICK first \in Scn, last \in Scn, new \in SUBSET Scn :
          BuildScn(first, last, new, s)
    <3>1. CASE e_scn_1 # NULL /\ BuildScn(e_scn_1, e_scn_n, {s}, s)
      <4>1. e_scn_1 \in Scn /\ e_scn_n \in Scn
        BY <3>1 DEF IndexIsRank
      <4>2. QED  BY <3>1, <4>1
    <3>2. ASSUME NEW first \in Separate \ {s},
                 BuildScn(first, first, {first, s}, s)
          PROVE  \E f \in Scn, l \in Scn, new \in SUBSET Scn : BuildScn(f, l, new, s)
      <4>1. first \in Scn /\ {first, s} \in SUBSET Scn
        BY ScnParts
      <4>2. QED  BY <3>2, <4>1
    <3>3. QED  BY <1>4, <3>1, <3>2 DEF elf_newscn
  <2>2. PICK index \in Nat :
          /\ UpdateShnum(index + 1)
          /\ s_index' = [t \in Scn |-> IF t = s THEN index
                                       ELSE IF t \in new THEN 0 ELSE s_index[t]]
    BY <2>1 DEF BuildScn
  <2>3. e_shnum' \in Nat /\ sh_size' \in Nat /\ cut' \in BOOLEAN
    BY <2>2, UpdateShnumType
  <2>4. s_shdr' \in [Scn -> Shdr] /\ alloc' \subseteq Scn
    BY <2>1, PlainType DEF BuildScn, MakeScn
  <2>5. s_link' \in [Scn -> Scn \cup {NULL}]
    BY <2>1 DEF BuildScn
  <2>6. s_index' \in [Scn -> Nat]
    BY <2>2
  <2>7. QED  BY <2>1, <2>3, <2>4, <2>5, <2>6 DEF BuildScn, walk
<1>5. ASSUME NEW s \in Scn, elfx_remscn(s) PROVE TypeOK'
  <2>1. s_index'[e_scn_n'] + 1 \in Nat
    BY <1>5, UnlinkType DEF elfx_remscn
  <2>2. e_shnum' \in Nat /\ sh_size' \in Nat /\ cut' \in BOOLEAN
    BY <1>5, <2>1, UpdateShnumType DEF elfx_remscn
  <2>3. s_shdr' \in [Scn -> Shdr]
    BY <1>5, PlainType DEF elfx_remscn
  <2>4. QED  BY <1>5, <2>2, <2>3, UnlinkType DEF elfx_remscn, walk
<1>6. ASSUME NEW s \in Scn, elf_delscn(s) PROVE TypeOK'
  <2>1. s_index'[e_scn_n'] + 1 \in Nat
    BY <1>6, UnlinkType DEF elf_delscn
  <2>2. e_shnum' \in Nat
    BY <1>6, <2>1 DEF elf_delscn
  <2>3. s_shdr' \in [Scn -> Shdr]
    BY <1>6, PlainType, UpdateShdrType DEF elf_delscn
  <2>4. cut' \in BOOLEAN
    BY <1>6 DEF elf_delscn
  <2>5. e_scn_1' \in Scn \cup {NULL} /\ e_scn_n' \in Scn \cup {NULL}
        /\ listed' \subseteq Scn /\ alloc' \subseteq Scn
        /\ s_link' \in [Scn -> Scn \cup {NULL}] /\ s_index' \in [Scn -> Nat]
    BY <1>6, UnlinkType DEF elf_delscn
  <2>6. UNCHANGED << phase, e_ehdr, sh_size, scn, freescn >>
    BY <1>6 DEF elf_delscn, walk
  <2>7. QED  BY <2>2, <2>3, <2>4, <2>5, <2>6
<1>7. ASSUME NEW s \in Scn, NEW after \in Scn, elfx_movscn(s, after)
      PROVE  TypeOK'
  <2>1. PICK prev \in listed :
          /\ s_index' = [t \in Scn |->
                IF t = s THEN Shifted(after, s, after) + 1
                ELSE IF t \in listed THEN Shifted(t, s, after) ELSE s_index[t]]
          /\ s_link' = [s_link EXCEPT ![prev] = s_link[s],
                                      ![s] = s_link[after],
                                      ![after] = s]
          /\ e_scn_n' = IF e_scn_n = s THEN prev
                        ELSE IF e_scn_n = after THEN s ELSE e_scn_n
    BY <1>7 DEF elfx_movscn
  <2>2. \A t \in Scn : Shifted(t, s, after) \in Nat
    BY DEF Shifted
  <2>3. s_index' \in [Scn -> Nat]
    BY <2>1, <2>2
  <2>4. s_link' \in [Scn -> Scn \cup {NULL}]
    BY <2>1
  <2>5. QED  BY <1>7, <2>1, <2>3, <2>4 DEF elfx_movscn, walk
<1>8. ASSUME NEW s \in Scn, NEW h \in Headers, SetShdr(s, h) PROVE TypeOK'
  BY <1>8 DEF SetShdr, list, walk
<1>9. CASE elf_end
  BY <1>9 DEF elf_end, list
<1>10. CASE FreeScn
  BY <1>10 DEF FreeScn, list
<1>11. CASE FreeUnknown
  BY <1>11 DEF FreeUnknown, list, walk
<1>12. CASE FreeLast
  BY <1>12 DEF FreeLast, list
<1>13. CASE UNCHANGED vars
  BY <1>13 DEF vars, list, walk
<1> HIDE DEF TypeOK
<1>14. QED
  BY <1>1, <1>2, <1>3, <1>4, <1>5, <1>6, <1>7, <1>8, <1>9, <1>10, <1>11,
     <1>12, <1>13 DEF Next
-----------------------------------------------------------------------------
(***************************************************************************)
(* IndexIsRank is kept by every step that edits the list.                  *)
(***************************************************************************)
LEMMA RankParts ==
    ASSUME NULL \notin listed', e_scn_1' \in listed', e_scn_n' \in listed',
           s_index'[e_scn_1'] = 0, s_link'[e_scn_n'] = NULL,
           \A t \in listed' : t # e_scn_n' =>
               s_link'[t] \in listed' /\ s_index'[s_link'[t]] = s_index'[t] + 1,
           \A t \in listed' : s_index'[t] <= s_index'[e_scn_n'],
           \A t, r \in listed' : s_index'[t] = s_index'[r] => t = r
    PROVE  IndexIsRank'
<1>1. listed' # {} /\ e_scn_1' # NULL /\ e_scn_n' # NULL
  OBVIOUS
<1>2. QED  BY <1>1 DEF IndexIsRank

LEMMA RankCook ==
    ASSUME NEW n \in 1 .. Len(Block), NEW ext \in BOOLEAN,
           NEW hd \in [Blocked -> Headers \cup {Plain}], CookSections(n, ext, hd)
    PROVE  IndexIsRank'
<1> DEFINE new == {s \in Blocked : Num[s] <= n}
<1>1. /\ listed' = new
      /\ e_scn_1' = Block[1] /\ e_scn_n' = Block[n]
      /\ s_index' = [s \in Scn |-> IF s \in new THEN Num[s] - 1 ELSE 0]
      /\ s_link' = [s \in Scn |-> IF s \in new /\ Num[s] < n
                                  THEN Block[Num[s] + 1] ELSE NULL]
  BY DEF CookSections, Num
<1>2. n \in Nat /\ n >= 1 /\ n <= Len(Block) /\ 1 \in 1 .. Len(Block)
  BY NumType
<1>3. Block[1] \in new /\ Block[n] \in new /\ new \subseteq Scn /\ NULL \notin new
  BY <1>2, NumType, ScnParts
<1>4. \A s \in new : s_index'[s] = Num[s] - 1 /\ Num[s] \in 1 .. n
  BY <1>1, <1>2, <1>3, NumType
<1>5. s_index'[Block[1]] = 0 /\ s_index'[Block[n]] = n - 1
  BY <1>2, <1>3, <1>4, NumType
<1>6. s_link'[Block[n]] = NULL
  BY <1>1, <1>2, <1>3, NumType
<1>7. ASSUME NEW s \in new, s # Block[n]
      PROVE  s_link'[s] \in new /\ s_index'[s_link'[s]] = s_index'[s] + 1
  <2>1. Num[s] # n /\ Num[s] \in 1 .. n
    BY <1>4, <1>7, NumType
  <2>2. Num[s] < n /\ Num[s] + 1 \in 1 .. Len(Block)
    BY <2>1, <1>2, NumType
  <2>3. s_link'[s] = Block[Num[s] + 1]
    BY <1>1, <1>3, <2>2
  <2>4. Num[Block[Num[s] + 1]] = Num[s] + 1 /\ Block[Num[s] + 1] \in Blocked
    BY <2>2, NumType
  <2>5. Block[Num[s] + 1] \in new
    BY <2>1, <2>2, <2>4, <1>2
  <2>6. QED  BY <1>4, <2>1, <2>3, <2>4, <2>5
<1>8. \A s \in new : s_index'[s] <= n - 1
  BY <1>2, <1>4
<1>9. \A s, t \in new : s_index'[s] = s_index'[t] => s = t
  <2>1. SUFFICES ASSUME NEW s \in new, NEW t \in new, s_index'[s] = s_index'[t]
                 PROVE  s = t
    OBVIOUS
  <2>2. Num[s] = Num[t]
    BY <1>2, <1>4, <2>1
  <2>3. QED  BY <2>2, NumType
<1>10. \A s \in new : s_index'[s] <= s_index'[Block[n]]
  BY <1>5, <1>8
<1> HIDE DEF new
<1>11. QED
  BY <1>1, <1>3, <1>5, <1>6, <1>7, <1>9, <1>10, RankParts

LEMMA RankFirst ==
    ASSUME TypeOK, NEW s \in Scn, FirstScn(s)
    PROVE  IndexIsRank'
<1>1. /\ listed' = {s} /\ e_scn_1' = s /\ e_scn_n' = s
      /\ s_index' = [s_index EXCEPT ![s] = 0]
      /\ s_link' = [s_link EXCEPT ![s] = NULL]
  BY DEF FirstScn
<1>2. s_index'[s] = 0 /\ s_link'[s] = NULL /\ s # NULL
  BY <1>1 DEF TypeOK
<1>3. QED  BY <1>1, <1>2 DEF IndexIsRank

(***************************************************************************)
(* A section appended behind the last one.                                 *)
(***************************************************************************)
LEMMA RankAppend ==
    ASSUME TypeOK, IndexIsRank, e_scn_1 # NULL, NEW s \in Scn, s \notin listed,
           BuildScn(e_scn_1, e_scn_n, {s}, s)
    PROVE  IndexIsRank'
<1>1. e_scn_1 \in listed /\ e_scn_n \in listed /\ s # e_scn_n /\ s # e_scn_1
  BY DEF IndexIsRank
<1>2. /\ listed' = listed \cup {s} /\ e_scn_1' = e_scn_1 /\ e_scn_n' = s
      /\ s_index' = [t \in Scn |-> IF t = s THEN s_index[e_scn_n] + 1
                                   ELSE s_index[t]]
      /\ s_link' = [t \in Scn |-> IF t = s THEN NULL
                                  ELSE IF t = e_scn_n THEN s ELSE s_link[t]]
  BY <1>1 DEF BuildScn
<1>3. listed \subseteq Scn /\ s_index \in [Scn -> Nat] /\ NULL \notin Scn
  BY DEF TypeOK
<1>4. /\ s_index'[s] = s_index[e_scn_n] + 1 /\ s_link'[s] = NULL
      /\ s_link'[e_scn_n] = s
      /\ \A t \in listed : s_index'[t] = s_index[t]
      /\ \A t \in listed : t # e_scn_n => s_link'[t] = s_link[t]
      /\ \A t \in listed : s_index[t] \in Nat
  BY <1>1, <1>2, <1>3
<1>5. /\ s_index[e_scn_1] = 0
      /\ \A t \in listed :
           /\ t # e_scn_n => /\ s_link[t] \in listed
                             /\ s_index[s_link[t]] = s_index[t] + 1
           /\ s_index[t] <= s_index[e_scn_n]
           /\ \A r \in listed : s_index[t] = s_index[r] => t = r
  BY <1>1 DEF IndexIsRank
<1>6. ASSUME NEW t \in listed', t # s
      PROVE  s_link'[t] \in listed' /\ s_index'[s_link'[t]] = s_index'[t] + 1
  <2>1. t \in listed /\ s \in listed'
    BY <1>2, <1>6
  <2>2. CASE t = e_scn_n
    BY <1>1, <1>4, <2>1, <2>2
  <2>3. CASE t # e_scn_n
    <3>1. s_link[t] \in listed /\ s_index[s_link[t]] = s_index[t] + 1
      BY <1>5, <2>1, <2>3
    <3>2. /\ s_link'[t] = s_link[t] /\ s_index'[t] = s_index[t]
          /\ s_index'[s_link[t]] = s_index[s_link[t]]
      BY <1>4, <2>1, <2>3, <3>1
    <3>3. QED  BY <1>2, <3>1, <3>2
  <2>4. QED  BY <2>2, <2>3
<1>a. ASSUME NEW t \in listed
      PROVE  s_index'[t] = s_index[t] /\ s_index[t] < s_index'[s]
  <2>1. s_index[t] \in Nat /\ s_index[e_scn_n] \in Nat /\ s_index[t] <= s_index[e_scn_n]
    BY <1>1, <1>4, <1>5
  <2>2. s_index'[t] = s_index[t] /\ s_index'[s] = s_index[e_scn_n] + 1
    BY <1>4
  <2>3. QED  BY <2>1, <2>2
<1>b. s_index'[s] \in Nat /\ listed' = listed \cup {s}
  BY <1>1, <1>2, <1>4
<1>7. ASSUME NEW t \in listed'
      PROVE  s_index'[t] <= s_index'[s]
  <2>1. CASE t = s
    BY <1>b, <2>1
  <2>2. CASE t \in listed
    <3>1. s_index[t] \in Nat /\ s_index'[t] = s_index[t] /\ s_index[t] < s_index'[s]
      BY <1>4, <1>a, <2>2
    <3>2. QED  BY <1>b, <3>1
  <2>3. QED  BY <1>b, <2>1, <2>2
<1>8. ASSUME NEW t \in listed', NEW r \in listed', s_index'[t] = s_index'[r]
      PROVE  t = r
  <2>1. CASE t \in listed /\ r \in listed
    BY <1>5, <1>8, <1>a, <2>1
  <2>2. ASSUME NEW q \in listed  PROVE  s_index'[q] # s_index'[s]
    <3>1. s_index[q] \in Nat /\ s_index'[q] = s_index[q] /\ s_index[q] < s_index'[s]
      BY <1>4, <1>a
    <3>2. QED  BY <1>b, <3>1
  <2>3. QED  BY <1>8, <1>b, <2>1, <2>2
<1>9. QED
  <2>1. /\ NULL \notin listed' /\ e_scn_1' \in listed' /\ e_scn_n' \in listed'
        /\ s_index'[e_scn_1'] = 0 /\ s_link'[e_scn_n'] = NULL
    BY <1>1, <1>2, <1>3, <1>4, <1>5
  <2>2. QED  BY <1>2, <1>6, <1>7, <1>8, <2>1, RankParts

LEMMA RankFirstAndAppend ==
    ASSUME TypeOK, IndexIsRank, e_scn_1 = NULL, NEW s \in Scn,
           NEW first \in Scn \ {s}, BuildScn(first, first, {first, s}, s)
    PROVE  IndexIsRank'
<1>1. /\ listed' = {first, s} /\ e_scn_1' = first /\ e_scn_n' = s
      /\ s_index' = [t \in Scn |-> IF t = s THEN 1
                                   ELSE IF t \in {first, s} THEN 0 ELSE s_index[t]]
      /\ s_link' = [t \in Scn |-> IF t = s THEN NULL
                                  ELSE IF t = first THEN s ELSE s_link[t]]
  BY DEF BuildScn, IndexIsRank
<1>2. /\ s_index'[s] = 1 /\ s_index'[first] = 0
      /\ s_link'[s] = NULL /\ s_link'[first] = s
  BY <1>1
<1>3. QED  BY <1>1, <1>2 DEF IndexIsRank

(***************************************************************************)
(* A section other than the first taken out.                               *)
(***************************************************************************)
LEMMA RankUnlink ==
    ASSUME TypeOK, IndexIsRank, NEW s \in Scn, Unlink(s)
    PROVE  IndexIsRank'
<1>1. PICK pscn \in listed :
        /\ s \in listed /\ s # e_scn_1
        /\ s_link[pscn] = s
        /\ e_scn_n' = IF e_scn_n = s THEN pscn ELSE e_scn_n
        /\ e_scn_1' = e_scn_1
        /\ listed' = listed \ {s}
        /\ s_link' = [s_link EXCEPT ![pscn] = s_link[s], ![s] = NULL]
        /\ s_index' = [t \in Scn |->
               IF t \in listed /\ s_index[t] > s_index[s] THEN s_index[t] - 1
               ELSE IF t = s THEN 0 ELSE s_index[t]]
  BY DEF Unlink
<1>2. /\ listed \subseteq Scn /\ s_index \in [Scn -> Nat] /\ NULL \notin Scn
      /\ s_link \in [Scn -> Scn \cup {NULL}]
  BY DEF TypeOK
<1>3. /\ e_scn_1 \in listed /\ e_scn_n \in listed
      /\ s_index[e_scn_1] = 0 /\ s_link[e_scn_n] = NULL
      /\ \A t \in listed :
           /\ t # e_scn_n => /\ s_link[t] \in listed
                             /\ s_index[s_link[t]] = s_index[t] + 1
           /\ s_index[t] <= s_index[e_scn_n]
           /\ \A r \in listed : s_index[t] = s_index[r] => t = r
  BY <1>1 DEF IndexIsRank
<1>4. \A t \in listed : s_index[t] \in Nat
  BY <1>2
<1>5. pscn # e_scn_n /\ s_index[s] = s_index[pscn] + 1 /\ pscn # s
  BY <1>1, <1>2, <1>3, <1>4
<1>6. \A t \in listed' : s_index'[t] = IF s_index[t] > s_index[s]
                                      THEN s_index[t] - 1 ELSE s_index[t]
  BY <1>1, <1>2
<1>7. /\ s_link'[pscn] = s_link[s]
      /\ \A t \in listed' : t # pscn => s_link'[t] = s_link[t]
  BY <1>1, <1>2, <1>5
<1>8. e_scn_n' \in listed' /\ e_scn_1' \in listed' /\ pscn \in listed'
  BY <1>1, <1>3, <1>5
<1>9. s_index'[e_scn_1'] = 0
  <2>1. e_scn_1 \in listed' /\ s_index[s] \in Nat
    BY <1>1, <1>3, <1>4
  <2>2. s_index'[e_scn_1] = 0
    BY <1>3, <1>6, <2>1
  <2>3. QED  BY <1>1, <2>2
<1>10. s_link'[e_scn_n'] = NULL
  BY <1>1, <1>3, <1>5, <1>7, <1>8
<1>11. ASSUME NEW t \in listed', t # e_scn_n'
       PROVE  s_link'[t] \in listed' /\ s_index'[s_link'[t]] = s_index'[t] + 1
  <2>1. CASE t = pscn
    <3>1. s # e_scn_n
      BY <1>1, <1>11, <2>1
    <3>2. s_link[s] \in listed /\ s_index[s_link[s]] = s_index[s] + 1
      BY <1>1, <1>3, <3>1
    <3>3. s_link[s] \in listed' /\ s_link'[t] = s_link[s]
      BY <1>1, <1>4, <1>7, <2>1, <3>2
    <3>4. s_index'[s_link[s]] = s_index[s]
      <4>1. s_index[s] \in Nat
        BY <1>1, <1>4
      <4>2. s_index'[s_link[s]] = s_index[s_link[s]] - 1
        BY <1>6, <3>2, <3>3, <4>1
      <4>3. QED  BY <3>2, <4>1, <4>2
    <3>5. s_index'[pscn] = s_index[pscn]
      <4>1. s_index[pscn] \in Nat
        BY <1>1, <1>4
      <4>2. QED  BY <1>5, <1>6, <1>8, <4>1
    <3>6. QED  BY <1>5, <2>1, <3>3, <3>4, <3>5
  <2>2. CASE t # pscn
    <3>1. t \in listed /\ t # s /\ t # e_scn_n
      BY <1>1, <1>11
    <3>2. /\ s_link[t] \in listed /\ s_index[s_link[t]] = s_index[t] + 1
          /\ s_link'[t] = s_link[t]
      BY <1>3, <1>7, <2>2, <3>1, <1>11
    <3>3. s_link[t] # s
      <4>1. s_index[t] \in Nat /\ s_index[pscn] \in Nat /\ s_index[t] # s_index[pscn]
        BY <1>1, <1>3, <1>4, <2>2, <3>1
      <4>2. QED  BY <1>5, <3>2, <4>1
    <3>4. s_index[t] # s_index[s]
      BY <1>1, <1>3, <3>1
    <3>5. s_link[t] \in listed'
      BY <1>1, <3>2, <3>3
    <3>6. s_index[s_link[t]] # s_index[s]
      BY <1>1, <1>3, <3>2, <3>3
    <3>7. s_index'[s_link[t]] = s_index'[t] + 1
      <4>1. s_index'[t] = IF s_index[t] > s_index[s] THEN s_index[t] - 1
                                                     ELSE s_index[t]
        BY <1>6, <1>11
      <4>2. s_index'[s_link[t]] = IF s_index[s_link[t]] > s_index[s]
                                  THEN s_index[s_link[t]] - 1
                                  ELSE s_index[s_link[t]]
        BY <1>6, <3>5
      <4>3. s_index[t] \in Nat /\ s_index[s] \in Nat
        BY <1>1, <1>4, <3>1
      <4>4. QED  BY <4>1, <4>2, <4>3, <3>2, <3>4, <3>6
    <3>8. QED  BY <3>2, <3>5, <3>7
  <2>3. QED  BY <2>1, <2>2
<1>12. \A t \in listed' : s_index'[t] <= s_index'[e_scn_n']
  <2>1. SUFFICES ASSUME NEW t \in listed'
                 PROVE  s_index'[t] <= s_index'[e_scn_n']
    OBVIOUS
  <2>2. t \in listed /\ t # s /\ s_index[t] # s_index[s]
    BY <1>1, <1>3, <2>1
  <2>3. s_index[t] <= s_index[e_scn_n]
    BY <1>3, <2>2
  <2>a. s_index[t] \in Nat /\ s_index[s] \in Nat /\ s_index[pscn] \in Nat
    BY <1>1, <1>4, <2>2
  <2>b. s_index'[t] = IF s_index[t] > s_index[s] THEN s_index[t] - 1 ELSE s_index[t]
    BY <1>6, <2>1
  <2>4. CASE e_scn_n = s
    <3>1. e_scn_n' = pscn /\ s_index'[t] = s_index[t]
      BY <1>1, <2>2, <2>3, <2>4, <2>a, <2>b
    <3>2. s_index'[pscn] = s_index[pscn]
      BY <1>5, <1>6, <1>8, <2>a
    <3>3. s_index[t] <= s_index[pscn]
      BY <1>5, <2>2, <2>3, <2>4, <2>a
    <3>4. QED  BY <3>1, <3>2, <3>3
  <2>5. CASE e_scn_n # s
    <3>1. e_scn_n' = e_scn_n /\ s_index[s] < s_index[e_scn_n]
      BY <1>1, <1>3, <1>4, <2>5
    <3>2. s_index'[e_scn_n'] = s_index[e_scn_n] - 1
      BY <1>1, <1>6, <1>8, <3>1
    <3>3. s_index[e_scn_n] \in Nat
      BY <1>3, <1>4
    <3>4. s_index'[t] <= s_index[e_scn_n] - 1
      BY <2>2, <2>3, <2>a, <2>b, <3>1, <3>3
    <3>5. QED  BY <3>1, <3>2, <3>4
  <2>6. QED  BY <2>4, <2>5
<1>13. \A t, r \in listed' : s_index'[t] = s_index'[r] => t = r
  <2>1. SUFFICES ASSUME NEW t \in listed', NEW r \in listed',
                        s_index'[t] = s_index'[r]
                 PROVE  t = r
    OBVIOUS
  <2>2. /\ t \in listed /\ r \in listed
        /\ s_index[t] # s_index[s] /\ s_index[r] # s_index[s]
    BY <1>1, <1>3
  <2>3. s_index[t] = s_index[r]
    BY <1>1, <1>4, <1>6, <2>1, <2>2
  <2>4. QED  BY <1>3, <2>2, <2>3
<1>14. NULL \notin listed'
  BY <1>1, <1>2
<1>15. QED
  BY <1>8, <1>9, <1>10, <1>11, <1>12, <1>13, <1>14, RankParts

\* What elfx_movscn makes of number x when it moves number i behind number a.
Moved(i, a, x) == IF i < x /\ x <= a THEN x - 1
                  ELSE IF a < x /\ x < i THEN x + 1 ELSE x

LEMMA MovedSuccessor ==
    ASSUME NEW i \in Nat, NEW a \in Nat, NEW x \in Nat,
           i # a, x # i, x # a, x + 1 # i
    PROVE  Moved(i, a, x + 1) = Moved(i, a, x) + 1
BY DEF Moved

LEMMA MovedLeavesRoom ==
    ASSUME NEW i \in Nat, NEW a \in Nat, NEW x \in Nat, i # a, x # i
    PROVE  Moved(i, a, x) # Moved(i, a, a) + 1
BY DEF Moved

LEMMA MovedInjective ==
    ASSUME NEW i \in Nat, NEW a \in Nat, NEW x \in Nat, NEW y \in Nat,
           i # a, x # i, y # i, Moved(i, a, x) = Moved(i, a, y)
    PROVE  x = y
BY DEF Moved

(***************************************************************************)
(* A section other than the first put behind another one.                  *)
(***************************************************************************)
LEMMA RankMove ==
    ASSUME TypeOK, IndexIsRank, NEW s \in Scn, NEW after \in Scn,
           elfx_movscn(s, after)
    PROVE  IndexIsRank'
<1>1. PICK prev \in listed :
        /\ s \in listed /\ after \in listed
        /\ s # e_scn_1 /\ s # after /\ s # s_link[after]
        /\ s_link[prev] = s
        /\ s_index' = [t \in Scn |->
               IF t = s THEN Shifted(after, s, after) + 1
               ELSE IF t \in listed THEN Shifted(t, s, after) ELSE s_index[t]]
        /\ s_link' = [s_link EXCEPT ![prev] = s_link[s],
                                    ![s] = s_link[after],
                                    ![after] = s]
        /\ e_scn_n' = IF e_scn_n = s THEN prev
                      ELSE IF e_scn_n = after THEN s ELSE e_scn_n
        /\ listed' = listed /\ e_scn_1' = e_scn_1
  BY DEF elfx_movscn
<1>2. /\ listed \subseteq Scn /\ s_index \in [Scn -> Nat] /\ NULL \notin Scn
      /\ s_link \in [Scn -> Scn \cup {NULL}]
  BY DEF TypeOK
<1>3. /\ e_scn_1 \in listed /\ e_scn_n \in listed
      /\ s_index[e_scn_1] = 0 /\ s_link[e_scn_n] = NULL
      /\ \A t \in listed :
           /\ t # e_scn_n => /\ s_link[t] \in listed
                             /\ s_index[s_link[t]] = s_index[t] + 1
           /\ s_index[t] <= s_index[e_scn_n]
           /\ \A r \in listed : s_index[t] = s_index[r] => t = r
  BY <1>1 DEF IndexIsRank
<1> DEFINE i == s_index[s]
           a == s_index[after]
           New(t) == Moved(i, a, s_index[t])
<1>4. \A t \in listed : s_index[t] \in Nat
  BY <1>2
<1>5. /\ i \in Nat /\ a \in Nat /\ i # a /\ i # 0 /\ s_index[prev] \in Nat
      /\ prev # e_scn_n /\ prev # s /\ prev # after
      /\ i = s_index[prev] + 1 /\ a # s_index[prev]
  BY <1>1, <1>2, <1>3, <1>4
<1>6. /\ \A t \in listed : t # s => s_index'[t] = New(t)
      /\ s_index'[s] = New(after) + 1
  BY <1>1, <1>2 DEF Shifted, Moved
<1>7. New(after) = IF i < a THEN a - 1 ELSE a
  BY <1>5 DEF Moved
<1>8. /\ s_link'[prev] = s_link[s] /\ s_link'[s] = s_link[after]
      /\ s_link'[after] = s
      /\ \A t \in listed : t \notin {prev, s, after} => s_link'[t] = s_link[t]
  BY <1>1, <1>2, <1>5
<1>9. \A t \in listed : t # s => s_index[t] # i
  BY <1>1, <1>3
<1>10. \A t \in listed : t # after => s_index[t] # a
  BY <1>1, <1>3
<1>11. e_scn_n' \in listed' /\ e_scn_1' \in listed' /\ NULL \notin listed'
  BY <1>1, <1>2, <1>3
<1>12. s_index'[e_scn_1'] = 0
  <2>1. s_index'[e_scn_1] = New(e_scn_1)
    BY <1>1, <1>3, <1>6
  <2>2. New(e_scn_1) = 0
    BY <1>3, <1>5 DEF Moved
  <2>3. QED  BY <1>1, <2>1, <2>2
<1>13. s_link'[e_scn_n'] = NULL
  <2>1. CASE e_scn_n = s
    BY <1>1, <1>3, <1>8, <2>1
  <2>2. CASE e_scn_n = after
    BY <1>1, <1>3, <1>8, <2>2
  <2>3. CASE e_scn_n \notin {s, after}
    BY <1>1, <1>3, <1>5, <1>8, <2>3
  <2>4. QED  BY <2>1, <2>2, <2>3
<1>14. ASSUME NEW t \in listed, t # e_scn_n'
       PROVE  s_link'[t] \in listed /\ s_index'[s_link'[t]] = s_index'[t] + 1
  <2>1. CASE t = after
    <3>1. s_index'[after] = New(after)
      BY <1>1, <1>6
    <3>2. QED  BY <1>1, <1>6, <1>8, <2>1, <3>1
  <2>2. CASE t = s
    <3>1. e_scn_n # after
      BY <1>1, <1>14, <2>2
    <3>2. s_link[after] \in listed /\ s_index[s_link[after]] = a + 1
      BY <1>1, <1>3, <3>1
    <3>3. s_index'[s_link[after]] = New(s_link[after])
      BY <1>1, <1>6, <3>2
    <3>4. s_index[s_link[after]] # i
      BY <1>1, <1>9, <3>2
    <3>5. New(s_link[after]) = New(after) + 2
      BY <1>5, <1>7, <3>2, <3>4 DEF Moved
    <3>6. New(after) \in Int
      BY <1>5, <1>7
    <3>7. QED  BY <1>6, <1>8, <2>2, <3>2, <3>3, <3>5, <3>6
  <2>3. CASE t = prev
    <3>1. e_scn_n # s
      BY <1>1, <1>14, <2>3
    <3>2. s_link[s] \in listed /\ s_index[s_link[s]] = i + 1 /\ s_link[s] # s
      BY <1>1, <1>3, <1>5, <3>1
    <3>3. s_index'[s_link[s]] = New(s_link[s]) /\ s_index'[prev] = New(prev)
      BY <1>1, <1>5, <1>6, <3>2
    <3>4. New(s_link[s]) = New(prev) + 1
      BY <1>5, <3>2 DEF Moved
    <3>5. QED  BY <1>8, <2>3, <3>2, <3>3, <3>4
  <2>4. CASE t \notin {prev, s, after}
    <3>1. t # e_scn_n
      BY <1>1, <1>14, <2>4
    <3>2. /\ s_link[t] \in listed /\ s_index[s_link[t]] = s_index[t] + 1
          /\ s_link'[t] = s_link[t] /\ s_index[t] \in Nat
      BY <1>3, <1>4, <1>8, <2>4, <3>1
    <3>3. s_link[t] # s
      <4>1. s_index[t] # s_index[prev]
        BY <1>3, <2>4
      <4>2. QED  BY <1>5, <3>2, <4>1
    <3>4. /\ s_index'[s_link[t]] = New(s_link[t]) /\ s_index'[t] = New(t)
          /\ s_index[t] # i /\ s_index[t] # a /\ s_index[s_link[t]] # i
      BY <1>6, <1>9, <1>10, <2>4, <3>2, <3>3
    <3>5. New(s_link[t]) = New(t) + 1
      <4> DEFINE x == s_index[t]
      <4>1. x + 1 # i
        BY <3>2, <3>4
      <4>2. i \in Nat /\ a \in Nat /\ x \in Nat /\ i # a /\ x # i /\ x # a
        BY <1>5, <3>2, <3>4
      <4> HIDE DEF i, a, x
      <4>3. Moved(i, a, x + 1) = Moved(i, a, x) + 1
        BY <4>1, <4>2, MovedSuccessor
      <4>4. QED  BY <3>2, <4>3 DEF x
    <3>6. QED  BY <3>2, <3>4, <3>5
  <2>5. QED  BY <2>1, <2>2, <2>3, <2>4
<1>15. \A t \in listed : s_index'[t] <= s_index'[e_scn_n']
  <2>1. SUFFICES ASSUME NEW t \in listed
                 PROVE  s_index'[t] <= s_index'[e_scn_n']
    OBVIOUS
  <2>2. s_index'[t] = IF t = s THEN New(after) + 1 ELSE New(t)
    BY <1>6
  <2>3. /\ s_index[t] \in Nat /\ s_index[e_scn_n] \in Nat
        /\ s_index[t] <= s_index[e_scn_n]
        /\ i <= s_index[e_scn_n] /\ a <= s_index[e_scn_n]
    BY <1>1, <1>3, <1>4
  <2>4. CASE e_scn_n = s
    <3>1. s_index'[e_scn_n'] = New(prev)
      BY <1>1, <1>5, <1>6, <2>4
    <3>2. New(prev) = i
      BY <1>5, <2>3, <2>4 DEF Moved
    <3>3. New(after) + 1 <= i /\ New(t) <= i
      BY <1>5, <1>7, <2>3, <2>4 DEF Moved
    <3>4. QED  BY <2>2, <3>1, <3>2, <3>3
  <2>5. CASE e_scn_n = after
    <3>1. s_index'[e_scn_n'] = a
      <4>1. e_scn_n' = s
        BY <1>1, <2>5
      <4>2. i < a
        BY <1>5, <2>3, <2>5
      <4>3. QED  BY <1>5, <1>6, <1>7, <4>1, <4>2
    <3>2. t # s => New(t) <= a
      BY <1>5, <2>3, <2>5 DEF Moved
    <3>3. New(after) + 1 = a
      BY <1>5, <1>7, <2>3, <2>5
    <3>4. a <= a
      BY <1>5
    <3>5. QED  BY <2>2, <3>1, <3>2, <3>3, <3>4
  <2>6. CASE e_scn_n \notin {s, after}
    <3>1. s_index'[e_scn_n'] = New(e_scn_n)
      <4>1. e_scn_n' = e_scn_n /\ e_scn_n \in listed /\ e_scn_n # s
        BY <1>1, <1>3, <2>6
      <4>2. QED  BY <1>6, <4>1
    <3>2. i # s_index[e_scn_n] /\ a # s_index[e_scn_n]
      BY <1>3, <1>9, <1>10, <2>6
    <3>3. New(e_scn_n) = s_index[e_scn_n]
      BY <1>5, <2>3, <3>2 DEF Moved
    <3>4. New(after) + 1 <= s_index[e_scn_n]
      BY <1>5, <1>7, <2>3, <3>2
    <3>5. New(t) <= s_index[e_scn_n]
      BY <1>5, <2>3, <3>2 DEF Moved
    <3>6. QED  BY <2>2, <3>1, <3>3, <3>4, <3>5
  <2>7. QED  BY <2>4, <2>5, <2>6
<1>16. ASSUME NEW t \in listed, NEW r \in listed, s_index'[t] = s_index'[r]
       PROVE  t = r
  <2>1. s_index[t] \in Nat /\ s_index[r] \in Nat
    BY <1>4
  <2>2. CASE t = s /\ r # s
    <3>1. New(after) + 1 = New(r)
      BY <1>6, <1>16, <2>2
    <3>2. s_index[r] # i
      BY <1>9, <2>2
    <3>3. FALSE
      BY <1>5, <2>1, <3>1, <3>2, MovedLeavesRoom
    <3>4. QED  BY <3>3
  <2>3. CASE r = s /\ t # s
    <3>1. New(after) + 1 = New(t)
      BY <1>6, <1>16, <2>3
    <3>2. s_index[t] # i
      BY <1>9, <2>3
    <3>3. FALSE
      BY <1>5, <2>1, <3>1, <3>2, MovedLeavesRoom
    <3>4. QED  BY <3>3
  <2>4. CASE t # s /\ r # s
    <3>1. New(t) = New(r) /\ s_index[t] # i /\ s_index[r] # i
      BY <1>6, <1>9, <1>16, <2>4
    <3>2. s_index[t] = s_index[r]
      BY <1>5, <2>1, <3>1, MovedInjective
    <3>3. QED  BY <1>3, <3>2
  <2>5. QED  BY <2>2, <2>3, <2>4
<1> HIDE DEF i, a, New
<1>17. listed' = listed
  BY <1>1
<1>18. \A t \in listed' : t # e_scn_n' =>
           s_link'[t] \in listed' /\ s_index'[s_link'[t]] = s_index'[t] + 1
  BY <1>14, <1>17
<1>19. \A t \in listed' : s_index'[t] <= s_index'[e_scn_n']
  BY <1>15, <1>17
<1>20. \A t, r \in listed' : s_index'[t] = s_index'[r] => t = r
  BY <1>16, <1>17
<1>21. QED
  BY <1>11, <1>12, <1>13, <1>18, <1>19, <1>20, RankParts

LEMMA RankFrame ==
    ASSUME IndexIsRank, UNCHANGED list
    PROVE  IndexIsRank'
  BY DEF list, IndexIsRank
-----------------------------------------------------------------------------
(***************************************************************************)
(* The three parts together, for the calls that lengthen or shorten the    *)
(* list.                                                                   *)
(***************************************************************************)
LEMMA NewscnStep ==
    ASSUME IInv, NEW s \in Scn, elf_newscn(s)
    PROVE  IndexIsRank' /\ ListIsAllocated' /\ BlockIsFirst'
<1>1. phase = "open" /\ listed \subseteq alloc
  BY DEF elf_newscn, Editing, IInv, ListIsAllocated
<1>2. CASE e_scn_1 # NULL /\ BuildScn(e_scn_1, e_scn_n, {s}, s)
  <2>1. s \in Separate /\ s \notin listed
    BY <1>1, <1>2 DEF BuildScn, MakeScn
  <2>2. IndexIsRank'
    BY <1>2, <2>1, RankAppend DEF IInv
  <2>3. /\ listed' = listed \cup {s} /\ alloc' = alloc \cup {s}
        /\ e_scn_1' = e_scn_1 /\ phase' = phase
    BY <1>2 DEF BuildScn, MakeScn
  <2>4. QED  BY <1>1, <2>1, <2>2, <2>3 DEF IInv, ListIsAllocated, BlockIsFirst
<1>3. ASSUME NEW first \in Separate \ {s}, e_scn_1 = NULL,
             BuildScn(first, first, {first, s}, s)
      PROVE  IndexIsRank' /\ ListIsAllocated' /\ BlockIsFirst'
  <2>1. first \in Scn \ {s} /\ listed = {}
    BY <1>3, ScnParts DEF IInv, IndexIsRank
  <2>2. IndexIsRank'
    BY <1>3, <2>1, RankFirstAndAppend DEF IInv
  <2>3. /\ listed' = {first, s} /\ alloc' = alloc \cup {first, s}
        /\ {first, s} \subseteq Separate
    BY <1>3, <2>1 DEF BuildScn, MakeScn
  <2>4. QED  BY <2>2, <2>3 DEF ListIsAllocated, BlockIsFirst
<1>4. QED  BY <1>2, <1>3 DEF elf_newscn

LEMMA UnlinkStep ==
    ASSUME IInv, phase = "open", phase' = phase, NEW s \in Scn, Unlink(s)
    PROVE  IndexIsRank' /\ ListIsAllocated' /\ BlockIsFirst'
<1>1. /\ s \in listed /\ s # e_scn_1 /\ e_scn_1' = e_scn_1
      /\ listed' = listed \ {s}
      /\ alloc' = IF SFreeme(s) THEN alloc \ Memory(s) ELSE alloc
  BY DEF Unlink
<1>2. IndexIsRank'
  BY RankUnlink DEF IInv
<1>3. SFreeme(s) => Memory(s) = {s}
  BY <1>1, ScnParts DEF SFreeme, Memory, IInv, BlockIsFirst
<1>4. ListIsAllocated'
  BY <1>1, <1>3 DEF IInv, ListIsAllocated
<1>5. BlockIsFirst'
  BY <1>1 DEF IInv, BlockIsFirst
<1>6. QED  BY <1>2, <1>4, <1>5

LEMMA ListStep ==
    IInv /\ [Next]_vars => IndexIsRank' /\ ListIsAllocated' /\ BlockIsFirst'
<1> DEFINE Goal == IndexIsRank' /\ ListIsAllocated' /\ BlockIsFirst'
<1> SUFFICES ASSUME IInv, [Next]_vars PROVE Goal
  OBVIOUS
<1>0. ASSUME UNCHANGED list, phase' = "open" => phase = "open" /\ alloc' = alloc
      PROVE  Goal
  <2>1. listed' = listed /\ e_scn_1' = e_scn_1
    BY <1>0 DEF list
  <2>2. IndexIsRank'
    BY <1>0, RankFrame DEF IInv
  <2>3. QED  BY <1>0, <2>1, <2>2 DEF IInv, ListIsAllocated, BlockIsFirst
<1> HIDE DEF Goal
<1>1. ASSUME NEW n \in 0 .. LoReserve - 1, CookHeader(n) PROVE Goal
  BY <1>0, <1>1 DEF CookHeader
<1>2. ASSUME NEW n \in 1 .. Len(Block), NEW ext \in BOOLEAN,
             NEW hd \in [Blocked -> Headers \cup {Plain}],
             CookSections(n, ext, hd)
      PROVE  Goal
  <2>1. IndexIsRank'
    BY <1>2, RankCook
  <2>2. listed' \subseteq alloc' /\ e_scn_1' = Block[1]
    BY <1>2 DEF CookSections
  <2>3. QED  BY <2>1, <2>2 DEF Goal, ListIsAllocated, BlockIsFirst
<1>3. ASSUME NEW s \in Scn, FirstScn(s) PROVE Goal
  <2>1. IndexIsRank'
    BY <1>3, RankFirst DEF IInv
  <2>2. listed' = {s} /\ e_scn_1' = s /\ s \in alloc'
    BY <1>3 DEF FirstScn, MakeScn
  <2>3. QED  BY <2>1, <2>2 DEF Goal, ListIsAllocated, BlockIsFirst
<1>4. ASSUME NEW s \in Scn, elf_newscn(s) PROVE Goal
  BY <1>4, NewscnStep DEF Goal
<1>5. ASSUME NEW s \in Scn, elfx_remscn(s) PROVE Goal
  BY <1>5, UnlinkStep DEF Goal, elfx_remscn, Editing
<1>6. ASSUME NEW s \in Scn, elf_delscn(s) PROVE Goal
  BY <1>6, UnlinkStep DEF Goal, elf_delscn, Editing
<1>7. ASSUME NEW s \in Scn, NEW after \in Scn, elfx_movscn(s, after)
      PROVE  Goal
  <2>1. IndexIsRank'
    BY <1>7, RankMove DEF IInv
  <2>2. UNCHANGED << phase, listed, alloc, e_scn_1 >>
    BY <1>7 DEF elfx_movscn
  <2>3. QED  BY <2>1, <2>2 DEF Goal, IInv, ListIsAllocated, BlockIsFirst
<1>8. ASSUME NEW s \in Scn, NEW h \in Headers, SetShdr(s, h) PROVE Goal
  BY <1>0, <1>8 DEF SetShdr
<1>9. CASE elf_end
  BY <1>0, <1>9 DEF elf_end
<1>10. CASE FreeScn
  BY <1>0, <1>10 DEF FreeScn
<1>11. CASE FreeUnknown
  BY <1>0, <1>11 DEF FreeUnknown
<1>12. CASE FreeLast
  BY <1>0, <1>12 DEF FreeLast
<1>13. CASE UNCHANGED vars
  BY <1>0, <1>13 DEF vars
<1>14. QED
  BY <1>1, <1>2, <1>3, <1>4, <1>5, <1>6, <1>7, <1>8, <1>9, <1>10, <1>11,
     <1>12, <1>13 DEF Next

THEOREM Invariance == Spec => []IInv
<1>1. Init => IInv
  BY InitIInv
<1>2. IInv /\ [Next]_vars => IInv'
  BY TypeStep, ListStep DEF IInv
<1>3. QED  BY <1>1, <1>2, PTL DEF Spec

(***************************************************************************)
(* The fields of the list and of the walk keep their types.                *)
(***************************************************************************)
THEOREM TypeCorrect == Spec => []TypeOK
<1>1. IInv => TypeOK
  BY DEF IInv
<1>2. QED  BY <1>1, Invariance, PTL

(***************************************************************************)
(* After any sequence of appends, removals and moves, on a list of any     *)
(* length, the number of a section is its place on the list, and e_scn_n   *)
(* is the last one.                                                        *)
(***************************************************************************)
THEOREM NumbersArePlaces == Spec => []IndexIsRank
<1>1. IInv => IndexIsRank
  BY DEF IInv
<1>2. QED  BY <1>1, Invariance, PTL

-----------------------------------------------------------------------------
(***************************************************************************)
(* What the numbers of SectionList are good for, on a list of any length:  *)
(* the number of the last section gives the count (no number below it is   *)
(* free, by the least one that would be), the count in the headers reads   *)
(* back, and the numbers elf_delscn writes into headers follow the         *)
(* sections.                                                               *)
(***************************************************************************)

LEMMA LeastNumber ==
    ASSUME NEW B \in SUBSET Nat, B # {}
    PROVE  \E m \in B : \A n \in B : m <= n
<1>1. PICK m \in B : \A n \in B : << n, m >> \notin OpToRel(<, Nat)
  BY NatLessThanWellFounded, WFMin
<1>2. ASSUME NEW n \in B, n < m PROVE FALSE
  <2>1. << n, m >> \in Nat \X Nat /\ << n, m >>[1] < << n, m >>[2]
    BY <1>2
  <2>2. << n, m >> \in OpToRel(<, Nat)
    BY <2>1 DEF OpToRel
  <2>3. QED  BY <1>1, <2>2
<1>3. QED  BY <1>2

(***************************************************************************)
(* Every number up to that of the last section is taken.                   *)
(***************************************************************************)
LEMMA NoNumberFree ==
    ASSUME TypeOK, IndexIsRank, listed # {}, NEW k \in 0 .. s_index[e_scn_n]
    PROVE  \E s \in listed : s_index[s] = k
<1> DEFINE Free == {j \in 0 .. s_index[e_scn_n] : \A s \in listed : s_index[s] # j}
<1>1. /\ e_scn_1 \in listed /\ e_scn_n \in listed /\ s_index[e_scn_1] = 0
      /\ \A t \in listed : t # e_scn_n =>
             s_link[t] \in listed /\ s_index[s_link[t]] = s_index[t] + 1
      /\ listed \subseteq Scn /\ s_index \in [Scn -> Nat]
  BY DEF IndexIsRank, TypeOK
<1>2. SUFFICES ASSUME Free # {} PROVE FALSE
  OBVIOUS
<1>3. Free \in SUBSET Nat /\ s_index[e_scn_n] \in Nat
  BY <1>1
<1>4. PICK m \in Free : \A j \in Free : m <= j
  <2> HIDE DEF Free
  <2>1. QED  BY <1>2, <1>3, LeastNumber
<1>5. m \in Nat /\ m <= s_index[e_scn_n] /\ \A s \in listed : s_index[s] # m
  BY <1>3, <1>4
<1>6. m # 0 /\ m - 1 \in 0 .. s_index[e_scn_n]
  BY <1>1, <1>3, <1>5
<1>7. m - 1 \notin Free
  BY <1>4, <1>5, <1>6
<1>8. PICK t \in listed : s_index[t] = m - 1
  BY <1>6, <1>7
<1>9. t # e_scn_n
  BY <1>3, <1>5, <1>8
<1>10. s_link[t] \in listed /\ s_index[s_link[t]] = m
  BY <1>1, <1>5, <1>8, <1>9
<1>11. QED  BY <1>5, <1>10

(***************************************************************************)
(* The number of the last section is one less than that of the sections.   *)
(***************************************************************************)
LEMMA LastGivesCount ==
    ASSUME TypeOK, IndexIsRank, listed # {}
    PROVE  Cardinality(listed) = s_index[e_scn_n] + 1
<1> DEFINE last == s_index[e_scn_n]
           num == [s \in listed |-> s_index[s]]
<1>1. /\ e_scn_n \in listed /\ listed \subseteq Scn /\ s_index \in [Scn -> Nat]
      /\ \A s \in listed : s_index[s] <= last
      /\ \A s, t \in listed : s_index[s] = s_index[t] => s = t
  BY DEF IndexIsRank, TypeOK
<1>2. last \in Nat
  BY <1>1
<1>3. num \in [listed -> 0 .. last]
  BY <1>1, <1>2
<1>4. \A s, t \in listed : num[s] = num[t] => s = t
  BY <1>1
<1>5. \A k \in 0 .. last : \E s \in listed : num[s] = k
  BY NoNumberFree
<1> HIDE DEF last, num
<1>6. num \in Bijection(listed, 0 .. last)
  BY <1>3, <1>4, <1>5 DEF Bijection, Injection, Surjection, IsInjective
<1>7. ExistsBijection(0 .. last, listed)
  BY <1>6, Fun_ExistsBij, Fun_ExistsBijSymmetric
<1>8. IsFiniteSet(0 .. last) /\ Cardinality(0 .. last) = last + 1
  BY <1>2, FS_Interval
<1>9. QED  BY <1>7, <1>8, FS_Bijection DEF last
-----------------------------------------------------------------------------
(***************************************************************************)
(* Before the header is there no section is; without that CookHeader could *)
(* put another count beside a list.                                        *)
(***************************************************************************)
NoHeaderNoList == ~e_ehdr => listed = {}

CInv == NoHeaderNoList /\ CountReadsBack

LEMMA UpdateShnumReadsBack ==
    ASSUME NEW n \in Nat \ {0}, UpdateShnum(n)
    PROVE  ReadShnum' = n
  BY DEF UpdateShnum, ReadShnum

LEMMA SmallModulus ==
    ASSUME NEW n \in Nat, NEW m \in Nat \ {0}, n < m
    PROVE  n % m = n
  OBVIOUS

LEMMA HalfRangeType == HalfRange \in Nat \ {0}
  BY SectionListAssumption

LEMMA SameCount ==
    ASSUME CInv, UNCHANGED << e_ehdr, e_shnum, sh_size, cut, listed >>
    PROVE  CInv'
  BY DEF CInv, NoHeaderNoList, CountReadsBack, ReadShnum

(***************************************************************************)
(* A call that leaves the last section's number, plus one, in the header.  *)
(***************************************************************************)
LEMMA CountOfLast ==
    ASSUME TypeOK', IndexIsRank', e_ehdr', listed' # {},
           ~cut' => ReadShnum' = s_index'[e_scn_n'] + 1
    PROVE  CInv'
<1>1. Cardinality(listed') = s_index'[e_scn_n'] + 1
  <2>1. (TypeOK /\ IndexIsRank /\ listed # {}
             => Cardinality(listed) = s_index[e_scn_n] + 1)'
    BY LastGivesCount, PTL
  <2>2. QED  BY <2>1
<1>2. QED  BY <1>1 DEF CInv, NoHeaderNoList, CountReadsBack

LEMMA CountStep ==
    IInv /\ IInv' /\ CInv /\ [Next]_vars => CInv'
<1> SUFFICES ASSUME IInv, IInv', CInv, [Next]_vars PROVE CInv'
  OBVIOUS
<1>0. TypeOK /\ IndexIsRank /\ TypeOK' /\ IndexIsRank'
  BY DEF IInv
<1>1. ASSUME NEW n \in 0 .. LoReserve - 1, CookHeader(n) PROVE CInv'
  <2>1. listed' = {} /\ e_ehdr'
    BY <1>1 DEF CookHeader, list, CInv, NoHeaderNoList
  <2>2. QED  BY <2>1 DEF CInv, NoHeaderNoList, CountReadsBack
<1>2. ASSUME NEW n \in 1 .. Len(Block), NEW ext \in BOOLEAN,
             NEW hd \in [Blocked -> Headers \cup {Plain}],
             CookSections(n, ext, hd)
      PROVE  CInv'
  <2>1. /\ e_ehdr' /\ e_scn_n' = Block[n]
        /\ listed' = {s \in Blocked : Num[s] <= n}
        /\ s_index' = [s \in Scn |-> IF s \in {t \in Blocked : Num[t] <= n}
                                     THEN Num[s] - 1 ELSE 0]
        /\ IF ext THEN e_shnum' = 0 /\ sh_size' = n
                  ELSE e_shnum' = n /\ sh_size' = 0
    BY <1>2 DEF CookSections, Num
  <2>2. n \in Nat \ {0} /\ Block[n] \in Blocked /\ Num[Block[n]] = n /\ Block[n] \in Scn
    BY NumType, ScnParts
  <2>3. s_index'[e_scn_n'] = n - 1 /\ listed' # {}
    BY <2>1, <2>2
  <2>4. ReadShnum' = n
    BY <2>1, <2>2 DEF ReadShnum
  <2>5. QED  BY <1>0, <2>1, <2>2, <2>3, <2>4, CountOfLast
<1>3. ASSUME NEW s \in Scn, FirstScn(s) PROVE CInv'
  <2>1. /\ e_ehdr' /\ listed' = {s} /\ e_scn_n' = s /\ UpdateShnum(1)
        /\ s_index' = [s_index EXCEPT ![s] = 0]
    BY <1>3 DEF FirstScn, Editing
  <2>2. s_index'[e_scn_n'] = 0
    BY <1>0, <2>1 DEF TypeOK
  <2>3. ReadShnum' = 1
    BY <2>1, UpdateShnumReadsBack
  <2>4. QED  BY <1>0, <2>1, <2>2, <2>3, CountOfLast
<1>4. ASSUME NEW s \in Scn, elf_newscn(s) PROVE CInv'
  <2>1. PICK first \in Scn, last \in Scn, new \in SUBSET Scn :
          BuildScn(first, last, new, s) /\ s \in new
    <3>1. CASE e_scn_1 # NULL /\ BuildScn(e_scn_1, e_scn_n, {s}, s)
      <4>1. e_scn_1 \in Scn /\ e_scn_n \in Scn
        BY <1>0, <3>1 DEF IndexIsRank, TypeOK
      <4>2. QED  BY <3>1, <4>1
    <3>2. ASSUME NEW first \in Separate \ {s},
                 BuildScn(first, first, {first, s}, s)
          PROVE  \E f \in Scn, l \in Scn, new \in SUBSET Scn :
                     BuildScn(f, l, new, s) /\ s \in new
      <4>1. first \in Scn /\ {first, s} \in SUBSET Scn
        BY ScnParts
      <4>2. QED  BY <3>2, <4>1
    <3>3. QED  BY <1>4, <3>1, <3>2 DEF elf_newscn
  <2>2. PICK index \in Nat :
          /\ UpdateShnum(index + 1)
          /\ s_index' = [t \in Scn |-> IF t = s THEN index
                                       ELSE IF t \in new THEN 0 ELSE s_index[t]]
    BY <1>0, <2>1 DEF BuildScn, TypeOK
  <2>3. /\ e_ehdr' /\ e_scn_n' = s /\ listed' # {}
    BY <1>4, <2>1 DEF BuildScn, elf_newscn, Editing
  <2>4. s_index'[e_scn_n'] = index
    BY <2>2, <2>3
  <2>5. ReadShnum' = index + 1
    BY <2>2, UpdateShnumReadsBack
  <2>6. QED  BY <1>0, <2>3, <2>4, <2>5, CountOfLast
<1>5. ASSUME NEW s \in Scn, elfx_remscn(s) PROVE CInv'
  <2>1. e_ehdr' /\ listed' # {} /\ UpdateShnum(s_index'[e_scn_n'] + 1)
    BY <1>0, <1>5 DEF elfx_remscn, Editing, Unlink, IndexIsRank
  <2>2. s_index'[e_scn_n'] \in Nat
    BY <1>0, <1>5, UnlinkType DEF elfx_remscn
  <2>3. ReadShnum' = s_index'[e_scn_n'] + 1
    BY <2>1, <2>2, UpdateShnumReadsBack
  <2>4. QED  BY <1>0, <2>1, <2>3, CountOfLast
<1>6. ASSUME NEW s \in Scn, elf_delscn(s) PROVE CInv'
  <2>1. /\ e_ehdr' /\ listed' # {}
        /\ e_shnum' = (s_index'[e_scn_n'] + 1) % HalfRange
        /\ cut' = (s_index'[e_scn_n'] + 1 >= HalfRange)
    BY <1>0, <1>6 DEF elf_delscn, Editing, Unlink, IndexIsRank
  <2>2. s_index'[e_scn_n'] \in Nat
    BY <1>0, <1>6, UnlinkType DEF elf_delscn
  <2>3. ASSUME ~cut'
        PROVE  ReadShnum' = s_index'[e_scn_n'] + 1
    <3>1. e_shnum' = s_index'[e_scn_n'] + 1
      <4> DEFINE n == s_index'[e_scn_n'] + 1
      <4>1. n \in Nat /\ HalfRange \in Nat \ {0} /\ n < HalfRange
        <5>1. ~(s_index'[e_scn_n'] + 1 >= HalfRange)
          BY <2>1, <2>3
        <5>2. n \in Nat /\ HalfRange \in Nat \ {0}
          BY <2>2, HalfRangeType
        <5>3. QED  BY <5>1, <5>2
      <4>2. e_shnum' = n % HalfRange
        BY <2>1
      <4> HIDE DEF n
      <4>3. n % HalfRange = n
        BY <4>1, SmallModulus
      <4>4. QED  BY <4>2, <4>3 DEF n
    <3>2. QED  BY <2>2, <3>1 DEF ReadShnum
  <2>4. QED  BY <1>0, <2>1, <2>3, CountOfLast
<1>7. ASSUME NEW s \in Scn, NEW after \in Scn, elfx_movscn(s, after)
      PROVE  CInv'
  BY <1>7, SameCount DEF elfx_movscn
<1>8. ASSUME NEW s \in Scn, NEW h \in Headers, SetShdr(s, h) PROVE CInv'
  BY <1>8, SameCount DEF SetShdr, list
<1>9. CASE elf_end
  BY <1>9, SameCount DEF elf_end, list
<1>10. CASE FreeScn
  BY <1>10, SameCount DEF FreeScn, list
<1>11. CASE FreeUnknown
  BY <1>11, SameCount DEF FreeUnknown, list
<1>12. CASE FreeLast
  BY <1>12, SameCount DEF FreeLast, list
<1>13. CASE UNCHANGED vars
  BY <1>13, SameCount DEF vars, list
<1>14. QED
  BY <1>1, <1>2, <1>3, <1>4, <1>5, <1>6, <1>7, <1>8, <1>9, <1>10, <1>11,
     <1>12, <1>13 DEF Next

(***************************************************************************)
(* However many sections there are and whichever calls brought them, the   *)
(* count in the header, or in the first section, reads back, but for what  *)
(* an elf_delscn has just cut.                                             *)
(***************************************************************************)
THEOREM CountIsExact == Spec => []CountReadsBack
<1>1. Init => CInv
  BY DEF Init, CInv, NoHeaderNoList, CountReadsBack
<1>2. IInv /\ IInv' /\ CInv /\ [Next]_vars => CInv'
  BY CountStep
<1>3. CInv => CountReadsBack
  BY DEF CInv
<1>4. QED  BY <1>1, <1>2, <1>3, Invariance, PTL DEF Spec
-----------------------------------------------------------------------------
(***************************************************************************)
(* A number follows the sections: x is the old number of a section that    *)
(* stays, one less if it was above the deleted one.                        *)
(***************************************************************************)
LEMMA NumberFollows ==
    ASSUME NEW old \in Nat, NEW i \in Nat \ {0}, NEW x \in Nat, x # i,
           NEW y, y = IF x > i THEN x - 1 ELSE x
    PROVE  (y = NewIndex(old, i) /\ NewIndex(old, i) # 0) <=> (x = old /\ old # 0)
  BY DEF NewIndex

LEMMA DelscnFollows ==
    ASSUME TypeOK, IndexIsRank, NEW s \in Scn, elf_delscn(s), NEW old \in Nat
    PROVE  Follows(old, NewIndex(old, s_index[s]), s)
<1> DEFINE i == s_index[s]
<1>1. /\ s \in listed /\ s # e_scn_1 /\ listed' = listed \ {s}
      /\ s_index' = [t \in Scn |->
             IF t \in listed /\ s_index[t] > s_index[s] THEN s_index[t] - 1
             ELSE IF t = s THEN 0 ELSE s_index[t]]
  BY DEF elf_delscn, Unlink
<1>2. /\ listed \subseteq Scn /\ s_index \in [Scn -> Nat]
      /\ e_scn_1 \in listed /\ s_index[e_scn_1] = 0
      /\ \A t, r \in listed : s_index[t] = s_index[r] => t = r
  BY <1>1 DEF TypeOK, IndexIsRank
<1>3. i \in Nat \ {0}
  BY <1>1, <1>2
<1>4. \A t \in listed \ {s} : /\ s_index[t] \in Nat /\ s_index[t] # i
                              /\ s_index'[t] = IF s_index[t] > i THEN s_index[t] - 1
                                               ELSE s_index[t]
  BY <1>1, <1>2
<1> HIDE DEF i
<1>5. \A t \in listed \ {s} :
          (s_index'[t] = NewIndex(old, i) /\ NewIndex(old, i) # 0)
              <=> (s_index[t] = old /\ old # 0)
  BY <1>3, <1>4, NumberFollows
<1>6. Meant(NewIndex(old, i), listed', s_index') = Meant(old, listed, s_index) \ {s}
  BY <1>1, <1>5 DEF Meant
<1>7. QED  BY <1>6 DEF Follows, i

(***************************************************************************)
(* After elf_delscn a section number in a header of a type it knows means  *)
(* the section it meant before, or none if that is gone.                   *)
(***************************************************************************)
THEOREM DeletionKeepsLinks == Spec => DelscnKeepsLinks
<1> DEFINE Keeps == \A s \in Scn : elf_delscn(s) =>
          \A t \in listed' :
             /\ s_shdr[t].sh_type \in {"linked", "reloc"} =>
                    Follows(s_shdr[t].sh_link, s_shdr'[t].sh_link, s)
             /\ s_shdr[t].sh_type = "reloc" =>
                    Follows(s_shdr[t].sh_info, s_shdr'[t].sh_info, s)
<1>1. IInv => Keeps
  <2>1. SUFFICES ASSUME IInv, NEW s \in Scn, elf_delscn(s), NEW t \in listed'
                 PROVE  /\ s_shdr[t].sh_type \in {"linked", "reloc"} =>
                            Follows(s_shdr[t].sh_link, s_shdr'[t].sh_link, s)
                        /\ s_shdr[t].sh_type = "reloc" =>
                            Follows(s_shdr[t].sh_info, s_shdr'[t].sh_info, s)
    OBVIOUS
  <2>2. TypeOK /\ IndexIsRank
    BY <2>1 DEF IInv
  <2>3. t \in Scn /\ s_shdr[t] \in Shdr
    BY <2>1, <2>2 DEF TypeOK, elf_delscn, Unlink
  <2>4. s_shdr'[t] = UpdateShdr(s_shdr[t], s_index[s])
    BY <2>1, <2>3 DEF elf_delscn
  <2>5. s_shdr[t].sh_link \in Nat /\ s_shdr[t].sh_info \in Nat
    BY <2>3 DEF Shdr
  <2>6. s_shdr[t].sh_type \in {"linked", "reloc"} =>
            s_shdr'[t].sh_link = NewIndex(s_shdr[t].sh_link, s_index[s])
    BY <2>3, <2>4 DEF UpdateShdr, Shdr
  <2>7. s_shdr[t].sh_type = "reloc" =>
            s_shdr'[t].sh_info = NewIndex(s_shdr[t].sh_info, s_index[s])
    BY <2>3, <2>4 DEF UpdateShdr, Shdr
  <2>8. QED  BY <2>1, <2>2, <2>5, <2>6, <2>7, DelscnFollows
<1>2. IInv /\ [Next]_vars => [Keeps]_vars
  BY <1>1
<1>3. QED  BY <1>2, Invariance, PTL DEF Spec, DelscnKeepsLinks

-----------------------------------------------------------------------------
(***************************************************************************)
(* What _elf_free_scns does to the memory of the sections, for a list of   *)
(* any length and in any order: no section is handed to free twice, none   *)
(* is left over, and none is read after it was freed unless elfx_movscn    *)
(* mixed the block with sections from elf_newscn.  The invariant says who  *)
(* owns allocated memory: a section on the list that free knows, and that  *)
(* the walk has yet to reach or holds in freescn.                          *)
(***************************************************************************)

Ahead(f) == scn # NULL /\ s_index[scn] <= s_index[f]

OwnedOpen == phase = "open" =>
    \A t \in alloc : \E f \in listed : SFreeme(f) /\ t \in Memory(f)

OwnedFree == phase = "free" =>
    \A t \in alloc : \E f \in listed :
        SFreeme(f) /\ t \in Memory(f) /\ (f = freescn \/ Ahead(f))

WalkType ==
    /\ ~e_ehdr => alloc = {}
    /\ phase \in {"open", "done"} => freescn = NULL
    /\ phase = "free" => scn \in listed \cup {NULL}

PendingFree == freescn # NULL =>
    /\ freescn \in listed /\ freescn \in alloc /\ SFreeme(freescn)
    /\ scn # NULL => scn \in listed /\ s_index[freescn] < s_index[scn]

AheadLive == phase = "free" /\ ~Interleaved =>
    \A f \in listed : Ahead(f) => f \in alloc

WInv == /\ OwnedOpen /\ OwnedFree /\ WalkType /\ PendingFree
        /\ AheadLive /\ WalkReadsLive /\ NothingLeft

LEMMA MemoryOf ==
    ASSUME NEW f \in Scn, SFreeme(f)
    PROVE  /\ f \in Memory(f)
           /\ f \in Separate => Memory(f) = {f}
           /\ f \notin Separate => f = Block[1] /\ Memory(f) = Blocked
  BY ScnParts DEF SFreeme, Memory

LEMMA MemoryNull == Memory(NULL) = {}
  BY ScnParts, SectionListAssumption DEF Memory

LEMMA InitWInv == Init => WInv
  BY DEF Init, WInv, OwnedOpen, OwnedFree, WalkType, PendingFree, AheadLive,
         WalkReadsLive, NothingLeft
-----------------------------------------------------------------------------
(***************************************************************************)
(* Steps that edit the list, all taken while the phase is "open", only     *)
(* have to keep an owner for every allocated section.                      *)
(***************************************************************************)
LEMMA EditStep ==
    ASSUME WInv, phase = "open", phase' = phase, UNCHANGED walk, e_ehdr' = TRUE,
           OwnedOpen'
    PROVE  WInv'
<1>1. freescn = NULL
  BY DEF WInv, WalkType
<1>2. freescn' = NULL /\ phase' = "open"
  BY <1>1 DEF walk
<1>3. QED
  BY <1>2 DEF WInv, OwnedFree, WalkType, PendingFree, AheadLive,
              WalkReadsLive, NothingLeft

LEMMA OwnedGrows ==
    ASSUME WInv, phase = "open", NEW new \in SUBSET Separate,
           listed' = listed \cup new, alloc' = alloc \cup new
    PROVE  OwnedOpen'
  BY MemoryOf, ScnParts DEF WInv, OwnedOpen, SFreeme, Memory

LEMMA OwnedUnlink ==
    ASSUME IInv, WInv, phase = "open", NEW s \in Scn, Unlink(s)
    PROVE  OwnedOpen'
<1>1. /\ s \in listed /\ s # e_scn_1 /\ listed' = listed \ {s}
      /\ alloc' = IF SFreeme(s) THEN alloc \ Memory(s) ELSE alloc
  BY DEF Unlink
<1>2. SUFFICES ASSUME NEW t \in alloc'
               PROVE  \E f \in listed' : SFreeme(f) /\ t \in Memory(f)
  BY DEF OwnedOpen
<1>3. PICK f \in listed : SFreeme(f) /\ t \in Memory(f)
  BY <1>1, <1>2 DEF WInv, OwnedOpen
<1>4. f # s
  BY <1>1, <1>2, <1>3
<1>5. QED  BY <1>1, <1>3, <1>4

LEMMA OwnedCook ==
    ASSUME WInv, NEW n \in 1 .. Len(Block), NEW ext \in BOOLEAN,
           NEW hd \in [Blocked -> Headers \cup {Plain}], CookSections(n, ext, hd)
    PROVE  OwnedOpen'
<1> DEFINE new == {s \in Blocked : Num[s] <= n}
<1>1. listed' = new /\ alloc' = new
  BY DEF CookSections, Num, WInv, WalkType
<1>2. 1 \in 1 .. Len(Block) /\ Num[Block[1]] = 1 /\ Block[1] \in Blocked
  BY NumType
<1>3. Block[1] \in new /\ Block[1] \notin Separate
  BY <1>2, SectionListAssumption
<1>4. SFreeme(Block[1]) /\ Memory(Block[1]) = Blocked
  BY <1>2, <1>3 DEF SFreeme, Memory
<1>5. QED  BY <1>1, <1>3, <1>4 DEF OwnedOpen

(***************************************************************************)
(* elf_end enters the walk at the first section.                           *)
(***************************************************************************)
LEMMA EndStep ==
    ASSUME IInv, WInv, elf_end
    PROVE  WInv'
<1>1. /\ phase = "open" /\ phase' = "free" /\ scn' = e_scn_1 /\ freescn' = NULL
      /\ UNCHANGED << e_ehdr, alloc, listed, s_index >>
  BY DEF elf_end, list
<1>2. \A f \in listed : Ahead(f)'
  <2>1. SUFFICES ASSUME NEW f \in listed
                 PROVE  e_scn_1 # NULL /\ s_index[e_scn_1] <= s_index[f]
    BY <1>1 DEF Ahead
  <2>2. e_scn_1 # NULL /\ s_index[e_scn_1] = 0
    BY DEF IInv, IndexIsRank
  <2>3. s_index[f] \in Nat
    BY DEF IInv, TypeOK
  <2>4. QED  BY <2>2, <2>3
<1>3. scn' \in listed' \cup {NULL}
  BY <1>1 DEF IInv, IndexIsRank
<1>4. OwnedFree'
  BY <1>1, <1>2 DEF WInv, OwnedOpen, OwnedFree
<1>5. AheadLive'
  BY <1>1 DEF IInv, ListIsAllocated, AheadLive
<1>6. QED
  BY <1>1, <1>3, <1>4, <1>5
  DEF WInv, OwnedOpen, WalkType, PendingFree, WalkReadsLive, NothingLeft

(***************************************************************************)
(* One section of the walk.                                                *)
(***************************************************************************)
LEMMA FreeScnStep ==
    ASSUME IInv, WInv, FreeScn
    PROVE  WInv'
<1>1. /\ phase = "free" /\ phase' = "free" /\ scn # NULL /\ scn \in alloc
      /\ scn' = s_link[scn]
      /\ UNCHANGED << e_ehdr, listed, s_index, e_scn_n, s_link >>
      /\ IF SFreeme(scn)
         THEN alloc' = alloc \ Memory(freescn) /\ freescn' = scn
         ELSE alloc' = alloc /\ freescn' = freescn
  BY DEF FreeScn, list
<1>2. /\ scn \in listed /\ listed \subseteq Scn /\ NULL \notin Scn
      /\ \A f \in listed : s_index[f] \in Nat
  BY <1>1, SectionListAssumption DEF WInv, WalkType, IInv, TypeOK
<1>3. /\ e_scn_n \in listed /\ s_link[e_scn_n] = NULL
      /\ \A t \in listed :
           /\ t # e_scn_n => /\ s_link[t] \in listed
                             /\ s_index[s_link[t]] = s_index[t] + 1
           /\ s_index[t] <= s_index[e_scn_n]
           /\ \A r \in listed : s_index[t] = s_index[r] => t = r
  BY <1>2 DEF IInv, IndexIsRank
<1>4. /\ scn' \in listed \cup {NULL}
      /\ scn' # NULL => s_index[scn'] = s_index[scn] + 1
  BY <1>1, <1>2, <1>3
<1>5. \A f \in listed : Ahead(f)' <=> s_index[scn] < s_index[f]
  <2>1. SUFFICES ASSUME NEW f \in listed
                 PROVE  Ahead(f)' <=> s_index[scn] < s_index[f]
    OBVIOUS
  <2>2. Ahead(f)' <=> scn' # NULL /\ s_index[scn'] <= s_index[f]
    BY <1>1 DEF Ahead
  <2>3. s_index[f] \in Nat /\ s_index[scn] \in Nat /\ s_index[f] <= s_index[e_scn_n]
    BY <1>2, <1>3
  <2>4. CASE scn = e_scn_n
    BY <1>1, <1>2, <1>3, <2>2, <2>3, <2>4
  <2>5. CASE scn # e_scn_n
    <3>1. scn' # NULL /\ s_index[scn'] = s_index[scn] + 1
      BY <1>1, <1>2, <1>3, <2>5
    <3>2. QED  BY <2>2, <2>3, <3>1
  <2>6. QED  BY <2>4, <2>5
<1>6. \A f \in listed : Ahead(f) <=> f = scn \/ s_index[scn] < s_index[f]
  <2>1. SUFFICES ASSUME NEW f \in listed
                 PROVE  Ahead(f) <=> f = scn \/ s_index[scn] < s_index[f]
    OBVIOUS
  <2>2. s_index[f] \in Nat /\ s_index[scn] \in Nat
    BY <1>2
  <2>3. s_index[f] = s_index[scn] => f = scn
    BY <1>2, <1>3
  <2>4. QED  BY <1>1, <2>2, <2>3 DEF Ahead
<1>7. freescn # NULL => /\ freescn \in listed /\ SFreeme(freescn)
                        /\ s_index[freescn] < s_index[scn] /\ freescn # scn
  BY <1>1, <1>2 DEF WInv, PendingFree
<1>8. SFreeme(scn) => scn \notin Memory(freescn)
  <2>1. CASE freescn = NULL
    BY <2>1, MemoryNull
  <2>2. CASE freescn # NULL /\ freescn \in Separate
    BY <1>2, <1>7, <2>2, MemoryOf
  <2>3. CASE freescn # NULL /\ freescn \notin Separate
    BY <1>2, <1>7, <2>3, MemoryOf, SectionListAssumption DEF SFreeme
  <2>4. QED  BY <2>1, <2>2, <2>3
<1>9. PendingFree'
  <2>1. CASE SFreeme(scn)
    <3>1. freescn' = scn /\ scn \in alloc'
      BY <1>1, <1>8, <2>1
    <3>2. scn' # NULL => scn' \in listed /\ s_index[scn] < s_index[scn']
      BY <1>2, <1>4
    <3>3. QED  BY <1>1, <1>2, <2>1, <3>1, <3>2 DEF PendingFree, SFreeme
  <2>2. CASE ~SFreeme(scn)
    <3>1. freescn' = freescn /\ alloc' = alloc
      BY <1>1, <2>2
    <3>2. freescn # NULL => freescn \in alloc
      BY DEF WInv, PendingFree
    <3>3. freescn # NULL /\ scn' # NULL => s_index[freescn] < s_index[scn']
      BY <1>2, <1>4, <1>7
    <3>4. QED  BY <1>1, <1>4, <1>7, <3>1, <3>2, <3>3 DEF PendingFree, SFreeme
  <2>3. QED  BY <2>1, <2>2
<1>10. OwnedFree'
  <2>1. SUFFICES ASSUME NEW t \in alloc'
                 PROVE  \E f \in listed' : /\ SFreeme(f) /\ t \in Memory(f)
                                           /\ (f = freescn' \/ Ahead(f)')
    BY DEF OwnedFree, SFreeme, Memory
  <2>2. t \in alloc
    BY <1>1, <2>1
  <2>3. PICK f \in listed : /\ SFreeme(f) /\ t \in Memory(f)
                            /\ (f = freescn \/ Ahead(f))
    BY <1>1, <2>2 DEF WInv, OwnedFree
  <2>4. f = freescn' \/ Ahead(f)'
    BY <1>1, <1>5, <1>6, <2>1, <2>3
  <2>5. QED  BY <1>1, <2>3, <2>4
<1>11. AheadLive'
  <2>1. SUFFICES ASSUME ~Interleaved, NEW f \in listed, s_index[scn] < s_index[f]
                 PROVE  f \in alloc'
    BY <1>1, <1>5 DEF AheadLive, Interleaved
  <2>2. f \in alloc /\ f # scn
    BY <1>1, <1>2, <1>6, <2>1 DEF WInv, AheadLive
  <2>3. SFreeme(scn) /\ freescn # NULL => f \notin Memory(freescn)
    <3>1. SUFFICES ASSUME SFreeme(scn), freescn # NULL PROVE f \notin Memory(freescn)
      OBVIOUS
    <3>2. s_index[freescn] < s_index[f]
      BY <1>2, <1>7, <2>1, <3>1
    <3>3. CASE freescn \in Separate
      <4>1. f # freescn
        BY <1>2, <1>7, <3>1, <3>2
      <4>2. QED  BY <1>2, <1>7, <3>1, <3>3, <4>1, MemoryOf
    <3>4. CASE freescn \notin Separate
      <4>1. scn \in Separate
        BY <1>2, <1>7, <3>1, <3>4, MemoryOf
      <4>2. f \notin Blocked
        BY <1>2, <2>1, <4>1 DEF Interleaved
      <4>3. QED  BY <1>2, <1>7, <3>1, <3>4, <4>2, MemoryOf
    <3>5. QED  BY <3>3, <3>4
  <2>4. QED  BY <1>1, <2>2, <2>3, MemoryNull
<1>12. QED
  BY <1>1, <1>4, <1>9, <1>10, <1>11
  DEF WInv, OwnedOpen, WalkType, WalkReadsLive, NothingLeft

(***************************************************************************)
(* The end of the walk.                                                    *)
(***************************************************************************)
LEMMA FreeLastStep ==
    ASSUME IInv, WInv, FreeLast
    PROVE  WInv'
<1>1. /\ phase = "free" /\ scn = NULL /\ phase' = "done" /\ freescn' = NULL
      /\ alloc' = alloc \ Memory(freescn)
      /\ e_ehdr' = e_ehdr
  BY DEF FreeLast
<1>2. \A t \in alloc : t \in Memory(freescn)
  BY <1>1 DEF WInv, OwnedFree, Ahead
<1>3. alloc' = {}
  BY <1>1, <1>2
<1>4. QED
  BY <1>1, <1>3
  DEF WInv, OwnedOpen, OwnedFree, WalkType, PendingFree, AheadLive,
      WalkReadsLive, NothingLeft

LEMMA FreeUnknownStep ==
    ASSUME IInv, WInv, FreeUnknown
    PROVE  WInv'
<1>1. /\ phase = "free" /\ scn # NULL /\ scn \notin alloc /\ phase' = "undefined"
      /\ UNCHANGED << e_ehdr, alloc, scn, freescn, listed, s_index >>
  BY DEF FreeUnknown, list, walk
<1>2. scn \in listed /\ s_index[scn] \in Nat
  BY <1>1 DEF WInv, WalkType, IInv, TypeOK
<1>3. Ahead(scn)
  BY <1>1, <1>2 DEF Ahead
<1>4. Interleaved
  BY <1>1, <1>2, <1>3 DEF WInv, AheadLive
<1>5. Interleaved'
  BY <1>1, <1>4 DEF Interleaved
<1>6. PendingFree'
  BY <1>1 DEF WInv, PendingFree, SFreeme
<1>7. QED
  BY <1>1, <1>5, <1>6
  DEF WInv, OwnedOpen, OwnedFree, WalkType, AheadLive, WalkReadsLive, NothingLeft

LEMMA WalkFrame ==
    ASSUME WInv, UNCHANGED vars
    PROVE  WInv'
<1>1. UNCHANGED << phase, e_ehdr, alloc, scn, freescn, listed, s_index >>
  BY DEF vars, list, walk
<1>2. Interleaved' = Interleaved
  BY <1>1 DEF Interleaved
<1>3. OwnedOpen' /\ OwnedFree'
  BY <1>1 DEF WInv, OwnedOpen, OwnedFree, Ahead, SFreeme, Memory
<1>4. WalkType' /\ PendingFree' /\ NothingLeft'
  BY <1>1 DEF WInv, WalkType, PendingFree, SFreeme, NothingLeft
<1>5. AheadLive' /\ WalkReadsLive'
  BY <1>1, <1>2 DEF WInv, AheadLive, WalkReadsLive, Ahead
<1>6. QED  BY <1>3, <1>4, <1>5 DEF WInv
-----------------------------------------------------------------------------
LEMMA WalkStep == IInv /\ WInv /\ [Next]_vars => WInv'
<1> SUFFICES ASSUME IInv, WInv, [Next]_vars PROVE WInv'
  OBVIOUS
<1>1. ASSUME NEW n \in 0 .. LoReserve - 1, CookHeader(n) PROVE WInv'
  <2>1. OwnedOpen'
    BY <1>1 DEF CookHeader, list, WInv, OwnedOpen, SFreeme, Memory
  <2>2. QED  BY <1>1, <2>1, EditStep DEF CookHeader
<1>2. ASSUME NEW n \in 1 .. Len(Block), NEW ext \in BOOLEAN,
             NEW hd \in [Blocked -> Headers \cup {Plain}],
             CookSections(n, ext, hd)
      PROVE  WInv'
  BY <1>2, OwnedCook, EditStep DEF CookSections
<1>3. ASSUME NEW s \in Scn, FirstScn(s) PROVE WInv'
  <2>1. listed = {} /\ {s} \in SUBSET Separate
    BY <1>3 DEF FirstScn, MakeScn, IInv, IndexIsRank
  <2>2. OwnedOpen'
    BY <1>3, <2>1, OwnedGrows DEF FirstScn, MakeScn, Editing
  <2>3. QED  BY <1>3, <2>2, EditStep DEF FirstScn, Editing
<1>4. ASSUME NEW s \in Scn, elf_newscn(s) PROVE WInv'
  <2>1. PICK first, last, new : BuildScn(first, last, new, s)
    BY <1>4 DEF elf_newscn
  <2>2. OwnedOpen'
    BY <1>4, <2>1, OwnedGrows DEF elf_newscn, Editing, BuildScn, MakeScn
  <2>3. QED  BY <1>4, <2>1, <2>2, EditStep DEF elf_newscn, Editing, BuildScn
<1>5. ASSUME NEW s \in Scn, elfx_remscn(s) PROVE WInv'
  BY <1>5, OwnedUnlink, EditStep DEF elfx_remscn, Editing
<1>6. ASSUME NEW s \in Scn, elf_delscn(s) PROVE WInv'
  BY <1>6, OwnedUnlink, EditStep DEF elf_delscn, Editing
<1>7. ASSUME NEW s \in Scn, NEW after \in Scn, elfx_movscn(s, after)
      PROVE  WInv'
  <2>1. OwnedOpen'
    BY <1>7 DEF elfx_movscn, WInv, OwnedOpen, SFreeme, Memory
  <2>2. QED  BY <1>7, <2>1, EditStep DEF elfx_movscn, Editing
<1>8. ASSUME NEW s \in Scn, NEW h \in Headers, SetShdr(s, h) PROVE WInv'
  <2>1. OwnedOpen'
    BY <1>8 DEF SetShdr, list, WInv, OwnedOpen, SFreeme, Memory
  <2>2. QED  BY <1>8, <2>1, EditStep DEF SetShdr, Editing
<1>9. CASE elf_end
  BY <1>9, EndStep
<1>10. CASE FreeScn
  BY <1>10, FreeScnStep
<1>11. CASE FreeUnknown
  BY <1>11, FreeUnknownStep
<1>12. CASE FreeLast
  BY <1>12, FreeLastStep
<1>13. CASE UNCHANGED vars
  BY <1>13, WalkFrame
<1>14. QED
  BY <1>1, <1>2, <1>3, <1>4, <1>5, <1>6, <1>7, <1>8, <1>9, <1>10, <1>11,
     <1>12, <1>13 DEF Next

THEOREM WalkInvariance == Spec => []WInv
<1>1. Init => WInv
  BY InitWInv
<1>2. IInv /\ WInv /\ [Next]_vars => WInv'
  BY WalkStep
<1>3. QED  BY <1>1, <1>2, Invariance, PTL DEF Spec

(***************************************************************************)
(* The section that _elf_free_scns holds back is always still allocated,   *)
(* so nothing is handed to free a second time, whatever order elfx_movscn  *)
(* has left the list in.                                                   *)
(***************************************************************************)
THEOREM NothingFreedTwice == Spec => []FreedOnce
<1>1. WInv => FreedOnce
  BY DEF WInv, PendingFree, FreedOnce
<1>2. QED  BY <1>1, WalkInvariance, PTL

(***************************************************************************)
(* When the walk is over, no section is left allocated, the ones removed   *)
(* from the list before it included.                                       *)
(***************************************************************************)
THEOREM EverySectionFreed == Spec => []NothingLeft
<1>1. WInv => NothingLeft
  BY DEF WInv
<1>2. QED  BY <1>1, WalkInvariance, PTL

(***************************************************************************)
(* As long as no section from elf_newscn stands before one of the block,   *)
(* the walk reads no section after its memory was given back.              *)
(***************************************************************************)
THEOREM NoReadAfterFree == Spec => []WalkReadsLive
<1>1. WInv => WalkReadsLive
  BY DEF WInv
<1>2. QED  BY <1>1, WalkInvariance, PTL

-----------------------------------------------------------------------------
(***************************************************************************)
(* What the edits of SectionSeq do to a sequence, place by place.          *)
(***************************************************************************)
Joined(X, s, t) ==
    /\ s \o t \in Seq(X)
    /\ Len(s \o t) = Len(s) + Len(t)
    /\ \A k \in 1 .. Len(s) + Len(t) : (s \o t)[k] = IF k <= Len(s) THEN s[k] ELSE t[k - Len(s)]

LEMMA JoinedFact ==
    ASSUME NEW X, NEW s \in Seq(X), NEW t \in Seq(X)
    PROVE  Joined(X, s, t)
  BY ConcatProperties DEF Joined

LEMMA Removed ==
    ASSUME NEW X, NEW xs \in Seq(X), NEW i \in 1 .. Len(xs)
    PROVE  /\ S!RemoveAt(xs, i) \in Seq(X)
           /\ Len(S!RemoveAt(xs, i)) = Len(xs) - 1
           /\ \A k \in 1 .. Len(xs) - 1 :
                  S!RemoveAt(xs, i)[k] = IF k < i THEN xs[k] ELSE xs[k + 1]
<1> DEFINE front == SubSeq(xs, 1, i - 1)
           back  == SubSeq(xs, i + 1, Len(xs))
<1>1. Len(xs) \in Nat /\ \A k \in 1 .. Len(xs) : xs[k] \in X
  OBVIOUS
<1>2. front \in Seq(X) /\ Len(front) = i - 1 /\ \A k \in 1 .. i - 1 : front[k] = xs[k]
  BY <1>1, SubSeqProperties
<1>3. /\ back \in Seq(X) /\ Len(back) = Len(xs) - i
      /\ \A k \in 1 .. Len(xs) - i : back[k] = xs[i + k]
  BY <1>1, SubSeqProperties
<1>4. S!RemoveAt(xs, i) = front \o back
  BY DEF S!RemoveAt
<1> HIDE DEF front, back
<1>5. /\ front \o back \in Seq(X) /\ Len(front \o back) = Len(xs) - 1
      /\ \A k \in 1 .. Len(xs) - 1 :
             (front \o back)[k] = IF k <= i - 1 THEN front[k] ELSE back[k - (i - 1)]
  <2>1. /\ front \o back \in Seq(X)
        /\ Len(front \o back) = Len(front) + Len(back)
        /\ \A k \in 1 .. Len(front) + Len(back) :
               (front \o back)[k] = IF k <= Len(front) THEN front[k]
                                    ELSE back[k - Len(front)]
    <3>1. Joined(X, front, back)
      BY <1>2, <1>3, JoinedFact
    <3>2. QED  BY <3>1 DEF Joined
  <2>2. Len(front) + Len(back) = Len(xs) - 1
    BY <1>1, <1>2, <1>3
  <2>3. QED  BY <1>2, <2>1, <2>2
<1>6. ASSUME NEW k \in 1 .. Len(xs) - 1
      PROVE  (front \o back)[k] = IF k < i THEN xs[k] ELSE xs[k + 1]
  <2>1. CASE k < i
    BY <1>1, <1>2, <1>5, <2>1
  <2>2. CASE k >= i
    <3>1. k - (i - 1) \in 1 .. Len(xs) - i /\ i + (k - (i - 1)) = k + 1
      BY <1>1, <2>2
    <3>2. (front \o back)[k] = back[k - (i - 1)]
      BY <1>1, <1>5, <2>2
    <3>3. QED  BY <1>3, <2>2, <3>1, <3>2
  <2>3. k < i \/ k >= i
    BY <1>1
  <2>4. QED  BY <2>1, <2>2, <2>3
<1>7. QED  BY <1>4, <1>5, <1>6

LEMMA Inserted ==
    ASSUME NEW X, NEW xs \in Seq(X), NEW i \in 1 .. Len(xs) + 1, NEW x \in X
    PROVE  /\ S!InsertAt(xs, i, x) \in Seq(X)
           /\ Len(S!InsertAt(xs, i, x)) = Len(xs) + 1
           /\ \A k \in 1 .. Len(xs) + 1 :
                  S!InsertAt(xs, i, x)[k] = IF k < i THEN xs[k]
                                            ELSE IF k = i THEN x ELSE xs[k - 1]
<1> DEFINE front == SubSeq(xs, 1, i - 1)
           back  == SubSeq(xs, i, Len(xs))
           head  == front \o << x >>
<1>1. Len(xs) \in Nat /\ \A k \in 1 .. Len(xs) : xs[k] \in X
  OBVIOUS
<1>2. front \in Seq(X) /\ Len(front) = i - 1 /\ \A k \in 1 .. i - 1 : front[k] = xs[k]
  BY <1>1, SubSeqProperties
<1>3. /\ back \in Seq(X) /\ Len(back) = Len(xs) - i + 1
      /\ \A k \in 1 .. Len(xs) - i + 1 : back[k] = xs[i + k - 1]
  BY <1>1, SubSeqProperties
<1>4. S!InsertAt(xs, i, x) = head \o back
  BY DEF S!InsertAt
<1> HIDE DEF front, back
<1>5. /\ head \in Seq(X) /\ Len(head) = i
      /\ \A k \in 1 .. i - 1 : head[k] = front[k]
      /\ head[i] = x
  BY <1>1, <1>2, AppendProperties
<1> HIDE DEF head
<1>6. /\ head \o back \in Seq(X) /\ Len(head \o back) = Len(xs) + 1
      /\ \A k \in 1 .. Len(xs) + 1 :
             (head \o back)[k] = IF k <= i THEN head[k] ELSE back[k - i]
  <2>1. /\ head \o back \in Seq(X)
        /\ Len(head \o back) = Len(head) + Len(back)
        /\ \A k \in 1 .. Len(head) + Len(back) :
               (head \o back)[k] = IF k <= Len(head) THEN head[k]
                                   ELSE back[k - Len(head)]
    <3>1. Joined(X, head, back)
      BY <1>3, <1>5, JoinedFact
    <3>2. QED  BY <3>1 DEF Joined
  <2>2. Len(head) + Len(back) = Len(xs) + 1
    BY <1>1, <1>3, <1>5
  <2>3. QED  BY <1>5, <2>1, <2>2
<1>7. ASSUME NEW k \in 1 .. Len(xs) + 1
      PROVE  (head \o back)[k] = IF k < i THEN xs[k]
                                 ELSE IF k = i THEN x ELSE xs[k - 1]
  <2>1. CASE k < i
    BY <1>1, <1>2, <1>5, <1>6, <2>1
  <2>2. CASE k = i
    BY <1>1, <1>5, <1>6, <2>2
  <2>3. CASE k > i
    <3>1. k - i \in 1 .. Len(xs) - i + 1 /\ i + (k - i) - 1 = k - 1
      BY <1>1, <2>3
    <3>2. (head \o back)[k] = back[k - i]
      BY <1>1, <1>6, <2>3
    <3>3. back[k - i] = xs[i + (k - i) - 1]
      BY <1>3, <3>1
    <3>4. (head \o back)[k] = xs[k - 1]
      BY <3>1, <3>2, <3>3
    <3>5. ~(k < i) /\ k # i
      BY <1>1, <2>3
    <3>6. QED  BY <3>4, <3>5
  <2>4. k < i \/ k = i \/ k > i
    BY <1>1
  <2>5. QED  BY <2>1, <2>2, <2>3, <2>4
<1>8. QED  BY <1>4, <1>6, <1>7

(***************************************************************************)
(* An element taken out of a sequence and put behind "at" others.          *)
(***************************************************************************)
Put(xs, i, at) == S!InsertAt(S!RemoveAt(xs, i), at + 1, xs[i])

LEMMA TakenAndPut ==
    ASSUME NEW X, NEW xs \in Seq(X), NEW i \in 1 .. Len(xs), NEW at \in 0 .. Len(xs) - 1
    PROVE  /\ Put(xs, i, at) \in Seq(X) /\ Len(Put(xs, i, at)) = Len(xs)
           /\ \A k \in 1 .. Len(xs) :
                  Put(xs, i, at)[k] = IF k < at + 1 THEN S!RemoveAt(xs, i)[k]
                                      ELSE IF k = at + 1 THEN xs[i]
                                      ELSE S!RemoveAt(xs, i)[k - 1]
<1> DEFINE rest == S!RemoveAt(xs, i)
           p    == at + 1
           x    == xs[i]
<1>1. Len(xs) \in Nat /\ x \in X
  OBVIOUS
<1>2. rest \in Seq(X) /\ Len(rest) = Len(xs) - 1
  BY Removed
<1> HIDE DEF rest
<1>3. p \in 1 .. Len(rest) + 1 /\ Len(rest) + 1 = Len(xs)
  BY <1>1, <1>2
<1>4. Put(xs, i, at) = S!InsertAt(rest, p, x)
  BY DEF Put, rest
<1> HIDE DEF p, x
<1>5. S!InsertAt(rest, p, x) \in Seq(X)
  BY <1>1, <1>2, <1>3, Inserted
<1>6. Len(S!InsertAt(rest, p, x)) = Len(rest) + 1
  BY <1>1, <1>2, <1>3, Inserted
<1>7. \A k \in 1 .. Len(rest) + 1 :
          S!InsertAt(rest, p, x)[k] = IF k < p THEN rest[k]
                                      ELSE IF k = p THEN x ELSE rest[k - 1]
  BY <1>1, <1>2, <1>3, Inserted
<1>8. \A k \in 1 .. Len(xs) :
          Put(xs, i, at)[k] = IF k < p THEN rest[k]
                              ELSE IF k = p THEN x ELSE rest[k - 1]
  BY <1>3, <1>4, <1>7
<1>9. QED  BY <1>3, <1>4, <1>5, <1>6, <1>8 DEF p, x, rest
-----------------------------------------------------------------------------
(***************************************************************************)
(* The sequence a list stands for.                                         *)
(***************************************************************************)
LEMMA SecsOfList ==
    ASSUME TypeOK, IndexIsRank, listed # {}
    PROVE  /\ Secs \in Seq(SUBSET Scn) /\ Len(Secs) = s_index[e_scn_n] + 1
           /\ s_index[e_scn_n] \in Nat
           /\ \A k \in 1 .. Len(Secs) : \E t \in listed : s_index[t] = k - 1
           /\ \A t \in listed : /\ s_index[t] + 1 \in 1 .. Len(Secs)
                                /\ Secs[s_index[t] + 1] = {t}
<1>1. /\ e_scn_n \in listed /\ listed \subseteq Scn /\ s_index \in [Scn -> Nat]
      /\ \A s \in listed : s_index[s] <= s_index[e_scn_n]
      /\ \A s, t \in listed : s_index[s] = s_index[t] => s = t
  BY DEF IndexIsRank, TypeOK
<1>2. s_index[e_scn_n] \in Nat /\ Cardinality(listed) = s_index[e_scn_n] + 1
  BY <1>1, LastGivesCount
<1>3. Secs = [k \in 1 .. s_index[e_scn_n] + 1 |-> {s \in listed : s_index[s] = k - 1}]
  BY <1>2 DEF Secs
<1>4. Secs \in Seq(SUBSET Scn) /\ Len(Secs) = s_index[e_scn_n] + 1
  <2>1. \A k \in 1 .. s_index[e_scn_n] + 1 :
            {s \in listed : s_index[s] = k - 1} \in SUBSET Scn
    BY <1>1
  <2>2. Secs \in [1 .. s_index[e_scn_n] + 1 -> SUBSET Scn]
    BY <1>3, <2>1
  <2>3. s_index[e_scn_n] + 1 \in Nat
    BY <1>2
  <2>4. QED  BY <2>2, <2>3, SeqDef
<1>5. ASSUME NEW k \in 1 .. Len(Secs)
      PROVE  \E t \in listed : s_index[t] = k - 1
  <2>1. k - 1 \in 0 .. s_index[e_scn_n]
    BY <1>2, <1>4
  <2>2. QED  BY <2>1, NoNumberFree
<1>6. ASSUME NEW t \in listed
      PROVE  s_index[t] + 1 \in 1 .. Len(Secs) /\ Secs[s_index[t] + 1] = {t}
  <2>1. s_index[t] \in Nat /\ s_index[t] + 1 \in 1 .. s_index[e_scn_n] + 1
    BY <1>1, <1>2
  <2>2. Secs[s_index[t] + 1] = {s \in listed : s_index[s] = s_index[t]}
    BY <1>1, <1>3, <2>1
  <2>3. {s \in listed : s_index[s] = s_index[t]} = {t}
    BY <1>1
  <2>4. QED  BY <1>4, <2>1, <2>2, <2>3
<1>7. QED  BY <1>2, <1>4, <1>5, <1>6

LEMMA SecsOfNothing ==
    ASSUME listed = {}
    PROVE  Secs = << >>
<1>1. Cardinality(listed) = 0
  BY FS_EmptySet
<1>2. QED  BY <1>1 DEF Secs

LEMMA SecsDiffer ==
    ASSUME TypeOK, IndexIsRank, listed # {}
    PROVE  Secs # << >> /\ S!IsInjective(Secs)
<1>1. Secs # << >>
  BY SecsOfList
<1>2. ASSUME NEW j \in DOMAIN Secs, NEW k \in DOMAIN Secs, Secs[j] = Secs[k]
      PROVE  j = k
  <2>1. j \in 1 .. Len(Secs) /\ k \in 1 .. Len(Secs)
    BY SecsOfList
  <2>2. PICK t \in listed : s_index[t] = j - 1
    BY <2>1, SecsOfList
  <2>3. PICK r \in listed : s_index[r] = k - 1
    BY <2>1, SecsOfList
  <2>4. s_index[t] + 1 = j /\ s_index[r] + 1 = k
    BY <2>1, <2>2, <2>3
  <2>5. Secs[s_index[t] + 1] = {t} /\ Secs[s_index[r] + 1] = {r}
    BY SecsOfList
  <2>6. t = r
    BY <1>2, <2>4, <2>5
  <2>7. QED  BY <2>4, <2>6
<1>3. QED  BY <1>1, <1>2 DEF S!IsInjective

LEMMA SecsAfter ==
    ASSUME TypeOK', IndexIsRank', listed' # {}
    PROVE  /\ Secs' \in Seq(SUBSET Scn) /\ Len(Secs') = s_index'[e_scn_n'] + 1
           /\ s_index'[e_scn_n'] \in Nat
           /\ \A k \in 1 .. Len(Secs') : \E t \in listed' : s_index'[t] = k - 1
           /\ \A t \in listed' : /\ s_index'[t] + 1 \in 1 .. Len(Secs')
                                 /\ Secs'[s_index'[t] + 1] = {t}
           /\ Secs' # << >> /\ S!IsInjective(Secs')
<1>1. (TypeOK /\ IndexIsRank /\ listed # {} =>
           /\ Secs \in Seq(SUBSET Scn) /\ Len(Secs) = s_index[e_scn_n] + 1
           /\ s_index[e_scn_n] \in Nat
           /\ \A k \in 1 .. Len(Secs) : \E t \in listed : s_index[t] = k - 1
           /\ \A t \in listed : /\ s_index[t] + 1 \in 1 .. Len(Secs)
                                /\ Secs[s_index[t] + 1] = {t}
           /\ Secs # << >> /\ S!IsInjective(Secs))'
  BY SecsOfList, SecsDiffer, PTL
<1>2. QED  BY <1>1
-----------------------------------------------------------------------------
(***************************************************************************)
(* One edit of the list is one edit of the sequence.                       *)
(***************************************************************************)
LEMMA LoadStep ==
    ASSUME TypeOK', IndexIsRank', listed = {}, listed' # {}
    PROVE  S!Load
  BY SecsOfNothing, SecsAfter DEF S!Load

LEMMA AppendStep ==
    ASSUME TypeOK, IndexIsRank, TypeOK', IndexIsRank', e_scn_1 # NULL,
           NEW s \in Scn, s \notin listed, BuildScn(e_scn_1, e_scn_n, {s}, s)
    PROVE  S!Append1
<1>1. e_scn_1 \in listed /\ e_scn_n \in listed /\ listed \subseteq Scn
  BY DEF IndexIsRank, TypeOK
<1>2. /\ listed' = listed \cup {s} /\ e_scn_n' = s
      /\ s_index'[s] = s_index[e_scn_n] + 1
      /\ \A t \in listed : s_index'[t] = s_index[t]
  BY <1>1 DEF BuildScn
<1>3. /\ Secs \in Seq(SUBSET Scn) /\ Len(Secs) = s_index[e_scn_n] + 1
      /\ s_index[e_scn_n] \in Nat
      /\ \A k \in 1 .. Len(Secs) : \E t \in listed : s_index[t] = k - 1
      /\ \A t \in listed : Secs[s_index[t] + 1] = {t}
      /\ Secs # << >>
  BY <1>1, SecsOfList, SecsDiffer
<1>4. /\ Secs' \in Seq(SUBSET Scn) /\ Len(Secs') = Len(Secs) + 1
      /\ \A t \in listed : Secs'[s_index[t] + 1] = {t}
      /\ S!IsInjective(Secs')
  BY <1>1, <1>2, <1>3, SecsAfter
<1>5. ASSUME NEW k \in 1 .. Len(Secs)
      PROVE  Secs'[k] = Secs[k]
  <2>1. PICK t \in listed : s_index[t] = k - 1
    BY <1>3
  <2>2. s_index[t] + 1 = k
    BY <2>1
  <2>3. QED  BY <1>3, <1>4, <2>2
<1>6. S!IsPrefix(Secs, Secs')
  <2> DEFINE n == Len(Secs)
  <2>1. n \in Nat /\ n <= Len(Secs')
    BY <1>3, <1>4
  <2>2. /\ SubSeq(Secs, 1, n) \in Seq(SUBSET Scn) /\ Len(SubSeq(Secs, 1, n)) = n
        /\ \A k \in 1 .. n : SubSeq(Secs, 1, n)[k] = Secs[k]
    BY <1>3, <2>1, SubSeqProperties
  <2>3. /\ SubSeq(Secs', 1, n) \in Seq(SUBSET Scn) /\ Len(SubSeq(Secs', 1, n)) = n
        /\ \A k \in 1 .. n : SubSeq(Secs', 1, n)[k] = Secs'[k]
    BY <1>4, <2>1, SubSeqProperties
  <2>4. SubSeq(Secs, 1, n) = SubSeq(Secs', 1, n)
    BY <1>5, <2>2, <2>3, SeqEqual
  <2>5. QED  BY <2>1, <2>4 DEF S!IsPrefix
<1>7. QED  BY <1>3, <1>4, <1>6 DEF S!Append1

LEMMA RemoveStep ==
    ASSUME TypeOK, IndexIsRank, TypeOK', IndexIsRank', NEW s \in Scn, Unlink(s)
    PROVE  S!RemoveOne
<1>1. PICK pscn \in listed :
        /\ s \in listed /\ s # e_scn_1
        /\ s_link[pscn] = s
        /\ e_scn_n' = IF e_scn_n = s THEN pscn ELSE e_scn_n
        /\ listed' = listed \ {s} /\ e_scn_1' = e_scn_1
        /\ s_index' = [t \in Scn |->
               IF t \in listed /\ s_index[t] > s_index[s] THEN s_index[t] - 1
               ELSE IF t = s THEN 0 ELSE s_index[t]]
  BY DEF Unlink
<1>2. /\ listed \subseteq Scn /\ s_index \in [Scn -> Nat] /\ NULL \notin Scn
      /\ e_scn_1 \in listed /\ e_scn_n \in listed
      /\ s_index[e_scn_1] = 0 /\ s_link[e_scn_n] = NULL
      /\ \A t \in listed :
           /\ t # e_scn_n => s_index[s_link[t]] = s_index[t] + 1
           /\ s_index[t] <= s_index[e_scn_n]
           /\ \A r \in listed : s_index[t] = s_index[r] => t = r
  <2>1. /\ listed \subseteq Scn /\ s_index \in [Scn -> Nat] /\ NULL \notin Scn
    BY SectionListAssumption DEF TypeOK
  <2>2. QED  BY <1>1, <2>1 DEF IndexIsRank
<1> DEFINE i == s_index[s] + 1
<1>3. /\ Secs \in Seq(SUBSET Scn) /\ Len(Secs) = s_index[e_scn_n] + 1
      /\ \A t \in listed : Secs[s_index[t] + 1] = {t}
      /\ s_index[e_scn_n] \in Nat
  BY <1>1, SecsOfList
<1>4. i \in 2 .. Len(Secs) /\ s_index[s] \in Nat
  <2>1. s_index[s] \in Nat /\ s_index[s] # 0 /\ s_index[s] <= s_index[e_scn_n]
    BY <1>1, <1>2
  <2>2. QED  BY <1>3, <2>1
<1>5. \A t \in listed' : /\ s_index[t] \in Nat /\ s_index[t] # s_index[s]
                         /\ s_index'[t] = IF s_index[t] > s_index[s]
                                          THEN s_index[t] - 1 ELSE s_index[t]
  BY <1>1, <1>2
<1>6. s_index'[e_scn_n'] = s_index[e_scn_n] - 1
  <2>1. CASE e_scn_n = s
    <3>1. pscn # e_scn_n /\ s_index[s] = s_index[pscn] + 1 /\ pscn # s
      BY <1>1, <1>2, <2>1
    <3>2. e_scn_n' = pscn /\ pscn \in listed'
      BY <1>1, <2>1, <3>1
    <3>3. QED  BY <1>5, <2>1, <3>1, <3>2
  <2>2. CASE e_scn_n # s
    <3>1. e_scn_n' = e_scn_n /\ e_scn_n \in listed'
      BY <1>1, <1>2, <2>2
    <3>2. s_index[e_scn_n] # s_index[s] /\ s_index[s] <= s_index[e_scn_n]
      BY <1>1, <1>2, <2>2
    <3>3. QED  BY <1>3, <1>4, <1>5, <3>1, <3>2
  <2>3. QED  BY <2>1, <2>2
<1>7. /\ Secs' \in Seq(SUBSET Scn) /\ Len(Secs') = Len(Secs) - 1
      /\ \A k \in 1 .. Len(Secs') : \E t \in listed' : s_index'[t] = k - 1
      /\ \A t \in listed' : Secs'[s_index'[t] + 1] = {t}
  <2>1. listed' # {}
    BY <1>1, <1>2
  <2>2. QED  BY <1>3, <1>6, <2>1, SecsAfter
<1>8. /\ S!RemoveAt(Secs, i) \in Seq(SUBSET Scn)
      /\ Len(S!RemoveAt(Secs, i)) = Len(Secs) - 1
      /\ \A k \in 1 .. Len(Secs) - 1 :
             S!RemoveAt(Secs, i)[k] = IF k < i THEN Secs[k] ELSE Secs[k + 1]
  <2>1. i \in 1 .. Len(Secs)
    BY <1>4
  <2> HIDE DEF i
  <2>2. Secs \in Seq(SUBSET Scn)
    BY <1>3
  <2>3. QED  BY ONLY <2>1, <2>2, Removed
<1>9. ASSUME NEW k \in 1 .. Len(Secs')
      PROVE  Secs'[k] = S!RemoveAt(Secs, i)[k]
  <2>1. PICK t \in listed' : s_index'[t] = k - 1
    BY <1>7
  <2>2. s_index'[t] + 1 = k /\ k \in 1 .. Len(Secs) - 1
    BY <1>7, <2>1
  <2>3. Secs'[k] = {t}
    BY <1>7, <2>2
  <2>4. s_index[t] + 1 = IF k < i THEN k ELSE k + 1
    <3>1. /\ s_index[t] \in Nat /\ s_index[t] # s_index[s]
          /\ k - 1 = IF s_index[t] > s_index[s] THEN s_index[t] - 1 ELSE s_index[t]
      BY <1>5, <2>1
    <3>2. k \in Nat /\ s_index[s] \in Nat
      BY <1>4, <2>2
    <3>3. QED  BY <3>1, <3>2
  <2>5. Secs[s_index[t] + 1] = {t}
    BY <1>1, <1>3
  <2>6. S!RemoveAt(Secs, i)[k] = {t}
    BY <1>8, <2>2, <2>4, <2>5
  <2>7. QED  BY <2>3, <2>6
<1> HIDE DEF i
<1>10. Secs' = S!RemoveAt(Secs, i)
  BY <1>7, <1>8, <1>9, SeqEqual
<1>11. QED  BY <1>4, <1>10 DEF S!RemoveOne

LEMMA MoveStep ==
    ASSUME TypeOK, IndexIsRank, TypeOK', IndexIsRank', NEW s \in Scn,
           NEW after \in Scn, elfx_movscn(s, after)
    PROVE  S!MoveOne
<1>1. /\ s \in listed /\ after \in listed /\ s # e_scn_1 /\ s # after
      /\ s_index' = [t \in Scn |->
             IF t = s THEN Shifted(after, s, after) + 1
             ELSE IF t \in listed THEN Shifted(t, s, after) ELSE s_index[t]]
      /\ listed' = listed
  BY DEF elfx_movscn
<1>2. /\ listed \subseteq Scn /\ s_index \in [Scn -> Nat]
      /\ e_scn_1 \in listed /\ s_index[e_scn_1] = 0
      /\ \A t, r \in listed : s_index[t] = s_index[r] => t = r
  BY <1>1 DEF TypeOK, IndexIsRank
<1> DEFINE i    == s_index[s] + 1
           j    == s_index[after] + 1
           n    == Len(Secs)
           at   == IF j < i THEN j ELSE j - 1
           rest == S!RemoveAt(Secs, i)
           new  == Put(Secs, i, at)
<1>3. /\ Secs \in Seq(SUBSET Scn) /\ n = s_index[e_scn_n] + 1
      /\ s_index[e_scn_n] \in Nat
      /\ \A t \in listed : /\ s_index[t] + 1 \in 1 .. n
                           /\ Secs[s_index[t] + 1] = {t}
  BY <1>1, SecsOfList
<1>4. /\ n \in Nat /\ i \in 2 .. n /\ i \in 1 .. n /\ j \in 1 .. n /\ i # j
      /\ Secs[i] = {s}
  <2>1. s_index[s] \in Nat /\ s_index[s] # 0 /\ s_index[s] # s_index[after]
    BY <1>1, <1>2
  <2>2. i \in 1 .. n /\ j \in 1 .. n /\ Secs[i] = {s}
    BY <1>1, <1>3
  <2>3. s_index[after] \in Nat
    BY <1>1, <1>2
  <2>4. i # j /\ i # 1 /\ i \in Nat
    BY <2>1, <2>3
  <2>5. n \in Nat
    BY <1>3
  <2> HIDE DEF i, j, n
  <2>6. QED  BY <2>2, <2>4, <2>5
<1>5. s_index'[e_scn_n'] = s_index[e_scn_n]
  <2>1. Cardinality(listed) = s_index[e_scn_n] + 1
    BY <1>1, LastGivesCount
  <2>2. (TypeOK /\ IndexIsRank /\ listed # {}
             => Cardinality(listed) = s_index[e_scn_n] + 1 /\ s_index[e_scn_n] \in Nat)'
    BY LastGivesCount, SecsOfList, PTL
  <2>3. QED  BY <1>1, <1>3, <2>1, <2>2
<1>6. /\ Secs' \in Seq(SUBSET Scn) /\ Len(Secs') = n
      /\ \A k \in 1 .. n : \E t \in listed : s_index'[t] = k - 1
      /\ \A t \in listed : Secs'[s_index'[t] + 1] = {t}
  <2>1. listed' # {}
    BY <1>1
  <2>2. QED  BY <1>1, <1>3, <1>5, <2>1, SecsAfter
<1>7. /\ \A t \in listed : t # s =>
             s_index'[t] = IF s_index[s] < s_index[t] /\ s_index[t] <= s_index[after]
                           THEN s_index[t] - 1
                           ELSE IF s_index[after] < s_index[t] /\ s_index[t] < s_index[s]
                                THEN s_index[t] + 1 ELSE s_index[t]
      /\ s_index'[s] = (IF s_index[s] < s_index[after] THEN s_index[after] - 1
                        ELSE s_index[after]) + 1
  <2>1. s_index[after] \in Nat /\ s_index[s] \in Nat
    BY <1>1, <1>2
  <2>2. Shifted(after, s, after) = IF s_index[s] < s_index[after] THEN s_index[after] - 1
                                   ELSE s_index[after]
    BY <2>1 DEF Shifted
  <2>3. QED  BY <1>1, <1>2, <2>2 DEF Shifted
<1>8. at \in 0 .. n - 1
  <2> HIDE DEF i, j, n
  <2>1. QED  BY <1>4
<1>9. /\ new \in Seq(SUBSET Scn) /\ Len(new) = Len(Secs)
      /\ \A k \in 1 .. n - 1 : rest[k] = IF k < i THEN Secs[k] ELSE Secs[k + 1]
      /\ \A k \in 1 .. n : new[k] = IF k < at + 1 THEN rest[k]
                                    ELSE IF k = at + 1 THEN Secs[i] ELSE rest[k - 1]
  <2>1. Secs \in Seq(SUBSET Scn) /\ i \in 1 .. Len(Secs) /\ at \in 0 .. Len(Secs) - 1
    BY <1>3, <1>4, <1>8
  <2> HIDE DEF at, i
  <2>2. QED  BY <2>1, Removed, TakenAndPut
<1>11. ASSUME NEW k \in 1 .. n PROVE Secs'[k] = new[k]
  <2>1. PICK t \in listed : s_index'[t] = k - 1
    BY <1>6
  <2> DEFINE x == s_index[t] + 1
  <2>2. Secs'[k] = {t}
    <3>1. s_index'[t] + 1 = k
      BY <1>4, <2>1
    <3>2. QED  BY <1>6, <3>1
  <2>3. x \in 1 .. n /\ Secs[x] = {t}
    BY <1>3
  <2>4. CASE t = s
    <3>1. s_index[s] \in Nat /\ s_index[after] \in Nat /\ s_index[s] # s_index[after]
      BY <1>1, <1>2
    <3>2. k = at + 1
      BY <1>7, <2>1, <2>4, <3>1
    <3> HIDE DEF new, at, rest, i, n
    <3>3. new[k] = Secs[i]
      BY <1>4, <1>8, <1>9, <3>2
    <3>4. QED  BY <1>4, <2>2, <2>4, <3>3
  <2>5. CASE t # s
    <3>1. /\ s_index[s] \in Nat /\ s_index[after] \in Nat /\ s_index[t] \in Nat
          /\ s_index[s] # s_index[after] /\ s_index[t] # s_index[s]
      BY <1>1, <1>2, <2>5
    <3>2. k = IF i < x /\ x <= j THEN x - 1 ELSE IF j < x /\ x < i THEN x + 1 ELSE x
      <4>1. s_index'[t] = IF s_index[s] < s_index[t] /\ s_index[t] <= s_index[after]
                          THEN s_index[t] - 1
                          ELSE IF s_index[after] < s_index[t] /\ s_index[t] < s_index[s]
                               THEN s_index[t] + 1 ELSE s_index[t]
        BY <1>7, <2>5
      <4>2. k - 1 = s_index'[t] /\ k \in Nat
        BY <1>4, <2>1
      <4> HIDE DEF n
      <4>3. CASE s_index[s] < s_index[t] /\ s_index[t] <= s_index[after]
        BY <3>1, <4>1, <4>2, <4>3
      <4>4. CASE s_index[after] < s_index[t] /\ s_index[t] < s_index[s]
        <5>1. s_index'[t] = s_index[t] + 1
          BY <3>1, <4>1, <4>4
        <5>2. k = x + 1
          BY <3>1, <4>2, <5>1
        <5>3. j < x /\ x < i /\ ~(i < x)
          BY <3>1, <4>4
        <5> QED BY <5>2, <5>3
      <4>5. CASE /\ ~(s_index[s] < s_index[t] /\ s_index[t] <= s_index[after])
                 /\ ~(s_index[after] < s_index[t] /\ s_index[t] < s_index[s])
        BY <3>1, <4>1, <4>2, <4>5
      <4>6. QED  BY <4>3, <4>4, <4>5
    <3>3. x # i
      BY <3>1
    <3> HIDE DEF new, rest, i, j, n, x
    <3>4. k # at + 1
      BY <1>4, <2>3, <3>2, <3>3
    <3>5. /\ k < at + 1 /\ k < i => x = k
          /\ k < at + 1 /\ k >= i => x = k + 1
          /\ k > at + 1 /\ k - 1 < i => x = k - 1
          /\ k > at + 1 /\ k - 1 >= i => x = k
      BY <1>4, <2>3, <3>2, <3>3, <3>4
    <3> HIDE DEF at
    <3>6. CASE k < at + 1
      <4>1. k \in 1 .. n - 1 /\ new[k] = rest[k]
        BY <1>4, <1>8, <1>9, <3>6
      <4>2. rest[k] = Secs[x]
        BY <1>4, <1>9, <3>5, <3>6, <4>1
      <4>3. QED  BY <2>2, <2>3, <4>1, <4>2
    <3>7. CASE k > at + 1
      <4>1. k - 1 \in 1 .. n - 1 /\ new[k] = rest[k - 1]
        BY <1>4, <1>8, <1>9, <3>7
      <4>2. rest[k - 1] = IF k - 1 < i THEN Secs[k - 1] ELSE Secs[k]
        BY <1>4, <1>9, <4>1
      <4>3. QED  BY <1>4, <2>2, <2>3, <3>5, <3>7, <4>1, <4>2
    <3>8. k < at + 1 \/ k > at + 1
      BY <1>4, <1>8, <3>4
    <3>9. QED  BY <3>6, <3>7, <3>8
  <2>6. QED  BY <2>4, <2>5
<1> HIDE DEF new
<1>12. Secs' = new
  BY <1>6, <1>9, <1>11, SeqEqual
<1>13. S!MoveAfter(i, j)
  BY <1>12 DEF S!MoveAfter, new, Put
<1> HIDE DEF i, j
<1>14. QED  BY <1>4, <1>13 DEF S!MoveOne, n
-----------------------------------------------------------------------------
LEMMA SameSecs ==
    ASSUME UNCHANGED list
    PROVE  UNCHANGED Secs
  BY DEF list, Secs

LEMMA RefinesStep ==
    IInv /\ IInv' /\ CInv /\ [Next]_vars => [S!Next]_Secs
<1> SUFFICES ASSUME IInv, IInv', CInv, [Next]_vars PROVE [S!Next]_Secs
  OBVIOUS
<1> USE DEF S!Next
<1>0. TypeOK /\ IndexIsRank /\ TypeOK' /\ IndexIsRank'
  BY DEF IInv
<1>1. ASSUME NEW n \in 0 .. LoReserve - 1, CookHeader(n) PROVE [S!Next]_Secs
  BY <1>1, SameSecs DEF CookHeader
<1>2. ASSUME NEW n \in 1 .. Len(Block), NEW ext \in BOOLEAN,
             NEW hd \in [Blocked -> Headers \cup {Plain}],
             CookSections(n, ext, hd)
      PROVE  [S!Next]_Secs
  <2>1. listed = {}
    BY <1>2 DEF CookSections, CInv, NoHeaderNoList
  <2>2. e_scn_1' = Block[1] /\ Block[1] \in Scn
    BY <1>2, NumType, ScnParts DEF CookSections
  <2>3. listed' # {}
    BY <1>0, <2>2, SectionListAssumption DEF IndexIsRank
  <2>4. QED  BY <1>0, <2>1, <2>3, LoadStep
<1>3. ASSUME NEW s \in Scn, FirstScn(s) PROVE [S!Next]_Secs
  <2>1. listed = {} /\ listed' # {}
    BY <1>0, <1>3 DEF FirstScn, IndexIsRank
  <2>2. QED  BY <1>0, <2>1, LoadStep
<1>4. ASSUME NEW s \in Scn, elf_newscn(s) PROVE [S!Next]_Secs
  <2>1. CASE e_scn_1 # NULL /\ BuildScn(e_scn_1, e_scn_n, {s}, s)
    <3>1. s \notin listed
      BY <1>4, <2>1 DEF elf_newscn, Editing, BuildScn, MakeScn, IInv, ListIsAllocated
    <3>2. QED  BY <1>0, <2>1, <3>1, AppendStep
  <2>2. ASSUME NEW first \in Separate \ {s}, e_scn_1 = NULL,
               BuildScn(first, first, {first, s}, s)
        PROVE  [S!Next]_Secs
    <3>1. listed = {} /\ listed' # {}
      BY <1>0, <2>2 DEF BuildScn, IndexIsRank
    <3>2. QED  BY <1>0, <3>1, LoadStep
  <2>3. QED  BY <1>4, <2>1, <2>2 DEF elf_newscn
<1>5. ASSUME NEW s \in Scn, elfx_remscn(s) PROVE [S!Next]_Secs
  BY <1>0, <1>5, RemoveStep DEF elfx_remscn
<1>6. ASSUME NEW s \in Scn, elf_delscn(s) PROVE [S!Next]_Secs
  BY <1>0, <1>6, RemoveStep DEF elf_delscn
<1>7. ASSUME NEW s \in Scn, NEW after \in Scn, elfx_movscn(s, after)
      PROVE  [S!Next]_Secs
  BY <1>0, <1>7, MoveStep
<1>8. ASSUME NEW s \in Scn, NEW h \in Headers, SetShdr(s, h)
      PROVE  [S!Next]_Secs
  BY <1>8, SameSecs DEF SetShdr
<1>9. CASE elf_end
  BY <1>9, SameSecs DEF elf_end
<1>10. CASE FreeScn
  BY <1>10, SameSecs DEF FreeScn
<1>11. CASE FreeUnknown
  BY <1>11, SameSecs DEF FreeUnknown
<1>12. CASE FreeLast
  BY <1>12, SameSecs DEF FreeLast
<1>13. CASE UNCHANGED vars
  BY <1>13, SameSecs DEF vars
<1> HIDE DEF S!Next
<1>14. QED
  BY <1>1, <1>2, <1>3, <1>4, <1>5, <1>6, <1>7, <1>8, <1>9, <1>10, <1>11,
     <1>12, <1>13 DEF Next

(***************************************************************************)
(* The linked list with its numbers, its two kinds of memory and its three *)
(* ways to lose a section is a sequence to which sections are appended,    *)
(* removed, and moved behind another.                                      *)
(***************************************************************************)
THEOREM ListIsASequence == Spec => ImplementsSectionSeq
<1>1. Init => S!Init
  BY SecsOfNothing DEF Init, S!Init
<1>2. Init => CInv
  BY DEF Init, CInv, NoHeaderNoList, CountReadsBack
<1>3. IInv /\ IInv' /\ CInv /\ [Next]_vars => CInv'
  BY CountStep
<1>4. IInv /\ IInv' /\ CInv /\ [Next]_vars => [S!Next]_Secs
  BY RefinesStep
<1>5. QED
  BY <1>1, <1>2, <1>3, <1>4, Invariance, PTL DEF Spec, ImplementsSectionSeq, S!Spec
=============================================================================
