------------------------- MODULE Descriptors_proofs -------------------------
(***************************************************************************)
(* Theorems about Descriptors that hold for every set of addresses, every  *)
(* set of files and every archive layout.                                  *)
(***************************************************************************)
EXTENDS Descriptors, TLAPS, FiniteSetTheorems

----------------------------------------------------------------------------
(* Type correctness *)

\* The structure BeginMember gives to a new member has the type of an Elf.
LEMMA InitElfType ==
    InitElf \in [ e_parent : Desc \cup {NULL}, e_base : Nat, e_next : Nat,
                  e_data : Image \cup {NULL}, e_fd : File \cup {NULL},
                  e_cmd : Cmd, e_memory : BOOLEAN ]
  BY DEF InitElf, Cmd

\* The offsets and the contents elf_begin reads from an archive header are
\* well-typed: the header's contents are an image, its size a natural number.
LEMMA HeaderType ==
  ASSUME TypeOK, NEW ref \in Desc, IsArchive(ref), ArhdrErrors(ref) = {},
         MemberAtCursor(ref)
  PROVE  LET m == Header[elf[ref].e_data][e_off[ref]]
         IN  /\ elf[ref].e_data \in Image
             /\ m \in Image
             /\ Size[m] \in Nat
             /\ e_off[ref] + HDRSZ + Size[m] <= Size[elf[ref].e_data]
  <1> DEFINE i == elf[ref].e_data
             off == e_off[ref]
             m == Header[i][off]
  <1>1. i \in Image
    BY DescriptorsAssumption DEF TypeOK, IsArchive, KindOf
  <1>2. off \in Nat /\ Size[i] \in Nat
    BY <1>1, DescriptorsAssumption DEF TypeOK
  <1>3. off # Size[i]
    BY <1>1, DescriptorsAssumption DEF MemberAtCursor, e_size, SizeOf
  <1>4. off <= Size[i] /\ off + HDRSZ <= Size[i] /\ off \in DOMAIN Header[i]
    BY <1>2, <1>3 DEF ArhdrErrors, HDRSZ
  <1>6. m \in Image /\ Size[m] \in Nat
    BY <1>1, <1>4, DescriptorsAssumption
  <1>7. off + HDRSZ + Size[m] <= Size[i]
    BY <1>2, <1>3, <1>4, <1>6 DEF ArhdrErrors, HDRSZ
  <1> QED BY <1>1, <1>6, <1>7

----------------------------------------------------------------------------
(* The inductive invariant *)

IInv == TypeOK /\ ActivationInv /\ HeadersOwned

\* No library call under way: no elf_end argument, nothing waiting to be freed.
LEMMA InitIInv == Init => IInv
  <1> SUFFICES ASSUME Init PROVE IInv
    OBVIOUS
  <1>0. 0 \in 0 .. MaxLost
    BY DescriptorsAssumption
  <1>1. TypeOK
    BY <1>0, InitElfType, DescriptorsAssumption DEF Init, TypeOK
  <1>2. ActivationInv
    BY DescriptorsAssumption
    DEF Init, ActivationInv, DyingAreLive, HandlesAreOpen, RefCountExact,
        OpenAreActive, MembersAgree, ClosedAreEmpty, ArchiveOutlivesMembers, Open
  <1>3. HeadersOwned
    <2>1. Members = {}
      BY DEF Init, Members
    <2> QED BY <2>1, FS_EmptySet DEF Init, HeadersOwned
  <1> QED BY <1>1, <1>2, <1>3 DEF IInv

\* The lists of members are finite, so their length is a natural number.
LEMMA MembersFinite ==
  ASSUME TypeOK, NEW d \in Desc
  PROVE  IsFiniteSet(e_members[d]) /\ Cardinality(e_members[d]) \in Nat
  <1>1. e_members[d] \in SUBSET Desc
    BY DEF TypeOK
  <1>2. IsFiniteSet(e_members[d])
    BY <1>1, FS_Subset, DescriptorsAssumption
  <1> QED BY <1>2, FS_CardinalityType

\* Calls that touch neither activations nor members preserve the invariant.
LEMMA ActivationFrame ==
  ASSUME ActivationInv,
         UNCHANGED << live, elf, e_count, e_members, held, ending, dying >>
  PROVE  ActivationInv'
  BY DEF ActivationInv, DyingAreLive, HandlesAreOpen, RefCountExact,
         OpenAreActive, MembersAgree, ClosedAreEmpty, ArchiveOutlivesMembers,
         Open, Children, Parent

\* A new Elf that is no archive member.
LEMMA NewRootActivation ==
  ASSUME IInv, NEW d \in Desc, NEW fields, AtRest, NewElf(d, fields),
         fields.e_parent = NULL,
         e_count' = [e_count EXCEPT ![d] = 1], UNCHANGED e_members
  PROVE  ActivationInv'
  <1>1. d \notin live /\ Open' = Open \cup {d} /\ d \notin Open
    BY DEF NewElf, Open, IInv, ActivationInv, DyingAreLive
  <1>2. elf' = [elf EXCEPT ![d] = fields] /\ Parent(d)' = NULL
    BY DEF NewElf, IInv, TypeOK, Parent
  <1>3. \A x \in Desc \ {d} : Parent(x)' = Parent(x)
    BY <1>2 DEF Parent, IInv, TypeOK
  <1>4. e_members[d] = {}
    BY <1>1 DEF IInv, ActivationInv, ClosedAreEmpty
  <1>5. DyingAreLive'
    BY DEF NewElf, IInv, ActivationInv, DyingAreLive
  <1>6. HandlesAreOpen'
    BY <1>1 DEF NewElf, IInv, ActivationInv, HandlesAreOpen, TypeOK
  <1>7. RefCountExact'
    <2> SUFFICES ASSUME NEW x \in Open' PROVE
          e_count'[x] = held'[x] + Cardinality(e_members'[x])
                           + (IF ending' = x THEN 1 ELSE 0)
      BY DEF RefCountExact
    <2>1. x \in Desc /\ ending' = ending /\ ending = NULL /\ x # NULL
      BY <1>1, DescriptorsAssumption DEF NewElf, AtRest, IInv, TypeOK, Open
    <2>2. CASE x = d
      BY <2>1, <2>2, <1>4, FS_EmptySet DEF NewElf, IInv, TypeOK
    <2>3. CASE x # d
      BY <2>1, <2>3, <1>1 DEF NewElf, IInv, TypeOK, ActivationInv, RefCountExact
    <2> QED BY <2>2, <2>3
  <1>8. OpenAreActive'
    BY <1>1 DEF IInv, TypeOK, ActivationInv, OpenAreActive, Open
  <1>9. MembersAgree'
    <2> SUFFICES ASSUME NEW a \in Open' PROVE e_members'[a] = Children(a)'
      BY DEF MembersAgree
    <2>1. a \in Desc /\ a # NULL /\ Open \subseteq Desc
      BY <1>1, DescriptorsAssumption DEF IInv, TypeOK, Open
    <2>2. Children(a)' = { x \in Open : Parent(x) = a }
      BY <1>1, <1>2, <1>3, <2>1 DEF Children
    <2>3. CASE a = d
      BY <1>1, <1>4, <2>1, <2>2, <2>3
      DEF IInv, ActivationInv, ArchiveOutlivesMembers
    <2>4. CASE a # d
      BY <1>1, <2>2, <2>4 DEF IInv, ActivationInv, MembersAgree, Children
    <2> QED BY <2>3, <2>4
  <1>10. ClosedAreEmpty'
    BY <1>1 DEF IInv, ActivationInv, ClosedAreEmpty
  <1>11. ArchiveOutlivesMembers'
    BY <1>1, <1>2, <1>3 DEF IInv, TypeOK, ActivationInv,
       ArchiveOutlivesMembers, Open
  <1> QED
    BY <1>5, <1>6, <1>7, <1>8, <1>9, <1>10, <1>11 DEF ActivationInv

\* An open Elf is handed out once more: its count and the application's
\* references grow together.
LEMMA SharedActivation ==
  ASSUME IInv, NEW d \in Open, AtRest, Activate(d),
         held' = [held EXCEPT ![d] = @ + 1],
         UNCHANGED << live, elf, e_members, ending, dying >>
  PROVE  ActivationInv'
  <1>1. Open' = Open /\ d \in Desc /\ \A x \in Desc : Parent(x)' = Parent(x)
    BY DEF Open, Parent, IInv, TypeOK
  <1>2. \A x \in Desc : e_count'[x] = IF x = d THEN e_count[x] + 1 ELSE e_count[x]
    BY <1>1 DEF Activate, IInv, TypeOK
  <1>3. \A x \in Desc : held'[x] = IF x = d THEN held[x] + 1 ELSE held[x]
    BY <1>1 DEF IInv, TypeOK
  <1>4. DyingAreLive' /\ ClosedAreEmpty' /\ MembersAgree' /\ ArchiveOutlivesMembers'
    BY <1>1 DEF IInv, ActivationInv, DyingAreLive, ClosedAreEmpty, MembersAgree,
       Children, ArchiveOutlivesMembers, Open, Parent
  <1>5. HandlesAreOpen'
    BY <1>1, <1>3 DEF IInv, TypeOK, ActivationInv, HandlesAreOpen
  <1>6. OpenAreActive'
    BY <1>1, <1>2 DEF IInv, TypeOK, ActivationInv, OpenAreActive, Open
  <1>7. RefCountExact'
    <2> SUFFICES ASSUME NEW x \in Open PROVE
          e_count'[x] = held'[x] + Cardinality(e_members[x])
                           + (IF ending = x THEN 1 ELSE 0)
      BY <1>1 DEF RefCountExact
    <2>1. x \in Desc /\ Cardinality(e_members[x]) \in Nat
      BY MembersFinite DEF IInv, TypeOK, Open
    <2>2. e_count[x] = held[x] + Cardinality(e_members[x])
                           + (IF ending = x THEN 1 ELSE 0)
      BY DEF IInv, ActivationInv, RefCountExact
    <2>3. held[x] \in Nat /\ e_count[x] \in Nat
      BY <2>1 DEF IInv, TypeOK
    <2> QED BY <1>2, <1>3, <2>1, <2>2, <2>3
  <1> QED BY <1>4, <1>5, <1>6, <1>7 DEF ActivationInv

\* A new member: its archive gains a list entry and an activation with it.
LEMMA MemberActivation ==
  ASSUME IInv, NEW d \in Desc, NEW fd \in File, NEW ref \in Desc,
         BeginMember(d, fd, ref)
  PROVE  ActivationInv'
  <1>1. ref \in Open /\ d \notin live /\ d \notin Open /\ d # ref
    BY DEF BeginMember, NewElf, IInv, ActivationInv, HandlesAreOpen,
       DyingAreLive, Open
  <1>2. /\ Open' = Open \cup {d} /\ dying' = dying
        /\ ending = NULL /\ ending' = NULL
    BY <1>1 DEF BeginMember, NewElf, AtRest, Open, IInv, ActivationInv,
       DyingAreLive
  <1>3. Parent(d)' = ref /\ \A x \in Desc \ {d} : Parent(x)' = Parent(x)
    BY DEF BeginMember, NewElf, Parent, IInv, TypeOK
  <1>4. /\ e_members' = [e_members EXCEPT ![ref] = @ \cup {d}]
        /\ e_count' = [e_count EXCEPT ![ref] = @ + 1, ![d] = 1]
        /\ held' = [held EXCEPT ![d] = 1]
    BY DEF BeginMember, LinkMember, NewElf
  <1>5. e_members[d] = {} /\ d \notin e_members[ref]
    BY <1>1 DEF IInv, ActivationInv, ClosedAreEmpty, MembersAgree, Children
  <1>6. DyingAreLive'
    BY <1>2 DEF BeginMember, NewElf, IInv, ActivationInv, DyingAreLive
  <1>7. HandlesAreOpen'
    BY <1>2, <1>4 DEF IInv, TypeOK, ActivationInv, HandlesAreOpen
  <1>8. RefCountExact'
    <2>1. e_count \in [Desc -> Nat] /\ held \in [Desc -> Nat]
          /\ e_members \in [Desc -> SUBSET Desc]
          /\ \A x \in Open' : x \in Desc /\ x # NULL
      BY <1>2, DescriptorsAssumption DEF IInv, TypeOK, Open
    <2> SUFFICES ASSUME NEW x \in Open' PROVE
          e_count'[x] = held'[x] + Cardinality(e_members'[x]) + 0
      BY <1>2, <2>1 DEF RefCountExact
    <2>2. x # d => e_count[x] = held[x] + Cardinality(e_members[x]) + 0
      BY <1>2, <2>1 DEF IInv, ActivationInv, RefCountExact
    <2>3. CASE x = d
      <3>1. e_members'[d] = {}
        BY <1>1, <1>4, <1>5, <2>1
      <3>2. Cardinality(e_members'[d]) = 0
        BY <3>1, FS_EmptySet
      <3>3. e_count'[d] = 1 /\ held'[d] = 1
        BY <1>4, <2>1
      <3> QED BY <2>3, <3>2, <3>3
    <2>4. CASE x = ref
      <3>1. IsFiniteSet(e_members[ref]) /\ Cardinality(e_members[ref]) \in Nat
        BY MembersFinite DEF IInv
      <3>2. Cardinality(e_members[ref] \cup {d}) = Cardinality(e_members[ref]) + 1
        BY <3>1, <1>5, FS_AddElement
      <3> QED BY <1>1, <1>4, <2>1, <2>2, <2>4, <3>1, <3>2
    <2>5. CASE x # d /\ x # ref
      BY <1>4, <2>1, <2>2, <2>5
    <2> QED BY <2>3, <2>4, <2>5
  <1>9. OpenAreActive'
    BY <1>1, <1>2, <1>4 DEF IInv, TypeOK, ActivationInv, OpenAreActive, Open
  <1>10. MembersAgree'
    <2> SUFFICES ASSUME NEW a \in Open' PROVE e_members'[a] = Children(a)'
      BY DEF MembersAgree
    <2>1. a \in Desc /\ Open \subseteq Desc /\ e_members \in [Desc -> SUBSET Desc]
          /\ a # NULL
      BY <1>2, DescriptorsAssumption DEF IInv, TypeOK, Open
    <2>2. Children(a)' = { x \in Open : Parent(x) = a }
                            \cup (IF a = ref THEN {d} ELSE {})
      BY <1>1, <1>2, <1>3, <2>1 DEF Children
    <2>3. CASE a = d
      <3>1. { x \in Open : Parent(x) = d } = {}
        BY <1>1, <2>1, <2>3 DEF IInv, ActivationInv, ArchiveOutlivesMembers
      <3> QED BY <1>1, <1>4, <1>5, <2>1, <2>2, <2>3, <3>1
    <2>4. CASE a # d
      <3>1. e_members[a] = { x \in Open : Parent(x) = a }
        BY <1>2, <2>4 DEF IInv, ActivationInv, MembersAgree, Children
      <3> QED BY <1>4, <2>1, <2>2, <2>4, <3>1
    <2> QED BY <2>3, <2>4
  <1>11. ClosedAreEmpty'
    BY <1>1, <1>2, <1>4 DEF IInv, TypeOK, ActivationInv, ClosedAreEmpty
  <1>12. ArchiveOutlivesMembers'
    BY <1>1, <1>2, <1>3 DEF IInv, TypeOK, ActivationInv,
       ArchiveOutlivesMembers, Open
  <1> QED
    BY <1>6, <1>7, <1>8, <1>9, <1>10, <1>11, <1>12 DEF ActivationInv

\* elf_end is called: the application's reference becomes the activation that
\* elf_end is about to take back.
LEMMA EndCallActivation ==
  ASSUME IInv, NEW d \in Desc, EndCall(d)
  PROVE  ActivationInv'
  <1>1. /\ d \in Open /\ Open' = Open /\ ending = NULL /\ ending' = d /\ d # NULL
        /\ \A x \in Desc : Parent(x)' = Parent(x)
    BY DescriptorsAssumption DEF EndCall, AtRest, IInv, ActivationInv,
       HandlesAreOpen, Open, Parent
  <1>2. \A x \in Desc : held'[x] = IF x = d THEN held[x] - 1 ELSE held[x]
    BY DEF EndCall, IInv, TypeOK
  <1>3. /\ DyingAreLive' /\ ClosedAreEmpty' /\ MembersAgree'
        /\ ArchiveOutlivesMembers' /\ OpenAreActive'
    BY <1>1 DEF EndCall, IInv, ActivationInv, DyingAreLive, ClosedAreEmpty,
       MembersAgree, Children, ArchiveOutlivesMembers, OpenAreActive, Open, Parent
  <1>4. HandlesAreOpen'
    BY <1>1, <1>2 DEF IInv, TypeOK, ActivationInv, HandlesAreOpen
  <1>5. RefCountExact'
    <2> SUFFICES ASSUME NEW x \in Open PROVE
          e_count[x] = held'[x] + Cardinality(e_members[x])
                           + (IF d = x THEN 1 ELSE 0)
      BY <1>1 DEF RefCountExact, EndCall
    <2>1. x \in Desc /\ Cardinality(e_members[x]) \in Nat
      BY MembersFinite DEF IInv, TypeOK, Open
    <2>2. e_count[x] = held[x] + Cardinality(e_members[x]) + 0
      BY <1>1, <2>1, DescriptorsAssumption DEF IInv, ActivationInv, RefCountExact
    <2>3. held[x] \in Nat /\ e_count[x] \in Nat
      BY <2>1 DEF IInv, TypeOK
    <2> QED BY <1>2, <2>1, <2>2, <2>3
  <1> QED BY <1>3, <1>4, <1>5 DEF ActivationInv

\* What RefCountExact says of the Elf that elf_end works on.
LEMMA EndingCount ==
  ASSUME IInv, NEW d \in Desc, ending = d
  PROVE  /\ d \in Open /\ d # NULL
         /\ e_count[d] = held[d] + Cardinality(e_members[d]) + 1
         /\ e_count[d] \in Nat /\ held[d] \in Nat
         /\ Cardinality(e_members[d]) \in Nat
  <1>1. d # NULL /\ d \in Open
    BY DescriptorsAssumption DEF IInv, ActivationInv, HandlesAreOpen
  <1>2. Cardinality(e_members[d]) \in Nat /\ e_count[d] \in Nat /\ held[d] \in Nat
    BY MembersFinite DEF IInv, TypeOK
  <1> QED BY <1>1, <1>2 DEF IInv, ActivationInv, RefCountExact

\* An Elf whose last activation ends is held by nobody and has no open member.
LEMMA LastIsUnneeded ==
  ASSUME IInv, NEW d \in Desc, ending = d, LastActivation(d)
  PROVE  d \in Open /\ held[d] = 0 /\ e_members[d] = {} /\ Children(d) = {}
  <1>1. held[d] = 0 /\ Cardinality(e_members[d]) = 0 /\ d \in Open
    BY EndingCount DEF LastActivation
  <1>2. e_members[d] = {}
    BY <1>1, MembersFinite, FS_EmptySet DEF IInv
  <1> QED BY <1>1, <1>2 DEF IInv, ActivationInv, MembersAgree

LEMMA EndKeepsActivation ==
  ASSUME IInv, NEW d \in Desc, EndKeeps(d)
  PROVE  ActivationInv'
  <1>1. /\ ending = d /\ ending' = NULL /\ Open' = Open
        /\ \A x \in Desc : Parent(x)' = Parent(x)
    BY DEF EndKeeps, Open, Parent
  <1>2. d \in Open /\ e_count[d] \in Nat /\ e_count[d] # 1 /\ e_count[d] > 0
    BY <1>1, EndingCount DEF EndKeeps, LastActivation, IInv, ActivationInv,
       OpenAreActive
  <1>3. \A x \in Desc : e_count'[x] = IF x = d THEN e_count[x] - 1 ELSE e_count[x]
    BY DEF EndKeeps, IInv, TypeOK
  <1>4. /\ DyingAreLive' /\ ClosedAreEmpty' /\ MembersAgree'
        /\ ArchiveOutlivesMembers' /\ HandlesAreOpen'
    BY <1>1 DEF EndKeeps, IInv, ActivationInv, DyingAreLive, ClosedAreEmpty,
       MembersAgree, Children, ArchiveOutlivesMembers, HandlesAreOpen, Open, Parent
  <1>5. OpenAreActive'
    BY <1>1, <1>2, <1>3 DEF IInv, TypeOK, ActivationInv, OpenAreActive, Open
  <1>6. RefCountExact'
    <2> SUFFICES ASSUME NEW x \in Open PROVE
          e_count'[x] = held[x] + Cardinality(e_members[x]) + 0
      BY <1>1, DescriptorsAssumption DEF RefCountExact, EndKeeps, Open, IInv, TypeOK
    <2>1. x \in Desc /\ Cardinality(e_members[x]) \in Nat
      BY MembersFinite DEF IInv, TypeOK, Open
    <2>2. e_count[x] = held[x] + Cardinality(e_members[x])
                           + (IF x = d THEN 1 ELSE 0)
      BY <1>1 DEF IInv, ActivationInv, RefCountExact
    <2>3. held[x] \in Nat /\ e_count[x] \in Nat
      BY <2>1 DEF IInv, TypeOK
    <2> QED BY <1>3, <2>1, <2>2, <2>3
  <1> QED BY <1>4, <1>5, <1>6 DEF ActivationInv

\* The member leaves the list, the archive's count is one too high for it, and
\* that is the activation the next elf_end takes back.
LEMMA EndMemberActivation ==
  ASSUME IInv, NEW d \in Desc, EndMember(d)
  PROVE  ActivationInv'
  <1> DEFINE p == Parent(d)
  <1>1. /\ d \in Open /\ held[d] = 0 /\ e_members[d] = {} /\ Children(d) = {}
        /\ ending = d
    BY LastIsUnneeded DEF EndMember
  <1>2. p \in Open /\ p \in Desc /\ d \in e_members[p] /\ p # d /\ p # NULL
    BY <1>1 DEF EndMember, IInv, TypeOK, ActivationInv, ArchiveOutlivesMembers,
       MembersAgree, Children, Open
  <1>3. /\ Open' = Open \ {d} /\ ending' = p
        /\ \A x \in Desc : Parent(x)' = Parent(x)
    BY DEF EndMember, EndArchive, Open, Parent
  <1>4. /\ e_members' = [e_members EXCEPT ![p] = @ \ {d}]
        /\ e_count' = [e_count EXCEPT ![d] = 0] /\ held' = held
    BY DEF EndMember, Unlink
  <1>5. DyingAreLive'
    BY <1>1 DEF EndMember, IInv, ActivationInv, DyingAreLive, Open
  <1>6. HandlesAreOpen'
    BY <1>1, <1>2, <1>3, <1>4 DEF IInv, ActivationInv, HandlesAreOpen
  <1>7. OpenAreActive'
    BY <1>3, <1>4 DEF IInv, TypeOK, ActivationInv, OpenAreActive, Open
  <1>8. ClosedAreEmpty'
    BY <1>1, <1>2, <1>3, <1>4 DEF IInv, TypeOK, ActivationInv, ClosedAreEmpty
  <1>9. MembersAgree'
    <2> SUFFICES ASSUME NEW a \in Open' PROVE e_members'[a] = Children(a)'
      BY DEF MembersAgree
    <2>1. a \in Desc /\ a \in Open /\ Open \subseteq Desc
          /\ e_members \in [Desc -> SUBSET Desc]
      BY <1>3 DEF IInv, TypeOK, Open
    <2>2. e_members[a] = Children(a)
      BY <2>1 DEF IInv, ActivationInv, MembersAgree
    <2>3. Children(a)' = Children(a) \ {d}
      BY <1>3, <2>1 DEF Children
    <2>4. CASE a = p
      BY <1>4, <2>1, <2>2, <2>3, <2>4
    <2>5. CASE a # p
      <3>1. d \notin Children(a)
        BY <2>5 DEF Children
      <3> QED BY <1>4, <2>1, <2>2, <2>3, <2>5, <3>1
    <2> QED BY <2>4, <2>5
  <1>10. ArchiveOutlivesMembers'
    BY <1>1, <1>2, <1>3 DEF IInv, TypeOK, ActivationInv,
       ArchiveOutlivesMembers, Children, Open
  <1>11. RefCountExact'
    <2> SUFFICES ASSUME NEW x \in Open' PROVE
          e_count'[x] = held[x] + Cardinality(e_members'[x])
                           + (IF p = x THEN 1 ELSE 0)
      BY <1>3, <1>4 DEF RefCountExact
    <2>1. x \in Desc /\ x \in Open /\ x # d /\ Cardinality(e_members[x]) \in Nat
          /\ IsFiniteSet(e_members[x])
      BY <1>3, MembersFinite DEF IInv, TypeOK, Open
    <2>2. e_count'[x] = held[x] + Cardinality(e_members[x]) + 0
      BY <1>1, <1>4, <2>1 DEF IInv, TypeOK, ActivationInv, RefCountExact
    <2>3. held[x] \in Nat /\ e_members \in [Desc -> SUBSET Desc]
      BY <2>1 DEF IInv, TypeOK
    <2>4. CASE x = p
      <3>1. e_members'[x] = e_members[x] \ {d} /\ d \in e_members[x]
        BY <1>2, <1>4, <2>3, <2>4
      <3>2. Cardinality(e_members'[x]) = Cardinality(e_members[x]) - 1
        <4> DEFINE S == e_members[x]
        <4>1. IsFiniteSet(S) /\ d \in S /\ e_members'[x] = S \ {d}
          BY <2>1, <3>1
        <4> HIDE DEF S
        <4>2. Cardinality(S \ {d}) = Cardinality(S) - 1
          BY ONLY <4>1, FS_RemoveElement
        <4> QED BY <4>1, <4>2 DEF S
      <3>3. (IF p = x THEN 1 ELSE 0) = 1
        BY <2>4
      <3> QED BY <2>1, <2>2, <2>3, <3>2, <3>3
    <2>5. CASE x # p
      BY <1>4, <2>1, <2>2, <2>3, <2>5
    <2> QED BY <2>4, <2>5
  <1> QED
    BY <1>5, <1>6, <1>7, <1>8, <1>9, <1>10, <1>11 DEF ActivationInv

LEMMA EndRootActivation ==
  ASSUME IInv, NEW d \in Desc, EndRoot(d)
  PROVE  ActivationInv'
  <1>1. /\ d \in Open /\ held[d] = 0 /\ e_members[d] = {} /\ Children(d) = {}
        /\ ending = d
    BY LastIsUnneeded DEF EndRoot
  <1>2. /\ Open' = Open \ {d} /\ ending' = NULL
        /\ \A x \in Desc : Parent(x)' = Parent(x)
    BY DEF EndRoot, Open, Parent
  <1>3. /\ e_members' = e_members /\ held' = held
        /\ e_count' = [e_count EXCEPT ![d] = 0]
    BY DEF EndRoot
  <1>4. /\ DyingAreLive' /\ HandlesAreOpen' /\ ClosedAreEmpty'
    BY <1>1, <1>2, <1>3 DEF EndRoot, IInv, ActivationInv, DyingAreLive,
       HandlesAreOpen, ClosedAreEmpty, Open
  <1>5. OpenAreActive'
    BY <1>2, <1>3 DEF IInv, TypeOK, ActivationInv, OpenAreActive, Open
  <1>6. ArchiveOutlivesMembers'
    BY <1>1, <1>2 DEF IInv, TypeOK, ActivationInv, ArchiveOutlivesMembers,
       Children, Open
  <1>7. MembersAgree'
    <2> SUFFICES ASSUME NEW a \in Open' PROVE e_members[a] = Children(a)'
      BY <1>3 DEF MembersAgree
    <2>1. a \in Open /\ Open \subseteq Desc /\ a # NULL
      BY <1>2, DescriptorsAssumption DEF IInv, TypeOK, Open
    <2>2. e_members[a] = Children(a)
      BY <2>1 DEF IInv, ActivationInv, MembersAgree
    <2>3. d \notin Children(a)
      BY <2>1 DEF Children, EndRoot
    <2> QED BY <1>2, <2>1, <2>2, <2>3 DEF Children
  <1>8. RefCountExact'
    <2> SUFFICES ASSUME NEW x \in Open' PROVE
          e_count'[x] = held[x] + Cardinality(e_members[x]) + 0
      BY <1>2, <1>3, DescriptorsAssumption DEF RefCountExact, Open, IInv, TypeOK
    <2> QED
      BY <1>1, <1>2, <1>3 DEF IInv, TypeOK, ActivationInv, RefCountExact, Open
  <1> QED BY <1>4, <1>5, <1>6, <1>7, <1>8 DEF ActivationInv

LEMMA EndFreeActivation ==
  ASSUME IInv, NEW d \in Desc, EndFree(d)
  PROVE  ActivationInv'
  <1>1. d \notin Open /\ Open' = Open /\ Open \subseteq Desc \ {d}
    BY DEF EndFree, Open, IInv, TypeOK
  <1>2. \A x \in Desc \ {d} : /\ Parent(x)' = Parent(x)
                               /\ e_members'[x] = e_members[x]
    BY DEF EndFree, Parent, IInv, TypeOK
  <1>3. e_members'[d] = {}
    BY DEF EndFree, IInv, TypeOK
  <1>4. DyingAreLive' /\ HandlesAreOpen' /\ OpenAreActive'
    BY <1>1 DEF EndFree, IInv, ActivationInv, DyingAreLive, HandlesAreOpen,
       OpenAreActive
  <1>5. RefCountExact'
    BY <1>1, <1>2 DEF EndFree, IInv, ActivationInv, RefCountExact
  <1>6. MembersAgree' /\ ArchiveOutlivesMembers'
    BY <1>1, <1>2 DEF IInv, ActivationInv, MembersAgree, Children,
       ArchiveOutlivesMembers
  <1>7. ClosedAreEmpty'
    BY <1>1, <1>2, <1>3 DEF IInv, ActivationInv, ClosedAreEmpty
  <1> QED BY <1>4, <1>5, <1>6, <1>7 DEF ActivationInv

----------------------------------------------------------------------------
(* The memory of member headers *)

\* There are finitely many members, and a member there is has its header.
LEMMA MembersCounted ==
  ASSUME IInv
  PROVE  /\ IsFiniteSet(Members) /\ Cardinality(Members) \in Nat
         /\ Members # {} => arhdrs > lost
  <1>1. Members \subseteq Desc
    BY DEF Members, IInv, TypeOK
  <1>2. IsFiniteSet(Members) /\ Cardinality(Members) \in Nat
    BY <1>1, FS_Subset, FS_CardinalityType, DescriptorsAssumption
  <1>3. arhdrs = Cardinality(Members) + lost /\ arhdrs \in Nat /\ lost \in Int
    BY DescriptorsAssumption DEF IInv, HeadersOwned, TypeOK
  <1>4. Members # {} => Cardinality(Members) # 0
    BY <1>2, FS_EmptySet
  <1> QED BY <1>2, <1>3, <1>4

\* A new member comes with a header that elf_begin has just read.
LEMMA MemberGetsHeader ==
  ASSUME IInv, NEW d \in Desc, NEW fd \in File, NEW ref \in Desc,
         BeginMember(d, fd, ref)
  PROVE  HeadersOwned'
  <1>1. d \notin live /\ live' = live \cup {d} /\ arhdrs' = arhdrs + 1 /\ lost' = lost
    BY DEF BeginMember, NewElf
  <1>2. elf'[d].e_parent = ref /\ \A x \in live : elf'[x] = elf[x]
    BY DEF BeginMember, NewElf, IInv, TypeOK
  <1>3. ref # NULL
    BY DescriptorsAssumption
  <1>4. Members' = Members \cup {d} /\ d \notin Members
    BY <1>1, <1>2, <1>3 DEF Members, Parent
  <1>5. Cardinality(Members \cup {d}) = Cardinality(Members) + 1
    BY <1>4, MembersCounted, FS_AddElement
  <1>6. arhdrs = Cardinality(Members) + lost /\ lost \in Int
    BY DescriptorsAssumption DEF IInv, HeadersOwned, TypeOK
  <1> QED BY <1>1, <1>4, <1>5, <1>6, MembersCounted DEF HeadersOwned

\* The header of a member goes when its Elf goes.
LEMMA FreeTakesHeader ==
  ASSUME IInv, NEW d \in Desc, EndFree(d)
  PROVE  HeadersOwned'
  <1>1. d \in live
    BY DEF EndFree, IInv, ActivationInv, DyingAreLive
  <1>2. /\ live' = live \ {d} /\ \A x \in live \ {d} : elf'[x] = elf[x]
        /\ lost' = lost
        /\ arhdrs' = IF Parent(d) # NULL THEN arhdrs - 1 ELSE arhdrs
    BY DEF EndFree, FreeHeader, IInv, TypeOK
  <1>3. Members' = Members \ {d} /\ (d \in Members <=> Parent(d) # NULL)
    BY <1>1, <1>2 DEF Members, Parent
  <1>4. arhdrs = Cardinality(Members) + lost /\ lost \in Int
    BY DescriptorsAssumption DEF IInv, HeadersOwned, TypeOK
  <1>5. CASE Parent(d) # NULL
    <2>1. Cardinality(Members \ {d}) = Cardinality(Members) - 1
      BY <1>3, <1>5, MembersCounted, FS_RemoveElement
    <2> QED BY <1>2, <1>3, <1>4, <1>5, <2>1, MembersCounted DEF HeadersOwned
  <1>6. CASE Parent(d) = NULL
    <2>1. Members' = Members
      BY <1>3, <1>6
    <2> QED BY <1>2, <1>4, <1>6, <2>1 DEF HeadersOwned
  <1> QED BY <1>5, <1>6

\* Every step keeps account of the headers.
LEMMA HeadersStep ==
  ASSUME IInv, [Next]_vars
  PROVE  HeadersOwned'
  <1> USE DEF headers
  <1>1. ASSUME UNCHANGED << live, elf, headers >>
        PROVE  HeadersOwned'
    BY <1>1 DEF IInv, HeadersOwned, Members, Parent
  <1>2. ASSUME NEW d \in Desc, NEW fields, NewElf(d, fields),
               fields.e_parent = NULL, UNCHANGED headers
        PROVE  HeadersOwned'
    <2>1. d \notin live /\ live' = live \cup {d}
          /\ elf'[d] = fields /\ \A x \in live : elf'[x] = elf[x]
      BY <1>2 DEF NewElf, IInv, TypeOK
    <2>2. Members' = Members
      BY <1>2, <2>1 DEF Members, Parent
    <2> QED BY <1>2, <2>2 DEF IInv, HeadersOwned
  <1>3. ASSUME NEW d \in Desc, NEW fd \in File, NEW cmd \in Cmd,
               BeginFile(d, fd, cmd)
        PROVE  HeadersOwned'
    <2> DEFINE fields == [InitElf EXCEPT !.e_fd = fd, !.e_cmd = cmd,
                                         !.e_data = Contents(fd)]
    <2>1. NewElf(d, fields) /\ fields.e_parent = NULL
      BY <1>3 DEF BeginFile, InitElf
    <2> HIDE DEF fields
    <2> QED BY <1>2, <1>3, <2>1 DEF BeginFile
  <1>4. ASSUME NEW d \in Desc, NEW fd \in File, BeginWrite(d, fd)
        PROVE  HeadersOwned'
    <2> DEFINE fields == [InitElf EXCEPT !.e_fd = fd, !.e_cmd = "ELF_C_WRITE"]
    <2>1. NewElf(d, fields) /\ fields.e_parent = NULL
      BY <1>4 DEF BeginWrite, InitElf
    <2> HIDE DEF fields
    <2> QED BY <1>2, <1>4, <2>1 DEF BeginWrite
  <1>5. ASSUME NEW d \in Desc, NEW i \in Image, ElfMemory(d, i)
        PROVE  HeadersOwned'
    <2> DEFINE fields == [InitElf EXCEPT !.e_data = i, !.e_memory = TRUE]
    <2>1. NewElf(d, fields) /\ fields.e_parent = NULL
      BY <1>5 DEF ElfMemory, InitElf
    <2> HIDE DEF fields
    <2> QED BY <1>2, <1>5, <2>1 DEF ElfMemory
  <1>6. ASSUME NEW fd \in File, NEW ref \in Desc, BeginLosesHeader(fd, ref)
        PROVE  HeadersOwned'
    <2>1. Members' = Members /\ arhdrs' = arhdrs + 1 /\ lost' = lost + 1
      BY <1>6 DEF BeginLosesHeader, Members, Parent
    <2>2. arhdrs = Cardinality(Members) + lost /\ lost \in Int
      BY DescriptorsAssumption DEF IInv, HeadersOwned, TypeOK
    <2> QED BY <2>1, <2>2, MembersCounted DEF HeadersOwned
  <1>7. ASSUME NEW d \in Desc, NEW fd \in File, NEW cmd \in Cmd,
               BeginShare(fd, cmd, d)
        PROVE  HeadersOwned'
    BY <1>1, <1>7 DEF BeginShare
  <1>8. ASSUME NEW d \in Desc, NEW fd \in File, NEW ref \in Desc,
               BeginAgain(d, fd, ref)
        PROVE  HeadersOwned'
    BY <1>1, <1>8 DEF BeginAgain
  <1>9. CASE Begin
    <2>1. BeginFails => HeadersOwned'
      BY <1>1 DEF BeginFails, Fail
    <2> QED BY <1>3, <1>4, <1>5, <1>6, <1>7, <1>8, <1>9, <2>1, MemberGetsHeader
            DEF Begin
  <1>10. ASSUME NEW d \in Desc,
                \/ ElfNext(d) \/ ElfCntl(d) \/ ElfCntlFails(d) \/ EndCall(d)
                \/ \E offset \in Offset : ElfRand(d, offset)
         PROVE  HeadersOwned'
    BY <1>1, <1>10 DEF ElfNext, ElfCntl, ElfCntlFails, EndCall, ElfRand, Fail
  <1>11. ASSUME NEW d \in Desc, EndKeeps(d) \/ EndMember(d) \/ EndRoot(d)
         PROVE  HeadersOwned'
    BY <1>1, <1>11 DEF EndKeeps, EndMember, EndRoot
  <1>12. CASE ElfVersion \/ ElfErrno \/ UNCHANGED vars
    BY <1>1, <1>12 DEF ElfVersion, ElfErrno, Fail, vars
  <1> QED BY <1>9, <1>10, <1>11, <1>12, FreeTakesHeader DEF Next, EndStep

----------------------------------------------------------------------------
(* The steps *)

\* Every step keeps the type invariant; the activation count of an Elf never
\* wraps below zero because RefCountExact holds before the step, the number
\* of headers because HeadersOwned does.
LEMMA TypeStep ==
  ASSUME IInv, [Next]_vars
  PROVE  TypeOK'
  <1> USE DEF IInv, TypeOK, headers
  <1>1. CASE ElfVersion \/ ElfErrno \/ BeginFails
    BY <1>1 DEF ElfVersion, ElfErrno, BeginFails, Fail
  <1>2. ASSUME NEW d \in Desc, NEW fields, NewElf(d, fields),
               fields \in [ e_parent : Desc \cup {NULL}, e_base : Nat,
                            e_next : Nat, e_data : Image \cup {NULL},
                            e_fd : File \cup {NULL}, e_cmd : Cmd,
                            e_memory : BOOLEAN ]
        PROVE  /\ live' \in SUBSET Desc /\ elf' \in [Desc -> [
                     e_parent : Desc \cup {NULL}, e_base : Nat,
                     e_next : Nat, e_data : Image \cup {NULL},
                     e_fd : File \cup {NULL}, e_cmd : Cmd, e_memory : BOOLEAN ]]
               /\ held' \in [Desc -> Nat] /\ version' \in BOOLEAN
               /\ errno' \in BOOLEAN /\ ending' \in Desc \cup {NULL}
               /\ dying' \in SUBSET Desc
    BY <1>2 DEF NewElf
  <1>3. ASSUME NEW i \in Image
        PROVE  Contents(i) \in Image \cup {NULL} /\ FirstOff(Contents(i)) \in Nat
    BY DEF Contents, FirstOff, SARMAG
  <1>4. ASSUME NEW d \in Desc, NEW fd \in File, NEW cmd \in Cmd,
               BeginFile(d, fd, cmd)
        PROVE  TypeOK'
    <2> DEFINE fields == [InitElf EXCEPT !.e_fd = fd, !.e_cmd = cmd,
                                         !.e_data = Contents(fd)]
    <2>1. fields \in [ e_parent : Desc \cup {NULL}, e_base : Nat, e_next : Nat,
                       e_data : Image \cup {NULL}, e_fd : File \cup {NULL},
                       e_cmd : Cmd, e_memory : BOOLEAN ]
      BY <1>3, DescriptorsAssumption DEF InitElf
    <2>2. NewElf(d, fields)
      BY <1>4 DEF BeginFile
    <2> QED BY <1>2, <1>3, <1>4, <2>1, <2>2, DescriptorsAssumption DEF BeginFile
  <1>5. ASSUME NEW d \in Desc, NEW fd \in File, BeginWrite(d, fd)
        PROVE  TypeOK'
    <2> DEFINE fields == [InitElf EXCEPT !.e_fd = fd, !.e_cmd = "ELF_C_WRITE"]
    <2>1. fields \in [ e_parent : Desc \cup {NULL}, e_base : Nat, e_next : Nat,
                       e_data : Image \cup {NULL}, e_fd : File \cup {NULL},
                       e_cmd : Cmd, e_memory : BOOLEAN ]
      BY DEF InitElf, Cmd
    <2>2. NewElf(d, fields)
      BY <1>5 DEF BeginWrite
    <2> QED BY <1>2, <1>5, <2>1, <2>2 DEF BeginWrite
  <1>6. ASSUME NEW d \in Desc, NEW i \in Image, ElfMemory(d, i)
        PROVE  TypeOK'
    <2> DEFINE fields == [InitElf EXCEPT !.e_data = i, !.e_memory = TRUE]
    <2>1. fields \in [ e_parent : Desc \cup {NULL}, e_base : Nat, e_next : Nat,
                       e_data : Image \cup {NULL}, e_fd : File \cup {NULL},
                       e_cmd : Cmd, e_memory : BOOLEAN ]
      BY DEF InitElf, Cmd
    <2>2. NewElf(d, fields) /\ FirstOff(i) \in Nat
      BY <1>6 DEF ElfMemory, FirstOff, SARMAG
    <2> QED BY <1>2, <1>6, <2>1, <2>2 DEF ElfMemory
  <1>7. ASSUME NEW d \in Desc, NEW fd \in File, NEW ref \in Desc,
               BeginMember(d, fd, ref)
        PROVE  TypeOK'
    <2> DEFINE m == Header[elf[ref].e_data][e_off[ref]]
               next == e_off[ref] + HDRSZ + Size[m] + (Size[m] % 2)
               fields == [ e_parent |-> ref, e_base |-> NextBase(ref),
                           e_next |-> next, e_data |-> Contents(m),
                           e_fd |-> elf[ref].e_fd, e_cmd |-> "ELF_C_READ",
                           e_memory |-> elf[ref].e_memory ]
    <2>1. IsArchive(ref) /\ ArhdrErrors(ref) = {} /\ MemberAtCursor(ref)
      BY <1>7 DEF BeginMember, MemberAtCursor
    <2>2. m \in Image /\ Size[m] \in Nat /\ e_off[ref] \in Nat
      BY <2>1, HeaderType
    <2>3. next \in Nat /\ NextBase(ref) \in Nat
      BY <2>2 DEF NextBase, HDRSZ
    <2>4. fields \in [ e_parent : Desc \cup {NULL}, e_base : Nat, e_next : Nat,
                       e_data : Image \cup {NULL}, e_fd : File \cup {NULL},
                       e_cmd : Cmd, e_memory : BOOLEAN ]
      BY <1>3, <2>2, <2>3 DEF Cmd
    <2>5. NewElf(d, fields)
          /\ e_off' = [e_off EXCEPT ![ref] = next, ![d] = FirstOff(Contents(m))]
      BY <1>7 DEF BeginMember
    <2>6. e_off' \in [Desc -> Nat]
      BY <1>3, <2>2, <2>3, <2>5
    <2>7. /\ e_members' = [e_members EXCEPT ![ref] = @ \cup {d}]
          /\ e_count' = [e_count EXCEPT ![ref] = @ + 1, ![d] = 1]
          /\ e_disabled' \in {e_disabled, e_disabled \cup {d}}
      BY <1>7 DEF BeginMember, LinkMember
    <2>8. e_count' \in [Desc -> Nat]
      BY <2>7
    <2>9. e_members' \in [Desc -> SUBSET Desc] /\ e_disabled' \in SUBSET Desc
      BY <2>7
    <2>10. arhdrs' = arhdrs + 1 /\ lost' = lost
      BY <1>7 DEF BeginMember
    <2>11. arhdrs' \in Nat /\ lost' \in 0 .. MaxLost
      BY <2>10
    <2> QED BY <1>2, <2>4, <2>5, <2>6, <2>8, <2>9, <2>11
  <1>8. ASSUME NEW d \in Desc, NEW fd \in File, NEW cmd \in Cmd,
               BeginShare(fd, cmd, d)
        PROVE  TypeOK'
    BY <1>8 DEF BeginShare, Activate
  <1>9. ASSUME NEW d \in Desc, NEW fd \in File, NEW ref \in Desc,
               BeginAgain(d, fd, ref)
        PROVE  TypeOK'
    BY <1>9 DEF BeginAgain, Activate
  <1>18. ASSUME NEW fd \in File, NEW ref \in Desc, BeginLosesHeader(fd, ref)
         PROVE  TypeOK'
    <2>1. arhdrs + 1 \in Nat /\ lost + 1 \in 0 .. MaxLost
      BY <1>18, DescriptorsAssumption DEF BeginLosesHeader
    <2> QED BY <1>18, <2>1 DEF BeginLosesHeader
  <1>10. CASE Begin
    BY <1>1, <1>4, <1>5, <1>6, <1>7, <1>8, <1>9, <1>10, <1>18 DEF Begin
  <1>11. ASSUME NEW d \in Desc, ElfNext(d)
         PROVE  TypeOK'
    <2>1. elf[d].e_next \in Nat
      OBVIOUS
    <2>2. e_off' \in [Desc -> Nat]
      BY <1>11, <2>1 DEF ElfNext
    <2> QED BY <1>11, <2>2 DEF ElfNext
  <1>12. ASSUME NEW d \in Desc, NEW offset \in Offset, ElfRand(d, offset)
         PROVE  TypeOK'
    <2>1. offset \in Nat
      BY DescriptorsAssumption
    <2>2. CASE Fail
      BY <2>2 DEF Fail
    <2>3. CASE ~Fail
      <3>1. e_off' = [e_off EXCEPT ![d] = offset]
        BY <1>12, <2>3 DEF ElfRand
      <3>2. e_off' \in [Desc -> Nat]
        BY <2>1, <3>1
      <3> QED BY <1>12, <2>3, <3>2 DEF ElfRand
    <2> QED BY <2>2, <2>3
  <1>13. ASSUME NEW d \in Desc, ElfCntl(d) \/ ElfCntlFails(d)
         PROVE  TypeOK'
    <2>1. Reached(d) \subseteq Desc
      BY DEF Reached
    <2>2. CASE ElfCntl(d)
      BY <2>1, <2>2 DEF ElfCntl
    <2>3. CASE ElfCntlFails(d)
      BY <2>1, <2>3 DEF ElfCntlFails, Fail
    <2> QED BY <1>13, <2>2, <2>3
  <1>14. ASSUME NEW d \in Desc, EndCall(d)
         PROVE  TypeOK'
    BY <1>14 DEF EndCall
  <1>15. ASSUME NEW d \in Desc, EndKeeps(d)
         PROVE  TypeOK'
    <2>1. e_count[d] \in Nat /\ e_count[d] # 0
      BY <1>15, EndingCount DEF EndKeeps
    <2>2. e_count[d] - 1 \in Nat
      BY <2>1
    <2> QED BY <1>15, <2>2 DEF EndKeeps
  <1>16. ASSUME NEW d \in Desc, EndMember(d) \/ EndRoot(d) \/ EndFree(d)
         PROVE  TypeOK'
    <2>1. CASE EndMember(d)
      BY <2>1 DEF EndMember, Unlink, EndArchive, Parent
    <2>2. CASE EndRoot(d)
      BY <2>2 DEF EndRoot
    <2>3. CASE EndFree(d)
      <3>1. Parent(d) # NULL => d \in Members
        BY <2>3 DEF EndFree, ActivationInv, DyingAreLive, Members
      <3>2. Parent(d) # NULL => arhdrs > lost
        BY <3>1, MembersCounted
      <3>3. arhdrs' \in Nat
        BY <2>3, <3>2 DEF EndFree, FreeHeader
      <3> QED BY <2>3, <3>3, InitElfType DEF EndFree
    <2> QED BY <1>16, <2>1, <2>2, <2>3
  <1>17. CASE UNCHANGED vars
    BY <1>17 DEF vars
  <1> QED
    BY <1>1, <1>10, <1>11, <1>12, <1>13, <1>14, <1>15, <1>16, <1>17
    DEF Next, EndStep

\* Every step keeps the rest of the inductive invariant.
LEMMA ActivationStep ==
  ASSUME IInv, [Next]_vars
  PROVE  ActivationInv'
  <1> USE DEF IInv
  <1>1. CASE ElfVersion \/ ElfErrno \/ BeginFails
             \/ \E fd \in File, ref \in Desc : BeginLosesHeader(fd, ref)
    BY <1>1, ActivationFrame
    DEF ElfVersion, ElfErrno, BeginFails, BeginLosesHeader, Fail
  <1>2. ASSUME NEW d \in Desc, NEW fd \in File, NEW cmd \in Cmd,
               BeginFile(d, fd, cmd)
        PROVE  ActivationInv'
    <2> DEFINE fields == [InitElf EXCEPT !.e_fd = fd, !.e_cmd = cmd,
                                         !.e_data = Contents(fd)]
    <2>1. fields.e_parent = NULL
      BY DEF InitElf
    <2>2. AtRest /\ NewElf(d, fields) /\ UNCHANGED e_members
          /\ e_count' = [e_count EXCEPT ![d] = 1]
      BY <1>2 DEF BeginFile
    <2> HIDE DEF fields
    <2> QED BY <2>1, <2>2, NewRootActivation
  <1>3. ASSUME NEW d \in Desc, NEW fd \in File, BeginWrite(d, fd)
        PROVE  ActivationInv'
    <2> DEFINE fields == [InitElf EXCEPT !.e_fd = fd, !.e_cmd = "ELF_C_WRITE"]
    <2>1. fields.e_parent = NULL
      BY DEF InitElf
    <2>2. AtRest /\ NewElf(d, fields) /\ UNCHANGED e_members
          /\ e_count' = [e_count EXCEPT ![d] = 1]
      BY <1>3 DEF BeginWrite
    <2> HIDE DEF fields
    <2> QED BY <2>1, <2>2, NewRootActivation
  <1>4. ASSUME NEW d \in Desc, NEW i \in Image, ElfMemory(d, i)
        PROVE  ActivationInv'
    <2> DEFINE fields == [InitElf EXCEPT !.e_data = i, !.e_memory = TRUE]
    <2>1. fields.e_parent = NULL
      BY DEF InitElf
    <2>2. AtRest /\ NewElf(d, fields) /\ UNCHANGED e_members
          /\ e_count' = [e_count EXCEPT ![d] = 1]
      BY <1>4 DEF ElfMemory
    <2> HIDE DEF fields
    <2> QED BY <2>1, <2>2, NewRootActivation
  <1>5. ASSUME NEW d \in Desc, NEW fd \in File, NEW cmd \in Cmd,
               BeginShare(fd, cmd, d)
        PROVE  ActivationInv'
    <2>1. d \in Open
      BY <1>5 DEF BeginShare, ActivationInv, HandlesAreOpen
    <2> QED BY <1>5, <2>1, SharedActivation DEF BeginShare
  <1>6. ASSUME NEW d \in Desc, NEW fd \in File, NEW ref \in Desc,
               BeginAgain(d, fd, ref)
        PROVE  ActivationInv'
    <2>1. ref \in Open /\ d \in e_members[ref]
      BY <1>6 DEF BeginAgain, ActivationInv, HandlesAreOpen, OpenAtCursor
    <2>2. d \in Open
      BY <2>1 DEF ActivationInv, MembersAgree, Children
    <2> QED BY <1>6, <2>2, SharedActivation DEF BeginAgain
  <1>7. CASE Begin
    BY <1>1, <1>2, <1>3, <1>4, <1>5, <1>6, <1>7, MemberActivation DEF Begin
  <1>8. ASSUME NEW d \in Desc, ElfNext(d) \/ ElfCntl(d) \/ ElfCntlFails(d)
               \/ \E offset \in Offset : ElfRand(d, offset)
        PROVE  ActivationInv'
    BY <1>8, ActivationFrame DEF ElfNext, ElfCntl, ElfCntlFails, ElfRand, Fail
  <1>9. CASE EndStep
    BY <1>9, EndKeepsActivation, EndMemberActivation, EndRootActivation,
       EndFreeActivation DEF EndStep
  <1>10. CASE UNCHANGED vars
    BY <1>10, ActivationFrame DEF vars
  <1> QED
    BY <1>1, <1>7, <1>8, <1>9, <1>10, EndCallActivation DEF Next

\* IInv holds in every reachable state.
THEOREM Invariance == Spec => []IInv
  <1>1. Init => IInv
    BY InitIInv
  <1>2. IInv /\ [Next]_vars => IInv'
    BY TypeStep, ActivationStep, HeadersStep DEF IInv
  <1> QED BY <1>1, <1>2, PTL DEF Spec

\* Every variable keeps its type; in particular --e_count never takes an
\* activation count below zero (end.c).
THEOREM TypeCorrect == Spec => []TypeOK
  <1>1. IInv => TypeOK
    BY DEF IInv
  <1> QED BY <1>1, Invariance, PTL

\* The activation count of an open Elf is exact (begin.c, end.c).
THEOREM CountsAreExact == Spec => []RefCountExact
  <1>1. IInv => RefCountExact
    BY DEF IInv, ActivationInv
  <1> QED BY <1>1, Invariance, PTL

\* No pointer the application holds, and no argument of the recursive elf_end
\* call, is to an Elf that is freed or about to be.
THEOREM NoDanglingHandle == Spec => []HandlesAreOpen
  <1>1. IInv => HandlesAreOpen
    BY DEF IInv, ActivationInv
  <1> QED BY <1>1, Invariance, PTL

\* The archive whose image a member shares is open as long as the member is.
THEOREM ImagesOutliveMembers == Spec => []ArchiveOutlivesMembers
  <1>1. IInv => ArchiveOutlivesMembers
    BY DEF IInv, ActivationInv
  <1> QED BY <1>1, Invariance, PTL

\* The member lists and the parent pointers tell the same story.
THEOREM ListsAgree == Spec => []MembersAgree
  <1>1. IInv => MembersAgree
    BY DEF IInv, ActivationInv
  <1> QED BY <1>1, Invariance, PTL

-----------------------------------------------------------------------------
(***************************************************************************)
(* Theorems about the members of an archive: each is opened once, lies     *)
(* inside its archive, is cut off from the file together with it, and none *)
(* is left behind.  They rest on the inductive invariant IInv that         *)
(* Descriptors_proofs establishes.  With them follows that Descriptors     *)
(* implements Handles: activation counts and member lists keep exactly the *)
(* objects that the application can still reach; every step is a step of   *)
(* Handles or leaves its variables alone.                                  *)
(***************************************************************************)

\* How a step can change the set of open Elfs: it takes some away and leaves
\* the others as they were, or it adds one, a root or a member BeginMember made.
LEMMA OpenChange ==
  ASSUME IInv, [Next]_vars
  PROVE  /\ \A x \in Open : elf'[x] = elf[x]
         /\ \/ Open' \subseteq Open
            \/ \E d \in Desc \ Open :
                  /\ Open' = Open \cup {d}
                  /\ \/ elf'[d].e_parent = NULL
                     \/ \E fd \in File, ref \in Desc : BeginMember(d, fd, ref)
  <1> DEFINE Goal == /\ \A x \in Open : elf'[x] = elf[x]
                     /\ \/ Open' \subseteq Open
                        \/ \E d \in Desc \ Open :
                              /\ Open' = Open \cup {d}
                              /\ \/ elf'[d].e_parent = NULL
                                 \/ \E fd \in File, ref \in Desc :
                                       BeginMember(d, fd, ref)
  <1>1. CASE UNCHANGED << live, elf, dying >>
    BY <1>1 DEF Open
  <1>2. ASSUME NEW d \in Desc, NEW fields, NewElf(d, fields)
        PROVE  /\ d \in Desc \ Open /\ Open' = Open \cup {d}
               /\ elf'[d] = fields /\ \A x \in Open : elf'[x] = elf[x]
    BY <1>2 DEF NewElf, Open, IInv, TypeOK, ActivationInv, DyingAreLive
  <1>3. ASSUME NEW d \in Desc, NEW fd \in File, NEW cmd \in Cmd,
               BeginFile(d, fd, cmd)
        PROVE  Goal
    <2> DEFINE fields == [InitElf EXCEPT !.e_fd = fd, !.e_cmd = cmd,
                                         !.e_data = Contents(fd)]
    <2>1. NewElf(d, fields) /\ fields.e_parent = NULL
      BY <1>3 DEF BeginFile, InitElf
    <2> QED BY <1>2, <2>1
  <1>4. ASSUME NEW d \in Desc, NEW fd \in File, BeginWrite(d, fd)
        PROVE  Goal
    <2> DEFINE fields == [InitElf EXCEPT !.e_fd = fd, !.e_cmd = "ELF_C_WRITE"]
    <2>1. NewElf(d, fields) /\ fields.e_parent = NULL
      BY <1>4 DEF BeginWrite, InitElf
    <2> QED BY <1>2, <2>1
  <1>5. ASSUME NEW d \in Desc, NEW i \in Image, ElfMemory(d, i)
        PROVE  Goal
    <2> DEFINE fields == [InitElf EXCEPT !.e_data = i, !.e_memory = TRUE]
    <2>1. NewElf(d, fields) /\ fields.e_parent = NULL
      BY <1>5 DEF ElfMemory, InitElf
    <2> QED BY <1>2, <2>1
  <1>6. ASSUME NEW d \in Desc, NEW fd \in File, NEW ref \in Desc,
               BeginMember(d, fd, ref)
        PROVE  Goal
    <2>1. PICK fields : NewElf(d, fields)
      BY <1>6 DEF BeginMember
    <2> QED BY <1>2, <1>6, <2>1
  <1>7. CASE Begin
    <2>1. CASE BeginFails \/ \E fd \in File, ref \in Desc : BeginLosesHeader(fd, ref)
      BY <1>1, <2>1 DEF BeginFails, BeginLosesHeader, Fail
    <2>2. ASSUME NEW d \in Desc, NEW fd \in File, NEW cmd \in Cmd,
                 BeginShare(fd, cmd, d)
          PROVE  Goal
      BY <1>1, <2>2 DEF BeginShare
    <2>3. ASSUME NEW d \in Desc, NEW fd \in File, NEW ref \in Desc,
                 BeginAgain(d, fd, ref)
          PROVE  Goal
      BY <1>1, <2>3 DEF BeginAgain
    <2> QED BY <1>3, <1>4, <1>5, <1>6, <1>7, <2>1, <2>2, <2>3 DEF Begin
  <1>8. ASSUME NEW d \in Desc, EndMember(d) \/ EndRoot(d)
        PROVE  Goal
    BY <1>8 DEF EndMember, EndRoot, Open
  <1>9. ASSUME NEW d \in Desc, EndFree(d)
        PROVE  Goal
    BY <1>9 DEF EndFree, Open, IInv, TypeOK
  <1>10. CASE ~Begin /\ ~(\E d \in Desc : EndMember(d) \/ EndRoot(d) \/ EndFree(d))
    BY <1>1, <1>10
    DEF Next, EndStep, vars, ElfVersion, ElfErrno, Fail, ElfNext, ElfRand,
        ElfCntl, ElfCntlFails, EndCall, EndKeeps
  <1> QED BY <1>7, <1>8, <1>9, <1>10

----------------------------------------------------------------------------
(* A member is opened once *)

LEMMA OpenOnceStep ==
  ASSUME IInv, MemberOpenOnce, [Next]_vars
  PROVE  MemberOpenOnce'
  <1> SUFFICES ASSUME NEW d1 \in Open', NEW d2 \in Open',
                      elf'[d1].e_parent # NULL,
                      elf'[d1].e_parent = elf'[d2].e_parent,
                      elf'[d1].e_base = elf'[d2].e_base
               PROVE  d1 = d2
    BY DEF MemberOpenOnce, Parent
  <1>1. CASE d1 \in Open /\ d2 \in Open
    BY <1>1, OpenChange DEF MemberOpenOnce, Parent
  <1>2. ASSUME NEW x \in Open, NEW d \in Open', d \notin Open,
               elf'[d].e_parent # NULL, elf'[x].e_parent = elf'[d].e_parent,
               elf'[x].e_base = elf'[d].e_base
        PROVE  FALSE
    <2>1. PICK fd \in File, ref \in Desc : BeginMember(d, fd, ref)
      BY <1>2, OpenChange
    <2>2. elf'[d].e_parent = ref /\ elf'[d].e_base = NextBase(ref)
      BY <1>2, <2>1 DEF BeginMember, NewElf, IInv, TypeOK, Open
    <2>3. ref \in Open
      BY <2>1 DEF BeginMember, IInv, ActivationInv, HandlesAreOpen
    <2>4. elf'[x] = elf[x]
      BY OpenChange
    <2>5. x \in e_members[ref]
      BY <1>2, <2>2, <2>3, <2>4
      DEF IInv, ActivationInv, MembersAgree, Children, Parent
    <2>6. x \in OpenAtCursor(ref)
      BY <1>2, <2>2, <2>4, <2>5 DEF OpenAtCursor
    <2> QED BY <2>1, <2>6 DEF BeginMember
  <1>3. CASE d1 \notin Open /\ d2 \notin Open
    BY <1>3, OpenChange
  <1> QED BY <1>1, <1>2, <1>3

\* Whatever the cursor did in between, an archive never has two open Elfs for
\* the member at one place (the scan of e_members in elf_begin).
THEOREM MembersOpenOnce == Spec => []MemberOpenOnce
  <1>1. Init => MemberOpenOnce
    BY DEF Init, MemberOpenOnce, Open
  <1>2. IInv /\ MemberOpenOnce /\ [Next]_vars => MemberOpenOnce'
    BY OpenOnceStep
  <1> QED BY <1>1, <1>2, Invariance, PTL DEF Spec

----------------------------------------------------------------------------
(* A member lies inside its archive *)

LEMMA InsideStep ==
  ASSUME IInv, MemberInsideArchive, [Next]_vars
  PROVE  MemberInsideArchive'
  <1> SUFFICES ASSUME NEW d \in Open', elf'[d].e_parent # NULL
               PROVE  elf'[d].e_base + SizeOf(elf'[d].e_data)
                        <= elf'[elf'[d].e_parent].e_base
                             + SizeOf(elf'[elf'[d].e_parent].e_data)
    BY DEF MemberInsideArchive, Parent, e_size
  <1>1. CASE d \in Open
    <2>1. elf'[d] = elf[d] /\ Parent(d) \in Open
      BY <1>1, OpenChange DEF IInv, ActivationInv, ArchiveOutlivesMembers, Parent
    <2>2. elf'[Parent(d)] = elf[Parent(d)]
      BY <2>1, OpenChange
    <2> QED BY <1>1, <2>1, <2>2 DEF MemberInsideArchive, Parent, e_size
  <1>2. CASE d \notin Open
    <2>1. PICK fd \in File, ref \in Desc : BeginMember(d, fd, ref)
      BY <1>2, OpenChange
    <2> DEFINE m == Header[elf[ref].e_data][e_off[ref]]
    <2>2. /\ elf'[d].e_parent = ref /\ elf'[d].e_base = NextBase(ref)
          /\ elf'[d].e_data = Contents(m)
      BY <1>2, <2>1 DEF BeginMember, NewElf, IInv, TypeOK, Open
    <2>3. elf'[ref] = elf[ref] /\ ref \in Desc
      BY <2>1, OpenChange DEF BeginMember, IInv, ActivationInv, HandlesAreOpen
    <2>4. IsArchive(ref) /\ ArhdrErrors(ref) = {} /\ MemberAtCursor(ref)
      BY <2>1 DEF BeginMember, MemberAtCursor
    <2>5. /\ elf[ref].e_data \in Image /\ m \in Image /\ Size[m] \in Nat
          /\ e_off[ref] + HDRSZ + Size[m] <= Size[elf[ref].e_data]
      BY <2>4, HeaderType DEF IInv
    <2>6. SizeOf(Contents(m)) = Size[m] /\ SizeOf(elf[ref].e_data) = Size[elf[ref].e_data]
      BY <2>5, DescriptorsAssumption DEF SizeOf, Contents
    <2>7. elf[ref].e_base \in Nat /\ e_off[ref] \in Nat /\ Size[elf[ref].e_data] \in Nat
      BY <2>5, DescriptorsAssumption DEF IInv, TypeOK
    <2> QED BY <2>2, <2>3, <2>5, <2>6, <2>7 DEF NextBase, HDRSZ
  <1> QED BY <1>1, <1>2

\* Reading a member never leaves the archive's image, for every cursor that
\* elf_rand and elf_next can set (_elf_arhdr).
THEOREM MembersInsideArchive == Spec => []MemberInsideArchive
  <1>1. Init => MemberInsideArchive
    BY DEF Init, MemberInsideArchive, Open
  <1>2. IInv /\ MemberInsideArchive /\ [Next]_vars => MemberInsideArchive'
    BY InsideStep
  <1> QED BY <1>1, <1>2, Invariance, PTL DEF Spec

----------------------------------------------------------------------------
(* The members of a disabled archive are disabled *)

\* elf_cntl comes to the members of every Elf it comes to and does not skip.
LEMMA ReachedIsClosed ==
  ASSUME NEW d \in Desc, TypeOK,
         NEW y \in Reached(d), y \notin e_disabled, NEW x \in e_members[y]
  PROVE  x \in Reached(d)
  <1>1. x \in Desc /\ y \in Desc
    BY DEF TypeOK, Reached
  <1> SUFFICES ASSUME NEW S \in SUBSET Desc, d \in S,
                      \A z \in S \ e_disabled : e_members[z] \subseteq S
               PROVE  x \in S
    BY <1>1 DEF Reached
  <1>2. y \in S
    BY DEF Reached
  <1> QED BY <1>2

\* Which steps change e_disabled: elf_cntl, the end of an Elf, and the birth of
\* one that is disabled from the start.
LEMMA DisabledChange ==
  ASSUME [Next]_vars
  PROVE  \/ e_disabled' = e_disabled
         \/ \E d \in Desc : ElfCntl(d) \/ ElfCntlFails(d)
         \/ \E d \in Desc : EndFree(d)
         \/ \E d \in Desc : /\ d \notin live
                             /\ e_disabled \subseteq e_disabled'
                             /\ e_disabled' \subseteq e_disabled \cup {d}
  <1> DEFINE Newborn == \E d \in Desc : /\ d \notin live
                             /\ e_disabled \subseteq e_disabled'
                             /\ e_disabled' \subseteq e_disabled \cup {d}
  <1>1. ASSUME NEW d \in Desc, NEW fd \in File, NEW ref \in Desc,
               BeginMember(d, fd, ref)
        PROVE  Newborn
    BY <1>1 DEF BeginMember, NewElf
  <1>2. ASSUME NEW d \in Desc, NEW i \in Image, ElfMemory(d, i)
        PROVE  Newborn
    BY <1>2 DEF ElfMemory, NewElf
  <1>3. ASSUME NEW d \in Desc, NEW fd \in File, NEW cmd \in Cmd,
               BeginFile(d, fd, cmd) \/ BeginShare(fd, cmd, d)
        PROVE  e_disabled' = e_disabled
    BY <1>3 DEF BeginFile, BeginShare
  <1>4. CASE Begin
    <2>1. ASSUME BeginFails \/ \E fd \in File, ref \in Desc : BeginLosesHeader(fd, ref)
          PROVE  e_disabled' = e_disabled
      BY <2>1 DEF BeginFails, BeginLosesHeader, Fail
    <2>2. ASSUME NEW d \in Desc, NEW fd \in File, BeginWrite(d, fd)
          PROVE  e_disabled' = e_disabled
      BY <2>2 DEF BeginWrite
    <2>3. ASSUME NEW d \in Desc, NEW fd \in File, NEW ref \in Desc,
                 BeginAgain(d, fd, ref)
          PROVE  e_disabled' = e_disabled
      BY <2>3 DEF BeginAgain
    <2> HIDE DEF Newborn
    <2>4. e_disabled' = e_disabled \/ Newborn
      BY <1>1, <1>2, <1>3, <1>4, <2>1, <2>2, <2>3 DEF Begin
    <2> QED BY <2>4 DEF Newborn
  <1>5. CASE EndStep
    BY <1>5 DEF EndStep, EndKeeps, EndMember, EndRoot
  <1>6. CASE ElfVersion \/ ElfErrno \/ UNCHANGED vars
    BY <1>6 DEF ElfVersion, ElfErrno, Fail, vars
  <1>7. ASSUME NEW d \in Desc,
               \/ ElfNext(d) \/ EndCall(d)
               \/ \E offset \in Offset : ElfRand(d, offset)
        PROVE  e_disabled' = e_disabled
    BY <1>7 DEF ElfNext, EndCall, ElfRand, Fail
  <1> QED BY <1>4, <1>5, <1>6, <1>7 DEF Next

LEMMA DisabledStep ==
  ASSUME IInv, MembersOfDisabledAreDisabled, [Next]_vars
  PROVE  MembersOfDisabledAreDisabled'
  <1> SUFFICES ASSUME NEW x \in Open', elf'[x].e_parent # NULL,
                      elf'[x].e_parent \in e_disabled'
               PROVE  x \in e_disabled'
    BY DEF MembersOfDisabledAreDisabled, Parent
  <1> DEFINE p == elf'[x].e_parent
  <1>1. CASE x \notin Open
    <2>1. PICK fd \in File, ref \in Desc : BeginMember(x, fd, ref)
      BY <1>1, OpenChange
    <2>2. p = ref /\ ref # x
      BY <1>1, <2>1 DEF BeginMember, NewElf, IInv, TypeOK, Open, ActivationInv,
         HandlesAreOpen
    <2> QED BY <2>1, <2>2 DEF BeginMember
  <1>2. CASE x \in Open
    <2>1. /\ elf'[x] = elf[x] /\ p = Parent(x) /\ p \in Open /\ p \in Desc
          /\ x \in Desc /\ x \in e_members[p]
      BY <1>2, OpenChange DEF IInv, TypeOK, ActivationInv, Parent, Open,
         ArchiveOutlivesMembers, MembersAgree, Children
    <2>2. CASE p \in e_disabled
      <3>1. x \in e_disabled
        BY <1>2, <2>1, <2>2 DEF MembersOfDisabledAreDisabled
      <3>2. ASSUME NEW d \in Desc, EndFree(d)
            PROVE  x \in e_disabled'
        BY <1>2, <3>1, <3>2 DEF EndFree, Open
      <3>3. ASSUME NEW d \in Desc, ElfCntl(d) \/ ElfCntlFails(d)
            PROVE  x \in e_disabled'
        BY <3>1, <3>3 DEF ElfCntl, ElfCntlFails, Fail
      <3> QED BY <3>1, <3>2, <3>3, DisabledChange
    <2>3. CASE p \notin e_disabled
      <3>1. ASSUME NEW d \in Desc, ElfCntl(d)
            PROVE  x \in e_disabled'
        BY <2>1, <2>3, <3>1, ReachedIsClosed DEF ElfCntl, IInv
      <3>2. ASSUME NEW d \in Desc, ElfCntlFails(d)
            PROVE  x \in e_disabled'
        BY <2>1, <2>3, <3>2 DEF ElfCntlFails, Fail
      <3>3. ASSUME NEW d \in Desc, EndFree(d)
            PROVE  FALSE
        BY <2>3, <3>3 DEF EndFree
      <3>4. ASSUME NEW d \in Desc, d \notin live,
                   e_disabled' \subseteq e_disabled \cup {d}
            PROVE  FALSE
        BY <2>1, <2>3, <3>4 DEF Open
      <3> QED BY <2>3, <3>1, <3>2, <3>3, <3>4, DisabledChange
    <2> QED BY <2>2, <2>3
  <1> QED BY <1>1, <1>2

\* Once elf_cntl has returned 0 for an archive, no member of it, open then or
\* opened later, however deep, goes to the file again; a failure in the middle
\* of the tree does not break that (cntl.c, begin.c).
THEOREM DisabledTogether == Spec => []MembersOfDisabledAreDisabled
  <1>1. Init => MembersOfDisabledAreDisabled
    BY DEF Init, MembersOfDisabledAreDisabled, Open
  <1>2. IInv /\ MembersOfDisabledAreDisabled /\ [Next]_vars
           => MembersOfDisabledAreDisabled'
    BY DisabledStep
  <1> QED BY <1>1, <1>2, Invariance, PTL DEF Spec

----------------------------------------------------------------------------
(* Nothing is left behind *)

\* A member starts behind its archive, so the parent pointers form no cycle.
BaseGrows ==
    \A d \in Open : Parent(d) # NULL => elf[d].e_base > elf[Parent(d)].e_base

LEMMA BaseGrowsStep ==
  ASSUME IInv, BaseGrows, [Next]_vars
  PROVE  BaseGrows'
  <1> SUFFICES ASSUME NEW d \in Open', elf'[d].e_parent # NULL
               PROVE  elf'[d].e_base > elf'[elf'[d].e_parent].e_base
    BY DEF BaseGrows, Parent
  <1>1. CASE d \in Open
    <2>1. elf'[d] = elf[d] /\ Parent(d) \in Open
      BY <1>1, OpenChange DEF IInv, ActivationInv, ArchiveOutlivesMembers, Parent
    <2>2. elf'[Parent(d)] = elf[Parent(d)]
      BY <2>1, OpenChange
    <2> QED BY <1>1, <2>1, <2>2 DEF BaseGrows, Parent
  <1>2. CASE d \notin Open
    <2>1. PICK fd \in File, ref \in Desc : BeginMember(d, fd, ref)
      BY <1>2, OpenChange
    <2>2. elf'[d].e_parent = ref /\ elf'[d].e_base = NextBase(ref)
      BY <1>2, <2>1 DEF BeginMember, NewElf, IInv, TypeOK, Open
    <2>3. elf'[ref] = elf[ref] /\ elf[ref].e_base \in Nat /\ e_off[ref] \in Nat
      BY <2>1, OpenChange DEF BeginMember, IInv, ActivationInv, HandlesAreOpen,
         TypeOK
    <2> QED BY <2>2, <2>3 DEF NextBase, HDRSZ
  <1> QED BY <1>1, <1>2

LEMMA LeastNatural ==
  ASSUME NEW B \in SUBSET Nat, B # {}
  PROVE  \E m \in B : \A n \in B : m <= n
  <1>1. PICK m \in B : \A n \in B : <<n, m>> \notin OpToRel(<, Nat)
    BY NatLessThanWellFounded, WFMin
  <1>2. ASSUME NEW n \in B
        PROVE  m <= n
    <2> SUFFICES ASSUME n < m PROVE FALSE
      OBVIOUS
    <2>1. <<n, m>> \in Nat \X Nat /\ <<n, m>>[1] < <<n, m>>[2]
      OBVIOUS
    <2>2. <<n, m>> \in OpToRel(<, Nat)
      BY <2>1 DEF OpToRel
    <2> QED BY <1>1, <2>2
  <1> QED BY <1>2

\* If every open Elf had an open member, each would be the parent of another;
\* there are finitely many, so each would also have a parent, and the one with
\* the least e_base none before it.
LEMMA SomeElfHasNoMember ==
  ASSUME IInv, BaseGrows, Open # {}
  PROVE  \E d \in Open : e_members[d] = {}
  <1> SUFFICES ASSUME \A d \in Open : e_members[d] # {}
               PROVE  FALSE
    OBVIOUS
  <1> DEFINE Inner == { x \in Open : Parent(x) # NULL }
             up == [x \in Inner |-> Parent(x)]
  <1>1. IsFiniteSet(Open) /\ Open \subseteq Desc
    BY FS_Subset, DescriptorsAssumption DEF IInv, TypeOK, Open
  <1>2. \A d \in Open : \E x \in Inner : Parent(x) = d
    BY <1>1, DescriptorsAssumption DEF IInv, ActivationInv, MembersAgree, Children
  <1>3. up \in Surjection(Inner, Open)
    <2>1. up \in [Inner -> Open]
      BY DEF IInv, ActivationInv, ArchiveOutlivesMembers
    <2> QED BY <1>2, <2>1 DEF Surjection
  <1>4. IsFiniteSet(Inner) /\ Cardinality(Inner) <= Cardinality(Open)
        /\ (Cardinality(Open) = Cardinality(Inner) => Open = Inner)
    BY <1>1, FS_Subset
  <1>5. Cardinality(Open) <= Cardinality(Inner)
    BY <1>3, <1>4, FS_Surjection
  <1>6. Cardinality(Open) \in Nat /\ Cardinality(Inner) \in Nat
    BY <1>1, <1>4, FS_CardinalityType
  <1>7. Inner = Open
    BY <1>4, <1>5, <1>6
  <1> DEFINE B == { elf[x].e_base : x \in Open }
  <1>8. B \in SUBSET Nat /\ B # {}
    BY <1>1 DEF IInv, TypeOK
  <1>9. PICK d \in Open : \A x \in Open : elf[d].e_base <= elf[x].e_base
    <2>1. PICK b \in B : \A n \in B : b <= n
      BY <1>8, LeastNatural
    <2>2. PICK d \in Open : b = elf[d].e_base
      BY <2>1
    <2> QED BY <2>1, <2>2
  <1>10. Parent(d) # NULL /\ Parent(d) \in Open
    BY <1>7 DEF IInv, ActivationInv, ArchiveOutlivesMembers
  <1>11. elf[d].e_base > elf[Parent(d)].e_base /\ elf[d].e_base <= elf[Parent(d)].e_base
    BY <1>9, <1>10 DEF BaseGrows
  <1>12. elf[d].e_base \in Nat /\ elf[Parent(d)].e_base \in Nat
    BY <1>1, <1>10 DEF IInv, TypeOK
  <1> QED BY <1>11, <1>12

LEMMA UnheldMeansGone ==
  ASSUME IInv, BaseGrows
  PROVE  NoLeak
  <1>0. live = {} => arhdrs = lost
    <2> SUFFICES ASSUME live = {} PROVE arhdrs = lost
      OBVIOUS
    <2>1. Members = {}
      BY DEF Members
    <2>2. Cardinality(Members) = 0
      BY <2>1, FS_EmptySet
    <2> QED BY <2>2, DescriptorsAssumption DEF IInv, HeadersOwned, TypeOK
  <1> SUFFICES ASSUME AtRest, \A d \in Desc : held[d] = 0, live # {}
               PROVE  FALSE
    BY <1>0 DEF NoLeak
  <1>1. Open # {} /\ Open \subseteq Desc
    BY DEF AtRest, Open, IInv, TypeOK
  <1>2. PICK d \in Open : e_members[d] = {}
    BY <1>1, SomeElfHasNoMember
  <1>3. d \in Desc /\ d # NULL /\ held[d] = 0 /\ ending = NULL
    BY <1>1, DescriptorsAssumption DEF AtRest
  <1>4. Cardinality(e_members[d]) = 0
    BY <1>2, FS_EmptySet
  <1>5. e_count[d] = 0
    BY <1>3, <1>4 DEF IInv, ActivationInv, RefCountExact
  <1> QED BY <1>5 DEF IInv, ActivationInv, OpenAreActive

\* When the application has given back every reference and elf_end has
\* returned, no Elf is left and no member header but those lost for want of
\* memory, whatever the order of the calls was.
THEOREM NothingLeaks == Spec => []NoLeak
  <1>1. Init => BaseGrows
    BY DEF Init, BaseGrows, Open
  <1>2. IInv /\ BaseGrows /\ [Next]_vars => BaseGrows'
    BY BaseGrowsStep
  <1>3. IInv /\ BaseGrows => NoLeak
    BY UnheldMeansGone
  <1> QED BY <1>1, <1>2, <1>3, Invariance, PTL DEF Spec
-----------------------------------------------------------------------------

\* The owner and the place of every object, as Handles sees them.
owner == [d \in Desc |-> IF d \in Open THEN Parent(d) ELSE NULL]
place == [d \in Desc |-> IF d \in Open THEN elf[d].e_base ELSE 0]

\* An object's members in Handles are the open Elfs on its list here.
LEMMA MembersOfIsList ==
  ASSUME IInv, NEW d \in Open
  PROVE  H!MembersOf(d) = e_members[d]
  <1>1. d \in Desc /\ Open \subseteq Desc
    BY DEF IInv, TypeOK, Open
  <1>2. H!MembersOf(d) = Children(d)
    BY <1>1 DEF H!MembersOf, Children
  <1> QED BY <1>2 DEF IInv, ActivationInv, MembersAgree

LEMMA RefinesInit == Init => H!HandlesInit
  BY DEF Init, H!HandlesInit, Open

\* Steps that Handles does not see.
LEMMA Invisible ==
  ASSUME IInv, Open' = Open, held' = held, \A x \in Open : elf'[x] = elf[x]
  PROVE  UNCHANGED H!hvars
  <1>1. owner' = owner
    BY DEF owner, Parent
  <1>2. place' = place
    BY DEF place
  <1> QED BY <1>1, <1>2 DEF H!hvars, owner, place

\* A new root is opened.
LEMMA RootIsOpened ==
  ASSUME IInv, NEW d \in Desc, NEW fields, NewElf(d, fields),
         fields.e_parent = NULL, fields.e_base = 0
  PROVE  H!Open(d)
  <1>1. d \notin Open /\ Open' = Open \cup {d} /\ held' = [held EXCEPT ![d] = 1]
    BY DEF NewElf, Open, IInv, ActivationInv, DyingAreLive
  <1>2. elf'[d] = fields /\ \A x \in Open : elf'[x] = elf[x]
    BY <1>1 DEF NewElf, IInv, TypeOK
  <1>3. owner' = owner
    BY <1>1, <1>2 DEF owner, Parent
  <1>4. place' = place
    BY <1>1, <1>2 DEF place
  <1> QED BY <1>1, <1>3, <1>4 DEF H!Open, owner, place

\* A member is opened in a place of its archive where no other is open.
LEMMA MemberIsOpened ==
  ASSUME IInv, NEW d \in Desc, NEW fd \in File, NEW ref \in Desc,
         BeginMember(d, fd, ref)
  PROVE  H!OpenMember(d, ref)
  <1>1. /\ d \notin Open /\ Open' = Open \cup {d}
        /\ held' = [held EXCEPT ![d] = 1]
    <2>1. /\ d \in Desc \ live /\ live' = live \cup {d} /\ dying' = dying
          /\ held' = [held EXCEPT ![d] = 1]
      BY DEF BeginMember, NewElf
    <2> QED BY <2>1 DEF Open, IInv, ActivationInv, DyingAreLive
  <1>2. ref \in Open /\ held[ref] > 0 /\ ref # d
    BY <1>1 DEF BeginMember, IInv, ActivationInv, HandlesAreOpen
  <1>3. /\ elf'[d].e_parent = ref /\ elf'[d].e_base = NextBase(ref)
        /\ \A x \in Open : elf'[x] = elf[x]
    <2> DEFINE m == Header[elf[ref].e_data][e_off[ref]]
               fields == [ e_parent |-> ref, e_base |-> NextBase(ref),
                           e_next |-> e_off[ref] + HDRSZ + Size[m] + (Size[m] % 2),
                           e_data |-> Contents(m),
                           e_fd |-> elf[ref].e_fd, e_cmd |-> "ELF_C_READ",
                           e_memory |-> elf[ref].e_memory ]
    <2>1. elf' = [elf EXCEPT ![d] = fields]
      BY DEF BeginMember, NewElf
    <2>2. DOMAIN elf = Desc /\ Open \subseteq Desc
      BY DEF IInv, TypeOK, Open
    <2>3. fields.e_parent = ref /\ fields.e_base = NextBase(ref)
      OBVIOUS
    <2> HIDE DEF fields
    <2> QED BY <1>1, <2>1, <2>2, <2>3
  <1>4. NextBase(ref) \in Nat
    BY DEF NextBase, HDRSZ, IInv, TypeOK
  <1>5. owner' = [owner EXCEPT ![d] = ref]
    BY <1>1, <1>3 DEF owner, Parent
  <1>6. place' = [place EXCEPT ![d] = place'[d]] /\ place'[d] = NextBase(ref)
    BY <1>1, <1>3 DEF place
  <1>7. \A x \in H!MembersOf(ref) : place[x] # place'[d]
    <2> SUFFICES ASSUME NEW x \in e_members[ref]
                 PROVE  place[x] # NextBase(ref)
      BY <1>2, <1>6, MembersOfIsList
    <2>1. x \in Open /\ x \in Desc
      BY <1>2 DEF IInv, TypeOK, ActivationInv, MembersAgree, Children
    <2>2. elf[x].e_base # NextBase(ref)
      BY DEF BeginMember, OpenAtCursor
    <2> QED BY <2>1, <2>2 DEF place
  <1> QED
    BY <1>1, <1>2, <1>4, <1>5, <1>6, <1>7 DEF H!OpenMember, owner, place

\* An object that elf_begin returns again can be reached: the application holds
\* it, or it has an open member, which keeps its count above zero.
LEMMA ObjectIsShared ==
  ASSUME IInv, NEW d \in Open, AtRest, held[d] < MaxHeld,
         held' = [held EXCEPT ![d] = @ + 1], UNCHANGED << live, elf, dying >>
  PROVE  H!Share(d)
  <1>1. Open' = Open /\ owner' = owner /\ place' = place
    BY DEF Open, owner, place, Parent
  <1>2. ~H!Garbage(d)
    <2>1. d \in Desc /\ d # NULL /\ ending = NULL
      BY DescriptorsAssumption DEF IInv, TypeOK, Open, AtRest
    <2>2. e_count[d] = held[d] + Cardinality(e_members[d]) + 0 /\ e_count[d] > 0
      BY <2>1 DEF IInv, ActivationInv, RefCountExact, OpenAreActive
    <2>3. held[d] # 0 \/ e_members[d] # {}
      BY <2>2, FS_EmptySet
    <2> QED BY <2>3, MembersOfIsList DEF H!Garbage
  <1> QED BY <1>1, <1>2 DEF H!Share, owner, place

\* The last activation ends exactly when the object cannot be reached any more.
LEMMA GarbageIsCollected ==
  ASSUME IInv, NEW d \in Desc, EndMember(d) \/ EndRoot(d)
  PROVE  H!Collect(d)
  <1>1. d \in Open /\ held[d] = 0 /\ e_members[d] = {}
    BY LastIsUnneeded DEF EndMember, EndRoot
  <1>2. H!Garbage(d)
    BY <1>1, MembersOfIsList DEF H!Garbage
  <1>3. Open' = Open \ {d} /\ elf' = elf /\ held' = held
    BY DEF EndMember, EndRoot, Open
  <1>4. owner' = [owner EXCEPT ![d] = NULL]
    BY <1>3 DEF owner, Parent
  <1>5. place' = [place EXCEPT ![d] = 0]
    BY <1>3 DEF place
  <1> QED BY <1>2, <1>3, <1>4, <1>5 DEF H!Collect, owner, place

LEMMA RefinesStep ==
  ASSUME IInv, [Next]_vars
  PROVE  [H!HandlesNext]_(H!hvars)
  <1> DEFINE Goal == H!HandlesNext \/ UNCHANGED H!hvars
  <1>1. ASSUME UNCHANGED << live, elf, held, dying >>
        PROVE  Goal
    <2>1. Open' = Open
      BY <1>1 DEF Open
    <2> QED BY <1>1, <2>1, Invisible
  <1>2. ASSUME NEW d \in Desc, H!Open(d)
        PROVE  Goal
    BY <1>2 DEF H!HandlesNext
  <1>3. ASSUME NEW d \in Desc, H!Share(d)
        PROVE  Goal
    BY <1>3 DEF H!HandlesNext
  <1>4. ASSUME NEW d \in Desc, NEW fd \in File, NEW cmd \in Cmd,
               BeginFile(d, fd, cmd)
        PROVE  Goal
    <2> DEFINE fields == [InitElf EXCEPT !.e_fd = fd, !.e_cmd = cmd,
                                         !.e_data = Contents(fd)]
    <2>1. NewElf(d, fields) /\ fields.e_parent = NULL /\ fields.e_base = 0
      BY <1>4 DEF BeginFile, InitElf
    <2> QED BY <1>2, <2>1, RootIsOpened
  <1>5. ASSUME NEW d \in Desc, NEW fd \in File, BeginWrite(d, fd)
        PROVE  Goal
    <2> DEFINE fields == [InitElf EXCEPT !.e_fd = fd, !.e_cmd = "ELF_C_WRITE"]
    <2>1. NewElf(d, fields) /\ fields.e_parent = NULL /\ fields.e_base = 0
      BY <1>5 DEF BeginWrite, InitElf
    <2> QED BY <1>2, <2>1, RootIsOpened
  <1>6. ASSUME NEW d \in Desc, NEW i \in Image, ElfMemory(d, i)
        PROVE  Goal
    <2> DEFINE fields == [InitElf EXCEPT !.e_data = i, !.e_memory = TRUE]
    <2>1. NewElf(d, fields) /\ fields.e_parent = NULL /\ fields.e_base = 0
      BY <1>6 DEF ElfMemory, InitElf
    <2> QED BY <1>2, <2>1, RootIsOpened
  <1>7. ASSUME NEW d \in Desc, NEW fd \in File, NEW ref \in Desc,
               BeginMember(d, fd, ref)
        PROVE  Goal
    BY <1>7, MemberIsOpened DEF H!HandlesNext
  <1>8. ASSUME NEW d \in Desc, NEW fd \in File, NEW cmd \in Cmd,
               BeginShare(fd, cmd, d)
        PROVE  Goal
    <2>1. d \in Open
      BY <1>8 DEF BeginShare, IInv, ActivationInv, HandlesAreOpen
    <2> QED BY <1>3, <1>8, <2>1, ObjectIsShared DEF BeginShare
  <1>9. ASSUME NEW d \in Desc, NEW fd \in File, NEW ref \in Desc,
               BeginAgain(d, fd, ref)
        PROVE  Goal
    <2>1. ref \in Open /\ d \in e_members[ref]
      BY <1>9 DEF BeginAgain, IInv, ActivationInv, HandlesAreOpen, OpenAtCursor
    <2>2. d \in Open
      BY <2>1 DEF IInv, ActivationInv, MembersAgree, Children
    <2> QED BY <1>3, <1>9, <2>2, ObjectIsShared DEF BeginAgain
  <1>10. ASSUME Begin
         PROVE  Goal
    <2>1. ASSUME BeginFails \/ \E fd \in File, ref \in Desc : BeginLosesHeader(fd, ref)
          PROVE  Goal
      BY <1>1, <2>1 DEF BeginFails, BeginLosesHeader, Fail
    <2> HIDE DEF Goal
    <2>2. Goal
      BY <1>4, <1>5, <1>6, <1>7, <1>8, <1>9, <1>10, <2>1 DEF Begin
    <2> QED BY <2>2 DEF Goal
  <1>11. ASSUME NEW d \in Desc, EndCall(d)
         PROVE  Goal
    <2>1. d \in Open /\ Open' = Open /\ elf' = elf
      BY <1>11 DEF EndCall, Open, IInv, ActivationInv, HandlesAreOpen
    <2>2. owner' = owner /\ place' = place
      BY <2>1 DEF owner, place, Parent
    <2>3. H!Close(d)
      BY <1>11, <2>1, <2>2 DEF EndCall, H!Close, owner, place
    <2> QED BY <2>3 DEF H!HandlesNext
  <1>12. ASSUME NEW d \in Desc, EndMember(d) \/ EndRoot(d)
         PROVE  Goal
    BY <1>12, GarbageIsCollected DEF H!HandlesNext
  <1>13. ASSUME NEW d \in Desc, EndFree(d)
         PROVE  Goal
    <2>1. /\ Open' = Open /\ held' = held /\ \A x \in Open : elf'[x] = elf[x]
      BY <1>13 DEF EndFree, Open, IInv, TypeOK
    <2> QED BY <2>1, Invisible
  <1>14. ASSUME NEW d \in Desc, EndKeeps(d)
         PROVE  Goal
    BY <1>1, <1>14 DEF EndKeeps
  <1>15. ASSUME ElfVersion \/ ElfErrno \/ UNCHANGED vars
         PROVE  Goal
    BY <1>1, <1>15 DEF ElfVersion, ElfErrno, Fail, vars
  <1>16. ASSUME NEW d \in Desc,
                \/ ElfNext(d) \/ ElfCntl(d) \/ ElfCntlFails(d)
                \/ \E offset \in Offset : ElfRand(d, offset)
         PROVE  Goal
    <2>1. UNCHANGED << live, elf, held, dying >>
      BY <1>16 DEF ElfNext, ElfCntl, ElfCntlFails, ElfRand, Fail
    <2> QED BY <1>1, <2>1
  <1> HIDE DEF Goal
  <1>17. Goal
    BY <1>10, <1>11, <1>12, <1>13, <1>14, <1>15, <1>16 DEF Next, EndStep
  <1> QED BY <1>17 DEF Goal

\* begin.c and end.c implement the contract of Handles: an object exists as long
\* as it can be reached, is the only one for its place, and goes only when
\* nothing refers to it.
THEOREM Refinement == Spec => H!HandlesSafety
  <1>1. Init => H!HandlesInit
    BY RefinesInit
  <1>2. IInv /\ [Next]_vars => [H!HandlesNext]_(H!hvars)
    BY RefinesStep
  <1> QED BY <1>1, <1>2, Invariance, PTL DEF Spec, H!HandlesSafety
=============================================================================
