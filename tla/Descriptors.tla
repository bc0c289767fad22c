---------------------------- MODULE Descriptors ----------------------------
(***************************************************************************)
(* Elf descriptors, their activation counts and the tree of archive        *)
(* members: elf_version, elf_begin, elf_memory, elf_next, elf_rand,        *)
(* elf_cntl, elf_errno and elf_end, from begin.c, next.c, rand.c, cntl.c,  *)
(* version.c, errno.c and end.c.                                           *)
(*                                                                         *)
(* The library is single-threaded, so a call is one step, but for elf_end, *)
(* which calls itself on the archive when the last activation of a member  *)
(* ends, and only frees the member when that call has returned: each       *)
(* activation of elf_end and each return is a step.                        *)
(*                                                                         *)
(* A descriptor is the address malloc gives to an Elf.  File contents are  *)
(* members of the set Image: what _elf_check_type makes of them is Kind,   *)
(* their length is Size, and Header[i] maps the offsets of archive i where *)
(* a well-formed header is found to the contents of the member behind it.  *)
(***************************************************************************)
EXTENDS Integers, FiniteSets

CONSTANTS Desc,       \* addresses of Elf structures
          NULL,       \* the null pointer
          Image,      \* file contents
          File,       \* the contents the application has a descriptor for
          Kind,       \* e_kind of each image
          Size,       \* length of each image in bytes
          Header,     \* member headers of each image, by offset
          Offset,     \* offsets passed to elf_rand
          MaxHeld,    \* bound: references the application holds to one Elf
          MaxLost     \* bound: member headers lost for want of memory

ASSUME DescriptorsAssumption ==
    /\ IsFiniteSet(Desc)
    /\ NULL \notin Desc \cup Image
    /\ File \subseteq Image
    /\ Kind \in [Image -> {"ELF_K_NONE", "ELF_K_AR", "ELF_K_ELF"}]
    /\ Size \in [Image -> Nat]
    /\ \A i \in Image : Kind[i] # "ELF_K_NONE" => Size[i] > 0
    /\ \A i \in Image : \A o \in DOMAIN Header[i] :
           o \in Nat /\ Header[i][o] \in Image
    /\ \A o \in Offset : o \in Nat
    /\ MaxHeld \in Nat /\ MaxLost \in Nat

SARMAG == 8           \* length of the archive magic
HDRSZ  == 60          \* sizeof(struct ar_hdr)

Cmd == {"ELF_C_READ", "ELF_C_WRITE", "ELF_C_RDWR"}

VARIABLES
    version,          \* _elf_version # EV_NONE
    errno,            \* _elf_errno # 0 (which error it is, is not kept)
    live,             \* malloc'ed Elf structures
    elf,              \* the fields elf_begin sets once and for all
    e_count,          \* activation count
    e_members,        \* open members of an archive (the list of e_link)
    e_off,            \* archive: where elf_begin looks for the next member
    e_disabled,       \* descriptors cut off from their file by elf_cntl
    held,             \* references held by the application (no field of Elf)
    ending,           \* the Elf that elf_end is called for now, or NULL
    dying,            \* Elfs out of use whose elf_end has not freed them yet
    arhdrs,           \* how many member headers (Elf_Arhdr) are malloc'ed
    lost              \* those of them that no Elf came to own

vars == << version, errno, live, elf, e_count, e_members, e_off, e_disabled,
           held, ending, dying, arhdrs, lost >>

headers == << arhdrs, lost >>

----------------------------------------------------------------------------
\* INIT_ELF: what an Elf looks like before elf_begin fills it in; also how
\* the model clears an Elf that was freed.
InitElf == [ e_parent |-> NULL, e_base |-> 0, e_next |-> 0, e_data |-> NULL,
             e_fd |-> NULL, e_cmd |-> "ELF_C_READ", e_memory |-> FALSE ]

TypeOK ==
    /\ version \in BOOLEAN
    /\ errno \in BOOLEAN
    /\ live \in SUBSET Desc
    /\ elf \in [Desc -> [ e_parent : Desc \cup {NULL}, e_base : Nat,
                          e_next : Nat, e_data : Image \cup {NULL},
                          e_fd : File \cup {NULL}, e_cmd : Cmd,
                          e_memory : BOOLEAN ]]
    /\ e_count \in [Desc -> Nat]
    /\ e_members \in [Desc -> SUBSET Desc]
    /\ e_off \in [Desc -> Nat]
    /\ e_disabled \in SUBSET Desc
    /\ held \in [Desc -> Nat]
    /\ ending \in Desc \cup {NULL}
    /\ dying \in SUBSET Desc
    /\ arhdrs \in Nat /\ lost \in 0 .. MaxLost

Init ==
    /\ version = FALSE
    /\ errno = FALSE
    /\ live = {}
    /\ elf = [d \in Desc |-> InitElf]
    /\ e_count = [d \in Desc |-> 0]
    /\ e_members = [d \in Desc |-> {}]
    /\ e_off = [d \in Desc |-> 0]
    /\ e_disabled = {}
    /\ held = [d \in Desc |-> 0]
    /\ ending = NULL
    /\ dying = {}
    /\ arhdrs = 0 /\ lost = 0

Parent(d)   == elf[d].e_parent
Readable(d) == elf[d].e_cmd # "ELF_C_WRITE"
Writable(d) == elf[d].e_cmd # "ELF_C_READ"

\* e_size and e_kind follow from the contents.  An empty member has no e_data.
SizeOf(i)  == IF i = NULL THEN 0 ELSE Size[i]
KindOf(i)  == IF i = NULL THEN "ELF_K_NONE" ELSE Kind[i]
e_size(d)  == SizeOf(elf[d].e_data)
IsArchive(d) == KindOf(elf[d].e_data) = "ELF_K_AR"
Contents(i) == IF Size[i] = 0 THEN NULL ELSE i

\* _elf_check_type and _elf_init_ar: an archive's cursor starts past the magic.
FirstOff(i) == IF KindOf(i) = "ELF_K_AR" THEN SARMAG ELSE 0

\* The application calls the library only when no call is under way.
AtRest == ending = NULL /\ dying = {}

\* seterr of a call that fails and changes nothing else.
Fail ==
    /\ errno' = TRUE
    /\ UNCHANGED << version, live, elf, e_count, e_members, e_off, e_disabled,
                    held, ending, dying, headers >>

----------------------------------------------------------------------------
(* elf_version and elf_errno *)

\* EV_NONE only asks; an unknown version is refused; EV_CURRENT is set.
ElfVersion ==
    /\ AtRest
    /\ \/ /\ version' = TRUE
          /\ UNCHANGED << errno, live, elf, e_count, e_members, e_off,
                          e_disabled, held, ending, dying, headers >>
       \/ Fail                                   \* ERROR_UNKNOWN_VERSION

ElfErrno ==
    /\ AtRest
    /\ errno
    /\ errno' = FALSE
    /\ UNCHANGED << version, live, elf, e_count, e_members, e_off, e_disabled,
                    held, ending, dying, headers >>

----------------------------------------------------------------------------
(* elf_begin and elf_memory *)

\* malloc returned d: it becomes an Elf with the given fields, activated once.
NewElf(d, fields) ==
    /\ d \in Desc \ live
    /\ live' = live \cup {d}
    /\ elf' = [elf EXCEPT ![d] = fields]
    /\ held' = [held EXCEPT ![d] = 1]
    /\ UNCHANGED << version, errno, ending, dying >>

\* elf_begin(fd, cmd, NULL) for a file that is read: mapped, or read into
\* memory if it is writable; an empty file leaves e_data NULL.
BeginFile(d, fd, cmd) ==
    /\ AtRest /\ version
    /\ cmd \in {"ELF_C_READ", "ELF_C_RDWR"}
    /\ NewElf(d, [InitElf EXCEPT !.e_fd = fd, !.e_cmd = cmd,
                                 !.e_data = Contents(fd)])
    /\ e_count' = [e_count EXCEPT ![d] = 1]
    /\ e_off' = [e_off EXCEPT ![d] = FirstOff(Contents(fd))]
    /\ UNCHANGED << e_members, e_disabled, headers >>

\* elf_begin(fd, ELF_C_WRITE, ref) ignores ref and never looks at the file.
BeginWrite(d, fd) ==
    /\ AtRest /\ version
    /\ NewElf(d, [InitElf EXCEPT !.e_fd = fd, !.e_cmd = "ELF_C_WRITE"])
    /\ e_count' = [e_count EXCEPT ![d] = 1]
    /\ UNCHANGED << e_members, e_off, e_disabled, headers >>

\* elf_memory(image, size): no file behind it, disabled from the start.
ElfMemory(d, i) ==
    /\ AtRest /\ version
    /\ Size[i] > 0
    /\ NewElf(d, [InitElf EXCEPT !.e_data = i, !.e_memory = TRUE])
    /\ e_count' = [e_count EXCEPT ![d] = 1]
    /\ e_off' = [e_off EXCEPT ![d] = FirstOff(i)]
    /\ e_disabled' = e_disabled \cup {d}
    /\ UNCHANGED << e_members, headers >>

\* _elf_arhdr: the errors that keep the next member from being read.  None is
\* set at the end of the archive, where elf_begin just returns NULL.
TrustsMemberSize(a) ==                                              \* mutant
    LET i   == elf[a].e_data
        off == e_off[a]
    IN  IF off = Size[i] \/ off \in DOMAIN Header[i] THEN {}
                                                    ELSE {"ERROR_OUTSIDE"}
ArhdrErrors(a) ==
    LET i   == elf[a].e_data
        off == e_off[a]
        m   == Header[i][off]
    IN  IF off = Size[i] THEN {}
        ELSE IF off > Size[i] THEN {"ERROR_OUTSIDE"}
        ELSE IF off + HDRSZ > Size[i] THEN {"ERROR_TRUNC_ARHDR"}
        ELSE IF off \notin DOMAIN Header[i] THEN {"ERROR_ARFMAG", "ERROR_ARHDR"}
        ELSE IF off + HDRSZ + Size[m] > Size[i] THEN {"ERROR_TRUNC_MEMBER"}
        ELSE {}

\* The header at the cursor is well-formed and its member is all there.
MemberAtCursor(a) == e_off[a] # e_size(a) /\ ArhdrErrors(a) = {}

\* The checks elf_begin makes of ref, and the error of the first that fails.
RefErrors(fd, cmd, ref) ==
    IF ~Readable(ref) \/ (cmd = "ELF_C_RDWR" /\ ~Writable(ref))
      THEN {"ERROR_CMDMISMATCH"}
    ELSE IF ~IsArchive(ref) THEN {}
    ELSE IF cmd = "ELF_C_RDWR" THEN {"ERROR_MEMBERWRITE"}
    ELSE IF ~elf[ref].e_memory /\ fd # elf[ref].e_fd
      THEN {"ERROR_FDMISMATCH"}
    ELSE ArhdrErrors(ref)

\* xelf->e_count++ for an Elf that is handed out again.
ForgetActivation(d) == e_count' = e_count                            \* mutant
Activate(d) == e_count' = [e_count EXCEPT ![d] = @ + 1]

\* elf_begin(fd, cmd, ref) for a ref that is no archive returns ref itself.
BeginShare(fd, cmd, ref) ==
    /\ AtRest /\ version
    /\ held[ref] > 0 /\ held[ref] < MaxHeld
    /\ cmd \in {"ELF_C_READ", "ELF_C_RDWR"}
    /\ RefErrors(fd, cmd, ref) = {} /\ ~IsArchive(ref)
    /\ Activate(ref)
    /\ held' = [held EXCEPT ![ref] = @ + 1]
    /\ UNCHANGED << version, errno, live, elf, e_members, e_off, e_disabled,
                    ending, dying, headers >>

\* Where the data of the member at the cursor starts in the file, and the
\* open members that start there.
NextBase(a) == elf[a].e_base + e_off[a] + HDRSZ
ComparesHeader(a) ==                                               \* mutant
    { x \in e_members[a] : elf[x].e_base = elf[a].e_base + e_off[a] }
OpenAtCursor(a) == { x \in e_members[a] : elf[x].e_base = NextBase(a) }

\* The new member is linked to its archive, which it keeps active.
LinkWithoutCount(ref, d) ==                                         \* mutant
    /\ e_members' = [e_members EXCEPT ![ref] = @ \cup {d}]
    /\ e_count' = [e_count EXCEPT ![d] = 1]
LinkMember(ref, d) ==
    /\ e_members' = [e_members EXCEPT ![ref] = @ \cup {d}]
    /\ e_count' = [e_count EXCEPT ![ref] = @ + 1, ![d] = 1]

\* elf_begin of an archive member that is not open: a new Elf that shares the
\* archive's image, is linked to the archive and activates it once more.
BeginMember(d, fd, ref) ==
    /\ AtRest /\ version
    /\ held[ref] > 0
    /\ IsArchive(ref) /\ RefErrors(fd, "ELF_C_READ", ref) = {}
    /\ MemberAtCursor(ref) /\ OpenAtCursor(ref) = {}
    /\ LET m    == Header[elf[ref].e_data][e_off[ref]]
           next == e_off[ref] + HDRSZ + Size[m] + (Size[m] % 2)
       IN  /\ NewElf(d, [ e_parent |-> ref,
                          e_base   |-> NextBase(ref),
                          e_next   |-> next,
                          e_data   |-> Contents(m),
                          e_fd     |-> elf[ref].e_fd,
                          e_cmd    |-> "ELF_C_READ",
                          e_memory |-> elf[ref].e_memory ])
           /\ e_off' = [e_off EXCEPT ![ref] = next,
                                     ![d] = FirstOff(Contents(m))]
    /\ LinkMember(ref, d)
    /\ arhdrs' = arhdrs + 1 /\ UNCHANGED lost
    /\ e_disabled' = IF ref \in e_disabled THEN e_disabled \cup {d}
                                           ELSE e_disabled

\* elf_begin of a member that is open already returns its Elf, activated once
\* more; the archive's cursor stays where it is, the header read now is freed.
BeginAgain(d, fd, ref) ==
    /\ AtRest /\ version
    /\ held[ref] > 0 /\ held[d] < MaxHeld
    /\ IsArchive(ref) /\ RefErrors(fd, "ELF_C_READ", ref) = {}
    /\ MemberAtCursor(ref) /\ d \in OpenAtCursor(ref)
    /\ Activate(d)
    /\ held' = [held EXCEPT ![d] = @ + 1]
    /\ UNCHANGED << version, errno, live, elf, e_members, e_off, e_disabled,
                    ending, dying, headers >>

\* elf_begin or elf_memory returns NULL with an error: the version is unset,
\* the command unknown, ref refused (RefErrors), the file cannot be sized or
\* read, or there is no memory for the header or for the Elf of a file.
BeginFails == AtRest /\ Fail

\* There was memory for the header of the member at the cursor and is none for
\* its Elf: elf_begin returns without freeing the header.
BeginLosesHeader(fd, ref) ==
    /\ AtRest /\ version
    /\ held[ref] > 0
    /\ IsArchive(ref) /\ RefErrors(fd, "ELF_C_READ", ref) = {}
    /\ MemberAtCursor(ref)
    /\ lost < MaxLost
    /\ errno' = TRUE                              \* ERROR_MEM_ELF
    /\ arhdrs' = arhdrs + 1 /\ lost' = lost + 1
    /\ UNCHANGED << version, live, elf, e_count, e_members, e_off, e_disabled,
                    held, ending, dying >>

----------------------------------------------------------------------------
(* elf_next, elf_rand and elf_cntl *)

\* elf_next moves the cursor of the member's archive behind the member, also
\* when the archive has been read further since, or is no longer held.
ElfNext(d) ==
    /\ AtRest
    /\ held[d] > 0 /\ Parent(d) # NULL
    /\ e_off' = [e_off EXCEPT ![Parent(d)] = elf[d].e_next]
    /\ UNCHANGED << version, errno, live, elf, e_count, e_members, e_disabled,
                    held, ending, dying, headers >>

ElfRand(d, offset) ==
    /\ AtRest
    /\ held[d] > 0
    /\ \/ ~IsArchive(d) /\ Fail                  \* ERROR_NOTARCHIVE
       \/ /\ IsArchive(d) /\ (offset = 0 \/ offset > e_size(d))
          /\ Fail                                \* ERROR_BADOFF
       \/ /\ IsArchive(d) /\ offset > 0 /\ offset <= e_size(d)
          /\ e_off' = [e_off EXCEPT ![d] = offset]
          /\ UNCHANGED << version, errno, live, elf, e_count, e_members,
                          e_disabled, held, ending, dying, headers >>

\* The Elfs elf_cntl comes to from d: it goes from an archive to its open
\* members and turns back at an Elf that is disabled already.
OneLevelReached(d) == {d} \cup e_members[d]                         \* mutant
Reached(d) ==
    { x \in Desc : \A S \in SUBSET Desc :
        (d \in S /\ \A y \in S \ e_disabled : e_members[y] \subseteq S)
            => x \in S }

\* elf_cntl(d, ELF_C_FDDONE), or ELF_C_FDREAD with all the data readable.
ElfCntl(d) ==
    /\ AtRest
    /\ held[d] > 0
    /\ e_disabled' = e_disabled \cup Reached(d)
    /\ UNCHANGED << version, errno, live, elf, e_count, e_members, e_off, held,
                    ending, dying, headers >>

\* elf_cntl(d, ELF_C_FDREAD) when the sections of one ELF file cannot be read:
\* what was done before is disabled, each with all its members; the file, the
\* archives it is in and what was still to come are not.
ElfCntlFails(d) ==
    /\ AtRest
    /\ held[d] > 0
    /\ \/ Fail                       \* ERROR_WRONLY, ERROR_INVALID_CMD
       \/ /\ Readable(d)
          /\ \E bad \in Reached(d) \ e_disabled,
                done \in SUBSET (Reached(d) \ e_disabled) :
                /\ KindOf(elf[bad].e_data) = "ELF_K_ELF"
                /\ d \notin done /\ bad \notin done
                /\ \A x \in done : e_members[x] \subseteq done \cup e_disabled
                /\ \A x \in done : Parent(x) \in done \/ bad \in Reached(Parent(x))
                /\ e_disabled' = e_disabled \cup done
          /\ errno' = TRUE
          /\ UNCHANGED << version, live, elf, e_count, e_members, e_off, held,
                          ending, dying, headers >>

----------------------------------------------------------------------------
(* elf_end *)

\* The application calls elf_end and with that gives up a reference.
EndCall(d) ==
    /\ AtRest
    /\ held[d] > 0
    /\ held' = [held EXCEPT ![d] = @ - 1]
    /\ ending' = d
    /\ UNCHANGED << version, errno, live, elf, e_count, e_members, e_off,
                    e_disabled, dying, headers >>

\* --e_count comes to 0.
EndsEarly(d)      == e_count[d] <= 2                                \* mutant
LastActivation(d) == e_count[d] = 1

\* --e_count leaves activations: nothing else happens.
EndKeeps(d) ==
    /\ ending = d
    /\ ~LastActivation(d)
    /\ e_count' = [e_count EXCEPT ![d] = @ - 1]
    /\ ending' = NULL
    /\ UNCHANGED << version, errno, live, elf, e_members, e_off, e_disabled,
                    held, dying, headers >>

\* The walk along the siblings that takes a member off its archive's list.
StaysLinked(d) == e_members' = e_members                            \* mutant
Unlink(d) == e_members' = [e_members EXCEPT ![Parent(d)] = @ \ {d}]

\* elf_end(elf->e_parent): the member gives up its activation of the archive.
EndArchive(d) == ending' = Parent(d)

\* The last activation of a member ends: it is taken off the archive's list
\* and elf_end is called for the archive.
EndMember(d) ==
    /\ ending = d
    /\ LastActivation(d) /\ Parent(d) # NULL
    /\ e_count' = [e_count EXCEPT ![d] = 0]
    /\ Unlink(d)
    /\ dying' = dying \cup {d}
    /\ EndArchive(d)
    /\ UNCHANGED << version, errno, live, elf, e_off, e_disabled, held, headers >>

\* The last activation of another Elf ends: its image is released.
EndRoot(d) ==
    /\ ending = d
    /\ LastActivation(d) /\ Parent(d) = NULL
    /\ e_count' = [e_count EXCEPT ![d] = 0]
    /\ dying' = dying \cup {d}
    /\ ending' = NULL
    /\ UNCHANGED << version, errno, live, elf, e_members, e_off, e_disabled,
                    held, headers >>

\* The header of a member goes with its Elf.
KeepsHeader(d) == arhdrs' = arhdrs                                  \* mutant
FreeHeader(d) == arhdrs' = IF Parent(d) # NULL THEN arhdrs - 1 ELSE arhdrs

\* The innermost elf_end frees what belongs to the Elf, and the Elf, and
\* returns; the archive goes before the member whose end was its own.
NeverReturns(d) ==                                                  \* mutant
    /\ ending = NULL /\ d \in dying /\ Parent(d) \notin dying
    /\ live' = live \ {d}
    /\ UNCHANGED << version, errno, elf, e_count, e_members, e_off, e_disabled,
                    held, ending, dying, headers >>
EndFree(d) ==
    /\ ending = NULL
    /\ d \in dying /\ Parent(d) \notin dying
    /\ live' = live \ {d}
    /\ dying' = dying \ {d}
    /\ elf' = [elf EXCEPT ![d] = InitElf]
    /\ e_members' = [e_members EXCEPT ![d] = {}]
    /\ e_off' = [e_off EXCEPT ![d] = 0]
    /\ e_disabled' = e_disabled \ {d}
    /\ FreeHeader(d)
    /\ UNCHANGED << version, errno, e_count, held, ending, lost >>

EndStep == \E d \in Desc : EndKeeps(d) \/ EndMember(d) \/ EndRoot(d) \/ EndFree(d)

----------------------------------------------------------------------------
Begin ==
    \/ \E d \in Desc, fd \in File :
          \/ \E cmd \in Cmd : BeginFile(d, fd, cmd) \/ BeginShare(fd, cmd, d)
          \/ BeginWrite(d, fd)
          \/ \E ref \in Desc : BeginMember(d, fd, ref) \/ BeginAgain(d, fd, ref)
    \/ \E d \in Desc, i \in Image : ElfMemory(d, i)
    \/ \E ref \in Desc, fd \in File : BeginLosesHeader(fd, ref)
    \/ BeginFails

Next ==
    \/ ElfVersion
    \/ ElfErrno
    \/ Begin
    \/ \E d \in Desc :
          \/ ElfNext(d)
          \/ \E offset \in Offset : ElfRand(d, offset)
          \/ ElfCntl(d) \/ ElfCntlFails(d)
          \/ EndCall(d)
    \/ EndStep

\* A call of elf_end runs to its end: there is no loop in it that waits, and
\* the application does nothing else meanwhile.
Spec == Init /\ [][Next]_vars
FairSpec == Spec /\ WF_vars(EndStep)

----------------------------------------------------------------------------
Open == live \ dying
Children(a) == { x \in Open : Parent(x) = a }

\* The activation count is never off: it is the number of references the
\* application holds, plus one for each open member, plus the activation that
\* an elf_end under way is about to take back.
RefCountExact ==
    \A d \in Open :
        e_count[d] = held[d] + Cardinality(e_members[d])
                     + (IF ending = d THEN 1 ELSE 0)

\* The list of an archive holds exactly the open Elfs that point back to it:
\* elf_end finds a member where it looks for it, elf_cntl misses none.
MembersAgree == \A a \in Open : e_members[a] = Children(a)

\* Members share the image of their archive, and elf_next writes to it: the
\* archive of an open member is open, whoever closed what in which order.
ArchiveOutlivesMembers ==
    \A d \in Open : Parent(d) # NULL => Parent(d) \in Open

\* Every pointer the application still holds, and the one elf_end works on,
\* is to an Elf that is not freed or about to be.
HandlesAreOpen ==
    /\ \A d \in Desc : held[d] > 0 => d \in Open
    /\ ending # NULL => ending \in Open

\* What these four rest on, inductive together with TypeOK: an open Elf has an
\* activation left, and one that elf_end is done with is on nobody's list and
\* has nobody on its own.
DyingAreLive   == dying \subseteq live
OpenAreActive  == \A d \in Open : e_count[d] > 0
ClosedAreEmpty == \A d \in Desc \ Open : e_members[d] = {}

\* What NoLeak rests on besides: every header but the lost ones has its member.
Members == { d \in live : Parent(d) # NULL }
HeadersOwned == arhdrs = Cardinality(Members) + lost

ActivationInv ==
    /\ DyingAreLive /\ HandlesAreOpen
    /\ RefCountExact /\ OpenAreActive
    /\ MembersAgree /\ ClosedAreEmpty
    /\ ArchiveOutlivesMembers

\* A member asked for twice is one Elf ("to avoid multiple independent elf
\* descriptors", elf_begin), so data cooked for one is not cooked again.
MemberOpenOnce ==
    \A d1, d2 \in Open :
        (/\ Parent(d1) # NULL /\ Parent(d1) = Parent(d2)
         /\ elf[d1].e_base = elf[d2].e_base) => d1 = d2

\* An archive that elf_cntl cut off from its file has no open member that
\* would read the file: those open then are cut off, later ones inherit it.
MembersOfDisabledAreDisabled ==
    \A d \in Open : (Parent(d) # NULL /\ Parent(d) \in e_disabled)
                        => d \in e_disabled

\* The bytes of a member lie inside its archive's, whatever offsets elf_rand
\* and elf_next have put into e_off.
MemberInsideArchive ==
    \A d \in Open : Parent(d) # NULL =>
        elf[d].e_base + e_size(d) <= elf[Parent(d)].e_base + e_size(Parent(d))

\* Once elf_end has returned for the last reference nothing is left behind, no
\* Elf and no member header but the ones of an elf_begin that had no memory for
\* the Elf: in whichever order members were opened, asked for again, refused
\* and ended, every header was freed by the elf_begin that read it or with its
\* member.
NoLeak == (AtRest /\ \A d \in Desc : held[d] = 0)
              => live = {} /\ arhdrs = lost

\* Every call of elf_end returns: the recursion through the archives ends.
EndReturns == ~AtRest ~> AtRest

----------------------------------------------------------------------------
\* Descriptors implements Handles: an object is there until elf_end takes it
\* off its archive's list, and it is where the archive has it.
H == INSTANCE Handles WITH
        open  <- Open,
        refs  <- held,
        owner <- [d \in Desc |-> IF d \in Open THEN Parent(d) ELSE NULL],
        place <- [d \in Desc |-> IF d \in Open THEN elf[d].e_base ELSE 0]

ImplementsHandles == H!HandlesSpec
=============================================================================
