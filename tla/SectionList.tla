---------------------------- MODULE SectionList ----------------------------
(***************************************************************************)
(* The section list of one ELF descriptor: how _elf_cook_shdr builds it    *)
(* from the file, how elf_newscn, elfx_remscn, elfx_movscn and the         *)
(* obsolete elf_delscn edit it, how the number of sections is kept in the  *)
(* ELF header, and how _elf_free_scns gives the list back (cook.c,         *)
(* newscn.c, x.remscn.c, x.movscn.c, opt.delscn.c, end.c).                 *)
(*                                                                         *)
(* A section is the address of an Elf_Scn.  _elf_cook_shdr puts the        *)
(* sections of the file into one malloc'ed block, of which only the first  *)
(* section can be handed to free; elf_newscn mallocs each section on its   *)
(* own.  An editing call is one step (the library is single-threaded);     *)
(* _elf_free_scns, which reads sections between calls to free, takes one   *)
(* step per section.  A call that is refused changes nothing here and is   *)
(* not a step.                                                             *)
(***************************************************************************)
EXTENDS Integers, FiniteSets, Sequences

CONSTANTS Block,      \* the addresses in the block of _elf_cook_shdr, in order
          Separate,   \* addresses malloc returns to _makescn
          NULL,       \* the null pointer
          LoReserve,  \* SHN_LORESERVE
          HalfRange,  \* e_shnum is kept modulo this
          Headers,    \* section headers [sh_type, sh_link, sh_info] in use
          Linkers     \* bound: the sections whose header refers to others

Blocked == {Block[i] : i \in 1 .. Len(Block)}
Scn     == Blocked \cup Separate

Index   == 0 .. Cardinality(Scn)

(***************************************************************************)
(* Section types, by what elf_delscn does to the header: the symbol tables *)
(* and their kin have a section number in sh_link, relocations have one in *)
(* sh_info too.  Groups and extended symbol indices also keep a section    *)
(* number in sh_link, but elf_delscn does not know them.                   *)
(***************************************************************************)
ShType == {"other", "linked", "reloc", "group"}
Plain  == [sh_type |-> "other", sh_link |-> 0, sh_info |-> 0]
Shdr   == [sh_type : ShType, sh_link : Nat, sh_info : Nat]

ASSUME SectionListAssumption ==
    /\ Block \in Seq(Blocked)
    /\ \A i, j \in 1 .. Len(Block) : Block[i] = Block[j] => i = j
    /\ IsFiniteSet(Separate)
    /\ Blocked \cap Separate = {}
    /\ NULL \notin Scn
    /\ LoReserve \in Nat \ {0, 1}
    /\ HalfRange \in Nat /\ LoReserve < HalfRange
    /\ Headers \subseteq Shdr
    /\ Linkers \subseteq Scn

VARIABLES
    phase,            \* "open", "free" (in _elf_free_scns), "done", "undefined"
    e_ehdr,           \* the ELF header is in memory
    e_shnum,          \* its e_shnum
    e_scn_1, e_scn_n, \* first and last section, or NULL
    listed,           \* the sections on the list (no field: what s_link reaches)
    s_link, s_index,  \* fields of a section
    s_shdr,           \* its section header, but for the sh_size of section 0
    sh_size,          \* sh_size of the first section
    cut,              \* (no field) see elf_delscn
    alloc,            \* malloc'ed sections
    scn, freescn      \* the variables of _elf_free_scns

list == << e_scn_1, e_scn_n, listed, s_link, s_index >>
walk == << scn, freescn >>
vars == << phase, e_ehdr, e_shnum, list, s_shdr, sh_size, cut, alloc, walk >>

Init == /\ phase = "open"
        /\ e_ehdr = FALSE
        /\ e_shnum = 0
        /\ e_scn_1 = NULL /\ e_scn_n = NULL
        /\ listed = {}
        /\ s_link = [s \in Scn |-> NULL]
        /\ s_index = [s \in Scn |-> 0]
        /\ s_shdr = [s \in Scn |-> Plain]
        /\ sh_size = 0 /\ cut = FALSE
        /\ alloc = {}
        /\ scn = NULL /\ freescn = NULL
-----------------------------------------------------------------------------
(***************************************************************************)
(* free() of a section that has s_freeme set: the first section of the     *)
(* block takes the whole block along.                                      *)
(***************************************************************************)
SFreeme(s) == s \in Separate \/ s = Block[1]

Memory(s) == IF s \in Separate THEN {s}
             ELSE IF s \in Blocked THEN Blocked ELSE {}

(***************************************************************************)
(* _elf_update_shnum: a count in the reserved range goes to the sh_size of *)
(* the first section, and e_shnum is 0.                                    *)
(***************************************************************************)
LosesCount(n) == \* mutant
    /\ IF n >= LoReserve THEN e_shnum' = 0 /\ sh_size' = sh_size
                         ELSE e_shnum' = n /\ sh_size' = 0
    /\ cut' = FALSE

UpdateShnum(n) ==
    /\ IF n >= LoReserve THEN e_shnum' = 0 /\ sh_size' = n
                         ELSE e_shnum' = n /\ sh_size' = 0
    /\ cut' = FALSE

(***************************************************************************)
(* The header is read from the file or made by elf32_newehdr; no section   *)
(* comes with it if the file has no section table, or if the table cannot  *)
(* be read: then e_ehdr stays set and e_shnum is what the file says.       *)
(***************************************************************************)
CookHeader(n) ==
    /\ phase = "open" /\ ~e_ehdr
    /\ e_ehdr' = TRUE
    /\ e_shnum' = n
    /\ UNCHANGED << phase, list, s_shdr, sh_size, cut, alloc, walk >>

(***************************************************************************)
(* _elf_cook_shdr on a file of n sections, whose count is in the first     *)
(* section header if ext, and whose headers are hd.                        *)
(***************************************************************************)
CookSections(n, ext, hd) ==
    /\ phase = "open" /\ ~e_ehdr
    /\ n >= LoReserve => ext
    /\ e_ehdr' = TRUE
    /\ IF ext THEN e_shnum' = 0 /\ sh_size' = n
              ELSE e_shnum' = n /\ sh_size' = 0
    /\ LET num == [s \in Blocked |-> CHOOSE i \in 1 .. Len(Block) : Block[i] = s]
           new == {s \in Blocked : num[s] <= n}
       IN  /\ listed' = new
           /\ e_scn_1' = Block[1] /\ e_scn_n' = Block[n]
           /\ s_index' = [s \in Scn |-> IF s \in new THEN num[s] - 1 ELSE 0]
           /\ s_link' = [s \in Scn |-> IF s \in new /\ num[s] < n
                                       THEN Block[num[s] + 1] ELSE NULL]
           /\ s_shdr' = [s \in Scn |-> IF s \in new THEN hd[s] ELSE Plain]
           /\ alloc' = alloc \cup new
    /\ UNCHANGED << phase, cut, walk >>

Editing == phase = "open" /\ e_ehdr

(***************************************************************************)
(* _makescn: the memory is new, so the section has no header yet.          *)
(***************************************************************************)
MakeScn(new) == /\ new \subseteq Separate \ alloc
                /\ alloc' = alloc \cup new
                /\ s_shdr' = [s \in Scn |-> IF s \in new THEN Plain
                                            ELSE s_shdr[s]]

(***************************************************************************)
(* _elf_first_scn, called by elf_newphdr and elfx_update_shstrndx on a     *)
(* file without sections, and by an elf_newscn whose own malloc then fails.*)
(***************************************************************************)
FirstScn(s) ==
    /\ Editing /\ e_scn_1 = NULL
    /\ MakeScn({s})
    /\ listed' = {s}
    /\ e_scn_1' = s /\ e_scn_n' = s
    /\ s_index' = [s_index EXCEPT ![s] = 0]
    /\ s_link' = [s_link EXCEPT ![s] = NULL]
    /\ UpdateShnum(1)
    /\ UNCHANGED << phase, e_ehdr, walk >>

(***************************************************************************)
(* _buildscn behind a first section that is there, or is made by the same  *)
(* call.                                                                   *)
(***************************************************************************)
BuildScn(first, last, new, s) ==
    LET index == IF last = first /\ first \in new THEN 1
                 ELSE s_index[last] + 1
    IN  /\ MakeScn(new)
        /\ listed' = listed \cup new
        /\ e_scn_1' = first /\ e_scn_n' = s
        /\ s_index' = [t \in Scn |-> IF t = s THEN index
                                     ELSE IF t \in new THEN 0 ELSE s_index[t]]
        /\ s_link' = [t \in Scn |-> IF t = s THEN NULL
                                    ELSE IF t = last THEN s ELSE s_link[t]]
        /\ UpdateShnum(index + 1)
        /\ UNCHANGED << phase, e_ehdr, walk >>

elf_newscn(s) ==
    /\ Editing
    /\ \/ e_scn_1 # NULL /\ BuildScn(e_scn_1, e_scn_n, {s}, s)
       \/ \E first \in Separate \ {s} :
              e_scn_1 = NULL /\ BuildScn(first, first, {first, s}, s)

(***************************************************************************)
(* What elfx_remscn and elf_delscn have in common: the section leaves the  *)
(* list, its memory is freed if malloc gave it on its own, and the later   *)
(* sections move up.  (The loops over s_link are written by section        *)
(* number: by IndexIsRank these are the sections they reach.  The fields of *)
(* a section off the list are not kept.)                                   *)
(***************************************************************************)
Unlink(s) ==
    \E pscn \in listed :
        /\ s \in listed /\ s # e_scn_1
        /\ s_link[pscn] = s
        /\ e_scn_n' = IF e_scn_n = s THEN pscn ELSE e_scn_n
        /\ e_scn_1' = e_scn_1
        /\ listed' = listed \ {s}
        /\ s_link' = [s_link EXCEPT ![pscn] = s_link[s], ![s] = NULL]
        /\ s_index' = [t \in Scn |->
               IF t \in listed /\ s_index[t] > s_index[s] THEN s_index[t] - 1
               ELSE IF t = s THEN 0 ELSE s_index[t]]
        /\ alloc' = IF SFreeme(s) THEN alloc \ Memory(s) ELSE alloc

elfx_remscn(s) ==
    /\ Editing
    /\ Unlink(s)
    /\ UpdateShnum(s_index'[e_scn_n'] + 1)
    /\ s_shdr' = [s_shdr EXCEPT ![s] = Plain]
    /\ UNCHANGED << phase, e_ehdr, walk >>

(***************************************************************************)
(* elf_delscn: the count goes to e_shnum as it is, and the section numbers *)
(* in the headers of well-known types follow the sections.  A count that   *)
(* e_shnum cannot hold is cut; that it was is remembered until the next    *)
(* _elf_update_shnum.                                                      *)
(***************************************************************************)
KeepsOwn(old, index) == IF old > index THEN old - 1 ELSE old \* mutant

AlwaysLower(old, index) == IF old = index THEN 0 ELSE old - 1 \* mutant

NewIndex(old, index) == IF old = index THEN 0
                        ELSE IF old > index THEN old - 1 ELSE old

UpdateShdr(h, index) ==
    [h EXCEPT !.sh_link = IF h.sh_type \in {"linked", "reloc"}
                          THEN NewIndex(@, index) ELSE @,
              !.sh_info = IF h.sh_type = "reloc"
                          THEN NewIndex(@, index) ELSE @]

elf_delscn(s) ==
    /\ Editing
    /\ Unlink(s)
    /\ e_shnum' = (s_index'[e_scn_n'] + 1) % HalfRange
    /\ cut' = (s_index'[e_scn_n'] + 1 >= HalfRange)
    /\ s_shdr' = [t \in Scn |-> IF t \in listed'
                                THEN UpdateShdr(s_shdr[t], s_index[s])
                                ELSE Plain]
    /\ UNCHANGED << phase, e_ehdr, sh_size, walk >>

(***************************************************************************)
(* elfx_movscn: the sections between the two places move by one, and the   *)
(* section is linked behind `after'.                                       *)
(***************************************************************************)
StopsShort(t, s, after) == \* mutant
    IF s_index[s] < s_index[t] /\ s_index[t] < s_index[after] THEN s_index[t] - 1
    ELSE IF s_index[after] < s_index[t] /\ s_index[t] < s_index[s]
         THEN s_index[t] + 1 ELSE s_index[t]

ForwardOnly(t, s, after) == \* mutant
    IF s_index[s] < s_index[t] /\ s_index[t] <= s_index[after] THEN s_index[t] - 1
    ELSE s_index[t]

Shifted(t, s, after) ==
    IF s_index[s] < s_index[t] /\ s_index[t] <= s_index[after] THEN s_index[t] - 1
    ELSE IF s_index[after] < s_index[t] /\ s_index[t] < s_index[s]
         THEN s_index[t] + 1 ELSE s_index[t]

elfx_movscn(s, after) ==
    /\ Editing
    /\ s \in listed /\ after \in listed
    /\ s # e_scn_1 /\ s # after /\ s # s_link[after]
    /\ \E prev \in listed :
         /\ s_link[prev] = s
         /\ s_index' = [t \in Scn |->
                IF t = s THEN Shifted(after, s, after) + 1
                ELSE IF t \in listed THEN Shifted(t, s, after) ELSE s_index[t]]
         /\ s_link' = [s_link EXCEPT ![prev] = s_link[s],
                                     ![s] = s_link[after],
                                     ![after] = s]
         /\ e_scn_n' = IF e_scn_n = s THEN prev
                       ELSE IF e_scn_n = after THEN s ELSE e_scn_n
    /\ UNCHANGED << phase, e_ehdr, e_shnum, e_scn_1, listed, s_shdr, sh_size,
                    cut, alloc, walk >>

(***************************************************************************)
(* The application fills in a section header (elf_getshdr gives it a       *)
(* pointer, gelf_update_shdr copies one in).                               *)
(***************************************************************************)
SetShdr(s, h) ==
    /\ Editing
    /\ s \in listed \cap Linkers /\ s # e_scn_1
    /\ h # s_shdr[s]
    /\ s_shdr' = [s_shdr EXCEPT ![s] = h]
    /\ UNCHANGED << phase, e_ehdr, e_shnum, list, sh_size, cut, alloc, walk >>
-----------------------------------------------------------------------------
(***************************************************************************)
(* The last elf_end: _elf_free_scns walks the list and frees a section     *)
(* when it reaches the next one that malloc knows.  Nothing is promised    *)
(* once it has read a section after its memory was given back.             *)
(***************************************************************************)
elf_end == /\ phase = "open"
           /\ phase' = "free"
           /\ scn' = e_scn_1 /\ freescn' = NULL
           /\ UNCHANGED << e_ehdr, e_shnum, list, s_shdr, sh_size, cut, alloc >>

FreesAtOnce == /\ phase = "free" /\ scn # NULL /\ scn \in alloc \* mutant
               /\ alloc' = IF SFreeme(scn) THEN alloc \ Memory(scn) ELSE alloc
               /\ scn' = s_link[scn]
               /\ UNCHANGED << phase, e_ehdr, e_shnum, list, s_shdr, sh_size,
                               cut, freescn >>

KeepsFirst == /\ phase = "free" /\ scn # NULL /\ scn \in alloc \* mutant
              /\ IF SFreeme(scn)
                 THEN /\ alloc' = alloc \ Memory(freescn)
                      /\ freescn' = IF freescn = NULL THEN scn ELSE freescn
                 ELSE UNCHANGED << alloc, freescn >>
              /\ scn' = s_link[scn]
              /\ UNCHANGED << phase, e_ehdr, e_shnum, list, s_shdr, sh_size, cut >>

FreeScn == /\ phase = "free" /\ scn # NULL /\ scn \in alloc
           /\ IF SFreeme(scn)
              THEN alloc' = alloc \ Memory(freescn) /\ freescn' = scn
              ELSE UNCHANGED << alloc, freescn >>
           /\ scn' = s_link[scn]
           /\ UNCHANGED << phase, e_ehdr, e_shnum, list, s_shdr, sh_size, cut >>

FreeUnknown == /\ phase = "free" /\ scn # NULL /\ scn \notin alloc
               /\ phase' = "undefined"
               /\ UNCHANGED << e_ehdr, e_shnum, list, s_shdr, sh_size, cut,
                               alloc, walk >>

ForgetsLast == /\ phase = "free" /\ scn = NULL \* mutant
               /\ phase' = "done"
               /\ freescn' = NULL
               /\ UNCHANGED << e_ehdr, e_shnum, list, s_shdr, sh_size, cut, alloc,
                               scn >>

FreeLast == /\ phase = "free" /\ scn = NULL
            /\ phase' = "done"
            /\ alloc' = alloc \ Memory(freescn)
            /\ freescn' = NULL
            /\ UNCHANGED << e_ehdr, e_shnum, list, s_shdr, sh_size, cut, scn >>

Next ==
    \/ \E n \in 0 .. LoReserve - 1 : CookHeader(n)
    \/ \E n \in 1 .. Len(Block), ext \in BOOLEAN :
           \E hd \in [Blocked -> Headers \cup {Plain}] :
               /\ \A s \in Blocked \ Linkers : hd[s] = Plain
               /\ CookSections(n, ext, hd)
    \/ \E s \in Scn : \/ FirstScn(s) \/ elf_newscn(s)
                      \/ elfx_remscn(s) \/ elf_delscn(s)
    \/ \E s, after \in Scn : elfx_movscn(s, after)
    \/ \E s \in Scn, h \in Headers : SetShdr(s, h)
    \/ elf_end \/ FreeScn \/ FreeUnknown \/ FreeLast

Spec == Init /\ [][Next]_vars
-----------------------------------------------------------------------------
TypeOK ==
    /\ phase \in {"open", "free", "done", "undefined"}
    /\ e_ehdr \in BOOLEAN
    /\ e_shnum \in Nat /\ sh_size \in Nat /\ cut \in BOOLEAN
    /\ e_scn_1 \in Scn \cup {NULL} /\ e_scn_n \in Scn \cup {NULL}
    /\ listed \subseteq Scn /\ alloc \subseteq Scn
    /\ s_link \in [Scn -> Scn \cup {NULL}]
    /\ s_index \in [Scn -> Nat]
    /\ s_shdr \in [Scn -> Shdr]
    /\ scn \in Scn \cup {NULL} /\ freescn \in Scn \cup {NULL}

(***************************************************************************)
(* IndexIsRank: the number of a section is its place on the list, the list *)
(* has no cycle and no branch, and e_scn_n is its end (what the debug code *)
(* of x.movscn.c:97-107 checks, and update.c:215 relies on).               *)
(***************************************************************************)
IndexIsRank ==
    /\ (listed = {}) <=> (e_scn_1 = NULL)
    /\ (listed = {}) <=> (e_scn_n = NULL)
    /\ listed # {} => /\ {e_scn_1, e_scn_n} \subseteq listed
                      /\ s_index[e_scn_1] = 0
                      /\ s_link[e_scn_n] = NULL
    /\ \A s \in listed :
         /\ s # e_scn_n => /\ s_link[s] \in listed
                           /\ s_index[s_link[s]] = s_index[s] + 1
         /\ s_index[s] <= s_index[e_scn_n]
         /\ \A t \in listed : s_index[s] = s_index[t] => s = t

(***************************************************************************)
(* CountReadsBack: whoever reads the count the way _elf_cook_shdr does     *)
(* (from the first section if e_shnum is 0) finds the number of sections,  *)
(* for any number of them and whichever calls brought them there, unless   *)
(* the last of these calls was an elf_delscn that left more than e_shnum   *)
(* can hold.  The next elf_newscn or elfx_remscn puts that right again.    *)
(***************************************************************************)
ReadShnum == IF e_shnum = 0 THEN sh_size ELSE e_shnum

CountReadsBack ==
    listed # {} /\ ~cut => ReadShnum = Cardinality(listed)

(***************************************************************************)
(* NoFreedSectionRead: _elf_free_scns never reads a section whose memory   *)
(* has been given back (`scn->s_magic == SCN_MAGIC', end.c:44) ...         *)
(***************************************************************************)
NoFreedSectionRead == phase # "undefined"

(***************************************************************************)
(* ... unless elfx_movscn has put a section that malloc gave on its own    *)
(* before one of the block.                                                *)
(***************************************************************************)
Interleaved == \E s \in listed \cap Separate, t \in listed \cap Blocked :
                   s_index[s] < s_index[t]

WalkReadsLive == ~Interleaved => phase # "undefined"

(***************************************************************************)
(* FreedOnce: the pending section is still allocated when it is handed to  *)
(* free, in whatever order the list is.                                    *)
(***************************************************************************)
FreedOnce == freescn # NULL => freescn \in alloc

(***************************************************************************)
(* NothingLeft: when elf_end has returned, no section is allocated, be it  *)
(* on the list or removed from it before.                                  *)
(***************************************************************************)
NothingLeft == phase = "done" => alloc = {}

(***************************************************************************)
(* DelscnKeepsLinks: after elf_delscn, each section number in a header of  *)
(* a type it knows still means the section it meant, or nothing if that    *)
(* was the deleted one.                                                    *)
(***************************************************************************)
Meant(i, sections, index) == {s \in sections : index[s] = i /\ i # 0}

Follows(old, new, s) ==
    Meant(new, listed', s_index') = Meant(old, listed, s_index) \ {s}

DelscnKeepsLinks ==
    [][\A s \in Scn : elf_delscn(s) =>
          \A t \in listed' :
             /\ s_shdr[t].sh_type \in {"linked", "reloc"} =>
                    Follows(s_shdr[t].sh_link, s_shdr'[t].sh_link, s)
             /\ s_shdr[t].sh_type = "reloc" =>
                    Follows(s_shdr[t].sh_info, s_shdr'[t].sh_info, s)]_vars

(***************************************************************************)
(* DelscnAdjustsAllLinks: the same of every sh_link that the ELF standard  *)
(* makes a section number, as README:318-323 has it.                       *)
(***************************************************************************)
DelscnAdjustsAllLinks ==
    [][\A s \in Scn : elf_delscn(s) =>
          \A t \in listed' :
             s_shdr[t].sh_type # "other" =>
                    Follows(s_shdr[t].sh_link, s_shdr'[t].sh_link, s)]_vars

(***************************************************************************)
(* ImplementsSectionSeq: the linked list behaves as the sequence of        *)
(* SectionSeq; at place i is the section with number i - 1 (the only one,  *)
(* by IndexIsRank).                                                        *)
(***************************************************************************)
Secs == [i \in 1 .. Cardinality(listed) |-> {s \in listed : s_index[s] = i - 1}]

S == INSTANCE SectionSeq WITH secs <- Secs
ImplementsSectionSeq == S!Spec
=============================================================================
