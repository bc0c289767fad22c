------------------------------ MODULE Handles ------------------------------
(***************************************************************************)
(* What an application may rely on about its Elf descriptors, with no word *)
(* on how libelf keeps the promise.  A descriptor stands for an open file, *)
(* a memory image, or the member of an archive that is open itself.  The   *)
(* application holds references to it, one for each elf_begin or           *)
(* elf_memory call that returned it and each elf_end call not yet made.    *)
(* The library owns everything else: an object stays as long as the        *)
(* application can reach it, through a reference of its own or through an  *)
(* open member, and it is collected at some point after that.              *)
(*                                                                         *)
(* Module Descriptors, which follows begin.c and end.c step by step with   *)
(* their activation counts and member lists, implements this               *)
(* specification.                                                          *)
(***************************************************************************)
EXTENDS Naturals

CONSTANTS Desc,      \* what a descriptor may be called
          NULL,      \* the owner of an object that is no archive member
          MaxHeld    \* bound on the references held to one object

VARIABLES open,      \* the objects that exist
          refs,      \* the application's references to each
          owner,     \* the archive a member belongs to, or NULL
          place      \* where in the archive the member is

hvars == << open, refs, owner, place >>

HandlesInit ==
    /\ open  = {}
    /\ refs  = [d \in Desc |-> 0]
    /\ owner = [d \in Desc |-> NULL]
    /\ place = [d \in Desc |-> 0]

MembersOf(a) == { d \in open : owner[d] = a }

\* A file or an image is opened: a new object with one reference.
Open(d) ==
    /\ d \notin open
    /\ open' = open \cup {d}
    /\ refs' = [refs EXCEPT ![d] = 1]
    /\ UNCHANGED << owner, place >>

\* A member is opened for the first time: a new object owned by its archive,
\* in a place where no other open member is.
OpenMember(d, a) ==
    /\ d \notin open /\ a \in open /\ refs[a] > 0
    /\ open'  = open \cup {d}
    /\ refs'  = [refs EXCEPT ![d] = 1]
    /\ owner' = [owner EXCEPT ![d] = a]
    /\ place'[d] \in Nat
    /\ place' = [place EXCEPT ![d] = place'[d]]
    /\ \A x \in MembersOf(a) : place[x] # place'[d]

Garbage(d) == d \in open /\ refs[d] = 0 /\ MembersOf(d) = {}

\* What is open already is opened again: the same object is returned.  An
\* object that can no longer be reached is never handed out again.
Share(d) ==
    /\ d \in open /\ ~Garbage(d) /\ refs[d] < MaxHeld
    /\ refs' = [refs EXCEPT ![d] = @ + 1]
    /\ UNCHANGED << open, owner, place >>

\* The application gives a reference up.
Close(d) ==
    /\ d \in open /\ refs[d] > 0
    /\ refs' = [refs EXCEPT ![d] = @ - 1]
    /\ UNCHANGED << open, owner, place >>

\* An object nothing refers to any more goes away.
Collect(d) ==
    /\ Garbage(d)
    /\ open'  = open \ {d}
    /\ owner' = [owner EXCEPT ![d] = NULL]
    /\ place' = [place EXCEPT ![d] = 0]
    /\ UNCHANGED refs

HandlesNext ==
    \E d \in Desc :
        \/ Open(d)
        \/ \E a \in Desc : OpenMember(d, a)
        \/ Share(d) \/ Close(d) \/ Collect(d)

HandlesSafety == HandlesInit /\ [][HandlesNext]_hvars

\* What has become garbage does not stay.
GarbageGoes == \A d \in Desc : Garbage(d) ~> d \notin open

HandlesSpec == HandlesSafety /\ GarbageGoes
=============================================================================
