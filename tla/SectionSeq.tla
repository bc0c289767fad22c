----------------------------- MODULE SectionSeq -----------------------------
(***************************************************************************)
(* What the section table of an ELF descriptor promises its application,   *)
(* by libelf.h:284-303 and the elf_newscn(3) calls that use it: a sequence *)
(* of sections whose first one, the null section, stays where it is.  The  *)
(* table is loaded from the file or started, sections are appended,        *)
(* removed, or moved directly after another one; a section's number is its *)
(* place in the sequence, counted from 0.                                  *)
(***************************************************************************)
EXTENDS Naturals, SequencesExt

VARIABLE secs

Init == secs = << >>

Load == /\ secs = << >>
        /\ secs' # << >>
        /\ IsInjective(secs')

Append1 == /\ secs # << >>
           /\ Len(secs') = Len(secs) + 1
           /\ IsPrefix(secs, secs')
           /\ IsInjective(secs')

RemoveOne == \E i \in 2 .. Len(secs) : secs' = RemoveAt(secs, i)

MoveAfter(i, j) ==
    LET rest == RemoveAt(secs, i)
        at   == IF j < i THEN j ELSE j - 1
    IN  secs' = InsertAt(rest, at + 1, secs[i])

MoveOne == \E i \in 2 .. Len(secs), j \in 1 .. Len(secs) :
            i # j /\ MoveAfter(i, j)

Next == Load \/ Append1 \/ RemoveOne \/ MoveOne

Spec == Init /\ [][Next]_secs
=============================================================================
