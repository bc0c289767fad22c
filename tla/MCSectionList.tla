--------------------------- MODULE MCSectionList ---------------------------
(***************************************************************************)
(* A small instance of SectionList: files of up to three sections, three   *)
(* more from malloc, and one section whose header refers to others.        *)
(***************************************************************************)
EXTENDS SectionList, TLC

CONSTANTS b0, b1, b2, m1, m2, m3

MCBlock    == << b0, b1, b2 >>
MCSeparate == {m1, m2, m3}
MCLinkers  == {b1}

MCHeaders == {[sh_type |-> t, sh_link |-> i, sh_info |-> j] :
                 t \in {"linked", "reloc"}, i \in {1, 3}, j \in {2, 4}}

MCGroup == {[sh_type |-> "group", sh_link |-> 2, sh_info |-> 0]}

Addresses == Permutations(Separate)
=============================================================================
