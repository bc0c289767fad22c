------------------------------ MODULE MCUpdate ------------------------------
(***************************************************************************)
(* Instances of Update.                                                    *)
(***************************************************************************)
EXTENDS Update

Block(align, buf) == [d_off |-> 0, d_align |-> align, d_size |-> Len(buf), d_buf |-> buf]

\* A byte, an aligned pair behind it, and an application's forgotten d_buf.
SmallBlocks == { Block(1, <<1>>), Block(4, <<2, 2>>), [Block(1, <<1>>) EXCEPT !.d_buf = << >>] }

\* The same for an application that says where in the section they are.
PlacedBlocks == { Block(1, <<1>>), [Block(1, <<2>>) EXCEPT !.d_off = 1] }

Header(type, off, size, info) ==
    <<"shdr", [sh_type |-> type, sh_offset |-> off, sh_size |-> size,
               sh_addralign |-> 1, sh_info |-> info]>>

\* A file as the library lays it out: a program header, a section of two
\* cells and one without contents.
WithBss ==
    << <<"ehdr", [e_phoff |-> 2, e_phnum |-> 1, e_shoff |-> 6, e_shnum |-> 3]>>,
       <<"data", 0>>, <<"phdr", 0>>, <<"data", 1>>, <<"data", 2>>, <<"data", 0>>,
       <<"shdr", NoShdr>>, Header("bits", 3, 2, 0), Header("nobits", 5, 4, 0) >>

\* A file another program made, with both numbers extended: as many sections
\* as SHN_LORESERVE is here, two of them with contents and one unused, and
\* program headers behind the contents.
Extended ==
    << <<"ehdr", [e_phoff |-> 3, e_phnum |-> PnXnum, e_shoff |-> 5, e_shnum |-> 0]>>,
       <<"data", 1>>, <<"data", 2>>, <<"phdr", 0>>, <<"phdr", 0>>,
       Header("null", 0, 4, 2), Header("bits", 1, 1, 0), Header("bits", 2, 1, 0),
       Header("null", 0, 0, 0) >>

NoSections == << <<"ehdr", NoEhdr>> >>

LibraryFiles == { WithBss, Extended, NoSections }

\* In a 32-bit file the library places everything, in a 64-bit one the
\* application does, where it wants to.
BothBlocks   == [c \in Classes |-> IF c = 32 THEN SmallBlocks ELSE PlacedBlocks]
BothPlaces   == [c \in Classes |-> IF c = 32 THEN {} ELSE {1, 3, 5}]
BothSizes    == [c \in Classes |-> IF c = 32 THEN {} ELSE {1, 2}]
BothPhCounts == [c \in Classes |-> IF c = 32 THEN {0, PnXnum} ELSE {0, 1}]
BothSettable == [c \in Classes |-> IF c = 32 THEN {"DIRTY"} ELSE {"LAYOUT", "LAYOUT_OVERLAP"}]
BothUnmarked == [c \in Classes |-> IF c = 32 THEN {"elf_delscn", "elfx_movscn"} ELSE {}]

ASSUME AlignmentsHere == AlignmentsNest
=============================================================================
