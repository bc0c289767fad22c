------------------------- MODULE MCToolchainUpdate -------------------------
(***************************************************************************)
(* Instances of ToolchainUpdate.                                           *)
(***************************************************************************)
EXTENDS ToolchainUpdate

Block(off, align, type, buf) ==
    [d_off |-> off, d_align |-> align, d_type |-> type, d_size |-> Msize(type) * Len(buf),
     d_buf |-> [k \in DOMAIN buf |-> <<"data", buf[k]>>]]

\* A byte, an aligned object of a larger type, data at a wrong alignment.
AllBlocks == { Block(0, 1, "byte", <<1>>), Block(2, 2, "move", <<2>>), Block(1, 3, "byte", <<1>>) }

Header(type, off, size, align, info) ==
    <<"shdr", [sh_type |-> type, sh_offset |-> off, sh_size |-> size,
               sh_addralign |-> align, sh_info |-> info]>>

Cells(n, v) == [k \in 1 .. n |-> <<"data", v>>]

\* A file as the library lays it out.
Plain ==
    << <<"ehdr", [e_phoff |-> 2, e_phnum |-> 1, e_shoff |-> 6, e_shnum |-> 4]>> >>
    \o Cells(1, 0) \o << <<"phdr", 1>> >> \o Cells(1, 1) \o Cells(2, 2)
    \o << <<"shdr", NoShdr>>, Header("bits", 3, 1, 1, 0), Header("bits", 4, 2, 2, 0),
          Header("nobits", 6, 4, 1, 0) >>

\* Both numbers extended, the contents behind the section headers, a section
\* with no alignment.
Extended ==
    << <<"ehdr", [e_phoff |-> 2, e_phnum |-> PnXnum, e_shoff |-> 4, e_shnum |-> 0]>> >>
    \o Cells(1, 0) \o << <<"phdr", 1>>, <<"phdr", 2>> >>
    \o << Header("null", 0, 5, 0, 2), Header("bits", 9, 2, 0, 0), Header("bits", 11, 0, 1, 0),
          Header("nobits", 9, 1, 1, 0), Header("null", 0, 0, 0, 0) >> \o Cells(2, 3)

NoSections == << <<"ehdr", Blank>> >>

Files == { Plain, Extended, NoSections }
=============================================================================
