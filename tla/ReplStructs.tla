---------------------------- MODULE ReplStructs ----------------------------
(* The in-memory structures of lib/elf_repl.h, the copy of <elf.h> that lib/   *)
(* brings along for hosts without one.                                          *)
Ehdr32 == <<<<"e_ident", "Ident">>, <<"e_type", "Half">>, <<"e_machine", "Half">>,
            <<"e_version", "Word">>, <<"e_entry", "Addr">>, <<"e_phoff", "Off">>,
            <<"e_shoff", "Off">>, <<"e_flags", "Word">>, <<"e_ehsize", "Half">>,
            <<"e_phentsize", "Half">>, <<"e_phnum", "Half">>, <<"e_shentsize", "Half">>,
            <<"e_shnum", "Half">>, <<"e_shstrndx", "Half">>>>
Ehdr64 == Ehdr32
Phdr32 == <<<<"p_type", "Word">>, <<"p_offset", "Off">>, <<"p_vaddr", "Addr">>,
            <<"p_paddr", "Addr">>, <<"p_filesz", "Word">>, <<"p_memsz", "Word">>,
            <<"p_flags", "Word">>, <<"p_align", "Word">>>>
Phdr64 == <<<<"p_type", "Word">>, <<"p_flags", "Word">>, <<"p_offset", "Off">>,
            <<"p_vaddr", "Addr">>, <<"p_paddr", "Addr">>, <<"p_filesz", "Xword">>,
            <<"p_memsz", "Xword">>, <<"p_align", "Xword">>>>
Shdr32 == <<<<"sh_name", "Word">>, <<"sh_type", "Word">>, <<"sh_flags", "Word">>,
            <<"sh_addr", "Addr">>, <<"sh_offset", "Off">>, <<"sh_size", "Word">>,
            <<"sh_link", "Word">>, <<"sh_info", "Word">>, <<"sh_addralign", "Word">>,
            <<"sh_entsize", "Word">>>>
Shdr64 == <<<<"sh_name", "Word">>, <<"sh_type", "Word">>, <<"sh_flags", "Xword">>,
            <<"sh_addr", "Addr">>, <<"sh_offset", "Off">>, <<"sh_size", "Xword">>,
            <<"sh_link", "Word">>, <<"sh_info", "Word">>, <<"sh_addralign", "Xword">>,
            <<"sh_entsize", "Xword">>>>
Sym32 == <<<<"st_name", "Word">>, <<"st_value", "Addr">>, <<"st_size", "Word">>,
           <<"st_info", "Byte">>, <<"st_other", "Byte">>, <<"st_shndx", "Half">>>>
Sym64 == <<<<"st_name", "Word">>, <<"st_info", "Byte">>, <<"st_other", "Byte">>,
           <<"st_shndx", "Half">>, <<"st_value", "Addr">>, <<"st_size", "Xword">>>>
Rel32 == <<<<"r_offset", "Addr">>, <<"r_info", "Word">>>>
Rel64 == <<<<"r_offset", "Addr">>, <<"r_info", "Xword">>>>
Rela32 == <<<<"r_offset", "Addr">>, <<"r_info", "Word">>, <<"r_addend", "Sword">>>>
Rela64 == <<<<"r_offset", "Addr">>, <<"r_info", "Xword">>, <<"r_addend", "Sxword">>>>
Dyn32 == <<<<"d_tag", "Sword">>, <<"d_un", "Word">>>>
Dyn64 == <<<<"d_tag", "Sxword">>, <<"d_un", "Xword">>>>
Cap32 == <<<<"c_tag", "Word">>, <<"c_un", "Word">>>>
Cap64 == <<<<"c_tag", "Xword">>, <<"c_un", "Xword">>>>
Move32 == <<<<"m_value", "Lword">>, <<"m_info", "Word">>, <<"m_poffset", "Word">>,
            <<"m_repeat", "Half">>, <<"m_stride", "Half">>>>
Move64 == <<<<"m_value", "Lword">>, <<"m_info", "Xword">>, <<"m_poffset", "Xword">>,
            <<"m_repeat", "Half">>, <<"m_stride", "Half">>>>
Syminfo32 == <<<<"si_boundto", "Half">>, <<"si_flags", "Half">>>>
Syminfo64 == Syminfo32
Verdef32 == <<<<"vd_version", "Half">>, <<"vd_flags", "Half">>, <<"vd_ndx", "Half">>,
              <<"vd_cnt", "Half">>, <<"vd_hash", "Word">>, <<"vd_aux", "Word">>,
              <<"vd_next", "Word">>>>
Verdef64 == Verdef32
Verdaux32 == <<<<"vda_name", "Word">>, <<"vda_next", "Word">>>>
Verdaux64 == Verdaux32
Verneed32 == <<<<"vn_version", "Half">>, <<"vn_cnt", "Half">>, <<"vn_file", "Word">>,
               <<"vn_aux", "Word">>, <<"vn_next", "Word">>>>
Verneed64 == Verneed32
Vernaux32 == <<<<"vna_hash", "Word">>, <<"vna_flags", "Half">>, <<"vna_other", "Half">>,
               <<"vna_name", "Word">>, <<"vna_next", "Word">>>>
Vernaux64 == Vernaux32
==============================================================================
