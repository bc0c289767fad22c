----------------------------- MODULE Converters -----------------------------
(* The converters of libelf_convert.c: for a record type the members in the     *)
(* order in which _tof writes them and _tom reads them, and with the width each *)
(* is swapped in; for a number the type it is read, swapped and written as.     *)
(* The loops around them are the steps of Xlate.                                *)
CAP32 == <<<<"c_tag", "Word">>, <<"c_un", "Word">>>>
CAP64 == <<<<"c_tag", "Xword">>, <<"c_un", "Xword">>>>
DYN32 == <<<<"d_tag", "Sword">>, <<"d_un", "Word">>>>
DYN64 == <<<<"d_tag", "Sxword">>, <<"d_un", "Xword">>>>
EHDR32 == <<<<"e_ident", "Ident">>, <<"e_type", "Half">>, <<"e_machine", "Half">>,
            <<"e_version", "Word">>, <<"e_entry", "Addr">>, <<"e_phoff", "Off">>,
            <<"e_shoff", "Off">>, <<"e_flags", "Word">>, <<"e_ehsize", "Half">>,
            <<"e_phentsize", "Half">>, <<"e_phnum", "Half">>, <<"e_shentsize", "Half">>,
            <<"e_shnum", "Half">>, <<"e_shstrndx", "Half">>>>
EHDR64 == EHDR32
MOVE32 == <<<<"m_value", "Lword">>, <<"m_info", "Word">>, <<"m_poffset", "Word">>,
            <<"m_repeat", "Half">>, <<"m_stride", "Half">>>>
MOVE64 == <<<<"m_value", "Lword">>, <<"m_info", "Xword">>, <<"m_poffset", "Xword">>,
            <<"m_repeat", "Half">>, <<"m_stride", "Half">>>>
PHDR32 == <<<<"p_type", "Word">>, <<"p_offset", "Off">>, <<"p_vaddr", "Addr">>,
            <<"p_paddr", "Addr">>, <<"p_filesz", "Word">>, <<"p_memsz", "Word">>,
            <<"p_flags", "Word">>, <<"p_align", "Word">>>>
PHDR64 == <<<<"p_type", "Word">>, <<"p_flags", "Word">>, <<"p_offset", "Off">>,
            <<"p_vaddr", "Addr">>, <<"p_paddr", "Addr">>, <<"p_filesz", "Xword">>,
            <<"p_memsz", "Xword">>, <<"p_align", "Xword">>>>
REL32 == <<<<"r_offset", "Addr">>, <<"r_info", "Word">>>>
REL64 == <<<<"r_offset", "Addr">>, <<"r_info", "Xword">>>>
RELA32 == <<<<"r_offset", "Addr">>, <<"r_info", "Word">>, <<"r_addend", "Sword">>>>
RELA64 == <<<<"r_offset", "Addr">>, <<"r_info", "Xword">>, <<"r_addend", "Sxword">>>>
SHDR32 == <<<<"sh_name", "Word">>, <<"sh_type", "Word">>, <<"sh_flags", "Word">>,
            <<"sh_addr", "Addr">>, <<"sh_offset", "Off">>, <<"sh_size", "Word">>,
            <<"sh_link", "Word">>, <<"sh_info", "Word">>, <<"sh_addralign", "Word">>,
            <<"sh_entsize", "Word">>>>
SHDR64 == <<<<"sh_name", "Word">>, <<"sh_type", "Word">>, <<"sh_flags", "Xword">>,
            <<"sh_addr", "Addr">>, <<"sh_offset", "Off">>, <<"sh_size", "Xword">>,
            <<"sh_link", "Word">>, <<"sh_info", "Word">>, <<"sh_addralign", "Xword">>,
            <<"sh_entsize", "Xword">>>>
SYMINFO32 == <<<<"si_boundto", "Half">>, <<"si_flags", "Half">>>>
SYMINFO64 == SYMINFO32
SYM32 == <<<<"st_name", "Word">>, <<"st_value", "Addr">>, <<"st_size", "Word">>,
           <<"st_info", "Byte">>, <<"st_other", "Byte">>, <<"st_shndx", "Half">>>>
SYM64 == <<<<"st_name", "Word">>, <<"st_info", "Byte">>, <<"st_other", "Byte">>,
           <<"st_shndx", "Half">>, <<"st_value", "Addr">>, <<"st_size", "Xword">>>>
ADDR32 == <<<<"value", "Addr">>>>
ADDR64 == <<<<"value", "Addr">>>>
HALF == <<<<"value", "Half">>>>
LWORD == <<<<"value", "Lword">>>>
OFF32 == <<<<"value", "Off">>>>
OFF64 == <<<<"value", "Off">>>>
SWORD == <<<<"value", "Sword">>>>
SXWORD == <<<<"value", "Sxword">>>>
WORD == <<<<"value", "Word">>>>
XWORD == <<<<"value", "Xword">>>>
BYTE == <<<<"value", "Byte">>>>
VDEF32_tof == [head |-> <<<<"vd_version", "Half">>, <<"vd_flags", "Half">>, <<"vd_ndx", "Half">>,
                            <<"vd_cnt", "Half">>, <<"vd_hash", "Word">>, <<"vd_aux", "Word">>,
                            <<"vd_next", "Word">>>>,
               aux |-> <<<<"vda_name", "Word">>, <<"vda_next", "Word">>>>]
VDEF32_tom == VDEF32_tof
VDEF64_tof == VDEF32_tof
VDEF64_tom == VDEF32_tof
VNEED32_tof == [head |-> <<<<"vn_version", "Half">>, <<"vn_cnt", "Half">>, <<"vn_file", "Word">>,
                             <<"vn_aux", "Word">>, <<"vn_next", "Word">>>>,
               aux |-> <<<<"vna_hash", "Word">>, <<"vna_flags", "Half">>, <<"vna_other", "Half">>,
         <<"vna_name", "Word">>, <<"vna_next", "Word">>>>]
VNEED32_tom == VNEED32_tof
VNEED64_tof == VNEED32_tof
VNEED64_tom == VNEED32_tof
==============================================================================
