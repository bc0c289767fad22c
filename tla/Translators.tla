---------------------------- MODULE Translators ----------------------------
(* The translators of lib/32.xlatetof.c and lib/64.xlatetof.c: the members a    *)
(* copy_..._11 macro copies, in its order, with the width of __load and __store.*)
ehdr32 == <<<<"e_ident", "Ident">>, <<"e_type", "Half">>, <<"e_machine", "Half">>,
            <<"e_version", "Word">>, <<"e_entry", "Addr">>, <<"e_phoff", "Off">>,
            <<"e_shoff", "Off">>, <<"e_flags", "Word">>, <<"e_ehsize", "Half">>,
            <<"e_phentsize", "Half">>, <<"e_phnum", "Half">>, <<"e_shentsize", "Half">>,
            <<"e_shnum", "Half">>, <<"e_shstrndx", "Half">>>>
ehdr64 == ehdr32
phdr32 == <<<<"p_type", "Word">>, <<"p_offset", "Off">>, <<"p_vaddr", "Addr">>,
            <<"p_paddr", "Addr">>, <<"p_filesz", "Word">>, <<"p_memsz", "Word">>,
            <<"p_flags", "Word">>, <<"p_align", "Word">>>>
phdr64 == <<<<"p_type", "Word">>, <<"p_flags", "Word">>, <<"p_offset", "Off">>,
            <<"p_vaddr", "Addr">>, <<"p_paddr", "Addr">>, <<"p_filesz", "Xword">>,
            <<"p_memsz", "Xword">>, <<"p_align", "Xword">>>>
shdr32 == <<<<"sh_name", "Word">>, <<"sh_type", "Word">>, <<"sh_flags", "Word">>,
            <<"sh_addr", "Addr">>, <<"sh_offset", "Off">>, <<"sh_size", "Word">>,
            <<"sh_link", "Word">>, <<"sh_info", "Word">>, <<"sh_addralign", "Word">>,
            <<"sh_entsize", "Word">>>>
shdr64 == <<<<"sh_name", "Word">>, <<"sh_type", "Word">>, <<"sh_flags", "Xword">>,
            <<"sh_addr", "Addr">>, <<"sh_offset", "Off">>, <<"sh_size", "Xword">>,
            <<"sh_link", "Word">>, <<"sh_info", "Word">>, <<"sh_addralign", "Xword">>,
            <<"sh_entsize", "Xword">>>>
sym32 == <<<<"st_name", "Word">>, <<"st_value", "Addr">>, <<"st_size", "Word">>,
           <<"st_info", "Byte">>, <<"st_other", "Byte">>, <<"st_shndx", "Half">>>>
sym64 == <<<<"st_name", "Word">>, <<"st_info", "Byte">>, <<"st_other", "Byte">>,
           <<"st_shndx", "Half">>, <<"st_value", "Addr">>, <<"st_size", "Xword">>>>
rel32 == <<<<"r_offset", "Addr">>, <<"r_info", "Word">>>>
rel64 == <<<<"r_offset", "Addr">>, <<"r_info", "Xword">>>>
rela32 == <<<<"r_offset", "Addr">>, <<"r_info", "Word">>, <<"r_addend", "Sword">>>>
rela64 == <<<<"r_offset", "Addr">>, <<"r_info", "Xword">>, <<"r_addend", "Sxword">>>>
dyn32 == <<<<"d_tag", "Sword">>, <<"d_un", "Addr">>>>
dyn64 == <<<<"d_tag", "Xword">>, <<"d_un", "Addr">>>>
============================================================================
