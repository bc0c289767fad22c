----------------------------- MODULE Accessors -----------------------------
(***************************************************************************)
(* The class-independent accessors of both libraries: gelf_get* and        *)
(* gelf_update_* on the records of section data (symbols, relocations,     *)
(* dynamic entries, ...) and on the headers.  An ELFCLASS64 record is      *)
(* copied at once; an ELFCLASS32 one field by field, each narrowed or      *)
(* refused, those before a refused one written already.                    *)
(*                                                                         *)
(* "local" is the library under lib/, "toolchain" elftoolchain's.  Numbers *)
(* are scaled: Byte, Sym, Word and Wide stand for 2^8, 2^24, 2^32, 2^64.   *)
(* The object has one record (or is one header); elems[1] is the memory    *)
(* behind it.                                                              *)
(***************************************************************************)
EXTENDS Integers, Sequences, FiniteSets

CONSTANTS Byte, Sym, Word, Wide,
          MaxCalls      \* bound: updates

ASSUME AccessorsAssumption ==
    /\ {Byte, Sym, Word, Wide} \subseteq Nat \ {0} /\ MaxCalls \in Nat
    /\ Word = Sym * Byte /\ (Wide - 1) \div Byte >= Word - 1 /\ Word % 2 = 0

(***************************************************************************)
(* The fields of a record in the order gelf_update_* writes them, and how  *)
(* each is narrowed: not at all, to an unsigned or a signed word, to the   *)
(* symbol and type of r_info.                                              *)
(***************************************************************************)
Same(names) == [i \in DOMAIN names |-> << names[i], "same" >>]
U32(names)  == [i \in DOMAIN names |-> << names[i], "u32" >>]
S32(name)   == << << name, "s32" >> >>
Info        == << << "r_info", "info" >> >>

SymFields == [
    local     |-> Same(<<"st_name">>) \o U32(<<"st_value", "st_size">>)
                      \o Same(<<"st_info", "st_other", "st_shndx">>),
    toolchain |-> Same(<<"st_name", "st_info", "st_other", "st_shndx">>)
                      \o U32(<<"st_value", "st_size">>) ]

RelFields == U32(<<"r_offset">>) \o Info
RelaFields == RelFields \o S32("r_addend")
DynFields == S32("d_tag") \o U32(<<"d_val">>)
CapFields == U32(<<"c_tag", "c_val">>)
MoveFields == Same(<<"m_value">>) \o U32(<<"m_info", "m_poffset">>) \o Same(<<"m_repeat", "m_stride">>)
SyminfoFields == Same(<<"si_boundto", "si_flags">>)

PhdrFields == [
    local     |-> Same(<<"p_type">>)
                      \o U32(<<"p_offset", "p_vaddr", "p_paddr", "p_filesz", "p_memsz">>)
                      \o Same(<<"p_flags">>) \o U32(<<"p_align">>),
    toolchain |-> Same(<<"p_type", "p_flags">>)
                      \o U32(<<"p_offset", "p_vaddr", "p_paddr", "p_filesz", "p_memsz", "p_align">>) ]

ShdrFields ==
    Same(<<"sh_name", "sh_type">>) \o U32(<<"sh_flags", "sh_addr", "sh_offset", "sh_size">>)
        \o Same(<<"sh_link", "sh_info">>) \o U32(<<"sh_addralign", "sh_entsize">>)

EhdrFields ==
    Same(<<"e_ident", "e_type", "e_machine", "e_version">>) \o U32(<<"e_entry", "e_phoff", "e_shoff">>)
        \o Same(<<"e_flags", "e_ehsize", "e_phentsize", "e_phnum", "e_shentsize", "e_shnum",
                  "e_shstrndx">>)

Headers == {"phdr", "shdr", "ehdr"}
Kinds == [ local     |-> {"sym", "rel", "rela", "dyn"} \cup Headers,
           toolchain |-> {"sym", "symshndx", "rel", "rela", "dyn", "cap", "move", "syminfo"}
                             \cup Headers ]

FieldsOf == [lib \in {"local", "toolchain"} |-> [kind \in Kinds[lib] |->
    CASE kind = "sym"      -> SymFields[lib]
      [] kind = "symshndx" -> SymFields.toolchain \o << << "xindex", "xindex" >> >>
      [] kind = "rel"      -> RelFields
      [] kind = "rela"     -> RelaFields
      [] kind = "dyn"      -> DynFields
      [] kind = "cap"      -> CapFields
      [] kind = "move"     -> MoveFields
      [] kind = "syminfo"  -> SyminfoFields
      [] kind = "phdr"     -> PhdrFields[lib]
      [] kind = "shdr"     -> ShdrFields
      [] kind = "ehdr"     -> EhdrFields ]]

ConvOf == [lib \in {"local", "toolchain"} |-> [kind \in Kinds[lib] |->
    LET fields == FieldsOf[lib][kind]
    IN  [n \in {fields[i][1] : i \in DOMAIN fields} |->
            fields[CHOOSE i \in DOMAIN fields : fields[i][1] = n][2]] ]]

(* Values as an application gives them: one that fits, and the boundaries. *)
Plain(conv) == IF conv = "info" THEN << 1, 1 >> ELSE 1

Edges(conv) ==
    CASE conv = "u32"  -> {Word - 1, Word + 1}
      [] conv = "s32"  -> {-(Word \div 2) - 1, -(Word \div 2), (Word \div 2) - 1, Word \div 2}
      [] conv = "info" -> {<< Sym - 1, Byte - 1 >>, << Sym, 0 >>, << Word - 1, 1 >>, << 0, Byte >>}
      [] OTHER         -> {1}

GivenOf == [lib \in {"local", "toolchain"} |-> [kind \in Kinds[lib] |->
    LET conv == ConvOf[lib][kind]
    IN  UNION { {[n \in DOMAIN conv |-> IF n = m THEN w ELSE Plain(conv[n])] : w \in Edges(conv[m])}
                : m \in DOMAIN conv } ]]

(* _libelf_xlate_shtype: the record type of a section's type.  SHT_SUNW_cap *)
(* is not in its list.                                                     *)
SectionType == [
    SHT_SYMTAB |-> "sym", SHT_REL |-> "rel", SHT_RELA |-> "rela", SHT_DYNAMIC |-> "dyn",
    SHT_SUNW_move |-> "move", SHT_SUNW_syminfo |-> "syminfo", SHT_SYMTAB_SHNDX |-> "word",
    SHT_SUNW_cap |-> "byte", SHT_PROGBITS |-> "byte" ]

RecordType(kind) == IF kind = "symshndx" THEN "sym" ELSE kind

(* What the accessors are called on.  Data: the type of its section, which *)
(* only the second library looks at, its own type, which only the first    *)
(* does and the second for extended indices, whether it has a buffer, and  *)
(* its size in half records; with the symbols goes the data of their       *)
(* extended indices, of "words" words.  A program header table: size is    *)
(* that of its e_phnum entries.                                            *)
DataObjects ==
    { x \in [lib : {"local", "toolchain"}, class : {32, 64}, long : {32, 64},
             kind : (UNION {Kinds[l] : l \in {"local", "toolchain"}}) \ Headers,
             stype : DOMAIN SectionType, d_type : {"right", "word"}, size : 2 .. 4,
             buf : BOOLEAN, itype : {"word", "byte"}, words : {1, 2}] :
        /\ x.kind \in Kinds[x.lib]
        /\ \/ SectionType[x.stype] = RecordType(x.kind)
           \/ x.stype = "SHT_SUNW_cap" /\ x.kind = "cap"
           \/ x.stype = "SHT_PROGBITS" /\ x.lib = "toolchain"
        /\ x.long = 32 => x.kind \in {"rel", "rela"} /\ x.lib = "toolchain"
        /\ x.d_type = "word" => x.lib = "local" \/ x.kind = "symshndx"
        /\ x.kind # "symshndx" => x.itype = "word" /\ x.words = 2 }

HeaderObjects ==
    { x \in [lib : {"local", "toolchain"}, class : {32, 64}, long : {64}, kind : Headers,
             size : {2, 4}, cmd : {"READ", "RDWR"}, read : BOOLEAN] :
        /\ x.kind # "phdr" => x.size = 2 /\ x.read
        /\ x.lib = "local" => x.read }
-----------------------------------------------------------------------------
VARIABLES
    o,       \* the object
    elems,   \* its records as they are stored; those it has no room for: the memory behind
    read,    \* the header is in memory
    dirty,   \* ELF_F_DIRTY of the header
    want,    \* what gelf_update_* accepted last for each, or Unknown
    said,    \* what the last call was, and what it returned
    calls    \* bound

vars == << o, elems, read, dirty, want, said, calls >>

Fields == FieldsOf[o.lib][o.kind]
Conv   == ConvOf[o.lib][o.kind]
Names  == DOMAIN Conv
IsHeader == o.kind \in Headers

Unknown == [unknown |-> TRUE]
Refused == [refused |-> TRUE]
Crash   == [crash |-> TRUE]

(* Narrowing one field of a 32-bit record.                                 *)
SymLimit == IF o.lib = "local" THEN Sym - 1                             \* 0xffffffUL
            ELSE ((IF o.long = 32 THEN Word ELSE Wide) - 1) \div Byte   \* ELF32_R_SYM(~0UL)

FitsInWidth(conv, ndx, v) == \* mutant
    CASE conv \in {"u32", "s32"} -> v < Word
      [] conv = "info"           -> v[1] <= SymLimit /\ v[2] < Byte
      [] OTHER                   -> TRUE

Fits(conv, ndx, v) ==
    CASE conv = "u32"    -> v < Word
      [] conv = "s32"    -> -(Word \div 2) <= v /\ v < Word \div 2
      [] conv = "info"   -> v[1] <= SymLimit /\ v[2] < Byte
      [] conv = "xindex" -> o.d_type = "word" /\ ndx < o.words   \* d_type of the symbols
      [] OTHER           -> TRUE

Narrow(conv, v) ==
    CASE conv = "u32"  -> v % Word
      [] conv = "s32"  -> ((v + Word \div 2) % Word) - Word \div 2
      [] conv = "info" -> ((v[1] * Byte) + (v[2] % Byte)) % Word
      [] OTHER         -> v

Widen(conv, x) == IF conv = "info" THEN << x \div Byte, x % Byte >> ELSE x

Stored(n, v) == IF o.class = 64 THEN v ELSE Narrow(Conv[n], v)
Loaded(x) == [n \in Names |-> IF o.class = 64 THEN x[n] ELSE Widen(Conv[n], x[n])]

(* The fields written: those before the first that is refused.  A 64-bit   *)
(* record is copied unchecked; the extended index is checked in any class. *)
Misfits(ndx, v) ==
    { i \in DOMAIN Fields :
        /\ o.class = 32 \/ Fields[i][2] = "xindex"
        /\ ~Fits(Fields[i][2], ndx, v[Fields[i][1]]) }

Updated(x, ndx, v) ==
    LET bad == Misfits(ndx, v)
    IN  [n \in Names |->
            IF \E i \in DOMAIN Fields : Fields[i][1] = n /\ \A j \in bad : i < j
            THEN Stored(n, v[n]) ELSE x[n]]

(***************************************************************************)
(* The checks before a record is touched.                                  *)
(***************************************************************************)
Owned(ndx) == ndx >= 0 /\ 2 * (ndx + 1) <= o.size

OffByOne(ndx) == ndx >= 0 /\ 2 * ndx <= o.size \* mutant

Starts(ndx) == ndx >= 0 /\ 2 * ndx < o.size

DataFound(ndx) ==
    IF o.lib = "local" THEN o.d_type = "right" /\ Owned(ndx) /\ o.buf
    ELSE SectionType[o.stype] = RecordType(o.kind) /\ Starts(ndx)

(* The index beside the last program header is taken.                      *)
HeaderUpdates(ndx) ==
    IF o.lib = "local" THEN Owned(ndx)
    ELSE o.cmd # "READ" /\ (o.kind = "phdr" => ndx >= 0 /\ 2 * ndx <= o.size)

Got(ndx) ==
    IF IF IsHeader THEN Owned(ndx)
       ELSE DataFound(ndx) /\ (o.kind = "symshndx" => o.itype = "word" /\ ndx < o.words)
    THEN Loaded(elems[ndx]) ELSE Refused

(* The program writes to, or reads from, a null pointer.                   *)
Null(ndx) == IF IsHeader THEN ~read ELSE o.lib = "toolchain" /\ ~o.buf
-----------------------------------------------------------------------------
Init ==
    /\ o \in DataObjects \cup HeaderObjects
    /\ elems = [i \in 0 .. 2 |-> [n \in Names |-> Stored(n, IF Conv[n] = "info" THEN << 0, 0 >> ELSE 0)]]
    /\ read = (IsHeader => o.read)
    /\ dirty = FALSE
    /\ want = [i \in 0 .. 2 |-> Unknown]
    /\ said = [ndx |-> -1, given |-> Unknown, res |-> Refused]
    /\ calls = 0

(* Both may touch the memory a stray index leads to, so indices go beyond  *)
(* what the object holds.                                                  *)
Indices == IF o.kind \in {"shdr", "ehdr"} THEN {0} ELSE -1 .. 2

(* gelf_get*.  A program header table that was not read yet is read here.  *)
Get(ndx) ==
    /\ said' = [ndx |-> ndx, given |-> Unknown,
                res |-> IF Got(ndx) # Refused /\ ~IsHeader /\ Null(ndx) THEN Crash ELSE Got(ndx)]
    /\ read' = (read \/ Got(ndx) # Refused)
    /\ UNCHANGED << o, elems, dirty, want, calls >>

Accepted(ndx) == IF IsHeader THEN HeaderUpdates(ndx) ELSE DataFound(ndx)

(* gelf_update_*.  A header is marked dirty before its fields are copied;  *)
(* the table of program headers is not read for it.                        *)
Update(ndx, v) ==
    /\ calls < MaxCalls /\ calls' = calls + 1
    /\ UNCHANGED << o, read >>
    /\ \/ /\ ~Accepted(ndx) \/ Null(ndx)
          /\ said' = [ndx |-> ndx, given |-> v, res |-> IF Accepted(ndx) THEN Crash ELSE Refused]
          /\ UNCHANGED << elems, dirty, want >>
       \/ /\ Accepted(ndx) /\ ~Null(ndx)
          /\ elems' = [elems EXCEPT ![ndx] = Updated(@, ndx, v)]
          /\ dirty' = (dirty \/ (IsHeader /\ o.lib = "toolchain"))
          /\ \/ /\ Misfits(ndx, v) = {}
                /\ said' = [ndx |-> ndx, given |-> v, res |-> v]
                /\ want' = [want EXCEPT ![ndx] = v]
             \/ /\ Misfits(ndx, v) # {}
                /\ said' = [ndx |-> ndx, given |-> v, res |-> Refused]
                /\ want' = [want EXCEPT ![ndx] = Unknown]

Next ==
    /\ said.res # Crash
    /\ \E ndx \in Indices : Get(ndx) \/ (\E v \in GivenOf[o.lib][o.kind] : Update(ndx, v))

Spec == Init /\ [][Next]_vars
-----------------------------------------------------------------------------
(* gelf_update_rel and gelf_update_rela of the second library, where long  *)
(* is wider than a word: ELF32_R_SYM(~0UL) refuses no symbol index.        *)
Cut(conv, v) == o.lib = "toolchain" /\ o.long = 64 /\ conv = "info" /\ v[1] >= Sym

(* The index after the last program header, and the part of a record at    *)
(* the end of a buffer, which the second library takes for valid.          *)
Overruns(ndx) ==
    /\ o.lib = "toolchain"
    /\ IF IsHeader THEN 2 * ndx = o.size ELSE 2 * ndx + 1 = o.size

(* What gelf_update_* accepted last for an index is what gelf_get* returns *)
(* for it, whatever was updated or refused in between: no value loses bits *)
(* in a 32-bit record and no two indices share memory.  Not so: a symbol   *)
(* index that is cut, the program header behind the last, and extended     *)
(* indices whose data is not of type word, which only the getter checks.   *)
AcceptedReadsBack ==
    \A i \in 0 .. 2 :
        \/ want[i] = Unknown \/ Got(i) = want[i]
        \/ o.class = 32 /\ \E n \in Names : Cut(Conv[n], want[i][n])
        \/ IsHeader /\ Overruns(i)
        \/ o.kind = "symshndx" /\ o.itype # "word"

(* An update, refused ones included, touches the record it was called for  *)
(* and no memory behind the object (but for the overruns above).  Each     *)
(* field is then as it was or as given, never what is left of a value that *)
(* does not fit.  A header that changed in the second library is marked,   *)
(* or elf_update would not write it.                                       *)
OnlyTheRecord ==
    [][ \A i \in 0 .. 2 : elems'[i] # elems[i] =>
            /\ i = said'.ndx /\ (Owned(i) \/ Overruns(i))
            /\ \A n \in Names :
                  \/ elems'[i][n] = elems[i][n]
                  \/ Loaded(elems'[i])[n] = said'.given[n]
                  \/ o.class = 32 /\ Cut(Conv[n], said'.given[n])
            /\ IsHeader /\ o.lib = "toolchain" => dirty' ]_vars
=============================================================================
