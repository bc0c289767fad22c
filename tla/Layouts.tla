------------------------------ MODULE Layouts ------------------------------
(***************************************************************************)
(* Where the bytes of a record are in the file and in memory, for both     *)
(* libraries: lib/ copies between its file and memory structures member by *)
(* member; elftoolchain_debug/aaa/libelf writes and reads the members in   *)
(* the order its converter lists them, without a structure for the file.   *)
(***************************************************************************)
EXTENDS Integers, Sequences

\* The alignment of a 64-bit number in a structure, as the compiler has it.
CONSTANT LwordAlign
ASSUME LwordAlignAssumption == LwordAlign \in {4, 8}

Host == INSTANCE Structs
Repl == INSTANCE ReplStructs
Ext  == INSTANCE FileStructs
Cvt  == INSTANCE Converters
Tr   == INSTANCE Translators

Class == {32, 64}

Width == [c \in Class |->
            [Ident |-> 16, Byte |-> 1, Half |-> 2, Word |-> 4, Sword |-> 4, Lword |-> 8,
             Xword |-> 8, Sxword |-> 8, Addr |-> c \div 8, Off |-> c \div 8]]

Align(c, type) == CASE type = "Ident" -> 1
                    [] Width[c][type] = 8 -> LwordAlign
                    [] OTHER -> Width[c][type]

(* f itself: TLC keeps a function it has compared as a table of values.     *)
Table(f) == CHOOSE g \in {f} : g = f

Greatest(S) == CHOOSE x \in S : \A y \in S : y <= x
RoundUp(n, to) == ((n + to - 1) \div to) * to

Name(fields) == { fields[i][1] : i \in DOMAIN fields }
Named(fields, n) == CHOOSE i \in DOMAIN fields : fields[i][1] = n

(* Members one behind the other, as a sequence of WRITE_ or READ_ macros    *)
(* and a structure of bytes have them.                                      *)
Packed(c, fields) ==
    LET end[i \in 0..Len(fields)] ==
            IF i = 0 THEN 0 ELSE end[i - 1] + Width[c][fields[i][2]]
    IN  [at |-> [n \in Name(fields) |-> end[Named(fields, n) - 1]],
         size |-> end[Len(fields)], align |-> 1]

(* Members as the compiler places them: each at a multiple of its alignment,*)
(* and the size a multiple of the largest.                                  *)
Natural(c, fields) ==
    LET al(i) == Align(c, fields[i][2])
        off[i \in 1..Len(fields)] ==
            IF i = 1 THEN 0 ELSE RoundUp(off[i - 1] + Width[c][fields[i - 1][2]], al(i))
        most == Greatest({ al(i) : i \in 1..Len(fields) })
        last == Len(fields)
    IN  [at |-> [n \in Name(fields) |-> off[Named(fields, n)]],
         size |-> RoundUp(off[last] + Width[c][fields[last][2]], most), align |-> most]

Widths(c, fields) == [n \in Name(fields) |-> Width[c][fields[Named(fields, n)][2]]]
Numbers(fields) == { n \in Name(fields) : fields[Named(fields, n)][2] # "Ident" }

-----------------------------------------------------------------------------
(* The tables: a type's members, by class.                                 *)

Number(type) == <<<<"value", type>>>>

HostNumbers(c) ==
    [ADDR |-> Number("Addr"), BYTE |-> Number("Byte"), HALF |-> Number("Half"),
     LWORD |-> Number("Lword"), OFF |-> Number("Off"), SWORD |-> Number("Sword"),
     WORD |-> Number("Word"), SXWORD |-> Number("Sxword"), XWORD |-> Number("Xword")]

ExtNumbers(c) ==
    [ADDR |-> Number("Addr"), BYTE |-> Number("Byte"), HALF |-> Number("Half"),
     OFF |-> Number("Off"), SWORD |-> Number("Sword"), WORD |-> Number("Word"),
     SXWORD |-> Number("Sxword"), XWORD |-> Number("Xword")]

HostTable(c) ==
    IF c = 32 THEN [EHDR |-> Host!Ehdr32, PHDR |-> Host!Phdr32, SHDR |-> Host!Shdr32,
                    SYM |-> Host!Sym32, REL |-> Host!Rel32, RELA |-> Host!Rela32,
                    DYN |-> Host!Dyn32, CAP |-> Host!Cap32, MOVE |-> Host!Move32,
                    SYMINFO |-> Host!Syminfo32]
              ELSE [EHDR |-> Host!Ehdr64, PHDR |-> Host!Phdr64, SHDR |-> Host!Shdr64,
                    SYM |-> Host!Sym64, REL |-> Host!Rel64, RELA |-> Host!Rela64,
                    DYN |-> Host!Dyn64, CAP |-> Host!Cap64, MOVE |-> Host!Move64,
                    SYMINFO |-> Host!Syminfo64]

ReplTable(c) ==
    IF c = 32 THEN [EHDR |-> Repl!Ehdr32, PHDR |-> Repl!Phdr32, SHDR |-> Repl!Shdr32,
                    SYM |-> Repl!Sym32, REL |-> Repl!Rel32, RELA |-> Repl!Rela32,
                    DYN |-> Repl!Dyn32, CAP |-> Repl!Cap32, MOVE |-> Repl!Move32,
                    SYMINFO |-> Repl!Syminfo32]
              ELSE [EHDR |-> Repl!Ehdr64, PHDR |-> Repl!Phdr64, SHDR |-> Repl!Shdr64,
                    SYM |-> Repl!Sym64, REL |-> Repl!Rel64, RELA |-> Repl!Rela64,
                    DYN |-> Repl!Dyn64, CAP |-> Repl!Cap64, MOVE |-> Repl!Move64,
                    SYMINFO |-> Repl!Syminfo64]

ExtTable(c) ==
    IF c = 32 THEN [EHDR |-> Ext!Ehdr32, PHDR |-> Ext!Phdr32, SHDR |-> Ext!Shdr32,
                    SYM |-> Ext!Sym32, REL |-> Ext!Rel32, RELA |-> Ext!Rela32,
                    DYN |-> Ext!Dyn32, MOVE |-> Ext!Move32]
              ELSE [EHDR |-> Ext!Ehdr64, PHDR |-> Ext!Phdr64, SHDR |-> Ext!Shdr64,
                    SYM |-> Ext!Sym64, REL |-> Ext!Rel64, RELA |-> Ext!Rela64,
                    DYN |-> Ext!Dyn64, MOVE |-> Ext!Move64]

(* cvt[] of libelf_convert.c: there is no Xword and no Sxword of 32 bits.   *)
CvtTable(c) ==
    IF c = 32 THEN [ADDR |-> Cvt!ADDR32, CAP |-> Cvt!CAP32, DYN |-> Cvt!DYN32,
                    EHDR |-> Cvt!EHDR32, HALF |-> Cvt!HALF, LWORD |-> Cvt!LWORD,
                    MOVE |-> Cvt!MOVE32, OFF |-> Cvt!OFF32, PHDR |-> Cvt!PHDR32,
                    REL |-> Cvt!REL32, RELA |-> Cvt!RELA32, SHDR |-> Cvt!SHDR32,
                    SWORD |-> Cvt!SWORD, SYMINFO |-> Cvt!SYMINFO32, SYM |-> Cvt!SYM32,
                    WORD |-> Cvt!WORD, BYTE |-> Cvt!BYTE]
              ELSE [ADDR |-> Cvt!ADDR64, CAP |-> Cvt!CAP64, DYN |-> Cvt!DYN64,
                    EHDR |-> Cvt!EHDR64, HALF |-> Cvt!HALF, LWORD |-> Cvt!LWORD,
                    MOVE |-> Cvt!MOVE64, OFF |-> Cvt!OFF64, PHDR |-> Cvt!PHDR64,
                    REL |-> Cvt!REL64, RELA |-> Cvt!RELA64, SHDR |-> Cvt!SHDR64,
                    SWORD |-> Cvt!SWORD, SXWORD |-> Cvt!SXWORD,
                    SYMINFO |-> Cvt!SYMINFO64, SYM |-> Cvt!SYM64, WORD |-> Cvt!WORD,
                    XWORD |-> Cvt!XWORD, BYTE |-> Cvt!BYTE]

(* xlate32_11 and xlate64_11 of lib.                                       *)
Xlate32 == [BYTE |-> Number("Byte"), ADDR |-> Number("Addr"), DYN |-> Tr!dyn32,
            EHDR |-> Tr!ehdr32, HALF |-> Number("Half"), OFF |-> Number("Off"),
            PHDR |-> Tr!phdr32, RELA |-> Tr!rela32, REL |-> Tr!rel32,
            SHDR |-> Tr!shdr32, SWORD |-> Number("Sword"), SYM |-> Tr!sym32,
            WORD |-> Number("Word")]
Xlate64 == [BYTE |-> Number("Byte"), ADDR |-> Number("Addr"), DYN |-> Tr!dyn64,
            EHDR |-> Tr!ehdr64, HALF |-> Number("Half"), OFF |-> Number("Off"),
            PHDR |-> Tr!phdr64, RELA |-> Tr!rela64, REL |-> Tr!rel64,
            SHDR |-> Tr!shdr64, SWORD |-> Number("Sword"), SYM |-> Tr!sym64,
            WORD |-> Number("Word"), SXWORD |-> Number("Sxword"), XWORD |-> Number("Xword")]

Of(records, numbers, t) == IF t \in DOMAIN records THEN records[t] ELSE numbers[t]
Has(records, numbers, t) == t \in DOMAIN records \/ t \in DOMAIN numbers

-----------------------------------------------------------------------------
(* A plan says how one record is converted: where its members are on both  *)
(* sides, how wide they are and which are numbers, in the order of the     *)
(* conversion.                                                             *)
Plan(infile, inmem, fields, c) ==
    Table([file |-> infile, mem |-> inmem, width |-> Widths(c, fields), number |-> Numbers(fields),
           order |-> [i \in DOMAIN fields |-> fields[i][1]]])

ToolchainPlan(c, t) ==
    Plan(Packed(c, CvtTable(c)[t]), Natural(c, Of(HostTable(c), HostNumbers(c), t)),
         CvtTable(c)[t], c)

LibTable(c) == IF c = 32 THEN Xlate32 ELSE Xlate64
LibPlan(c, t) ==
    Plan(Packed(c, Of(ExtTable(c), ExtNumbers(c), t)),
         Natural(c, Of(ReplTable(c), HostNumbers(c), t)), LibTable(c)[t], c)

(* The same record as the other library's declarations have it, the        *)
(* reference a conversion is compared with.                                *)
RefPlan(lib, c, t) ==
    IF lib = "lib"
    THEN Plan(Packed(c, CvtTable(c)[t]), Natural(c, Of(HostTable(c), HostNumbers(c), t)),
              Of(HostTable(c), HostNumbers(c), t), c)
    ELSE LET inmem == Of(ReplTable(c), HostNumbers(c), t)
             infile == IF Has(ExtTable(c), ExtNumbers(c), t)
                       THEN Of(ExtTable(c), ExtNumbers(c), t) ELSE inmem
         IN  Plan(Packed(c, infile), Natural(c, inmem), inmem, c)

From(plan, tof) == IF tof THEN plan.mem ELSE plan.file
To(plan, tof)   == IF tof THEN plan.file ELSE plan.mem

(* Which byte of a source record each byte of a destination member takes:  *)
(* a number's bytes turn round when the byte order changes.                *)
FieldBytes(plan, n, tof, swap) ==
    LET s == From(plan, tof).at[n]
        d == To(plan, tof).at[n]
        w == plan.width[n]
    IN  [o \in d..(d + w - 1) |->
            IF swap /\ n \in plan.number THEN s + w - 1 - (o - d) ELSE s + (o - d)]

Padding == -1

RecordBytes(plan, tof, swap) ==
    [o \in 0..(To(plan, tof).size - 1) |->
        IF \E n \in DOMAIN plan.width : o \in DOMAIN FieldBytes(plan, n, tof, swap)
        THEN LET n == CHOOSE m \in DOMAIN plan.width : o \in DOMAIN FieldBytes(plan, m, tof, swap)
             IN  FieldBytes(plan, n, tof, swap)[o]
        ELSE Padding]
=============================================================================
