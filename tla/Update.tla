------------------------------- MODULE Update -------------------------------
(***************************************************************************)
(* elf_update: the layout of an ELF file, the decision whether to write    *)
(* it, and the file that is written (update.c), after edits of headers and *)
(* sections that mark what they change as dirty, or do not (cook.c,        *)
(* 32.newehdr.c, 32.newphdr.c, newscn.c, newdata.c, x.remscn.c,            *)
(* x.movscn.c, opt.delscn.c, flag.c).                                      *)
(*                                                                         *)
(* The sections are a sequence; that the linked list behaves as one is     *)
(* shown in SectionList.  Offsets count cells, file[o + 1] is the cell at  *)
(* offset o.  The ELF header and each table entry take one cell, whose     *)
(* value is the header; of program headers only the number is kept.        *)
(* Section data counts as loaded when the file is cooked.  Versions,       *)
(* encodings and entry sizes are the same throughout, the descriptor is    *)
(* one that may be written, and its class the one of the functions called. *)
(* What the application does may depend on the class, for the sake of the  *)
(* instances: it is given by functions of the class.                       *)
(***************************************************************************)
EXTENDS Integers, Sequences, SequencesExt, FiniteSetsExt

CONSTANTS Classes,    \* 32 and 64, or one of them
          AddrAlign,  \* alignment of the header tables
          LoReserve,  \* SHN_LORESERVE
          PnXnum,     \* PN_XNUM
          Word,       \* what the upper half of a 64-bit sh_offset counts
          Byte,       \* contents of a cell of section data
          Stored,     \* ELF files that may be there at first
          Blocks,     \* for each class, Elf_Data an application adds to a section
          Places,     \* offsets an application chooses under ELF_F_LAYOUT
          Sizes,      \* section sizes it chooses then
          PhCounts,   \* arguments of elf_newphdr
          Settable,   \* flags of the descriptor it sets and clears
          Unmarked,   \* calls it makes of those that mark nothing as dirty
          MaxScn,     \* bound: sections
          MaxData,    \* bound: Elf_Data in a section
          MaxCalls    \* bound: calls that edit, or find no memory or disk

ASSUME UpdateAssumption ==
    /\ Classes \subseteq {32, 64}
    /\ {AddrAlign, LoReserve, PnXnum, Word} \subseteq Nat \ {0}
    /\ LoReserve > 1
    /\ {MaxScn, MaxData, MaxCalls} \subseteq Nat
    /\ \A c \in Classes :
          /\ Places[c] \subseteq Nat /\ Sizes[c] \subseteq Nat /\ PhCounts[c] \subseteq Nat
          /\ Settable[c] \subseteq {"DIRTY", "LAYOUT", "LAYOUT_OVERLAP"}
          /\ Unmarked[c] \subseteq {"elf_delscn", "elfx_movscn"}

Stage == {"edited", "settled", "saved", "overlap"}
Flags == {"DIRTY", "LAYOUT", "LAYOUT_OVERLAP"}
Ehdr == [e_phoff : Nat, e_phnum : Nat, e_shoff : Nat, e_shnum : Nat]
Shdr == [sh_type : {"null", "bits", "nobits"}, sh_offset : Nat, sh_size : Nat,
         sh_addralign : Nat, sh_info : Nat]
Data == [d_off : Nat, d_align : Nat, d_size : Nat, d_buf : Seq(Byte)]
Scn  == [s_shdr : Shdr, s_data : Seq(Data),
         s_null : BOOLEAN,    \* read from the file, where its type is SHT_NULL
         s_flag : BOOLEAN,    \* s_scn_flags or s_shdr_flags has ELF_F_DIRTY
         d_flag : BOOLEAN]    \* sd_data_flags of one of the data has it

NoEhdr == [e_phoff |-> 0, e_phnum |-> 0, e_shoff |-> 0, e_shnum |-> 0]
NoShdr == [sh_type |-> "null", sh_offset |-> 0, sh_size |-> 0,
           sh_addralign |-> 0, sh_info |-> 0]
NewScn == [s_shdr |-> NoShdr, s_data |-> << >>, s_null |-> FALSE,
           s_flag |-> TRUE, d_flag |-> FALSE]
Zero   == <<"data", 0>>        \* a cell nothing is written to
Cell   == ({"ehdr"} \X Ehdr) \cup ({"phdr"} \X {0}) \cup ({"shdr"} \X Shdr)
          \cup ({"data"} \X (Byte \cup {0}))

VARIABLES
    file,         \* the contents of the file
    e_readable,   \* the descriptor was opened on a file that is there
    e_class,      \* 32 or 64
    e_ehdr,       \* the ELF header is in memory
    ehdr,         \* it
    e_phnum,      \* number of program headers
    scns,         \* the sections
    e_elf_flags,  \* subset of Flags
    e_ehdr_flags, \* dirty or not
    e_phdr_flags, \* dirty or not
    stage,        \* what elf_update last said, if no call came after it
    unmarked,     \* calls since the last full write whose effect no flag shows
    calls         \* bound

contents == << ehdr, e_phnum, scns >>
dirt     == << e_elf_flags, e_ehdr_flags, e_phdr_flags >>
opened   == << e_readable, e_class >>
vars     == << file, opened, e_ehdr, contents, dirt, stage, unmarked, calls >>
-----------------------------------------------------------------------------
(***************************************************************************)
(* The layout: _elf32_layout, _elf64_layout and scn_data_layout.           *)
(***************************************************************************)
AlignUp(v, a) == IF a > 1 THEN (v + a - 1) - ((v + a - 1) % a) ELSE v

Layout  == "LAYOUT" \notin e_elf_flags      \* the library chooses the places

\* The end of the first k data of a section, within the section.
DataEnd(d) ==
    LET end[k \in 0 .. Len(d)] ==
            IF k = 0 THEN 0
            ELSE IF Layout THEN AlignUp(end[k - 1], d[k].d_align) + d[k].d_size
            ELSE Max({end[k - 1], d[k].d_off + d[k].d_size})
    IN  end

PlacedData(d) ==
    [k \in 1 .. Len(d) |->
        IF Layout THEN [d[k] EXCEPT !.d_off = AlignUp(DataEnd(d)[k - 1], d[k].d_align)]
                  ELSE d[k]]

FirstAlign(d) == IF d = << >> THEN 1 ELSE Max({1, d[1].d_align}) \* mutant

ScnAlign(d) == Max({1} \cup {d[k].d_align : k \in DOMAIN d})

FileEnd(h) == h.sh_offset + (IF h.sh_type = "nobits" THEN 0 ELSE h.sh_size)

\* The check for overlapping sections.
Collide(h1, h2) == FileEnd(h1) > h2.sh_offset /\ FileEnd(h2) > h1.sh_offset

\* rewrite(): a header that changes is dirty.
Rewrite(s, h) == [s EXCEPT !.s_shdr = h, !.s_flag = @ \/ h # s.s_shdr]

RewriteData(s) ==
    LET d == PlacedData(s.s_data)
    IN  [s EXCEPT !.s_data = d, !.d_flag = @ \/ d # s.s_data]

\* The program headers: their place, and their number in the ELF header and
\* in the first section.  _elf64_layout takes the first section's header for
\* a 32-bit one: the number lands in the upper half of sh_offset.
Phoff == IF ~Layout THEN ehdr.e_phoff
         ELSE IF e_phnum = 0 THEN 0 ELSE AlignUp(1, AddrAlign)

PhdrHeader == [ehdr EXCEPT !.e_phoff = Phoff, !.e_phnum = Min({e_phnum, PnXnum})]

ExtendedPhnum(h) == IF e_class = 32 THEN [h EXCEPT !.sh_info = e_phnum]
                    ELSE [h EXCEPT !.sh_offset = (@ % Word) + e_phnum * Word]

OldPhoff == \* mutant
    [scns |-> scns, off |-> Max({1, ehdr.e_phoff + e_phnum}), says |-> "ok"]

AfterPhdrs ==
    [scns |-> IF e_phnum >= PnXnum
              THEN [scns EXCEPT ![1] = Rewrite(@, ExtendedPhnum(@.s_shdr))] ELSE scns,
     off  |-> IF e_phnum = 0 THEN 1 ELSE Max({1, Phoff + e_phnum}),
     says |-> "ok"]

\* One turn of the loop over the sections.  bad is the number of a section
\* whose data cannot be loaded or translated, or 0.  elf_getdata finds no data
\* where the file has SHT_NULL, whatever type the header was given since.
PlaceFirst(at) ==
    IF ~Layout THEN at
    ELSE [at EXCEPT !.scns[1] = Rewrite(@, [@.s_shdr EXCEPT !.sh_offset = 0,
                                               !.sh_size = 0, !.sh_addralign = 0])]

PlaceByLibrary(at, i) ==
    LET d   == at.scns[i].s_data
        off == AlignUp(at.off, ScnAlign(d))
        h   == [at.scns[i].s_shdr EXCEPT !.sh_offset = off,
                    !.sh_size = DataEnd(d)[Len(d)], !.sh_addralign = ScnAlign(d)]
    IN  [at EXCEPT !.scns[i] = Rewrite(RewriteData(@), h),
                   !.off = IF h.sh_type = "nobits" THEN off ELSE off + h.sh_size]

StopsEarly(at, i) == \* mutant
    /\ "LAYOUT_OVERLAP" \notin e_elf_flags
    /\ \E j \in 1 .. i - 2 : Collide(at.scns[i].s_shdr, at.scns[j].s_shdr)

Refused(at, i) ==
    LET h == at.scns[i].s_shdr
    IN  /\ "LAYOUT_OVERLAP" \notin e_elf_flags
        /\ h.sh_offset < at.off
        /\ \E j \in 1 .. i - 1 : Collide(h, at.scns[j].s_shdr)

LastEnd(at, i) == \* mutant
    IF DataEnd(at.scns[i].s_data)[Len(at.scns[i].s_data)] > at.scns[i].s_shdr.sh_size
    THEN [at EXCEPT !.says = "small"]
    ELSE IF Refused(at, i) THEN [at EXCEPT !.says = "overlap"]
    ELSE [at EXCEPT !.off = FileEnd(at.scns[i].s_shdr)]

PlaceByProgram(at, i) ==
    LET s == at.scns[i]
    IN  IF DataEnd(s.s_data)[Len(s.s_data)] > s.s_shdr.sh_size THEN [at EXCEPT !.says = "small"]
        ELSE IF Refused(at, i) THEN [at EXCEPT !.says = "overlap"]
        ELSE [at EXCEPT !.off = Max({@, FileEnd(s.s_shdr)})]

PlaceScn(at, i, bad) ==
    IF i = 1 THEN PlaceFirst(at)
    ELSE IF at.scns[i].s_shdr.sh_type = "null" THEN at
    ELSE IF scns[i].s_null \/ (i = bad /\ at.scns[i].s_data # << >>) THEN [at EXCEPT !.says = "bad"]
    ELSE IF Layout THEN PlaceByLibrary(at, i)
    ELSE PlaceByProgram(at, i)

Turns(bad) ==
    LET at[i \in 0 .. Len(scns)] ==
            IF i = 0 THEN AfterPhdrs
            ELSE IF at[i - 1].says = "ok" THEN PlaceScn(at[i - 1], i, bad) ELSE at[i - 1]
    IN  at

AfterScns(bad) == Turns(bad)[Len(scns)]

\* The section header table, and the number of sections.
Shoff(at) == IF ~Layout THEN ehdr.e_shoff
             ELSE IF scns = << >> THEN 0 ELSE AlignUp(at.off, AddrAlign)

Uncounted(at) == at.scns \* mutant

ExtendedShnum(at) ==
    IF Len(scns) >= LoReserve
    THEN [at.scns EXCEPT ![1] = Rewrite(@, [@.s_shdr EXCEPT !.sh_size = Len(scns)])]
    ELSE at.scns

\* What a layout makes of the headers: an error leaves them half rewritten.
Laid(bad) ==
    LET at == AfterScns(bad)
    IN  IF at.says # "ok" THEN [says |-> at.says, ehdr |-> PhdrHeader, scns |-> at.scns, end |-> 0]
        ELSE [says |-> "ok",
              ehdr |-> [PhdrHeader EXCEPT !.e_shoff = Shoff(at),
                           !.e_shnum = IF Len(scns) >= LoReserve THEN 0 ELSE Len(scns)],
              scns |-> ExtendedShnum(at),
              end  |-> IF scns = << >> THEN at.off
                       ELSE Max({at.off, Shoff(at) + Len(scns)})]

\* *flag, after a layout.
DirtyAfter(l) ==
    TRUE \in { "DIRTY" \in e_elf_flags, e_phdr_flags, e_ehdr_flags, l.ehdr # ehdr }
            \cup { s.s_flag : s \in Range(l.scns) }
            \cup { l.scns[i].d_flag : i \in {j \in 2 .. Len(l.scns) :
                                               l.scns[j].s_shdr.sh_type # "null"} }
-----------------------------------------------------------------------------
(***************************************************************************)
(* The file: what _elf32_write and _elf64_write put where, in their order, *)
(* and what _elf_cook_file reads from it.                                  *)
(***************************************************************************)
DataOf(s) == IF s.s_shdr.sh_type = "bits" THEN s.s_data ELSE << >>

Cells(d) == [c \in DOMAIN d.d_buf |-> <<"data", d.d_buf[c]>>]

Writes(h, ss) ==
    << [at |-> 0, cells |-> << <<"ehdr", h>> >>, null |-> FALSE] >>
    \o [j \in 1 .. e_phnum |-> [at |-> h.e_phoff + j - 1,
                               cells |-> << <<"phdr", 0>> >>, null |-> FALSE]]
    \o FlattenSeq([i \in 1 .. Len(ss) |->
          << [at |-> h.e_shoff + i - 1,
              cells |-> << <<"shdr", ss[i].s_shdr>> >>, null |-> FALSE] >>
          \o IF i = 1 THEN << >>
             ELSE LET d == DataOf(ss[i])
                  IN  [k \in 1 .. Len(d) |->
                         [at    |-> ss[i].s_shdr.sh_offset + d[k].d_off,
                          cells |-> Cells(d[k]),
                          null  |-> d[k].d_buf = << >> /\ d[k].d_size > 0]]])

\* ERROR_NULLBUF: the writes before the first that has no d_buf.
Written(w) == LET none == {k \in DOMAIN w : w[k].null}
              IN  IF none = {} THEN w ELSE SubSeq(w, 1, Min(none) - 1)

\* A file of len cells: of the writes that hit a cell the last is seen.
Image(w, len) ==
    [k \in 1 .. len |->
        LET hits == {j \in DOMAIN w : k - w[j].at \in DOMAIN w[j].cells}
        IN  IF hits = {} THEN Zero ELSE w[Max(hits)].cells[k - w[Max(hits)].at]]

IsAt(f, kind, off) == off + 1 \in DOMAIN f /\ f[off + 1][1] = kind
At(f, off) == f[off + 1][2]

CookedShnum(f) ==
    LET h == At(f, 0)
    IN  IF h.e_shoff = 0 THEN 0
        ELSE IF h.e_shnum # 0 THEN h.e_shnum ELSE At(f, h.e_shoff).sh_size

CookedPhnum(f) ==
    LET h == At(f, 0)
    IN  IF h.e_phoff = 0 THEN 0
        ELSE IF h.e_phnum # PnXnum THEN h.e_phnum ELSE At(f, h.e_shoff).sh_info

\* The contents of a section; elf_getdata finds none for other types.
CookedBuf(f, h) ==
    IF h.sh_type # "bits" THEN << >>
    ELSE [c \in 1 .. h.sh_size |-> At(f, h.sh_offset + c - 1)]

CookedScn(f, i) ==
    LET h == At(f, At(f, 0).e_shoff + i - 1)
    IN  [s_shdr |-> h, s_null |-> h.sh_type = "null", s_flag |-> FALSE, d_flag |-> FALSE,
         s_data |-> << [d_off |-> 0, d_align |-> h.sh_addralign, d_size |-> h.sh_size,
                        d_buf |-> CookedBuf(f, h)] >>]

CookedScns(f) == [i \in 1 .. CookedShnum(f) |-> CookedScn(f, i)]

\* A file that cook.c and getdata.c take without an error: the tables and
\* the contents are in it.  e_phnum has 16 bits, of which PN_XNUM has all.
WellFormed(f) ==
    /\ f \in Seq(Cell) /\ IsAt(f, "ehdr", 0)
    /\ At(f, 0).e_phnum <= PnXnum
    /\ CookedPhnum(f) \in Nat /\ CookedShnum(f) \in Nat
    /\ CookedScns(f) \in Seq(Scn)
    /\ CookedPhnum(f) >= PnXnum => CookedScns(f) # << >>
    /\ \A j \in 1 .. CookedPhnum(f) : IsAt(f, "phdr", At(f, 0).e_phoff + j - 1)
    /\ \A i \in 1 .. CookedShnum(f) :
          /\ IsAt(f, "shdr", At(f, 0).e_shoff + i - 1)
          /\ LET h == CookedScn(f, i).s_shdr
             IN  i > 1 /\ h.sh_type = "bits" =>
                    /\ FileEnd(h) <= Len(f)
                    /\ \A o \in h.sh_offset .. FileEnd(h) - 1 : IsAt(f, "data", o)

ASSUME StoredAssumption == \A f \in Stored : WellFormed(f)

ASSUME BlocksAssumption ==
    \A c \in Classes : Blocks[c] \subseteq {d \in Data : Len(d.d_buf) \in {0, d.d_size}}
-----------------------------------------------------------------------------
(***************************************************************************)
(* The calls.                                                              *)
(***************************************************************************)
Init ==
    /\ e_readable \in BOOLEAN /\ e_class \in Classes
    /\ file \in IF e_readable THEN Stored ELSE {<< >>}
    /\ e_ehdr = FALSE /\ ehdr = NoEhdr /\ e_phnum = 0 /\ scns = << >>
    /\ e_elf_flags = {} /\ e_ehdr_flags = FALSE /\ e_phdr_flags = FALSE
    /\ stage = "edited" /\ unmarked = {} /\ calls = 0

\* _elf_cook on the first access.  Memory can run out behind the header, or
\* behind the sections: e_ehdr stays, and no later call cooks again.
Cook ==
    /\ e_readable /\ ~e_ehdr
    /\ e_ehdr' = TRUE /\ ehdr' = At(file, 0)
    /\ \E done \in {"header", "sections", "all"} :
          /\ scns' = IF done = "header" THEN << >> ELSE CookedScns(file)
          /\ e_phnum' = IF done = "all" THEN CookedPhnum(file) ELSE 0
    /\ UNCHANGED << file, opened, dirt, stage, unmarked, calls >>

elf_newehdr ==
    /\ ~e_readable /\ ~e_ehdr
    /\ e_ehdr' = TRUE /\ ehdr' = NoEhdr /\ e_ehdr_flags' = TRUE
    /\ UNCHANGED << file, opened, e_phnum, scns, e_elf_flags, e_phdr_flags,
                    stage, unmarked, calls >>

Edits ==
    /\ e_ehdr /\ calls < MaxCalls
    /\ calls' = calls + 1 /\ stage' = "edited"
    /\ UNCHANGED << file, opened, e_ehdr >>

\* _elf_update_shnum, for the sections ss.
CountIn(h, ss) == [h EXCEPT !.e_shnum = IF Len(ss) >= LoReserve THEN 0 ELSE Len(ss)]

Counted(ss) ==
    [ss EXCEPT ![1] = [@ EXCEPT !.s_flag = TRUE,
                          !.s_shdr.sh_size = IF Len(ss) >= LoReserve THEN Len(ss) ELSE 0]]

UpdateShnum(ss) ==
    /\ scns' = Counted(ss) /\ ehdr' = CountIn(ehdr, ss)
    /\ e_ehdr_flags' = TRUE
    /\ UNCHANGED << e_phnum, e_elf_flags, e_phdr_flags, unmarked >>

\* With the first section, which is all that is left of an elf_newscn or an
\* elf_newphdr that finds no memory for more.
OnlyOwn == scns \* mutant
FirstScn == IF scns = << >> THEN << NewScn >> ELSE scns

elf_newscn ==
    /\ Edits
    /\ \/ Len(FirstScn) < MaxScn /\ UpdateShnum(Append(FirstScn, NewScn))
       \/ scns = << >> /\ UpdateShnum(FirstScn)

elf_newphdr ==
    /\ Edits
    /\ \E count \in PhCounts[e_class] :
          LET ss == IF scns = << >> THEN Counted(FirstScn) ELSE scns
              h  == IF scns = << >> THEN CountIn(ehdr, FirstScn) ELSE ehdr
          IN  /\ e_phnum' = count
              /\ ehdr' = [h EXCEPT !.e_phnum = Min({count, PnXnum})]
              /\ scns' = [ss EXCEPT ![1] = [@ EXCEPT !.s_flag = TRUE,
                             !.s_shdr.sh_info = IF count >= PnXnum THEN count ELSE 0]]
    /\ e_phdr_flags' = TRUE /\ e_ehdr_flags' = TRUE
    /\ UNCHANGED << e_elf_flags, unmarked >>

elf_newdata ==
    /\ Edits
    /\ \E i \in 2 .. Len(scns), d \in Blocks[e_class] :
          /\ Len(scns[i].s_data) < MaxData
          /\ scns' = [scns EXCEPT ![i].s_data = Append(@, d), ![i].d_flag = TRUE]
    /\ UNCHANGED << ehdr, e_phnum, dirt, unmarked >>

\* Changes an application makes in a header, and then marks with
\* elf_flagshdr or elf_flagehdr.
SetShdr ==
    /\ Edits
    /\ \E i \in 2 .. Len(scns) :
          \/ /\ scns[i].s_shdr.sh_type = "null"
             /\ \E t \in {"bits", "nobits"} :
                   scns' = [scns EXCEPT ![i] = [@ EXCEPT !.s_flag = TRUE, !.s_shdr.sh_type = t]]
          \/ /\ ~Layout
             /\ \E off \in Places[e_class], size \in Sizes[e_class] :
                   scns' = [scns EXCEPT ![i] = [@ EXCEPT !.s_flag = TRUE,
                                !.s_shdr.sh_offset = off, !.s_shdr.sh_size = size]]
    /\ UNCHANGED << ehdr, e_phnum, dirt, unmarked >>

SetEhdr ==
    /\ Edits /\ ~Layout
    /\ \E off \in Places[e_class] :
          \/ ehdr' = [ehdr EXCEPT !.e_phoff = off]
          \/ scns # << >> /\ ehdr' = [ehdr EXCEPT !.e_shoff = off]
    /\ e_ehdr_flags' = TRUE
    /\ UNCHANGED << e_phnum, scns, e_elf_flags, e_phdr_flags, unmarked >>

\* To clear ELF_F_DIRTY is to say that the file need not be written.
elf_flagelf ==
    /\ Edits
    /\ \E f \in Settable[e_class] :
          \/ e_elf_flags' = e_elf_flags \cup {f}
          \/ f # "DIRTY" /\ e_elf_flags' = e_elf_flags \ {f}
    /\ UNCHANGED << contents, e_ehdr_flags, e_phdr_flags, unmarked >>

elfx_remscn ==
    /\ Edits
    /\ \E i \in 2 .. Len(scns) : UpdateShnum(RemoveAt(scns, i))

\* Types with section numbers in their headers are in SectionList.
elf_delscn ==
    /\ Edits /\ "elf_delscn" \in Unmarked[e_class]
    /\ \E i \in 2 .. Len(scns) : scns' = RemoveAt(scns, i)
    /\ ehdr' = [ehdr EXCEPT !.e_shnum = Len(scns) - 1]
    /\ unmarked' = unmarked \cup {"elf_delscn"}
    /\ UNCHANGED << e_phnum, dirt >>

elfx_movscn ==
    /\ Edits /\ "elfx_movscn" \in Unmarked[e_class]
    /\ \E i \in 2 .. Len(scns), after \in 1 .. Len(scns) :
          /\ after \notin {i, i - 1}
          /\ scns' = InsertAt(RemoveAt(scns, i), IF after < i THEN after + 1 ELSE after, scns[i])
    /\ unmarked' = unmarked \cup {"elfx_movscn"}
    /\ UNCHANGED << ehdr, e_phnum, dirt >>

(***************************************************************************)
(* elf_update: l is what the layout makes of the headers, w what is to be  *)
(* written where.                                                          *)
(***************************************************************************)
\* Memory or the disk fails, or data that cannot be translated.
Fails == calls < MaxCalls /\ calls' = calls + 1

Keeps(l) ==
    /\ ehdr' = l.ehdr /\ scns' = l.scns
    /\ e_ehdr_flags' = (e_ehdr_flags \/ l.ehdr # ehdr)
    /\ UNCHANGED << opened, e_ehdr, e_phnum, e_elf_flags, e_phdr_flags >>

\* ELF_C_NULL.
UpdateLaysOut(l) ==
    /\ l.says = "ok"
    /\ Keeps(l)
    /\ stage' = "settled"
    /\ UNCHANGED << file, unmarked, calls >>

\* The layout fails, for ELF_C_NULL or ELF_C_WRITE.
UpdateRefuses(l) ==
    /\ l.says # "ok"
    /\ Keeps(l)
    /\ stage' = IF l.says = "overlap" THEN "overlap" ELSE "edited"
    /\ UNCHANGED << file, unmarked >>

\* ELF_C_WRITE with nothing dirty.
UpdateSkips(l) ==
    /\ l.says = "ok" /\ ~DirtyAfter(l)
    /\ Keeps(l)
    /\ stage' = "saved"
    /\ UNCHANGED << file, unmarked, calls >>

MustWrite(l) == l.says = "ok" /\ DirtyAfter(l)

Cleaned(l) ==
    /\ ehdr' = l.ehdr
    /\ scns' = [i \in DOMAIN l.scns |-> [l.scns[i] EXCEPT !.s_flag = FALSE, !.d_flag = FALSE]]
    /\ e_elf_flags' = e_elf_flags \ {"DIRTY"}
    /\ e_ehdr_flags' = FALSE /\ e_phdr_flags' = FALSE
    /\ UNCHANGED << opened, e_ehdr, e_phnum >>

UpdateWrites(l, w) ==
    /\ Written(w) = w
    /\ Cleaned(l)
    /\ file' = Image(w, l.end)
    /\ stage' = "saved" /\ unmarked' = {}
    /\ UNCHANGED calls

\* After the file was truncated: no mapping and no buffer, a section without
\* d_buf, no memory for the new images of a descriptor that reads.
UpdateFails(l, w) ==
    /\ Fails
    /\ Keeps(l)
    /\ \/ file' \in {<< >>, Image(<< >>, l.end)}
       \/ (Written(w) # w \/ e_readable) /\ file' = Image(Written(w), l.end)
    /\ stage' = "edited" /\ UNCHANGED unmarked

\* Without a mapping the contents go to a buffer, and the flags are cleared
\* before the buffer is written, of which the file takes n cells: none, the
\* ELF header, or all but one stand for every number of them.
UpdateLosesWrite(l, w) ==
    /\ Fails /\ Written(w) = w
    /\ Cleaned(l)
    /\ \E n \in {0, 1, l.end - 1}, f \in {Image(w, l.end)} :
          file' = [k \in 1 .. l.end |-> IF k <= n THEN f[k] ELSE Zero]
    /\ stage' = "edited" /\ unmarked' = unmarked \cup {"write"}

elf_update ==
    /\ e_ehdr
    /\ \/ \E l \in {Laid(0)} :
             \/ UpdateLaysOut(l) \/ UpdateSkips(l)
             \/ UpdateRefuses(l) /\ UNCHANGED calls
             \/ /\ MustWrite(l)
                /\ \E w \in {Writes(l.ehdr, l.scns)} :
                      UpdateWrites(l, w) \/ UpdateFails(l, w) \/ UpdateLosesWrite(l, w)
       \/ Fails /\ \E bad \in DOMAIN scns : UpdateRefuses(Laid(bad))

Next ==
    \/ Cook \/ elf_newehdr \/ elf_newscn \/ elf_newphdr \/ elf_newdata
    \/ SetShdr \/ SetEhdr \/ elf_flagelf
    \/ elfx_remscn \/ elf_delscn \/ elfx_movscn
    \/ elf_update

Spec == Init /\ [][Next]_vars
-----------------------------------------------------------------------------
(***************************************************************************)
(* Properties.                                                             *)
(***************************************************************************)

(***************************************************************************)
(* TypeOK: the fields keep their types, and program headers past the       *)
(* escape value have a first section to keep their number in, which        *)
(* update.c:202 uses without a test.                                       *)
(***************************************************************************)
TypeOK ==
    /\ file \in Seq(Cell)
    /\ {e_readable, e_ehdr, e_ehdr_flags, e_phdr_flags} \subseteq BOOLEAN
    /\ e_class \in Classes /\ ehdr \in Ehdr /\ e_phnum \in Nat
    /\ scns \in Seq(Scn)
    /\ e_phnum >= PnXnum => scns # << >>
    /\ e_elf_flags \subseteq Flags
    /\ stage \in Stage
    /\ unmarked \subseteq Unmarked[e_class] \cup {"write"}
    /\ calls \in 0 .. MaxCalls

PhdrArea == ehdr.e_phoff .. ehdr.e_phoff + e_phnum - 1
ShdrArea == ehdr.e_shoff .. ehdr.e_shoff + Len(scns) - 1
ScnArea(i) == IF i > 1 /\ scns[i].s_shdr.sh_type = "bits"
              THEN scns[i].s_shdr.sh_offset .. FileEnd(scns[i].s_shdr) - 1 ELSE {}

TablesApart ==
    /\ scns = << >> => ehdr.e_shoff = 0
    /\ PhdrArea \cap ShdrArea = {}
    /\ 0 \notin PhdrArea \cup ShdrArea
    /\ \A i \in DOMAIN scns : ScnArea(i) \cap ({0} \cup PhdrArea \cup ShdrArea) = {}

ScnsApart ==
    \A i, j \in DOMAIN scns : i # j => ScnArea(i) \cap ScnArea(j) = {}

\* The contents a section should have in the file.
Contents(s) ==
    LET d == DataOf(s)
    IN  Image([k \in DOMAIN d |-> [at |-> d[k].d_off, cells |-> Cells(d[k])]],
              s.s_shdr.sh_size)

IsFileOf ==
    /\ IsAt(file, "ehdr", 0)
    /\ At(file, 0).e_shoff # 0 => IsAt(file, "shdr", At(file, 0).e_shoff)
    /\ CookedShnum(file) = Len(scns)
    /\ CookedPhnum(file) = e_phnum
    /\ \A j \in 1 .. e_phnum : IsAt(file, "phdr", At(file, 0).e_phoff + j - 1)
    /\ \A i \in 2 .. Len(scns) :
          /\ IsAt(file, "shdr", At(file, 0).e_shoff + i - 1)
          /\ At(file, At(file, 0).e_shoff + i - 1) = scns[i].s_shdr
          /\ scns[i].s_shdr.sh_type = "bits" =>
              /\ FileEnd(scns[i].s_shdr) <= Len(file)
              /\ SubSeq(file, scns[i].s_shdr.sh_offset + 1, FileEnd(scns[i].s_shdr))
                    = Contents(scns[i])

(***************************************************************************)
(* SavedReadsBack: when elf_update(ELF_C_WRITE) has returned without an    *)
(* error, written or not, the file read anew has the sections, their       *)
(* contents and the two numbers, extended ones too, that the application   *)
(* has in memory (update.c:1036-1040 with cook.c).  Not so after calls     *)
(* that mark nothing, and when an application that places things itself    *)
(* put a table, or sections it asked not to be checked, over each other.   *)
(***************************************************************************)
SavedReadsBack ==
    /\ stage = "saved" /\ unmarked = {}
    /\ Layout \/ (TablesApart /\ ("LAYOUT_OVERLAP" \in e_elf_flags => ScnsApart))
    => IsFileOf

(***************************************************************************)
(* LayoutSettles: a layout that succeeded is one a further elf_update does *)
(* not change, and does not refuse: the offsets the application reads      *)
(* after elf_update(ELF_C_NULL) are those of the file it then writes.      *)
(* Except when the application places SHN_LORESERVE sections or more: the  *)
(* first layout puts their number into the size of the first section, the  *)
(* next takes it for the room that section has (see RefusalsAreOverlaps).  *)
(***************************************************************************)
LayoutSettles ==
    /\ stage \in {"settled", "saved"}
    /\ Layout \/ "LAYOUT_OVERLAP" \in e_elf_flags \/ Len(scns) < LoReserve
    =>
        \E l \in {Laid(0)} :
            /\ l.says = "ok" /\ l.ehdr = ehdr
            /\ Len(l.scns) = Len(scns)
            /\ \A i \in DOMAIN scns : /\ l.scns[i].s_shdr = scns[i].s_shdr
                                      /\ l.scns[i].s_data = scns[i].s_data

(***************************************************************************)
(* SectionsApart: after a successful layout no two sections share a cell   *)
(* of the file, unless ELF_F_LAYOUT_OVERLAP allows it, and the library     *)
(* itself puts none over a table (update.c:247-290).                       *)
(***************************************************************************)
SectionsApart ==
    stage \in {"settled", "saved"} =>
        /\ Layout \/ "LAYOUT_OVERLAP" \notin e_elf_flags => ScnsApart
        /\ Layout => TablesApart

\* The alignments that data can have, and that of two the greater is a
\* multiple of the smaller: powers of two, say.  The code does not ask.
Alignments ==
    (UNION {{d.d_align : d \in Blocks[c]} : c \in Classes})
    \cup (UNION {{CookedScn(f, i).s_shdr.sh_addralign : i \in 1 .. CookedShnum(f)} : f \in Stored})

AlignmentsNest ==
    \A a, b \in Alignments : 0 < a /\ a <= b => b % a = 0

(***************************************************************************)
(* DataAligned: the library places every Elf_Data in the file at an offset *)
(* that is a multiple of its d_align, although it aligns the data within   *)
(* the section and the section within the file (update.c:96, 247), and the *)
(* tables at multiples of the address size.                                *)
(***************************************************************************)
DataAligned ==
    stage \in {"settled", "saved"} /\ Layout =>
        /\ ehdr.e_phoff % AddrAlign = 0 /\ ehdr.e_shoff % AddrAlign = 0
        /\ \A i \in 2 .. Len(scns) : scns[i].s_shdr.sh_type # "null" =>
              \A k \in DOMAIN scns[i].s_data :
                  LET d == scns[i].s_data[k]
                  IN  d.d_align > 0 => (scns[i].s_shdr.sh_offset + d.d_off) % d.d_align = 0

(***************************************************************************)
(* WritesInside: what elf_update puts into the mapping of the output file  *)
(* lies inside the length the layout returned for it (update.c:976, 682).  *)
(***************************************************************************)
WritesInside ==
    stage \in {"settled", "saved"} =>
        \A l \in {Laid(0)} : l.says = "ok" =>
            \A w \in Range(Writes(ehdr, scns)) : w.at + Len(w.cells) <= l.end

(***************************************************************************)
(* DeletedIsGone: README:318 says that elf_delscn "deletes a section from  *)
(* an ELF file": after elf_update(ELF_C_WRITE) the file is without it.     *)
(***************************************************************************)
DeletedIsGone ==
    stage = "saved" /\ unmarked = {"elf_delscn"} /\ IsAt(file, "ehdr", 0)
    => CookedShnum(file) = Len(scns)

(***************************************************************************)
(* RefusalsAreOverlaps: errors.h:83 says "overlapping sections" of the     *)
(* error the layout refuses the application's places with: some two of its *)
(* sections do overlap.                                                    *)
(***************************************************************************)
RefusalsAreOverlaps ==
    stage = "overlap" =>
        \E i, j \in 2 .. Len(scns) : i # j /\ Collide(scns[i].s_shdr, scns[j].s_shdr)
=============================================================================
