-------------------------- MODULE ToolchainUpdate --------------------------
(***************************************************************************)
(* elf_update of the second library, elftoolchain: headers and sections    *)
(* that are read when they are first asked for (libelf_ehdr.c, elf_scn.c,  *)
(* elf_data.c, libelf_phdr.c), edited, laid out as a list of extents, and  *)
(* written at once from a buffer (elf_update.c).                           *)
(*                                                                         *)
(* The file is a sequence of cells, file[o + 1] the one at offset o: the   *)
(* ELF header, each table entry and each object of section data takes one. *)
(* In memory an object of type "move" is larger than in the file.  Byte    *)
(* order, versions and entry sizes are the right ones; the file is a       *)
(* regular one, and the string table index is left out.                    *)
(***************************************************************************)
EXTENDS Extents, Integers, SequencesExt, FiniteSetsExt

CONSTANTS TableAlign,  \* alignment of the header tables
          LoReserve,   \* SHN_LORESERVE
          PnXnum,      \* PN_XNUM
          Stored,      \* ELF files that may be there at first
          Blocks,      \* Elf_Data an application adds to a section
          Places,      \* offsets it chooses under ELF_F_LAYOUT
          Sizes,       \* section sizes it chooses then
          PhCounts,    \* arguments of gelf_newphdr
          MaxScn,      \* bound: sections
          MaxData,     \* bound: Elf_Data in a section
          MaxCalls     \* bound: calls that edit

ASSUME ToolchainAssumption ==
    /\ {TableAlign, LoReserve, PnXnum} \subseteq Nat \ {0}
    /\ {MaxScn, MaxData, MaxCalls} \subseteq Nat
    /\ Places \subseteq Nat /\ Sizes \subseteq Nat /\ PhCounts \subseteq Nat

Ehdr == [e_phoff : Nat, e_phnum : Nat, e_shoff : Nat, e_shnum : Nat]
Shdr == [sh_type : {"null", "bits", "nobits"}, sh_offset : Nat, sh_size : Nat,
         sh_addralign : Nat, sh_info : Nat]

(* A cell has a kind; a header's fields are numbers.                       *)
ASSUME FilesAssumption ==
    \A f \in Stored :
        /\ f \in Seq(Range(f))
        /\ f # << >> => f[1][1] = "ehdr"
        /\ \A c \in Range(f) : /\ c[1] = "ehdr" => c[2] \in Ehdr
                               /\ c[1] = "shdr" => c[2] \in Shdr

ASSUME BlocksAssumption ==
    \A b \in Blocks : /\ b \in [d_off : Nat, d_align : Nat, d_type : {"byte", "move"},
                                d_size : Nat, d_buf : Seq(Range(b.d_buf))]
                      /\ \A c \in Range(b.d_buf) : c[1] = "data"

Blank  == [e_phoff |-> 0, e_phnum |-> 0, e_shoff |-> 0, e_shnum |-> 0]
NoShdr == [sh_type |-> "null", sh_offset |-> 0, sh_size |-> 0, sh_addralign |-> 0, sh_info |-> 0]
Fill   == <<"data", 0>>
Junk   == <<"junk", 0>>     \* what malloc returned

VARIABLES
    file,   \* the contents of the file
    e,      \* the descriptor
    said,   \* what elf_update returned, if no call came after it, and what
            \* the file it wrote should be read as
    flaws,  \* of the last write
    calls   \* bound

vars == << file, e, said, flaws, calls >>
-----------------------------------------------------------------------------
(***************************************************************************)
(* The descriptor.  has tells what is there: "class", "ehdr", "phdr",      *)
(* "shdrs" (LIBELF_F_SHDRS_LOADED), "raw" (e_rawfile), "LAYOUT".           *)
(***************************************************************************)
Fresh(cmd, mapped, f) ==
    [e_cmd |-> cmd, mapped |-> mapped, raw |-> f, ehdr |-> Blank, e_nscn |-> 0, e_nphdr |-> 0,
     phdr |-> << >>, scns |-> << >>,
     has |-> IF cmd = "WRITE" THEN {} ELSE {"class", "raw"}]

NewScn(n, h) == [s_ndx |-> n, shdr |-> h, data |-> << >>, s_rawoff |-> 0, s_offset |-> 0, s_size |-> 0,
                 dirty |-> FALSE, rawdata |-> FALSE]

(* f itself: TLC keeps what \o returns as a list of values.                *)
Listed(f) == << >> \o f

Gains(d, what) == [d EXCEPT !.has = @ \cup {what}]

Put(d, i, s) == [d EXCEPT !.scns[i] = s]

Does(d, what) == [d |-> d, says |-> what]

Roundup(v, a) == ((v + a - 1) \div a) * a

(* Sizes of the types of data: an object takes one cell of the file.       *)
Msize(t) == IF t = "move" THEN 2 ELSE 1

CellAt(f, off) == f[off + 1]
ShdrAt(f, off) == IF CellAt(f, off)[1] = "shdr" THEN CellAt(f, off)[2] ELSE NoShdr
-----------------------------------------------------------------------------
(***************************************************************************)
(* Reading what the file has, each on first use.                           *)
(***************************************************************************)
LoadExtended(d, h) ==
    IF Len(d.raw) < h.e_shoff + 1 THEN Does(d, "HEADER")
    ELSE LET zero == ShdrAt(d.raw, h.e_shoff)
             with == [d EXCEPT !.scns = << NewScn(0, zero) >>]
         IN  IF zero.sh_type # "null" THEN Does(with, "SECTION")
             ELSE Does([with EXCEPT !.e_nscn = zero.sh_size,
                                    !.e_nphdr = IF h.e_phnum # PnXnum THEN h.e_phnum
                                                ELSE zero.sh_info], "ok")

(* _libelf_ehdr: a header that is refused stays, and is not looked at      *)
(* again.                                                                  *)
ReadEhdr(d) ==
    LET h    == CellAt(d.raw, 0)[2]
        with == [Gains(d, "ehdr") EXCEPT !.ehdr = h]
    IN  IF \/ h.e_shnum >= LoReserve
           \/ h.e_shoff = 0 /\ (h.e_shnum # 0 \/ h.e_phnum = PnXnum)
        THEN Does(with, "HEADER")
        ELSE IF (h.e_shnum = 0 /\ h.e_shoff # 0) \/ h.e_phnum = PnXnum
        THEN LoadExtended(with, h)
        ELSE Does([with EXCEPT !.e_nphdr = h.e_phnum, !.e_nscn = h.e_shnum], "ok")

WithEhdr(d) ==
    IF "ehdr" \in d.has THEN Does(d, "ok")
    ELSE IF d.e_cmd = "WRITE" THEN Does([Gains(d, "ehdr") EXCEPT !.ehdr = Blank], "ok")
    ELSE IF d.raw = << >> THEN Does(d, "HEADER")
    ELSE ReadEhdr(d)

(* _libelf_load_section_headers: behind section 0, if it is there already. *)
FromZero(d) == 0 \* mutant
FirstToLoad(d) == Min({1, Len(d.scns)})

LoadShdrs(d) ==
    LET shoff == d.ehdr.e_shoff
        first == FirstToLoad(d)
        Loaded(i) == LET h == ShdrAt(d.raw, shoff + i)
                     IN  [NewScn(i, h) EXCEPT !.s_rawoff = h.sh_offset, !.s_offset = h.sh_offset,
                                           !.s_size = h.sh_size]
    IN  IF shoff + d.e_nscn > Len(d.raw) THEN Does(d, "HEADER")
        ELSE Does([Gains(d, "shdrs") EXCEPT
                     !.scns = @ \o [k \in 1 .. Max({0, d.e_nscn - first}) |->
                                       Loaded(first + k - 1)]], "ok")

WithShdrs(d) ==
    LET x == WithEhdr(d)
    IN  IF x.says # "ok" \/ d.e_cmd = "WRITE" \/ "shdrs" \in d.has THEN x ELSE LoadShdrs(x.d)

(* _libelf_getphdr.                                                        *)
WithPhdr(d) ==
    LET x   == WithEhdr(d)
        off == x.d.ehdr.e_phoff
    IN  IF "phdr" \in d.has \/ x.says # "ok" THEN x
        ELSE IF Len(x.d.raw) < off + x.d.e_nphdr THEN Does(x.d, "HEADER")
        ELSE Does([Gains(x.d, "phdr") EXCEPT
                     !.phdr = Listed([j \in 1 .. x.d.e_nphdr |->
                                        CellAt(x.d.raw, off + j - 1)])], "ok")

(* elf_getdata, where nothing was read yet: at sh_offset of the header,    *)
(* which a layout may have moved since.                                    *)
InRaw(d, h) == h.sh_offset <= Len(d.raw) /\ h.sh_size <= Len(d.raw) - h.sh_offset

ReadData(d, i) ==
    LET s == d.scns[i]
        h == s.shdr
        cells == IF h.sh_type = "nobits" THEN << >>
                 ELSE SubSeq(d.raw, h.sh_offset + 1, h.sh_offset + h.sh_size)
        all  == [d_off |-> 0, d_align |-> h.sh_addralign, d_type |-> "byte",
                 d_size |-> h.sh_size, d_buf |-> cells]
    IN  IF "raw" \notin d.has THEN Does(d, "ARGUMENT")
        ELSE IF h.sh_type = "null" \/ (h.sh_type # "nobits" /\ ~InRaw(d, h)) THEN Does(d, "SECTION")
        ELSE Does(Put(d, i, [s EXCEPT !.data = << all >>]), "ok")

WithData(d, i) == IF d.scns[i].data = << >> THEN ReadData(d, i) ELSE Does(d, "ok")
-----------------------------------------------------------------------------
(***************************************************************************)
(* _libelf_compute_section_extents.                                        *)
(***************************************************************************)
PowerOf2(a) == a # 0 /\ \E b \in 0 .. a : a = 2 ^ b

Layout(d) == "LAYOUT" \in d.has           \* the application chooses the places

(* What is wrong with one buffer.                                          *)
DataSays(d, x) ==
    IF ~PowerOf2(x.d_align) \/ x.d_size % Msize(x.d_type) # 0 THEN "DATA"
    ELSE IF Layout(d) /\ x.d_off % x.d_align # 0 THEN "LAYOUT" ELSE "ok"

FirstWrong(d, data) ==
    Min({Len(data) + 1} \cup {k \in DOMAIN data : DataSays(d, data[k]) # "ok"})

(* The data of a section one behind the other, and the size of it all.     *)
Placed(data) ==
    LET at[k \in 0 .. Len(data)] ==
            IF k = 0 THEN [size |-> 0, data |-> << >>]
            ELSE LET off == Roundup(at[k - 1].size, data[k].d_align)
                 IN  [size |-> off + Len(data[k].d_buf),
                      data |-> Append(at[k - 1].data, [data[k] EXCEPT !.d_off = off])]
    IN  at[Len(data)]

ScnAlign(s) == Max({0} \cup {s.data[k].d_align : k \in DOMAIN s.data})
OwnAlign(h) == IF h.sh_addralign = 0 THEN 1 ELSE h.sh_addralign

(* The end of the data of a section the application placed, in memory.     *)
MemoryEnd(s) == Max({0} \cup {s.data[k].d_off + s.data[k].d_size : k \in DOMAIN s.data})

Described(s) == [s EXCEPT !.s_size = s.shdr.sh_size, !.s_offset = s.shdr.sh_offset]

AlignedBefore(s, rc, align, size) == \* mutant
    Described([s EXCEPT !.shdr.sh_addralign = align, !.shdr.sh_size = size,
                        !.shdr.sh_offset = Roundup(rc, OwnAlign(s.shdr))])

At(s, rc, align, size) ==
    Described([s EXCEPT !.shdr.sh_addralign = align, !.shdr.sh_size = size,
                        !.shdr.sh_offset = Roundup(rc, align)])

ByProgram(d, i) ==
    LET s == d.scns[i]
        h == s.shdr
    IN  IF \/ ScnAlign(s) > OwnAlign(h)
           \/ h.sh_offset % OwnAlign(h) # 0
           \/ h.sh_size < MemoryEnd(s)
        THEN Does(d, "LAYOUT")
        ELSE Does(Put(d, i, Described(s)), "ok")

ByLibrary(d, i, rc) ==
    LET p == Placed(d.scns[i].data)
        s == [d.scns[i] EXCEPT !.data = p.data]
    IN  Does(Put(d, i, At(s, rc, Max({OwnAlign(s.shdr), ScnAlign(s)}), p.size)), "ok")

(* A buffer that is refused: those before it have their places already.    *)
AtWrong(d, i) ==
    LET data == d.scns[i].data
        k    == FirstWrong(d, data)
    IN  Does(IF Layout(d) THEN d
             ELSE Put(d, i, [d.scns[i] EXCEPT !.data = Placed(SubSeq(data, 1, k - 1)).data
                                                           \o SubSeq(data, k, Len(data))]),
             DataSays(d, data[k]))

(* A section not read and not marked keeps its size.                       *)
Untouched(d, i, rc) ==
    LET s == d.scns[i]
    IN  Put(d, i, IF Layout(d) THEN Described(s)
                  ELSE At(s, rc, OwnAlign(s.shdr), s.shdr.sh_size))

Placing(d, i, rc) ==
    IF FirstWrong(d, d.scns[i].data) <= Len(d.scns[i].data) THEN AtWrong(d, i)
    ELSE IF Layout(d) THEN ByProgram(d, i) ELSE ByLibrary(d, i, rc)

Extents(d, i, rc) ==
    IF d.scns[i].data = << >> /\ ~d.scns[i].dirty THEN Does(Untouched(d, i, rc), "ok")
    ELSE LET x == IF d.e_cmd = "WRITE" THEN Does(d, "ok") ELSE WithData(d, i)
         IN  IF x.says # "ok" THEN x ELSE Placing(x.d, i, rc)
-----------------------------------------------------------------------------
(***************************************************************************)
(* _libelf_resync_elf: steps that hand on the descriptor, the extents, and *)
(* the end of what is placed.                                              *)
(***************************************************************************)
Stop(at, says) == [at EXCEPT !.says = says]

Insert(at, type, start, size, i) ==
    LET x == [ex_start |-> start, ex_size |-> size, ex_type |-> type, ex_scn |-> i]
    IN  IF Unused(at.ext, x) THEN [at EXCEPT !.ext = Inserted(@, x)] ELSE Stop(at, "LAYOUT")

PlacePhdrs(at) ==
    LET n    == at.d.e_nphdr
        off  == IF Layout(at.d) THEN at.d.ehdr.e_phoff ELSE Roundup(at.rc, TableAlign)
        with == [at EXCEPT !.d = WithPhdr(@).d, !.rc = off + n, !.phoff = off]
    IN  IF n = 0 THEN at
        ELSE IF Layout(at.d) /\ (at.rc > off \/ off % TableAlign # 0) THEN Stop(at, "LAYOUT")
        ELSE Insert(with, "phdr", off, n, 0)

LargestEnd(at, s) == Max({at.rc, s.s_offset + s.s_size})

PlaceScn(at, i) ==
    LET x == Extents(at.d, i, at.rc)
        s == x.d.scns[i]
        with == [at EXCEPT !.d = x.d]
    IN  IF at.d.scns[i].shdr.sh_type \in {"null", "nobits"} THEN at
        ELSE IF x.says # "ok" THEN Stop(with, x.says)
        ELSE IF s.s_size = 0 THEN with
        ELSE Insert([with EXCEPT !.rc = LargestEnd(at, s)], "section", s.s_offset, s.s_size, i)

PlaceScns(at) ==
    LET x == WithShdrs(at.d)
        after[i \in 0 .. Len(x.d.scns)] ==
            IF i = 0 THEN Stop([at EXCEPT !.d = x.d], x.says)
            ELSE LET before == after[i - 1]
                 IN  IF before.says = "ok" THEN PlaceScn(before, i) ELSE before
    IN  after[Len(x.d.scns)]

PlaceShdrs(at) ==
    LET n   == at.d.e_nscn
        off == IF Layout(at.d) THEN at.d.ehdr.e_shoff ELSE Roundup(at.rc, TableAlign)
    IN  IF n = 0 THEN at
        ELSE IF Layout(at.d) /\ off % TableAlign # 0 THEN Stop(at, "LAYOUT")
        ELSE Insert([at EXCEPT !.rc = Max({@, off + n}), !.shoff = off], "shdr", off, n, 0)

(* _libelf_getscn0, _libelf_setphnum and _libelf_setshnum.                 *)
WithScn0(d) == IF d.scns = << >> THEN [d EXCEPT !.scns = << NewScn(0, NoShdr) >>] ELSE d

Mark(d, h) == Put(d, 1, [d.scns[1] EXCEPT !.shdr = h, !.dirty = TRUE])

SetPhnum(d) ==
    LET with == WithScn0(d)
    IN  IF d.e_nphdr < PnXnum THEN [d EXCEPT !.ehdr.e_phnum = d.e_nphdr]
        ELSE [Mark(with, [with.scns[1].shdr EXCEPT !.sh_info = d.e_nphdr])
                EXCEPT !.ehdr.e_phnum = PnXnum]

KeepsShnum(d) == [d EXCEPT !.ehdr.e_shnum = d.e_nscn % LoReserve] \* mutant
SetShnum(d) ==
    LET with == WithScn0(d)
    IN  IF d.e_nscn < LoReserve THEN [d EXCEPT !.ehdr.e_shnum = d.e_nscn]
        ELSE [Mark(with, [with.scns[1].shdr EXCEPT !.sh_size = d.e_nscn])
                EXCEPT !.ehdr.e_shnum = 0]

SetTables(at) ==
    IF Layout(at.d) THEN at.d
    ELSE [at.d EXCEPT !.ehdr.e_phoff = at.phoff, !.ehdr.e_shoff = at.shoff]

Then(at, Step(_)) == IF at.says = "ok" THEN Step(at) ELSE at

Resync(d) ==
    LET x == WithEhdr(d)
        start == [d |-> x.d, says |-> x.says, ext |-> << >>, rc |-> 1, phoff |-> 0, shoff |-> 0]
        headed == Then(start, LAMBDA at : Insert(at, "ehdr", 0, 1, 0))
        placed == Then(Then(Then(headed, PlacePhdrs), PlaceScns), PlaceShdrs)
    IN  Then(placed, LAMBDA at : LET d1 == SetShnum(SetPhnum(at.d))
                                 IN  [at EXCEPT !.d = SetTables([at EXCEPT !.d = d1])])
-----------------------------------------------------------------------------
(***************************************************************************)
(* _libelf_write_elf: the new file in memory.  A write is [at, cells]; of  *)
(* those that hit a cell the last is seen.                                 *)
(***************************************************************************)
Image(w, len, else) ==
    Listed([k \in 1 .. len |->
        LET hits == {j \in DOMAIN w : k - w[j].at \in DOMAIN w[j].cells}
        IN  IF hits = {} THEN else ELSE w[Max(hits)].cells[k - w[Max(hits)].at]])

Write(off, cells) == << [at |-> off, cells |-> cells] >>
Gap(from, to) == IF from < to THEN Write(from, [k \in 1 .. to - from |-> Fill]) ELSE << >>

(* _libelf_write_scn: the data in their order, each gap in front of them   *)
(* filled.  Its end is the end of the last.                                *)
WriteData(s) ==
    LET after[k \in 0 .. Len(s.data)] ==
            IF k = 0 THEN [w |-> << >>, end |-> s.s_offset]
            ELSE LET off == s.s_offset + s.data[k].d_off
                 IN  [w   |-> after[k - 1].w \o Gap(after[k - 1].end, off)
                                             \o Write(off, s.data[k].d_buf),
                      end |-> off + Len(s.data[k].d_buf)]
    IN  after[Len(s.data)]

(* A section not read is copied from where it was.  elf_rawdata, asked     *)
(* first, looks at where it will be: a header may tell of more than the    *)
(* file has.                                                               *)
InFile(d, s) ==
    Listed([k \in 1 .. s.shdr.sh_size |->
        IF s.s_rawoff + k <= Len(d.raw) THEN d.raw[s.s_rawoff + k] ELSE Junk])

WriteRaw(d, s) == [w   |-> Write(s.s_offset, InFile(d, s)),
                   end |-> s.s_offset + s.shdr.sh_size]

RawRefused(d, s) ==
    IF s.data # << >> THEN "ok"
    ELSE IF "raw" \notin d.has THEN "ARGUMENT"
    ELSE IF ~s.rawdata /\ ~InRaw(d, s.shdr) THEN "SECTION" ELSE "ok"

WriteScn(d, i) == IF d.scns[i].data = << >> THEN WriteRaw(d, d.scns[i]) ELSE WriteData(d.scns[i])

WriteExtent(d, x) ==
    CASE x.ex_type = "ehdr"    -> [w |-> Write(0, << <<"ehdr", d.ehdr>> >>), end |-> 1]
      [] x.ex_type = "phdr"    -> [w |-> Write(x.ex_start, d.phdr), end |-> x.ex_start + d.e_nphdr]
      [] x.ex_type = "section" -> WriteScn(d, x.ex_scn)
      [] x.ex_type = "shdr"    ->
            [w   |-> [k \in DOMAIN d.scns |-> [at    |-> x.ex_start + d.scns[k].s_ndx,
                                             cells |-> << <<"shdr", d.scns[k].shdr>> >>]],
             end |-> x.ex_start + d.e_nscn]

(* What stops it at the k-th extent, the file not touched yet: a header    *)
(* table or contents that are not there, an assertion that data have a     *)
(* buffer or that the extent was filled.                                   *)
ExtentSays(at, k) ==
    LET d == at.d
        x == at.ext[k]
        s == d.scns[x.ex_scn]
    IN  IF x.ex_type = "phdr" /\ "phdr" \notin d.has THEN "HEADER"
        ELSE IF x.ex_type = "section" /\ RawRefused(d, s) # "ok" THEN RawRefused(d, s)
        ELSE IF \/ x.ex_type = "section" /\ \E j \in DOMAIN s.data : s.data[j].d_buf = << >>
                \/ WriteExtent(d, x).end # EndOf(x)
        THEN "assert" ELSE "ok"

(* The number of extents that are written, and the last word.              *)
WrittenExtents(at) ==
    Min({Len(at.ext)} \cup {k - 1 : k \in {j \in DOMAIN at.ext : ExtentSays(at, j) # "ok"}})

Stopped(at) == LET n == WrittenExtents(at)
               IN  IF n = Len(at.ext) THEN "ok" ELSE ExtentSays(at, n + 1)

Filled(at, k) ==
    Gap(IF k = 1 THEN 0 ELSE EndOf(at.ext[k - 1]), at.ext[k].ex_start)
        \o WriteExtent(at.d, at.ext[k]).w

NewFile(at) ==
    Image(FlattenSeq([k \in DOMAIN at.ext |-> Filled(at, k)]), at.rc, Junk)
-----------------------------------------------------------------------------
(***************************************************************************)
(* What the application has in memory, and what a file is read as.         *)
(***************************************************************************)
Contents(d, s) ==
    IF s.shdr.sh_type # "bits" \/ s.shdr.sh_size = 0 THEN << >>
    ELSE IF s.data = << >> THEN InFile(d, s)
    ELSE Image([k \in DOMAIN s.data |-> [at |-> s.data[k].d_off, cells |-> s.data[k].d_buf]],
               s.shdr.sh_size, Fill)

Seen(d) == [phdr |-> IF d.e_nphdr = 0 THEN << >> ELSE d.phdr,
            scns |-> Listed([i \in 1 .. Min({Len(d.scns), d.e_nscn}) |->
                                << d.scns[i].shdr, Contents(d, d.scns[i]) >>])]

Opened(f) ==
    LET x == WithShdrs(Fresh("READ", FALSE, f))
    IN  IF x.says # "ok" \/ x.d.e_nphdr = 0 THEN x ELSE WithPhdr(x.d)

(* Section headers are expected again after they were thrown away.         *)
Forgotten(d) == Len(d.scns) < d.e_nscn

(* Program headers past PN_XNUM, and the number of sections not past       *)
(* SHN_LORESERVE, which is then looked for in section 0.                   *)
HalfExtended(d) == d.e_nphdr >= PnXnum /\ d.e_nscn < LoReserve

(* The gap in front of a buffer reaches over one written before, and       *)
(* erases it: with three buffers or more, in no order.                     *)
Area(off, n) == off .. off + n - 1

FilledOver(s) ==
    /\ s.shdr.sh_type = "bits"
    /\ \E j, k \in DOMAIN s.data :
          /\ j < k
          /\ Area(s.data[j].d_off, Len(s.data[j].d_buf))
                \cap (s.data[k - 1].d_off + Len(s.data[k - 1].d_buf) .. s.data[k].d_off - 1) # {}

(* Section 0 with contents: no reader takes the numbers from there.        *)
Misread(d) == d.scns # << >> /\ d.scns[1].shdr.sh_type # "null"

(* No section, and the place of a table: the reader looks for section 0.   *)
Nowhere(d) == d.e_nscn = 0 /\ d.ehdr.e_shoff # 0

Flaws(d) ==
    (IF Forgotten(d) THEN {"forgotten"} ELSE {})
    \cup (IF HalfExtended(d) THEN {"half extended"} ELSE {})
    \cup (IF d.e_nscn >= LoReserve /\ Misread(d) THEN {"misread"} ELSE {})
    \cup (IF Nowhere(d) THEN {"nowhere"} ELSE {})
    \cup (IF \E i \in DOMAIN d.scns : FilledOver(d.scns[i]) THEN {"filled over"} ELSE {})

Empty  == [phdr |-> << >>, scns |-> << >>]
Silent == [cmd |-> "none", says |-> "ok", size |-> 0, seen |-> Empty]
-----------------------------------------------------------------------------
(***************************************************************************)
(* The calls.                                                              *)
(***************************************************************************)
Init ==
    /\ \E cmd \in {"READ", "RDWR", "WRITE"}, mapped \in BOOLEAN :
          /\ file \in IF cmd = "WRITE" THEN {<< >>} ELSE Stored
          /\ e = Fresh(cmd, mapped, file)
          /\ cmd = "RDWR" \/ ~mapped
    /\ said = Silent /\ flaws = {} /\ calls = 0

(* The program stopped, the image is unmapped, or the file has cells that  *)
(* were never written: nothing is modelled behind that.                    *)
Usable ==
    /\ said.says # "assert"
    /\ e.e_cmd = "RDWR" => "raw" \in e.has
    /\ Junk \notin Range(file)

Calls == Usable /\ calls < MaxCalls /\ calls' = calls + 1 /\ said' = Silent /\ UNCHANGED flaws

elf_newehdr ==
    /\ Usable /\ e.e_cmd = "WRITE" /\ "ehdr" \notin e.has
    /\ e' = Gains(Gains(e, "class"), "ehdr")
    /\ UNCHANGED << file, said, flaws, calls >>

(* elf_getscn, and every other call that begins as it does.                *)
elf_getscn ==
    /\ Usable /\ "class" \in e.has /\ WithShdrs(e).d # e
    /\ e' = WithShdrs(e).d /\ said' = Silent
    /\ UNCHANGED << file, flaws, calls >>

(* elf_newscn; the numbers it takes for granted are asserted.              *)
elf_newscn ==
    /\ Usable /\ calls < MaxCalls /\ calls' = calls + 1 /\ "class" \in e.has
    /\ LET x == WithShdrs(e)
           first == IF x.d.scns = << >> THEN << NewScn(0, NoShdr) >> ELSE x.d.scns
           n == IF x.d.scns = << >> THEN 1 ELSE x.d.e_nscn
       IN  /\ x.says = "ok" /\ Len(first) < MaxScn
           /\ IF (x.d.scns = << >>) # (x.d.e_nscn = 0)
              THEN e' = x.d /\ said' = [Silent EXCEPT !.says = "assert"]
              ELSE /\ e' = [x.d EXCEPT !.e_nscn = n + 1,
                               !.scns = Append(first, [NewScn(n, NoShdr) EXCEPT !.dirty = TRUE])]
                   /\ said' = Silent
    /\ UNCHANGED << file, flaws >>

gelf_newphdr ==
    /\ Calls /\ "class" \in e.has
    /\ LET x == WithEhdr(e)
       IN  /\ x.says = "ok"
           /\ \E count \in PhCounts :
                 e' = [x.d EXCEPT !.phdr = Listed([j \in 1 .. count |-> <<"phdr", 0>>]),
                                  !.e_nphdr = count,
                                  !.has = IF count = 0 THEN @ \ {"phdr"} ELSE @ \cup {"phdr"}]
    /\ UNCHANGED file

Numbered == 2 .. Len(e.scns)

elf_getdata ==
    /\ Calls
    /\ \E i \in Numbered : /\ e.scns[i].data = << >>
                           /\ WithData(e, i).says = "ok"
                           /\ e' = WithData(e, i).d
    /\ UNCHANGED file

elf_newdata ==
    /\ Calls
    /\ \E i \in Numbered, b \in Blocks :
          LET x == IF "raw" \in e.has /\ e.scns[i].s_size > 0 THEN WithData(e, i) ELSE Does(e, "ok")
          IN  /\ x.says = "ok" /\ Len(x.d.scns[i].data) < MaxData
              /\ e' = Put(x.d, i, [x.d.scns[i] EXCEPT !.data = Append(@, b), !.dirty = TRUE])
    /\ UNCHANGED file

(* elf_flagscn (ELF_C_SET, ELF_F_DIRTY).                                   *)
elf_flagscn ==
    /\ Calls
    /\ \E i \in Numbered : ~e.scns[i].dirty /\ e' = Put(e, i, [e.scns[i] EXCEPT !.dirty = TRUE])
    /\ UNCHANGED file

(* gelf_update_shdr: the type of a new section, and places.                *)
SetShdr(i, h) == e' = Put(e, i, [e.scns[i] EXCEPT !.shdr = h, !.dirty = TRUE])

SetType ==
    /\ Usable /\ e.e_cmd # "READ"
    /\ \E i \in Numbered, t \in {"bits", "nobits"} :
          /\ e.scns[i].shdr.sh_type = "null"
          /\ SetShdr(i, [e.scns[i].shdr EXCEPT !.sh_type = t])
    /\ said' = Silent /\ UNCHANGED << file, flaws, calls >>

gelf_update_shdr ==
    /\ Calls /\ e.e_cmd # "READ" /\ Layout(e)
    /\ \E i \in Numbered, off \in Places, size \in Sizes :
          /\ e.scns[i].data # << >>
          /\ SetShdr(i, [e.scns[i].shdr EXCEPT !.sh_offset = off, !.sh_size = size])
    /\ UNCHANGED file

(* gelf_update_ehdr; no place for a table that is not there.               *)
gelf_update_ehdr ==
    /\ Calls /\ "ehdr" \in e.has /\ Layout(e) /\ e.e_cmd # "READ"
    /\ \E off \in Places :
          \/ /\ e.e_nphdr > 0
             /\ e' = [e EXCEPT !.ehdr.e_phoff = off]
          \/ /\ e.e_nscn > 0
             /\ e' = [e EXCEPT !.ehdr.e_shoff = off]
    /\ UNCHANGED file

elf_flagelf ==
    /\ Calls
    /\ e' = [e EXCEPT !.has = IF Layout(e) THEN @ \ {"LAYOUT"} ELSE @ \cup {"LAYOUT"}]
    /\ UNCHANGED file

Says(cmd, says, size) == said' = [Silent EXCEPT !.cmd = cmd, !.says = says, !.size = size]

(* elf_update: at is what _libelf_resync_elf made of the descriptor.       *)
(* Program headers it could not read are read again when they are to be    *)
(* written: e_phoff tells where a layout has put them by then.             *)
PhdrsAgain(at) == IF at.d.e_nphdr = 0 THEN at ELSE [at EXCEPT !.d = WithPhdr(@).d]

(* ELF_C_NULL, and ELF_C_WRITE as far as the layout.                       *)
UpdateLaysOut(at) ==
    /\ at.says = "ok"
    /\ e' = at.d /\ Says("NULL", "ok", at.rc)
    /\ UNCHANGED << file, flaws, calls >>

UpdateRefuses(at) ==
    /\ at.says # "ok"
    /\ e' = at.d
    /\ \E cmd \in {"NULL", IF e.e_cmd = "READ" THEN "NULL" ELSE "WRITE"} : Says(cmd, at.says, 0)
    /\ UNCHANGED << file, flaws, calls >>

Writable(at) == e.e_cmd # "READ" /\ at.says = "ok" /\ Stopped(at) = "ok"

(* The rawdata elf_rawdata makes for a section stay with it.               *)
Asked(at) ==
    LET some == {at.ext[k].ex_scn : k \in 1 .. WrittenExtents(at)}
    IN  [at.d EXCEPT !.scns = Listed([i \in DOMAIN @ |->
            IF i \in some /\ @[i].data = << >> THEN [@[i] EXCEPT !.rawdata = TRUE] ELSE @[i]])]

UpdateStops(at) ==
    /\ e.e_cmd # "READ" /\ at.says = "ok" /\ Stopped(at) # "ok"
    /\ e' = Asked(at) /\ Says("WRITE", Stopped(at), 0)
    /\ UNCHANGED << file, flaws, calls >>

(* The headers and sections are thrown away, to be read again.             *)
Released(d, f) ==
    [d EXCEPT !.scns = << >>, !.phdr = << >>, !.ehdr = Blank, !.has = @ \ {"ehdr", "phdr"},
              !.raw = IF d.e_cmd = "RDWR" THEN f ELSE @]

UpdateWrites(at) ==
    /\ Writable(at)
    /\ file' = NewFile(at)
    /\ e' = Released(at.d, file')
    /\ flaws' = Flaws(at.d)
    /\ said' = [cmd |-> "WRITE", says |-> "ok", size |-> at.rc, seen |-> Seen(at.d)]
    /\ UNCHANGED calls

(* No memory for the new file.                                             *)
UpdateStarves(at) ==
    /\ e.e_cmd # "READ" /\ at.says = "ok"
    /\ calls < MaxCalls /\ calls' = calls + 1
    /\ e' = at.d /\ Says("WRITE", "RESOURCE", 0)
    /\ UNCHANGED << file, flaws >>

(* A file that cannot be truncated, a write that takes none of it or all   *)
(* but one cell, which stand for every number, a new file that cannot be   *)
(* mapped.  An image that was mapped is unmapped before the write.         *)
UpdateFails(at) ==
    /\ Writable(at)
    /\ calls < MaxCalls /\ calls' = calls + 1
    /\ \/ /\ e' = Asked(at) /\ Says("WRITE", "IO", 0)
          /\ UNCHANGED file
       \/ /\ e' = IF e.mapped THEN [Asked(at) EXCEPT !.has = @ \ {"raw"}] ELSE Asked(at)
          /\ Says("WRITE", "IO", 0)
          /\ file' \in {<< >>, SubSeq(NewFile(at), 1, at.rc - 1)}
       \/ /\ e.mapped
          /\ e' = [Asked(at) EXCEPT !.has = @ \ {"raw"}]
          /\ Says("WRITE", "IO", 0) /\ file' = NewFile(at)
    /\ UNCHANGED flaws

elf_update ==
    /\ Usable /\ "class" \in e.has
    /\ \E at \in {Resync(e)} :
          \/ UpdateLaysOut(at) \/ UpdateRefuses(at) \/ UpdateStarves(at)
          \/ \E read \in {PhdrsAgain(at)} :
                UpdateStops(read) \/ UpdateWrites(read) \/ UpdateFails(read)

Next ==
    \/ elf_newehdr \/ elf_getscn \/ elf_newscn \/ gelf_newphdr \/ elf_getdata \/ elf_newdata
    \/ elf_flagscn \/ SetType \/ gelf_update_shdr \/ gelf_update_ehdr \/ elf_flagelf
    \/ elf_update

Spec == Init /\ [][Next]_vars
-----------------------------------------------------------------------------
(***************************************************************************)
(* Properties.                                                             *)
(***************************************************************************)
(***************************************************************************)
(* TypeOK: the fields keep their types, what is not in memory has no       *)
(* contents there, and a section's place in the list is its number.        *)
(***************************************************************************)
TypeOK ==
    /\ e.e_cmd \in {"READ", "RDWR", "WRITE"} /\ e.mapped \in BOOLEAN
    /\ e.has \subseteq {"class", "ehdr", "phdr", "shdrs", "raw", "LAYOUT"}
    /\ {e.e_nscn, e.e_nphdr} \subseteq Nat
    /\ "ehdr" \notin e.has => e.ehdr = Blank /\ e.scns = << >>
    /\ "phdr" \notin e.has => e.phdr = << >>
    /\ \A i \in DOMAIN e.scns : /\ e.scns[i].shdr \in Shdr
                                 /\ ~Forgotten(e) => e.scns[i].s_ndx = i - 1
    /\ said.size \in Nat /\ calls \in 0 .. MaxCalls

(***************************************************************************)
(* LaidApart: after a layout that succeeded the header, the two tables and *)
(* the sections with contents lie inside the size elf_update returned, and *)
(* no two of them share a byte, whoever chose the places                   *)
(* (elf_update.c:353-436, 503-704).  From SHN_LORESERVE on sh_size of      *)
(* section 0 is the number of sections, and no size.                       *)
(***************************************************************************)
Areas ==
    << {0}, IF e.e_nphdr = 0 THEN {} ELSE Area(e.ehdr.e_phoff, e.e_nphdr),
       IF e.e_nscn = 0 THEN {} ELSE Area(e.ehdr.e_shoff, e.e_nscn) >>
    \o [i \in DOMAIN e.scns |->
           IF e.scns[i].shdr.sh_type # "bits" \/ (i = 1 /\ e.e_nscn >= LoReserve) THEN {}
           ELSE Area(e.scns[i].shdr.sh_offset, e.scns[i].shdr.sh_size)]

LaidApart ==
    said.cmd = "NULL" /\ said.says = "ok" =>
        /\ \A i, j \in DOMAIN Areas : i # j => Areas[i] \cap Areas[j] = {}
        /\ \A i \in DOMAIN Areas : Areas[i] \subseteq 0 .. said.size - 1

(***************************************************************************)
(* LayoutSettles: laying out again changes nothing, and tells the same     *)
(* size: what elf_update(ELF_C_NULL) says is what ELF_C_WRITE then writes. *)
(* Not so when section 0 has contents, as when the headers are read at an  *)
(* e_shoff the application has set before: the numbers that are put in its *)
(* header are then taken for its size.                                     *)
(***************************************************************************)
LayoutSettles ==
    said.cmd = "NULL" /\ said.says = "ok" /\ ~Misread(e) =>
        \E at \in {Resync(e)} :
            /\ at.says = "ok" /\ at.rc = said.size
            /\ at.d.ehdr = e.ehdr /\ at.d.scns = e.scns

(***************************************************************************)
(* SavedReadsBack: a file elf_update wrote is read anew as what the        *)
(* application had in memory: headers, program headers and the contents of *)
(* every section, read or not, moved or not.  Not so when the descriptor   *)
(* was flawed: see Flaws.                                                  *)
(***************************************************************************)
SavedReadsBack ==
    said.cmd = "WRITE" /\ said.says = "ok" /\ flaws = {} =>
        /\ Len(file) = said.size
        /\ Opened(file).says = "ok" /\ Seen(Opened(file).d) = said.seen
=============================================================================
