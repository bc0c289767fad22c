# A TLA+ model of the ELF libraries in this repository

The repository is an annotated copy of Michael Riepe's libelf 0.8.13 (`lib/`),
which reads, edits and writes ELF files and `ar` archives, with notes and small
samples about linking around it, and beside it the libelf of the elftoolchain
project (`elftoolchain_debug/aaa/libelf/`, here "the second library"), which has the
same interface. The model is of `lib/` (paths below without a directory are in
`lib/`), and of the parts of the second library where the two can be compared
or where it works differently: translation, the class-independent accessors,
and `elf_update`. `lib/` is modelled as `config.h` builds it: `HAVE_MMAP`,
`HAVE_FTRUNCATE`, `__LIBELF64` and GNU symbol versions on, `ENABLE_DEBUG` off, so
that `elf_assert` is nothing. In the second library `assert` stops the program.

The libraries are single-threaded and have no callbacks: an application calls
them, and each call runs to its end. What makes it hard is not interleaved code but
*sequences* of calls: pointers that outlive other calls, counts and section
numbers kept twice, headers that are cached, memory owned in three different
ways, calls that fail half way through. The models therefore let an application
call anything it may, in any order, and let every call that can fail do so.

## 1. Inventory

| Component | State | Operations | Interacts with | Hard part | Correct if |
|---|---|---|---|---|---|
| Descriptors, archives (`begin.c` `next.c` `rand.c` `cntl.c` `end.c`) | `Elf`: activation count, parent, list of open members, cursor `e_off`, `e_disabled`, images | `elf_begin`, `elf_memory`, `elf_next`, `elf_rand`, `elf_cntl`, `elf_end` | members share the image of their archive and keep it active; `elf_end` recurses to the parent | order of `elf_end` calls, the same member opened twice, `elf_cntl` that fails half way | a count equals its references; no descriptor in use is freed, none unused is kept; the list and the parent pointers agree |
| Version, error code (`version.c` `errno.c` `errmsg.c`) | `_elf_version`, `_elf_errno` | `elf_version`, `elf_errno`, `elf_errmsg` | every call sets the code | stale codes | a call that fails keeps nothing it allocated (not so at `begin.c:275`) |
| Section list (`newscn.c` `x.remscn.c` `x.movscn.c` `opt.delscn.c`, `end.c`) | `Elf_Scn` list, section numbers, `e_shnum` or `sh_size` of section 0, headers | `elf_newscn`, `elfx_remscn`, `elf_delscn`, `elfx_movscn`, walk of `elf_end` | filled by cooking, read by update and accessors | numbers after moves, the count at `SHN_LORESERVE`, two kinds of memory on one list | number = place, count reads back, each section freed once and not read after |
| Cooking (`cook.c`) | `e_ehdr`, `e_phdr`, section block | `_elf_cook` on the first access | creates the section list | failure after `e_ehdr` is set; empty tables | all of the headers or none |
| Section data (`getdata.c` `rawdata.c` `rawfile.c` `newdata.c` `input.c`) | `Scn_Data` lists; file image, raw image, translated flag | `elf_getdata`, `elf_rawdata`, `elf_rawfile`, `elf_newdata` | translates in place over the file image; update moves the images | who owns a buffer, reading raw after translating, reading after an update | data is what the file held, whichever call came first |
| Headers, extended numbering (`32.newehdr.c` `32.newphdr.c` `x.elfext.c` `flag.c`) | ELF and program headers, dirty flags | get, new, flag | section 0 keeps the numbers too large for the header | escape values `SHN_XINDEX`, `PN_XNUM` | what was set reads back |
| Update (`update.c`) | layout, dirty flags, images, the file | `elf_update` | reads all of the above, writes the file, moves the images | skipped writes, overlap, failure after truncation, realloc failures | file and memory agree after it |
| Translation (`32/64.xlatetof.c` `32.fsize.c` `verdef.h` `verneed.h`; second library `libelf_convert.c` `libelf_xlate.c`) | none | `elf*_xlateto*`, sizes | called for data and headers by reading and update | in place with records of two sizes; chains whose links are swapped under way | both libraries agree; nothing else is written |
| Accessors (`gelf*.c` of both libraries) | none of their own | `gelf_get*`, `gelf_update_*` | section data, headers, dirty flags | 64-bit values in 32-bit records, a refusal after some fields | what was accepted reads back; a refused call leaves no cut value |
| `elf_update` of the second library (`elf_update.c` `elf_scn.c` `elf_data.c` `libelf_ehdr.c` `libelf_phdr.c` `libelf_extended.c`) | headers, section list, data, flags, each read when first needed; extents | `elf_getscn`, `elf_newscn`, `elf_newdata`, `elf_update`, ... | the whole file is put together in memory and written at once | what is read before and after a layout, the reset after a write | extents apart, layouts settle, the file reads back |
| Archive symbols (`getarsym.c`), strings (`strptr.c`), `nlist.c`, `checksum.c` | cached table; none | lookups | data | cached conversion, error code as a result | |
| Queries (`getbase.c` `kind.c` `data.c` `fill.c` `hash.c` ...) | none | one field or pure arithmetic | | | |

Not part of the program: `test/libelf-0.8.13` (the release this copy was taken
from), `lib/test.cpp` (preprocessor output), `getopt`, `po`, the samples
`weak_symbol`, `protected_symbol`, `relocation`, `status_flags`, `print_link_map.c`, the
notes. Descriptors and archives of the second library are not modelled.

## 2. Modules

| Module | Models | Composes |
|---|---|---|
| `Handles` | what an application may rely on about descriptors: objects, references, owners | |
| `Descriptors` | descriptors and archives, step by step | `INSTANCE Handles` (refinement) |
| `SectionSeq` | what an application may rely on about sections: a sequence | |
| `SectionList` | the linked list of sections, its counts, its memory | `INSTANCE SectionSeq` (refinement) |
| `Update` | dirty flags, layout, the decision to write, the file that is written and read again | |
| `ElfImage` | which memory holds the file and its sections, who owns it, what update and `elf_end` do to it | |
| `Structs`, `ReplStructs`, `FileStructs` | the record types: `elfdefinitions.h`, `elf_repl.h`, `ext_types.h` | |
| `Converters`, `Translators` | the members each library converts, in its order | |
| `Layouts` | where the bytes of a member are, in the file and in memory | `INSTANCE` of these five |
| `Xlate` | one translation call: checks, order of records and members | extends `Layouts` |
| `Translation` | the tables that are walked, and what a translation should do | extends `Xlate` |
| `Extents` | the extent list of the second library | |
| `ToolchainUpdate` | `elf_update` of the second library | extends `Extents` |
| `Accessors` | `gelf_get*` and `gelf_update_*` of both libraries | |
| `MC*` | small instances for TLC | |
| `*_proofs` | theorems | extend the module they are about |

### Descriptors

A descriptor is the address `malloc` returned. `Image` stands for file
contents: `Kind`, `Size` and `Header` say what `_elf_check_type` and `_elf_arhdr`
make of them (a header is there at an offset, or it is not). `elf[d]` holds
the fields `elf_begin` writes once; `e_count`, `e_members`, `e_off` and `e_disabled`
are the ones later calls change. `held` is no field: it counts the references
the application still has, one for each call that returned the descriptor and
was not answered by `elf_end`. Each branch of `elf_begin` is an action:
`BeginFile`, `BeginWrite`, `ElfMemory`, `BeginShare` (a descriptor that is no
archive is activated again), `BeginMember`, `BeginAgain` (the member is open
already), `BeginFails`. `RefErrors` and `ArhdrErrors` are its refusals, in the
order of the code. `elf_end` calls itself for the parent and frees the member
after that, so each activation (`EndKeeps`, `EndMember`, `EndRoot`) and each
return (`EndFree`) is a step; the application waits meanwhile (`AtRest`).

Abstractions: the order of the member list is left out (a set); which error was
set is left out (only that one was); a file descriptor stands for its contents;
the contents of a parsed member header and the archive's symbol table are not kept.
`malloc` may fail at any time. When it fails for the file's contents or for the header nothing has
changed (`BeginFails`). When it fails for the `Elf` of a member, its header has been
read already (`begin.c:264`) and is not given back (`begin.c:275`): `BeginLosesHeader`.
`arhdrs` counts the headers that are allocated, `lost` those lost in this way (at most
`MaxLost`), and `NoLeak` says that nothing else stays.

### SectionList

A section is the address of an `Elf_Scn`, either in the one block `_elf_cook_shdr`
allocates for the file's sections (`Block`, only its first address can be given
to `free`) or from a `malloc` of its own (`Separate`). `s_link`, `s_index`,
`e_scn_1`, `e_scn_n`, `e_shnum` and `sh_size` of section 0 are the code's fields,
`listed` names what `s_link` reaches, `alloc` what is allocated. An editing call
is one step and includes the update of the count; `_elf_free_scns` takes a step
per section, and a section read after it was freed ends in the phase
"undefined", from which nothing follows.

Abstractions: of a header only its type class, `sh_link` and `sh_info` are kept,
types being grouped by what `elf_delscn` does to them. Loops that walk `s_link`
and adjust numbers are written over the numbers; `IndexIsRank`, which is proved,
says this is the same. Cooking is a step of its own, as every accessor cooks
before it acts. A call that is refused (a section of another file, the first
section, no memory) changes nothing and is not a step. `cut` is no field: it remembers
that the last call to write the count was an `elf_delscn` that left more sections than
`e_shnum` can hold. It stores the number there without asking (`opt.delscn.c:37,75`), where
`elf_newscn` and `elfx_remscn` put it into section 0, and `CountReadsBack` leaves out
exactly the states from there to the next call that puts it right. An application does not
use a section it removed. Section data lists are not modelled here.
`CookHeader` is a file without a section table, a new header, or a table that
could not be read. A file whose table has zero entries is left out.

### Update

One descriptor that may be written, on a file that is there or a new one.
`file` is a sequence of cells, one for a header or a table entry, one for a unit
of section data, so that what is written over something else is lost, and
reading it anew (`CookedScns`, `CookedShnum`, `CookedPhnum`, from `cook.c`) finds what
is there. `Laid` is the layout, one operator per part of `_elf32_layout` in the
order of the code: `AfterPhdrs`, `AfterScns` (a fold of `PlaceScn` over the sections:
`PlaceFirst`, `PlaceByLibrary`, `PlaceByProgram` with the overlap check `Refused`),
`Shoff`, `ExtendedShnum`. `Rewrite` is the macro `rewrite`: a field that changes makes
its header dirty. `DirtyAfter` is `*flag`. `_elf64_layout` differs in one statement,
which takes section 0 for a 32-bit header (`ExtendedPhnum`), so the class is part
of the state, and what the application does may depend on it (`Classes`). `elf_update` is `UpdateLaysOut` (`ELF_C_NULL`), `UpdateRefuses` (an error of the
layout, which leaves the headers half rewritten), `UpdateSkips` (nothing dirty),
`UpdateWrites`, `UpdateFails` (after the truncation: no mapping and no buffer, a
section without `d_buf`, no memory for the new images) and `UpdateLosesWrite`
(without a mapping the flags are cleared before the buffer is written).
Editing calls set the fields and the flags the code sets. `Cook` may stop
after the ELF header or after the sections, as the code can.

Abstractions: the section list is a sequence (`SectionList` shows that it is
one); entry sizes, versions and encodings are constant, so the translation
of a header is the header itself; section data counts as loaded when
the file is cooked, and a section whose data cannot be loaded or translated is
the argument `bad` of `Laid`. The type a section had in the file is remembered beside the one its
header has (`s_null`): a section the file has as `SHT_NULL` has no data whatever type it is given
(`getdata.c:131`), so every layout that reaches it is refused. Of program headers only the number is kept. `SetShdr` and
`SetEhdr` are an application that changes a header and marks it with `elf_flagshdr`
or `elf_flagehdr`, as the library requires. `unmarked` names the calls since the last
full write that the library itself does not mark: `elf_delscn`, `elfx_movscn`, and
a buffered write that failed; `SavedReadsBack` is stated for the rest, and
`DeletedIsGone` shows why.

### ElfImage

The heap maps blocks to cells; a cell is a value and how often it was
translated, so that a byte translated twice, or not at all, is told apart. The
descriptor's pointers (`e_data`, `e_rawdata`, `sd_memdata`, `s_rawdata`) and flags
(`e_cooked`, `sd_free_data`) are the code's. `CookScn` translates in place, or, once
`elf_rawfile` has frozen the image, in memory of its own. `Update` loads all data,
writes the sections in any order (an application may place them) and applies
`_elf_update_pointers`: `UpdatePointers` with the image moved or not, `UpdateFails` when a
`realloc` gives nothing, `UpdateDangles` when a later one fails after the image has
moved: `e_data` then has an address that was freed, and nothing is said of what
follows (phase "lost"). `End` frees what the code frees; a block freed twice, or lent, is the phase
"corrupt". Behind the code's state stand `content`, what the application should see,
and `fresh`, `spoiled` and `agrees`, which delimit the claims:

* sections that share bytes in the file are translated over each other;
* a raw copy is renewed by `elf_update` only when the image moved, and with its
  old `d_size`; `elf_rawfile` after an update of an image that was never frozen
  returns the old contents;
* a section that was empty in the file, given data and written, is next read
  from the old image and in place, over whatever is there.

Abstractions: the header is one cell, data have one buffer, records do not
change size in translation (`Translation` has that).

### Layouts, Xlate, Translation

`mem` is memory around the two buffers. In records a byte's value is its own address, so a
result says for each byte where it came from; tables that are walked hold real
bytes. The first step of a call is `Refuse` or `Accept`, then a step converts a
record (`ConvertRecord`; the second library reads it whole before it writes), a member
(`CopyMember`; `lib` copies member by member), one head or auxiliary record of a version
table (`CvtHead`, `CvtAux`, `XltHead`, `XltAux`), a note, or a hash table. The record types are
translated declaration by declaration and converter by converter, and
compared: what a call of one library should do is computed from the *other*
library's declarations (`RefPlan`, `RefHead`). `Natural` is the compiler's layout; `LwordAlign` is the
alignment of a 64-bit number, 4 or 8 with the ABI. The host is little-endian, so `swap` is a
call for big-endian files.

The macros with which `lib` stores a number of two or four bytes in the other order take it
byte by byte and evaluate the number, `from->mb`, anew for each (`byteswap.h:49-65`). `Stored`,
`store_u16` and `store_u32` are these sequences of stores, `MemberCopied` one member of
`copy_tof` or `copy_scalar_tof` with them. As long as the two buffers are apart this is the
number turned round. When they are the same, the latter half of the number is read after the
first half was written: a word `b0 b1 b2 b3` becomes `b3 b2 b2 b3`, a half `b0 b1` becomes `b1 b1`.
64-bit members are stored by a function, which gets the number by value; reading (`xlatetom`) loads
the number before it stores it; version records are copied to a temporary first. So an `elf*_xlatetof` of `lib`
with the same buffer on both sides loses these bytes, `LostBytes`, which
`TranslatedExactly` leaves out by name; every other byte of such a call is still claimed. The second
library reads a record before it writes it and its manual allows the call (`gelf_xlatetof.3:124,137`).

### ToolchainUpdate and Extents

The second library reads a part of the file when it is first asked for it and never
forgets; the steps `WithEhdr`, `WithShdrs`, `WithPhdr`, `WithData` are these first uses, and each
call begins with those of the code. `Resync` is `_libelf_resync_elf`, as steps that hand on
the descriptor, the extents and the end of the file; program headers that were not there for
the layout are looked for once more when they are written (`elf_update.c:912`), at the
`e_phoff` the layout has moved, and what lies there is what is written (`PhdrsAgain`). `NewFile` is what
`_libelf_write_elf` puts together, including cells nobody wrote (`Junk`), and those behind the
end of the old file, which it reads for a section that was not loaded and that
the header lets end there (`InFile`, `elf_update.c:763-783`). `Stopped` says which
error or assertion ends it before the file is touched. `elf_update` is `UpdateLaysOut`,
`UpdateRefuses`, `UpdateStarves` (no memory for the new file), `UpdateStops`, `UpdateWrites` and `UpdateFails`
(no truncation, a short write, no new mapping; an image that was mapped is gone then, and the model ends).
`Flaws` names five states in which the code writes another file than the
application sees, and `SavedReadsBack` is stated for descriptors without them; the states
are in the model. The last three came up where the proof needed them:

* "forgotten": after a write the section list is emptied, but the flag that
  it is loaded stays (`elf_scn.c:124`), so the headers are not read again;
* "half extended": `PN_XNUM` program headers or more with fewer than `SHN_LORESERVE`
  sections; the reader takes both numbers from section 0 (`libelf_ehdr.c:77,196`);
* "misread": `SHN_LORESERVE` sections or more, and a section 0 with a type; no reader takes
  the number from there (`libelf_ehdr.c:71`);
* "nowhere": no sections, and under `ELF_F_LAYOUT` an `e_shoff` nonetheless, as in a file whose section 0 tells of
  none; no table is written (`elf_update.c:663`), and the reader looks for section 0 there
  (`libelf_ehdr.c:195-198`);
* "filled over": the gap in front of a buffer is filled from where the one before it ends
  (`elf_update.c:802-805`). With three buffers, placed by the application in no order, that erases what the
  first has written; `elf_update.3:235` lets it choose `d_off` and asks for no order.

That data is read at the section's *new* offset (`elf_data.c:95`) is not among them: what is written
is what the application saw, if not what the file had.

Two statements have exceptions for section 0. From `SHN_LORESERVE` sections on its `sh_size` is
their number, so `LaidApart` counts no bytes for it. And `LayoutSettles` leaves out
descriptors whose section 0 has a type (`Misread`): when the application sets `e_shoff` under
`ELF_F_LAYOUT` before the section headers were read, they are read at the new place,
what is there may be the header of another section, and the number of sections that a
layout puts in its `sh_size` is taken for its contents by the next.

### Accessors

One object: a buffer of records, or a header, of one library in one class.
`FieldsOf` lists the fields in the order they are written, with how each is
narrowed; `Updated` writes those before the first that does not fit. Numbers are
scaled: `Byte`, `Sym`, `Word`, `Wide` stand for 2^8, 2^24, 2^32, 2^64. The properties name their
exceptions: with a 64-bit `long` no symbol index exceeds `ELF32_R_SYM(~0UL)` and bits
are cut (`gelf_rel.c:147`); the program header behind the last is accepted
(`gelf_phdr.c:146`), and so is half a record at the end of a buffer; `gelf_update_symshndx`
looks at the type of the wrong data (`gelf_symshndx.c:119`). `Null` is a null pointer
that is written to: program headers updated before they were read
(`gelf_phdr.c:153`), data without a buffer.

## 3. Runs

| Run | Instance | Shows |
|---|---|---|
| `descriptors` | 3 descriptors, an object file and an archive that holds an object of odd length and an archive, 2 references each, 1 member header lost for want of memory | all invariants of `Descriptors` |
| `handles` | 3 descriptors, no header lost, with fairness, no symmetry | refinement of `Handles`, and that `elf_end` returns |
| `section_list` | files of up to 3 sections, 3 more from `malloc`, `SHN_LORESERVE` = 3, 4 for the range of `e_shnum` | all properties of `SectionList` and the refinement of `SectionSeq` |
| `section_list_end` | the same | finding 1 |
| `section_list_delscn` | the same, a section of type group | finding 2 |
| `update` | both classes; new files and three stored ones, one with both numbers extended; 4 sections, 2 data each, 3 edits or failures, any number of `elf_update`. In 32-bit files the library lays out; in 64-bit ones the application places sections at 1, 3, 5 with sizes 1, 2 and sets and clears `ELF_F_LAYOUT` and `ELF_F_LAYOUT_OVERLAP` | `SavedReadsBack`, `LayoutSettles`, `SectionsApart`, `DataAligned`, `WritesInside` |
| `update_delscn` | 32-bit files, 1 edit | finding 3 |
| `update_overlap` | 64-bit files, placed by the application | finding 4 |
| `images` | two sections (apart, sharing bytes, the first empty, the second cut off); mapped, loaded, lent; 2 changes | `DataIsCurrent`, `RawIsTheFile`, `BuffersReturned` |
| `translation` | every type, class, direction and library, with and without swapping; 0 to 2 records; drawn version tables, notes and hash tables | each call translates exactly but for `LostBytes`, refuses nothing whole, writes nowhere else |
| `toolchain_update` | a new file and three stored ones; blocks of two alignments and one that is none; 5 sections, 2 data, 3 edits | `LaidApart`, `LayoutSettles`, `SavedReadsBack` |
| `accessors` | all kinds of record of both libraries, both classes, buffers of 1, 1 1/2 and 2 records, indices -1 to 2, boundary values in each field, 2 updates | `AcceptedReadsBack`, `OnlyTheRecord` |

Bounds. Three descriptors are an archive, a member archive and a member of
that, or an archive with two members, or an archive, a member and a file: every
relation the code distinguishes. Two references are enough to tell "shared"
from "the last one". The archive `ar` ends without the padding byte of its odd
last member, and a seek to `CutOff` finds a header whose member is cut off.
In `SectionList` `LoReserve` and `HalfRange` stand for 0xff00 and 0x10000: with up to
six sections the count crosses both in both directions, and an `elf_delscn` leaves four or
five, more than `e_shnum` can hold. Three blocked and three separate sections give every pattern of moved
sections `_elf_free_scns` can meet with two changes of kind.
In `Update` the stored files stand for the edits that made them, so that three
calls reach a section taken out of a file, one added with a type and contents,
or program headers and a section between two updates; `SHN_LORESERVE` is 4 and
`PN_XNUM` is 2, so both numbers cross their escape value in both directions.
`MaxCalls` bounds edits and failures of memory or disk, not `elf_update` itself.
Three places and two sizes give sections of the application that are apart, touch, and overlap
each other or a table, in every order. The tables are aligned to 2 cells and
data to 1 or 4, so each alignment leaves gaps. `ToolchainUpdate` has the same kind of
instance, with `SHN_LORESERVE` 5 and `PN_XNUM` 2, places 4 and 12 (inside and behind what
is there) and sizes 1 and 3 (smaller and larger than the data).
In `ElfImage` two sections are enough for one to be read, moved or overwritten while the
other has its data; buffers of size 0 and 2 shrink and grow a section, and with
them the image. Two changes give a changed section beside a changed or an
untouched one, and one changed again after an update.
In `Translation` two records tell a wrong order from a right one; `Huge` is a link
beyond every buffer; the drawn tables are whole or cut off, with
links that end early or point outside, and counts that are too high or too low. In `Accessors`
`Word` is 6 and the values are those on both sides of each limit.

`CHECK_DEADLOCK FALSE`: in the runs of `SectionList` and in `images` nothing can be called after
`elf_end`, or once a pointer dangles; in `toolchain_update` an assertion stops the program;
in `accessors` a null pointer does.

Fairness. Only `WF_vars(EndStep)` in `Descriptors`: an `elf_end` under way goes on. It is
straight-line code between two calls of the application with no loop that
waits. Nothing is assumed about the application: it need never call anything.
`EndReturns` and the liveness half of `Handles` (`GarbageGoes`) rest on it.

### Findings

1. `section_list_end`: after `elfx_movscn` has put a section of `elf_newscn` between
   sections of the file, `_elf_free_scns` frees the block of the file's sections
   when it meets the moved one and then goes on to read the rest of the block
   (`end.c:75-78`). `WalkReadsLive` says this is the only way to get there.
2. `section_list_delscn`: `README:318-323` says that `elf_delscn` adjusts `sh_link` if
   the ELF standard makes it a section index; it leaves out groups and extended
   symbol indices (`opt.delscn.c:78-102`).
3. `update_delscn`: `elf_delscn` writes `e_shnum` itself and marks nothing as dirty
   (`opt.delscn.c:37,75`). When the layout then changes no offset, `elf_update`
   reports success without writing, and the section that `README:318` says is
   deleted from the file is still in it.
4. `update_overlap`: the overlap check begins with section 0 (`update.c:276`), whose
   `sh_size` is the number of sections once that is `SHN_LORESERVE` or more. Sections
   that are apart are refused as "overlapping sections" (`errors.h:83`).
   `LayoutSettles` leaves out this case for the same reason: the first layout
   puts the number there and the next one can be refused.

## 4. Proofs

All hold for every value of the constants that meets the module's assumptions
(`DescriptorsAssumption`, `SectionListAssumption`, `AccessorsAssumption`,
`FilesAssumption` of `ElfImage`: sections are numbered from 1 and have an offset and a size, which
may lie anywhere, overlap or end behind the file; and for `Update` `UpdateAssumption`, `StoredAssumption`: the files that are there at first are ones
`cook.c` takes, whose tables and contents lie inside the file, whose `e_phnum` has 16 bits and whose contents
are data cells, `BlocksAssumption`: a buffer the application adds is as long as its `d_size` or
missing; for `ToolchainUpdate` `ToolchainAssumption`, `FilesAssumption`: a stored file begins with an ELF header,
and header cells hold headers, with any numbers in them, and `BlocksAssumption`: a buffer has the
fields of an `Elf_Data` with any values, and its cells are contents; for `Translation` `CallsAssumption` and `HugeAssumption` of `Xlate`:
a call is of either library, for any type, byte order and direction, with sizes of any value and buffers
anywhere; the contents of a table that is walked are bytes, and it is no longer than 2^16 of them, as `Huge`
stands for all numbers that do not fit in two bytes); TLC evaluates the assumptions in the runs.

* `Descriptors_proofs`: `IInv` is `TypeOK` with `ActivationInv` and `HeadersOwned` (an
  allocated member header belongs to an open member or was lost). The count alone is
  not inductive: that it is the number of references needs that the list
  holds exactly the open children (`MembersAgree`), that an open descriptor has
  an activation left, and that a closed one has an empty list; that `elf_end`
  of a member finds its archive open needs all of them. `Invariance` is the
  induction, one step per action; `TypeCorrect`, `CountsAreExact`,
  `NoDanglingHandle`, `ImagesOutliveMembers`, `ListsAgree` follow.
  Over the same invariant `MembersOpenOnce`, `MembersInsideArchive`, `DisabledTogether` and `NothingLeaks`. The last needs an
  argument of its own: when nobody holds a reference every open descriptor has
  an open member, whose base lies behind its own (`BaseGrows`), and there are
  only finitely many.
  `Refinement`: every step of `Descriptors` is one of `Handles` or leaves its
  variables alone.
* `SectionList_proofs`: `IInv` adds to `TypeOK` and `IndexIsRank` that the list is
  allocated while the file is open (so that a new section is not on it) and
  that the first section of the block can only be the first of the list.
  `TypeCorrect`, `NumbersArePlaces`.
  `WInv` says for the free walk which sections are still
  owned: a section of its own is freed exactly when it is behind the walk and
  not pending, the block together with its first section. From it
  `NothingFreedTwice`, `EverySectionFreed`, `NoReadAfterFree`.
  `CountIsExact`, for every number of sections, and `DeletionKeepsLinks`, over the same `IInv`. The count is the number of the last section plus one, and every edit
  writes it from there, cut only where `cut` says so. The step that matters is that a list whose numbers are places has a last
  section with the number one below its length (`LastGivesCount`), which needs that a set of
  numbers has a least one (`LeastNumber`) and none is free (`NoNumberFree`).
  `ListIsASequence`: the mapped sequence orders the listed sections by
  their numbers; since those are places, an edit of the list is the
  edit of the sequence (`LoadStep`, `AppendStep`, `RemoveStep`, `MoveStep`), and the rest is stuttering.
* `Update_proofs`, for any number of sections, data and program headers, any places of the application,
  any order of edits, updates and failures. That sections are apart does not follow from their
  having been apart before: the loop places them one behind the other, so the invariant says where.
  `Settled` holds after every `elf_update` that succeeded: there is an `off` for every turn of the loop,
  never falling, that begins behind the program headers; section i lies at or behind
  `off[i - 1]`, as the library puts it there or as the check for overlaps let it pass, and ends before
  `off[i]`; the section header table lies behind the last. `LaidSettles` shows that a layout
  leaves it, by an induction over the turns (`Looped`, `ScnStep`), and the theorems read it:
  `Apart` (of two sections the later lies behind `off` of the earlier, or was compared with
  it), `Settles` (a second layout goes through the same `off`, `TracksAll`; the extended
  numbers in the first header are a fixed point, `FirstLaidTwice`), `Inside` (every write
  ends before some `off` or is a table behind them), `Aligned`, `Types`. `Aligned` has a
  hypothesis, `AlignmentsNest`: a section gets the greatest `d_align` of its data
  (`update.c:98`), which aligns each datum in the file only if the smaller ones divide it; the
  code does not ask, and data of alignments 2 and 3 would break it. The recursive functions
  of the layout are unfolded by induction up to a bound, from the least number of a
  non-empty set (`UpTo`, `DataTurn`, `ScnTurn`), which needs no operator as a parameter.
* `UpdateFile_proofs`, on top of `Update_proofs`: `ReadsBack`, that what is saved is read back. Whether the
  file has what memory has is decided long before it is asked: by what an earlier `elf_update` wrote, by what it
  skipped because no dirty flag was set, and by the calls since. So the invariant `FileInv` says of every
  state, saved or not: a descriptor with no dirty flag anywhere and no change the application forgot to mark
  (`Clean`) is in the file (`Faithful`), if its areas are apart; a saved one is `Clean`; and a number of program
  headers past the escape value is in section 1 (`Escaped`). Each call either sets a
  flag (`FailsDirty`, `CountDirties`) or changes nothing the file has (`FaithfulFrame`), and a layout that finds
  a place or a size changed marks it (`LaidMarked`, from `FirstMarked`, `TurnMarked` and
  `CountMarked`). What a cell holds after the writes is what the last of them put there (`HitsConcat`
  and the lemmas behind it): a part that is written is hit last by its own write, because the areas are apart and
  every write lies in one; a part that is skipped was clean before, so it was in the file and no other write reaches
  it (`WriteFaithful`). A faithful file is then cooked to what is in memory, with both numbers taken back
  from section 1 (`FaithfulIsFile`).
* `ElfImage_proofs`, for any number of sections at any places, any sizes and number of changes.
  None of the three properties is inductive, and none can be had without the
  others: that data are current needs to know which block they are in, who else writes to it and what
  the image holds that they will be read from. `Inv` says so in parts. `Owned`: every block has
  one owner, and data without a block of their own are in a file image that was
  translated (`e_cooked`) and is not the raw image too. `Sized`: what is pointed to is long enough.
  `Laid`: data in place touch no other section's data, and until the first write of an
  image that is not frozen are where the header says. `DataOK`, `SourceOK` and `RawOK`: what the
  application should see is in the data, or, of a section that was not read, untranslated
  in the image; and the raw copies are parts of the file. There is a lemma for every call
  and for each way `_elf_update_pointers` can go (`CookGood`, `WroteGood`, `GivenGood`, `FrozenSaved`,
  `ThawedSaved`, `LongerGood`), then one step of `Invariant` for every action. `NewBlockFact` is the
  reason `NewBlock` always finds an address: there are more than owners.
  `OutFact` takes the image apart: each section's data are behind `PlaceOf` earlier ones,
  translated back. `DataAlwaysCurrent`, `RawAlwaysTheFile`, `AlwaysReturned`.
* `ToolchainUpdate_proofs`. First, for lists of any length: the search of `_libelf_insert_extent`, which decides by one
  extent, refuses exactly what shares a byte with any of them (`RefusedIfShared`), and an insertion
  keeps the order and the elements (`InsertKeepsOrder`, `InsertKeepsElements`).
  Then `Invariant`, `Types`, `LayoutApart`, `Settles`, `ReadsBack`, for any stored files, right or wrong, any blocks,
  places, sizes and counts. The invariant is `LayoutInv`. `Sound`: the fields have their types, what was not read is
  empty, sections are numbered by place unless the list was thrown away (`Numbering`), and a file that
  is there begins with the cell of an ELF header (so that `NewFile`, which is read after a write, must be shown
  to begin with one: the first extent is the header's, `FlattenFact`, `ImageFact`). `Tidy`: after a layout that
  succeeded, the areas are apart and inside the size. Nothing about areas can be carried from step to step
  while the layout runs, since a section is placed before the tables are; what is carried is the list of extents
  (`Good`, through `HeadedFact`, `PlacePhdrsFact`, `PlaceScnsFact`, `PlaceShdrsFact`): it stays ordered
  (`InsertKeepsOrder`), every area placed so far is an extent of it, what is in it ends before `rc`, and a later step
  changes none of the fields an earlier one placed. That the size grows to cover a section the application placed
  rests on `LargestEnd`. The recursions over sections and data are unfolded as in `Update_proofs`.
  `Settles` is the one about two layouts: the invariant keeps what the second would say (`Steady`), and
  `ResyncTwice` follows it along the first, step by step (`PlacePhdrsTwice`, `PlaceScnsTwice`, `PlaceShdrsTwice`,
  `FinishTwice`). The second has the extents, the end and the places of the first after each step but starts from
  the descriptor the first left, so what has to be shown is that every section stands there as its own turn
  left it (`TurnsKeptFact`), is taken through the same branches again, data read meanwhile included (`ExtentsTwice`),
  and gets the same place (`ByProgramTwice`, `ByLibraryTwice`: an alignment raised once is not raised again). Section 0
  alone is not as its turn left it, as the numbers are put into its header at the end; it takes no part when
  it has no contents, which is the hypothesis of `LayoutSettles`.

  `ReadsBack` needs no stronger invariant: what `elf_update` writes follows from the layout it has just made. Of the
  writes that hit a cell the last is seen (`Ends`, `ImageAt`), so the argument goes from the back: the extents are in order
  and apart, no later one writes before its own start (`WriteExtentClear`, `LaterClear`), so
  what an extent leaves in a cell of its own is what the file has there (`FileHas`). Program
  headers that are read only then change nothing that was laid out (`AgainFact`). Inside a section the writes may
  overlap, as the application chose the places; that the last one stands there, and the
  fill of no gap, is `WriteDataShows`, by induction over the buffers with `Leaves`, and it is false
  for a section that is `FilledOver`. `FileAgrees` puts it together: the file has the header, both tables and
  every section's contents where the header says (`Agrees`). The other half reads such a file:
  `NumbersTold` (the two numbers are told from each other and from 0; false for the other four flaws),
  `ReadsHeader`, `ReadsScns`, `ReadsPhdrs`, `ReadsContents`, `ReadBack`.
* `Accessors_proofs`: `AcceptedIsKept`, for words of any size. The invariant says of every index
  with a known value that the checks let it through and that the whole record was written as
  `Narrow` leaves it (`Matches`); a later call either writes the whole record again or makes the
  value unknown. That it reads back is arithmetic on one field (`FieldReadsBack`): a value that
  `Fits` takes and that is not cut has one quotient and one remainder (`Division`), so widening
  undoes narrowing.
  `UpdatesStayInTheRecord` is the action property on the same invariant: a field that was written
  comes before the first refused one, so it was found to fit by the entry it was written by, which
  is the field's only entry (`FieldsListed`: no table names a field twice).
* `Translation_proofs`, for any call of `elf*_xlateto*` of either library, in place, apart or overlapping. It ends with
  `Translated` and `WholeTranslates`; what lies before them:
  - Layouts. Where each member is in the file and in memory follows from the tables of `Layouts`, and all of them
    are `WellLaid`: members apart, each number as wide as its type says, the record no longer than its size, and
    the two forms in the same order. From that a record can be read before it is overwritten: forwards when it
    shrinks, backwards when it grows, byte by byte in place (`RecordsApart` and what is behind it).
  - `Invariant`: `CallInv`, which says of a call behind the checks that they accept it, that its records and members
    are counted within the table, and that bytes outside the destination are as they were (`Kept`).
    `TypeCorrect` and `Contained` read it. `InPlace` is `ConvertedSoFar`: records done are exact, those to come
    intact. `LibSoFar` says the same of lib, which copies member by member, also within a record, less the
    bytes of `LostBytes` in the records that are done. In place, every member is turned round where it
    stands, since the records that `lib` converts member by member have one layout in both forms (`LibFlat`, `SamePlace`).
  - Tables that are walked. Their places are told by what they contain, which is being overwritten, so
    the invariant speaks of the source as it was given: the walk stands at a place of the chain
    as the original contents give it, everything before it has been translated once, everything behind
    reads as it was (`NotesSoFar` for notes; `VersionSoFar` with `HeadSoFar` and `AuxSoFar`
    for chains of heads, each with a chain of auxiliary records). A step reads a number that is still the original
    (`HeadReadsRight`, `AuxReadsRight`), so the walk and the specification agree on the next place.
    A chain that returns to a record already converted is out of the question because a link only leads forward
    and each chain is finite (`FewPlaces`); two records that share a byte are the premise `Disjoint`.
  - `Progresses`: `Translating` says all this of every state of every translator, and of a finished call that it
    translated what was expected or refused a table that is not whole. There is one lemma for each action
    (`CvtHeadTranslates`, `SwapNoteTranslates`, `ConvertHashTranslates` and so on).
  - `Translated` needs one thing more, `Answers`: the caller is told type and size. `WholeTranslates` is the
    second half of `Translating`.

  The proof corrected the model's premise: two heads that share an auxiliary record have that record
  swapped twice in place and so back to front again, so `Disjoint` now rules this out
  too. No line of the code promises otherwise, and a linker does not write such tables.

Only model-checked: `EndReturns` and the liveness half of `ImplementsHandles`
(liveness; this prover has none of it).

## 5. Not modelled yet, and the plan

In this order:

1. `ArchiveWalk`: the client loop `elf_begin`, `elf_next`, `elf_end` over `Descriptors`, and the
   descriptors of the second library as another implementation of `Handles`.
2. `ExtNumbering`: `SHN_XINDEX` through `elfx_update_shstrndx`, `elf_getshstrndx` and the edits of
   the section list, in both libraries (`ToolchainUpdate` leaves the string table index out).
3. `ElfOutput`: the loop of `xwrite` with partial writes and `EINTR`, a crash at every step of
   `_elf_output`; `Update` has its failures, this one its steps.
4. Pure algorithms against references: `elf_strptr`, the archive symbol table.

Not planned: error texts, queries of one field, real I/O below `read`, `write` and
`mmap`, special files and descriptors without a file in the second library, the hash
function, `nlist`, the checksum.
