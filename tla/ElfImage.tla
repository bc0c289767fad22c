------------------------------ MODULE ElfImage ------------------------------
(***************************************************************************)
(* Where the contents of a file and of its sections are in memory: the     *)
(* file image, the raw image, translated data and raw copies, who owns     *)
(* each, and what elf_update and elf_end do to them.                       *)
(***************************************************************************)
EXTENDS Integers, Sequences, FiniteSets, FiniteSetsExt, SequencesExt

CONSTANTS
    Files,     \* the files there are: [length, offset, size], the last two by section
    Sizes,     \* the sizes an application gives its buffers
    MaxEdits   \* how often it changes data

VARIABLES
    phase,     \* "open", "ended"; "lost" when a pointer of the descriptor dangles
    mode,      \* "mapped", "loaded" (malloc), "borrowed" (from elf_memory or an archive)
    file,      \* what is stored
    elf,       \* the fields of Elf, Elf_Scn and Scn_Data
    content,   \* what the data of a section should read, by section
    fresh,     \* the sections with a raw copy, and 0 for the raw image, known to be file's
    spoiled,   \* sections whose data the code mixes up with other bytes
    agrees,    \* what of elf is that of file: the "fields" of the headers, the "image"
    edits

vars == << phase, mode, file, elf, content, fresh, spoiled, agrees, edits >>

(* A cell of memory: a value, and how often it was translated: 0 in a      *)
(* file, 1 in memory, anything else is neither.                            *)
InFile(v) == [val |-> v, times |-> 0]
InMemory(v) == [val |-> v, times |-> 1]
Junk == InFile(0)
Turned(cells, by) == [i \in DOMAIN cells |-> [cells[i] EXCEPT !.times = @ + by]]
Part(cells, off, n) == SubSeq(cells, off + 1, Min({off + n, Len(cells)}))
Overwritten(cells, off, by) ==
    [i \in DOMAIN cells |-> IF i - off \in DOMAIN by THEN by[i - off] ELSE cells[i]]
Resized(cells, n) == [i \in 1 .. n |-> IF i \in DOMAIN cells THEN cells[i] ELSE Junk]

Scns == UNION {DOMAIN f.size : f \in Files}

ASSUME FilesAssumption ==
    /\ IsFiniteSet(Scns) /\ Scns = 1 .. Cardinality(Scns)
    /\ \A f \in Files : f.length \in Nat /\ {f.offset, f.size} \subseteq [Scns -> Nat]
    /\ Sizes \subseteq Nat /\ MaxEdits \in Nat

Stored(f) == [i \in 1 .. f.length |-> InFile(i)]

(* The heap maps allocated blocks to their cells.  0 is the null pointer.  *)
Null == [block |-> 0, at |-> 0]
Named(e) == {e.e_data, e.e_rawdata} \cup {e.sd_memdata[s].block : s \in Scns}
                \cup {e.s_rawdata[s] : s \in Scns}
NewBlock(e) == Min((1 .. 2 * Cardinality(Scns) + 4) \ (DOMAIN e.heap \cup Named(e)))
Dropped(heap, bs) == [b \in DOMAIN heap \ bs |-> heap[b]]
Placed(heap, b, cells) == [c \in DOMAIN heap \cup {b} |-> IF c = b THEN cells ELSE heap[c]]

Opened(f, m) ==
    [heap |-> Placed(<< >>, 1, Stored(f)),
     e_data |-> 1, e_rawdata |-> IF m = "borrowed" THEN 1 ELSE 0,
     e_size |-> f.length, e_cooked |-> FALSE, e_disabled |-> FALSE,
     s_offset |-> f.offset, s_size |-> f.size,
     sd_memdata |-> [s \in Scns |-> Null], sd_free_data |-> [s \in Scns |-> FALSE],
     d_size |-> f.size, d_buf |-> [s \in Scns |-> << >>], replaced |-> [s \in Scns |-> FALSE],
     s_rawdata |-> [s \in Scns |-> 0]]

(* The sections whose bytes in the file are no other's: translated in      *)
(* place, shared bytes are translated once for each.                       *)
Bytes(f, s) == f.offset[s] + 1 .. f.offset[s] + f.size[s]
Alone(f, s) == \A t \in Scns \ {s} : Bytes(f, s) \cap Bytes(f, t) = {}

Init ==
    /\ phase = "open" /\ agrees = {"fields", "image"} /\ edits = 0
    /\ \E f \in Files, m \in {"mapped", "loaded", "borrowed"} :
        /\ mode = m
        /\ file = Stored(f)
        /\ elf = Opened(f, m)
        /\ content = [s \in Scns |-> [i \in 1 .. f.size[s] |-> f.offset[s] + i]]
        /\ fresh = IF m = "borrowed" THEN {0} ELSE {}
        /\ spoiled = {s \in Scns : ~Alone(f, s)}

-----------------------------------------------------------------------------
(* elf_getdata                                                             *)

Inside(e, s) == e.s_offset[s] + e.s_size[s] <= e.e_size

IsLoaded(e, s) == e.sd_memdata[s] # Null \* already cooked

HasNone(e, s) == e.s_size[s] = 0 \* no data to read

Frozen(e) == e.e_rawdata = e.e_data

Source(e) == IF e.e_rawdata # 0 THEN e.e_rawdata ELSE e.e_data

CookScn(e, s) ==
    LET cells == Turned(Resized(Part(e.heap[Source(e)], e.s_offset[s], e.d_size[s]), e.d_size[s]), 1)
        new   == NewBlock(e)
        ptr   == IF Frozen(e) THEN [block |-> new, at |-> 0]
                              ELSE [block |-> e.e_data, at |-> e.s_offset[s]]
    IN  [e EXCEPT
            !.heap = IF Frozen(e)
                     THEN Placed(e.heap, new, cells)
                     ELSE [e.heap EXCEPT ![e.e_data] = Overwritten(@, e.s_offset[s], cells)],
            !.sd_memdata[s] = ptr, !.sd_free_data[s] = Frozen(e),
            !.replaced[s] = FALSE, !.d_buf[s] = << >>,
            !.e_cooked = @ \/ ~Frozen(e)]

WithData(e, s) ==
    IF IsLoaded(e, s) \/ HasNone(e, s) \/ ~Inside(e, s) THEN e ELSE CookScn(e, s)

Loaded(e) ==
    LET upto[k \in 0 .. Cardinality(Scns)] == IF k = 0 THEN e ELSE WithData(upto[k - 1], k)
    IN  upto

AllData(e) == Loaded(e)[Cardinality(Scns)]

(* What an application that follows d_buf finds.                           *)
DataOf(e, s) ==
    IF e.replaced[s] THEN e.d_buf[s]
    ELSE LET p == e.sd_memdata[s]
         IN  IF p = Null THEN << >>
             ELSE IF p.block \notin DOMAIN e.heap THEN << Junk >>
             ELSE Part(e.heap[p.block], p.at, e.d_size[s])

Unread(e, s) == ~IsLoaded(e, s) /\ ~HasNone(e, s)

(* Unless the image is one that was frozen when it was written, a section  *)
(* that had no bytes in the file and has some after elf_update is read     *)
(* from the old contents, at its new offset, and translated in place over  *)
(* whatever data is there.                                                 *)
SpoiledBy(S) ==
    IF "image" \notin agrees /\ \E s \in S : Unread(elf, s) THEN Scns ELSE spoiled

GetData(s) ==
    /\ phase = "open"
    /\ Unread(elf, s) /\ Inside(elf, s)
    /\ elf' = WithData(elf, s)
    /\ spoiled' = SpoiledBy({s})
    /\ UNCHANGED << phase, mode, file, content, fresh, agrees, edits >>

(* elf_cntl: ELF_C_FDREAD loads all data first.                            *)
Cntl ==
    /\ phase = "open" /\ ~elf.e_disabled
    /\ \/ /\ \A s \in Scns : Unread(elf, s) => Inside(elf, s)
          /\ elf' = [AllData(elf) EXCEPT !.e_disabled = TRUE]
          /\ spoiled' = SpoiledBy(Scns)
       \/ /\ elf' = [elf EXCEPT !.e_disabled = TRUE]
          /\ UNCHANGED spoiled
    /\ UNCHANGED << phase, mode, file, content, fresh, agrees, edits >>

-----------------------------------------------------------------------------
(* elf_rawdata and elf_rawfile                                             *)

CanRead(e, off, n) == ~e.e_disabled /\ off + n <= Len(file)

FromImage(e, off, n) == Part(e.heap[Source(e)], off, n) \* mutant

RawCells(e, off, n) == Part(IF e.e_rawdata # 0 THEN e.heap[e.e_rawdata] ELSE file, off, n)

RawData(s) ==
    LET off == elf.s_offset[s]
        n   == elf.s_size[s]
    IN  /\ phase = "open"
        /\ elf.s_rawdata[s] = 0
        /\ Inside(elf, s)
        /\ n = 0 \/ elf.e_rawdata # 0 \/ CanRead(elf, off, n)
        /\ elf' = [elf EXCEPT !.heap = Placed(@, NewBlock(elf), RawCells(elf, off, n)),
                              !.s_rawdata[s] = NewBlock(elf)]
        /\ fresh' = IF "fields" \in agrees /\ (elf.e_rawdata = 0 \/ 0 \in fresh)
                    THEN fresh \cup {s} ELSE fresh
        /\ UNCHANGED << phase, mode, file, content, spoiled, agrees, edits >>

Untouched(e) == ~e.e_cooked

RawFile ==
    /\ phase = "open"
    /\ elf.e_rawdata = 0
    /\ \/ /\ Untouched(elf)
          /\ elf' = [elf EXCEPT !.e_rawdata = elf.e_data]
          /\ fresh' = IF "image" \in agrees THEN fresh \cup {0} ELSE fresh
       \/ /\ ~Untouched(elf)
          /\ CanRead(elf, 0, elf.e_size)
          /\ elf' = [elf EXCEPT !.heap = Placed(@, NewBlock(elf), Part(file, 0, elf.e_size)),
                                !.e_rawdata = NewBlock(elf)]
          /\ fresh' = IF "fields" \in agrees THEN fresh \cup {0} ELSE fresh
    /\ UNCHANGED << phase, mode, file, content, spoiled, agrees, edits >>

-----------------------------------------------------------------------------
(* An application changes data where it is, or gives the section a buffer  *)
(* of its own, after elf_getdata has returned the data.                    *)

NewValue(s) == 10 + s

Change(s) ==
    /\ phase = "open" /\ edits < MaxEdits
    /\ IsLoaded(elf, s) /\ ~elf.replaced[s] /\ elf.d_size[s] > 0
    /\ LET p == elf.sd_memdata[s]
       IN  elf' = [elf EXCEPT !.heap[p.block] = Overwritten(@, p.at, << InMemory(NewValue(s)) >>)]
    /\ content' = [content EXCEPT ![s][1] = NewValue(s)]
    /\ edits' = edits + 1
    /\ UNCHANGED << phase, mode, file, fresh, spoiled, agrees >>

Replace(s, n) ==
    /\ phase = "open" /\ edits < MaxEdits
    /\ ~Unread(elf, s)
    /\ elf' = [elf EXCEPT !.replaced[s] = TRUE, !.d_size[s] = n,
                          !.d_buf[s] = [i \in 1 .. n |-> InMemory(NewValue(s))]]
    /\ content' = [content EXCEPT ![s] = [i \in 1 .. n |-> NewValue(s)]]
    /\ edits' = edits + 1
    /\ UNCHANGED << phase, mode, file, fresh, spoiled, agrees >>

-----------------------------------------------------------------------------
(* elf_update(ELF_C_WRITE), from the loading of all data on.  The sections *)
(* may be in any order: with ELF_F_LAYOUT the application places them.     *)

Orders == {o \in [1 .. Cardinality(Scns) -> Scns] : IsInjective(o)}

(* The image as it grows, section by section.                              *)
Built(e, order) ==
    LET upto[k \in 0 .. Cardinality(Scns)] ==
            IF k = 0 THEN << InFile(1) >>
                     ELSE upto[k - 1] \o Turned(DataOf(e, order[k]), -1)
    IN  upto

Out(e, order) == Built(e, order)[Cardinality(Scns)]

PlaceOf(order, s) == CHOOSE i \in DOMAIN order : order[i] = s

(* The headers as the layout leaves them.                                  *)
Headers(e, order) ==
    [offset |-> [s \in Scns |-> Len(Built(e, order)[PlaceOf(order, s) - 1])],
     size   |-> [s \in Scns |-> Len(DataOf(e, s))]]

Grows(e, out) == Len(out) > Len(e.heap[e.e_data])

(* resize memory images: the file image never becomes shorter              *)
Reallocated(e, out, d) ==
    Placed(Dropped(e.heap, {e.e_data}), d,
           Resized(e.heap[e.e_data], Max({Len(out), Len(e.heap[e.e_data])})))

CopiesOf(e) == {s \in Scns : e.s_rawdata[s] # 0 /\ e.heap[e.s_rawdata[s]] # << >>}

(* A raw copy is brought up to date only when the file image moved.        *)
Updated(e, b, out, hdrs, moved) ==
    LET mine == {s \in CopiesOf(e) : e.s_rawdata[s] = b}
    IN  IF b = e.e_rawdata THEN out
        ELSE IF moved /\ mine # {}
        THEN LET s == CHOOSE s \in mine : TRUE IN Part(out, hdrs.offset[s], hdrs.size[s])
        ELSE Reallocated(e, out, e.e_data)[b]

OldPointers(e, d) == e.sd_memdata \* mutant

MovedPointers(e, d) ==
    [s \in Scns |-> IF e.sd_memdata[s] # Null /\ ~e.sd_free_data[s]
                    THEN [e.sd_memdata[s] EXCEPT !.block = d]
                    ELSE e.sd_memdata[s]]

UpdatePointers(e, out, hdrs, d) ==
    IF Frozen(e)
    THEN [e EXCEPT !.heap = [Reallocated(e, out, d) EXCEPT ![d] = Overwritten(@, 0, out)],
                   !.e_data = d, !.e_rawdata = d]
    ELSE [e EXCEPT !.heap = [b \in (DOMAIN e.heap \ {e.e_data}) \cup {d} |->
                                IF b = d THEN Reallocated(e, out, d)[d]
                                         ELSE Updated(e, b, out, hdrs, d # e.e_data)],
                   !.e_data = d, !.sd_memdata = MovedPointers(e, d)]

(* The copies known to be right after it.                                  *)
FreshAfter(e, hdrs, moved) ==
    (IF e.e_rawdata # 0 THEN {0} ELSE {})
    \cup (IF moved /\ ~Frozen(e)
          THEN {s \in CopiesOf(e) : Len(e.heap[e.s_rawdata[s]]) = hdrs.size[s]} ELSE {})

(* Nothing can be said of the descriptor any more; only its heap is left.  *)
Gone(heap) ==
    /\ elf' = [heap |-> heap]
    /\ content' = << >> /\ fresh' = {} /\ spoiled' = {} /\ agrees' = {} /\ edits' = 0

MayUpdate ==
    /\ phase = "open"
    /\ mode = "loaded" /\ ~elf.e_disabled
    /\ \A s \in Scns : Unread(elf, s) => Inside(elf, s)

Update ==
    /\ MayUpdate
    /\ \E e \in {AllData(elf)} : \E order \in Orders, moved \in BOOLEAN :
         LET out  == Out(e, order)
             hdrs == Headers(e, order)
         IN  /\ moved => Grows(e, out)
             /\ moved /\ ~Frozen(e) => \A s \in CopiesOf(e) : hdrs.size[s] > 0
             /\ file' = out
             /\ elf' = [UpdatePointers(e, out, hdrs, IF moved THEN NewBlock(e) ELSE e.e_data)
                        EXCEPT !.s_offset = hdrs.offset, !.s_size = hdrs.size,
                               !.e_size = Len(out)]
             /\ fresh' = FreshAfter(e, hdrs, moved)
             /\ agrees' = IF Frozen(e) THEN {"fields", "image"} ELSE {"fields"}
    /\ spoiled' = SpoiledBy(Scns)
    /\ UNCHANGED << phase, mode, content, edits >>

(* Everything is written, and then there is no memory for an image.        *)
UpdateFails ==
    /\ MayUpdate
    /\ \E e \in {AllData(elf)} : \E order \in Orders :
         /\ file' = Out(e, order)
         /\ \/ Grows(e, file') /\ elf' = e
            \/ /\ ~Frozen(e) /\ e.e_rawdata # 0
               /\ elf' = [e EXCEPT !.heap = Reallocated(e, file', e.e_data)]
    /\ fresh' = {} /\ agrees' = {}
    /\ spoiled' = SpoiledBy(Scns)
    /\ UNCHANGED << phase, mode, content, edits >>

(* The file image has moved when the next one fails, or when a copy is     *)
(* given no bytes, which frees it: e_data keeps the old address.           *)
UpdateDangles ==
    /\ MayUpdate
    /\ \E e \in {AllData(elf)} : \E order \in Orders :
         /\ Grows(e, Out(e, order)) /\ ~Frozen(e)
         /\ e.e_rawdata # 0 \/ CopiesOf(e) # {}
         /\ file' = Out(e, order)
         /\ Gone(Reallocated(e, file', NewBlock(e)))
    /\ phase' = "lost"
    /\ UNCHANGED mode

-----------------------------------------------------------------------------
(* elf_end frees the images, and _elf_free_scns what the sections own.     *)

AlwaysFreesRawdata(e) == e.e_rawdata # 0 \* mutant

FreesRawdata(e) == e.e_rawdata # e.e_data /\ e.e_rawdata # 0

(* Who frees a block, and the block it frees.                              *)
Owners(e) ==
    (IF mode # "borrowed" THEN {<< "e_data", 0 >>} ELSE {})
    \cup ({"sd_memdata"} \X {s \in Scns : e.sd_free_data[s]})
    \cup ({"s_rawdata"} \X {s \in Scns : e.s_rawdata[s] # 0})
    \cup (IF FreesRawdata(e) THEN {<< "e_rawdata", 0 >>} ELSE {})

BlockOf(e, o) ==
    CASE o[1] = "e_data"     -> e.e_data
      [] o[1] = "sd_memdata" -> e.sd_memdata[o[2]].block
      [] o[1] = "s_rawdata"  -> e.s_rawdata[o[2]]
      [] o[1] = "e_rawdata"  -> e.e_rawdata

Freed(e) == [o \in Owners(e) |-> BlockOf(e, o)]

End ==
    /\ phase = "open"
    /\ phase' = IF IsInjective(Freed(elf)) /\ Range(Freed(elf)) \subseteq DOMAIN elf.heap
                THEN "ended" ELSE "corrupt"
    /\ Gone(Dropped(elf.heap, Range(Freed(elf))))
    /\ UNCHANGED << mode, file >>

Next ==
    \/ \E s \in Scns :
          \/ GetData(s) \/ RawData(s) \/ Change(s)
          \/ \E n \in Sizes : Replace(s, n)
    \/ Cntl \/ RawFile \/ Update \/ UpdateFails \/ UpdateDangles \/ End

Spec == Init /\ [][Next]_vars

-----------------------------------------------------------------------------
(* Data read from a section, in whatever order it was read raw or          *)
(* translated and whatever image was moved or frozen since, is what the    *)
(* file or the application put there, translated once (_elf_cook_scn,      *)
(* _elf_update_pointers).                                                  *)
DataIsCurrent ==
    phase = "open" =>
        \A s \in Scns \ spoiled :
            ~Unread(elf, s) =>
                /\ Len(DataOf(elf, s)) = Len(content[s])
                /\ \A i \in DOMAIN content[s] : DataOf(elf, s)[i] = InMemory(content[s][i])

(* Raw data is what is stored, though elf_getdata translates in place and  *)
(* applications write through its buffers (elf_rawdata, elf_rawfile,       *)
(* e_cooked); and no call writes into an image that is not the library's.  *)
RawIsTheFile ==
    phase = "open" =>
        /\ 0 \in fresh => Part(elf.heap[elf.e_rawdata], 0, elf.e_size) = file
        /\ \A s \in fresh \ {0} :
              elf.heap[elf.s_rawdata[s]] = Part(file, elf.s_offset[s], elf.s_size[s])

(* elf_end gives back every buffer the library allocated, once, and none   *)
(* it was lent, whichever of the images are the same.                      *)
BuffersReturned ==
    /\ phase # "corrupt"
    /\ phase = "ended" => DOMAIN elf.heap = IF mode = "borrowed" THEN {1} ELSE {}
=============================================================================
