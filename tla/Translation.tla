---------------------------- MODULE Translation ----------------------------
(***************************************************************************)
(* The translators that walk a table, and the whole of a call: version     *)
(* definitions and requirements (offset-linked heads with offset-linked    *)
(* auxiliary records), notes and the GNU hash table.                       *)
(***************************************************************************)
EXTENDS Xlate, FiniteSets

-----------------------------------------------------------------------------
(* Numbers in a buffer, as the host reads them.                            *)
Native(b) == IF \E i \in 3..Len(b) : b[i] # 0 THEN Huge ELSE b[1] + 256 * b[2]

ReadsAsIs(k, m, a, w) == Native([i \in 1..w |-> m[a + i - 1]])
(* The number at address a, of w bytes, once it has the host's byte order: *)
(* _tom looks at it after the swap, _tof before.                           *)
Value(k, m, a, w) ==
    Native([i \in 1..w |-> m[IF k.swap /\ ~k.tof THEN a + w - i ELSE a + i - 1]])

Member(k, m, base, fields, n) ==
    Value(k, m, base + Packed(k.class, fields).at[n], Widths(k.class, fields)[n])

(* The two records of a version table, and how lib reads and writes them.  *)
CvtRecords(k) ==
    LET way(of32, om32, of64, om64) ==
            IF k.class = 32 THEN IF k.tof THEN of32 ELSE om32 ELSE IF k.tof THEN of64 ELSE om64
    IN  IF k.type = "VDEF"
        THEN way(Cvt!VDEF32_tof, Cvt!VDEF32_tom, Cvt!VDEF64_tof, Cvt!VDEF64_tom)
        ELSE way(Cvt!VNEED32_tof, Cvt!VNEED32_tom, Cvt!VNEED64_tof, Cvt!VNEED64_tom)

LibVerdef(k)  == IF k.class = 32 THEN [head |-> Ext!Verdef32, aux |-> Ext!Verdaux32]
                                 ELSE [head |-> Ext!Verdef64, aux |-> Ext!Verdaux64]
LibVerneed(k) == IF k.class = 32 THEN [head |-> Ext!Verneed32, aux |-> Ext!Vernaux32]
                                 ELSE [head |-> Ext!Verneed64, aux |-> Ext!Vernaux64]

LibRecords(k) == IF k.type = "VDEF" THEN LibVerdef(k) ELSE LibVerneed(k)
RecordsOf(k)  == IF k.lib = "lib" THEN LibRecords(k) ELSE CvtRecords(k)

HeadFields(k) == RecordsOf(k).head
AuxFields(k)  == RecordsOf(k).aux
HeadSize(k) == Packed(k.class, HeadFields(k)).size
AuxSize(k)  == Packed(k.class, AuxFields(k)).size

Versioned(k, vd, vn) == IF k.type = "VDEF" THEN vd ELSE vn
AuxOf(k, m, a)  == Member(k, m, a, HeadFields(k), Versioned(k, "vd_aux", "vn_aux"))
CntOf(k, m, a)  == Member(k, m, a, HeadFields(k), Versioned(k, "vd_cnt", "vn_cnt"))
NextOf(k, m, a) == Member(k, m, a, HeadFields(k), Versioned(k, "vd_next", "vn_next"))
VersionOf(k, m, a) == Member(k, m, a, HeadFields(k), Versioned(k, "vd_version", "vn_version"))
AuxNextOf(k, m, a) == Member(k, m, a, AuxFields(k), Versioned(k, "vda_next", "vna_next"))

(* Both sides of these records have the same places; the bytes of a number *)
(* turn round.                                                             *)
TableBytes(k, fields) ==
    LET side == Packed(k.class, fields)
    IN  RecordBytes(Plan(side, side, fields, k.class), k.tof, k.swap)

ConvertAt(k, off, fields) == mem' = Convert(mem, k.db + off, k.sb + off, TableBytes(k, fields))
Here(off) == call.sb + off
Fits(off, size) == off + size <= call.size

-----------------------------------------------------------------------------
(* elftoolchain: a table is converted when both chains end where their     *)
(* links and counts say, and refused otherwise, part of it converted.      *)

CvtHead ==
    /\ pc = "head" /\ call.lib = "elftoolchain"
    /\ walk.next # 0 /\ Fits(walk.off, HeadSize(call))
    /\ ConvertAt(call, walk.off, HeadFields(call))
    /\ LET aux == AuxOf(call, mem, Here(walk.off))
       IN  IF aux < HeadSize(call) THEN Return(FALSE) /\ UNCHANGED walk
           ELSE /\ pc' = "aux"
                /\ walk' = [off |-> walk.off, next |-> NextOf(call, mem, Here(walk.off)),
                            aoff |-> walk.off + aux, cnt |-> CntOf(call, mem, Here(walk.off)),
                            anext |-> 1]
                /\ UNCHANGED ok
    /\ UNCHANGED <<call, done, field, dst>>

CvtHeadsEnd ==
    /\ pc = "head" /\ call.lib = "elftoolchain"
    /\ walk.next = 0 \/ ~Fits(walk.off, HeadSize(call))
    /\ Return(walk.next = 0)
    /\ UNCHANGED <<call, mem, done, field, walk, dst>>

CountsTooFar == walk.anext # 0 /\ Fits(walk.aoff, AuxSize(call))
MoreAux == walk.cnt # 0 /\ walk.anext # 0 /\ Fits(walk.aoff, AuxSize(call))

CvtAux ==
    /\ pc = "aux" /\ call.lib = "elftoolchain"
    /\ MoreAux
    /\ ConvertAt(call, walk.aoff, AuxFields(call))
    /\ LET anext == AuxNextOf(call, mem, Here(walk.aoff))
       IN  walk' = [walk EXCEPT !.anext = anext, !.aoff = @ + anext, !.cnt = @ - 1]
    /\ UNCHANGED <<call, pc, done, field, dst, ok>>

CvtAuxEnd ==
    /\ pc = "aux" /\ call.lib = "elftoolchain"
    /\ ~MoreAux
    /\ IF walk.anext # 0 \/ walk.cnt # 0 THEN Return(FALSE) /\ UNCHANGED walk
       ELSE pc' = "head" /\ walk' = [walk EXCEPT !.off = @ + walk.next] /\ UNCHANGED ok
    /\ UNCHANGED <<call, mem, done, field, dst>>

-----------------------------------------------------------------------------
(* lib: a chain that leaves the buffer just ends; a misplaced record, a    *)
(* foreign version or a head without auxiliary records is an error.        *)

Misplaced(off) == off % 4 # 0

XltHead ==
    /\ pc = "head" /\ call.lib = "lib"
    /\ Fits(walk.off, HeadSize(call))
    /\ LET at == Here(walk.off)
           cnt == CntOf(call, mem, at)
           aux == AuxOf(call, mem, at)
       IN  IF \/ Misplaced(walk.off)
              \/ VersionOf(call, mem, at) # 1
              \/ cnt < 1 \/ aux = 0
           THEN Return(FALSE) /\ UNCHANGED <<mem, walk>>
           ELSE /\ ConvertAt(call, walk.off, HeadFields(call))
                /\ pc' = "aux"
                /\ walk' = [walk EXCEPT !.next = NextOf(call, mem, at),
                                        !.aoff = walk.off + aux, !.cnt = cnt]
                /\ UNCHANGED ok
    /\ UNCHANGED <<call, done, field, dst>>

XltHeadsEnd ==
    /\ pc = "head" /\ call.lib = "lib"
    /\ ~Fits(walk.off, HeadSize(call))
    /\ Return(TRUE) /\ Described
    /\ UNCHANGED <<call, mem, done, field, walk>>

(* On to the next head, or out when this was the last.                     *)
Onward == IF walk.next = 0 THEN Return(TRUE) /\ Described /\ UNCHANGED walk
          ELSE pc' = "head" /\ walk' = [walk EXCEPT !.off = @ + walk.next] /\ UNCHANGED <<ok, dst>>

XltAux ==
    /\ pc = "aux" /\ call.lib = "lib"
    /\ walk.cnt # 0 /\ Fits(walk.aoff, AuxSize(call)) /\ ~Misplaced(walk.aoff)
    /\ ConvertAt(call, walk.aoff, AuxFields(call))
    /\ LET anext == AuxNextOf(call, mem, Here(walk.aoff))
       IN  IF anext = 0 THEN Onward
           ELSE /\ walk' = [walk EXCEPT !.aoff = @ + anext, !.cnt = @ - 1]
                /\ UNCHANGED <<pc, ok, dst>>
    /\ UNCHANGED <<call, done, field>>

XltAuxEnd ==
    /\ pc = "aux" /\ call.lib = "lib"
    /\ walk.cnt = 0 \/ ~Fits(walk.aoff, AuxSize(call))
    /\ Onward
    /\ UNCHANGED <<call, mem, done, field>>

XltAuxMisplaced ==
    /\ pc = "aux" /\ call.lib = "lib"
    /\ walk.cnt # 0 /\ Fits(walk.aoff, AuxSize(call)) /\ Misplaced(walk.aoff)
    /\ Return(FALSE)
    /\ UNCHANGED <<call, mem, done, field, walk, dst>>

-----------------------------------------------------------------------------
(* Notes: a header of three words, a name and a description, both padded   *)
(* to words.  Only the header is swapped.                                  *)

NoteHdr == <<<<"n_namesz", "Word">>, <<"n_descsz", "Word">>, <<"n_type", "Word">>>>
NoteHdrSize == 12
Rest == call.size - walk.off

CopyNotes ==
    /\ pc = "notes" /\ ~call.swap
    /\ IF ~call.tof /\ call.size < NoteHdrSize
       THEN Return(FALSE) /\ UNCHANGED mem
       ELSE Return(TRUE) /\ mem' = Convert(mem, call.db, call.sb, Same(call.size))
    /\ UNCHANGED <<call, done, field, walk, dst>>

(* _tom wants the padding of the last note too, _tof takes what is there.  *)
NoteBody(a) ==
    LET namesz == Member(call, mem, a, NoteHdr, "n_namesz")
        descsz == Member(call, mem, a, NoteHdr, "n_descsz")
    IN  IF call.tof THEN Least(RoundUp(RoundUp(namesz, 4) + descsz, 4), Rest - NoteHdrSize)
        ELSE RoundUp(namesz, 4) + RoundUp(descsz, 4)

NoteBytes(n) ==
    LET hdr == TableBytes(call, NoteHdr)
    IN  [o \in 0..(NoteHdrSize + n - 1) |-> IF o < NoteHdrSize THEN hdr[o] ELSE o]

TooSmall == walk.off = 0 /\ ~call.tof /\ call.size < NoteHdrSize

SwapNote ==
    /\ pc = "notes" /\ call.swap
    /\ Rest > NoteHdrSize
    /\ LET n == NoteBody(Here(walk.off))
       IN  IF n > Rest - NoteHdrSize
           THEN /\ mem' = Convert(mem, call.db + walk.off, Here(walk.off), NoteBytes(0))
                /\ Return(FALSE) /\ UNCHANGED walk
           ELSE /\ mem' = Convert(mem, call.db + walk.off, Here(walk.off), NoteBytes(n))
                /\ walk' = [walk EXCEPT !.off = @ + NoteHdrSize + n]
                /\ UNCHANGED <<pc, ok>>
    /\ UNCHANGED <<call, done, field, dst>>

NotesEnd ==
    /\ pc = "notes" /\ call.swap
    /\ Rest <= NoteHdrSize
    /\ Return(~TooSmall)
    /\ UNCHANGED <<call, mem, done, field, walk, dst>>

-----------------------------------------------------------------------------
(* The hash table of class 64: a header of four words, maskwords of 64     *)
(* bits, buckets and chains of 32.  All of it stays in its place.          *)

HashHdr == <<<<"gh_nbuckets", "Word">>, <<"gh_symndx", "Word">>,
             <<"gh_maskwords", "Word">>, <<"gh_shift2", "Word">>>>
HashHdrSize == 16

Turned(o, from, w) == from + ((o - from) \div w) * w + (w - 1 - ((o - from) % w))

HashBytes(k, bloom, whole) ==
    [o \in 0..(whole - 1) |->
        IF ~k.swap THEN o
        ELSE IF o >= HashHdrSize /\ o < HashHdrSize + bloom THEN Turned(o, HashHdrSize, 8)
        ELSE Turned(o, 0, 4)]

ConvertHash ==
    /\ pc = "hash"
    /\ LET rest == call.size - HashHdrSize
           bloom == 8 * Member(call, mem, call.sb, HashHdr, "gh_maskwords")
           table == bloom + 4 * Member(call, mem, call.sb, HashHdr, "gh_nbuckets")
           chains == 4 * ((rest - table) \div 4)
       IN  IF rest < 0 \/ rest < table
           THEN Return(FALSE) /\ UNCHANGED mem
           ELSE /\ mem' = Convert(mem, call.db, call.sb,
                                  HashBytes(call, bloom, HashHdrSize + table + chains))
                /\ Return(TRUE)
    /\ UNCHANGED <<call, done, field, walk, dst>>

-----------------------------------------------------------------------------
(* The application has its answer.                                         *)
Answered == pc = "done" /\ UNCHANGED vars

Next == \/ Refuse \/ Accept
        \/ CopyAtOnce \/ ConvertRecord \/ CopyMember
        \/ CvtHead \/ CvtHeadsEnd \/ CvtAux \/ CvtAuxEnd
        \/ XltHead \/ XltHeadsEnd \/ XltAux \/ XltAuxEnd \/ XltAuxMisplaced
        \/ CopyNotes \/ SwapNote \/ NotesEnd
        \/ ConvertHash
        \/ Answered

Spec == Init /\ [][Next]_vars

-----------------------------------------------------------------------------
(* What a conversion should do, from the contents of the source alone: for *)
(* each byte that is to be written, the source byte it takes.              *)

Was(k) == Original(k)

(* A number of the source, in the source's byte order.                     *)
Says(k, off, side, n, w) ==
    LET at == off + side.at[n]
    IN  Native([i \in 1..w |-> k.image[IF k.tof \/ ~k.swap THEN at + i - 1 ELSE at + w - i]])

(* A version table's records as the other library has them.                *)
RefHead(k) == IF k.lib = "lib" THEN CvtRecords(k).head ELSE LibRecords(k).head
RefAux(k)  == IF k.lib = "lib" THEN CvtRecords(k).aux ELSE LibRecords(k).aux
HeadSays(k, off, vd, vn) ==
    LET n == Versioned(k, vd, vn)
    IN  Says(k, off, Packed(k.class, RefHead(k)), n, Widths(k.class, RefHead(k))[n])
AuxSays(k, off, vd, vn) ==
    LET n == Versioned(k, vd, vn)
    IN  Says(k, off, Packed(k.class, RefAux(k)), n, Widths(k.class, RefAux(k))[n])

(* The places of a chain: the first, and from each one the link's distance *)
(* further, until a link is 0 or leads outside ("most" is as many as fit   *)
(* one behind the other).                                                  *)
Chain(first, Link(_), Inside(_), most) ==
    LET at[i \in 1..most] ==
            IF i = 1 THEN first
            ELSE LET here == at[i - 1]
                 IN  IF Inside(here) /\ Link(here) # 0 THEN here + Link(here) ELSE Huge
    IN  { at[i] : i \in { j \in 1..most : Inside(at[j]) } }

Extent(k, rec) == rec.at..(rec.at + Packed(k.class, rec.fields).size - 1)
Within(k, off, fields) == off + Packed(k.class, fields).size <= k.size

HeadsOf(k) ==
    LET Link(p) == HeadSays(k, p, "vd_next", "vn_next")
        Inside(p) == Within(k, p, RefHead(k))
    IN  Chain(0, Link, Inside, k.size \div 16 + 1)

AuxesOf(k, h) ==
    LET Link(p) == AuxSays(k, p, "vda_next", "vna_next")
        Inside(p) == Within(k, p, RefAux(k))
    IN  Chain(h + HeadSays(k, h, "vd_aux", "vn_aux"), Link, Inside,
              Least(HeadSays(k, h, "vd_cnt", "vn_cnt"), k.size \div 8 + 1))

VersionRecords(k) ==
    { [at |-> h, fields |-> RefHead(k)] : h \in HeadsOf(k) } \cup
    { [at |-> a, fields |-> RefAux(k)] : a \in UNION { AuxesOf(k, h) : h \in HeadsOf(k) } }

(* No byte is of two records and no record of two chains, as a record that *)
(* is converted twice in place has its first byte order again.             *)
Disjoint(k) ==
    /\ \A x, y \in VersionRecords(k) : x # y => Extent(k, x) \cap Extent(k, y) = {}
    /\ \A g, h \in HeadsOf(k) : g # h => AuxesOf(k, g) \cap AuxesOf(k, h) = {}

VersionBytes(k) ==
    [o \in UNION { Extent(k, x) : x \in VersionRecords(k) } |->
        LET x == CHOOSE y \in VersionRecords(k) : o \in Extent(k, y)
        IN  x.at + TableBytes(k, x.fields)[o - x.at]]

(* Notes with something behind their header.                               *)
NoteSays(k, p, n) == Says(k, p, Packed(k.class, NoteHdr), n, 4)
NoteEnd(k, p) == p + NoteHdrSize + RoundUp(NoteSays(k, p, "n_namesz"), 4)
                                 + RoundUp(NoteSays(k, p, "n_descsz"), 4)
NotesOf(k) ==
    LET Link(p) == NoteEnd(k, p) - p
        Inside(p) == p + NoteHdrSize < k.size
    IN  Chain(0, Link, Inside, k.size \div NoteHdrSize + 1)

NotesBytes(k) ==
    IF ~k.swap THEN Same(k.size)
    ELSE [o \in UNION { p..(Least(NoteEnd(k, p), k.size) - 1) : p \in NotesOf(k) } |->
            IF \E p \in NotesOf(k) : p <= o /\ o < p + NoteHdrSize THEN Turned(o, 0, 4) ELSE o]

(* In a hash table every number is whole words from the start, Bloom words *)
(* are two.                                                                *)
TableOfWords(k) ==
    LET bloom == IF k.class = 32 THEN 0
                 ELSE 8 * Says(k, 0, Packed(k.class, HashHdr), "gh_maskwords", 4)
    IN  [o \in 0..(4 * (k.size \div 4) - 1) |->
            IF ~k.swap THEN o
            ELSE IF HashHdrSize <= o /\ o < HashHdrSize + bloom THEN Turned(o, 0, 8)
            ELSE Turned(o, 0, 4)]

RefMaps == Table([lib \in {"lib", "elftoolchain"} |-> [c \in Class |-> [t \in DOMAIN CvtTable(c) |->
              [tof \in BOOLEAN |-> [swap \in BOOLEAN |->
                 IF lib = "lib" /\ t \notin DOMAIN LibTable(c) THEN <<>>
                 ELSE RecordBytes(RefPlan(lib, c, t), tof, swap)]]]]])

RecordsBytes(k) ==
    LET map == RefMaps[k.lib][k.class][k.type][k.tof][k.swap]
    IN  [o \in { p \in 0..(Need(k) - 1) : map[p % ToSize(k)] # Padding } |->
            (o \div ToSize(k)) * FromSize(k) + map[o % ToSize(k)]]

Expected(k) == CASE k.type \in {"VDEF", "VNEED"} -> VersionBytes(k)
                 [] k.type = "NOTE" -> NotesBytes(k)
                 [] k.type = "GNUHASH" -> TableOfWords(k)
                 [] OTHER -> RecordsBytes(k)

-----------------------------------------------------------------------------
TypeOK ==
    /\ mem \in [0..Top(call) -> Int]
    /\ pc \in {"called", "records", "head", "aux", "notes", "hash", "done"}
    /\ done \in Nat
    /\ field \in Nat
    /\ walk \in [off : Nat, next : Nat, aoff : Nat, cnt : Nat, anext : Nat]
    /\ dst.d_size \in Nat
    /\ ok \in BOOLEAN

(* Buffers of which one begins in the other are refused by elftoolchain,   *)
(* for lib they are the application's mistake.                             *)
Clear(k) == k.lib = "lib" => ~Overlap(k)

(* lib turns a number of two or four bytes into the file's byte order byte *)
(* by byte and reads it again for each.  Over itself, the latter half of   *)
(* it takes the bytes that the first half has just been given.             *)
OverItself(k) == k.lib = "lib" /\ k.tof /\ k.swap /\ k.db = k.sb
LatterHalf(k, o) ==
    \E n \in PlanOf(k).number :
        LET at == To(PlanOf(k), k.tof).at[n]
            w == PlanOf(k).width[n]
        IN  w \in {2, 4} /\ at + w \div 2 <= o /\ o < at + w
LostBytes(k) ==
    IF OverItself(k) /\ Translator(k) = "records"
    THEN { o \in 0..(Need(k) - 1) : LatterHalf(k, o % ToSize(k)) } ELSE {}

(* A call that succeeds has translated everything: each member and number, *)
(* in place or into another buffer, whatever the two layouts and whichever *)
(* record was converted first, is what the other library's declarations    *)
(* say it is, each record of a version chain once, each note's header once *)
(* and nothing else of it.  The exception is the latter half of the small  *)
(* numbers that lib turns round over themselves.                           *)
TranslatedExactly ==
    (pc = "done" /\ ok /\ Clear(call) /\ (call.type \in {"VDEF", "VNEED"} => Disjoint(call)))
        => LET was == Was(call)   from == Expected(call)
           IN  /\ \A o \in DOMAIN from \ LostBytes(call) : mem[call.db + o] = was[call.sb + from[o]]
               /\ dst = [d_type |-> call.type, d_size |-> Need(call)]

(* A table that is whole is never refused: chains that end where their     *)
(* links and counts say, their records apart, notes with all their         *)
(* padding, a hash table with all its words, whichever byte order they     *)
(* come in.                                                                *)
WholeVersions(k) ==
    /\ 0 \in HeadsOf(k) /\ Disjoint(k)
    /\ \A x \in VersionRecords(k) : x.at % 4 = 0
    /\ \A h \in HeadsOf(k) :
          /\ HeadSays(k, h, "vd_version", "vn_version") = 1
          /\ HeadSays(k, h, "vd_aux", "vn_aux") >= HeadSize(k)
          /\ HeadSays(k, h, "vd_cnt", "vn_cnt") = Cardinality(AuxesOf(k, h))
          /\ \E a \in AuxesOf(k, h) : AuxSays(k, a, "vda_next", "vna_next") = 0
          /\ LET next == HeadSays(k, h, "vd_next", "vn_next")
             IN  next = 0 \/ h + next \in HeadsOf(k)

Whole(k) ==
    CASE k.type \in {"VDEF", "VNEED"} -> WholeVersions(k)
      [] k.type = "NOTE" ->
            k.tof \/ (k.size >= NoteHdrSize /\ \A p \in NotesOf(k) : NoteEnd(k, p) <= k.size)
      [] k.type = "GNUHASH" /\ k.class = 64 ->
            /\ k.size >= HashHdrSize
            /\ HashHdrSize + 8 * Says(k, 0, Packed(64, HashHdr), "gh_maskwords", 4)
                           + 4 * Says(k, 0, Packed(64, HashHdr), "gh_nbuckets", 4) <= k.size
      [] OTHER -> TRUE

WholeTablesTranslate == (pc = "done" /\ ~ok /\ Accepts(call) /\ Clear(call)) => ~Whole(call)

(* Nothing outside the destination's records is ever written: neither the  *)
(* source, when it is elsewhere, nor what is behind the last record or     *)
(* behind the end of the buffer, nor anything at all by a call that is     *)
(* refused for its arguments.                                              *)
StaysInside ==
    LET was == Was(call)
    IN  IF Accepts(call)
        THEN \A a \in DOMAIN mem \ (call.db..(call.db + Least(Need(call), call.room) - 1)) :
                mem[a] = was[a]
        ELSE mem = was

(* While records are converted one over the other, those that are done are *)
(* exact and those to come have not been overwritten.                      *)
Exact(k, m, r) ==
    \A o \in DOMAIN RecordMap(k) :
        RecordMap(k)[o] # Padding => m[DstAt(k, r) + o] = Was(k)[SrcAt(k, r) + RecordMap(k)[o]]
Intact(k, m, r) ==
    \A o \in 0..(From(PlanOf(k), k.tof).size - 1) : m[SrcAt(k, r) + o] = Was(k)[SrcAt(k, r) + o]

ConvertedSoFar ==
    (call.lib = "elftoolchain" /\ pc = "records" /\ ~CopiedAtOnce(call)) =>
        \A i \in 0..(Count(call) - 1) :
            IF i < done THEN Exact(call, mem, Record(call, i)) ELSE Intact(call, mem, Record(call, i))
=============================================================================
