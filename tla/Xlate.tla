------------------------------- MODULE Xlate -------------------------------
(***************************************************************************)
(* elf32_xlatetom, elf32_xlatetof and their 64-bit and gelf forms: one     *)
(* call, in either library, from its checks to its answer.  Memory is a    *)
(* function from addresses to bytes.  A record's bytes are told apart by   *)
(* using their address as their value; tables that are walked (versions,   *)
(* notes, hash) hold real bytes, least significant first in host order.    *)
(* One step converts a record (elftoolchain reads it whole before it       *)
(* writes) or a member (lib copies member by member; a number of two or    *)
(* four bytes for the file byte by byte).                                  *)
(***************************************************************************)
EXTENDS Layouts

CONSTANTS Calls,    \* the calls: type, sizes, places of the buffers, contents
          Huge      \* stands for every number of more than two bytes

VARIABLES call, mem, pc, done, field, walk, dst, ok
vars == <<call, mem, pc, done, field, walk, dst, ok>>

Walked == {"VDEF", "VNEED", "NOTE", "GNUHASH"}
Least(m, n) == IF m < n THEN m ELSE n

(* What an application can pass: any type and sizes, buffers anywhere.  In *)
(* a table that is walked every number of more than two bytes is beyond    *)
(* the end.                                                                *)
IsCall(k) ==
    /\ k.lib \in {"lib", "elftoolchain"} /\ k.class \in Class
    /\ k.type \in Walked \cup DOMAIN CvtTable(32) \cup DOMAIN CvtTable(64)
    /\ k.tof \in BOOLEAN /\ k.swap \in BOOLEAN
    /\ {k.size, k.room, k.sb, k.db} \subseteq Nat
    /\ k.wrong \in {"no", "encoding", "version", "buffer"}
    /\ k.type \in Walked => k.size <= Huge /\ k.image \in [0..(k.size - 1) -> 0..255]

ASSUME HugeAssumption == Huge \in Nat /\ Huge <= 65536
ASSUME CallsAssumption == \A k \in Calls : IsCall(k)

-----------------------------------------------------------------------------
(* Sizes: a table of bytes for what is walked, records for the rest.       *)

CvtPlans == Table([c \in Class |-> [t \in DOMAIN CvtTable(c) |-> ToolchainPlan(c, t)]])
LibPlans == Table([c \in Class |-> [t \in DOMAIN LibTable(c) |-> LibPlan(c, t)]])

fsize(c, t) == IF t \in Walked THEN 1
               ELSE IF t \in DOMAIN CvtPlans[c] THEN CvtPlans[c][t].file.size ELSE 0
msize(c, t) == IF t \in Walked THEN 1 ELSE CvtPlans[c][t].mem.size
malign(c, t) == CASE t = "GNUHASH" -> c \div 8
                  [] t \in Walked  -> 4
                  [] OTHER         -> CvtPlans[c][t].mem.align

Supported(k) == IF k.lib = "lib" THEN k.type \in DOMAIN LibPlans[k.class] \cup {"VDEF", "VNEED"}
                ELSE fsize(k.class, k.type) # 0

(* A 32-bit hash table is converted as words.                              *)
WordTable(k) == k.lib = "elftoolchain" /\ k.type = "GNUHASH" /\ k.class = 32
PlanOf(k) == IF k.lib = "lib" THEN LibPlans[k.class][k.type]
             ELSE CvtPlans[k.class][IF WordTable(k) THEN "WORD" ELSE k.type]

FromSize(k) == IF k.type \in Walked THEN 1 ELSE From(PlanOf(k), k.tof).size
ToSize(k)   == IF k.type \in Walked THEN 1 ELSE To(PlanOf(k), k.tof).size
Need(k)  == (k.size \div FromSize(k)) * ToSize(k)
Count(k) == IF WordTable(k) THEN k.size \div 4 ELSE k.size \div FromSize(k)

-----------------------------------------------------------------------------
(* The checks before anything is converted.                                *)

OverlapsBehind(k) == k.db > k.sb /\ k.sb + k.size > k.db
Overlap(k) == k.db # k.sb /\ k.db + k.room > k.sb /\ k.sb + k.size > k.db

IgnoresRoom(k) == k.wrong = "no" /\ Supported(k) /\ k.size % FromSize(k) = 0
ToolchainAccepts(k) ==
    /\ k.wrong = "no"
    /\ Supported(k)
    /\ k.size % FromSize(k) = 0
    /\ k.room >= Need(k)
    /\ ~Overlap(k)
    /\ (IF k.tof THEN k.sb ELSE k.db) % malign(k.class, k.type) = 0

LibAccepts(k) ==
    /\ k.wrong = "no"
    /\ Supported(k)
    /\ k.room >= Need(k)

Accepts(k) == IF k.lib = "lib" THEN LibAccepts(k) ELSE ToolchainAccepts(k)

(* Nothing to do beyond the descriptor of the destination.                 *)
Ready(k) ==
    IF k.lib = "lib" THEN Need(k) = 0
    ELSE \/ k.size = 0
         \/ k.db = k.sb /\ ~k.swap /\ fsize(k.class, k.type) = msize(k.class, k.type)

Translator(k) == CASE k.type \in {"VDEF", "VNEED"} -> "head"
                   [] k.type = "NOTE" -> "notes"
                   [] k.type = "GNUHASH" /\ ~WordTable(k) -> "hash"
                   [] OTHER -> "records"

-----------------------------------------------------------------------------
Junk  == -1      \* what a structure's padding holds after *d = t
Blank == -2      \* a byte of no buffer, and of a destination not written yet

Top(k) == LET a == k.sb + k.size   b == k.db + k.room IN IF a < b THEN b ELSE a

InSrc(k, a) == k.sb <= a /\ a < k.sb + k.size
InDst(k, a) == k.db <= a /\ a < k.db + k.room

Original(k) ==
    [a \in 0..Top(k) |->
        IF ~InSrc(k, a) THEN Blank
        ELSE IF k.type \in Walked THEN k.image[a - k.sb]
        ELSE a]

Init ==
    /\ call \in Calls
    /\ mem = Original(call)
    /\ pc = "called"
    /\ done = 0 /\ field = 1
    /\ walk = [off |-> 0, next |-> 1, aoff |-> 0, cnt |-> 0, anext |-> 1]
    /\ dst = [d_type |-> "none", d_size |-> call.room]
    /\ ok = FALSE

(* Writes at d what "bytes" makes of the source bytes from s on.           *)
Convert(m, d, s, bytes) ==
    [a \in DOMAIN m |->
        IF a - d \notin DOMAIN bytes THEN m[a]
        ELSE IF bytes[a - d] = Padding THEN Junk ELSE m[s + bytes[a - d]]]

Same(n) == [o \in 0..(n - 1) |-> o]

Return(answer) == pc' = "done" /\ ok' = answer
Described == dst' = [d_type |-> call.type, d_size |-> Need(call)]

Refuse ==
    /\ pc = "called" /\ ~Accepts(call)
    /\ Return(FALSE)
    /\ UNCHANGED <<call, mem, done, field, walk, dst>>

(* elftoolchain describes the destination before it converts, lib after.   *)
Accept ==
    /\ pc = "called" /\ Accepts(call)
    /\ IF Ready(call) THEN Return(TRUE) ELSE pc' = Translator(call) /\ UNCHANGED ok
    /\ IF call.lib = "elftoolchain" \/ Ready(call) THEN Described ELSE UNCHANGED dst
    /\ UNCHANGED <<call, mem, done, field, walk>>

-----------------------------------------------------------------------------
(* Records and numbers.                                                    *)

Scalar(k) == PlanOf(k).order = <<"value">>

(* Bytes are never swapped, and elftoolchain copies numbers at once when   *)
(* there is nothing to swap.                                               *)
CopiedAtOnce(k) == \/ k.type = "BYTE"
                   \/ k.lib = "elftoolchain" /\ Scalar(k) /\ ~k.swap

CopyAtOnce ==
    /\ pc = "records" /\ CopiedAtOnce(call)
    /\ mem' = Convert(mem, call.db, call.sb, Same(Count(call) * To(PlanOf(call), call.tof).size))
    /\ Return(TRUE)
    /\ IF call.lib = "lib" THEN Described ELSE UNCHANGED dst
    /\ UNCHANGED <<call, done, field, walk>>

(* The next record: _tom of a structure begins with the last.              *)
NeverBackward(k) == FALSE
Backward(k) == ~k.tof /\ ~Scalar(k)
Record(k, i) == IF Backward(k) THEN Count(k) - 1 - i ELSE i

SrcAt(k, r) == k.sb + r * From(PlanOf(k), k.tof).size
DstAt(k, r) == k.db + r * To(PlanOf(k), k.tof).size

RecordMaps == Table([c \in Class |-> [t \in DOMAIN CvtTable(c) |-> [tof \in BOOLEAN |->
                 [swap \in BOOLEAN |-> RecordBytes(CvtPlans[c][t], tof, swap)]]]])
RecordMap(k) == RecordMaps[k.class][IF WordTable(k) THEN "WORD" ELSE k.type][k.tof][k.swap]

ConvertRecord ==
    /\ pc = "records" /\ call.lib = "elftoolchain" /\ ~CopiedAtOnce(call)
    /\ IF done = Count(call)
       THEN Return(TRUE) /\ UNCHANGED <<mem, done>>
       ELSE LET r == Record(call, done)
            IN  /\ mem' = Convert(mem, DstAt(call, r), SrcAt(call, r), RecordMap(call))
                /\ done' = done + 1
                /\ UNCHANGED <<pc, ok>>
    /\ UNCHANGED <<call, field, walk, dst>>

(* lib takes the records and their members backward when they grow.        *)
Grows(k) == FromSize(k) < ToSize(k)
LibRecord(k, i) == IF Grows(k) THEN Count(k) - 1 - i ELSE i
LibMember(k, i) == LET order == PlanOf(k).order
                   IN  order[IF Grows(k) THEN Len(order) + 1 - i ELSE i]

(* One byte of a number, which is read for each: what has been stored of   *)
(* it is read again where both are at one place.                           *)
su(m, to, i, from, j) == [m EXCEPT ![to + i] = m[from + j]]

store_u16(m, to, from, swap) ==
    IF swap THEN su(su(m, to, 0, from, 1), to, 1, from, 0)
            ELSE su(su(m, to, 1, from, 1), to, 0, from, 0)
store_u32(m, to, from, swap) ==
    IF swap THEN su(su(su(su(m, to, 0, from, 3), to, 1, from, 2), to, 2, from, 1), to, 3, from, 0)
            ELSE su(su(su(su(m, to, 3, from, 3), to, 2, from, 2), to, 1, from, 1), to, 0, from, 0)

(* Read into a number before it is written: all but the small numbers that *)
(* go to the file (those of eight bytes go through a function).            *)
Stored(k, n) == k.tof /\ n \in PlanOf(k).number /\ PlanOf(k).width[n] \in {2, 4}

MemberCopied(k, m, r, n) ==
    LET to == DstAt(k, r) + To(PlanOf(k), k.tof).at[n]
        from == SrcAt(k, r) + From(PlanOf(k), k.tof).at[n]
    IN  IF ~Stored(k, n)
        THEN Convert(m, DstAt(k, r), SrcAt(k, r), FieldBytes(PlanOf(k), n, k.tof, k.swap))
        ELSE IF PlanOf(k).width[n] = 2 THEN store_u16(m, to, from, k.swap)
        ELSE store_u32(m, to, from, k.swap)

CopyMember ==
    /\ pc = "records" /\ call.lib = "lib" /\ ~CopiedAtOnce(call)
    /\ LET r == LibRecord(call, done)
           n == LibMember(call, field)
           last == field = Len(PlanOf(call).order)
       IN  /\ mem' = MemberCopied(call, mem, r, n)
           /\ field' = IF last THEN 1 ELSE field + 1
           /\ done' = IF last THEN done + 1 ELSE done
           /\ IF last /\ done + 1 = Count(call)
              THEN Return(TRUE) /\ Described
              ELSE UNCHANGED <<pc, ok, dst>>
    /\ UNCHANGED <<call, walk>>
=============================================================================
