--------------------------- MODULE MCTranslation ---------------------------
(* The calls the runs make: every type, with the buffers in place, apart   *)
(* and overlapping, and small drawn tables for what is walked.             *)
EXTENDS Translation

Base == 8
Libraries == {"lib", "elftoolchain"}

Shape(lib, c, t, tof, swap) ==
    [lib |-> lib, class |-> c, type |-> t, tof |-> tof, swap |-> swap, size |-> 0, room |-> 0,
     sb |-> Base, db |-> Base, wrong |-> "no", image |-> <<>>]

Aligned(n) == RoundUp(n, 8)

(* A call with its source of this size, its buffers at these places and a  *)
(* destination that is larger or smaller than needed by "more".            *)
Sized(k, n, image, at, more) ==
    LET s == [k EXCEPT !.size = n, !.image = image, !.sb = at[1], !.db = at[2]]
    IN  [s EXCEPT !.room = Need(s) + more]

InPlace  == <<Base, Base>>
Apart(k, n) == LET need == (n \div FromSize(k)) * ToSize(k)
               IN  { <<Base, Aligned(Base + n)>>, <<Aligned(Base + need), Base>> }

-----------------------------------------------------------------------------
(* Records: none, one and two of every type.                               *)

RecordShapes ==
    { Shape(lib, c, t, tof, swap) : lib \in Libraries, c \in Class, tof \in BOOLEAN,
                                    swap \in BOOLEAN, t \in DOMAIN CvtTable(32) \cup DOMAIN CvtTable(64) }

Known(k) == k.type \in (IF k.lib = "lib" THEN DOMAIN LibTable(k.class) ELSE DOMAIN CvtTable(k.class))

RecordCalls ==
    UNION { { Sized(k, n * FromSize(k), <<>>, InPlace, 0) : n \in 0..2 }
            \cup { Sized(k, 2 * FromSize(k), <<>>, at, 0) : at \in Apart(k, 2 * FromSize(k)) }
            : k \in { s \in RecordShapes : Known(s) } }

(* Destinations too small and too large, half a record.                    *)
TightCalls ==
    UNION { LET n == 2 * FromSize(k)
            IN  { Sized(k, n, <<>>, at, more) : at \in {InPlace} \cup Apart(k, n + 8), more \in {-1, 8} }
            \cup { Sized(k, n - 1, <<>>, InPlace, 8) }
            : k \in { s \in RecordShapes : Known(s) /\ s.swap } }

(* Buffers that overlap and buffers in odd places: elftoolchain refuses    *)
(* them, in lib they are the application's mistake.                        *)
OddCalls ==
    UNION { LET n == 2 * FromSize(k)
            IN  { Sized(k, n, <<>>, at, 0) : at \in { <<Base, Base + 8>>, <<Base + 8, Base>>,
                                                      <<Base + 1, Base + 1>>, <<Base, Base + n>>,
                                                      <<Base + 1, Aligned(Base + n + 1)>>,
                                                      <<Base, Aligned(Base + n) + 1>> } }
            : k \in { s \in RecordShapes : Known(s) /\ s.swap /\ s.lib = "elftoolchain" } }

WrongCalls ==
    { [Sized(Shape(lib, 32, "SYM", tof, TRUE), 32, <<>>, InPlace, 0) EXCEPT !.wrong = w] :
        lib \in Libraries, tof \in BOOLEAN, w \in {"encoding", "version", "buffer"} }
    \cup { [Shape(lib, 32, "XWORD", tof, TRUE) EXCEPT !.size = 8, !.room = 8] :
        lib \in Libraries, tof \in BOOLEAN }

-----------------------------------------------------------------------------
(* Tables: link fields where they are drawn, elsewhere a byte of its own.  *)

Byte(v, i, w, msb) == (v \div (256 ^ (IF msb THEN w - 1 - i ELSE i))) % 256

Drawn(k, n, numbers) ==
    [o \in 0..(n - 1) |->
        IF \E x \in numbers : x.at <= o /\ o < x.at + x.w
        THEN LET x == CHOOSE y \in numbers : y.at <= o /\ o < y.at + y.w
             IN  Byte(x.v, o - x.at, x.w, k.swap /\ ~k.tof)
        ELSE o + 1]

NumberAt(k, base, fields, n, v) ==
    [at |-> base + Packed(k.class, fields).at[n], w |-> Widths(k.class, fields)[n], v |-> v]

DrawHead(k, at, version, cnt, aux, next) ==
    { NumberAt(k, at, HeadFields(k), Versioned(k, "vd_version", "vn_version"), version),
      NumberAt(k, at, HeadFields(k), Versioned(k, "vd_cnt", "vn_cnt"), cnt),
      NumberAt(k, at, HeadFields(k), Versioned(k, "vd_aux", "vn_aux"), aux),
      NumberAt(k, at, HeadFields(k), Versioned(k, "vd_next", "vn_next"), next) }
DrawAux(k, at, next) ==
    { NumberAt(k, at, AuxFields(k), Versioned(k, "vda_next", "vna_next"), next) }

(* A head, two auxiliary records, a second head with one.                  *)
VersionTable(k, cut, version, cnt, aux, next, anext) ==
    LET h == HeadSize(k)
        a == AuxSize(k)
        second == h + 2 * a
        n == second + h + a - cut
    IN  Sized(k, n,
              Drawn(k, n, DrawHead(k, 0, version, cnt, aux, next)
                          \cup DrawAux(k, h, anext) \cup DrawAux(k, h + a, 0)
                          \cup DrawHead(k, second, 1, 1, h, 0)
                          \cup DrawAux(k, second + h, 0)),
              InPlace, 0)

Elsewhere(k) == [k EXCEPT !.db = Aligned(Base + k.size)]

VersionShapes ==
    { Shape(lib, c, t, tof, swap) : lib \in Libraries, c \in Class, t \in {"VDEF", "VNEED"},
                                    tof \in BOOLEAN, swap \in BOOLEAN }

VersionTables(k) ==
    LET h == HeadSize(k)
        a == AuxSize(k)
    IN  { VersionTable(k, 0, 1, cnt, aux, next, anext) :
            cnt \in 0..2, aux \in {0, h, h + a}, next \in {0, h + 2 * a, 65536},
            anext \in {0, a, 2} }
        \cup { VersionTable(k, 4, 1, 2, h, next, anext) :
                 next \in {0, h + 2 * a}, anext \in {a, 2} }
        \cup { VersionTable(k, cut, v, 1, h, next, 0) :
                 cut \in {h + a - 4, h + 3 * a}, v \in {1, 2}, next \in {0, h, h + 2 * a} }

VersionCalls ==
    UNION { { IF k.class = 32 THEN t ELSE Elsewhere(t) : t \in VersionTables(k) }
            : k \in { s \in VersionShapes : s.swap } }
    \cup UNION { { IF k.class = 32 THEN Elsewhere(t) ELSE t :
                     t \in { VersionTable(k, cut, 1, 2, HeadSize(k), next, AuxSize(k)) :
                               cut \in {0, 4}, next \in {0, HeadSize(k) + 2 * AuxSize(k)} } }
                 : k \in VersionShapes }

-----------------------------------------------------------------------------
(* Two notes with names and descriptions of these sizes, and a tail.       *)

NoteTable(k, name1, desc1, name2, desc2, tail) ==
    LET Hdr(at, name, desc) == { NumberAt(k, at, NoteHdr, "n_namesz", name),
                                 NumberAt(k, at, NoteHdr, "n_descsz", desc) }
        second == NoteHdrSize + RoundUp(name1, 4) + RoundUp(desc1, 4)
        n == second + tail
    IN  Sized(k, n, Drawn(k, n, Hdr(0, name1, desc1) \cup Hdr(second, name2, desc2)), InPlace, 0)

NoteCalls ==
    UNION { UNION { {t, Elsewhere(t)} :
                    t \in { NoteTable(k, n1, d1, n2, d2, tail) :
                              n1 \in {0, 3}, d1 \in {0, 5}, n2 \in {2, 70000}, d2 \in {0, 6},
                              tail \in {0, 4, 12, 14, 16, 22, 24} } }
            : k \in { Shape("elftoolchain", 64, "NOTE", tof, swap) :
                        tof \in BOOLEAN, swap \in BOOLEAN } }

HashTable(k, buckets, words, n) ==
    Sized(k, n, Drawn(k, n, { NumberAt(k, 0, HashHdr, "gh_nbuckets", buckets),
                              NumberAt(k, 0, HashHdr, "gh_maskwords", words) }), InPlace, 0)

HashCalls ==
    UNION { UNION { {t, Elsewhere(t)} :
                    t \in { HashTable(k, b, w, n) : b \in {0, 1, 70000}, w \in {0, 1, 2},
                                                    n \in {12, 16, 22, 28, 36, 42} } }
            : k \in { Shape("elftoolchain", c, "GNUHASH", tof, swap) :
                        c \in Class, tof \in BOOLEAN, swap \in BOOLEAN } }

AllCalls == RecordCalls \cup TightCalls \cup OddCalls \cup WrongCalls
              \cup VersionCalls \cup NoteCalls \cup HashCalls
=============================================================================
