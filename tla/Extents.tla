------------------------------ MODULE Extents ------------------------------
(***************************************************************************)
(* The extent list of elftoolchain's elf_update: the regions of the new    *)
(* file, in the order of their offsets, and the insertion of one more.     *)
(***************************************************************************)
EXTENDS Naturals, Sequences

Extent == [ex_start : Nat, ex_size : Nat \ {0}, ex_type : {"ehdr", "phdr", "section", "shdr"},
           ex_scn : Nat]

EndOf(x) == x.ex_start + x.ex_size

Before(x, y) == EndOf(x) <= y.ex_start

(* Ascending, no two of them share a byte.                                 *)
Ordered(xs) == \A i, j \in DOMAIN xs : i < j => Before(xs[i], xs[j])

(* The extents the search passes: those entirely before start.  The first  *)
(* it does not pass decides: the new one ends before it or overlaps it.    *)
Passed(xs, start) ==
    CHOOSE n \in 0 .. Len(xs) :
        /\ \A i \in 1 .. n : EndOf(xs[i]) <= start
        /\ n < Len(xs) => EndOf(xs[n + 1]) > start

LooksAtFirst(xs, x) == \* mutant
    xs = << >> \/ EndOf(x) <= xs[1].ex_start \/ EndOf(xs[1]) <= x.ex_start

Unused(xs, x) ==
    LET n == Passed(xs, x.ex_start)
    IN  n = Len(xs) \/ EndOf(x) <= xs[n + 1].ex_start

Inserted(xs, x) ==
    LET n == Passed(xs, x.ex_start)
    IN  SubSeq(xs, 1, n) \o << x >> \o SubSeq(xs, n + 1, Len(xs))
=============================================================================
