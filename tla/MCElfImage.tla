----------------------------- MODULE MCElfImage -----------------------------
(* Two sections: apart, with bytes in common, the first without any, and   *)
(* the second cut off by the end of the file.                              *)
EXTENDS ElfImage

Layouts == {[length |-> 4, offset |-> << 1, 3 >>, size |-> << 2, 1 >>],
            [length |-> 4, offset |-> << 1, 2 >>, size |-> << 2, 2 >>],
            [length |-> 3, offset |-> << 1, 1 >>, size |-> << 0, 2 >>],
            [length |-> 3, offset |-> << 1, 2 >>, size |-> << 1, 2 >>]}
=============================================================================
