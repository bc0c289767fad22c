---------------------------- MODULE MCAccessors ----------------------------
(* Both libraries, every kind of record and header, scaled words.          *)
EXTENDS Accessors
=============================================================================
