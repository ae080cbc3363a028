--------------------------- MODULE MCZoclRequest ---------------------------
(***************************************************************************)
(* An instance of ZoclRequest: three slots, lines of three characters, and *)
(* buffers up to one that has room for a fourth line; a word has five bits.*)
(***************************************************************************)
EXTENDS ZoclRequest

AllSizes == 0..12
=============================================================================
