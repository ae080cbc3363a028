----------------------------- MODULE MCPmImage -----------------------------
(***************************************************************************)
(* An instance of PmImage with words of two bits: tables of four words,    *)
(* two of them summed, and a boot header of two words, one of them summed, *)
(* with its checksum behind them.  Neither test implies the other.         *)
(***************************************************************************)
EXTENDS PmImage
=============================================================================
