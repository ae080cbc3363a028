------------------------------ MODULE MCPmCall ------------------------------
(***************************************************************************)
(* An instance of PmCall with words of 12 bits, which hold the numbers of  *)
(* the APIs; addresses and sizes lie on both sides of a word's end.        *)
(***************************************************************************)
EXTENDS PmCall

MCAddresses == {0, Base - 1, Base, 3 * Base + 5, Base * Base - 1}
MCSizes == {1, Base - 1, Base + 1}
MCFlags == {0, 5}
MCStatuses == {0, Base, 4, 19, 2002, 2004, Base - 2, Base - 1, Base * Base - 1}
MCValues == {0, Base + 2 * Half + 1}
=============================================================================
