----------------------------- MODULE MCPmShell -----------------------------
(***************************************************************************)
(* An instance of PmShell: the lines of up to three words that pick a      *)
(* command, and the loads with up to four words behind them.               *)
(***************************************************************************)
EXTENDS PmShell, SequencesExt

\* Whole names, abbreviations of one command and of several, and others.
Picks == {"", "f", "fp", "fpga", "a", "v", "help", "l", "load", "s", "i", "x"}

FpgaWords == FpgaOptions \cup {"-", "-p1", "f.bit"}
AcapWords == {"-i", "--info", "-p", "--devkey", "f.pdi"}

MCLines ==
  UNION {
    [1..1 -> Picks], [1..2 -> Picks], [1..3 -> Picks], {<<>>},
    {<<"fpga", "load">> \o w : w \in SeqOf(FpgaWords, 4)},
    {<<"a", "l">> \o w : w \in SeqOf(AcapWords, 4)},
    {<<"a", "i">> \o w : w \in SeqOf(AcapWords, 2)}}
=============================================================================
