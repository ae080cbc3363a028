----------------------------- MODULE MCStartup -----------------------------
(***************************************************************************)
(* An instance of Startup: each boot line of up to MaxLine characters, two *)
(* polls, and a build with and one without the wait for a debugger.        *)
(***************************************************************************)
EXTENDS Startup
CONSTANTS MaxLine
Lines == {NoLine} \union UNION {[1..n -> {Blank, Char}] : n \in 0..MaxLine}
Options ==
  {[cmd |-> TRUE, start |-> TRUE, wait |-> FALSE], [cmd |-> FALSE, start |-> TRUE, wait |-> TRUE]}
=============================================================================
