----------------------------- MODULE MCReports -----------------------------
(***************************************************************************)
(* Both reports, one of them at a time: each text of up to TextLen         *)
(* characters, tables of up to two lines with types at the ends of their   *)
(* labels, and up to two image names around the limits of their length.  *)
(***************************************************************************)
EXTENDS ZoclReport, PmReport
CONSTANTS TextLen
Plain(t) == [sections |-> 0, complete |-> TRUE, mem |-> <<>>, ip |-> <<>>, conn |-> 0, text |-> t]
Tables == [sections : 0..2, complete : BOOLEAN, mem : {<<>>, <<3>>, <<11, 12>>},
           ip : {<<>>, <<8>>, <<7, 4>>}, conn : 0..1, text : {<<>>, <<"open", "close">>}]
MCXclbins == {Plain(t) : t \in UNION {[1..n -> Chars] : n \in 1..TextLen}} \union Tables

Names == [own : {0, 3, 4, 15, 16}, spill : {0, 1, 48, 49}]
MCImageLists == UNION {[1..n -> Names] : n \in 0..2}

ReportsInit ==
  \/ Init /\ NoReport
  \/ /\ ReportInit
     /\ xclbin = Plain(<<>>) /\ level = 0 /\ pc = "done" /\ i = 0 /\ rows = <<>>
     /\ indent = 2 /\ last = "lf" /\ lineLen = 0 /\ col = 0 /\ depth = 0 /\ drift = 0

ReportsNext ==
  \/ Next /\ UNCHANGED imageVars
  \/ ReportNext /\ UNCHANGED vars

ReportsSpec == ReportsInit /\ [][ReportsNext]_<<vars, imageVars>>
=============================================================================
