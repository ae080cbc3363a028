------------------------------ MODULE PmShell ------------------------------
(***************************************************************************)
(* The command line of the "pm" shell command (rtems/pm/pm-shell.c): the   *)
(* search of the two tables of commands by prefix and the option loops of  *)
(* `pm fpga load` and `pm acap load`, up to the call that does the work.   *)
(*                                                                         *)
(* A word is a string; whether one is a prefix of another, and whether it  *)
(* begins with a dash, is all that is asked of its characters.             *)
(***************************************************************************)
EXTENDS Naturals, Sequences, FiniteSets

CONSTANT Lines   \* the words that are typed behind "pm"

ASSUME LinesAssumption == \A l \in Lines : l \in Seq(STRING)

VARIABLES
  line,    \* argv + 1 of pm_shell_command
  args,    \* the words that are left: argv and argc
  at,      \* the table or the command that has the word
  flags,   \* the flags of `pm fpga load`
  outcome  \* what has come of the line

vars == <<line, args, at, flags, outcome>>

\* top_subcmds, fpga_subcmds, acap_subcmds
Tables == [
  pm   |-> {"version", "chipid", "features", "fpga", "acap"},
  fpga |-> {"load", "status"},
  acap |-> {"load", "info"}]

Abbreviates(word, name) ==
  Len(word) <= Len(name) /\ SubSeq(name, 1, Len(word)) = word

Matches(table, word) == {c \in Tables[table] : Abbreviates(word, c)}

\* Where a command of a table leads: to the next table, or to the function.
Target(table, c) == IF table = "pm" THEN <<c>> ELSE <<table, c>>
IsTable(where) == Len(where) = 1 /\ where[1] \in DOMAIN Tables

\* The options of the two loads.  A flag of `pm fpga load` is known by the one
\* option that sets it.
FpgaOptions == {"-p", "--auth-ddr", "--auth-ocm", "--userkey", "--devkey"}

\* `pm acap load` accepts -i and --info and does nothing with them.
Options(where) == IF where = <<"fpga", "load">> THEN FpgaOptions ELSE {"-i", "--info"}

\* flags |= ...
With(where, set, o) == IF where = <<"fpga", "load">> THEN set \cup {o} ELSE set

\* Options that exclude each other.
Rivals == {{"--auth-ddr", "--auth-ocm"}, {"--userkey", "--devkey"}}

\* Each pair is checked in one order only.
ExcludedOneWay(set, o) ==
  \/ o = "--auth-ddr" /\ "--auth-ocm" \in set
  \/ o = "--userkey" /\ "--devkey" \in set

\* The flag of an option's rival is set already.
Excluded(set, o) == \E pair \in Rivals : o \in pair /\ (pair \ {o}) \cap set # {}

Dashed(word) == Len(word) > 0 /\ SubSeq(word, 1, 1) = "-"

None == [kind |-> "none"]
Error == [kind |-> "error"]
Help == [kind |-> "help"]
Run(where, set, file) == [kind |-> "run", command |-> where, flags |-> set, file |-> file]

Init ==
  /\ line = <<>> /\ args = <<>>
  /\ at = <<>>
  /\ flags = {}
  /\ outcome = None

\* pm_shell_command
Type(l) ==
  /\ at = <<>>
  /\ line' = l /\ args' = l
  /\ at' = <<"pm">>
  /\ flags' = {}
  /\ UNCHANGED outcome

\* The line comes to its end with o.
Finish(o) ==
  /\ outcome' = o
  /\ UNCHANGED <<line, args, at, flags>>

\* pm_shell_command returns and the shell asks for the next line.
Return ==
  /\ outcome # None
  /\ line' = <<>> /\ args' = <<>>
  /\ at' = <<>>
  /\ flags' = {}
  /\ outcome' = None

(***************************************************************************)
(* pm_shell_subcommand                                                     *)
(***************************************************************************)
AskHelp ==
  /\ IsTable(at)
  /\ args # <<>> => args[1] = "help"
  /\ Finish(Help)

Searched == IsTable(at) /\ args # <<>> /\ args[1] # "help"

\* No command begins like the word, or more than one does.
NoCommand ==
  /\ Searched
  /\ Cardinality(Matches(at[1], args[1])) # 1
  /\ Finish(Error)

\* The first match is taken, and no other is looked for.
SelectFirst ==
  /\ Searched
  /\ \E c \in Matches(at[1], args[1]) : at' = Target(at[1], c)
  /\ args' = Tail(args)
  /\ UNCHANGED <<line, flags, outcome>>

Select ==
  /\ Searched
  /\ \E c \in Tables[at[1]] :
       /\ Matches(at[1], args[1]) = {c}
       /\ at' = Target(at[1], c)
  /\ args' = Tail(args)
  /\ UNCHANGED <<line, flags, outcome>>

(***************************************************************************)
(* The commands                                                            *)
(***************************************************************************)
Loads == {<<"fpga", "load">>, <<"acap", "load">>}
Queries == {<<"version">>, <<"chipid">>, <<"features">>, <<"fpga", "status">>}

\* These take no notice of further words.
Query ==
  /\ at \in Queries
  /\ Finish(Run(at, {}, "none"))

Info ==
  /\ at = <<"acap", "info">>
  /\ Finish(IF Len(args) = 1 THEN Run(at, {}, args[1]) ELSE Error)

FileMissing ==
  /\ at \in Loads
  /\ args = <<>>
  /\ Finish(Error)

\* A word that is alone is the file, with or without a dash: the option loop
\* is not entered.  From then on the loop's state is at = <<load, "options">>.
OnlyFile ==
  /\ at \in Loads
  /\ Len(args) = 1
  /\ Finish(Run(at, flags, args[1]))

\* "help" abbreviates no command, and each option begins with a dash.
ASSUME WordsAssumption ==
  /\ \A table \in DOMAIN Tables : Matches(table, "help") = {}
  /\ \A where \in Loads : \A o \in Options(where) : Dashed(o)

Loop(where) == Append(where, "options")

EnterLoop ==
  /\ at \in Loads
  /\ Len(args) > 1
  /\ at' = Loop(at)
  /\ UNCHANGED <<line, args, flags, outcome>>

\* The option is handled and stays the first word.
TakeOptionStays(where) ==
  /\ at = Loop(where)
  /\ args # <<>>
  /\ args[1] \in Options(where)
  /\ ~ Excluded(flags, args[1])
  /\ flags' = With(where, flags, args[1])
  /\ UNCHANGED <<line, args, at, outcome>>

\* One turn of the loop.
TakeOption(where) ==
  /\ at = Loop(where)
  /\ args # <<>>
  /\ args[1] \in Options(where)
  /\ ~ Excluded(flags, args[1])
  /\ flags' = With(where, flags, args[1])
  /\ args' = Tail(args)
  /\ UNCHANGED <<line, at, outcome>>

BadOption(where) ==
  /\ at = Loop(where)
  /\ args # <<>>
  /\ Dashed(args[1])
  /\ args[1] \notin Options(where) \/ Excluded(flags, args[1])
  /\ Finish(Error)

\* The end of the loop: one word must be left.
LeaveLoop(where) ==
  /\ at = Loop(where)
  /\ args # <<>> => ~ Dashed(args[1])
  /\ Finish(IF Len(args) = 1 THEN Run(where, flags, args[1]) ELSE Error)

Command ==
  /\ outcome = None
  /\ \/ AskHelp \/ NoCommand \/ Select
     \/ Query \/ Info
     \/ FileMissing \/ OnlyFile \/ EnterLoop
     \/ \E where \in Loads : TakeOption(where) \/ BadOption(where) \/ LeaveLoop(where)

Next == Command \/ Return \/ \E l \in Lines : Type(l)

Spec == Init /\ [][Next]_vars

\* The shell session is scheduled.
FairSpec == Spec /\ WF_vars(Command \/ Return)

(***************************************************************************)
(* Properties                                                              *)
(***************************************************************************)
Functions == Queries \cup Loads \cup {<<"acap", "info">>}

TypeOK ==
  /\ line \in Seq(STRING)
  /\ args \in Seq(STRING)
  /\ at \in {<<>>, <<"pm">>, <<"fpga">>, <<"acap">>} \cup Functions \cup {Loop(w) : w \in Loads}
  /\ flags \subseteq FpgaOptions
  /\ outcome.kind \in {"none", "error", "help", "run"}

\* Flags that exclude each other never go to the firmware together, in
\* whatever order and however often their options are given.
Exclusive ==
  outcome.kind = "run" => \A pair \in Rivals : ~ (pair \subseteq outcome.flags)

\* What a line means when it is read as a whole: the words in front are
\* abbreviations of one command each, the last word of a load is its file and
\* those between are its options.
AsksHelp(l) ==
  \/ l = <<>>
  \/ l # <<>> /\ l[1] = "help"
  \/ /\ l # <<>> /\ Matches("pm", l[1]) \in {{"fpga"}, {"acap"}}
     /\ Len(l) > 1 => l[2] = "help"

Names(l, f) ==
  /\ Len(f) <= Len(l)
  /\ Matches("pm", l[1]) = {f[1]}
  /\ Len(f) = 2 => Matches(f[1], l[2]) = {f[2]}

LoadMeanings(f, words) ==
  LET file == words[Len(words)]
      given == {words[i] : i \in 1..Len(words) - 1} IN
  IF /\ given \subseteq Options(f)
     /\ given # {} => ~ Dashed(file)
     /\ \A pair \in Rivals : ~ (pair \subseteq given)
    THEN {Run(f, given \cap FpgaOptions, file)}
    ELSE {}

Meanings(l) ==
  (IF AsksHelp(l) THEN {Help} ELSE {}) \cup
  UNION {LET words == SubSeq(l, Len(f) + 1, Len(l)) IN
         CASE f \in Queries -> {Run(f, {}, "none")}
           [] f \in Loads /\ words # <<>> -> LoadMeanings(f, words)
           [] f = <<"acap", "info">> /\ Len(words) = 1 -> {Run(f, {}, words[1])}
           [] OTHER -> {} : f \in {g \in Functions : Names(l, g)}}

\* A line has one meaning at most; it is obeyed as it reads, and an error is
\* reported only for a line that has none.
LineObeyed ==
  outcome # None => Meanings(line) = IF outcome = Error THEN {} ELSE {outcome}

\* The command comes back to the shell: every turn of an option loop takes a
\* word.
LineEnds == at # <<>> ~> at = <<>>
=============================================================================
