--------------------------- MODULE PmShell_proofs ---------------------------
(***************************************************************************)
(* The types of PmShell, that flags which exclude each other are never     *)
(* given to the firmware together, and that a line is obeyed as it reads:  *)
(* for every set of lines.                                                 *)
(***************************************************************************)
EXTENDS PmShell, FiniteSetTheorems, SequenceTheorems, TLAPS

Places == {<<>>, <<"pm">>, <<"fpga">>, <<"acap">>} \cup Functions \cup {Loop(w) : w \in Loads}

\* No two flags exclude each other.
Compatible(set) == \A pair \in Rivals : ~ (pair \subseteq set)

\* The inductive invariant: the flags are compatible while they are collected,
\* and so are those of the outcome.
FlagsInv == TypeOK /\ Compatible(flags) /\ Exclusive

\* An option that is not excluded can be added.
LEMMA Added ==
  ASSUME NEW set, NEW o, Compatible(set), ~ Excluded(set, o)
  PROVE  Compatible(set \cup {o})
<1> SUFFICES ASSUME NEW pair \in Rivals, pair \subseteq set \cup {o} PROVE FALSE
  BY DEF Compatible
<1>1. CASE o \in pair
  <2>1. PICK x \in pair : x # o
    BY DEF Rivals
  <2>2. x \in (pair \ {o}) \cap set
    BY <2>1
  <2> QED BY <1>1, <2>2 DEF Excluded
<1>2. CASE o \notin pair
  BY <1>2 DEF Compatible
<1> QED BY <1>1, <1>2

\* The words of a table lead to a table or a function.
LEMMA TargetPlace ==
  ASSUME NEW where \in Places, IsTable(where), NEW c \in Tables[where[1]]
  PROVE  Target(where[1], c) \in Places
<1>1. where \in {<<"pm">>, <<"fpga">>, <<"acap">>}
  BY DEF Places, IsTable, Functions, Queries, Loads, Loop, Tables
<1>2. CASE where = <<"pm">>
  BY <1>2 DEF Tables, Target, Places, Functions, Queries
<1>3. CASE where = <<"fpga">>
  BY <1>3 DEF Tables, Target, Places, Functions, Queries, Loads
<1>4. CASE where = <<"acap">>
  BY <1>4 DEF Tables, Target, Places, Functions, Loads
<1> QED BY <1>1, <1>2, <1>3, <1>4

\* Flags of a command that takes none.
LEMMA NoFlags == Compatible({})
BY DEF Compatible, Rivals

LEMMA FlagsInit == Init => FlagsInv
BY NoFlags DEF Init, FlagsInv, TypeOK, Exclusive, None

\* An end of the line with compatible flags keeps the invariant.
LEMMA FinishKeeps ==
  ASSUME FlagsInv, NEW o, Finish(o),
         o = Error \/ o = Help \/ \E w, set, file : o = Run(w, set, file) /\ Compatible(set)
  PROVE  FlagsInv'
<1>1. UNCHANGED <<line, args, at, flags>> /\ outcome' = o
  BY DEF Finish
<1>2. outcome'.kind \in {"none", "error", "help", "run"}
  BY <1>1 DEF Error, Help, Run
<1>3. outcome'.kind = "run" => Compatible(outcome'.flags)
  BY <1>1 DEF Error, Help, Run
<1> QED BY <1>1, <1>2, <1>3 DEF FlagsInv, TypeOK, Exclusive, Compatible

LEMMA FlagsStep == FlagsInv /\ [Next]_vars => FlagsInv'
<1> SUFFICES ASSUME FlagsInv, [Next]_vars PROVE FlagsInv'
  OBVIOUS
<1>0. TypeOK /\ Compatible(flags) /\ Exclusive /\ at \in Places
  BY DEF FlagsInv, TypeOK, Places
<1>1. CASE UNCHANGED vars
  BY <1>0, <1>1 DEF vars, FlagsInv, TypeOK, Compatible, Exclusive
<1>2. ASSUME NEW l \in Lines, Type(l) PROVE FlagsInv'
  <2>1. l \in Seq(STRING)
    BY LinesAssumption
  <2> QED BY <1>0, <1>2, <2>1, NoFlags DEF Type, FlagsInv, TypeOK, Compatible, Exclusive
<1>3. CASE Return
  BY <1>0, <1>3, NoFlags DEF Return, FlagsInv, TypeOK, Compatible, Exclusive, None
<1>4. CASE AskHelp
  BY <1>4, FinishKeeps DEF AskHelp
<1>5. CASE NoCommand
  BY <1>5, FinishKeeps DEF NoCommand
<1>6. CASE Select
  <2>1. PICK c \in Tables[at[1]] : at' = Target(at[1], c)
    BY <1>6 DEF Select
  <2>2. at' \in Places
    BY <1>0, <1>6, <2>1, TargetPlace DEF Select, Searched
  <2>3. args' \in Seq(STRING)
    BY <1>0, <1>6 DEF Select, Searched, TypeOK
  <2> QED BY <1>0, <1>6, <2>2, <2>3 DEF Select, FlagsInv, TypeOK, Compatible, Exclusive, Places
<1>7. CASE Query
  BY <1>7, FinishKeeps, NoFlags DEF Query
<1>8. CASE Info
  BY <1>8, FinishKeeps, NoFlags DEF Info
<1>9. CASE FileMissing
  BY <1>9, FinishKeeps DEF FileMissing
<1>10. CASE OnlyFile
  BY <1>0, <1>10, FinishKeeps DEF OnlyFile
<1>11. CASE EnterLoop
  BY <1>0, <1>11 DEF EnterLoop, FlagsInv, TypeOK, Compatible, Exclusive
<1>12. ASSUME NEW where \in Loads, TakeOption(where) PROVE FlagsInv'
  <2>1. Compatible(flags')
    BY <1>0, <1>12, Added DEF TakeOption, With
  <2>2. flags' \subseteq FpgaOptions
    BY <1>0, <1>12 DEF TakeOption, With, Options, TypeOK
  <2>3. args' \in Seq(STRING)
    BY <1>0, <1>12 DEF TakeOption, TypeOK
  <2> QED BY <1>0, <1>12, <2>1, <2>2, <2>3 DEF TakeOption, FlagsInv, TypeOK, Compatible, Exclusive
<1>13. ASSUME NEW where \in Loads, BadOption(where) PROVE FlagsInv'
  BY <1>13, FinishKeeps DEF BadOption
<1>14. ASSUME NEW where \in Loads, LeaveLoop(where) PROVE FlagsInv'
  BY <1>0, <1>14, FinishKeeps DEF LeaveLoop
<1> QED
  BY <1>1, <1>2, <1>3, <1>4, <1>5, <1>6, <1>7, <1>8, <1>9, <1>10, <1>11, <1>12, <1>13, <1>14
  DEF Next, Command

\* The variables of PmShell have their types.
THEOREM TypeCorrect == Spec => []TypeOK
<1>1. FlagsInv => TypeOK
  BY DEF FlagsInv
<1> QED BY <1>1, FlagsInit, FlagsStep, PTL DEF Spec

\* The DDR and the OCM authentication, and the user and the device key, never
\* go to the firmware together, whatever is typed.
THEOREM NeverBoth == Spec => []Exclusive
<1>1. FlagsInv => Exclusive
  BY DEF FlagsInv
<1> QED BY <1>1, FlagsInit, FlagsStep, PTL DEF Spec

(***************************************************************************)
(* A line is obeyed as it reads                                            *)
(***************************************************************************)
\* What is left of a line behind its first p words
RestOf(rest, l, p) ==
  /\ l \in Seq(STRING) /\ rest \in Seq(STRING)
  /\ p \in Nat /\ p <= Len(l)
  /\ Len(rest) = Len(l) - p
  /\ \A i \in 1..Len(rest) : rest[i] = l[p + i]

\* The words that stand for options when the loop has taken k of them
Given(l, k) == {l[2 + i] : i \in 1..k}

\* The option loop has taken k words.
Turns(where, k) ==
  /\ RestOf(args, line, 2 + k)
  /\ Len(line) > 3
  /\ Given(line, k) \subseteq Options(where)
  /\ Compatible(Given(line, k))
  /\ flags = Given(line, k) \cap FpgaOptions

\* What has been read of the line, at each place
PathInv ==
  /\ line \in Seq(STRING)
  /\ at = <<>> => outcome = None
  /\ at = <<"pm">> => RestOf(args, line, 0)
  /\ at \in {<<"fpga">>, <<"acap">>} =>
       RestOf(args, line, 1) /\ Matches("pm", line[1]) = {at[1]}
  /\ at \in Functions => Names(line, at) /\ RestOf(args, line, Len(at))
  /\ at \notin {Loop(w) : w \in Loads} => flags = {}
  /\ \A where \in Loads : at = Loop(where) =>
       Names(line, where) /\ \E k \in Nat : Turns(where, k)

ObeyedInv == PathInv /\ LineObeyed

LEMMA RestAll == ASSUME NEW l \in Seq(STRING) PROVE RestOf(l, l, 0)
<1>1. Len(l) \in Nat BY LenProperties
<1> DEFINE n == Len(l)
<1>2. n = n - 0 /\ \A i \in 1..n : 0 + i = i BY <1>1
<1> QED BY <1>1, <1>2 DEF RestOf

\* The next word, and what is left behind it
LEMMA RestTail ==
  ASSUME NEW rest, NEW l, NEW p, RestOf(rest, l, p), rest # <<>>
  PROVE  /\ rest[1] = l[p + 1] /\ p + 1 <= Len(l)
         /\ RestOf(Tail(rest), l, p + 1)
<1>1. /\ l \in Seq(STRING) /\ rest \in Seq(STRING) /\ p \in Nat /\ p <= Len(l)
      /\ Len(rest) = Len(l) - p /\ \A i \in 1..Len(rest) : rest[i] = l[p + i]
  BY DEF RestOf
<1>2. Len(l) \in Nat /\ Len(rest) \in Nat /\ Len(rest) # 0
  BY <1>1, LenProperties, EmptySeq
<1>3. /\ Tail(rest) \in Seq(STRING) /\ Len(Tail(rest)) = Len(rest) - 1
      /\ \A i \in 1..Len(rest) - 1 : Tail(rest)[i] = rest[i + 1]
  BY <1>1, <1>2, HeadTailProperties
<1>4. p + 1 <= Len(l) /\ Len(Tail(rest)) = Len(l) - (p + 1) /\ 1 \in 1..Len(rest)
  BY <1>1, <1>2, <1>3
<1>5. ASSUME NEW i \in 1..Len(Tail(rest)) PROVE Tail(rest)[i] = l[(p + 1) + i]
  <2>1. i \in 1..Len(rest) - 1 /\ i + 1 \in 1..Len(rest) /\ p + (i + 1) = (p + 1) + i
    BY <1>1, <1>2, <1>3
  <2> QED BY <1>1, <1>3, <2>1
<1> QED BY <1>1, <1>3, <1>4, <1>5 DEF RestOf

LEMMA RestEmpty ==
  ASSUME NEW rest, NEW l, NEW p, RestOf(rest, l, p)
  PROVE  /\ Len(l) \in Nat /\ Len(rest) \in Nat
         /\ rest = <<>> <=> p = Len(l)
         /\ Len(rest) = Len(l) - p
<1>1. /\ l \in Seq(STRING) /\ rest \in Seq(STRING) /\ p \in Nat /\ p <= Len(l)
      /\ Len(rest) = Len(l) - p
  BY DEF RestOf
<1>2. Len(l) \in Nat /\ Len(rest) \in Nat /\ (rest = <<>> <=> Len(rest) = 0)
  BY <1>1, LenProperties, EmptySeq
<1> QED BY <1>1, <1>2

\* The words that Meanings reads behind a name are what is left.
LEMMA RestWords ==
  ASSUME NEW l \in Seq(STRING), NEW p \in Nat, p <= Len(l)
  PROVE  RestOf(SubSeq(l, p + 1, Len(l)), l, p)
<1> DEFINE n == Len(l)
           w == SubSeq(l, p + 1, n)
<1>1. n \in Nat /\ p <= n /\ \A i \in 1..n : l[i] \in STRING BY LenProperties
<1>2. /\ w \in Seq(STRING) /\ Len(w) = n - p
      /\ \A i \in 1..Len(w) : w[i] = l[p + i]
  OBVIOUS
<1> QED BY <1>1, <1>2 DEF RestOf

LEMMA RestSame ==
  ASSUME NEW rest, NEW words, NEW l, NEW p, RestOf(rest, l, p), RestOf(words, l, p)
  PROVE  rest = words
<1>1. /\ rest \in Seq(STRING) /\ words \in Seq(STRING) /\ Len(rest) = Len(words)
      /\ \A i \in 1..Len(rest) : rest[i] = words[i]
  BY DEF RestOf
<1> QED BY <1>1, SeqEqual

\* A function has a name in the first table or one in each of two.
LEMMA FunctionShape ==
  ASSUME NEW f \in Functions
  PROVE  \/ /\ Len(f) = 1 /\ f = <<f[1]>>
            /\ f[1] \in {"version", "chipid", "features"} /\ f \in Queries
         \/ /\ Len(f) = 2 /\ f = <<f[1], f[2]>>
            /\ f[1] \in {"fpga", "acap"}
<1>1. f \in {<<"version">>, <<"chipid">>, <<"features">>, <<"fpga", "status">>,
             <<"fpga", "load">>, <<"acap", "load">>, <<"acap", "info">>}
  BY DEF Functions, Queries, Loads
<1>2. CASE f = <<"version">> BY <1>2 DEF Queries
<1>3. CASE f = <<"chipid">> BY <1>3 DEF Queries
<1>4. CASE f = <<"features">> BY <1>4 DEF Queries
<1>5. CASE f = <<"fpga", "status">> BY <1>5
<1>6. CASE f = <<"fpga", "load">> BY <1>6
<1>7. CASE f = <<"acap", "load">> BY <1>7
<1>8. CASE f = <<"acap", "info">> BY <1>8
<1> QED BY <1>1, <1>2, <1>3, <1>4, <1>5, <1>6, <1>7, <1>8

LEMMA FunctionNames ==
  ASSUME NEW f \in Functions
  PROVE  /\ Len(f) = 1 \/ Len(f) = 2
         /\ Len(f) = 1 => f[1] \in {"version", "chipid", "features"}
         /\ Len(f) = 2 => f[1] \in {"fpga", "acap"}
<1> DEFINE n == Len(f)
           c == f[1]
<1>1. \/ n = 1 /\ c \in {"version", "chipid", "features"}
      \/ n = 2 /\ c \in {"fpga", "acap"}
  BY FunctionShape
<1> HIDE DEF n, c
<1>2. (n = 1 \/ n = 2) /\ (n = 1 => c \in {"version", "chipid", "features"})
      /\ (n = 2 => c \in {"fpga", "acap"})
  BY <1>1
<1> QED BY <1>2 DEF n, c

LEMMA NoHelpName ==
  ASSUME NEW table \in {"pm", "fpga", "acap"}
  PROVE  Matches(table, "help") = {}
<1>1. table \in DOMAIN Tables BY DEF Tables
<1> QED BY <1>1, WordsAssumption

LEMMA Singletons == ASSUME NEW a, NEW b, {a} = {b} PROVE a = b
<1>1. a \in {a} OBVIOUS
<1>2. a \in {b} BY <1>1
<1> QED BY <1>2

\* A line names one function at most.
LEMMA NamesUnique ==
  ASSUME NEW l, NEW f \in Functions, NEW g \in Functions, Names(l, f), Names(l, g)
  PROVE  f = g
<1>1. f[1] = g[1]
  <2>1. {f[1]} = {g[1]} BY Zenon DEF Names
  <2> QED BY <2>1, Singletons, Zenon
<1>2. CASE Len(f) = 1 BY <1>1, <1>2, FunctionShape
<1>3. CASE Len(f) = 2
  <2>1. Len(g) = 2 BY <1>1, <1>3, FunctionShape
  <2>2. {f[2]} = {g[2]} BY <1>1, <1>3, <2>1, Zenon DEF Names
  <2>3. f[2] = g[2] BY <2>2, Singletons, Zenon
  <2> QED BY <1>1, <1>3, <2>1, <2>3, FunctionShape
<1> QED BY <1>2, <1>3, FunctionShape

\* A line that names a function does not ask for help.
LEMMA NamedNoHelp ==
  ASSUME NEW l \in Seq(STRING), NEW f \in Functions, Names(l, f)
  PROVE  ~ AsksHelp(l)
<1>1. /\ Len(f) <= Len(l) /\ Matches("pm", l[1]) = {f[1]}
      /\ Len(f) = 2 => Matches(f[1], l[2]) = {f[2]}
  BY DEF Names
<1>2. Len(l) \in Nat /\ l # <<>> BY <1>1, FunctionShape, LenProperties, EmptySeq
<1>3. l[1] # "help" BY <1>1, NoHelpName
<1>4. CASE Len(f) = 1
  <2> DEFINE c == f[1]
  <2>1. c # "fpga" /\ c # "acap" BY <1>4, FunctionNames
  <2>2. Matches("pm", l[1]) = {c} BY <1>1
  <2> HIDE DEF c
  <2>3. {c} # {"fpga"} /\ {c} # {"acap"}
    <3>1. c \notin {"fpga"} /\ c \notin {"acap"} /\ c \in {c} BY <2>1
    <3> QED BY <3>1
  <2>4. Matches("pm", l[1]) \notin {{"fpga"}, {"acap"}} BY <2>2, <2>3, Zenon
  <2> QED BY <1>2, <1>3, <2>4, Zenon DEF AsksHelp
<1>5. CASE Len(f) = 2
  <2>1. f[1] \in {"pm", "fpga", "acap"} BY <1>5, FunctionNames
  <2>2. l[2] # "help" BY <1>1, <1>5, <2>1, NoHelpName
  <2> QED BY <1>1, <1>2, <1>3, <1>5, <2>2 DEF AsksHelp
<1> QED BY <1>4, <1>5, FunctionShape

\* What a function makes of the words behind its name
Meaning(f, words) ==
  CASE f \in Queries -> {Run(f, {}, "none")}
    [] f \in Loads /\ words # <<>> -> LoadMeanings(f, words)
    [] f = <<"acap", "info">> /\ Len(words) = 1 -> {Run(f, {}, words[1])}
    [] OTHER -> {}

LEMMA MeaningsSplit ==
  ASSUME NEW l
  PROVE  Meanings(l) = (IF AsksHelp(l) THEN {Help} ELSE {}) \cup
           UNION {Meaning(f, SubSeq(l, Len(f) + 1, Len(l))) : f \in {g \in Functions : Names(l, g)}}
BY Zenon DEF Meanings, Meaning

LEMMA MeaningOfNamed ==
  ASSUME NEW f \in Functions, Names(line, f), NEW rest, RestOf(rest, line, Len(f))
  PROVE  Meanings(line) = Meaning(f, rest)
<1>1. line \in Seq(STRING) /\ Len(f) \in Nat /\ Len(f) <= Len(line) BY DEF RestOf
<1>2. ~ AsksHelp(line) BY <1>1, NamedNoHelp
<1>3. {g \in Functions : Names(line, g)} = {f} BY NamesUnique
<1>4. rest = SubSeq(line, Len(f) + 1, Len(line))
  <2>1. RestOf(SubSeq(line, Len(f) + 1, Len(line)), line, Len(f)) BY <1>1, RestWords
  <2> QED BY <2>1, RestSame
<1> DEFINE M(g) == Meaning(g, SubSeq(line, Len(g) + 1, Len(line)))
<1>5. Meanings(line) = (IF AsksHelp(line) THEN {Help} ELSE {}) \cup UNION {M(g) : g \in {f}}
  BY <1>3, MeaningsSplit, Zenon
<1>6. M(f) = Meaning(f, rest) BY <1>4
<1> HIDE DEF M
<1>7. UNION {M(g) : g \in {f}} = M(f) OBVIOUS
<1> QED BY <1>2, <1>5, <1>6, <1>7

LEMMA MeaningOfOther ==
  ASSUME \A f \in Functions : ~ Names(line, f)
  PROVE  Meanings(line) = IF AsksHelp(line) THEN {Help} ELSE {}
<1>1. {g \in Functions : Names(line, g)} = {} OBVIOUS
<1> DEFINE M(g) == Meaning(g, SubSeq(line, Len(g) + 1, Len(line)))
<1>2. Meanings(line) = (IF AsksHelp(line) THEN {Help} ELSE {}) \cup UNION {M(g) : g \in {}}
  BY <1>1, MeaningsSplit, Zenon
<1> HIDE DEF M
<1>3. UNION {M(g) : g \in {}} = {} OBVIOUS
<1> QED BY <1>2, <1>3

LEMMA LoadShape ==
  ASSUME NEW where \in Loads
  PROVE  /\ where \in Functions /\ where \notin Queries
         /\ where # <<"acap", "info">> /\ Len(where) = 2
<1>1. where = <<"fpga", "load">> \/ where = <<"acap", "load">> BY DEF Loads
<1>2. CASE where = <<"fpga", "load">> BY <1>2 DEF Functions, Loads, Queries
<1>3. CASE where = <<"acap", "load">> BY <1>3 DEF Functions, Loads, Queries
<1> QED BY <1>1, <1>2, <1>3

LEMMA MeaningCases ==
  ASSUME NEW f, NEW words
  PROVE  /\ f \in Queries => Meaning(f, words) = {Run(f, {}, "none")}
         /\ f \in Loads /\ f \notin Queries /\ words # <<>> =>
              Meaning(f, words) = LoadMeanings(f, words)
<1> DEFINE info == <<"acap", "info">>
           r1 == {Run(f, {}, "none")}
           r2 == LoadMeanings(f, words)
           r3 == {Run(f, {}, words[1])}
<1>1. Meaning(f, words) = CASE f \in Queries -> r1
                            [] f \in Loads /\ words # <<>> -> r2
                            [] f = info /\ Len(words) = 1 -> r3
                            [] OTHER -> {}
  BY DEF Meaning
<1>2. f \in Queries => f \notin Loads /\ f # info
  <2>1. \A g \in Loads : g \notin Queries BY LoadShape
  <2>2. <<"acap", "info">> \notin Queries BY DEF Queries
  <2> QED BY <2>1, <2>2
<1>3. f \in Loads => f # info BY LoadShape
<1> HIDE DEF info, r1, r2, r3
<1>4. f \in Queries => Meaning(f, words) = r1 BY <1>1, <1>2
<1>5. f \in Loads /\ f \notin Queries /\ words # <<>> => Meaning(f, words) = r2
  BY <1>1, <1>3
<1> QED BY <1>4, <1>5 DEF r1, r2

\* The words of a load, for a line that is long enough
LoadMeans(where, given, file) ==
  IF /\ given \subseteq Options(where)
     /\ given # {} => ~ Dashed(file)
     /\ Compatible(given)
    THEN {Run(where, given \cap FpgaOptions, file)}
    ELSE {}

LEMMA MeaningOfLoad ==
  ASSUME line \in Seq(STRING), NEW where \in Loads, Names(line, where), Len(line) >= 3
  PROVE  Meanings(line) = LoadMeans(where, Given(line, Len(line) - 3), line[Len(line)])
<1> DEFINE w == SubSeq(line, 2 + 1, Len(line))
           n == Len(line)
           m == Len(w)
<1>1. where \in Functions /\ where \notin Queries /\ Len(where) = 2 BY LoadShape
<1>2. n \in Nat /\ n >= 3 BY LenProperties
<1>3. RestOf(w, line, 2) BY <1>2, RestWords
<1>4. w # <<>> /\ m = n - 2
  <2> HIDE DEF w
  <2> QED BY <1>2, <1>3, RestEmpty
<1>5. Meanings(line) = Meaning(where, w) BY <1>1, <1>3, MeaningOfNamed
<1>6. Meaning(where, w) = LoadMeanings(where, w) BY <1>1, <1>4, MeaningCases
<1>7. \A i \in 1..m : w[i] = line[2 + i] BY <1>3 DEF RestOf
<1> HIDE DEF w, n, m
<1>8. m \in 1..m /\ 2 + m = n /\ m - 1 = n - 3 /\ m - 1 \in Nat BY <1>2, <1>4
<1>9. w[m] = line[n] BY <1>7, <1>8
<1>10. {w[i] : i \in 1..m - 1} = Given(line, n - 3)
  <2>1. \A i \in 1..m - 1 : w[i] = line[2 + i]
    <3>1. \A i \in 1..m - 1 : i \in 1..m BY <1>8
    <3> QED BY <1>7, <3>1
  <2>2. {w[i] : i \in 1..m - 1} = {line[2 + i] : i \in 1..m - 1} BY <2>1
  <2> QED BY <1>8, <2>2 DEF Given
<1>11. LoadMeanings(where, w) = LoadMeans(where, {w[i] : i \in 1..m - 1}, w[m])
  BY Zenon DEF LoadMeanings, LoadMeans, Compatible, m
<1> QED BY <1>5, <1>6, <1>9, <1>10, <1>11 DEF n

\* A load without a word behind it
LEMMA MeaningOfBareLoad ==
  ASSUME NEW where \in Loads, Names(line, where), RestOf(<<>>, line, 2)
  PROVE  Meanings(line) = {}
<1>1. where \in Functions /\ where \notin Queries /\ where # <<"acap", "info">> /\ Len(where) = 2
  BY LoadShape
<1>2. Meanings(line) = Meaning(where, <<>>) BY <1>1, MeaningOfNamed
<1> QED BY <1>1, <1>2 DEF Meaning

\* Where the loop of a load is, the other places are not.
LEMMA LoopShape ==
  ASSUME NEW where \in Loads
  PROVE  /\ Loop(where) # <<>> /\ Loop(where) \notin Functions
         /\ Loop(where) \notin {<<"pm">>, <<"fpga">>, <<"acap">>}
         /\ ~ IsTable(Loop(where))
         /\ \A w \in Loads : Loop(w) = Loop(where) => w = where
<1> DEFINE S == {"fpga", "acap", "load", "options"}
<1>1. \A w \in Loads : w \in Seq(S) /\ Len(w) = 2
  <2>1. <<"fpga", "load">> \in Seq(S) /\ <<"acap", "load">> \in Seq(S) OBVIOUS
  <2>2. \A w \in Loads : w \in Seq(S) BY <2>1 DEF Loads
  <2> HIDE DEF S
  <2> QED BY <2>2, LoadShape
<1>2. "options" \in S OBVIOUS
<1> HIDE DEF S
<1>3. Len(Loop(where)) = 3
  <2>1. Len(Append(where, "options")) = Len(where) + 1 BY <1>1, <1>2, AppendProperties
  <2>2. Len(where) = 2 BY <1>1
  <2>3. Len(Append(where, "options")) = 3 BY <2>1, <2>2
  <2> QED BY <2>3 DEF Loop
<1>4. \A w \in Loads : Loop(w) = Loop(where) => w = where
  BY <1>1, <1>2, AppendInjective DEF Loop
<1> DEFINE o == Loop(where)
<1>5. Len(o) = 3 BY <1>3
<1> HIDE DEF o
<1>6. o # <<>> /\ ~ IsTable(o) BY <1>5 DEF IsTable
<1>7. o \notin {<<"pm">>, <<"fpga">>, <<"acap">>} BY <1>5
<1>8. o \notin Functions
  <2>1. \A f \in Functions : Len(f) = 1 \/ Len(f) = 2 BY FunctionNames
  <2> QED BY <1>5, <2>1
<1> QED BY <1>4, <1>6, <1>7, <1>8 DEF o

\* The places of the tables
LEMMA TableShape ==
  ASSUME NEW where \in Places, IsTable(where)
  PROVE  /\ where \in {<<"pm">>, <<"fpga">>, <<"acap">>}
         /\ where # <<>> /\ where \notin Functions
         /\ where \notin {Loop(w) : w \in Loads}
         /\ where[1] \in {"pm", "fpga", "acap"}
<1>1. where \notin {Loop(w) : w \in Loads} BY LoopShape
<1>2. where # <<>> BY DEF IsTable
<1>3. where \notin Functions
  BY DEF IsTable, Functions, Queries, Loads, Tables
<1>4. where \in {<<"pm">>, <<"fpga">>, <<"acap">>} BY <1>1, <1>2, <1>3 DEF Places
<1>5. where[1] \in {"pm", "fpga", "acap"} BY DEF IsTable, Tables
<1> QED BY <1>1, <1>2, <1>3, <1>4, <1>5

\* An end of the line with its meaning keeps the invariant.
LEMMA FinishObeys ==
  ASSUME ObeyedInv, at # <<>>, NEW o, Finish(o),
         Meanings(line) = IF o = Error THEN {} ELSE {o}
  PROVE  ObeyedInv'
<1>1. /\ line' = line /\ args' = args /\ at' = at /\ flags' = flags /\ outcome' = o
  BY DEF Finish
<1>2. Meanings(line') = IF outcome' = Error THEN {} ELSE {outcome'} BY <1>1, Zenon
<1>3. LineObeyed' BY <1>2 DEF LineObeyed
<1>4. PathInv' BY <1>1 DEF ObeyedInv, PathInv, Turns
<1> QED BY <1>3, <1>4 DEF ObeyedInv

LEMMA Outcomes ==
  /\ Help # Error /\ None # Error
  /\ \A w, set, file : Run(w, set, file) # Error
<1>1. Help.kind = "help" /\ Error.kind = "error" /\ None.kind = "none" BY DEF Help, Error, None
<1>2. \A w, set, file : Run(w, set, file).kind = "run" BY DEF Run
<1> QED BY <1>1, <1>2

\* At the first table: whether the line names anything depends on its first
\* word, at the others on its second.
LEMMA FirstWord ==
  ASSUME NEW f \in Functions, Names(line, f), line \in Seq(STRING)
  PROVE  line # <<>> /\ line[1] # "help" /\ Cardinality(Matches("pm", line[1])) = 1
<1>1. Len(f) <= Len(line) /\ Matches("pm", line[1]) = {f[1]} BY DEF Names
<1>2. line # <<>> BY <1>1, FunctionNames, LenProperties, EmptySeq
<1>3. line[1] # "help" BY <1>1, NoHelpName
<1>4. Cardinality({f[1]}) = 1 BY FS_Singleton
<1> QED BY <1>1, <1>2, <1>3, <1>4

LEMMA SecondWord ==
  ASSUME NEW f \in Functions, Names(line, f), line \in Seq(STRING),
         NEW table \in {"fpga", "acap"}, Matches("pm", line[1]) = {table}
  PROVE  /\ Len(line) >= 2 /\ line[2] # "help"
         /\ Cardinality(Matches(table, line[2])) = 1
<1>1. /\ Len(f) <= Len(line) /\ Matches("pm", line[1]) = {f[1]}
      /\ Len(f) = 2 => Matches(f[1], line[2]) = {f[2]}
  BY DEF Names
<1>2. f[1] = table BY <1>1, Singletons
<1>3. Len(f) = 2 BY <1>2, FunctionNames
<1>4. Matches(table, line[2]) = {f[2]} BY <1>1, <1>2, <1>3
<1>5. line[2] # "help" BY <1>4, NoHelpName
<1>6. Cardinality({f[2]}) = 1 BY FS_Singleton
<1>7. Len(line) >= 2 BY <1>1, <1>3
<1> QED BY <1>4, <1>5, <1>6, <1>7

LEMMA HelpObeys == ASSUME ObeyedInv, TypeOK, AskHelp PROVE ObeyedInv'
<1>1. IsTable(at) /\ (args # <<>> => args[1] = "help") /\ Finish(Help) BY DEF AskHelp
<1>2. at \in {<<"pm">>, <<"fpga">>, <<"acap">>} /\ at # <<>>
  BY <1>1, TableShape DEF TypeOK, Places
<1>3. line \in Seq(STRING) BY DEF TypeOK
<1>4. CASE at = <<"pm">>
  <2>1. RestOf(args, line, 0) BY <1>4 DEF ObeyedInv, PathInv
  <2>2. args = <<>> => line = <<>>
    <3>1. args = <<>> => Len(line) = 0 BY <2>1, RestEmpty
    <3> QED BY <1>3, <3>1, EmptySeq
  <2>3. args # <<>> => args[1] = line[0 + 1] /\ 0 + 1 <= Len(line) BY <2>1, RestTail
  <2>4. line = <<>> \/ line[1] = "help" BY <1>1, <2>2, <2>3
  <2>5. AsksHelp(line) BY <2>4 DEF AsksHelp
  <2>6. \A f \in Functions : ~ Names(line, f) BY <1>3, <2>4, FirstWord
  <2> QED BY <1>1, <1>2, <2>5, <2>6, MeaningOfOther, FinishObeys, Outcomes
<1>5. CASE at = <<"fpga">> \/ at = <<"acap">>
  <2> DEFINE table == at[1]
  <2>1. table \in {"fpga", "acap"} BY <1>5
  <2>2. RestOf(args, line, 1) /\ Matches("pm", line[1]) = {table}
    BY <1>5 DEF ObeyedInv, PathInv
  <2> HIDE DEF table
  <2>3. Len(line) \in Nat /\ 1 <= Len(line) BY <2>2, RestEmpty DEF RestOf
  <2>4. args # <<>> => args[1] = line[1 + 1] /\ 1 + 1 <= Len(line) BY <2>2, RestTail
  <2>5. args = <<>> => Len(line) = 1 BY <2>2, RestEmpty
  <2>6. Len(line) > 1 => line[2] = "help" BY <1>1, <2>3, <2>4, <2>5
  <2>7. line # <<>> BY <2>3, EmptySeq
  <2>8. Matches("pm", line[1]) \in {{"fpga"}, {"acap"}} BY <2>1, <2>2
  <2>9. AsksHelp(line) BY <2>6, <2>7, <2>8 DEF AsksHelp
  <2>10. \A f \in Functions : ~ Names(line, f) BY <1>3, <2>1, <2>2, <2>3, <2>6, SecondWord
  <2> QED BY <1>1, <1>2, <2>9, <2>10, MeaningOfOther, FinishObeys, Outcomes
<1> QED BY <1>2, <1>4, <1>5

LEMMA NoCommandObeys == ASSUME ObeyedInv, TypeOK, NoCommand PROVE ObeyedInv'
<1>1. /\ IsTable(at) /\ args # <<>> /\ args[1] # "help"
      /\ Cardinality(Matches(at[1], args[1])) # 1 /\ Finish(Error)
  BY DEF NoCommand, Searched
<1>2. at \in {<<"pm">>, <<"fpga">>, <<"acap">>} /\ at # <<>>
  BY <1>1, TableShape DEF TypeOK, Places
<1>3. line \in Seq(STRING) BY DEF TypeOK
<1>4. Cardinality({"fpga"}) = 1 /\ Cardinality({"acap"}) = 1 BY FS_Singleton
<1>5. CASE at = <<"pm">>
  <2>1. RestOf(args, line, 0) /\ at[1] = "pm" BY <1>5 DEF ObeyedInv, PathInv
  <2>2. args[1] = line[0 + 1] /\ 0 + 1 <= Len(line) BY <1>1, <2>1, RestTail
  <2>3. line[1] # "help" /\ Cardinality(Matches("pm", line[1])) # 1 /\ line # <<>>
    BY <1>1, <1>3, <2>1, <2>2, EmptySeq
  <2>4. Matches("pm", line[1]) \notin {{"fpga"}, {"acap"}} BY <1>4, <2>3
  <2>5. ~ AsksHelp(line) BY <2>3, <2>4, Zenon DEF AsksHelp
  <2>6. \A f \in Functions : ~ Names(line, f) BY <1>3, <2>3, FirstWord
  <2> QED BY <1>1, <1>2, <2>5, <2>6, MeaningOfOther, FinishObeys
<1>6. CASE at = <<"fpga">> \/ at = <<"acap">>
  <2> DEFINE table == at[1]
  <2>1. table \in {"fpga", "acap"} BY <1>6
  <2>2. RestOf(args, line, 1) /\ Matches("pm", line[1]) = {table}
    BY <1>6 DEF ObeyedInv, PathInv
  <2>3. Cardinality(Matches(table, args[1])) # 1 BY <1>1
  <2> HIDE DEF table
  <2>4. args[1] = line[1 + 1] /\ 1 + 1 <= Len(line) BY <1>1, <2>2, RestTail
  <2>5. line[2] # "help" /\ Len(line) > 1 /\ Cardinality(Matches(table, line[2])) # 1
    <3>1. Len(line) \in Nat BY <1>3, LenProperties
    <3> QED BY <1>1, <2>3, <2>4, <3>1
  <2>6. line # <<>> BY <2>5, EmptySeq
  <2>7. line[1] # "help" BY <2>2, NoHelpName
  <2>8. ~ AsksHelp(line) BY <2>5, <2>6, <2>7, Zenon DEF AsksHelp
  <2>9. \A f \in Functions : ~ Names(line, f) BY <1>3, <2>1, <2>2, <2>5, SecondWord
  <2> QED BY <1>1, <1>2, <2>8, <2>9, MeaningOfOther, FinishObeys
<1> QED BY <1>2, <1>5, <1>6

\* The steps that leave a line without an outcome
LEMMA NoneObeys == outcome' = None => LineObeyed'
BY DEF LineObeyed

LEMMA FunctionPlace ==
  ASSUME NEW f \in Functions
  PROVE  f # <<>> /\ f \notin {<<"pm">>, <<"fpga">>, <<"acap">>}
BY DEF Functions, Queries, Loads

LEMMA SelectObeys == ASSUME ObeyedInv, TypeOK, outcome = None, Select PROVE ObeyedInv'
<1>1. PICK c \in Tables[at[1]] : Matches(at[1], args[1]) = {c} /\ at' = Target(at[1], c)
  BY DEF Select
<1>2. /\ IsTable(at) /\ args # <<>> /\ args' = Tail(args)
      /\ line' = line /\ flags' = flags /\ outcome' = outcome
  BY DEF Select, Searched
<1>3. /\ at \in {<<"pm">>, <<"fpga">>, <<"acap">>} /\ at \notin {Loop(w) : w \in Loads}
      /\ at \in Places
  BY <1>2, TableShape DEF TypeOK, Places
<1>4. flags' = {} /\ line \in Seq(STRING) BY <1>2, <1>3 DEF ObeyedInv, PathInv
<1>5. LineObeyed' BY <1>2, NoneObeys
<1>6. CASE at = <<"pm">> /\ c \in {"fpga", "acap"}
  <2>1. RestOf(args, line, 0) /\ at[1] = "pm" BY <1>6 DEF ObeyedInv, PathInv
  <2>2. args[1] = line[1] /\ RestOf(args', line', 1) BY <1>2, <2>1, RestTail
  <2>3. at' = <<c>> BY <1>1, <1>6, <2>1 DEF Target
  <2>4. at' # <<>> /\ at' # <<"pm">> /\ at'[1] = c BY <1>6, <2>3
  <2>5. Matches("pm", line'[1]) = {at'[1]} BY <1>1, <1>2, <2>1, <2>2, <2>4
  <2>6. at' \notin Functions
    <3>1. IsTable(at') BY <1>6, <2>3 DEF IsTable, Tables
    <3>2. at' \in Places BY <1>6, <2>3 DEF Places
    <3> QED BY <3>1, <3>2, TableShape
  <2>7. \A w \in Loads : at' # Loop(w)
    <3>1. \A w \in Loads : Loop(w) \notin {<<"fpga">>, <<"acap">>} BY LoopShape
    <3> QED BY <1>6, <2>3, <3>1
  <2> QED BY <1>2, <1>4, <1>5, <2>2, <2>4, <2>5, <2>6, <2>7 DEF ObeyedInv, PathInv
<1>7. CASE at = <<"pm">> /\ c \notin {"fpga", "acap"}
  <2>1. RestOf(args, line, 0) /\ at[1] = "pm" BY <1>7 DEF ObeyedInv, PathInv
  <2>2. args[1] = line[0 + 1] /\ 0 + 1 <= Len(line) /\ RestOf(args', line', 0 + 1)
    BY <1>2, <2>1, RestTail
  <2>3. at' = <<c>> BY <1>1, <1>7, <2>1 DEF Target
  <2>4. c \in {"version", "chipid", "features"} BY <1>1, <1>7, <2>1 DEF Tables
  <2>5. at' \in Functions BY <2>3, <2>4 DEF Functions, Queries
  <2>6. Len(at') = 1 /\ at'[1] = c BY <2>3
  <2>7. Names(line', at')
    <3>1. Len(at') <= Len(line') BY <1>2, <2>2, <2>6
    <3>2. Matches("pm", line'[1]) = {at'[1]} BY <1>1, <1>2, <2>1, <2>2, <2>6
    <3>3. Len(at') # 2 BY <2>6
    <3> QED BY <3>1, <3>2, <3>3, Zenon DEF Names
  <2>8. RestOf(args', line', Len(at')) BY <2>2, <2>6
  <2>9. at' # <<>> /\ at' \notin {<<"pm">>, <<"fpga">>, <<"acap">>}
    BY <2>5, FunctionPlace
  <2>10. \A w \in Loads : at' # Loop(w) BY <2>5, LoopShape
  <2> QED BY <1>2, <1>4, <1>5, <2>7, <2>8, <2>9, <2>10 DEF ObeyedInv, PathInv
<1>8. CASE at = <<"fpga">> \/ at = <<"acap">>
  <2> DEFINE table == at[1]
  <2>1. table \in {"fpga", "acap"} BY <1>8
  <2>2. RestOf(args, line, 1) /\ Matches("pm", line[1]) = {table}
    BY <1>8 DEF ObeyedInv, PathInv
  <2>3. args[1] = line[1 + 1] /\ 1 + 1 <= Len(line) /\ RestOf(args', line', 1 + 1)
    BY <1>2, <2>2, RestTail
  <2>4. at' = <<table, c>> BY <1>1, <2>1 DEF Target
  <2>5. at' \in Functions
    <3>1. CASE at = <<"fpga">>
      <4>1. c \in {"load", "status"} BY <1>1, <3>1 DEF Tables
      <4> QED BY <2>4, <3>1, <4>1 DEF Functions, Queries, Loads
    <3>2. CASE at = <<"acap">>
      <4>1. c \in {"load", "info"} BY <1>1, <3>2 DEF Tables
      <4> QED BY <2>4, <3>2, <4>1 DEF Functions, Queries, Loads
    <3> QED BY <1>8, <3>1, <3>2
  <2>6. Len(at') = 2 /\ at'[1] = table /\ at'[2] = c BY <2>4
  <2>7. Matches(table, line[2]) = {c} BY <1>1, <2>3
  <2> HIDE DEF table
  <2>8. Names(line', at') BY <1>2, <2>2, <2>3, <2>6, <2>7 DEF Names
  <2>9. RestOf(args', line', Len(at')) BY <2>3, <2>6
  <2>10. at' # <<>> /\ at' \notin {<<"pm">>, <<"fpga">>, <<"acap">>}
    BY <2>5, FunctionPlace
  <2>11. \A w \in Loads : at' # Loop(w) BY <2>5, LoopShape
  <2> QED BY <1>2, <1>4, <1>5, <2>8, <2>9, <2>10, <2>11 DEF ObeyedInv, PathInv
<1> QED BY <1>3, <1>6, <1>7, <1>8

LEMMA PlainFunction ==
  ASSUME ObeyedInv, at \in Functions
  PROVE  /\ Names(line, at) /\ RestOf(args, line, Len(at)) /\ flags = {} /\ at # <<>>
         /\ Meanings(line) = Meaning(at, args)
<1>1. Names(line, at) /\ RestOf(args, line, Len(at)) BY DEF ObeyedInv, PathInv
<1>2. at \notin {Loop(w) : w \in Loads} BY LoopShape
<1>3. at # <<>> BY FunctionShape
<1> QED BY <1>1, <1>2, <1>3, MeaningOfNamed DEF ObeyedInv, PathInv

LEMMA QueryObeys == ASSUME ObeyedInv, Query PROVE ObeyedInv'
<1>1. at \in Queries /\ at \in Functions /\ Finish(Run(at, {}, "none"))
  BY DEF Query, Functions
<1>2. Meanings(line) = {Run(at, {}, "none")} BY <1>1, PlainFunction, MeaningCases
<1> QED BY <1>1, <1>2, PlainFunction, Outcomes, FinishObeys

LEMMA InfoMeaning ==
  ASSUME NEW words
  PROVE  Meaning(<<"acap", "info">>, words) =
           IF Len(words) = 1 THEN {Run(<<"acap", "info">>, {}, words[1])} ELSE {}
<1> DEFINE info == <<"acap", "info">>
           r1 == {Run(info, {}, "none")}
           r2 == LoadMeanings(info, words)
           r3 == {Run(info, {}, words[1])}
<1>1. Meaning(info, words) = CASE info \in Queries -> r1
                               [] info \in Loads /\ words # <<>> -> r2
                               [] info = <<"acap", "info">> /\ Len(words) = 1 -> r3
                               [] OTHER -> {}
  BY DEF Meaning
<1>2. info \notin Queries /\ info \notin Loads BY DEF Queries, Loads
<1>3. info = <<"acap", "info">> OBVIOUS
<1> HIDE DEF info, r1, r2, r3
<1>4. Meaning(info, words) = IF Len(words) = 1 THEN r3 ELSE {} BY <1>1, <1>2, <1>3
<1> QED BY <1>4 DEF r3, info

LEMMA InfoObeys == ASSUME ObeyedInv, Info PROVE ObeyedInv'
<1>1. at = <<"acap", "info">> /\ at \in Functions BY DEF Info, Functions
<1>2. Meanings(line) = IF Len(args) = 1 THEN {Run(at, {}, args[1])} ELSE {}
  BY <1>1, PlainFunction, InfoMeaning
<1>3. Finish(IF Len(args) = 1 THEN Run(at, {}, args[1]) ELSE Error) BY DEF Info
<1>4. CASE Len(args) = 1
  BY <1>1, <1>2, <1>3, <1>4, PlainFunction, Outcomes, FinishObeys
<1>5. CASE Len(args) # 1
  BY <1>1, <1>2, <1>3, <1>5, PlainFunction, FinishObeys
<1> QED BY <1>4, <1>5

LEMMA FileMissingObeys == ASSUME ObeyedInv, FileMissing PROVE ObeyedInv'
<1>1. at \in Loads /\ args = <<>> /\ Finish(Error) BY DEF FileMissing
<1>2. at \in Functions /\ Len(at) = 2 BY <1>1, LoadShape
<1>3. Names(line, at) /\ RestOf(<<>>, line, 2) /\ at # <<>> BY <1>1, <1>2, PlainFunction
<1>4. Meanings(line) = {} BY <1>1, <1>3, MeaningOfBareLoad
<1> QED BY <1>1, <1>3, <1>4, FinishObeys

LEMMA OnlyFileObeys == ASSUME ObeyedInv, OnlyFile PROVE ObeyedInv'
<1>1. at \in Loads /\ Len(args) = 1 /\ Finish(Run(at, flags, args[1])) BY DEF OnlyFile
<1>2. at \in Functions /\ Len(at) = 2 BY <1>1, LoadShape
<1>3. Names(line, at) /\ RestOf(args, line, 2) /\ at # <<>> /\ flags = {}
  BY <1>2, PlainFunction
<1>4. Len(line) = 3 /\ line \in Seq(STRING)
  <2> DEFINE n == Len(line)
  <2>3. Len(line) \in Nat /\ Len(args) = Len(line) - 2 BY <1>3, RestEmpty
  <2>1. n \in Nat /\ 1 = n - 2 BY <1>1, <2>3
  <2> HIDE DEF n
  <2>2. n = 3 BY <2>1
  <2> QED BY <1>3, <2>2 DEF n, RestOf
<1>5. args[1] = line[3]
  <2>1. args # <<>> BY <1>1
  <2>2. args[1] = line[2 + 1] BY <1>3, <2>1, RestTail
  <2> QED BY <2>2
<1>6. Given(line, 0) = {} BY DEF Given
<1>7. Meanings(line) = LoadMeans(at, {}, line[3])
  <2>1. Len(line) >= 3 /\ Len(line) - 3 = 0 BY <1>4
  <2>2. Meanings(line) = LoadMeans(at, Given(line, Len(line) - 3), line[Len(line)])
    BY <1>1, <1>3, <1>4, <2>1, MeaningOfLoad
  <2> QED BY <1>4, <1>6, <2>1, <2>2
<1>8. Meanings(line) = {Run(at, flags, args[1])}
  BY <1>3, <1>5, <1>7, NoFlags DEF LoadMeans
<1> QED BY <1>1, <1>3, <1>8, Outcomes, FinishObeys

LEMMA EnterLoopObeys == ASSUME ObeyedInv, outcome = None, EnterLoop PROVE ObeyedInv'
<1>1. /\ at \in Loads /\ Len(args) > 1 /\ at' = Loop(at)
      /\ line' = line /\ args' = args /\ flags' = flags /\ outcome' = outcome
  BY DEF EnterLoop
<1>2. at \in Functions /\ Len(at) = 2 BY <1>1, LoadShape
<1>3. Names(line, at) /\ RestOf(args, line, 2) /\ flags = {} /\ line \in Seq(STRING)
  BY <1>2, PlainFunction DEF ObeyedInv, PathInv
<1>4. Len(line) > 3
  <2>1. Len(args) = Len(line) - 2 /\ Len(line) \in Nat /\ Len(args) \in Nat BY <1>3, RestEmpty
  <2> DEFINE n == Len(line)
             m == Len(args)
  <2>2. m > 1 /\ m = n - 2 /\ n \in Nat BY <1>1, <2>1
  <2> HIDE DEF n, m
  <2>3. n > 3 BY <2>2
  <2> QED BY <2>3 DEF n
<1>5. Given(line, 0) = {} BY DEF Given
<1>6. \A w \in Loads : Turns(w, 0)'
  <2>1. RestOf(args', line', 2 + 0) BY <1>1, <1>3
  <2> QED BY <1>1, <1>3, <1>4, <1>5, <2>1, NoFlags DEF Turns, Compatible
<1>7. at' # <<>> /\ at' \notin Functions /\ at' \notin {<<"pm">>, <<"fpga">>, <<"acap">>}
  BY <1>1, LoopShape
<1>8. \A w \in Loads : at' = Loop(w) => w = at BY <1>1, LoopShape
<1>9. at' \in {Loop(w) : w \in Loads} BY <1>1
<1>10. \A w \in Loads : at' = Loop(w) => Names(line', w) /\ \E k \in Nat : Turns(w, k)'
  BY <1>1, <1>3, <1>6, <1>8
<1>11. line' \in Seq(STRING) /\ LineObeyed' BY <1>1, <1>3, NoneObeys
<1> QED BY <1>7, <1>9, <1>10, <1>11 DEF ObeyedInv, PathInv

LEMMA OptionsOf ==
  /\ Options(<<"fpga", "load">>) = FpgaOptions
  /\ Options(<<"acap", "load">>) = {"-i", "--info"}
  /\ \A set, o : With(<<"fpga", "load">>, set, o) = set \cup {o}
  /\ \A set, o : With(<<"acap", "load">>, set, o) = set
  /\ FpgaOptions \cap {"-i", "--info"} = {}
  /\ \A set : set \subseteq {"-i", "--info"} => Compatible(set)
<1>1. <<"fpga", "load">> # <<"acap", "load">> OBVIOUS
<1>2. FpgaOptions \cap {"-i", "--info"} = {} BY DEF FpgaOptions
<1>3. ASSUME NEW set, set \subseteq {"-i", "--info"} PROVE Compatible(set)
  <2>1. "--auth-ddr" \notin set /\ "--userkey" \notin set BY <1>3
  <2> QED BY <2>1 DEF Compatible, Rivals
<1> QED BY <1>1, <1>2, <1>3 DEF Options, With

\* What the option loop knows of the line
LEMMA AtLoop ==
  ASSUME ObeyedInv, NEW where \in Loads, at = Loop(where),
         NEW k \in Nat, Turns(where, k), NEW n, n = Len(line)
  PROVE  /\ at # <<>> /\ n \in Nat /\ n > 3 /\ 2 + k <= n
         /\ args = <<>> <=> 2 + k = n
         /\ Len(args) = 1 <=> 3 + k = n
         /\ args # <<>> => args[1] = line[3 + k] /\ RestOf(Tail(args), line, 2 + (k + 1))
         /\ Meanings(line) = LoadMeans(where, Given(line, n - 3), line[n])
         /\ Given(line, n - 3) # {}
         /\ \A i \in 1..n - 3 : line[2 + i] \in Given(line, n - 3)
<1>1. /\ RestOf(args, line, 2 + k) /\ n > 3 /\ line \in Seq(STRING) /\ Names(line, where)
  BY DEF ObeyedInv, PathInv, Turns
<1>2. /\ n \in Nat /\ Len(args) \in Nat /\ 2 + k <= n /\ (args = <<>> <=> 2 + k = n)
      /\ Len(args) = n - (2 + k)
  BY <1>1, RestEmpty DEF RestOf
<1>3. Len(args) = 1 <=> 3 + k = n
  <2> DEFINE m == Len(args)
  <2>1. m = n - (2 + k) BY <1>2
  <2> HIDE DEF m
  <2>2. m = 1 <=> 3 + k = n BY <1>2, <2>1
  <2> QED BY <2>2 DEF m
<1>4. args # <<>> => args[1] = line[3 + k] /\ RestOf(Tail(args), line, 2 + (k + 1))
  <2>1. (2 + k) + 1 = 3 + k /\ (2 + k) + 1 = 2 + (k + 1) OBVIOUS
  <2>2. args # <<>> => args[1] = line[(2 + k) + 1] /\ RestOf(Tail(args), line, (2 + k) + 1)
    BY <1>1, RestTail
  <2> QED BY <2>1, <2>2
<1>5. Meanings(line) = LoadMeans(where, Given(line, n - 3), line[n])
  <2>1. Len(line) >= 3 BY <1>1, <1>2
  <2> QED BY <1>1, <2>1, MeaningOfLoad
<1>6. \A i \in 1..n - 3 : line[2 + i] \in Given(line, n - 3) BY DEF Given
<1>7. Given(line, n - 3) # {}
  <2>1. 1 \in 1..n - 3 BY <1>1, <1>2
  <2> QED BY <1>6, <2>1
<1>8. at # <<>> BY LoopShape
<1> QED BY <1>1, <1>2, <1>3, <1>4, <1>5, <1>6, <1>7, <1>8

LEMMA TakeOptionObeys ==
  ASSUME ObeyedInv, outcome = None, NEW where \in Loads, TakeOption(where)
  PROVE  ObeyedInv'
<1> DEFINE o == args[1]
<1>1. /\ at = Loop(where) /\ args # <<>> /\ o \in Options(where) /\ ~ Excluded(flags, o)
      /\ flags' = With(where, flags, o) /\ args' = Tail(args)
      /\ line' = line /\ at' = at /\ outcome' = outcome
  BY DEF TakeOption
<1>2. PICK k \in Nat : Turns(where, k) BY <1>1 DEF ObeyedInv, PathInv
<1>3. o = line[3 + k] /\ RestOf(Tail(args), line, 2 + (k + 1)) BY <1>1, <1>2, AtLoop
<1> HIDE DEF o
<1> DEFINE set == Given(line, k)
           next == Given(line, k + 1)
<1>4. /\ Len(line) > 3 /\ set \subseteq Options(where) /\ Compatible(set)
      /\ flags = set \cap FpgaOptions
  BY <1>2 DEF Turns
<1>5. next = set \cup {o}
  <2>1. ASSUME NEW i \in 1..k + 1 PROVE line[2 + i] \in set \cup {o}
    <3>1. CASE i \in 1..k BY <3>1 DEF Given
    <3>2. CASE i = k + 1
      <4>1. 2 + i = 3 + k BY <3>2
      <4> QED BY <1>3, <4>1
    <3> QED BY <3>1, <3>2
  <2>2. ASSUME NEW i \in 1..k PROVE line[2 + i] \in next BY DEF Given
  <2>3. o \in next
    <3>1. k + 1 \in 1..k + 1 /\ 2 + (k + 1) = 3 + k OBVIOUS
    <3>2. line[2 + (k + 1)] \in next BY <3>1 DEF Given
    <3> QED BY <1>3, <3>1, <3>2
  <2>4. next \subseteq set \cup {o} BY <2>1 DEF Given
  <2>5. set \subseteq next BY <2>2 DEF Given
  <2> QED BY <2>3, <2>4, <2>5
<1> HIDE DEF set, next
<1>6. next \subseteq Options(where) BY <1>1, <1>4, <1>5
<1>7. Compatible(next) /\ flags' = next \cap FpgaOptions
  <2>1. CASE where = <<"fpga", "load">>
    <3>1. set = flags /\ Options(where) = FpgaOptions /\ flags' = flags \cup {o}
      BY <1>1, <1>4, <2>1, OptionsOf
    <3>2. Compatible(next) BY <1>1, <1>4, <1>5, <3>1, Added
    <3>3. next = flags' /\ next \subseteq FpgaOptions BY <1>5, <1>6, <3>1
    <3> QED BY <3>2, <3>3
  <2>2. CASE where = <<"acap", "load">>
    <3>1. Options(where) = {"-i", "--info"} /\ flags' = flags BY <1>1, <2>2, OptionsOf
    <3>2. Compatible(next) BY <1>6, <3>1, OptionsOf
    <3>3. flags = {} /\ next \cap FpgaOptions = {} BY <1>4, <1>6, <3>1, OptionsOf
    <3> QED BY <3>1, <3>2, <3>3
  <2> QED BY <2>1, <2>2 DEF Loads
<1>8. Turns(where, k + 1)'
  <2>1. RestOf(args', line', 2 + (k + 1)) BY <1>1, <1>3
  <2> QED BY <1>1, <1>4, <1>6, <1>7, <2>1 DEF Turns, next
<1>9. k + 1 \in Nat /\ Names(line, where) /\ line \in Seq(STRING)
  BY <1>1 DEF ObeyedInv, PathInv
<1>10. /\ at' # <<>> /\ at' \notin Functions /\ at' \notin {<<"pm">>, <<"fpga">>, <<"acap">>}
       /\ at' \in {Loop(w) : w \in Loads} /\ \A w \in Loads : at' = Loop(w) => w = where
  BY <1>1, LoopShape
<1>11. \A w \in Loads : at' = Loop(w) => Names(line', w) /\ \E j \in Nat : Turns(w, j)'
  BY <1>1, <1>8, <1>9, <1>10
<1>12. line' \in Seq(STRING) /\ LineObeyed' BY <1>1, <1>9, NoneObeys
<1> QED BY <1>10, <1>11, <1>12 DEF ObeyedInv, PathInv

LEMMA BadOptionObeys ==
  ASSUME ObeyedInv, NEW where \in Loads, BadOption(where)
  PROVE  ObeyedInv'
<1> DEFINE o == args[1]
           n == Len(line)
           given == Given(line, n - 3)
<1>1. /\ at = Loop(where) /\ args # <<>> /\ Dashed(o)
      /\ o \notin Options(where) \/ Excluded(flags, o)
      /\ Finish(Error)
  BY DEF BadOption
<1>2. PICK k \in Nat : Turns(where, k) BY <1>1 DEF ObeyedInv, PathInv
<1>3. /\ at # <<>> /\ n \in Nat /\ n > 3 /\ 2 + k <= n /\ 2 + k # n
      /\ o = line[3 + k] /\ Meanings(line) = LoadMeans(where, given, line[n])
      /\ given # {} /\ \A i \in 1..n - 3 : line[2 + i] \in given
  BY <1>1, <1>2, AtLoop
<1> HIDE DEF o, n, given
<1>4. flags \subseteq given
  <2>1. flags \subseteq Given(line, k) BY <1>2 DEF Turns
  <2>2. \A i \in 1..k : i \in 1..n - 3 BY <1>3
  <2>3. Given(line, k) \subseteq given BY <1>3, <2>2 DEF Given
  <2> QED BY <2>1, <2>3
<1>5. CASE 3 + k = n
  <2>1. Dashed(line[n]) BY <1>1, <1>3, <1>5
  <2>2. Meanings(line) = {} BY <1>3, <2>1 DEF LoadMeans
  <2> QED BY <1>1, <1>3, <2>2, FinishObeys
<1>6. CASE 3 + k # n
  <2>1. o \in given
    <3>1. k + 1 \in 1..n - 3 /\ 2 + (k + 1) = 3 + k BY <1>3, <1>6
    <3>2. line[2 + (k + 1)] \in given BY <1>3, <3>1
    <3> QED BY <1>3, <3>1, <3>2
  <2>2. Excluded(flags, o) => ~ Compatible(given)
    <3>1. SUFFICES ASSUME NEW pair \in Rivals, o \in pair, (pair \ {o}) \cap flags # {}
                   PROVE  pair \subseteq given
      BY DEF Excluded, Compatible
    <3>2. PICK r \in pair : r # o /\ r \in flags BY <3>1
    <3>3. pair = {o, r} BY <3>1, <3>2 DEF Rivals
    <3> QED BY <1>4, <2>1, <3>2, <3>3
  <2>3. ~ (given \subseteq Options(where)) \/ ~ Compatible(given) BY <1>1, <2>1, <2>2
  <2>4. Meanings(line) = {} BY <1>3, <2>3 DEF LoadMeans
  <2> QED BY <1>1, <1>3, <2>4, FinishObeys
<1> QED BY <1>5, <1>6

LEMMA LeaveLoopObeys ==
  ASSUME ObeyedInv, NEW where \in Loads, LeaveLoop(where)
  PROVE  ObeyedInv'
<1> DEFINE n == Len(line)
           given == Given(line, n - 3)
<1>1. /\ at = Loop(where)
      /\ args # <<>> => ~ Dashed(args[1])
      /\ Finish(IF Len(args) = 1 THEN Run(where, flags, args[1]) ELSE Error)
  BY DEF LeaveLoop
<1>2. PICK k \in Nat : Turns(where, k) BY <1>1 DEF ObeyedInv, PathInv
<1>3. /\ at # <<>> /\ n \in Nat /\ n > 3 /\ 2 + k <= n
      /\ args = <<>> <=> 2 + k = n
      /\ Len(args) = 1 <=> 3 + k = n
      /\ args # <<>> => args[1] = line[3 + k]
      /\ Meanings(line) = LoadMeans(where, given, line[n])
      /\ given # {} /\ \A i \in 1..n - 3 : line[2 + i] \in given
  BY <1>1, <1>2, AtLoop
<1>4. \A o \in Options(where) : Dashed(o) BY WordsAssumption
<1> DEFINE last == line[n]
<1>5. CASE 3 + k = n
  <2>1. /\ args[1] = last /\ ~ Dashed(last) /\ Finish(Run(where, flags, last))
    BY <1>1, <1>3, <1>5
  <2>2. given = Given(line, k)
    <3>1. n - 3 = k BY <1>3, <1>5
    <3> QED BY <3>1
  <2>3. /\ given \subseteq Options(where) /\ Compatible(given)
        /\ flags = given \cap FpgaOptions
    BY <1>2, <2>2 DEF Turns
  <2> HIDE DEF n, given, last
  <2>4. Meanings(line) = {Run(where, flags, last)}
    BY <1>3, <2>1, <2>3 DEF LoadMeans, last
  <2> QED BY <1>3, <2>1, <2>4, Outcomes, FinishObeys
<1>6. CASE 2 + k = n
  <2>1. k \in 1..k BY <1>3, <1>6
  <2>2. last \in Given(line, k) BY <1>6, <2>1 DEF Given
  <2>3. Dashed(last) BY <1>2, <1>4, <2>2 DEF Turns
  <2>4. Finish(Error) BY <1>1, <1>3, <1>6
  <2> HIDE DEF n, given
  <2>5. Meanings(line) = {} BY <1>3, <2>3 DEF LoadMeans
  <2> QED BY <1>3, <2>4, <2>5, FinishObeys
<1>7. CASE 3 + k # n /\ 2 + k # n
  <2>1. ~ Dashed(line[3 + k]) /\ Finish(Error) BY <1>1, <1>3, <1>7
  <2> HIDE DEF n, given
  <2>2. line[3 + k] \in given
    <3>1. k + 1 \in 1..n - 3 /\ 2 + (k + 1) = 3 + k BY <1>3, <1>7
    <3>2. line[2 + (k + 1)] \in given BY <1>3, <3>1
    <3> QED BY <3>1, <3>2
  <2>3. ~ (given \subseteq Options(where)) BY <1>4, <2>1, <2>2
  <2>4. Meanings(line) = {} BY <1>3, <2>3 DEF LoadMeans
  <2> QED BY <1>3, <2>1, <2>4, FinishObeys
<1> QED BY <1>5, <1>6, <1>7

LEMMA ObeyedInit == Init => ObeyedInv
<1> SUFFICES ASSUME Init PROVE ObeyedInv OBVIOUS
<1>1. line = <<>> /\ args = <<>> /\ at = <<>> /\ flags = {} /\ outcome = None BY DEF Init
<1>2. line \in Seq(STRING) BY <1>1
<1>3. \A f \in Functions : f # <<>> BY FunctionPlace
<1>4. \A w \in Loads : Loop(w) # <<>> BY LoopShape
<1>5. at \notin {<<"pm">>, <<"fpga">>, <<"acap">>} BY <1>1
<1> QED BY <1>1, <1>2, <1>3, <1>4, <1>5 DEF ObeyedInv, PathInv, LineObeyed

LEMMA TypeObeys == ASSUME ObeyedInv, NEW l \in Lines, Type(l) PROVE ObeyedInv'
<1>1. /\ at = <<>> /\ line' = l /\ args' = l /\ at' = <<"pm">> /\ flags' = {}
      /\ outcome' = outcome
  BY DEF Type
<1>2. outcome' = None BY <1>1 DEF ObeyedInv, PathInv
<1>3. l \in Seq(STRING) /\ RestOf(args', line', 0) BY <1>1, LinesAssumption, RestAll
<1>4. at' # <<>> /\ at' \notin {<<"fpga">>, <<"acap">>} BY <1>1
<1>5. at' \notin Functions BY <1>1, FunctionPlace
<1>6. \A w \in Loads : at' # Loop(w) BY <1>1, LoopShape
<1> QED BY <1>1, <1>2, <1>3, <1>4, <1>5, <1>6, NoneObeys DEF ObeyedInv, PathInv

LEMMA ReturnObeys == ASSUME ObeyedInv, Return PROVE ObeyedInv'
<1>1. line' = <<>> /\ args' = <<>> /\ at' = <<>> /\ flags' = {} /\ outcome' = None BY DEF Return
<1>2. line' \in Seq(STRING) BY <1>1
<1>3. at' \notin Functions BY <1>1, FunctionPlace
<1>4. \A w \in Loads : at' # Loop(w) BY <1>1, LoopShape
<1>5. at' \notin {<<"pm">>, <<"fpga">>, <<"acap">>} BY <1>1
<1> QED BY <1>1, <1>2, <1>3, <1>4, <1>5, NoneObeys DEF ObeyedInv, PathInv

LEMMA ObeyedStep == ObeyedInv /\ TypeOK /\ [Next]_vars => ObeyedInv'
<1> SUFFICES ASSUME ObeyedInv, TypeOK, [Next]_vars PROVE ObeyedInv' OBVIOUS
<1>1. CASE UNCHANGED vars
  <2>1. line' = line /\ args' = args /\ at' = at /\ flags' = flags /\ outcome' = outcome
    BY <1>1 DEF vars
  <2>2. PathInv' BY <2>1 DEF ObeyedInv, PathInv, Turns
  <2>3. LineObeyed' BY <2>1, Zenon DEF ObeyedInv, LineObeyed
  <2> QED BY <2>2, <2>3 DEF ObeyedInv
<1>2. ASSUME NEW l \in Lines, Type(l) PROVE ObeyedInv' BY <1>2, TypeObeys
<1>3. CASE Return BY <1>3, ReturnObeys
<1>4. CASE Command
  <2>1. outcome = None BY <1>4 DEF Command
  <2>2. AskHelp \/ NoCommand \/ Select => ObeyedInv'
    BY <2>1, HelpObeys, NoCommandObeys, SelectObeys
  <2>3. Query \/ Info \/ FileMissing \/ OnlyFile \/ EnterLoop => ObeyedInv'
    BY <2>1, QueryObeys, InfoObeys, FileMissingObeys, OnlyFileObeys, EnterLoopObeys
  <2>4. \A where \in Loads : TakeOption(where) \/ BadOption(where) \/ LeaveLoop(where) => ObeyedInv'
    BY <2>1, TakeOptionObeys, BadOptionObeys, LeaveLoopObeys
  <2> QED BY <1>4, <2>2, <2>3, <2>4 DEF Command
<1> QED BY <1>1, <1>2, <1>3, <1>4 DEF Next

\* Whatever is typed, at any length: the table search and the option loops
\* reach the outcome that the line has when it is read as a whole, and report
\* an error only for a line that means nothing.
THEOREM Obeyed == Spec => []LineObeyed
<1>1. FlagsInv => TypeOK BY DEF FlagsInv
<1>2. ObeyedInv => LineObeyed BY DEF ObeyedInv
<1> QED BY <1>1, <1>2, FlagsInit, FlagsStep, ObeyedInit, ObeyedStep, PTL DEF Spec

(***************************************************************************)
(* A line gets shorter                                                     *)
(***************************************************************************)
\* How much there still is to do of a line: two for each word left, one in
\* front of an option loop and one for the end
InLoop(where) == \E w \in Loads : where = Loop(w)
ToDo ==
  2 * Len(args) + (IF InLoop(at) THEN 0 ELSE 1) + (IF outcome = None THEN 1 ELSE 0)

LEMMA ToDoType == TypeOK => Len(args) \in Nat /\ ToDo \in Nat
BY LenProperties DEF TypeOK, ToDo

LEMMA Finishes == ASSUME TypeOK, outcome = None, NEW o, o # None, Finish(o) PROVE ToDo' < ToDo
<1>1. Len(args) \in Nat BY ToDoType
<1>2. args' = args /\ at' = at /\ outcome' # None BY DEF Finish
<1> QED BY <1>1, <1>2 DEF ToDo

LEMMA WordTaken ==
  ASSUME TypeOK, args # <<>>, args' = Tail(args), InLoop(at) => InLoop(at'), outcome' = outcome
  PROVE  ToDo' < ToDo
<1>1. Len(args) \in Nat /\ Len(args') = Len(args) - 1
  <2>1. args \in Seq(STRING) BY DEF TypeOK
  <2> QED BY <2>1, HeadTailProperties, LenProperties
<1>2. Len(args') \in Nat
  <2>1. Len(args) # 0 BY EmptySeq DEF TypeOK
  <2> QED BY <1>1, <2>1
<1> QED BY <1>1, <1>2 DEF ToDo

LEMMA CommandShortens == ASSUME TypeOK, Command PROVE ToDo' < ToDo
<1>1. outcome = None BY DEF Command
<1>2. /\ Error # None /\ Help # None
      /\ \A w, set, file : Run(w, set, file) # None
  BY DEF Error, Help, Run, None
<1>3. AskHelp \/ NoCommand \/ FileMissing => ToDo' < ToDo
  BY <1>1, <1>2, Finishes DEF AskHelp, NoCommand, FileMissing
<1>4. Query \/ OnlyFile => ToDo' < ToDo
  BY <1>1, <1>2, Finishes DEF Query, OnlyFile
<1>5. CASE Info
  BY <1>1, <1>2, <1>5, Finishes DEF Info
<1>6. CASE Select
  <2>1. args # <<>> /\ args' = Tail(args) /\ outcome' = outcome /\ Len(at) = 1
    BY <1>6 DEF Select, Searched, IsTable
  <2>2. ~ InLoop(at) BY <2>1 DEF InLoop, Loop, Loads
  <2> QED BY <2>1, <2>2, WordTaken
<1>7. CASE EnterLoop
  <2>1. /\ at \in Loads /\ at' = Loop(at) /\ args' = args /\ outcome' = outcome
    BY <1>7 DEF EnterLoop
  <2>2. InLoop(at') BY <2>1 DEF InLoop
  <2>3. ~ InLoop(at) BY <2>1 DEF InLoop, Loop, Loads
  <2> QED BY <1>1, <2>1, <2>2, <2>3, ToDoType DEF ToDo
<1>8. ASSUME NEW where \in Loads, TakeOption(where) PROVE ToDo' < ToDo
  <2>1. args # <<>> /\ args' = Tail(args) /\ outcome' = outcome /\ at' = at
    BY <1>8 DEF TakeOption
  <2> QED BY <2>1, WordTaken
<1>9. ASSUME NEW where \in Loads, BadOption(where) \/ LeaveLoop(where) PROVE ToDo' < ToDo
  BY <1>1, <1>2, <1>9, Finishes DEF BadOption, LeaveLoop
<1> QED BY <1>3, <1>4, <1>5, <1>6, <1>7, <1>8, <1>9 DEF Command

\* Every step of a command takes a word, enters the option loop or ends the
\* line: no turn of a loop leaves the words as they were, so a line of n words
\* is at its end after 2 * n + 2 steps at most.
THEOREM Shortens == Spec => [][Command => ToDo' \in Nat /\ ToDo' < ToDo]_vars
<1>1. TypeOK /\ TypeOK' /\ [Next]_vars => [Command => ToDo' \in Nat /\ ToDo' < ToDo]_vars
  <2>1. TypeOK' => ToDo' \in Nat BY LenProperties DEF TypeOK, ToDo
  <2> QED BY <2>1, CommandShortens
<1> QED BY <1>1, TypeCorrect, PTL DEF Spec
=============================================================================
