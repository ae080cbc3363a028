--------------------------- MODULE Startup_proofs ---------------------------
(***************************************************************************)
(* Proofs about Startup, for every set of boot lines, number of polls and  *)
(* build.                                                                  *)
(***************************************************************************)
EXTENDS Startup, FiniteSetTheorems, SequenceTheorems, NaturalsInduction, WellFoundedInduction, TLAPS

\* Where main has not yet asked for, or has just been refused, a part.
BeforeNetwork == {"boot", "strtok", "calloc", "args", "main"}
BeforePoll == BeforeNetwork \cup {"rc_conf", "network"}
BeforePm == BeforePoll \cup {"poll", "sleep", "debugger", "debugger_wait", "nfs", "pm"}

\* What has come up at each step.  The parts that the shell needs are there
\* from their step on, although any step in front of it may have failed.
OrderInv ==
  /\ pc \in BeforePoll => ~ seen /\ up \subseteq {"rc.conf"}
  /\ pc \in {"network", "poll", "sleep"} => "rc.conf" \in up
  /\ pc \in {"poll", "sleep"} =>
       /\ "bsd" \in up /\ ~ seen /\ ~ state
       /\ up \cap {"network", "debugger", "debugger command", "pm", "zocl", "xbutil2", "shell"} = {}
  /\ pc \in {"debugger", "debugger_wait"} =>
       {"rc.conf", "bsd", "network"} \subseteq up
  /\ pc \notin BeforePm => "pm" \in up \cup refused
  /\ pc \in {"open", "shell_init", "shell"} => "zocl" \in up
  /\ pc \in {"shell_init", "shell"} => "xbutil2" \in up \cup refused

StartInv == SafetyInv /\ OrderInv

\* The countdown of the polls stays in its range.
LEMMA TriesStep ==
  ASSUME tries \in 0..Tries, RunRcConf \/ Poll \/ PollFails \/ Reset
  PROVE  tries' \in 0..Tries
<1>1. Tries \in Nat
  BY StartupAssumption
<1>2. tries' = Tries \/ (tries > 0 /\ tries' = tries - 1)
  BY DEF RunRcConf, Poll, PollFails, Reset
<1> QED BY <1>1, <1>2

LEMMA InitStart == Init => StartInv
<1> SUFFICES ASSUME Init PROVE StartInv OBVIOUS
<1>1. tries \in 0..Tries
  BY StartupAssumption DEF Init
<1>2. TypeOK
  BY <1>1 DEF Init, TypeOK, Locations
<1>3. VerdictFromPoll /\ NoResetUnderShell
  BY DEF Init, VerdictFromPoll, NoResetUnderShell
<1>4. ShellComplete
  BY DEF Init, ShellComplete
<1>5. OrderInv
  BY DEF Init, OrderInv, BeforeNetwork, BeforePoll, BeforePm
<1>6. pc = "shell" <=> "shell" \in up
  BY DEF Init
<1> QED BY <1>2, <1>3, <1>4, <1>5, <1>6 DEF StartInv, SafetyInv

\* The split of the boot line brings nothing up.
LEMMA LineStep ==
  ASSUME StartInv,
         CopyLine \/ NoCopy \/ Strtok \/ NoMoreWords \/ Calloc \/ CallocFails \/ NextArg \/ ArgsDone
  PROVE  StartInv'
<1>1. /\ pc \in BeforeNetwork /\ pc' \in BeforeNetwork
      /\ argc' \in Nat
      /\ UNCHANGED <<line, option, up, refused, netVars>>
  <2> USE DEF Goto, argVars, BeforeNetwork
  <2>1. argc \in Nat BY DEF StartInv, SafetyInv, TypeOK
  <2>2. CASE CopyLine \/ NoCopy BY <2>1, <2>2 DEF CopyLine, NoCopy
  <2>3. CASE Strtok \/ NoMoreWords BY <2>1, <2>3 DEF Strtok, NoMoreWords
  <2>4. CASE Calloc \/ CallocFails BY <2>1, <2>4 DEF Calloc, CallocFails
  <2>5. CASE NextArg \/ ArgsDone BY <2>1, <2>5 DEF NextArg, ArgsDone
  <2> QED BY <2>2, <2>3, <2>4, <2>5
<1> QED
  BY <1>1 DEF StartInv, SafetyInv, OrderInv, TypeOK, VerdictFromPoll, ShellComplete,
       NoResetUnderShell, BeforeNetwork, BeforePoll, BeforePm, Locations, netVars

\* The network up to the verdict.
LEMMA NetworkStep ==
  ASSUME StartInv,
         EtcDirectory \/ RcConf \/ RunRcConf \/ Poll \/ PollFails \/ Sleep \/ PollEnd \/ LinkChanges
  PROVE  StartInv'
<1> USE DEF StartInv, SafetyInv, OrderInv, TypeOK, VerdictFromPoll, ShellComplete,
            NoResetUnderShell, BeforeNetwork, BeforePoll, BeforePm, Locations, Parts,
            Goto, Adds, AddsCommands, argVars, netVars
<1>1. CASE EtcDirectory
  BY <1>1 DEF EtcDirectory, Directory
<1>2. CASE RcConf
  BY <1>2 DEF RcConf
<1>3. CASE RunRcConf
  <2>1. tries' \in 0..Tries BY <1>3, TriesStep
  <2> QED BY <1>3, <2>1 DEF RunRcConf
<1>4. CASE Poll
  <2>1. tries' \in 0..Tries BY <1>4, TriesStep
  <2>2. CASE link
    <3>1. pc = "poll" /\ pc' = "debugger" /\ up' = up \cup {"network"} /\ state' = link
          /\ seen' = (seen \/ link) /\ UNCHANGED <<line, argc, option, refused, link>>
      BY <1>4, <2>2 DEF Poll
    <3>2. seen'
      BY <2>2, <3>1
    <3> QED BY <2>1, <2>2, <3>1, <3>2
  <2>3. CASE ~ link
    BY <1>4, <2>1, <2>3 DEF Poll
  <2> QED BY <2>2, <2>3
<1>5. CASE PollFails
  <2>1. tries' \in 0..Tries BY <1>5, TriesStep
  <2> QED BY <1>5, <2>1 DEF PollFails
<1>6. CASE Sleep
  BY <1>6 DEF Sleep
<1>7. CASE PollEnd
  BY <1>7 DEF PollEnd
<1>8. CASE LinkChanges
  BY <1>8 DEF LinkChanges
<1> QED BY <1>1, <1>2, <1>3, <1>4, <1>5, <1>6, <1>7, <1>8

\* From the debugger to the end of main, and the reset.
LEMMA MainStep ==
  ASSUME StartInv,
         DebuggerFails \/ DebuggerInit \/ DebuggerGoesOn \/ NfsInit \/ PmInit \/ DevDirectories
         \/ ZoclRegister \/ OpenClose \/ ShellInit \/ ShellEnds \/ Reset
  PROVE  StartInv'
<1> USE DEF StartInv, SafetyInv, OrderInv, TypeOK, VerdictFromPoll, ShellComplete,
            NoResetUnderShell, BeforeNetwork, BeforePoll, BeforePm, Locations, Parts,
            Goto, Adds, AddsCommands, argVars, netVars
<1>1. CASE DebuggerFails
  BY <1>1 DEF DebuggerFails
<1>2. CASE DebuggerInit
  BY <1>2 DEF DebuggerInit
<1>3. CASE DebuggerGoesOn
  BY <1>3 DEF DebuggerGoesOn
<1>4. CASE NfsInit
  BY <1>4 DEF NfsInit, Directory
<1>5. CASE PmInit
  BY <1>5 DEF PmInit
<1>6. CASE DevDirectories
  <2>1. CASE Directory("dev", "dri", "return")
    BY <2>1 DEF Directory
  <2>2. CASE Directory("dri", "zocl", "return")
    BY <2>2 DEF Directory
  <2> QED BY <1>6, <2>1, <2>2 DEF DevDirectories
<1>7. CASE ZoclRegister
  BY <1>7 DEF ZoclRegister
<1>8. CASE OpenClose
  BY <1>8 DEF OpenClose
<1>9. CASE ShellInit
  BY <1>9 DEF ShellInit
<1>10. CASE ShellEnds
  BY <1>10 DEF ShellEnds
<1>11. CASE Reset
  <2>1. tries' \in 0..Tries BY <1>11, TriesStep
  <2> QED BY <1>11, <2>1 DEF Reset
<1> QED BY <1>1, <1>2, <1>3, <1>4, <1>5, <1>6, <1>7, <1>8, <1>9, <1>10, <1>11

LEMMA StepStart == StartInv /\ [Next]_vars => StartInv'
<1> SUFFICES ASSUME StartInv, [Next]_vars PROVE StartInv' OBVIOUS
<1>1. CASE UNCHANGED vars
  BY <1>1 DEF vars, StartInv, SafetyInv, OrderInv, TypeOK, VerdictFromPoll, ShellComplete,
              NoResetUnderShell
<1>2. CASE Next
  BY <1>2, LineStep, NetworkStep, MainStep DEF Next, Program
<1> QED BY <1>1, <1>2

THEOREM Safety == Spec => []StartInv
BY InitStart, StepStart, PTL DEF Spec

\* The invariant that the runs check.
THEOREM StartupSafe == Spec => []SafetyInv
<1>1. StartInv => SafetyInv BY DEF StartInv
<1> QED BY <1>1, Safety, PTL

\* The network is taken to be up exactly if a poll saw its link up.
THEOREM Verdict == Spec => []VerdictFromPoll
<1>1. StartInv => VerdictFromPoll BY DEF StartInv, SafetyInv
<1> QED BY <1>1, Safety, PTL

\* A shell that runs has the device, and each of the two commands unless that
\* command itself was refused.
THEOREM Complete == Spec => []ShellComplete
<1>1. StartInv => ShellComplete BY DEF StartInv, SafetyInv
<1> QED BY <1>1, Safety, PTL

(***************************************************************************)
(* The boot line: searches                                                 *)
(***************************************************************************)
\* A set of naturals that is not empty has a least element.
LEMMA Least ==
  ASSUME NEW S \in SUBSET Nat, S # {}
  PROVE  \E m \in S : \A n \in S : ~ (n < m)
<1> DEFINE Less == {p \in Nat \X Nat : p[1] < p[2]}
<1>1. IsWellFoundedOn(Less, Nat)
  <2>1. Less = OpToRel(<, Nat) BY DEF OpToRel
  <2> QED BY <2>1, NatLessThanWellFounded
<1> HIDE DEF Less
<1>2. PICK m \in S : \A n \in S : ~ (<<n, m>> \in Less)
  BY <1>1, WFMin
<1> QED BY <1>2 DEF Less

\* FirstFrom is the place that its description is true of.
LEMMA FirstIs ==
  ASSUME Len(mem) \in Nat, NEW from \in Nat, NEW chars, NEW e \in from..Len(mem),
         mem[e] \in chars, \A j \in from..e - 1 : mem[j] \notin chars
  PROVE  FirstFrom(from, chars) = e
<1> DEFINE P(k) == mem[k] \in chars /\ \A j \in from..k - 1 : mem[j] \notin chars
<1>1. P(e) OBVIOUS
<1>2. ASSUME NEW k \in from..Len(mem), P(k) PROVE k = e
  <2>1. CASE k < e
    <3>1. k \in from..e - 1 BY <2>1
    <3> QED BY <3>1, <1>2
  <2>2. CASE e < k
    <3>1. e \in from..k - 1 BY <2>2
    <3> QED BY <3>1, <1>2
  <2> QED BY <2>1, <2>2
<1>3. FirstFrom(from, chars) = CHOOSE k \in from..Len(mem) : P(k)
  BY DEF FirstFrom
<1> HIDE DEF P
<1> QED BY <1>1, <1>2, <1>3

\* A search comes to the first place if there is one.
LEMMA FirstFound ==
  ASSUME Len(mem) \in Nat, NEW from \in Nat, NEW chars, NEW n \in from..Len(mem), mem[n] \in chars
  PROVE  /\ FirstFrom(from, chars) \in from..Len(mem)
         /\ mem[FirstFrom(from, chars)] \in chars
         /\ \A j \in from..FirstFrom(from, chars) - 1 : mem[j] \notin chars
<1> DEFINE S == {k \in from..Len(mem) : mem[k] \in chars}
<1>1. S \in SUBSET Nat /\ S # {} OBVIOUS
<1>2. PICK e \in S : \A k \in S : ~ (k < e) BY <1>1, Least
<1>3. \A j \in from..e - 1 : mem[j] \notin chars
  <2> SUFFICES ASSUME NEW j \in from..e - 1, mem[j] \in chars PROVE FALSE OBVIOUS
  <2>1. j \in S /\ j < e OBVIOUS
  <2> QED BY <2>1, <1>2
<1>4. FirstFrom(from, chars) = e BY <1>2, <1>3, FirstIs
<1> QED BY <1>2, <1>3, <1>4

(***************************************************************************)
(* The boot line: words                                                    *)
(***************************************************************************)
Text == Seq({Blank, Char})

\* The places behind the words of a line
Ends(l) == {e \in 2..Len(l) + 1 : l[e - 1] = Char /\ (e = Len(l) + 1 \/ l[e] = Blank)}

\* The copy of the line when strtok has cut it in front of n
CutLine(l, n) ==
  [k \in 1..Len(l) + 1 |-> IF k = Len(l) + 1 \/ (k \in Ends(l) /\ k < n) THEN Nul ELSE l[k]]

\* The words in front of n; no word goes on over a boundary.
Before(l, n) == {j \in WordStarts(l) : j < n}
Boundary(l, n) == n \in 1..Len(l) + 1 /\ (n = 1 \/ n = Len(l) + 1 \/ l[n - 1] = Blank)

LEMMA Symbols == Blank # Char /\ Blank # Nul /\ Char # Nul
BY DEF Blank, Char, Nul

LEMMA CharAt ==
  ASSUME NEW l \in Text
  PROVE  Len(l) \in Nat /\ \A k \in 1..Len(l) : l[k] \in {Blank, Char}
BY DEF Text

LEMMA WordsFinite ==
  ASSUME NEW l \in Text
  PROVE  /\ IsFiniteSet(WordStarts(l)) /\ WordStarts(l) \in SUBSET Nat
         /\ \A n : Before(l, n) \subseteq WordStarts(l) /\ IsFiniteSet(Before(l, n))
<1>1. Len(l) \in Nat BY CharAt
<1>2. IsFiniteSet(1..Len(l)) BY <1>1, FS_Interval
<1>3. WordStarts(l) \subseteq 1..Len(l) BY DEF WordStarts
<1>4. \A n : Before(l, n) \subseteq 1..Len(l) BY <1>3 DEF Before
<1> QED BY <1>1, <1>2, <1>3, <1>4, FS_Subset DEF Before

\* The last character of a word is the one place where its end can be.
LEMMA WordEndIs ==
  ASSUME NEW l \in Text, NEW w \in 1..Len(l), NEW e \in w + 1..Len(l) + 1,
         \A j \in w..e - 1 : l[j] = Char, e = Len(l) + 1 \/ l[e] = Blank
  PROVE  WordEnd(l, w) = e - 1
<1> DEFINE P(k) == (k = Len(l) \/ l[k + 1] = Blank) /\ \A j \in w..k : l[j] = Char
<1>1. Len(l) \in Nat BY CharAt
<1>2. e - 1 \in w..Len(l) /\ P(e - 1)
  <2>1. e \in Nat /\ (e - 1) + 1 = e BY <1>1
  <2> QED BY <1>1, <2>1
<1>3. ASSUME NEW k \in w..Len(l), P(k) PROVE k = e - 1
  <2>1. CASE k < e - 1
    <3>1. k + 1 \in w..e - 1 /\ k # Len(l) BY <1>1, <2>1
    <3> QED BY <3>1, <1>3, Symbols
  <2>2. CASE e - 1 < k
    <3>1. e \in w..k /\ e # Len(l) + 1 BY <1>1, <2>2
    <3> QED BY <3>1, <1>3, Symbols
  <2> QED BY <1>1, <2>1, <2>2
<1>4. WordEnd(l, w) = CHOOSE k \in w..Len(l) : P(k)
  BY DEF WordEnd
<1> HIDE DEF P
<1> QED BY <1>2, <1>3, <1>4

\* From a boundary on, over blanks, to a word and to its end: there is no other
\* word and no other end on the way.
LEMMA NextWord ==
  ASSUME NEW l \in Text, NEW n \in Nat, Boundary(l, n),
         NEW w \in n..Len(l), l[w] = Char, \A j \in n..w - 1 : l[j] = Blank,
         NEW e \in w + 1..Len(l) + 1, \A j \in w..e - 1 : l[j] = Char,
         e = Len(l) + 1 \/ l[e] = Blank
  PROVE  /\ w \in WordStarts(l) /\ e \in Ends(l)
         /\ WordEnd(l, w) = e - 1
         /\ \A k \in Ends(l) : k >= n => k >= e
         /\ \A k \in WordStarts(l) : k >= n /\ k <= e => k = w
<1>1. Len(l) \in Nat /\ 1 <= n BY CharAt DEF Boundary
<1>2. w \in WordStarts(l)
  <2>1. CASE w = n
    BY <1>1, <2>1 DEF Boundary, WordStarts
  <2>2. CASE w > n
    <3>1. w - 1 \in n..w - 1 BY <1>1, <2>2
    <3> QED BY <1>1, <3>1 DEF WordStarts
  <2> QED BY <1>1, <2>1, <2>2
<1>3. e \in Ends(l)
  <2>1. e - 1 \in w..e - 1 /\ e \in 2..Len(l) + 1 BY <1>1
  <2> QED BY <2>1 DEF Ends
<1>4. WordEnd(l, w) = e - 1
  <2>1. w \in 1..Len(l) BY <1>1
  <2> QED BY <2>1, WordEndIs
<1>5. ASSUME NEW k \in Ends(l), k >= n, k < e PROVE FALSE
  <2>1. k \in Nat /\ k >= 2 /\ l[k - 1] = Char /\ (k = Len(l) + 1 \/ l[k] = Blank)
    BY <1>1, <1>5 DEF Ends
  <2>2. CASE k = n
    BY <1>1, <2>1, <2>2, Symbols DEF Boundary
  <2>3. CASE k > n /\ k <= w
    <3>1. k - 1 \in n..w - 1 BY <1>1, <2>1, <2>3
    <3> QED BY <3>1, <2>1, Symbols
  <2>4. CASE k > w
    <3>1. k \in w..e - 1 /\ k # Len(l) + 1 BY <1>1, <1>5, <2>1, <2>4
    <3> QED BY <3>1, <2>1, Symbols
  <2> QED BY <1>1, <1>5, <2>1, <2>2, <2>3, <2>4
<1>6. ASSUME NEW k \in WordStarts(l), k >= n, k <= e, k # w PROVE FALSE
  <2>1. k \in 1..Len(l) /\ l[k] = Char /\ (k = 1 \/ l[k - 1] = Blank)
    BY <1>6 DEF WordStarts
  <2>2. CASE k < w
    <3>1. k \in n..w - 1 BY <1>1, <1>6, <2>1, <2>2
    <3> QED BY <3>1, <2>1, Symbols
  <2>3. CASE k > w
    <3>1. k - 1 \in w..e - 1 /\ k # 1 BY <1>1, <1>6, <2>1, <2>3
    <3> QED BY <3>1, <2>1, Symbols
  <2> QED BY <1>1, <1>6, <2>1, <2>2, <2>3
<1>7. \A k \in Ends(l) : k \in Nat BY <1>1 DEF Ends
<1>8. \A k \in WordStarts(l) : k \in Nat BY <1>1 DEF WordStarts
<1>9. \A k \in Ends(l) : k >= n => k >= e BY <1>1, <1>5, <1>7
<1>10. \A k \in WordStarts(l) : k >= n /\ k <= e => k = w BY <1>6
<1> QED BY <1>2, <1>3, <1>4, <1>9, <1>10

\* A word that ends at e is one more than those in front of it.
LEMMA OneMore ==
  ASSUME NEW l \in Text, NEW n \in Nat, NEW w \in WordStarts(l), n <= w, NEW m \in Nat, w < m,
         \A k \in WordStarts(l) : k >= n /\ k < m => k = w
  PROVE  /\ Cardinality(Before(l, m)) = Cardinality(Before(l, n)) + 1
         /\ Before(l, m) = {j \in WordStarts(l) : j <= w}
<1>1. WordStarts(l) \in SUBSET Nat /\ IsFiniteSet(Before(l, n)) BY WordsFinite
<1>2. Before(l, m) = Before(l, n) \cup {w}
  BY <1>1 DEF Before
<1>3. w \notin Before(l, n) BY <1>1 DEF Before
<1>4. Before(l, m) = {j \in WordStarts(l) : j <= w} BY <1>1 DEF Before
<1> QED BY <1>1, <1>2, <1>3, <1>4, FS_AddElement

\* The word of a number is the one with as many words up to it.
LEMMA WordIs ==
  ASSUME NEW l \in Text, NEW w \in WordStarts(l), NEW a,
         Cardinality({j \in WordStarts(l) : j <= w}) = a
  PROVE  Word(l, a) = w
<1> DEFINE UpTo(k) == {j \in WordStarts(l) : j <= k}
<1>1. WordStarts(l) \in SUBSET Nat /\ IsFiniteSet(WordStarts(l)) BY WordsFinite
<1>2. \A k : IsFiniteSet(UpTo(k)) BY <1>1, FS_Subset
<1>3. ASSUME NEW k \in WordStarts(l), NEW j \in WordStarts(l), k < j,
             Cardinality(UpTo(k)) = Cardinality(UpTo(j))
      PROVE  FALSE
  <2>1. UpTo(k) \subseteq UpTo(j) BY <1>1, <1>3
  <2>2. j \in UpTo(j) /\ j \notin UpTo(k) BY <1>1, <1>3
  <2>3. UpTo(k) = UpTo(j)
    <3> HIDE DEF UpTo
    <3> QED BY <1>2, <1>3, <2>1, FS_Subset
  <2> QED BY <2>2, <2>3
<1>4. ASSUME NEW k \in WordStarts(l), Cardinality(UpTo(k)) = a PROVE k = w
  <2>1. Cardinality(UpTo(w)) = a OBVIOUS
  <2>2. k < w \/ w < k \/ k = w BY <1>1
  <2> HIDE DEF UpTo
  <2> QED BY <1>3, <1>4, <2>1, <2>2
<1>5. Word(l, a) = CHOOSE k \in WordStarts(l) : Cardinality(UpTo(k)) = a BY DEF Word
<1>6. Cardinality(UpTo(w)) = a OBVIOUS
<1> HIDE DEF UpTo
<1> QED BY <1>4, <1>5, <1>6

(***************************************************************************)
(* The boot line: strtok                                                   *)
(***************************************************************************)
\* What strtok has done when save is where it goes on
Cutting ==
  /\ line \in Text
  /\ mem = CutLine(line, save)
  /\ Boundary(line, save)
  /\ argc = Cardinality(Before(line, save))

\* What the second loop finds
Split ==
  /\ line \in Text
  /\ mem = CutLine(line, Len(line) + 1)
  /\ argc = Cardinality(WordStarts(line))

\* The copy ends with a NUL, and from where it was not cut it is the line.
LEMMA MemIs ==
  ASSUME line \in Text, NEW n, mem = CutLine(line, n)
  PROVE  /\ Len(line) \in Nat /\ Len(mem) = Len(line) + 1
         /\ mem[Len(line) + 1] = Nul
         /\ \A k \in 1..Len(line) : mem[k] = IF k \in Ends(line) /\ k < n THEN Nul ELSE line[k]
<1>1. Len(line) \in Nat BY CharAt
<1>2. mem = [k \in 1..Len(line) + 1 |->
               IF k = Len(line) + 1 \/ (k \in Ends(line) /\ k < n) THEN Nul ELSE line[k]]
  BY DEF CutLine
<1>3. Len(mem) = Len(line) + 1
  <2>1. Len(line) + 1 \in Nat BY <1>1
  <2> QED BY <1>2, <2>1
<1>4. Len(line) + 1 \in 1..Len(line) + 1 /\ \A k \in 1..Len(line) : k \in 1..Len(line) + 1 /\ k # Len(line) + 1
  BY <1>1
<1> QED BY <1>1, <1>2, <1>3, <1>4

LEMMA CopyCut ==
  ASSUME NEW l \in Text
  PROVE  /\ Append(l, Nul) = CutLine(l, 1)
         /\ Boundary(l, 1) /\ Before(l, 1) = {}
<1>1. Len(l) \in Nat BY CharAt
<1>2. Append(l, Nul) = [k \in 1..Len(l) + 1 |-> IF k = Len(l) + 1 THEN Nul ELSE l[k]]
  <2> DEFINE S == {Blank, Char, Nul}
  <2>1. l \in Seq(S) /\ Nul \in S BY DEF Text
  <2>2. /\ Append(l, Nul) \in Seq(S) /\ Len(Append(l, Nul)) = Len(l) + 1
        /\ \A k \in 1..Len(l) : Append(l, Nul)[k] = l[k]
        /\ Append(l, Nul)[Len(l) + 1] = Nul
    <3> HIDE DEF S
    <3> QED BY <2>1, AppendProperties
  <2>3. Append(l, Nul) = [k \in 1..Len(l) + 1 |-> Append(l, Nul)[k]]
    <3> DEFINE copy == Append(l, Nul)
    <3>1. copy \in Seq(S) /\ Len(copy) = Len(l) + 1 BY <2>2
    <3> HIDE DEF S, copy
    <3>2. copy \in [1..Len(copy) -> S] BY <3>1, LenProperties
    <3>3. copy = [k \in 1..Len(l) + 1 |-> copy[k]] BY <3>1, <3>2
    <3> QED BY <3>3 DEF copy
  <2>4. \A k \in 1..Len(l) + 1 : k # Len(l) + 1 => k \in 1..Len(l)
    BY <1>1
  <2> QED BY <2>2, <2>3, <2>4
<1>3. \A k \in Ends(l) : ~ (k < 1) BY <1>1 DEF Ends
<1>4. CutLine(l, 1) = [k \in 1..Len(l) + 1 |-> IF k = Len(l) + 1 THEN Nul ELSE l[k]]
  BY <1>3 DEF CutLine
<1>5. Boundary(l, 1) BY <1>1 DEF Boundary
<1>6. Before(l, 1) = {} BY <1>1 DEF Before, WordStarts
<1> QED BY <1>2, <1>4, <1>5, <1>6

\* A call of strtok comes over blanks to a word and to its end.
LEMMA StrtokFinds ==
  ASSUME Cutting, NEW word, NEW end,
         word = FirstFrom(save, {Char, Nul}), mem[word] = Char,
         end = FirstFrom(word, {Blank, Nul})
  PROVE  /\ save \in Nat /\ word \in save..Len(line) /\ line[word] = Char
         /\ \A j \in save..word - 1 : line[j] = Blank
         /\ end \in word + 1..Len(line) + 1
         /\ \A j \in word..end - 1 : line[j] = Char
         /\ end = Len(line) + 1 \/ line[end] = Blank
         /\ mem[end] = Nul <=> end = Len(line) + 1
<1>1. /\ Len(line) \in Nat /\ Len(mem) = Len(line) + 1 /\ mem[Len(line) + 1] = Nul
      /\ \A k \in 1..Len(line) : mem[k] = IF k \in Ends(line) /\ k < save THEN Nul ELSE line[k]
  BY MemIs DEF Cutting
<1>2. save \in 1..Len(line) + 1 BY DEF Cutting, Boundary
<1>3. \A k \in save..Len(line) : mem[k] = line[k] /\ line[k] \in {Blank, Char}
  <2>1. \A k \in save..Len(line) : k \in 1..Len(line) /\ ~ (k < save) BY <1>1, <1>2
  <2> QED BY <1>1, <2>1, CharAt DEF Cutting
<1>4. /\ word \in save..Len(mem)
      /\ \A j \in save..word - 1 : mem[j] \notin {Char, Nul}
  <2> DEFINE chars == {Char, Nul}
             last == Len(line) + 1
  <2>1. Len(mem) \in Nat /\ save \in Nat /\ last \in save..Len(mem) /\ mem[last] \in chars
    BY <1>1, <1>2
  <2>2. word = FirstFrom(save, chars) OBVIOUS
  <2>3. /\ FirstFrom(save, chars) \in save..Len(mem)
        /\ \A j \in save..FirstFrom(save, chars) - 1 : mem[j] \notin chars
    <3> HIDE DEF chars, last
    <3> QED BY <2>1, FirstFound
  <2> QED BY <2>2, <2>3
<1>5. word \in save..Len(line) /\ word # Len(line) + 1 BY <1>1, <1>2, <1>4, Symbols
<1>6. /\ end \in word..Len(mem) /\ mem[end] \in {Blank, Nul}
      /\ \A j \in word..end - 1 : mem[j] \notin {Blank, Nul}
  <2> DEFINE chars == {Blank, Nul}
             last == Len(line) + 1
  <2>1. Len(mem) \in Nat /\ word \in Nat /\ last \in word..Len(mem) /\ mem[last] \in chars
    BY <1>1, <1>2, <1>5
  <2>2. /\ FirstFrom(word, chars) \in word..Len(mem)
        /\ mem[FirstFrom(word, chars)] \in chars
        /\ \A j \in word..FirstFrom(word, chars) - 1 : mem[j] \notin chars
    <3> HIDE DEF chars, last
    <3> QED BY <2>1, FirstFound
  <2> QED BY <2>2
<1>7. line[word] = Char BY <1>3, <1>5
<1>8. \A j \in save..word - 1 : line[j] = Blank
  <2> SUFFICES ASSUME NEW j \in save..word - 1 PROVE line[j] = Blank OBVIOUS
  <2>1. j \in save..Len(line) BY <1>1, <1>2, <1>5
  <2> QED BY <2>1, <1>3, <1>4
<1>9. end # word BY <1>6, Symbols
<1>10. end \in word + 1..Len(line) + 1 BY <1>1, <1>2, <1>5, <1>6, <1>9
<1>11. \A j \in word..end - 1 : line[j] = Char
  <2> SUFFICES ASSUME NEW j \in word..end - 1 PROVE line[j] = Char OBVIOUS
  <2>1. j \in save..Len(line) BY <1>1, <1>2, <1>5, <1>10
  <2> QED BY <2>1, <1>3, <1>6
<1>12. end # Len(line) + 1 => end \in save..Len(line)
  BY <1>1, <1>2, <1>5, <1>10
<1>13. end # Len(line) + 1 => line[end] = Blank /\ mem[end] # Nul
  BY <1>3, <1>6, <1>12, Symbols
<1>14. save \in Nat /\ (mem[end] = Nul <=> end = Len(line) + 1)
  BY <1>1, <1>2, <1>13
<1>15. end = Len(line) + 1 \/ line[end] = Blank
  BY <1>13
<1> QED BY <1>5, <1>7, <1>8, <1>10, <1>11, <1>14, <1>15

LEMMA StrtokStep == ASSUME Cutting, Strtok PROVE Cutting'
<1> DEFINE word == FirstFrom(save, {Char, Nul})
           end == FirstFrom(word, {Blank, Nul})
<1>1. /\ mem[word] = Char
      /\ mem' = [mem EXCEPT ![end] = Nul]
      /\ save' = IF mem[end] = Nul THEN end ELSE end + 1
      /\ argc' = argc + 1 /\ line' = line
  BY DEF Strtok
<1>2. /\ save \in Nat /\ word \in save..Len(line) /\ line[word] = Char
      /\ \A j \in save..word - 1 : line[j] = Blank
      /\ end \in word + 1..Len(line) + 1
      /\ \A j \in word..end - 1 : line[j] = Char
      /\ end = Len(line) + 1 \/ line[end] = Blank
      /\ mem[end] = Nul <=> end = Len(line) + 1
  BY <1>1, StrtokFinds
<1> HIDE DEF word, end
<1>3. /\ line \in Text /\ Len(line) \in Nat /\ Boundary(line, save)
      /\ mem = CutLine(line, save) /\ argc = Cardinality(Before(line, save))
  BY CharAt DEF Cutting
<1>4. /\ word \in WordStarts(line) /\ end \in Ends(line)
      /\ \A k \in Ends(line) : k >= save => k >= end
      /\ \A k \in WordStarts(line) : k >= save /\ k <= end => k = word
  BY <1>2, <1>3, NextWord
<1>5. save' \in Nat /\ save \in 1..Len(line) + 1 /\ end \in Nat /\ word \in Nat
      /\ save' = (IF end = Len(line) + 1 THEN end ELSE end + 1)
  BY <1>1, <1>2, <1>3 DEF Boundary
<1>6. Boundary(line, save')
  BY <1>2, <1>3, <1>5 DEF Boundary
<1>7. mem' = CutLine(line, save')
  <2>1. \A k \in 1..Len(line) + 1 :
          k # end => (k \in Ends(line) /\ k < save' <=> k \in Ends(line) /\ k < save)
    BY <1>2, <1>3, <1>4, <1>5
  <2>2. end = Len(line) + 1 \/ (end \in Ends(line) /\ end < save')
    BY <1>4, <1>5
  <2>3. end \in 1..Len(line) + 1 BY <1>2, <1>5
  <2>4. mem' = [k \in 1..Len(line) + 1 |-> IF k = end THEN Nul ELSE mem[k]]
    BY <1>1, <1>3, <2>3 DEF CutLine
  <2>5. ASSUME NEW k \in 1..Len(line) + 1
        PROVE  (IF k = end THEN Nul ELSE mem[k]) =
                 IF k = Len(line) + 1 \/ (k \in Ends(line) /\ k < save') THEN Nul ELSE line[k]
    <3>1. mem[k] = IF k = Len(line) + 1 \/ (k \in Ends(line) /\ k < save) THEN Nul ELSE line[k]
      BY <1>3 DEF CutLine
    <3> QED BY <2>1, <2>2, <3>1
  <2> QED BY <2>4, <2>5 DEF CutLine
<1>8. argc' = Cardinality(Before(line, save'))
  <2>1. \A k \in WordStarts(line) : k \in Nat /\ k # Len(line) + 1 /\ (k = end => k = word)
    BY <1>2, <1>3, <1>4, <1>5 DEF WordStarts
  <2>2. \A k \in WordStarts(line) : k >= save /\ k < save' => k = word
    BY <1>3, <1>4, <1>5, <2>1
  <2>3. save <= word /\ word < save' BY <1>2, <1>3, <1>5
  <2>4. Cardinality(Before(line, save')) = Cardinality(Before(line, save)) + 1
    BY <1>3, <1>4, <1>5, <2>2, <2>3, OneMore
  <2> QED BY <1>1, <1>3, <2>4
<1> QED BY <1>1, <1>3, <1>6, <1>7, <1>8 DEF Cutting

\* strtok is at its end when there are only blanks left.
LEMMA StrtokEnds ==
  ASSUME Cutting, mem[FirstFrom(save, {Char, Nul})] = Nul
  PROVE  Split
<1> DEFINE word == FirstFrom(save, {Char, Nul})
<1>1. /\ Len(line) \in Nat /\ Len(mem) = Len(line) + 1 /\ mem[Len(line) + 1] = Nul
      /\ \A k \in 1..Len(line) : mem[k] = IF k \in Ends(line) /\ k < save THEN Nul ELSE line[k]
  BY MemIs DEF Cutting
<1>2. save \in 1..Len(line) + 1 /\ line \in Text BY DEF Cutting, Boundary
<1>3. \A k \in save..Len(line) : mem[k] = line[k] /\ line[k] \in {Blank, Char}
  <2>1. \A k \in save..Len(line) : k \in 1..Len(line) /\ ~ (k < save) BY <1>1, <1>2
  <2> QED BY <1>1, <1>2, <2>1, CharAt
<1>4. word \in save..Len(mem) /\ \A j \in save..word - 1 : mem[j] \notin {Char, Nul}
  <2> DEFINE chars == {Char, Nul}
             last == Len(line) + 1
  <2>1. Len(mem) \in Nat /\ save \in Nat /\ last \in save..Len(mem) /\ mem[last] \in chars
    BY <1>1, <1>2
  <2>2. word = FirstFrom(save, chars) OBVIOUS
  <2>3. /\ FirstFrom(save, chars) \in save..Len(mem)
        /\ \A j \in save..FirstFrom(save, chars) - 1 : mem[j] \notin chars
    <3> HIDE DEF chars, last
    <3> QED BY <2>1, FirstFound
  <2> QED BY <2>2, <2>3
<1>5. word = Len(line) + 1
  <2>1. CASE word \in save..Len(line)
    BY <1>3, <2>1, Symbols
  <2> QED BY <1>1, <1>2, <1>4, <2>1
<1> HIDE DEF word
<1>6. \A k \in save..Len(line) : line[k] = Blank
  <2> SUFFICES ASSUME NEW k \in save..Len(line) PROVE line[k] = Blank OBVIOUS
  <2>1. k \in save..word - 1 BY <1>1, <1>2, <1>5
  <2> QED BY <1>3, <1>4, <2>1
<1>7. \A k \in WordStarts(line) : k < save
  BY <1>1, <1>2, <1>6, Symbols DEF WordStarts
<1>8. \A k \in Ends(line) : k # Len(line) + 1 => k < save
  <2> SUFFICES ASSUME NEW k \in Ends(line), k # Len(line) + 1, k >= save PROVE FALSE
    BY <1>1, <1>2 DEF Ends
  <2>1. k \in 2..Len(line) /\ line[k - 1] = Char BY <1>1 DEF Ends
  <2>2. CASE k = save
    BY <1>2, <2>1, <2>2, Symbols DEF Cutting, Boundary
  <2>3. CASE k > save
    <3>1. k - 1 \in save..Len(line) BY <1>2, <2>1, <2>3
    <3> QED BY <1>6, <2>1, <3>1, Symbols
  <2> QED BY <1>2, <2>1, <2>2, <2>3
<1>9. CutLine(line, save) = CutLine(line, Len(line) + 1)
  <2>1. \A k \in 1..Len(line) + 1 :
          k # Len(line) + 1 => (k \in Ends(line) /\ k < save <=> k \in Ends(line) /\ k < Len(line) + 1)
    BY <1>1, <1>2, <1>8
  <2> QED BY <2>1 DEF CutLine
<1>10. Before(line, save) = WordStarts(line)
  BY <1>7 DEF Before
<1> QED BY <1>2, <1>9, <1>10 DEF Cutting, Split

(***************************************************************************)
(* The boot line: the arguments                                            *)
(***************************************************************************)
\* A place that argument a may begin at: the words in front of it are a - 1,
\* and there is a word behind it.
Entry(p, a) ==
  /\ Boundary(line, p)
  /\ Cardinality(Before(line, p)) + 1 = a
  /\ \E k \in WordStarts(line) : k >= p

\* From an entry on there are blanks, a word and its end.
LEMMA EntryFinds ==
  ASSUME line \in Text, NEW p \in Nat, NEW a, Entry(p, a)
  PROVE  \E w \in p..Len(line) : \E e \in w + 1..Len(line) + 1 :
           /\ line[w] = Char /\ \A j \in p..w - 1 : line[j] = Blank
           /\ \A j \in w..e - 1 : line[j] = Char
           /\ e = Len(line) + 1 \/ line[e] = Blank
<1>1. Len(line) \in Nat /\ \A k \in 1..Len(line) : line[k] \in {Blank, Char} BY CharAt
<1>2. p >= 1 BY <1>1 DEF Entry, Boundary
<1> DEFINE S == {k \in p..Len(line) : line[k] = Char}
<1>3. S \in SUBSET Nat /\ S # {} BY <1>1 DEF Entry, WordStarts
<1>4. PICK w \in S : \A n \in S : ~ (n < w) BY <1>3, Least
<1>5. \A j \in p..w - 1 : line[j] = Blank
  <2> SUFFICES ASSUME NEW j \in p..w - 1 PROVE line[j] = Blank OBVIOUS
  <2>1. j \in p..Len(line) /\ j \in 1..Len(line) /\ j < w BY <1>1, <1>2
  <2>2. j \notin S BY <1>4, <2>1
  <2> QED BY <1>1, <2>1, <2>2
<1>6. w \in p..Len(line) /\ line[w] = Char OBVIOUS
<1> HIDE DEF S
<1> DEFINE T == {k \in w + 1..Len(line) + 1 : k = Len(line) + 1 \/ line[k] = Blank}
<1>7. T \in SUBSET Nat /\ T # {}
  <2>1. Len(line) + 1 \in T BY <1>1, <1>6
  <2> QED BY <1>6, <2>1
<1>8. PICK e \in T : \A n \in T : ~ (n < e) BY <1>7, Least
<1>9. \A j \in w..e - 1 : line[j] = Char
  <2> SUFFICES ASSUME NEW j \in w..e - 1, j # w PROVE line[j] = Char BY <1>6
  <2>1. j \in w + 1..Len(line) + 1 /\ j \in 1..Len(line) /\ j < e BY <1>1, <1>2, <1>6
  <2>2. j \notin T BY <1>8, <2>1
  <2> QED BY <1>1, <2>1, <2>2
<1>10. e \in w + 1..Len(line) + 1 /\ (e = Len(line) + 1 \/ line[e] = Blank) OBVIOUS
<1> HIDE DEF T
<1> QED BY <1>5, <1>6, <1>9, <1>10

\* An entry is the argument of its number, and behind its NUL is the next one.
LEMMA EntryIsWord ==
  ASSUME Split, NEW p \in Nat, NEW a \in Nat, Entry(p, a)
  PROVE  /\ p <= Word(line, a)
         /\ \A k \in p..Word(line, a) - 1 : mem[k] = Blank
         /\ FirstFrom(p, {Nul}) = WordEnd(line, Word(line, a)) + 1
         /\ FirstFrom(p, {Nul}) \in Nat
         /\ a < argc => Entry(FirstFrom(p, {Nul}) + 1, a + 1)
<1>1. /\ line \in Text /\ Len(line) \in Nat /\ Len(mem) = Len(line) + 1
      /\ mem[Len(line) + 1] = Nul
      /\ \A k \in 1..Len(line) :
           mem[k] = IF k \in Ends(line) /\ k < Len(line) + 1 THEN Nul ELSE line[k]
      /\ \A k \in 1..Len(line) : line[k] \in {Blank, Char}
  BY MemIs, CharAt DEF Split
<1>2. PICK w \in p..Len(line) : \E e \in w + 1..Len(line) + 1 :
           /\ line[w] = Char /\ \A j \in p..w - 1 : line[j] = Blank
           /\ \A j \in w..e - 1 : line[j] = Char
           /\ e = Len(line) + 1 \/ line[e] = Blank
  BY <1>1, EntryFinds
<1>3. PICK e \in w + 1..Len(line) + 1 :
           /\ line[w] = Char /\ \A j \in p..w - 1 : line[j] = Blank
           /\ \A j \in w..e - 1 : line[j] = Char
           /\ e = Len(line) + 1 \/ line[e] = Blank
  BY <1>2
<1>4. Boundary(line, p) /\ 1 <= p /\ w \in Nat /\ e \in Nat /\ p <= w /\ w < e
  BY <1>1 DEF Entry, Boundary
<1>5. /\ w \in WordStarts(line) /\ e \in Ends(line)
      /\ WordEnd(line, w) = e - 1
      /\ \A k \in Ends(line) : k >= p => k >= e
      /\ \A k \in WordStarts(line) : k >= p /\ k <= e => k = w
  BY <1>1, <1>3, <1>4, NextWord
<1>6. WordStarts(line) \in SUBSET Nat /\ IsFiniteSet(WordStarts(line))
  BY <1>1, WordsFinite
<1>7. /\ Cardinality(Before(line, e + 1)) = a
      /\ Before(line, e + 1) = {j \in WordStarts(line) : j <= w}
  <2>1. \A k \in WordStarts(line) : k >= p /\ k < e + 1 => k = w BY <1>4, <1>5, <1>6
  <2>2. e + 1 \in Nat /\ w < e + 1 BY <1>4
  <2>3. Cardinality(Before(line, p)) + 1 = a BY DEF Entry
  <2> QED BY <1>1, <1>4, <1>5, <2>1, <2>2, <2>3, OneMore
<1>8. Word(line, a) = w
  BY <1>1, <1>5, <1>7, WordIs
<1>9. \A k \in p..w - 1 : mem[k] = Blank
  <2> SUFFICES ASSUME NEW k \in p..w - 1 PROVE mem[k] = Blank OBVIOUS
  <2>1. k \in 1..Len(line) /\ k < e BY <1>1, <1>4
  <2>2. k \notin Ends(line) BY <1>4, <1>5, <2>1
  <2> QED BY <1>1, <1>3, <2>1, <2>2
<1>10. FirstFrom(p, {Nul}) = e
  <2>1. mem[e] = Nul
    <3>1. e # Len(line) + 1 => e \in 1..Len(line) /\ e < Len(line) + 1 BY <1>1, <1>4
    <3> QED BY <1>1, <1>5, <3>1
  <2>2. \A k \in p..e - 1 : mem[k] # Nul
    <3> SUFFICES ASSUME NEW k \in p..e - 1 PROVE mem[k] # Nul OBVIOUS
    <3>1. k \in 1..Len(line) /\ ~ (k >= e) BY <1>1, <1>4
    <3>2. k \notin Ends(line) BY <1>4, <1>5, <3>1
    <3> QED BY <1>1, <3>1, <3>2, Symbols
  <2>3. e \in p..Len(mem) /\ Len(mem) \in Nat BY <1>1, <1>4
  <2> QED BY <2>1, <2>2, <2>3, FirstIs
<1>11. ASSUME a < argc PROVE Entry(e + 1, a + 1)
  <2>1. PICK k \in WordStarts(line) : ~ (k < e + 1)
    <3>1. Cardinality(WordStarts(line)) # a BY <1>11 DEF Split
    <3>2. Before(line, e + 1) # WordStarts(line) BY <1>7, <3>1
    <3> QED BY <3>2 DEF Before
  <2>2. k \in Nat /\ k >= e + 1 /\ k <= Len(line) BY <1>1, <1>4, <1>6, <2>1 DEF WordStarts
  <2>3. e # Len(line) + 1 /\ e + 1 \in 1..Len(line) + 1 BY <1>1, <1>4, <2>2
  <2>4. line[(e + 1) - 1] = Blank
    <3>1. (e + 1) - 1 = e BY <1>4
    <3> QED BY <1>3, <2>3, <3>1
  <2>5. Boundary(line, e + 1) BY <2>3, <2>4 DEF Boundary
  <2> QED BY <1>7, <2>1, <2>2, <2>5 DEF Entry
<1>12. WordEnd(line, w) + 1 = e BY <1>4, <1>5
<1> QED BY <1>4, <1>8, <1>9, <1>10, <1>11, <1>12

\* The entries that were stored are those of the words, in order; a line
\* without words has one that belongs to none.
Entries ==
  /\ Len(argv) <= argc \/ argc = 0
  /\ \A a \in 1..Len(argv) : a <= argc => Entry(argv[a], a)

\* The split of the boot line at each place of the program, and what is left of
\* it to main: nothing, when there was no line or no memory.
LineInv ==
  /\ line \in BootLines /\ argc \in Nat /\ argv \in Seq(Nat)
  /\ pc \in {"boot", "strtok", "calloc"} => argv = <<>>
  /\ pc = "boot" => argc = 0
  /\ pc = "strtok" => Cutting
  /\ pc = "calloc" => Split
  /\ pc = "args" => argv # <<>>
  /\ pc \notin {"boot", "strtok", "calloc"} =>
       IF argv = <<>> THEN argc = 0 ELSE Split /\ Entries
  /\ pc \notin {"boot", "strtok", "calloc", "args"} => Len(argv) >= argc

LEMMA InitLine == Init => LineInv
BY DEF Init, LineInv

LEMMA CopyLineStep == ASSUME LineInv, CopyLine PROVE LineInv'
<1>1. /\ pc = "boot" /\ line # NoLine /\ mem' = Append(line, Nul) /\ save' = 1 /\ pc' = "strtok"
      /\ line' = line /\ argc' = argc /\ argv' = argv
  BY DEF CopyLine, Goto
<1>2. line \in BootLines /\ argc = 0 /\ argv = <<>> /\ argv \in Seq(Nat)
  BY <1>1 DEF LineInv
<1>3. line \in Text BY <1>1, <1>2, StartupAssumption DEF Text
<1>4. Cutting'
  BY <1>1, <1>2, <1>3, CopyCut, FS_EmptySet DEF Cutting
<1> QED BY <1>1, <1>2, <1>4 DEF LineInv

LEMMA CallocStep == ASSUME LineInv, Calloc PROVE LineInv'
<1>1. /\ pc = "calloc" /\ argv' = <<1>> /\ pc' = "args"
      /\ line' = line /\ mem' = mem /\ argc' = argc
  BY DEF Calloc, Goto
<1>2. line \in BootLines /\ argc \in Nat /\ Split BY <1>1 DEF LineInv
<1>3. /\ line \in Text /\ argc = Cardinality(WordStarts(line))
      /\ IsFiniteSet(WordStarts(line)) /\ WordStarts(line) \in SUBSET Nat
  BY <1>2, WordsFinite DEF Split
<1>4. argc >= 1 => Entry(1, 1)
  <2> SUFFICES ASSUME argc >= 1 PROVE Entry(1, 1) OBVIOUS
  <2>1. WordStarts(line) # {} BY <1>3, FS_EmptySet
  <2>2. Boundary(line, 1) /\ Cardinality(Before(line, 1)) = 0 BY <1>3, CopyCut, FS_EmptySet
  <2>3. \E k \in WordStarts(line) : k >= 1 BY <2>1 DEF WordStarts
  <2> QED BY <2>2, <2>3 DEF Entry
<1>5. Split' BY <1>1, <1>2 DEF Split
<1>6. Len(argv') = 1 /\ argv'[1] = 1 /\ argv' \in Seq(Nat) /\ argv' # <<>> BY <1>1
<1>7. Entries'
  <2>1. Len(argv') <= argc' \/ argc' = 0 BY <1>1, <1>2, <1>6
  <2>2. \A a \in 1..Len(argv') : a <= argc' => a = 1 /\ argc >= 1 /\ argv'[a] = 1 BY <1>1, <1>2, <1>6
  <2>3. argc >= 1 => Entry(1, 1)' BY <1>1, <1>4 DEF Entry
  <2>4. \A a \in 1..Len(argv') : a <= argc' => Entry(argv[a], a)'
    BY <2>2, <2>3 DEF Entry
  <2> QED BY <2>1, <2>4 DEF Entries
<1> QED BY <1>1, <1>2, <1>5, <1>6, <1>7 DEF LineInv

LEMMA NextArgStep == ASSUME LineInv, NextArg PROVE LineInv'
<1> DEFINE p == argv[Len(argv)]
           q == FirstFrom(p, {Nul}) + 1
<1>1. /\ pc = "args" /\ Len(argv) < argc /\ pc' = "args"
      /\ line' = line /\ mem' = mem /\ argc' = argc
  BY DEF NextArg
<1>2. argv' = Append(argv, q) BY DEF NextArg, Last
<1>3. /\ line \in BootLines /\ argc \in Nat /\ argv \in Seq(Nat) /\ argv # <<>>
      /\ Split /\ Entries
  BY <1>1 DEF LineInv
<1>4. Len(argv) \in Nat /\ Len(argv) \in 1..Len(argv) /\ p \in Nat
  <2>1. Len(argv) \in Nat /\ Len(argv) # 0 BY <1>3, EmptySeq
  <2>2. Len(argv) \in 1..Len(argv) BY <2>1
  <2> QED BY <1>3, <2>1, <2>2, ElementOfSeq
<1>5. Entry(p, Len(argv)) BY <1>1, <1>3, <1>4 DEF Entries
<1> HIDE DEF p
<1>6. FirstFrom(p, {Nul}) \in Nat /\ Entry(q, Len(argv) + 1)
  BY <1>1, <1>3, <1>4, <1>5, EntryIsWord
<1>7. q \in Nat BY <1>6
<1> HIDE DEF q
<1>8. /\ argv' \in Seq(Nat) /\ Len(argv') = Len(argv) + 1 /\ argv' # <<>>
      /\ \A a \in 1..Len(argv) : argv'[a] = argv[a]
      /\ argv'[Len(argv) + 1] = q
  BY <1>2, <1>3, <1>7, AppendProperties
<1>9. Split' BY <1>1, <1>3 DEF Split
<1>10. Entries'
  <2>1. Len(argv') <= argc' BY <1>1, <1>3, <1>4, <1>8
  <2>2. ASSUME NEW a \in 1..Len(argv'), a <= argc' PROVE Entry(argv'[a], a)
    <3>1. CASE a = Len(argv) + 1
      BY <1>6, <1>8, <3>1
    <3>2. CASE a # Len(argv) + 1
      <4>1. a \in 1..Len(argv) /\ a <= argc BY <1>1, <1>4, <1>8, <2>2, <3>2
      <4> QED BY <1>3, <1>8, <4>1 DEF Entries
    <3> QED BY <3>1, <3>2
  <2>3. \A a \in 1..Len(argv') : a <= argc' => Entry(argv[a], a)'
    BY <1>1, <2>2 DEF Entry
  <2> QED BY <2>1, <2>3 DEF Entries
<1> QED BY <1>1, <1>3, <1>8, <1>9, <1>10 DEF LineInv

\* The other steps of Init, and all that come after it.
LEMMA SplitStep ==
  ASSUME LineInv, NoCopy \/ Strtok \/ NoMoreWords \/ CallocFails \/ ArgsDone
  PROVE  LineInv'
<1>1. CASE NoCopy
  BY <1>1 DEF NoCopy, LineInv, Goto, argVars
<1>2. CASE Strtok
  <2>1. pc = "strtok" /\ pc' = "strtok" /\ argc' = argc + 1 /\ line' = line /\ argv' = argv
    BY <1>2 DEF Strtok
  <2>2. Cutting' BY <1>2, <2>1, StrtokStep DEF LineInv
  <2> QED BY <2>1, <2>2 DEF LineInv
<1>3. CASE NoMoreWords
  <2>1. pc = "strtok" /\ pc' = "calloc" /\ UNCHANGED <<line, mem, argc, argv>>
    BY <1>3 DEF NoMoreWords, Goto, argVars
  <2>2. Split BY <1>3, <2>1, StrtokEnds DEF LineInv, NoMoreWords
  <2>3. Split' BY <2>1, <2>2 DEF Split
  <2> QED BY <2>1, <2>3 DEF LineInv
<1>4. CASE CallocFails
  BY <1>4 DEF CallocFails, LineInv, Goto
<1>5. CASE ArgsDone
  <2>1. pc = "args" /\ pc' = "main" /\ Len(argv) >= argc /\ UNCHANGED <<line, mem, argc, argv>>
    BY <1>5 DEF ArgsDone, Goto, argVars
  <2>2. Split /\ Entries => Split' /\ Entries'
    BY <2>1 DEF Split, Entries, Entry
  <2> QED BY <2>1, <2>2 DEF LineInv
<1> QED BY <1>1, <1>2, <1>3, <1>4, <1>5

LEMMA LaterStep ==
  ASSUME LineInv,
         \/ UNCHANGED vars
         \/ EtcDirectory \/ RcConf \/ RunRcConf \/ Poll \/ PollFails \/ Sleep \/ PollEnd \/ LinkChanges
         \/ DebuggerFails \/ DebuggerInit \/ DebuggerGoesOn \/ NfsInit \/ PmInit \/ DevDirectories
         \/ ZoclRegister \/ OpenClose \/ ShellInit \/ ShellEnds \/ Reset
  PROVE  LineInv'
<1> DEFINE Early == {"boot", "strtok", "calloc", "args"}
<1>1. CASE Reset
  BY <1>1 DEF Reset, LineInv, Goto
<1>2. CASE UNCHANGED <<argVars, pc>> \/ (UNCHANGED argVars /\ pc \notin Early /\ pc' \notin Early)
  <2>1. UNCHANGED <<line, mem, save, argc, argv>> BY <1>2 DEF argVars
  <2>2. Split' = Split /\ Entries' = Entries /\ Cutting' = Cutting
    BY <2>1 DEF Split, Entries, Entry, Cutting
  <2>3. CASE UNCHANGED pc
    BY <2>1, <2>2, <2>3 DEF LineInv
  <2>4. CASE pc \notin Early /\ pc' \notin Early
    BY <2>1, <2>2, <2>4 DEF LineInv
  <2> QED BY <1>2, <2>3, <2>4
<1>3. CASE UNCHANGED vars
  BY <1>2, <1>3 DEF vars, argVars
<1>4. CASE EtcDirectory \/ RcConf \/ RunRcConf \/ Poll \/ PollFails \/ Sleep \/ PollEnd \/ LinkChanges
  <2>1. UNCHANGED argVars /\ (UNCHANGED pc \/ pc' \notin Early)
    BY <1>4 DEF EtcDirectory, Directory, RcConf, RunRcConf, Poll, PollFails, Sleep, PollEnd,
                LinkChanges, Goto
  <2>2. pc \notin Early
    BY <1>4 DEF EtcDirectory, Directory, RcConf, RunRcConf, Poll, PollFails, Sleep, PollEnd,
                LinkChanges
  <2> QED BY <1>2, <2>1, <2>2
<1>5. CASE DebuggerFails \/ DebuggerInit \/ DebuggerGoesOn \/ NfsInit \/ PmInit \/ DevDirectories
           \/ ZoclRegister \/ OpenClose \/ ShellInit \/ ShellEnds
  <2>1. UNCHANGED argVars /\ pc \notin Early /\ pc' \notin Early
    BY <1>5 DEF DebuggerFails, DebuggerInit, DebuggerGoesOn, NfsInit, Directory, PmInit,
                DevDirectories, ZoclRegister, OpenClose, ShellInit, ShellEnds, Goto
  <2> QED BY <1>2, <2>1
<1> QED BY <1>1, <1>3, <1>4, <1>5

LEMMA LineStays == LineInv /\ [Next]_vars => LineInv'
BY CopyLineStep, CallocStep, NextArgStep, SplitStep, LaterStep DEF Next, Program

LEMMA LineWords == LineInv => ArgsAreWords
<1> SUFFICES ASSUME LineInv PROVE ArgsAreWords OBVIOUS
<1>1. argc \in Nat /\ argv \in Seq(Nat) /\ Len(argv) \in Nat
  BY LenProperties DEF LineInv
<1>2. ASSUME pc \notin {"boot", "strtok", "calloc"}, argc > 0
      PROVE  /\ argc = Cardinality(WordStarts(line))
             /\ Len(argv) \in 1..argc /\ (pc # "args" => Len(argv) = argc)
             /\ \A a \in 1..Len(argv) :
                  /\ argv[a] <= Word(line, a)
                  /\ \A k \in argv[a]..Word(line, a) - 1 : mem[k] = Blank
                  /\ FirstFrom(argv[a], {Nul}) = WordEnd(line, Word(line, a)) + 1
  <2>1. argv # <<>> /\ Split /\ Entries BY <1>1, <1>2 DEF LineInv
  <2>2. Len(argv) # 0 /\ Len(argv) <= argc
    BY <1>1, <1>2, <2>1, EmptySeq DEF Entries
  <2>3. Len(argv) \in 1..argc BY <1>1, <2>2
  <2>4. pc # "args" => Len(argv) = argc
    BY <1>1, <1>2, <2>2 DEF LineInv
  <2>5. ASSUME NEW a \in 1..Len(argv)
        PROVE  /\ argv[a] <= Word(line, a)
               /\ \A k \in argv[a]..Word(line, a) - 1 : mem[k] = Blank
               /\ FirstFrom(argv[a], {Nul}) = WordEnd(line, Word(line, a)) + 1
    <3>1. a \in Nat /\ a <= argc BY <1>1, <2>2
    <3>2. argv[a] \in Nat BY <1>1, ElementOfSeq
    <3>3. Entry(argv[a], a) BY <2>1, <3>1 DEF Entries
    <3> QED BY <2>1, <3>1, <3>2, <3>3, EntryIsWord
  <2> QED BY <2>1, <2>3, <2>4, <2>5 DEF Split
<1>3. ASSUME Len(argv) > argc PROVE WordStarts(line) = {}
  <2>1. argv # <<>> BY <1>1, <1>3, EmptySeq
  <2>2. Split /\ Entries BY <2>1 DEF LineInv
  <2>3. argc = 0 /\ Cardinality(WordStarts(line)) = 0 BY <1>1, <1>3, <2>2 DEF Split, Entries
  <2> QED BY <2>2, <2>3, WordsFinite, FS_EmptySet DEF Split
<1> QED BY <1>2, <1>3 DEF ArgsAreWords

\* The arguments that main gets are the words of the boot line, whatever runs of
\* blanks it has.
THEOREM Arguments == Spec => []ArgsAreWords
BY InitLine, LineStays, LineWords, PTL DEF Spec

(***************************************************************************)
(* The start goes on                                                       *)
(***************************************************************************)
\* The places of the program in their order, counted from the end; the two of
\* the wait for the interface are one.
Phase ==
  CASE pc = "boot" -> 19 [] pc = "strtok" -> 18 [] pc = "calloc" -> 17 [] pc = "args" -> 16
    [] pc = "main" -> 15 [] pc = "rc_conf" -> 14 [] pc = "network" -> 13
    [] pc \in {"poll", "sleep"} -> 12
    [] pc = "debugger" -> 11 [] pc = "debugger_wait" -> 10 [] pc = "nfs" -> 9 [] pc = "pm" -> 8
    [] pc = "dev" -> 7 [] pc = "dri" -> 6 [] pc = "zocl" -> 5 [] pc = "open" -> 4
    [] pc = "shell_init" -> 3 [] pc = "shell" -> 2 [] OTHER -> 1

\* What is left of the loop that the program is in
TurnsLeft ==
  CASE pc = "strtok" -> Len(mem) - save
    [] pc = "args" -> argc - Len(argv)
    [] pc = "poll" -> 2 * tries
    [] pc = "sleep" -> 2 * tries + 1
    [] OTHER -> 0

GoesOn == Phase' < Phase \/ (Phase' = Phase /\ TurnsLeft' \in Nat /\ TurnsLeft' < TurnsLeft)

LEMMA StrtokGoesOn == ASSUME LineInv, Strtok PROVE GoesOn
<1> DEFINE word == FirstFrom(save, {Char, Nul})
           end == FirstFrom(word, {Blank, Nul})
<1>1. /\ pc = "strtok" /\ pc' = "strtok" /\ mem[word] = Char
      /\ mem' = [mem EXCEPT ![end] = Nul]
      /\ save' = IF mem[end] = Nul THEN end ELSE end + 1
  BY DEF Strtok
<1>2. Cutting BY <1>1 DEF LineInv
<1>3. /\ save \in Nat /\ word \in save..Len(line)
      /\ end \in word + 1..Len(line) + 1
      /\ mem[end] = Nul <=> end = Len(line) + 1
  BY <1>1, <1>2, StrtokFinds
<1> HIDE DEF word, end
<1>4. Len(line) \in Nat /\ Len(mem) = Len(line) + 1 /\ mem = CutLine(line, save)
  BY <1>2, MemIs DEF Cutting
<1>5. Len(mem') = Len(mem)
  <2>1. Cutting' BY <1>2, StrtokStep
  <2>2. line' = line BY DEF Strtok
  <2>3. mem' = CutLine(line, save') BY <2>1, <2>2 DEF Cutting
  <2>4. DOMAIN mem' = 1..Len(line) + 1 /\ DOMAIN mem = 1..Len(line) + 1
    BY <1>4, <2>3 DEF CutLine
  <2>5. Len(line) + 1 \in Nat BY <1>4
  <2> QED BY <1>4, <2>3, <2>5 DEF CutLine
<1>6. save < save' /\ save' \in Nat /\ save' <= Len(mem)
  BY <1>1, <1>3, <1>4
<1>7. TurnsLeft = Len(mem) - save /\ TurnsLeft' = Len(mem) - save'
  BY <1>1, <1>5 DEF TurnsLeft
<1>8. TurnsLeft' \in Nat /\ TurnsLeft' < TurnsLeft BY <1>3, <1>4, <1>6, <1>7
<1> QED BY <1>1, <1>8 DEF GoesOn, Phase

LEMMA NextArgGoesOn == ASSUME LineInv, NextArg PROVE GoesOn
<1>1. /\ pc = "args" /\ pc' = "args" /\ Len(argv) < argc /\ argc' = argc
      /\ argv' = Append(argv, FirstFrom(Last(argv), {Nul}) + 1)
  BY DEF NextArg
<1>2. argv \in Seq(Nat) /\ argc \in Nat BY DEF LineInv
<1>3. argv' \in Seq(Nat) BY NextArgStep DEF LineInv
<1>4. Len(argv) \in Nat /\ Len(argv') = Len(argv) + 1
  BY <1>1, <1>2, <1>3, LenProperties
<1>5. TurnsLeft = argc - Len(argv) /\ TurnsLeft' = argc - Len(argv')
  BY <1>1 DEF TurnsLeft
<1>6. TurnsLeft' \in Nat /\ TurnsLeft' < TurnsLeft BY <1>1, <1>2, <1>4, <1>5
<1> QED BY <1>1, <1>6 DEF GoesOn, Phase

\* A poll that does not end the wait takes one of the seconds.
LEMMA PollGoesOn ==
  ASSUME tries \in 0..Tries, Poll \/ PollFails \/ Sleep \/ PollEnd
  PROVE  GoesOn
<1>1. tries \in Nat BY StartupAssumption
<1>2. CASE pc' \in {"debugger", "nfs"}
  BY <1>2 DEF GoesOn, Phase, Poll, PollFails, Sleep, PollEnd
<1>3. CASE pc = "poll" /\ pc' = "sleep" /\ tries > 0 /\ tries' = tries - 1
  <2>1. TurnsLeft = 2 * tries /\ TurnsLeft' = 2 * (tries - 1) + 1 BY <1>3 DEF TurnsLeft
  <2>2. TurnsLeft' \in Nat /\ TurnsLeft' < TurnsLeft BY <1>1, <1>3, <2>1
  <2> QED BY <1>3, <2>2 DEF GoesOn, Phase
<1>4. CASE pc = "sleep" /\ pc' = "poll" /\ tries' = tries
  <2>1. TurnsLeft = 2 * tries + 1 /\ TurnsLeft' = 2 * tries BY <1>4 DEF TurnsLeft
  <2>2. TurnsLeft' \in Nat /\ TurnsLeft' < TurnsLeft BY <1>1, <2>1
  <2> QED BY <1>4, <2>2 DEF GoesOn, Phase
<1>5. Poll => \/ pc' \in {"debugger", "nfs"}
              \/ (pc = "poll" /\ pc' = "sleep" /\ tries > 0 /\ tries' = tries - 1)
  BY DEF Poll, Goto
<1>6. PollEnd => pc' \in {"debugger", "nfs"} BY DEF PollEnd, Goto
<1>7. PollFails => pc = "poll" /\ pc' = "sleep" /\ tries > 0 /\ tries' = tries - 1
  BY DEF PollFails, Goto
<1>8. Sleep => pc = "sleep" /\ pc' = "poll" /\ tries' = tries
  BY DEF Sleep, Goto, netVars
<1> QED BY <1>2, <1>3, <1>4, <1>5, <1>6, <1>7, <1>8

LEMMA ProgramGoesOn == ASSUME StartInv, LineInv, Program, ~ Reset PROVE GoesOn
<1>1. CASE Strtok BY <1>1, StrtokGoesOn
<1>2. CASE NextArg BY <1>2, NextArgGoesOn
<1>3. CASE Poll \/ PollFails \/ Sleep \/ PollEnd
  BY <1>3, PollGoesOn DEF StartInv, SafetyInv, TypeOK
<1>4. CASE CopyLine \/ NoCopy \/ NoMoreWords \/ Calloc \/ CallocFails \/ ArgsDone
  BY <1>4 DEF CopyLine, NoCopy, NoMoreWords, Calloc, CallocFails, ArgsDone, Goto, GoesOn, Phase
<1>5. CASE EtcDirectory \/ RcConf \/ RunRcConf \/ DebuggerFails
  BY <1>5 DEF EtcDirectory, Directory, RcConf, RunRcConf, DebuggerFails, Goto, GoesOn, Phase
<1>6. CASE DebuggerInit
  <2>1. pc = "debugger" /\ pc' \in {"debugger_wait", "nfs"} BY <1>6 DEF DebuggerInit, Goto
  <2> QED BY <2>1 DEF GoesOn, Phase
<1>7. CASE NfsInit \/ PmInit \/ DevDirectories
  BY <1>7 DEF NfsInit, PmInit, DevDirectories, Directory, Goto, GoesOn, Phase
<1>8. CASE ZoclRegister \/ OpenClose \/ ShellInit
  BY <1>8 DEF ZoclRegister, OpenClose, ShellInit, Goto, GoesOn, Phase
<1> QED BY <1>1, <1>2, <1>3, <1>4, <1>5, <1>6, <1>7, <1>8 DEF Program

\* Up to the reset each step of the program leads on or takes a turn of one of
\* its three loops (strtok, the arguments, the wait for the interface), and the
\* turns run out: the start never goes back, whatever the link does.
THEOREM LeadsOn == Spec => [][Program /\ ~ Reset => GoesOn]_vars
<1>1. StartInv /\ LineInv /\ [Next]_vars => [Program /\ ~ Reset => GoesOn]_vars
  BY ProgramGoesOn
<1>2. Spec => []LineInv BY InitLine, LineStays, PTL DEF Spec
<1> QED BY <1>1, <1>2, Safety, PTL DEF Spec
=============================================================================
