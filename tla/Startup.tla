------------------------------- MODULE Startup -------------------------------
(***************************************************************************)
(* The xbutil application from the boot line to the shell (tests/): Init   *)
(* splits the boot line (bspmain.c), main brings up the network, the       *)
(* debugger, the network mount, the pm command, the zocl device and the    *)
(* shell (xbutil.c, network.c, debugger.c), and the end of main resets the *)
(* board, which boots again (init.c).  One task runs all of it; the link   *)
(* of the interface goes up and down on its own.                           *)
(***************************************************************************)
EXTENDS Naturals, FiniteSets, Sequences, SequencesExt

CONSTANTS
  BootLines,  \* the boot lines: sequences of blanks and other characters
  NoLine,     \* no boot line
  Tries,      \* wait_for_secs
  DbOptions   \* TEST_DB_CMD, TEST_DB_START and TEST_DB_WAIT of a build

Blank == "blank"
Char == "char"
Nul == "nul"

ASSUME StartupAssumption ==
  /\ \A l \in BootLines : l # NoLine => l \in Seq({Blank, Char})
  /\ Tries \in Nat
  /\ DbOptions \subseteq [cmd : BOOLEAN, start : BOOLEAN, wait : BOOLEAN]

VARIABLES
  line,   \* boot_cmdline
  mem,    \* the characters of cmdline
  save,   \* where strtok goes on
  argc,
  argv,   \* the places in cmdline
  option, \* the debugger options of the build
  pc,     \* the step that is next
  up,     \* what has come up since the reset
  refused, \* history: the shell commands that rtems_shell_add_cmd refused
  tries,  \* wait_for_secs
  state,  \* the local variable of wait_for_iface_up
  link,   \* the link of the interface
  seen    \* history: a poll found it up

argVars == <<line, mem, save, argc, argv>>
netVars == <<tries, state, link, seen>>
vars == <<line, mem, save, argc, argv, option, pc, up, refused, tries, state, link, seen>>

Init ==
  /\ line \in BootLines
  /\ mem = <<>> /\ save = 0 /\ argc = 0 /\ argv = <<>>
  /\ option \in DbOptions
  /\ pc = "boot"
  /\ up = {} /\ refused = {}
  /\ tries = Tries /\ state = FALSE /\ link \in BOOLEAN /\ seen = FALSE

Goto(l) == pc' = l
Adds(what) == up' = up \cup what

\* rtems_shell_add_cmd may find no memory, and no caller looks at its result.
AddsCommands(commands, what) ==
  \E added \in SUBSET commands :
    /\ Adds(added \cup what)
    /\ refused' = refused \cup (commands \ added)

(***************************************************************************)
(* The boot line                                                           *)
(***************************************************************************)
CopyLine ==
  /\ pc = "boot"
  /\ line # NoLine
  /\ mem' = Append(line, Nul)
  /\ save' = 1
  /\ Goto("strtok")
  /\ UNCHANGED <<line, argc, argv, option, refused, up, netVars>>

\* There is no line, or no memory for its copy.
NoCopy ==
  /\ pc = "boot"
  /\ Goto("main")
  /\ UNCHANGED <<argVars, option, refused, up, netVars>>

FirstFrom(from, chars) ==
  CHOOSE k \in from..Len(mem) : mem[k] \in chars /\ \A j \in from..k - 1 : mem[j] \notin chars

\* A call of strtok that finds a word and ends it with a NUL.
StrtokKeepsDelimiter ==
  /\ pc = "strtok"
  /\ LET word == FirstFrom(save, {Char, Nul}) IN
       /\ mem[word] = Char
       /\ save' = FirstFrom(word, {Blank, Nul})
  /\ argc' = argc + 1
  /\ UNCHANGED <<line, mem, argv, option, refused, pc, up, netVars>>

Strtok ==
  /\ pc = "strtok"
  /\ LET word == FirstFrom(save, {Char, Nul})
         end == FirstFrom(word, {Blank, Nul}) IN
       /\ mem[word] = Char
       /\ mem' = [mem EXCEPT ![end] = Nul]
       /\ save' = IF mem[end] = Nul THEN end ELSE end + 1
  /\ argc' = argc + 1
  /\ UNCHANGED <<line, argv, option, refused, pc, up, netVars>>

NoMoreWords ==
  /\ pc = "strtok"
  /\ mem[FirstFrom(save, {Char, Nul})] = Nul
  /\ Goto("calloc")
  /\ UNCHANGED <<argVars, option, refused, up, netVars>>

\* The first entry is stored for no words as well.
Calloc ==
  /\ pc = "calloc"
  /\ argv' = <<1>>
  /\ Goto("args")
  /\ UNCHANGED <<line, mem, save, argc, option, refused, up, netVars>>

CallocFails ==
  /\ pc = "calloc"
  /\ argc' = 0
  /\ Goto("main")
  /\ UNCHANGED <<line, mem, save, argv, option, refused, up, netVars>>

\* command += strlen(command) + 1
NextArg ==
  /\ pc = "args"
  /\ Len(argv) < argc
  /\ argv' = Append(argv, FirstFrom(Last(argv), {Nul}) + 1)
  /\ UNCHANGED <<line, mem, save, argc, option, refused, pc, up, netVars>>

ArgsDone ==
  /\ pc = "args"
  /\ Len(argv) >= argc
  /\ Goto("main")
  /\ UNCHANGED <<argVars, option, refused, up, netVars>>

(***************************************************************************)
(* main: the network                                                       *)
(***************************************************************************)
\* stat and mkdir: the directory is there or is made, or one of them fails.
Directory(here, made, failed) ==
  /\ pc = here
  /\ Goto(made) \/ Goto(failed)
  /\ UNCHANGED <<argVars, option, refused, up, netVars>>

EtcDirectory == Directory("main", "rc_conf", "nfs")

\* fopen of /etc/rc.conf
RcConf ==
  /\ pc = "rc_conf"
  /\ \/ Goto("network") /\ Adds({"rc.conf"})
     \/ Goto("nfs") /\ UNCHANGED up
  /\ UNCHANGED <<argVars, option, refused, netVars>>

\* rtems_bsd_initialize and rtems_bsd_run_etc_rc_conf
RunRcConf ==
  /\ pc = "network"
  /\ Goto("poll") \/ Goto("nfs")
  /\ Adds({"bsd"})
  /\ tries' = Tries
  /\ state' = FALSE
  /\ UNCHANGED <<argVars, option, refused, link, seen>>

\* Two mistaken polls: one looks on after the link was up, one forgets to count.
PollToTheEnd ==
  /\ pc = "poll"
  /\ tries > 0
  /\ tries' = tries - 1
  /\ state' = link
  /\ seen' = (seen \/ link)
  /\ Goto("sleep")
  /\ UNCHANGED <<argVars, option, refused, up, link>>

PollForEver ==
  /\ pc = "poll"
  /\ tries > 0
  /\ state' = link
  /\ seen' = (seen \/ link)
  /\ IF link THEN Goto("debugger") /\ Adds({"network"}) ELSE Goto("sleep") /\ UNCHANGED up
  /\ UNCHANGED <<argVars, option, refused, tries, link>>

\* The query works and tells the state of the link.
Poll ==
  /\ pc = "poll"
  /\ tries > 0
  /\ tries' = tries - 1
  /\ state' = link
  /\ seen' = (seen \/ link)
  /\ IF link THEN Goto("debugger") /\ Adds({"network"}) ELSE Goto("sleep") /\ UNCHANGED up
  /\ UNCHANGED <<argVars, option, refused, link>>

\* The query fails and leaves the variable.
PollFails ==
  /\ pc = "poll"
  /\ tries > 0
  /\ tries' = tries - 1
  /\ Goto("sleep")
  /\ UNCHANGED <<argVars, option, refused, up, state, link, seen>>

Sleep ==
  /\ pc = "sleep"
  /\ Goto("poll")
  /\ UNCHANGED <<argVars, option, refused, up, netVars>>

PollEnd ==
  /\ pc = "poll"
  /\ tries = 0
  /\ IF state THEN Goto("debugger") /\ Adds({"network"}) ELSE Goto("nfs") /\ UNCHANGED up
  /\ UNCHANGED <<argVars, option, refused, netVars>>

LinkChanges ==
  /\ pc \in {"poll", "sleep"}
  /\ link' = ~ link
  /\ UNCHANGED <<argVars, option, refused, pc, up, tries, state, seen>>

(***************************************************************************)
(* main: the debugger                                                      *)
(***************************************************************************)
\* rtems_debugger_register_tcp_remote fails.
DebuggerFails ==
  /\ pc = "debugger"
  /\ Goto("nfs")
  /\ UNCHANGED <<argVars, option, refused, up, netVars>>

DebuggerInit ==
  /\ pc = "debugger"
  /\ \E started \in {{}, IF option.start THEN {"debugger"} ELSE {}} :
       AddsCommands(IF option.cmd THEN {"debugger command"} ELSE {}, started)
  /\ Goto(IF option.wait THEN "debugger_wait" ELSE "nfs")
  /\ UNCHANGED <<argVars, option, netVars>>

\* A debugger sets debugger_cont.
DebuggerGoesOn ==
  /\ pc = "debugger_wait"
  /\ Goto("nfs")
  /\ UNCHANGED <<argVars, option, refused, up, netVars>>

(***************************************************************************)
(* main: the mount, the pm command, the zocl device, the shell             *)
(***************************************************************************)
\* /net is made and mounted, or not: the result is not looked at.
NfsInit == Directory("nfs", "pm", "pm")

PmInit ==
  /\ pc = "pm"
  /\ AddsCommands({"pm"}, {})
  /\ Goto("dev")
  /\ UNCHANGED <<argVars, option, netVars>>

DevDirectories ==
  \/ Directory("dev", "dri", "return")
  \/ Directory("dri", "zocl", "return")

\* The return after the message is left out.
ZoclRegisterGoesOn ==
  /\ pc = "zocl"
  /\ Adds({"zocl"}) \/ UNCHANGED up
  /\ Goto("open")
  /\ UNCHANGED <<argVars, option, refused, netVars>>

ZoclRegister ==
  /\ pc = "zocl"
  /\ \/ Adds({"zocl"}) /\ Goto("open")
     \/ Goto("return") /\ UNCHANGED up
  /\ UNCHANGED <<argVars, option, refused, netVars>>

\* xclOpen and xclClose, whatever xclOpen returned, and the xbutil2 command
OpenClose ==
  /\ pc = "open"
  /\ AddsCommands({"xbutil2"}, {})
  /\ Goto("shell_init")
  /\ UNCHANGED <<argVars, option, netVars>>

\* rtems_shell_init waits for the end of the shell that it starts.
ShellInitNoWait ==
  /\ pc = "shell_init"
  /\ Adds({"shell"}) \/ UNCHANGED up
  /\ Goto("return")
  /\ UNCHANGED <<argVars, option, refused, netVars>>

ShellInit ==
  /\ pc = "shell_init"
  /\ \/ Adds({"shell"}) /\ Goto("shell")
     \/ Goto("return") /\ UNCHANGED up
  /\ UNCHANGED <<argVars, option, refused, netVars>>

\* The user leaves the shell.
ShellEnds ==
  /\ pc = "shell"
  /\ up' = up \ {"shell"}
  /\ Goto("return")
  /\ UNCHANGED <<argVars, option, refused, netVars>>

\* exit after main, the fatal extension and the reset of the board
Reset ==
  /\ pc = "return"
  /\ mem' = <<>> /\ save' = 0 /\ argc' = 0 /\ argv' = <<>>
  /\ Goto("boot")
  /\ up' = {} /\ refused' = {}
  /\ tries' = Tries /\ state' = FALSE /\ seen' = FALSE
  /\ UNCHANGED <<line, option, link>>

Program ==
  \/ CopyLine \/ NoCopy \/ Strtok \/ NoMoreWords \/ Calloc \/ CallocFails \/ NextArg \/ ArgsDone
  \/ EtcDirectory \/ RcConf \/ RunRcConf \/ Poll \/ PollFails \/ Sleep \/ PollEnd
  \/ DebuggerFails \/ DebuggerInit
  \/ NfsInit \/ PmInit \/ DevDirectories \/ ZoclRegister \/ OpenClose \/ ShellInit
  \/ Reset

Next == Program \/ LinkChanges \/ DebuggerGoesOn \/ ShellEnds

\* The init task runs while it can; nobody has to leave the shell, attach a
\* debugger or plug in a cable.
Spec == Init /\ [][Next]_vars /\ WF_vars(Program)

(***************************************************************************)
(* Properties                                                              *)
(***************************************************************************)
Locations ==
  {"boot", "strtok", "calloc", "args", "main", "rc_conf", "network", "poll", "sleep",
   "debugger", "debugger_wait", "nfs", "pm", "dev", "dri", "zocl", "open", "shell_init",
   "shell", "return"}

Parts ==
  {"rc.conf", "bsd", "network", "debugger", "debugger command", "pm", "zocl", "xbutil2",
   "shell"}

TypeOK ==
  /\ line \in BootLines
  /\ option \in DbOptions
  /\ argc \in Nat
  /\ pc \in Locations
  /\ up \subseteq Parts
  /\ refused \subseteq {"debugger command", "pm", "xbutil2"}
  /\ tries \in 0..Tries
  /\ state \in BOOLEAN /\ link \in BOOLEAN /\ seen \in BOOLEAN

\* Where the words of a line begin and end
WordStarts(l) == {k \in 1..Len(l) : l[k] = Char /\ (k = 1 \/ l[k - 1] = Blank)}
WordEnd(l, k) ==
  CHOOSE e \in k..Len(l) : (e = Len(l) \/ l[e + 1] = Blank) /\ \A j \in k..e : l[j] = Char

\* The word of a line that has as many words up to it as its number says
Word(l, a) ==
  CHOOSE k \in WordStarts(l) : Cardinality({j \in WordStarts(l) : j <= k}) = a

\* strtok cuts the copy of the line and a second loop steps from NUL to NUL:
\* they agree on the words although strtok skips any number of blanks and the
\* loop one character.  Argument a ends where word a ends, and in front of the
\* word it has blanks only, those that strtok skipped but for the one that ended
\* the word before; and so it stays until the reset.  Only a line without words gets an entry more than
\* it has words, which is stored behind the entries that were allocated.
ArgsAreWords ==
  /\ pc \notin {"boot", "strtok", "calloc"} /\ argc > 0 =>
       /\ argc = Cardinality(WordStarts(line))
       /\ Len(argv) \in 1..argc /\ (pc # "args" => Len(argv) = argc)
       /\ \A a \in 1..Len(argv) :
            /\ argv[a] <= Word(line, a)
            /\ \A k \in argv[a]..Word(line, a) - 1 : mem[k] = Blank
            /\ FirstFrom(argv[a], {Nul}) = WordEnd(line, Word(line, a)) + 1
  /\ Len(argv) > argc => WordStarts(line) = {}

\* The network counts as up exactly if one of the polls saw the link up: the
\* verdict is that of a poll, and the link may have changed since.
VerdictFromPoll ==
  /\ pc \notin {"poll", "sleep"} => ("network" \in up <=> seen)
  /\ pc = "debugger" => "network" \in up

\* Early returns leave parts out, but never one that the shell needs: when it
\* runs the device is there, and a command is missing only if rtems_shell_add_cmd
\* refused that command, which nobody notices.  The debugger is there only with
\* a network.
ShellComplete ==
  /\ "shell" \in up => "zocl" \in up /\ {"pm", "xbutil2"} \subseteq up \cup refused
  /\ up \cap {"debugger", "debugger command"} # {} => {"rc.conf", "bsd", "network"} \subseteq up

\* The board is not reset under a running shell.
NoResetUnderShell == pc = "return" => "shell" \notin up

SafetyInv ==
  /\ TypeOK
  /\ VerdictFromPoll
  /\ ShellComplete
  /\ NoResetUnderShell
  /\ pc = "shell" <=> "shell" \in up

\* Whatever fails, the start ends in the shell, in the wait for a debugger or
\* in the next boot: it never stops half way.
StartEnds == []<>(pc \in {"shell", "debugger_wait", "boot"})
=============================================================================
