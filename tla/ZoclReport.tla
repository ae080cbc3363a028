----------------------------- MODULE ZoclReport -----------------------------
(***************************************************************************)
(* The report that the zocl device prints of an xclbin before it loads it  *)
(* (rtems/zocl/zocl-report.c).  Five loops share the index i, which also   *)
(* takes the result of the section lookup; the last one breaks the AIE     *)
(* metadata, a JSON text without line ends, into indented lines.           *)
(***************************************************************************)
EXTENDS Integers, Sequences

CONSTANTS
  Xclbins,  \* the xclbins that may be reported
  Levels,   \* settings of rtems_zocl_trace
  LineMax   \* 70

\* The braces, the comma, the line end and everything else
Chars == {"open", "close", "comma", "lf", "other"}

ASSUME XclbinsAssumption ==
  \A b \in Xclbins :
    /\ b.sections \in Nat /\ b.complete \in BOOLEAN
    /\ b.mem \in Seq(Nat) /\ b.ip \in Seq(Nat) /\ b.conn \in Nat
    /\ b.text \in Seq(Chars)
ASSUME LevelsAssumption == Levels \subseteq Nat /\ LineMax \in Nat

MemTypeLabels ==
  <<"MEM_DDR3", "MEM_DDR4", "MEM_DRAM", "MEM_STREAMING", "MEM_PREALLOCATED_GLOB",
    "MEM_ARE (Aurora)", "MEM_HBM", "MEM_BRAM", "MEM_URAM",
    "MEM_STREAMING_CONNECTION", "MEM_HOST", "MEM_PS_KERNEL">>
IpTypeLabels ==
  <<"IP_MB", "IP_KERNEL", "IP_DNASC", "IP_DDR4_CONTROLLER", "IP_MEM_DDR4",
    "IP_MEM_HBM", "IP_MEM_HBM_ECC", "IP_PS_KERNEL">>

Label(type, labels) == IF type < Len(labels) THEN labels[type + 1] ELSE "invalid"

\* What a line shows besides, by the type of the memory and of the IP
MemDetail(type) ==
  CASE type \in 0..2 -> "address" [] type = 3 -> "route" [] OTHER -> "none"
IpDetail(type) ==
  CASE type = 1 -> "properties" [] type \in 4..6 -> "index" [] OTHER -> "none"

VARIABLES
  xclbin,   \* axlf
  level,    \* rtems_zocl_trace
  pc,       \* the loop that runs
  i,        \* its index
  rows,     \* the lines of the tables so far
  indent,
  last,     \* last_char
  lineLen,  \* line_len
  col,      \* history: the column of the cursor
  depth,    \* history: the objects open in the text
  drift     \* history: the objects closed in front of something else than } or ,

tableVars == <<pc, i, rows>>
textVars == <<indent, last, lineLen, col, depth, drift>>
vars == <<xclbin, level, pc, i, rows, indent, last, lineLen, col, depth, drift>>

\* zocl_trace for ZOCL_TRACE_INFO, which is the least level
Traced == level % 256 >= 1

\* The length of what zocl_info prints, which is nothing below the level
Info(n) == IF Traced THEN n ELSE 0

\* Without the rule for negative widths
PadSigned(width) == Info(IF width = 0 THEN 1 ELSE width)

\* %*c takes a width of 0 for 1 and a negative one for a flag with its amount.
Pad(width) == Info(CASE width = 0 -> 1 [] width < 0 -> 0 - width [] OTHER -> width)

Init ==
  /\ xclbin \in Xclbins
  /\ level \in Levels
  /\ pc = "sections"
  /\ i = 0
  /\ rows = <<>>
  /\ indent = 2
  /\ last = "lf"
  /\ lineLen = 0
  /\ col = 0
  /\ depth = 0
  /\ drift = 0

Table(count, row) ==
  /\ i < count
  /\ rows' = IF Traced THEN Append(rows, row) ELSE rows
  /\ i' = i + 1
  /\ UNCHANGED pc

\* The loop is left, and the next one begins at first.
LeaveTo(here, count, next, first) ==
  /\ pc = here
  /\ i >= count
  /\ pc' = next
  /\ i' = first
  /\ UNCHANGED rows

SectionRow ==
  /\ pc = "sections"
  /\ Table(xclbin.sections, <<"section", i>>)
  /\ UNCHANGED <<xclbin, level, textVars>>

\* zocl_get_slot_sections: its result goes to i.
Lookup ==
  /\ LeaveTo("sections", xclbin.sections,
             IF xclbin.complete THEN "mem" ELSE "done", IF xclbin.complete THEN 0 ELSE 1)
  /\ UNCHANGED <<xclbin, level, textVars>>

MemRow ==
  /\ pc = "mem"
  /\ LET type == xclbin.mem[i + 1] IN
       Table(Len(xclbin.mem), <<"mem", i, Label(type, MemTypeLabels), MemDetail(type)>>)
  /\ UNCHANGED <<xclbin, level, textVars>>

IpRow ==
  /\ pc = "ip"
  /\ LET type == xclbin.ip[i + 1] IN
       Table(Len(xclbin.ip), <<"ip", i, Label(type, IpTypeLabels), IpDetail(type)>>)
  /\ UNCHANGED <<xclbin, level, textVars>>

ConnRow ==
  /\ pc = "conn"
  /\ Table(xclbin.conn, <<"conn", i>>)
  /\ UNCHANGED <<xclbin, level, textVars>>

\* The loop over the IPs goes on with the index of the one before.
NextTableKeeps ==
  /\ \/ LeaveTo("mem", Len(xclbin.mem), "ip", i)
     \/ LeaveTo("ip", Len(xclbin.ip), "conn", 0)
     \/ LeaveTo("conn", xclbin.conn, "aie", 0)
  /\ UNCHANGED <<xclbin, level, textVars>>

NextTable ==
  /\ \/ LeaveTo("mem", Len(xclbin.mem), "ip", 0)
     \/ LeaveTo("ip", Len(xclbin.ip), "conn", 0)
     \/ LeaveTo("conn", xclbin.conn, "aie", 0)
  /\ UNCHANGED <<xclbin, level, textVars>>

(***************************************************************************)
(* The metadata, one character a turn                                      *)
(***************************************************************************)
\* A character goes to the line, which may end behind it.
PrintChar(c, ends, length, column) ==
  /\ last' = IF ends THEN "lf" ELSE c
  /\ lineLen' = IF ends THEN length ELSE length + 1
  /\ col' = IF ends \/ c = "lf" THEN 0 ELSE column + Info(1)
  /\ i' = i + 1

\* The padding in front of the first character of a line
LineLenNow == IF last = "lf" THEN Pad(indent) ELSE lineLen
ColNow == IF last = "lf" THEN Pad(indent) ELSE col

Char == xclbin.text[i + 1]
NextIs(c) == i + 1 < Len(xclbin.text) /\ xclbin.text[i + 2] = c

AtChar(c) == pc = "aie" /\ i < Len(xclbin.text) /\ Char = c

OpenObject ==
  /\ AtChar("open")
  /\ indent' = indent + 1
  /\ depth' = depth + 1
  /\ PrintChar("open", TRUE, LineLenNow, ColNow)
  /\ UNCHANGED <<xclbin, level, pc, rows, drift>>

\* The closing of the outer object does not go back.
CloseObjectFlat ==
  /\ AtChar("close")
  /\ indent' = indent
  /\ depth' = depth - 1
  /\ drift' = IF NextIs("close") \/ NextIs("comma") THEN drift ELSE drift + 1
  /\ PrintChar("close", FALSE, Info(1) + Pad(indent - 1), Pad(indent - 1))
  /\ UNCHANGED <<xclbin, level, pc, rows>>

CloseObject ==
  /\ AtChar("close")
  /\ indent' = IF NextIs("close") THEN indent - 1 ELSE indent
  /\ depth' = depth - 1
  /\ drift' = IF NextIs("close") \/ NextIs("comma") THEN drift ELSE drift + 1
  /\ PrintChar("close", FALSE, Info(1) + Pad(indent - 1), Pad(indent - 1))
  /\ UNCHANGED <<xclbin, level, pc, rows>>

Comma ==
  /\ AtChar("comma")
  /\ indent' = IF last = "close" THEN indent - 1 ELSE indent
  /\ PrintChar("comma", last = "close" \/ LineLenNow > LineMax, LineLenNow, ColNow)
  /\ UNCHANGED <<xclbin, level, pc, rows, depth, drift>>

\* The padding is not counted.
OtherUncounted ==
  /\ \E c \in {"other", "lf"} : AtChar(c) /\ PrintChar(c, FALSE, lineLen, ColNow)
  /\ UNCHANGED <<xclbin, level, pc, rows, indent, depth, drift>>

Other ==
  /\ \E c \in {"other", "lf"} : AtChar(c) /\ PrintChar(c, FALSE, LineLenNow, ColNow)
  /\ UNCHANGED <<xclbin, level, pc, rows, indent, depth, drift>>

Done ==
  /\ LeaveTo("aie", Len(xclbin.text), "done", i)
  /\ UNCHANGED <<xclbin, level, textVars>>

Next ==
  \/ SectionRow \/ Lookup \/ MemRow \/ IpRow \/ ConnRow \/ NextTable
  \/ OpenObject \/ CloseObject \/ Comma \/ Other \/ Done

Spec == Init /\ [][Next]_vars

(***************************************************************************)
(* Properties                                                              *)
(***************************************************************************)
TypeOK ==
  /\ level \in Levels
  /\ pc \in {"sections", "mem", "ip", "conn", "aie", "done"}
  /\ i \in Nat
  /\ pc = "aie" => i \in 0..Len(xclbin.text)
  /\ indent \in Int /\ lineLen \in Nat /\ col \in Nat
  /\ last \in Chars
  /\ depth \in Int /\ drift \in Nat

\* Five loops with one index: when the metadata is reached each table has been
\* printed whole and in order.
TablesWhole ==
  Traced /\ pc = "aie" =>
    /\ Len(rows) = xclbin.sections + Len(xclbin.mem) + Len(xclbin.ip) + xclbin.conn
    /\ \A k \in 1..Len(xclbin.mem) : rows[xclbin.sections + k][2] = k - 1
    /\ \A k \in 1..Len(xclbin.ip) :
         rows[xclbin.sections + Len(xclbin.mem) + k][2] = k - 1

\* A comma behind a closed object takes back what its opening added.
Owed == last = "close" /\ pc = "aie" /\ i < Len(xclbin.text) /\ Char = "comma"

Rest == IF Owed THEN 1 ELSE 0

\* For every text the indentation is two and the nesting, and one more for
\* each object that was closed in front of anything but a comma or a brace:
\* the end of an array leaves the rest of the text a level deeper.
IndentAccounts == indent = 2 + depth + drift + Rest

\* So the width passed to printf, which is one less in front of a brace, is
\* positive while no more objects were closed than opened.
WidthPositive == depth >= 0 => indent - 1 >= 1

\* line_len is the column, or one more on a line that a brace began, so a line
\* is broken at the first comma behind the limit and not before.
LineLenTracks == Traced /\ last # "lf" => lineLen - col \in {0, 1}
=============================================================================
