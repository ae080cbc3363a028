--------------------------- MODULE Reports_proofs ---------------------------
(***************************************************************************)
(* Proofs about ZoclReport, for every text of the metadata and tables of   *)
(* any length, and about PmReport, for any number of images with names of  *)
(* any length.                                                             *)
(***************************************************************************)
EXTENDS ZoclReport, PmReport, SequenceTheorems, TLAPS

\* Before the metadata is reached its variables have their first values.
TextInv ==
  /\ xclbin \in Xclbins
  /\ pc \notin {"aie", "done"} => last = "lf"

ReportInv == TypeOK /\ TextInv /\ IndentAccounts /\ LineLenTracks

\* A section, a memory, an IP or a connection is a line of its own.
TableStep == SectionRow \/ MemRow \/ IpRow \/ ConnRow

LEMMA TableStepKeeps ==
  ASSUME TableStep
  PROVE  pc' = pc /\ i' = i + 1 /\ pc \in {"sections", "mem", "ip", "conn"}
         /\ UNCHANGED <<xclbin, level, indent, last, lineLen, col, depth, drift>>
BY DEF TableStep, SectionRow, MemRow, IpRow, ConnRow, Table, textVars

LEMMA LeaveKeeps ==
  ASSUME Lookup \/ NextTable \/ Done, TypeOK
  PROVE  /\ UNCHANGED <<xclbin, level, indent, last, lineLen, col, depth, drift>>
         /\ pc' \in {"mem", "ip", "conn", "aie", "done"}
         /\ i' \in Nat
         /\ pc' = "aie" => i' = 0
         /\ pc # "aie" \/ (pc' = "done" /\ i >= Len(xclbin.text))
         /\ pc # "done"
BY DEF Lookup, NextTable, Done, LeaveTo, textVars, TypeOK

\* What the padding of a line adds to it is a number.
LEMMA PadNat ==
  ASSUME TypeOK, NEW width \in Int
  PROVE  Pad(width) \in Nat /\ Info(1) \in {0, 1} /\ (Traced => Info(1) = 1)
BY LevelsAssumption DEF TypeOK, Pad, Info, Traced

LEMMA LineNat ==
  ASSUME TypeOK
  PROVE  LineLenNow \in Nat /\ ColNow \in Nat
BY PadNat DEF LineLenNow, ColNow, TypeOK

\* The two counts of a line agree once its padding is printed.
LEMMA LineNowTracks ==
  ASSUME TypeOK, LineLenTracks, Traced
  PROVE  LineLenNow - ColNow \in {0, 1}
<1>1. CASE last = "lf"
  <2>1. Pad(indent) \in Nat BY PadNat DEF TypeOK
  <2> QED BY <1>1, <2>1 DEF LineLenNow, ColNow
<1>2. CASE last # "lf"
  BY <1>2 DEF LineLenNow, ColNow, LineLenTracks
<1> QED BY <1>1, <1>2

\* The part of a character in the invariant of the counts.
LEMMA PrintTracks ==
  ASSUME TypeOK, UNCHANGED level,
         NEW c, NEW ends \in BOOLEAN, NEW length \in Nat, NEW column \in Nat,
         Traced => length - column \in {0, 1},
         c \in Chars,
         PrintChar(c, ends, length, column)
  PROVE  /\ LineLenTracks'
         /\ lineLen' \in Nat /\ col' \in Nat /\ last' \in Chars
         /\ last' \in {c, "lf"}
         /\ i' = i + 1
<1>1. Traced' = Traced /\ Info(1) \in {0, 1} /\ (Traced => Info(1) = 1)
  BY PadNat DEF Traced
<1>2. lineLen' \in Nat /\ col' \in Nat
  BY <1>1 DEF PrintChar
<1>3. last' \in {c, "lf"} /\ i' = i + 1 /\ last' \in Chars
  BY DEF PrintChar, Chars
<1>4. ASSUME Traced', last' # "lf" PROVE lineLen' - col' \in {0, 1}
  <2>1. lineLen' = length + 1 /\ col' = column + 1
    BY <1>1, <1>4 DEF PrintChar
  <2> QED BY <1>1, <1>4, <2>1
<1> QED BY <1>2, <1>3, <1>4 DEF LineLenTracks

THEOREM InitReport == Init => ReportInv
BY DEF Init, ReportInv, TypeOK, TextInv, IndentAccounts, LineLenTracks, Rest, Owed, Chars

\* A turn of the loop over the text: the index stays inside it.
LEMMA AtCharInside ==
  ASSUME ReportInv, NEW c, AtChar(c)
  PROVE  /\ pc = "aie" /\ i \in Nat /\ i < Len(xclbin.text) /\ Char = c
         /\ Len(xclbin.text) \in Nat
         /\ i + 1 \in 0..Len(xclbin.text)
<1>1. Len(xclbin.text) \in Nat
  BY XclbinsAssumption DEF ReportInv, TextInv
<1> QED BY <1>1 DEF ReportInv, TypeOK, AtChar

THEOREM StepReport == ReportInv /\ [Next]_vars => ReportInv'
<1> SUFFICES ASSUME ReportInv, [Next]_vars PROVE ReportInv' OBVIOUS
<1> USE DEF ReportInv
<1>1. CASE TableStep
  <2>1. TypeOK' /\ TextInv'
    BY <1>1, TableStepKeeps DEF TypeOK, TextInv
  <2>2. IndentAccounts' /\ LineLenTracks'
    BY <1>1, TableStepKeeps DEF IndentAccounts, LineLenTracks, Traced, Rest, Owed
  <2> QED BY <2>1, <2>2
<1>2. CASE Lookup \/ NextTable \/ Done
  <2>1. Len(xclbin.text) \in Nat
    BY XclbinsAssumption DEF TextInv
  <2>2. TypeOK'
    BY <1>2, <2>1, LeaveKeeps DEF TypeOK
  <2>3. TextInv' /\ LineLenTracks'
    BY <1>2, LeaveKeeps DEF TextInv, LineLenTracks, Traced
  <2>4. ~ Owed
    BY <1>2, <2>1, LeaveKeeps DEF TypeOK, Owed
  <2>5. ~ Owed'
    BY <1>2, <2>1, LeaveKeeps DEF TypeOK, TextInv, Owed
  <2>6. IndentAccounts'
    <3>1. Rest = 0 /\ Rest' = 0 BY <2>4, <2>5, Zenon DEF Rest
    <3> QED BY <1>2, <3>1, LeaveKeeps DEF IndentAccounts
  <2> QED BY <2>2, <2>3, <2>6
<1>3. CASE OpenObject
  <2>1. AtChar("open")
        /\ UNCHANGED <<xclbin, level, pc, rows, drift>>
        /\ indent' = indent + 1 /\ depth' = depth + 1
    BY <1>3 DEF OpenObject
  <2>b. PrintChar("open", TRUE, LineLenNow, ColNow)
    BY <1>3 DEF OpenObject
  <2>a. /\ pc = "aie" /\ i \in Nat /\ i < Len(xclbin.text) /\ Char = "open"
        /\ i + 1 \in 0..Len(xclbin.text)
    BY <2>1, AtCharInside
  <2>2. last' = "lf"
    BY <2>b DEF PrintChar
  <2>3. LineLenTracks' /\ lineLen' \in Nat /\ col' \in Nat /\ i' = i + 1
    BY <2>1, <2>b, LineNat, LineNowTracks, PrintTracks DEF Chars
  <2>4. TypeOK' /\ TextInv'
    <3>1. TextInv' BY <2>1, <2>a DEF TextInv
    <3>2. level' \in Levels /\ pc' = "aie" /\ i' \in Nat /\ i' \in 0..Len(xclbin'.text)
      BY <2>1, <2>3, <2>a DEF TypeOK
    <3>3. indent' \in Int /\ depth' \in Int /\ drift' \in Nat
      BY <2>1 DEF TypeOK
    <3> QED BY <2>2, <2>3, <3>1, <3>2, <3>3 DEF TypeOK, Chars
  <2>5. ~ Owed /\ ~ Owed'
    BY <2>1, <2>2, <2>a DEF Owed
  <2>6. IndentAccounts'
    <3>1. Rest = 0 /\ Rest' = 0 BY <2>5, Zenon DEF Rest
    <3> QED BY <2>1, <3>1 DEF IndentAccounts, TypeOK
  <2> QED BY <2>3, <2>4, <2>6
<1>4. CASE CloseObject
  <2> DEFINE P == Pad(indent - 1)
             L == Info(1) + P
  <2>1. AtChar("close")
        /\ UNCHANGED <<xclbin, level, pc, rows>>
        /\ indent' = (IF NextIs("close") THEN indent - 1 ELSE indent)
        /\ depth' = depth - 1
        /\ drift' = (IF NextIs("close") \/ NextIs("comma") THEN drift ELSE drift + 1)
    BY <1>4 DEF CloseObject
  <2>b. PrintChar("close", FALSE, L, P)
    BY <1>4 DEF CloseObject
  <2>a. /\ pc = "aie" /\ i \in Nat /\ i < Len(xclbin.text) /\ Char = "close"
        /\ i + 1 \in 0..Len(xclbin.text)
    BY <2>1, AtCharInside
  <2>2. P \in Nat /\ Info(1) \in {0, 1} /\ (Traced => Info(1) = 1)
    BY PadNat DEF TypeOK
  <2>3. last' = "close"
    BY <2>b DEF PrintChar
  <2>4. L \in Nat /\ (Traced => L - P \in {0, 1})
    BY <2>2
  <2>5. LineLenTracks' /\ lineLen' \in Nat /\ col' \in Nat /\ i' = i + 1
    <3> HIDE DEF P, L
    <3>1. UNCHANGED level /\ "close" \in Chars /\ P \in Nat
      BY <2>1, <2>2 DEF Chars
    <3> QED BY <2>b, <2>4, <3>1, PrintTracks
  <2>6. TypeOK' /\ TextInv'
    BY <2>1, <2>3, <2>5, <2>a DEF TypeOK, TextInv, Chars
  <2>7. ~ Owed
    BY <2>1, <2>a DEF Owed
  <2>8. Owed' <=> NextIs("comma")
    <3>1. i' = i + 1 /\ last' = "close" /\ pc' = "aie" /\ xclbin' = xclbin
      BY <2>1, <2>3, <2>5, <2>a
    <3>2. i' + 1 = i + 2
      BY <2>1, <3>1, <2>a
    <3>3. Char' = xclbin.text[i + 2]
      BY <3>1, <3>2 DEF Char
    <3> QED BY <3>1, <3>3 DEF NextIs, Owed
  <2>9. ~(NextIs("close") /\ NextIs("comma"))
    BY DEF NextIs
  <2>10. IndentAccounts'
    <3>1. Rest = 0 BY <2>7, Zenon DEF Rest
    <3>2. CASE NextIs("close")
      <4>1. Rest' = 0 BY <2>8, <2>9, <3>2, Zenon DEF Rest
      <4> QED BY <2>1, <3>1, <3>2, <4>1 DEF IndentAccounts, TypeOK
    <3>3. CASE NextIs("comma")
      <4>1. Rest' = 1 BY <2>8, <3>3, Zenon DEF Rest
      <4>2. ~ NextIs("close") BY <2>9, <3>3
      <4> QED BY <2>1, <3>1, <3>3, <4>1, <4>2 DEF IndentAccounts, TypeOK
    <3>4. CASE ~ NextIs("close") /\ ~ NextIs("comma")
      <4>1. Rest' = 0 BY <2>8, <3>4, Zenon DEF Rest
      <4> QED BY <2>1, <3>1, <3>4, <4>1 DEF IndentAccounts, TypeOK
    <3> QED BY <3>2, <3>3, <3>4
  <2> QED BY <2>5, <2>6, <2>10
<1>5. CASE Comma
  <2> DEFINE ends == (last = "close" \/ LineLenNow > LineMax)
  <2>1. AtChar("comma")
        /\ UNCHANGED <<xclbin, level, pc, rows, depth, drift>>
        /\ indent' = (IF last = "close" THEN indent - 1 ELSE indent)
    BY <1>5 DEF Comma
  <2>b. PrintChar("comma", ends, LineLenNow, ColNow)
    BY <1>5 DEF Comma
  <2>a. /\ pc = "aie" /\ i \in Nat /\ i < Len(xclbin.text) /\ Char = "comma"
        /\ i + 1 \in 0..Len(xclbin.text)
    BY <2>1, AtCharInside
  <2>2. LineLenTracks' /\ lineLen' \in Nat /\ col' \in Nat /\ i' = i + 1
        /\ last' \in {"comma", "lf"}
    <3>1. ends \in BOOLEAN OBVIOUS
    <3> HIDE DEF ends
    <3> QED BY <2>1, <2>b, <3>1, LineNat, LineNowTracks, PrintTracks DEF Chars
  <2>3. TypeOK' /\ TextInv'
    BY <2>1, <2>2, <2>a DEF TypeOK, TextInv, Chars
  <2>4. (Owed <=> last = "close") /\ ~ Owed'
    BY <2>1, <2>2, <2>a DEF Owed
  <2>5. IndentAccounts'
    <3>1. Rest' = 0 BY <2>4, Zenon DEF Rest
    <3>2. CASE last = "close"
      <4>1. Rest = 1 BY <2>4, <3>2, Zenon DEF Rest
      <4> QED BY <2>1, <3>1, <3>2, <4>1 DEF IndentAccounts, TypeOK
    <3>3. CASE last # "close"
      <4>1. Rest = 0 BY <2>4, <3>3, Zenon DEF Rest
      <4> QED BY <2>1, <3>1, <3>3, <4>1 DEF IndentAccounts, TypeOK
    <3> QED BY <3>2, <3>3
  <2> QED BY <2>2, <2>3, <2>5
<1>6. CASE Other
  <2>0. PICK c \in {"other", "lf"} : AtChar(c) /\ PrintChar(c, FALSE, LineLenNow, ColNow)
    BY <1>6 DEF Other
  <2>1. AtChar(c)
    BY <2>0
  <2>a. /\ pc = "aie" /\ i \in Nat /\ i < Len(xclbin.text) /\ Char = c
        /\ i + 1 \in 0..Len(xclbin.text)
    BY <2>1, AtCharInside
  <2>2. UNCHANGED <<xclbin, level, pc, rows, indent, depth, drift>>
    BY <1>6 DEF Other
  <2>3. LineLenTracks' /\ lineLen' \in Nat /\ col' \in Nat /\ i' = i + 1
        /\ last' \in {c, "lf"}
    BY <2>0, <2>2, LineNat, LineNowTracks, PrintTracks DEF Chars
  <2>4. TypeOK' /\ TextInv'
    BY <2>1, <2>2, <2>3, <2>a DEF TypeOK, TextInv, Chars
  <2>5. ~ Owed /\ ~ Owed'
    BY <2>1, <2>3, <2>a DEF Owed
  <2>6. IndentAccounts'
    <3>1. Rest = 0 /\ Rest' = 0 BY <2>5, Zenon DEF Rest
    <3> QED BY <2>2, <3>1 DEF IndentAccounts, TypeOK
  <2> QED BY <2>3, <2>4, <2>6
<1>7. CASE UNCHANGED vars
  BY <1>7 DEF vars, TypeOK, TextInv, IndentAccounts, LineLenTracks, Traced, Rest, Owed, Char
<1> QED BY <1>1, <1>2, <1>3, <1>4, <1>5, <1>6, <1>7 DEF Next, TableStep

THEOREM Safety == Spec => []ReportInv
BY InitReport, StepReport, PTL DEF Spec

\* The variables of the report have their types.
THEOREM TypeCorrect == Spec => []TypeOK
<1>1. ReportInv => TypeOK BY DEF ReportInv
<1> QED BY <1>1, Safety, PTL

\* For every text the indentation is two, the nesting and what closed objects
\* at the ends of arrays have left behind.
THEOREM Indentation == Spec => []IndentAccounts
<1>1. ReportInv => IndentAccounts BY DEF ReportInv
<1> QED BY <1>1, Safety, PTL

\* The width given to printf is positive while the text is nested properly.
THEOREM PositiveWidth == Spec => []WidthPositive
<1>1. ReportInv => WidthPositive BY DEF ReportInv, TypeOK, IndentAccounts, Rest, WidthPositive
<1> QED BY <1>1, Safety, PTL

\* line_len is the column of the cursor or one more.
THEOREM LineLength == Spec => []LineLenTracks
<1>1. ReportInv => LineLenTracks BY DEF ReportInv
<1> QED BY <1>1, Safety, PTL

(***************************************************************************)
(* The tables                                                              *)
(***************************************************************************)
Mems == Len(xclbin.mem)
Ips == Len(xclbin.ip)
Conns == xclbin.conn
Lines == Len(rows)

\* Where the lines of a table begin
MemStart == xclbin.sections
IpStart == MemStart + Mems
ConnStart == IpStart + Ips
TablesEnd == ConnStart + Conns

\* In each loop the lines printed are the tables before it and i lines more.
RowCount ==
  /\ pc = "sections" => i <= MemStart /\ Lines = i
  /\ pc = "mem" => i <= Mems /\ Lines = MemStart + i
  /\ pc = "ip" => i <= Ips /\ Lines = IpStart + i
  /\ pc = "conn" => i <= Conns /\ Lines = ConnStart + i
  /\ pc = "aie" => Lines = TablesEnd

\* The lines that are there have the index of their memory or IP.
RowOrder ==
  /\ \A k \in 1..Mems :
       MemStart + k <= Lines => rows[MemStart + k][2] = k - 1
  /\ \A k \in 1..Ips :
       IpStart + k <= Lines => rows[IpStart + k][2] = k - 1

RowsInv ==
  /\ \E T : rows \in Seq(T)
  /\ Traced => RowCount /\ RowOrder

\* One more line, whatever the lines before it hold
LEMMA AppendAny ==
  ASSUME NEW T, NEW r \in Seq(T), NEW e
  PROVE  /\ Append(r, e) \in Seq(T \cup {e})
         /\ Len(r) \in Nat
         /\ Len(Append(r, e)) = Len(r) + 1
         /\ \A k \in 1..Len(r) : Append(r, e)[k] = r[k]
         /\ Append(r, e)[Len(r) + 1] = e
<1>1. r \in Seq(T \cup {e}) /\ Len(r) \in Nat
  <2>1. Len(r) \in Nat /\ r \in [1..Len(r) -> T] OBVIOUS
  <2>2. r \in [1..Len(r) -> T \cup {e}] BY <2>1
  <2> QED BY <2>1, <2>2, SeqDef
<1>2. e \in T \cup {e} OBVIOUS
<1> QED BY <1>1, <1>2, AppendProperties

LEMMA SizesNat ==
  ASSUME TextInv
  PROVE  /\ MemStart \in Nat /\ Mems \in Nat /\ Ips \in Nat /\ Conns \in Nat
         /\ IpStart \in Nat /\ ConnStart \in Nat
         /\ IpStart = MemStart + Mems
         /\ ConnStart = IpStart + Ips
         /\ TablesEnd = ConnStart + Conns
BY XclbinsAssumption DEF TextInv, MemStart, IpStart, ConnStart, TablesEnd, Mems, Ips, Conns

LEMMA InitRows == Init => RowsInv
<1> SUFFICES ASSUME Init PROVE RowsInv OBVIOUS
<1>1. rows = <<>> /\ Lines = 0 /\ i = 0 /\ pc = "sections" /\ rows \in Seq({})
  BY DEF Init, Lines
<1>2. TextInv BY InitReport DEF ReportInv
<1>3. RowCount BY <1>1, <1>2, SizesNat DEF RowCount
<1>4. RowOrder
  <2>1. MemStart \in Nat /\ IpStart \in Nat /\ Mems \in Nat /\ Ips \in Nat
    BY <1>2, SizesNat
  <2>2. /\ \A k \in 1..Mems : ~(MemStart + k <= 0)
        /\ \A k \in 1..Ips : ~(IpStart + k <= 0)
    BY <2>1
  <2> QED BY <1>1, <2>2 DEF RowOrder
<1> QED BY <1>1, <1>3, <1>4 DEF RowsInv

\* What a turn of a table's loop does to the lines
LEMMA TableAdds ==
  ASSUME RowsInv, NEW count, NEW row, Table(count, row), UNCHANGED <<xclbin, level>>
  PROVE  /\ \E T : rows' \in Seq(T)
         /\ Traced' = Traced
         /\ UNCHANGED <<Mems, Ips, Conns, MemStart, IpStart, ConnStart, TablesEnd>>
         /\ Lines \in Nat
         /\ Traced => /\ i < count /\ i' = i + 1 /\ pc' = pc
                      /\ Lines' = Lines + 1
                      /\ \A k \in 1..Lines : rows'[k] = rows[k]
                      /\ rows'[Lines + 1] = row
                      /\ RowCount /\ RowOrder
<1>1. PICK T : rows \in Seq(T) BY DEF RowsInv
<1>2. rows' \in Seq(T) \/ rows' \in Seq(T \cup {row})
  BY <1>1, AppendAny DEF Table
<1>3. Traced' = Traced BY DEF Traced
<1>4. UNCHANGED <<Mems, Ips, Conns, MemStart, IpStart, ConnStart, TablesEnd>>
  BY DEF Mems, Ips, Conns, MemStart, IpStart, ConnStart, TablesEnd
<1>5. ASSUME Traced
      PROVE  /\ i < count /\ i' = i + 1 /\ pc' = pc
             /\ Lines' = Lines + 1
             /\ \A k \in 1..Lines : rows'[k] = rows[k]
             /\ rows'[Lines + 1] = row
             /\ RowCount /\ RowOrder
  BY <1>1, <1>5, AppendAny DEF Table, RowsInv, Lines
<1>6. Lines \in Nat BY <1>1 DEF Lines
<1> QED BY <1>2, <1>3, <1>4, <1>5, <1>6

\* A table whose lines are all there keeps them.
LEMMA KeepsOrder ==
  ASSUME NEW start \in Nat, NEW size \in Nat, Lines \in Nat, start + size <= Lines,
         \A k \in 1..Lines : rows'[k] = rows[k],
         \A k \in 1..size : start + k <= Lines => rows[start + k][2] = k - 1
  PROVE  \A k \in 1..size : rows'[start + k][2] = k - 1
<1> TAKE k \in 1..size
<1>1. start + k <= Lines /\ start + k \in 1..Lines
  OBVIOUS
<1> QED BY <1>1

\* The line of the index goes behind those before it.
LEMMA AddsInOrder ==
  ASSUME NEW start \in Nat, NEW size \in Nat, i \in Nat, Lines = start + i,
         Lines' = Lines + 1,
         \A k \in 1..Lines : rows'[k] = rows[k],
         NEW row, row[2] = i, rows'[Lines + 1] = row,
         \A k \in 1..size : start + k <= Lines => rows[start + k][2] = k - 1
  PROVE  \A k \in 1..size : start + k <= Lines' => rows'[start + k][2] = k - 1
<1> SUFFICES ASSUME NEW k \in 1..size, start + k <= Lines'
             PROVE  rows'[start + k][2] = k - 1
  OBVIOUS
<1>1. CASE k = i + 1
  <2>1. start + k = Lines + 1 BY <1>1
  <2>2. rows'[start + k] = row BY <2>1
  <2> QED BY <1>1, <2>2
<1>2. CASE k # i + 1
  <2>1. start + k <= Lines /\ start + k \in 1..Lines
    BY <1>2
  <2>2. rows'[start + k] = rows[start + k] BY <2>1
  <2> QED BY <2>1, <2>2
<1> QED BY <1>1, <1>2

\* A step that prints no line of a table
LEMMA NoLine ==
  ASSUME RowsInv, UNCHANGED <<xclbin, level, rows>>, Traced => RowCount'
  PROVE  RowsInv'
<1>1. UNCHANGED <<Traced, Mems, Ips, MemStart, IpStart, Lines>>
  BY DEF Traced, Mems, Ips, MemStart, IpStart, Lines
<1> QED BY <1>1 DEF RowsInv, RowOrder

LEMMA StepRows == ReportInv /\ RowsInv /\ [Next]_vars => RowsInv'
<1> SUFFICES ASSUME ReportInv, RowsInv, [Next]_vars PROVE RowsInv' OBVIOUS
<1>n. /\ i \in Nat
      /\ MemStart \in Nat /\ Mems \in Nat /\ Ips \in Nat /\ Conns \in Nat
      /\ IpStart \in Nat /\ ConnStart \in Nat
      /\ IpStart = MemStart + Mems
      /\ ConnStart = IpStart + Ips
      /\ TablesEnd = ConnStart + Conns
  BY SizesNat DEF ReportInv, TypeOK
<1>1. CASE SectionRow
  <2>1. pc = "sections" /\ Table(MemStart, <<"section", i>>) /\ UNCHANGED <<xclbin, level>>
    BY <1>1 DEF SectionRow, MemStart
  <2>2. ASSUME Traced PROVE RowCount' /\ RowOrder'
    <3>1. i < MemStart /\ i' = i + 1 /\ pc' = "sections" /\ Lines' = i + 1
          /\ UNCHANGED <<Mems, Ips, MemStart, IpStart>>
      BY <2>1, <2>2, TableAdds DEF RowCount
    <3>2. RowCount' BY <1>n, <3>1 DEF RowCount
    <3>3. Lines' <= MemStart /\ Lines' <= IpStart /\ Lines' \in Nat BY <1>n, <3>1
    <3>4. RowOrder' BY <1>n, <3>1, <3>3 DEF RowOrder
    <3> QED BY <3>2, <3>4
  <2> QED BY <2>1, <2>2, TableAdds DEF RowsInv
<1>2. CASE MemRow
  <2> DEFINE row == <<"mem", i, Label(xclbin.mem[i + 1], MemTypeLabels),
                      MemDetail(xclbin.mem[i + 1])>>
  <2>r. row[2] = i OBVIOUS
  <2>1. pc = "mem" /\ Table(Mems, row) /\ UNCHANGED <<xclbin, level>>
    BY <1>2 DEF MemRow, Mems
  <2> HIDE DEF row
  <2>2. ASSUME Traced PROVE RowCount' /\ RowOrder'
    <3>1. /\ i < Mems /\ i' = i + 1 /\ pc' = "mem"
          /\ Lines = MemStart + i /\ Lines' = Lines + 1
          /\ UNCHANGED <<Mems, Ips, MemStart, IpStart>>
      BY <2>1, <2>2, TableAdds DEF RowCount
    <3>2. RowCount' BY <1>n, <3>1 DEF RowCount
    <3>3. /\ \A k \in 1..Lines : rows'[k] = rows[k]
          /\ rows'[Lines + 1] = row
          /\ RowOrder
      BY <2>1, <2>2, TableAdds
    <3>4. \A k \in 1..Mems : MemStart + k <= Lines' => rows'[MemStart + k][2] = k - 1
      BY <1>n, <2>r, <3>1, <3>3, AddsInOrder DEF RowOrder
    <3>5. Lines' <= IpStart /\ Lines' \in Nat BY <1>n, <3>1
    <3>6. RowOrder' BY <1>n, <3>1, <3>4, <3>5 DEF RowOrder
    <3> QED BY <3>2, <3>6
  <2> QED BY <2>1, <2>2, TableAdds DEF RowsInv
<1>3. CASE IpRow
  <2> DEFINE row == <<"ip", i, Label(xclbin.ip[i + 1], IpTypeLabels),
                      IpDetail(xclbin.ip[i + 1])>>
  <2>r. row[2] = i OBVIOUS
  <2>1. pc = "ip" /\ Table(Ips, row) /\ UNCHANGED <<xclbin, level>>
    BY <1>3 DEF IpRow, Ips
  <2> HIDE DEF row
  <2>2. ASSUME Traced PROVE RowCount' /\ RowOrder'
    <3>1. /\ i < Ips /\ i' = i + 1 /\ pc' = "ip"
          /\ Lines = IpStart + i /\ Lines' = Lines + 1
          /\ UNCHANGED <<Mems, Ips, MemStart, IpStart>>
      BY <2>1, <2>2, TableAdds DEF RowCount
    <3>2. RowCount' BY <1>n, <3>1 DEF RowCount
    <3>3. /\ \A k \in 1..Lines : rows'[k] = rows[k]
          /\ rows'[Lines + 1] = row
          /\ RowOrder
      BY <2>1, <2>2, TableAdds
    <3>4. \A k \in 1..Ips : IpStart + k <= Lines' => rows'[IpStart + k][2] = k - 1
      BY <1>n, <2>r, <3>1, <3>3, AddsInOrder DEF RowOrder
    <3>5. Lines \in Nat /\ MemStart + Mems <= Lines BY <1>n, <3>1
    <3>6. \A k \in 1..Mems : rows'[MemStart + k][2] = k - 1
      BY <1>n, <3>3, <3>5, KeepsOrder DEF RowOrder
    <3>7. RowOrder' BY <3>1, <3>4, <3>6 DEF RowOrder
    <3> QED BY <3>2, <3>7
  <2> QED BY <2>1, <2>2, TableAdds DEF RowsInv
<1>4. CASE ConnRow
  <2>1. pc = "conn" /\ Table(Conns, <<"conn", i>>) /\ UNCHANGED <<xclbin, level>>
    BY <1>4 DEF ConnRow, Conns
  <2>2. ASSUME Traced PROVE RowCount' /\ RowOrder'
    <3>1. /\ i < Conns /\ i' = i + 1 /\ pc' = "conn"
          /\ Lines = ConnStart + i /\ Lines' = Lines + 1
          /\ UNCHANGED <<Mems, Ips, Conns, MemStart, IpStart, ConnStart>>
      BY <2>1, <2>2, TableAdds DEF RowCount
    <3>2. RowCount' BY <1>n, <3>1 DEF RowCount
    <3>3. (\A k \in 1..Lines : rows'[k] = rows[k]) /\ RowOrder
      BY <2>1, <2>2, TableAdds
    <3>4. Lines \in Nat /\ MemStart + Mems <= Lines /\ IpStart + Ips <= Lines
      BY <1>n, <3>1
    <3>5. \A k \in 1..Mems : rows'[MemStart + k][2] = k - 1
      BY <1>n, <3>3, <3>4, KeepsOrder DEF RowOrder
    <3>6. \A k \in 1..Ips : rows'[IpStart + k][2] = k - 1
      BY <1>n, <3>3, <3>4, KeepsOrder DEF RowOrder
    <3>7. RowOrder' BY <3>1, <3>5, <3>6 DEF RowOrder
    <3> QED BY <3>2, <3>7
  <2> QED BY <2>1, <2>2, TableAdds DEF RowsInv
<1>k. ASSUME UNCHANGED <<xclbin, rows>>
      PROVE  UNCHANGED <<Mems, Ips, Conns, Lines, MemStart, IpStart, ConnStart, TablesEnd>>
  BY <1>k DEF Mems, Ips, Conns, Lines, MemStart, IpStart, ConnStart, TablesEnd
<1>5. CASE Lookup
  <2>1. /\ pc = "sections" /\ i >= MemStart /\ UNCHANGED <<xclbin, level, rows>>
        /\ (pc' = "mem" /\ i' = 0) \/ pc' = "done"
    BY <1>5 DEF Lookup, LeaveTo, MemStart
  <2>2. ASSUME Traced PROVE RowCount'
    <3>1. Lines = MemStart BY <1>n, <2>1, <2>2 DEF RowsInv, RowCount
    <3> QED BY <1>n, <1>k, <2>1, <3>1 DEF RowCount
  <2> QED BY <2>1, <2>2, NoLine
<1>6. CASE NextTable
  <2>1. UNCHANGED <<xclbin, level, rows>> /\ i' = 0
        /\ \/ pc = "mem" /\ i >= Mems /\ pc' = "ip"
           \/ pc = "ip" /\ i >= Ips /\ pc' = "conn"
           \/ pc = "conn" /\ i >= Conns /\ pc' = "aie"
    BY <1>6 DEF NextTable, LeaveTo, Mems, Ips, Conns
  <2>2. ASSUME Traced PROVE RowCount'
    <3>1. \/ pc' = "ip" /\ Lines = IpStart
          \/ pc' = "conn" /\ Lines = ConnStart
          \/ pc' = "aie" /\ Lines = TablesEnd
      BY <1>n, <2>1, <2>2 DEF RowsInv, RowCount
    <3> QED BY <1>n, <1>k, <2>1, <3>1 DEF RowCount
  <2> QED BY <2>1, <2>2, NoLine
<1>7. CASE OpenObject \/ CloseObject \/ Comma \/ Other \/ Done
  <2>1. pc = "aie" /\ pc' \in {"aie", "done"} /\ UNCHANGED <<xclbin, level, rows>>
    BY <1>7 DEF OpenObject, CloseObject, Comma, Other, Done, AtChar, LeaveTo
  <2>2. Traced => RowCount'
    BY <1>k, <2>1 DEF RowsInv, RowCount
  <2> QED BY <2>1, <2>2, NoLine
<1>8. CASE UNCHANGED vars
  <2>1. Traced => RowCount' BY <1>k, <1>8 DEF vars, RowsInv, RowCount
  <2> QED BY <1>8, <2>1, NoLine DEF vars
<1> QED BY <1>1, <1>2, <1>3, <1>4, <1>5, <1>6, <1>7, <1>8 DEF Next

\* Whatever xclbin is reported, the tables are whole and in order once the
\* metadata is reached, though five loops share the index.
THEOREM WholeTables == Spec => []TablesWhole
<1>1. ReportInv /\ RowsInv => TablesWhole
  <2> SUFFICES ASSUME ReportInv, RowsInv, Traced, pc = "aie"
               PROVE  /\ Lines = TablesEnd
                      /\ \A k \in 1..Mems : rows[MemStart + k][2] = k - 1
                      /\ \A k \in 1..Ips : rows[IpStart + k][2] = k - 1
    BY DEF TablesWhole, TablesEnd, ConnStart, MemStart, IpStart, Mems, Ips, Conns, Lines
  <2>1. Lines = TablesEnd /\ RowOrder BY DEF RowsInv, RowCount
  <2>n. /\ MemStart \in Nat /\ Mems \in Nat /\ Ips \in Nat /\ Conns \in Nat
        /\ IpStart = MemStart + Mems
        /\ TablesEnd = IpStart + Ips + Conns
    BY SizesNat DEF ReportInv
  <2>2. /\ \A k \in 1..Mems : MemStart + k <= TablesEnd
        /\ \A k \in 1..Ips : IpStart + k <= TablesEnd
    BY <2>n
  <2> QED BY <2>1, <2>2 DEF RowOrder
<1>2. Init => ReportInv /\ RowsInv BY InitReport, InitRows
<1>3. ReportInv /\ RowsInv /\ [Next]_vars => (ReportInv /\ RowsInv)'
  BY StepReport, StepRows
<1> QED BY <1>1, <1>2, <1>3, PTL DEF Spec

(***************************************************************************)
(* The lists of `pm acap info`                                             *)
(***************************************************************************)
\* What is behind the index has been measured, and the greatest length is that
\* of one of the names.
MeasureInv ==
  /\ images \in Seq(NameRecords)
  /\ list \in {"measure", "images", "partitions"}
  /\ u \in Nat /\ max \in 0..NameLimit
  /\ list = "measure" => u <= Len(images)
  /\ \A k \in 1..Len(images) :
       (list = "measure" => k <= u) => StrNLen(images[k]) <= max

\* The lines that are printed: the title and one for each image up to the index.
ColumnInv ==
  /\ widths \in Seq(Nat)
  /\ list = "images" => u <= Len(images) /\ Len(widths) = u + 1
  /\ list = "partitions" => Len(widths) = Len(images) + 1
  /\ ColumnsAligned

ImageInv == MeasureInv /\ ColumnInv

LEMMA NameLengths ==
  ASSUME NEW name \in NameRecords
  PROVE  /\ StrLen(name) \in Nat /\ StrNLen(name) \in 0..NameLimit
         /\ StrLen(name) <= NameLimit => StrNLen(name) = StrLen(name)
         /\ StrLen(name) > NameLimit => StrNLen(name) = NameLimit
BY DEF NameRecords, StrLen, StrNLen, NameField, NameLimit

LEMMA Greatest ==
  ASSUME NEW a \in 0..NameLimit, NEW b \in 0..NameLimit
  PROVE  MaxOf(a, b) \in 0..NameLimit /\ a <= MaxOf(a, b) /\ b <= MaxOf(a, b)
BY DEF MaxOf, NameLimit

LEMMA NoSmaller ==
  ASSUME NEW a \in 0..NameLimit, NEW b \in 0..NameLimit, NEW c \in 0..NameLimit, a <= b, b <= c
  PROVE  a <= c
BY DEF NameLimit

LEMMA InitImages == ReportInit => ImageInv
BY ReportAssumption
DEF ReportInit, ImageInv, MeasureInv, ColumnInv, ColumnsAligned, NameLimit

\* The width of a line, for a name that was measured
LEMMA LineWidth ==
  ASSUME NEW name \in NameRecords, max \in 0..NameLimit, StrNLen(name) <= max
  PROVE  /\ Padded(max, StrLen(name)) \in Nat
         /\ IF StrLen(name) <= NameLimit
            THEN Padded(max, StrLen(name)) = max
            ELSE max = NameLimit /\ Padded(max, StrLen(name)) > max
BY NameLengths DEF Padded, MaxOf, NameLimit

LEMMA StepImages == ImageInv /\ [ReportNext]_imageVars => ImageInv'
<1> SUFFICES ASSUME ImageInv, [ReportNext]_imageVars PROVE ImageInv' OBVIOUS
<1>t. /\ images \in Seq(NameRecords) /\ Len(images) \in Nat
      /\ u \in Nat /\ max \in 0..NameLimit /\ widths \in Seq(Nat)
      /\ \A k \in 1..Len(images) : images[k] \in NameRecords
  BY DEF ImageInv, MeasureInv, ColumnInv
<1>1. CASE Measure
  <2>1. /\ list = "measure" /\ u < Len(images) /\ u' = u + 1
        /\ max' = MaxOf(max, StrNLen(images[u + 1]))
        /\ UNCHANGED <<images, list, widths>>
    BY <1>1 DEF Measure
  <2>2. u + 1 \in 1..Len(images) /\ images[u + 1] \in NameRecords
    BY <1>t, <2>1
  <2>3. /\ max' \in 0..NameLimit /\ max <= max' /\ StrNLen(images[u + 1]) <= max'
    <3>1. StrNLen(images[u + 1]) \in 0..NameLimit
      BY <2>2, NameLengths
    <3> QED BY <1>t, <2>1, <3>1, Greatest
  <2>4. ASSUME NEW k \in 1..Len(images), k <= u + 1 PROVE StrNLen(images[k]) <= max'
    <3>1. CASE k = u + 1 BY <2>3, <3>1
    <3>2. CASE k # u + 1
      <4>1. k <= u BY <1>t, <2>4, <3>2
      <4>2. StrNLen(images[k]) <= max BY <2>1, <4>1 DEF ImageInv, MeasureInv
      <4>3. StrNLen(images[k]) \in 0..NameLimit BY <1>t, NameLengths
      <4> QED BY <1>t, <2>3, <4>2, <4>3, NoSmaller
    <3> QED BY <3>1, <3>2
  <2>5. MeasureInv' BY <1>t, <2>1, <2>3, <2>4 DEF MeasureInv, ImageInv
  <2>6. ColumnInv' BY <1>t, <2>1 DEF ColumnInv, ColumnsAligned
  <2> QED BY <2>5, <2>6 DEF ImageInv
<1>2. CASE ImageTitle
  <2>1. /\ list = "measure" /\ u >= Len(images) /\ u' = 0 /\ list' = "images"
        /\ widths' = <<Padded(max, TitleLen)>> /\ UNCHANGED <<images, max>>
    BY <1>2 DEF ImageTitle
  <2>2. Padded(max, TitleLen) \in Nat /\ (max >= TitleLen => Padded(max, TitleLen) = max)
    BY <1>t DEF Padded, MaxOf, TitleLen, NameLimit
  <2>3. MeasureInv' BY <1>t, <2>1 DEF MeasureInv, ImageInv
  <2>4. widths' \in Seq(Nat) /\ Len(widths') = 1 /\ widths'[1] = Padded(max, TitleLen)
    BY <2>1, <2>2
  <2>5. ColumnsAligned' BY <2>1, <2>2, <2>4 DEF ColumnsAligned
  <2> QED BY <1>t, <2>1, <2>3, <2>4, <2>5 DEF ImageInv, ColumnInv
<1>3. CASE ImageLine
  <2> DEFINE name == images[u + 1]
             w == Padded(max, StrLen(name))
  <2>1. /\ list = "images" /\ u < Len(images) /\ u' = u + 1
        /\ widths' = Append(widths, w) /\ UNCHANGED <<images, list, max>>
    BY <1>3 DEF ImageLine
  <2>2. u + 1 \in 1..Len(images) /\ name \in NameRecords /\ StrNLen(name) <= max
    BY <1>t, <2>1 DEF ImageInv, MeasureInv
  <2>3. /\ w \in Nat
        /\ IF StrLen(name) <= NameLimit THEN w = max ELSE max = NameLimit /\ w > max
    BY <1>t, <2>2, LineWidth
  <2> HIDE DEF w
  <2>4. Len(widths) = u + 1 /\ ColumnsAligned BY <2>1 DEF ImageInv, ColumnInv
  <2>5. /\ widths' \in Seq(Nat) /\ Len(widths') = u + 2
        /\ widths'[u + 2] = w
        /\ \A k \in 1..u + 1 : widths'[k] = widths[k]
    BY <1>t, <2>1, <2>3, <2>4
  <2>6. MeasureInv' BY <1>t, <2>1 DEF MeasureInv, ImageInv
  <2>7. ColumnsAligned'
    <3>1. max >= TitleLen => widths'[1] = max
      BY <1>t, <2>1, <2>4, <2>5 DEF ColumnsAligned
    <3>2. ASSUME NEW k \in 2..Len(widths')
          PROVE  IF StrLen(images[k - 1]) <= NameLimit
                 THEN widths'[k] = max
                 ELSE max = NameLimit /\ widths'[k] > max
      <4>1. CASE k = u + 2
        <5>1. k - 1 = u + 1 BY <1>t, <4>1
        <5> QED BY <2>3, <2>5, <4>1, <5>1
      <4>2. CASE k # u + 2
        <5>1. k \in 2..Len(widths) /\ widths'[k] = widths[k]
          BY <1>t, <2>4, <2>5, <4>2
        <5> QED BY <2>1, <2>4, <5>1 DEF ColumnsAligned
      <4> QED BY <4>1, <4>2
    <3> QED BY <2>1, <3>1, <3>2 DEF ColumnsAligned
  <2> QED BY <1>t, <2>1, <2>5, <2>6, <2>7 DEF ImageInv, ColumnInv
<1>4. CASE PartitionTitle
  <2>1. /\ list = "images" /\ u >= Len(images) /\ u' = 0 /\ list' = "partitions"
        /\ UNCHANGED <<images, max, widths>>
    BY <1>4 DEF PartitionTitle
  <2>2. MeasureInv' BY <1>t, <2>1 DEF MeasureInv, ImageInv
  <2>3. ColumnInv' BY <1>t, <2>1 DEF ImageInv, ColumnInv, ColumnsAligned
  <2> QED BY <2>2, <2>3 DEF ImageInv
<1>5. CASE PartitionLine
  <2>1. list = "partitions" /\ u' = u + 1 /\ UNCHANGED <<images, list, max, widths>>
    BY <1>5 DEF PartitionLine
  <2>2. MeasureInv' BY <1>t, <2>1 DEF MeasureInv, ImageInv
  <2>3. ColumnInv' BY <1>t, <2>1 DEF ImageInv, ColumnInv, ColumnsAligned
  <2> QED BY <2>2, <2>3 DEF ImageInv
<1>6. CASE UNCHANGED imageVars
  BY <1>6 DEF imageVars, ImageInv, MeasureInv, ColumnInv, ColumnsAligned
<1> QED BY <1>1, <1>2, <1>3, <1>4, <1>5, <1>6 DEF ReportNext

\* However long the names of the images are, the columns behind them line up,
\* but for a name that strnlen did not see the end of.
THEOREM AlignedColumns == ReportSpec => []ColumnsAligned
<1>1. ImageInv => ColumnsAligned BY DEF ImageInv, ColumnInv
<1> QED BY <1>1, InitImages, StepImages, PTL DEF ReportSpec
=============================================================================
