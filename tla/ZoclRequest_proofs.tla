------------------------- MODULE ZoclRequest_proofs -------------------------
(***************************************************************************)
(* ZoclRequest: a reply that left room is complete and nothing is printed  *)
(* behind the buffer, for any number of slots, line length and sizes.      *)
(***************************************************************************)
EXTENDS ZoclRequest, FiniteSetTheorems, TLAPS

(***************************************************************************)
(* Arithmetic                                                              *)
(***************************************************************************)
\* A number below the modulus is its own remainder.
LEMMA ModSmall == \A m \in Nat, a \in Nat : a < m => a % m = a
OBVIOUS

LEMMA ModNegative == \A m \in Nat, a \in Int : - m <= a /\ a < 0 => a % m = a + m
OBVIOUS

LEMMA TimesMonotone == \A a \in Nat, b \in Nat, c \in Nat : a <= b => a * c <= b * c
OBVIOUS

LEMMA TimesNext == \A a \in Nat, c \in Nat : (a + 1) * c = a * c + c
OBVIOUS

(***************************************************************************)
(* SafetyInv                                                               *)
(***************************************************************************)
\* While there is room in front of the end of the buffer, data_level does not
\* wrap.
LEMMA NoWrap ==
  ASSUME TypeOK, level < size
  PROVE  /\ (level + LineLen) % Modulus = level + LineLen
         /\ level + LineLen \in 0..Modulus - 1
<1>1. /\ level \in Nat /\ LineLen \in Nat /\ Modulus \in Nat /\ size \in Nat
      /\ IntMax \in Nat /\ size <= IntMax /\ IntMax + LineLen < Modulus
  BY SizesAssumption DEF TypeOK
<1>2. level + LineLen < Modulus /\ level + LineLen \in Nat
  BY <1>1
<1> QED BY <1>1, <1>2, ModSmall

\* The length that zocl_req_length finds: what is left of the buffer, or one
\* above INT_MAX once the level is past the size.
LEMMA RoomFacts ==
  ASSUME TypeOK, InsideBuffer
  PROVE  /\ level <= size => Room = size - level /\ Room <= IntMax
         /\ level > size => Room > IntMax /\ (level - 1) % Modulus = level - 1
         /\ Room \in Nat
<1>1. /\ level \in Nat /\ size \in Nat /\ Modulus \in Nat /\ LineLen \in Nat
      /\ IntMax \in Nat /\ size <= IntMax /\ IntMax + LineLen < Modulus
      /\ level < size + LineLen /\ level < Modulus
  BY SizesAssumption DEF TypeOK, InsideBuffer
<1>2. CASE level <= size
  <2>1. size - level \in Nat /\ size - level < Modulus /\ size - level <= IntMax
    BY <1>1, <1>2
  <2>2. Room = size - level
    BY <1>1, <2>1, ModSmall DEF Room
  <2> QED BY <1>1, <1>2, <2>1, <2>2
<1>3. CASE level > size
  <2>1. size - level \in Int /\ - Modulus <= size - level /\ size - level < 0
    BY <1>1, <1>3
  <2>2. Room = size - level + Modulus
    BY <1>1, <2>1, ModNegative DEF Room
  <2>3. size - level + Modulus > IntMax /\ size - level + Modulus \in Nat
    BY <1>1
  <2>4. level - 1 \in Nat /\ level - 1 < Modulus
    BY <1>1, <1>3
  <2> QED BY <1>1, <1>3, <2>2, <2>3, <2>4, ModSmall
<1> QED BY <1>1, <1>2, <1>3

\* zocl_req_print, by where data_level is
LEMMA PrintFacts ==
  ASSUME SafetyInv
  PROVE  /\ PrintLine => level < size /\ Room = size - level /\ level' = level + LineLen
         /\ PrintRefused => level > size /\ level' = level - 1
         /\ PrintTooBig => level = size
<1> USE SizesAssumption DEF SafetyInv
<1>1. TypeOK /\ InsideBuffer /\ level \in Nat /\ size \in Nat /\ IntMax \in Nat
  BY DEF TypeOK, LevelInv
<1>2. ASSUME PrintLine PROVE level < size /\ Room = size - level /\ level' = level + LineLen
  <2>1. Room >= 1 /\ Room <= IntMax /\ Room \in Nat BY <1>1, <1>2, RoomFacts DEF PrintLine
  <2>2. level < size /\ Room = size - level BY <1>1, <2>1, RoomFacts
  <2> QED BY <1>1, <1>2, <2>2, NoWrap DEF PrintLine
<1>3. ASSUME PrintRefused PROVE level > size /\ level' = level - 1
  <2>1. level > size BY <1>1, <1>3, RoomFacts DEF PrintRefused
  <2> QED BY <1>1, <1>3, <2>1, RoomFacts DEF PrintRefused
<1>4. ASSUME PrintTooBig PROVE level = size
  BY <1>1, <1>4, RoomFacts DEF PrintTooBig
<1> QED BY <1>2, <1>3, <1>4

\* There is a data_level, whatever sizes the clients use.
LEMMA ModulusPositive == Modulus \in Nat /\ 0 \in 0..Modulus - 1 /\ 0 \in 0..NumSlots
BY SizesAssumption

LEMMA InitSafe == Init => SafetyInv
BY ModulusPositive, SizesAssumption DEF Init, SafetyInv, TypeOK, LevelInv, InsideBuffer, LinesInv, NoLines, Slots

\* A line is printed, whole or cut.
LEMMA PrintStep == SafetyInv /\ PrintLine => SafetyInv'
<1> SUFFICES ASSUME SafetyInv, PrintLine PROVE SafetyInv'
  OBVIOUS
<1> USE SizesAssumption DEF SafetyInv
<1>1. s \in Slots /\ pc = "scan" /\ s \in used
  BY DEF PrintLine, TypeOK
<1>2. s' = s + 1 /\ s' \in 0..NumSlots
  BY <1>1 DEF PrintLine, Slots
<1>3. /\ level < size /\ Room = size - level /\ level' = level + LineLen
      /\ level' \in 0..Modulus - 1
      /\ level \in Nat /\ size \in Nat /\ LineLen \in Nat \ {0}
  BY PrintFacts, NoWrap DEF TypeOK
<1>4. Cut(Room) \in 0..LineLen /\ Cut(Room) <= Room - 1
  BY <1>3 DEF Cut
<1>5. kept' = [kept EXCEPT ![s] = Cut(Room)] /\ end' = level + Cut(Room) + 1
  BY DEF PrintLine
<1>6. end' \in Nat /\ end' <= size
  BY <1>3, <1>4, <1>5
<1>7. TypeOK'
  BY <1>1, <1>2, <1>3, <1>4, <1>5, <1>6 DEF PrintLine, TypeOK
<1>8. LevelInv'
  BY <1>3, <1>6 DEF PrintLine, LevelInv, InsideBuffer
<1>9. level' < size => Cut(Room) = LineLen
  BY <1>3 DEF Cut
<1>10. LinesInv'
  <2>1. level' < size => kept' = [kept EXCEPT ![s] = LineLen]
    BY <1>5, <1>9
  <2>2. \A i \in Slots : i < s + 1 => i < s \/ i = s
    BY <1>1 DEF Slots
  <2>3. level' < size => \A i \in asked : i < s' => kept'[i] = LineLen
    BY <1>1, <1>2, <1>3, <2>1, <2>2 DEF LinesInv, TypeOK
  <2>4. \A i \in Slots : i >= s + 1 => i # s /\ i >= s
    BY <1>1 DEF Slots
  <2>5. \A i \in Slots : i >= s' => kept'[i] = 0
    BY <1>1, <1>2, <1>5, <2>4 DEF LinesInv, TypeOK
  <2> QED BY <2>3, <2>5 DEF PrintLine, LinesInv
<1> QED BY <1>7, <1>8, <1>10

\* A line is lost behind one that was cut: the level comes down to the size at
\* most, where a further line is refused with EFBIG.
LEMMA RefusedStep == SafetyInv /\ PrintRefused => SafetyInv'
<1> SUFFICES ASSUME SafetyInv, PrintRefused PROVE SafetyInv'
  OBVIOUS
<1> USE SizesAssumption DEF SafetyInv
<1>1. /\ s \in Slots /\ s' = s + 1 /\ pc = "scan"
      /\ UNCHANGED <<used, asked, pc, size, kept, end, result>>
  BY DEF PrintRefused, TypeOK
<1>2. /\ level > size /\ level' = level - 1 /\ level \in Nat /\ size \in Nat
      /\ level \in 0..Modulus - 1 /\ LineLen \in Nat
  BY PrintFacts DEF TypeOK
<1>3. level' \in 0..Modulus - 1 /\ level' >= size /\ level' < size + LineLen
  BY <1>2 DEF LevelInv, InsideBuffer
<1>4. s' \in 0..NumSlots /\ \A i \in Slots : i >= s' => i >= s
  BY <1>1 DEF Slots
<1>5. TypeOK' BY <1>1, <1>3, <1>4 DEF TypeOK
<1>6. LevelInv' BY <1>1, <1>3 DEF LevelInv, InsideBuffer
<1>7. ~ (level' < size') BY <1>1, <1>2, <1>3
<1>8. LinesInv' BY <1>1, <1>4, <1>7 DEF LinesInv
<1> QED BY <1>5, <1>6, <1>8

LEMMA Step == SafetyInv /\ [Next]_vars => SafetyInv'
<1> SUFFICES ASSUME SafetyInv, [Next]_vars PROVE SafetyInv'
  OBVIOUS
<1> USE SizesAssumption DEF SafetyInv, TypeOK, LevelInv, InsideBuffer, LinesInv
<1>1. CASE UNCHANGED vars
  BY <1>1 DEF vars
<1>2. ASSUME NEW i \in Slots, Use(i) PROVE SafetyInv'
  BY <1>2 DEF Use
<1>3. ASSUME NEW n \in Sizes, NEW type \in ReqTypes, Request(n, type) PROVE SafetyInv'
  <2>1. n \in Nat /\ 0 * LineLen = 0
    OBVIOUS
  <2>2. /\ size' = n /\ level' = 0 /\ s' = 0 /\ end' = 0 /\ asked' = used
        /\ used' = used /\ kept' = NoLines
        /\ pc' \in {"idle", "scan"} /\ result' \in {"0", "EINVAL"}
    BY <1>3 DEF Request
  <2>3. 0 \in 0..Modulus - 1 /\ 0 \in 0..NumSlots
    BY ModulusPositive
  <2>4. TypeOK'
    BY <2>1, <2>2, <2>3 DEF NoLines
  <2>5. LevelInv' /\ LinesInv'
    BY <2>1, <2>2 DEF NoLines, Slots
  <2> QED BY <2>4, <2>5
<1>4. CASE SkipEmpty
  <2>1. /\ s \in Slots /\ s \notin used /\ s' = s + 1 /\ pc = "scan"
        /\ UNCHANGED <<used, asked, pc, size, level, kept, end, result>>
    BY <1>4 DEF SkipEmpty
  <2>2. s' \in 0..NumSlots
    BY <2>1 DEF Slots
  <2>4. \A i \in asked : i < s' => i < s
    BY <2>1 DEF Slots
  <2>5. \A i \in Slots : i >= s' => i >= s
    BY <2>1 DEF Slots
  <2>6. TypeOK'
    BY <2>1, <2>2
  <2>7. LevelInv'
    BY <2>1
  <2>8. LinesInv'
    BY <2>1, <2>4, <2>5
  <2> QED BY <2>6, <2>7, <2>8
<1>5. CASE PrintLine
  BY <1>5, PrintStep
<1>6. CASE PrintRefused
  BY <1>6, RefusedStep
<1>7. CASE PrintTooBig \/ Done
  BY <1>7 DEF PrintTooBig, Done
<1> QED BY <1>1, <1>2, <1>3, <1>4, <1>5, <1>6, <1>7 DEF Next

(***************************************************************************)
(* Theorems                                                                *)
(***************************************************************************)
\* SafetyInv ties data_level to the slots that were looked at and to what is
\* left of their lines.
THEOREM Safety == Spec => []SafetyInv
BY InitSafe, Step, PTL DEF Spec

\* The variables of ZoclRequest have their types.
THEOREM TypeCorrect == Spec => []TypeOK
<1>1. SafetyInv => TypeOK
  BY DEF SafetyInv
<1> QED BY <1>1, Safety, PTL

\* A reader that finds data_level below data_size has the whole answer.
THEOREM CompleteReply == Spec => []ShortIsComplete
<1>1. SafetyInv => ShortIsComplete
  BY SizesAssumption DEF SafetyInv, TypeOK, LinesInv, ShortIsComplete, Slots
<1> QED BY <1>1, Safety, PTL

\* Whatever the size of the buffer and the number of lines, no byte is printed
\* behind it, and data_level passes its size by less than a line.
THEOREM BufferKept == Spec => []InsideBuffer
<1>1. SafetyInv => InsideBuffer
  BY DEF SafetyInv, LevelInv
<1> QED BY <1>1, Safety, PTL

(***************************************************************************)
(* EFBIG                                                                   *)
(***************************************************************************)
\* The slots in use that were looked at have a line each in data_level.
Before == {i \in used : i < s}

CountInv ==
  /\ level <= Cardinality(Before) * LineLen
  /\ TooBigTrue

LEMMA Finite ==
  ASSUME TypeOK, NEW S \in SUBSET Slots
  PROVE  IsFiniteSet(S) /\ Cardinality(S) \in Nat
<1>1. IsFiniteSet(Slots)
  BY SizesAssumption, FS_Interval DEF Slots
<1> QED BY <1>1, FS_Subset, FS_CardinalityType

\* A set that gains elements does not lose lines.
LEMMA MoreLines ==
  ASSUME TypeOK, NEW S \in SUBSET Slots, NEW T \in SUBSET S
  PROVE  Cardinality(T) * LineLen <= Cardinality(S) * LineLen
<1>1. T \in SUBSET Slots OBVIOUS
<1>2. Cardinality(T) <= Cardinality(S) BY Finite, FS_Subset
<1>3. Cardinality(T) \in Nat /\ Cardinality(S) \in Nat BY <1>1, Finite
<1> QED BY <1>2, <1>3, TimesMonotone, SizesAssumption

\* The line of one more slot
LEMMA OneMoreLine ==
  ASSUME TypeOK, NEW S \in SUBSET Slots, NEW i \in Slots, i \notin S
  PROVE  Cardinality(S \cup {i}) * LineLen = Cardinality(S) * LineLen + LineLen
<1>1. IsFiniteSet(S) /\ Cardinality(S) \in Nat BY Finite
<1>2. Cardinality(S \cup {i}) = Cardinality(S) + 1 BY <1>1, FS_AddElement
<1> QED BY <1>1, <1>2, TimesNext, SizesAssumption

LEMMA InitCount == Init => CountInv
<1> SUFFICES ASSUME Init PROVE CountInv OBVIOUS
<1>1. Before = {} /\ level = 0 /\ result = "0" BY DEF Init, Before
<1>2. Cardinality({}) = 0 BY FS_EmptySet
<1>3. 0 * LineLen = 0 BY SizesAssumption
<1> QED BY <1>1, <1>2, <1>3 DEF CountInv, TooBigTrue

LEMMA StepCount == SafetyInv /\ CountInv /\ [Next]_vars => CountInv'
<1> SUFFICES ASSUME SafetyInv, CountInv, [Next]_vars PROVE CountInv' OBVIOUS
<1>t. /\ TypeOK /\ TypeOK'
      /\ used \in SUBSET Slots /\ Before \in SUBSET Slots /\ s \in Nat
      /\ LineLen \in Nat \ {0} /\ level \in Nat /\ size \in Nat
  BY Step, SizesAssumption DEF SafetyInv, TypeOK, Before
<1>1. CASE UNCHANGED vars
  BY <1>1 DEF vars, CountInv, TooBigTrue, Before
<1>2. ASSUME NEW i \in Slots, Use(i) PROVE CountInv'
  <2>1. used \in SUBSET used' /\ used' \in SUBSET Slots
        /\ UNCHANGED <<size, level, s, result>>
    BY <1>t, <1>2 DEF Use
  <2>2. Before \in SUBSET Before' /\ Before' \in SUBSET Slots
    BY <2>1 DEF Before
  <2>3. Cardinality(Before) * LineLen <= Cardinality(Before') * LineLen
    BY <1>t, <2>2, MoreLines
  <2>4. level' <= Cardinality(Before') * LineLen
    <3>1. Cardinality(Before) \in Nat /\ Cardinality(Before') \in Nat
      BY <1>t, <2>2, Finite
    <3>2. Cardinality(Before) * LineLen \in Nat /\ Cardinality(Before') * LineLen \in Nat
      BY <1>t, <3>1
    <3> QED BY <1>t, <2>1, <2>3, <3>2 DEF CountInv
  <2>5. TooBigTrue'
    <3> SUFFICES ASSUME result = "EFBIG" PROVE size < LineLen * Cardinality(used')
      BY <2>1 DEF TooBigTrue
    <3>1. Cardinality(used) \in Nat /\ Cardinality(used') \in Nat
      BY <1>t, <2>1, Finite
    <3>2. size < LineLen * Cardinality(used)
      BY DEF CountInv, TooBigTrue
    <3> DEFINE a == Cardinality(used)
               b == Cardinality(used')
    <3>3. a * LineLen <= b * LineLen
      BY <1>t, <2>1, MoreLines
    <3> HIDE DEF a, b
    <3>4. a * LineLen = LineLen * a /\ b * LineLen = LineLen * b
          /\ LineLen * a \in Nat /\ LineLen * b \in Nat
      BY <1>t, <3>1 DEF a, b
    <3> QED BY <1>t, <3>2, <3>3, <3>4 DEF a, b
  <2> QED BY <2>4, <2>5 DEF CountInv
<1>3. ASSUME NEW n \in Sizes, NEW type \in ReqTypes, Request(n, type) PROVE CountInv'
  <2>1. level' = 0 /\ result' # "EFBIG" /\ used' = used
    BY <1>3 DEF Request
  <2>2. Before' \in SUBSET Slots BY <1>t, <2>1 DEF Before
  <2>3. Cardinality(Before') \in Nat BY <1>t, <2>2, Finite
  <2>4. 0 <= Cardinality(Before') * LineLen BY <1>t, <2>3
  <2> QED BY <2>1, <2>4 DEF CountInv, TooBigTrue
<1>4. CASE SkipEmpty
  <2>1. s' = s + 1 /\ s \notin used /\ UNCHANGED <<used, size, level, result>>
    BY <1>4 DEF SkipEmpty
  <2>2. Before' = Before
    <3>1. \A i \in used : i < s + 1 <=> i < s
      BY <1>t, <2>1 DEF Slots
    <3> QED BY <2>1, <3>1 DEF Before
  <2> QED BY <2>1, <2>2 DEF CountInv, TooBigTrue
<1>5. CASE PrintLine
  <2>1. s \in Slots /\ pc = "scan" /\ s \in used
    BY <1>5 DEF PrintLine, SafetyInv, TypeOK
  <2>2. level' = level + LineLen /\ s' = s + 1 /\ UNCHANGED <<used, size, result>>
    BY <1>5, PrintFacts DEF PrintLine
  <2>3. Before' = Before \cup {s} /\ s \notin Before
    <3>1. \A i \in used : i < s + 1 <=> i < s \/ i = s
      BY <1>t DEF Slots
    <3>2. ~(s < s) BY <1>t
    <3>3. Before' = Before \cup {s}
      BY <2>1, <2>2, <3>1 DEF Before
    <3> QED BY <3>2, <3>3 DEF Before
  <2>4. Cardinality(Before') * LineLen = Cardinality(Before) * LineLen + LineLen
    BY <1>t, <2>1, <2>3, OneMoreLine
  <2>5. level' <= Cardinality(Before') * LineLen
    <3> DEFINE a == Cardinality(Before) * LineLen
    <3>1. a \in Nat BY <1>t, Finite
    <3>2. level <= a BY DEF CountInv
    <3> HIDE DEF a
    <3>3. level + LineLen <= a + LineLen BY <1>t, <3>1, <3>2
    <3> QED BY <2>2, <2>4, <3>3 DEF a
  <2> QED BY <2>2, <2>5 DEF CountInv, TooBigTrue
<1>6. CASE PrintTooBig
  <2>1. s \in Slots /\ pc = "scan" /\ s \in used
    BY <1>6 DEF PrintTooBig, SafetyInv, TypeOK
  <2>2. UNCHANGED <<used, size, level, s>>
    BY <1>6 DEF PrintTooBig
  <2>3. size = level
    BY <1>6, PrintFacts
  <2>4. s \notin Before /\ Before \cup {s} \in SUBSET used
    BY <1>t, <2>1 DEF Before
  <2>5. Cardinality(Before \cup {s}) * LineLen = Cardinality(Before) * LineLen + LineLen
    BY <1>t, <2>1, <2>4, OneMoreLine
  <2>6. Cardinality(Before \cup {s}) * LineLen <= Cardinality(used) * LineLen
    BY <1>t, <2>4, MoreLines
  <2>7. size < LineLen * Cardinality(used)
    <3> DEFINE a == Cardinality(Before)
               b == Cardinality(used)
    <3>1. a \in Nat /\ b \in Nat
      BY <1>t, Finite
    <3>2. a * LineLen + LineLen <= b * LineLen /\ level <= a * LineLen
      BY <2>5, <2>6 DEF CountInv
    <3> HIDE DEF a, b
    <3>3. b * LineLen = LineLen * b /\ a * LineLen \in Nat /\ LineLen * b \in Nat
      BY <1>t, <3>1
    <3>4. size < LineLen * b
      BY <1>t, <2>3, <3>2, <3>3
    <3> QED BY <3>4 DEF b
  <2>8. Before' = Before BY <2>2 DEF Before
  <2> QED BY <2>2, <2>7, <2>8 DEF CountInv, TooBigTrue
<1>7. CASE Done
  BY <1>7 DEF Done, CountInv, TooBigTrue, Before
<1>8. CASE PrintRefused
  <2>1. /\ level' = level - 1 /\ s' = s + 1 /\ s \in Slots
        /\ UNCHANGED <<used, size, result>>
    BY <1>8, PrintFacts DEF PrintRefused, SafetyInv, TypeOK
  <2>2. Before \in SUBSET Before' /\ Before' \in SUBSET Slots
    <3>1. used' = used /\ \A i \in used : i \in Nat BY <1>t, <2>1 DEF Slots
    <3>2. \A i \in used : i < s => i < s + 1 BY <1>t, <3>1
    <3> QED BY <1>t, <2>1, <3>1, <3>2 DEF Before
  <2>3. Cardinality(Before) * LineLen <= Cardinality(Before') * LineLen
    BY <1>t, <2>2, MoreLines
  <2> DEFINE a == Cardinality(Before) * LineLen
             b == Cardinality(Before') * LineLen
  <2>4. a \in Nat /\ b \in Nat
    <3>1. Cardinality(Before) \in Nat /\ Cardinality(Before') \in Nat
      BY <1>t, <2>2, Finite
    <3> QED BY <1>t, <3>1
  <2>5. level <= a BY DEF CountInv
  <2> HIDE DEF a, b
  <2>6. a <= b BY <2>3 DEF a, b
  <2>7. level' <= b BY <1>t, <2>1, <2>4, <2>5, <2>6
  <2> QED BY <2>1, <2>7 DEF CountInv, TooBigTrue, b
<1> QED BY <1>1, <1>2, <1>3, <1>4, <1>5, <1>6, <1>7, <1>8 DEF Next

\* EFBIG means that the buffer is smaller than the lines of the slots in use,
\* whichever slots were taken into use meanwhile.
THEOREM TooBigIsTrue == Spec => []TooBigTrue
<1>1. SafetyInv /\ CountInv /\ [Next]_vars => (SafetyInv /\ CountInv)'
  BY Step, StepCount
<1>2. Init => SafetyInv /\ CountInv
  BY InitSafe, InitCount
<1>3. CountInv => TooBigTrue BY DEF CountInv
<1> QED BY <1>1, <1>2, <1>3, PTL DEF Spec
=============================================================================
