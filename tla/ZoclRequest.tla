---------------------------- MODULE ZoclRequest ----------------------------
(***************************************************************************)
(* The requests of the zocl device (rtems/zocl/zocl-requests.c): a client  *)
(* hands in a buffer and the handler prints one line into it for each slot *)
(* that is in use, while other clients take slots into use.                *)
(*                                                                         *)
(* All that is kept of a line is how many of its characters are in the     *)
(* buffer.  The vsnprintf of the target is newlib's, which refuses a       *)
(* length above INT_MAX: it writes nothing and returns -1.                 *)
(***************************************************************************)
EXTENDS Integers, FiniteSets

CONSTANTS
  NumSlots,  \* ZOCL_MAX_SLOTS
  LineLen,   \* the length of "%d %s\n" with a UUID
  Sizes,     \* the data_size of a client's request
  Modulus,   \* 2^32, for data_level is a uint32_t
  IntMax     \* INT_MAX

Slots == 0..NumSlots - 1
ReqTypes == {"xclbinid", "kds_custat_raw", "unknown"}

ASSUME SizesAssumption ==
  /\ NumSlots \in Nat \ {0}
  /\ LineLen \in Nat \ {0}
  /\ IntMax \in Nat
  /\ Modulus \in Nat
  /\ IntMax + LineLen < Modulus
  /\ Sizes \subseteq 0..IntMax

VARIABLES
  used,    \* the slots whose slot_idx is set
  asked,   \* those that were in use when the request came in
  pc,      \* where the request is
  size,    \* its data_size
  level,   \* its data_level
  s,       \* the slot zocl_xclbinid is at
  kept,    \* the characters of each slot's line that are in the buffer
  end,     \* history: the place behind the last byte that was printed
  result   \* what zocl_request returns

vars == <<used, asked, pc, size, level, s, kept, end, result>>

NoLines == [i \in Slots |-> 0]

Init ==
  /\ used = {}
  /\ asked = {}
  /\ pc = "idle"
  /\ size = 0
  /\ level = 0
  /\ s = 0
  /\ kept = NoLines
  /\ end = 0
  /\ result = "0"

\* zocl_req_length
Room == (size - level) % Modulus

\* What vsnprintf writes into room for n characters: n - 1 of them and a NUL.
Cut(n) == IF n > LineLen THEN LineLen ELSE n - 1

(***************************************************************************)
(* Plausible mistakes in the code below, each of them caught by a property.*)
(***************************************************************************)
\* The data of an earlier request is not cleared.
RequestKeepsData(n, type) ==
  /\ pc = "idle"
  /\ size' = n
  /\ level' = 0
  /\ end' = 0
  /\ s' = 0
  /\ asked' = used
  /\ pc' = IF type = "xclbinid" THEN "scan" ELSE "idle"
  /\ result' = IF type = "unknown" THEN "EINVAL" ELSE "0"
  /\ UNCHANGED <<used, kept>>

\* Every slot is taken to be empty.
SkipEmptyAny ==
  /\ pc = "scan"
  /\ s \in Slots
  /\ s' = s + 1
  /\ UNCHANGED <<used, asked, pc, size, level, kept, end, result>>

\* vsprintf, which writes the whole line and a NUL.
PrintLineUnbounded ==
  /\ pc = "scan"
  /\ s \in used
  /\ Room \in 1..IntMax
  /\ kept' = [kept EXCEPT ![s] = LineLen]
  /\ end' = level + LineLen + 1
  /\ level' = (level + LineLen) % Modulus
  /\ s' = s + 1
  /\ UNCHANGED <<used, asked, pc, size, result>>

\* A buffer with room for the line but not for the NUL is given up.
PrintTooBigEarly ==
  /\ pc = "scan"
  /\ s \in used
  /\ Room <= LineLen
  /\ result' = "EFBIG"
  /\ pc' = "idle"
  /\ UNCHANGED <<used, asked, size, level, s, kept, end>>

(***************************************************************************)
(* zocl_request and zocl_xclbinid                                          *)
(***************************************************************************)
\* zocl_load_axlf sets slot_idx, and no call of the driver unsets it.
Use(i) ==
  /\ i \notin used
  /\ used' = used \cup {i}
  /\ UNCHANGED <<asked, pc, size, level, s, kept, end, result>>

\* zocl_request: memset and the search for the handler.
Request(n, type) ==
  /\ pc = "idle"
  /\ size' = n
  /\ level' = 0
  /\ kept' = NoLines
  /\ end' = 0
  /\ s' = 0
  /\ asked' = used
  /\ pc' = IF type = "xclbinid" THEN "scan" ELSE "idle"
  /\ result' = IF type = "unknown" THEN "EINVAL" ELSE "0"
  /\ UNCHANGED used

SkipEmpty ==
  /\ pc = "scan"
  /\ s \in Slots \ used
  /\ s' = s + 1
  /\ UNCHANGED <<used, asked, pc, size, level, kept, end, result>>

\* zocl_req_print adds the length of the whole line to data_level, as vsnprintf
\* returns it, although the line may have been cut.
PrintLine ==
  /\ pc = "scan"
  /\ s \in used
  /\ Room \in 1..IntMax
  /\ kept' = [kept EXCEPT ![s] = Cut(Room)]
  /\ end' = level + Cut(Room) + 1
  /\ level' = (level + LineLen) % Modulus
  /\ s' = s + 1
  /\ UNCHANGED <<used, asked, pc, size, result>>

\* Behind a line that was cut the length has wrapped.  vsnprintf returns -1,
\* which is added to data_level and is not the 0 that the caller looks for.
PrintRefused ==
  /\ pc = "scan"
  /\ s \in used
  /\ Room > IntMax
  /\ level' = (level - 1) % Modulus
  /\ s' = s + 1
  /\ UNCHANGED <<used, asked, pc, size, kept, end, result>>

PrintTooBig ==
  /\ pc = "scan"
  /\ s \in used
  /\ Room = 0
  /\ result' = "EFBIG"
  /\ pc' = "idle"
  /\ UNCHANGED <<used, asked, size, level, s, kept, end>>

Done ==
  /\ pc = "scan"
  /\ s = NumSlots
  /\ pc' = "idle"
  /\ UNCHANGED <<used, asked, size, level, s, kept, end, result>>

Next ==
  \/ \E i \in Slots : Use(i)
  \/ \E n \in Sizes, type \in ReqTypes : Request(n, type)
  \/ SkipEmpty \/ PrintLine \/ PrintRefused \/ PrintTooBig \/ Done

Spec == Init /\ [][Next]_vars

(***************************************************************************)
(* Properties                                                              *)
(***************************************************************************)
TypeOK ==
  /\ used \subseteq Slots
  /\ asked \subseteq Slots
  /\ pc \in {"idle", "scan"}
  /\ size \in Sizes \cup {0}
  /\ level \in 0..Modulus - 1
  /\ s \in 0..NumSlots
  /\ kept \in [Slots -> 0..LineLen]
  /\ end \in Nat
  /\ result \in {"0", "EFBIG", "EINVAL"}

\* An answer that succeeded and left room in the buffer has the whole line of
\* each slot that was in use when the client asked.
ShortIsComplete ==
  pc = "idle" /\ result = "0" /\ s = NumSlots /\ level < size =>
    \A i \in asked : kept[i] = LineLen

\* EFBIG is returned only if the lines of the slots do not fit.
TooBigTrue ==
  result = "EFBIG" => size < LineLen * Cardinality(used)

\* Nothing is printed behind the buffer although data_level passes its size:
\* by less than a line, however many slots follow, so that the length that has
\* wrapped is one that vsnprintf refuses.
InsideBuffer ==
  /\ end <= size
  /\ level < size + LineLen

(***************************************************************************)
(* The inductive invariant behind these.                                   *)
(***************************************************************************)
LevelInv ==
  /\ pc = "scan" => size \in Sizes
  /\ InsideBuffer

LinesInv ==
  /\ level < size => \A i \in asked : i < s => kept[i] = LineLen
  /\ asked \subseteq used
  /\ \A i \in Slots : i >= s => kept[i] = 0

SafetyInv ==
  /\ TypeOK
  /\ LevelInv
  /\ LinesInv
=============================================================================
