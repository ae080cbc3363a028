-------------------------- MODULE PmDriver_proofs --------------------------
(***************************************************************************)
(* Proofs about the two sides of the PM driver below the commands: PmCall, *)
(* for words, addresses and answers of any size, and PmImage, for headers  *)
(* and words of any size.                                                  *)
(***************************************************************************)
EXTENDS PmCall, PmImage, SequenceTheorems, NaturalsInduction, WellFoundedInduction, TLAPS

(***************************************************************************)
(* Arithmetic                                                              *)
(***************************************************************************)
\* The equation of quotient and remainder
LEMMA DivMod ==
  ASSUME NEW B \in Nat \ {0}, NEW n \in Nat
  PROVE  /\ n \div B \in Nat /\ n % B \in 0..B - 1
         /\ n = B * (n \div B) + (n % B)
<1>1. n % B \in 0..B - 1 OBVIOUS
<1>2. n \div B \in Int OBVIOUS
<1>3. n = B * (n \div B) + (n % B) OBVIOUS
<1>4. n \div B >= 0
  <2> DEFINE q == n \div B
             r == n % B
  <2> HIDE DEF q, r
  <2>1. SUFFICES ASSUME q <= -1 PROVE FALSE BY <1>2 DEF q
  <2>2. B * q <= -B BY <1>2, <2>1 DEF q
  <2>3. n = B * q + r /\ r < B /\ B * q \in Int /\ r \in Int BY <1>1, <1>2, <1>3 DEF q, r
  <2> QED BY <2>2, <2>3
<1> QED BY <1>1, <1>2, <1>3, <1>4

LEMMA TimesKeepsOrder ==
  ASSUME NEW B \in Nat, NEW p \in Nat, NEW q \in Nat, p <= q
  PROVE  B * p <= B * q
OBVIOUS

\* The quotient and the remainder are determined by their equation
LEMMA QuotientUnique ==
  ASSUME NEW B \in Nat \ {0}, NEW p \in Nat, NEW q \in Nat,
         NEW r \in 0..B - 1, NEW t \in 0..B - 1, B * p + r = B * q + t
  PROVE  p = q /\ r = t
<1>1. CASE p < q
  <2>1. B * (p + 1) <= B * q BY <1>1, TimesKeepsOrder
  <2>2. B * (p + 1) = B * p + B OBVIOUS
  <2>3. B * p \in Nat /\ B * q \in Nat OBVIOUS
  <2> DEFINE bp == B * p
             bq == B * q
  <2> HIDE DEF bp, bq
  <2> QED BY <2>1, <2>2, <2>3 DEF bp, bq
<1>2. CASE q < p
  <2>1. B * (q + 1) <= B * p BY <1>2, TimesKeepsOrder
  <2>2. B * (q + 1) = B * q + B OBVIOUS
  <2>3. B * p \in Nat /\ B * q \in Nat OBVIOUS
  <2> QED BY <2>1, <2>2, <2>3
<1>3. CASE p = q
  BY <1>3
<1> QED BY <1>1, <1>2, <1>3

LEMMA Quotient ==
  ASSUME NEW B \in Nat \ {0}, NEW q \in Nat, NEW r \in 0..B - 1
  PROVE  (B * q + r) \div B = q /\ (B * q + r) % B = r
<1> DEFINE n == B * q + r
<1>1. n \in Nat OBVIOUS
<1>2. n \div B \in Nat /\ n % B \in 0..B - 1 /\ n = B * (n \div B) + (n % B)
  BY <1>1, DivMod
<1> QED BY <1>2, QuotientUnique

LEMMA SmallMod ==
  ASSUME NEW B \in Nat \ {0}, NEW q \in 0..B - 1
  PROVE  q % B = q
<1>1. q = B * 0 + q /\ 0 \in Nat /\ (B * 0 + q) % B = q BY Quotient
<1> QED BY <1>1

\* A shift by two halves is a shift by the whole.
LEMMA DivTwice ==
  ASSUME NEW h \in Nat \ {0}, NEW u \in Nat
  PROVE  (u \div h) \div h = u \div (h * h)
<1> DEFINE q == u \div h
           r == u % h
           p == q \div h
           t == q % h
<1>1. q \in Nat /\ r \in 0..h - 1 /\ u = h * q + r BY DivMod
<1>2. p \in Nat /\ t \in 0..h - 1 /\ q = h * p + t BY <1>1, DivMod
<1> HIDE DEF q, r, p, t
<1>3. u = (h * h) * p + (h * t + r)
  BY <1>1, <1>2
<1>4. h * t + r \in 0..h * h - 1
  <2>1. h * t <= h * (h - 1) BY <1>2, TimesKeepsOrder
  <2>2. h * (h - 1) = h * h - h OBVIOUS
  <2>3. h * t \in Nat /\ h * h \in Nat BY <1>2
  <2> QED BY <1>1, <2>1, <2>2, <2>3
<1>5. h * h \in Nat \ {0} OBVIOUS
<1>6. u \div (h * h) = p BY <1>2, <1>3, <1>4, <1>5, Quotient
<1> QED BY <1>6 DEF p, q

(***************************************************************************)
(* The registers of a call                                                 *)
(***************************************************************************)
LEMMA Sizes16 == /\ Base \in Nat \ {0} /\ Half \in Nat \ {0} /\ Base = Half * Half
                 /\ 0 \in Word /\ Minus1 \in Word /\ NotSupported \in Word
BY BaseAssumption, ValuesAssumption DEF Word, Minus1, NotSupported

LEMMA LowerWord ==
  ASSUME NEW u \in Nat
  PROVE  Lower32(u) \in Word /\ Upper32(u) \in Word /\ u % Base \in Word
<1>1. Base \in Nat \ {0} /\ Half \in Nat \ {0} BY Sizes16
<1>2. (u \div Half) \div Half \in Nat BY <1>1, DivMod
<1> QED BY <1>1, <1>2, DivMod DEF Lower32, Upper32, Word

LEMMA RegisterNat == ASSUME NEW u \in Register PROVE u \in Nat
BY Sizes16 DEF Register

\* The two halves of an address make up the address.
LEMMA Halves ==
  ASSUME NEW u \in Register
  PROVE  Lower32(u) + Base * Upper32(u) = u
<1>1. Base \in Nat \ {0} /\ Half \in Nat \ {0} /\ u \in Nat
  BY Sizes16, RegisterNat
<1>2. (u \div Half) \div Half = u \div Base
  BY <1>1, DivTwice, Sizes16
<1> DEFINE q == u \div Base
           r == u % Base
<1>3. q \in Nat /\ r \in 0..Base - 1 /\ u = Base * q + r
  BY <1>1, DivMod
<1>4. q < Base
  <2>1. SUFFICES ASSUME Base <= q PROVE FALSE BY <1>1, <1>3
  <2>2. Base * Base <= Base * q BY <1>1, <1>3, <2>1, TimesKeepsOrder
  <2>3. u < Base * Base /\ Base * Base \in Nat BY <1>1 DEF Register
  <2>4. Base * q <= u /\ Base * q \in Nat BY <1>1, <1>3
  <2> HIDE DEF q, r
  <2> QED BY <1>1, <2>2, <2>3, <2>4
<1>5. Upper32(u) = q
  <2>1. q \in 0..Base - 1 BY <1>1, <1>3, <1>4
  <2> HIDE DEF q
  <2>2. q % Base = q BY <1>1, <2>1, SmallMod
  <2> QED BY <1>2, <2>2 DEF Upper32, q
<1> QED BY <1>1, <1>3, <1>5 DEF Lower32

\* Two words in a register
LEMMA Packed ==
  ASSUME NEW a \in Word, NEW b \in Word
  PROVE  /\ b * Base + a \in Register
         /\ (b * Base + a) % Base = a
         /\ ((b * Base + a) \div Base) % Base = b
<1>1. Base \in Nat \ {0} /\ a \in 0..Base - 1 /\ b \in 0..Base - 1
  BY Sizes16 DEF Word
<1>2. b * Base = Base * b /\ Base * b \in Nat BY <1>1
<1>3. (Base * b + a) \div Base = b /\ (Base * b + a) % Base = a
  BY <1>1, Quotient
<1>4. b % Base = b BY <1>1, SmallMod
<1>5. Base * b + a \in Register
  <2>1. Base * b <= Base * (Base - 1) BY <1>1, TimesKeepsOrder
  <2>2. Base * (Base - 1) = Base * Base - Base BY <1>1
  <2>3. Base * Base \in Nat BY <1>1
  <2> QED BY <1>1, <1>2, <2>1, <2>2, <2>3 DEF Register
<1> QED BY <1>2, <1>3, <1>4, <1>5

\* The firmware finds each argument where pm_invoke_sip put it.
LEMMA ArgsArrive ==
  ASSUME NEW a1 \in Word, NEW a2 \in Word, NEW a3 \in Word, NEW a4 \in Word,
         NEW regs, regs = <<a2 * Base + a1, a4 * Base + a3, 0>>,
         x'.arg = regs
  PROVE  /\ \A i \in 1..3 : x'.arg[i] \in Register
         /\ ArgWord(0)' = a1 /\ ArgWord(1)' = a2 /\ ArgWord(2)' = a3 /\ ArgWord(3)' = a4
<1> DEFINE p == a2 * Base + a1
           q == a4 * Base + a3
<1>1. p \in Register /\ p % Base = a1 /\ (p \div Base) % Base = a2 BY Packed
<1>2. q \in Register /\ q % Base = a3 /\ (q \div Base) % Base = a4 BY Packed
<1>3. x'.arg[1] = p /\ x'.arg[2] = q /\ x'.arg[3] = 0 OBVIOUS
<1> HIDE DEF p, q
<1>4. 0 \in Register BY Sizes16 DEF Register
<1>5. \A i \in 1..3 : x'.arg[i] \in Register
  <2>1. \A i \in 1..3 : i = 1 \/ i = 2 \/ i = 3 OBVIOUS
  <2> QED BY <1>1, <1>2, <1>3, <1>4, <2>1
<1>6. p \div 1 = p /\ q \div 1 = q BY <1>1, <1>2, RegisterNat
<1>7. ArgWord(0)' = (p \div 1) % Base /\ ArgWord(1)' = (p \div Base) % Base
  BY <1>3 DEF ArgWord
<1>8. ArgWord(2)' = (q \div 1) % Base /\ ArgWord(3)' = (q \div Base) % Base
  BY <1>3 DEF ArgWord
<1> QED BY <1>1, <1>2, <1>5, <1>6, <1>7, <1>8

(***************************************************************************)
(* The three tables of the APIs                                            *)
(***************************************************************************)
\* The calls that the driver makes
CallNames == {"PM_FPGA_LOAD", "PM_LOAD_PDI", "PM_GET_API_VERSION", "PM_GET_CHIPID",
              "PM_FPGA_GET_STATUS", "PM_FEATURE_CHECK"}

\* The numbers behind 65, which are not those of pm_api_id plus one
LateIds == <<1384, 1793, 1797, 1798, 2561, 2562, 2563, 2564, 2817, 2818, 2819, 2820, 2821>>

\* The rows of the tables, and the numbers that a call may have
Rows == 1..78
Numbers == 1..2821

Early == 1..65
Late == 1..13

LEMMA LateIdsSeq == LateIds \in Seq(Nat) /\ Len(LateIds) = 13
BY DEF LateIds

LEMMA LateIdsHigh == \A j \in Late : LateIds[j] \in Nat /\ LateIds[j] > 65
BY DEF LateIds, Late

LEMMA LateIdsNumbers == \A j \in Late : LateIds[j] \in Numbers
BY DEF LateIds, Late, Numbers

LEMMA LateIdsOnce == \A j \in Late : LateIds[j] = 1793 <=> j = 2
BY DEF LateIds, Late

LEMMA ConcatRows ==
  ASSUME NEW s \in Seq(Nat), NEW t \in Seq(Nat)
  PROVE  /\ \A i \in 1..Len(s) : (s \o t)[i] = s[i]
         /\ \A j \in 1..Len(t) : (s \o t)[Len(s) + j] = t[j]
<1>1. \A i \in 1..Len(s) + Len(t) :
        (s \o t)[i] = IF i <= Len(s) THEN s[i] ELSE t[i - Len(s)]
  OBVIOUS
<1>2. ASSUME NEW i \in 1..Len(s) PROVE (s \o t)[i] = s[i]
  BY <1>1
<1>3. ASSUME NEW j \in 1..Len(t) PROVE (s \o t)[Len(s) + j] = t[j]
  <2>1. /\ Len(s) + j \in 1..Len(s) + Len(t) /\ ~(Len(s) + j <= Len(s))
        /\ (Len(s) + j) - Len(s) = j
    OBVIOUS
  <2> QED BY <1>1, <2>1
<1> QED BY <1>2, <1>3

LEMMA SipTable ==
  /\ \A i \in Early : SipApiId[i] = i
  /\ \A j \in Late : SipApiId[65 + j] = LateIds[j]
<1> DEFINE first == [i \in 1..65 |-> i]
           late == LateIds
<1>1. first \in Seq(Nat) /\ Len(first) = 65
  <2>1. first \in [1..65 -> Nat] OBVIOUS
  <2> QED BY <2>1, SeqDef
<1>2. \A i \in 1..65 : first[i] = i OBVIOUS
<1>3. SipApiId = first \o late BY DEF SipApiId, LateIds
<1>4. late \in Seq(Nat) /\ Len(late) = 13 BY LateIdsSeq
<1> HIDE DEF first, late
<1>5. /\ \A i \in 1..Len(first) : (first \o late)[i] = first[i]
      /\ \A j \in 1..Len(late) : (first \o late)[Len(first) + j] = late[j]
  <2>1. first \in Seq(Nat) /\ late \in Seq(Nat) BY <1>1, <1>4
  <2> QED BY <2>1, ConcatRows
<1>6. Early = 1..Len(first) /\ Late = 1..Len(late) /\ Len(first) = 65
  BY <1>1, <1>4 DEF Early, Late
<1>7. \A i \in Early : first[i] = i BY <1>2 DEF Early
<1> QED BY <1>3, <1>5, <1>6, <1>7, Zenon DEF late

\* The rows of pm_api_id and of the labels
LEMMA ApiTable ==
  /\ ApiMax = 78 /\ Labels = PmApi
  /\ \A i \in Rows : PmApi[i] = "PM_GET_API_VERSION" <=> i = 1
  /\ \A i \in Rows : PmApi[i] = "PM_FPGA_LOAD" <=> i = 22
  /\ \A i \in Rows : PmApi[i] = "PM_FPGA_GET_STATUS" <=> i = 23
  /\ \A i \in Rows : PmApi[i] = "PM_GET_CHIPID" <=> i = 24
  /\ \A i \in Rows : PmApi[i] = "PM_FEATURE_CHECK" <=> i = 63
  /\ \A i \in Rows : PmApi[i] = "PM_LOAD_PDI" <=> i = 67
<1>1. ApiMax = 78 BY DEF ApiMax, PmApi
<1>2. Labels = PmApi BY DEF Labels, PmApi
<1>3. \A i \in Rows : PmApi[i] = "PM_GET_API_VERSION" <=> i = 1 BY DEF PmApi, Rows
<1>4. \A i \in Rows : PmApi[i] = "PM_FPGA_LOAD" <=> i = 22 BY DEF PmApi, Rows
<1>5. \A i \in Rows : PmApi[i] = "PM_FPGA_GET_STATUS" <=> i = 23 BY DEF PmApi, Rows
<1>6. \A i \in Rows : PmApi[i] = "PM_GET_CHIPID" <=> i = 24 BY DEF PmApi, Rows
<1>7. \A i \in Rows : PmApi[i] = "PM_FEATURE_CHECK" <=> i = 63 BY DEF PmApi, Rows
<1>8. \A i \in Rows : PmApi[i] = "PM_LOAD_PDI" <=> i = 67 BY DEF PmApi, Rows
<1> QED BY <1>1, <1>2, <1>3, <1>4, <1>5, <1>6, <1>7, <1>8

\* An API is named once.
LEMMA ApiOf ==
  ASSUME NEW name, NEW n \in Rows, \A i \in Rows : PmApi[i] = name <=> i = n
  PROVE  Api(name) = n - 1
<1>1. n - 1 \in 0..ApiMax - 1 /\ PmApi[(n - 1) + 1] = name BY ApiTable DEF Rows
<1>2. \A i \in 0..ApiMax - 1 : PmApi[i + 1] = name => i = n - 1 BY ApiTable DEF Rows
<1> QED BY <1>1, <1>2 DEF Api

LEMMA RowCases == \A i \in Rows : i \in Early \/ \E j \in Late : i = 65 + j
<1> SUFFICES ASSUME NEW i \in Rows, i > 65 PROVE \E j \in Late : i = 65 + j BY DEF Rows, Early
<1>1. i - 65 \in Late /\ i = 65 + (i - 65) BY DEF Rows, Late
<1> QED BY <1>1

LEMMA SipNumbers == \A i \in Rows : SipApiId[i] \in Numbers
<1>1. \A i \in Early : i \in Numbers BY DEF Early, Numbers
<1>2. \A i \in Early : SipApiId[i] \in Numbers BY <1>1, SipTable, Zenon
<1>3. \A j \in Late : SipApiId[65 + j] \in Numbers BY LateIdsNumbers, SipTable, Zenon
<1>4. \A i \in Rows : i \in Early \/ \E j \in Late : i = 65 + j BY RowCases
<1> QED BY <1>2, <1>3, <1>4, Zenon

LEMMA SipIdOfRow == \A i \in Rows : SipId(i - 1) = SipApiId[i]
<1> SUFFICES ASSUME NEW i \in Rows PROVE SipId(i - 1) = SipApiId[i] OBVIOUS
<1>1. i - 1 < ApiMax /\ (i - 1) + 1 = i BY ApiTable DEF Rows
<1> QED BY <1>1 DEF SipId

\* An early API and the one behind the gap: no other row has its number.
LEMMA SipOnce ==
  ASSUME NEW n \in Rows, n <= 65 \/ n = 67
  PROVE  \A i \in Rows : SipApiId[i] = SipApiId[n] <=> i = n
<1>1. \A i \in Early : SipApiId[i] = i BY SipTable
<1>2. \A j \in Late : SipApiId[65 + j] = 1793 <=> j = 2
  BY LateIdsOnce, SipTable
<1>5. \A j \in Late : SipApiId[65 + j] \notin Early
  <2>1. \A j \in Late : LateIds[j] \notin Early BY LateIdsHigh DEF Early
  <2> QED BY <2>1, SipTable, Zenon
<1> SUFFICES ASSUME NEW i \in Rows, SipApiId[i] = SipApiId[n] PROVE i = n OBVIOUS
<1>3. CASE n <= 65
  <2>1. SipApiId[n] = n /\ n \in Early BY <1>1, <1>3 DEF Rows, Early
  <2>2. i \in Early
    <3>1. ASSUME NEW j \in Late, i = 65 + j PROVE FALSE BY <1>5, <2>1, <3>1
    <3> QED BY <3>1, RowCases
  <2> QED BY <1>1, <2>1, <2>2
<1>4. CASE n = 67
  <2>1. SipApiId[n] = 1793
    <3>1. 2 \in Late /\ n = 65 + 2 BY <1>4 DEF Late
    <3> QED BY <1>2, <3>1
  <2>2. CASE i \in Early
    <3>1. 1793 \in Early BY <1>1, <2>1, <2>2
    <3> QED BY <3>1 DEF Early
  <2>3. ASSUME NEW j \in Late, i = 65 + j PROVE i = n
    <3>1. j = 2 BY <1>2, <2>1, <2>3
    <3> QED BY <1>4, <2>3, <3>1
  <2> QED BY <2>2, <2>3, RowCases
<1> QED BY <1>3, <1>4

\* The three tables agree about the APIs that the driver calls.
LEMMA CallTables ==
  ASSUME NEW name \in CallNames
  PROVE  /\ SipId(Api(name)) \in Numbers
         /\ \A i \in Rows : SipApiId[i] = SipId(Api(name)) <=> Labels[i] = name
<1>1. \E n \in Rows : (n <= 65 \/ n = 67) /\ \A i \in Rows : PmApi[i] = name <=> i = n
  <2>1. 1 \in Rows /\ 22 \in Rows /\ 23 \in Rows /\ 24 \in Rows /\ 63 \in Rows /\ 67 \in Rows
    BY DEF Rows
  <2> QED BY <2>1, ApiTable DEF CallNames
<1>2. PICK n \in Rows : (n <= 65 \/ n = 67) /\ \A i \in Rows : PmApi[i] = name <=> i = n
  BY <1>1
<1>3. SipId(n - 1) = SipApiId[n] BY SipIdOfRow
<1>4. Api(name) = n - 1 BY <1>2, ApiOf
<1>5. \A i \in Rows : SipApiId[i] = SipApiId[n] <=> i = n BY <1>2, SipOnce
<1>6. SipApiId[n] \in Numbers BY SipNumbers
<1>7. Labels = PmApi BY ApiTable
<1> QED BY <1>2, <1>3, <1>4, <1>5, <1>6, <1>7

(***************************************************************************)
(* The calls                                                               *)
(***************************************************************************)
\* What a call may be about
CallOK == call.name \in CallNames => /\ cpu = "trap"
                                     /\ x.id = FuncId(1, 1, 2, SipId(Api(call.name)))

\* A call of the driver is with the firmware or there is none.
UnderWay == call = NoCall \/ (cpu = "trap" /\ call.name \in CallNames)

\* Each line that has been printed is a row of the tables.
TableRows == {[label |-> Labels[i], id |-> SipApiId[i]] : i \in Rows}

LinesOK ==
  /\ lines \in Seq(TableRows)
  /\ Len(lines) <= ApiMax
  /\ call.name = "PM_FEATURE_CHECK" => Len(lines) < ApiMax

\* The answer to ARCH_FEATURES is asked for with another version than 1.0.
QueriedLate == queried => version # Version10

CallInv ==
  /\ TypeOK /\ UnderWay /\ CallOK /\ LinesOK /\ FirmwareReadsImage
  /\ StatusLost /\ QueriedLate /\ AskedThenNoWorkaround

LEMMA Ids ==
  /\ ArchFeatures \notin Workarounds
  /\ \A n : FuncId(1, 1, 2, n) # ArchFeatures /\ FuncId(1, 1, 2, n) \notin Workarounds
<1>1. \A n : FuncId(1, 1, 2, n).conv = 1 BY DEF FuncId
<1>2. /\ ArchFeatures.conv = 0 /\ ArchFeatures.func = 1 % 65536
      /\ ArchWorkaround1.conv = 0 /\ ArchWorkaround1.func = 32768 % 65536
      /\ ArchWorkaround2.conv = 0 /\ ArchWorkaround2.func = 32767 % 65536
  BY DEF FuncId, ArchFeatures, ArchWorkaround1, ArchWorkaround2
<1>3. 1 % 65536 = 1 /\ 32768 % 65536 = 32768 /\ 32767 % 65536 = 32767
  BY SmallMod
<1>4. ArchFeatures \notin Workarounds BY <1>2, <1>3 DEF Workarounds
<1>5. \A n : FuncId(1, 1, 2, n) \notin {ArchFeatures, ArchWorkaround1, ArchWorkaround2}
  BY <1>1, <1>2
<1> QED BY <1>4, <1>5 DEF Workarounds

LEMMA Names == NoCall.name = "none" /\ "none" \notin CallNames
BY DEF NoCall, CallNames

\* The firmware has a call of the driver.
LEMMA StepInvoke ==
  ASSUME CallInv, NEW name \in CallNames, NEW about, about.name = name,
         NEW a1 \in Word, NEW a2 \in Word, NEW a3 \in Word, NEW a4 \in Word,
         InvokeSip(name, <<a1, a2, a3, a4, 0>>, about),
         name = "PM_FEATURE_CHECK" => Len(lines) < ApiMax,
         name = "PM_LOAD_PDI" => a1 = PdiSrcDdr /\ a2 + Base * a3 = about.addr,
         name = "PM_FPGA_LOAD" => /\ a1 + Base * a2 = about.addr
                                  /\ about.size < Base => a3 = about.size
                                  /\ a4 = about.flags
  PROVE  CallInv'
<1> DEFINE regs == <<a2 * Base + a1, a4 * Base + a3, 0>>
           id == FuncId(1, 1, 2, SipId(Api(name)))
<1>1. /\ Trap(id, regs) /\ call' = about /\ out' = <<>>
      /\ errno' = errno /\ lines' = lines
  BY DEF InvokeSip
<1>2. /\ cpu = "idle" /\ cpu' = "trap" /\ x' = [id |-> id, arg |-> regs]
      /\ ret' = Success /\ queried' = (queried \/ id = ArchFeatures)
      /\ version' = version
  BY <1>1 DEF Trap
<1>3. id # ArchFeatures /\ id \notin Workarounds BY Ids
<1>4. x'.id = id /\ x'.arg = regs BY <1>2
<1> HIDE DEF id
<1>5. /\ \A i \in 1..3 : x'.arg[i] \in Register
      /\ ArgWord(0)' = a1 /\ ArgWord(1)' = a2 /\ ArgWord(2)' = a3 /\ ArgWord(3)' = a4
  BY <1>4, ArgsArrive
<1> HIDE DEF regs
<1>6. queried' = queried BY <1>2, <1>3 DEF CallInv, TypeOK
<1>7. TypeOK'
  <2>1. out' = <<>> BY <1>1
  <2>2. \A i \in DOMAIN out' : out'[i] \in Word BY <2>1
  <2>3. ret' \in Word BY <1>2, Sizes16 DEF Success
  <2> QED BY <1>1, <1>2, <1>5, <1>6, <2>2, <2>3 DEF CallInv, TypeOK
<1>8. UnderWay' BY <1>1, <1>2 DEF UnderWay
<1>9. CallOK' BY <1>1, <1>2, <1>4 DEF CallOK, id
<1>10. LinesOK' BY <1>1 DEF CallInv, LinesOK
<1>11. FirmwareReadsImage' BY <1>1, <1>5 DEF FirmwareReadsImage
<1>12. StatusLost' BY <1>1 DEF CallInv, StatusLost
<1>13. QueriedLate' BY <1>2, <1>6 DEF CallInv, QueriedLate
<1>14. AskedThenNoWorkaround' BY <1>3, <1>4 DEF AskedThenNoWorkaround
<1> QED BY <1>7, <1>8, <1>9, <1>10, <1>11, <1>12, <1>13, <1>14 DEF CallInv

\* The calls, with the arguments that they send
LEMMA StepFpgaLoad ==
  ASSUME CallInv, NEW addr \in Addresses, NEW size \in Sizes, NEW flags \in Flags,
         FpgaLoad(addr, size, flags)
  PROVE  CallInv'
<1> DEFINE about == [name |-> "PM_FPGA_LOAD", addr |-> addr, size |-> size, flags |-> flags]
<1>1. addr \in Register /\ size \in Register /\ flags \in Word BY ValuesAssumption
<1>2. addr \in Nat /\ size \in Nat BY <1>1, RegisterNat
<1>3. Lower32(addr) \in Word /\ Upper32(addr) \in Word /\ size % Base \in Word
  BY <1>2, LowerWord
<1>4. Lower32(addr) + Base * Upper32(addr) = addr BY <1>1, Halves
<1>5. size < Base => size % Base = size BY <1>2, SmallMod, Sizes16
<1>6. InvokeSip("PM_FPGA_LOAD", <<Lower32(addr), Upper32(addr), size % Base, flags, 0>>, about)
  BY DEF FpgaLoad
<1>7. "PM_FPGA_LOAD" \in CallNames BY DEF CallNames
<1>8. about.name = "PM_FPGA_LOAD" /\ about.addr = addr /\ about.size = size
      /\ about.flags = flags OBVIOUS
<1> HIDE DEF about
<1> QED BY <1>1, <1>3, <1>4, <1>5, <1>6, <1>7, <1>8, StepInvoke

LEMMA StepAcapLoad ==
  ASSUME CallInv, NEW addr \in Addresses, AcapLoad(addr)
  PROVE  CallInv'
<1> DEFINE about == [NoCall EXCEPT !.name = "PM_LOAD_PDI", !.addr = addr]
<1>1. addr \in Register /\ addr \in Nat BY ValuesAssumption, RegisterNat
<1>2. Lower32(addr) \in Word /\ Upper32(addr) \in Word BY <1>1, LowerWord
<1>3. Lower32(addr) + Base * Upper32(addr) = addr BY <1>1, Halves
<1>4. InvokeSip("PM_LOAD_PDI", <<PdiSrcDdr, Lower32(addr), Upper32(addr), 0, 0>>, about)
  BY DEF AcapLoad
<1>5. "PM_LOAD_PDI" \in CallNames BY DEF CallNames
<1>6. about.name = "PM_LOAD_PDI" /\ about.addr = addr BY DEF NoCall
<1>7. PdiSrcDdr \in Word /\ 0 \in Word BY Sizes16, ValuesAssumption DEF PdiSrcDdr, Word
<1> HIDE DEF about
<1> QED BY <1>2, <1>3, <1>4, <1>5, <1>6, <1>7, StepInvoke

LEMMA StepQuery ==
  ASSUME CallInv, NEW name \in {"PM_GET_API_VERSION", "PM_GET_CHIPID", "PM_FPGA_GET_STATUS"},
         Query(name)
  PROVE  CallInv'
<1> DEFINE about == [NoCall EXCEPT !.name = name]
<1>1. about.name = name BY DEF NoCall
<1>2. name \in CallNames /\ name \notin {"PM_FEATURE_CHECK", "PM_LOAD_PDI", "PM_FPGA_LOAD"}
  BY DEF CallNames
<1>3. InvokeSip(name, <<0, 0, 0, 0, 0>>, about) BY DEF Query
<1> HIDE DEF about
<1> QED BY <1>1, <1>2, <1>3, Sizes16, StepInvoke

LEMMA StepFeatureCheck ==
  ASSUME CallInv, Len(lines) < ApiMax, FeatureCheck
  PROVE  CallInv'
<1> DEFINE about == [NoCall EXCEPT !.name = "PM_FEATURE_CHECK"]
           n == SipId(Len(lines))
<1>1. about.name = "PM_FEATURE_CHECK" /\ "PM_FEATURE_CHECK" \in CallNames
  BY DEF NoCall, CallNames
<1>2. n \in Word
  <2> DEFINE k == Len(lines)
  <2>1. k \in Nat /\ k < 78
    <3>1. lines \in Seq(TableRows) /\ Len(lines) < 78 BY ApiTable DEF CallInv, LinesOK
    <3> QED BY <3>1, LenProperties
  <2> HIDE DEF k
  <2>2. k + 1 \in Rows /\ (k + 1) - 1 = k BY <2>1 DEF Rows
  <2>3. SipId((k + 1) - 1) \in Numbers BY <2>2, SipIdOfRow, SipNumbers
  <2>4. n \in Numbers BY <2>2, <2>3 DEF k
  <2> HIDE DEF n
  <2>5. n \in Nat /\ n <= 2821 BY <2>4 DEF Numbers
  <2> QED BY <2>5, ValuesAssumption, BaseAssumption DEF Word
<1>3. InvokeSip("PM_FEATURE_CHECK", <<n, 0, 0, 0, 0>>, about) BY DEF FeatureCheck
<1> HIDE DEF about, n
<1> QED BY <1>1, <1>2, <1>3, Sizes16, StepInvoke

\* What pm_result makes of a status
LEMMA Results ==
  ASSUME NEW a0 \in Register
  PROVE  ResultErrno(a0 % Base, Lower32(a0)) \in {"0", "ENOTSUP", "EINVAL"}
<1>1. CASE a0 % Base = Success
  BY <1>1 DEF ResultErrno, Lower32, Success
<1>2. CASE a0 % Base # Success /\ a0 % Base = NotSupported
  BY <1>2 DEF ResultErrno
<1>3. CASE a0 % Base # Success /\ a0 % Base # NotSupported
  BY <1>3 DEF ResultErrno
<1> QED BY <1>1, <1>2, <1>3

\* The two numbers of a version are words.
LEMMA VersionParts ==
  ASSUME NEW u \in Word
  PROVE  u \div Half \in Word /\ u % Half \in Word
<1> DEFINE q == u \div Half
           r == u % Half
<1>1. u \in Nat /\ u < Base /\ Half \in Nat \ {0} /\ Base = Half * Half
  BY Sizes16 DEF Word
<1>2. q \in Nat /\ r \in 0..Half - 1 /\ u = Half * q + r BY <1>1, DivMod
<1> HIDE DEF q, r
<1>3. q <= Half * q /\ Half * q \in Nat
  <2>1. q * 1 <= q * Half BY <1>1, <1>2, TimesKeepsOrder
  <2> QED BY <1>1, <1>2, <2>1
<1>4. q <= u /\ r <= u BY <1>1, <1>2, <1>3
<1> QED BY <1>1, <1>2, <1>4, Sizes16 DEF Word, q, r

LEMMA StepPmReturns ==
  ASSUME CallInv, NEW a0 \in Statuses, NEW a1 \in Values, NEW a2 \in Values,
         PmReturns(a0, a1, a2)
  PROVE  CallInv'
<1>1. a0 \in Register /\ a0 \in Nat /\ a1 \in Nat /\ a2 \in Nat
  BY ValuesAssumption, RegisterNat
<1>2. /\ call # NoCall /\ cpu = "trap" /\ cpu' = "idle" /\ call' = NoCall /\ x' = NoArgs
      /\ version' = version /\ queried' = queried
  BY DEF PmReturns
<1>3. errno' \in {"0", "ENOTSUP", "EINVAL"} /\ ret' \in {0, Minus1}
  BY <1>1, Results DEF PmReturns
<1>4. \A i \in DOMAIN out' : out'[i] \in Word
  <2>1. Lower32(a0) \in Word /\ Lower32(a1) \in Word /\ Lower32(a2) \in Word
    BY <1>1, LowerWord
  <2>2. Lower32(a1) \div Half \in Word /\ Lower32(a1) % Half \in Word
    BY <2>1, VersionParts
  <2>3. \/ out' = <<Lower32(a1) \div Half, Lower32(a1) % Half>>
        \/ out' = <<Lower32(a1), Lower32(a2)>>
        \/ out' = <<Lower32(a1)>> \/ out' = <<Lower32(a0)>> \/ out' = <<>>
    BY DEF PmReturns
  <2> DEFINE l0 == Lower32(a0)
             l1 == Lower32(a1)
             l2 == Lower32(a2)
             q == Lower32(a1) \div Half
             r == Lower32(a1) % Half
  <2>4. /\ l0 \in Word /\ l1 \in Word /\ l2 \in Word /\ q \in Word /\ r \in Word
        /\ out' \in {<<q, r>>, <<l1, l2>>, <<l1>>, <<l0>>, <<>>}
    BY <2>1, <2>2, <2>3
  <2> HIDE DEF l0, l1, l2, q, r
  <2> QED BY <2>4
<1>5. LinesOK'
  <2>1. call'.name # "PM_FEATURE_CHECK" BY <1>2, Names DEF CallNames
  <2>2. CASE call.name # "PM_FEATURE_CHECK"
    <3>1. lines' = lines BY <2>2 DEF PmReturns
    <3> QED BY <2>1, <3>1 DEF CallInv, LinesOK, ApiMax
  <2>3. CASE call.name = "PM_FEATURE_CHECK"
    <3> DEFINE k == Len(lines)
               line == [label |-> Labels[k + 1], id |-> SipId(k)]
    <3>1. lines \in Seq(TableRows) /\ Len(lines) < 78 /\ ApiMax = 78
      BY <2>3, ApiTable DEF CallInv, LinesOK
    <3>2. k \in Nat /\ k < 78 BY <3>1, LenProperties
    <3>3. lines' = Append(lines, line) BY <2>3 DEF PmReturns
    <3> HIDE DEF k
    <3>4. k + 1 \in Rows /\ (k + 1) - 1 = k BY <3>2 DEF Rows
    <3>5. SipId((k + 1) - 1) = SipApiId[k + 1] BY <3>4, SipIdOfRow
    <3>6. line = [label |-> Labels[k + 1], id |-> SipApiId[k + 1]] BY <3>4, <3>5
    <3>7. line \in TableRows BY <3>4, <3>6 DEF TableRows
    <3> HIDE DEF line
    <3>8. lines' \in Seq(TableRows) /\ Len(lines') = Len(lines) + 1
      BY <3>1, <3>3, <3>7, AppendProperties
    <3>9. Len(lines') <= 78 BY <3>2, <3>8 DEF k
    <3> QED BY <2>1, <3>1, <3>8, <3>9, ApiTable DEF LinesOK
  <2> QED BY <2>2, <2>3
<1>6. TypeOK'
  <2>1. Len(lines') \in 0..ApiMax'
    <3>1. lines' \in Seq(TableRows') /\ Len(lines') <= ApiMax' /\ ApiMax' = 78
      BY <1>5, ApiTable DEF LinesOK
    <3>2. Len(lines') \in Nat BY <3>1, LenProperties
    <3> DEFINE k == Len(lines')
               m == ApiMax'
    <3>3. k \in Nat /\ m \in Nat /\ k <= m BY <3>1, <3>2
    <3> HIDE DEF k, m
    <3>4. k \in 0..m BY <3>3
    <3> QED BY <3>4, Zenon DEF k, m
  <2>2. \A i \in 1..3 : x'.arg[i] \in Register
    <3>1. x'.arg = <<0, 0, 0>> /\ 0 \in Register
      BY <1>2, Sizes16 DEF NoArgs, Register
    <3> QED BY <3>1
  <2>3. ret' \in Word BY <1>3, Sizes16
  <2> QED BY <1>2, <1>3, <1>4, <2>1, <2>2, <2>3 DEF CallInv, TypeOK
<1>7. StatusLost' BY <1>3 DEF StatusLost
<1>8. QueriedLate' BY <1>2 DEF CallInv, QueriedLate
<1>9. UnderWay' /\ CallOK' BY <1>2, Names DEF UnderWay, CallOK
<1>10. FirmwareReadsImage' /\ AskedThenNoWorkaround'
  BY <1>2 DEF FirmwareReadsImage, AskedThenNoWorkaround
<1> QED BY <1>5, <1>6, <1>7, <1>8, <1>9, <1>10 DEF CallInv

\* The steps that leave the variables of the driver alone
LEMMA StepSmc ==
  ASSUME CallInv, UNCHANGED pmVars, call = NoCall,
         version' \in {Version10, 1}, cpu' \in {"idle", "trap", "panic"},
         \A i \in 1..3 : x'.arg[i] \in Register, ret' \in Word, queried' \in BOOLEAN,
         QueriedLate', AskedThenNoWorkaround'
  PROVE  CallInv'
<1>1. call' = NoCall /\ errno' = errno /\ out' = out /\ lines' = lines BY DEF pmVars
<1>2. call'.name \notin CallNames BY <1>1, Names
<1>3. LinesOK' BY <1>1 DEF CallInv, LinesOK
<1>4. TypeOK' BY <1>1 DEF CallInv, TypeOK
<1>5. UnderWay' /\ CallOK' BY <1>1, <1>2 DEF UnderWay, CallOK
<1>6. FirmwareReadsImage' BY <1>2 DEF FirmwareReadsImage, CallNames
<1>7. StatusLost' BY <1>1 DEF CallInv, StatusLost
<1> QED BY <1>3, <1>4, <1>5, <1>6, <1>7 DEF CallInv

LEMMA ZeroArgs == ASSUME NEW e \in {0, 1}
                  PROVE \A i \in 1..3 : <<e, 0, 0>>[i] \in Register
<1>1. 0 \in Register /\ 1 \in Register BY BaseAssumption DEF Register
<1> QED BY <1>1

LEMMA StepArch ==
  ASSUME CallInv, ArchCall, UNCHANGED pmVars
  PROVE  CallInv'
<1> USE DEF CallInv
<1>1. cpu = "idle"
  BY DEF ArchCall, AskArchFeatures, ArchFeaturesRefused, Workaround, WorkaroundPanics, Trap
<1>2. call = NoCall BY <1>1 DEF UnderWay
<1>3. /\ version \in {Version10, 1} /\ ret \in Word /\ queried \in BOOLEAN
      /\ \A i \in 1..3 : x.arg[i] \in Register
  BY DEF TypeOK
<1>4. 0 \in Word /\ NotSupported \in Word BY Sizes16
<1>5. ASSUME NEW f \in {0, 1}, AskArchFeatures(f) PROVE CallInv'
  <2>1. /\ version # Version10 /\ version' = version /\ cpu' = "trap" /\ ret' = Success
        /\ x' = [id |-> ArchFeatures, arg |-> <<f, 0, 0>>] /\ queried' = TRUE
    BY <1>5 DEF AskArchFeatures, Trap
  <2>2. QueriedLate' BY <2>1 DEF QueriedLate
  <2>3. x'.id = ArchFeatures /\ x'.arg = <<f, 0, 0>> BY <2>1
  <2>4. AskedThenNoWorkaround' BY <2>3, Ids DEF AskedThenNoWorkaround
  <2>5. \A i \in 1..3 : x'.arg[i] \in Register BY <2>3, ZeroArgs
  <2> QED BY <1>2, <1>3, <1>4, <2>1, <2>2, <2>4, <2>5, StepSmc DEF Success
<1>6. ASSUME NEW id \in Workarounds, NEW e \in {0, 1}, Workaround(id, e) PROVE CallInv'
  <2>1. id # ArchFeatures BY Ids
  <2>2. /\ version = Version10 /\ version' = version /\ cpu' = "trap" /\ ret' = Success
        /\ x' = [id |-> id, arg |-> <<e, 0, 0>>] /\ queried' = queried
    BY <1>3, <1>6, <2>1 DEF Workaround, Trap
  <2>3. queried' = FALSE BY <1>3, <2>2 DEF QueriedLate
  <2>4. QueriedLate' /\ AskedThenNoWorkaround' BY <2>3 DEF QueriedLate, AskedThenNoWorkaround
  <2>5. x'.arg = <<e, 0, 0>> BY <2>2
  <2>6. \A i \in 1..3 : x'.arg[i] \in Register BY <2>5, ZeroArgs
  <2> QED BY <1>2, <1>3, <1>4, <2>2, <2>3, <2>4, <2>6, StepSmc DEF Success
<1>7. CASE ArchFeaturesRefused \/ WorkaroundPanics
  <2>1. /\ version' = version /\ x' = x /\ queried' = queried /\ ret' \in Word
        /\ cpu' \in {"idle", "panic"}
    BY <1>3, <1>4, <1>1, <1>7 DEF ArchFeaturesRefused, WorkaroundPanics
  <2>2. QueriedLate' /\ AskedThenNoWorkaround'
    BY <2>1 DEF QueriedLate, AskedThenNoWorkaround
  <2> QED BY <1>2, <1>3, <2>1, <2>2, StepSmc
<1> QED BY <1>5, <1>6, <1>7 DEF ArchCall, Workarounds

LEMMA StepCall == CallInv /\ [Next]_vars => CallInv'
<1> SUFFICES ASSUME CallInv, [Next]_vars PROVE CallInv' OBVIOUS
<1>1. \A addr \in Addresses, size \in Sizes, flags \in Flags :
        FpgaLoad(addr, size, flags) => CallInv'
  BY StepFpgaLoad
<1>2. \A addr \in Addresses : AcapLoad(addr) => CallInv' BY StepAcapLoad
<1>3. \A name \in {"PM_GET_API_VERSION", "PM_GET_CHIPID", "PM_FPGA_GET_STATUS"} :
        Query(name) => CallInv'
  BY StepQuery
<1>4. Len(lines) < ApiMax /\ FeatureCheck => CallInv' BY StepFeatureCheck
<1>5. \A a0 \in Statuses, a1, a2 \in Values : PmReturns(a0, a1, a2) => CallInv'
  BY StepPmReturns
<1>6. CASE FeatureRefused \/ Stub
  <2>1. /\ UNCHANGED <<version, cpu, x, queried, call, out, lines>>
        /\ ret' = Minus1 /\ errno' \in {errno, "EINVAL"}
    BY <1>6 DEF FeatureRefused, Stub
  <2>2. TypeOK' BY <2>1, Sizes16 DEF CallInv, TypeOK
  <2>3. LinesOK' BY <2>1 DEF CallInv, LinesOK
  <2>4. UnderWay' /\ CallOK' /\ QueriedLate' /\ AskedThenNoWorkaround'
    BY <2>1 DEF CallInv, UnderWay, CallOK, QueriedLate, AskedThenNoWorkaround
  <2>5. FirmwareReadsImage'
    BY <2>1 DEF CallInv, FirmwareReadsImage, ArgWord
  <2>6. StatusLost' BY <2>1 DEF CallInv, StatusLost
  <2> QED BY <2>2, <2>3, <2>4, <2>5, <2>6 DEF CallInv
<1>7. CASE SysInit /\ UNCHANGED pmVars
  <2>1. /\ cpu = "idle" /\ cpu' = cpu /\ x' = x /\ ret' = ret /\ queried' = queried
        /\ version' = 1
    BY <1>7 DEF SysInit
  <2>2. call = NoCall BY <2>1 DEF CallInv, UnderWay
  <2>3. QueriedLate' BY <2>1 DEF QueriedLate, Version10
  <2>4. AskedThenNoWorkaround' BY <2>1 DEF AskedThenNoWorkaround
  <2> QED BY <1>7, <2>1, <2>2, <2>3, <2>4, StepSmc DEF CallInv, TypeOK
<1>8. CASE ArchCall /\ UNCHANGED pmVars
  BY <1>8, StepArch
<1>9. ASSUME NEW a0 \in Statuses, call = NoCall /\ TrapReturns(a0) /\ UNCHANGED pmVars
      PROVE  CallInv'
  <2>1. a0 \in Nat BY ValuesAssumption, RegisterNat
  <2>2. /\ cpu' = "idle" /\ x' = NoArgs /\ ret' \in Word
        /\ version' = version /\ queried' = queried
    BY <1>9, <2>1, LowerWord DEF TrapReturns
  <2>3. QueriedLate' /\ AskedThenNoWorkaround'
    BY <2>2 DEF CallInv, QueriedLate, AskedThenNoWorkaround
  <2>4. \A i \in 1..3 : x'.arg[i] \in Register BY <2>2, ZeroArgs DEF NoArgs
  <2> QED BY <1>9, <2>2, <2>3, <2>4, StepSmc DEF CallInv, TypeOK
<1>10. CASE UNCHANGED vars
  <2> USE <1>10 DEF vars
  <2>1. TypeOK' /\ UnderWay' /\ CallOK' BY DEF CallInv, TypeOK, UnderWay, CallOK
  <2>2. LinesOK' BY DEF CallInv, LinesOK
  <2>3. FirmwareReadsImage' BY DEF CallInv, FirmwareReadsImage, ArgWord
  <2>4. StatusLost' /\ QueriedLate' /\ AskedThenNoWorkaround'
    BY DEF CallInv, StatusLost, QueriedLate, AskedThenNoWorkaround
  <2> QED BY <2>1, <2>2, <2>3, <2>4 DEF CallInv
<1> QED BY <1>1, <1>2, <1>3, <1>4, <1>5, <1>6, <1>7, <1>8, <1>9, <1>10 DEF Next

LEMMA InitCall == Init => CallInv
<1> SUFFICES ASSUME Init PROVE CallInv OBVIOUS
<1>1. /\ version = Version10 /\ cpu = "idle" /\ x = NoArgs /\ ret = Success
      /\ queried = FALSE /\ call = NoCall /\ errno = "0" /\ out = <<>> /\ lines = <<>>
  BY DEF Init, SmcInit
<1>2. TypeOK
  <2>1. \A i \in 1..3 : x.arg[i] \in Register BY <1>1, ZeroArgs DEF NoArgs
  <2>2. Len(lines) \in 0..ApiMax BY <1>1, ApiTable
  <2>3. ret \in Word BY <1>1, Sizes16 DEF Success
  <2>4. \A i \in DOMAIN out : out[i] \in Word BY <1>1
  <2>5. cpu \in {"idle", "trap", "panic"} /\ version \in {Version10, 1} /\ queried \in BOOLEAN
        /\ errno \in {"0", "ENOTSUP", "EACCES", "ECANCELED", "EIO", "EINVAL"}
    BY <1>1
  <2> QED BY <2>1, <2>2, <2>3, <2>4, <2>5, Zenon DEF TypeOK
<1>3. UnderWay /\ CallOK BY <1>1, Names DEF UnderWay, CallOK
<1>4. LinesOK
  <2>1. lines \in Seq(TableRows) /\ Len(lines) = 0 BY <1>1
  <2> QED BY <1>1, <2>1, Names, ApiTable DEF LinesOK, CallNames
<1>5. FirmwareReadsImage /\ StatusLost /\ QueriedLate /\ AskedThenNoWorkaround
  BY <1>1 DEF FirmwareReadsImage, StatusLost, QueriedLate, AskedThenNoWorkaround
<1> QED BY <1>2, <1>3, <1>4, <1>5 DEF CallInv

\* The number of every printed line is the one the API of its name is called
\* with.
LEMMA ListedInv == CallInv => CalledAsListed
<1> SUFFICES ASSUME CallInv, cpu = "trap", call # NoCall, NEW k \in DOMAIN lines
             PROVE  lines[k].id = x.id.func <=> lines[k].label = call.name
  BY DEF CalledAsListed
<1> DEFINE id == SipId(Api(call.name))
<1>1. call.name \in CallNames /\ x.id = FuncId(1, 1, 2, id)
  BY DEF CallInv, UnderWay, CallOK
<1>2. id \in Numbers /\ \A i \in Rows : SipApiId[i] = id <=> Labels[i] = call.name
  BY <1>1, CallTables
<1> HIDE DEF id
<1>3. x.id.func = id
  <2> DEFINE W == 65536
  <2>1. id \in Nat /\ id <= 2821 BY <1>2 DEF Numbers
  <2>2. W \in Nat /\ 2821 < W OBVIOUS
  <2>3. x.id.func = id % W BY <1>1 DEF FuncId
  <2> HIDE DEF W
  <2>4. W \in Nat \ {0} /\ id \in 0..W - 1 BY <2>1, <2>2
  <2> QED BY <2>3, <2>4, SmallMod
<1>4. lines[k] \in TableRows
  <2>1. lines \in Seq(TableRows) BY DEF CallInv, LinesOK
  <2> QED BY <2>1, LenProperties
<1>5. PICK i \in Rows : lines[k] = [label |-> Labels[i], id |-> SipApiId[i]]
  BY <1>4 DEF TableRows
<1>6. lines[k].label = Labels[i] /\ lines[k].id = SipApiId[i] BY <1>5
<1> QED BY <1>2, <1>3, <1>6

\* The variables of PmCall have their types.
THEOREM TypeCorrect == Spec => []TypeOK
<1>1. CallInv => TypeOK BY DEF CallInv
<1> QED BY <1>1, InitCall, StepCall, PTL DEF Spec

\* The firmware finds the image, its size and its flags as the caller of the
\* load gave them, for words and addresses of any size: the halves that the
\* driver cuts the address into are put together to the same address, also
\* when they lie in two registers.
THEOREM ImageRead == Spec => []FirmwareReadsImage
<1>1. CallInv => FirmwareReadsImage BY DEF CallInv
<1> QED BY <1>1, InitCall, StepCall, PTL DEF Spec

\* The numbers in `pm features` are those of the calls, for every API that
\* the driver calls and every prefix of the list.
THEOREM Listed == Spec => []CalledAsListed
<1> QED BY ListedInv, InitCall, StepCall, PTL DEF Spec

\* No status that the firmware may leave in x0 reaches the caller as anything
\* but ENOTSUP or EINVAL.
THEOREM StatusIsLost == Spec => []StatusLost
<1>1. CallInv => StatusLost BY DEF CallInv
<1> QED BY <1>1, InitCall, StepCall, PTL DEF Spec

\* Behind a question for the features of the architecture no workaround is
\* called any more.
THEOREM NoWorkaround == Spec => []AskedThenNoWorkaround
<1>1. CallInv => AskedThenNoWorkaround BY DEF CallInv
<1> QED BY <1>1, InitCall, StepCall, PTL DEF Spec

(***************************************************************************)
(* PmImage: what the commands make of a file                               *)
(***************************************************************************)
\* What the commands last said is what they say of the file as it is.
VerdictInv ==
  /\ load \in {"none", LoadVerdict(image)}
  /\ info \in {"none", InfoVerdict(image)}

LEMMA LoadVerdicts ==
  ASSUME NEW i
  PROVE  LoadVerdict(i) \in {"firmware", "boot", "corrupt"}
BY DEF LoadVerdict

LEMMA InfoVerdicts ==
  ASSUME NEW i
  PROVE  InfoVerdict(i) \in {"boot", "partial", "error"}
BY DEF InfoVerdict

LEMMA DamagedImage ==
  ASSUME image \in Images, NEW w \in Words, NEW value \in 0..Modulus - 1
  PROVE  [image EXCEPT !.word[w] = value] \in Images
BY DEF Images

LEMMA StepType == ImageTypeOK /\ [ImageNext]_imageVars => ImageTypeOK'
<1> SUFFICES ASSUME ImageTypeOK, [ImageNext]_imageVars PROVE ImageTypeOK' OBVIOUS
<1>1. CASE LoadFile
  BY <1>1, LoadVerdicts DEF LoadFile, ImageTypeOK
<1>2. CASE AcapInfo
  BY <1>2, InfoVerdicts DEF AcapInfo, ImageTypeOK
<1>3. ASSUME NEW w \in Words, NEW value \in 0..Modulus - 1, Damage(w, value) PROVE ImageTypeOK'
  BY <1>3, DamagedImage DEF Damage, ImageTypeOK
<1>4. CASE UNCHANGED imageVars
  BY <1>4 DEF imageVars, ImageTypeOK
<1> QED BY <1>1, <1>2, <1>3, <1>4 DEF ImageNext

LEMMA StepVerdict == VerdictInv /\ [ImageNext]_imageVars => VerdictInv'
<1> SUFFICES ASSUME VerdictInv, [ImageNext]_imageVars PROVE VerdictInv' OBVIOUS
<1>1. CASE LoadFile
  BY <1>1 DEF LoadFile, VerdictInv
<1>2. CASE AcapInfo
  BY <1>2 DEF AcapInfo, VerdictInv
<1>3. ASSUME NEW w \in Words, NEW value \in 0..Modulus - 1, Damage(w, value) PROVE VerdictInv'
  BY <1>3 DEF Damage, VerdictInv
<1>4. CASE UNCHANGED imageVars
  BY <1>4 DEF imageVars, VerdictInv
<1> QED BY <1>1, <1>2, <1>3, <1>4 DEF ImageNext

\* On one file the verdicts go together: with the boot header refused both
\* depend on the table behind the pattern, with it accepted the load says boot
\* unless that table is accepted as well.
LEMMA VerdictsAgree ==
  ASSUME NEW i
  PROVE  \/ LoadVerdict(i) = "firmware" /\ InfoVerdict(i) = "partial"
         \/ LoadVerdict(i) = "boot" /\ InfoVerdict(i) \in {"boot", "error"}
         \/ LoadVerdict(i) = "corrupt" /\ InfoVerdict(i) = "error"
         \/ LoadVerdict(i) = "firmware" /\ InfoVerdict(i) # "partial" /\ Ambiguous(i)
<1>1. CASE VerifyBootHeader(i) = "success"
  <2>1. InfoVerdict(i) \in {"boot", "error"}
    BY <1>1 DEF InfoVerdict
  <2>2. CASE VerifyImageHeader(i, 0) = "success"
    BY <1>1, <2>1, <2>2 DEF LoadVerdict, Ambiguous
  <2>3. CASE VerifyImageHeader(i, 0) # "success"
    BY <1>1, <2>1, <2>3 DEF LoadVerdict
  <2> QED BY <2>2, <2>3
<1>2. CASE VerifyBootHeader(i) # "success"
  BY <1>2 DEF InfoVerdict, LoadVerdict
<1> QED BY <1>1, <1>2

(***************************************************************************)
(* The sum of a checksum                                                   *)
(***************************************************************************)
\* Induction, for a set
LEMMA SetInduction ==
  ASSUME NEW S, 0 \in S, \A n \in Nat : n \in S => n + 1 \in S
  PROVE  Nat \subseteq S
<1> DEFINE T == Nat \ S
           Less == {p \in Nat \X Nat : p[1] < p[2]}
<1>1. IsWellFoundedOn(Less, Nat)
  <2>1. Less = OpToRel(<, Nat) BY DEF OpToRel
  <2> QED BY <2>1, NatLessThanWellFounded
<1>2. SUFFICES ASSUME T # {} PROVE FALSE OBVIOUS
<1> HIDE DEF Less
<1>3. PICK m \in T : \A n \in T : ~ (<<n, m>> \in Less)
  <2>1. T \subseteq Nat OBVIOUS
  <2> HIDE DEF T
  <2> QED BY <1>1, <1>2, <2>1, WFMin
<1>4. \A n \in T : ~ (n < m) BY <1>3 DEF Less
<1>5. m \in Nat /\ m # 0 BY <1>3
<1>6. m - 1 \in Nat /\ m - 1 < m /\ (m - 1) + 1 = m BY <1>5
<1>7. m - 1 \in S BY <1>4, <1>6
<1> QED BY <1>3, <1>6, <1>7

\* The function that Sum is the value of, on the numbers up to m
IsSum(f, word, first, m) ==
  f = [k \in 0..m |-> IF k = 0 THEN 0 ELSE f[k - 1] + word[first + k - 1]]

LEMMA SumExists ==
  ASSUME NEW word, NEW first
  PROVE  \A m \in Nat : \E f : IsSum(f, word, first, m)
<1> DEFINE S == {m \in Nat : \E f : IsSum(f, word, first, m)}
<1>1. 0 \in S
  <2> DEFINE f == [k \in 0..0 |-> 0]
  <2>1. f = [k \in 0..0 |-> IF k = 0 THEN 0 ELSE f[k - 1] + word[first + k - 1]] OBVIOUS
  <2>2. IsSum(f, word, first, 0) BY <2>1 DEF IsSum
  <2> HIDE DEF f
  <2> QED BY <2>2
<1>2. ASSUME NEW n \in Nat, n \in S PROVE n + 1 \in S
  <2>1. PICK f : IsSum(f, word, first, n) BY <1>2
  <2> DEFINE w(k) == word[first + k - 1]
             g == [k \in 0..n + 1 |-> IF k = n + 1 THEN f[n] + w(n + 1) ELSE f[k]]
  <2> HIDE DEF w
  <2>2. f = [k \in 0..n |-> IF k = 0 THEN 0 ELSE f[k - 1] + w(k)] BY <2>1 DEF IsSum, w
  <2>3. ASSUME NEW k \in 0..n + 1
        PROVE  g[k] = IF k = 0 THEN 0 ELSE g[k - 1] + w(k)
    <3>1. CASE k = 0
      <4>1. 0 \in 0..n /\ 0 \in 0..n + 1 /\ 0 # n + 1 OBVIOUS
      <4>2. g[0] = f[0] BY <4>1
      <4>3. f[0] = 0 BY <2>2, <4>1
      <4> QED BY <3>1, <4>2, <4>3
    <3>2. CASE k # 0 /\ k # n + 1
      <4>1. k \in 0..n /\ k - 1 \in 0..n + 1 /\ k - 1 # n + 1 BY <3>2
      <4>2. g[k] = f[k] /\ g[k - 1] = f[k - 1] BY <3>2, <4>1
      <4>3. f[k] = f[k - 1] + w(k) BY <2>2, <3>2, <4>1
      <4> QED BY <3>2, <4>2, <4>3
    <3>3. CASE k = n + 1
      <4>1. n \in 0..n + 1 /\ n # n + 1 /\ (n + 1) - 1 = n /\ n + 1 # 0 OBVIOUS
      <4>2. g[n + 1] = f[n] + w(n + 1) /\ g[n] = f[n] BY <4>1
      <4> QED BY <3>3, <4>1, <4>2
    <3> QED BY <3>1, <3>2, <3>3
  <2>4. g = [k \in 0..n + 1 |-> g[k]] OBVIOUS
  <2> HIDE DEF g
  <2>5. [k \in 0..n + 1 |-> g[k]] = [k \in 0..n + 1 |-> IF k = 0 THEN 0 ELSE g[k - 1] + w(k)]
    BY <2>3
  <2>6. IsSum(g, word, first, n + 1) BY <2>4, <2>5 DEF IsSum, w
  <2> QED BY <2>6
<1>3. Nat \subseteq S
  <2> HIDE DEF S
  <2> QED BY <1>1, <1>2, SetInduction
<1> QED BY <1>3

LEMMA SumAgree ==
  ASSUME NEW word, NEW first, NEW m \in Nat, NEW n \in Nat, NEW f, NEW g,
         IsSum(f, word, first, m), IsSum(g, word, first, n)
  PROVE  \A k \in Nat : k <= m /\ k <= n => f[k] = g[k]
<1> DEFINE w(k) == word[first + k - 1]
           S == {k \in Nat : k <= m /\ k <= n => f[k] = g[k]}
<1> HIDE DEF w
<1>1. /\ f = [k \in 0..m |-> IF k = 0 THEN 0 ELSE f[k - 1] + w(k)]
      /\ g = [k \in 0..n |-> IF k = 0 THEN 0 ELSE g[k - 1] + w(k)]
  BY DEF IsSum, w
<1>2. 0 \in S
  <2>1. 0 \in 0..m /\ 0 \in 0..n OBVIOUS
  <2>2. f[0] = 0 /\ g[0] = 0 BY <1>1, <2>1
  <2> QED BY <2>2
<1>3. ASSUME NEW k \in Nat, k \in S PROVE k + 1 \in S
  <2>1. SUFFICES ASSUME k + 1 <= m, k + 1 <= n PROVE f[k + 1] = g[k + 1] OBVIOUS
  <2>2. k + 1 \in 0..m /\ k + 1 \in 0..n /\ k + 1 # 0 /\ (k + 1) - 1 = k BY <2>1
  <2>3. f[k] = g[k] BY <1>3, <2>1
  <2>4. f[k + 1] = f[(k + 1) - 1] + w(k + 1) BY <1>1, <2>2
  <2>5. g[k + 1] = g[(k + 1) - 1] + w(k + 1) BY <1>1, <2>2
  <2> QED BY <2>2, <2>3, <2>4, <2>5
<1>4. Nat \subseteq S
  <2> HIDE DEF S
  <2> QED BY <1>2, <1>3, SetInduction
<1> QED BY <1>4

\* Sum is the sum: nothing for no words, and one word more each time.
LEMMA SumSteps ==
  ASSUME NEW word, NEW first
  PROVE  /\ Sum(word, first, 0) = 0
         /\ \A n \in Nat : Sum(word, first, n + 1) = Sum(word, first, n) + word[first + (n + 1) - 1]
<1> DEFINE w(k) == word[first + k - 1]
           A(m) == CHOOSE f : IsSum(f, word, first, m)
           F == [k \in Nat |-> A(k)[k]]
           G == CHOOSE sum : sum = [k \in Nat |-> IF k = 0 THEN 0 ELSE sum[k - 1] + word[first + k - 1]]
<1>1. \A m \in Nat : IsSum(A(m), word, first, m)
  BY SumExists
<1> HIDE DEF A, w
<1>2. \A m \in Nat : A(m) = [k \in 0..m |-> IF k = 0 THEN 0 ELSE A(m)[k - 1] + w(k)]
  BY <1>1 DEF IsSum, w
<1>3. ASSUME NEW k \in Nat PROVE F[k] = IF k = 0 THEN 0 ELSE F[k - 1] + w(k)
  <2>1. CASE k = 0
    <3>1. A(0) = [j \in 0..0 |-> IF j = 0 THEN 0 ELSE A(0)[j - 1] + w(j)] BY <1>2
    <3>2. A(0)[0] = 0
      <4>1. 0 \in 0..0 OBVIOUS
      <4> QED BY <3>1, <4>1
    <3> QED BY <2>1, <3>2
  <2>2. CASE k # 0
    <3>1. k - 1 \in Nat /\ k - 1 <= k /\ k \in 0..k BY <2>2
    <3>2. A(k)[k - 1] = A(k - 1)[k - 1] BY <1>1, <3>1, SumAgree
    <3>3. A(k) = [j \in 0..k |-> IF j = 0 THEN 0 ELSE A(k)[j - 1] + w(j)] BY <1>2
    <3>4. A(k)[k] = A(k)[k - 1] + w(k) BY <2>2, <3>1, <3>3
    <3>5. F[k] = A(k)[k] /\ F[k - 1] = A(k - 1)[k - 1] BY <3>1
    <3> QED BY <2>2, <3>2, <3>4, <3>5
  <2> QED BY <2>1, <2>2
<1>4. F = [k \in Nat |-> F[k]] OBVIOUS
<1> HIDE DEF F
<1>5. [k \in Nat |-> F[k]] = [k \in Nat |-> IF k = 0 THEN 0 ELSE F[k - 1] + w(k)] BY <1>3
<1>6. F = [k \in Nat |-> IF k = 0 THEN 0 ELSE F[k - 1] + word[first + k - 1]]
  BY <1>4, <1>5 DEF w
<1>7. G = [k \in Nat |-> IF k = 0 THEN 0 ELSE G[k - 1] + word[first + k - 1]]
  BY <1>6
<1>8. \A n : Sum(word, first, n) = G[n] BY DEF Sum
<1> HIDE DEF G
<1>9. G[0] = 0 BY <1>7
<1>10. ASSUME NEW n \in Nat PROVE G[n + 1] = G[n] + word[first + (n + 1) - 1]
  <2>1. n + 1 \in Nat /\ n + 1 # 0 /\ (n + 1) - 1 = n OBVIOUS
  <2>2. G[n + 1] = IF n + 1 = 0 THEN 0 ELSE G[(n + 1) - 1] + word[first + (n + 1) - 1]
    BY <1>7, <2>1
  <2>3. G[(n + 1) - 1] = G[n] BY <2>1
  <2> QED BY <2>1, <2>2, <2>3
<1> QED BY <1>8, <1>9, <1>10

\* The value of a sum step by step, in the form of the loop
LEMMA SumNext ==
  ASSUME NEW word, NEW first \in Nat, NEW n \in Nat
  PROVE  Sum(word, first, n + 1) = Sum(word, first, n) + word[first + n]
<1>1. first + (n + 1) - 1 = first + n OBVIOUS
<1> QED BY <1>1, SumSteps

Contents == [Words -> 0..Modulus - 1]

\* Two files that differ in the word d only: the sum over words with d among
\* them is greater by what d is greater, any other is the same.
LEMMA SumOfDamaged ==
  ASSUME NEW word \in Contents, NEW damaged \in Contents, NEW first \in Nat, NEW d \in Words,
         \A v \in Words : v # d => damaged[v] = word[v]
  PROVE  \A n \in Nat : first + n <= Meta + TableWords =>
           /\ Sum(word, first, n) \in Nat /\ Sum(damaged, first, n) \in Nat
           /\ d \in first..first + n - 1 =>
                Sum(damaged, first, n) + word[d] = Sum(word, first, n) + damaged[d]
           /\ d \notin first..first + n - 1 => Sum(damaged, first, n) = Sum(word, first, n)
<1> DEFINE Good(n) ==
      first + n <= Meta + TableWords =>
           /\ Sum(word, first, n) \in Nat /\ Sum(damaged, first, n) \in Nat
           /\ d \in first..first + n - 1 =>
                Sum(damaged, first, n) + word[d] = Sum(word, first, n) + damaged[d]
           /\ d \notin first..first + n - 1 => Sum(damaged, first, n) = Sum(word, first, n)
           S == {n \in Nat : Good(n)}
<1>1. d \in Nat /\ Meta \in Nat /\ TableWords \in Nat BY SizesAssumption DEF Words
<1>2. 0 \in S
  <2>1. Sum(word, first, 0) = 0 /\ Sum(damaged, first, 0) = 0 BY SumSteps
  <2>2. d \notin first..first + 0 - 1 BY <1>1
  <2> QED BY <2>1, <2>2
<1>3. ASSUME NEW n \in Nat, n \in S PROVE n + 1 \in S
  <2>1. SUFFICES ASSUME first + (n + 1) <= Meta + TableWords PROVE Good(n + 1) OBVIOUS
  <2> DEFINE s == Sum(word, first, n)
             t == Sum(damaged, first, n)
             k == first + n
  <2>2. k \in Words BY <1>1, <2>1 DEF Words
  <2>3. /\ word[k] \in Nat /\ damaged[k] \in Nat /\ word[d] \in Nat /\ damaged[d] \in Nat
        /\ k # d => damaged[k] = word[k]
    BY <2>2, SizesAssumption DEF Contents
  <2>4. Sum(word, first, n + 1) = s + word[k] /\ Sum(damaged, first, n + 1) = t + damaged[k]
    BY SumNext
  <2>5. /\ s \in Nat /\ t \in Nat
        /\ d \in first..first + n - 1 => t + word[d] = s + damaged[d]
        /\ d \notin first..first + n - 1 => t = s
    BY <1>1, <1>3, <2>1
  <2> DEFINE a == word[k]
             b == damaged[k]
             e == word[d]
             c == damaged[d]
  <2>6. k = d => a = e /\ b = c OBVIOUS
  <2>7. k # d => a = b BY <2>3
  <2>8. s + a \in Nat /\ t + b \in Nat BY <2>3, <2>5
  <2> HIDE DEF s, t, a, b, e, c
  <2>9. CASE k = d
    <3>1. d \notin first..first + n - 1 /\ d \in first..first + (n + 1) - 1 BY <1>1, <2>9
    <3>2. t = s BY <2>5, <3>1
    <3>3. (t + b) + e = (s + a) + c BY <2>3, <2>5, <2>6, <2>9, <3>2 DEF a, b, e, c
    <3> QED BY <2>4, <2>8, <3>1, <3>3 DEF a, b, e, c
  <2>10. CASE k # d /\ d \in first..first + n - 1
    <3>1. d \in first..first + (n + 1) - 1 BY <1>1, <2>10
    <3>2. t + e = s + c BY <2>5, <2>10 DEF e, c
    <3>3. (t + b) + e = (s + a) + c BY <2>3, <2>5, <2>7, <2>10, <3>2 DEF a, b, e, c
    <3> QED BY <2>4, <2>8, <3>1, <3>3 DEF a, b, e, c
  <2>11. CASE k # d /\ d \notin first..first + n - 1
    <3>1. d \notin first..first + (n + 1) - 1 BY <1>1, <2>11
    <3>2. t + b = s + a BY <2>5, <2>7, <2>11
    <3> QED BY <2>4, <2>8, <3>1, <3>2 DEF a, b
  <2> QED BY <2>9, <2>10, <2>11
<1>4. Nat \subseteq S
  <2> HIDE DEF S
  <2> QED BY <1>2, <1>3, SetInduction
<1> QED BY <1>4

LEMMA SumNat ==
  ASSUME NEW word \in Contents, NEW first \in Nat, NEW n \in Nat,
         first + n <= Meta + TableWords
  PROVE  Sum(word, first, n) \in Nat
<1>1. 0 \in Words BY SizesAssumption DEF Words
<1> QED BY <1>1, SumOfDamaged

\* Numbers with the same remainder lie apart by the modulus.
LEMMA SameRemainder ==
  ASSUME NEW B \in Nat \ {0}, NEW p \in Nat, NEW q \in Nat, p % B = q % B, p < q
  PROVE  p + B <= q
<1> DEFINE u == p \div B
           v == q \div B
           r == p % B
<1>1. u \in Nat /\ v \in Nat /\ r \in 0..B - 1 /\ p = B * u + r /\ q = B * v + r
  BY DivMod
<1> HIDE DEF u, v, r
<1>2. u < v
  <2>1. SUFFICES ASSUME v <= u PROVE FALSE BY <1>1
  <2>2. B * v <= B * u BY <1>1, <2>1, TimesKeepsOrder
  <2>3. B * v \in Nat /\ B * u \in Nat BY <1>1
  <2> QED BY <1>1, <2>2, <2>3
<1>3. B * (u + 1) <= B * v BY <1>1, <1>2, TimesKeepsOrder
<1>4. B * (u + 1) = B * u + B BY <1>1
<1>5. B * v \in Nat /\ B * u \in Nat BY <1>1
<1> QED BY <1>1, <1>3, <1>4, <1>5

\* The complement tells remainders apart.
LEMMA ComplementSame ==
  ASSUME NEW p \in Nat, NEW q \in Nat, Complement(p) = Complement(q)
  PROVE  p % Modulus = q % Modulus
<1> DEFINE r == p % Modulus
           t == q % Modulus
<1>1. r \in Nat /\ t \in Nat /\ Modulus \in Nat BY SizesAssumption, DivMod
<1>2. (Modulus - 1) - r = (Modulus - 1) - t BY DEF Complement
<1> HIDE DEF r, t
<1>3. r = t BY <1>1, <1>2
<1> QED BY <1>3 DEF r, t

\* A table is accepted when its checksum is that of all words but two.
LEMMA Accepted ==
  ASSUME NEW i, NEW first
  PROVE  VerifyImageHeader(i, first) =
           IF i.word[first + TableWords - 1] = Checksum(i.word, first, TableWords - 2)
           THEN "success" ELSE "invalid_csum"
<1>1. /\ ~ (TableWords - 1 < 2)
      /\ first + TableWords - 1 = first + (TableWords - 1) \/ first \notin Nat
      /\ (TableWords - 1) - 1 = TableWords - 2
  BY SizesAssumption
<1> QED BY <1>1 DEF VerifyImageHeader, HeaderChecksum

LEMMA IntactInv == ImageTypeOK => AcceptedIntact
<1> SUFFICES ASSUME ImageTypeOK, NEW first \in {0, Meta}, image.word[first + TableWords - 2] = 0
             PROVE  VerifyImageHeader(image, first) = "success" <=> TableIntact(image, first)
  BY DEF AcceptedIntact
<1> DEFINE word == image.word
           n == TableWords - 2
<1>1. word \in Contents BY DEF ImageTypeOK, Images, Contents
<1>2. /\ first \in Nat /\ n \in Nat /\ n + 1 = TableWords - 1
      /\ first + n = first + TableWords - 2 /\ first + n <= Meta + TableWords
  BY SizesAssumption
<1>3. word[first + n] = 0 BY <1>2
<1> HIDE DEF n
<1>4. Sum(word, first, n) \in Nat BY <1>1, <1>2, SumNat
<1>5. Sum(word, first, n + 1) = Sum(word, first, n)
  <2>1. Sum(word, first, n + 1) = Sum(word, first, n) + 0 BY <1>2, <1>3, SumNext
  <2> QED BY <1>4, <2>1
<1>6. Checksum(word, first, TableWords - 1) = Checksum(word, first, TableWords - 2)
  BY <1>2, <1>5 DEF Checksum, n
<1> QED BY <1>6, Accepted DEF TableIntact

LEMMA StepDamage ==
  ASSUME ImageTypeOK, ImageTypeOK', NEW w \in 0..TableWords - 1,
         VerifyImageHeader(image, 0) = "success",
         \A v \in Words : image'.word[v] # image.word[v] <=> v = w
  PROVE  VerifyImageHeader(image', 0) = IF w = TableWords - 2 THEN "success" ELSE "invalid_csum"
<1> DEFINE word == image.word
           damaged == image'.word
           n == TableWords - 2
           s == Sum(word, 0, n)
           t == Sum(damaged, 0, n)
<1>1. word \in Contents /\ damaged \in Contents BY DEF ImageTypeOK, Images, Contents
<1>2. /\ n \in Nat /\ n + 1 = 0 + TableWords - 1 /\ 0 + n <= Meta + TableWords /\ 0 \in Nat
      /\ n + 1 \in Words /\ w \in Words /\ Modulus \in Nat \ {0} /\ w \in Nat
  BY SizesAssumption DEF Words
<1>3. /\ VerifyImageHeader(image, 0) =
           IF word[n + 1] = Complement(s) THEN "success" ELSE "invalid_csum"
      /\ VerifyImageHeader(image', 0) =
           IF damaged[n + 1] = Complement(t) THEN "success" ELSE "invalid_csum"
  BY <1>2, Accepted DEF Checksum
<1>4. word[n + 1] = Complement(s) BY <1>3
<1> DEFINE a == word[w]
           b == damaged[w]
<1>5. /\ a \in 0..Modulus - 1 /\ b \in 0..Modulus - 1 /\ a # b
      /\ \A v \in Words : v # w => damaged[v] = word[v]
  BY <1>1, <1>2 DEF Contents
<1>7. w = TableWords - 2 <=> w = n OBVIOUS
<1>8. w \in 0..n + 1
  BY SizesAssumption
<1> HIDE DEF word, damaged, n
<1>6. /\ s \in Nat /\ t \in Nat
      /\ w \in 0..0 + n - 1 => t + a = s + b
      /\ w \notin 0..0 + n - 1 => t = s
  BY <1>1, <1>2, <1>5, SumOfDamaged
<1> HIDE DEF a, b
<1>9. CASE w = n
  <2>1. w \notin 0..0 + n - 1 /\ w # n + 1 BY <1>2, <1>9
  <2>2. damaged[n + 1] = word[n + 1] BY <1>2, <1>5, <2>1
  <2>3. t = s BY <1>6, <2>1
  <2> QED BY <1>3, <1>4, <1>7, <1>9, <2>2, <2>3
<1>10. CASE w = n + 1
  <2>1. w \notin 0..0 + n - 1 /\ w # n BY <1>2, <1>10
  <2>2. damaged[n + 1] # word[n + 1] BY <1>5, <1>10 DEF a, b
  <2>3. t = s BY <1>6, <2>1
  <2> QED BY <1>3, <1>4, <1>7, <2>1, <2>2, <2>3
<1>11. CASE w # n /\ w # n + 1
  <2>1. w \in 0..0 + n - 1 BY <1>2, <1>8, <1>11
  <2>2. damaged[n + 1] = word[n + 1] BY <1>2, <1>5, <1>11
  <2>3. t + a = s + b BY <1>6, <2>1
  <2> HIDE DEF s, t
  <2>4. Complement(t) # Complement(s)
    <3>1. SUFFICES ASSUME Complement(t) = Complement(s) PROVE FALSE OBVIOUS
    <3>2. t % Modulus = s % Modulus BY <1>6, <3>1, ComplementSame
    <3>3. t < s => t + Modulus <= s BY <1>2, <1>6, <3>2, SameRemainder
    <3>4. s < t => s + Modulus <= t BY <1>2, <1>6, <3>2, SameRemainder
    <3> QED BY <1>2, <1>5, <1>6, <2>3, <3>3, <3>4
  <2> QED BY <1>3, <1>4, <1>7, <1>11, <2>2, <2>4
<1> QED BY <1>9, <1>10, <1>11

(***************************************************************************)
(* PmImage: theorems                                                       *)
(***************************************************************************)
\* The variables of PmImage have their types.
THEOREM ImageTypeCorrect == ImageSpec => []ImageTypeOK
<1>1. ImageInit => ImageTypeOK
  BY DEF ImageInit, ImageTypeOK
<1> QED BY <1>1, StepType, PTL DEF ImageSpec

\* `pm acap info` and `pm acap load` contradict each other on a file only if it
\* has both a boot header and the table of a partial PDI, whatever the headers
\* and the checksum are.
THEOREM Agreement == ImageSpec => []CommandsAgree
<1>1. ImageInit => VerdictInv
  BY DEF ImageInit, VerdictInv
<1>2. VerdictInv => CommandsAgree
  BY VerdictsAgree DEF VerdictInv, CommandsAgree
<1> QED BY <1>1, <1>2, StepVerdict, PTL DEF ImageSpec

\* The word that the checksum leaves out is the only difference between a
\* table that is accepted and one that is intact, for tables of any length
\* and words of any size.
THEOREM Intact == ImageSpec => []AcceptedIntact
<1>1. ImageInit => ImageTypeOK
  BY DEF ImageInit, ImageTypeOK
<1> QED BY <1>1, StepType, IntactInv, PTL DEF ImageSpec

\* Whatever one word of the table is changed to, the load notices, unless it
\* is the word that the checksum leaves out: two sums that differ by less than
\* the modulus do not have the same complement.
THEOREM Damaged == ImageSpec => DamageFound
<1>1. ImageInit => ImageTypeOK
  BY DEF ImageInit, ImageTypeOK
<1>2. ImageTypeOK /\ ImageTypeOK' =>
        [\A w \in 0..TableWords - 1 :
           /\ VerifyImageHeader(image, 0) = "success"
           /\ \A v \in Words : image'.word[v] # image.word[v] <=> v = w
           => VerifyImageHeader(image', 0) =
                IF w = TableWords - 2 THEN "success" ELSE "invalid_csum"]_image
  BY StepDamage
<1> QED BY <1>1, <1>2, StepType, PTL DEF ImageSpec, DamageFound
=============================================================================
