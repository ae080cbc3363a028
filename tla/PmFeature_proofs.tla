-------------------------- MODULE PmFeature_proofs --------------------------
(***************************************************************************)
(* PmFeature's type invariant, that every reported failure is explained,   *)
(* and that no task passes the check of a feature that the firmware denies:*)
(* for any number of tasks and APIs and any answers.                       *)
(***************************************************************************)
EXTENDS PmFeature, TLAPS

(***************************************************************************)
(* Types                                                                   *)
(***************************************************************************)
\* pm_result sets one of the six values of errno.
LEMMA ErrnoType == \A a \in Codes : SmcErrno(a) \in Errnos
BY DEF Codes, SmcErrno, ResultErrno, Errnos

\* A driver call fails exactly when pm_result set errno.
LEMMA FailsType == \A e \in Errnos : Fails(e) \in {0, 1} /\ (Fails(e) = 1 => e # "0")
BY DEF Fails

LEMMA ApiZero == 0 \in Apis
BY AnswersAssumption DEF Apis

LEMMA CheckedApiType == \A c \in Commands : CheckedApi(c) \in Apis
BY ApiZero, AnswersAssumption DEF CheckedApi

LEMMA AnswersType == \A a \in Apis : Answers[a] \subseteq Codes
BY AnswersAssumption

\* What a failure carries from the SMC call to the message: the strengthening
\* of ErrorExplained.
ErrorInv ==
  /\ TypeOK
  /\ \A t \in Tasks : pc[t] \in {"store", "judge", "print", "report"} /\ r[t] = 1
                        => errno[t] # "0"

\* The initial state has the types and no failure.
LEMMA ErrorInit == Init => ErrorInv
<1> SUFFICES ASSUME Init PROVE ErrorInv
  OBVIOUS
<1>1. TypeOK
  BY ApiZero DEF Init, TypeOK, Codes, Locations, Commands, Errnos
<1>2. \A t \in Tasks : pc[t] = "idle"
  BY DEF Init
<1> QED BY <1>1, <1>2 DEF ErrorInv

\* Every step keeps the types, and a failure never loses its errno.
LEMMA ErrorStep == ErrorInv /\ [Next]_vars => ErrorInv'
<1> SUFFICES ASSUME ErrorInv, [Next]_vars PROVE ErrorInv'
  OBVIOUS
<1> USE DEF ErrorInv
<1>1. CASE UNCHANGED vars
  BY <1>1 DEF vars, TypeOK
<1>2. ASSUME NEW t \in Tasks, NEW c \in Commands, Start(t, c) PROVE ErrorInv'
  BY <1>2, CheckedApiType DEF Start, TypeOK, Locations
<1>3. ASSUME NEW t \in Tasks, NotAsked(t) PROVE ErrorInv'
  BY <1>3 DEF NotAsked, TypeOK, Locations
<1>4. ASSUME NEW t \in Tasks, Cached(t) PROVE ErrorInv'
  BY <1>4 DEF Cached, TypeOK, Locations
<1>5. ASSUME NEW t \in Tasks, Ask(t) PROVE ErrorInv'
  <2>1. PICK answer \in Answers[api[t]] :
          /\ x0' = [x0 EXCEPT ![t] = answer]
          /\ errno' = [errno EXCEPT ![t] = SmcErrno(answer)]
          /\ r' = [r EXCEPT ![t] = Fails(SmcErrno(answer))]
    BY <1>5 DEF Ask
  <2>2. answer \in Codes
    BY AnswersType DEF TypeOK
  <2>3. /\ SmcErrno(answer) \in Errnos
        /\ Fails(SmcErrno(answer)) \in {0, 1}
        /\ Fails(SmcErrno(answer)) = 1 => SmcErrno(answer) # "0"
    BY <2>2, ErrnoType, FailsType
  <2> QED BY <1>5, <2>1, <2>2, <2>3 DEF Ask, TypeOK, Locations
<1>6. ASSUME NEW t \in Tasks, Store(t) PROVE ErrorInv'
  BY <1>6 DEF Store, TypeOK, Locations
<1>7. ASSUME NEW t \in Tasks, Judge(t) PROVE ErrorInv'
  <2>1. PICK verdict : JudgeAs(t, verdict)
    BY <1>7 DEF Judge
  <2>2. pc[t] = "judge"
    BY <1>7 DEF Judge
  <2> QED BY <2>1, <2>2 DEF JudgeAs, TypeOK, Locations, Errnos
<1>8. ASSUME NEW t \in Tasks, PrintLine(t) PROVE ErrorInv'
  BY <1>8 DEF PrintLine, TypeOK, Locations
<1>9. ASSUME NEW t \in Tasks, Call(t) PROVE ErrorInv'
  <2>1. PICK answer \in Codes :
          /\ errno' = [errno EXCEPT ![t] = SmcErrno(answer)]
          /\ r' = [r EXCEPT ![t] = Fails(SmcErrno(answer))]
    BY <1>9 DEF Call
  <2>2. /\ SmcErrno(answer) \in Errnos
        /\ Fails(SmcErrno(answer)) \in {0, 1}
        /\ Fails(SmcErrno(answer)) = 1 => SmcErrno(answer) # "0"
    BY ErrnoType, FailsType
  <2> QED BY <1>9, <2>1, <2>2 DEF Call, TypeOK, Locations
<1>10. ASSUME NEW t \in Tasks, Report(t) PROVE ErrorInv'
  BY <1>10 DEF Report, TypeOK, Locations
<1> QED
  BY <1>1, <1>2, <1>3, <1>4, <1>5, <1>6, <1>7, <1>8, <1>9, <1>10 DEF Next

\* The variables of PmFeature have their types.
THEOREM TypeCorrect == Spec => []TypeOK
<1>1. ErrorInv => TypeOK
  BY DEF ErrorInv
<1> QED BY <1>1, ErrorInit, ErrorStep, PTL DEF Spec

\* Whenever a query of the PM driver has failed, the errno that its caller
\* reports is one that pm_result or rtems_pm_feature_check has set.
THEOREM Explained == Spec => []ErrorExplained
<1>1. ErrorInv => ErrorExplained
  BY DEF ErrorInv, ErrorExplained
<1> QED BY <1>1, ErrorInit, ErrorStep, PTL DEF Spec

(***************************************************************************)
(* Denied features                                                         *)
(***************************************************************************)
LEMMA DenialInit == Init => DenialInv
<1> SUFFICES ASSUME Init PROVE DenialInv
  OBVIOUS
<1>1. TypeOK
  BY ErrorInit DEF ErrorInv
<1> QED BY <1>1, ApiZero DEF DenialInv, Init, Denied

\* A step may deny a feature for good and never takes the denial back.
LEMMA DenialStep ==
  ASSUME DenialInv, TypeOK', [Next]_vars
  PROVE  DenialInv'
<1>1. \A a \in Apis : Absent(a) => \A answer \in Answers[a] : answer = "no_feature"
  BY DEF Absent
<1> USE DEF DenialInv, Denied
<1>2. CASE UNCHANGED vars
  BY <1>2 DEF vars
<1>3. ASSUME NEW t \in Tasks, NEW c \in Commands, Start(t, c) PROVE DenialInv'
  BY <1>3 DEF Start, TypeOK
<1>4. ASSUME NEW t \in Tasks, NotAsked(t) PROVE DenialInv'
  BY <1>4 DEF NotAsked, TypeOK
<1>5. ASSUME NEW t \in Tasks, Cached(t) PROVE DenialInv'
  BY <1>5 DEF Cached, TypeOK
<1>6. ASSUME NEW t \in Tasks, Ask(t) PROVE DenialInv'
  BY <1>1, <1>6 DEF Ask, TypeOK
<1>7. ASSUME NEW t \in Tasks, Store(t) PROVE DenialInv'
  BY <1>7 DEF Store, TypeOK
<1>8. ASSUME NEW t \in Tasks, Judge(t) PROVE DenialInv'
  <2>1. PICK verdict \in {x0[t], cache[api[t]]} : JudgeAs(t, verdict)
    BY <1>8 DEF Judge
  <2>2. pc[t] = "judge"
    BY <1>8 DEF Judge
  <2>3. Absent(api[t]) => verdict = "no_feature"
    BY <2>1, <2>2
  <2> QED BY <2>1, <2>2, <2>3 DEF JudgeAs, TypeOK
<1>9. ASSUME NEW t \in Tasks, PrintLine(t) PROVE DenialInv'
  BY <1>9 DEF PrintLine, TypeOK
<1>10. ASSUME NEW t \in Tasks, Call(t) PROVE DenialInv'
  BY <1>10 DEF Call, TypeOK
<1>11. ASSUME NEW t \in Tasks, Report(t) PROVE DenialInv'
  BY <1>11 DEF Report, TypeOK
<1> QED
  BY <1>2, <1>3, <1>4, <1>5, <1>6, <1>7, <1>8, <1>9, <1>10, <1>11 DEF Next

\* The table, once it holds the denial of a feature that the firmware does not
\* have, holds it for ever, and every check that is under way will deny it.
THEOREM Denial == Spec => []DenialInv
<1>1. DenialInv /\ TypeOK' /\ [Next]_vars => DenialInv'
  BY DenialStep
<1> QED BY <1>1, DenialInit, TypeCorrect, PTL DEF Spec

\* No task goes on to use a feature that the firmware denies, whatever it
\* answers about the others.
THEOREM AbsentUnused == Spec => []AbsentNotUsed
<1>1. DenialInv => AbsentNotUsed
  BY DEF DenialInv, AbsentNotUsed, TypeOK
<1> QED BY <1>1, Denial, PTL

(***************************************************************************)
(* The list of `pm features`                                               *)
(***************************************************************************)
LEMMA ListInit == Init => ListInv
<1> SUFFICES ASSUME Init PROVE ListInv
  OBVIOUS
<1>1. TypeOK
  BY ErrorInit DEF ErrorInv
<1> QED BY <1>1 DEF ListInv, Init, TypeOK

\* A question about a feature that is there succeeds, so the table stays empty
\* for it and errno is set by each check.
LEMMA ListStep ==
  ASSUME FirmwareSteady, ListInv, TypeOK', [Next]_vars
  PROVE  ListInv'
<1>1. \A a \in Apis : Available(a) => \A answer \in Answers[a] : answer = "success"
  BY DEF FirmwareSteady, Available
<1>2. SmcErrno("success") = "0"
  BY DEF SmcErrno, ResultErrno
<1> USE DEF ListInv
<1>3. CASE UNCHANGED vars
  BY <1>3 DEF vars
<1>4. ASSUME NEW t \in Tasks, NEW c \in Commands, Start(t, c) PROVE ListInv'
  BY <1>4 DEF Start, TypeOK
<1>5. ASSUME NEW t \in Tasks, NotAsked(t) PROVE ListInv'
  BY <1>5 DEF NotAsked, TypeOK
<1>6. ASSUME NEW t \in Tasks, Cached(t) PROVE ListInv'
  BY <1>6 DEF Cached, TypeOK
<1>7. ASSUME NEW t \in Tasks, Ask(t) PROVE ListInv'
  BY <1>1, <1>2, <1>7 DEF Ask, TypeOK
<1>8. ASSUME NEW t \in Tasks, Store(t) PROVE ListInv'
  BY <1>8 DEF Store, TypeOK
<1>9. ASSUME NEW t \in Tasks, Judge(t) PROVE ListInv'
  <2>1. PICK verdict \in {x0[t], cache[api[t]]} : JudgeAs(t, verdict)
    BY <1>9 DEF Judge
  <2>2. pc[t] = "judge"
    BY <1>9 DEF Judge
  <2>3. Available(api[t]) => verdict = "success"
    BY <2>1, <2>2 DEF TypeOK
  <2> QED BY <2>1, <2>2, <2>3 DEF JudgeAs, TypeOK
<1>10. ASSUME NEW t \in Tasks, PrintLine(t) PROVE ListInv'
  BY <1>10 DEF PrintLine, TypeOK
<1>11. ASSUME NEW t \in Tasks, Call(t) PROVE ListInv'
  BY <1>11 DEF Call, TypeOK
<1>12. ASSUME NEW t \in Tasks, Report(t) PROVE ListInv'
  BY <1>12 DEF Report, TypeOK
<1> QED
  BY <1>3, <1>4, <1>5, <1>6, <1>7, <1>8, <1>9, <1>10, <1>11, <1>12 DEF Next

\* If the firmware answers every question by yes or by no, `pm features` says
\* "success" of the features that are there and of no other.
THEOREM ListIsTrue ==
  ASSUME FirmwareSteady
  PROVE  Spec => []ListTrue
<1>1. \A a \in Apis : Available(a) \/ Absent(a)
  BY DEF FirmwareSteady, Available, Absent
<1>2. Spec => []DenialInv
  BY Denial
<1>3. ListInv /\ TypeOK' /\ [Next]_vars => ListInv'
  BY ListStep
<1>4. ListInv /\ DenialInv /\ ErrorInv => ListTrue
  BY <1>1 DEF ListInv, DenialInv, ErrorInv, ListTrue, TypeOK
<1>5. Spec => []ErrorInv
  BY ErrorInit, ErrorStep, PTL DEF Spec
<1> QED BY <1>2, <1>3, <1>4, <1>5, ListInit, TypeCorrect, PTL DEF Spec
=============================================================================
