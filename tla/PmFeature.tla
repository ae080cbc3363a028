----------------------------- MODULE PmFeature -----------------------------
(***************************************************************************)
(* The queries of the PM driver (rtems/pm/pm.c) and the shell commands that *)
(* make them: `pm features`, `pm chipid`, `pm version`, `pm fpga status`.  *)
(* rtems_pm_feature_check keeps the firmware's answers in a table that all *)
(* tasks share and no lock protects; errno is each task's own.             *)
(***************************************************************************)
EXTENDS Naturals

CONSTANTS
  Tasks,       \* the callers
  NumApis,     \* NUMOF(api_id_labels)
  Answers,     \* what the firmware may say to PM_FEATURE_CHECK of each API
  GetChipId,   \* PM_GET_CHIPID
  GetStatus    \* PM_FPGA_GET_STATUS

Apis == 0..NumApis - 1
Commands == {"features", "chipid", "version", "fpga_status"}

\* Register x0 after a call: the values of SMCCC_RET_* and of pm_ret_status.
\* SMCCC_RET_SUCCESS and PM_STATUS_SUCCESS are both 0.
Codes ==
  {"success", "not_supported", "not_required", "invalid_version", "no_feature",
   "internal", "no_access", "double_req", "abort_suspend", "mult_user"}

ASSUME AnswersAssumption ==
  /\ NumApis \in Nat \ {0}
  /\ Answers \in [Apis -> SUBSET Codes \ {{}}]
  /\ GetChipId \in Apis
  /\ GetStatus \in Apis

VARIABLES
  cache,   \* api_feature_status: "success" is 0, which also says "not asked"
  pc,      \* where each task is
  cmd,     \* its command
  api,     \* the API it checks
  x0,      \* the status it read from the firmware or from the table
  r,       \* the result of the driver call so far: 0 or 1 (for -1)
  errno    \* its errno

vars == <<cache, pc, cmd, api, x0, r, errno>>

Errnos == {"0", "ENOTSUP", "EACCES", "ECANCELED", "EIO", "EINVAL"}

\* The errno that pm_result sets for the C result and register x0 of a call.
ResultErrno(result, a0) ==
  CASE result = "success" ->
         (CASE a0 \in {"success", "double_req"} -> "0"
            [] a0 \in {"no_feature", "invalid_version"} -> "ENOTSUP"
            [] a0 = "no_access" -> "EACCES"
            [] a0 = "abort_suspend" -> "ECANCELED"
            [] a0 = "mult_user" -> "EIO"
            [] OTHER -> "EINVAL")
    [] result = "not_supported" -> "ENOTSUP"
    [] OTHER -> "EINVAL"

\* arm_smccc_smc leaves x0 in place as its C result and stores it as well.
SmcErrno(answer) == ResultErrno(answer, answer)

Fails(e) == IF e = "0" THEN 0 ELSE 1

\* The API whose feature a command checks; `pm version` asks about
\* PM_GET_CHIPID too.
CheckedApi(c) ==
  CASE c = "features" -> 0
    [] c = "fpga_status" -> GetStatus
    [] OTHER -> GetChipId

Init ==
  /\ cache = [a \in Apis |-> "success"]
  /\ pc = [t \in Tasks |-> "idle"]
  /\ cmd = [t \in Tasks |-> "features"]
  /\ api = [t \in Tasks |-> 0]
  /\ x0 = [t \in Tasks |-> "success"]
  /\ r = [t \in Tasks |-> 0]
  /\ errno = [t \in Tasks |-> "0"]

Start(t, c) ==
  /\ pc[t] = "idle"
  /\ cmd' = [cmd EXCEPT ![t] = c]
  /\ api' = [api EXCEPT ![t] = CheckedApi(c)]
  /\ pc' = [pc EXCEPT ![t] = "check"]
  /\ UNCHANGED <<cache, x0, r, errno>>

(***************************************************************************)
(* rtems_pm_feature_check                                                  *)
(***************************************************************************)
NotAsked(t) ==
  /\ pc[t] = "check"
  /\ cache[api[t]] = "success"
  /\ pc' = [pc EXCEPT ![t] = "ask"]
  /\ UNCHANGED <<cache, cmd, api, x0, r, errno>>

\* r starts as 0 and errno is left as it is.
Cached(t) ==
  /\ pc[t] = "check"
  /\ cache[api[t]] # "success"
  /\ x0' = [x0 EXCEPT ![t] = cache[api[t]]]
  /\ r' = [r EXCEPT ![t] = 0]
  /\ pc' = [pc EXCEPT ![t] = "judge"]
  /\ UNCHANGED <<cache, cmd, api, errno>>

Ask(t) ==
  /\ pc[t] = "ask"
  /\ \E answer \in Answers[api[t]] :
       /\ x0' = [x0 EXCEPT ![t] = answer]
       /\ errno' = [errno EXCEPT ![t] = SmcErrno(answer)]
       /\ r' = [r EXCEPT ![t] = Fails(SmcErrno(answer))]
  /\ pc' = [pc EXCEPT ![t] = "store"]
  /\ UNCHANGED <<cache, cmd, api>>

Store(t) ==
  /\ pc[t] = "store"
  /\ cache' = [cache EXCEPT ![api[t]] = x0[t]]
  /\ pc' = [pc EXCEPT ![t] = "judge"]
  /\ UNCHANGED <<cmd, api, x0, r, errno>>

\* A denial from the table that leaves errno to an earlier call.
JudgeAsSilent(t, verdict) ==
  LET result == IF verdict = "no_feature" THEN 1 ELSE r[t] IN
  /\ r' = [r EXCEPT ![t] = result]
  /\ pc' = [pc EXCEPT ![t] = IF cmd[t] = "features" THEN "print"
                             ELSE IF result = 0 THEN "call" ELSE "report"]
  /\ UNCHANGED <<cache, cmd, api, x0, errno>>

\* The end of the check; the outcome of the second read of the table is
\* verdict.
JudgeAs(t, verdict) ==
  LET denied == verdict = "no_feature"
      result == IF denied THEN 1 ELSE r[t] IN
  /\ r' = [r EXCEPT ![t] = result]
  /\ errno' = [errno EXCEPT ![t] = IF denied THEN "ENOTSUP" ELSE @]
  /\ pc' = [pc EXCEPT ![t] = IF cmd[t] = "features" THEN "print"
                             ELSE IF result = 0 THEN "call" ELSE "report"]
  /\ UNCHANGED <<cache, cmd, api, x0>>

\* The second look at the table is forgotten.
JudgeForgotten(t) ==
  /\ pc[t] = "judge"
  /\ JudgeAs(t, "success")

\* The table is neither atomic nor volatile: the second read may be served
\* from the register that holds the status already.
Judge(t) ==
  /\ pc[t] = "judge"
  /\ \E verdict \in {x0[t], cache[api[t]]} : JudgeAs(t, verdict)

(***************************************************************************)
(* The callers                                                             *)
(***************************************************************************)
\* One line of `pm features`: the name of the API and strerror(errno).
PrintLine(t) ==
  /\ pc[t] = "print"
  /\ IF api[t] + 1 \in Apis
       THEN /\ api' = [api EXCEPT ![t] = @ + 1]
            /\ pc' = [pc EXCEPT ![t] = "check"]
       ELSE pc' = [pc EXCEPT ![t] = "idle"] /\ UNCHANGED api
  /\ UNCHANGED <<cache, cmd, x0, r, errno>>

\* The call behind the check, which may fail in any way.
Call(t) ==
  /\ pc[t] = "call"
  /\ \E answer \in Codes :
       /\ errno' = [errno EXCEPT ![t] = SmcErrno(answer)]
       /\ r' = [r EXCEPT ![t] = Fails(SmcErrno(answer))]
  /\ pc' = [pc EXCEPT ![t] = "report"]
  /\ UNCHANGED <<cache, cmd, api, x0>>

\* The message: the data, or strerror(errno).
Report(t) ==
  /\ pc[t] = "report"
  /\ pc' = [pc EXCEPT ![t] = "idle"]
  /\ UNCHANGED <<cache, cmd, api, x0, r, errno>>

Next ==
  \E t \in Tasks :
    \/ \E c \in Commands : Start(t, c)
    \/ NotAsked(t) \/ Cached(t) \/ Ask(t) \/ Store(t) \/ Judge(t)
    \/ PrintLine(t) \/ Call(t) \/ Report(t)

Spec == Init /\ [][Next]_vars

(***************************************************************************)
(* Properties                                                              *)
(***************************************************************************)
Locations == {"idle", "check", "ask", "store", "judge", "print", "call", "report"}

TypeOK ==
  /\ cache \in [Apis -> Codes]
  /\ pc \in [Tasks -> Locations]
  /\ cmd \in [Tasks -> Commands]
  /\ api \in [Tasks -> Apis]
  /\ x0 \in [Tasks -> Codes]
  /\ r \in [Tasks -> {0, 1}]
  /\ errno \in [Tasks -> Errnos]

Available(a) == "success" \in Answers[a]

\* The firmware answers each question about the API with PM_STATUS_NO_FEATURE.
Absent(a) == Answers[a] = {"no_feature"}

\* rtems_pm_feature_check never lets a feature pass that the firmware denies
\* with PM_STATUS_NO_FEATURE, whichever tasks ask at the same time and whatever
\* they store; the calls behind the checks are not made for it.  A denial in
\* other words is let pass from the second check on, once it is in the table.
AbsentNotUsed ==
  \A t \in Tasks : pc[t] \in {"print", "call"} /\ r[t] = 0 => ~ Absent(api[t])

\* A failure that is reported comes with an errno that says why.
ErrorExplained ==
  \A t \in Tasks : pc[t] \in {"print", "report"} /\ r[t] = 1 => errno[t] # "0"

\* `pm features` lists the features that are available: a line says "success"
\* exactly if the firmware has the feature.
ListTrue ==
  \A t \in Tasks : pc[t] = "print" => (errno[t] = "0" <=> Available(api[t]))

(***************************************************************************)
(* The inductive invariant behind AbsentNotUsed.                           *)
(***************************************************************************)
Denied(a) == cache[a] = "no_feature"

DenialInv ==
  /\ TypeOK
  /\ \A a \in Apis : Absent(a) => cache[a] = "success" \/ Denied(a)
  /\ \A t \in Tasks : Absent(api[t]) =>
       /\ pc[t] = "store" => x0[t] = "no_feature"
       /\ pc[t] = "judge" => x0[t] = "no_feature" /\ Denied(api[t])
       /\ pc[t] \in {"print", "report"} => r[t] = 1
       /\ pc[t] # "call"

(***************************************************************************)
(* The inductive invariant behind ListTrue for a firmware that answers     *)
(* every question, and always in the same way.                             *)
(***************************************************************************)
FirmwareSteady == \A a \in Apis : Answers[a] \in {{"success"}, {"no_feature"}}

ListInv ==
  /\ TypeOK
  /\ \A a \in Apis : Available(a) => cache[a] = "success"
  /\ \A t \in Tasks : Available(api[t]) =>
       /\ pc[t] \in {"store", "judge"} => x0[t] = "success" /\ errno[t] = "0"
       /\ pc[t] = "print" => errno[t] = "0"
=============================================================================
