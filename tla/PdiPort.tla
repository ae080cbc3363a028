------------------------------ MODULE PdiPort ------------------------------
(***************************************************************************)
(* What loading PDIs promises, whatever the driver does to keep it.  The   *)
(* platform management controller is a port that serves one loader at a    *)
(* time.  The PDI it was offered stays as it is while it is served, it is  *)
(* a verified one, and a loader that is told "ok" has had its PDI          *)
(* programmed.                                                             *)
(***************************************************************************)
CONSTANTS
  Loaders,   \* who may load
  Pdis,      \* the verified PDIs
  NoPdi,     \* what the fabric holds, and is offered, before any of them
  Nobody     \* not a loader

VARIABLES
  serving,   \* the loader the port is serving
  offer,     \* the PDI it was offered
  fabric,    \* the PDI programmed last
  answer     \* what each loader was told

vars == <<serving, offer, fabric, answer>>

Init ==
  /\ serving = Nobody
  /\ offer = NoPdi
  /\ fabric = NoPdi
  /\ answer = [t \in Loaders |-> "none"]

Begin(t, p) ==
  /\ serving = Nobody
  /\ serving' = t
  /\ offer' = p
  /\ UNCHANGED <<fabric, answer>>

Complete(outcome) ==
  /\ serving # Nobody
  /\ serving' = Nobody
  /\ offer' = NoPdi
  /\ answer' = [answer EXCEPT ![serving] = outcome]

Accept == Complete("ok") /\ fabric' = offer

Refuse == Complete("failed") /\ UNCHANGED fabric

\* The PDI of a loader fails its verification and is never offered.
Reject(t) ==
  /\ serving # t
  /\ answer[t] = "none"
  /\ answer' = [answer EXCEPT ![t] = "failed"]
  /\ UNCHANGED <<serving, offer, fabric>>

\* A loader takes its answer.
Done(t) ==
  /\ serving # t
  /\ answer[t] # "none"
  /\ answer' = [answer EXCEPT ![t] = "none"]
  /\ UNCHANGED <<serving, offer, fabric>>

Next ==
  \/ \E t \in Loaders, p \in Pdis : Begin(t, p)
  \/ Accept
  \/ Refuse
  \/ \E t \in Loaders : Reject(t) \/ Done(t)

Spec == Init /\ [][Next]_vars
=============================================================================
