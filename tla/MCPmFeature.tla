---------------------------- MODULE MCPmFeature ----------------------------
(***************************************************************************)
(* Instances of PmFeature with three APIs.                                 *)
(***************************************************************************)
EXTENDS PmFeature, TLC

\* Unknown to the firmware, absent, and there with questions that fail for a
\* while.
Unsteady ==
  [a \in Apis |-> CASE a = 0 -> {"not_supported"}
                    [] a = 1 -> {"no_feature"}
                    [] OTHER -> {"success", "internal", "not_supported"}]

\* The firmware does not know the third API and says so with a status that is
\* not PM_STATUS_NO_FEATURE; the API before it is there.
Unknown ==
  [a \in Apis |-> CASE a = 0 -> {"no_feature"}
                    [] a = 1 -> {"success"}
                    [] OTHER -> {"not_supported"}]

Symmetry == Permutations(Tasks)
=============================================================================
