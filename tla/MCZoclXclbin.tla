--------------------------- MODULE MCZoclXclbin ---------------------------
(***************************************************************************)
(* An instance of ZoclXclbin: three apertures and an xclbin of each kind.  *)
(*  "small" and "twin" fill the table together, "large" cannot  *)
(* fit although MAX_APT_NUM admits it, "huge" is above MAX_APT_NUM.        *)
(***************************************************************************)
EXTENDS ZoclXclbin, TLC

All == {"small", "twin", "large", "huge", "magic", "sections", "aie"}

\* Those whose loading does not depend on what is at address 0.
WithAie == All \ {"aie"}

FileForm ==
  [x \in Xclbins |-> CASE x = "magic" -> "bad_magic"
                     [] x = "sections" -> "no_sections"
                     [] x = "aie" -> "no_aie"
                     [] OTHER -> "flat"]

FileUuid == [x \in Xclbins |-> x]

\* One IP of "small" has no address.
FileIps ==
  [x \in Xclbins |-> CASE x = "small" -> <<Null, "a">>
                     [] x = "twin" -> <<"a", "b">>
                     [] x = "large" -> <<"a", "b", "c", "d">>
                     [] x = "huge" -> <<"a", "b", "c", "d", "a", "b", "c">>
                     [] OTHER -> <<>>]

Symmetry == Permutations(Blocks)
=============================================================================
