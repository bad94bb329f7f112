------------------------------ MODULE MCDoctor ------------------------------
(***************************************************************************)
(* Instances of Doctor for TLC.                                            *)
(***************************************************************************)
EXTENDS Doctor

(* A child that is clean, has findings, or is in trouble.                  *)
FewExitCodes == {0, 1, 2}

(* access succeeds, or fails on one file of audit-doctor's and one of a    *)
(* child's.                                                                *)
FewBlindSets == {{}, {"doctor-json", "facts"}}
=============================================================================
