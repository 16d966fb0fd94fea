--------------------------- MODULE MCVerification ---------------------------
(* Instances of Verification for TLC.                                       *)
EXTENDS Verification, TLC

CONSTANTS k1, k2
=============================================================================
