------------------------------ MODULE MCClaims ------------------------------
(* The claims and the files of the resources, for TLC.                     *)
EXTENDS ResourceFiles, TLC

(* Requests are alike, and so are sweeps: every property is a safety one.  *)
Alike == Permutations(Manual) \cup Permutations(Sweeps)
=============================================================================
