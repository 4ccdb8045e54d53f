------------------------------- MODULE MCLog -------------------------------
(* The instance of Log for TLC; README.md says why the bounds are enough.  *)
EXTENDS LogInv
=============================================================================
