------------------------------ MODULE MCBCache ------------------------------
(* Instances of BCache for TLC; README.md says why the bounds are enough.  *)
EXTENDS BCache
=============================================================================
