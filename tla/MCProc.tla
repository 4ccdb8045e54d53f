------------------------------- MODULE MCProc -------------------------------
(* Instances of Proc for TLC; README.md says why the bounds are enough.    *)
EXTENDS Proc
=============================================================================
