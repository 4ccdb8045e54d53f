------------------------------ MODULE MCTrap --------------------------------
(* Instance of Trap for TLC; README.md says why the bounds are enough.     *)
EXTENDS Trap
=============================================================================
