------------------------------ MODULE MCVirtio ------------------------------
(* Instance of Virtio for TLC; README.md says why the bounds are enough.   *)
EXTENDS Virtio
=============================================================================
