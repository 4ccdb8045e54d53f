------------------------------- MODULE MCPipe -------------------------------
(* Instances of Pipe for TLC; README.md says why the bounds are enough.    *)
EXTENDS Pipe
=============================================================================
