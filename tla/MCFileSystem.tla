---------------------------- MODULE MCFileSystem ----------------------------
(* What a descriptor leads to, one model at a time: the tree of inodes and *)
(* directories (Inode), the contents of files (FileData), where two        *)
(* processes share a descriptor of one file and one also writes another,   *)
(* and a pipe (Pipe).  A behaviour is one of the part that `part' names.   *)
EXTENDS MCInode, FileData, Pipe

CONSTANTS f1, f2

VARIABLE part

MCByte     == (p1 :> 7) @@ (p2 :> 8)
MCIp       == (f1 :> 2) @@ (f2 :> 3)
MCFilesOf  == (p1 :> {f1}) @@ (p2 :> {f1, f2})
MCContents == << <<5, 6, 5>> >>
MCLengths  == {1, 3, -1}

FInit == /\ part \in {"tree", "data", "pipe"} /\ TInit /\ DInit /\ Init
         /\ part # "tree" => calls = 0

FNext == \/ part = "tree" /\ TNext /\ UNCHANGED <<part, dvars, vars>>
         \/ part = "data" /\ DNext /\ UNCHANGED <<part, tvars, vars>>
         \/ part = "pipe" /\ Next /\ UNCHANGED <<part, tvars, dvars>>

FSpec == FInit /\ [][FNext]_<<part, tvars, dvars, vars>>

----------------------------------------------------------------------------
(* The invariants of the tree and of the data, each in its own part; in    *)
(* the others these variables keep their initial values.                   *)

(* In every state of the tree part TreeInv holds: the link counts a crash  *)
(* leaves, "..", the cached inodes, and that ilock, unlink and iput of     *)
(* fs.c and sysfile.c find what they rely on.                              *)
TreeSound == part = "tree" => TreeInv

(* In every state of the tree part RefCounts holds: the reference counts   *)
(* of inodes and files are exact on every path through every call.         *)
RefCountsExact == part = "tree" => RefCounts

(* In every state of the tree part NoLockCycle holds: calls that lock two  *)
(* inodes, and iput, never wait for each other in a circle.                *)
NoLocksInCircle == part = "tree" => NoLockCycle

(* In every state of the data part BlocksInv holds: bitmap, inodes and     *)
(* block maps agree inside transactions and after every crash.             *)
BlocksSound == part = "data" => BlocksInv

(* In every state of the data part ReadsBack holds: readi returns what     *)
(* writei, filewrite and truncations have made of the file.                *)
FilesReadBack == part = "data" => ReadsBack

(* In every state of the data part TransactionFits holds: no chunk of      *)
(* filewrite logs more blocks than begin_op has reserved.                  *)
ChunksFit == part = "data" => TransactionFits
=============================================================================
