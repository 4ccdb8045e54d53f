------------------------------- MODULE LogInv -------------------------------
(***************************************************************************)
(* The inductive invariant of the log (module Log), used by the proofs of  *)
(* LogProofs and itself checked by TLC.                                    *)
(***************************************************************************)
EXTENDS Log

Committing == {"commit", "write_log", "write_head", "install", "clear", "done"}

Distinct(s) == \A i, j \in DOMAIN s : s[i] = s[j] => i = j

(* Home blocks of the first tail - 1 entries of the header are installed.  *)
InstalledBelow(n) == \A i \in DOMAIN lh : i < n => disk[lh[i]] = diskLog[i]

(* Slots of the on-disk log, among those in S, hold the cached copies.     *)
LoggedIn(S) == \A i \in DOMAIN lh : i \in S => diskLog[i] = buf[lh[i]]

(* The two headers name distinct blocks and fit in the on-disk log.        *)
HeadersFit ==
    /\ Distinct(lh) /\ Len(lh) <= NLog - 1
    /\ Distinct(diskHead) /\ Len(diskHead) <= NLog - 1

(* No call runs before recovery is over, and recovery only reads clean     *)
(* buffers.                                                                *)
BootInv ==
    boot # "up" =>
      /\ pc = [p \in Procs |-> "idle"]
      /\ ~committing
      /\ panicked = "no"
      /\ holder = [b \in Blocks |-> NoProc]
      /\ refcnt = [b \in Blocks |-> 0]
      /\ \A b \in Blocks : buf[b] \in {NoVal, disk[b]}
      /\ boot = "read_head" => lh = <<>>
      /\ boot # "install" => tail = 1
      /\ boot # "read_head" => lh = diskHead
      /\ boot = "install" => InstalledBelow(tail)
      /\ boot = "clear" => InstalledBelow(Len(lh) + 1)

(* One process commits at a time, and only while no call is in progress.   *)
CommitExclusive ==
    /\ outstanding = Cardinality(Labelled({"op"}))
    /\ committing = (Labelled(Committing) # {})
    /\ \A p, q \in Procs : pc[p] \in Committing /\ pc[q] \in Committing => p = q
    /\ committing => \A p \in Procs : pc[p] # "op"
    /\ boot = "up" /\ ~committing /\ (\A p \in Procs : pc[p] # "op") => lh = <<>>

(* What a commit has done so far, by where its process is.                 *)
CommitProgress ==
    boot = "up" =>
      /\ (\A p \in Procs : pc[p] \notin {"install", "clear"}) => diskHead = <<>>
      /\ (\A p \in Procs : pc[p] \notin {"write_log", "install"}) => tail = 1
      /\ \A p \in Procs :
           /\ pc[p] \in {"install", "clear"} => diskHead = lh
           /\ pc[p] = "done" => lh = <<>>
           /\ pc[p] = "write_log" => LoggedIn(1 .. tail - 1)
           /\ pc[p] = "write_head" => LoggedIn(DOMAIN lh)
           /\ pc[p] = "install" => /\ LoggedIn({i \in DOMAIN lh : i >= tail})
                                   /\ InstalledBelow(tail)
           /\ pc[p] = "clear" => InstalledBelow(Len(lh) + 1)

(* A cached block that is neither held nor pending is clean.               *)
CacheInv ==
    boot = "up" =>
      \A b \in Blocks :
        /\ refcnt[b] = IF Pending(b) THEN 1 ELSE 0
        /\ Pending(b) => buf[b] # NoVal
        /\ holder[b] # NoProc => pc[holder[b]] = "op" /\ buf[b] # NoVal
        /\ holder[b] = NoProc /\ ~Pending(b) => buf[b] \in {NoVal, disk[b]}

(* The inductive invariant: what log.c relies on between any two steps.    *)
IInv ==
    /\ TypeOK
    /\ HeadersFit
    /\ BootInv
    /\ CommitExclusive
    /\ CommitProgress
    /\ CacheInv

----------------------------------------------------------------------------
(* The reservation of begin_op.                                            *)

(* Blocks p has written that are in the log: they cost no more space.      *)
Used(p) == {b \in written[p] : Logged(b)}

(* Log blocks reserved by the calls in progress and not used yet.          *)
Unused ==
    {t \in Labelled({"op"}) \X (1 .. MAXOPBLOCKS) : t[2] > Cardinality(Used(t[1]))}

(* Calls that leave MAXOPBLOCKS - OpBlocks of their reservation unused     *)
(* leave room for the header block, which the reservation does not count.  *)
ReserveFits ==
    /\ OpBlocks < MAXOPBLOCKS
    /\ LOGSIZE - (MAXOPBLOCKS - OpBlocks) < NLog - 1

(* What is logged and what is still reserved fit in the log together: what *)
(* begin_op checks when it admits a call stays true until the call ends.   *)
ReserveInv ==
    /\ panicked = "no"
    /\ \A b \in Blocks : holder[b] # NoProc => b \in written[holder[b]]
    /\ \A p \in Procs : Cardinality(written[p]) <= OpBlocks
    /\ boot = "up" => Len(lh) + Cardinality(Unused) <= LOGSIZE

=============================================================================
