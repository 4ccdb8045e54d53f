-------------------------------- MODULE Log --------------------------------
(***************************************************************************)
(* The write-ahead log of kernel/log.c: begin_op, log_write, end_op, the   *)
(* group commit run by the last end_op, and recovery at boot, over a disk  *)
(* that loses nothing but what was never written.  A crash can come        *)
(* between any two disk writes, those of recovery included.                *)
(*                                                                         *)
(* The buffer cache (kernel/bio.c) is seen as the log uses it: buf[b] is   *)
(* the cached copy of b if there is one, a buffer is held from bread to    *)
(* brelse, and one that is neither held nor pinned may be recycled, after  *)
(* which bread reads the disk again.                                       *)
(* Each step that touches `log` is one critical section of log.lock.       *)
(***************************************************************************)
EXTENDS Integers, Sequences, FiniteSets

CONSTANTS
    Procs,        \* processes making file system calls
    Blocks,       \* home blocks
    Vals,         \* block contents
    MAXOPBLOCKS,  \* blocks begin_op reserves for one call
    LOGSIZE,      \* size of the in-memory log header
    NLog,         \* sb->nlog: blocks of the on-disk log, its header included
    OpBlocks,     \* distinct blocks one call really writes, at most
    NoProc,       \* not a process
    NoVal         \* not a block content

ASSUME LogAssumption ==
    /\ IsFiniteSet(Procs) /\ IsFiniteSet(Blocks)
    /\ NoProc \notin Procs
    /\ NoVal \notin Vals
    /\ MAXOPBLOCKS \in Nat \ {0}
    /\ LOGSIZE \in Nat
    /\ MAXOPBLOCKS <= LOGSIZE
    /\ NLog \in Nat \ {0}
    /\ OpBlocks \in Nat

VARIABLES
    disk,         \* home blocks on disk
    diskHead,     \* header block of the on-disk log: the logged block numbers
    diskLog,      \* data blocks of the on-disk log
    buf,          \* the cached copy of a block, NoVal when not cached
    holder,       \* who holds the buffer's sleep-lock
    refcnt,       \* pins taken by log_write
    lh,           \* log.lh: block numbers, lh.n is its length
    outstanding,  \* log.outstanding
    committing,   \* log.committing
    pc,           \* where each process is in begin_op, the call, end_op
    tail,         \* loop index of write_log and install_trans
    written,      \* blocks the current call of each process has written
    boot,         \* progress of recover_from_log
    panicked      \* the panic that stopped the machine, if any

vars == <<disk, diskHead, diskLog, buf, holder, refcnt, lh, outstanding,
          committing, pc, tail, written, boot, panicked>>
stable == <<disk, diskHead, diskLog>>
memory == <<buf, holder, refcnt>>
counts == <<outstanding, committing>>

Labels == {"idle", "asleep", "begin", "op", "commit", "write_log",
           "write_head", "install", "clear", "done"}
BootLabels == {"read_head", "install", "clear", "up"}

(* Data blocks that fit in the on-disk log, after its header.              *)
LogSlots == 1 .. NLog - 1

(* What bread(b) returns.                                                  *)
Content(b) == IF buf[b] = NoVal THEN disk[b] ELSE buf[b]

(* The two panics of log_write's first test: n >= LOGSIZE || n >= size-1.  *)
LogFull == Len(lh) >= LOGSIZE \/ Len(lh) >= NLog - 1

(* At power-on memory is zeroed and initlog is about to run recovery.      *)
Init ==
    /\ \E v \in Vals : /\ disk = [b \in Blocks |-> v]
                       /\ diskLog = [i \in LogSlots |-> v]
    /\ diskHead = <<>>
    /\ buf = [b \in Blocks |-> NoVal]
    /\ holder = [b \in Blocks |-> NoProc]
    /\ refcnt = [b \in Blocks |-> 0]
    /\ lh = <<>>
    /\ outstanding = 0
    /\ committing = FALSE
    /\ pc = [p \in Procs |-> "idle"]
    /\ tail = 1
    /\ written = [p \in Procs |-> {}]
    /\ boot = "read_head"
    /\ panicked = "no"

----------------------------------------------------------------------------
(* Recovery, at boot, before any file system call.                         *)

read_head ==
    /\ boot = "read_head"
    /\ lh' = diskHead
    /\ boot' = "install"
    /\ UNCHANGED <<stable, memory, counts, pc, tail, written, panicked>>

(* One iteration of install_trans(1), or its exit.  dbuf is bread, so the  *)
(* cache holds what is written.                                            *)
recover_install ==
    /\ boot = "install"
    /\ \/ /\ tail <= Len(lh)
          /\ buf' = [buf EXCEPT ![lh[tail]] = diskLog[tail]]
          /\ disk' = [disk EXCEPT ![lh[tail]] = diskLog[tail]]
          /\ tail' = tail + 1
          /\ UNCHANGED boot
       \/ /\ tail > Len(lh)
          /\ boot' = "clear"
          /\ tail' = 1
          /\ UNCHANGED <<buf, disk>>
    /\ UNCHANGED <<diskHead, diskLog, holder, refcnt, lh, counts, pc, written,
                   panicked>>

(* log.lh.n = 0; write_head()                                              *)
recover_clear ==
    /\ boot = "clear"
    /\ lh' = <<>>
    /\ diskHead' = <<>>
    /\ boot' = "up"
    /\ UNCHANGED <<disk, diskLog, memory, counts, pc, tail, written, panicked>>

Running == boot = "up" /\ panicked = "no"

----------------------------------------------------------------------------
(* File system calls.                                                      *)

(* wakeup(&log): every process asleep in begin_op looks again.             *)
Woken(f) == [p \in Procs |-> IF f[p] = "asleep" THEN "begin" ELSE f[p]]

(* Mutant: the reservation forgets the blocks already in the log.          *)
NoSpace_IgnoresLogged == (outstanding + 1) * MAXOPBLOCKS > LOGSIZE

(* this op might exhaust log space; wait for commit                        *)
NoSpace == Len(lh) + (outstanding + 1) * MAXOPBLOCKS > LOGSIZE

begin_op(p) ==
    /\ Running
    /\ pc[p] \in {"idle", "begin"}
    /\ \/ /\ committing \/ NoSpace
          /\ pc' = [pc EXCEPT ![p] = "asleep"]
          /\ UNCHANGED outstanding
       \/ /\ ~committing
          /\ ~NoSpace
          /\ outstanding' = outstanding + 1
          /\ pc' = [pc EXCEPT ![p] = "op"]
    /\ UNCHANGED <<stable, memory, lh, committing, tail, written, boot, panicked>>

(* bread(b), then a change to b->data: the caller holds the buffer.        *)
modify(p, b, v) ==
    /\ Running
    /\ pc[p] = "op"
    /\ holder[b] = NoProc
    /\ Cardinality(written[p] \cup {b}) <= OpBlocks
    /\ buf' = [buf EXCEPT ![b] = v]
    /\ holder' = [holder EXCEPT ![b] = p]
    /\ written' = [written EXCEPT ![p] = @ \cup {b}]
    /\ UNCHANGED <<stable, refcnt, lh, counts, pc, tail, boot, panicked>>

Logged(b) == \E i \in DOMAIN lh : lh[i] = b

(* The checks at the head of log_write: the size test precedes absorption. *)
LogWritePanic ==
    IF LogFull THEN "too_big_a_transaction"
    ELSE IF outstanding < 1 THEN "log_write_outside_of_trans" ELSE "no"

(* log_write(b); brelse(b).  A panic stops the machine there and then.     *)
log_write(p, b) ==
    /\ Running
    /\ pc[p] = "op"
    /\ holder[b] = p
    /\ panicked' = LogWritePanic
    /\ IF Logged(b) \/ LogWritePanic # "no"
       THEN UNCHANGED <<lh, refcnt>>
       ELSE /\ lh' = Append(lh, b)
            /\ refcnt' = [refcnt EXCEPT ![b] = @ + 1]
    /\ holder' = IF LogWritePanic # "no" THEN holder
                 ELSE [holder EXCEPT ![b] = NoProc]
    /\ UNCHANGED <<stable, buf, counts, pc, tail, written, boot>>

(* The first critical section of end_op.  The last call out commits.       *)
end_op(p) ==
    /\ Running
    /\ pc[p] = "op"
    /\ \A b \in Blocks : holder[b] # p
    /\ outstanding' = outstanding - 1
    /\ written' = [written EXCEPT ![p] = {}]
    /\ panicked' = IF committing THEN "log_committing" ELSE "no"
    /\ \/ /\ outstanding' = 0
          /\ committing' = TRUE
          /\ pc' = [pc EXCEPT ![p] = "commit"]
       \/ /\ outstanding' # 0
          /\ pc' = Woken([pc EXCEPT ![p] = "idle"])
          /\ UNCHANGED committing
    /\ UNCHANGED <<stable, memory, lh, tail, boot>>

(* Mutant: commit writes the header before the log blocks.                 *)
commit_HeadFirst(p) ==
    /\ Running
    /\ pc[p] = "commit"
    /\ pc' = [pc EXCEPT ![p] = IF Len(lh) > 0 THEN "write_log" ELSE "done"]
    /\ diskHead' = lh
    /\ UNCHANGED <<disk, diskLog, memory, lh, counts, tail, written, boot, panicked>>

(* commit(): nothing to do when no block was logged.                       *)
commit(p) ==
    /\ Running
    /\ pc[p] = "commit"
    /\ pc' = [pc EXCEPT ![p] = IF Len(lh) > 0 THEN "write_log" ELSE "done"]
    /\ UNCHANGED <<stable, memory, lh, counts, tail, written, boot, panicked>>

(* One iteration of write_log: the cached block goes to its log slot.      *)
write_log(p) ==
    /\ Running
    /\ pc[p] = "write_log"
    /\ \/ /\ tail <= Len(lh)
          /\ holder[lh[tail]] = NoProc
          /\ diskLog' = [diskLog EXCEPT ![tail] = Content(lh[tail])]
          /\ buf' = [buf EXCEPT ![lh[tail]] = Content(lh[tail])]
          /\ tail' = tail + 1
          /\ UNCHANGED pc
       \/ /\ tail > Len(lh)
          /\ pc' = [pc EXCEPT ![p] = "write_head"]
          /\ tail' = 1
          /\ UNCHANGED <<diskLog, buf>>
    /\ UNCHANGED <<disk, diskHead, holder, refcnt, lh, counts, written, boot, panicked>>

(* write_head with n > 0: the true commit point.                           *)
write_head(p) ==
    /\ Running
    /\ pc[p] = "write_head"
    /\ diskHead' = lh
    /\ pc' = [pc EXCEPT ![p] = "install"]
    /\ UNCHANGED <<disk, diskLog, memory, lh, counts, tail, written, boot, panicked>>

(* One iteration of install_trans(0): log block to home block, and unpin.  *)
install_trans(p) ==
    /\ Running
    /\ pc[p] = "install"
    /\ \/ /\ tail <= Len(lh)
          /\ holder[lh[tail]] = NoProc
          /\ buf' = [buf EXCEPT ![lh[tail]] = diskLog[tail]]
          /\ disk' = [disk EXCEPT ![lh[tail]] = diskLog[tail]]
          /\ refcnt' = [refcnt EXCEPT ![lh[tail]] = @ - 1]
          /\ tail' = tail + 1
          /\ UNCHANGED pc
       \/ /\ tail > Len(lh)
          /\ pc' = [pc EXCEPT ![p] = "clear"]
          /\ tail' = 1
          /\ UNCHANGED <<buf, disk, refcnt>>
    /\ UNCHANGED <<diskHead, diskLog, holder, lh, counts, written, boot,
                   panicked>>

(* log.lh.n = 0; write_head()                                              *)
clear_head(p) ==
    /\ Running
    /\ pc[p] = "clear"
    /\ lh' = <<>>
    /\ diskHead' = <<>>
    /\ pc' = [pc EXCEPT ![p] = "done"]
    /\ UNCHANGED <<disk, diskLog, memory, counts, tail, written, boot,
                   panicked>>

(* Mutant: the committing end_op forgets to wake the sleepers.             *)
end_commit_NoWakeup(p) ==
    /\ Running
    /\ pc[p] = "done"
    /\ committing' = FALSE
    /\ pc' = [pc EXCEPT ![p] = "idle"]
    /\ UNCHANGED <<stable, memory, lh, outstanding, tail, written, boot,
                   panicked>>

(* Mutant: end_op forgets that it was committing.                          *)
end_commit_StillCommitting(p) ==
    /\ Running
    /\ pc[p] = "done"
    /\ pc' = Woken([pc EXCEPT ![p] = "idle"])
    /\ UNCHANGED <<stable, memory, lh, counts, tail, written, boot, panicked>>

(* The second critical section of end_op.                                  *)
end_commit(p) ==
    /\ Running
    /\ pc[p] = "done"
    /\ committing' = FALSE
    /\ pc' = Woken([pc EXCEPT ![p] = "idle"])
    /\ UNCHANGED <<stable, memory, lh, outstanding, tail, written, boot,
                   panicked>>

----------------------------------------------------------------------------
(* A read, by any process and outside any transaction, caches a block.     *)
bread(b) ==
    /\ Running
    /\ buf[b] = NoVal
    /\ buf' = [buf EXCEPT ![b] = disk[b]]
    /\ UNCHANGED <<stable, holder, refcnt, lh, counts, pc, tail, written, boot,
                   panicked>>

(* bget recycles a buffer whose refcnt is 0; its block is no longer cached. *)
recycle(b) ==
    /\ Running
    /\ buf[b] # NoVal
    /\ refcnt[b] = 0
    /\ holder[b] = NoProc
    /\ buf' = [buf EXCEPT ![b] = NoVal]
    /\ UNCHANGED <<stable, holder, refcnt, lh, counts, pc, tail, written, boot,
                   panicked>>

(* Power fails and the machine boots again: memory is lost, disk is not.   *)
crash ==
    /\ buf' = [b \in Blocks |-> NoVal]
    /\ holder' = [b \in Blocks |-> NoProc]
    /\ refcnt' = [b \in Blocks |-> 0]
    /\ lh' = <<>>
    /\ outstanding' = 0
    /\ committing' = FALSE
    /\ pc' = [p \in Procs |-> "idle"]
    /\ tail' = 1
    /\ written' = [p \in Procs |-> {}]
    /\ boot' = "read_head"
    /\ panicked' = "no"
    /\ UNCHANGED stable

Call(p) ==
    \/ begin_op(p)
    \/ \E b \in Blocks : (\E v \in Vals : modify(p, b, v)) \/ log_write(p, b)
    \/ end_op(p)
    \/ commit(p)
    \/ write_log(p)
    \/ write_head(p)
    \/ install_trans(p)
    \/ clear_head(p)
    \/ end_commit(p)

Next ==
    \/ read_head \/ recover_install \/ recover_clear
    \/ \E p \in Procs : Call(p)
    \/ \E b \in Blocks : bread(b) \/ recycle(b)
    \/ crash

Spec == Init /\ [][Next]_vars

(* A process that runs keeps running: the scheduler is round robin and a   *)
(* disk write completes.  A call writes finitely many blocks, so it gets   *)
(* to its end_op.  Nothing obliges a process to start a call.              *)
Fairness ==
    /\ WF_vars(read_head \/ recover_install \/ recover_clear)
    /\ \A p \in Procs :
         /\ WF_vars(pc[p] = "begin" /\ begin_op(p))
         /\ WF_vars(\E b \in Blocks : log_write(p, b))
         /\ SF_vars(end_op(p))
         /\ WF_vars(commit(p) \/ write_log(p) \/ write_head(p)
                    \/ install_trans(p) \/ clear_head(p) \/ end_commit(p))

FairSpec == Spec /\ Fairness

----------------------------------------------------------------------------
(* Properties.                                                             *)

Labelled(S) == {p \in Procs : pc[p] \in S}

(* What recovery would leave on the disk if the power failed now.          *)
Recovered ==
    [b \in Blocks |-> IF \E i \in DOMAIN diskHead : diskHead[i] = b
                      THEN diskLog[CHOOSE i \in DOMAIN diskHead : diskHead[i] = b]
                      ELSE disk[b]]

(* What the file system reads: the cache, or before recovery has finished  *)
(* what recovery is about to install.                                      *)
Image == IF boot = "up" THEN [b \in Blocks |-> Content(b)] ELSE Recovered

Atomic == INSTANCE AtomicDisk
          WITH mem <- Image, durable <- Recovered, active <- Labelled({"op"})

(* log.c, with crashes anywhere in commit and in recovery, implements the  *)
(* atomic disk: a call's writes survive a crash all together or not at     *)
(* all, and a recycled buffer never loses a logged write.                  *)
ImplementsAtomicDisk == Atomic!Spec

(* Types of the disk, of the cache, of struct log and of the callers; pin  *)
(* counts and `outstanding` never go below zero.                           *)
TypeOK ==
    /\ disk \in [Blocks -> Vals]
    /\ diskHead \in Seq(Blocks)
    /\ diskLog \in [LogSlots -> Vals]
    /\ buf \in [Blocks -> Vals \cup {NoVal}]
    /\ holder \in [Blocks -> Procs \cup {NoProc}]
    /\ refcnt \in [Blocks -> Nat]
    /\ lh \in Seq(Blocks)
    /\ outstanding \in Nat
    /\ committing \in BOOLEAN
    /\ pc \in [Procs -> Labels]
    /\ tail \in Nat \ {0}
    /\ written \in [Procs -> SUBSET Blocks]
    /\ boot \in BootLabels
    /\ panicked \in {"no", "too_big_a_transaction",
                     "log_write_outside_of_trans", "log_committing"}

(* The space begin_op reserves is enough: no sequence of admitted calls    *)
(* makes log_write find the log full, or end_op find a commit under way.   *)
NoPanic == panicked = "no"

(* When the end_op that commits returns, every completed call is durable:  *)
(* a crash from here on cannot undo it.                                    *)
CommitIsDurable ==
    Labelled({"done"}) # {} => Recovered = [b \in Blocks |-> Content(b)]

(* No lost wakeup on &log: whoever sleeps in begin_op sleeps for a call    *)
(* that has not ended or a commit that has not finished, and so will be    *)
(* woken by its end_op.                                                    *)
SleepersHaveAWaker ==
    Labelled({"asleep"}) # {} => outstanding > 0 \/ committing

(* A block is pending from log_write until install_trans has copied it     *)
(* home.                                                                   *)
Pending(b) ==
    \E i \in DOMAIN lh :
      /\ lh[i] = b
      /\ \A p \in Procs : (pc[p] = "install" => tail <= i) /\ pc[p] # "clear"

(* A buffer is pinned, once, exactly while its block is logged and not yet *)
(* installed: log_write's bpin and install_trans's bunpin balance however  *)
(* often the block is absorbed.                                            *)
PinnedWhilePending ==
    boot = "up" =>
      \A b \in Blocks : refcnt[b] = IF Pending(b) THEN 1 ELSE 0

(* Durability is never taken back: once a call is in the image that        *)
(* recovery would restore, no step but the commit of later calls changes   *)
(* that image; in particular recovery interrupted by a crash loses nothing. *)
RecoveredChangesOnlyAtCommit ==
    [][Recovered' # Recovered =>
         \E p \in Procs : pc[p] = "write_head" /\ pc'[p] = "install"]_vars

(* Whoever sleeps in begin_op is woken, however the other processes' calls *)
(* overlap, as long as calls end; wakeup(&log) wakes all of them at once.  *)
SleeperIsWoken ==
    Labelled({"asleep"}) # {} ~> Labelled({"asleep"}) = {}

(* Every commit ends: the last end_op gets through its writes and lets new *)
(* calls in, or the machine stops.                                         *)
CommitFinishes == committing ~> ~committing

=============================================================================
