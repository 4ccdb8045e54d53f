------------------------------- MODULE BCache -------------------------------
(***************************************************************************)
(* The buffer cache of kernel/bio.c with the sleep-lock of each buffer     *)
(* (kernel/sleeplock.c): bget with LRU recycling, bread, bwrite, brelse,   *)
(* bpin and bunpin.  A step is one critical section of bcache.lock or of   *)
(* the sleep-lock's spinlock, or one disk access.                          *)
(*                                                                         *)
(* The pins are the log's: it pins a block once, and at most MaxPinned     *)
(* blocks (theorem Pinning of LogProofs).  A holder may change a buffer    *)
(* and release it neither written nor pinned, as writei does when its copy *)
(* fails half way; the cache then keeps the change until it recycles the   *)
(* buffer.                                                                 *)
(*                                                                         *)
(* A member of Procs is one use of the cache, from bget to brelse: a       *)
(* process that has two buffers at a time counts as two.                   *)
(***************************************************************************)
EXTENDS Integers, FiniteSets

CONSTANTS
    Procs,      \* processes
    Blocks,     \* block numbers
    Vals,       \* block contents
    NBUF,       \* buffers
    MaxPinned,  \* bound: blocks the log pins at the same time
    NoProc,     \* not a process
    NoBlock     \* dev 0: no block of a disk

ASSUME BCacheAssumption ==
    /\ IsFiniteSet(Procs)
    /\ NoProc \notin Procs /\ NoBlock \notin Blocks
    /\ NBUF \in Nat \ {0}
    /\ MaxPinned \in Nat
    /\ Vals # {}

Bufs == 1 .. NBUF

VARIABLES
    disk,
    lru,        \* the list from head.next (most recent) to head.prev
    blockno,    \* b->dev and b->blockno
    valid,      \* b->valid
    refcnt,     \* b->refcnt
    locked,     \* b->lock: the holder of the sleep-lock
    data,       \* b->data
    pinned,     \* blocks pinned by the log
    pc,         \* where each process is
    want,       \* the block it asked bget for
    mine,       \* the buffer bget gave it
    panicked    \* bget spins in panic(no buffers) with bcache.lock held

vars == <<disk, lru, blockno, valid, refcnt, locked, data, pinned, pc, want,
          mine, panicked>>
buf == <<blockno, valid, data>>
user == <<want, mine>>

Labels == {"idle", "lock", "asleep", "read", "have", "unref"}

(* After binit(): the last buffer is at the head of the list.              *)
Init ==
    /\ disk \in [Blocks -> Vals]
    /\ lru = [k \in Bufs |-> NBUF + 1 - k]
    /\ blockno = [i \in Bufs |-> NoBlock]
    /\ valid = [i \in Bufs |-> FALSE]
    /\ refcnt = [i \in Bufs |-> 0]
    /\ locked = [i \in Bufs |-> NoProc]
    /\ data = [i \in Bufs |-> CHOOSE v \in Vals : TRUE]
    /\ pinned = {}
    /\ pc = [p \in Procs |-> "idle"]
    /\ want = [p \in Procs |-> NoBlock]
    /\ mine = [p \in Procs |-> 1]
    /\ panicked = FALSE

Goto(p, label) == pc' = [pc EXCEPT ![p] = label]

----------------------------------------------------------------------------
(* bget(): both loops are one critical section of bcache.lock.             *)

Cached(b) == {i \in Bufs : blockno[i] = b}

(* The second loop runs from head.prev.                                    *)
Victim == lru[CHOOSE k \in Bufs :
                 /\ refcnt[lru[k]] = 0
                 /\ \A j \in Bufs : refcnt[lru[j]] = 0 => j <= k]

Hit(p, b) ==
    \E i \in Cached(b) :
      /\ refcnt' = [refcnt EXCEPT ![i] = @ + 1]
      /\ mine' = [mine EXCEPT ![p] = i]
      /\ UNCHANGED buf

(* Mutant: a recycled buffer keeps the valid flag of its old block.        *)
Recycle_KeepsValid(p, b) ==
    /\ \E i \in Bufs : refcnt[i] = 0
    /\ blockno' = [blockno EXCEPT ![Victim] = b]
    /\ refcnt' = [refcnt EXCEPT ![Victim] = 1]
    /\ mine' = [mine EXCEPT ![p] = Victim]
    /\ UNCHANGED <<data, valid>>

Recycle(p, b) ==
    /\ \E i \in Bufs : refcnt[i] = 0
    /\ blockno' = [blockno EXCEPT ![Victim] = b]
    /\ valid' = [valid EXCEPT ![Victim] = FALSE]
    /\ refcnt' = [refcnt EXCEPT ![Victim] = 1]
    /\ mine' = [mine EXCEPT ![p] = Victim]
    /\ UNCHANGED data

bget(p, b) ==
    /\ ~panicked /\ pc[p] = "idle"
    /\ want' = [want EXCEPT ![p] = b]
    /\ \/ /\ Cached(b) # {}
          /\ Hit(p, b)
          /\ Goto(p, "lock")
          /\ UNCHANGED panicked
       \/ /\ Cached(b) = {}
          /\ Recycle(p, b)
          /\ Goto(p, "lock")
          /\ UNCHANGED panicked
       \/ /\ Cached(b) = {}
          /\ \A i \in Bufs : refcnt[i] # 0
          /\ panicked' = TRUE
          /\ UNCHANGED <<buf, refcnt, mine, pc>>
    /\ UNCHANGED <<disk, lru, locked, pinned>>

(* Mutant: a process that was woken takes the lock without testing again.  *)
acquiresleep_NoTest(p) ==
    /\ pc[p] = "lock"
    /\ locked' = [locked EXCEPT ![mine[p]] = p]
    /\ Goto(p, "read")
    /\ UNCHANGED <<disk, lru, buf, refcnt, pinned, user, panicked>>

(* acquiresleep(&b->lock): one turn of its loop.                           *)
acquiresleep(p) ==
    /\ pc[p] = "lock"
    /\ \/ /\ locked[mine[p]] # NoProc
          /\ Goto(p, "asleep")
          /\ UNCHANGED locked
       \/ /\ locked[mine[p]] = NoProc
          /\ locked' = [locked EXCEPT ![mine[p]] = p]
          /\ Goto(p, "read")
    /\ UNCHANGED <<disk, lru, buf, refcnt, pinned, user, panicked>>

(* The rest of bread().                                                    *)
bread(p) ==
    /\ pc[p] = "read"
    /\ IF valid[mine[p]] THEN UNCHANGED <<data, valid>>
       ELSE /\ data' = [data EXCEPT ![mine[p]] = disk[blockno[mine[p]]]]
            /\ valid' = [valid EXCEPT ![mine[p]] = TRUE]
    /\ Goto(p, "have")
    /\ UNCHANGED <<disk, lru, blockno, refcnt, locked, pinned, user, panicked>>

----------------------------------------------------------------------------
(* What the holder of a buffer does with it.                               *)

(* The caller writes to b->data.                                           *)
modify(p, v) ==
    /\ pc[p] = "have"
    /\ data' = [data EXCEPT ![mine[p]] = v]
    /\ UNCHANGED <<disk, lru, blockno, valid, refcnt, locked, pinned, pc, user,
                   panicked>>

bwrite(p) ==
    /\ pc[p] = "have"
    /\ disk' = [disk EXCEPT ![blockno[mine[p]]] = data[mine[p]]]
    /\ UNCHANGED <<lru, buf, refcnt, locked, pinned, pc, user, panicked>>

bpin(p) ==
    /\ ~panicked /\ pc[p] = "have"
    /\ want[p] \notin pinned
    /\ Cardinality(pinned) < MaxPinned
    /\ pinned' = pinned \cup {want[p]}
    /\ refcnt' = [refcnt EXCEPT ![mine[p]] = @ + 1]
    /\ UNCHANGED <<disk, lru, buf, locked, pc, user, panicked>>

bunpin(p) ==
    /\ ~panicked /\ pc[p] = "have"
    /\ want[p] \in pinned
    /\ pinned' = pinned \ {want[p]}
    /\ refcnt' = [refcnt EXCEPT ![mine[p]] = @ - 1]
    /\ UNCHANGED <<disk, lru, buf, locked, pc, user, panicked>>

(* Mutant: releasesleep forgets wakeup(lk).                                *)
releasesleep_NoWakeup(p) ==
    /\ pc[p] = "have"
    /\ locked' = [locked EXCEPT ![mine[p]] = NoProc]
    /\ Goto(p, "unref")
    /\ UNCHANGED <<disk, lru, buf, refcnt, pinned, user, panicked>>

(* brelse(): releasesleep(&b->lock) with its wakeup, then ...              *)
releasesleep(p) ==
    /\ pc[p] = "have"
    /\ locked' = [locked EXCEPT ![mine[p]] = NoProc]
    /\ pc' = [q \in Procs |-> IF q = p THEN "unref"
                              ELSE IF pc[q] = "asleep" /\ mine[q] = mine[p]
                                   THEN "lock" ELSE pc[q]]
    /\ UNCHANGED <<disk, lru, buf, refcnt, pinned, user, panicked>>

(* Buffer i moves to the head of the list, those before it one place back. *)
Front(i) ==
    LET at == CHOOSE k \in Bufs : lru[k] = i
    IN [k \in Bufs |-> IF k = 1 THEN i ELSE IF k <= at THEN lru[k - 1] ELSE lru[k]]

(* Mutant: the last user counts itself out, the others do not.             *)
brelse_LastOnly(p) ==
    /\ ~panicked /\ pc[p] = "unref"
    /\ refcnt' = [refcnt EXCEPT ![mine[p]] = IF @ = 1 THEN 0 ELSE @]
    /\ lru' = IF refcnt[mine[p]] = 1 THEN Front(mine[p]) ELSE lru
    /\ Goto(p, "idle")
    /\ UNCHANGED <<disk, buf, locked, pinned, user, panicked>>

(* ... the critical section of bcache.lock.                                *)
brelse(p) ==
    /\ ~panicked /\ pc[p] = "unref"
    /\ refcnt' = [refcnt EXCEPT ![mine[p]] = @ - 1]
    /\ lru' = IF refcnt[mine[p]] = 1 THEN Front(mine[p]) ELSE lru
    /\ Goto(p, "idle")
    /\ UNCHANGED <<disk, buf, locked, pinned, user, panicked>>

----------------------------------------------------------------------------
Step(p) == acquiresleep(p) \/ bread(p) \/ releasesleep(p) \/ brelse(p)

Next ==
    \E p \in Procs :
      \/ \E b \in Blocks : bget(p, b)
      \/ Step(p)
      \/ \E v \in Vals : modify(p, v)
      \/ bwrite(p) \/ bpin(p) \/ bunpin(p)

Spec == Init /\ [][Next]_vars

(* A process keeps running, and who has a buffer gives it up.              *)
Fairness ==
    \A p \in Procs :
      /\ WF_vars(acquiresleep(p))
      /\ WF_vars(bread(p))
      /\ WF_vars(releasesleep(p))
      /\ WF_vars(brelse(p))

FairSpec == Spec /\ Fairness

----------------------------------------------------------------------------
(* Properties.                                                             *)

(* Processes between bget and the end of brelse with buffer i.             *)
Users(i) == {p \in Procs : pc[p] # "idle" /\ mine[p] = i}

Linked ==
    /\ lru \in [Bufs -> Bufs]
    /\ \A j, k \in Bufs : lru[j] = lru[k] => j = k
    /\ \A i \in Bufs : \E k \in Bufs : lru[k] = i

(* Types; the list always links every buffer once.                         *)
TypeOK ==
    /\ disk \in [Blocks -> Vals]
    /\ Linked
    /\ blockno \in [Bufs -> Blocks \cup {NoBlock}]
    /\ valid \in [Bufs -> BOOLEAN]
    /\ refcnt \in [Bufs -> Nat]
    /\ locked \in [Bufs -> Procs \cup {NoProc}]
    /\ data \in [Bufs -> Vals]
    /\ pinned \subseteq Blocks
    /\ pc \in [Procs -> Labels]
    /\ want \in [Procs -> Blocks \cup {NoBlock}]
    /\ mine \in [Procs -> Bufs]
    /\ panicked \in BOOLEAN

(* The buffer a process waits for or has is still the buffer of the block  *)
(* it asked for, however long it slept in acquiresleep: bget does not      *)
(* recycle it meanwhile.                                                   *)
BufferStaysBlock ==
    \A p \in Procs :
      pc[p] # "idle" => want[p] \in Blocks /\ blockno[mine[p]] = want[p]

(* refcnt counts exactly the users and the pin, so a buffer is unused when *)
(* it says 0 and is never leaked.                                          *)
RefcntExact ==
    \A i \in Bufs :
      refcnt[i] = Cardinality(Users(i)) + IF blockno[i] \in pinned THEN 1 ELSE 0

Content(b) ==
    IF \E i \in Cached(b) : valid[i]
    THEN data[CHOOSE i \in Cached(b) : valid[i]] ELSE disk[b]

Busy == {p \in Procs : pc[p] # "idle"}

Holder(b) ==
    IF \E p \in Procs : pc[p] = "have" /\ want[p] = b
    THEN CHOOSE p \in Procs : pc[p] = "have" /\ want[p] = b ELSE NoProc

Store == INSTANCE LockedStore
         WITH content <- [b \in Blocks |-> Content(b)],
              holder <- [b \in Blocks |-> Holder(b)],
              durable <- disk,
              kept <- pinned

(* The cache is a store of locked blocks: one process at a time has a      *)
(* block and sees the last change made to it.  Recycling a buffer never    *)
(* brings back another block's content and loses no change that was        *)
(* written or is pinned; one that was neither may go back, as a whole, to  *)
(* what is on the disk.                                                    *)
ImplementsLockedStore == Store!Spec

(* bget panics only when the processes that use a buffer and the pins of   *)
(* the log really come to NBUF: no order of releases, pins and unpins      *)
(* leaks a buffer.                                                         *)
PanicOnlyWhenExhausted == panicked => NBUF <= Cardinality(Busy) + Cardinality(pinned)

(* A process asleep on a buffer's lock sleeps for one that has the lock.   *)
NoLostWakeup ==
    \A p \in Procs : pc[p] = "asleep" => locked[mine[p]] # NoProc

----------------------------------------------------------------------------
(* The inductive invariant.                                                *)

(* At most one buffer per block, and a pinned block has one.               *)
OneBuffer ==
    /\ \A i, j \in Bufs : blockno[i] = blockno[j] /\ blockno[i] \in Blocks => i = j
    /\ \A b \in pinned : \E i \in Bufs : blockno[i] = b
    /\ IsFiniteSet(pinned) /\ Cardinality(pinned) <= MaxPinned

(* The user that reads or has a buffer has its lock, and no other does:    *)
(* holdingsleep in bwrite and brelse.                                      *)
LockInv ==
    /\ \A p \in Procs : pc[p] \in {"read", "have"} => locked[mine[p]] = p
    /\ \A i \in Bufs : locked[i] # NoProc =>
         pc[locked[i]] \in {"read", "have"} /\ mine[locked[i]] = i

(* A buffer that somebody has is valid, and a valid buffer has a block.    *)
ValidInv ==
    /\ \A p \in Procs : pc[p] = "have" => valid[mine[p]]
    /\ \A i \in Bufs : valid[i] => blockno[i] \in Blocks

(* What bio.c relies on between two steps.                                 *)
BCacheInv ==
    /\ TypeOK
    /\ RefcntExact
    /\ BufferStaysBlock
    /\ OneBuffer
    /\ LockInv
    /\ NoLostWakeup
    /\ ValidInv

----------------------------------------------------------------------------
(* Who sleeps in acquiresleep is woken, if those who get the lock give it  *)
(* up.  It need not win the lock then: sleep-locks are not fair, and a     *)
(* process that comes later may take it first.                             *)
SleepersWoken ==
    \A p \in Procs : pc[p] = "asleep" ~> pc[p] # "asleep"

=============================================================================
