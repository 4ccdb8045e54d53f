-------------------------------- MODULE Pipe --------------------------------
(***************************************************************************)
(* A pipe of kernel/pipe.c, from pipealloc to the kfree of its page, with  *)
(* the processes that share its two ends.  An end is shared by fork        *)
(* (filedup) and given up by close or exit (fileclose); the last holder's  *)
(* fileclose calls pipeclose.                                              *)
(*                                                                         *)
(* A call holds pi->lock from its acquire to a sleep or to its return; one *)
(* iteration of its loop is a step, so that a kill from another CPU, which *)
(* does not take pi->lock, can come between any two of them.  sleep gives  *)
(* up the lock and wakeup makes every sleeper of the channel compete for   *)
(* it again (kernel/proc.c).                                               *)
(***************************************************************************)
EXTENDS Integers, Sequences, FiniteSets

CONSTANTS
    Procs,      \* processes
    Creator,    \* the process that calls pipe()
    Bytes,      \* what a byte can be
    PIPESIZE,   \* bytes in the ring
    UintMod,    \* 2^32 for the code's uint counters
    MaxN,       \* bound: longest read or write
    Killed,     \* processes that somebody may kill
    NoProc      \* not a process

ASSUME PipeAssumption ==
    /\ Creator \in Procs /\ NoProc \notin Procs
    /\ Killed \subseteq Procs
    /\ PIPESIZE \in Nat \ {0}
    /\ UintMod \in Nat /\ UintMod % PIPESIZE = 0 /\ UintMod > PIPESIZE
    /\ MaxN \in Nat

VARIABLES
    page,       \* the page of struct pipe: not allocated, live, freed
    data, nread, nwrite, readopen, writeopen,
    lock,       \* holder of pi->lock
    ends,       \* ends each process has a descriptor for
    killed,     \* pr->killed
    pc,         \* where each process is in its call
    i, n        \* progress and length of the call

vars == <<page, data, nread, nwrite, readopen, writeopen, lock, ends, killed,
          pc, i, n>>
pi == <<page, data, nread, nwrite, readopen, writeopen>>
call == <<i, n>>

Ends == {"read", "write"}
Labels == {"user", "write", "write_loop", "write_full", "write_asleep",
           "read", "read_loop", "read_empty", "read_asleep", "read_copy",
           "close_read", "close_write"}

Init ==
    /\ page = "none"
    /\ data = [k \in 0 .. PIPESIZE - 1 |-> CHOOSE b \in Bytes : TRUE]
    /\ nread = 0 /\ nwrite = 0
    /\ readopen = FALSE /\ writeopen = FALSE
    /\ lock = NoProc
    /\ ends = [p \in Procs |-> {}]
    /\ killed = [p \in Procs |-> FALSE]
    /\ pc = [p \in Procs |-> "user"]
    /\ i = [p \in Procs |-> 0]
    /\ n = [p \in Procs |-> 0]

Goto(p, label) == pc' = [pc EXCEPT ![p] = label]

(* wakeup(chan), and the caller goes on at `label'.  Who sleeps starts     *)
(* again by taking the lock, as sleep() does on its way out.               *)
WakeAndGoto(p, asleep, again, label) ==
    pc' = [q \in Procs |-> IF q = p THEN label
                           ELSE IF pc[q] = asleep THEN again ELSE pc[q]]

WakeReaders(p, label) == WakeAndGoto(p, "read_asleep", "read", label)
WakeWriters(p, label) == WakeAndGoto(p, "write_asleep", "write", label)

----------------------------------------------------------------------------
(* Descriptors.                                                            *)

(* pipe(): when an allocation fails nothing is left behind.                *)
pipealloc ==
    /\ page = "none"
    /\ page' = "live"
    /\ readopen' = TRUE /\ writeopen' = TRUE
    /\ nread' = 0 /\ nwrite' = 0
    /\ ends' = [ends EXCEPT ![Creator] = Ends]
    /\ UNCHANGED <<data, lock, killed, pc, call>>

(* fork(): the child q gets what its parent has open.                      *)
filedup(p, q) ==
    /\ pc[p] = "user" /\ ~killed[p] /\ ends[p] # {}
    /\ q # p /\ ends[q] = {} /\ pc[q] = "user" /\ ~killed[q]
    /\ ends' = [ends EXCEPT ![q] = ends[p]]
    /\ UNCHANGED <<pi, lock, killed, pc, call>>

Holders(e) == {p \in Procs : e \in ends[p]}

(* close() or exit(): --f->ref, and pipeclose when it was the last.        *)
fileclose(p, e) ==
    /\ pc[p] = "user" /\ e \in ends[p]
    /\ ends' = [ends EXCEPT ![p] = @ \ {e}]
    /\ IF Holders(e) # {p} THEN UNCHANGED pc
       ELSE Goto(p, IF e = "write" THEN "close_write" ELSE "close_read")
    /\ UNCHANGED <<pi, lock, killed, call>>

(* Mutant: the last writer does not wake the readers.                      *)
pipeclose_NoWakeup(p) ==
    /\ pc[p] \in {"close_read", "close_write"}
    /\ lock = NoProc
    /\ IF pc[p] = "close_write"
       THEN writeopen' = FALSE /\ UNCHANGED readopen
       ELSE readopen' = FALSE /\ UNCHANGED writeopen
    /\ Goto(p, "user")
    /\ page' = IF readopen' \/ writeopen' THEN page ELSE "freed"
    /\ UNCHANGED <<data, nread, nwrite, lock, ends, killed, call>>

pipeclose(p) ==
    /\ lock = NoProc
    /\ \/ /\ pc[p] = "close_write"
          /\ writeopen' = FALSE
          /\ WakeReaders(p, "user")
          /\ UNCHANGED readopen
       \/ /\ pc[p] = "close_read"
          /\ readopen' = FALSE
          /\ WakeWriters(p, "user")
          /\ UNCHANGED writeopen
    /\ page' = IF readopen' \/ writeopen' THEN page ELSE "freed"
    /\ UNCHANGED <<data, nread, nwrite, lock, ends, killed, call>>

(* kill(): p exits when it is back in user space.                          *)
kill(p) ==
    /\ p \in Killed /\ ~killed[p]
    /\ killed' = [killed EXCEPT ![p] = TRUE]
    /\ pc' = [pc EXCEPT ![p] = CASE @ = "write_asleep" -> "write"
                                 [] @ = "read_asleep" -> "read"
                                 [] OTHER -> @]
    /\ UNCHANGED <<pi, lock, ends, call>>

Returned(p) == i' = [i EXCEPT ![p] = 0] /\ n' = [n EXCEPT ![p] = 0]

----------------------------------------------------------------------------
(* pipewrite(pi, addr, n) and piperead(pi, addr, n)                        *)

Start(p, e, k) ==
    /\ pc[p] = "user" /\ ~killed[p] /\ e \in ends[p]
    /\ Goto(p, e)
    /\ i' = [i EXCEPT ![p] = 0]
    /\ n' = [n EXCEPT ![p] = k]
    /\ UNCHANGED <<pi, lock, ends, killed>>

acquire(p) ==
    /\ pc[p] \in Ends
    /\ lock = NoProc
    /\ lock' = p
    /\ Goto(p, IF pc[p] = "write" THEN "write_loop" ELSE "read_loop")
    /\ UNCHANGED <<pi, ends, killed, call>>

(* sleep(chan, &pi->lock)                                                  *)
Sleep(p, label) == lock' = NoProc /\ Goto(p, label)

(* Mutant: the counters are compared as if they did not wrap around.       *)
Full_NoWrap == nwrite - nread >= PIPESIZE

(* Full when nwrite == nread + PIPESIZE, in unsigned arithmetic.           *)
Full == nwrite = (nread + PIPESIZE) % UintMod

Empty == nread = nwrite

(* The end of pipewrite, with or without the wakeup of the readers.        *)
WriteDone(p) == WakeReaders(p, "user") /\ lock' = NoProc /\ Returned(p)
GiveUp(p) == Goto(p, "user") /\ lock' = NoProc /\ Returned(p)

write_loop(p) ==
    /\ pc[p] = "write_loop"
    /\ \/ /\ i[p] >= n[p]
          /\ WriteDone(p)
          /\ UNCHANGED <<data, nwrite>>
       \/ /\ i[p] < n[p] /\ (~readopen \/ killed[p])
          /\ GiveUp(p)
          /\ UNCHANGED <<data, nwrite>>
       \/ /\ i[p] < n[p] /\ readopen /\ ~killed[p] /\ Full
          /\ Goto(p, "write_full")
          /\ UNCHANGED <<data, nwrite, lock, call>>
       \/ /\ i[p] < n[p] /\ readopen /\ ~killed[p] /\ ~Full
          /\ \/ /\ \E ch \in Bytes : data' = [data EXCEPT ![nwrite % PIPESIZE] = ch]
                /\ nwrite' = (nwrite + 1) % UintMod
                /\ i' = [i EXCEPT ![p] = @ + 1]
                /\ UNCHANGED <<pc, lock, n>>
             \/ /\ WriteDone(p)      \* copyin fails
                /\ UNCHANGED <<data, nwrite>>
    /\ UNCHANGED <<page, nread, readopen, writeopen, ends, killed>>

(* Mutant: a writer that finds the pipe full sleeps without a wakeup.      *)
write_full_NoWakeup(p) ==
    /\ pc[p] = "write_full"
    /\ Sleep(p, "write_asleep")
    /\ UNCHANGED <<pi, ends, killed, call>>

write_full(p) ==
    /\ pc[p] = "write_full"
    /\ WakeReaders(p, "write_asleep")
    /\ lock' = NoProc
    /\ UNCHANGED <<pi, ends, killed, call>>

(* Mutant: an empty pipe is taken for the end of the file.                 *)
read_loop_NoWait(p) ==
    /\ pc[p] = "read_loop"
    /\ Goto(p, "read_copy")
    /\ UNCHANGED <<pi, lock, ends, killed, call>>

read_loop(p) ==
    /\ pc[p] = "read_loop"
    /\ \/ /\ Empty /\ writeopen /\ killed[p]
          /\ GiveUp(p)
       \/ /\ Empty /\ writeopen /\ ~killed[p]
          /\ Goto(p, "read_empty")
          /\ UNCHANGED <<lock, call>>
       \/ /\ ~Empty \/ ~writeopen
          /\ Goto(p, "read_copy")
          /\ UNCHANGED <<lock, call>>
    /\ UNCHANGED <<pi, ends, killed>>

read_empty(p) ==
    /\ pc[p] = "read_empty"
    /\ Sleep(p, "read_asleep")
    /\ UNCHANGED <<pi, ends, killed, call>>

ReadDone(p) == WakeWriters(p, "user") /\ lock' = NoProc /\ Returned(p)

(* A byte whose copyout fails has been taken from the pipe all the same.   *)
read_copy(p) ==
    /\ pc[p] = "read_copy"
    /\ \/ /\ i[p] >= n[p] \/ Empty
          /\ ReadDone(p)
          /\ UNCHANGED nread
       \/ /\ i[p] < n[p] /\ ~Empty
          /\ nread' = (nread + 1) % UintMod
          /\ \/ /\ i' = [i EXCEPT ![p] = @ + 1]
                /\ UNCHANGED <<pc, lock, n>>
             \/ ReadDone(p)
    /\ UNCHANGED <<page, data, nwrite, readopen, writeopen, ends, killed>>

----------------------------------------------------------------------------
InCall(p) ==
    \/ acquire(p)
    \/ write_loop(p) \/ write_full(p)
    \/ read_loop(p) \/ read_empty(p) \/ read_copy(p)
    \/ pipeclose(p)

Next ==
    \/ pipealloc
    \/ \E p \in Procs :
         \/ InCall(p)
         \/ \E e \in Ends : fileclose(p, e) \/ \E k \in 0 .. MaxN : Start(p, e, k)
         \/ \E q \in Procs : filedup(p, q)
         \/ kill(p)

Spec == Init /\ [][Next]_vars

(* A process in the kernel gets ahead, and wins a lock that is free again  *)
(* and again; whoever has an end uses it or closes it; not every copyin    *)
(* fails.                                                                  *)
Fairness ==
    \A p \in Procs :
      /\ SF_vars(acquire(p) \/ pipeclose(p))
      /\ WF_vars(InCall(p))
      /\ SF_vars(write_loop(p) /\ nwrite' # nwrite)
      /\ \A e \in Ends :
           SF_vars(fileclose(p, e) \/ \E k \in 1 .. MaxN : Start(p, e, k))

FairSpec == Spec /\ Fairness

----------------------------------------------------------------------------
(* Properties.                                                             *)

(* Bytes in the ring.                                                      *)
Count == (nwrite - nread) % UintMod

Channel == INSTANCE Fifo
           WITH Size <- PIPESIZE, ropen <- readopen, wopen <- writeopen,
                queue <- [k \in 1 .. Count |-> data[(nread + k - 1) % PIPESIZE]]

(* The ring is a FIFO channel: no byte is lost, doubled or overtaken by    *)
(* another, whatever the interleaving of readers and writers, also when    *)
(* the unsigned counters wrap around, and none is written without reader.  *)
ImplementsFifo == Channel!Spec

(* Types of struct pipe and of the calls; the counters never drift apart   *)
(* by more than the ring holds.                                            *)
TypeOK ==
    /\ page \in {"none", "live", "freed"}
    /\ data \in [0 .. PIPESIZE - 1 -> Bytes]
    /\ nread \in 0 .. UintMod - 1
    /\ nwrite \in 0 .. UintMod - 1
    /\ Count <= PIPESIZE
    /\ readopen \in BOOLEAN
    /\ writeopen \in BOOLEAN
    /\ lock \in Procs \cup {NoProc}
    /\ ends \in [Procs -> SUBSET Ends]
    /\ killed \in [Procs -> BOOLEAN]
    /\ pc \in [Procs -> Labels]
    /\ i \in [Procs -> 0 .. MaxN]
    /\ n \in [Procs -> 0 .. MaxN]

(* The page is freed only when nobody can touch the pipe again: no process *)
(* has an end, is inside a call or is about to close, however close, fork, *)
(* exit and sleeping calls interleave.                                     *)
NoUseAfterFree ==
    page # "live" => /\ lock = NoProc
                     /\ \A p \in Procs : ends[p] = {} /\ pc[p] = "user"

(* No lost wakeup.  While pi->lock is free, a sleeping writer has a full   *)
(* pipe that somebody can still read, and a sleeping reader one that       *)
(* somebody can still write and that is empty.  The exception is in the    *)
(* code: a writer killed after some bytes returns without a wakeup.        *)
NoLostWakeup ==
    lock = NoProc =>
      \A p \in Procs :
        /\ pc[p] = "write_asleep" => readopen /\ Full
        /\ pc[p] = "read_asleep" =>
             writeopen /\ (Empty \/ \E q \in Procs : killed[q])

(* A read returns no byte only at the end of the file: all was read, and   *)
(* every write end is closed.  (A read of 0 bytes, and one whose copyout   *)
(* fails after it took a byte, aside.)                                     *)
EofOnlyAtEnd ==
    [][\A p \in Procs :
         /\ pc[p] = "read_copy" /\ pc'[p] = "user"
         /\ i[p] = 0 /\ n[p] > 0 /\ nread' = nread
         => Empty /\ Holders("write") = {}]_vars

(* The last writer's call returns when readers read on or close; a reader  *)
(* alone with writers that write on or close returns too.  Nobody sleeps   *)
(* for ever across the ring.                                               *)
CallsReturn ==
    \A p \in Procs :
      /\ (pc[p] = "write_asleep" /\ Holders("write") = {p} /\ "read" \notin ends[p])
         ~> pc[p] = "user"
      /\ (pc[p] = "read_asleep" /\ Holders("read") = {p} /\ "write" \notin ends[p])
         ~> pc[p] = "user"

----------------------------------------------------------------------------
(* The inductive invariant behind NoUseAfterFree and NoLostWakeup.         *)

Locked == {"write_loop", "write_full", "read_loop", "read_empty", "read_copy"}
Writing == {"write", "write_loop", "write_full", "write_asleep"}
Reading == {"read", "read_loop", "read_empty", "read_asleep", "read_copy"}

(* An end is open while somebody holds it or is about to close it, and a   *)
(* process in a call holds the end it uses.                                *)
EndInv(e, open, closing, using) ==
    /\ open = (Holders(e) # {} \/ \E p \in Procs : pc[p] = closing)
    /\ \A p \in Procs :
         /\ pc[p] = closing => Holders(e) = {} /\ \A q \in Procs : pc[q] = closing => q = p
         /\ pc[p] \in using => e \in ends[p]

(* A sleeper's condition holds, or the process that has just made it false *)
(* still has the lock and will wake it.                                    *)
SleepInv ==
    \A p \in Procs :
      /\ pc[p] = "write_full" => Full /\ readopen
      /\ pc[p] = "read_empty" => Empty /\ writeopen
      /\ pc[p] = "write_asleep" =>
           readopen /\ (Full \/ \E q \in Procs : pc[q] = "read_copy")
      /\ pc[p] = "read_asleep" =>
           /\ writeopen
           /\ \/ Empty
              \/ \E q \in Procs : pc[q] \in {"write_loop", "write_full"} \/ killed[q]

(* What pipe.c and the reference counts of file.c keep true together.      *)
PipeInv ==
    /\ pc \in [Procs -> Labels] /\ ends \in [Procs -> SUBSET Ends]
    /\ killed \in [Procs -> BOOLEAN]
    /\ page \in {"none", "live", "freed"}
    /\ readopen \in BOOLEAN /\ writeopen \in BOOLEAN
    /\ (page = "live") = (readopen \/ writeopen)
    /\ lock \in Procs \cup {NoProc}
    /\ \A p \in Procs : (lock = p) = (pc[p] \in Locked)
    /\ EndInv("read", readopen, "close_read", Reading)
    /\ EndInv("write", writeopen, "close_write", Writing)
    /\ SleepInv

=============================================================================
