----------------------------- MODULE AtomicDisk -----------------------------
(***************************************************************************)
(* What the log promises the file system: between begin_op and end_op a    *)
(* call writes a volatile image of the disk; from time to time, and only   *)
(* when no call is in progress, the whole image becomes durable at once; a *)
(* crash brings back the durable image.  A call is therefore durable       *)
(* entirely or not at all (kernel/log.c, head comment).                    *)
(***************************************************************************)
CONSTANTS Procs, Blocks, Vals

VARIABLES
    mem,      \* image the calls read and write
    durable,  \* image that survives a crash
    active    \* processes between begin_op and end_op

vars == <<mem, durable, active>>

Init ==
    /\ \E v \in Vals : mem = [b \in Blocks |-> v]
    /\ durable = mem
    /\ active = {}

Begin(p) ==
    /\ p \notin active
    /\ active' = active \cup {p}
    /\ UNCHANGED <<mem, durable>>

Write(p, b, v) ==
    /\ p \in active
    /\ mem' = [mem EXCEPT ![b] = v]
    /\ UNCHANGED <<durable, active>>

End(p) ==
    /\ p \in active
    /\ active' = active \ {p}
    /\ UNCHANGED <<mem, durable>>

Commit ==
    /\ active = {}
    /\ durable' = mem
    /\ UNCHANGED <<mem, active>>

Crash ==
    /\ mem' = durable
    /\ active' = {}
    /\ UNCHANGED durable

Next ==
    \/ \E p \in Procs : \/ Begin(p)
                        \/ End(p)
                        \/ \E b \in Blocks, v \in Vals : Write(p, b, v)
    \/ Commit
    \/ Crash

Spec == Init /\ [][Next]_vars

=============================================================================
