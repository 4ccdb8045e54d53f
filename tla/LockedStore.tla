---------------------------- MODULE LockedStore ----------------------------
(***************************************************************************)
(* What the buffer cache promises: every block has one current content,    *)
(* which only the process that has the block may change, and a block is    *)
(* had by one process at a time ("Only one process at a time can use a     *)
(* buffer", head comment of kernel/bio.c).  A change is safe once it is    *)
(* written; until then only while the block is kept (pinned).              *)
(***************************************************************************)
CONSTANTS Procs, Blocks, Vals, NoProc

VARIABLES
    content,  \* what the next reader of each block sees
    holder,   \* the process that has the block
    durable,  \* what is on the disk
    kept      \* the blocks whose content may not be forgotten

vars == <<content, holder, durable, kept>>

Init ==
    /\ content \in [Blocks -> Vals]
    /\ holder = [b \in Blocks |-> NoProc]
    /\ durable = content
    /\ kept = {}

Take(p, b) ==
    /\ holder[b] = NoProc
    /\ holder' = [holder EXCEPT ![b] = p]
    /\ UNCHANGED <<content, durable, kept>>

Change(p, b, v) ==
    /\ holder[b] = p
    /\ content' = [content EXCEPT ![b] = v]
    /\ UNCHANGED <<holder, durable, kept>>

Write(p, b) ==
    /\ holder[b] = p
    /\ durable' = [durable EXCEPT ![b] = content[b]]
    /\ UNCHANGED <<content, holder, kept>>

Keep(p, b) ==
    /\ holder[b] = p
    /\ kept' = kept \cup {b}
    /\ UNCHANGED <<content, holder, durable>>

Unkeep(p, b) ==
    /\ holder[b] = p
    /\ kept' = kept \ {b}
    /\ UNCHANGED <<content, holder, durable>>

Give(p, b) ==
    /\ holder[b] = p
    /\ holder' = [holder EXCEPT ![b] = NoProc]
    /\ UNCHANGED <<content, durable, kept>>

(* A block that nobody has or keeps goes back to what is on the disk.      *)
Forget(b) ==
    /\ holder[b] = NoProc /\ b \notin kept
    /\ content' = [content EXCEPT ![b] = durable[b]]
    /\ UNCHANGED <<holder, durable, kept>>

Next == \E b \in Blocks :
          \/ Forget(b)
          \/ \E p \in Procs :
               \/ Take(p, b) \/ Write(p, b) \/ Keep(p, b) \/ Unkeep(p, b) \/ Give(p, b)
               \/ \E v \in Vals : Change(p, b, v)

Spec == Init /\ [][Next]_vars

=============================================================================
