------------------------------- MODULE Virtio -------------------------------
(***************************************************************************)
(* The disk driver of kernel/virtio_disk.c with the device it drives.      *)
(*                                                                         *)
(* A caller of virtio_disk_rw holds the sleep-lock of its buffer, so there *)
(* is at most one call per buffer and the buffer names the call.  Each     *)
(* buffer caches a block of its own, which is where its data goes on disk. *)
(* vdisk_lock serialises callers and the interrupt handler; the device     *)
(* takes no lock and reads the descriptors and rings whenever it likes.    *)
(* An entry of a ring is dropped once it has been read: whoever read it    *)
(* has moved its index on, and does not look at it again before the other  *)
(* side has rewritten it.                                                  *)
(* What the device does is taken from what the driver relies on: it looks  *)
(* at the avail ring once it is notified, finishes requests in any order,  *)
(* and raises its interrupt line after it has written the used ring.       *)
(***************************************************************************)
EXTENDS Integers, FiniteSets

CONSTANTS
    Bufs,       \* buffers, one call each
    NUM,        \* descriptors, and entries of a ring
    Uint16,     \* 2^16 for the code's uint16 indices
    None,       \* vdisk_lock is free
    Handler,    \* virtio_disk_intr, as a holder of vdisk_lock
    Watched     \* the buffer whose calls RequestsFinish is about

ASSUME VirtioAssumption ==
    /\ NUM \in Nat /\ NUM > 2
    /\ Uint16 \in Nat /\ Uint16 >= NUM /\ Uint16 % NUM = 0
    /\ Watched \in Bufs
    /\ None \notin Bufs /\ Handler \notin Bufs /\ None # Handler

VARIABLES
    free, desc, avail, used, used_idx, info,    \* struct disk
    lock,                   \* holder of vdisk_lock
    pc, write, idx,         \* each call: where it is, its argument, its chain
    busy, data,             \* b->disk and b->data
    disk,                   \* what the device has stored
    kick, seen, inflight,   \* device: notified, avail entries read, chains
    irq                     \* the device's interrupt status

shared == <<free, desc, avail, used, used_idx, info>>
device == <<disk, kick, seen, inflight>>
vars == <<shared, lock, pc, write, idx, busy, data, device, irq>>

Descs == 0 .. NUM - 1
NoOp == [write |-> FALSE, sector |-> None]
NoDesc == [addr |-> None, op |-> NoOp, next |-> 0, more |-> FALSE]
NoChain == [k \in 0 .. 2 |-> 0]
Labels == {"idle", "alloc", "asleep_free", "publish", "notify", "wait",
           "asleep_buf"}

(* virtio_disk_init: the pages shared with the device are zero and every   *)
(* descriptor is unused.                                                   *)
Init ==
    /\ free = Descs
    /\ desc = [i \in Descs |-> NoDesc]
    /\ avail = [ring |-> [i \in Descs |-> 0], idx |-> 0]
    /\ used = [ring |-> [i \in Descs |-> 0], idx |-> 0]
    /\ used_idx = 0
    /\ info = [i \in Descs |-> [b |-> None, status |-> 0]]
    /\ lock = None
    /\ pc = [b \in Bufs |-> "idle"]
    /\ write = [b \in Bufs |-> FALSE]
    /\ idx = [b \in Bufs |-> NoChain]
    /\ busy = [b \in Bufs |-> FALSE]
    /\ disk = [b \in Bufs |-> "old"] /\ data = disk
    /\ kick = FALSE /\ seen = 0 /\ inflight = {}
    /\ irq = FALSE

(* wakeup(chan): who slept at `asleep' goes on by taking the lock.         *)
Wake(f, asleep, again) == [b \in Bufs |-> IF f[b] = asleep THEN again ELSE f[b]]
WakeFree(f) == Wake(f, "asleep_free", "alloc")

----------------------------------------------------------------------------
(* virtio_disk_rw(b, write)                                                *)

(* A call of bread or bwrite: the buffer holds something else than the     *)
(* block on disk, what the caller wrote or what it was last used for.  The *)
(* contents of a block are named anew for each call: "old" is what is on   *)
(* the disk when it starts, "new" what is in the buffer.                   *)
virtio_disk_rw(b, w) ==
    /\ pc[b] = "idle"
    /\ pc' = [pc EXCEPT ![b] = "alloc"]
    /\ write' = [write EXCEPT ![b] = w]
    /\ data' = [data EXCEPT ![b] = "new"]
    /\ UNCHANGED <<shared, lock, idx, busy, device, irq>>

(* alloc_desc: the lowest free descriptor.                                 *)
alloc_desc(F) == CHOOSE i \in F : \A j \in F : i <= j

(* alloc3_desc: what the three calls of alloc_desc return.                 *)
alloc3_desc(F) ==
    LET i == alloc_desc(F)
        j == alloc_desc(F \ {i})
        k == alloc_desc(F \ {i, j})
    IN  [m \in 0 .. 2 |-> CASE m = 0 -> i [] m = 1 -> j [] OTHER -> k]

(* Mutant: the first of the descriptors taken is not given back.           *)
alloc_fails_KeepsFirst(b) ==
    /\ pc[b] = "alloc" /\ lock = None
    /\ Cardinality(free) < 3
    /\ free' = IF free = {} THEN free ELSE free \ {alloc_desc(free)}
    /\ pc' = [(IF free = {} THEN pc ELSE WakeFree(pc)) EXCEPT ![b] = "asleep_free"]
    /\ UNCHANGED <<desc, avail, used, used_idx, info, lock, write, idx, busy, data, device, irq>>

(* Fewer than three are free: what was taken is given back, and free_desc  *)
(* wakes everybody who waits for a descriptor; then the caller sleeps.     *)
alloc_fails(b) ==
    /\ pc[b] = "alloc" /\ lock = None
    /\ Cardinality(free) < 3
    /\ pc' = [(IF free = {} THEN pc ELSE WakeFree(pc)) EXCEPT ![b] = "asleep_free"]
    /\ UNCHANGED <<shared, lock, write, idx, busy, data, device, irq>>

(* The chain d of request b: the command header, which disk.ops keeps one  *)
(* for one with the descriptors, the data and the status byte.             *)
Format(b, d) ==
    [desc EXCEPT
        ![d[0]] = [addr |-> None, op |-> [write |-> write[b], sector |-> b],
                   next |-> d[1], more |-> TRUE],
        ![d[1]] = [addr |-> b, op |-> NoOp, next |-> d[2], more |-> TRUE],
        ![d[2]] = [addr |-> d[0], op |-> NoOp, next |-> 0, more |-> FALSE]]

(* The three descriptors are formatted and the ring entry written, before  *)
(* the device is told of it.                                               *)
submit(b) ==
    /\ pc[b] = "alloc" /\ lock = None
    /\ Cardinality(free) >= 3
    /\ LET d == alloc3_desc(free)
       IN  /\ idx' = [idx EXCEPT ![b] = d]
           /\ free' = free \ {d[0], d[1], d[2]}
           /\ desc' = Format(b, d)
           /\ info' = [info EXCEPT ![d[0]] = [b |-> b, status |-> 255]]
           /\ avail' = [avail EXCEPT !.ring[avail.idx % NUM] = d[0]]
    /\ busy' = [busy EXCEPT ![b] = TRUE]
    /\ lock' = b
    /\ pc' = [pc EXCEPT ![b] = "publish"]
    /\ UNCHANGED <<used, used_idx, write, data, device, irq>>

publish(b) ==
    /\ pc[b] = "publish"
    /\ avail' = [avail EXCEPT !.idx = (@ + 1) % Uint16]
    /\ pc' = [pc EXCEPT ![b] = "notify"]
    /\ UNCHANGED <<free, desc, used, used_idx, info, lock, write, idx,
                   busy, data, device, irq>>

(* Mutant: the device is not notified.                                     *)
notify_Silent(b) ==
    /\ pc[b] = "notify"
    /\ lock' = IF busy[b] THEN None ELSE b
    /\ pc' = [pc EXCEPT ![b] = IF busy[b] THEN "asleep_buf" ELSE "wait"]
    /\ UNCHANGED <<shared, write, idx, busy, data, device, irq>>

(* The notification, and the first test of b->disk.                        *)
notify(b) ==
    /\ pc[b] = "notify"
    /\ kick' = TRUE
    /\ lock' = IF busy[b] THEN None ELSE b
    /\ pc' = [pc EXCEPT ![b] = IF busy[b] THEN "asleep_buf" ELSE "wait"]
    /\ UNCHANGED <<shared, write, idx, busy, data, disk, seen, inflight, irq>>

(* At the test of b->disk, with the lock.                                  *)
AtTest(b) == pc[b] = "wait" /\ lock \in {b, None}

await(b) ==
    /\ AtTest(b) /\ busy[b]
    /\ lock' = None
    /\ pc' = [pc EXCEPT ![b] = "asleep_buf"]
    /\ UNCHANGED <<shared, write, idx, busy, data, device, irq>>

(* The descriptors free_chain visits.  It stops at the first one without   *)
(* VRING_DESC_F_NEXT; no chain is longer than three.                       *)
free_chain(i) ==
    LET j == desc[i].next
    IN  IF ~desc[i].more THEN {i}
        ELSE IF ~desc[j].more THEN {i, j} ELSE {i, j, desc[j].next}

(* The call is over: its locals go away, and buffer and block are both     *)
(* what the next call finds.                                               *)
Return(b, f) ==
    /\ pc' = [f EXCEPT ![b] = "idle"]
    /\ write' = [write EXCEPT ![b] = FALSE]
    /\ idx' = [idx EXCEPT ![b] = NoChain]
    /\ data' = [data EXCEPT ![b] = "old"] /\ disk' = [disk EXCEPT ![b] = "old"]

(* free_chain and the return; each free_desc wakes who waits for one.      *)
finish(b) ==
    /\ AtTest(b) /\ ~busy[b]
    /\ LET chain == free_chain(idx[b][0])
       IN  /\ free' = free \cup chain
           /\ desc' = [i \in Descs |-> IF i \in chain THEN NoDesc ELSE desc[i]]
    /\ info' = [info EXCEPT ![idx[b][0]].b = None]
    /\ lock' = None
    /\ Return(b, WakeFree(pc))
    /\ UNCHANGED <<avail, used, used_idx, busy, kick, seen, inflight, irq>>

(* kill() makes a sleeping process run whatever it sleeps for; the calls   *)
(* do not look at p->killed.  Only the watched caller is killed.           *)
kill(b) ==
    /\ b = Watched /\ pc[b] \in {"asleep_buf", "asleep_free"}
    /\ pc' = [pc EXCEPT ![b] = IF @ = "asleep_buf" THEN "wait" ELSE "alloc"]
    /\ UNCHANGED <<shared, lock, write, idx, busy, data, device, irq>>

----------------------------------------------------------------------------
(* virtio_disk_intr                                                        *)

(* acquire, and the acknowledgement that lets the device interrupt again.  *)
intr_ack ==
    /\ irq /\ lock = None
    /\ lock' = Handler
    /\ irq' = FALSE
    /\ UNCHANGED <<shared, pc, write, idx, busy, data, device>>

(* One turn of the loop: an entry of the used ring, or the return.         *)
intr_used ==
    /\ lock = Handler /\ used_idx # used.idx
    /\ LET b == info[used.ring[used_idx % NUM]].b
       IN  /\ busy' = [busy EXCEPT ![b] = FALSE]
           /\ pc' = [pc EXCEPT ![b] = IF @ = "asleep_buf" THEN "wait" ELSE @]
    /\ used_idx' = (used_idx + 1) % Uint16
    /\ used' = [used EXCEPT !.ring[used_idx % NUM] = 0]
    /\ UNCHANGED <<free, desc, avail, info, lock, write, idx, data,
                   device, irq>>

intr_return ==
    /\ lock = Handler /\ used_idx = used.idx
    /\ lock' = None
    /\ UNCHANGED <<shared, pc, write, idx, busy, data, device, irq>>

----------------------------------------------------------------------------
(* The device.                                                             *)

DevFetch ==
    /\ kick /\ seen # avail.idx
    /\ inflight' = inflight \cup {avail.ring[seen % NUM]}
    /\ avail' = [avail EXCEPT !.ring[seen % NUM] = 0]
    /\ seen' = (seen + 1) % Uint16
    /\ UNCHANGED <<free, desc, used, used_idx, info, lock, pc, write, idx, busy, data, disk, kick, irq>>

DevIdle ==
    /\ kick /\ seen = avail.idx
    /\ kick' = FALSE
    /\ UNCHANGED <<shared, lock, pc, write, idx, busy, data, disk, seen, inflight, irq>>

(* The transfer, the status byte, the used entry and the interrupt, for    *)
(* the request whose header is at descriptor h.                            *)
DevDone(h) ==
    /\ h \in inflight
    /\ LET mid == desc[h].next
           b == desc[mid].addr
           op == desc[h].op
       IN  /\ IF op.write
              THEN disk' = [disk EXCEPT ![op.sector] = data[b]] /\ UNCHANGED data
              ELSE data' = [data EXCEPT ![b] = disk[op.sector]] /\ UNCHANGED disk
           /\ info' = [info EXCEPT ![desc[desc[mid].next].addr].status = 0]
    /\ used' = [ring |-> [used.ring EXCEPT ![used.idx % NUM] = h],
                idx |-> (used.idx + 1) % Uint16]
    /\ inflight' = inflight \ {h}
    /\ irq' = TRUE
    /\ UNCHANGED <<free, desc, avail, used_idx, lock, pc, write, idx, busy,
                   kick, seen>>

----------------------------------------------------------------------------
Step(b) == alloc_fails(b) \/ submit(b) \/ publish(b) \/ notify(b) \/ await(b) \/ finish(b)
Intr == intr_ack \/ intr_used \/ intr_return
Device == DevFetch \/ DevIdle \/ \E h \in Descs : DevDone(h)

Next ==
    \/ \E b \in Bufs, w \in BOOLEAN : virtio_disk_rw(b, w)
    \/ \E b \in Bufs : Step(b) \/ kill(b)
    \/ Intr
    \/ Device

Spec == Init /\ [][Next]_vars

(* The device reads what it has been told of and finishes the request of   *)
(* the watched call, a pending interrupt is taken, whoever has vdisk_lock  *)
(* goes on, and the watched caller, once woken, gets to run and to take    *)
(* the lock.  Nothing is asked of the other callers.                       *)
FairSpec ==
    /\ Spec
    /\ WF_vars(DevFetch) /\ WF_vars(pc[Watched] # "idle" /\ DevDone(idx[Watched][0]))
    /\ SF_vars(intr_ack) /\ WF_vars(intr_used \/ intr_return)
    /\ WF_vars(\E b \in Bufs : publish(b) \/ notify(b))
    /\ SF_vars(await(Watched) \/ finish(Watched))

----------------------------------------------------------------------------
(* Properties.                                                             *)

TypeOK ==
    /\ free \subseteq Descs
    /\ desc \in [Descs -> [addr : Descs \cup Bufs \cup {None}, next : Descs,
                           op : [write : BOOLEAN, sector : Bufs \cup {None}],
                           more : BOOLEAN]]
    /\ avail \in [ring : [Descs -> Descs], idx : 0 .. Uint16 - 1]
    /\ used \in [ring : [Descs -> Descs], idx : 0 .. Uint16 - 1]
    /\ used_idx \in 0 .. Uint16 - 1
    /\ info \in [Descs -> [b : Bufs \cup {None}, status : {0, 255}]]
    /\ lock \in Bufs \cup {None, Handler}
    /\ pc \in [Bufs -> Labels]
    /\ write \in [Bufs -> BOOLEAN]
    /\ idx \in [Bufs -> [0 .. 2 -> Descs]]
    /\ busy \in [Bufs -> BOOLEAN]
    /\ data \in [Bufs -> {"old", "new"}] /\ disk \in [Bufs -> {"old", "new"}]
    /\ kick \in BOOLEAN /\ seen \in 0 .. Uint16 - 1
    /\ inflight \subseteq Descs
    /\ irq \in BOOLEAN

(* A request has been formatted and has not been freed.                    *)
Submitted(b) == pc[b] \in {"publish", "notify", "wait", "asleep_buf"}
Chain(b) == {idx[b][0], idx[b][1], idx[b][2]}

(* Descriptors are never lost and never shared: each is free or is one of  *)
(* the three of exactly one submitted request, whose chain is linked the   *)
(* way the device reads it; so free_desc never panics.                     *)
DescriptorsAccounted ==
    /\ \A b \in Bufs : Submitted(b) =>
          /\ idx[b][0] # idx[b][1] /\ idx[b][0] # idx[b][2] /\ idx[b][1] # idx[b][2]
          /\ Chain(b) \cap free = {}
          /\ free_chain(idx[b][0]) = Chain(b)
          /\ info[idx[b][0]].b = b
    /\ \A b, c \in Bufs : b # c /\ Submitted(b) /\ Submitted(c) => Chain(b) \cap Chain(c) = {}
    /\ Descs = free \cup UNION {Chain(b) : b \in {c \in Bufs : Submitted(c)}}

(* Avail entries the device has not read, used entries the driver has not. *)
Unread(from, to) == {(from + k) % Uint16 : k \in 0 .. ((to - from) % Uint16) - 1}
Fetchable == {avail.ring[k % NUM] : k \in Unread(seen, avail.idx)}
Completed == {used.ring[k % NUM] : k \in Unread(used_idx, used.idx)}

(* What is between driver and device is always a live request: the device  *)
(* moves data only for a buffer whose caller still waits with b->disk set, *)
(* and the handler only meets requests that succeeded, each exactly once   *)
(* (virtio_disk_intr: info[id].status is 0 and info[id].b is a buffer).    *)
DeviceOwnsBusy ==
    /\ Fetchable \cap inflight = {} /\ Fetchable \cap Completed = {}
    /\ inflight \cap Completed = {}
    /\ \A h \in Fetchable \cup inflight \cup Completed :
          \E b \in Bufs : Submitted(b) /\ busy[b] /\ idx[b][0] = h
    /\ \A h \in Completed : info[h].status = 0
    /\ \A b \in Bufs : Submitted(b) /\ busy[b] =>
          pc[b] = "publish" \/ idx[b][0] \in Fetchable \cup inflight \cup Completed

(* A call goes on only after its transfer: when b->disk is clear again,    *)
(* the disk has what was written, or b->data what was on the disk.         *)
TransferDone == \A b \in Bufs : Submitted(b) /\ ~busy[b] =>
    data[b] = disk[b] /\ data[b] = (IF write[b] THEN "new" ELSE "old")

(* Nobody sleeps for descriptors while three are free.                     *)
SleepersWaitForDescs ==
    (\E b \in Bufs : pc[b] = "asleep_free") => Cardinality(free) < 3

(* The interrupt stays pending, or the handler is still in its loop, while *)
(* there are completions it has not seen.                                  *)
CompletionPending == used_idx # used.idx => irq \/ lock = Handler

(* No completion is lost: every request the driver has submitted returns,  *)
(* also when the device finishes it while the handler is already running.  *)
RequestsFinish == Submitted(Watched) ~> pc[Watched] = "idle"

(* What callers, handler and device keep true together.                    *)
VirtioInv ==
    /\ TypeOK /\ DescriptorsAccounted /\ DeviceOwnsBusy /\ TransferDone
    /\ SleepersWaitForDescs /\ CompletionPending
=============================================================================
