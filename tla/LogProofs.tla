----------------------------- MODULE LogProofs -----------------------------
(***************************************************************************)
(* Proofs about the log (module Log), for every number of processes and    *)
(* blocks and every log size.                                              *)
(***************************************************************************)
EXTENDS LogInv, FiniteSetTheorems, TLAPS

(* The processes in a call are finitely many, and there is one exactly     *)
(* when the count is not 0.                                                *)
LEMMA OpCount ==
    ASSUME NEW f \in [Procs -> Labels]
    PROVE  LET S == {q \in Procs : f[q] \in {"op"}} IN
             /\ IsFiniteSet(S)
             /\ Cardinality(S) \in Nat
             /\ Cardinality(S) = 0 <=> S = {}
<1>. DEFINE S == {q \in Procs : f[q] \in {"op"}}
<1>1. IsFiniteSet(S)
  BY FS_Subset, LogAssumption
<1>. QED
  BY <1>1, FS_CardinalityType, FS_EmptySet

(* begin_op's count: one more process in a call.                           *)
LEMMA OpCountAdd ==
    ASSUME NEW f \in [Procs -> Labels], NEW p \in Procs, f[p] # "op",
           NEW g \in [Procs -> Labels], g[p] = "op",
           \A q \in Procs \ {p} : f[q] = "op" <=> g[q] = "op"
    PROVE  Cardinality({q \in Procs : g[q] \in {"op"}}) =
             Cardinality({q \in Procs : f[q] \in {"op"}}) + 1
<1>. DEFINE S == {q \in Procs : f[q] \in {"op"}}
            T == {q \in Procs : g[q] \in {"op"}}
<1>1. T = S \cup {p} /\ p \notin S
  OBVIOUS
<1>2. IsFiniteSet(S)
  BY OpCount
<1>. QED
  BY <1>1, <1>2, FS_AddElement

(* A loop of commit or of recovery that has not ended is at a slot of the  *)
(* on-disk log, and at a home block.                                       *)
LEMMA LoopType ==
    ASSUME TypeOK, HeadersFit, tail <= Len(lh)
    PROVE  /\ tail \in DOMAIN lh /\ tail \in LogSlots
           /\ lh[tail] \in Blocks /\ diskLog[tail] \in Vals
           /\ disk[lh[tail]] \in Vals /\ Content(lh[tail]) \in Vals
BY LogAssumption DEF TypeOK, HeadersFit, LogSlots, Content

(* Types are kept by every step; `outstanding` and the pin counts stay     *)
(* natural numbers because end_op and bunpin match begin_op and bpin.      *)
LEMMA TypeStep == IInv /\ [Next]_vars => TypeOK'
<1>. SUFFICES ASSUME IInv, [Next]_vars PROVE TypeOK'
  OBVIOUS
<1>0. TypeOK /\ HeadersFit /\ CommitExclusive /\ CacheInv
  BY DEF IInv
<1>n. outstanding \in Nat /\ tail \in Nat \ {0}
  BY <1>0 DEF TypeOK
<1>p. pc \in [Procs -> Labels]
  BY <1>0 DEF TypeOK
<1>q. lh \in Seq(Blocks)
  BY <1>0 DEF TypeOK
<1>r. refcnt \in [Blocks -> Nat]
  BY <1>0 DEF TypeOK
<1>. USE DEF TypeOK, Labels, BootLabels
<1>1. CASE read_head
  BY <1>0, <1>1 DEF read_head, stable, memory, counts
<1>2. CASE recover_install
  <2>1. /\ disk' \in [Blocks -> Vals]
        /\ buf' \in [Blocks -> Vals \cup {NoVal}]
    BY <1>0, <1>2, LoopType DEF recover_install
  <2>2. tail' \in Nat \ {0} /\ boot' \in BootLabels
    BY <1>0, <1>2 DEF recover_install
  <2>3. UNCHANGED <<diskHead, diskLog, holder, refcnt, lh, counts, pc, written,
                    panicked>>
    BY <1>2 DEF recover_install
  <2>. QED
    BY <1>0, <2>1, <2>2, <2>3 DEF counts
<1>3. CASE recover_clear
  BY <1>0, <1>3 DEF recover_clear, memory, counts
<1>4. ASSUME NEW p \in Procs, Call(p) PROVE TypeOK'
  <2>1. CASE begin_op(p)
    <3>1. pc' \in [Procs -> Labels]
      BY <1>p, <2>1 DEF begin_op
    <3>3. outstanding' \in Nat
      BY <1>n, <2>1 DEF begin_op
    <3>2. UNCHANGED <<stable, memory, lh, committing, tail, written, boot, panicked>>
      BY <2>1 DEF begin_op
    <3>. QED
      BY <1>0, <3>1, <3>2, <3>3 DEF stable, memory
  <2>2. ASSUME NEW b \in Blocks, NEW v \in Vals, modify(p, b, v) PROVE TypeOK'
    BY <1>0, <2>2 DEF modify, stable, counts
  <2>3. ASSUME NEW b \in Blocks, log_write(p, b) PROVE TypeOK'
    <3>1. \/ UNCHANGED <<lh, refcnt>>
          \/ lh' = Append(lh, b) /\ refcnt' = [refcnt EXCEPT ![b] = @ + 1]
      BY <2>3 DEF log_write
    <3>2. lh' \in Seq(Blocks)
      BY <1>q, <3>1
    <3>6. refcnt' \in [Blocks -> Nat]
      BY <1>r, <3>1
    <3>3. holder' \in [Blocks -> Procs \cup {NoProc}]
      BY <1>0, <2>3 DEF log_write
    <3>4. panicked' \in {"no", "too_big_a_transaction", "log_write_outside_of_trans"}
      BY <2>3 DEF log_write, LogWritePanic
    <3>5. UNCHANGED <<stable, buf, counts, pc, tail, written, boot>>
      BY <2>3 DEF log_write
    <3>. QED
      BY <1>0, <3>2, <3>3, <3>4, <3>5, <3>6 DEF stable, counts
  <2>4. CASE end_op(p)
    <3>1. outstanding \in Nat \ {0}
      BY <1>0, <2>4, OpCount DEF end_op, CommitExclusive, Labelled
    <3>2. outstanding' \in Nat
      BY <1>0, <2>4, <3>1 DEF end_op
    <3>3. pc' \in [Procs -> Labels] /\ committing' \in BOOLEAN
      BY <1>0, <2>4 DEF end_op, Woken
    <3>4. panicked' \in {"no", "log_committing"} /\ written' \in [Procs -> SUBSET Blocks]
      BY <1>0, <2>4 DEF end_op
    <3>5. UNCHANGED <<stable, memory, lh, tail, boot>>
      BY <2>4 DEF end_op
    <3>. QED
      BY <1>0, <3>2, <3>3, <3>4, <3>5 DEF stable, memory
  <2>5. CASE commit(p)
    BY <1>0, <2>5 DEF commit, stable, memory, counts
  <2>6. CASE write_log(p)
    <3>1. /\ diskLog' \in [LogSlots -> Vals]
          /\ buf' \in [Blocks -> Vals \cup {NoVal}]
      <4>1. diskLog \in [LogSlots -> Vals] /\ buf \in [Blocks -> Vals \cup {NoVal}]
        BY <1>0
      <4>2. CASE tail <= Len(lh)
        <5>1. tail \in LogSlots /\ lh[tail] \in Blocks /\ Content(lh[tail]) \in Vals
          BY <1>0, <4>2, LoopType
        <5>. QED
          BY <2>6, <4>1, <5>1 DEF write_log
      <4>3. CASE ~(tail <= Len(lh))
        BY <2>6, <4>1, <4>3 DEF write_log
      <4>. QED
        BY <4>2, <4>3
    <3>2. tail' \in Nat \ {0} /\ pc' \in [Procs -> Labels]
      BY <1>n, <1>p, <2>6 DEF write_log
    <3>3. UNCHANGED <<disk, diskHead, holder, refcnt, lh, counts, written, boot,
                      panicked>>
      BY <2>6 DEF write_log
    <3>. QED
      BY <1>0, <3>1, <3>2, <3>3 DEF counts
  <2>7. CASE write_head(p)
    BY <1>0, <2>7 DEF write_head, memory, counts
  <2>8. CASE install_trans(p)
    <3>1. tail <= Len(lh) => refcnt[lh[tail]] = 1
      <4>. SUFFICES ASSUME tail <= Len(lh) PROVE refcnt[lh[tail]] = 1
        OBVIOUS
      <4>1. \A q \in Procs : pc[q] # "clear" /\ boot = "up"
        BY <1>0, <2>8 DEF install_trans, Running, CommitExclusive, Committing
      <4>2. Pending(lh[tail])
        BY <1>0, <4>1, LoopType DEF Pending
      <4>. QED
        BY <1>0, <4>1, <4>2, LoopType DEF CacheInv
    <3>2. refcnt' \in [Blocks -> Nat]
      BY <1>0, <2>8, <3>1 DEF install_trans
    <3>3. /\ disk' \in [Blocks -> Vals]
          /\ buf' \in [Blocks -> Vals \cup {NoVal}]
      BY <1>0, <2>8, LoopType DEF install_trans
    <3>4. tail' \in Nat \ {0} /\ pc' \in [Procs -> Labels]
      BY <1>n, <1>p, <2>8 DEF install_trans
    <3>5. UNCHANGED <<diskHead, diskLog, holder, lh, counts, written, boot, panicked>>
      BY <2>8 DEF install_trans
    <3>. QED
      BY <1>0, <3>2, <3>3, <3>4, <3>5 DEF counts
  <2>9. CASE clear_head(p)
    BY <1>0, <2>9 DEF clear_head, memory, counts
  <2>10. CASE end_commit(p)
    BY <1>0, <2>10 DEF end_commit, stable, memory, Woken
  <2>. QED
    BY <1>4, <2>1, <2>2, <2>3, <2>4, <2>5, <2>6, <2>7, <2>8, <2>9, <2>10 DEF Call
<1>5. ASSUME NEW b \in Blocks, bread(b) PROVE TypeOK'
  BY <1>0, <1>5 DEF bread, stable, counts
<1>6. ASSUME NEW b \in Blocks, recycle(b) PROVE TypeOK'
  BY <1>0, <1>6 DEF recycle, stable, counts
<1>7. CASE crash
  <2>1. /\ lh' \in Seq(Blocks) /\ UNCHANGED stable
        /\ pc' \in [Procs -> Labels] /\ written' \in [Procs -> SUBSET Blocks]
        /\ boot' \in BootLabels /\ tail' \in Nat \ {0} /\ panicked' = "no"
    BY <1>7 DEF crash
  <2>2. /\ buf' \in [Blocks -> Vals \cup {NoVal}]
        /\ holder' \in [Blocks -> Procs \cup {NoProc}]
        /\ refcnt' \in [Blocks -> Nat]
        /\ outstanding' \in Nat /\ committing' \in BOOLEAN
    BY <1>7 DEF crash
  <2>. QED
    BY <1>0, <2>1, <2>2 DEF stable
<1>8. CASE UNCHANGED vars
  BY <1>0, <1>8 DEF vars
<1>. QED
  BY <1>1, <1>2, <1>3, <1>4, <1>5, <1>6, <1>7, <1>8 DEF Next

(* The steps that touch neither header.                                    *)
HeadersKept == UNCHANGED <<lh, diskHead>>

(* log_write appends only a block that is not there, and only when there   *)
(* is room; the on-disk header is only ever a copy of the one in memory.   *)
LEMMA HeadersStep == IInv /\ [Next]_vars => HeadersFit'
<1>. SUFFICES ASSUME IInv, [Next]_vars PROVE HeadersFit'
  OBVIOUS
<1>0. HeadersFit /\ lh \in Seq(Blocks) /\ NLog \in Nat \ {0}
  BY LogAssumption DEF IInv, TypeOK
<1>k. HeadersKept => HeadersFit'
  BY <1>0 DEF HeadersKept, HeadersFit, Distinct
<1>1. CASE read_head
  BY <1>0, <1>1 DEF read_head, stable, HeadersFit, Distinct
<1>2. CASE recover_install
  BY <1>k, <1>2 DEF recover_install, HeadersKept
<1>3. CASE recover_clear
  BY <1>0, <1>3 DEF recover_clear, HeadersFit, Distinct
<1>4. ASSUME NEW p \in Procs, Call(p) PROVE HeadersFit'
  <2>1. CASE begin_op(p)
    BY <1>k, <2>1 DEF begin_op, HeadersKept, stable
  <2>2. ASSUME NEW b \in Blocks, NEW v \in Vals, modify(p, b, v) PROVE HeadersFit'
    BY <1>k, <2>2 DEF modify, HeadersKept, stable
  <2>3. ASSUME NEW b \in Blocks, log_write(p, b) PROVE HeadersFit'
    <3>1. CASE Logged(b) \/ LogWritePanic # "no"
      BY <1>k, <2>3, <3>1 DEF log_write, HeadersKept, stable
    <3>2. CASE ~Logged(b) /\ LogWritePanic = "no"
      <4>1. lh' = Append(lh, b) /\ diskHead' = diskHead
        BY <2>3, <3>2 DEF log_write, stable
      <4>2. Len(lh) < NLog - 1
        BY <1>0, <3>2 DEF LogWritePanic, LogFull
      <4>3. \A i \in DOMAIN lh : lh[i] # b
        BY <3>2 DEF Logged
      <4>4. Distinct(lh')
        BY <1>0, <4>1, <4>3 DEF HeadersFit, Distinct
      <4>. QED
        BY <1>0, <4>1, <4>2, <4>4 DEF HeadersFit, Distinct
    <3>. QED
      BY <3>1, <3>2
  <2>4. CASE end_op(p)
    BY <1>k, <2>4 DEF end_op, HeadersKept, stable
  <2>5. CASE commit(p)
    BY <1>k, <2>5 DEF commit, HeadersKept, stable
  <2>6. CASE write_log(p)
    BY <1>k, <2>6 DEF write_log, HeadersKept
  <2>7. CASE write_head(p)
    BY <1>0, <2>7 DEF write_head, HeadersFit, Distinct
  <2>8. CASE install_trans(p)
    BY <1>k, <2>8 DEF install_trans, HeadersKept
  <2>9. CASE clear_head(p)
    BY <1>0, <2>9 DEF clear_head, HeadersFit, Distinct
  <2>10. CASE end_commit(p)
    BY <1>k, <2>10 DEF end_commit, HeadersKept, stable
  <2>. QED
    BY <1>4, <2>1, <2>2, <2>3, <2>4, <2>5, <2>6, <2>7, <2>8, <2>9, <2>10 DEF Call
<1>5. ASSUME NEW b \in Blocks, bread(b) \/ recycle(b) PROVE HeadersFit'
  BY <1>k, <1>5 DEF bread, recycle, HeadersKept, stable
<1>6. CASE crash
  BY <1>0, <1>6 DEF crash, stable, HeadersFit, Distinct
<1>7. CASE UNCHANGED vars
  BY <1>k, <1>7 DEF vars, HeadersKept
<1>. QED
  BY <1>1, <1>2, <1>3, <1>4, <1>5, <1>6, <1>7 DEF Next

(* Calls and reads come only after recovery.                               *)
LEMMA CallsAfterBoot ==
    /\ \A p \in Procs : Call(p) => boot = "up" /\ boot' = "up"
    /\ \A b \in Blocks : bread(b) \/ recycle(b) => boot = "up" /\ boot' = "up"
<1>1. ASSUME NEW p \in Procs, Call(p) PROVE boot = "up" /\ boot' = "up"
  BY <1>1 DEF Call, begin_op, modify, log_write, end_op, commit, write_log,
     write_head, install_trans, clear_head, end_commit, Running
<1>2. ASSUME NEW b \in Blocks, bread(b) \/ recycle(b) PROVE boot = "up" /\ boot' = "up"
  BY <1>2 DEF bread, recycle, Running
<1>. QED
  BY <1>1, <1>2

(* An iteration of the installing loop leaves the blocks installed before  *)
(* it alone, because the header names distinct blocks.                     *)
LEMMA InstallOne ==
    ASSUME TypeOK, HeadersFit, tail <= Len(lh), InstalledBelow(tail),
           disk' = [disk EXCEPT ![lh[tail]] = diskLog[tail]],
           UNCHANGED <<lh, diskLog>>, tail' = tail + 1
    PROVE  InstalledBelow(tail)'
<1>. SUFFICES ASSUME NEW i \in DOMAIN lh, i < tail + 1
              PROVE  disk'[lh[i]] = diskLog[i]
  BY DEF InstalledBelow
<1>0. lh \in Seq(Blocks) /\ disk \in [Blocks -> Vals] /\ tail \in Nat
  BY DEF TypeOK
<1>1. CASE i = tail
  BY <1>0, <1>1
<1>2. CASE i < tail
  <2>1. lh[i] # lh[tail]
    BY <1>2, LoopType DEF HeadersFit, Distinct
  <2>2. disk[lh[i]] = diskLog[i]
    BY <1>2 DEF InstalledBelow
  <2>. QED
    BY <1>0, <2>1, <2>2
<1>. QED
  BY <1>0, <1>1, <1>2

(* Recovery meets a cold cache and no caller; what it has installed stays. *)
LEMMA BootStep == IInv /\ [Next]_vars => BootInv'
<1>. SUFFICES ASSUME IInv, [Next]_vars, boot' # "up" PROVE BootInv'
  BY DEF BootInv
<1>0. TypeOK /\ HeadersFit /\ BootInv
  BY DEF IInv
<1>t. tail \in Nat /\ lh \in Seq(Blocks) /\ diskHead \in Seq(Blocks)
  BY <1>0 DEF TypeOK
<1>1. CASE read_head
  <2>1. InstalledBelow(tail)'
    BY <1>0, <1>1, <1>t DEF read_head, stable, BootInv, InstalledBelow
  <2>. QED
    BY <1>0, <1>1, <2>1 DEF read_head, stable, memory, counts, BootInv
<1>2. CASE recover_install
  <2>0. UNCHANGED <<diskHead, diskLog, holder, refcnt, lh, counts, pc, written,
                    panicked>>
    BY <1>2 DEF recover_install
  <2>1. CASE tail <= Len(lh)
    <3>1. /\ buf' = [buf EXCEPT ![lh[tail]] = diskLog[tail]]
          /\ disk' = [disk EXCEPT ![lh[tail]] = diskLog[tail]]
          /\ tail' = tail + 1 /\ boot = "install" /\ boot' = boot
      BY <1>2, <1>t, <2>1 DEF recover_install
    <3>2. InstalledBelow(tail)'
      BY <1>0, <2>0, <2>1, <3>1, InstallOne DEF BootInv
    <3>3. \A b \in Blocks : buf'[b] \in {NoVal, disk'[b]}
      BY <1>0, <3>1 DEF BootInv, TypeOK
    <3>. QED
      BY <1>0, <2>0, <3>1, <3>2, <3>3 DEF BootInv, counts
  <2>2. CASE tail > Len(lh)
    <3>1. UNCHANGED <<buf, disk>> /\ tail' = 1 /\ boot = "install" /\ boot' = "clear"
      BY <1>2, <1>t, <2>2 DEF recover_install
    <3>2. InstalledBelow(Len(lh) + 1)'
      BY <1>0, <1>t, <2>0, <2>2, <3>1 DEF BootInv, InstalledBelow
    <3>. QED
      BY <1>0, <2>0, <3>1, <3>2 DEF BootInv, counts
  <2>. QED
    BY <1>t, <2>1, <2>2
<1>3. CASE recover_clear
  BY <1>3 DEF recover_clear
<1>4. CASE crash
  BY <1>4 DEF crash, BootInv
<1>5. CASE UNCHANGED vars
  BY <1>0, <1>5 DEF vars, BootInv, InstalledBelow
<1>. QED
  BY <1>1, <1>2, <1>3, <1>4, <1>5, CallsAfterBoot DEF Next

(* The process that commits moves on to its next step.                     *)
LEMMA CommitterMoves ==
    ASSUME TypeOK, CommitExclusive, NEW p \in Procs, NEW l \in Committing,
           pc[p] \in Committing, pc' = [pc EXCEPT ![p] = l], UNCHANGED counts
    PROVE  CommitExclusive'
<1>0. pc \in [Procs -> Labels]
  BY DEF TypeOK
<1>1. \A q \in Procs : /\ pc'[q] \in Committing <=> pc[q] \in Committing
                       /\ pc'[q] = "op" <=> pc[q] = "op"
  BY <1>0 DEF Committing
<1>2. Labelled({"op"})' = Labelled({"op"}) /\ Labelled(Committing)' = Labelled(Committing)
  BY <1>1 DEF Labelled
<1>3. committing = TRUE
  BY DEF CommitExclusive, Labelled
<1>. QED
  BY <1>1, <1>2, <1>3 DEF CommitExclusive, counts

(* Steps that leave the callers and the header alone.                      *)
LEMMA CallersKept ==
    ASSUME CommitExclusive, UNCHANGED <<pc, counts, lh, boot>>
    PROVE  CommitExclusive'
BY DEF CommitExclusive, Labelled, counts

(* One process commits at a time: the end_op that brings `outstanding` to  *)
(* 0 sees `committing` clear, and begin_op lets nobody in until it is.     *)
LEMMA ExclusiveStep == IInv /\ [Next]_vars => CommitExclusive'
<1>. SUFFICES ASSUME IInv, [Next]_vars PROVE CommitExclusive'
  OBVIOUS
<1>0. TypeOK /\ CommitExclusive
  BY DEF IInv
<1>p. pc \in [Procs -> Labels]
  BY <1>0 DEF TypeOK
<1>1. CASE read_head \/ recover_install \/ recover_clear
  BY <1>0, <1>1 DEF read_head, recover_install, recover_clear, counts,
     CommitExclusive, Labelled
<1>2. ASSUME NEW p \in Procs, Call(p) PROVE CommitExclusive'
  <2>1. CASE begin_op(p)
    <3>1. CASE pc' = [pc EXCEPT ![p] = "asleep"] /\ UNCHANGED outstanding
      <4>1. \A q \in Procs : /\ pc'[q] \in Committing <=> pc[q] \in Committing
                             /\ pc'[q] = "op" <=> pc[q] = "op"
        BY <1>p, <2>1, <3>1 DEF begin_op, Committing
      <4>2. /\ Labelled({"op"})' = Labelled({"op"})
            /\ Labelled(Committing)' = Labelled(Committing)
        BY <4>1 DEF Labelled
      <4>3. UNCHANGED <<lh, committing, boot>>
        BY <2>1 DEF begin_op
      <4>. QED
        BY <1>0, <3>1, <4>1, <4>2, <4>3 DEF CommitExclusive
    <3>2. CASE /\ ~committing /\ outstanding' = outstanding + 1
               /\ pc' = [pc EXCEPT ![p] = "op"]
      <4>1. \A q \in Procs : /\ pc'[q] \in Committing <=> pc[q] \in Committing
                             /\ q # p => (pc[q] = "op" <=> pc'[q] = "op")
        BY <1>p, <2>1, <3>2 DEF begin_op, Committing
      <4>2. Labelled(Committing)' = Labelled(Committing)
        BY <4>1 DEF Labelled
      <4>3. pc[p] # "op" /\ pc'[p] = "op" /\ pc' \in [Procs -> Labels]
        BY <1>p, <2>1, <3>2 DEF begin_op, Labels
      <4>4. Cardinality(Labelled({"op"}))' = Cardinality(Labelled({"op"})) + 1
        BY <1>p, <4>1, <4>3, OpCountAdd DEF Labelled
      <4>5. committing' = committing
        BY <2>1 DEF begin_op
      <4>. QED
        BY <1>0, <3>2, <4>1, <4>2, <4>3, <4>4, <4>5 DEF CommitExclusive
    <3>. QED
      BY <2>1, <3>1, <3>2 DEF begin_op
  <2>2. ASSUME NEW b \in Blocks, NEW v \in Vals, modify(p, b, v) PROVE CommitExclusive'
    BY <1>0, <2>2, CallersKept DEF modify
  <2>3. ASSUME NEW b \in Blocks, log_write(p, b) PROVE CommitExclusive'
    <3>1. UNCHANGED <<pc, counts>> /\ pc[p] = "op"
      BY <2>3 DEF log_write
    <3>. QED
      BY <1>0, <3>1 DEF CommitExclusive, Labelled, counts
  <2>4. CASE end_op(p)
    <3>1. pc[p] = "op" /\ ~committing
      BY <1>0, <2>4 DEF end_op, CommitExclusive
    <3>2. pc' \in [Procs -> Labels] /\ pc'[p] \in {"commit", "idle"}
      BY <1>p, <2>4 DEF end_op, Labels, Woken
    <3>3. \A q \in Procs \ {p} : /\ pc'[q] \in Committing <=> pc[q] \in Committing
                                 /\ pc'[q] = "op" <=> pc[q] = "op"
      BY <1>p, <2>4 DEF end_op, Committing, Woken
    <3>4. Cardinality(Labelled({"op"})) = Cardinality(Labelled({"op"}))' + 1
      BY <1>p, <3>1, <3>2, <3>3, OpCountAdd DEF Labelled
    <3>5. /\ Cardinality(Labelled({"op"}))' \in Nat
          /\ Cardinality(Labelled({"op"}))' = 0 <=> Labelled({"op"})' = {}
      BY <3>2, OpCount DEF Labelled
    <3>6. outstanding' = Cardinality(Labelled({"op"}))'
      BY <1>0, <2>4, <3>4, <3>5 DEF end_op, CommitExclusive
    <3>7. \A q \in Procs : pc[q] \notin Committing
      BY <1>0, <3>1 DEF CommitExclusive, Labelled
    <3>8. CASE outstanding' = 0
      <4>1. pc'[p] = "commit" /\ committing' = TRUE
        BY <1>p, <2>4, <3>8 DEF end_op
      <4>2. \A q \in Procs : pc'[q] # "op"
        BY <3>5, <3>6, <3>8 DEF Labelled
      <4>. QED
        BY <3>3, <3>6, <3>7, <4>1, <4>2 DEF CommitExclusive, Labelled, Committing
    <3>9. CASE outstanding' # 0
      <4>1. pc'[p] = "idle" /\ committing' = committing
        BY <1>p, <2>4, <3>9 DEF end_op, Woken
      <4>2. \E q \in Procs : pc'[q] = "op"
        BY <3>5, <3>6, <3>9 DEF Labelled
      <4>3. Labelled(Committing)' = {}
        BY <3>3, <3>7, <4>1 DEF Labelled, Committing
      <4>4. committing' = FALSE
        BY <1>0, <3>1, <4>1 DEF TypeOK
      <4>. QED
        BY <3>6, <4>2, <4>3, <4>4 DEF CommitExclusive, Labelled
    <3>. QED
      BY <3>8, <3>9
  <2>5. CASE commit(p)
    BY <1>0, <2>5, CommitterMoves DEF commit, Committing
  <2>6. CASE write_log(p)
    <3>1. CASE UNCHANGED pc
      BY <1>0, <2>6, <3>1, CallersKept DEF write_log
    <3>2. CASE pc' = [pc EXCEPT ![p] = "write_head"]
      BY <1>0, <2>6, <3>2, CommitterMoves DEF write_log, Committing
    <3>. QED
      BY <2>6, <3>1, <3>2 DEF write_log
  <2>7. CASE write_head(p)
    BY <1>0, <2>7, CommitterMoves DEF write_head, Committing
  <2>8. CASE install_trans(p)
    <3>1. CASE UNCHANGED pc
      BY <1>0, <2>8, <3>1, CallersKept DEF install_trans
    <3>2. CASE pc' = [pc EXCEPT ![p] = "clear"]
      BY <1>0, <2>8, <3>2, CommitterMoves DEF install_trans, Committing
    <3>. QED
      BY <2>8, <3>1, <3>2 DEF install_trans
  <2>9. CASE clear_head(p)
    BY <1>0, <2>9, CommitterMoves DEF clear_head, Committing
  <2>10. CASE end_commit(p)
    <3>1. pc[p] = "done" /\ lh = <<>>
      BY <2>10 DEF end_commit, Running, IInv, CommitProgress
    <3>2. \A q \in Procs : pc[q] # "op" /\ (q # p => pc[q] \notin Committing)
      BY <1>0, <3>1 DEF CommitExclusive, Committing, Labelled
    <3>3. \A q \in Procs : pc'[q] # "op" /\ pc'[q] \notin Committing
      BY <1>p, <2>10, <3>2 DEF end_commit, Woken, Committing
    <3>4. /\ Labelled({"op"})' = {} /\ Labelled({"op"}) = {}
          /\ Labelled(Committing)' = {}
      BY <3>2, <3>3 DEF Labelled
    <3>5. outstanding' = outstanding /\ committing' = FALSE /\ lh' = lh
      BY <2>10 DEF end_commit
    <3>. QED
      BY <1>0, <3>1, <3>3, <3>4, <3>5 DEF CommitExclusive
  <2>. QED
    BY <1>2, <2>1, <2>2, <2>3, <2>4, <2>5, <2>6, <2>7, <2>8, <2>9, <2>10 DEF Call
<1>3. ASSUME NEW b \in Blocks, bread(b) \/ recycle(b) PROVE CommitExclusive'
  BY <1>0, <1>3, CallersKept DEF bread, recycle
<1>4. CASE crash
  <2>1. Labelled({"op"})' = {} /\ Labelled(Committing)' = {}
    BY <1>4 DEF crash, Labelled, Committing
  <2>. QED
    BY <1>4, <2>1, FS_EmptySet DEF crash, CommitExclusive, Committing
<1>5. CASE UNCHANGED vars
  BY <1>0, <1>5, CallersKept DEF vars, counts
<1>. QED
  BY <1>1, <1>2, <1>3, <1>4, <1>5 DEF Next

(* Everyone but p, which commits, is elsewhere.                            *)
LEMMA OnlyCommitter ==
    ASSUME CommitExclusive, NEW p \in Procs, pc[p] \in Committing
    PROVE  \A q \in Procs : pc[q] # "op" /\ (q # p => pc[q] \notin Committing)
BY DEF CommitExclusive, Labelled

(* While a call is in progress nobody commits.                             *)
LEMMA NoCommitter ==
    ASSUME CommitExclusive, NEW p \in Procs, pc[p] = "op"
    PROVE  ~committing /\ \A q \in Procs : pc[q] \notin Committing
BY DEF CommitExclusive, Labelled

(* A block that is still to be installed is pending, hence pinned.         *)
LEMMA ToInstallIsPending ==
    ASSUME TypeOK, CommitExclusive, NEW p \in Procs, NEW i \in DOMAIN lh,
           pc[p] \in {"write_log", "write_head"} \/ (pc[p] = "install" /\ i >= tail)
    PROVE  Pending(lh[i])
<1>1. \A q \in Procs : q # p => pc[q] \notin Committing
  BY OnlyCommitter DEF Committing
<1>2. tail \in Nat /\ i \in Nat
  BY DEF TypeOK
<1>3. \A q \in Procs : (pc[q] = "install" => tail <= i) /\ pc[q] # "clear"
  BY <1>1, <1>2 DEF Committing
<1>. QED
  BY <1>3 DEF Pending

(* One turn of write_log's loop, or its end.                               *)
LEMMA WriteLogTurn ==
    ASSUME TypeOK, NEW p \in Procs, write_log(p)
    PROVE  /\ tail <= Len(lh) =>
                /\ diskLog' = [diskLog EXCEPT ![tail] = Content(lh[tail])]
                /\ buf' = [buf EXCEPT ![lh[tail]] = Content(lh[tail])]
                /\ tail' = tail + 1 /\ pc' = pc
           /\ tail > Len(lh) =>
                /\ pc' = [pc EXCEPT ![p] = "write_head"]
                /\ tail' = 1 /\ diskLog' = diskLog /\ buf' = buf
           /\ disk' = disk
<1>1. tail \in Nat /\ Len(lh) \in Nat
  BY DEF TypeOK
<1>2. tail <= Len(lh) <=> ~(tail > Len(lh))
  BY <1>1
<1>. QED
  BY <1>2, Zenon DEF write_log

(* One turn of install_trans's loop, or its end.                           *)
LEMMA InstallTurn ==
    ASSUME TypeOK, NEW p \in Procs, install_trans(p)
    PROVE  /\ tail <= Len(lh) =>
                /\ buf' = [buf EXCEPT ![lh[tail]] = diskLog[tail]]
                /\ disk' = [disk EXCEPT ![lh[tail]] = diskLog[tail]]
                /\ refcnt' = [refcnt EXCEPT ![lh[tail]] = @ - 1]
                /\ tail' = tail + 1 /\ pc' = pc
           /\ tail > Len(lh) =>
                /\ pc' = [pc EXCEPT ![p] = "clear"]
                /\ tail' = 1 /\ buf' = buf /\ disk' = disk /\ refcnt' = refcnt
<1>1. tail \in Nat /\ Len(lh) \in Nat
  BY DEF TypeOK
<1>2. tail <= Len(lh) <=> ~(tail > Len(lh))
  BY <1>1
<1>. QED
  BY <1>2, Zenon DEF install_trans

(* The commit's own steps: log blocks, header, home blocks, header again.  *)
LEMMA ProgressCommitStep ==
    ASSUME IInv, NEW p \in Procs,
           \/ commit(p) \/ write_log(p) \/ write_head(p)
           \/ install_trans(p) \/ clear_head(p) \/ end_commit(p)
    PROVE  CommitProgress'
<1>0. TypeOK /\ HeadersFit /\ CommitExclusive /\ CommitProgress /\ boot = "up"
  BY DEF IInv, commit, write_log, write_head, install_trans, clear_head,
     end_commit, Running
<1>t. tail \in Nat \ {0} /\ lh \in Seq(Blocks) /\ pc \in [Procs -> Labels]
  BY <1>0 DEF TypeOK
<1>l. tail \in Nat \ {0} /\ Len(lh) \in Nat /\ DOMAIN lh = 1 .. Len(lh)
  BY <1>t
<1>o. pc[p] \in Committing /\ \A q \in Procs : q # p => pc[q] \notin Committing
  BY <1>0, OnlyCommitter DEF Committing, commit, write_log, write_head,
     install_trans, clear_head, end_commit
<1>1. CASE commit(p)
  <2>1. diskHead = <<>> /\ tail = 1
    BY <1>0, <1>1, <1>o DEF commit, CommitProgress, Committing
  <2>2. UNCHANGED <<diskHead, tail, lh>> /\ \A q \in Procs : q # p => pc'[q] = pc[q]
    BY <1>1, <1>t DEF commit, stable
  <2>3. pc'[p] = IF Len(lh) > 0 THEN "write_log" ELSE "done"
    BY <1>1, <1>t DEF commit
  <2>4. Len(lh) > 0 \/ lh = <<>>
    BY <1>t
  <2>5. LoggedIn(1 .. tail - 1)'
    BY <2>1, <2>2 DEF LoggedIn
  <2>6. \A q \in Procs : q # p => pc'[q] \notin Committing
    BY <1>o, <2>2
  <2>. QED
    BY <2>1, <2>2, <2>3, <2>4, <2>5, <2>6 DEF CommitProgress, Committing
<1>2. CASE write_log(p)
  <2>1. diskHead' = <<>> /\ LoggedIn(1 .. tail - 1) /\ pc[p] = "write_log"
    BY <1>0, <1>2, <1>o DEF write_log, CommitProgress, Committing
  <2>2. UNCHANGED lh
    BY <1>2 DEF write_log
  <2>3. CASE tail <= Len(lh)
    <3>1. /\ diskLog' = [diskLog EXCEPT ![tail] = Content(lh[tail])]
          /\ buf' = [buf EXCEPT ![lh[tail]] = Content(lh[tail])]
          /\ tail' = tail + 1 /\ pc' = pc
      BY <1>0, <1>2, <2>3, WriteLogTurn
    <3>2. LoggedIn(1 .. tail - 1)'
      <4>. SUFFICES ASSUME NEW i \in DOMAIN lh, i \in 1 .. tail
                    PROVE  diskLog'[i] = buf'[lh[i]]
        BY <1>t, <2>2, <3>1 DEF LoggedIn
      <4>1. tail \in LogSlots /\ lh[tail] \in Blocks /\ tail \in DOMAIN lh
        BY <1>0, <2>3, LoopType
      <4>2. diskLog \in [LogSlots -> Vals] /\ buf \in [Blocks -> Vals \cup {NoVal}]
        BY <1>0 DEF TypeOK
      <4>3. CASE i = tail
        BY <3>1, <4>1, <4>2, <4>3
      <4>4. CASE i # tail
        <5>1. lh[i] # lh[tail] /\ lh[i] \in Blocks
          BY <1>0, <1>t, <4>1, <4>4 DEF HeadersFit, Distinct
        <5>2. i \in LogSlots
          BY <1>0, <1>t, LogAssumption DEF HeadersFit, LogSlots
        <5>3. diskLog[i] = buf[lh[i]]
          BY <1>l, <2>1, <4>4 DEF LoggedIn
        <5>. QED
          BY <3>1, <4>2, <4>4, <5>1, <5>2, <5>3
      <4>. QED
        BY <4>3, <4>4
    <3>. QED
      BY <1>o, <2>1, <3>1, <3>2 DEF CommitProgress, Committing
  <2>4. CASE tail > Len(lh)
    <3>1. /\ pc' = [pc EXCEPT ![p] = "write_head"]
          /\ tail' = 1 /\ UNCHANGED <<diskLog, buf>>
      BY <1>0, <1>2, <2>4, WriteLogTurn
    <3>2. LoggedIn(DOMAIN lh)'
      BY <1>t, <2>1, <2>2, <2>4, <3>1 DEF LoggedIn
    <3>. QED
      BY <1>o, <1>t, <2>1, <2>2, <3>1, <3>2 DEF CommitProgress, Committing
  <2>. QED
    BY <1>t, <2>3, <2>4
<1>3. CASE write_head(p)
  <2>1. tail = 1 /\ LoggedIn(DOMAIN lh)
    BY <1>0, <1>3, <1>o DEF write_head, CommitProgress, Committing
  <2>2. diskHead' = lh /\ pc' = [pc EXCEPT ![p] = "install"]
        /\ UNCHANGED <<disk, diskLog, buf, lh, tail>>
    BY <1>3 DEF write_head, memory
  <2>3. LoggedIn({i \in DOMAIN lh : i >= tail})' /\ InstalledBelow(tail)'
    BY <1>t, <2>1, <2>2 DEF LoggedIn, InstalledBelow
  <2>. QED
    BY <1>o, <1>t, <2>1, <2>2, <2>3 DEF CommitProgress, Committing
<1>4. CASE install_trans(p)
  <2>1. /\ diskHead = lh /\ LoggedIn({i \in DOMAIN lh : i >= tail})
        /\ InstalledBelow(tail) /\ pc[p] = "install"
    BY <1>0, <1>4 DEF install_trans, CommitProgress
  <2>2. UNCHANGED <<lh, diskHead, diskLog>>
    BY <1>4 DEF install_trans
  <2>3. CASE tail <= Len(lh)
    <3>1. /\ buf' = [buf EXCEPT ![lh[tail]] = diskLog[tail]]
          /\ disk' = [disk EXCEPT ![lh[tail]] = diskLog[tail]]
          /\ tail' = tail + 1 /\ pc' = pc
      BY <1>0, <1>4, <2>3, InstallTurn
    <3>2. InstalledBelow(tail)'
      BY <1>0, <2>1, <2>2, <2>3, <3>1, InstallOne
    <3>3. LoggedIn({i \in DOMAIN lh : i >= tail})'
      <4>. SUFFICES ASSUME NEW i \in DOMAIN lh, i >= tail + 1
                    PROVE  diskLog[i] = buf'[lh[i]]
        BY <2>2, <3>1 DEF LoggedIn
      <4>1. lh[i] # lh[tail] /\ lh[i] \in Blocks
        BY <1>0, <1>t, <2>3, LoopType DEF HeadersFit, Distinct
      <4>2. diskLog[i] = buf[lh[i]]
        BY <1>t, <2>1 DEF LoggedIn
      <4>3. buf \in [Blocks -> Vals \cup {NoVal}]
        BY <1>0 DEF TypeOK
      <4>. QED
        BY <3>1, <4>1, <4>2, <4>3
    <3>. QED
      BY <1>o, <2>1, <2>2, <3>1, <3>2, <3>3 DEF CommitProgress, Committing
  <2>4. CASE tail > Len(lh)
    <3>1. /\ pc' = [pc EXCEPT ![p] = "clear"]
          /\ tail' = 1 /\ UNCHANGED <<buf, disk>>
      BY <1>0, <1>4, <2>4, InstallTurn
    <3>2. InstalledBelow(Len(lh) + 1)'
      <4>1. \A i \in DOMAIN lh : i < tail
        BY <1>l, <2>4
      <4>2. \A i \in DOMAIN lh : disk[lh[i]] = diskLog[i]
        BY <2>1, <4>1 DEF InstalledBelow
      <4>. QED
        BY <2>2, <3>1, <4>2 DEF InstalledBelow
    <3>. QED
      BY <1>o, <1>t, <2>1, <2>2, <3>1, <3>2 DEF CommitProgress, Committing
  <2>. QED
    BY <1>t, <2>3, <2>4
<1>5. CASE clear_head(p)
  <2>1. tail = 1 /\ tail' = tail
    BY <1>0, <1>5, <1>o DEF clear_head, CommitProgress, Committing
  <2>2. lh' = <<>> /\ diskHead' = <<>> /\ pc' = [pc EXCEPT ![p] = "done"]
    BY <1>5 DEF clear_head
  <2>. QED
    BY <1>o, <1>t, <2>1, <2>2 DEF CommitProgress, Committing
<1>6. CASE end_commit(p)
  <2>1. diskHead' = <<>> /\ tail' = 1
    BY <1>0, <1>6, <1>o DEF end_commit, stable, CommitProgress, Committing
  <2>2. \A q \in Procs : pc'[q] \notin Committing
    BY <1>6, <1>o, <1>t DEF end_commit, Woken, Committing
  <2>. QED
    BY <2>1, <2>2 DEF CommitProgress, Committing
<1>. QED
  BY <1>1, <1>2, <1>3, <1>4, <1>5, <1>6

(* No other step disturbs a commit: in particular no buffer that has still *)
(* to be logged or installed is recycled.                                  *)
LEMMA ProgressStep == IInv /\ [Next]_vars => CommitProgress'
<1>. SUFFICES ASSUME IInv, [Next]_vars, boot' = "up" PROVE CommitProgress'
  BY DEF CommitProgress
<1>0. /\ TypeOK /\ HeadersFit /\ BootInv /\ CommitExclusive /\ CommitProgress
      /\ CacheInv
  BY DEF IInv
<1>t. /\ tail \in Nat \ {0} /\ lh \in Seq(Blocks) /\ pc \in [Procs -> Labels]
      /\ diskLog \in [LogSlots -> Vals] /\ buf \in [Blocks -> Vals \cup {NoVal}]
  BY <1>0 DEF TypeOK
<1>1. CASE read_head \/ recover_install
  BY <1>1 DEF read_head, recover_install
<1>2. CASE recover_clear
  <2>1. diskHead' = <<>> /\ tail' = 1 /\ \A q \in Procs : pc'[q] = "idle"
    BY <1>0, <1>2 DEF recover_clear, BootInv
  <2>. QED
    BY <2>1 DEF CommitProgress
<1>3. ASSUME NEW p \in Procs, begin_op(p) \/ end_op(p) PROVE CommitProgress'
  <2>1. UNCHANGED <<disk, diskHead, diskLog, buf, lh, tail>> /\ boot = "up"
    BY <1>3 DEF begin_op, end_op, stable, memory, Running
  <2>2. \A q \in Procs : \A l \in Committing \ {"commit"} : pc'[q] = l <=> pc[q] = l
    BY <1>3, <1>t DEF begin_op, end_op, Woken, Committing
  <2>3. /\ LoggedIn(1 .. tail - 1)' = LoggedIn(1 .. tail - 1)
        /\ LoggedIn(DOMAIN lh)' = LoggedIn(DOMAIN lh)
        /\ LoggedIn({i \in DOMAIN lh : i >= tail})' = LoggedIn({i \in DOMAIN lh : i >= tail})
    BY <2>1 DEF LoggedIn
  <2>4. /\ InstalledBelow(tail)' = InstalledBelow(tail)
        /\ InstalledBelow(Len(lh) + 1)' = InstalledBelow(Len(lh) + 1)
    BY <2>1 DEF InstalledBelow
  <2>. QED
    BY <1>0, <2>1, <2>2, <2>3, <2>4 DEF CommitProgress, Committing
<1>4. ASSUME NEW p \in Procs, NEW b \in Blocks,
             log_write(p, b) \/ \E v \in Vals : modify(p, b, v)
      PROVE  CommitProgress'
  <2>1. pc[p] = "op" /\ boot = "up" /\ UNCHANGED <<diskHead, tail, pc>>
    BY <1>4 DEF log_write, modify, stable, Running
  <2>2. \A q \in Procs : pc[q] \notin Committing
    BY <1>0, <2>1, NoCommitter
  <2>3. diskHead = <<>> /\ tail = 1
    BY <1>0, <2>1, <2>2 DEF CommitProgress, Committing
  <2>. QED
    BY <2>1, <2>2, <2>3 DEF CommitProgress, Committing
<1>5. ASSUME NEW b \in Blocks, bread(b) \/ recycle(b) PROVE CommitProgress'
  <2>1. UNCHANGED <<disk, diskHead, diskLog, lh, tail, pc>> /\ boot = "up"
    BY <1>5 DEF bread, recycle, stable, Running
  <2>2. ASSUME NEW i \in DOMAIN lh, Pending(lh[i]), diskLog[i] = buf[lh[i]]
        PROVE  buf'[lh[i]] = buf[lh[i]]
    <3>1. i \in LogSlots /\ lh[i] \in Blocks
      BY <1>0, <1>t, LogAssumption DEF HeadersFit, LogSlots
    <3>2. buf[lh[i]] # NoVal /\ refcnt[lh[i]] = 1
      BY <1>0, <2>1, <2>2, <3>1 DEF CacheInv
    <3>3. b # lh[i]
      BY <1>5, <3>2 DEF bread, recycle
    <3>. QED
      BY <1>5, <1>t, <3>1, <3>3 DEF bread, recycle
  <2>3. ASSUME NEW p \in Procs, NEW i \in DOMAIN lh, diskLog[i] = buf[lh[i]],
               pc[p] \in {"write_log", "write_head"} \/ (pc[p] = "install" /\ i >= tail)
        PROVE  diskLog[i] = buf'[lh[i]]
    BY <1>0, <2>2, <2>3, ToInstallIsPending
  <2>. QED
    BY <1>0, <2>1, <2>3 DEF CommitProgress, LoggedIn, InstalledBelow
<1>6. CASE crash
  BY <1>6 DEF crash
<1>7. CASE UNCHANGED vars
  BY <1>0, <1>7 DEF vars, CommitProgress, LoggedIn, InstalledBelow
<1>. QED
  BY <1>1, <1>2, <1>3, <1>4, <1>5, <1>6, <1>7, ProgressCommitStep DEF Next, Call

(* What is pending does not depend on who is elsewhere than in the         *)
(* installing loop.                                                        *)
LEMMA PendingKept ==
    ASSUME UNCHANGED <<lh, tail>>,
           \A q \in Procs : \A l \in {"install", "clear"} : pc'[q] = l <=> pc[q] = l
    PROVE  \A b \in Blocks : Pending(b)' = Pending(b)
BY DEF Pending

(* The cache as log_write and modify, in a call of p, change it.           *)
LEMMA CacheCallStep ==
    ASSUME IInv, NEW p \in Procs, NEW b \in Blocks,
           log_write(p, b) \/ \E v \in Vals : modify(p, b, v)
    PROVE  CacheInv'
<1>0. TypeOK /\ CommitExclusive /\ CacheInv /\ boot = "up" /\ pc[p] = "op"
  BY DEF IInv, log_write, modify, Running
<1>t. /\ refcnt \in [Blocks -> Nat] /\ holder \in [Blocks -> Procs \cup {NoProc}]
      /\ buf \in [Blocks -> Vals \cup {NoVal}]
  BY <1>0 DEF TypeOK
<1>s. lh \in Seq(Blocks)
  BY <1>0 DEF TypeOK
<1>1. \A q \in Procs : pc[q] \notin Committing
  BY <1>0, NoCommitter
<1>2. \A x \in Blocks : Pending(x) <=> Logged(x)
  BY <1>1 DEF Pending, Logged, Committing
<1>3. UNCHANGED <<disk, pc, tail, boot>>
  BY DEF log_write, modify, stable
<1>4. \A x \in Blocks : Pending(x)' <=> Logged(x)'
  BY <1>1, <1>3 DEF Pending, Logged, Committing
<1>5. ASSUME NEW v \in Vals, modify(p, b, v) PROVE CacheInv'
  <2>1. /\ buf' = [buf EXCEPT ![b] = v] /\ holder' = [holder EXCEPT ![b] = p]
        /\ UNCHANGED <<lh, refcnt>>
    BY <1>5 DEF modify
  <2>2. p # NoProc /\ v # NoVal
    BY LogAssumption
  <2>3. \A x \in Blocks : Pending(x)' <=> Pending(x)
    BY <1>2, <1>4, <2>1 DEF Logged
  <2>. QED
    BY <1>0, <1>3, <1>t, <2>1, <2>2, <2>3 DEF CacheInv
<1>6. CASE log_write(p, b)
  <2>0. holder[b] = p /\ UNCHANGED buf
    BY <1>6 DEF log_write
  <2>1. CASE LogWritePanic # "no"
    <3>1. UNCHANGED <<lh, refcnt, holder>>
      BY <1>6, <2>1 DEF log_write
    <3>2. \A x \in Blocks : Pending(x)' <=> Pending(x)
      BY <1>2, <1>4, <3>1 DEF Logged
    <3>. QED
      BY <1>0, <1>3, <2>0, <3>1, <3>2 DEF CacheInv
  <2>2. CASE LogWritePanic = "no" /\ Logged(b)
    <3>1. UNCHANGED <<lh, refcnt>> /\ holder' = [holder EXCEPT ![b] = NoProc]
      BY <1>6, <2>2 DEF log_write
    <3>2. \A x \in Blocks : Pending(x)' <=> Pending(x)
      BY <1>2, <1>4, <3>1 DEF Logged
    <3>. QED
      BY <1>0, <1>2, <1>3, <1>t, <2>0, <2>2, <3>1, <3>2 DEF CacheInv
  <2>3. CASE LogWritePanic = "no" /\ ~Logged(b)
    <3>1. /\ lh' = Append(lh, b) /\ refcnt' = [refcnt EXCEPT ![b] = @ + 1]
          /\ holder' = [holder EXCEPT ![b] = NoProc]
      BY <1>6, <2>3 DEF log_write
    <3>2. \A x \in Blocks : Logged(x)' <=> x = b \/ Logged(x)
      <4>1. /\ DOMAIN lh' = 1 .. Len(lh) + 1 /\ DOMAIN lh = 1 .. Len(lh)
            /\ lh'[Len(lh) + 1] = b /\ Len(lh) \in Nat
            /\ \A i \in DOMAIN lh : lh'[i] = lh[i]
        BY <1>s, <3>1
      <4>. QED
        BY <4>1 DEF Logged
    <3>3. \A x \in Blocks : Pending(x)' <=> x = b \/ Pending(x)
      BY <1>2, <1>4, <3>2
    <3>4. ~Pending(b) /\ refcnt[b] = 0 /\ buf[b] # NoVal
      BY <1>0, <1>2, <2>0, <2>3, LogAssumption DEF CacheInv
    <3>. QED
      BY <1>0, <1>3, <1>t, <2>0, <3>1, <3>3, <3>4 DEF CacheInv
  <2>. QED
    BY <2>1, <2>2, <2>3
<1>. QED
  BY <1>5, <1>6

(* The cache as the committing process p changes it: install_trans unpins  *)
(* a block when its home copy is equal to the cached one.                  *)
LEMMA CacheCommitStep ==
    ASSUME IInv, NEW p \in Procs,
           \/ commit(p) \/ write_log(p) \/ write_head(p)
           \/ install_trans(p) \/ clear_head(p) \/ end_commit(p)
    PROVE  CacheInv'
<1>0. /\ TypeOK /\ HeadersFit /\ CommitExclusive /\ CommitProgress /\ CacheInv
      /\ boot = "up"
  BY DEF IInv, commit, write_log, write_head, install_trans, clear_head,
     end_commit, Running
<1>t. /\ tail \in Nat \ {0} /\ lh \in Seq(Blocks) /\ pc \in [Procs -> Labels]
      /\ refcnt \in [Blocks -> Nat] /\ buf \in [Blocks -> Vals \cup {NoVal}]
      /\ disk \in [Blocks -> Vals]
  BY <1>0 DEF TypeOK
<1>l. tail \in Nat \ {0} /\ Len(lh) \in Nat
  BY <1>t
<1>p. pc \in [Procs -> Labels]
  BY <1>t
<1>r. /\ refcnt \in [Blocks -> Nat] /\ buf \in [Blocks -> Vals \cup {NoVal}]
      /\ disk \in [Blocks -> Vals]
  BY <1>t
<1>o. /\ pc[p] \in Committing
      /\ \A q \in Procs : pc[q] # "op" /\ (q # p => pc[q] \notin Committing)
  BY <1>0, OnlyCommitter DEF Committing, commit, write_log, write_head,
     install_trans, clear_head, end_commit
<1>u. holder' = holder
  BY DEF commit, write_log, write_head, install_trans, clear_head, end_commit, memory
<1>h. \A b \in Blocks : holder[b] = NoProc
  BY <1>0, <1>o DEF CacheInv, TypeOK
<1>1. CASE commit(p) \/ end_commit(p)
  <2>1. UNCHANGED <<lh, tail, disk, buf, refcnt>>
    BY <1>1 DEF commit, end_commit, memory, stable
  <2>2. \A q \in Procs : \A l \in {"install", "clear"} : pc'[q] = l <=> pc[q] = l
    BY <1>1, <1>t DEF commit, end_commit, Woken
  <2>3. \A b \in Blocks : Pending(b)' = Pending(b)
    BY <2>1, <2>2, PendingKept
  <2>. QED
    BY <1>0, <1>h, <1>u, <2>1, <2>3 DEF CacheInv
<1>2. CASE write_log(p)
  <2>1. UNCHANGED <<lh, disk, refcnt>> /\ pc[p] = "write_log"
    BY <1>2 DEF write_log
  <2>2. \A b \in Blocks : buf'[b] = buf[b]
    <3>1. CASE tail <= Len(lh)
      <4>1. lh[tail] \in Blocks /\ Pending(lh[tail])
        BY <1>0, <2>1, <3>1, LoopType, ToInstallIsPending
      <4>2. Content(lh[tail]) = buf[lh[tail]]
        BY <1>0, <4>1 DEF CacheInv, Content
      <4>3. buf' = [buf EXCEPT ![lh[tail]] = buf[lh[tail]]]
        BY <1>2, <1>t, <3>1, <4>2 DEF write_log
      <4>. QED
        BY <1>t, <4>3
    <3>2. CASE tail > Len(lh)
      BY <1>0, <1>2, <3>2, WriteLogTurn
    <3>. QED
      BY <1>t, <3>1, <3>2
  <2>3. \A q \in Procs : pc[q] \notin {"install", "clear"} /\ pc'[q] \notin {"install", "clear"}
    BY <1>2, <1>o, <1>t DEF write_log, Committing
  <2>4. \A b \in Blocks : Pending(b)' = Pending(b)
    BY <2>1, <2>3 DEF Pending
  <2>. QED
    BY <1>0, <1>h, <1>u, <2>1, <2>2, <2>4 DEF CacheInv
<1>3. CASE write_head(p)
  <2>1. UNCHANGED <<lh, disk, buf, refcnt, tail>> /\ tail = 1
    BY <1>0, <1>3, <1>o DEF write_head, memory, CommitProgress, Committing
  <2>2. \A q \in Procs : pc[q] \notin {"install", "clear"} /\ pc'[q] # "clear"
    BY <1>3, <1>o, <1>t DEF write_head, Committing
  <2>3. \A b \in Blocks : Pending(b)' = Pending(b)
    BY <1>t, <2>1, <2>2 DEF Pending
  <2>. QED
    BY <1>0, <1>h, <1>u, <2>1, <2>3 DEF CacheInv
<1>4. CASE install_trans(p)
  <2>1. UNCHANGED lh /\ pc[p] = "install"
    BY <1>4 DEF install_trans
  <2>2. CASE tail <= Len(lh)
    <3>1. /\ buf' = [buf EXCEPT ![lh[tail]] = diskLog[tail]]
          /\ disk' = [disk EXCEPT ![lh[tail]] = diskLog[tail]]
          /\ refcnt' = [refcnt EXCEPT ![lh[tail]] = @ - 1]
          /\ tail' = tail + 1 /\ pc' = pc
      BY <1>0, <1>4, <2>2, InstallTurn
    <3>2. lh[tail] \in Blocks /\ tail \in DOMAIN lh /\ Pending(lh[tail])
      BY <1>0, <1>t, <2>1, <2>2, LoopType, ToInstallIsPending
    <3>3. \A b \in Blocks : Pending(b)' <=> b # lh[tail] /\ Pending(b)
      <4>1. \A b \in Blocks : Pending(b) <=> \E i \in DOMAIN lh : lh[i] = b /\ tail <= i
        BY <1>o, <2>1 DEF Pending, Committing
      <4>2. \A b \in Blocks :
              Pending(b)' <=> \E i \in DOMAIN lh : lh[i] = b /\ tail + 1 <= i
        BY <1>o, <2>1, <3>1 DEF Pending, Committing
      <4>3. \A i \in DOMAIN lh : lh[i] = lh[tail] => i = tail
        BY <1>0, <3>2 DEF HeadersFit, Distinct
      <4>. QED
        BY <1>t, <3>2, <4>1, <4>2, <4>3
    <3>4. refcnt[lh[tail]] = 1
      BY <1>0, <3>2 DEF CacheInv
    <3>. QED
      <4>. SUFFICES ASSUME NEW b \in Blocks
                    PROVE  /\ refcnt'[b] = IF Pending(b)' THEN 1 ELSE 0
                           /\ Pending(b)' => buf'[b] # NoVal
                           /\ ~Pending(b)' => buf'[b] \in {NoVal, disk'[b]}
        BY <1>h, <1>u DEF CacheInv
      <4>1. CASE b = lh[tail]
        <5>1. ~Pending(b)'
          BY <3>3, <4>1
        <5>2. refcnt'[b] = 0
          BY <1>r, <3>1, <3>4, <4>1
        <5>3. buf'[b] = disk'[b]
          BY <1>r, <3>1, <4>1
        <5>. QED
          BY <5>1, <5>2, <5>3
      <4>2. CASE b # lh[tail]
        <5>1. /\ refcnt[b] = IF Pending(b) THEN 1 ELSE 0
              /\ Pending(b) => buf[b] # NoVal
              /\ ~Pending(b) => buf[b] \in {NoVal, disk[b]}
          BY <1>0, <1>h DEF CacheInv
        <5>2. refcnt'[b] = refcnt[b] /\ buf'[b] = buf[b] /\ disk'[b] = disk[b]
          BY <1>r, <3>1, <4>2
        <5>. QED
          BY <3>3, <4>2, <5>1, <5>2
      <4>. QED
        BY <4>1, <4>2
  <2>3. CASE tail > Len(lh)
    <3>1. UNCHANGED <<buf, disk, refcnt>> /\ pc'[p] = "clear"
      BY <1>0, <1>4, <1>p, <2>3, InstallTurn
    <3>2. \A b \in Blocks : ~Pending(b) /\ ~Pending(b)'
      BY <1>t, <2>1, <2>3, <3>1 DEF Pending
    <3>. QED
      BY <1>0, <1>h, <1>u, <3>1, <3>2 DEF CacheInv
  <2>. QED
    BY <1>t, <2>2, <2>3
<1>5. CASE clear_head(p)
  <2>1. UNCHANGED <<disk, buf, refcnt>> /\ lh' = <<>> /\ pc[p] = "clear"
    BY <1>5 DEF clear_head, memory
  <2>2. \A b \in Blocks : ~Pending(b) /\ ~Pending(b)'
    <3>1. \A b \in Blocks : ~Pending(b)
      BY <2>1 DEF Pending
    <3>2. \A b \in Blocks : ~Pending(b)'
      BY <2>1 DEF Pending
    <3>. QED
      BY <3>1, <3>2
  <2>. QED
    BY <1>0, <1>h, <1>u, <2>1, <2>2 DEF CacheInv
<1>. QED
  BY <1>1, <1>2, <1>3, <1>4, <1>5

(* Every cached block that is neither held nor pending stays clean, and    *)
(* pins stay in step with what is pending.                                 *)
LEMMA CacheStep == IInv /\ [Next]_vars => CacheInv'
<1>. SUFFICES ASSUME IInv, [Next]_vars, boot' = "up" PROVE CacheInv'
  BY DEF CacheInv
<1>0. TypeOK /\ BootInv /\ CommitExclusive /\ CacheInv
  BY DEF IInv
<1>t. /\ pc \in [Procs -> Labels] /\ buf \in [Blocks -> Vals \cup {NoVal}]
      /\ disk \in [Blocks -> Vals] /\ holder \in [Blocks -> Procs \cup {NoProc}]
  BY <1>0 DEF TypeOK
<1>1. CASE read_head \/ recover_install
  BY <1>1 DEF read_head, recover_install
<1>2. CASE recover_clear
  <2>1. lh' = <<>> /\ UNCHANGED <<disk, buf, refcnt, holder>> /\ boot # "up"
    BY <1>2 DEF recover_clear, memory
  <2>2. \A b \in Blocks : ~Pending(b)'
    BY <2>1 DEF Pending
  <2>3. \A b \in Blocks : refcnt[b] = 0 /\ holder[b] = NoProc /\ buf[b] \in {NoVal, disk[b]}
    BY <1>0, <2>1 DEF BootInv
  <2>. QED
    BY <2>1, <2>2, <2>3 DEF CacheInv
<1>3. ASSUME NEW p \in Procs, begin_op(p) \/ end_op(p) PROVE CacheInv'
  <2>1. UNCHANGED <<disk, buf, refcnt, holder, lh, tail>> /\ boot = "up"
    BY <1>3 DEF begin_op, end_op, stable, memory, Running
  <2>2. \A q \in Procs : \A l \in {"install", "clear"} : pc'[q] = l <=> pc[q] = l
    BY <1>3, <1>t DEF begin_op, end_op, Woken
  <2>3. \A b \in Blocks : Pending(b)' = Pending(b)
    BY <2>1, <2>2, PendingKept
  <2>4. ASSUME NEW b \in Blocks, holder[b] # NoProc PROVE pc'[holder[b]] = "op"
    <3>1. pc[holder[b]] = "op" /\ holder[b] \in Procs
      BY <1>0, <1>t, <2>1, <2>4 DEF CacheInv
    <3>2. holder[b] # p
      BY <1>3, <3>1 DEF begin_op, end_op
    <3>. QED
      BY <1>3, <1>t, <3>1, <3>2 DEF begin_op, end_op, Woken
  <2>. QED
    BY <1>0, <2>1, <2>3, <2>4 DEF CacheInv
<1>4. ASSUME NEW b \in Blocks, bread(b) \/ recycle(b) PROVE CacheInv'
  <2>1. UNCHANGED <<disk, refcnt, holder, lh, tail, pc>> /\ boot = "up"
    BY <1>4 DEF bread, recycle, stable, Running
  <2>2. \A x \in Blocks : Pending(x)' = Pending(x)
    BY <2>1, PendingKept
  <2>3. ~Pending(b) /\ holder[b] = NoProc
    <3>1. buf[b] = NoVal \/ (refcnt[b] = 0 /\ holder[b] = NoProc)
      BY <1>4 DEF bread, recycle
    <3>2. /\ refcnt[b] = (IF Pending(b) THEN 1 ELSE 0)
          /\ (Pending(b) \/ holder[b] # NoProc) => buf[b] # NoVal
      BY <1>0, <2>1 DEF CacheInv
    <3>. QED
      BY <3>1, <3>2
  <2>4. /\ buf'[b] \in {NoVal, disk[b]}
        /\ \A x \in Blocks : x # b => buf'[x] = buf[x]
    BY <1>4, <1>t DEF bread, recycle
  <2>. QED
    BY <1>0, <2>1, <2>2, <2>3, <2>4 DEF CacheInv
<1>5. CASE crash
  BY <1>5 DEF crash
<1>6. CASE UNCHANGED vars
  <2>1. UNCHANGED <<lh, tail, pc, disk, refcnt, holder, buf, boot>>
    BY <1>6 DEF vars
  <2>2. \A x \in Blocks : Pending(x)' = Pending(x)
    BY <2>1, PendingKept
  <2>. QED
    BY <1>0, <2>1, <2>2 DEF CacheInv
<1>. QED
  BY <1>1, <1>2, <1>3, <1>4, <1>5, <1>6, CacheCallStep, CacheCommitStep DEF Next, Call

(* At power-on the invariant holds: memory is zeroed, the header empty.    *)
LEMMA InitIInv == Init => IInv
<1>. SUFFICES ASSUME Init PROVE IInv
  OBVIOUS
<1>1. TypeOK
  <2>1. disk \in [Blocks -> Vals] /\ diskLog \in [LogSlots -> Vals]
    BY DEF Init
  <2>2. /\ buf \in [Blocks -> Vals \cup {NoVal}]
        /\ holder \in [Blocks -> Procs \cup {NoProc}]
        /\ refcnt \in [Blocks -> Nat] /\ outstanding \in Nat /\ tail \in Nat \ {0}
    BY DEF Init
  <2>3. /\ pc \in [Procs -> Labels] /\ written \in [Procs -> SUBSET Blocks]
    BY DEF Init, Labels
  <2>4. committing \in BOOLEAN /\ boot \in BootLabels /\ panicked = "no"
    BY DEF Init, BootLabels
  <2>5. diskHead \in Seq(Blocks) /\ lh \in Seq(Blocks)
    <3>1. diskHead = <<>> /\ lh = <<>>
      BY DEF Init
    <3>. QED
      BY <3>1
  <2>. QED
    BY <2>1, <2>2, <2>3, <2>4, <2>5 DEF TypeOK
<1>2. HeadersFit
  BY LogAssumption DEF Init, HeadersFit, Distinct
<1>3. BootInv
  BY DEF Init, BootInv
<1>4. Labelled({"op"}) = {} /\ Labelled(Committing) = {}
  BY DEF Init, Labelled, Committing
<1>5. CommitExclusive
  BY <1>4, FS_EmptySet DEF Init, CommitExclusive, Committing
<1>6. CommitProgress /\ CacheInv
  BY DEF Init, CommitProgress, CacheInv
<1>. QED
  BY <1>1, <1>2, <1>3, <1>5, <1>6 DEF IInv

(* The inductive invariant of log.c holds at every step of every           *)
(* execution, with crashes anywhere: the invariant the others rest on.     *)
THEOREM Invariance == Spec => []IInv
<1>1. IInv /\ [Next]_vars => IInv'
  BY TypeStep, HeadersStep, BootStep, ExclusiveStep, ProgressStep, CacheStep DEF IInv
<1>. QED
  BY InitIInv, <1>1, PTL DEF Spec

(* Types: `outstanding` and the pin counts never go below zero, for any    *)
(* interleaving of begin_op, log_write, end_op, commit and crashes.        *)
THEOREM TypeCorrect == Spec => []TypeOK
<1>1. IInv => TypeOK
  BY DEF IInv
<1>. QED
  BY <1>1, Invariance, PTL

(* bpin in log_write and bunpin in install_trans balance: a buffer is      *)
(* pinned exactly while its block is logged and not installed.             *)
THEOREM Pinning == Spec => []PinnedWhilePending
<1>1. IInv => PinnedWhilePending
  BY DEF IInv, CacheInv, PinnedWhilePending
<1>. QED
  BY <1>1, Invariance, PTL

(* When the committing end_op is about to return, a crash cannot undo what *)
(* any completed call wrote.                                               *)
THEOREM Durability == Spec => []CommitIsDurable
<1>1. IInv => CommitIsDurable
  <2>. SUFFICES ASSUME IInv, NEW p \in Procs, pc[p] = "done"
                PROVE  Recovered = [b \in Blocks |-> Content(b)]
    BY DEF CommitIsDurable, Labelled
  <2>0. BootInv /\ CommitExclusive /\ CommitProgress /\ CacheInv /\ TypeOK
    BY DEF IInv
  <2>1. boot = "up"
    BY <2>0 DEF BootInv
  <2>2. \A q \in Procs : pc[q] # "op" /\ pc[q] \notin {"install", "clear"}
    BY <2>0, OnlyCommitter DEF Committing
  <2>3. lh = <<>> /\ diskHead = <<>>
    BY <2>0, <2>1, <2>2 DEF CommitProgress
  <2>4. \A b \in Blocks : ~Pending(b)
    BY <2>3 DEF Pending
  <2>h. \A b \in Blocks : holder[b] = NoProc
    <3>1. \A b \in Blocks : holder[b] \in Procs \cup {NoProc}
      BY <2>0 DEF TypeOK
    <3>. QED
      BY <2>0, <2>1, <2>2, <3>1 DEF CacheInv
  <2>5. \A b \in Blocks : Content(b) = disk[b]
    BY <2>0, <2>1, <2>4, <2>h DEF CacheInv, Content
  <2>. QED
    BY <2>3, <2>5 DEF Recovered
<1>. QED
  BY <1>1, Invariance, PTL

=============================================================================
