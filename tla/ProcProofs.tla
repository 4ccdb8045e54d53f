----------------------------- MODULE ProcProofs -----------------------------
(***************************************************************************)
(* Proofs about processes and the scheduler (module Proc), for any number  *)
(* of slots, CPUs and pids: ProcInv is inductive, and with it no stack is  *)
(* shared, no exit is missed by wait(), sched() and acquire() do not       *)
(* panic, and every process has a living parent.                           *)
(*                                                                         *)
(* ProcLocks and ProcTable have the lemmas about locks, CPUs and the       *)
(* table.  The last conjunct, WaitInv, is the one about exit() meeting     *)
(* wait(): its steps are proved for one parent and one child at a time.    *)
(***************************************************************************)
EXTENDS ProcTable

(* A parent that dozes holds no lock of wait(), and while its p->lock is   *)
(* free it is asleep on its own channel.                                   *)
LEMMA DozeFacts ==
    ASSUME ProcInv, NEW u \in Procs, Dozes(u)
    PROVE  /\ pc[u] \notin HasWaitLock
           /\ state[u] # "ZOMBIE"
           /\ plock[u] = Nobody => state[u] = "SLEEPING" /\ chan[u] = u
<1> TypeOK /\ CpuInv /\ StateInv /\ ScanInv BY DEF ProcInv
<1>1. CASE OnCpu(u)
  <2>1. PICK c \in Cpus : Runs(c, u) BY <1>1 DEF OnCpu
  <2>2. pc[u] = "sleep_sched" BY <1>1 DEF Dozes, StateInv
  <2>3. plock[u] = c /\ state[u] = "RUNNING"
    BY <1>1, <2>1, <2>2, ConstantFacts DEF CpuInv, Runs, HasLock, StateInv
  <2> QED BY <2>2, <2>3, ConstantFacts DEF HasWaitLock
<1>2. CASE ~OnCpu(u) BY <1>2 DEF Dozes, StateInv, HasWaitLock, ScanInv
<1> QED BY <1>1, <1>2

(* WaitInv of one parent and one child.                                    *)
WaitFor(p, q) ==
    /\ pc[p] = "wait_scan" /\ q < idx[p] => state[q] # "ZOMBIE"
    /\ pc[p] = "sleep" => state[q] # "ZOMBIE"
    /\ Dozes(p) /\ state[q] = "ZOMBIE" =>
         \E r \in Procs : pc[r] = "wakeup" /\ np[r] = p /\ idx[r] <= p
    /\ pc[q] = "exit_zombie" => ~Dozes(p)
    /\ pc[q] = "wakeup" /\ ret[q] = "exit_zombie" /\ idx[q] > p => ~Dozes(p)

LEMMA WaitForAll == WaitInv <=> \A p, q \in Procs : parent[q] = p => WaitFor(p, q)
BY DEF WaitInv, WaitFor

(* Steps that put nobody to sleep, make no zombie and do not concern the   *)
(* threads in wakeup keep WaitInv.                                         *)
LEMMA WaitFrame ==
    ASSUME ProcInv, \A q \in Procs : parent'[q] = parent[q] \/ parent'[q] = Nobody,
           \A q \in Procs : pc'[q] \in {"wakeup", "exit_zombie"} \/ pc[q] = "wakeup" =>
             pc'[q] = pc[q] /\ idx'[q] = idx[q] /\ ret'[q] = ret[q] /\ np'[q] = np[q],
           \A q \in Procs : pc'[q] \in {"wait_scan", "sleep"} =>
             \/ pc'[q] = pc[q] /\ idx'[q] = idx[q]
             \/ \A r \in Procs : /\ parent'[r] = q
                                 /\ pc'[q] = "wait_scan" => r < idx'[q]
                                 => state'[r] # "ZOMBIE",
           \A q \in Procs : Dozes(q)' => Dozes(q),
           \A q \in Procs : state'[q] = "ZOMBIE" => state[q] = "ZOMBIE"
    PROVE  WaitInv'
<1> TypeOK /\ WaitInv BY DEF ProcInv
<1> SUFFICES ASSUME NEW p \in Procs, NEW q \in Procs, parent'[q] = p
             PROVE  WaitFor(p, q)'
  BY DEF WaitInv, WaitFor
<1>1. parent[q] = p BY ConstantFacts
<1>2. WaitFor(p, q) BY <1>1, WaitForAll
<1>3. Dozes(p)' /\ state'[q] = "ZOMBIE" =>
           \E r \in Procs : pc'[r] = "wakeup" /\ np'[r] = p /\ idx'[r] <= p
  BY <1>2 DEF WaitFor
<1>4. (pc'[p] = "wait_scan" /\ q < idx'[p]) \/ pc'[p] = "sleep" => state'[q] # "ZOMBIE"
  BY <1>2 DEF WaitFor
<1> QED BY <1>2, <1>3, <1>4 DEF WaitFor

LEMMA KillKeepsWaitInv ==
    ASSUME ProcInv, NEW c \in Cpus, NEW p \in Procs, kill(c, p)
    PROVE  WaitInv'
<1> TypeOK /\ StateInv /\ CpuInv /\ WaitInv BY DEF ProcInv
<1>1. /\ pc[p] = "kill" /\ UNCHANGED <<parent, np, ret>>
      /\ pc' = pc \/ pc' = [pc EXCEPT ![p] = "sysret"]
      /\ idx' = idx \/ idx' = [idx EXCEPT ![p] = @ + 1]
  BY DEF kill, At, Goto
<1>2. \A q \in Procs : state'[q] = state[q] \/ (state[q] = "SLEEPING" /\ state'[q] = "RUNNABLE")
  BY DEF kill, TypeOK
<1>3. \A q \in Procs : q # p => pc'[q] = pc[q] /\ idx'[q] = idx[q]
  BY <1>1 DEF TypeOK
<1>4. pc'[p] \in {"kill", "sysret"} BY <1>1 DEF TypeOK
<1>5. \A q \in Procs : Dozes(q)' => Dozes(q) BY <1>2, <1>3, <1>4 DEF Dozes
<1> QED BY <1>1, <1>2, <1>3, <1>4, <1>5, WaitFrame

LEMMA WaitScanKeepsWaitInv ==
    ASSUME ProcInv, NEW c \in Cpus, NEW p \in Procs, wait_scan(c, p)
    PROVE  WaitInv'
<1> TypeOK /\ StateInv /\ CpuInv /\ WaitInv BY DEF ProcInv
<1>1. pc[p] = "wait_scan" BY DEF wait_scan, At
<1>2. ASSUME NEW q \in Children(p), state[q] = "ZOMBIE", freeproc(p, q)
      PROVE WaitInv'
  <2>1. /\ q \in Procs /\ q # p
        /\ parent' = [parent EXCEPT ![q] = Nobody]
        /\ state' = [state EXCEPT ![q] = "UNUSED"]
        /\ pc' = [pc EXCEPT ![p] = "sysret", ![q] = "forkret"]
        /\ idx' = [idx EXCEPT ![q] = 1] /\ np' = [np EXCEPT ![q] = 0]
        /\ ret' = [ret EXCEPT ![q] = "user"]
        /\ pc[q] = "exit_sched"
    BY <1>1, <1>2 DEF freeproc, Children, StateInv
  <2>2. \A r \in Procs : r # p /\ r # q =>
          pc'[r] = pc[r] /\ idx'[r] = idx[r] /\ np'[r] = np[r] /\ ret'[r] = ret[r]
    BY <2>1 DEF TypeOK
  <2>3. pc'[p] = "sysret" /\ pc'[q] = "forkret" BY <2>1 DEF TypeOK
  <2>4. \A r \in Procs : Dozes(r)' => Dozes(r)
    BY <2>1, <2>2, <2>3 DEF Dozes, TypeOK
  <2>5. \A r \in Procs : parent'[r] = parent[r] \/ parent'[r] = Nobody
    BY <2>1 DEF TypeOK
  <2>6. \A r \in Procs : state'[r] = "ZOMBIE" => state[r] = "ZOMBIE"
    BY <2>1 DEF TypeOK
  <2>7. \A r \in Procs :
          pc'[r] \in {"wakeup", "exit_zombie", "wait_scan", "sleep"} \/ pc[r] = "wakeup" =>
            pc'[r] = pc[r] /\ idx'[r] = idx[r] /\ ret'[r] = ret[r] /\ np'[r] = np[r]
    BY <1>1, <2>1, <2>2, <2>3
  <2> QED BY <2>4, <2>5, <2>6, <2>7, WaitFrame
<1>3. CASE UNCHANGED <<parent, state, np, ret>>
  <2>0. \A q \in Children(p) : state[q] = "ZOMBIE" => ~freeproc(p, q)
    BY <1>3 DEF freeproc, Children, TypeOK
  <2>1. \/ pc' = [pc EXCEPT ![p] = "sysret"] /\ idx' = idx
        \/ /\ pc' = [pc EXCEPT ![p] = "sleep"] /\ idx' = idx
           /\ \A q \in Procs : parent[q] = p => q < idx[p]
        \/ /\ pc' = pc
           /\ \E q \in Procs : /\ idx' = [idx EXCEPT ![p] = q + 1] /\ state[q] # "ZOMBIE"
                               /\ parent[q] = p
                               /\ \A r \in Procs : parent[r] = p /\ r >= idx[p] => q <= r
    BY <2>0 DEF wait_scan, Children, Goto
  <2>2. \A q \in Procs : q # p => pc'[q] = pc[q] /\ idx'[q] = idx[q]
    BY <2>1 DEF TypeOK
  <2>3. pc'[p] \in {"sysret", "sleep", "wait_scan"} BY <1>1, <2>1 DEF TypeOK
  <2>4. \A q \in Procs : parent[q] = p /\ q < idx[p] => state[q] # "ZOMBIE"
    BY <1>1 DEF WaitInv
  <2>5. pc'[p] \in {"wait_scan", "sleep"} =>
          \A r \in Procs : parent[r] = p /\ (pc'[p] = "wait_scan" => r < idx'[p])
                           => state[r] # "ZOMBIE"
    <3>1. CASE pc' = pc
      <4>1. PICK q \in Procs : /\ idx' = [idx EXCEPT ![p] = q + 1] /\ state[q] # "ZOMBIE"
                               /\ \A r \in Procs : parent[r] = p /\ r >= idx[p] => q <= r
        BY <1>1, <2>1, <3>1 DEF TypeOK
      <4>2. idx'[p] = q + 1 BY <4>1 DEF TypeOK
      <4>3. idx[p] \in Nat BY SlotFacts DEF TypeOK
      <4>4. \A r \in Procs : parent[r] = p /\ r < q + 1 => state[r] # "ZOMBIE"
        BY <2>4, <4>1, <4>3, SlotFacts
      <4> QED BY <1>1, <3>1, <4>2, <4>4
    <3>2. CASE pc' # pc
      <4>1. pc'[p] # "wait_scan" BY <1>1, <2>1, <3>2 DEF TypeOK
      <4>2. pc'[p] = "sleep" => \A q \in Procs : parent[q] = p => q < idx[p]
        BY <2>1, <3>2 DEF TypeOK
      <4> QED BY <2>4, <4>1, <4>2
    <3> QED BY <3>1, <3>2
  <2>6. \A q \in Procs : Dozes(q)' => Dozes(q) BY <1>3, <2>2, <2>3 DEF Dozes
  <2> QED BY <1>1, <1>3, <2>2, <2>3, <2>5, <2>6, WaitFrame
<1> QED BY <1>2, <1>3 DEF wait_scan, slots

LEMMA SleepKeepsWaitInv ==
    ASSUME ProcInv, NEW c \in Cpus, NEW p \in Procs, sleep(c, p)
    PROVE  WaitInv'
<1> TypeOK /\ CpuInv /\ StateInv /\ WaitLockInv /\ WaitInv BY DEF ProcInv
<1>1. /\ pc[p] = "sleep" /\ pc' = [pc EXCEPT ![p] = "sleep_sched"]
      /\ UNCHANGED <<state, parent, idx, np, ret>>
  BY DEF sleep, At, Goto, slots, locals
<1>2. \A r \in Procs \ {p} : pc[r] \notin HasWaitLock /\ pc'[r] = pc[r]
  BY <1>1, OneHolder DEF HasWaitLock, TypeOK
<1>3. pc'[p] = "sleep_sched" BY <1>1 DEF TypeOK
<1> SUFFICES ASSUME NEW u \in Procs, NEW v \in Procs, parent[v] = u PROVE WaitFor(u, v)'
  BY <1>1 DEF WaitInv, WaitFor
<1>4. WaitFor(u, v) BY WaitForAll
<1>5. Dozes(u)' => state[v] # "ZOMBIE"
  <2>1. CASE u = p BY <1>1, <1>4, <2>1 DEF WaitFor
  <2>2. CASE u # p BY <1>1, <1>2, <1>4, <2>2 DEF WaitFor, HasWaitLock, Dozes
  <2> QED BY <2>1, <2>2
<1> QED BY <1>1, <1>2, <1>3, <1>5 DEF WaitFor, HasWaitLock

LEMMA ExitZombieKeepsWaitInv ==
    ASSUME ProcInv, NEW c \in Cpus, NEW p \in Procs, exit_zombie(c, p)
    PROVE  WaitInv'
<1> TypeOK /\ CpuInv /\ StateInv /\ WaitLockInv /\ WaitInv BY DEF ProcInv
<1>1. /\ pc[p] = "exit_zombie" /\ pc' = [pc EXCEPT ![p] = "exit_sched"]
      /\ state' = [state EXCEPT ![p] = "ZOMBIE"]
      /\ UNCHANGED <<parent, idx, np, ret>>
  BY DEF exit_zombie, At, Goto, locals
<1>2. \A r \in Procs \ {p} : /\ pc[r] \notin HasWaitLock /\ pc'[r] = pc[r]
                             /\ state'[r] = state[r]
  BY <1>1, OneHolder DEF HasWaitLock, TypeOK
<1>3. pc'[p] = "exit_sched" /\ state'[p] = "ZOMBIE" BY <1>1 DEF TypeOK
<1> SUFFICES ASSUME NEW u \in Procs, NEW v \in Procs, parent[v] = u PROVE WaitFor(u, v)'
  BY <1>1 DEF WaitInv, WaitFor
<1>4. WaitFor(u, v) BY WaitForAll
<1>5. Dozes(u)' => u # p /\ Dozes(u) BY <1>2, <1>3 DEF Dozes
<1>6. Dozes(u) => v # p BY <1>1, <1>4 DEF WaitFor
<1>7. Dozes(u) => state[v] # "ZOMBIE"
  BY <1>1, <1>2, <1>4 DEF WaitFor, HasWaitLock
<1> QED BY <1>2, <1>3, <1>5, <1>6, <1>7 DEF WaitFor, HasWaitLock

LEMMA ReparentKeepsWaitInv ==
    ASSUME ProcInv, NEW c \in Cpus, NEW p \in Procs, reparent(c, p)
    PROVE  WaitInv'
<1> TypeOK /\ CpuInv /\ StateInv /\ WaitLockInv /\ ScanInv /\ WaitInv
  BY DEF ProcInv
<1>1. /\ pc[p] = "reparent" /\ pc' = [pc EXCEPT ![p] = "wakeup"]
      /\ UNCHANGED <<state, idx>>
  BY DEF reparent, At, Goto, CallWakeup
<1>2. \A r \in Procs \ {p} : pc[r] \notin HasWaitLock /\ pc'[r] = pc[r]
  BY <1>1, OneHolder DEF HasWaitLock, TypeOK
<1>3. pc'[p] = "wakeup" /\ idx'[p] = 1 BY <1>1 DEF TypeOK, ScanInv, Doing
<1>4. \A v \in Procs : parent'[v] # parent[v] => parent'[v] = initproc /\ np'[p] = initproc
  BY DEF reparent, CallWakeup, Children, TypeOK
<1> SUFFICES ASSUME NEW u \in Procs, NEW v \in Procs, parent'[v] = u PROVE WaitFor(u, v)'
  BY DEF WaitInv, WaitFor
<1>5. Dozes(u)' => Dozes(u) BY <1>1, <1>2, <1>3 DEF Dozes
<1>6. Dozes(u)' /\ state[v] = "ZOMBIE" => np'[p] = u
  <2>1. CASE parent[v] = u
    <3>1. WaitFor(u, v) BY <2>1, WaitForAll
    <3> QED BY <1>1, <1>2, <1>5, <3>1 DEF WaitFor, HasWaitLock
  <2>2. CASE parent[v] # u BY <1>4, <2>2
  <2> QED BY <2>1, <2>2
<1>7. idx'[p] <= u /\ ~(idx'[p] > u) BY <1>3, SlotFacts
<1> QED BY <1>1, <1>2, <1>3, <1>6, <1>7 DEF WaitFor, HasWaitLock

LEMMA WakeupKeepsWaitInv ==
    ASSUME ProcInv, NEW c \in Cpus, NEW p \in Procs, wakeup(c, p)
    PROVE  WaitInv'
<1> TypeOK /\ CpuInv /\ StateInv /\ WaitLockInv /\ ScanInv /\ WaitInv
  BY DEF ProcInv
<1>1. pc[p] = "wakeup" /\ UNCHANGED <<parent, np, ret, plock, chan>>
  BY DEF wakeup, At
<1>2. /\ ret[p] \in {"reparent", "exit_zombie"}
      /\ ret[p] = "exit_zombie" => np[p] = parent[p]
  BY <1>1 DEF ScanInv
<1>3. \A r \in Procs \ {p} : pc[r] \notin HasWaitLock
  BY <1>1, OneHolder DEF HasWaitLock
<1>4. idx[p] \in Nat /\ (idx[p] <= NPROC => idx[p] \in Procs) /\ NPROC \in Nat
  BY SlotFacts DEF TypeOK
<1>5. \A u \in Procs : u \in Nat /\ u <= NPROC BY SlotFacts
<1>6. CASE idx[p] > NPROC
  <2>1. pc' = [pc EXCEPT ![p] = ret[p]] /\ idx' = [idx EXCEPT ![p] = 1] /\ state' = state
    <3>1. idx[p] # p BY <1>4, <1>5, <1>6
    <3> QED BY <1>4, <1>6, <3>1 DEF wakeup, Goto
  <2>2. pc'[p] = ret[p] /\ \A r \in Procs \ {p} : pc'[r] = pc[r]
    BY <2>1 DEF TypeOK
  <2> SUFFICES ASSUME NEW u \in Procs, NEW v \in Procs, parent[v] = u PROVE WaitFor(u, v)'
    BY <1>1 DEF WaitInv, WaitFor
  <2>3. WaitFor(u, v) BY WaitForAll
  <2>4. Dozes(u)' => Dozes(u) BY <1>2, <2>1, <2>2 DEF Dozes
  <2>5. Dozes(u) => state[v] # "ZOMBIE"
    BY <1>1, <1>3, <1>4, <1>5, <1>6, <2>3 DEF WaitFor, HasWaitLock
  <2>6. pc'[v] = "exit_zombie" => ~Dozes(u)
    BY <1>1, <1>2, <1>3, <1>4, <1>5, <1>6, <2>2, <2>3 DEF WaitFor, HasWaitLock
  <2>7. pc'[u] \notin {"wait_scan", "sleep"} /\ pc'[v] # "wakeup"
    BY <1>2, <1>3, <2>2 DEF HasWaitLock
  <2> QED BY <2>1, <2>4, <2>5, <2>6, <2>7 DEF WaitFor
<1>7. CASE idx[p] <= NPROC
  <2>1. pc' = pc /\ idx' = [idx EXCEPT ![p] = @ + 1] BY <1>4, <1>7 DEF wakeup
  <2>2. idx'[p] = idx[p] + 1 BY <2>1 DEF TypeOK
  <2>3. \A u \in Procs : Dozes(u) => u # p BY <1>1, DozeFacts DEF HasWaitLock
  <2>4. \A u \in Procs : Dozes(u)' => Dozes(u) BY <2>1 DEF wakeup, TypeOK, Dozes
  <2>5. \A u \in Procs : idx[p] = u /\ np[p] = u /\ u # p => ~Dozes(u)'
    <3> SUFFICES ASSUME NEW u \in Procs, idx[p] = u, np[p] = u, u # p, Dozes(u)' PROVE FALSE
      OBVIOUS
    <3>1. plock[u] = Nobody /\ state' = [state EXCEPT ![u] =
              IF @ = "SLEEPING" /\ chan[u] = np[p] THEN "RUNNABLE" ELSE @]
      BY <1>4, <1>7 DEF wakeup
    <3>2. state[u] = "SLEEPING" /\ chan[u] = u /\ pc[u] # "sleep_sched"
      <4>1. Dozes(u) BY <2>4
      <4>2. state[u] = "SLEEPING" /\ chan[u] = u BY <3>1, <4>1, DozeFacts
      <4> QED BY <4>2 DEF StateInv
    <3> QED BY <2>1, <3>1, <3>2 DEF Dozes, TypeOK
  <2>6. \A v \in Procs : state'[v] = "ZOMBIE" => state[v] = "ZOMBIE"
    BY DEF wakeup, TypeOK
  <2> SUFFICES ASSUME NEW u \in Procs, NEW v \in Procs, parent[v] = u PROVE WaitFor(u, v)'
    BY <1>1 DEF WaitInv, WaitFor
  <2>7. WaitFor(u, v) BY WaitForAll
  <2>8. Dozes(u)' /\ state'[v] = "ZOMBIE" => np'[p] = u /\ idx'[p] <= u
    <3> SUFFICES ASSUME Dozes(u)', state'[v] = "ZOMBIE" PROVE np[p] = u /\ idx'[p] <= u
      BY <1>1
    <3>1. np[p] = u /\ idx[p] <= u
      BY <1>1, <1>3, <2>4, <2>6, <2>7 DEF WaitFor, HasWaitLock
    <3>2. idx[p] # u BY <2>3, <2>4, <2>5, <3>1
    <3> QED BY <1>4, <1>5, <2>2, <3>1, <3>2
  <2>9. pc'[v] = "wakeup" /\ ret'[v] = "exit_zombie" /\ idx'[v] > u => ~Dozes(u)'
    <3> SUFFICES ASSUME pc'[v] = "wakeup", ret'[v] = "exit_zombie", idx'[v] > u, Dozes(u)'
                 PROVE  FALSE
      OBVIOUS
    <3>1. v = p BY <1>3, <2>1 DEF HasWaitLock
    <3>2. np[p] = u BY <1>1, <1>2, <3>1
    <3>3. idx[p] # u BY <2>3, <2>4, <2>5, <3>2
    <3>4. idx[p] > u BY <1>4, <1>5, <2>2, <3>1, <3>3
    <3> QED BY <1>1, <2>4, <2>7, <3>1, <3>4 DEF WaitFor
  <2>10. pc[v] # "exit_zombie" /\ pc[u] \notin {"wait_scan", "sleep"}
    BY <1>1, <1>3 DEF HasWaitLock
  <2> QED BY <1>1, <2>1, <2>8, <2>9, <2>10 DEF WaitFor
<1> QED BY <1>4, <1>6, <1>7

(* No step lets a parent sleep past the exit of a child.                   *)
LEMMA WaitStep == ASSUME ProcInv PROVE [Next]_vars => WaitInv'
<1> /\ state \in [Procs -> States] /\ pc \in [Procs -> Labels]
    /\ idx \in [Procs -> 1 .. NPROC + 1] /\ np \in [Procs -> Nat]
    /\ ret \in [Procs -> Labels] /\ yret \in [Procs -> Preemptible]
    /\ parent \in [Procs -> Procs \cup {Nobody}]
  BY DEF ProcInv, TypeOK
<1>1. ASSUME Plain PROVE WaitInv'
  <2>1. \A q \in Procs : pc'[q] \in {"wakeup", "exit_zombie"} \/ pc[q] = "wakeup" =>
          pc'[q] = pc[q] /\ idx'[q] = idx[q] /\ ret'[q] = ret[q] /\ np'[q] = np[q]
    BY <1>1 DEF Plain, Yields, Preemptible
  <2>2. \A q \in Procs : pc'[q] \in {"wait_scan", "sleep"} =>
          \/ pc'[q] = pc[q] /\ idx'[q] = idx[q]
          \/ pc'[q] = "wait_scan" /\ idx'[q] = 1
    BY <1>1 DEF Plain, Yields, Preemptible
  <2>3. \A q \in Procs : Dozes(q)' => Dozes(q)
    BY <1>1 DEF Plain, Yields, Preemptible, Dozes
  <2>4. \A q \in Procs : parent'[q] = parent[q] /\ (state'[q] = "ZOMBIE" => state[q] = "ZOMBIE")
    BY <1>1 DEF Plain
  <2> QED BY <2>1, <2>2, <2>3, <2>4, SlotFacts, WaitFrame
<1>2. ASSUME NEW c \in Cpus, NEW p \in Procs, fork_scan(c, p) PROVE WaitInv'
  BY <1>2, WaitFrame DEF fork_scan, allocproc, At, Goto, Dozes, slots, cpus,
     locals
<1>3. ASSUME NEW c \in Cpus, NEW p \in Procs, fork_parent(c, p) PROVE WaitInv'
  <2> SUFFICES ASSUME NEW u \in Procs, NEW v \in Procs, parent'[v] = u
               PROVE  WaitFor(u, v)'
    BY DEF WaitInv, WaitFor
  <2>1. /\ pc[p] = "fork_parent" /\ parent' = [parent EXCEPT ![np[p]] = p]
        /\ pc' = [pc EXCEPT ![p] = "fork_run"] /\ UNCHANGED <<state, idx, np, ret>>
    BY <1>3 DEF fork_parent, At, Goto, Dozes, slots, cpus, locals
  <2>2. np[p] \in Procs /\ state[np[p]] = "USED" /\ pc[np[p]] = "forkret"
    BY <2>1, ForkFacts
  <2>3. CASE v = np[p] BY <2>1, <2>2, <2>3 DEF WaitFor
  <2>4. CASE v # np[p]
    <3>1. parent[v] = u BY <2>1, <2>2, <2>4
    <3>2. WaitFor(u, v) BY <3>1, WaitForAll DEF ProcInv
    <3> QED BY <2>1, <3>2 DEF WaitFor, Dozes
  <2> QED BY <2>3, <2>4
<1>4. ASSUME NEW c \in Cpus, NEW p \in Procs, fork_run(c, p) PROVE WaitInv'
  BY <1>4, ForkFacts, WaitFrame DEF fork_run, At, Goto, Dozes, slots, cpus,
     locals
<1>5. ASSUME NEW c \in Cpus, NEW p \in Procs, wakeup(c, p) PROVE WaitInv'
  BY <1>5, WakeupKeepsWaitInv
<1>6. ASSUME NEW c \in Cpus, NEW p \in Procs, reparent(c, p) PROVE WaitInv'
  BY <1>6, ReparentKeepsWaitInv
<1>7. ASSUME NEW c \in Cpus, NEW p \in Procs, exit_zombie(c, p) PROVE WaitInv'
  BY <1>7, ExitZombieKeepsWaitInv
<1>8. ASSUME NEW c \in Cpus, NEW p \in Procs, wait_scan(c, p) PROVE WaitInv'
  BY <1>8, WaitScanKeepsWaitInv
<1>9. ASSUME NEW c \in Cpus, NEW p \in Procs, sleep(c, p) PROVE WaitInv'
  BY <1>9, SleepKeepsWaitInv
<1>10. ASSUME NEW c \in Cpus, NEW p \in Procs, sleep_sched(c, p) PROVE WaitInv'
  BY <1>10, WaitFrame DEF sleep_sched, Sched, At, Goto, Dozes, slots, cpus,
     locals
<1>11. ASSUME NEW c \in Cpus, NEW p \in Procs, kill(c, p) PROVE WaitInv'
  BY <1>11, KillKeepsWaitInv
<1> QED BY PlainSteps, <1>1, <1>2, <1>3, <1>4, <1>5, <1>6, <1>7, <1>8, <1>9,
     <1>10, <1>11

----------------------------------------------------------------------------
(* ProcInv holds in every state of every behaviour of the scheduler, fork, *)
(* exit, wait, kill, sleep and wakeup.                                     *)
THEOREM ProcInvariance == Spec => []ProcInv
<1>1. Init => ProcInv
  <2> SUFFICES ASSUME Init PROVE ProcInv OBVIOUS
  <2> USE ConstantFacts, SlotFacts DEF Init
  <2>1. TypeOK
    BY ProcAssumption DEF TypeOK, States, Labels, Preemptible, Nobody
  <2>2. CpuInv /\ StateInv /\ WaitLockInv
    BY DEF CpuInv, StateInv, WaitLockInv, OnCpu, Runs
  <2>3. ForkInv /\ ParentInv BY DEF ForkInv, Forks, Doing, ParentInv, Gone
  <2>4. ScanInv /\ WaitInv BY DEF ScanInv, WaitInv, Dozes
  <2> QED BY <2>1, <2>2, <2>3, <2>4 DEF ProcInv
<1>2. ProcInv /\ [Next]_vars => ProcInv'
  <2> SUFFICES ASSUME ProcInv, [Next]_vars PROVE ProcInv' OBVIOUS
  <2>2. TypeOK' BY TypeStep
  <2>3. CpuInv' BY CpuStep
  <2>4. StateInv' BY StateStep
  <2>5. WaitLockInv' BY WaitLockStep
  <2>6. ForkInv' BY ForkStep
  <2>7. ParentInv' BY ParentStep
  <2>8. ScanInv' BY ScanStep
  <2>9. WaitInv' BY WaitStep
  <2> QED BY <2>2, <2>3, <2>4, <2>5, <2>6, <2>7, <2>8, <2>9 DEF ProcInv
<1> QED BY <1>1, <1>2, PTL DEF Spec

(* No lost wakeup between exit() and wait(), for any number of CPUs and    *)
(* processes: while wait_lock is free, no process sleeps with a child that *)
(* has exited.                                                             *)
THEOREM NoExitIsLost == Spec => []NoLostExit
<1>1. ProcInv => NoLostExit
  <2> SUFFICES ASSUME ProcInv, wait_lock = Nobody, NEW p \in Procs, NEW q \in Procs,
                      state[p] = "SLEEPING", parent[q] = p, state[q] = "ZOMBIE"
               PROVE  FALSE
    BY DEF NoLostExit
  <2>1. PICK r \in Procs : pc[r] = "wakeup" BY DEF ProcInv, WaitInv, Dozes
  <2> QED BY <2>1, OneHolder DEF ProcInv, HasWaitLock
<1> QED BY <1>1, ProcInvariance, PTL

(* A lock that is held is held by the CPU of that process.                 *)
LEMMA HeldByOwner ==
    ASSUME TypeOK, CpuInv, NEW c \in Cpus, NEW p \in Procs, Runs(c, p)
    PROVE  Held(c) = IF pc[p] \in HasLock THEN {p} ELSE {}
<1>1. (plock[p] = c) = (pc[p] \in HasLock) BY ConstantFacts DEF CpuInv, Runs
<1>2. \A q \in Procs : plock[q] = c => q = p BY ConstantFacts DEF CpuInv, Runs
<1> QED BY <1>1, <1>2 DEF Held

(* No two CPUs are on one kernel stack, and a slot is free only when no    *)
(* CPU is on its stack.                                                    *)
THEOREM StacksNotShared == Spec => [](OneCpuPerProcess /\ FreedOffCpu)
<1>1. ProcInv => OneCpuPerProcess
  <2> SUFFICES ASSUME ProcInv PROVE OneCpuPerProcess OBVIOUS
  <2>1. TypeOK /\ CpuInv /\ StateInv BY DEF ProcInv
  <2>2. \A c, d \in Cpus : proc[c] = proc[d] /\ proc[c] # Nobody => c = d
    BY <2>1 DEF CpuInv
  <2>3. ASSUME NEW p \in Procs, plock[p] = Nobody
        PROVE  /\ (state[p] = "RUNNING") = OnCpu(p)
               /\ \A c \in Cpus : proc[c] = p => onproc[c]
    <3>1. ASSUME NEW c \in Cpus, proc[c] = p PROVE onproc[c] /\ pc[p] \notin HasLock
      BY <2>1, <2>3, <3>1, ConstantFacts DEF CpuInv
    <3>2. OnCpu(p) => state[p] = "RUNNING"
      BY <2>1, <3>1 DEF StateInv, OnCpu, Runs, HasLock
    <3>3. ~OnCpu(p) => state[p] # "RUNNING" BY <2>1 DEF StateInv
    <3> QED BY <3>1, <3>2, <3>3 DEF OnCpu
  <2> QED BY <2>2, <2>3 DEF OneCpuPerProcess, OnCpu
<1>2. ProcInv => FreedOffCpu BY DEF ProcInv, StateInv, FreedOffCpu
<1> QED BY <1>1, <1>2, ProcInvariance, PTL

(* Neither sched() nor acquire() finds a reason to panic.                  *)
THEOREM LocksUsedRight == Spec => [](SchedPreconditions /\ NoSelfDeadlock)
<1>1. ProcInv => SchedPreconditions /\ NoSelfDeadlock
  <2> SUFFICES ASSUME ProcInv, NEW c \in Cpus, NEW p \in Procs, Runs(c, p)
               PROVE  /\ pc[p] \in {"yield_sched", "exit_sched", "sleep_sched"} =>
                           Held(c) = {p} /\ wait_lock # c
                      /\ pc[p] \in {"yield_sched", "exit_sched"} => state[p] # "RUNNING"
                      /\ pc[p] \in {"wakeup", "kill", "fork_scan", "wait_scan", "fork_run",
                                    "sleep", "exit_zombie", "yield"} => Held(c) = {}
                      /\ pc[p] \in {"exit", "wait", "fork_parent", "sleep_relock"} =>
                           wait_lock # c
    BY DEF SchedPreconditions, NoSelfDeadlock
  <2>1. TypeOK /\ CpuInv /\ StateInv /\ WaitLockInv BY DEF ProcInv
  <2>2. Held(c) = IF pc[p] \in HasLock THEN {p} ELSE {} BY <2>1, HeldByOwner
  <2>3. wait_lock = c => pc[p] \in HasWaitLock
    BY <2>1, ConstantFacts DEF WaitLockInv, Runs
  <2>4. OnCpu(p) BY DEF OnCpu
  <2>5. pc[p] \in {"yield_sched", "exit_sched"} => state[p] # "RUNNING"
    BY <2>1, <2>4 DEF StateInv
  <2> QED BY <2>2, <2>3, <2>5 DEF HasLock, HasWaitLock
<1> QED BY <1>1, ProcInvariance, PTL

(* Whoever exits, every process but init has a parent that can still reap  *)
(* it.                                                                     *)
THEOREM ParentsLive == Spec => []ParentAlive
<1>1. ProcInv => ParentAlive
  <2> SUFFICES ASSUME ProcInv PROVE ParentAlive OBVIOUS
  <2>1. parent \in [Procs -> Procs \cup {Nobody}] /\ ParentInv BY DEF ProcInv, TypeOK
  <2> QED BY <2>1 DEF ParentInv, Gone, ParentAlive
<1> QED BY <1>1, ProcInvariance, PTL

----------------------------------------------------------------------------
(* p->killed.  A slot that is unused has pid 0, so when nobody calls       *)
(* kill(0) it cannot be marked.                                            *)
KilledInv ==
    \A p \in Procs :
      /\ killed[p] => pid[p] \in KillPids
      /\ state[p] = "UNUSED" => pid[p] = 0
      /\ Doing(p) = "kill" => np[p] \in KillPids

(* Marks, pids and the argument of kill() are left alone.                  *)
LEMMA KilledFrame ==
    ASSUME KilledInv,
           \A q \in Procs : killed'[q] => killed[q] /\ pid'[q] = pid[q],
           \A q \in Procs : state'[q] = "UNUSED" => pid'[q] = 0 \/
             (state[q] = "UNUSED" /\ pid'[q] = pid[q]),
           \A q \in Procs : Doing(q)' = "kill" =>
             np'[q] \in KillPids \/ (Doing(q) = "kill" /\ np'[q] = np[q])
    PROVE  KilledInv'
BY DEF KilledInv

(* A mark is only set by kill(), on the slot that has the pid.             *)
LEMMA KilledStep ==
    ASSUME ProcInv, KilledInv, 0 \notin KillPids
    PROVE  [Next]_vars => KilledInv'
<1> /\ state \in [Procs -> States] /\ pc \in [Procs -> Labels] /\ np \in [Procs -> Nat]
    /\ pid \in [Procs -> Nat] /\ killed \in [Procs -> BOOLEAN]
    /\ yret \in [Procs -> Preemptible]
  BY DEF ProcInv, TypeOK
<1>1. ASSUME Plain PROVE KilledInv'
  BY <1>1, KilledFrame DEF Plain, Yields, Doing, Preemptible
<1>2. ASSUME NEW c \in Cpus, NEW p \in Procs, fork_scan(c, p) PROVE KilledInv'
  <2>1. idx[p] <= NPROC => idx[p] \in Procs BY SlotFacts DEF ProcInv, TypeOK
  <2> QED
    BY <1>2, <2>1 DEF fork_scan, allocproc, At, Goto, Doing, slots, cpus,
       locals, KilledInv
<1>3. ASSUME NEW c \in Cpus, NEW p \in Procs, fork_parent(c, p) PROVE KilledInv'
  BY <1>3, KilledFrame DEF fork_parent, At, Goto, Doing, slots, cpus, locals
<1>4. ASSUME NEW c \in Cpus, NEW p \in Procs, fork_run(c, p) PROVE KilledInv'
  BY <1>4, ForkFacts, KilledFrame DEF fork_run, At, Goto, Doing, slots, cpus,
     locals
<1>5. ASSUME NEW c \in Cpus, NEW p \in Procs, wakeup(c, p) PROVE KilledInv'
  BY <1>5, WakeFacts, KilledFrame DEF wakeup, At, Goto, Doing, slots, cpus,
     locals
<1>6. ASSUME NEW c \in Cpus, NEW p \in Procs, reparent(c, p) PROVE KilledInv'
  BY <1>6, KilledFrame DEF reparent, CallWakeup, Children, At, Goto, Doing,
     slots, cpus, locals
<1>7. ASSUME NEW c \in Cpus, NEW p \in Procs, exit_zombie(c, p) PROVE KilledInv'
  BY <1>7, KilledFrame DEF exit_zombie, At, Goto, Doing, slots, cpus, locals
<1>8. ASSUME NEW c \in Cpus, NEW p \in Procs, wait_scan(c, p) PROVE KilledInv'
  <2>1. CASE \E q \in Children(p) : freeproc(p, q)
    <3>1. PICK q \in Procs : freeproc(p, q) BY <2>1 DEF Children
    <3>2. UNCHANGED yret BY <1>8 DEF wait_scan, locals
    <3>3. \A r \in Procs : r # q => UNCHANGED <<killed[r], pid[r], state[r], np[r]>>
      BY <3>1 DEF freeproc
    <3>4. ~killed'[q] /\ pid'[q] = 0 /\ Doing(q)' # "kill"
      BY <3>1 DEF freeproc, Doing
    <3>5. \A r \in Procs : r # q => Doing(r)' # "kill" \/ Doing(r)' = Doing(r)
      BY <3>1, <3>2 DEF freeproc, Doing
    <3> QED BY <3>3, <3>4, <3>5, KilledFrame
  <2>2. CASE ~\E q \in Children(p) : freeproc(p, q)
    <3> UNCHANGED <<state, pid, killed, np>> /\ pc' \in {pc, [pc EXCEPT ![p] = "sysret"], [pc EXCEPT ![p] = "sleep"]}
      BY <1>8, <2>2 DEF wait_scan, Goto, slots, locals
    <3> QED BY <1>8, <2>2, KilledFrame DEF wait_scan, At, Doing
  <2> QED BY <2>1, <2>2
<1>9. ASSUME NEW c \in Cpus, NEW p \in Procs, sleep(c, p) PROVE KilledInv'
  BY <1>9, KilledFrame DEF sleep, At, Goto, Doing, slots, cpus, locals
<1>10. ASSUME NEW c \in Cpus, NEW p \in Procs, sleep_sched(c, p)
      PROVE KilledInv'
  BY <1>10, KilledFrame DEF sleep_sched, Sched, At, Goto, Doing, slots, cpus,
     locals
<1>11. ASSUME NEW c \in Cpus, NEW p \in Procs, kill(c, p) PROVE KilledInv'
  <2>1. idx[p] <= NPROC => idx[p] \in Procs BY SlotFacts DEF ProcInv, TypeOK
  <2> QED
    BY <1>11, <2>1 DEF kill, At, Goto, Doing, slots, cpus, locals, KilledInv
<1> QED BY PlainSteps, <1>1, <1>2, <1>3, <1>4, <1>5, <1>6, <1>7, <1>8, <1>9,
     <1>10, <1>11

(* With no kill(0), a process is marked killed only when its own pid was   *)
(* given to kill(): the run proc_kill_zero shows the hypothesis is needed. *)
THEOREM KilledByOwnPid == 0 \notin KillPids => (Spec => []KilledOnlyByPid)
<1> SUFFICES ASSUME 0 \notin KillPids PROVE Spec => []KilledOnlyByPid OBVIOUS
<1>1. Init => KilledInv BY ConstantFacts DEF Init, KilledInv, Doing
<1>2. ProcInv /\ KilledInv /\ [Next]_vars => KilledInv'
  <2> SUFFICES ASSUME ProcInv, KilledInv, [Next]_vars PROVE KilledInv' OBVIOUS
  <2> QED BY KilledStep
<1>3. KilledInv => KilledOnlyByPid BY DEF KilledInv, KilledOnlyByPid
<1> QED BY <1>1, <1>2, <1>3, ProcInvariance, PTL DEF Spec
=============================================================================
