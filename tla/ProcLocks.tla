----------------------------- MODULE ProcLocks ------------------------------
(***************************************************************************)
(* First part of the proof that ProcInv (module Proc) is inductive: the    *)
(* three conjuncts that say what p->lock, wait_lock and p->state mean      *)
(* while CPUs switch between the scheduler and the kernel threads.         *)
(*                                                                         *)
(* Each conjunct has frame lemmas, which say what a step must leave alone  *)
(* or what it does to a lock, and a lemma with one step for each action.   *)
(***************************************************************************)
EXTENDS Proc, TLAPS

(* No process and no CPU has the number that stands for nobody.            *)
LEMMA ConstantFacts ==
    Nobody \notin Procs /\ Nobody \notin Cpus /\ initproc \in Procs
BY ProcAssumption DEF Procs, Cpus, Nobody, initproc

(* Slots and the indices of a table scan are numbers.                      *)
LEMMA SlotFacts ==
    /\ NPROC \in Nat
    /\ \A p \in Procs : p \in Nat /\ 1 <= p /\ p <= NPROC
    /\ \A i \in 1 .. NPROC + 1 : i \in Nat /\ 1 <= i /\ (i <= NPROC => i \in Procs)
    /\ \A i \in Procs : i + 1 \in 1 .. NPROC + 1
BY ProcAssumption DEF Procs

(* wakeup was called by exit().                                            *)
LEMMA WakeRet ==
    ASSUME ProcInv, NEW p \in Procs, pc[p] = "wakeup"
    PROVE  ret[p] \in {"reparent", "exit_zombie"}
BY DEF ProcInv, ScanInv

(* A step that moves no CPU and no p->lock, and leaves every running       *)
(* thread on the same side of its lock, keeps CpuInv.                      *)
LEMMA CpuFrame ==
    ASSUME ProcInv, UNCHANGED <<proc, onproc, plock>>,
           \A q \in Procs : OnCpu(q) => (pc'[q] \in HasLock <=> pc[q] \in HasLock)
    PROVE  CpuInv'
<1> TypeOK /\ CpuInv BY DEF ProcInv
<1>1. ASSUME NEW c \in Cpus, proc[c] # Nobody, onproc[c]
      PROVE  (plock[proc[c]] = c) = (pc'[proc[c]] \in HasLock)
  <2>1. proc[c] \in Procs /\ OnCpu(proc[c]) BY <1>1 DEF TypeOK, OnCpu, Runs
  <2>2. (plock[proc[c]] = c) = (pc[proc[c]] \in HasLock) BY <1>1 DEF CpuInv
  <2> QED BY <2>1, <2>2
<1> QED BY <1>1 DEF CpuInv, HasLock

(* acquire(&p->lock) and release(&p->lock) by p itself, running on c.      *)
LEMMA LockTaken ==
    ASSUME ProcInv, UNCHANGED <<proc, onproc>>, NEW c \in Cpus, NEW p \in Procs, Runs(c, p),
           plock'[p] = c, pc'[p] \in HasLock,
           \A q \in Procs \ {p} : plock'[q] = plock[q] /\ pc'[q] = pc[q]
    PROVE  CpuInv'
<1> plock \in [Procs -> Cpus \cup {Nobody}] /\ proc \in [Cpus -> Procs \cup {Nobody}] /\ CpuInv
  BY DEF ProcInv, TypeOK
<1> QED BY ConstantFacts DEF CpuInv, Runs

LEMMA LockReleased ==
    ASSUME ProcInv, UNCHANGED <<proc, onproc>>, NEW c \in Cpus, NEW p \in Procs, Runs(c, p),
           plock'[p] = Nobody, pc'[p] \notin HasLock,
           \A q \in Procs \ {p} : plock'[q] = plock[q] /\ pc'[q] = pc[q]
    PROVE  CpuInv'
<1> plock \in [Procs -> Cpus \cup {Nobody}] /\ proc \in [Cpus -> Procs \cup {Nobody}] /\ CpuInv
  BY DEF ProcInv, TypeOK
<1> QED BY ConstantFacts DEF CpuInv, Runs

(* sched(): off the CPU with p->lock held.                                 *)
LEMMA SwitchedOff ==
    ASSUME ProcInv, UNCHANGED <<proc, plock>>, NEW c \in Cpus, NEW p \in Procs, Runs(c, p),
           ~onproc'[c], \A d \in Cpus \ {c} : onproc'[d] = onproc[d],
           pc[p] \in HasLock, \A q \in Procs \ {p} : pc'[q] = pc[q]
    PROVE  CpuInv'
<1> /\ plock \in [Procs -> Cpus \cup {Nobody}] /\ proc \in [Cpus -> Procs \cup {Nobody}] /\ CpuInv
    /\ onproc \in [Cpus -> BOOLEAN]
  BY DEF ProcInv, TypeOK
<1> QED BY ConstantFacts DEF CpuInv, Runs

(* The lock handed over in the context switch stays with the process's CPU. *)
LEMMA CpuStep == ASSUME ProcInv PROVE [Next]_vars => CpuInv'
<1> /\ pc \in [Procs -> Labels] /\ state \in [Procs -> States]
    /\ proc \in [Cpus -> Procs \cup {Nobody}] /\ onproc \in [Cpus -> BOOLEAN]
    /\ plock \in [Procs -> Cpus \cup {Nobody}] /\ yret \in [Procs -> Preemptible]
    /\ CpuInv /\ StateInv
  BY DEF ProcInv, TypeOK
<1>1. ASSUME UNCHANGED vars PROVE CpuInv'
  BY <1>1, CpuFrame DEF vars, At, Goto, HasLock, OnCpu, Runs, slots, cpus,
     locals
<1>2. ASSUME NEW c \in Cpus, scheduler_release(c) PROVE CpuInv'
  BY <1>2, ConstantFacts DEF scheduler_release, CpuInv
<1>3. ASSUME NEW c \in Cpus, NEW p \in Procs, schedule(c, p) PROVE CpuInv'
  <2>1. pc[p] \in HasLock
    BY <1>3, ConstantFacts DEF schedule, StateInv, CpuInv, HasLock, OnCpu, Runs
  <2> QED BY <1>3, <2>1, ConstantFacts DEF schedule, CpuInv
<1>4. ASSUME NEW c \in Cpus, NEW p \in Procs, syscall(c, p) PROVE CpuInv'
  BY <1>4, CpuFrame DEF syscall, At, Goto, HasLock, OnCpu, Runs, slots, cpus,
     locals
<1>5. ASSUME NEW c \in Cpus, NEW p \in Procs, timer(c, p) PROVE CpuInv'
  BY <1>5, CpuFrame DEF timer, Preemptible, At, Goto, HasLock, OnCpu, Runs,
     slots, cpus, locals
<1>6. ASSUME NEW c \in Cpus, NEW p \in Procs, yield(c, p) PROVE CpuInv'
  BY <1>6, LockTaken DEF yield, At, Goto, HasLock, slots, cpus, locals
<1>7. ASSUME NEW c \in Cpus, NEW p \in Procs, yield_sched(c, p) PROVE CpuInv'
  <2>1. Runs(c, p) /\ UNCHANGED <<proc, plock>> /\ pc[p] \in HasLock
    BY <1>7 DEF yield_sched, At, HasLock
  <2>2. ~onproc'[c] /\ \A d \in Cpus \ {c} : onproc'[d] = onproc[d]
    BY <1>7 DEF yield_sched, Sched
  <2>3. \A q \in Procs \ {p} : pc'[q] = pc[q]
    BY <1>7 DEF yield_sched, Sched, Goto
  <2> QED BY <2>1, <2>2, <2>3, SwitchedOff
<1>8. ASSUME NEW c \in Cpus, NEW p \in Procs, yield_back(c, p) PROVE CpuInv'
  BY <1>8, LockReleased DEF yield_back, Preemptible, At, Goto, HasLock, slots,
     cpus, locals
<1>9. ASSUME NEW c \in Cpus, NEW p \in Procs, forkret(c, p) PROVE CpuInv'
  BY <1>9, LockReleased DEF forkret, At, Goto, HasLock, slots, cpus, locals
<1>10. ASSUME NEW c \in Cpus, NEW p \in Procs, sysret(c, p) PROVE CpuInv'
  BY <1>10, CpuFrame DEF sysret, At, Goto, HasLock, OnCpu, Runs, slots, cpus,
     locals
<1>11. ASSUME NEW c \in Cpus, NEW p \in Procs, fork_scan(c, p) PROVE CpuInv'
  <2>1. /\ pc[p] = "fork_scan" /\ UNCHANGED <<proc, onproc, plock>>
        /\ \/ UNCHANGED pc \/ Goto(p, "sysret") \/ Goto(p, "fork_parent")
    BY <1>11 DEF fork_scan, allocproc, At, cpus
  <2> QED BY <2>1, CpuFrame DEF Goto, HasLock
<1>12. ASSUME NEW c \in Cpus, NEW p \in Procs, fork_parent(c, p) PROVE CpuInv'
  BY <1>12, CpuFrame DEF fork_parent, At, Goto, HasLock, OnCpu, Runs, slots,
     cpus, locals
<1>13. ASSUME NEW c \in Cpus, NEW p \in Procs, fork_run(c, p) PROVE CpuInv'
  <2>1. np[p] \in Procs /\ ~OnCpu(np[p])
    BY <1>13 DEF ProcInv, ForkInv, Forks, Doing, fork_run, At, OnCpu, Runs,
       StateInv
  <2> QED
    BY <1>13, <2>1, CpuFrame DEF fork_run, At, Goto, HasLock, OnCpu, Runs,
       slots, cpus, locals
<1>14. ASSUME NEW c \in Cpus, NEW p \in Procs, wakeup(c, p) PROVE CpuInv'
  BY <1>14, WakeRet, CpuFrame DEF wakeup, At, Goto, HasLock, OnCpu, Runs,
     slots, cpus, locals
<1>15. ASSUME NEW c \in Cpus, NEW p \in Procs, exit(c, p) PROVE CpuInv'
  BY <1>15, CpuFrame DEF exit, At, Goto, HasLock, OnCpu, Runs, slots, cpus,
     locals
<1>16. ASSUME NEW c \in Cpus, NEW p \in Procs, reparent(c, p) PROVE CpuInv'
  BY <1>16, CpuFrame DEF reparent, CallWakeup, Children, At, Goto, HasLock,
     OnCpu, Runs, slots, cpus, locals
<1>17. ASSUME NEW c \in Cpus, NEW p \in Procs, exit_zombie(c, p) PROVE CpuInv'
  BY <1>17, LockTaken DEF exit_zombie, At, Goto, HasLock, slots, cpus, locals
<1>18. ASSUME NEW c \in Cpus, NEW p \in Procs, exit_sched(c, p) PROVE CpuInv'
  <2>1. Runs(c, p) /\ UNCHANGED <<proc, plock>> /\ pc[p] \in HasLock
    BY <1>18 DEF exit_sched, At, HasLock
  <2>2. ~onproc'[c] /\ \A d \in Cpus \ {c} : onproc'[d] = onproc[d]
    BY <1>18 DEF exit_sched, Sched
  <2>3. \A q \in Procs \ {p} : pc'[q] = pc[q]
    BY <1>18 DEF exit_sched, Sched, Goto
  <2> QED BY <2>1, <2>2, <2>3, SwitchedOff
<1>19. ASSUME NEW c \in Cpus, NEW p \in Procs, wait(c, p) PROVE CpuInv'
  BY <1>19, CpuFrame DEF wait, At, Goto, HasLock, OnCpu, Runs, slots, cpus,
     locals
<1>20. ASSUME NEW c \in Cpus, NEW p \in Procs, wait_scan(c, p) PROVE CpuInv'
  <2>1. /\ pc[p] = "wait_scan" /\ UNCHANGED <<proc, onproc, plock>>
        /\ \/ UNCHANGED pc \/ Goto(p, "sysret") \/ Goto(p, "sleep")
           \/ \E q \in Procs : /\ state[q] = "ZOMBIE" /\ plock[q] = Nobody
                               /\ pc' = [pc EXCEPT ![p] = "sysret", ![q] = "forkret"]
    BY <1>20 DEF wait_scan, freeproc, Children, At, cpus
  <2>2. \A q \in Procs : state[q] = "ZOMBIE" /\ plock[q] = Nobody => ~OnCpu(q)
    BY ConstantFacts DEF StateInv, CpuInv, OnCpu, Runs, HasLock
  <2> QED BY <2>1, <2>2, CpuFrame DEF Goto, HasLock
<1>21. ASSUME NEW c \in Cpus, NEW p \in Procs, sleep(c, p) PROVE CpuInv'
  BY <1>21, LockTaken DEF sleep, At, Goto, HasLock, slots, cpus, locals
<1>22. ASSUME NEW c \in Cpus, NEW p \in Procs, sleep_sched(c, p) PROVE CpuInv'
  <2>1. Runs(c, p) /\ UNCHANGED <<proc, plock>> /\ pc[p] \in HasLock
    BY <1>22 DEF sleep_sched, At, HasLock
  <2>2. ~onproc'[c] /\ \A d \in Cpus \ {c} : onproc'[d] = onproc[d]
    BY <1>22 DEF sleep_sched, Sched
  <2>3. \A q \in Procs \ {p} : pc'[q] = pc[q]
    BY <1>22 DEF sleep_sched, Sched, Goto
  <2> QED BY <2>1, <2>2, <2>3, SwitchedOff
<1>23. ASSUME NEW c \in Cpus, NEW p \in Procs, sleep_woken(c, p) PROVE CpuInv'
  BY <1>23, LockReleased DEF sleep_woken, At, Goto, HasLock, slots, cpus, locals
<1>24. ASSUME NEW c \in Cpus, NEW p \in Procs, sleep_relock(c, p) PROVE CpuInv'
  BY <1>24, CpuFrame DEF sleep_relock, At, Goto, HasLock, OnCpu, Runs, slots,
     cpus, locals
<1>25. ASSUME NEW c \in Cpus, NEW p \in Procs, kill(c, p) PROVE CpuInv'
  BY <1>25, CpuFrame DEF kill, At, Goto, HasLock, OnCpu, Runs, slots, cpus,
     locals
<1> QED BY <1>1, <1>2, <1>3, <1>4, <1>5, <1>6, <1>7, <1>8, <1>9, <1>10, <1>11,
     <1>12, <1>13, <1>14, <1>15, <1>16, <1>17, <1>18, <1>19, <1>20, <1>21,
     <1>22, <1>23, <1>24, <1>25 DEF Next, YieldStep, KernelStep

(* A step that leaves the CPUs and p->state alone and moves at most a      *)
(* thread that is running, not in or out of a switch, keeps StateInv.      *)
LEMMA StateFrame ==
    ASSUME ProcInv, UNCHANGED <<proc, onproc, state>>,
           \A q \in Procs : \/ pc'[q] = pc[q]
                            \/ /\ OnCpu(q)
                               /\ pc[q] \notin {"yield_sched", "exit_sched"}
                               /\ pc'[q] \notin {"yield_sched", "exit_sched"}
    PROVE  StateInv'
<1> StateInv BY DEF ProcInv
<1>1. \A q \in Procs : OnCpu(q)' = OnCpu(q) BY DEF OnCpu, Runs
<1> QED BY <1>1 DEF StateInv

(* p->state keeps telling where the thread is.                            *)
LEMMA StateStep == ASSUME ProcInv PROVE [Next]_vars => StateInv'
<1> /\ pc \in [Procs -> Labels] /\ state \in [Procs -> States]
    /\ proc \in [Cpus -> Procs \cup {Nobody}] /\ onproc \in [Cpus -> BOOLEAN]
    /\ plock \in [Procs -> Cpus \cup {Nobody}] /\ yret \in [Procs -> Preemptible]
    /\ CpuInv /\ StateInv
  BY DEF ProcInv, TypeOK
<1>1. ASSUME UNCHANGED vars PROVE StateInv'
  BY <1>1, StateFrame DEF vars, At, Goto, OnCpu, Runs, slots, cpus, locals
<1>2. ASSUME NEW c \in Cpus, scheduler_release(c) PROVE StateInv'
  BY <1>2, ConstantFacts DEF scheduler_release, At, Goto, OnCpu, Runs, slots,
     cpus, locals, StateInv, CpuInv, HasLock
<1>3. ASSUME NEW c \in Cpus, NEW p \in Procs, schedule(c, p) PROVE StateInv'
  BY <1>3, ConstantFacts DEF schedule, At, Goto, OnCpu, Runs, slots, cpus,
     locals, StateInv, CpuInv, HasLock
<1>4. ASSUME NEW c \in Cpus, NEW p \in Procs, syscall(c, p) PROVE StateInv'
  BY <1>4, StateFrame DEF syscall, At, Goto, OnCpu, Runs, slots, cpus, locals
<1>5. ASSUME NEW c \in Cpus, NEW p \in Procs, timer(c, p) PROVE StateInv'
  BY <1>5, StateFrame DEF timer, Preemptible, At, Goto, OnCpu, Runs, slots,
     cpus, locals
<1>6. ASSUME NEW c \in Cpus, NEW p \in Procs, yield(c, p) PROVE StateInv'
  BY <1>6, ConstantFacts DEF yield, At, Goto, OnCpu, Runs, slots, cpus, locals,
     StateInv, CpuInv, HasLock
<1>7. ASSUME NEW c \in Cpus, NEW p \in Procs, yield_sched(c, p) PROVE StateInv'
  BY <1>7, ConstantFacts DEF yield_sched, Sched, At, Goto, OnCpu, Runs, slots,
     cpus, locals, StateInv, CpuInv, HasLock
<1>8. ASSUME NEW c \in Cpus, NEW p \in Procs, yield_back(c, p) PROVE StateInv'
  BY <1>8, StateFrame DEF yield_back, Preemptible, At, Goto, OnCpu, Runs,
     slots, cpus, locals
<1>9. ASSUME NEW c \in Cpus, NEW p \in Procs, forkret(c, p) PROVE StateInv'
  BY <1>9, StateFrame DEF forkret, At, Goto, OnCpu, Runs, slots, cpus, locals
<1>10. ASSUME NEW c \in Cpus, NEW p \in Procs, sysret(c, p) PROVE StateInv'
  BY <1>10, StateFrame DEF sysret, At, Goto, OnCpu, Runs, slots, cpus, locals
<1>11. ASSUME NEW c \in Cpus, NEW p \in Procs, fork_scan(c, p) PROVE StateInv'
  BY <1>11 DEF fork_scan, allocproc, At, Goto, OnCpu, Runs, slots, cpus,
     locals, StateInv
<1>12. ASSUME NEW c \in Cpus, NEW p \in Procs, fork_parent(c, p) PROVE StateInv'
  BY <1>12, StateFrame DEF fork_parent, At, Goto, OnCpu, Runs, slots, cpus,
     locals
<1>13. ASSUME NEW c \in Cpus, NEW p \in Procs, fork_run(c, p) PROVE StateInv'
  <2>1. np[p] \in Procs /\ state[np[p]] = "USED" /\ state[p] = "RUNNING"
    BY <1>13 DEF ProcInv, ForkInv, Forks, Doing, fork_run, At, OnCpu, StateInv
  <2> QED
    BY <1>13, <2>1 DEF fork_run, At, Goto, OnCpu, Runs, slots, cpus, locals,
       StateInv
<1>14. ASSUME NEW c \in Cpus, NEW p \in Procs, wakeup(c, p) PROVE StateInv'
  BY <1>14, WakeRet DEF wakeup, At, Goto, OnCpu, Runs, slots, cpus, locals,
     StateInv
<1>15. ASSUME NEW c \in Cpus, NEW p \in Procs, exit(c, p) PROVE StateInv'
  BY <1>15, StateFrame DEF exit, At, Goto, OnCpu, Runs, slots, cpus, locals
<1>16. ASSUME NEW c \in Cpus, NEW p \in Procs, reparent(c, p) PROVE StateInv'
  BY <1>16, StateFrame DEF reparent, CallWakeup, Children, At, Goto, OnCpu,
     Runs, slots, cpus, locals
<1>17. ASSUME NEW c \in Cpus, NEW p \in Procs, exit_zombie(c, p) PROVE StateInv'
  BY <1>17, ConstantFacts DEF exit_zombie, At, Goto, OnCpu, Runs, slots, cpus,
     locals, StateInv, CpuInv, HasLock
<1>18. ASSUME NEW c \in Cpus, NEW p \in Procs, exit_sched(c, p) PROVE StateInv'
  BY <1>18, ConstantFacts DEF exit_sched, Sched, At, Goto, OnCpu, Runs, slots,
     cpus, locals, StateInv, CpuInv, HasLock
<1>19. ASSUME NEW c \in Cpus, NEW p \in Procs, wait(c, p) PROVE StateInv'
  BY <1>19, StateFrame DEF wait, At, Goto, OnCpu, Runs, slots, cpus, locals
<1>20. ASSUME NEW c \in Cpus, NEW p \in Procs, wait_scan(c, p) PROVE StateInv'
  <2>1. CASE \E q \in Children(p) : state[q] = "ZOMBIE" /\ plock[q] = Nobody /\ freeproc(p, q)
    <3>1. PICK q \in Procs : state[q] = "ZOMBIE" /\ plock[q] = Nobody /\ freeproc(p, q)
      BY <2>1 DEF Children
    <3>2. /\ state' = [state EXCEPT ![q] = "UNUSED"] /\ UNCHANGED <<proc, onproc>>
          /\ pc' = [pc EXCEPT ![p] = "sysret", ![q] = "forkret"]
          /\ OnCpu(p) /\ pc[p] = "wait_scan"
      BY <1>20, <3>1 DEF wait_scan, freeproc, cpus, At, OnCpu
    <3>3. p # q BY <3>1, <3>2 DEF StateInv
    <3>4. \A d \in Cpus : proc[d] # q
      BY <3>1, <3>2, <3>3, ConstantFacts DEF CpuInv, StateInv, HasLock, OnCpu,
         Runs
    <3> QED BY <3>2, <3>3, <3>4 DEF StateInv, OnCpu, Runs
  <2>2. CASE ~\E q \in Children(p) : state[q] = "ZOMBIE" /\ plock[q] = Nobody /\ freeproc(p, q)
    BY <1>20, <2>2, StateFrame DEF wait_scan, At, Goto, OnCpu, slots, cpus
  <2> QED BY <2>1, <2>2
<1>21. ASSUME NEW c \in Cpus, NEW p \in Procs, sleep(c, p) PROVE StateInv'
  BY <1>21, StateFrame DEF sleep, At, Goto, OnCpu, Runs, slots, cpus, locals
<1>22. ASSUME NEW c \in Cpus, NEW p \in Procs, sleep_sched(c, p) PROVE StateInv'
  BY <1>22, ConstantFacts DEF sleep_sched, Sched, At, Goto, OnCpu, Runs, slots,
     cpus, locals, StateInv, CpuInv, HasLock
<1>23. ASSUME NEW c \in Cpus, NEW p \in Procs, sleep_woken(c, p) PROVE StateInv'
  BY <1>23, StateFrame DEF sleep_woken, At, Goto, OnCpu, Runs, slots, cpus,
     locals
<1>24. ASSUME NEW c \in Cpus, NEW p \in Procs, sleep_relock(c, p)
      PROVE StateInv'
  BY <1>24, StateFrame DEF sleep_relock, At, Goto, OnCpu, Runs, slots, cpus,
     locals
<1>25. ASSUME NEW c \in Cpus, NEW p \in Procs, kill(c, p) PROVE StateInv'
  BY <1>25 DEF kill, At, Goto, OnCpu, Runs, slots, cpus, locals, StateInv
<1> QED BY <1>1, <1>2, <1>3, <1>4, <1>5, <1>6, <1>7, <1>8, <1>9, <1>10, <1>11,
     <1>12, <1>13, <1>14, <1>15, <1>16, <1>17, <1>18, <1>19, <1>20, <1>21,
     <1>22, <1>23, <1>24, <1>25 DEF Next, YieldStep, KernelStep

(* A step that leaves wait_lock alone, and every running thread running    *)
(* and on the same side of wait_lock, keeps WaitLockInv.                   *)
LEMMA WaitLockFrame ==
    ASSUME ProcInv, UNCHANGED wait_lock,
           \A c \in Cpus, q \in Procs : Runs(c, q)' = Runs(c, q),
           \A q \in Procs : OnCpu(q) => (pc'[q] \in HasWaitLock <=> pc[q] \in HasWaitLock)
    PROVE  WaitLockInv'
<1> wait_lock \in Cpus \cup {Nobody} /\ WaitLockInv BY DEF ProcInv, TypeOK
<1> QED BY ConstantFacts DEF WaitLockInv, OnCpu

(* acquire(&wait_lock) and release(&wait_lock) by the thread on CPU c.     *)
LEMMA WaitLockTaken ==
    ASSUME ProcInv, UNCHANGED <<proc, onproc>>, NEW c \in Cpus, NEW p \in Procs, Runs(c, p),
           wait_lock = Nobody, wait_lock' = c,
           pc'[p] \in HasWaitLock, \A q \in Procs \ {p} : pc'[q] = pc[q]
    PROVE  WaitLockInv'
<1> WaitLockInv /\ CpuInv BY DEF ProcInv
<1>1. \A d \in Cpus, q \in Procs : Runs(d, q)' = Runs(d, q) BY DEF Runs
<1>2. \A d \in Cpus : Runs(d, p) => d = c BY ConstantFacts DEF CpuInv, Runs
<1>3. \A d \in Cpus, q \in Procs : Runs(d, q) => pc[q] \notin HasWaitLock
  BY ConstantFacts DEF WaitLockInv
<1> QED BY <1>1, <1>2, <1>3 DEF WaitLockInv

LEMMA WaitLockReleased ==
    ASSUME ProcInv, UNCHANGED <<proc, onproc>>, NEW c \in Cpus, NEW p \in Procs, Runs(c, p),
           pc[p] \in HasWaitLock, wait_lock' = Nobody, pc'[p] \notin HasWaitLock,
           \A q \in Procs \ {p} : pc'[q] \in HasWaitLock => pc'[q] = pc[q]
    PROVE  WaitLockInv'
<1> WaitLockInv /\ CpuInv BY DEF ProcInv
<1>1. wait_lock = c BY DEF WaitLockInv
<1>2. \A d \in Cpus, q \in Procs : Runs(d, q)' => d # c \/ q = p BY DEF Runs
<1> QED BY <1>1, <1>2, ConstantFacts DEF WaitLockInv, Runs

(* A switch to or from a thread that has not got wait_lock.                *)
LEMMA WaitLockSwitch ==
    ASSUME ProcInv, NEW p \in Procs, UNCHANGED wait_lock,
           pc[p] \notin HasWaitLock, pc'[p] \notin HasWaitLock,
           \A q \in Procs \ {p} : pc'[q] = pc[q],
           \A c \in Cpus, q \in Procs : q # p => Runs(c, q)' = Runs(c, q)
    PROVE  WaitLockInv'
<1> wait_lock \in Cpus \cup {Nobody} /\ WaitLockInv BY DEF ProcInv, TypeOK
<1> QED BY ConstantFacts DEF WaitLockInv

(* wait_lock is taken and released by the thread whose label says so.      *)
LEMMA WaitLockStep == ASSUME ProcInv PROVE [Next]_vars => WaitLockInv'
<1> /\ pc \in [Procs -> Labels] /\ state \in [Procs -> States]
    /\ proc \in [Cpus -> Procs \cup {Nobody}] /\ onproc \in [Cpus -> BOOLEAN]
    /\ plock \in [Procs -> Cpus \cup {Nobody}] /\ yret \in [Procs -> Preemptible]
    /\ CpuInv /\ StateInv
  BY DEF ProcInv, TypeOK
<1>1. ASSUME UNCHANGED vars PROVE WaitLockInv'
  BY <1>1, WaitLockFrame DEF vars, At, Goto, HasWaitLock, OnCpu, Runs, slots,
     cpus, locals
<1>2. ASSUME NEW c \in Cpus, scheduler_release(c) PROVE WaitLockInv'
  BY <1>2, ConstantFacts, WaitLockFrame DEF scheduler_release, At, Goto,
     HasWaitLock, OnCpu, Runs, slots, cpus, locals
<1>3. ASSUME NEW c \in Cpus, NEW p \in Procs, schedule(c, p) PROVE WaitLockInv'
  <2>1. pc[p] \notin HasWaitLock BY <1>3 DEF schedule, StateInv, HasWaitLock
  <2> QED
    BY <1>3, <2>1, WaitLockSwitch, ConstantFacts DEF schedule, Runs, locals
<1>4. ASSUME NEW c \in Cpus, NEW p \in Procs, syscall(c, p) PROVE WaitLockInv'
  BY <1>4, WaitLockFrame DEF syscall, At, Goto, HasWaitLock, OnCpu, Runs,
     slots, cpus, locals
<1>5. ASSUME NEW c \in Cpus, NEW p \in Procs, timer(c, p) PROVE WaitLockInv'
  BY <1>5, WaitLockFrame DEF timer, Preemptible, At, Goto, HasWaitLock, OnCpu,
     Runs, slots, cpus, locals
<1>6. ASSUME NEW c \in Cpus, NEW p \in Procs, yield(c, p) PROVE WaitLockInv'
  BY <1>6, WaitLockFrame DEF yield, At, Goto, HasWaitLock, OnCpu, Runs, slots,
     cpus, locals
<1>7. ASSUME NEW c \in Cpus, NEW p \in Procs, yield_sched(c, p)
      PROVE WaitLockInv'
  BY <1>7, WaitLockSwitch DEF yield_sched, Sched, At, Goto, HasWaitLock, OnCpu,
     Runs, slots, cpus, locals
<1>8. ASSUME NEW c \in Cpus, NEW p \in Procs, yield_back(c, p)
      PROVE WaitLockInv'
  BY <1>8, WaitLockFrame DEF yield_back, Preemptible, At, Goto, HasWaitLock,
     OnCpu, Runs, slots, cpus, locals
<1>9. ASSUME NEW c \in Cpus, NEW p \in Procs, forkret(c, p) PROVE WaitLockInv'
  BY <1>9, WaitLockFrame DEF forkret, At, Goto, HasWaitLock, OnCpu, Runs,
     slots, cpus, locals
<1>10. ASSUME NEW c \in Cpus, NEW p \in Procs, sysret(c, p) PROVE WaitLockInv'
  BY <1>10, WaitLockFrame DEF sysret, At, Goto, HasWaitLock, OnCpu, Runs,
     slots, cpus, locals
<1>11. ASSUME NEW c \in Cpus, NEW p \in Procs, fork_scan(c, p)
      PROVE WaitLockInv'
  BY <1>11, WaitLockFrame DEF fork_scan, allocproc, At, Goto, HasWaitLock,
     OnCpu, Runs, slots, cpus, locals
<1>12. ASSUME NEW c \in Cpus, NEW p \in Procs, fork_parent(c, p)
      PROVE WaitLockInv'
  BY <1>12, WaitLockFrame DEF fork_parent, At, Goto, HasWaitLock, OnCpu, Runs,
     slots, cpus, locals
<1>13. ASSUME NEW c \in Cpus, NEW p \in Procs, fork_run(c, p) PROVE WaitLockInv'
  <2>1. np[p] \in Procs /\ ~OnCpu(np[p])
    BY <1>13 DEF ProcInv, ForkInv, Forks, Doing, fork_run, At, OnCpu, Runs,
       StateInv
  <2> QED
    BY <1>13, <2>1, WaitLockFrame DEF fork_run, At, Goto, HasWaitLock, OnCpu,
       Runs, slots, cpus, locals
<1>14. ASSUME NEW c \in Cpus, NEW p \in Procs, wakeup(c, p) PROVE WaitLockInv'
  BY <1>14, WakeRet, WaitLockFrame DEF wakeup, At, Goto, HasWaitLock, OnCpu,
     Runs, slots, cpus, locals
<1>15. ASSUME NEW c \in Cpus, NEW p \in Procs, exit(c, p) PROVE WaitLockInv'
  BY <1>15, WaitLockTaken DEF exit, At, Goto, HasWaitLock, OnCpu, Runs, slots,
     cpus, locals
<1>16. ASSUME NEW c \in Cpus, NEW p \in Procs, reparent(c, p) PROVE WaitLockInv'
  BY <1>16, WaitLockFrame DEF reparent, CallWakeup, Children, At, Goto,
     HasWaitLock, OnCpu, Runs, slots, cpus, locals
<1>17. ASSUME NEW c \in Cpus, NEW p \in Procs, exit_zombie(c, p)
      PROVE WaitLockInv'
  BY <1>17, WaitLockReleased DEF exit_zombie, At, Goto, HasWaitLock, OnCpu,
     Runs, slots, cpus, locals
<1>18. ASSUME NEW c \in Cpus, NEW p \in Procs, exit_sched(c, p)
      PROVE WaitLockInv'
  BY <1>18, WaitLockSwitch DEF exit_sched, Sched, At, Goto, HasWaitLock, OnCpu,
     Runs, slots, cpus, locals
<1>19. ASSUME NEW c \in Cpus, NEW p \in Procs, wait(c, p) PROVE WaitLockInv'
  BY <1>19, WaitLockTaken DEF wait, At, Goto, HasWaitLock, OnCpu, Runs, slots,
     cpus, locals
<1>20. ASSUME NEW c \in Cpus, NEW p \in Procs, wait_scan(c, p)
      PROVE WaitLockInv'
  <2>1. pc[p] = "wait_scan" /\ Runs(c, p) /\ UNCHANGED <<proc, onproc>>
    BY <1>20 DEF wait_scan, At, cpus
  <2>2. wait_lock = c BY <2>1 DEF ProcInv, WaitLockInv, HasWaitLock
  <2>3. CASE wait_lock' = wait_lock
    <3>1. UNCHANGED pc \/ Goto(p, "sleep")
      BY <1>20, <2>2, <2>3, ConstantFacts DEF wait_scan
    <3> QED BY <2>1, <2>3, <3>1, WaitLockFrame DEF Goto, HasWaitLock, Runs
  <2>4. CASE wait_lock' # wait_lock
    <3>1. /\ wait_lock' = Nobody
          /\ \/ Goto(p, "sysret")
             \/ \E q \in Procs : q # p /\ pc' = [pc EXCEPT ![p] = "sysret", ![q] = "forkret"]
      BY <1>20, <2>1, <2>4 DEF wait_scan, freeproc, Children, StateInv
    <3> QED BY <2>1, <3>1, WaitLockReleased DEF Goto, HasWaitLock
  <2> QED BY <2>3, <2>4
<1>21. ASSUME NEW c \in Cpus, NEW p \in Procs, sleep(c, p) PROVE WaitLockInv'
  BY <1>21, WaitLockReleased DEF sleep, At, Goto, HasWaitLock, OnCpu, Runs,
     slots, cpus, locals
<1>22. ASSUME NEW c \in Cpus, NEW p \in Procs, sleep_sched(c, p)
      PROVE WaitLockInv'
  BY <1>22, WaitLockSwitch DEF sleep_sched, Sched, At, Goto, HasWaitLock,
     OnCpu, Runs, slots, cpus, locals
<1>23. ASSUME NEW c \in Cpus, NEW p \in Procs, sleep_woken(c, p)
      PROVE WaitLockInv'
  BY <1>23, WaitLockFrame DEF sleep_woken, At, Goto, HasWaitLock, OnCpu, Runs,
     slots, cpus, locals
<1>24. ASSUME NEW c \in Cpus, NEW p \in Procs, sleep_relock(c, p)
      PROVE WaitLockInv'
  BY <1>24, WaitLockTaken DEF sleep_relock, At, Goto, HasWaitLock, OnCpu, Runs,
     slots, cpus, locals
<1>25. ASSUME NEW c \in Cpus, NEW p \in Procs, kill(c, p) PROVE WaitLockInv'
  BY <1>25, WaitLockFrame DEF kill, At, Goto, HasWaitLock, OnCpu, Runs, slots,
     cpus, locals
<1> QED BY <1>1, <1>2, <1>3, <1>4, <1>5, <1>6, <1>7, <1>8, <1>9, <1>10, <1>11,
     <1>12, <1>13, <1>14, <1>15, <1>16, <1>17, <1>18, <1>19, <1>20, <1>21,
     <1>22, <1>23, <1>24, <1>25 DEF Next, YieldStep, KernelStep
=============================================================================
