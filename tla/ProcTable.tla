----------------------------- MODULE ProcTable ------------------------------
(***************************************************************************)
(* Second part of the proof that ProcInv (module Proc) is inductive: what  *)
(* the process table holds while processes fork, exit and scan it, and     *)
(* types.                                                                  *)
(*                                                                         *)
(* Each conjunct has a frame lemma, which says what a step must leave      *)
(* alone, and a lemma with one step for each action that is not plain: a   *)
(* plain step only moves a thread on, and disturbs none of them.           *)
(***************************************************************************)
EXTENDS ProcLocks

(* The state of a running thread.                                          *)
LEMMA RunningState ==
    ASSUME ProcInv, NEW c \in Cpus, NEW p \in Procs, Runs(c, p)
    PROVE  state[p] = IF pc[p] = "yield_sched" THEN "RUNNABLE"
                      ELSE IF pc[p] = "exit_sched" THEN "ZOMBIE" ELSE "RUNNING"
BY DEF ProcInv, StateInv, OnCpu

(* The child's slot while fork() is between its critical sections.         *)
LEMMA ForkFacts ==
    ASSUME ProcInv, NEW p \in Procs, pc[p] \in {"fork_parent", "fork_run"}
    PROVE  /\ np[p] \in Procs /\ np[p] # p /\ state[np[p]] = "USED"
           /\ pc[np[p]] = "forkret"
           /\ pc[p] = "fork_run" => parent[np[p]] = p
<1>1. Forks(p) /\ Doing(p) = pc[p] BY DEF Forks, Doing
<1>2. /\ np[p] \in Procs /\ state[np[p]] = "USED"
      /\ pc[p] = "fork_run" => parent[np[p]] = p
  BY <1>1 DEF ProcInv, ForkInv
<1>3. pc[np[p]] = "forkret" BY <1>2 DEF ProcInv, StateInv
<1> QED BY <1>2, <1>3

(* A wakeup() is called by exit(), for init or for the parent.             *)
LEMMA WakeFacts ==
    ASSUME ProcInv, NEW p \in Procs, pc[p] = "wakeup"
    PROVE  /\ ret[p] \in {"reparent", "exit_zombie"}
           /\ ret[p] = "reparent" => np[p] = initproc
           /\ ret[p] = "exit_zombie" => np[p] = parent[p]
BY DEF ProcInv, ScanInv

(* A table scan has not begun in user space and at the start of a call.    *)
LEMMA StartsAtOne ==
    ASSUME ProcInv, NEW p \in Procs, pc[p] \in {"user", "exit", "wait", "forkret"}
    PROVE  idx[p] = 1
BY DEF ProcInv, ScanInv, Doing

Yields == {"yield", "yield_sched", "yield_back"}

(* A step that at most moves a thread on, between labels where it is not   *)
(* in the middle of a scan or a fork, and makes it RUNNING or RUNNABLE.    *)
Plain ==
    /\ UNCHANGED <<killed, pid, parent, ret>>
    /\ \A q \in Procs :
         /\ \/ state'[q] = state[q]
            \/ state[q] \in {"RUNNABLE", "RUNNING"} /\ state'[q] \in {"RUNNABLE", "RUNNING"}
         /\ state[q] = "SLEEPING" => chan'[q] = chan[q]
         /\ \/ /\ Doing(q)' = Doing(q) /\ idx'[q] = idx[q] /\ np'[q] = np[q]
               /\ \/ pc'[q] = pc[q]
                  \/ {pc[q], pc'[q]} \subseteq Preemptible \cup Yields
            \/ /\ pc'[q] \in {"user", "exit", "wait", "fork_scan", "kill", "reparent", "wait_scan"}
               /\ pc[q] # "wakeup" /\ idx'[q] = 1
               /\ pc'[q] = "reparent" => q # initproc
               /\ pc'[q] = "kill" => np'[q] \in KillPids
            \/ pc'[q] = "sleep_relock" /\ pc[q] # "wakeup"

(* Many steps are plain: switches, traps, and the start and end of calls.   *)
LEMMA PlainSteps ==
    ASSUME ProcInv, [Next]_vars
    PROVE  \/ Plain
           \/ \E c \in Cpus, p \in Procs :
                \/ fork_scan(c, p) \/ fork_parent(c, p) \/ fork_run(c, p)
                \/ wakeup(c, p) \/ reparent(c, p) \/ exit_zombie(c, p)
                \/ wait_scan(c, p) \/ sleep(c, p) \/ sleep_sched(c, p) \/ kill(c, p)
<1> /\ state \in [Procs -> States] /\ pc \in [Procs -> Labels] /\ np \in [Procs -> Nat]
    /\ idx \in [Procs -> 1 .. NPROC + 1] /\ chan \in [Procs -> Procs \cup {Nobody}]
    /\ ret \in [Procs -> Labels] /\ yret \in [Procs -> Preemptible]
  BY DEF ProcInv, TypeOK
<1> USE DEF Plain, Yields, Doing, At, Goto, slots, cpus, locals
<1>1. ASSUME UNCHANGED vars PROVE Plain BY <1>1 DEF vars
<1>2. ASSUME NEW c \in Cpus, scheduler_release(c) PROVE Plain
  BY <1>2 DEF scheduler_release
<1>3. ASSUME NEW c \in Cpus, NEW p \in Procs, schedule(c, p) PROVE Plain
  BY <1>3 DEF schedule
<1>4. ASSUME NEW c \in Cpus, NEW p \in Procs, syscall(c, p) PROVE Plain
  BY <1>4, StartsAtOne DEF syscall
<1>5. ASSUME NEW c \in Cpus, NEW p \in Procs, timer(c, p) PROVE Plain
  BY <1>5, StartsAtOne DEF timer, Preemptible
<1>6. ASSUME NEW c \in Cpus, NEW p \in Procs, yield(c, p) PROVE Plain
  BY <1>6, RunningState DEF yield
<1>7. ASSUME NEW c \in Cpus, NEW p \in Procs, yield_sched(c, p) PROVE Plain
  BY <1>7 DEF yield_sched, Sched
<1>8. ASSUME NEW c \in Cpus, NEW p \in Procs, yield_back(c, p) PROVE Plain
  BY <1>8 DEF yield_back, Preemptible
<1>9. ASSUME NEW c \in Cpus, NEW p \in Procs, forkret(c, p) PROVE Plain
  BY <1>9, StartsAtOne DEF forkret
<1>10. ASSUME NEW c \in Cpus, NEW p \in Procs, sysret(c, p) PROVE Plain
  BY <1>10 DEF sysret
<1>11. ASSUME NEW c \in Cpus, NEW p \in Procs, exit(c, p) PROVE Plain
  BY <1>11, StartsAtOne DEF exit
<1>12. ASSUME NEW c \in Cpus, NEW p \in Procs, exit_sched(c, p) PROVE Plain
  BY <1>12 DEF exit_sched, Sched
<1>13. ASSUME NEW c \in Cpus, NEW p \in Procs, wait(c, p) PROVE Plain
  BY <1>13, StartsAtOne DEF wait
<1>14. ASSUME NEW c \in Cpus, NEW p \in Procs, sleep_woken(c, p) PROVE Plain
  BY <1>14, RunningState DEF sleep_woken
<1>15. ASSUME NEW c \in Cpus, NEW p \in Procs, sleep_relock(c, p) PROVE Plain
  BY <1>15 DEF sleep_relock
<1> HIDE DEF Plain, Yields, Doing, At, Goto, slots, cpus, locals
<1> QED BY <1>1, <1>2, <1>3, <1>4, <1>5, <1>6, <1>7, <1>8, <1>9, <1>10, <1>11,
     <1>12, <1>13, <1>14, <1>15 DEF Next, YieldStep, KernelStep

(* A child's slot stays with the fork() that has taken it.                 *)
LEMMA ForkFrame ==
    ASSUME ProcInv,
           \A q \in Procs : Forks(q)' =>
             Doing(q)' = Doing(q) /\ np'[q] = np[q],
           \A q \in Procs : state[q] = "USED" => state'[q] = "USED",
           \A q, r \in Procs : state[q] = "USED" /\ parent[q] = r /\ Forks(r) =>
             parent'[q] = r
    PROVE  ForkInv'
<1>1. \A q \in Procs : Forks(q)' => Forks(q) BY DEF Forks
<1> QED BY <1>1 DEF ProcInv, ForkInv

(* The slot fork() has allocated stays its own until it is runnable.       *)
LEMMA ForkStep == ASSUME ProcInv PROVE [Next]_vars => ForkInv'
<1> /\ state \in [Procs -> States] /\ pc \in [Procs -> Labels]
    /\ np \in [Procs -> Nat] /\ yret \in [Procs -> Preemptible]
    /\ parent \in [Procs -> Procs \cup {Nobody}]
  BY DEF ProcInv, TypeOK
<1>1. ASSUME Plain PROVE ForkInv'
  BY <1>1, ForkFrame DEF Plain, Yields, Forks, Doing, Preemptible
<1>2. ASSUME NEW c \in Cpus, NEW p \in Procs, fork_scan(c, p) PROVE ForkInv'
  <2>1. idx[p] <= NPROC => idx[p] \in Procs BY SlotFacts DEF ProcInv, TypeOK
  <2>2. CASE state' = state
    <3>1. \A q \in Procs : pc'[q] = pc[q] \/ pc'[q] = "sysret"
      BY <1>2, <2>1, <2>2 DEF fork_scan, allocproc, Goto
    <3>2. UNCHANGED <<parent, yret>> /\ \A q \in Procs : Forks(q)' => np'[q] = np[q]
      BY <1>2, <2>1, <2>2 DEF fork_scan, allocproc, At, Goto, Forks, Doing,
         slots, cpus, locals, Forks
    <3> QED BY <2>2, <3>1, <3>2, ForkFrame DEF Doing, Forks
  <2>3. CASE state' # state
    <3>1. /\ idx[p] \in Procs /\ state[idx[p]] = "UNUSED" /\ pc[p] = "fork_scan"
          /\ state' = [state EXCEPT ![idx[p]] = "USED"]
          /\ np' = [np EXCEPT ![p] = idx[p]] /\ pc' = [pc EXCEPT ![p] = "fork_parent"]
          /\ UNCHANGED <<parent, yret>>
      BY <1>2, <2>1, <2>3 DEF fork_scan, allocproc, At, Goto, Forks, Doing,
         slots, cpus, locals
    <3>2. \A q \in Procs \ {p} : Doing(q)' = Doing(q) /\ np'[q] = np[q]
      BY <3>1 DEF Doing
    <3>3. Doing(p)' = "fork_parent" /\ np'[p] = idx[p] BY <3>1 DEF Doing
    <3>4. \A q \in Procs : state[q] = "USED" => state'[q] = "USED" /\ q # idx[p]
      BY <3>1
    <3>5. state'[idx[p]] = "USED" BY <3>1
    <3> QED BY <3>1, <3>2, <3>3, <3>4, <3>5 DEF ProcInv, ForkInv, Forks
  <2> QED BY <2>2, <2>3
<1>3. ASSUME NEW c \in Cpus, NEW p \in Procs, fork_parent(c, p) PROVE ForkInv'
  <2>1. /\ pc[p] = "fork_parent" /\ parent' = [parent EXCEPT ![np[p]] = p]
        /\ pc' = [pc EXCEPT ![p] = "fork_run"] /\ UNCHANGED <<state, np, yret>>
    BY <1>3 DEF fork_parent, At, Goto, Forks, Doing, slots, cpus, locals
  <2>2. np[p] \in Procs BY <2>1, ForkFacts
  <2>3. \A q \in Procs : Forks(q)' = Forks(q) BY <2>1 DEF Forks, Doing
  <2>4. \A q \in Procs \ {p} : Doing(q)' = Doing(q) BY <2>1 DEF Doing
  <2>5. Forks(p) BY <2>1 DEF Forks, Doing
  <2> QED BY <2>1, <2>2, <2>3, <2>4, <2>5 DEF ProcInv, ForkInv
<1>4. ASSUME NEW c \in Cpus, NEW p \in Procs, fork_run(c, p) PROVE ForkInv'
  <2>1. /\ pc[p] = "fork_run" /\ state' = [state EXCEPT ![np[p]] = "RUNNABLE"]
        /\ pc' = [pc EXCEPT ![p] = "sysret", ![np[p]] = "forkret"]
        /\ UNCHANGED <<parent, np, yret>>
    BY <1>4 DEF fork_run, At, Goto, Forks, Doing, slots, cpus, locals
  <2>2. np[p] \in Procs BY <2>1, ForkFacts
  <2>3. ~Forks(p)' /\ \A q \in Procs : Forks(q)' => Forks(q) /\ Doing(q)' = Doing(q)
    BY <2>1 DEF Forks, Doing
  <2>4. Forks(p) BY <2>1 DEF Forks, Doing
  <2>5. \A q \in Procs : Forks(q)' => state'[np[q]] = state[np[q]]
    BY <2>1, <2>2, <2>3, <2>4 DEF ProcInv, ForkInv
  <2> QED BY <2>1, <2>3, <2>5 DEF ProcInv, ForkInv
<1>5. ASSUME NEW c \in Cpus, NEW p \in Procs, wakeup(c, p) PROVE ForkInv'
  BY <1>5, WakeFacts, ForkFrame DEF wakeup, At, Goto, Forks, Doing, slots,
     cpus, locals
<1>6. ASSUME NEW c \in Cpus, NEW p \in Procs, reparent(c, p) PROVE ForkInv'
  BY <1>6, ForkFrame DEF reparent, CallWakeup, Children, At, Goto, Forks,
     Doing, slots, cpus, locals
<1>7. ASSUME NEW c \in Cpus, NEW p \in Procs, exit_zombie(c, p) PROVE ForkInv'
  BY <1>7, RunningState, ForkFrame DEF exit_zombie, At, Goto, Forks, Doing,
     slots, cpus, locals
<1>8. ASSUME NEW c \in Cpus, NEW p \in Procs, wait_scan(c, p) PROVE ForkInv'
  <2>1. /\ pc[p] = "wait_scan" /\ UNCHANGED yret
        /\ \A q \in Procs : pc'[q] = pc[q] \/ pc'[q] \in {"sysret", "sleep", "forkret"}
        /\ \A q \in Procs : pc'[q] = "forkret" \/ np'[q] = np[q]
    BY <1>8 DEF wait_scan, Children, freeproc, At, Goto, Forks, Doing, slots,
       cpus, locals
  <2>2. \A q \in Procs : state[q] = "USED" => state'[q] = "USED" /\ parent'[q] = parent[q]
    BY <1>8 DEF wait_scan, Children, freeproc, At, Goto, Forks, Doing, slots,
       cpus, locals
  <2> QED BY <2>1, <2>2, ForkFrame DEF Forks, Doing
<1>9. ASSUME NEW c \in Cpus, NEW p \in Procs, sleep(c, p) PROVE ForkInv'
  BY <1>9, ForkFrame DEF sleep, At, Goto, Forks, Doing, slots, cpus, locals
<1>10. ASSUME NEW c \in Cpus, NEW p \in Procs, sleep_sched(c, p) PROVE ForkInv'
  BY <1>10, RunningState, ForkFrame DEF sleep_sched, Sched, At, Goto, Forks,
     Doing, slots, cpus, locals
<1>11. ASSUME NEW c \in Cpus, NEW p \in Procs, kill(c, p) PROVE ForkInv'
  BY <1>11, ForkFrame DEF kill, At, Goto, Forks, Doing, slots, cpus, locals
<1> QED BY PlainSteps, <1>1, <1>2, <1>3, <1>4, <1>5, <1>6, <1>7, <1>8, <1>9,
     <1>10, <1>11

(* Parents are kept when nobody gets past reparent() and no slot comes to   *)
(* life without a parent.                                                  *)
LEMMA ParentFrame ==
    ASSUME ProcInv, UNCHANGED parent,
           \A q \in Procs : pc'[q] \in {"reparent", "wakeup", "exit_zombie"} =>
             \/ pc'[q] = pc[q] /\ ret'[q] = ret[q]
             \/ pc'[q] = ret[q] /\ pc[q] = "wakeup" /\ pc'[q] # "wakeup"
             \/ pc'[q] = "reparent" /\ q # initproc,
           \A q \in Procs :
             \/ state'[q] = state[q]
             \/ state'[q] = "USED" /\ state[q] = "UNUSED"
             \/ /\ state'[q] \in {"RUNNABLE", "RUNNING", "SLEEPING"}
                /\ state[q] \in {"RUNNABLE", "RUNNING", "SLEEPING"} \/ parent[q] # Nobody
    PROVE  ParentInv'
<1>1. ParentInv /\ parent \in [Procs -> Procs \cup {Nobody}]
  BY DEF ProcInv, TypeOK
<1>2. pc'[initproc] \notin {"reparent", "wakeup"}
  BY <1>1, ConstantFacts DEF ParentInv
<1>3. \A q \in Procs : Gone(q)' => Gone(q) BY DEF Gone
<1> QED BY <1>1, <1>2, <1>3, ConstantFacts DEF ParentInv

(* exit() gives all its children to init before it is gone.                *)
LEMMA ParentStep == ASSUME ProcInv PROVE [Next]_vars => ParentInv'
<1> /\ state \in [Procs -> States] /\ pc \in [Procs -> Labels]
    /\ ret \in [Procs -> Labels] /\ yret \in [Procs -> Preemptible]
  BY DEF ProcInv, TypeOK
<1>1. ASSUME Plain PROVE ParentInv'
  BY <1>1, ParentFrame DEF Plain, Yields, Preemptible
<1>2. ASSUME NEW c \in Cpus, NEW p \in Procs, fork_scan(c, p) PROVE ParentInv'
  BY <1>2, ParentFrame DEF fork_scan, allocproc, At, Goto, slots, cpus, locals
<1>3. ASSUME NEW c \in Cpus, NEW p \in Procs, fork_parent(c, p) PROVE ParentInv'
  <2>1. /\ np[p] \in Procs /\ np[p] # p /\ state[np[p]] = "USED" /\ state[p] = "RUNNING"
        /\ pc[p] = "fork_parent" /\ parent' = [parent EXCEPT ![np[p]] = p]
        /\ pc' = [pc EXCEPT ![p] = "fork_run"] /\ UNCHANGED <<state, ret>>
    BY <1>3, ForkFacts, RunningState DEF fork_parent, At, Goto, slots, cpus,
       locals
  <2>2. ParentInv /\ parent \in [Procs -> Procs \cup {Nobody}]
    BY DEF ProcInv, TypeOK
  <2>3. \A q \in Procs : Gone(q)' = Gone(q) BY <2>1 DEF Gone
  <2>4. ~Gone(p) /\ Gone(np[p]) BY <2>1 DEF Gone
  <2> QED BY <2>1, <2>2, <2>3, <2>4, ConstantFacts DEF ParentInv
<1>4. ASSUME NEW c \in Cpus, NEW p \in Procs, fork_run(c, p) PROVE ParentInv'
  <2>1. /\ np[p] \in Procs /\ np[p] # p /\ parent[np[p]] # Nobody
        /\ pc' = [pc EXCEPT ![p] = "sysret", ![np[p]] = "forkret"]
        /\ state' = [state EXCEPT ![np[p]] = "RUNNABLE"] /\ UNCHANGED <<parent, ret>>
    BY <1>4, ForkFacts, ConstantFacts DEF fork_run, At, locals
  <2> QED BY <2>1, ParentFrame
<1>5. ASSUME NEW c \in Cpus, NEW p \in Procs, wakeup(c, p) PROVE ParentInv'
  BY <1>5, WakeFacts, ParentFrame DEF wakeup, At, Goto, slots, cpus, locals
<1>6. ASSUME NEW c \in Cpus, NEW p \in Procs, reparent(c, p) PROVE ParentInv'
  <2>1. /\ pc[p] = "reparent" /\ pc' = [pc EXCEPT ![p] = "wakeup"] /\ UNCHANGED state
        /\ \A q \in Procs \ {p} : ret'[q] = ret[q]
    BY <1>6 DEF reparent, CallWakeup, Children, At, Goto, slots, cpus, locals
  <2>2. ParentInv /\ parent \in [Procs -> Procs \cup {Nobody}]
    BY DEF ProcInv, TypeOK
  <2>3. p # initproc BY <2>1, <2>2 DEF ParentInv
  <2>4. \A q \in Procs \ {p} : Gone(q)' = Gone(q) BY <2>1 DEF Gone
  <2>5. CASE Children(p) = {} /\ UNCHANGED parent
    <3>1. \A q \in Procs : parent[q] # p BY <2>5 DEF Children
    <3>2. \A q, r \in Procs : parent[q] = r => ~Gone(r)'
      BY <2>2, <2>4, <3>1, ConstantFacts DEF ParentInv
    <3>3. ~Gone(initproc)' /\ pc'[initproc] \notin {"reparent", "wakeup"}
      BY <2>1, <2>2, <2>3, <2>4, ConstantFacts DEF ParentInv
    <3> QED BY <2>1, <2>2, <2>5, <3>2, <3>3, ConstantFacts DEF ParentInv
  <2>6. ASSUME NEW q \in Children(p), parent' = [parent EXCEPT ![q] = initproc],
               ret' = [ret EXCEPT ![p] = "reparent"]
        PROVE  ParentInv'
    <3>1. Gone(p)' = Gone(p) BY <2>1, <2>6 DEF Gone
    <3>2. q \in Procs /\ parent[q] = p BY <2>6 DEF Children
    <3> QED
      BY <2>1, <2>2, <2>3, <2>4, <2>6, <3>1, <3>2, ConstantFacts DEF ParentInv
  <2> QED BY <1>6, <2>5, <2>6 DEF reparent, CallWakeup
<1>7. ASSUME NEW c \in Cpus, NEW p \in Procs, exit_zombie(c, p) PROVE ParentInv'
  <2>1. /\ state[p] = "RUNNING" /\ state' = [state EXCEPT ![p] = "ZOMBIE"]
        /\ pc[p] = "exit_zombie" /\ pc' = [pc EXCEPT ![p] = "exit_sched"]
        /\ UNCHANGED <<parent, ret>>
    BY <1>7, RunningState DEF exit_zombie, At, Goto, slots, cpus, locals
  <2>2. ParentInv /\ parent \in [Procs -> Procs \cup {Nobody}]
    BY DEF ProcInv, TypeOK
  <2>3. \A q \in Procs : Gone(q)' = Gone(q) BY <2>1 DEF Gone
  <2> QED BY <2>1, <2>2, <2>3, ConstantFacts DEF ParentInv
<1>8. ASSUME NEW c \in Cpus, NEW p \in Procs, wait_scan(c, p) PROVE ParentInv'
  <2>1. ASSUME NEW q \in Children(p), state[q] = "ZOMBIE", freeproc(p, q)
        PROVE ParentInv'
    <3>1. /\ q \in Procs /\ parent[q] = p /\ pc[p] = "wait_scan"
          /\ parent' = [parent EXCEPT ![q] = Nobody] /\ state' = [state EXCEPT ![q] = "UNUSED"]
          /\ pc' = [pc EXCEPT ![p] = "sysret", ![q] = "forkret"]
          /\ ret' = [ret EXCEPT ![q] = "user"]
      BY <1>8, <2>1 DEF wait_scan, At, Children, freeproc
    <3>2. ParentInv /\ parent \in [Procs -> Procs \cup {Nobody}]
      BY DEF ProcInv, TypeOK
    <3>3. Gone(q) BY <2>1 DEF Gone
    <3>4. q # initproc /\ \A r \in Procs : parent[r] # q
      BY <3>1, <3>2, <3>3, ConstantFacts DEF ParentInv
    <3>5. \A r \in Procs \ {q} : Gone(r)' = Gone(r) BY <3>1 DEF Gone
    <3>6. \A r, s \in Procs : parent'[r] = s => parent[r] = s /\ s # q
      BY <3>1, <3>2, <3>4, ConstantFacts
    <3> QED BY <3>1, <3>2, <3>4, <3>5, <3>6, ConstantFacts DEF ParentInv
  <2>2. CASE UNCHANGED <<slots, ret>>
    <3>1. \A q \in Children(p) : state[q] = "ZOMBIE" => ~freeproc(p, q)
      BY <2>2 DEF freeproc, Children, slots
    <3>2. \A q \in Procs : pc'[q] = pc[q] \/ pc'[q] \in {"sysret", "sleep"}
      BY <1>8, <3>1 DEF wait_scan, Goto
    <3> QED BY <2>2, <3>2, ParentFrame DEF slots
  <2> QED BY <1>8, <2>1, <2>2 DEF wait_scan
<1>9. ASSUME NEW c \in Cpus, NEW p \in Procs, sleep(c, p) PROVE ParentInv'
  BY <1>9, ParentFrame DEF sleep, At, Goto, slots, cpus, locals
<1>10. ASSUME NEW c \in Cpus, NEW p \in Procs, sleep_sched(c, p)
      PROVE ParentInv'
  BY <1>10, RunningState, ParentFrame DEF sleep_sched, Sched, At, Goto, slots,
     cpus, locals
<1>11. ASSUME NEW c \in Cpus, NEW p \in Procs, kill(c, p) PROVE ParentInv'
  BY <1>11, ParentFrame DEF kill, At, Goto, slots, cpus, locals
<1> QED BY PlainSteps, <1>1, <1>2, <1>3, <1>4, <1>5, <1>6, <1>7, <1>8, <1>9,
     <1>10, <1>11

(* Only one thread is where wait_lock is held.                             *)
LEMMA OneHolder ==
    ASSUME ProcInv,
           NEW p \in Procs, NEW q \in Procs, pc[p] \in HasWaitLock, pc[q] \in HasWaitLock
    PROVE  p = q /\ wait_lock # Nobody
<1>1. OnCpu(p) /\ OnCpu(q) BY DEF ProcInv, StateInv, HasWaitLock
<1> QED BY <1>1, ConstantFacts DEF ProcInv, OnCpu, Runs, WaitLockInv

(* The scans keep their start, a wakeup() its channel and its way back, and *)
(* a sleeper its channel.                                                  *)
LEMMA ScanFrame ==
    ASSUME ProcInv,
           \A q \in Procs : Doing(q)' \in {"user", "exit", "wait", "forkret", "reparent"} =>
             \/ idx'[q] = 1
             \/ /\ Doing(q) \in {"user", "exit", "wait", "forkret", "reparent"}
                /\ idx'[q] = idx[q],
           \A q \in Procs : pc'[q] = "wakeup" =>
             /\ pc[q] = "wakeup" /\ ret'[q] = ret[q]
             /\ np'[q] = np[q] /\ parent'[q] = parent[q],
           \A q \in Procs : state'[q] = "SLEEPING" =>
             state[q] = "SLEEPING" /\ chan'[q] = chan[q]
    PROVE  ScanInv'
BY DEF ProcInv, ScanInv

(* Scans start at the first slot; wakeup has its channel from exit().      *)
LEMMA ScanStep == ASSUME ProcInv PROVE [Next]_vars => ScanInv'
<1> /\ state \in [Procs -> States] /\ pc \in [Procs -> Labels]
    /\ chan \in [Procs -> Procs \cup {Nobody}] /\ idx \in [Procs -> 1 .. NPROC + 1]
    /\ np \in [Procs -> Nat] /\ yret \in [Procs -> Preemptible]
    /\ ret \in [Procs -> Labels] /\ parent \in [Procs -> Procs \cup {Nobody}]
  BY DEF ProcInv, TypeOK
<1>1. ASSUME Plain PROVE ScanInv'
  BY <1>1, ScanFrame DEF Plain, Yields, Doing, Preemptible
<1>2. ASSUME NEW c \in Cpus, NEW p \in Procs, fork_scan(c, p) PROVE ScanInv'
  BY <1>2, ScanFrame DEF fork_scan, allocproc, At, Goto, Doing, slots, cpus,
     locals
<1>3. ASSUME NEW c \in Cpus, NEW p \in Procs, fork_parent(c, p) PROVE ScanInv'
  BY <1>3, ForkFacts, ScanFrame DEF fork_parent, At, Goto, Doing, slots, cpus,
     locals
<1>4. ASSUME NEW c \in Cpus, NEW p \in Procs, fork_run(c, p) PROVE ScanInv'
  BY <1>4, ForkFacts, ScanFrame DEF fork_run, At, Goto, Doing, slots, cpus,
     locals
<1>5. ASSUME NEW c \in Cpus, NEW p \in Procs, wakeup(c, p) PROVE ScanInv'
  BY <1>5, WakeFacts, ScanFrame DEF wakeup, At, Goto, Doing, slots, cpus, locals
<1>6. ASSUME NEW c \in Cpus, NEW p \in Procs, reparent(c, p) PROVE ScanInv'
  <2>1. /\ pc' = [pc EXCEPT ![p] = "wakeup"] /\ UNCHANGED <<state, chan, idx, yret>>
        /\ \/ np' = [np EXCEPT ![p] = parent[p]] /\ ret' = [ret EXCEPT ![p] = "exit_zombie"]
              /\ parent' = parent
           \/ np' = [np EXCEPT ![p] = initproc] /\ ret' = [ret EXCEPT ![p] = "reparent"]
    BY <1>6 DEF reparent, CallWakeup, Children, At, Goto, Doing, slots, cpus,
       locals
  <2>2. \A q \in Procs \ {p} : pc[q] # "wakeup"
    BY <1>6, OneHolder DEF reparent, At, HasWaitLock
  <2> QED BY <2>1, <2>2 DEF ProcInv, ScanInv, Doing
<1>7. ASSUME NEW c \in Cpus, NEW p \in Procs, exit_zombie(c, p) PROVE ScanInv'
  BY <1>7, ScanFrame DEF exit_zombie, At, Goto, Doing, slots, cpus, locals
<1>8. ASSUME NEW c \in Cpus, NEW p \in Procs, wait_scan(c, p) PROVE ScanInv'
  <2>1. ASSUME NEW q \in Children(p), state[q] = "ZOMBIE", freeproc(p, q)
        PROVE ScanInv'
    <3>1. /\ q \in Procs /\ pc[p] = "wait_scan" /\ UNCHANGED yret
          /\ parent' = [parent EXCEPT ![q] = Nobody] /\ state' = [state EXCEPT ![q] = "UNUSED"]
          /\ chan' = [chan EXCEPT ![q] = Nobody]
          /\ pc' = [pc EXCEPT ![p] = "sysret", ![q] = "forkret"]
          /\ idx' = [idx EXCEPT ![q] = 1] /\ np' = [np EXCEPT ![q] = 0]
          /\ ret' = [ret EXCEPT ![q] = "user"]
      BY <1>8, <2>1 DEF wait_scan, At, Children, freeproc
    <3> QED BY <3>1, ScanFrame DEF Doing
  <2>2. CASE UNCHANGED <<slots, np, ret>>
    <3>1. \A q \in Children(p) : state[q] = "ZOMBIE" => ~freeproc(p, q)
      BY <2>2 DEF freeproc, Children, slots
    <3>2. /\ \A q \in Procs : pc'[q] = pc[q] \/ pc'[q] \in {"sysret", "sleep"}
          /\ \A q \in Procs : idx'[q] = idx[q] \/ pc'[q] = "wait_scan"
          /\ UNCHANGED yret
      BY <1>8, <3>1 DEF wait_scan, At, Goto
    <3> QED BY <2>2, <3>2, ScanFrame DEF slots, Doing
  <2> QED BY <1>8, <2>1, <2>2 DEF wait_scan
<1>9. ASSUME NEW c \in Cpus, NEW p \in Procs, sleep(c, p) PROVE ScanInv'
  BY <1>9, ScanFrame DEF sleep, At, Goto, Doing, slots, cpus, locals
<1>10. ASSUME NEW c \in Cpus, NEW p \in Procs, sleep_sched(c, p) PROVE ScanInv'
  <2>1. /\ pc[p] = "sleep_sched" /\ pc' = [pc EXCEPT ![p] = "sleep_woken"]
        /\ state' = [state EXCEPT ![p] = "SLEEPING"] /\ chan' = [chan EXCEPT ![p] = p]
        /\ UNCHANGED <<parent, idx, np, ret, yret>>
    BY <1>10 DEF sleep_sched, Sched, At, Goto, Doing, slots, cpus, locals
  <2> QED BY <2>1 DEF ProcInv, ScanInv, Doing
<1>11. ASSUME NEW c \in Cpus, NEW p \in Procs, kill(c, p) PROVE ScanInv'
  BY <1>11, ScanFrame DEF kill, At, Goto, Doing, slots, cpus, locals
<1> QED BY PlainSteps, <1>1, <1>2, <1>3, <1>4, <1>5, <1>6, <1>7, <1>8, <1>9,
     <1>10, <1>11

(* Types are kept; the child's slot of a fork is a slot.                   *)
LEMMA TypeStep == ASSUME ProcInv PROVE [Next]_vars => TypeOK'
<1> TypeOK BY DEF ProcInv
<1>1. ASSUME UNCHANGED vars PROVE TypeOK'
  BY <1>1 DEF vars, TypeOK, Goto, slots, cpus, locals
<1>2. ASSUME NEW c \in Cpus, scheduler_release(c) PROVE TypeOK'
  BY <1>2 DEF scheduler_release, TypeOK, Goto, slots, cpus, locals
<1>3. ASSUME NEW c \in Cpus, NEW p \in Procs, schedule(c, p) PROVE TypeOK'
  BY <1>3 DEF schedule, States, TypeOK, Goto, slots, cpus, locals
<1>4. ASSUME NEW c \in Cpus, NEW p \in Procs, syscall(c, p) PROVE TypeOK'
  BY <1>4, SlotFacts, ProcAssumption DEF syscall, Labels, Preemptible, TypeOK,
     Goto, slots, cpus, locals
<1>5. ASSUME NEW c \in Cpus, NEW p \in Procs, timer(c, p) PROVE TypeOK'
  BY <1>5 DEF timer, Labels, Preemptible, TypeOK, Goto, slots, cpus, locals
<1>6. ASSUME NEW c \in Cpus, NEW p \in Procs, yield(c, p) PROVE TypeOK'
  BY <1>6 DEF yield, Labels, Preemptible, States, TypeOK, Goto, slots, cpus,
     locals
<1>7. ASSUME NEW c \in Cpus, NEW p \in Procs, yield_sched(c, p) PROVE TypeOK'
  BY <1>7 DEF yield_sched, Sched, Labels, Preemptible, TypeOK, Goto, slots,
     cpus, locals
<1>8. ASSUME NEW c \in Cpus, NEW p \in Procs, yield_back(c, p) PROVE TypeOK'
  BY <1>8 DEF yield_back, Labels, Preemptible, TypeOK, Goto, slots, cpus, locals
<1>9. ASSUME NEW c \in Cpus, NEW p \in Procs, forkret(c, p) PROVE TypeOK'
  BY <1>9 DEF forkret, Labels, Preemptible, TypeOK, Goto, slots, cpus, locals
<1>10. ASSUME NEW c \in Cpus, NEW p \in Procs, sysret(c, p) PROVE TypeOK'
  BY <1>10, SlotFacts DEF sysret, Labels, Preemptible, TypeOK, Goto, slots,
     cpus, locals
<1>11. ASSUME NEW c \in Cpus, NEW p \in Procs, fork_scan(c, p) PROVE TypeOK'
  <2>1. idx' = idx \/ (idx[p] <= NPROC /\ idx' = [idx EXCEPT ![p] = idx[p] + 1])
    BY <1>11 DEF fork_scan
  <2>2. idx' \in [Procs -> 1 .. NPROC + 1] BY <2>1, SlotFacts DEF TypeOK
  <2>3. nextpid' \in Nat /\ pid' \in [Procs -> Nat]
    BY <1>11 DEF fork_scan, allocproc, TypeOK
  <2>4. np' \in [Procs -> Nat]
    BY <1>11, SlotFacts DEF fork_scan, allocproc, TypeOK
  <2>5. pc' \in [Procs -> Labels] /\ state' \in [Procs -> States]
    BY <1>11 DEF fork_scan, allocproc, TypeOK, Goto, Labels, Preemptible, States
  <2>6. killed' = killed \/ killed' = [killed EXCEPT ![idx[p]] = FALSE]
    BY <1>11 DEF fork_scan, allocproc
  <2>7. killed' \in [Procs -> BOOLEAN] BY <2>6, Zenon DEF TypeOK
  <2> QED BY <1>11, <2>2, <2>3, <2>4, <2>5, <2>7 DEF fork_scan, TypeOK, cpus
<1>12. ASSUME NEW c \in Cpus, NEW p \in Procs, fork_parent(c, p) PROVE TypeOK'
  <2>1. np[p] \in Procs
    BY <1>12 DEF ProcInv, ForkInv, Forks, Doing, fork_parent, At
  <2> QED
    BY <1>12, <2>1 DEF fork_parent, Labels, Preemptible, TypeOK, Goto, slots,
       cpus, locals
<1>13. ASSUME NEW c \in Cpus, NEW p \in Procs, fork_run(c, p) PROVE TypeOK'
  <2>1. np[p] \in Procs
    BY <1>13 DEF ProcInv, ForkInv, Forks, Doing, fork_run, At
  <2> QED
    BY <1>13, <2>1 DEF fork_run, Labels, Preemptible, States, TypeOK, Goto,
       slots, cpus, locals
<1>14. ASSUME NEW c \in Cpus, NEW p \in Procs, wakeup(c, p) PROVE TypeOK'
  <2>1. \/ idx' = [idx EXCEPT ![p] = 1]
        \/ idx[p] <= NPROC /\ idx' = [idx EXCEPT ![p] = idx[p] + 1]
    BY <1>14, SlotFacts DEF wakeup
  <2>2. idx' \in [Procs -> 1 .. NPROC + 1] BY <2>1, SlotFacts DEF TypeOK
  <2>3. state' \in [Procs -> States] BY <1>14 DEF wakeup, TypeOK, States
  <2>4. pc' \in [Procs -> Labels] BY <1>14 DEF wakeup, TypeOK, Goto
  <2> QED BY <1>14, <2>2, <2>3, <2>4 DEF wakeup, TypeOK, cpus
<1>15. ASSUME NEW c \in Cpus, NEW p \in Procs, exit(c, p) PROVE TypeOK'
  BY <1>15, SlotFacts DEF exit, Labels, Preemptible, TypeOK, Goto, slots, cpus,
     locals
<1>16. ASSUME NEW c \in Cpus, NEW p \in Procs, reparent(c, p) PROVE TypeOK'
  <2>1. parent' \in [Procs -> Procs \cup {Nobody}]
    BY <1>16, ConstantFacts DEF reparent, Children, TypeOK
  <2>2. \E ch \in Procs \cup {Nobody} : np' = [np EXCEPT ![p] = ch]
    BY <1>16, ConstantFacts DEF reparent, CallWakeup, TypeOK
  <2>3. np' \in [Procs -> Nat] BY <2>2, SlotFacts DEF TypeOK, Nobody
  <2>4. pc' \in [Procs -> Labels] /\ ret' \in [Procs -> Labels]
    BY <1>16 DEF reparent, CallWakeup, TypeOK, Goto, Labels, Preemptible
  <2> QED BY <1>16, <2>1, <2>3, <2>4 DEF reparent, TypeOK, slots, cpus, locals
<1>17. ASSUME NEW c \in Cpus, NEW p \in Procs, exit_zombie(c, p) PROVE TypeOK'
  BY <1>17 DEF exit_zombie, Labels, Preemptible, States, TypeOK, Goto, slots,
     cpus, locals
<1>18. ASSUME NEW c \in Cpus, NEW p \in Procs, exit_sched(c, p) PROVE TypeOK'
  BY <1>18 DEF exit_sched, Sched, Labels, Preemptible, TypeOK, Goto, slots,
     cpus, locals
<1>19. ASSUME NEW c \in Cpus, NEW p \in Procs, wait(c, p) PROVE TypeOK'
  BY <1>19, SlotFacts DEF wait, Labels, Preemptible, TypeOK, Goto, slots, cpus,
     locals
<1>20. ASSUME NEW c \in Cpus, NEW p \in Procs, wait_scan(c, p) PROVE TypeOK'
  <2>1. /\ UNCHANGED <<plock, nextpid, proc, onproc, yret>>
        /\ wait_lock' \in {wait_lock, Nobody}
    BY <1>20 DEF wait_scan, cpus
  <2>2. CASE \E q \in Children(p) : freeproc(p, q)
    <3>1. PICK q \in Procs : freeproc(p, q) BY <2>2 DEF Children
    <3>2. state' \in [Procs -> States] /\ chan' \in [Procs -> Procs \cup {Nobody}]
      BY <3>1 DEF freeproc, TypeOK, States
    <3>3. killed' \in [Procs -> BOOLEAN] BY <3>1 DEF freeproc, TypeOK
    <3>4. pid' \in [Procs -> Nat] /\ parent' \in [Procs -> Procs \cup {Nobody}]
      BY <3>1 DEF freeproc, TypeOK
    <3>5. pc' \in [Procs -> Labels] /\ ret' \in [Procs -> Labels]
      BY <3>1 DEF freeproc, TypeOK, Labels, Preemptible
    <3>6. idx' \in [Procs -> 1 .. NPROC + 1] /\ np' \in [Procs -> Nat]
      BY <3>1, SlotFacts DEF freeproc, TypeOK
    <3> QED BY <2>1, <3>2, <3>3, <3>4, <3>5, <3>6 DEF TypeOK
  <2>3. CASE ~\E q \in Children(p) : freeproc(p, q)
    <3>1. UNCHANGED <<state, chan, killed, pid, parent, np, ret>>
      BY <1>20, <2>3 DEF wait_scan, slots
    <3>2. pc' \in [Procs -> Labels]
      BY <1>20, <2>3 DEF wait_scan, TypeOK, Goto, Labels, Preemptible
    <3>3. idx' \in [Procs -> 1 .. NPROC + 1]
      BY <1>20, <2>3, SlotFacts DEF wait_scan, TypeOK, Children
    <3> QED BY <2>1, <3>1, <3>2, <3>3 DEF TypeOK
  <2> QED BY <2>2, <2>3
<1>21. ASSUME NEW c \in Cpus, NEW p \in Procs, sleep(c, p) PROVE TypeOK'
  BY <1>21 DEF sleep, Labels, Preemptible, TypeOK, Goto, slots, cpus, locals
<1>22. ASSUME NEW c \in Cpus, NEW p \in Procs, sleep_sched(c, p) PROVE TypeOK'
  BY <1>22 DEF sleep_sched, Sched, Labels, Preemptible, States, TypeOK, Goto,
     slots, cpus, locals
<1>23. ASSUME NEW c \in Cpus, NEW p \in Procs, sleep_woken(c, p) PROVE TypeOK'
  BY <1>23 DEF sleep_woken, Labels, Preemptible, TypeOK, Goto, slots, cpus,
     locals
<1>24. ASSUME NEW c \in Cpus, NEW p \in Procs, sleep_relock(c, p) PROVE TypeOK'
  BY <1>24, SlotFacts DEF sleep_relock, Labels, Preemptible, TypeOK, Goto,
     slots, cpus, locals
<1>25. ASSUME NEW c \in Cpus, NEW p \in Procs, kill(c, p) PROVE TypeOK'
  <2>1. idx' = idx \/ (idx[p] <= NPROC /\ idx' = [idx EXCEPT ![p] = idx[p] + 1])
    BY <1>25 DEF kill
  <2>2. idx' \in [Procs -> 1 .. NPROC + 1] BY <2>1, SlotFacts DEF TypeOK
  <2>3. state' \in [Procs -> States] BY <1>25 DEF kill, TypeOK, States
  <2>4. pc' \in [Procs -> Labels]
    BY <1>25 DEF kill, TypeOK, Goto, Labels, Preemptible
  <2>5. killed' = killed \/ killed' = [killed EXCEPT ![idx[p]] = TRUE]
    BY <1>25 DEF kill
  <2>6. killed' \in [Procs -> BOOLEAN] BY <2>5, Zenon DEF TypeOK
  <2> QED BY <1>25, <2>2, <2>3, <2>4, <2>6 DEF kill, TypeOK, cpus
<1> QED BY <1>1, <1>2, <1>3, <1>4, <1>5, <1>6, <1>7, <1>8, <1>9, <1>10, <1>11,
     <1>12, <1>13, <1>14, <1>15, <1>16, <1>17, <1>18, <1>19, <1>20, <1>21,
     <1>22, <1>23, <1>24, <1>25 DEF Next, YieldStep, KernelStep
=============================================================================
