-------------------------------- MODULE Proc --------------------------------
(***************************************************************************)
(* Processes of kernel/proc.c: fork, exit, wait, kill, yield, sleep and    *)
(* wakeup, and the scheduler loop each CPU runs, with the spinlocks p->lock *)
(* and wait_lock that are held across the context switch.                  *)
(*                                                                         *)
(* A step ends where the code is about to acquire a lock or to switch      *)
(* stacks: what one CPU does between two such points is invisible to the   *)
(* others, except p->killed and the table scans, which get steps of their  *)
(* own.  Spinlocks remember the CPU that holds them (lk->cpu), so a lock   *)
(* taken by a process is released by the scheduler of the same CPU.        *)
(***************************************************************************)
EXTENDS Integers, FiniteSets

CONSTANTS
    NPROC,     \* slots of the process table
    NCPU,      \* CPUs
    MaxPid,    \* bound: no fork() starts once nextpid is beyond it
    KillPids   \* arguments given to kill()

ASSUME ProcAssumption ==
    /\ NPROC \in Nat \ {0}
    /\ NCPU \in Nat \ {0}
    /\ MaxPid \in Nat \ {0}
    /\ KillPids \subseteq Nat

Procs == 1 .. NPROC
Cpus == 1 .. NCPU
initproc == 1
Nobody == 0    \* a null struct proc *, or the holder of a free lock

VARIABLES
    state,     \* p->state
    chan,      \* p->chan; wait() sleeps on the process itself
    killed,    \* p->killed
    pid,       \* p->pid
    parent,    \* p->parent
    plock,     \* CPU that holds p->lock
    wait_lock, \* CPU that holds wait_lock
    nextpid,
    proc,      \* c->proc
    onproc,    \* the CPU runs c->proc's kernel thread, not the scheduler
    pc,        \* where each kernel thread is, or will resume
    idx,       \* index of the table scan in progress
    np,        \* fork: the child; wakeup: the channel; kill: the pid
    ret,       \* where wakeup returns to
    yret       \* where yield returns to

vars == <<state, chan, killed, pid, parent, plock, wait_lock, nextpid, proc,
          onproc, pc, idx, np, ret, yret>>
slots == <<state, chan, killed, pid, parent>>
cpus == <<proc, onproc>>
locals == <<idx, np, ret, yret>>

States == {"UNUSED", "USED", "SLEEPING", "RUNNABLE", "RUNNING", "ZOMBIE"}

(* Labels at which the thread holds no lock, so interrupts are on.         *)
Preemptible == {"user", "fork_scan", "fork_parent", "fork_run", "exit", "wait",
                "sleep_relock", "kill", "sysret"}
Labels == Preemptible \cup
          {"forkret", "reparent", "wakeup", "exit_zombie", "exit_sched",
           "wait_scan", "sleep", "sleep_sched", "sleep_woken", "yield",
           "yield_sched", "yield_back"}

(* After userinit(): process 1 is ready, every CPU is in scheduler().      *)
Init ==
    /\ state = [p \in Procs |-> IF p = initproc THEN "RUNNABLE" ELSE "UNUSED"]
    /\ chan = [p \in Procs |-> Nobody]
    /\ killed = [p \in Procs |-> FALSE]
    /\ pid = [p \in Procs |-> IF p = initproc THEN 1 ELSE 0]
    /\ parent = [p \in Procs |-> Nobody]
    /\ plock = [p \in Procs |-> Nobody]
    /\ wait_lock = Nobody
    /\ nextpid = 2
    /\ proc = [c \in Cpus |-> Nobody]
    /\ onproc = [c \in Cpus |-> FALSE]
    /\ pc = [p \in Procs |-> "forkret"]
    /\ idx = [p \in Procs |-> 1]
    /\ np = [p \in Procs |-> 0]
    /\ ret = [p \in Procs |-> "user"]
    /\ yret = [p \in Procs |-> "user"]

Runs(c, p) == proc[c] = p /\ onproc[c]

At(c, p, label) == Runs(c, p) /\ pc[p] = label

Goto(p, label) == pc' = [pc EXCEPT ![p] = label]

----------------------------------------------------------------------------
(* scheduler(): any RUNNABLE process may be next in the scan.              *)

schedule(c, p) ==
    /\ proc[c] = Nobody
    /\ plock[p] = Nobody
    /\ state[p] = "RUNNABLE"
    /\ plock' = [plock EXCEPT ![p] = c]
    /\ state' = [state EXCEPT ![p] = "RUNNING"]
    /\ proc' = [proc EXCEPT ![c] = p]
    /\ onproc' = [onproc EXCEPT ![c] = TRUE]
    /\ UNCHANGED <<chan, killed, pid, parent, wait_lock, nextpid, pc, locals>>

(* Back on the scheduler's stack: c->proc = 0; release(&p->lock).          *)
scheduler_release(c) ==
    /\ proc[c] # Nobody
    /\ ~onproc[c]
    /\ proc' = [proc EXCEPT ![c] = Nobody]
    /\ plock' = [plock EXCEPT ![proc[c]] = Nobody]
    /\ UNCHANGED <<slots, wait_lock, nextpid, onproc, pc, locals>>

(* sched(): the thread leaves its CPU with p->lock held and will resume at *)
(* `label'.                                                                *)
Sched(c, p, label) ==
    /\ onproc' = [onproc EXCEPT ![c] = FALSE]
    /\ Goto(p, label)

(* First run of a process: release(&myproc()->lock), then user space.      *)
forkret(c, p) ==
    /\ At(c, p, "forkret")
    /\ plock' = [plock EXCEPT ![p] = Nobody]
    /\ Goto(p, "user")
    /\ UNCHANGED <<slots, wait_lock, nextpid, cpus, locals>>

----------------------------------------------------------------------------
(* Traps.                                                                  *)

(* Entry to the kernel by a system call, and the check for a kill.  A      *)
(* fault in user space ends in exit() as the call does.  init never exits. *)
syscall(c, p) ==
    /\ At(c, p, "user")
    /\ \/ /\ killed[p]
          /\ Goto(p, "exit")
          /\ UNCHANGED <<idx, np>>
       \/ /\ ~killed[p]
          /\ \/ /\ nextpid <= MaxPid
                /\ Goto(p, "fork_scan")
                /\ UNCHANGED np
             \/ /\ Goto(p, "wait")
                /\ UNCHANGED np
             \/ /\ p # initproc
                /\ Goto(p, "exit")
                /\ UNCHANGED np
             \/ \E k \in KillPids : /\ p # initproc
                                    /\ np' = [np EXCEPT ![p] = k]
                                    /\ Goto(p, "kill")
          /\ idx' = [idx EXCEPT ![p] = 1]
    /\ UNCHANGED <<slots, plock, wait_lock, nextpid, cpus, ret, yret>>

(* End of a system call: a killed process exits instead of returning.      *)
sysret(c, p) ==
    /\ At(c, p, "sysret")
    /\ Goto(p, IF killed[p] THEN "exit" ELSE "user")
    /\ idx' = [idx EXCEPT ![p] = 1]
    /\ np' = [np EXCEPT ![p] = 0]
    /\ UNCHANGED <<slots, plock, wait_lock, nextpid, cpus, ret, yret>>

(* Timer interrupt, in user space (which exits when killed) or in the      *)
(* kernel with interrupts on.                                              *)
timer(c, p) ==
    /\ Runs(c, p)
    /\ pc[p] \in Preemptible
    /\ \/ /\ pc[p] = "user" /\ killed[p]
          /\ Goto(p, "exit")
          /\ UNCHANGED yret
       \/ /\ ~(pc[p] = "user" /\ killed[p])
          /\ yret' = [yret EXCEPT ![p] = pc[p]]
          /\ Goto(p, "yield")
    /\ UNCHANGED <<slots, plock, wait_lock, nextpid, cpus, idx, np, ret>>

(* Mutant: yield() changes the state without p->lock.                      *)
yield_NoLock(c, p) ==
    /\ At(c, p, "yield")
    /\ state' = [state EXCEPT ![p] = "RUNNABLE"]
    /\ Goto(p, "yield_sched")
    /\ UNCHANGED <<chan, killed, pid, parent, plock, wait_lock, nextpid, cpus,
                   locals>>

(* yield(): acquire(&p->lock); p->state = RUNNABLE; sched(); release.      *)
yield(c, p) ==
    /\ At(c, p, "yield")
    /\ plock[p] = Nobody
    /\ plock' = [plock EXCEPT ![p] = c]
    /\ state' = [state EXCEPT ![p] = "RUNNABLE"]
    /\ Goto(p, "yield_sched")
    /\ UNCHANGED <<chan, killed, pid, parent, wait_lock, nextpid, cpus, locals>>

yield_sched(c, p) ==
    /\ At(c, p, "yield_sched")
    /\ Sched(c, p, "yield_back")
    /\ UNCHANGED <<slots, plock, wait_lock, nextpid, proc, locals>>

yield_back(c, p) ==
    /\ At(c, p, "yield_back")
    /\ plock' = [plock EXCEPT ![p] = Nobody]
    /\ Goto(p, yret[p])
    /\ yret' = [yret EXCEPT ![p] = "user"]
    /\ UNCHANGED <<slots, wait_lock, nextpid, cpus, idx, np, ret>>

----------------------------------------------------------------------------
(* fork()                                                                  *)

(* allocproc() takes slot q for p's child; when a page is missing, there   *)
(* or in uvmcopy, freeproc undoes it and fork returns -1.  Note that       *)
(* killed[q] keeps the value it had in the unused slot.                    *)
allocproc(p, q) ==
    /\ nextpid' = nextpid + 1
    /\ \/ /\ state' = [state EXCEPT ![q] = "USED"]
          /\ pid' = [pid EXCEPT ![q] = nextpid]
          /\ np' = [np EXCEPT ![p] = q]
          /\ Goto(p, "fork_parent")
          /\ UNCHANGED killed
       \/ /\ killed' = [killed EXCEPT ![q] = FALSE]
          /\ Goto(p, "sysret")
          /\ UNCHANGED <<state, pid, np>>

(* One slot of the scan.  Up to release(&np->lock) all is done under the   *)
(* lock of the slot, so it is one step.                                    *)
fork_scan(c, p) ==
    /\ At(c, p, "fork_scan")
    /\ \/ /\ idx[p] > NPROC
          /\ Goto(p, "sysret")
          /\ UNCHANGED <<state, pid, killed, nextpid, idx, np>>
       \/ /\ idx[p] <= NPROC
          /\ plock[idx[p]] = Nobody
          /\ state[idx[p]] # "UNUSED"
          /\ idx' = [idx EXCEPT ![p] = @ + 1]
          /\ UNCHANGED <<state, pid, killed, nextpid, pc, np>>
       \/ /\ idx[p] <= NPROC
          /\ plock[idx[p]] = Nobody
          /\ state[idx[p]] = "UNUSED"
          /\ allocproc(p, idx[p])
          /\ UNCHANGED idx
    /\ UNCHANGED <<chan, parent, plock, wait_lock, cpus, ret, yret>>

fork_parent(c, p) ==
    /\ At(c, p, "fork_parent")
    /\ wait_lock = Nobody
    /\ parent' = [parent EXCEPT ![np[p]] = p]
    /\ Goto(p, "fork_run")
    /\ UNCHANGED <<state, chan, killed, pid, plock, wait_lock, nextpid, cpus, locals>>

(* The child's context starts at forkret (set by allocproc).               *)
fork_run(c, p) ==
    /\ At(c, p, "fork_run")
    /\ plock[np[p]] = Nobody
    /\ state' = [state EXCEPT ![np[p]] = "RUNNABLE"]
    /\ pc' = [pc EXCEPT ![p] = "sysret", ![np[p]] = "forkret"]
    /\ UNCHANGED <<chan, killed, pid, parent, plock, wait_lock, nextpid, cpus, locals>>

----------------------------------------------------------------------------
(* wakeup(chan), with chan in np: one slot of the scan, p->lock held.      *)

CallWakeup(p, ch, back) ==
    /\ np' = [np EXCEPT ![p] = ch]
    /\ ret' = [ret EXCEPT ![p] = back]
    /\ Goto(p, "wakeup")

wakeup(c, p) ==
    /\ At(c, p, "wakeup")
    /\ \/ /\ idx[p] > NPROC
          /\ idx' = [idx EXCEPT ![p] = 1]
          /\ Goto(p, ret[p])
          /\ UNCHANGED state
       \/ /\ idx[p] = p
          /\ idx' = [idx EXCEPT ![p] = @ + 1]
          /\ UNCHANGED <<state, pc>>
       \/ /\ idx[p] <= NPROC
          /\ idx[p] # p
          /\ plock[idx[p]] = Nobody
          /\ state' = [state EXCEPT ![idx[p]] =
                         IF @ = "SLEEPING" /\ chan[idx[p]] = np[p]
                         THEN "RUNNABLE" ELSE @]
          /\ idx' = [idx EXCEPT ![p] = @ + 1]
          /\ UNCHANGED pc
    /\ UNCHANGED <<chan, killed, pid, parent, plock, wait_lock, nextpid, cpus,
                   np, ret, yret>>

----------------------------------------------------------------------------
(* exit().  For init it panics: the CPU stays where it is.                 *)

exit(c, p) ==
    /\ At(c, p, "exit")
    /\ p # initproc
    /\ wait_lock = Nobody
    /\ wait_lock' = c
    /\ Goto(p, "reparent")
    /\ UNCHANGED <<slots, plock, nextpid, cpus, locals>>

(* Mutant: the loop over the table stops one slot short.                   *)
Children_OffByOne(p) == {q \in 1 .. NPROC - 1 : parent[q] = p}

(* The loops of reparent() and wait() over pp->parent == p.                *)
Children(p) == {q \in Procs : parent[q] = p}

(* Mutant: exit() does not wake the parent.                                *)
reparent_ParentNotWoken(c, p) ==
    /\ At(c, p, "reparent")
    /\ parent' = [q \in Procs |-> IF parent[q] = p THEN initproc ELSE parent[q]]
    /\ Goto(p, "exit_zombie")
    /\ UNCHANGED <<state, chan, killed, pid, plock, wait_lock, nextpid, cpus,
                   locals>>

(* reparent(): each child goes to init, and each time init is woken.  Then *)
(* wakeup(p->parent).                                                      *)
reparent(c, p) ==
    /\ At(c, p, "reparent")
    /\ \/ /\ Children(p) = {}
          /\ CallWakeup(p, parent[p], "exit_zombie")
          /\ UNCHANGED parent
       \/ \E q \in Children(p) :
            /\ \A r \in Children(p) : q <= r
            /\ parent' = [parent EXCEPT ![q] = initproc]
            /\ CallWakeup(p, initproc, "reparent")
    /\ UNCHANGED <<state, chan, killed, pid, plock, wait_lock, nextpid, cpus,
                   idx, yret>>

(* Mutant: exit() switches away with wait_lock held.                       *)
exit_zombie_KeepsWaitLock(c, p) ==
    /\ At(c, p, "exit_zombie")
    /\ plock[p] = Nobody
    /\ plock' = [plock EXCEPT ![p] = c]
    /\ state' = [state EXCEPT ![p] = "ZOMBIE"]
    /\ Goto(p, "exit_sched")
    /\ UNCHANGED <<chan, killed, pid, parent, wait_lock, nextpid, cpus, locals>>

exit_zombie(c, p) ==
    /\ At(c, p, "exit_zombie")
    /\ plock[p] = Nobody
    /\ plock' = [plock EXCEPT ![p] = c]
    /\ state' = [state EXCEPT ![p] = "ZOMBIE"]
    /\ wait_lock' = Nobody
    /\ Goto(p, "exit_sched")
    /\ UNCHANGED <<chan, killed, pid, parent, nextpid, cpus, locals>>

exit_sched(c, p) ==
    /\ At(c, p, "exit_sched")
    /\ Sched(c, p, "exit_sched")
    /\ UNCHANGED <<slots, plock, wait_lock, nextpid, proc, locals>>

----------------------------------------------------------------------------
(* wait() and sleep()                                                      *)

wait(c, p) ==
    /\ At(c, p, "wait")
    /\ wait_lock = Nobody
    /\ wait_lock' = c
    /\ Goto(p, "wait_scan")
    /\ UNCHANGED <<slots, plock, nextpid, cpus, locals>>

(* The slot is cleared; its kernel stack will be used afresh.              *)
freeproc(p, q) ==
    /\ state' = [state EXCEPT ![q] = "UNUSED"]
    /\ chan' = [chan EXCEPT ![q] = Nobody]
    /\ killed' = [killed EXCEPT ![q] = FALSE]
    /\ pid' = [pid EXCEPT ![q] = 0]
    /\ parent' = [parent EXCEPT ![q] = Nobody]
    /\ pc' = [pc EXCEPT ![p] = "sysret", ![q] = "forkret"]
    /\ idx' = [idx EXCEPT ![q] = 1]
    /\ np' = [np EXCEPT ![q] = 0]
    /\ ret' = [ret EXCEPT ![q] = "user"]

(* One child of the scan, under its lock; idx is the next slot to look at. *)
(* A zombie is freed, or kept when copyout of its status fails (init asks  *)
(* for no status).  When the scan is over: return, or go to sleep.         *)
wait_scan(c, p) ==
    /\ At(c, p, "wait_scan")
    /\ \/ \E q \in Children(p) :
            /\ q >= idx[p]
            /\ \A r \in Children(p) : r >= idx[p] => q <= r
            /\ plock[q] = Nobody
            /\ \/ /\ state[q] = "ZOMBIE"
                  /\ wait_lock' = Nobody
                  /\ \/ freeproc(p, q)
                     \/ /\ p # initproc
                        /\ Goto(p, "sysret")
                        /\ UNCHANGED <<slots, idx, np, ret>>
               \/ /\ state[q] # "ZOMBIE"
                  /\ idx' = [idx EXCEPT ![p] = q + 1]
                  /\ UNCHANGED <<slots, wait_lock, pc, np, ret>>
       \/ /\ \A q \in Children(p) : q < idx[p]
          /\ \/ /\ Children(p) = {} \/ killed[p]
                /\ wait_lock' = Nobody
                /\ Goto(p, "sysret")
             \/ /\ Children(p) # {} /\ ~killed[p]
                /\ Goto(p, "sleep")
                /\ UNCHANGED wait_lock
          /\ UNCHANGED <<slots, idx, np, ret>>
    /\ UNCHANGED <<plock, nextpid, cpus, yret>>

(* sleep(p, &wait_lock): acquire(&p->lock); release(lk)                    *)
sleep(c, p) ==
    /\ At(c, p, "sleep")
    /\ plock[p] = Nobody
    /\ plock' = [plock EXCEPT ![p] = c]
    /\ wait_lock' = Nobody
    /\ Goto(p, "sleep_sched")
    /\ UNCHANGED <<slots, nextpid, cpus, locals>>

sleep_sched(c, p) ==
    /\ At(c, p, "sleep_sched")
    /\ chan' = [chan EXCEPT ![p] = p]
    /\ state' = [state EXCEPT ![p] = "SLEEPING"]
    /\ Sched(c, p, "sleep_woken")
    /\ UNCHANGED <<killed, pid, parent, plock, wait_lock, nextpid, proc, locals>>

sleep_woken(c, p) ==
    /\ At(c, p, "sleep_woken")
    /\ chan' = [chan EXCEPT ![p] = Nobody]
    /\ plock' = [plock EXCEPT ![p] = Nobody]
    /\ Goto(p, "sleep_relock")
    /\ UNCHANGED <<state, killed, pid, parent, wait_lock, nextpid, cpus, locals>>

(* acquire(lk), and wait() scans the table again.                          *)
sleep_relock(c, p) ==
    /\ At(c, p, "sleep_relock")
    /\ wait_lock = Nobody
    /\ wait_lock' = c
    /\ idx' = [idx EXCEPT ![p] = 1]
    /\ Goto(p, "wait_scan")
    /\ UNCHANGED <<slots, plock, nextpid, cpus, np, ret, yret>>

----------------------------------------------------------------------------
(* kill(np): one slot of the scan, p->lock held.                           *)

kill(c, p) ==
    /\ At(c, p, "kill")
    /\ \/ /\ idx[p] > NPROC
          /\ Goto(p, "sysret")
          /\ UNCHANGED <<state, killed, idx>>
       \/ /\ idx[p] <= NPROC
          /\ plock[idx[p]] = Nobody
          /\ \/ /\ pid[idx[p]] = np[p]
                /\ killed' = [killed EXCEPT ![idx[p]] = TRUE]
                /\ state' = [state EXCEPT ![idx[p]] =
                               IF @ = "SLEEPING" THEN "RUNNABLE" ELSE @]
                /\ Goto(p, "sysret")
                /\ UNCHANGED idx
             \/ /\ pid[idx[p]] # np[p]
                /\ idx' = [idx EXCEPT ![p] = @ + 1]
                /\ UNCHANGED <<state, killed, pc>>
    /\ UNCHANGED <<chan, pid, parent, plock, wait_lock, nextpid, cpus, np, ret,
                   yret>>

----------------------------------------------------------------------------
YieldStep(c, p) == yield(c, p) \/ yield_sched(c, p) \/ yield_back(c, p)

KernelStep(c, p) ==
    \/ forkret(c, p) \/ sysret(c, p)
    \/ fork_scan(c, p) \/ fork_parent(c, p) \/ fork_run(c, p)
    \/ wakeup(c, p)
    \/ exit(c, p) \/ reparent(c, p) \/ exit_zombie(c, p) \/ exit_sched(c, p)
    \/ wait(c, p) \/ wait_scan(c, p)
    \/ sleep(c, p) \/ sleep_sched(c, p) \/ sleep_woken(c, p) \/ sleep_relock(c, p)
    \/ kill(c, p)

Next ==
    \E c \in Cpus :
      \/ scheduler_release(c)
      \/ \E p \in Procs : \/ schedule(c, p)
                          \/ syscall(c, p)
                          \/ timer(c, p)
                          \/ YieldStep(c, p)
                          \/ KernelStep(c, p)

Spec == Init /\ [][Next]_vars

(* A CPU keeps executing, and a thread gets ahead between two timer        *)
(* interrupts; a lock that is free again and again is won in the end; the  *)
(* scheduler's scan reaches every RUNNABLE process; timer interrupts come  *)
(* again and again; init calls wait() in a loop (user/init.c).             *)
Fairness ==
    /\ \A c \in Cpus : WF_vars(scheduler_release(c))
    /\ \A p \in Procs :
         /\ SF_vars(\E c \in Cpus : schedule(c, p))
         /\ SF_vars(\E c \in Cpus : KernelStep(c, p))
         /\ SF_vars(\E c \in Cpus : YieldStep(c, p))
         /\ SF_vars(\E c \in Cpus : timer(c, p))
    /\ SF_vars(\E c \in Cpus : syscall(c, initproc) /\ pc'[initproc] = "wait")

FairSpec == Spec /\ Fairness

----------------------------------------------------------------------------
(* Properties.                                                             *)

(* Types of the process table, the locks and the CPUs.  A thread is only   *)
(* interrupted where it holds no spinlock (yret).                          *)
TypeOK ==
    /\ state \in [Procs -> States]
    /\ chan \in [Procs -> Procs \cup {Nobody}]
    /\ killed \in [Procs -> BOOLEAN]
    /\ pid \in [Procs -> Nat]
    /\ parent \in [Procs -> Procs \cup {Nobody}]
    /\ plock \in [Procs -> Cpus \cup {Nobody}]
    /\ wait_lock \in Cpus \cup {Nobody}
    /\ nextpid \in Nat
    /\ proc \in [Cpus -> Procs \cup {Nobody}]
    /\ onproc \in [Cpus -> BOOLEAN]
    /\ pc \in [Procs -> Labels]
    /\ idx \in [Procs -> 1 .. NPROC + 1]
    /\ np \in [Procs -> Nat]
    /\ ret \in [Procs -> Labels]
    /\ yret \in [Procs -> Preemptible]

(* No two CPUs ever run on one kernel stack, and while p->lock is free     *)
(* p->state says truly whether a CPU runs p: the lock handed from sched()  *)
(* to the scheduler covers the whole switch.                               *)
OneCpuPerProcess ==
    /\ \A c, d \in Cpus : proc[c] = proc[d] /\ proc[c] # Nobody => c = d
    /\ \A p \in Procs : plock[p] = Nobody =>
         /\ (state[p] = "RUNNING") = (\E c \in Cpus : Runs(c, p))
         /\ \A c \in Cpus : proc[c] = p => onproc[c]

(* A slot is free, or about to be freed by wait(), only when no CPU is     *)
(* still on the exited process's stack ("make sure the child isn't still   *)
(* in exit() or swtch()").                                                 *)
FreedOffCpu ==
    \A p \in Procs : state[p] \in {"UNUSED", "USED"} =>
      \A c \in Cpus : proc[c] # p

(* The locks a CPU holds.                                                  *)
Held(c) == {p \in Procs : plock[p] = c}

(* sched() never panics: p->lock is held, no other spinlock is, and the    *)
(* state has left RUNNING (or is about to, in the same critical section).  *)
SchedPreconditions ==
    \A c \in Cpus, p \in Procs :
      /\ Runs(c, p) /\ pc[p] \in {"yield_sched", "exit_sched", "sleep_sched"} =>
           Held(c) = {p} /\ wait_lock # c
      /\ Runs(c, p) /\ pc[p] \in {"yield_sched", "exit_sched"} =>
           state[p] # "RUNNING"

(* acquire() never panics: a CPU about to spin on a lock does not hold it, *)
(* and holds no p->lock at all when it starts a table scan ("Must be       *)
(* called without any p->lock").                                           *)
NoSelfDeadlock ==
    \A c \in Cpus, p \in Procs : Runs(c, p) =>
      /\ pc[p] \in {"wakeup", "kill", "fork_scan", "wait_scan", "fork_run",
                    "sleep", "exit_zombie", "yield"} => Held(c) = {}
      /\ pc[p] \in {"exit", "wait", "fork_parent", "sleep_relock"} =>
           wait_lock # c

(* While nobody holds wait_lock: every process but init has a living       *)
(* parent to reap it (a fork in progress aside), so no zombie stays for    *)
(* ever because of an exit() of its parent at a bad moment.                *)
ParentAlive ==
    wait_lock = Nobody =>
      \A p \in Procs :
        /\ state[p] \notin {"UNUSED", "USED"} /\ p # initproc => parent[p] # Nobody
        /\ parent[p] # Nobody => state[parent[p]] \notin {"UNUSED", "USED", "ZOMBIE"}

(* No lost wakeup between exit() and wait(): nobody sleeps in wait() with  *)
(* an exited child, also when the child was just handed over by reparent.  *)
NoLostExit ==
    wait_lock = Nobody =>
      \A p, q \in Procs :
        state[p] = "SLEEPING" /\ parent[q] = p => state[q] # "ZOMBIE"

(* p->killed becomes set for a living process only when kill() was called  *)
(* with its pid; a process does not inherit the mark from a slot's past.   *)
KilledOnlyByPid ==
    \A p \in Procs : killed[p] /\ state[p] # "UNUSED" => pid[p] \in KillPids

(* Every spinlock taken is released: no cyclic waiting between p->lock and *)
(* wait_lock on several CPUs.                                              *)
LocksReleased ==
    /\ \A p \in Procs : plock[p] # Nobody ~> plock[p] = Nobody
    /\ wait_lock # Nobody ~> wait_lock = Nobody

(* A zombie that is init's, by birth or by reparent, is reaped in the end  *)
(* and its slot can be used again.                                         *)
ZombiesReaped ==
    \A p \in Procs :
      (state[p] = "ZOMBIE" /\ parent[p] = initproc) ~> state[p] = "UNUSED"

----------------------------------------------------------------------------
(* The inductive invariant behind them.                                    *)

(* Labels at which a thread has its p->lock, and wait_lock.                *)
HasLock == {"forkret", "yield_sched", "yield_back", "exit_sched", "sleep_sched",
            "sleep_woken"}
HasWaitLock == {"reparent", "wakeup", "exit_zombie", "wait_scan", "sleep"}

OnCpu(p) == \E c \in Cpus : Runs(c, p)

(* A p->lock that stays held over a step is held by the CPU of that very   *)
(* process, from sched() on by its scheduler.                              *)
CpuInv ==
    /\ \A c, d \in Cpus : proc[c] = proc[d] /\ proc[c] # Nobody => c = d
    /\ \A c \in Cpus : proc[c] = Nobody => ~onproc[c]
    /\ \A p \in Procs : plock[p] # Nobody => proc[plock[p]] = p
    /\ \A c \in Cpus : proc[c] # Nobody =>
         IF onproc[c] THEN (plock[proc[c]] = c) = (pc[proc[c]] \in HasLock)
                      ELSE plock[proc[c]] = c

(* p->state says where the thread is, and a thread that is on no CPU has   *)
(* left it in sched() or has not started.                                  *)
StateInv ==
    \A p \in Procs :
      /\ OnCpu(p) => state[p] = IF pc[p] = "yield_sched" THEN "RUNNABLE"
                                ELSE IF pc[p] = "exit_sched" THEN "ZOMBIE" ELSE "RUNNING"
      /\ ~OnCpu(p) =>
           /\ pc[p] \in {"forkret", "yield_back", "sleep_woken", "exit_sched"}
           /\ state[p] # "RUNNING" /\ (state[p] = "ZOMBIE") = (pc[p] = "exit_sched")
           /\ state[p] = "SLEEPING" => pc[p] = "sleep_woken"
           /\ state[p] \in {"UNUSED", "USED"} => pc[p] = "forkret"
      /\ state[p] \in {"UNUSED", "USED"} => \A c \in Cpus : proc[c] # p

WaitLockInv ==
    /\ \A c \in Cpus, p \in Procs : Runs(c, p) /\ pc[p] \in HasWaitLock => wait_lock = c
    /\ wait_lock # Nobody => \E p \in Procs : Runs(wait_lock, p) /\ pc[p] \in HasWaitLock

(* What a thread does, beneath a yield.                                    *)
Doing(p) == IF pc[p] \in {"yield", "yield_sched", "yield_back"} THEN yret[p] ELSE pc[p]
Forks(p) == Doing(p) \in {"fork_parent", "fork_run"}

(* Between the critical sections of fork() the child's slot is the forking *)
(* process's alone.                                                        *)
ForkInv ==
    \A p \in Procs : Forks(p) =>
      /\ np[p] \in Procs /\ state[np[p]] = "USED"
      /\ \A q \in Procs : Forks(q) /\ np[q] = np[p] => q = p
      /\ Doing(p) = "fork_run" => parent[np[p]] = p

(* exit() has handed over all children, to init or to nobody else.         *)
Gone(p) == \/ state[p] \in {"UNUSED", "USED", "ZOMBIE"}
           \/ pc[p] = "exit_zombie"
           \/ pc[p] = "wakeup" /\ ret[p] = "exit_zombie"

ParentInv ==
    /\ parent[initproc] = Nobody /\ ~Gone(initproc)
    /\ pc[initproc] \notin {"reparent", "wakeup"}
    /\ \A p \in Procs :
         state[p] \notin {"UNUSED", "USED"} /\ p # initproc => parent[p] # Nobody
    /\ \A p, q \in Procs : parent[p] = q => p # q /\ ~Gone(q)

(* A parent that is asleep in wait(), or will be without looking again.    *)
Dozes(p) == pc[p] = "sleep_sched" \/ state[p] = "SLEEPING"

(* A table scan starts at the first slot.                                  *)
ScanInv ==
    \A p \in Procs :
      /\ Doing(p) \in {"user", "exit", "wait", "forkret", "reparent"} => idx[p] = 1
      /\ pc[p] = "wakeup" => \/ ret[p] = "reparent" /\ np[p] = initproc
                             \/ ret[p] = "exit_zombie" /\ np[p] = parent[p]
      /\ state[p] = "SLEEPING" => chan[p] = p

(* wait() goes to sleep when none of its children has exited, and a child  *)
(* exits when its parent does not sleep; reparent, which can make init the *)
(* parent of a zombie while it sleeps, has not yet come to wake it.        *)
WaitInv ==
    \A p, q \in Procs : parent[q] = p =>
      /\ pc[p] = "wait_scan" /\ q < idx[p] => state[q] # "ZOMBIE"
      /\ pc[p] = "sleep" => state[q] # "ZOMBIE"
      /\ Dozes(p) /\ state[q] = "ZOMBIE" =>
           \E r \in Procs : pc[r] = "wakeup" /\ np[r] = p /\ idx[r] <= p
      /\ pc[q] = "exit_zombie" => ~Dozes(p)
      /\ pc[q] = "wakeup" /\ ret[q] = "exit_zombie" /\ idx[q] > p => ~Dozes(p)

(* What the locks of proc.c keep true of the process table and the CPUs,   *)
(* for every interleaving of fork, exit, wait, kill, wakeup and switches.  *)
ProcInv ==
    /\ TypeOK /\ CpuInv /\ StateInv /\ WaitLockInv /\ ForkInv /\ ParentInv
    /\ ScanInv /\ WaitInv
=============================================================================
