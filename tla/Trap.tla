-------------------------------- MODULE Trap --------------------------------
(***************************************************************************)
(* Spin locks and interrupts: kernel/spinlock.c, the traps of              *)
(* kernel/trap.c, sched, yield, sleep and scheduler of kernel/proc.c seen  *)
(* from the CPU's interrupt state, and sys_sleep and sys_uptime, which     *)
(* share tickslock with the clock interrupt.                               *)
(*                                                                         *)
(* A thread is a process or a CPU's scheduler.  It has a stack of frames;  *)
(* an interrupt pushes one on whatever the CPU runs.  A frame says where   *)
(* it is and which lock it spins for.  Other devices' interrupts take and  *)
(* release their own locks in the same way (modules Console, Virtio).      *)
(***************************************************************************)
EXTENDS Integers, Sequences, SequencesExt, FiniteSets

CONSTANTS
    CPUs, Procs, Cpu0,  \* Cpu0: the CPU whose timer advances ticks
    UintMod,            \* 2^32 for ticks
    SleepArgs,          \* arguments of sleep(n), converted to unsigned
    MayDie,             \* processes that somebody kills
    Ticks, None         \* the lock tickslock; no lock or holder

\* What the constants are.
ASSUME TrapAssumption ==
    /\ Cpu0 \in CPUs /\ UintMod \in Nat \ {0} /\ SleepArgs \subseteq 0 .. UintMod - 1
    /\ CPUs \cap Procs = {} /\ {Ticks, None} \cap (CPUs \cup Procs) = {}
    /\ MayDie \subseteq Procs

VARIABLES
    cpu,        \* per CPU: thread, mode and trap registers, noff and intena
    stack,      \* per thread: frames
    holder,     \* per lock: the CPU that has it (a process names its p->lock)
    state,      \* p->state
    ticks, ticks0, arg, killed,
    pick,       \* the scheduler's p
    saved,      \* the intena that sched keeps on p's stack
    regs,       \* per thread: the sepc and sstatus that its trap handler keeps
    woken,      \* per CPU: the processes wakeup's loop has passed
    panic       \* the kernel has stopped

vars == <<cpu, stack, holder, state, ticks, ticks0, arg, killed, pick, saved, regs,
          woken, panic>>
clock == <<ticks, ticks0, arg, killed>>
traps == <<regs, woken>>

Threads == Procs \cup CPUs
Locks == Procs \cup {Ticks}
Frame(at) == [at |-> at, lk |-> None]

(* sepc, here the thread whose instruction it points to, and sstatus's SPP *)
(* and SPIE.  After an sret they mean nothing, and the model forgets them. *)
NoRegs == [epc |-> None, spp |-> "user", spie |-> TRUE]

Init ==
    /\ cpu = [c \in CPUs |-> [cur |-> c, mode |-> "kernel", sie |-> FALSE, noff |-> 0,
                              intena |-> FALSE, stvec |-> "kernel", csr |-> NoRegs]]
    /\ stack = [t \in Threads |-> IF t \in CPUs THEN <<Frame("sched_on")>>
                                  ELSE <<Frame("forkret")>>]
    /\ holder = [l \in Locks |-> None]
    /\ state = [p \in Procs |-> "RUNNABLE"]
    /\ ticks = 0 /\ ticks0 = [p \in Procs |-> 0] /\ arg = [p \in Procs |-> 0]
    /\ killed = [p \in Procs |-> FALSE]
    /\ pick = [c \in CPUs |-> None] /\ saved = [p \in Procs |-> FALSE]
    /\ regs = [t \in Threads |-> NoRegs] /\ woken = [c \in CPUs |-> {}]
    /\ panic = FALSE

----------------------------------------------------------------------------
(* The CPU's interrupt state and the locks.                                *)

Top(t) == Last(stack[t])
At(c, at) == ~panic /\ Top(cpu[c].cur).lk = None /\ Top(cpu[c].cur).at = at
Move(t, frame) == stack' = [stack EXCEPT ![t] = Append(Front(@), frame)]
Goto(c, at) == Move(cpu[c].cur, Frame(at))

holding(c, l) == holder[l] = c

push_off(r) == [r EXCEPT !.sie = FALSE, !.noff = @ + 1,
                         !.intena = IF r.noff = 0 THEN r.sie ELSE @]

(* intena means nothing while noff is 0, and the model forgets it.         *)
pop_off(r) == [r EXCEPT !.noff = @ - 1, !.intena = @ /\ r.noff # 1,
                        !.sie = IF r.noff = 1 /\ r.intena THEN TRUE ELSE @]

PopPanics(r) == r.sie \/ r.noff < 1

(* acquire: interrupts off, the holding test, then spin in lk.             *)
acquire(c, l, then) ==
    /\ panic' = holding(c, l)
    /\ cpu' = [cpu EXCEPT ![c] = push_off(@)]
    /\ Move(cpu[c].cur, [at |-> then, lk |-> l])

test_and_set(c) ==
    LET t == cpu[c].cur IN
    /\ ~panic /\ Top(t).lk # None /\ holder[Top(t).lk] = None
    /\ holder' = [holder EXCEPT ![Top(t).lk] = c]
    /\ Move(t, Frame(Top(t).at))
    /\ UNCHANGED <<cpu, state, clock, pick, saved, traps, panic>>

(* release(l) as the only lock operation of a step.                        *)
release(c, l) ==
    /\ panic' = (~holding(c, l) \/ PopPanics(cpu[c]))
    /\ holder' = [holder EXCEPT ![l] = None]
    /\ cpu' = [cpu EXCEPT ![c] = pop_off(@)]

----------------------------------------------------------------------------
(* scheduler() and sched()                                                 *)

sched_on(c) ==
    /\ At(c, "sched_on") /\ cpu[c].cur = c
    /\ cpu' = [cpu EXCEPT ![c].sie = TRUE]
    /\ Goto(c, "sched_pick")
    /\ UNCHANGED <<holder, state, clock, pick, saved, traps, panic>>

(* The loop over proc[]: any process may be next.                          *)
sched_pick(c, p) ==
    /\ At(c, "sched_pick")
    /\ pick' = [pick EXCEPT ![c] = p]
    /\ acquire(c, p, "sched_swtch")
    /\ UNCHANGED <<holder, state, clock, saved, traps>>

sched_swtch(c) ==
    LET p == pick[c] IN
    /\ At(c, "sched_swtch") /\ state[p] = "RUNNABLE"
    /\ state' = [state EXCEPT ![p] = "RUNNING"]
    /\ cpu' = [cpu EXCEPT ![c].cur = p,    \* swtch, then sched puts intena back
                          ![c].intena = IF Top(p).at = "forkret" THEN @ ELSE saved[p]]
    /\ saved' = [saved EXCEPT ![p] = FALSE]
    /\ stack' = [stack EXCEPT ![c] = Append(Front(@), Frame("sched_back"))]
    /\ UNCHANGED <<holder, clock, pick, traps, panic>>

(* On to the next process, or to the next round, which turns interrupts on *)
(* again: the process may have left them off.                              *)
sched_back(c) ==
    /\ At(c, "sched_back") \/ (At(c, "sched_swtch") /\ state[pick[c]] # "RUNNABLE")
    /\ pick' = [pick EXCEPT ![c] = None]
    /\ release(c, pick[c])
    /\ Goto(c, "sched_pick") \/ Goto(c, "sched_on")
    /\ UNCHANGED <<state, clock, saved, traps>>

(* sched() of the process on c, which goes on at then, on any CPU: sepc    *)
(* and sstatus stay behind.                                                *)
sched(c, s, then) ==
    LET r == cpu[c]
        p == r.cur
    IN
    /\ panic' = (~holding(c, p) \/ r.noff # 1 \/ s = "RUNNING" \/ r.sie)
    /\ state' = [state EXCEPT ![p] = s]
    /\ saved' = [saved EXCEPT ![p] = r.intena]
    /\ cpu' = [cpu EXCEPT ![c] = [r EXCEPT !.cur = c, !.csr = NoRegs]]
    /\ stack' = [stack EXCEPT ![p] = Append(Front(@), Frame(then))]

forkret(c) ==
    /\ At(c, "forkret") /\ release(c, cpu[c].cur)
    /\ Goto(c, "usertrapret")
    /\ UNCHANGED <<state, clock, pick, saved, traps>>

----------------------------------------------------------------------------
(* System calls.                                                           *)

(* ecall and usertrap, which keeps sepc in the trapframe: a killed process *)
(* exits, others go on with interrupts on.                                 *)
usertrap(c) ==
    LET p == cpu[c].cur IN
    /\ At(c, "user")
    /\ cpu' = [cpu EXCEPT ![c].mode = "kernel", ![c].stvec = "kernel", ![c].csr = NoRegs,
                          ![c].sie = ~killed[p]]
    /\ Goto(c, IF killed[p] THEN "exit" ELSE "syscall")
    /\ UNCHANGED <<holder, state, clock, pick, saved, traps, panic>>

sys_uptime(c) ==
    /\ At(c, "syscall")
    /\ acquire(c, Ticks, "uptime")
    /\ UNCHANGED <<holder, state, clock, pick, saved, traps>>

sys_sleep(c, n) ==
    /\ At(c, "syscall")
    /\ arg' = [arg EXCEPT ![cpu[c].cur] = n]
    /\ acquire(c, Ticks, "sleep")
    /\ UNCHANGED <<holder, state, ticks, ticks0, killed, pick, saved, traps>>

sleep_start(c) ==
    /\ At(c, "sleep")
    /\ ticks0' = [ticks0 EXCEPT ![cpu[c].cur] = ticks]
    /\ Goto(c, "sleep_test")
    /\ UNCHANGED <<cpu, holder, state, ticks, arg, killed, pick, saved, traps, panic>>

Early(p) == (ticks - ticks0[p]) % UintMod < arg[p]

(* The end of sys_sleep, woken or killed, and of sys_uptime.               *)
sys_return(c) ==
    LET p == cpu[c].cur IN
    /\ At(c, "uptime") \/ (At(c, "sleep_test") /\ (killed[p] \/ ~Early(p)))
    /\ release(c, Ticks)
    /\ arg' = [arg EXCEPT ![p] = 0] /\ ticks0' = [ticks0 EXCEPT ![p] = 0]
    /\ Goto(c, "usertrap_end")
    /\ UNCHANGED <<state, ticks, killed, pick, saved, traps>>

(* sleep(&ticks, &tickslock): p->lock first, then give up tickslock.       *)
sleep_lock(c) ==
    LET p == cpu[c].cur IN
    /\ At(c, "sleep_test") /\ Early(p) /\ ~killed[p]
    /\ acquire(c, p, "sleep_unlock")
    /\ UNCHANGED <<holder, state, clock, pick, saved, traps>>

sleep_unlock(c) ==
    /\ At(c, "sleep_unlock") /\ release(c, Ticks)
    /\ Goto(c, "sleep_sched")
    /\ UNCHANGED <<state, clock, pick, saved, traps>>

sleep_sched(c) ==
    /\ At(c, "sleep_sched")
    /\ sched(c, "SLEEPING", "sleep_back")
    /\ UNCHANGED <<holder, clock, pick, traps>>

sleep_back(c) ==
    /\ At(c, "sleep_back") /\ release(c, cpu[c].cur)
    /\ Goto(c, "sleep_again")
    /\ UNCHANGED <<state, clock, pick, saved, traps>>

sleep_again(c) ==
    /\ At(c, "sleep_again")
    /\ acquire(c, Ticks, "sleep_test")
    /\ UNCHANGED <<holder, state, clock, pick, saved, traps>>

(* The end of usertrap, and the last steps of exit() of a killed process   *)
(* (module Proc has the rest, with wait_lock).                             *)
usertrap_end(c) ==
    /\ At(c, "usertrap_end")
    /\ Goto(c, IF killed[cpu[c].cur] THEN "exit" ELSE "usertrapret")
    /\ UNCHANGED <<cpu, holder, state, clock, pick, saved, traps, panic>>

exit_lock(c) ==
    /\ At(c, "exit")
    /\ acquire(c, cpu[c].cur, "exit_sched")
    /\ UNCHANGED <<holder, state, clock, pick, saved, traps>>

exit_sched(c) ==
    /\ At(c, "exit_sched")
    /\ sched(c, "ZOMBIE", "zombie")
    /\ UNCHANGED <<holder, clock, pick, traps>>

(* sret: to the mode and the interrupt state the registers say.            *)
sret(r) == [r EXCEPT !.mode = r.csr.spp, !.sie = r.csr.spie, !.csr = NoRegs]

(* usertrapret sets up the trap vector and the registers with interrupts   *)
(* off; userret's sret uses them.                                          *)
usertrapret(c) ==
    LET r == [cpu[c] EXCEPT !.stvec = "user",
                            !.csr = [epc |-> cpu[c].cur, spp |-> "user", spie |-> TRUE]]
    IN
    /\ At(c, "usertrapret") \/ At(c, "from_user")
    /\ cpu' = [cpu EXCEPT ![c] = sret(r)]
    /\ Goto(c, "user")
    /\ UNCHANGED <<holder, state, clock, pick, saved, traps, panic>>

----------------------------------------------------------------------------
(* Timer interrupts.                                                       *)

(* devintr: on one CPU, clockintr, which first acquires tickslock.         *)
devintr(c) == IF c = Cpu0 THEN [at |-> "clockintr", lk |-> Ticks] ELSE Frame("preempt")

(* The CPU pushes a frame; usertrap and kerneltrap check where they came   *)
(* from, kerneltrap keeps sepc and sstatus, and devintr begins.  A trap in *)
(* user mode ends in usertrapret.                                          *)
interrupt(c) ==
    LET r == cpu[c]
        user == Top(r.cur).at = "user"
        csr == [epc |-> r.cur, spp |-> r.mode, spie |-> r.sie]
        in == [r EXCEPT !.sie = FALSE, !.mode = "kernel", !.stvec = "kernel", !.csr = csr]
    IN
    /\ ~panic /\ r.sie
    /\ panic' = (r.stvec # r.mode \/ (c = Cpu0 /\ holding(c, Ticks)))
    /\ cpu' = [cpu EXCEPT ![c] = IF c = Cpu0 THEN push_off(in) ELSE in]
    /\ stack' = [stack EXCEPT ![r.cur] =
         Append(IF user THEN Append(Front(@), Frame("from_user")) ELSE @, devintr(c))]
    /\ regs' = IF user THEN regs ELSE [regs EXCEPT ![r.cur] = csr]
    /\ UNCHANGED <<holder, state, clock, pick, saved, woken>>

(* ticks++, then wakeup(&ticks) with tickslock held: ...                   *)
clockintr(c) ==
    /\ At(c, "clockintr")
    /\ ticks' = (ticks + 1) % UintMod
    /\ Goto(c, "wakeup")
    /\ UNCHANGED <<cpu, holder, state, ticks0, arg, killed, pick, saved, traps, panic>>

(* Mutant: a process that does not sleep is passed over without its lock.  *)
wakeup_NoLock(c, p) ==
    /\ At(c, "wakeup") /\ p \notin woken[c] \cup {cpu[c].cur}
    /\ woken' = [woken EXCEPT ![c] = @ \cup {p}]
    /\ IF state[p] = "SLEEPING" THEN acquire(c, p, "wakeup_test")
       ELSE UNCHANGED <<cpu, stack, panic>>
    /\ UNCHANGED <<holder, state, clock, pick, saved, regs>>

(* ... every other process is locked in turn, ...                          *)
wakeup(c, p) ==
    /\ At(c, "wakeup") /\ p \notin woken[c] \cup {cpu[c].cur}
    /\ woken' = [woken EXCEPT ![c] = @ \cup {p}]
    /\ acquire(c, p, "wakeup_test")
    /\ UNCHANGED <<holder, state, clock, pick, saved, regs>>

(* ... made RUNNABLE if it sleeps, and unlocked.                           *)
wakeup_test(c) ==
    LET p == CHOOSE q \in woken[c] : holding(c, q) IN
    /\ At(c, "wakeup_test")
    /\ state' = [state EXCEPT ![p] = IF @ = "SLEEPING" THEN "RUNNABLE" ELSE @]
    /\ release(c, p)
    /\ Goto(c, "wakeup")
    /\ UNCHANGED <<clock, pick, saved, traps>>

clockintr_end(c) ==
    /\ At(c, "wakeup") /\ Procs \subseteq woken[c] \cup {cpu[c].cur}
    /\ woken' = [woken EXCEPT ![c] = {}]
    /\ release(c, Ticks)
    /\ Goto(c, "preempt")
    /\ UNCHANGED <<state, clock, pick, saved, regs>>

FromUser(t) == stack[t][Len(stack[t]) - 1].at = "from_user"

(* After devintr: usertrap ends a killed process; otherwise give up the    *)
(* CPU, unless there is no process, with yield().                          *)
preempt(c) ==
    LET t == cpu[c].cur IN
    /\ At(c, "preempt")
    /\ \/ /\ t \in Procs /\ FromUser(t) /\ killed[t]
          /\ stack' = [stack EXCEPT ![t] = <<Frame("exit")>>]
          /\ UNCHANGED <<cpu, panic>>
       \/ /\ t \in Procs /\ ~(FromUser(t) /\ killed[t]) /\ state[t] = "RUNNING"
          /\ acquire(c, t, "yield_sched")
       \/ /\ t \in Procs => ~(FromUser(t) /\ killed[t]) /\ state[t] # "RUNNING"
          /\ Goto(c, "trap_return") /\ UNCHANGED <<cpu, panic>>
    /\ UNCHANGED <<holder, state, clock, pick, saved, traps>>

yield_sched(c) ==
    /\ At(c, "yield_sched")
    /\ sched(c, "RUNNABLE", "yield_back")
    /\ UNCHANGED <<holder, clock, pick, traps>>

yield_back(c) ==
    /\ At(c, "yield_back") /\ release(c, cpu[c].cur)
    /\ Goto(c, "trap_return")
    /\ UNCHANGED <<state, clock, pick, saved, traps>>

(* Mutant: kerneltrap trusts sepc and sstatus to be as they were.          *)
trap_return_NoRestore(c) ==
    LET t == cpu[c].cur
        r == cpu[c]
    IN
    /\ At(c, "trap_return")
    /\ cpu' = [cpu EXCEPT ![c] = IF FromUser(t) THEN @ ELSE sret(r)]
    /\ stack' = [stack EXCEPT ![t] = IF FromUser(t) \/ r.csr.epc = t THEN Front(@)
                                     ELSE <<Frame("astray")>>]
    /\ regs' = [regs EXCEPT ![t] = NoRegs]
    /\ UNCHANGED <<holder, state, clock, pick, saved, woken, panic>>

(* usertrap goes on to usertrapret; kerneltrap puts sepc and sstatus back, *)
(* which traps during yield have changed, and kernelvec's sret uses them.  *)
trap_return(c) ==
    LET t == cpu[c].cur
        r == [cpu[c] EXCEPT !.csr = regs[t]]
    IN
    /\ At(c, "trap_return")
    /\ cpu' = [cpu EXCEPT ![c] = IF FromUser(t) THEN @ ELSE sret(r)]
    /\ stack' = [stack EXCEPT ![t] = IF FromUser(t) \/ r.csr.epc = t THEN Front(@)
                                     ELSE <<Frame("astray")>>]
    /\ regs' = [regs EXCEPT ![t] = NoRegs]
    /\ UNCHANGED <<holder, state, clock, pick, saved, woken, panic>>

kill(p) ==
    /\ ~panic /\ p \in MayDie /\ ~killed[p] /\ holder[p] = None
    /\ killed' = [killed EXCEPT ![p] = TRUE]
    /\ state' = [state EXCEPT ![p] = IF @ = "SLEEPING" THEN "RUNNABLE" ELSE @]
    /\ UNCHANGED <<cpu, stack, holder, ticks, ticks0, arg, pick, saved, traps, panic>>

Next ==
    \/ \E c \in CPUs :
         \/ test_and_set(c)
         \/ sched_on(c) \/ (\E p \in Procs : sched_pick(c, p)) \/ sched_swtch(c)
         \/ sched_back(c) \/ forkret(c)
         \/ usertrap(c) \/ sys_uptime(c) \/ (\E n \in SleepArgs : sys_sleep(c, n))
         \/ sleep_start(c) \/ sys_return(c) \/ sleep_lock(c) \/ sleep_unlock(c)
         \/ sleep_sched(c) \/ sleep_back(c) \/ sleep_again(c)
         \/ usertrap_end(c) \/ exit_lock(c) \/ exit_sched(c)
         \/ usertrapret(c) \/ interrupt(c) \/ preempt(c)
         \/ clockintr(c) \/ (\E p \in Procs : wakeup(c, p)) \/ wakeup_test(c)
         \/ clockintr_end(c)
         \/ yield_sched(c) \/ yield_back(c) \/ trap_return(c)
    \/ \E p \in Procs : kill(p)

Spec == Init /\ [][Next]_vars

----------------------------------------------------------------------------
(* Properties.                                                             *)

Regs == [epc : Threads \cup {None}, spp : {"user", "kernel"}, spie : BOOLEAN]

TypeOK ==
    /\ cpu \in [CPUs -> [cur : Threads, mode : {"user", "kernel"}, sie : BOOLEAN,
                         noff : 0 .. 2, intena : BOOLEAN, stvec : {"user", "kernel"},
                         csr : Regs]]
    /\ \A t \in Threads : Len(stack[t]) \in 1 .. 2
    /\ holder \in [Locks -> CPUs \cup {None}]
    /\ state \in [Procs -> {"RUNNABLE", "RUNNING", "SLEEPING", "ZOMBIE"}]
    /\ ticks \in 0 .. UintMod - 1 /\ ticks0 \in [Procs -> 0 .. UintMod - 1]
    /\ arg \in [Procs -> SleepArgs \cup {0}] /\ killed \in [Procs -> BOOLEAN]
    /\ pick \in [CPUs -> Procs \cup {None}] /\ saved \in [Procs -> BOOLEAN]
    /\ regs \in [Threads -> Regs] /\ woken \in [CPUs -> SUBSET Procs]
    /\ panic \in BOOLEAN

(* The panics of acquire, release, pop_off, sched, usertrap and kerneltrap *)
(* are never reached: no handler meets a lock its own CPU holds, nobody    *)
(* gives up the CPU with another lock or with interrupts on, and no trap   *)
(* goes to the wrong vector.                                               *)
NoPanic == ~panic

(* noff counts exactly the locks a CPU holds or spins for, also after a    *)
(* process that went to sleep on one CPU has gone on on another.           *)
NestingExact ==
    \A c \in CPUs :
      cpu[c].noff = Cardinality({l \in Locks : holder[l] = c})
                    + (IF Top(cpu[c].cur).lk = None THEN 0 ELSE 1)

(* intena belongs to the kernel thread: a system call that holds no lock   *)
(* runs with interrupts on and a handler with interrupts off, whatever     *)
(* CPU they have come back to after yield or sleep.                        *)
InterruptsRestored ==
    \A c \in CPUs :
      LET f == Top(cpu[c].cur) IN
      /\ f.lk = None /\ f.at \in {"user", "syscall", "sleep_again", "usertrap_end"} => cpu[c].sie
      /\ f.at \in {"clockintr", "wakeup", "preempt", "trap_return"} => ~cpu[c].sie

(* sret returns to the instruction and the mode that were interrupted,     *)
(* although traps that other processes took during yield have overwritten  *)
(* sepc and sstatus, or the process has come back on another CPU.          *)
ModeMatches ==
    \A c \in CPUs :
      LET f == Top(cpu[c].cur) IN
      /\ f.at # "astray"
      /\ cpu[c].mode = IF f.at = "user" THEN "user" ELSE "kernel"

(* The clock interrupt has still to look at p.                             *)
StillToWake(p) ==
    \E c \in CPUs :
      LET f == Top(cpu[c].cur) IN
      /\ f.at \in {"wakeup", "wakeup_test"}
      /\ p \notin woken[c] \/ f.lk = p \/ (f.at = "wakeup_test" /\ holding(c, p))

(* A process sleeps in sys_sleep only while its time has not come or the   *)
(* clock interrupt has still to look at it: no tick is missed between the  *)
(* test and sleep(), or between sleep's release of tickslock and SLEEPING, *)
(* and unsigned ticks may wrap.                                            *)
NoLostTick == \A p \in Procs : state[p] = "SLEEPING" => Early(p) \/ StillToWake(p)

(* What locks, traps and context switches keep true of the CPUs together.  *)
TrapInv == TypeOK /\ NoPanic /\ NestingExact /\ InterruptsRestored /\ ModeMatches
=============================================================================
