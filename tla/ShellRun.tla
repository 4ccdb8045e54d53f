------------------------------- MODULE ShellRun -------------------------------
(***************************************************************************)
(* init, the shell and the processes it starts: user/init.c, main and      *)
(* runcmd of user/sh.c, with the lines they are given parsed by Shell, and *)
(* the two programs the lines run, "e" (user/echo.c) and "c" (user/cat.c). *)
(* The system calls are those of the kernel: fork takes the first free     *)
(* slot and copies the descriptors, open, dup and pipe take the lowest     *)
(* free descriptors, exit gives the children to init, wait frees a zombie  *)
(* child, a pipe holds at most CAP bytes and ends when no process holds    *)
(* its other side.                                                         *)
(***************************************************************************)
EXTENDS Shell

CONSTANTS NPROC,      \* process slots; slot 1 is init
          NPIPE,      \* pipes the kernel has memory for
          NOFILE,     \* descriptors of a process
          CAP,        \* bytes a pipe holds
          Bytes,      \* bytes an echo writes
          Commands,   \* what parsecmd makes of the lines that may be typed
          MaxLines    \* bound on the lines and ends of file typed

VARIABLES task,     \* the process table
          pipebuf,  \* pipebuf[k]: bytes in pipe k
          typed,    \* lines and ends of file typed so far
          forkfail  \* has a fork or a pipe call failed?

shvars == <<task, pipebuf, typed, forkfail>>

Slots == 1..NPROC
Fds   == 0..NOFILE - 1
None  == <<"none", 0>>
Console == <<"console", 0>>
File  == <<"file", 0>>
R(k)  == <<"r", k>>
W(k)  == <<"w", k>>
NoCmd == EXEC(<<>>)

\* fds: the descriptor table; p: the two descriptors of the last pipe(); n: bytes
\* still to write; want, bg: what a reader of the line expects of this process:
\* its input and output, and whether it runs in the background.
Free == [pc |-> "free", parent |-> 0, cmd |-> NoCmd, fds |-> [i \in Fds |-> None],
         p |-> <<0, 0>>, n |-> 0, want |-> <<Console, Console>>, bg |-> FALSE]

ShInit == /\ task = [q \in Slots |-> IF q = 1 THEN [Free EXCEPT !.pc = "boot"] ELSE Free]
          /\ pipebuf = [k \in 1..NPIPE |-> 0]
          /\ typed = 0
          /\ forkfail = FALSE

\* A machine that does not run.
ShOff == /\ task = [q \in Slots |-> IF q = 1 THEN [Free EXCEPT !.pc = "zombie"] ELSE Free]
         /\ pipebuf = [k \in 1..NPIPE |-> 0]
         /\ typed = 0
         /\ forkfail = FALSE

-----------------------------------------------------------------------------
\* System calls, as the kernel's fork, exit, wait, open, dup, close and pipe.
FreeSlots == {q \in Slots : task[q].pc = "free"}

Held(x) == \E q \in Slots, i \in Fds : task[q].fds[i] = x

fdalloc(f, x) == [f EXCEPT ![Min({i \in Fds : f[i] = None})] = x]

close(f, i) == [f EXCEPT ![i] = None]

dup(f, i) == fdalloc(f, f[i])

\* Mutant: the children keep their dead parent.
Exited_Orphans(q) ==
    [task EXCEPT ![q] = [Free EXCEPT !.pc = "zombie", !.parent = task[q].parent, !.bg = task[q].bg]]

\* exit: everything is closed, the children go to init.
Exited(q) == [r \in Slots |->
                IF r = q THEN [Free EXCEPT !.pc = "zombie", !.parent = task[q].parent, !.bg = task[q].bg]
                ELSE IF task[r].parent = q THEN [task[r] EXCEPT !.parent = 1] ELSE task[r]]

exit(q) == task' = Exited(q) /\ UNCHANGED <<pipebuf, typed, forkfail>>

\* fork: q goes on as self, the child as kid; fork1's panic when there is no slot.
fork1(q, self, kid) ==
    IF FreeSlots = {} THEN task' = Exited(q) /\ forkfail' = TRUE
    ELSE /\ task' = [task EXCEPT ![q] = self, ![Min(FreeSlots)] = [kid EXCEPT !.parent = q]]
         /\ UNCHANGED forkfail

\* wait(0): a zombie child is freed, or there is no child.
wait(q, then) ==
    LET kids == {r \in Slots : task[r].parent = q /\ task[r].pc # "free"}
    IN  \/ \E r \in kids : /\ task[r].pc = "zombie"
                           /\ task' = [task EXCEPT ![r] = Free, ![q] = then]
        \/ kids = {} /\ task' = [task EXCEPT ![q] = then]

-----------------------------------------------------------------------------
\* init: opens the console, starts a shell, waits for it and starts it again.
init_open ==
    /\ task[1].pc = "boot"
    /\ task' = [task EXCEPT ![1].pc = "fork",
                            ![1].fds = dup(dup(fdalloc(@, Console), 0), 0)]
    /\ UNCHANGED <<pipebuf, typed, forkfail>>

\* The child is the shell, whose main finds three descriptors open and closes the
\* fourth it opens to see that; that exec finds no "sh" is left out.
init_fork ==
    /\ task[1].pc = "fork"
    /\ fork1(1, [task[1] EXCEPT !.pc = "wait", !.n = Min(FreeSlots)],
                [task[1] EXCEPT !.pc = "prompt"])
    /\ UNCHANGED <<pipebuf, typed>>

\* An adopted process is reaped and init goes on waiting.
init_wait ==
    /\ task[1].pc = "wait"
    /\ \E r \in Slots :
         /\ task[r].pc = "zombie" /\ task[r].parent = 1
         /\ task' = [task EXCEPT ![r] = Free, ![1].pc = IF r = task[1].n THEN "fork" ELSE "wait"]
    /\ UNCHANGED <<pipebuf, typed, forkfail>>

\* main: a line is read, and a child parses and runs it.
main_getcmd(q) ==
    /\ task[q].pc = "prompt"
    /\ typed < MaxLines
    /\ \E c \in Commands :
         fork1(q, [task[q] EXCEPT !.pc = "wait0"],
                  [task[q] EXCEPT !.pc = IF IsError(c) THEN "exit" ELSE "run",
                                  !.cmd = IF IsError(c) THEN NoCmd ELSE c])
    /\ typed' = typed + 1
    /\ UNCHANGED pipebuf

\* cd is run by the shell itself; the working directory is no part of this model.
main_cd(q) == /\ task[q].pc = "prompt"
              /\ typed < MaxLines
              /\ typed' = typed + 1
              /\ UNCHANGED <<task, pipebuf, forkfail>>

main_eof(q) == /\ task[q].pc = "prompt"
               /\ typed < MaxLines
               /\ task' = Exited(q)
               /\ typed' = typed + 1
               /\ UNCHANGED <<pipebuf, forkfail>>

main_wait(q) == /\ task[q].pc = "wait0"
                /\ wait(q, [task[q] EXCEPT !.pc = "prompt"])
                /\ UNCHANGED <<pipebuf, typed, forkfail>>

-----------------------------------------------------------------------------
\* runcmd, one action for each type of command.
Alive(q, type) == task[q].pc = "run" /\ task[q].cmd.type = type

run_exec(q) ==
    /\ Alive(q, "EXEC")
    /\ LET argv == task[q].cmd.argv
       IN  \/ exit(q)                             \* no argument, or exec failed
           \/ /\ argv # <<>> /\ argv[1] \in {<<"e">>, <<"c">>}
              /\ task' = [task EXCEPT ![q].cmd = NoCmd, ![q].n = Bytes,
                                      ![q].pc = IF argv[1] = <<"e">> THEN "echo" ELSE "cat"]
              /\ UNCHANGED <<pipebuf, typed, forkfail>>

run_redir(q) ==
    /\ Alive(q, "REDIR")
    /\ \/ exit(q)                                 \* open failed
       \/ LET fd == IF task[q].cmd.tok = "<" THEN 0 ELSE 1
          IN  /\ task' = [task EXCEPT ![q].cmd = @.cmd, ![q].want[fd + 1] = File,
                                      ![q].fds = fdalloc(close(@, fd), File)]
              /\ UNCHANGED <<pipebuf, typed, forkfail>>

run_list(q) ==
    /\ Alive(q, "LIST")
    /\ fork1(q, [task[q] EXCEPT !.pc = "listwait"], [task[q] EXCEPT !.cmd = @.left])
    /\ UNCHANGED <<pipebuf, typed>>

list_wait(q) == /\ task[q].pc = "listwait"
                /\ wait(q, [task[q] EXCEPT !.pc = "run", !.cmd = @.right])
                /\ UNCHANGED <<pipebuf, typed, forkfail>>

run_back(q) ==
    /\ Alive(q, "BACK")
    /\ fork1(q, [task[q] EXCEPT !.pc = "exit"], [task[q] EXCEPT !.cmd = @.cmd, !.bg = TRUE])
    /\ UNCHANGED <<pipebuf, typed>>

\* pipe(): two descriptors, or panic.
run_pipe(q) ==
    /\ Alive(q, "PIPE")
    /\ LET idle == {k \in 1..NPIPE : ~Held(R(k)) /\ ~Held(W(k))}
           k    == Min(idle)
           none == {i \in Fds : task[q].fds[i] = None}
           fd0  == Min(none)
       IN  IF idle = {} \/ Cardinality(none) < 2 THEN task' = Exited(q) /\ forkfail' = TRUE /\ UNCHANGED pipebuf
           ELSE /\ task' = [task EXCEPT ![q].pc = "left", ![q].p = <<fd0, Min(none \ {fd0})>>,
                                        ![q].fds = fdalloc(fdalloc(@, R(k)), W(k))]
                /\ pipebuf' = [pipebuf EXCEPT ![k] = 0]
                /\ UNCHANGED forkfail
    /\ UNCHANGED typed

\* Mutant: the child of a pipeline keeps the pipe's own descriptors.
Plumb_Kept(f, p, side) == dup(close(f, 2 - side), p[side])

\* The child's close(fd), dup(p[side]), close(p[0]), close(p[1]).
Plumb(f, p, side) == close(close(dup(close(f, side - 1), p[side]), p[1]), p[2])

pipe_left(q) ==
    /\ task[q].pc = "left"
    /\ LET me == task[q]
       IN  fork1(q, [me EXCEPT !.pc = "right"],
                    [me EXCEPT !.pc = "run", !.cmd = @.left, !.fds = Plumb(@, me.p, 2),
                               !.want[2] = me.fds[me.p[2]], !.p = <<0, 0>>])
    /\ UNCHANGED <<pipebuf, typed>>

\* Mutant: the parent keeps the write end.
Both_Read(f, p) == close(f, p[1])

\* The parent's close(p[0]), close(p[1]).
Both(f, p) == close(close(f, p[1]), p[2])

pipe_right(q) ==
    /\ task[q].pc = "right"
    /\ LET me == task[q]
       IN  fork1(q, [me EXCEPT !.pc = "pipewait1", !.cmd = NoCmd, !.p = <<0, 0>>, !.fds = Both(@, me.p)],
                    [me EXCEPT !.pc = "run", !.cmd = @.right, !.fds = Plumb(@, me.p, 1),
                               !.want[1] = me.fds[me.p[1]], !.p = <<0, 0>>])
    /\ UNCHANGED <<pipebuf, typed>>

pipe_wait(q) ==
    /\ task[q].pc \in {"pipewait1", "pipewait2"}
    /\ wait(q, [task[q] EXCEPT !.pc = IF @ = "pipewait1" THEN "pipewait2" ELSE "exit"])
    /\ UNCHANGED <<pipebuf, typed, forkfail>>

run_exit(q) == task[q].pc = "exit" /\ exit(q)

-----------------------------------------------------------------------------
\* The programs.  A write to a pipe waits for room and fails when nobody can
\* read; a read waits for a byte and returns 0 when nobody can write.
CanWrite(x) == x[1] = "w" /\ Held(R(x[2])) => pipebuf[x[2]] < CAP
Broken(x)   == x[1] = "w" /\ ~Held(R(x[2]))
Written(x)  == IF x[1] = "w" /\ ~Broken(x) THEN [pipebuf EXCEPT ![x[2]] = @ + 1] ELSE pipebuf

echo(q) ==
    LET out == task[q].fds[1]
    IN  /\ task[q].pc = "echo"
        /\ \/ task[q].n = 0 /\ exit(q)
           \/ /\ task[q].n > 0 /\ CanWrite(out)
              /\ pipebuf' = Written(out)
              /\ task' = [task EXCEPT ![q].n = @ - 1]
              /\ UNCHANGED <<typed, forkfail>>

\* cat reads its input to the end, exits when it is closed to it, ...
cat_read(q) ==
    LET in == task[q].fds[0]
    IN  /\ task[q].pc = "cat"
        /\ \/ in[1] = "r" /\ pipebuf[in[2]] > 0 /\ pipebuf' = [pipebuf EXCEPT ![in[2]] = @ - 1]
              /\ task' = [task EXCEPT ![q].pc = "catw"] /\ UNCHANGED <<typed, forkfail>>
           \/ in[1] = "r" /\ pipebuf[in[2]] = 0 /\ ~Held(W(in[2])) /\ exit(q)
           \/ in[1] # "r" /\ exit(q)              \* the end of a file or of console input

\* ... and writes what it read, or exits on a write error.
cat_write(q) ==
    LET out == task[q].fds[1]
    IN  /\ task[q].pc = "catw"
        /\ \/ Broken(out) /\ exit(q)
           \/ /\ ~Broken(out) /\ CanWrite(out)
              /\ pipebuf' = Written(out)
              /\ task' = [task EXCEPT ![q].pc = "cat"]
              /\ UNCHANGED <<typed, forkfail>>

Init_step == init_open \/ init_fork \/ init_wait

Runcmd(q) == \/ run_exec(q) \/ run_redir(q) \/ run_list(q) \/ list_wait(q) \/ run_back(q)
             \/ run_pipe(q) \/ pipe_left(q) \/ pipe_right(q) \/ pipe_wait(q) \/ run_exit(q)

Step(q) == main_wait(q) \/ Runcmd(q) \/ echo(q) \/ cat_read(q) \/ cat_write(q)

ShNext == Init_step \/ \E q \in Slots \ {1} : main_getcmd(q) \/ main_cd(q) \/ main_eof(q) \/ Step(q)

\* Every process that can run runs.  Nothing is typed unless it is typed.
ShFairness == WF_shvars(Init_step) /\ \A q \in Slots \ {1} : WF_shvars(Step(q))

ShSpec == ShInit /\ [][ShNext]_shvars /\ ShFairness

-----------------------------------------------------------------------------
Shells == {q \in Slots : task[q].pc \in {"prompt", "wait0"}}

\* init has left its loop, on which the kernel panics.
Halted == task[1].pc = "zombie"

\* Every program runcmd starts finds descriptors 0, 1 and 2 open, on the input and
\* the output its place in the line gives it, and no other: no end of a pipe is left
\* open in a process that does not use it (sh.c:76, 100-117).
ProgramFds == \A q \in Slots : task[q].pc \in {"echo", "cat", "catw"} =>
                 /\ {i \in Fds : task[q].fds[i] # None} = 0..2
                 /\ <<task[q].fds[0], task[q].fds[1]>> = task[q].want

\* When the shell prompts again, what still runs was put in the background by "&",
\* or left by a process whose fork or pipe failed; and the shell has no child of its
\* own, dead or alive, whose end the next wait(0) could take for the next command's.
PromptAfterForeground ==
    \A q \in Slots : task[q].pc = "prompt" =>
        /\ \A r \in Slots : task[r].parent = q => task[r].pc = "free"
        /\ forkfail \/ \A r \in Slots \ {1, q} : task[r].pc \in {"free", "zombie"} \/ task[r].bg

\* Every line comes to its end, pipelines and all, and the shell prompts again; when
\* the shell itself exits, init starts another (init.c:40-42).
PromptReturns == []<>(Halted \/ \E q \in Slots : task[q].pc = "prompt")

\* There is one shell at most, however the children init adopts end.
OneShell == Cardinality(Shells) <= 1

\* Whatever is left without a parent is waited for by init (init.c:49): when nothing
\* more is typed, no zombie stays.
OrphansReaped == <>[](Halted \/ \A q \in Slots \ {1} : task[q].pc # "zombie")

\* What the shell and init keep true while lines run: the descriptors of programs,
\* nothing of a line left at the prompt, one shell.
ShellInv == ProgramFds /\ PromptAfterForeground /\ OneShell
=============================================================================
