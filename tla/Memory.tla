------------------------------- MODULE Memory -------------------------------
(***************************************************************************)
(* The memory of processes: fork, sbrk, exec, exit and the system calls    *)
(* that allocate pages or copy to user memory, over the operators of Vm.   *)
(* The page pool is all the processes share here: a turn of a loop that    *)
(* takes pages is a step, and so is what a call does between two such      *)
(* loops.  `mem' is not state of the kernel: it is the flat memory each    *)
(* process should see.                                                     *)
(***************************************************************************)
EXTENDS Vm

CONSTANTS Procs,      \* slots of the process table
          initproc,   \* the first process
          UintMod,    \* modulus of unsigned int (growproc's sz)
          Uint64Mod,  \* modulus of uint64 (exec's addresses)
          ALIGN,      \* alignment of the user stack pointer
          MAXARG,     \* entries of sys_exec's argv, its 0 included
          ExecCalls,  \* files and argument lists given to exec
          Deltas,     \* arguments of sbrk
          Addrs,      \* user addresses given to system calls that copy out
          CopyAddrs,  \* addresses and lengths at which copyin and copyinstr are
          CopyLens,   \* compared with the flat memory
          MaxCalls    \* bound: system calls in a behaviour

VARIABLES k,       \* the page pool: free pages, contents
          proc,    \* struct proc: trapframe page, page table, size, stack pointer
          at,      \* at[p]: the call p is in, its locals, or Idle
          pipes,   \* pages that hold a pipe
          mem,     \* mem[p]: the memory p should see, and its guard page
          panic,   \* the panic reached, or "none"
          calls    \* system calls made so far

vars == <<k, proc, at, pipes, mem, panic, calls>>

Unused == [tf |-> 0]
Idle   == [pc |-> "idle"]
NoMem  == [cells |-> <<>>, guard |-> -1]
Mark   == 9

\* What a step leaves of a threaded state: the pool and the panic, if any.
Settle(s) == /\ k' = [s.k EXCEPT !.got = 0]
             /\ panic' = s.bad

-----------------------------------------------------------------------------
\* Boot.  kvmmake's mappings of the kernel, in pages: devices, kernel, RAM,
\* trampoline and a stack for each of NPROC processes.
kvmmake ==
    LET top       == 67108863                          \* TRAMPOLINE
        KSTACK(i) == top - (i + 1) * 2
    IN  {<<65536, 1>>, <<65537, 1>>, <<49152, 1024>>, <<524288, 8>>,
         <<524296, 32760>>, <<top, 1>>} \cup {<<KSTACK(i), 1>> : i \in 0..63}

Remap == \E a, b \in kvmmake : a # b /\ a[1] <= b[1] /\ b[1] < a[1] + a[2]

\* allocproc: a trapframe, then a page table; the trapframe is given back
\* (freeproc) if there is no room for the table.
allocproc(pool) ==
    LET a == kalloc(pool)
        s == proc_pagetable(a, a.got)
    IN  IF a.got = 0 THEN [k |-> a, ok |-> FALSE, bad |-> "none", tf |-> 0]
        ELSE IF ~s.ok
        THEN [k |-> kfree(s, {a.got}).k, ok |-> FALSE, bad |-> s.bad, tf |-> 0]
        ELSE s @@ [tf |-> a.got]

\* kinit, userinit: every page free, then the first process with one page.
Init ==
    LET boot == [free |-> Pages, data |-> [b \in Pages |-> Junk], got |-> 0]
        a    == allocproc(boot)
        s    == NewPage(a, 0, Zero, TRUE)              \* uvminit
    IN  /\ k = [s.k EXCEPT !.got = 0]
        /\ proc = [p \in Procs |->
                      IF p = initproc
                      THEN [tf |-> a.tf, t |-> s.t, sz |-> PGSIZE, sp |-> PGSIZE]
                      ELSE Unused]
        /\ at = [p \in Procs |-> Idle]
        /\ pipes = {}
        /\ mem = [p \in Procs |->
                     IF p = initproc THEN [cells |-> [c \in 1..PGSIZE |-> 0], guard |-> -1]
                     ELSE NoMem]
        /\ panic = IF Remap THEN "mappages: remap" ELSE s.bad
        /\ calls = 0

\* A child fork is still making does not run yet.
Newborn(p) == \E q \in Procs : at[q].pc = "uvmcopy" /\ at[q].np = p

Call(p) == /\ panic = "none" /\ calls < MaxCalls
           /\ proc[p].tf # 0 /\ at[p] = Idle /\ ~Newborn(p)
           /\ calls' = calls + 1

Running(p, pc) == panic = "none" /\ at[p].pc = pc /\ UNCHANGED calls

Threaded(t) == [k |-> k, t |-> t, ok |-> TRUE, bad |-> "none"]

-----------------------------------------------------------------------------
\* fork: allocproc first.
fork(p, q) ==
    LET a == allocproc(k)
    IN  /\ Call(p) /\ proc[q].tf = 0
        /\ IF a.ok
           THEN /\ proc' = [proc EXCEPT ![q] = [tf |-> a.tf, t |-> a.t, sz |-> 0, sp |-> 0]]
                /\ at' = [at EXCEPT ![p] = [pc |-> "uvmcopy", np |-> q, i |-> 0]]
           ELSE UNCHANGED <<proc, at>>
        /\ Settle(a)
        /\ UNCHANGED <<pipes, mem>>

\* uvmcopy: a turn copies a page with its flags.  When one fails the copies
\* are unmapped and fork frees the new process, its sz still being 0.
uvmcopy(p) ==
    LET q   == at[p].np
        i   == at[p].i
        pte == proc[p].t.leaf[i]
        s   == NewPage(Threaded(proc[q].t), i, k.data[pte.pa], pte.u)
    IN  /\ Running(p, "uvmcopy") /\ i * PGSIZE < proc[p].sz
        /\ IF s.ok
           THEN /\ proc' = [proc EXCEPT ![q].t = s.t]
                /\ at' = [at EXCEPT ![p].i = i + 1]
                /\ Settle(s)
           ELSE /\ proc' = [proc EXCEPT ![q] = Unused]
                /\ at' = [at EXCEPT ![p] = Idle]
                /\ Settle(proc_freepagetable(
                       kfree(uvmunmap(s, 0, i, TRUE), {proc[q].tf}), 0))
        /\ UNCHANGED <<pipes, mem>>

\* The end of fork: size and registers are copied, the child can run.
fork_done(p) ==
    LET q == at[p].np
    IN  /\ Running(p, "uvmcopy") /\ at[p].i * PGSIZE >= proc[p].sz
        /\ proc' = [proc EXCEPT ![q].sz = proc[p].sz, ![q].sp = proc[p].sp]
        /\ mem' = [mem EXCEPT ![q] = mem[p]]
        /\ at' = [at EXCEPT ![p] = Idle]
        /\ UNCHANGED <<k, pipes, panic>>

\* exit and the parent's wait: freeproc.
freeproc(p) ==
    /\ Call(p) /\ p # initproc
    /\ Settle(proc_freepagetable(kfree(Threaded(proc[p].t), {proc[p].tf}), proc[p].sz))
    /\ proc' = [proc EXCEPT ![p] = Unused]
    /\ mem' = [mem EXCEPT ![p] = NoMem]
    /\ UNCHANGED <<at, pipes>>

\* The memory the process should see after its size has become sz.
Resize(m, sz) ==
    [cells |-> [c \in 1..PGROUNDUP(sz) |-> IF c <= Len(m.cells) THEN m.cells[c] ELSE 0],
     guard |-> IF m.guard < NPagesOf(sz) THEN m.guard ELSE -1]

-----------------------------------------------------------------------------
\* uvmalloc of table t from size oldsz to newsz, called by `ret': its locals.
Growing(ret, t, oldsz, newsz) ==
    [ret |-> ret, pc |-> IF newsz < oldsz THEN ret ELSE "uvmalloc", t |-> t,
     a |-> NPagesOf(oldsz), from |-> NPagesOf(oldsz),
     newsz |-> newsz, sz1 |-> IF newsz < oldsz THEN oldsz ELSE newsz]

\* uvmalloc: a turn maps a zeroed page.  When one fails uvmdealloc frees those
\* before it and the caller gets 0.
uvmalloc(p) ==
    LET e == at[p]
        s == NewPage(Threaded(e.t), e.a, Zero, TRUE)
        d == uvmdealloc(s, e.a * PGSIZE, e.from * PGSIZE)
    IN  /\ Running(p, "uvmalloc") /\ e.a * PGSIZE < e.newsz
        /\ IF s.ok
           THEN at' = [at EXCEPT ![p].a = @ + 1, ![p].t = s.t] /\ Settle(s)
           ELSE at' = [at EXCEPT ![p].pc = e.ret, ![p].t = d.t, ![p].sz1 = 0] /\ Settle(d)
        /\ UNCHANGED <<proc, pipes, mem>>

uvmalloc_done(p) ==
    /\ Running(p, "uvmalloc") /\ at[p].a * PGSIZE >= at[p].newsz
    /\ at' = [at EXCEPT ![p].pc = at[p].ret]
    /\ UNCHANGED <<k, proc, pipes, mem, panic>>

\* What uvmdealloc returns: a new size above the old one changes nothing.
Shrunk(sz, new) == Min({sz, new})

\* sys_sbrk, growproc: sz is an unsigned int, so shrinking below 0 wraps to a
\* size above the old one and uvmdealloc does nothing.
sys_sbrk(p, n) ==
    LET sz  == proc[p].sz
        new == (sz + n) % UintMod
        s   == uvmdealloc(Threaded(proc[p].t), sz, new)
    IN  /\ Call(p)
        /\ IF n > 0
           THEN /\ at' = [at EXCEPT ![p] = Growing("sbrk", proc[p].t, sz, new)]
                /\ UNCHANGED <<k, proc, mem, panic>>
           ELSE /\ proc' = [proc EXCEPT ![p].t = s.t, ![p].sz = Shrunk(sz, new)]
                /\ mem' = [mem EXCEPT ![p] = Resize(@, Shrunk(sz, new))]
                /\ UNCHANGED at
                /\ Settle(s)
        /\ UNCHANGED pipes

\* growproc after uvmalloc: the new size counts only if it succeeded.
sbrk_done(p) ==
    LET to == IF at[p].sz1 = 0 THEN proc[p].sz ELSE at[p].sz1
    IN  /\ Running(p, "sbrk")
        /\ proc' = [proc EXCEPT ![p].t = at[p].t, ![p].sz = to]
        /\ mem' = [mem EXCEPT ![p] = Resize(@, to)]
        /\ at' = [at EXCEPT ![p] = Idle]
        /\ UNCHANGED <<k, pipes, panic>>

-----------------------------------------------------------------------------
\* Which addresses the process may be given data at, and what it should see
\* after a copy of n marks to va: the marks up to the first it may not.
Accessible(m, a)   == a < Len(m.cells) /\ PageOf(a) # m.guard
Stored(m, va, n) ==
    [m EXCEPT !.cells =
        [c \in DOMAIN @ |->
            IF c - 1 \in va..(va + n - 1) /\ \A a \in va..(c - 1) : Accessible(m, a)
            THEN Mark ELSE @[c]]]

\* sys_fstat: the stat structure, three cells of it, is copied out.
sys_fstat(p, va) ==
    LET c == copyout(k, proc[p].t, va, <<Mark, Mark, Mark>>)
    IN  /\ Call(p)
        /\ k' = c.k
        /\ mem' = [mem EXCEPT ![p] = Stored(@, va, 3)]
        /\ UNCHANGED <<proc, at, pipes, panic>>

\* sys_pipe: a page for the pipe; if the descriptors cannot be copied out both
\* ends are closed again and the page freed.
sys_pipe(p, va) ==
    LET a == kalloc(k)
        c == copyout(a, proc[p].t, va, <<Mark, Mark>>)
    IN  /\ Call(p) /\ a.got # 0
        /\ IF c.ok
           THEN pipes' = pipes \cup {a.got} /\ Settle([k |-> c.k, bad |-> "none"])
           ELSE UNCHANGED pipes /\ Settle(kfree([k |-> c.k, bad |-> "none"], {a.got}))
        /\ mem' = [mem EXCEPT ![p] = Stored(@, va, 2)]
        /\ UNCHANGED <<proc, at>>

\* pipeclose of the second end, in a process's close().
pipeclose(p, b) ==
    /\ Call(p) /\ b \in pipes
    /\ Settle(kfree([k |-> k, bad |-> "none"], {b}))
    /\ pipes' = pipes \ {b}
    /\ UNCHANGED <<proc, at, mem>>

-----------------------------------------------------------------------------
\* sys_exec: the arguments are fetched first.
sys_exec(p, c) ==
    /\ Call(p)
    /\ at' = [at EXCEPT ![p] = [pc |-> "argv", prog |-> c.prog, args |-> c.args, argp |-> {}]]
    /\ UNCHANGED <<k, proc, pipes, mem, panic>>

\* Entries of an argument list that cannot be fetched: the pointer, or the string.
NoPointer == <<-1>>
NoString  == <<-2>>

\* A turn of sys_exec's loop: a page for the next argument, into which the string
\* is fetched.  Too many arguments, a bad address or no page: all are given back.
sys_exec_argv(p) ==
    LET e    == at[p]
        i    == Cardinality(e.argp)
        arg  == IF i < Len(e.args) THEN e.args[i + 1] ELSE <<>>
        a    == kalloc(k)
        give(s, pages) == at' = [at EXCEPT ![p] = Idle] /\ Settle(kfree(s, pages))
        pool(q) == [k |-> q, bad |-> panic]
    IN  /\ Running(p, "argv")
        /\ \/ /\ i >= MAXARG \/ arg = NoPointer
              /\ give(pool(k), e.argp)
           \/ /\ i < MAXARG /\ i = Len(e.args)
              /\ at' = [at EXCEPT ![p].pc = "elf"]
              /\ UNCHANGED <<k, panic>>
           \/ /\ i < MAXARG /\ i < Len(e.args) /\ arg # NoPointer
              /\ IF a.got = 0 THEN give(pool(a), e.argp)
                 ELSE IF arg = NoString THEN give(pool(a), e.argp \cup {a.got})
                 ELSE at' = [at EXCEPT ![p].argp = @ \cup {a.got}] /\ Settle(pool(a))
        /\ UNCHANGED <<proc, pipes, mem>>

\* exec's label bad, and sys_exec's end: the new table with what is mapped
\* below sz and the argument pages are freed, the process is as before.
bad(p, s, sz) ==
    /\ Settle(kfree(proc_freepagetable(s, sz), at[p].argp))
    /\ at' = [at EXCEPT ![p] = Idle]
    /\ UNCHANGED <<proc, mem>>

\* exec opens the file, checks its header and makes a page table.
exec_elf(p) ==
    LET s == IF at[p].prog.magic THEN proc_pagetable(k, proc[p].tf)
             ELSE [Threaded(Unused) EXCEPT !.ok = FALSE]
    IN  /\ Running(p, "elf")
        /\ IF s.ok
           THEN /\ at' = [at EXCEPT ![p] = [pc |-> "seg", i |-> 1, sz |-> 0, t |-> s.t] @@ @]
                /\ Settle(s)
           ELSE /\ at' = [at EXCEPT ![p] = Idle]
                /\ Settle(kfree(s, at[p].argp))
        /\ UNCHANGED <<proc, pipes, mem>>

\* A turn of exec's loop over the program headers, up to uvmalloc.  The header of
\* type SHORT is one the file ends in; those not of type LOAD are passed over.
exec_seg(p) ==
    LET e   == at[p]
        ph  == e.prog.seg[e.i]
        end == (ph.vaddr + ph.memsz) % Uint64Mod
    IN  /\ Running(p, "seg") /\ e.i <= Len(e.prog.seg)
        /\ \/ /\ ph.type = "OTHER"
              /\ at' = [at EXCEPT ![p].i = @ + 1]
              /\ UNCHANGED <<k, proc, mem, panic>>
           \/ /\ ph.type = "SHORT" \/ (ph.type = "LOAD" /\ (ph.memsz < ph.filesz \/ end < ph.vaddr))
              /\ bad(p, Threaded(e.t), e.sz)
           \/ /\ ph.type = "LOAD" /\ ph.memsz >= ph.filesz /\ end >= ph.vaddr
              /\ at' = [at EXCEPT ![p] = Growing("loadseg", e.t, e.sz, end) @@ e]
              /\ UNCHANGED <<k, proc, mem, panic>>
        /\ UNCHANGED pipes

\* loadseg: the file's cells go to the pages they are mapped at, until a read
\* comes back short.
loadseg(s, ph, len) ==
    FoldLeft(LAMBDA r, i :
                 LET pa == walkaddr(r.t, PageOf(ph.vaddr) + i)
                     n  == Min({ph.filesz - i * PGSIZE, PGSIZE})
                     o  == ph.off + i * PGSIZE
                 IN  IF ~r.ok THEN r
                     ELSE IF pa = 0 THEN Panic(r, "loadseg: address should exist")
                     ELSE IF o + n > len THEN [r EXCEPT !.ok = FALSE]
                     ELSE [r EXCEPT !.k.data[pa] =
                              [c \in 0..PGSIZE-1 |-> IF c < n THEN 50 + o + c ELSE @[c]]],
             s, [i \in 1..NPagesOf(ph.filesz) |-> i - 1])

\* The size by which `bad' frees the table: sz is set once uvmalloc succeeded.
BadSize(e) == IF e.sz1 = 0 THEN e.sz ELSE e.sz1

\* The rest of the turn: uvmalloc's result, the alignment test, loadseg.
exec_load(p) ==
    LET e  == at[p]
        ph == e.prog.seg[e.i]
        l  == IF e.sz1 = 0 \/ ph.vaddr % PGSIZE # 0
              THEN [Threaded(e.t) EXCEPT !.ok = FALSE]
              ELSE loadseg(Threaded(e.t), ph, e.prog.len)
    IN  /\ Running(p, "loadseg")
        /\ IF l.ok
           THEN /\ at' = [at EXCEPT ![p] = [pc |-> "seg", i |-> e.i + 1, sz |-> e.sz1, t |-> e.t,
                                            prog |-> e.prog, args |-> e.args, argp |-> e.argp]]
                /\ Settle(l)
                /\ UNCHANGED <<proc, mem>>
           ELSE bad(p, l, BadSize(e))
        /\ UNCHANGED pipes

\* The two pages above the image are asked for.
exec_stack(p) ==
    LET e  == at[p]
        sz == PGROUNDUP(e.sz)
    IN  /\ Running(p, "seg") /\ e.i > Len(e.prog.seg)
        /\ at' = [at EXCEPT ![p] = Growing("args", e.t, sz, sz + 2 * PGSIZE) @@ [e EXCEPT !.sz = sz]]
        /\ UNCHANGED <<k, proc, pipes, mem, panic>>

Aligned(sp) == sp - (sp % ALIGN)

\* Mutant: no room is made for the terminating 0.
Push_NoNul(r, str, base, t) ==
    LET sp == Aligned(r.sp - Len(str))
        c  == copyout(r.k, t, sp, str)
    IN  IF ~r.ok \/ sp < base \/ ~c.ok THEN [r EXCEPT !.ok = FALSE]
        ELSE [ok |-> TRUE, sp |-> sp, k |-> c.k, ustack |-> Append(r.ustack, sp)]

\* One argument string pushed on the new stack with its 0.
Push(r, str, base, t) ==
    LET sp == Aligned(r.sp - (Len(str) + 1))
        c  == copyout(r.k, t, sp, Append(str, 0))
    IN  IF ~r.ok \/ sp < base \/ ~c.ok THEN [r EXCEPT !.ok = FALSE]
        ELSE [ok |-> TRUE, sp |-> sp, k |-> c.k, ustack |-> Append(r.ustack, sp)]

\* The memory a program should start with: its segments' file parts, later
\* segments over earlier ones, zero elsewhere; the stack page as it was built.
Image(prog, sz, stack) ==
    [cells |-> [c \in 1..sz |->
        LET a    == c - 1
            segs == {i \in DOMAIN prog.seg :
                        prog.seg[i].type = "LOAD" /\ a \in prog.seg[i].vaddr..(prog.seg[i].vaddr + prog.seg[i].filesz - 1)}
        IN  IF a >= sz - PGSIZE THEN stack[a - (sz - PGSIZE)]
            ELSE IF segs = {} THEN 0
            ELSE 50 + prog.seg[Max(segs)].off + a - prog.seg[Max(segs)].vaddr],
     guard |-> PageOf(sz) - 2]

\* The rest of exec: the lower of the two pages is taken from the user
\* (uvmclear), the arguments and the array of pointers to them are pushed on
\* the other; then the new image replaces the old, which is freed, and sys_exec
\* frees the argument pages.
exec_args(p) ==
    LET e    == at[p]
        sz   == e.sz1
        base == sz - PGSIZE
        t    == [e.t EXCEPT !.leaf[PageOf(base) - 1].u = FALSE]
        r    == FoldLeft(LAMBDA x, str : Push(x, str, base, t),
                         [ok |-> TRUE, sp |-> sz, k |-> k, ustack |-> <<>>], e.args)
        sp   == Aligned(r.sp - (Len(e.args) + 1))
        c    == copyout(r.k, t, sp, Append(r.ustack, 0))
        old  == [Threaded(proc[p].t) EXCEPT !.k = c.k]
    IN  /\ Running(p, "args")
        /\ IF e.sz1 = 0 \/ ~r.ok \/ sp < base
           THEN bad(p, [Threaded(e.t) EXCEPT !.k = IF e.sz1 = 0 THEN k ELSE r.k], BadSize(e))
           ELSE /\ proc' = [proc EXCEPT ![p].t = t, ![p].sz = sz, ![p].sp = sp]
                /\ Settle(kfree(proc_freepagetable(old, proc[p].sz), e.argp))
                /\ mem' = [mem EXCEPT ![p] =
                              Image(e.prog, sz, c.k.data[t.leaf[PageOf(base)].pa])]
                /\ at' = [at EXCEPT ![p] = Idle]
        /\ UNCHANGED pipes

Next == \E p \in Procs :
             \/ \E q \in Procs : fork(p, q)
             \/ freeproc(p)
             \/ \E b \in pipes : pipeclose(p, b)
             \/ \E n \in Deltas : sys_sbrk(p, n)
             \/ \E va \in Addrs : sys_fstat(p, va) \/ sys_pipe(p, va)
             \/ \E c \in ExecCalls : sys_exec(p, c)
             \/ sys_exec_argv(p)
             \/ uvmcopy(p) \/ fork_done(p)
             \/ uvmalloc(p) \/ uvmalloc_done(p) \/ sbrk_done(p)
             \/ exec_elf(p) \/ exec_seg(p) \/ exec_load(p) \/ exec_stack(p) \/ exec_args(p)

Spec == Init /\ [][Next]_vars
-----------------------------------------------------------------------------
Live == {p \in Procs : proc[p].tf # 0}

TypeOK == /\ k.free \subseteq Pages
          /\ \A p \in Live : proc[p].sz \in 0..NPAGES*PGSIZE
          /\ pipes \subseteq Pages
          /\ calls \in 0..MaxCalls

\* The pages of a table: root, inner nodes and user pages.
TablePages(t) == {t.root} \cup Range(t.node) \cup
                 {t.leaf[vp].pa : vp \in DOMAIN t.leaf \ {TRAMPOLINE, TRAPFRAME}}
TableSize(t)  == 1 + Cardinality(DOMAIN t.node)
                   + Cardinality(DOMAIN t.leaf \ {TRAMPOLINE, TRAPFRAME})

\* The tables there are: those of processes, the one sbrk is growing in its
\* place, those exec is building.
Execs    == {p \in Procs : "argp" \in DOMAIN at[p]}
Tables   == {IF "ret" \in DOMAIN at[p] /\ at[p].ret = "sbrk" THEN at[p].t ELSE proc[p].t : p \in Live}
            \cup {at[p].t : p \in {q \in Execs : at[q].pc \notin {"argv", "elf"}}}
Argument == UNION {at[p].argp : p \in Execs}

\* At every moment every page is in exactly one place: free, a trapframe, a
\* pipe, an argument of exec, or one place of one page table, the tables of
\* unfinished execs included.  Nothing is lost and nothing freed twice on any
\* failure path of fork, sbrk, exec or pipe, wherever memory ran out.
PagesAccounted ==
    LET owned == {proc[p].tf : p \in Live} \cup pipes \cup Argument
                 \cup UNION {TablePages(t) : t \in Tables}
    IN  /\ owned \cap k.free = {} /\ owned \cup k.free = Pages
        /\ Cardinality(owned) = Cardinality(Live) + Cardinality(pipes)
              + Cardinality(Argument) + MapThenSumSet(TableSize, Tables)

\* A process sees the flat memory it should: what fork, sbrk, exec and the
\* copies of system calls made of it, fresh pages zero, never another
\* process's pages or the allocator's junk; a failed call changed nothing.
UserMemory ==
    \A p \in {q \in Live : ~Newborn(q)} :
        /\ PGROUNDUP(proc[p].sz) = Len(mem[p].cells)
        /\ \A c \in DOMAIN mem[p].cells :
              LET pte == proc[p].t.leaf[PageOf(c - 1)]
              IN  /\ PageOf(c - 1) \in DOMAIN proc[p].t.leaf
                  /\ k.data[pte.pa][(c - 1) % PGSIZE] = mem[p].cells[c]
                  /\ pte.u = (PageOf(c - 1) # mem[p].guard)

\* copyin and copyinstr, which work page by page, agree with the flat memory, from
\* addresses within, at the end of and beyond a page, a guard page or the image: all cells asked for or failure at the first the
\* process may not read; the string up to its first 0 if that is within max.
CopiesAgree ==
    \A p \in {q \in Live : ~Newborn(q)} : \A va \in CopyAddrs, n \in CopyLens :
        LET m      == mem[p]
            reach  == {i \in 0..n-1 : \A a \in va..(va + i) : Accessible(m, a)}
            nul    == {i \in reach : m.cells[va + i + 1] = 0}
            cells(j) == [i \in 1..j |-> m.cells[va + i]]
            in     == copyin(k, proc[p].t, va, n)
            str    == copyinstr(k, proc[p].t, va, n)
        IN  /\ in.ok = (Cardinality(reach) = n)
            /\ in.ok => in.dst = cells(n)
            /\ (str.st = "nul") = (nul # {})
            /\ nul # {} => str.dst = cells(Min(nul))

\* A program that exec has started finds its arguments: at its stack pointer
\* the addresses of the strings it was given, ended by 0, each string whole.
ArgumentsReachMain ==
    [][\A p \in Procs :
        at[p].pc = "args" /\ proc'[p] # proc[p] =>
            LET a(i) == copyin(k', proc'[p].t, proc'[p].sp + i - 1, 1).dst[1]
            IN  /\ \A i \in DOMAIN at[p].args :
                      LET s == copyinstr(k', proc'[p].t, a(i), PGSIZE)
                      IN  s.st = "nul" /\ s.dst = at[p].args[i]
                /\ a(Len(at[p].args) + 1) = 0]_vars

\* No panic of kalloc.c, vm.c or exec.c is reached: no page mapped twice,
\* unmapped when it is not mapped, or left behind in a table being freed.
NoPanic == panic = "none"

\* The page pool and the tables, together: types, every page in one place, and no
\* panic on the way there.
MemoryInv == TypeOK /\ PagesAccounted /\ NoPanic

\* What a process sees of its memory, by its own loads and through the kernel's copies.
SeesItsMemory == UserMemory /\ CopiesAgree
=============================================================================
