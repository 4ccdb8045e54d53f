--------------------------------- MODULE Vm ---------------------------------
(***************************************************************************)
(* kernel/kalloc.c and kernel/vm.c as operators.  A pool k holds the free  *)
(* pages and the contents of every page; `got' is the page kalloc          *)
(* returned, 0 for none.  A page table t has its root page, the pages of   *)
(* its inner nodes and its leaf PTEs.  A state s = [k, t, ok, bad] is      *)
(* threaded through the calls: ok is FALSE once an allocation has failed,  *)
(* bad names the panic that was reached.  Addresses count cells; a virtual *)
(* page has a number.  Three levels of FAN entries each stand for Sv39.    *)
(***************************************************************************)
EXTENDS Integers, Sequences, SequencesExt, FiniteSets, FiniteSetsExt, Functions, TLC

CONSTANTS PGSIZE,   \* cells of a page
          FAN,      \* entries of a page-table page
          NPAGES    \* physical pages

Pages      == 1..NPAGES
VPages     == FAN * FAN * FAN
TRAMPOLINE == VPages - 1
TRAPFRAME  == VPages - 2
Junk       == [c \in 0..PGSIZE-1 |-> 77]
Zero       == [c \in 0..PGSIZE-1 |-> 0]
Fixed      == 0      \* the trampoline's page, which the pool does not own

PGROUNDUP(n)   == ((n + PGSIZE - 1) \div PGSIZE) * PGSIZE
PageOf(a)      == a \div PGSIZE
NPagesOf(sz)   == PGROUNDUP(sz) \div PGSIZE

Panic(s, msg)  == [s EXCEPT !.bad = IF @ = "none" THEN msg ELSE @]

\* kalloc: a free page full of junk.  Which one does not matter.
kalloc(k) ==
    IF k.free = {} THEN [k EXCEPT !.got = 0]
    ELSE LET b == Min(k.free)
         IN  [k EXCEPT !.free = @ \ {b}, !.got = b]

\* kfree of a set of pages: each is filled with junk and goes to the list.
kfree(s, pages) ==
    LET t == [s EXCEPT !.k.free = @ \cup pages,
                       !.k.data = [b \in Pages |-> IF b \in pages THEN Junk ELSE @[b]]]
    IN  IF pages \subseteq Pages \ s.k.free THEN t ELSE Panic(t, "page freed twice")

\* One level of walk with alloc = 1: a missing page-table page is allocated and
\* zeroed.
Level(s, node) ==
    LET a == kalloc(s.k)
    IN  IF ~s.ok \/ node \in DOMAIN s.t.node THEN s
        ELSE IF a.got = 0 THEN [s EXCEPT !.ok = FALSE]
        ELSE [s EXCEPT !.k = [a EXCEPT !.data[a.got] = Zero],
                       !.t.node = @ @@ (node :> a.got)]

\* walk with alloc = 1: the two levels below the root.  Pages made before an
\* allocation fails stay in the table.
walk(s, vp) ==
    IF vp >= VPages THEN Panic(s, "walk")
    ELSE Level(Level(s, <<1, vp \div (FAN * FAN)>>), <<0, vp \div FAN>>)

\* mappages of one page; u is PTE_U.
mappages(s, vp, pa, u) ==
    LET w == walk(s, vp)
    IN  IF ~w.ok \/ w.bad # "none" THEN w
        ELSE IF vp \in DOMAIN w.t.leaf THEN Panic(w, "mappages: remap")
        ELSE [w EXCEPT !.t.leaf = @ @@ (vp :> [pa |-> pa, u |-> u])]

\* uvmunmap: the n pages from vp on must be mapped.
uvmunmap(s, vp, n, do_free) ==
    LET range == vp..(vp + n - 1)
        there == range \cap DOMAIN s.t.leaf
        t     == [s EXCEPT !.t.leaf = Restrict(@, DOMAIN @ \ range)]
        r     == IF do_free THEN kfree(t, {s.t.leaf[a].pa : a \in there}) ELSE t
    IN  IF there = range THEN r ELSE Panic(r, "uvmunmap: not mapped")

\* uvmcreate.
uvmcreate(k) ==
    LET a == kalloc(k)
    IN  [k    |-> IF a.got = 0 THEN a ELSE [a EXCEPT !.data[a.got] = Zero],
         t    |-> [root |-> a.got, node |-> <<>>, leaf |-> <<>>],
         ok   |-> a.got # 0,
         bad  |-> "none"]

\* Mutant: the size is rounded down, so a page still partly in use goes too.
uvmdealloc_Down(s, oldsz, newsz) ==
    IF newsz >= oldsz THEN s
    ELSE uvmunmap(s, PageOf(newsz), NPagesOf(oldsz) - PageOf(newsz), TRUE)

\* uvmdealloc: the pages wholly above the new size go.
uvmdealloc(s, oldsz, newsz) ==
    IF newsz >= oldsz \/ NPagesOf(newsz) >= NPagesOf(oldsz) THEN s
    ELSE uvmunmap(s, NPagesOf(newsz), NPagesOf(oldsz) - NPagesOf(newsz), TRUE)

\* Mutant: the page is not given back when mappages fails.
NewPage_Keep(s, vp, cells, u) ==
    LET k == kalloc(s.k)
    IN  IF k.got = 0 THEN [s EXCEPT !.ok = FALSE]
        ELSE mappages([s EXCEPT !.k = [k EXCEPT !.data[k.got] = cells]], vp, k.got, u)

\* One turn of uvmalloc's and of uvmcopy's loop: a fresh page with the given
\* contents mapped at vp.  If mappages fails the page is given back.
NewPage(s, vp, cells, u) ==
    LET k == kalloc(s.k)
        m == mappages([s EXCEPT !.k = [k EXCEPT !.data[k.got] = cells]], vp, k.got, u)
    IN  IF k.got = 0 THEN [s EXCEPT !.ok = FALSE]
        ELSE IF m.ok THEN m ELSE kfree(m, {k.got})

\* freewalk: the inner pages and the root; a leaf still there is a panic.
freewalk(s) ==
    LET r == kfree([s EXCEPT !.t.node = <<>>], Range(s.t.node) \cup {s.t.root})
    IN  IF s.t.leaf = <<>> THEN r ELSE Panic(r, "freewalk: leaf")

uvmfree(s, sz) == freewalk(uvmunmap(s, 0, NPagesOf(sz), TRUE))

\* proc_pagetable (proc.c): trampoline and trapframe mapped in an empty table,
\* which is freed again if either fails.
proc_pagetable(k, tf) ==
    LET c == uvmcreate(k)
        m == mappages(c, TRAMPOLINE, Fixed, FALSE)
        n == mappages(m, TRAPFRAME, tf, FALSE)
    IN  IF ~c.ok THEN c
        ELSE IF ~m.ok THEN [uvmfree(m, 0) EXCEPT !.ok = FALSE]
        ELSE IF ~n.ok THEN [uvmfree(uvmunmap(n, TRAMPOLINE, 1, FALSE), 0) EXCEPT !.ok = FALSE]
        ELSE n

proc_freepagetable(s, sz) ==
    uvmfree(uvmunmap(uvmunmap(s, TRAMPOLINE, 1, FALSE), TRAPFRAME, 1, FALSE), sz)

\* walkaddr: the page user address page vp is mapped to, 0 if it is not or is
\* not the user's.
walkaddr(t, vp) ==
    IF vp \in DOMAIN t.leaf /\ t.leaf[vp].u THEN t.leaf[vp].pa ELSE 0

\* The pieces a copy of len cells at va is made in, one per page: each a
\* virtual page, where it starts in it, and its length.
Pieces(va, len) ==
    [i \in 1..(IF len = 0 THEN 0 ELSE PageOf(va + len - 1) - PageOf(va) + 1) |->
        LET vp    == PageOf(va) + i - 1
            start == Max({va, vp * PGSIZE})
        IN  [vp |-> vp, at |-> start % PGSIZE,
             n  |-> Min({va + len, (vp + 1) * PGSIZE}) - start]]

\* copyout of the cells src: pieces are written in turn until one has no page.
copyout(k, t, va, src) ==
    FoldLeft(LAMBDA r, q :
                 LET pa == walkaddr(t, q.vp)
                 IN  IF ~r.ok \/ pa = 0 THEN [r EXCEPT !.ok = FALSE]
                     ELSE [r EXCEPT !.done = @ + q.n,
                                    !.k.data[pa] = [c \in 0..PGSIZE-1 |->
                                        IF c \in q.at..(q.at + q.n - 1)
                                        THEN src[r.done + c - q.at + 1] ELSE @[c]]],
             [k |-> k, ok |-> TRUE, done |-> 0], Pieces(va, Len(src)))

\* copyin of len cells: what arrived, and whether all of it did.
copyin(k, t, va, len) ==
    FoldLeft(LAMBDA r, q :
                 LET pa == walkaddr(t, q.vp)
                 IN  IF ~r.ok \/ pa = 0 THEN [r EXCEPT !.ok = FALSE]
                     ELSE [r EXCEPT !.dst = @ \o [c \in 1..q.n |-> k.data[pa][q.at + c - 1]]],
             [dst |-> <<>>, ok |-> TRUE], Pieces(va, len))

\* copyinstr: the cells before the first 0 among the first max of them; st is
\* "nul" when one was found.
copyinstr(k, t, va, max) ==
    FoldLeft(LAMBDA r, q :
                 LET pa   == walkaddr(t, q.vp)
                     cell == [c \in 1..q.n |-> k.data[pa][q.at + c - 1]]
                     nul  == {c \in DOMAIN cell : cell[c] = 0}
                 IN  IF r.st # "on" THEN r
                     ELSE IF pa = 0 THEN [r EXCEPT !.st = "fail"]
                     ELSE IF nul = {} THEN [r EXCEPT !.dst = @ \o cell]
                     ELSE [st |-> "nul", dst |-> r.dst \o SubSeq(cell, 1, Min(nul) - 1)],
             [dst |-> <<>>, st |-> "on"], Pieces(va, max))
=============================================================================
