-------------------------------- MODULE Umalloc --------------------------------
(***************************************************************************)
(* malloc and free of user/umalloc.c.  Memory is counted in units of a     *)
(* Header.  base, of size 0, is at address 0; the heap starts at HEAP and  *)
(* ends at brk.  size holds the headers of the blocks, in use or free; ptr *)
(* links the free ones, base among them, in a ring.  What is left in a     *)
(* header that is no longer one is forgotten.                              *)
(***************************************************************************)
EXTENDS Integers, FiniteSets, TLC

CONSTANTS HEAP,      \* first address sbrk returns
          TOP,       \* sbrk fails beyond
          MINUNITS,  \* units morecore asks for at least (4096)
          INTUNITS,  \* units whose bytes no longer fit sbrk's int (2^27)
          Sizes,     \* units asked for, header included
          Gap        \* units the program takes with an sbrk of its own

VARIABLES heap,      \* the allocator: ptr, size, freep, brk
          used,      \* addresses of the blocks malloc returned and free did not take back
          foreign    \* units of the heap the program took with sbrk

mvars == <<heap, used, foreign>>

base == 0

\* malloc's first call makes base the only member of the ring.
Start == [ptr |-> (base :> base), size |-> (base :> 0), freep |-> base, brk |-> HEAP]

MInit == heap = Start /\ used = {} /\ foreign = {}

\* f without the addresses in S.
Forget(f, S) == [a \in DOMAIN f \ S |-> f[a]]

-----------------------------------------------------------------------------
RECURSIVE Below(_, _, _)
\* The first free block, from p on, that bp belongs behind: bp is between it and its
\* successor, or it is the last of the ring and bp is beyond one of its ends.
Below(h, p, bp) ==
    IF \/ bp > p /\ bp < h.ptr[p]
       \/ p >= h.ptr[p] /\ (bp > p \/ bp < h.ptr[p])
    THEN p ELSE Below(h, h.ptr[p], bp)

\* free's second half: p and bp become one block when they touch.
JoinLower(h, p, bp) ==
    IF p + h.size[p] = bp
    THEN [h EXCEPT !.size = (p :> h.size[p] + h.size[bp]) @@ Forget(@, {bp}),
                   !.ptr  = (p :> h.ptr[bp]) @@ Forget(@, {bp}),
                   !.freep = p]
    ELSE [h EXCEPT !.ptr = (p :> bp) @@ @, !.freep = p]

\* free's first half: bp and p's successor n become one block when they touch.
JoinUpper(h, p, bp, n) ==
    IF bp + h.size[bp] = n
    THEN [h EXCEPT !.size = (bp :> h.size[bp] + h.size[n]) @@ Forget(@, {n}),
                   !.ptr  = (bp :> h.ptr[n]) @@ Forget(@, {n})]
    ELSE [h EXCEPT !.ptr = (bp :> n) @@ @]

Freed(h, bp) ==
    LET after(p) == JoinLower(JoinUpper(h, p, bp, h.ptr[p]), p, bp)
    IN  after(Below(h, h.freep, bp))

AtLeast(nu) == IF nu < MINUNITS THEN MINUNITS ELSE nu

\* nu * sizeof(Header) as the int that sbrk takes, in units.
Delta(nu) == IF nu % (2 * INTUNITS) < INTUNITS THEN nu % (2 * INTUNITS)
             ELSE (nu % (2 * INTUNITS)) - 2 * INTUNITS

\* sbrk(n): the kernel's unsigned sum of the size and a negative n may wrap, and
\* then nothing is given back.
Break(brk, n) == IF brk + n < 0 THEN brk ELSE brk + n

\* morecore: at least MINUNITS more, freed into the ring.
morecore(h, nu) ==
    LET grown(n) == Freed([h EXCEPT !.size = (h.brk :> n) @@ @,
                                    !.brk = Break(@, Delta(n))], h.brk)
    IN  grown(AtLeast(nu))

CanGrow(h, nu) == h.brk + Delta(AtLeast(nu)) <= TOP

RECURSIVE Search(_, _, _)
\* malloc's loop from the block behind prevp: the predecessor of the first block
\* that is large enough, -1 when the search is back at freep.
Search(h, prevp, n) ==
    IF h.size[h.ptr[prevp]] >= n THEN prevp
    ELSE IF h.ptr[prevp] = h.freep THEN -1
    ELSE Search(h, h.ptr[prevp], n)

\* Mutant: the tail cut off is taken for the rest.
Taken_Head(h, prevp, p, n) ==
    IF h.size[p] = n
    THEN [h EXCEPT !.ptr = (prevp :> h.ptr[p]) @@ Forget(@, {p}), !.freep = prevp]
    ELSE [h EXCEPT !.size = ((p + n) :> n) @@ (p :> h.size[p] - n) @@ @, !.freep = prevp]

\* The block behind prevp is unlinked, or its last n units are cut off.
Taken(h, prevp, p, n) ==
    IF h.size[p] = n
    THEN [h EXCEPT !.ptr = (prevp :> h.ptr[p]) @@ Forget(@, {p}), !.freep = prevp]
    ELSE [h EXCEPT !.size = ((p + h.size[p] - n) :> n) @@ (p :> h.size[p] - n) @@ @,
                   !.freep = prevp]

\* The address of the header malloc hands out.
Address(h, p, n) == p + h.size[p] - n

Take(h, prevp, n) == /\ heap' = Taken(h, prevp, h.ptr[prevp], n)
                     /\ used' = used \cup {Address(h, h.ptr[prevp], n)}
                     /\ UNCHANGED foreign

\* malloc: the first fit from freep on; failing that, from freep after morecore.
malloc(n) ==
    \/ /\ Search(heap, heap.freep, n) # -1
       /\ Take(heap, Search(heap, heap.freep, n), n)
    \/ /\ Search(heap, heap.freep, n) = -1
       /\ CanGrow(heap, n)
       /\ LET again(h) == Take(h, Search(h, h.freep, n), n)
          IN  again(morecore(heap, n))

free(bp) == /\ heap' = Freed(heap, bp)
            /\ used' = used \ {bp}
            /\ UNCHANGED foreign

\* The program moves the break itself: the next block is not behind the last.
sbrk == /\ heap.brk + Gap <= TOP
        /\ heap' = [heap EXCEPT !.brk = @ + Gap]
        /\ foreign' = foreign \cup (heap.brk..heap.brk + Gap - 1)
        /\ UNCHANGED used

MNext == (\E n \in Sizes : malloc(n)) \/ (\E bp \in used : free(bp)) \/ sbrk

MSpec == MInit /\ [][MNext]_mvars

-----------------------------------------------------------------------------
Blocks == DOMAIN heap.size \ {base}

Units(a) == a..a + heap.size[a] - 1

\* No unit is in two blocks, and none is lost: every unit of the heap belongs to a
\* block in use, to a block on the ring or to the program's own sbrk, and a block in
\* use is still of a size that was asked for.
UnitsAccounted ==
    /\ used \cup DOMAIN heap.ptr = DOMAIN heap.size
    /\ used \cap DOMAIN heap.ptr = {}
    /\ \A a, b \in Blocks : a # b => Units(a) \cap Units(b) = {}
    /\ (UNION {Units(a) : a \in Blocks}) \cup foreign = HEAP..heap.brk - 1
    /\ \A a \in used : heap.size[a] \in Sizes

\* The ring is in the order of addresses with one step back, as the search for a
\* block's place assumes, and no two free blocks touch: memory freed in any order is
\* joined again (umalloc.c:30-42).
RingSorted ==
    /\ Cardinality({p \in DOMAIN heap.ptr : heap.ptr[p] <= p}) = 1
    /\ {heap.ptr[p] : p \in DOMAIN heap.ptr} = DOMAIN heap.ptr
    /\ heap.freep \in DOMAIN heap.ptr
    /\ \A p \in DOMAIN heap.ptr \ {base} : p + heap.size[p] # heap.ptr[p]

\* malloc's memory: no unit lost or in two blocks, and a sorted ring of joined blocks.
HeapInv == UnitsAccounted /\ RingSorted
=============================================================================
