------------------------------ MODULE FileData ------------------------------
(***************************************************************************)
(* The contents of files: block allocation, bmap, itrunc, readi and writei *)
(* of kernel/fs.c under fileread and filewrite of kernel/file.c, on the    *)
(* image mkfs writes.                                                      *)
(*                                                                         *)
(* A chunk of filewrite is one log transaction.  Its block turns are steps *)
(* of their own, since writers of other files allocate between them; the   *)
(* inode's lock is held throughout.  A transaction's writes reach          *)
(* `durable' with the last of the system calls that share it (log.c) and   *)
(* a crash loses everything since.  A copy from user memory that fails may *)
(* have changed a part of the cached block, which is not logged then.      *)
(* `text' is not state of the kernel: it is what the writes and            *)
(* truncations so far amount to, for each place of a file the bytes that   *)
(* may be there.                                                           *)
(***************************************************************************)
EXTENDS Mkfs, FiniteSets

CONSTANTS Writers,       \* processes
          Byte,          \* Byte[p]: the byte process p writes (not 0)
          Files,         \* open files (struct file of type FD_INODE)
          Ip,            \* Ip[f]: the inode of open file f
          FilesOf,       \* FilesOf[p]: the open files p holds
          Lengths,       \* lengths passed to read and write, an int
          Uint,          \* an unsigned int is a number modulo Uint
          MAXOPBLOCKS,   \* blocks a system call may log
          BPB,           \* blocks per bitmap block
          Contents,      \* the files mkfs is given
          MaxIO          \* bound: system calls in a behaviour

\* filewrite always makes progress.
ASSUME ChunkNotEmpty == MAXOPBLOCKS >= 6

VARIABLES used,       \* the bitmap
          block,      \* contents of the data blocks, in the cache
          logged,     \* the data blocks log_written since the last commit
          dinode,     \* inodes on disk: size and addrs
          ip,         \* their copies in the inode cache
          holder,     \* holder[i]: the process holding ip->lock, or "none"
          off,        \* f->off
          text,       \* text[i]: what the file should contain
          durable,    \* used, block, dinode and text as of the last commit
          io,         \* each process's position and locals
          dirty,      \* dirty[p]: blocks p's transaction has log_written
          halted,     \* the panic that halted the kernel, or "none"
          ios         \* system calls made so far

dvars == <<used, block, logged, dinode, ip, holder, off, text, durable, io, dirty,
           halted, ios>>

NoIO == [pc |-> "idle"]

\* The cells of inode i from the block map, read one by one.
Cell(i, pos) == block[AddrOf(ip[i], block, pos \div BSIZE)][pos % BSIZE]

\* readi: what a read of n cells at offset o returns; n is unsigned.
readi(i, o, n) ==
    IF o > ip[i].size \/ (o + n) % Uint < o THEN <<>>
    ELSE [k \in 1..Min({n, ip[i].size - o}) |-> Cell(i, o + k - 1)]

Known(s) == [k \in DOMAIN s |-> {s[k]}]

DInit == /\ LET img == Image(Contents)
           IN  /\ used = Bitmap(img)
               /\ block = img.block
               /\ dinode = img.dinode
        /\ ip = dinode /\ logged = {}
        /\ text = [i \in Inodes |->
                      IF i = ROOTINO THEN Known([k \in 1..ip[i].size |-> Cell(i, k - 1)])
                      ELSE IF i - 1 \in DOMAIN Contents THEN Known(Contents[i - 1])
                      ELSE <<>>]
        /\ holder = [i \in Inodes |-> "none"]
        /\ off = [f \in Files |-> 0]
        /\ durable = [used |-> used, block |-> block, dinode |-> dinode, text |-> text]
        /\ io = [p \in Writers |-> NoIO]
        /\ dirty = [p \in Writers |-> {}]
        /\ halted = "none"
        /\ ios = 0

-----------------------------------------------------------------------------
\* Blocks.  A disk state d is [used, block, ino, new, full]: ino is the inode
\* at hand, new the blocks logged while getting there.

\* balloc: the first free block, marked and zeroed, both logged; panics when
\* there is none.
balloc(d) ==
    LET free == Blocks \ d.used
        b    == Min(free)
    IN  IF free = {} THEN [d EXCEPT !.full = TRUE]
        ELSE [d EXCEPT !.used = @ \cup {b}, !.block[b] = Zeroes, !.got = b,
                       !.new = @ \cup {<<"data", b>>, <<"bit", b \div BPB>>}]

\* bmap's indirect part: the indirect block exists by now.
Indirect(d, n) ==
    LET ind == d.ino.addrs[NDIRECT]
        e   == balloc(d)
    IN  IF d.full THEN d
        ELSE IF d.block[ind][n] # 0 THEN [d EXCEPT !.got = d.block[ind][n]]
        ELSE IF e.full THEN e
        ELSE [e EXCEPT !.block[ind][n] = e.got, !.new = @ \cup {<<"data", ind>>}]

\* bmap: the block that holds block bn of the inode, allocated if there is
\* none, with the indirect block before it.
bmap(d, bn) ==
    LET a == IF bn < NDIRECT THEN bn ELSE NDIRECT
        e == IF d.ino.addrs[a] # 0 THEN [d EXCEPT !.got = d.ino.addrs[a]]
             ELSE LET x == balloc(d)
                  IN  IF x.full THEN x ELSE [x EXCEPT !.ino.addrs[a] = x.got]
    IN  IF bn < NDIRECT THEN e ELSE Indirect(e, bn - NDIRECT)

\* The blocks an inode refers to: its own numbers and those in the indirect
\* block.
Referenced(ino, blk) ==
    ({ino.addrs[a] : a \in 0..NDIRECT} \cup
     (IF ino.addrs[NDIRECT] = 0 THEN {}
      ELSE {blk[ino.addrs[NDIRECT]][c] : c \in 0..NINDIRECT-1})) \ {0}

-----------------------------------------------------------------------------
\* end_op: the last system call of the transaction commits it, with the
\* blocks it has logged as they are in the cache.
LastOut(p) == \A q \in Writers \ {p} : io[q].pc # "writei"

Commit(p) ==
    IF LastOut(p)
    THEN /\ durable' = [used  |-> used', dinode |-> dinode', text |-> text',
                        block |-> [b \in Blocks |-> IF b \in logged \/ b \notin used'
                                                    THEN block'[b] ELSE durable.block[b]]]
         /\ logged' = {}
    ELSE UNCHANGED <<durable, logged>>

\* bget recycles the buffer of block b, which is not pinned by the log: a change
\* that was not logged is gone.
evict(b) ==
    /\ b \in used \ logged /\ block[b] # durable.block[b]
    /\ block' = [block EXCEPT ![b] = durable.block[b]]
    /\ UNCHANGED <<used, logged, dinode, ip, holder, off, text, durable, io, dirty, halted, ios>>

Running == halted = "none"

\* sys_write: filewrite starts its loop, which has no turn unless n > 0.
sys_write(p, f, n) ==
    /\ Running /\ io[p] = NoIO /\ ios < MaxIO
    /\ f \in FilesOf[p] /\ n > 0
    /\ ios' = ios + 1
    /\ io' = [io EXCEPT ![p] = [pc |-> "filewrite", f |-> f, i |-> 0, n |-> n]]
    /\ UNCHANGED <<used, block, logged, dinode, ip, holder, off, text, durable, dirty, halted>>

\* Mutant: the chunk is counted in bytes without leaving room for the rest.
max_Whole == (MAXOPBLOCKS - 1 - 1) * BSIZE

\* filewrite's chunk: at most this many bytes in one transaction.
max == ((MAXOPBLOCKS - 1 - 1 - 2) \div 2) * BSIZE

\* writei's early returns.
Refused(i, o, n) ==
    o > ip[i].size \/ (o + n) % Uint < o \/ (o + n) % Uint > MAXFILE * BSIZE

\* The top of filewrite's loop: begin_op, ilock, and writei's tests.  A refused
\* chunk ends the call at once.
filewrite(p) ==
    /\ Running /\ io[p].pc = "filewrite"
    /\ LET f  == io[p].f
           i  == Ip[f]
           n1 == Min({io[p].n - io[p].i, max})
       IN  /\ holder[i] = "none"
           /\ IF Refused(i, off[f], n1)
              THEN /\ io' = [io EXCEPT ![p] = NoIO]
                   /\ UNCHANGED <<holder, dirty>>
              ELSE /\ holder' = [holder EXCEPT ![i] = p]
                   /\ io' = [io EXCEPT ![p] =
                                [pc |-> "writei", f |-> f, i |-> @.i, n |-> @.n,
                                 n1 |-> n1, tot |-> 0, torn |-> 0]]
                   /\ dirty' = [dirty EXCEPT ![p] = {}]
    /\ UNCHANGED <<used, block, logged, dinode, ip, off, text, durable, halted, ios>>

\* Mutant: the block offset of the copy is taken from the start of the write.
Place_FromStart(o, tot) == [bn |-> (o + tot) \div BSIZE, at |-> o % BSIZE]

\* Where the next cells of a write go: block and place in it.
Place(o, tot) == [bn |-> (o + tot) \div BSIZE, at |-> (o + tot) % BSIZE]

\* One turn of writei's loop: bmap, then either_copyin of m cells, of which k
\* are copied, and log_write of the block.  The turn that cannot copy all of
\* them leaves the loop: what it copied stays in the cache, the block it mapped
\* stays mapped.
writei(p, k) ==
    /\ Running /\ io[p].pc = "writei" /\ io[p].tot < io[p].n1
    /\ LET i  == Ip[io[p].f]
           at0 == Place(off[io[p].f], io[p].tot)
           m  == Min({io[p].n1 - io[p].tot, BSIZE - at0.at})
           d  == bmap([used |-> used, block |-> block, ino |-> ip[i],
                       new |-> {}, got |-> 0, full |-> FALSE], at0.bn)
           new == d.new \cup (IF k = m THEN {<<"data", d.got>>} ELSE {})
       IN  /\ k <= m
           /\ IF d.full
              THEN /\ halted' = "balloc: out of blocks"
                   /\ UNCHANGED <<used, block, logged, ip, io, dirty>>
              ELSE /\ used' = d.used
                   /\ ip' = [ip EXCEPT ![i] = d.ino]
                   /\ block' = [d.block EXCEPT ![d.got] =
                                  [c \in 0..BSIZE-1 |-> IF c \in at0.at..(at0.at + k - 1)
                                                        THEN Byte[p] ELSE @[c]]]
                   /\ dirty' = [dirty EXCEPT ![p] = @ \cup new]
                   /\ logged' = logged \cup {b \in Blocks : <<"data", b>> \in new}
                   /\ io' = IF k = m THEN [io EXCEPT ![p].tot = @ + m]
                            ELSE [io EXCEPT ![p].n1 = -1, ![p].torn = k]
                   /\ UNCHANGED halted
    /\ UNCHANGED <<dinode, holder, off, text, durable, ios>>

\* What a write of n cells c at offset o makes of a file, when t more were
\* copied by a turn that failed: each of these may be there or not.
Wrote(s, o, n, t, c) ==
    [k \in 1..Max({Len(s), o + n}) |->
        IF k \in o+1..o+n THEN {c}
        ELSE IF k \in o+n+1..o+n+t THEN s[k] \cup {c} ELSE s[k]]

\* Mutant: the inode is written back only when the file grew.
iupdate_IfGrown(i, ino) ==
    dinode' = [dinode EXCEPT ![i] = IF ino.size > dinode[i].size THEN ino ELSE @]

\* iupdate: the cached inode goes to its disk block.
iupdate(i, ino) == dinode' = [dinode EXCEPT ![i] = ino]

\* The end of writei and of filewrite's turn: size, iupdate, f->off, iunlock,
\* end_op.  n1 is -1 when the copy failed: a short write ends the call.
writei_end(p) ==
    LET f   == io[p].f
        i   == Ip[f]
        tot == io[p].tot
        ino == [ip[i] EXCEPT !.size = Max({@, off[f] + tot})]
    IN  /\ Running /\ io[p].pc = "writei" /\ tot >= io[p].n1
        /\ ip' = [ip EXCEPT ![i] = ino]
        /\ iupdate(i, ino)
        /\ off' = [off EXCEPT ![f] = @ + tot]
        /\ text' = [text EXCEPT ![i] = Wrote(@, off[f], tot, io[p].torn, Byte[p])]
        /\ holder' = [holder EXCEPT ![i] = "none"]
        /\ dirty' = [dirty EXCEPT ![p] = {}]
        /\ io' = [io EXCEPT ![p] =
                     IF tot = @.n1 /\ @.i + tot < @.n
                     THEN [pc |-> "filewrite", f |-> f, i |-> @.i + tot, n |-> @.n]
                     ELSE NoIO]
        /\ UNCHANGED <<used, block, halted, ios>>
        /\ Commit(p)

\* sys_read on an inode: readi under the inode's lock, f->off moved on.  When
\* the copy to the user fails, nothing changes.
sys_read(p, f, n) ==
    /\ Running /\ io[p] = NoIO /\ ios < MaxIO
    /\ f \in FilesOf[p] /\ holder[Ip[f]] = "none"
    /\ ios' = ios + 1
    /\ off' = [off EXCEPT ![f] = @ + Len(readi(Ip[f], @, n % Uint))]
    /\ UNCHANGED <<used, block, logged, dinode, ip, holder, text, durable, io, dirty, halted>>

\* The blocks itrunc frees.
Freed(i) == Referenced(ip[i], block)

\* open with O_TRUNC: itrunc frees every block of the file and iupdate saves
\* the empty inode, in a transaction of its own.  bfree panics on a free block.
\* A freed block's contents are dead (balloc zeroes); they are forgotten.
sys_open_trunc(p, f) ==
    /\ Running /\ io[p] = NoIO /\ ios < MaxIO
    /\ f \in FilesOf[p] /\ holder[Ip[f]] = "none"
    /\ ios' = ios + 1
    /\ LET i   == Ip[f]
           ino == [size |-> 0, addrs |-> NoAddrs]
       IN  /\ halted' = IF Freed(i) \subseteq used THEN "none" ELSE "freeing free block"
           /\ used' = used \ Freed(i)
           /\ block' = [b \in Blocks |-> IF b \in Freed(i) THEN Zeroes ELSE block[b]]
           /\ ip' = [ip EXCEPT ![i] = ino]
           /\ iupdate(i, ino)
           /\ text' = [text EXCEPT ![i] = <<>>]
    /\ UNCHANGED <<holder, off, io, dirty>>
    /\ Commit(p)

\* The machine stops and boots again: recovery leaves the last commit, the
\* inode cache is read from it, every file is opened afresh.
Crash ==
    /\ used' = durable.used
    /\ block' = durable.block /\ logged' = {}
    /\ dinode' = durable.dinode
    /\ ip' = durable.dinode
    /\ text' = durable.text
    /\ holder' = [i \in Inodes |-> "none"]
    /\ off' = [f \in Files |-> 0]
    /\ io' = [p \in Writers |-> NoIO]
    /\ dirty' = [p \in Writers |-> {}]
    /\ halted' = "none"
    /\ UNCHANGED <<durable, ios>>

DNext == \/ \E p \in Writers :
             \/ \E f \in Files, n \in Lengths : sys_write(p, f, n) \/ sys_read(p, f, n)
             \/ \E f \in Files : sys_open_trunc(p, f)
             \/ filewrite(p)
             \/ \E k \in 0..BSIZE : writei(p, k)
             \/ writei_end(p)
        \/ \E b \in Blocks : evict(b)
        \/ Crash

DSpec == DInit /\ [][DNext]_dvars
-----------------------------------------------------------------------------
DataTypeOK ==
    /\ used \subseteq Blocks /\ logged \subseteq Blocks
    /\ \A i \in Inodes : ip[i].size \in 0..MAXFILE*BSIZE
                        /\ DOMAIN ip[i].addrs = 0..NDIRECT
    /\ holder \in [Inodes -> Writers \cup {"none"}]
    /\ off \in [Files -> 0..MAXFILE*BSIZE]
    /\ \A p \in Writers : io[p].pc \in {"idle", "filewrite", "writei"}
    /\ halted \in {"none", "balloc: out of blocks", "freeing free block"}

\* Every read of a file nobody has locked, at any offset, returns as many bytes
\* as the writes so far have made the file long, and each of them is the byte
\* of the last successful write there or of a write that failed there since:
\* whatever writers of the same descriptor or of other files did in between,
\* whether a buffer with half a copy was recycled, logged by a later write or
\* lost in a crash, and across direct and indirect blocks, readi undoes what
\* writei, bmap and mkfs's iappend did.  A length of -1 reads all from offset 0.
ReadsBack ==
    \A i \in Inodes : holder[i] = "none" =>
        \A o \in 0..Len(text[i])+1 : \A n \in {l % Uint : l \in Lengths} :
            LET r == readi(i, o, n)
                len == Len(text[i])
            IN  /\ Len(r) = IF o > len \/ o + n >= Uint THEN 0 ELSE Min({n, len - o})
                /\ \A k \in DOMAIN r : r[k] \in text[i][o + k]

\* The places of an inode that hold a block number.
Places(ino, blk) ==
    Cardinality({a \in 0..NDIRECT : ino.addrs[a] # 0})
    + (IF ino.addrs[NDIRECT] = 0 THEN 0
       ELSE Cardinality({c \in 0..NINDIRECT-1 : blk[ino.addrs[NDIRECT]][c] # 0}))

\* Each block is in use by at most one place of one inode: the inodes refer to
\* as many blocks as they have places.
NoSharing(dino, blk) ==
    Cardinality(UNION {Referenced(dino[i], blk) : i \in Inodes})
    = MapThenSumSet(LAMBDA i : Places(dino[i], blk), Inodes)

\* After a commit, and so after any crash and recovery, the bitmap marks
\* exactly the blocks the inodes on disk refer to, and no block is referred to
\* twice: nothing is leaked and nothing free is in use, although balloc, bmap,
\* writei and iupdate change bitmap, blocks and inodes in separate steps.
BlocksAccounted ==
    /\ durable.used = UNION {Referenced(durable.dinode[i], durable.block) : i \in Inodes}
    /\ NoSharing(durable.dinode, durable.block)

\* At every moment, inside transactions too, no block belongs to two places
\* and none in use is marked free.
InUseMarked ==
    /\ NoSharing(ip, block)
    /\ \A i \in Inodes : Referenced(ip[i], block) \subseteq used
    /\ halted # "freeing free block"

\* Every block below a file's size is mapped, so readi, which iupdates
\* nothing, never has bmap allocate one.
NoHoles ==
    \A i \in Inodes : \A fbn \in 0..MAXFILE-1 :
        fbn * BSIZE < ip[i].size => AddrOf(ip[i], block, fbn) # 0

\* One chunk of filewrite, with its data, indirect, bitmap and inode blocks,
\* never logs more blocks than begin_op reserved for it: the arithmetic of
\* `max' is right for every alignment, even with a bitmap block per block.
TransactionFits ==
    \A p \in Writers : io[p].pc = "writei" => Cardinality(dirty[p]) + 1 <= MAXOPBLOCKS

\* The blocks of all files, together: types, bitmap and inodes after a commit and
\* inside transactions, and that what a file's size covers is mapped.
BlocksInv == DataTypeOK /\ BlocksAccounted /\ InUseMarked /\ NoHoles
=============================================================================
