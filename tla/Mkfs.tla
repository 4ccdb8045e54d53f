-------------------------------- MODULE Mkfs --------------------------------
(***************************************************************************)
(* mkfs/mkfs.c: the program that writes the file system image the kernel   *)
(* boots from.  A block is a function from 0..BSIZE-1 to cells; a cell is  *)
(* a byte of a file or a block number of an indirect block, so NINDIRECT   *)
(* is BSIZE here.  Only the data blocks are numbered: block b stands for   *)
(* block nmeta - 1 + b of the disk, and 0 is "no block".  A directory      *)
(* entry is one cell.                                                      *)
(***************************************************************************)
EXTENDS Integers, Sequences, SequencesExt, FiniteSetsExt

CONSTANTS BSIZE,     \* cells of a block
          NDIRECT,   \* direct block numbers of an inode
          NBLOCKS,   \* data blocks of the disk
          NINODES    \* inodes of the disk

NINDIRECT == BSIZE
MAXFILE   == NDIRECT + NINDIRECT
ROOTINO   == 1
Inodes    == 1..NINODES
Blocks    == 1..NBLOCKS
Zeroes    == [c \in 0..BSIZE-1 |-> 0]
NoAddrs   == [a \in 0..NDIRECT |-> 0]

\* The number of the block that holds block fbn of a file, 0 if there is none.
AddrOf(din, block, fbn) ==
    IF fbn < NDIRECT THEN din.addrs[fbn]
    ELSE IF din.addrs[NDIRECT] = 0 THEN 0
    ELSE block[din.addrs[NDIRECT]][fbn - NDIRECT]

\* The empty image: every sector zero, the first data block free.
Blank == [block     |-> [b \in Blocks |-> Zeroes],
          dinode    |-> [i \in Inodes |-> [size |-> 0, addrs |-> NoAddrs]],
          freeblock |-> 1,
          freeinode |-> ROOTINO]

\* iappend's allocation: block fbn, and the indirect block before it, take the
\* next numbers if they have none yet.
NewBlockFor(img, inum, fbn) ==
    LET din   == img.dinode[inum]
        f     == img.freeblock
        fresh == din.addrs[NDIRECT] = 0
        ind   == IF fresh THEN f ELSE din.addrs[NDIRECT]
        data  == IF fresh THEN f + 1 ELSE f
    IN  IF AddrOf(din, img.block, fbn) # 0 THEN img
        ELSE IF fbn < NDIRECT
        THEN [img EXCEPT !.dinode[inum].addrs[fbn] = f, !.freeblock = f + 1]
        ELSE [img EXCEPT !.dinode[inum].addrs[NDIRECT] = ind,
                         !.block[ind][fbn - NDIRECT] = data,
                         !.freeblock = data + 1]

\* One cell of iappend's copy: the loop's min() splits the copy at block
\* boundaries, so cell by cell it is the same copy.
AppendCell(img, inum, c) ==
    LET off == img.dinode[inum].size
        got == NewBlockFor(img, inum, off \div BSIZE)
        x   == AddrOf(got.dinode[inum], got.block, off \div BSIZE)
    IN  [got EXCEPT !.block[x][off % BSIZE] = c, !.dinode[inum].size = off + 1]

iappend(img, inum, cells) ==
    FoldLeft(LAMBDA m, c : AppendCell(m, inum, c), img, cells)

\* mkfs.c ialloc: the next inode number, its inode empty.
mkfs_ialloc(img) == [img EXCEPT !.freeinode = @ + 1]

\* One argument of mkfs: its inode, its entry in the root, its contents.
AddFile(img, cells) ==
    LET inum == img.freeinode
    IN  iappend(iappend(mkfs_ialloc(img), ROOTINO, <<inum>>), inum, cells)

\* The root's size is rounded up to whole blocks after the last entry.
FixRootSize(img) ==
    [img EXCEPT !.dinode[ROOTINO].size = (@ \div BSIZE + 1) * BSIZE]

\* balloc(freeblock): the bitmap marks every block handed out.
Bitmap(img) == 1..(img.freeblock - 1)

\* The image with the given files: the root gets "." and "..", then an entry
\* for each file.
Image(files) ==
    FixRootSize(FoldLeft(AddFile,
                         iappend(mkfs_ialloc(Blank), ROOTINO, <<ROOTINO, ROOTINO>>),
                         files))
=============================================================================
