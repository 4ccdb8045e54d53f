------------------------------- MODULE Inode --------------------------------
(***************************************************************************)
(* Inodes, directories, path names, open files and the system calls on     *)
(* them: kernel/fs.c, kernel/file.c and kernel/sysfile.c.  File contents   *)
(* are in module FileData.                                                 *)
(*                                                                         *)
(* Several processes run system calls at once.  A step is what happens     *)
(* between two points where a process can wait or be seen: a section under *)
(* one inode lock, or under itable.lock, is one step.  A system call is a  *)
(* transaction of the log: when the last one ends, what they wrote is      *)
(* committed, and a crash brings back what was committed (module Log shows *)
(* that the log does this).                                                *)
(***************************************************************************)
EXTENDS Naturals, Sequences, FiniteSets, FiniteSetsExt

CONSTANTS
    Callers, Names, \* Names: directory entries other than the dots
    NI,             \* inodes 1 .. NI on disk; 1 is the root
    NFILE, NOFILE,  \* open files, descriptors per process
    Starts,         \* trees and working directories to start from
    Calls,          \* per process the calls it makes: op, paths, arguments
    MaxCalls,       \* bound on the number of calls
    MayCrash,
    None

\* What the constants are.
ASSUME InodeAssumption ==
    NI \in Nat \ {0} /\ NFILE \in Nat /\ NOFILE \in Nat /\ MaxCalls \in Nat /\ MayCrash \in BOOLEAN

VARIABLES
    disk,       \* inodes and directories as the transactions have them
    committed,  \* the same as of the last commit
    mem,        \* itable: ref, valid and the cached type and nlink
    ilocks,     \* ip->lock
    file,       \* ftable: ref and ip
    ofile, cwd,
    inop,       \* processes between begin_op and end_op
    at,         \* per process: program counter and locals
    strays,     \* inodes without links left by a crash or overlooked by iput
    panic,      \* why the kernel has stopped
    calls       \* how many calls have been made

tvars == <<disk, committed, mem, ilocks, file, ofile, cwd, inop, at, strays, panic, calls>>
files == <<file, ofile>>

Inums == 1 .. NI
Root == 1
NoEnts == [nm \in Names |-> 0]

(* An inode with what is in it, if it is a directory: its entries and "..".*)
(* lost counts the entries for the inode that went with their directory;   *)
(* the disk does not have it.                                              *)
Free == [type |-> "none", nlink |-> 0, ents |-> NoEnts, up |-> 0, lost |-> 0]
Unused == [ref |-> 0, valid |-> FALSE, type |-> "none", nlink |-> 0]
Idle == [pc |-> "idle", call |-> None, path |-> <<>>, par |-> FALSE, cur |-> 0,
         name |-> None, ip |-> 0, dp |-> 0, put |-> 0, then |-> "idle", back |-> "idle"]

(* The table when the processes are in the directories w.                  *)
Table(d, w) ==
    [i \in Inums |->
       LET k == Cardinality({p \in Callers : w[p] = i}) IN
       IF k = 0 THEN Unused
       ELSE IF i = Root THEN [Unused EXCEPT !.ref = k]
       ELSE [ref |-> k, valid |-> TRUE, type |-> d[i].type, nlink |-> d[i].nlink]]

(* userinit: everybody is in the root directory.                           *)
AtRoot == [p \in Callers |-> Root]

(* A start s has a tree s.tree and the working directories s.cwd after     *)
(* s.calls calls: the image of mkfs, or what earlier calls have made of it.*)
TInit ==
    /\ \E s \in Starts :
         /\ disk = s.tree /\ committed = s.tree
         /\ cwd = s.cwd /\ mem = Table(s.tree, s.cwd)
         /\ calls = s.calls
    /\ ilocks = [i \in Inums |-> None]
    /\ file = [f \in 1 .. NFILE |-> [ref |-> 0, ip |-> 0]]
    /\ ofile = [p \in Callers |-> [fd \in 1 .. NOFILE |-> 0]]
    /\ inop = {} /\ at = [p \in Callers |-> Idle]
    /\ strays = {} /\ panic = None

----------------------------------------------------------------------------
(* The inode layer.                                                        *)

(* iget on a table m: find the entry or recycle one.                       *)
iget(m, i) == [m EXCEPT ![i] = IF @.ref > 0 THEN [@ EXCEPT !.ref = @ + 1]
                               ELSE [Unused EXCEPT !.ref = 1]]

(* The cached inode once ilock has read it.                                *)
Load(i) == IF mem[i].valid THEN mem[i]
           ELSE [mem[i] EXCEPT !.valid = TRUE, !.type = disk[i].type, !.nlink = disk[i].nlink]

(* ilock(i) succeeds; it panics on an unused entry or a free inode.        *)
ilock(i) == ilocks[i] = None
NoType(i) == mem[i].ref < 1 \/ Load(i).type = "none"

PanicIf(b) == panic' = IF b THEN "assertion" ELSE None

(* The panic at an inode that a path walk has found by its last element.   *)
PanicAt(i, nm) == panic' = IF NoType(i) THEN (IF nm = ".." THEN "no parent" ELSE "assertion")
                           ELSE None

Loaded(i) == [mem EXCEPT ![i] = Load(i)]

(* nlink changes in the table and, by iupdate, on disk.                    *)
Links(m, d, i, k) ==
    /\ mem' = [m EXCEPT ![i].nlink = k]
    /\ disk' = [d EXCEPT ![i].nlink = k]

Lookup(d, nm) == CASE nm = "." -> d [] nm = ".." -> disk[d].up [] OTHER -> disk[d].ents[nm]

L(p) == at[p]
Pc(p, label) == panic = None /\ at[p].pc = label
Set(p, r) == at' = [at EXCEPT ![p] = r]
Jump(p, label) == Set(p, [L(p) EXCEPT !.pc = label])

(* Call iput(i) and go on at label; r has the other locals.                *)
Put(p, r, i, label) == Set(p, [r EXCEPT !.pc = "iput", !.put = i, !.back = label])

(* A transaction is over; the last one commits.                            *)
end_op(p) ==
    /\ Pc(p, "end_op")
    /\ inop' = inop \ {p}
    /\ committed' = IF inop = {p} THEN disk ELSE committed
    /\ Set(p, Idle)
    /\ UNCHANGED <<disk, mem, ilocks, files, cwd, strays, panic, calls>>

----------------------------------------------------------------------------
(* iput(i)                                                                 *)

(* One reference less; an entry without references is free, and the model  *)
(* forgets what is left in it.                                             *)
Drop(i) == [mem EXCEPT ![i] = IF @.ref = 1 THEN Unused ELSE [@ EXCEPT !.ref = @ - 1]]

LastRef(i) == mem[i].ref = 1 /\ mem[i].valid /\ mem[i].nlink = 0

iput(p) ==
    LET i == L(p).put IN
    /\ Pc(p, "iput")
    /\ IF LastRef(i)
       THEN ilocks[i] = None /\ ilocks' = [ilocks EXCEPT ![i] = p] /\ Jump(p, "itrunc") /\ UNCHANGED mem
       ELSE /\ mem' = Drop(i)
            /\ Set(p, [L(p) EXCEPT !.pc = L(p).back, !.put = 0]) /\ UNCHANGED ilocks
    /\ UNCHANGED <<disk, committed, files, cwd, inop, strays, panic, calls>>

(* itrunc and iupdate with type 0: from here ialloc can take it again.  A  *)
(* removed directory goes with the entries made in it since.               *)
iput_trunc(p) ==
    LET i == L(p).put IN
    /\ Pc(p, "itrunc")
    /\ disk' = [j \in Inums |->
         IF j = i THEN Free
         ELSE [disk[j] EXCEPT !.lost = @ + Cardinality({nm \in Names : disk[i].ents[nm] = j})]]
    /\ mem' = [mem EXCEPT ![i].type = "none"]
    /\ strays' = strays \ {i}
    /\ Jump(p, "iput_valid")
    /\ UNCHANGED <<committed, ilocks, files, cwd, inop, panic, calls>>

(* Mutant: the entry of the freed inode stays valid.                       *)
iput_valid_Stays(p) ==
    LET i == L(p).put IN
    /\ Pc(p, "iput_valid")
    /\ ilocks' = [ilocks EXCEPT ![i] = None]
    /\ Jump(p, "iput_ref")
    /\ UNCHANGED <<disk, committed, mem, files, cwd, inop, strays, panic, calls>>

iput_valid(p) ==
    LET i == L(p).put IN
    /\ Pc(p, "iput_valid")
    /\ mem' = [mem EXCEPT ![i].valid = FALSE]
    /\ ilocks' = [ilocks EXCEPT ![i] = None]
    /\ Jump(p, "iput_ref")
    /\ UNCHANGED <<disk, committed, files, cwd, inop, strays, panic, calls>>

(* The reference goes without another look: by now ialloc may have given   *)
(* the inode to somebody who has unlinked it again.                        *)
iput_ref(p) ==
    LET i == L(p).put IN
    /\ Pc(p, "iput_ref")
    /\ mem' = Drop(i)
    /\ strays' = IF LastRef(i) THEN strays \cup {i} ELSE strays
    /\ Set(p, [L(p) EXCEPT !.pc = L(p).back, !.put = 0])
    /\ UNCHANGED <<disk, committed, ilocks, files, cwd, inop, panic, calls>>

----------------------------------------------------------------------------
(* namex, as namei and as nameiparent                                      *)

(* Start at the root or the working directory; the inode, or 0, will be in *)
(* cur at label then.                                                      *)
namex(m, p, r, path, par, then) ==
    LET abs == path # <<>> /\ Head(path) = "/"
        start == IF abs THEN Root ELSE cwd[p]
    IN  /\ mem' = iget(m, start)
        /\ Set(p, [r EXCEPT !.pc = "walk", !.cur = start, !.par = par, !.then = then,
                            !.path = IF abs THEN Tail(path) ELSE path])

Parent(op) == op \in {"unlink", "create", "mkdir", "mknod"}

begin_op(p, c) ==
    /\ Pc(p, "idle") /\ calls < MaxCalls /\ calls' = calls + 1
    /\ inop' = inop \cup {p}
    /\ namex(mem, p, [Idle EXCEPT !.call = c], c.path, Parent(c.op), c.op)
    /\ UNCHANGED <<disk, committed, ilocks, files, cwd, strays, panic>>

walk_end(p) ==
    LET r == L(p) IN
    /\ Pc(p, "walk") /\ r.path = <<>>
    /\ IF r.par THEN Put(p, [r EXCEPT !.cur = 0], r.cur, r.then) ELSE Jump(p, r.then)
    /\ UNCHANGED <<disk, committed, mem, ilocks, files, cwd, inop, strays, panic, calls>>

(* One element, under the lock of cur, then iput(cur).                     *)
walk(p) ==
    LET r == L(p)
        i == r.cur
        nm == Head(r.path)
        next == Lookup(i, nm)
    IN
    /\ Pc(p, "walk") /\ r.path # <<>> /\ ilock(i)
    /\ PanicAt(i, r.name)
    /\ \/ /\ Load(i).type # "DIR"
          /\ mem' = Loaded(i)
          /\ Put(p, [r EXCEPT !.cur = 0], i, r.then)
       \/ /\ Load(i).type = "DIR" /\ r.par /\ Len(r.path) = 1
          /\ mem' = Loaded(i)
          /\ Set(p, [r EXCEPT !.pc = r.then, !.name = nm, !.path = <<>>])
       \/ /\ Load(i).type = "DIR" /\ ~(r.par /\ Len(r.path) = 1) /\ next = 0
          /\ mem' = Loaded(i)
          /\ Put(p, [r EXCEPT !.cur = 0], i, r.then)
       \/ /\ Load(i).type = "DIR" /\ ~(r.par /\ Len(r.path) = 1) /\ next # 0
          /\ mem' = iget(Loaded(i), next)
          /\ Put(p, [r EXCEPT !.cur = next, !.name = nm, !.path = Tail(@)], i, "walk")
    /\ UNCHANGED <<disk, committed, ilocks, files, cwd, inop, strays, calls>>

(* The path was not there.                                                 *)
not_found(p) ==
    /\ L(p).pc \in {"open", "chdir", "link", "unlink", "create", "mkdir", "mknod"}
    /\ panic = None /\ L(p).cur = 0
    /\ Jump(p, "end_op")
    /\ UNCHANGED <<disk, committed, mem, ilocks, files, cwd, inop, strays, panic, calls>>

----------------------------------------------------------------------------
(* open, chdir                                                             *)

Found(p, label) == Pc(p, label) /\ L(p).cur # 0 /\ ilock(L(p).cur)

(* sys_open without O_CREATE: a directory can only be read.                *)
open_namei(p) ==
    LET r == L(p)
        i == r.cur IN
    /\ Found(p, "open")
    /\ PanicAt(i, L(p).name)
    /\ mem' = Loaded(i)
    /\ IF Load(i).type = "DIR" /\ r.call.mode # "r"
       THEN Put(p, Idle, i, "end_op") /\ UNCHANGED ilocks
       ELSE /\ ilocks' = [ilocks EXCEPT ![i] = p]
            /\ Set(p, [Idle EXCEPT !.pc = "open_file", !.ip = i])
    /\ UNCHANGED <<disk, committed, files, cwd, inop, strays, calls>>

FreeFiles == {f \in 1 .. NFILE : file[f].ref = 0}
FreeFds(p) == {fd \in 1 .. NOFILE : ofile[p][fd] = 0}

(* Mutant: when there is no descriptor the file stays allocated.           *)
open_fails_KeepFile(p) ==
    LET i == L(p).ip IN
    /\ Pc(p, "open_file")
    /\ FreeFiles = {} \/ FreeFds(p) = {} \/ mem[i].type = "NODEV"
    /\ ilocks' = [ilocks EXCEPT ![i] = None]
    /\ Put(p, Idle, i, "end_op")
    /\ file' = IF FreeFiles # {} /\ FreeFds(p) = {}
               THEN [file EXCEPT ![Min(FreeFiles)].ref = 1] ELSE file
    /\ UNCHANGED <<disk, committed, mem, ofile, cwd, inop, strays, panic, calls>>

(* A device out of range, no struct file, or no descriptor.                *)
open_fails(p) ==
    LET i == L(p).ip IN
    /\ Pc(p, "open_file")
    /\ FreeFiles = {} \/ FreeFds(p) = {} \/ mem[i].type = "NODEV"
    /\ ilocks' = [ilocks EXCEPT ![i] = None]
    /\ Put(p, Idle, i, "end_op")
    /\ UNCHANGED <<disk, committed, mem, files, cwd, inop, strays, panic, calls>>

(* filealloc and fdalloc; the file takes over the reference to the inode.  *)
open_file(p) ==
    LET i == L(p).ip
        f == Min(FreeFiles) IN
    /\ Pc(p, "open_file")
    /\ FreeFiles # {} /\ FreeFds(p) # {} /\ mem[i].type # "NODEV"
    /\ file' = [file EXCEPT ![f] = [ref |-> 1, ip |-> i]]
    /\ ofile' = [ofile EXCEPT ![p][Min(FreeFds(p))] = f]
    /\ ilocks' = [ilocks EXCEPT ![i] = None]
    /\ Set(p, [Idle EXCEPT !.pc = "end_op"])
    /\ UNCHANGED <<disk, committed, mem, cwd, inop, strays, panic, calls>>

(* p->cwd is assigned after end_op; only p itself looks at it.             *)
chdir(p) ==
    LET i == L(p).cur IN
    /\ Found(p, "chdir")
    /\ PanicAt(i, L(p).name)
    /\ mem' = Loaded(i)
    /\ IF Load(i).type # "DIR" THEN Put(p, Idle, i, "end_op") /\ UNCHANGED cwd
       ELSE Put(p, Idle, cwd[p], "end_op") /\ cwd' = [cwd EXCEPT ![p] = i]
    /\ UNCHANGED <<disk, committed, ilocks, files, inop, strays, calls>>

----------------------------------------------------------------------------
(* link                                                                    *)

link_ip(p) ==
    LET r == L(p)
        i == r.cur IN
    /\ Found(p, "link")
    /\ PanicAt(i, L(p).name)
    /\ IF Load(i).type = "DIR"
       THEN mem' = Loaded(i) /\ Put(p, Idle, i, "end_op") /\ UNCHANGED disk
       ELSE LET k == Load(i).nlink + 1
                m == [Loaded(i) EXCEPT ![i].nlink = k]
            IN  /\ disk' = [disk EXCEPT ![i].nlink = k]
                /\ namex(m, p, [r EXCEPT !.ip = i, !.name = None], r.call.new, TRUE, "link_dp")
    /\ UNCHANGED <<committed, ilocks, files, cwd, inop, strays, calls>>

(* dirlink: the name must be new; an entry found is put again under the    *)
(* directory's lock.                                                       *)
link_dp(p) ==
    LET r == L(p)
        d == r.cur
        old == Lookup(d, r.name) IN
    /\ Found(p, "link_dp")
    /\ PanicIf(NoType(d))
    /\ IF old = 0
       THEN /\ mem' = Loaded(d)
            /\ disk' = [disk EXCEPT ![d].ents[r.name] = r.ip]
            /\ Put(p, [Idle EXCEPT !.ip = r.ip], d, "put_ip")
            /\ UNCHANGED ilocks
       ELSE /\ mem' = iget(Loaded(d), old)
            /\ ilocks' = [ilocks EXCEPT ![d] = p]
            /\ Put(p, [Idle EXCEPT !.ip = r.ip, !.dp = d], old, "link_exists")
            /\ UNCHANGED disk
    /\ UNCHANGED <<committed, files, cwd, inop, strays, calls>>

link_exists(p) ==
    LET r == L(p) IN
    /\ Pc(p, "link_exists")
    /\ ilocks' = [ilocks EXCEPT ![r.dp] = None]
    /\ Put(p, [Idle EXCEPT !.ip = r.ip], r.dp, "link_bad")
    /\ UNCHANGED <<disk, committed, mem, files, cwd, inop, strays, panic, calls>>

link_bad(p) ==
    LET i == L(p).ip IN
    /\ Pc(p, "link_bad") \/ (Pc(p, "link_dp") /\ L(p).cur = 0)
    /\ ilock(i)
    /\ PanicIf(NoType(i))
    /\ Links(Loaded(i), disk, i, Load(i).nlink - 1)
    /\ Put(p, Idle, i, "end_op")
    /\ UNCHANGED <<committed, ilocks, files, cwd, inop, strays, calls>>

put_ip(p) ==
    /\ Pc(p, "put_ip")
    /\ Put(p, Idle, L(p).ip, "end_op")
    /\ UNCHANGED <<disk, committed, mem, ilocks, files, cwd, inop, strays, panic, calls>>

----------------------------------------------------------------------------
(* unlink                                                                  *)

(* Under the directory's lock, which is kept when the name is found.       *)
unlink_dp(p) ==
    LET r == L(p)
        d == r.cur
        i == Lookup(d, r.name) IN
    /\ Found(p, "unlink")
    /\ PanicIf(NoType(d))
    /\ IF r.name \in {".", ".."} \/ i = 0
       THEN mem' = Loaded(d) /\ Put(p, Idle, d, "end_op") /\ UNCHANGED ilocks
       ELSE /\ mem' = iget(Loaded(d), i)
            /\ ilocks' = [ilocks EXCEPT ![d] = p]
            /\ Set(p, [r EXCEPT !.pc = "unlink_ip", !.cur = 0, !.dp = d, !.ip = i])
    /\ UNCHANGED <<disk, committed, files, cwd, inop, strays, calls>>

isdirempty(i) == disk[i].ents = NoEnts

unlink_fails(p) ==
    LET r == L(p) IN
    /\ Pc(p, "unlink_ip") /\ ilock(r.ip)
    /\ Load(r.ip).type = "DIR" /\ ~isdirempty(r.ip)
    /\ PanicIf(NoType(r.ip) \/ Load(r.ip).nlink < 1)
    /\ mem' = Loaded(r.ip)
    /\ Put(p, [Idle EXCEPT !.dp = r.dp], r.ip, "unlink_bad")
    /\ UNCHANGED <<disk, committed, ilocks, files, cwd, inop, strays, calls>>

unlink_bad(p) ==
    /\ Pc(p, "unlink_bad")
    /\ ilocks' = [ilocks EXCEPT ![L(p).dp] = None]
    /\ Put(p, Idle, L(p).dp, "end_op")
    /\ UNCHANGED <<disk, committed, mem, files, cwd, inop, strays, panic, calls>>

(* The entry goes, and the ".." of a directory; the inode stays locked.    *)
unlink_entry(p) ==
    LET r == L(p)
        m == Loaded(r.ip)
        d == [disk EXCEPT ![r.dp].ents[r.name] = 0]
        isdir == Load(r.ip).type = "DIR" IN
    /\ Pc(p, "unlink_ip") /\ ilock(r.ip)
    /\ isdir => isdirempty(r.ip)
    /\ PanicIf(NoType(r.ip) \/ Load(r.ip).nlink < 1)
    /\ Links(m, d, r.dp, IF isdir THEN m[r.dp].nlink - 1 ELSE m[r.dp].nlink)
    /\ ilocks' = [ilocks EXCEPT ![r.dp] = None, ![r.ip] = p]
    /\ Put(p, [Idle EXCEPT !.ip = r.ip], r.dp, "unlink_ip_nlink")
    /\ UNCHANGED <<committed, files, cwd, inop, strays, calls>>

unlink_nlink(p) ==
    LET i == L(p).ip IN
    /\ Pc(p, "unlink_ip_nlink")
    /\ Links(mem, disk, i, mem[i].nlink - 1)
    /\ ilocks' = [ilocks EXCEPT ![i] = None]
    /\ Put(p, Idle, i, "end_op")
    /\ UNCHANGED <<committed, files, cwd, inop, strays, panic, calls>>

----------------------------------------------------------------------------
(* create(), for open with O_CREATE, mkdir and mknod                       *)

CreateFound(p) == L(p).pc \in {"create", "mkdir", "mknod"} /\ Found(p, L(p).pc)

(* Mutant: the directory stays locked while the inode is locked.           *)
create_exists_KeepDir(p) ==
    LET r == L(p)
        d == r.cur
        i == Lookup(d, r.name) IN
    /\ CreateFound(p) /\ i # 0
    /\ PanicIf(NoType(d))
    /\ mem' = iget(Loaded(d), i)
    /\ ilocks' = [ilocks EXCEPT ![d] = p]
    /\ Put(p, [Idle EXCEPT !.call = r.call, !.name = r.name, !.ip = i], d, "create_old")
    /\ UNCHANGED <<disk, committed, files, cwd, inop, strays, calls>>

(* The name exists: let go of the directory, then look at the inode.       *)
create_exists(p) ==
    LET r == L(p)
        d == r.cur
        i == Lookup(d, r.name) IN
    /\ CreateFound(p) /\ i # 0
    /\ PanicIf(NoType(d))
    /\ mem' = iget(Loaded(d), i)
    /\ Put(p, [Idle EXCEPT !.call = r.call, !.name = r.name, !.ip = i], d, "create_old")
    /\ UNCHANGED <<disk, committed, ilocks, files, cwd, inop, strays, calls>>

create_old(p) ==
    LET r == L(p)
        i == r.ip IN
    /\ Pc(p, "create_old") /\ ilock(i)
    /\ PanicAt(i, r.name)
    /\ mem' = Loaded(i)
    /\ IF r.call.op = "create" /\ Load(i).type # "DIR"
       THEN ilocks' = [ilocks EXCEPT ![i] = p] /\ Set(p, [Idle EXCEPT !.pc = "open_file", !.ip = i])
       ELSE Put(p, Idle, i, "end_op") /\ UNCHANGED ilocks
    /\ UNCHANGED <<disk, committed, files, cwd, inop, strays, calls>>

FreeInodes == {i \in Inums : disk[i].type = "none"}

(* ialloc takes the first free inode on disk; the directory stays locked.  *)
ialloc(p) ==
    LET r == L(p)
        d == r.cur
        i == Min(FreeInodes) IN
    /\ CreateFound(p) /\ Lookup(d, r.name) = 0 /\ FreeInodes # {}
    /\ PanicIf(NoType(d))
    /\ disk' = [disk EXCEPT ![i] = [Free EXCEPT !.type = r.call.type]]
    /\ mem' = iget(Loaded(d), i)
    /\ ilocks' = [ilocks EXCEPT ![d] = p]
    /\ Set(p, [r EXCEPT !.pc = "create_new", !.cur = 0, !.dp = d, !.ip = i])
    /\ UNCHANGED <<committed, files, cwd, inop, strays, calls>>

ialloc_fails(p) ==
    /\ CreateFound(p) /\ Lookup(L(p).cur, L(p).name) = 0 /\ FreeInodes = {}
    /\ panic' = "no inodes"
    /\ UNCHANGED <<disk, committed, mem, ilocks, files, cwd, inop, at, strays, calls>>

(* The new inode, its dots, and its entry.                                 *)
create_new(p) ==
    LET r == L(p)
        isdir == r.call.type = "DIR"
        m == [Loaded(r.ip) EXCEPT ![r.ip].nlink = 1]
        d == [disk EXCEPT ![r.ip].nlink = 1, ![r.ip].up = IF isdir THEN r.dp ELSE 0,
                          ![r.dp].ents[r.name] = r.ip]
    IN
    /\ Pc(p, "create_new") /\ ilock(r.ip)
    /\ PanicIf(NoType(r.ip))
    /\ Links(m, d, r.dp, IF isdir THEN m[r.dp].nlink + 1 ELSE m[r.dp].nlink)
    /\ ilocks' = [ilocks EXCEPT ![r.dp] = None, ![r.ip] = p]
    /\ Put(p, [Idle EXCEPT !.ip = r.ip], r.dp,
           IF r.call.op = "create" THEN "open_file" ELSE "created")
    /\ UNCHANGED <<committed, files, cwd, inop, strays, calls>>

created(p) ==
    LET i == L(p).ip IN
    /\ Pc(p, "created")
    /\ ilocks' = [ilocks EXCEPT ![i] = None]
    /\ Put(p, Idle, i, "end_op")
    /\ UNCHANGED <<disk, committed, mem, files, cwd, inop, strays, panic, calls>>

----------------------------------------------------------------------------
(* Descriptors: close, dup, and a use of the file.                         *)

close(p, fd) ==
    LET f == ofile[p][fd] IN
    /\ Pc(p, "idle") /\ f # 0
    /\ ofile' = [ofile EXCEPT ![p][fd] = 0]
    /\ IF file[f].ref > 1
       THEN file' = [file EXCEPT ![f].ref = @ - 1] /\ UNCHANGED <<at, inop>>
       ELSE /\ file' = [file EXCEPT ![f] = [ref |-> 0, ip |-> 0]]
            /\ inop' = inop \cup {p}
            /\ Put(p, Idle, file[f].ip, "end_op")
    /\ UNCHANGED <<disk, committed, mem, ilocks, cwd, strays, panic, calls>>

dup(p, fd) ==
    LET f == ofile[p][fd] IN
    /\ Pc(p, "idle") /\ f # 0 /\ FreeFds(p) # {}
    /\ ofile' = [ofile EXCEPT ![p][Min(FreeFds(p))] = f]
    /\ file' = [file EXCEPT ![f].ref = @ + 1]
    /\ UNCHANGED <<disk, committed, mem, ilocks, cwd, inop, at, strays, panic, calls>>

(* fstat, and read and write as far as they lock the inode.                *)
filestat(p, fd) ==
    LET i == file[ofile[p][fd]].ip IN
    /\ Pc(p, "idle") /\ ofile[p][fd] # 0 /\ ilock(i)
    /\ PanicIf(NoType(i))
    /\ mem' = Loaded(i)
    /\ UNCHANGED <<disk, committed, ilocks, files, cwd, inop, at, strays, calls>>

----------------------------------------------------------------------------
(* A crash and the next boot.                                              *)
crash ==
    /\ MayCrash /\ panic = None
    /\ LET d == committed IN
       /\ disk' = d /\ committed' = d
       /\ mem' = Table(d, AtRoot)
       /\ strays' = {i \in Inums : d[i].type # "none" /\ d[i].nlink = 0}
    /\ ilocks' = [i \in Inums |-> None]
    /\ file' = [f \in 1 .. NFILE |-> [ref |-> 0, ip |-> 0]]
    /\ ofile' = [p \in Callers |-> [fd \in 1 .. NOFILE |-> 0]]
    /\ cwd' = AtRoot /\ inop' = {}
    /\ at' = [p \in Callers |-> Idle]
    /\ UNCHANGED <<panic, calls>>

TNext ==
    \/ \E p \in Callers :
         \/ \E c \in Calls[p] : begin_op(p, c)
         \/ \E fd \in 1 .. NOFILE : close(p, fd) \/ dup(p, fd) \/ filestat(p, fd)
         \/ iput(p) \/ iput_trunc(p) \/ iput_valid(p) \/ iput_ref(p) \/ end_op(p)
         \/ walk_end(p) \/ walk(p) \/ not_found(p)
         \/ open_namei(p) \/ open_fails(p) \/ open_file(p) \/ chdir(p)
         \/ link_ip(p) \/ link_dp(p) \/ link_exists(p) \/ link_bad(p) \/ put_ip(p)
         \/ unlink_dp(p) \/ unlink_fails(p) \/ unlink_bad(p) \/ unlink_entry(p)
         \/ unlink_nlink(p)
         \/ create_exists(p) \/ create_old(p) \/ ialloc(p) \/ ialloc_fails(p)
         \/ create_new(p) \/ created(p)
    \/ crash

TSpec == TInit /\ [][TNext]_tvars

----------------------------------------------------------------------------
(* Properties.                                                             *)

Types == {"none", "FILE", "DIR", "DEV", "NODEV"}

TreeTypeOK ==
    /\ \A d \in {disk, committed} :
         d \in [Inums -> [type : Types, nlink : Nat, ents : [Names -> 0 .. NI], up : 0 .. NI,
                        lost : Nat]]
    /\ mem \in [Inums -> [ref : Nat, valid : BOOLEAN, type : Types, nlink : Nat]]
    /\ ilocks \in [Inums -> Callers \cup {None}]
    /\ file \in [1 .. NFILE -> [ref : Nat, ip : 0 .. NI]]
    /\ ofile \in [Callers -> [1 .. NOFILE -> 0 .. NFILE]]
    /\ cwd \in [Callers -> Inums] /\ inop \subseteq Callers /\ strays \subseteq Inums

Uses(p, i) == Cardinality({k \in {"cur", "ip", "dp", "put"} : at[p][k] = i})

(* Every reference count is exact on every path through every call: an     *)
(* inode's is the number of working directories, open files and locals of  *)
(* running calls that point to it, a file's the number of descriptors.     *)
RefCounts ==
    /\ \A i \in Inums :
         mem[i].ref = Cardinality({p \in Callers : cwd[p] = i})
                      + Cardinality({f \in 1 .. NFILE : file[f].ref > 0 /\ file[f].ip = i})
                      + MapThenSumSet(LAMBDA p : Uses(p, i), Callers)
    /\ \A f \in 1 .. NFILE :
         file[f].ref = Cardinality({e \in Callers \X (1 .. NOFILE) : ofile[e[1]][e[2]] = f})

Entries(d, i) == Cardinality({e \in Inums \X Names : d[e[1]].ents[e[2]] = i})
Subdirs(d, i) == Cardinality({j \in Inums : d[j].up = i /\ \E e \in Inums \X Names :
                                                             d[e[1]].ents[e[2]] = j})

(* What a crash can leave is consistent: in the committed image the link   *)
(* count of every inode is the number of directory entries for it, ".." of *)
(* its subdirectories included, plus the entries that went with a removed  *)
(* directory in which they were made (which leave a count too high).  An   *)
(* unlinked inode that was in use at the crash has a count of 0.           *)
LinkCounts ==
    \A i \in Inums :
      committed[i].nlink = Entries(committed, i) + Subdirs(committed, i)
                           + committed[i].lost + (IF i = Root THEN 1 ELSE 0)

Orphans == {i \in Inums : disk[i].type # "none" /\ disk[i].nlink = 0 /\ mem[i].ref = 0}

(* An inode without links lives only as long as it is in use: the last     *)
(* iput frees it on disk ("If that was the last reference and the inode    *)
(* has no links to it, free the inode (and its content) on disk").         *)
NoOrphans == inop = {} => Orphans = {}

(* The same but for the inodes that a crash has left without links and for *)
(* those that iput_ref has overlooked.                                     *)
FreedWithLastRef == inop = {} => Orphans \subseteq strays

(* A cached inode that nobody has locked is the one on disk, also after    *)
(* ialloc has taken a number that iput was still giving back.              *)
CacheCoherent ==
    \A i \in Inums : mem[i].valid /\ ilocks[i] = None =>
                       mem[i].type = disk[i].type /\ mem[i].nlink = disk[i].nlink

(* A directory that has an entry has it in the directory that its ".."     *)
(* names, also after removals and the reuse of inode numbers.              *)
UpIsParent ==
    \A i \in Inums : \A nm \in Names :
      LET j == disk[i].ents[nm] IN
      j # 0 => disk[i].type = "DIR" /\ (disk[j].type = "DIR" => disk[j].up = i)

(* ilock never finds a free inode and unlink never a link count of 0: what *)
(* an open file, a working directory or a directory entry refers to is     *)
(* there.  The exception is "..", which the code keeps in a removed        *)
(* directory: a process in it can be led to an inode that is free by then, *)
(* and ilock panics ("no parent"); UpIsParent says that nobody else can.   *)
NoPanic == panic # "assertion"

Wants(p) == IF at[p].pc \in {"unlink_ip", "create_new", "create_old"} THEN at[p].ip
            ELSE IF at[p].pc = "iput" /\ LastRef(at[p].put) THEN at[p].put ELSE 0
WaitsFor(p, q) == Wants(p) # 0 /\ ilocks[Wants(p)] = q

(* Calls that lock two inodes never wait for each other in a circle, and   *)
(* iput, which holds itable.lock, never waits for an inode at all.         *)
NoLockCycle ==
    /\ \A S \in SUBSET Callers \ {{}} : \E p \in S : \A q \in S : ~WaitsFor(p, q)
    /\ \A p \in Callers : at[p].pc = "iput" /\ LastRef(at[p].put) => ilocks[at[p].put] = None

(* The tree in memory and on disk, together: the types, the counts a crash *)
(* leaves, "..", the cache, what ilock and unlink find, and that what has  *)
(* lost its last link and its last reference is free.                      *)
TreeInv == TreeTypeOK /\ LinkCounts /\ UpIsParent /\ CacheCoherent /\ FreedWithLastRef /\ NoPanic
=============================================================================
