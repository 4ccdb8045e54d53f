--------------------------- MODULE LogRefinement ---------------------------
(***************************************************************************)
(* The log (module Log) implements the atomic disk (module AtomicDisk):    *)
(* every step of log.c, crashes and recovery included, is a step of the    *)
(* atomic disk or changes nothing that it shows.                           *)
(***************************************************************************)
EXTENDS LogProofs

(* What recovery makes of header h, log blocks l and home blocks d.        *)
Replayed(h, l, d) ==
    [b \in Blocks |-> IF \E i \in DOMAIN h : h[i] = b
                      THEN l[CHOOSE i \in DOMAIN h : h[i] = b] ELSE d[b]]

(* A block named by the header is replayed from its slot, any other block  *)
(* keeps its home copy.                                                    *)
LEMMA ReplayedAt ==
    ASSUME NEW h, NEW l, NEW d, Distinct(h), NEW b \in Blocks
    PROVE  /\ \A i \in DOMAIN h : h[i] = b => Replayed(h, l, d)[b] = l[i]
           /\ (\A i \in DOMAIN h : h[i] # b) => Replayed(h, l, d)[b] = d[b]
<1>1. ASSUME NEW i \in DOMAIN h, h[i] = b PROVE Replayed(h, l, d)[b] = l[i]
  <2>1. (CHOOSE j \in DOMAIN h : h[j] = b) = i
    BY <1>1 DEF Distinct
  <2>. QED
    BY <1>1, <2>1 DEF Replayed
<1>. QED
  BY <1>1 DEF Replayed

(* Writing home blocks that the header names changes nothing for a         *)
(* recovery that starts over: replay is idempotent.                        *)
LEMMA InstallKeepsReplay ==
    ASSUME NEW h, NEW l, NEW d, NEW e,
           \A b \in Blocks : (\A j \in DOMAIN h : h[j] # b) => e[b] = d[b]
    PROVE  Replayed(h, l, e) = Replayed(h, l, d)
BY DEF Replayed

(* Once all is installed, the home blocks are what a recovery would leave, *)
(* so the header may be erased.                                            *)
LEMMA AllInstalled ==
    ASSUME NEW h, NEW l, NEW d \in [Blocks -> Vals], Distinct(h),
           \A i \in DOMAIN h : d[h[i]] = l[i]
    PROVE  Replayed(h, l, d) = d
<1>. SUFFICES ASSUME NEW b \in Blocks PROVE Replayed(h, l, d)[b] = d[b]
  BY DEF Replayed
<1>1. CASE \E i \in DOMAIN h : h[i] = b
  BY <1>1, ReplayedAt
<1>2. CASE \A i \in DOMAIN h : h[i] # b
  BY <1>2, ReplayedAt
<1>. QED
  BY <1>1, <1>2

(* With an empty header recovery leaves the home blocks alone.             *)
LEMMA NothingToReplay ==
    ASSUME NEW l, NEW d \in [Blocks -> Vals]
    PROVE  Replayed(<<>>, l, d) = d
<1>1. Distinct(<<>>) /\ \A i \in DOMAIN <<>> : d[<<>>[i]] = l[i]
  BY DEF Distinct
<1>. QED
  BY <1>1, AllInstalled

(* Recovered, and its value after a step, in terms of Replayed.            *)
LEMMA RecoveredIsReplay ==
    /\ Recovered = Replayed(diskHead, diskLog, disk)
    /\ Recovered' = Replayed(diskHead', diskLog', disk')
BY DEF Recovered, Replayed

(* The disk as recovery would leave it changes at write_head only, and     *)
(* there it becomes what the file system sees.                             *)
LEMMA RecoveredStep ==
    ASSUME IInv, [Next]_vars
    PROVE  \/ Recovered' = Recovered
           \/ \E p \in Procs : write_head(p) /\ Recovered' = [b \in Blocks |-> Content(b)]
<1>0. /\ TypeOK /\ HeadersFit /\ BootInv /\ CommitExclusive /\ CommitProgress
      /\ CacheInv
  BY DEF IInv
<1>t. /\ disk \in [Blocks -> Vals] /\ lh \in Seq(Blocks) /\ tail \in Nat \ {0}
      /\ pc \in [Procs -> Labels]
  BY <1>0 DEF TypeOK
<1>d. Distinct(lh) /\ Distinct(diskHead)
  BY <1>0 DEF HeadersFit
<1>u. UNCHANGED stable => Recovered' = Recovered
  BY RecoveredIsReplay DEF stable
<1>1. CASE recover_install
  <2>1. lh = diskHead /\ UNCHANGED <<diskHead, diskLog>>
    BY <1>0, <1>1 DEF recover_install, BootInv
  <2>2. CASE tail <= Len(lh)
    <3>1. disk' = [disk EXCEPT ![lh[tail]] = diskLog[tail]]
      BY <1>1, <1>t, <2>2 DEF recover_install
    <3>2. tail \in DOMAIN lh /\ lh[tail] \in Blocks
      BY <1>0, <2>2, LoopType
    <3>3. \A b \in Blocks : (\A j \in DOMAIN lh : lh[j] # b) => disk'[b] = disk[b]
      BY <1>t, <3>1, <3>2
    <3>4. Replayed(lh, diskLog, disk') = Replayed(lh, diskLog, disk)
      BY <3>3, InstallKeepsReplay
    <3>. QED
      BY <2>1, <3>4, RecoveredIsReplay
  <2>3. CASE tail > Len(lh)
    BY <1>1, <1>t, <1>u, <2>1, <2>3 DEF recover_install, stable
  <2>. QED
    BY <1>t, <2>2, <2>3
<1>2. CASE recover_clear
  <2>1. /\ lh = diskHead /\ InstalledBelow(Len(lh) + 1)
        /\ diskHead' = <<>> /\ UNCHANGED <<disk, diskLog>>
    BY <1>0, <1>2 DEF recover_clear, BootInv
  <2>2. \A i \in DOMAIN lh : disk[lh[i]] = diskLog[i]
    BY <1>t, <2>1 DEF InstalledBelow
  <2>. QED
    BY <1>d, <1>t, <2>1, <2>2, AllInstalled, NothingToReplay, RecoveredIsReplay
<1>3. ASSUME NEW p \in Procs, write_log(p) PROVE Recovered' = Recovered
  <2>1. pc[p] = "write_log" /\ boot = "up" /\ UNCHANGED <<disk, diskHead>>
    BY <1>3 DEF write_log, Running
  <2>2. diskHead = <<>>
    BY <1>0, <2>1, OnlyCommitter DEF CommitProgress, Committing
  <2>. QED
    BY <1>t, <2>1, <2>2, NothingToReplay, RecoveredIsReplay
<1>4. ASSUME NEW p \in Procs, write_head(p)
      PROVE  Recovered' = [b \in Blocks |-> Content(b)]
  <2>1. /\ pc[p] = "write_head" /\ boot = "up" /\ UNCHANGED <<disk, diskLog>>
        /\ diskHead' = lh
    BY <1>4 DEF write_head, Running
  <2>2. \A q \in Procs : pc[q] # "op" /\ pc[q] \notin {"install", "clear"}
    BY <1>0, <2>1, OnlyCommitter DEF Committing
  <2>3. \A i \in DOMAIN lh : Content(lh[i]) = diskLog[i]
    <3>1. ASSUME NEW i \in DOMAIN lh PROVE Content(lh[i]) = diskLog[i]
      <4>1. Pending(lh[i]) /\ lh[i] \in Blocks
        BY <1>t, <2>2 DEF Pending
      <4>2. diskLog[i] = buf[lh[i]]
        BY <1>0, <2>1 DEF CommitProgress, LoggedIn
      <4>. QED
        BY <1>0, <2>1, <4>1, <4>2 DEF CacheInv, Content
    <3>. QED
      BY <3>1
  <2>4. ASSUME NEW b \in Blocks, \A i \in DOMAIN lh : lh[i] # b
        PROVE  Content(b) = disk[b]
    <3>1. ~Pending(b) /\ holder[b] = NoProc
      BY <1>0, <2>1, <2>2, <2>4 DEF Pending, CacheInv, TypeOK
    <3>. QED
      BY <1>0, <2>1, <3>1 DEF CacheInv, Content
  <2>5. \A b \in Blocks : Replayed(lh, diskLog, disk)[b] = Content(b)
    BY <1>d, <2>3, <2>4, ReplayedAt
  <2>. QED
    BY <2>1, <2>5, RecoveredIsReplay DEF Replayed
<1>5. ASSUME NEW p \in Procs, install_trans(p) PROVE Recovered' = Recovered
  <2>1. lh = diskHead /\ UNCHANGED <<diskHead, diskLog>>
    BY <1>0, <1>5 DEF install_trans, CommitProgress, Running
  <2>2. CASE tail <= Len(lh)
    <3>1. disk' = [disk EXCEPT ![lh[tail]] = diskLog[tail]]
      BY <1>5, <1>t, <2>2 DEF install_trans
    <3>2. tail \in DOMAIN lh /\ lh[tail] \in Blocks
      BY <1>0, <2>2, LoopType
    <3>3. \A b \in Blocks : (\A j \in DOMAIN lh : lh[j] # b) => disk'[b] = disk[b]
      BY <1>t, <3>1, <3>2
    <3>4. Replayed(lh, diskLog, disk') = Replayed(lh, diskLog, disk)
      BY <3>3, InstallKeepsReplay
    <3>. QED
      BY <2>1, <3>4, RecoveredIsReplay
  <2>3. CASE tail > Len(lh)
    BY <1>5, <1>t, <1>u, <2>1, <2>3 DEF install_trans, stable
  <2>. QED
    BY <1>t, <2>2, <2>3
<1>6. ASSUME NEW p \in Procs, clear_head(p) PROVE Recovered' = Recovered
  <2>1. /\ lh = diskHead /\ InstalledBelow(Len(lh) + 1)
        /\ diskHead' = <<>> /\ UNCHANGED <<disk, diskLog>>
    BY <1>0, <1>6 DEF clear_head, CommitProgress, Running
  <2>2. \A i \in DOMAIN lh : disk[lh[i]] = diskLog[i]
    BY <1>t, <2>1 DEF InstalledBelow
  <2>. QED
    BY <1>d, <1>t, <2>1, <2>2, AllInstalled, NothingToReplay, RecoveredIsReplay
<1>7. ASSUME NEW p \in Procs,
             \/ begin_op(p) \/ end_op(p) \/ commit(p) \/ end_commit(p)
             \/ \E b \in Blocks : log_write(p, b) \/ \E v \in Vals : modify(p, b, v)
      PROVE  UNCHANGED stable
  BY <1>7 DEF begin_op, end_op, commit, end_commit, log_write, modify
<1>8. CASE read_head \/ crash \/ (\E b \in Blocks : bread(b) \/ recycle(b))
  BY <1>8, <1>u DEF read_head, crash, bread, recycle
<1>9. CASE UNCHANGED vars
  BY <1>9, <1>u DEF vars, stable
<1>. QED
  BY <1>1, <1>2, <1>3, <1>4, <1>5, <1>6, <1>7, <1>8, <1>9, <1>u DEF Next, Call

(* Committed data is never taken back: what recovery would restore changes *)
(* only at the write of a non-empty header in commit().                    *)
THEOREM DurabilityKept == Spec => RecoveredChangesOnlyAtCommit
<1>1. IInv /\ [Next]_vars =>
        [Recovered' # Recovered =>
           \E p \in Procs : pc[p] = "write_head" /\ pc'[p] = "install"]_vars
  <2>. SUFFICES ASSUME IInv, [Next]_vars, Recovered' # Recovered
                PROVE  \E p \in Procs : pc[p] = "write_head" /\ pc'[p] = "install"
    OBVIOUS
  <2>1. PICK p \in Procs : write_head(p)
    BY RecoveredStep
  <2>. QED
    BY <2>1 DEF write_head, IInv, TypeOK
<1>. QED
  BY <1>1, Invariance, PTL DEF Spec, RecoveredChangesOnlyAtCommit

(* Outside a call's own writes the file system's view of a block never     *)
(* changes: not by logging, installing, reading or recycling a buffer.     *)
LEMMA ImageKept ==
    ASSUME IInv, NEW b \in Blocks, boot = "up", boot' = "up",
           \/ \E p \in Procs :
                \/ begin_op(p) \/ end_op(p) \/ commit(p) \/ write_log(p) \/ write_head(p)
                \/ install_trans(p) \/ clear_head(p) \/ end_commit(p)
                \/ \E x \in Blocks : log_write(p, x)
           \/ \E x \in Blocks : bread(x) \/ recycle(x)
    PROVE  Content(b)' = Content(b)
<1>0. TypeOK /\ HeadersFit /\ CommitExclusive /\ CommitProgress /\ CacheInv
  BY DEF IInv
<1>t. /\ disk \in [Blocks -> Vals] /\ buf \in [Blocks -> Vals \cup {NoVal}]
      /\ tail \in Nat \ {0} /\ lh \in Seq(Blocks)
  BY <1>0 DEF TypeOK
<1>u. UNCHANGED <<disk, buf>> => Content(b)' = Content(b)
  BY DEF Content
<1>1. ASSUME NEW p \in Procs,
             \/ begin_op(p) \/ end_op(p) \/ commit(p) \/ write_head(p)
             \/ clear_head(p) \/ end_commit(p) \/ \E x \in Blocks : log_write(p, x)
      PROVE  Content(b)' = Content(b)
  BY <1>1, <1>u DEF begin_op, end_op, commit, write_head, clear_head, end_commit,
     log_write, stable, memory
<1>2. ASSUME NEW p \in Procs, write_log(p) PROVE Content(b)' = Content(b)
  <2>1. CASE tail <= Len(lh)
    <3>1. /\ buf' = [buf EXCEPT ![lh[tail]] = Content(lh[tail])] /\ disk' = disk
      BY <1>0, <1>2, <2>1, WriteLogTurn
    <3>2. lh[tail] \in Blocks /\ Content(lh[tail]) \in Vals
      BY <1>0, <2>1, LoopType
    <3>3. CASE b = lh[tail]
      BY <1>t, <3>1, <3>2, <3>3, LogAssumption DEF Content
    <3>4. CASE b # lh[tail]
      BY <1>t, <3>1, <3>4 DEF Content
    <3>. QED
      BY <3>3, <3>4
  <2>2. CASE tail > Len(lh)
    BY <1>0, <1>2, <1>u, <2>2, WriteLogTurn
  <2>. QED
    BY <1>t, <2>1, <2>2
<1>3. ASSUME NEW p \in Procs, install_trans(p) PROVE Content(b)' = Content(b)
  <2>1. CASE tail <= Len(lh)
    <3>1. /\ buf' = [buf EXCEPT ![lh[tail]] = diskLog[tail]]
          /\ disk' = [disk EXCEPT ![lh[tail]] = diskLog[tail]]
      BY <1>0, <1>3, <2>1, InstallTurn
    <3>2. tail \in DOMAIN lh /\ lh[tail] \in Blocks /\ diskLog[tail] \in Vals
      BY <1>0, <2>1, LoopType
    <3>3. diskLog[tail] = buf[lh[tail]]
      <4>1. LoggedIn({i \in DOMAIN lh : i >= tail})
        BY <1>0, <1>3 DEF install_trans, CommitProgress
      <4>. QED
        BY <1>t, <3>2, <4>1 DEF LoggedIn
    <3>4. CASE b = lh[tail]
      BY <1>t, <3>1, <3>2, <3>3, <3>4, LogAssumption DEF Content
    <3>5. CASE b # lh[tail]
      BY <1>t, <3>1, <3>5 DEF Content
    <3>. QED
      BY <3>4, <3>5
  <2>2. CASE tail > Len(lh)
    BY <1>0, <1>3, <1>u, <2>2, InstallTurn
  <2>. QED
    BY <1>t, <2>1, <2>2
<1>4. ASSUME NEW x \in Blocks, bread(x) \/ recycle(x) PROVE Content(b)' = Content(b)
  <2>1. disk' = disk /\ (x # b => buf'[b] = buf[b])
    BY <1>4, <1>t DEF bread, recycle, stable
  <2>2. buf[x] \in {NoVal, disk[x]} /\ buf'[x] \in {NoVal, disk[x]}
    <3>1. \/ buf[x] = NoVal /\ buf'[x] = disk[x]
          \/ refcnt[x] = 0 /\ holder[x] = NoProc /\ buf'[x] = NoVal
      BY <1>4, <1>t DEF bread, recycle
    <3>2. refcnt[x] = IF Pending(x) THEN 1 ELSE 0
      BY <1>0 DEF CacheInv
    <3>3. holder[x] = NoProc /\ ~Pending(x) => buf[x] \in {NoVal, disk[x]}
      BY <1>0 DEF CacheInv
    <3>4. refcnt[x] = 0 => ~Pending(x)
      BY <3>2
    <3>. QED
      BY <3>1, <3>3, <3>4
  <2>. QED
    BY <1>t, <2>1, <2>2 DEF Content
<1>. QED
  BY <1>1, <1>2, <1>3, <1>4

(* The set of active calls changes only in begin_op, end_op and a crash.   *)
LEMMA ActiveKept ==
    ASSUME TypeOK, NEW p \in Procs,
           \/ commit(p) \/ write_log(p) \/ write_head(p) \/ install_trans(p)
           \/ clear_head(p) \/ end_commit(p)
           \/ \E b \in Blocks : log_write(p, b) \/ \E v \in Vals : modify(p, b, v)
    PROVE  Labelled({"op"})' = Labelled({"op"})
<1>1. pc \in [Procs -> Labels]
  BY DEF TypeOK
<1>2. \A q \in Procs : pc'[q] = "op" <=> pc[q] = "op"
  BY <1>1 DEF commit, write_log, write_head, install_trans, clear_head,
     end_commit, log_write, modify, Woken
<1>. QED
  BY <1>2 DEF Labelled

(* Image, and its value after a step, by how far the boot has come.        *)
LEMMA ImageBy ==
    /\ boot = "up" => Image = [b \in Blocks |-> Content(b)]
    /\ boot # "up" => Image = Recovered
    /\ boot' = "up" => Image' = [b \in Blocks |-> Content(b)']
    /\ boot' # "up" => Image' = Recovered'
BY DEF Image

(* At power-on the log maps to an initial state of the atomic disk.        *)
LEMMA InitRefines == Init => Atomic!Init
<1>. SUFFICES ASSUME Init PROVE Atomic!Init
  OBVIOUS
<1>1. PICK v \in Vals : disk = [b \in Blocks |-> v]
  BY DEF Init
<1>2. Recovered = [b \in Blocks |-> v] /\ Image = Recovered
  BY <1>1 DEF Init, Image, Recovered
<1>3. Labelled({"op"}) = {}
  BY DEF Init, Labelled
<1>. QED
  BY <1>2, <1>3 DEF Atomic!Init

(* Every step of log.c is a step of the atomic disk or shows nothing.      *)
LEMMA StepRefines == IInv /\ [Next]_vars => [Atomic!Next]_(Atomic!vars)
<1>. SUFFICES ASSUME IInv, [Next]_vars PROVE [Atomic!Next]_(Atomic!vars)
  OBVIOUS
<1>0. TypeOK /\ BootInv /\ CommitExclusive
  BY DEF IInv
<1>t. /\ pc \in [Procs -> Labels] /\ disk \in [Blocks -> Vals]
      /\ buf \in [Blocks -> Vals \cup {NoVal}]
  BY <1>0 DEF TypeOK
<1>s. /\ Image' = Image /\ Recovered' = Recovered /\ Labelled({"op"})' = Labelled({"op"})
      => [Atomic!Next]_(Atomic!vars)
  BY DEF Atomic!vars
<1>1. CASE read_head \/ recover_install
  <2>1. boot # "up" /\ boot' # "up" /\ pc' = pc
    BY <1>1 DEF read_head, recover_install
  <2>2. Recovered' = Recovered
    BY <2>1, RecoveredStep DEF write_head, Running
  <2>. QED
    BY <1>s, <2>1, <2>2, ImageBy DEF Labelled
<1>2. CASE recover_clear
  <2>1. /\ boot = "clear" /\ boot' = "up" /\ diskHead' = <<>>
        /\ UNCHANGED <<pc, disk, diskLog, buf>>
    BY <1>2 DEF recover_clear, memory
  <2>2. Recovered' = Recovered
    BY <2>1, RecoveredStep DEF write_head, Running
  <2>3. Recovered' = disk
    BY <1>t, <2>1, RecoveredIsReplay, NothingToReplay
  <2>4. \A b \in Blocks : Content(b)' = disk[b]
    BY <1>0, <2>1 DEF BootInv, Content
  <2>5. Image' = disk
    BY <1>t, <2>1, <2>4, ImageBy
  <2>. QED
    BY <1>s, <2>1, <2>2, <2>3, <2>5, ImageBy DEF Labelled
<1>3. ASSUME NEW p \in Procs, begin_op(p) PROVE [Atomic!Next]_(Atomic!vars)
  <2>1. boot = "up" /\ boot' = "up"
    BY <1>3 DEF begin_op, Running
  <2>2. Image' = Image
    BY <1>3, <2>1, ImageKept, ImageBy
  <2>3. Recovered' = Recovered
    BY <1>3, RecoveredIsReplay DEF begin_op, stable
  <2>4. CASE pc' = [pc EXCEPT ![p] = "asleep"]
    <3>1. Labelled({"op"})' = Labelled({"op"})
      BY <1>3, <1>t, <2>4 DEF begin_op, Labelled
    <3>. QED
      BY <1>s, <2>2, <2>3, <3>1
  <2>5. CASE pc' = [pc EXCEPT ![p] = "op"]
    <3>1. Labelled({"op"})' = Labelled({"op"}) \cup {p} /\ p \notin Labelled({"op"})
      BY <1>3, <1>t, <2>5 DEF begin_op, Labelled
    <3>2. Atomic!Begin(p)
      BY <2>2, <2>3, <3>1 DEF Atomic!Begin
    <3>. QED
      BY <3>2 DEF Atomic!Next
  <2>. QED
    BY <1>3, <2>4, <2>5 DEF begin_op
<1>4. ASSUME NEW p \in Procs, NEW b \in Blocks, NEW v \in Vals, modify(p, b, v)
      PROVE  [Atomic!Next]_(Atomic!vars)
  <2>1. /\ boot = "up" /\ boot' = "up" /\ pc[p] = "op" /\ disk' = disk
        /\ buf' = [buf EXCEPT ![b] = v]
    BY <1>4 DEF modify, Running, stable
  <2>2. \A x \in Blocks : Content(x)' = IF x = b THEN v ELSE Content(x)
    BY <1>t, <2>1, LogAssumption DEF Content
  <2>3. Image' = [Image EXCEPT ![b] = v]
    BY <2>1, <2>2, ImageBy
  <2>4. Recovered' = Recovered
    BY <1>4, RecoveredIsReplay DEF modify, stable
  <2>5. Labelled({"op"})' = Labelled({"op"}) /\ p \in Labelled({"op"})
    BY <1>0, <1>4, <2>1, ActiveKept DEF Labelled
  <2>6. Atomic!Write(p, b, v)
    BY <2>3, <2>4, <2>5 DEF Atomic!Write
  <2>. QED
    BY <2>6 DEF Atomic!Next
<1>5. ASSUME NEW p \in Procs, end_op(p) PROVE [Atomic!Next]_(Atomic!vars)
  <2>1. boot = "up" /\ boot' = "up" /\ pc[p] = "op"
    BY <1>5 DEF end_op, Running
  <2>2. Image' = Image
    BY <1>5, <2>1, ImageKept, ImageBy
  <2>3. Recovered' = Recovered
    BY <1>5, RecoveredIsReplay DEF end_op, stable
  <2>4. \A q \in Procs : pc'[q] = "op" <=> pc[q] = "op" /\ q # p
    BY <1>5, <1>t DEF end_op, Woken
  <2>5. Labelled({"op"})' = Labelled({"op"}) \ {p} /\ p \in Labelled({"op"})
    BY <2>1, <2>4 DEF Labelled
  <2>6. Atomic!End(p)
    BY <2>2, <2>3, <2>5 DEF Atomic!End
  <2>. QED
    BY <2>6 DEF Atomic!Next
<1>6. ASSUME NEW p \in Procs,
             \/ commit(p) \/ write_log(p) \/ install_trans(p) \/ clear_head(p)
             \/ end_commit(p) \/ \E b \in Blocks : log_write(p, b)
      PROVE  [Atomic!Next]_(Atomic!vars)
  <2>1. boot = "up" /\ boot' = "up"
    BY <1>6, CallsAfterBoot DEF Call
  <2>2. Image' = Image
    BY <1>6, <2>1, ImageKept, ImageBy
  <2>3. ASSUME NEW q \in Procs PROVE ~write_head(q)
    <3>1. pc[p] \in (Committing \ {"write_head"}) \cup {"op"}
      BY <1>6 DEF commit, write_log, install_trans, clear_head, end_commit,
         log_write, Committing
    <3>2. pc[q] = "write_head" => q = p /\ pc[p] # "op"
      BY <1>0, <3>1, OnlyCommitter DEF Committing
    <3>. QED
      BY <3>1, <3>2 DEF write_head, Committing
  <2>4. Recovered' = Recovered
    BY <2>3, RecoveredStep
  <2>5. Labelled({"op"})' = Labelled({"op"})
    BY <1>0, <1>6, ActiveKept
  <2>. QED
    BY <1>s, <2>2, <2>4, <2>5
<1>7. ASSUME NEW p \in Procs, write_head(p) PROVE [Atomic!Next]_(Atomic!vars)
  <2>1. boot = "up" /\ boot' = "up" /\ pc[p] = "write_head"
    BY <1>7 DEF write_head, Running
  <2>2. Image' = Image /\ Image = [b \in Blocks |-> Content(b)]
    BY <1>7, <2>1, ImageKept, ImageBy
  <2>3. Labelled({"op"}) = {} /\ Labelled({"op"})' = Labelled({"op"})
    BY <1>0, <1>7, <2>1, OnlyCommitter, ActiveKept DEF Labelled, Committing
  <2>4. Recovered' = Image \/ Recovered' = Recovered
    BY <2>2, RecoveredStep
  <2>5. CASE Recovered' = Image
    <3>1. Atomic!Commit
      BY <2>2, <2>3, <2>5 DEF Atomic!Commit
    <3>. QED
      BY <3>1 DEF Atomic!Next
  <2>. QED
    BY <1>s, <2>2, <2>3, <2>4, <2>5
<1>8. ASSUME NEW b \in Blocks, bread(b) \/ recycle(b) PROVE [Atomic!Next]_(Atomic!vars)
  <2>1. boot = "up" /\ boot' = "up" /\ pc' = pc
    BY <1>8 DEF bread, recycle, Running
  <2>2. Image' = Image
    BY <1>8, <2>1, ImageKept, ImageBy
  <2>3. Recovered' = Recovered
    BY <1>8, RecoveredIsReplay DEF bread, recycle, stable
  <2>. QED
    BY <1>s, <2>1, <2>2, <2>3 DEF Labelled
<1>9. CASE crash
  <2>1. Recovered' = Recovered /\ boot' # "up" /\ Labelled({"op"})' = {}
    BY <1>9, RecoveredIsReplay DEF crash, stable, Labelled
  <2>2. Atomic!Crash
    BY <2>1, ImageBy DEF Atomic!Crash
  <2>. QED
    BY <2>2 DEF Atomic!Next
<1>10. CASE UNCHANGED vars
  BY <1>10, <1>s DEF vars, Image, Recovered, Content, Labelled
<1>. QED
  BY <1>1, <1>2, <1>3, <1>4, <1>5, <1>6, <1>7, <1>8, <1>9, <1>10 DEF Next, Call

(* log.c implements the atomic disk: a file system call is durable as a    *)
(* whole or not at all, whatever the calls, the log size and the crashes.  *)
THEOREM Refinement == Spec => ImplementsAtomicDisk
BY InitRefines, StepRefines, Invariance, PTL
   DEF Spec, ImplementsAtomicDisk, Atomic!Spec

=============================================================================
