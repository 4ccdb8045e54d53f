----------------------------- MODULE LogReserve -----------------------------
(***************************************************************************)
(* Admission to the log: a process asleep in begin_op has a waker, and the *)
(* space begin_op reserves is enough.                                      *)
(***************************************************************************)
EXTENDS LogProofs

(* Waiting is kept sound by every step: begin_op sleeps for a call or a    *)
(* commit, because an idle log is empty and has room for one call.         *)
LEMMA WaitStep ==
    IInv /\ SleepersHaveAWaker /\ [Next]_vars => SleepersHaveAWaker'
<1>. SUFFICES ASSUME IInv, SleepersHaveAWaker, [Next]_vars
              PROVE  SleepersHaveAWaker'
  OBVIOUS
<1>0. TypeOK /\ BootInv /\ CommitExclusive
  BY DEF IInv
<1>t. pc \in [Procs -> Labels] /\ outstanding \in Nat /\ lh \in Seq(Blocks)
  BY <1>0 DEF TypeOK
<1>k. /\ Labelled({"asleep"})' \subseteq Labelled({"asleep"}) /\ UNCHANGED counts
      => SleepersHaveAWaker'
  BY DEF SleepersHaveAWaker, counts
<1>1. CASE read_head \/ recover_install \/ recover_clear \/ UNCHANGED vars
  BY <1>1, <1>k DEF read_head, recover_install, recover_clear, vars, counts, Labelled
<1>2. ASSUME NEW p \in Procs, begin_op(p) PROVE SleepersHaveAWaker'
  <2>1. CASE committing
    BY <1>2, <2>1 DEF begin_op, SleepersHaveAWaker
  <2>2. CASE ~committing /\ NoSpace /\ outstanding' = outstanding
    <3>1. ASSUME outstanding = 0 PROVE FALSE
      <4>1. Labelled({"op"}) = {}
        BY <1>0, <1>t, <3>1, OpCount DEF CommitExclusive, Labelled
      <4>2. lh = <<>>
        BY <1>0, <1>2, <2>2, <4>1 DEF CommitExclusive, Labelled, begin_op, Running
      <4>3. Len(lh) = 0
        BY <4>2
      <4>. QED
        BY <2>2, <3>1, <4>3, LogAssumption DEF NoSpace
    <3>. QED
      BY <1>t, <2>2, <3>1 DEF SleepersHaveAWaker
  <2>3. CASE outstanding' = outstanding + 1
    BY <1>t, <2>3 DEF SleepersHaveAWaker
  <2>. QED
    BY <1>2, <2>1, <2>2, <2>3 DEF begin_op
<1>3. ASSUME NEW p \in Procs, end_op(p) PROVE SleepersHaveAWaker'
  <2>1. CASE committing' = TRUE
    BY <2>1 DEF SleepersHaveAWaker
  <2>2. CASE outstanding' # 0
    <3>1. outstanding' \in Nat
      BY TypeStep DEF TypeOK
    <3>. QED
      BY <2>2, <3>1 DEF SleepersHaveAWaker
  <2>. QED
    BY <1>3, <2>1, <2>2 DEF end_op
<1>4. ASSUME NEW p \in Procs, end_commit(p) PROVE SleepersHaveAWaker'
  <2>1. \A q \in Procs : pc'[q] # "asleep"
    BY <1>4, <1>t DEF end_commit, Woken
  <2>. QED
    BY <2>1 DEF SleepersHaveAWaker, Labelled
<1>5. ASSUME NEW p \in Procs, 
             \/ commit(p) \/ write_log(p) \/ write_head(p) \/ install_trans(p)
             \/ clear_head(p)
             \/ \E b \in Blocks : (\E v \in Vals : modify(p, b, v)) \/ log_write(p, b)
      PROVE  SleepersHaveAWaker'
  <2>1. /\ \A q \in Procs : pc'[q] = "asleep" => pc[q] = "asleep"
        /\ UNCHANGED counts
    BY <1>5, <1>t DEF commit, write_log, write_head, install_trans, clear_head,
       modify, log_write, counts
  <2>. QED
    BY <1>k, <2>1 DEF Labelled
<1>6. ASSUME NEW b \in Blocks, bread(b) \/ recycle(b) PROVE SleepersHaveAWaker'
  BY <1>6, <1>k DEF bread, recycle, counts, Labelled
<1>7. CASE crash
  BY <1>7 DEF crash, SleepersHaveAWaker, Labelled
<1>. QED
  BY <1>1, <1>2, <1>3, <1>4, <1>5, <1>6, <1>7 DEF Next, Call

(* Whoever sleeps on &log sleeps for a call in progress or for a commit.   *)
THEOREM NoLostWakeup == Spec => []SleepersHaveAWaker
<1>1. Init => SleepersHaveAWaker
  BY DEF Init, SleepersHaveAWaker, Labelled
<1>. QED
  BY <1>1, WaitStep, Invariance, PTL DEF Spec

----------------------------------------------------------------------------
(* The reservation, as functions of the callers f, the blocks w they have  *)
(* written and the header l.                                               *)
UsedOf(w, l, q) == {b \in w[q] : \E i \in DOMAIN l : l[i] = b}
UnusedOf(f, w, l) ==
    {t \in {q \in Procs : f[q] \in {"op"}} \X (1 .. MAXOPBLOCKS) :
       t[2] > Cardinality(UsedOf(w, l, t[1]))}

(* Used and Unused, and their values after a step, in terms of these.      *)
LEMMA UnusedBy ==
    /\ \A p \in Procs : Used(p) = UsedOf(written, lh, p)
    /\ Unused = UnusedOf(pc, written, lh)
    /\ Unused' = UnusedOf(pc', written', lh')
BY DEF Used, Unused, UsedOf, UnusedOf, Labelled, Logged

(* Blocks a call has logged are among those it wrote.                      *)
LEMMA UsedCount ==
    ASSUME NEW w \in [Procs -> SUBSET Blocks], NEW l, NEW q \in Procs
    PROVE  /\ IsFiniteSet(w[q]) /\ IsFiniteSet(UsedOf(w, l, q))
           /\ Cardinality(w[q]) \in Nat /\ Cardinality(UsedOf(w, l, q)) \in Nat
           /\ Cardinality(UsedOf(w, l, q)) <= Cardinality(w[q])
<1>1. IsFiniteSet(w[q])
  BY FS_Subset, LogAssumption
<1>2. UsedOf(w, l, q) \in SUBSET w[q]
  BY DEF UsedOf
<1>3. IsFiniteSet(UsedOf(w, l, q)) /\ Cardinality(UsedOf(w, l, q)) <= Cardinality(w[q])
  BY <1>1, <1>2, FS_Subset
<1>. QED
  BY <1>1, <1>3, FS_CardinalityType

(* The unused reservation is at most MAXOPBLOCKS for each call.            *)
LEMMA UnusedCount ==
    ASSUME NEW f \in [Procs -> Labels], NEW w, NEW l
    PROVE  /\ IsFiniteSet(UnusedOf(f, w, l))
           /\ Cardinality(UnusedOf(f, w, l)) \in Nat
           /\ Cardinality(UnusedOf(f, w, l)) <=
                Cardinality({q \in Procs : f[q] \in {"op"}}) * MAXOPBLOCKS
<1>. DEFINE S == {q \in Procs : f[q] \in {"op"}}
            P == S \X (1 .. MAXOPBLOCKS)
<1>1. IsFiniteSet(S) /\ Cardinality(S) \in Nat
  BY OpCount
<1>2. IsFiniteSet(1 .. MAXOPBLOCKS) /\ Cardinality(1 .. MAXOPBLOCKS) = MAXOPBLOCKS
  BY FS_Interval, LogAssumption
<1>3. IsFiniteSet(P) /\ Cardinality(P) = Cardinality(S) * MAXOPBLOCKS
  BY <1>1, <1>2, FS_Product
<1>4. UnusedOf(f, w, l) \in SUBSET P
  BY DEF UnusedOf
<1>5. /\ IsFiniteSet(UnusedOf(f, w, l))
      /\ Cardinality(UnusedOf(f, w, l)) <= Cardinality(P)
  BY <1>3, <1>4, FS_Subset
<1>. QED
  BY <1>3, <1>5, FS_CardinalityType

(* The unused reservation does not grow while no call starts and no block  *)
(* that a call has written leaves the log.                                 *)
LEMMA UnusedShrinks ==
    ASSUME NEW f \in [Procs -> Labels], NEW g \in [Procs -> Labels],
           NEW w \in [Procs -> SUBSET Blocks], NEW x \in [Procs -> SUBSET Blocks],
           NEW l, NEW m,
           \A q \in Procs : g[q] = "op" =>
             f[q] = "op" /\ UsedOf(w, l, q) \subseteq UsedOf(x, m, q)
    PROVE  /\ UnusedOf(g, x, m) \subseteq UnusedOf(f, w, l)
           /\ Cardinality(UnusedOf(g, x, m)) <= Cardinality(UnusedOf(f, w, l))
<1>1. \A q \in Procs : g[q] = "op" =>
        /\ Cardinality(UsedOf(w, l, q)) <= Cardinality(UsedOf(x, m, q))
        /\ Cardinality(UsedOf(w, l, q)) \in Nat
        /\ Cardinality(UsedOf(x, m, q)) \in Nat
  BY UsedCount, FS_Subset
<1>2. UnusedOf(g, x, m) \subseteq UnusedOf(f, w, l)
  <2>. SUFFICES ASSUME NEW t \in UnusedOf(g, x, m) PROVE t \in UnusedOf(f, w, l)
    OBVIOUS
  <2>1. /\ t \in {q \in Procs : g[q] \in {"op"}} \X (1 .. MAXOPBLOCKS)
        /\ t[2] > Cardinality(UsedOf(x, m, t[1]))
    BY DEF UnusedOf
  <2>2. t[1] \in Procs /\ g[t[1]] = "op" /\ t[2] \in Nat
    BY <2>1, LogAssumption
  <2>3. t[2] > Cardinality(UsedOf(w, l, t[1])) /\ f[t[1]] = "op"
    BY <1>1, <2>1, <2>2
  <2>4. t \in {q \in Procs : f[q] \in {"op"}} \X (1 .. MAXOPBLOCKS)
    BY <2>1, <2>2, <2>3
  <2>. QED
    BY <2>3, <2>4 DEF UnusedOf
<1>3. IsFiniteSet(UnusedOf(f, w, l))
  BY UnusedCount
<1>. QED
  BY <1>2, <1>3, FS_Subset

(* The invariant is about these variables; steps that leave them alone     *)
(* keep it.                                                                *)
LEMMA ReserveFrame ==
    ASSUME ReserveInv, UNCHANGED <<panicked, holder, written, pc, lh>>,
           boot' = "up" => boot = "up"
    PROVE  ReserveInv'
<1>1. Unused' = Unused
  BY UnusedBy
<1>. QED
  BY <1>1 DEF ReserveInv

(* log_write finds room, and uses up a block of the caller's reservation   *)
(* when it takes one of the log's.                                         *)
LEMMA ReserveLogWrite ==
    ASSUME IInv, ReserveInv, ReserveFits, NEW p \in Procs, NEW b \in Blocks,
           log_write(p, b)
    PROVE  ReserveInv'
<1>0. TypeOK /\ CommitExclusive
  BY DEF IInv
<1>t. /\ pc \in [Procs -> Labels] /\ lh \in Seq(Blocks) /\ outstanding \in Nat
      /\ written \in [Procs -> SUBSET Blocks]
      /\ holder \in [Blocks -> Procs \cup {NoProc}]
      /\ Len(lh) \in Nat
  BY <1>0 DEF TypeOK
<1>1. boot = "up" /\ pc[p] = "op" /\ holder[b] = p /\ b \in written[p]
  BY LogAssumption DEF log_write, Running, ReserveInv
<1>. DEFINE u == Cardinality(UsedOf(written, lh, p))
            U == UnusedOf(pc, written, lh)
<1>2. u \in Nat /\ u <= OpBlocks
  BY <1>t, UsedCount, LogAssumption DEF ReserveInv
<1>3. IsFiniteSet(U) /\ Cardinality(U) \in Nat /\ Len(lh) + Cardinality(U) <= LOGSIZE
  BY <1>t, <1>1, UnusedCount, UnusedBy DEF ReserveInv
<1>4. Len(lh) <= LOGSIZE - (MAXOPBLOCKS - OpBlocks)
  <2>. DEFINE free == (u + 1) .. MAXOPBLOCKS
              F == {p} \X free
  <2>1. IsFiniteSet(free) /\ Cardinality(free) = MAXOPBLOCKS - u
    <3>1. u + 1 \in Int /\ MAXOPBLOCKS \in Int /\ ~(u + 1 > MAXOPBLOCKS)
      <4>. HIDE DEF u
      <4>. QED
        BY <1>2, LogAssumption DEF ReserveFits
    <3>2. MAXOPBLOCKS - (u + 1) + 1 = MAXOPBLOCKS - u
      <4>. HIDE DEF u
      <4>. QED
        BY <1>2, LogAssumption
    <3>3. /\ IsFiniteSet(free)
          /\ Cardinality(free) = IF u + 1 > MAXOPBLOCKS THEN 0
                                 ELSE MAXOPBLOCKS - (u + 1) + 1
      <4>. HIDE DEF u
      <4>. QED
        BY <3>1, FS_Interval
    <3>. QED
      BY <3>1, <3>2, <3>3
  <2>2. IsFiniteSet({p}) /\ Cardinality({p}) = 1
    BY FS_AddElement, FS_EmptySet, FS_Singleton
  <2>3. Cardinality(F) = 1 * (MAXOPBLOCKS - u)
    <3>. HIDE DEF free
    <3>. QED
      BY <2>1, <2>2, FS_Product
  <2>4. F \in SUBSET U
    <3>1. \A i \in free : i \in 1 .. MAXOPBLOCKS /\ i > u
      BY <1>2, LogAssumption
    <3>. HIDE DEF u
    <3>2. \A x \in F : x[1] = p /\ x[2] \in free /\ x = <<p, x[2]>>
      OBVIOUS
    <3>. QED
      BY <1>1, <3>1, <3>2 DEF UnusedOf, u
  <2>5. Cardinality(F) <= Cardinality(U)
    BY <1>3, <2>4, FS_Subset
  <2>. QED
    BY <1>2, <1>3, <1>t, <2>3, <2>5, LogAssumption
<1>5. ~LogFull
  BY <1>4, <1>t, LogAssumption DEF LogFull, ReserveFits
<1>6. outstanding >= 1
  <2>1. {q \in Procs : pc[q] \in {"op"}} # {}
    BY <1>1
  <2>2. Cardinality({q \in Procs : pc[q] \in {"op"}}) # 0
    BY <1>t, <2>1, OpCount
  <2>. QED
    BY <1>0, <1>t, <2>2 DEF CommitExclusive, Labelled
<1>7. LogWritePanic = "no"
  BY <1>5, <1>6, <1>t DEF LogWritePanic
<1>8. /\ panicked' = "no" /\ UNCHANGED <<pc, written, boot>>
      /\ holder' = [holder EXCEPT ![b] = NoProc]
      /\ IF Logged(b) THEN lh' = lh ELSE lh' = Append(lh, b)
  BY <1>7 DEF log_write
<1>9. \A x \in Blocks : holder'[x] # NoProc => x \in written'[holder'[x]]
  BY <1>8, <1>t DEF ReserveInv
<1>10. Len(lh') + Cardinality(Unused') <= LOGSIZE
  <2>1. CASE Logged(b)
    BY <1>3, <1>8, <2>1, UnusedBy
  <2>2. CASE ~Logged(b)
    <3>1. lh' = Append(lh, b) /\ Len(lh') = Len(lh) + 1
      BY <1>8, <1>t, <2>2
    <3>2. /\ DOMAIN lh' = DOMAIN lh \cup {Len(lh) + 1}
          /\ \A i \in DOMAIN lh : lh'[i] = lh[i]
          /\ lh'[Len(lh) + 1] = b
      BY <1>t, <3>1
    <3>. DEFINE V == UnusedOf(pc, written, lh')
                t == <<p, u + 1>>
    <3>3. \A q \in Procs : UsedOf(written, lh, q) \subseteq UsedOf(written, lh', q)
      BY <3>2 DEF UsedOf
    <3>4. V \subseteq U
      BY <1>t, <3>3, UnusedShrinks
    <3>5. UsedOf(written, lh', p) = UsedOf(written, lh, p) \cup {b}
      BY <1>1, <3>2 DEF UsedOf
    <3>6. b \notin UsedOf(written, lh, p)
      BY <2>2 DEF UsedOf, Logged
    <3>7. Cardinality(UsedOf(written, lh', p)) = u + 1
      BY <1>t, <3>5, <3>6, UsedCount, FS_AddElement
    <3>8. t \in U
      BY <1>1, <1>2, LogAssumption DEF UnusedOf, ReserveFits
    <3>9. t \notin V
      BY <1>2, <3>7 DEF UnusedOf
    <3>10. V \in SUBSET (U \ {t})
      BY <3>4, <3>9
    <3>11. IsFiniteSet(U \ {t}) /\ Cardinality(U \ {t}) = Cardinality(U) - 1
      BY <1>3, <3>8, FS_RemoveElement
    <3>12. Cardinality(V) <= Cardinality(U) - 1 /\ Cardinality(V) \in Nat
      <4>1. Cardinality(V) \in Nat
        BY <1>t, UnusedCount
      <4>. HIDE DEF V, U, t
      <4>2. Cardinality(V) <= Cardinality(U \ {t})
        BY <3>10, <3>11, FS_Subset
      <4>. QED
        BY <3>11, <4>1, <4>2
    <3>. QED
      <4>1. Unused' = V
        BY <1>8, UnusedBy
      <4>. HIDE DEF V, U
      <4>. QED
        BY <1>3, <1>t, <3>1, <3>12, <4>1, LogAssumption
  <2>. QED
    BY <2>1, <2>2
<1>. QED
  BY <1>8, <1>9, <1>10 DEF ReserveInv

(* Every step keeps what is logged and what is reserved within the log.    *)
LEMMA ReserveStep ==
    ASSUME ReserveFits
    PROVE  IInv /\ ReserveInv /\ [Next]_vars => ReserveInv'
<1>. SUFFICES ASSUME IInv, ReserveInv, [Next]_vars PROVE ReserveInv'
  OBVIOUS
<1>0. TypeOK /\ BootInv /\ CommitExclusive
  BY DEF IInv
<1>t. /\ pc \in [Procs -> Labels] /\ lh \in Seq(Blocks) /\ outstanding \in Nat
      /\ written \in [Procs -> SUBSET Blocks]
      /\ holder \in [Blocks -> Procs \cup {NoProc}]
      /\ Len(lh) \in Nat /\ Cardinality(Unused) \in Nat
  <2>1. /\ pc \in [Procs -> Labels] /\ lh \in Seq(Blocks) /\ outstanding \in Nat
        /\ written \in [Procs -> SUBSET Blocks]
        /\ holder \in [Blocks -> Procs \cup {NoProc}]
    BY <1>0 DEF TypeOK
  <2>2. Cardinality(Unused) \in Nat
    BY <2>1, UnusedBy, UnusedCount
  <2>. QED
    BY <2>1, <2>2
<1>u. /\ pc' \in [Procs -> Labels] /\ written' \in [Procs -> SUBSET Blocks]
  BY TypeStep DEF TypeOK
<1>e. (\A q \in Procs : pc'[q] # "op") => Cardinality(Unused') = 0
  <2>. SUFFICES ASSUME \A q \in Procs : pc'[q] # "op" PROVE Unused' = {}
    BY FS_EmptySet
  <2>. QED
    BY UnusedBy DEF UnusedOf
<1>1. CASE read_head \/ recover_install
  <2>1. boot' # "up" /\ UNCHANGED <<panicked, holder, written>>
    BY <1>1 DEF read_head, recover_install, memory
  <2>. QED
    BY <2>1 DEF ReserveInv
<1>2. CASE recover_clear
  <2>1. /\ UNCHANGED <<panicked, holder, written, pc>> /\ lh' = <<>>
        /\ \A q \in Procs : pc[q] = "idle"
    BY <1>0, <1>2 DEF recover_clear, memory, BootInv
  <2>2. Len(lh') + Cardinality(Unused') <= LOGSIZE
    BY <1>e, <2>1, LogAssumption
  <2>. QED
    BY <2>1, <2>2 DEF ReserveInv
<1>3. ASSUME NEW p \in Procs, begin_op(p) PROVE ReserveInv'
  <2>1. UNCHANGED <<panicked, holder, written, lh>> /\ boot = "up"
    BY <1>3 DEF begin_op, memory, Running
  <2>2. Len(lh') + Cardinality(Unused') <= LOGSIZE
    <3>1. CASE pc' = [pc EXCEPT ![p] = "asleep"]
      <4>1. Cardinality(Unused') <= Cardinality(Unused) /\ Cardinality(Unused') \in Nat
        BY <1>t, <1>u, <2>1, <3>1, UnusedBy, UnusedShrinks, UnusedCount
      <4>. QED
        BY <1>t, <2>1, <4>1, LogAssumption DEF ReserveInv
    <3>2. CASE /\ pc' = [pc EXCEPT ![p] = "op"] /\ ~NoSpace
               /\ outstanding' = outstanding + 1
      <4>1. /\ Cardinality(Unused') <=
                 Cardinality({q \in Procs : pc'[q] \in {"op"}}) * MAXOPBLOCKS
            /\ Cardinality(Unused') \in Nat
        BY <1>u, UnusedBy, UnusedCount
      <4>2. Cardinality({q \in Procs : pc'[q] \in {"op"}}) = outstanding + 1
        BY <3>2, ExclusiveStep DEF CommitExclusive, Labelled
      <4>3. Cardinality(Unused') <= (outstanding + 1) * MAXOPBLOCKS
        BY <4>1, <4>2
      <4>4. Len(lh) + (outstanding + 1) * MAXOPBLOCKS <= LOGSIZE
        BY <1>t, <3>2, LogAssumption DEF NoSpace
      <4>5. (outstanding + 1) * MAXOPBLOCKS \in Nat
        BY <1>t, LogAssumption
      <4>. HIDE DEF NoSpace
      <4>. QED
        BY <1>t, <2>1, <4>1, <4>3, <4>4, <4>5, LogAssumption
    <3>. QED
      BY <1>3, <3>1, <3>2 DEF begin_op
  <2>. QED
    BY <2>1, <2>2 DEF ReserveInv
<1>4. ASSUME NEW p \in Procs, NEW b \in Blocks, NEW v \in Vals, modify(p, b, v)
      PROVE  ReserveInv'
  <2>1. /\ UNCHANGED <<panicked, lh, pc, boot>> /\ boot = "up"
        /\ holder' = [holder EXCEPT ![b] = p]
        /\ written' = [written EXCEPT ![p] = @ \cup {b}]
        /\ Cardinality(written[p] \cup {b}) <= OpBlocks
    BY <1>4 DEF modify, Running
  <2>2. \A x \in Blocks : holder'[x] # NoProc => x \in written'[holder'[x]]
    BY <1>t, <2>1 DEF ReserveInv
  <2>3. \A q \in Procs : Cardinality(written'[q]) <= OpBlocks
    BY <1>t, <2>1 DEF ReserveInv
  <2>4. \A q \in Procs : UsedOf(written, lh, q) \subseteq UsedOf(written', lh', q)
    BY <1>t, <2>1 DEF UsedOf
  <2>5. Cardinality(Unused') <= Cardinality(Unused) /\ Cardinality(Unused') \in Nat
    BY <1>t, <1>u, <2>1, <2>4, UnusedBy, UnusedShrinks, UnusedCount
  <2>6. Len(lh') + Cardinality(Unused') <= LOGSIZE
    BY <1>t, <2>1, <2>5, LogAssumption DEF ReserveInv
  <2>. QED
    BY <2>1, <2>2, <2>3, <2>6 DEF ReserveInv
<1>5. ASSUME NEW p \in Procs, NEW b \in Blocks, log_write(p, b) PROVE ReserveInv'
  BY <1>5, ReserveLogWrite
<1>6. ASSUME NEW p \in Procs, end_op(p) PROVE ReserveInv'
  <2>1. /\ UNCHANGED <<lh, boot, holder>> /\ boot = "up" /\ pc[p] = "op"
        /\ \A b \in Blocks : holder[b] # p
        /\ written' = [written EXCEPT ![p] = {}]
    BY <1>6 DEF end_op, Running, memory
  <2>2. panicked' = "no"
    BY <1>0, <1>6 DEF end_op, CommitExclusive
  <2>3. \A x \in Blocks : holder'[x] # NoProc => x \in written'[holder'[x]]
    BY <1>t, <2>1 DEF ReserveInv
  <2>4. \A q \in Procs : Cardinality(written'[q]) <= OpBlocks
    BY <1>t, <2>1, FS_EmptySet, LogAssumption DEF ReserveInv
  <2>5. \A q \in Procs : pc'[q] = "op" => pc[q] = "op" /\ q # p
    BY <1>t, <1>6 DEF end_op, Woken
  <2>6. \A q \in Procs : q # p => UsedOf(written', lh', q) = UsedOf(written, lh, q)
    BY <1>t, <2>1 DEF UsedOf
  <2>7. Cardinality(Unused') <= Cardinality(Unused) /\ Cardinality(Unused') \in Nat
    BY <1>t, <1>u, <2>5, <2>6, UnusedBy, UnusedShrinks, UnusedCount
  <2>8. Len(lh') + Cardinality(Unused') <= LOGSIZE
    BY <1>t, <2>1, <2>7, LogAssumption DEF ReserveInv
  <2>. QED
    BY <2>2, <2>3, <2>4, <2>8 DEF ReserveInv
<1>7. ASSUME NEW p \in Procs,
             \/ commit(p) \/ write_log(p) \/ write_head(p) \/ install_trans(p)
             \/ clear_head(p) \/ end_commit(p)
      PROVE  ReserveInv'
  <2>1. /\ UNCHANGED <<panicked, holder, written, boot>> /\ boot = "up"
        /\ pc[p] \in Committing
        /\ lh' = lh \/ lh' = <<>>
    BY <1>7 DEF commit, write_log, write_head, install_trans, clear_head,
       end_commit, Running, memory, Committing
  <2>2. \A q \in Procs : pc'[q] = "op" => pc[q] = "op"
    BY <1>7, <1>t DEF commit, write_log, write_head, install_trans, clear_head,
       end_commit, Woken
  <2>3. \A q \in Procs : pc'[q] # "op"
    BY <1>0, <2>1, <2>2, OnlyCommitter
  <2>4. Len(lh') + Cardinality(Unused') <= LOGSIZE
    BY <1>e, <1>t, <2>1, <2>3, LogAssumption DEF ReserveInv
  <2>. QED
    BY <2>1, <2>4 DEF ReserveInv
<1>8. ASSUME NEW b \in Blocks, bread(b) \/ recycle(b) PROVE ReserveInv'
  BY <1>8, ReserveFrame DEF bread, recycle, Running
<1>9. CASE crash
  <2>1. /\ panicked' = "no" /\ holder' = [b \in Blocks |-> NoProc]
        /\ written' = [q \in Procs |-> {}] /\ boot' # "up"
    BY <1>9 DEF crash
  <2>. QED
    BY <2>1, FS_EmptySet, LogAssumption DEF ReserveInv
<1>10. CASE UNCHANGED vars
  BY <1>10, ReserveFrame DEF vars
<1>. QED
  BY <1>1, <1>2, <1>3, <1>4, <1>5, <1>6, <1>7, <1>8, <1>9, <1>10 DEF Next, Call

(* begin_op's reservation is enough, whatever the number of processes and  *)
(* the way their calls overlap: no log_write finds the log full, and no    *)
(* end_op a commit under way, when calls keep the slack of ReserveFits.    *)
THEOREM ReservationSuffices == ReserveFits => (Spec => []NoPanic)
<1>. SUFFICES ASSUME ReserveFits PROVE Spec => []NoPanic
  OBVIOUS
<1>1. Init => ReserveInv
  BY FS_EmptySet, LogAssumption DEF Init, ReserveInv
<1>2. ReserveInv => NoPanic
  BY DEF ReserveInv, NoPanic
<1>3. IInv /\ ReserveInv /\ [Next]_vars => ReserveInv'
  BY ReserveStep
<1>. QED
  BY <1>1, <1>2, <1>3, Invariance, PTL DEF Spec

=============================================================================
