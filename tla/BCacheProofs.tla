---------------------------- MODULE BCacheProofs ----------------------------
(***************************************************************************)
(* Proofs about the buffer cache: BCacheInv is inductive; bget panics only *)
(* when the users and the pins come to NBUF; and the cache implements a    *)
(* store of locked blocks.                                                 *)
(***************************************************************************)
EXTENDS BCache, FiniteSetTheorems, TLAPS

(* Users(i) as an operator of the variables, for its primed value.         *)
UsersOf(f, g, i) == {p \in Procs : f[p] # "idle" /\ g[p] = i}

(* A buffer has finitely many users.                                       *)
LEMMA UsersFinite ==
    ASSUME NEW f, NEW g, NEW i
    PROVE  /\ IsFiniteSet(UsersOf(f, g, i))
           /\ Cardinality(UsersOf(f, g, i)) \in Nat
<1>1. UsersOf(f, g, i) \subseteq Procs BY DEF UsersOf
<1>2. IsFiniteSet(UsersOf(f, g, i)) BY <1>1, BCacheAssumption, FS_Subset
<1> QED BY <1>2, FS_CardinalityType

(* A user is counted.                                                      *)
LEMMA UserCounted ==
    ASSUME BCacheInv, NEW p \in Procs, pc[p] # "idle"
    PROVE  /\ refcnt[mine[p]] >= 1
           /\ blockno[mine[p]] \in pinned => refcnt[mine[p]] >= 2
<1> DEFINE U == UsersOf(pc, mine, mine[p])
<1>1. p \in U BY DEF UsersOf
<1>2. IsFiniteSet(U) /\ Cardinality(U) \in Nat BY UsersFinite
<1>3. Cardinality(U) # 0 BY <1>1, <1>2, FS_EmptySet
<1>4. U = Users(mine[p]) BY DEF UsersOf, Users
<1>5. mine[p] \in Bufs BY DEF BCacheInv, TypeOK
<1>6. refcnt[mine[p]] = Cardinality(U) + IF blockno[mine[p]] \in pinned THEN 1 ELSE 0
  BY <1>4, <1>5 DEF BCacheInv, RefcntExact
<1> HIDE DEF U
<1> QED BY <1>2, <1>3, <1>6

(* bget adds its caller to the users of the buffer it chose, and to those  *)
(* of no other.                                                            *)
LEMMA UserJoins ==
    ASSUME TypeOK, NEW p \in Procs, NEW i \in Bufs, pc[p] = "idle",
           pc' = [pc EXCEPT ![p] = "lock"], mine' = [mine EXCEPT ![p] = i]
    PROVE  /\ Cardinality(Users(i)') = Cardinality(Users(i)) + 1
           /\ \A j \in Bufs \ {i} : Users(j)' = Users(j)
<1>0. pc \in [Procs -> Labels] /\ mine \in [Procs -> Bufs] BY DEF TypeOK
<1>1. \A j : Users(j) = UsersOf(pc, mine, j) /\ Users(j)' = UsersOf(pc', mine', j)
  BY DEF Users, UsersOf
<1>2. p \notin UsersOf(pc, mine, i) BY DEF UsersOf
<1>3. UsersOf(pc', mine', i) = UsersOf(pc, mine, i) \cup {p} BY <1>0 DEF UsersOf
<1>4. \A j \in Bufs \ {i} : UsersOf(pc', mine', j) = UsersOf(pc, mine, j)
  BY <1>0 DEF UsersOf
<1>5. Cardinality(UsersOf(pc', mine', i)) = Cardinality(UsersOf(pc, mine, i)) + 1
  BY <1>2, <1>3, UsersFinite, FS_AddElement
<1> QED BY <1>1, <1>4, <1>5

(* brelse takes its caller out.                                            *)
LEMMA UserLeaves ==
    ASSUME TypeOK, NEW p \in Procs, NEW i \in Bufs, pc[p] # "idle", mine[p] = i,
           pc' = [pc EXCEPT ![p] = "idle"], mine' = mine
    PROVE  /\ Cardinality(Users(i)') = Cardinality(Users(i)) - 1
           /\ \A j \in Bufs \ {i} : Users(j)' = Users(j)
<1>0. pc \in [Procs -> Labels] /\ mine \in [Procs -> Bufs] BY DEF TypeOK
<1>1. \A j : Users(j) = UsersOf(pc, mine, j) /\ Users(j)' = UsersOf(pc', mine', j)
  BY DEF Users, UsersOf
<1>2. p \in UsersOf(pc, mine, i) BY DEF UsersOf
<1>3. UsersOf(pc', mine', i) = UsersOf(pc, mine, i) \ {p} BY <1>0 DEF UsersOf
<1>4. \A j \in Bufs \ {i} : UsersOf(pc', mine', j) = UsersOf(pc, mine, j)
  BY <1>0 DEF UsersOf
<1>f. IsFiniteSet(UsersOf(pc, mine, i)) BY UsersFinite
<1>5. Cardinality(UsersOf(pc, mine, i) \ {p}) = Cardinality(UsersOf(pc, mine, i)) - 1
  BY <1>2, <1>f, FS_RemoveElement
<1> QED BY <1>1, <1>3, <1>4, <1>5

(* The other steps leave the users alone.                                  *)
LEMMA UsersKept ==
    ASSUME mine' = mine, \A p \in Procs : pc[p] # "idle" <=> pc'[p] # "idle"
    PROVE  \A i : Users(i)' = Users(i)
BY DEF Users

----------------------------------------------------------------------------
(* Moving a buffer to the head keeps every buffer linked exactly once.     *)
LEMMA FrontPermutes ==
    ASSUME TypeOK, NEW i \in Bufs
    PROVE  /\ Front(i) \in [Bufs -> Bufs]
           /\ \A j, k \in Bufs : Front(i)[j] = Front(i)[k] => j = k
           /\ \A b \in Bufs : \E k \in Bufs : Front(i)[k] = b
<1>0. /\ lru \in [Bufs -> Bufs]
      /\ \A j, k \in Bufs : lru[j] = lru[k] => j = k
      /\ \A b \in Bufs : \E k \in Bufs : lru[k] = b
      /\ NBUF \in Nat \ {0}
  BY BCacheAssumption DEF TypeOK, Linked
<1> DEFINE at == CHOOSE k \in Bufs : lru[k] = i
           F == [k \in Bufs |-> IF k = 1 THEN i ELSE IF k <= at THEN lru[k - 1] ELSE lru[k]]
<1>1. at \in Bufs /\ lru[at] = i BY <1>0
<1>2. Front(i) = F BY DEF Front
<1>3. F \in [Bufs -> Bufs]
  <2>1. ASSUME NEW k \in Bufs
        PROVE  (IF k = 1 THEN i ELSE IF k <= at THEN lru[k - 1] ELSE lru[k]) \in Bufs
    <3> HIDE DEF at
    <3>1. k # 1 => k - 1 \in Bufs BY <1>0 DEF Bufs
    <3> QED BY <3>1, <1>0
  <2> QED BY <2>1
<1>4. ASSUME NEW j \in Bufs, NEW k \in Bufs, F[j] = F[k] PROVE j = k
  <2>1. \A m \in Bufs : F[m] = IF m = 1 THEN i ELSE IF m <= at THEN lru[m - 1] ELSE lru[m]
    OBVIOUS
  <2>2. \A m \in Bufs : m \in Nat /\ m >= 1 /\ (m # 1 => m - 1 \in Bufs)
    BY <1>0 DEF Bufs
  <2> HIDE DEF at, F
  <2>3. ASSUME NEW m \in Bufs, m # 1, F[m] = i PROVE FALSE
    <3>1. CASE m <= at
      <4>1. lru[m - 1] = lru[at] BY <2>1, <2>3, <3>1, <1>1
      <4>2. m - 1 = at BY <4>1, <2>2, <2>3, <1>0, <1>1
      <4> QED BY <4>2, <3>1, <2>2
    <3>2. CASE ~(m <= at)
      <4>1. lru[m] = lru[at] BY <2>1, <2>3, <3>2, <1>1
      <4>2. m = at BY <4>1, <1>0, <1>1
      <4> QED BY <4>2, <3>2, <2>2
    <3> QED BY <3>1, <3>2
  <2>4. F[1] = i
    <3>1. 1 \in Bufs BY <1>0 DEF Bufs
    <3> QED BY <3>1, <2>1
  <2>5. CASE j = 1 \/ k = 1 BY <2>5, <2>3, <2>4, <1>4
  <2>6. CASE j # 1 /\ k # 1
    <3>1. CASE j <= at /\ k <= at
      <4>1. lru[j - 1] = lru[k - 1] BY <2>1, <2>6, <3>1, <1>4
      <4>2. j - 1 = k - 1 BY <4>1, <2>2, <2>6, <1>0
      <4> QED BY <4>2, <2>2
    <3>2. CASE j <= at /\ ~(k <= at)
      <4>1. lru[j - 1] = lru[k] BY <2>1, <2>6, <3>2, <1>4
      <4>2. j - 1 = k BY <4>1, <2>2, <2>6, <1>0
      <4> QED BY <4>2, <3>2, <2>2, <1>1
    <3>3. CASE ~(j <= at) /\ k <= at
      <4>1. lru[j] = lru[k - 1] BY <2>1, <2>6, <3>3, <1>4
      <4>2. j = k - 1 BY <4>1, <2>2, <2>6, <1>0
      <4> QED BY <4>2, <3>3, <2>2, <1>1
    <3>4. CASE ~(j <= at) /\ ~(k <= at)
      <4>1. lru[j] = lru[k] BY <2>1, <2>6, <3>4, <1>4
      <4> QED BY <4>1, <1>0
    <3> QED BY <3>1, <3>2, <3>3, <3>4
  <2> QED BY <2>5, <2>6
<1>5. ASSUME NEW b \in Bufs PROVE \E k \in Bufs : F[k] = b
  <2> HIDE DEF at
  <2>1. PICK k \in Bufs : lru[k] = b BY <1>0
  <2>2. CASE k = at
    <3>1. 1 \in Bufs BY <1>0 DEF Bufs
    <3> QED BY <2>1, <2>2, <1>1, <3>1
  <2>3. CASE k < at
    <3>1. k + 1 \in Bufs /\ k + 1 # 1 /\ k + 1 <= at /\ (k + 1) - 1 = k
      BY <2>3, <1>0, <1>1 DEF Bufs
    <3>2. F[k + 1] = lru[(k + 1) - 1] BY <3>1
    <3>3. F[k + 1] = b BY <3>1, <3>2, <2>1
    <3> QED BY <3>1, <3>3
  <2>4. CASE k > at
    <3>1. k # 1 /\ ~(k <= at) BY <2>4, <1>0, <1>1 DEF Bufs
    <3> QED BY <3>1, <2>1
  <2> QED BY <2>2, <2>3, <2>4, <1>1, <1>0 DEF Bufs
<1> HIDE DEF F
<1> QED BY <1>2, <1>3, <1>4, <1>5

(* The second loop of bget finds an unused buffer when there is one.       *)
LEMMA VictimUnused ==
    ASSUME TypeOK, \E i \in Bufs : refcnt[i] = 0
    PROVE  Victim \in Bufs /\ refcnt[Victim] = 0
<1>0. /\ lru \in [Bufs -> Bufs]
      /\ \A b \in Bufs : \E k \in Bufs : lru[k] = b
      /\ NBUF \in Nat \ {0}
  BY BCacheAssumption DEF TypeOK, Linked
<1> DEFINE K == {k \in Bufs : refcnt[lru[k]] = 0}
           T == {n \in Nat : \E k \in K : n = NBUF - k}
           R == OpToRel(<, Nat)
<1>1. PICK k0 \in K : TRUE BY <1>0
<1>2. NBUF - k0 \in T BY <1>0, <1>1 DEF Bufs
<1>3. IsWellFoundedOn(R, Nat) BY NatLessThanWellFounded, Zenon
<1>4. \A m, n \in Nat : m < n => <<m, n>> \in R BY DEF OpToRel
<1>5. PICK n \in T : \A m \in T : ~(m < n)
  <2>1. T \subseteq Nat /\ T # {} BY <1>2
  <2> HIDE DEF T, R
  <2>2. \E n \in T : \A m \in T : ~(<<m, n>> \in R) BY <2>1, <1>3, WFMin
  <2> QED BY <2>1, <2>2, <1>4
<1>6. PICK k \in K : n = NBUF - k BY <1>5
<1>7. \A j \in K : j <= k
  <2> SUFFICES ASSUME NEW j \in K PROVE j <= k OBVIOUS
  <2>1. j \in Nat /\ k \in Nat /\ j <= NBUF BY <1>0 DEF Bufs
  <2>2. NBUF - j \in T BY <2>1, <1>0
  <2>3. ~(NBUF - j < NBUF - k) BY <2>2, <1>5, <1>6
  <2> QED BY <2>1, <2>3, <1>0
<1>8. \E m \in Bufs : /\ refcnt[lru[m]] = 0
                      /\ \A j \in Bufs : refcnt[lru[j]] = 0 => j <= m
  BY <1>7
<1> DEFINE m == CHOOSE m \in Bufs : /\ refcnt[lru[m]] = 0
                                  /\ \A j \in Bufs : refcnt[lru[j]] = 0 => j <= m
<1>9. m \in Bufs /\ refcnt[lru[m]] = 0 BY <1>8
<1>10. Victim = lru[m] BY DEF Victim
<1> HIDE DEF m
<1> QED BY <1>0, <1>9, <1>10

----------------------------------------------------------------------------
(* One lemma per part of the invariant; under it, one step per action.     *)

(* Each step, named once for the lemmas below.                             *)
LEMMA Steps ==
    ASSUME [Next]_vars
    PROVE  \/ \E p \in Procs, b \in Blocks : bget(p, b)
           \/ \E p \in Procs : acquiresleep(p)
           \/ \E p \in Procs : bread(p)
           \/ \E p \in Procs, v \in Vals : modify(p, v)
           \/ \E p \in Procs : bwrite(p)
           \/ \E p \in Procs : bpin(p)
           \/ \E p \in Procs : bunpin(p)
           \/ \E p \in Procs : releasesleep(p)
           \/ \E p \in Procs : brelse(p)
           \/ UNCHANGED vars
BY Zenon DEF Next, Step

(* bget's two ways to return, with the buffer it chose named.              *)
Hits(p, b, i) ==
    /\ mine' = [mine EXCEPT ![p] = i]
    /\ pc' = [pc EXCEPT ![p] = "lock"]
    /\ panicked' = panicked
    /\ blockno[i] = b
    /\ refcnt' = [refcnt EXCEPT ![i] = @ + 1]
    /\ UNCHANGED buf

Recycles(p, b, i) ==
    /\ mine' = [mine EXCEPT ![p] = i]
    /\ pc' = [pc EXCEPT ![p] = "lock"]
    /\ panicked' = panicked
    /\ \A j \in Bufs : blockno[j] # b
    /\ refcnt[i] = 0
    /\ blockno' = [blockno EXCEPT ![i] = b]
    /\ valid' = [valid EXCEPT ![i] = FALSE]
    /\ refcnt' = [refcnt EXCEPT ![i] = 1]
    /\ data' = data

(* bget finds the block, recycles an unused buffer or panics.              *)
LEMMA BgetChoice ==
    ASSUME TypeOK, NEW p \in Procs, NEW b \in Blocks, bget(p, b)
    PROVE  \/ \E i \in Bufs : Hits(p, b, i)
           \/ \E i \in Bufs : Recycles(p, b, i)
           \/ panicked' = TRUE /\ UNCHANGED <<buf, refcnt, mine, pc>>
<1>1. CASE Cached(b) # {} /\ Hit(p, b) /\ Goto(p, "lock") /\ UNCHANGED panicked
  BY <1>1 DEF Hit, Cached, Goto, Hits
<1>2. CASE Cached(b) = {} /\ Recycle(p, b) /\ Goto(p, "lock") /\ UNCHANGED panicked
  <2>1. \A j \in Bufs : blockno[j] # b BY <1>2 DEF Cached
  <2>2. Victim \in Bufs /\ refcnt[Victim] = 0 BY <1>2, VictimUnused DEF Recycle
  <2>3. Recycles(p, b, Victim) BY <1>2, <2>1, <2>2 DEF Recycle, Recycles, Goto
  <2> QED BY <2>2, <2>3
<1>3. CASE panicked' = TRUE /\ UNCHANGED <<buf, refcnt, mine, pc>> BY <1>3
<1> QED BY <1>1, <1>2, <1>3 DEF bget

(* Only brelse moves a buffer in the list.                                 *)
LEMMA LinkedStep == BCacheInv /\ [Next]_vars => Linked'
<1> SUFFICES ASSUME BCacheInv, [Next]_vars PROVE Linked' OBVIOUS
<1>0. TypeOK /\ Linked BY DEF BCacheInv, TypeOK
<1>1. CASE lru' = lru BY <1>0, <1>1 DEF Linked
<1>2. ASSUME NEW p \in Procs, brelse(p), lru' # lru PROVE Linked'
  <2>1. lru' = Front(mine[p]) BY <1>2 DEF brelse
  <2>2. mine[p] \in Bufs BY <1>0 DEF TypeOK
  <2>3. /\ Front(mine[p]) \in [Bufs -> Bufs]
        /\ \A j, k \in Bufs : Front(mine[p])[j] = Front(mine[p])[k] => j = k
        /\ \A b \in Bufs : \E k \in Bufs : Front(mine[p])[k] = b
    BY <1>0, <2>2, FrontPermutes
  <2> QED BY <2>1, <2>3, Zenon DEF Linked
<1>3. lru' = lru \/ \E p \in Procs : brelse(p)
  BY Steps DEF bget, acquiresleep, bread, modify, bwrite, bpin, bunpin, releasesleep, vars
<1> QED BY <1>1, <1>2, <1>3

(* Every step keeps the types.                                             *)
LEMMA TypesStep == BCacheInv /\ [Next]_vars => TypeOK'
<1> SUFFICES ASSUME BCacheInv, [Next]_vars PROVE TypeOK' OBVIOUS
<1> USE BCacheAssumption
<1>0. TypeOK /\ Linked' BY LinkedStep DEF BCacheInv
<1>1. ASSUME NEW p \in Procs, NEW b \in Blocks, bget(p, b) PROVE TypeOK'
  <2>1. UNCHANGED <<disk, lru, locked, pinned>> /\ want' = [want EXCEPT ![p] = b]
    BY <1>1 DEF bget
  <2>2. "lock" \in Labels BY DEF Labels
  <2>3. CASE panicked' = TRUE /\ UNCHANGED <<buf, refcnt, mine, pc>>
    BY <1>0, <2>1, <2>3 DEF TypeOK, buf
  <2>4. ASSUME NEW i \in Bufs, Hits(p, b, i) PROVE TypeOK'
    BY <1>0, <2>1, <2>2, <2>4 DEF TypeOK, buf, Hits
  <2>5. ASSUME NEW i \in Bufs, Recycles(p, b, i) PROVE TypeOK'
    BY <1>0, <2>1, <2>2, <2>5 DEF TypeOK, Recycles
  <2> QED BY <1>0, <1>1, <2>3, <2>4, <2>5, BgetChoice
<1>2. ASSUME NEW p \in Procs, acquiresleep(p) PROVE TypeOK'
  BY <1>0, <1>2 DEF TypeOK, acquiresleep, Goto, Labels, buf, user
<1>3. ASSUME NEW p \in Procs, bread(p) PROVE TypeOK'
  <2>1. disk[blockno[mine[p]]] \in Vals
    BY <1>0, <1>3 DEF TypeOK, BCacheInv, BufferStaysBlock, bread
  <2> QED BY <1>0, <1>3, <2>1 DEF TypeOK, bread, Goto, Labels, user
<1>4. ASSUME NEW p \in Procs, NEW v \in Vals, modify(p, v) PROVE TypeOK'
  BY <1>0, <1>4 DEF TypeOK, modify, user
<1>5. ASSUME NEW p \in Procs, bwrite(p) PROVE TypeOK'
  BY <1>0, <1>5 DEF TypeOK, bwrite, buf, user
<1>6. ASSUME NEW p \in Procs, bpin(p) PROVE TypeOK'
  <2>1. want[p] \in Blocks BY <1>6 DEF bpin, BCacheInv, BufferStaysBlock
  <2> QED BY <1>0, <1>6, <2>1 DEF TypeOK, bpin, buf, user
<1>7. ASSUME NEW p \in Procs, bunpin(p) PROVE TypeOK'
  <2>1. refcnt[mine[p]] - 1 \in Nat
    BY <1>0, <1>7, UserCounted DEF TypeOK, bunpin
  <2> QED BY <1>0, <1>7, <2>1 DEF TypeOK, bunpin, buf, user
<1>8. ASSUME NEW p \in Procs, releasesleep(p) PROVE TypeOK'
  BY <1>0, <1>8 DEF TypeOK, releasesleep, Labels, buf, user
<1>9. ASSUME NEW p \in Procs, brelse(p) PROVE TypeOK'
  <2>1. refcnt[mine[p]] - 1 \in Nat
    BY <1>0, <1>9, UserCounted DEF TypeOK, brelse
  <2> QED BY <1>0, <1>9, <2>1 DEF TypeOK, brelse, Goto, Labels, buf, user
<1>10. CASE UNCHANGED vars BY <1>0, <1>10 DEF TypeOK, vars
<1> QED BY <1>1, <1>2, <1>3, <1>4, <1>5, <1>6, <1>7, <1>8, <1>9, <1>10, Steps

(* refcnt stays exact: bget and brelse count their caller, bpin and bunpin *)
(* the pin.  Recycling is sound because no user and no pin is left.        *)
LEMMA RefcntStep == BCacheInv /\ [Next]_vars => RefcntExact'
<1> SUFFICES ASSUME BCacheInv, [Next]_vars PROVE RefcntExact' OBVIOUS
<1> DEFINE Pin(i) == IF blockno[i] \in pinned THEN 1 ELSE 0
<1>0. /\ TypeOK
      /\ \A i \in Bufs : refcnt[i] = Cardinality(Users(i)) + Pin(i)
      /\ \A i \in Bufs : Cardinality(Users(i)) \in Nat
  <2>1. \A i : Users(i) = UsersOf(pc, mine, i) BY DEF Users, UsersOf
  <2>2. \A i : Cardinality(Users(i)) \in Nat BY <2>1, UsersFinite
  <2> QED BY <2>2 DEF BCacheInv, RefcntExact
<1>t. /\ refcnt \in [Bufs -> Nat]
      /\ mine \in [Procs -> Bufs]
      /\ blockno \in [Bufs -> Blocks \cup {NoBlock}]
      /\ pc \in [Procs -> Labels]
  BY <1>0 DEF TypeOK
<1>k. ASSUME mine' = mine, \A p \in Procs : pc[p] # "idle" <=> pc'[p] # "idle",
             blockno' = blockno, pinned' = pinned, refcnt' = refcnt
      PROVE  RefcntExact'
  <2>1. \A i : Users(i)' = Users(i) BY <1>k, UsersKept
  <2> QED BY <1>0, <1>k, <2>1 DEF RefcntExact
<1>1. ASSUME NEW p \in Procs, NEW b \in Blocks, bget(p, b) PROVE RefcntExact'
  <2>1. pinned' = pinned /\ pc[p] = "idle" BY <1>1 DEF bget
  <2>3. CASE panicked' = TRUE /\ UNCHANGED <<buf, refcnt, mine, pc>>
    BY <1>k, <2>1, <2>3 DEF buf
  <2>4. ASSUME NEW i \in Bufs, Hits(p, b, i) PROVE RefcntExact'
    <3>1. /\ Cardinality(Users(i)') = Cardinality(Users(i)) + 1
          /\ \A j \in Bufs \ {i} : Users(j)' = Users(j)
      BY <1>0, <2>1, <2>4, UserJoins DEF Hits
    <3>2. blockno' = blockno /\ refcnt' = [refcnt EXCEPT ![i] = @ + 1]
      BY <2>4 DEF Hits, buf
    <3>3. refcnt'[i] = Cardinality(Users(i)') + Pin(i)'
      BY <1>0, <1>t, <2>1, <3>1, <3>2
    <3>4. \A j \in Bufs \ {i} : refcnt'[j] = Cardinality(Users(j)') + Pin(j)'
      BY <1>0, <1>t, <2>1, <3>1, <3>2
    <3> QED BY <3>3, <3>4 DEF RefcntExact
  <2>5. ASSUME NEW i \in Bufs, Recycles(p, b, i) PROVE RefcntExact'
    <3>1. /\ Cardinality(Users(i)') = Cardinality(Users(i)) + 1
          /\ \A j \in Bufs \ {i} : Users(j)' = Users(j)
      BY <1>0, <2>1, <2>5, UserJoins DEF Recycles
    <3>2. /\ blockno' = [blockno EXCEPT ![i] = b]
          /\ refcnt' = [refcnt EXCEPT ![i] = 1]
          /\ refcnt[i] = 0
          /\ \A j \in Bufs : blockno[j] # b
      BY <2>5 DEF Recycles
    <3>3. b \notin pinned BY <3>2 DEF BCacheInv, OneBuffer
    <3>4. Cardinality(Users(i)) = 0 BY <1>0, <3>2
    <3>5. refcnt'[i] = Cardinality(Users(i)') + Pin(i)'
      BY <1>t, <2>1, <3>1, <3>2, <3>3, <3>4
    <3>6. \A j \in Bufs \ {i} : refcnt'[j] = Cardinality(Users(j)') + Pin(j)'
      BY <1>0, <1>t, <2>1, <3>1, <3>2
    <3> QED BY <3>5, <3>6 DEF RefcntExact
  <2> QED BY <1>0, <1>1, <2>3, <2>4, <2>5, BgetChoice
<1>2. ASSUME NEW p \in Procs, acquiresleep(p) PROVE RefcntExact'
  <2>1. \A q \in Procs : pc[q] # "idle" <=> pc'[q] # "idle"
    BY <1>t, <1>2 DEF acquiresleep, Goto
  <2> QED BY <1>k, <2>1, <1>2 DEF acquiresleep, buf, user
<1>3. ASSUME NEW p \in Procs, bread(p) PROVE RefcntExact'
  <2>1. \A q \in Procs : pc[q] # "idle" <=> pc'[q] # "idle"
    BY <1>t, <1>3 DEF bread, Goto
  <2> QED BY <1>k, <2>1, <1>3 DEF bread, user
<1>4. ASSUME NEW p \in Procs, NEW v \in Vals, modify(p, v) PROVE RefcntExact'
  BY <1>k, <1>4 DEF modify, user
<1>5. ASSUME NEW p \in Procs, bwrite(p) PROVE RefcntExact'
  BY <1>k, <1>5 DEF bwrite, buf, user
<1>6. ASSUME NEW p \in Procs, bpin(p) \/ bunpin(p) PROVE RefcntExact'
  <2>0. PICK i \in Bufs : i = mine[p] BY <1>t
  <2>1. /\ mine' = mine /\ pc' = pc /\ blockno' = blockno
        /\ pc[p] = "have"
    BY <1>6 DEF bpin, bunpin, buf, user
  <2>2. blockno[i] = want[p]
    BY <2>0, <2>1 DEF BCacheInv, BufferStaysBlock
  <2>3. \A j \in Bufs \ {i} : blockno[j] # want[p]
    <3>1. want[p] \in Blocks BY <2>1 DEF BCacheInv, BufferStaysBlock
    <3> QED BY <2>2, <3>1 DEF BCacheInv, OneBuffer
  <2>4. \A j : Users(j)' = Users(j) BY <2>1, UsersKept
  <2>5. \A j \in Bufs \ {i} : refcnt'[j] = refcnt[j] /\ Pin(j)' = Pin(j)
    BY <1>t, <1>6, <2>0, <2>1, <2>3 DEF bpin, bunpin
  <2>6. refcnt'[i] = Cardinality(Users(i)) + Pin(i)'
    <3>1. CASE bpin(p)
      <4>1. /\ refcnt'[i] = refcnt[i] + 1
            /\ blockno[i] \notin pinned /\ blockno'[i] \in pinned'
        BY <1>t, <2>0, <2>1, <2>2, <3>1 DEF bpin
      <4> QED BY <1>0, <2>2, <4>1
    <3>2. CASE bunpin(p)
      <4>1. /\ refcnt'[i] = refcnt[i] - 1
            /\ blockno[i] \in pinned /\ blockno'[i] \notin pinned'
        BY <1>t, <2>0, <2>1, <2>2, <3>2 DEF bunpin
      <4> QED BY <1>0, <2>2, <4>1
    <3> QED BY <1>6, <3>1, <3>2
  <2> QED BY <1>0, <2>4, <2>5, <2>6 DEF RefcntExact
<1>8. ASSUME NEW p \in Procs, releasesleep(p) PROVE RefcntExact'
  <2>1. \A q \in Procs : pc[q] # "idle" <=> pc'[q] # "idle"
    BY <1>t, <1>8 DEF releasesleep
  <2> QED BY <1>k, <2>1, <1>8 DEF releasesleep, buf, user
<1>9. ASSUME NEW p \in Procs, brelse(p) PROVE RefcntExact'
  <2>0. PICK i \in Bufs : i = mine[p] BY <1>t
  <2>1. /\ mine' = mine /\ pc' = [pc EXCEPT ![p] = "idle"] /\ pc[p] # "idle"
        /\ blockno' = blockno /\ pinned' = pinned
        /\ refcnt' = [refcnt EXCEPT ![i] = @ - 1]
    BY <1>9, <2>0 DEF brelse, Goto, buf, user
  <2>3. /\ Cardinality(Users(i)') = Cardinality(Users(i)) - 1
        /\ \A j \in Bufs \ {i} : Users(j)' = Users(j)
    BY <1>0, <2>0, <2>1, UserLeaves
  <2>4. refcnt'[i] = Cardinality(Users(i)') + Pin(i)'
    BY <1>0, <1>t, <2>1, <2>3
  <2>5. \A j \in Bufs \ {i} : refcnt'[j] = Cardinality(Users(j)') + Pin(j)'
    BY <1>0, <1>t, <2>1, <2>3
  <2> QED BY <2>4, <2>5 DEF RefcntExact
<1>10. CASE UNCHANGED vars BY <1>k, <1>10 DEF vars
<1> QED BY <1>1, <1>2, <1>3, <1>4, <1>5, <1>6, <1>8, <1>9, <1>10, Steps

(* An unused buffer has no user and no pin.                                *)
LEMMA UnusedIsFree ==
    ASSUME BCacheInv, NEW i \in Bufs, refcnt[i] = 0
    PROVE  /\ \A q \in Procs : pc[q] # "idle" => mine[q] # i
           /\ blockno[i] \notin pinned
           /\ locked[i] = NoProc
<1>1. \A q \in Procs : pc[q] # "idle" => mine[q] # i
  <2> SUFFICES ASSUME NEW q \in Procs, pc[q] # "idle", mine[q] = i PROVE FALSE OBVIOUS
  <2>1. refcnt[mine[q]] >= 1 BY UserCounted
  <2> QED BY <2>1
<1>2. blockno[i] \notin pinned
  <2>1. Users(i) = UsersOf(pc, mine, i) BY DEF Users, UsersOf
  <2>2. Cardinality(Users(i)) \in Nat BY <2>1, UsersFinite
  <2>3. refcnt[i] = Cardinality(Users(i)) + IF blockno[i] \in pinned THEN 1 ELSE 0
    BY DEF BCacheInv, RefcntExact
  <2> QED BY <2>2, <2>3
<1>3. locked[i] = NoProc
  <2>1. locked[i] \in Procs \cup {NoProc} BY DEF BCacheInv, TypeOK
  <2>2. locked[i] # NoProc =>
          pc[locked[i]] \in {"read", "have"} /\ mine[locked[i]] = i
    BY DEF BCacheInv, LockInv
  <2> QED BY <1>1, <2>1, <2>2
<1> QED BY <1>1, <1>2, <1>3

(* Users keep their block, and no block gets a second buffer.              *)
LEMMA BlockStep == BCacheInv /\ [Next]_vars => BufferStaysBlock' /\ OneBuffer'
<1> SUFFICES ASSUME BCacheInv, [Next]_vars PROVE BufferStaysBlock' /\ OneBuffer'
  OBVIOUS
<1> USE BCacheAssumption
<1>0. BufferStaysBlock /\ OneBuffer BY DEF BCacheInv
<1>t. /\ mine \in [Procs -> Bufs]
      /\ want \in [Procs -> Blocks \cup {NoBlock}]
      /\ blockno \in [Bufs -> Blocks \cup {NoBlock}]
      /\ pc \in [Procs -> Labels]
      /\ TypeOK
  BY DEF BCacheInv, TypeOK
<1>1. ASSUME NEW p \in Procs, NEW b \in Blocks, bget(p, b)
      PROVE BufferStaysBlock' /\ OneBuffer'
  <2>1. pinned' = pinned /\ pc[p] = "idle" /\ want' = [want EXCEPT ![p] = b]
    BY <1>1 DEF bget
  <2>3. CASE panicked' = TRUE /\ UNCHANGED <<buf, refcnt, mine, pc>>
    BY <1>0, <1>t, <2>1, <2>3 DEF buf, BufferStaysBlock, OneBuffer
  <2>4. ASSUME NEW i \in Bufs, Hits(p, b, i) PROVE BufferStaysBlock' /\ OneBuffer'
    BY <1>0, <1>t, <2>1, <2>4 DEF Hits, buf, BufferStaysBlock, OneBuffer
  <2>5. ASSUME NEW i \in Bufs, Recycles(p, b, i) PROVE BufferStaysBlock' /\ OneBuffer'
    <3>1. /\ blockno' = [blockno EXCEPT ![i] = b]
          /\ mine' = [mine EXCEPT ![p] = i]
          /\ pc' = [pc EXCEPT ![p] = "lock"]
          /\ \A j \in Bufs : blockno[j] # b
          /\ refcnt[i] = 0
      BY <2>5 DEF Recycles
    <3>2. /\ \A q \in Procs : pc[q] # "idle" => mine[q] # i
          /\ blockno[i] \notin pinned
      BY <3>1, UnusedIsFree
    <3>3. BufferStaysBlock' BY <1>0, <1>t, <2>1, <3>1, <3>2 DEF BufferStaysBlock
    <3>4. OneBuffer' BY <1>0, <1>t, <2>1, <3>1, <3>2 DEF OneBuffer
    <3> QED BY <3>3, <3>4
  <2> QED BY <1>t, <1>1, <2>3, <2>4, <2>5, BgetChoice
<1>2. ASSUME blockno' = blockno, mine' = mine, want' = want,
             \A q \in Procs : pc'[q] # "idle" => pc[q] # "idle"
      PROVE  BufferStaysBlock'
  BY <1>0, <1>2 DEF BufferStaysBlock
<1>3. ASSUME blockno' = blockno, pinned' = pinned PROVE OneBuffer'
  BY <1>0, <1>3 DEF OneBuffer
<1>4. ASSUME NEW p \in Procs,
             acquiresleep(p) \/ bread(p) \/ releasesleep(p) \/ brelse(p)
      PROVE  BufferStaysBlock' /\ OneBuffer'
  <2>1. \A q \in Procs : pc'[q] # "idle" => pc[q] # "idle"
    BY <1>t, <1>4 DEF acquiresleep, bread, releasesleep, brelse, Goto
  <2>2. blockno' = blockno /\ mine' = mine /\ want' = want /\ pinned' = pinned
    BY <1>4 DEF acquiresleep, bread, releasesleep, brelse, buf, user
  <2> QED BY <1>2, <1>3, <2>1, <2>2
<1>5. ASSUME NEW p \in Procs, (\E v \in Vals : modify(p, v)) \/ bwrite(p)
      PROVE  BufferStaysBlock' /\ OneBuffer'
  BY <1>2, <1>3, <1>5 DEF modify, bwrite, buf, user
<1>6. ASSUME NEW p \in Procs, bpin(p) PROVE BufferStaysBlock' /\ OneBuffer'
  <2>1. blockno' = blockno /\ mine' = mine /\ want' = want /\ pc' = pc
    BY <1>6 DEF bpin, buf, user
  <2>2. pinned' = pinned \cup {want[p]} /\ want[p] \notin pinned
        /\ Cardinality(pinned) < MaxPinned /\ pc[p] = "have"
    BY <1>6 DEF bpin
  <2>3. blockno[mine[p]] = want[p] /\ mine[p] \in Bufs
    BY <1>0, <1>t, <2>2 DEF BufferStaysBlock
  <2>4. IsFiniteSet(pinned) /\ Cardinality(pinned) \in Nat
    BY <1>0, FS_CardinalityType DEF OneBuffer
  <2>5. IsFiniteSet(pinned') /\ Cardinality(pinned') = Cardinality(pinned) + 1
    BY <2>2, <2>4, FS_AddElement
  <2>6. Cardinality(pinned') <= MaxPinned BY <2>2, <2>4, <2>5
  <2>7. OneBuffer' BY <1>0, <2>1, <2>2, <2>3, <2>5, <2>6 DEF OneBuffer
  <2> QED BY <1>2, <2>1, <2>7
<1>7. ASSUME NEW p \in Procs, bunpin(p) PROVE BufferStaysBlock' /\ OneBuffer'
  <2>1. blockno' = blockno /\ mine' = mine /\ want' = want /\ pc' = pc
    BY <1>7 DEF bunpin, buf, user
  <2>2. pinned' = pinned \ {want[p]} /\ want[p] \in pinned BY <1>7 DEF bunpin
  <2>4. IsFiniteSet(pinned) /\ Cardinality(pinned) \in Nat
        /\ Cardinality(pinned) <= MaxPinned
    BY <1>0, FS_CardinalityType DEF OneBuffer
  <2>5. IsFiniteSet(pinned') /\ Cardinality(pinned') = Cardinality(pinned) - 1
    BY <2>2, <2>4, FS_RemoveElement
  <2>6. Cardinality(pinned') <= MaxPinned BY <2>4, <2>5
  <2>7. OneBuffer' BY <1>0, <2>1, <2>2, <2>5, <2>6 DEF OneBuffer
  <2> QED BY <1>2, <2>1, <2>7
<1>8. CASE UNCHANGED vars BY <1>2, <1>3, <1>8 DEF vars
<1> QED BY <1>1, <1>4, <1>5, <1>6, <1>7, <1>8, Steps

(* The lock has one holder, and its release wakes those that sleep for it. *)
LEMMA LockStep == BCacheInv /\ [Next]_vars => LockInv' /\ NoLostWakeup'
<1> SUFFICES ASSUME BCacheInv, [Next]_vars PROVE LockInv' /\ NoLostWakeup'
  OBVIOUS
<1> USE BCacheAssumption
<1>0. LockInv /\ NoLostWakeup BY DEF BCacheInv
<1>t. /\ mine \in [Procs -> Bufs]
      /\ locked \in [Bufs -> Procs \cup {NoProc}]
      /\ pc \in [Procs -> Labels]
      /\ TypeOK
  BY DEF BCacheInv, TypeOK
<1>k. ASSUME locked' = locked, mine' = mine, pc' = pc PROVE LockInv' /\ NoLostWakeup'
  BY <1>0, <1>k DEF LockInv, NoLostWakeup
<1>1. ASSUME NEW p \in Procs, NEW b \in Blocks, bget(p, b)
      PROVE  LockInv' /\ NoLostWakeup'
  <2>1. locked' = locked /\ pc[p] = "idle" BY <1>1 DEF bget
  <2>2. CASE panicked' = TRUE /\ UNCHANGED <<buf, refcnt, mine, pc>>
    BY <1>k, <2>1, <2>2
  <2>3. ASSUME NEW i \in Bufs, mine' = [mine EXCEPT ![p] = i],
               pc' = [pc EXCEPT ![p] = "lock"]
        PROVE  LockInv' /\ NoLostWakeup'
    <3>1. LockInv' BY <1>0, <1>t, <2>1, <2>3 DEF LockInv
    <3>2. NoLostWakeup' BY <1>0, <1>t, <2>1, <2>3 DEF NoLostWakeup
    <3> QED BY <3>1, <3>2
  <2>4. ASSUME NEW i \in Bufs, Hits(p, b, i) \/ Recycles(p, b, i)
        PROVE  LockInv' /\ NoLostWakeup'
    BY <2>3, <2>4 DEF Hits, Recycles
  <2> QED BY <1>t, <1>1, <2>2, <2>4, BgetChoice
<1>2. ASSUME NEW p \in Procs, acquiresleep(p) PROVE LockInv' /\ NoLostWakeup'
  <2>1. mine' = mine /\ pc[p] = "lock" BY <1>2 DEF acquiresleep, user
  <2>2. CASE locked[mine[p]] # NoProc
    <3>1. locked' = locked /\ pc' = [pc EXCEPT ![p] = "asleep"]
      BY <1>2, <2>2 DEF acquiresleep, Goto
    <3>2. LockInv' BY <1>0, <1>t, <2>1, <3>1 DEF LockInv
    <3>3. NoLostWakeup' BY <1>0, <1>t, <2>1, <2>2, <3>1 DEF NoLostWakeup
    <3> QED BY <3>2, <3>3
  <2>3. CASE locked[mine[p]] = NoProc
    <3>1. locked' = [locked EXCEPT ![mine[p]] = p] /\ pc' = [pc EXCEPT ![p] = "read"]
      BY <1>2, <2>3 DEF acquiresleep, Goto
    <3>2. LockInv' BY <1>0, <1>t, <2>1, <2>3, <3>1 DEF LockInv
    <3>3. NoLostWakeup' BY <1>0, <1>t, <2>1, <3>1 DEF NoLostWakeup
    <3> QED BY <3>2, <3>3
  <2> QED BY <2>2, <2>3
<1>3. ASSUME NEW p \in Procs, bread(p) PROVE LockInv' /\ NoLostWakeup'
  <2>1. /\ mine' = mine /\ locked' = locked
        /\ pc[p] = "read" /\ pc' = [pc EXCEPT ![p] = "have"]
    BY <1>3 DEF bread, Goto, user
  <2>2. LockInv' BY <1>0, <1>t, <2>1 DEF LockInv
  <2>3. NoLostWakeup' BY <1>0, <1>t, <2>1 DEF NoLostWakeup
  <2> QED BY <2>2, <2>3
<1>4. ASSUME NEW p \in Procs,
             (\E v \in Vals : modify(p, v)) \/ bwrite(p) \/ bpin(p) \/ bunpin(p)
      PROVE  LockInv' /\ NoLostWakeup'
  BY <1>k, <1>4 DEF modify, bwrite, bpin, bunpin, user
<1>5. ASSUME NEW p \in Procs, releasesleep(p) PROVE LockInv' /\ NoLostWakeup'
  <2>1. /\ mine' = mine /\ pc[p] = "have"
        /\ locked' = [locked EXCEPT ![mine[p]] = NoProc]
        /\ pc' = [q \in Procs |-> IF q = p THEN "unref"
                                  ELSE IF pc[q] = "asleep" /\ mine[q] = mine[p]
                                       THEN "lock" ELSE pc[q]]
    BY <1>5 DEF releasesleep, user
  <2>2. locked[mine[p]] = p BY <1>0, <2>1 DEF LockInv
  <2>3. LockInv' BY <1>0, <1>t, <2>1, <2>2 DEF LockInv
  <2>4. NoLostWakeup' BY <1>0, <1>t, <2>1 DEF NoLostWakeup
  <2> QED BY <2>3, <2>4
<1>6. ASSUME NEW p \in Procs, brelse(p) PROVE LockInv' /\ NoLostWakeup'
  <2>1. /\ mine' = mine /\ locked' = locked
        /\ pc[p] = "unref" /\ pc' = [pc EXCEPT ![p] = "idle"]
    BY <1>6 DEF brelse, Goto, user
  <2>2. LockInv' BY <1>0, <1>t, <2>1 DEF LockInv
  <2>3. NoLostWakeup' BY <1>0, <1>t, <2>1 DEF NoLostWakeup
  <2> QED BY <2>2, <2>3
<1>7. CASE UNCHANGED vars BY <1>k, <1>7 DEF vars
<1> QED BY <1>1, <1>2, <1>3, <1>4, <1>5, <1>6, <1>7, Steps

(* Who has a buffer has read it, and a buffer gets a block before it is    *)
(* read.                                                                   *)
LEMMA ValidStep == BCacheInv /\ [Next]_vars => ValidInv'
<1> SUFFICES ASSUME BCacheInv, [Next]_vars PROVE ValidInv' OBVIOUS
<1> USE BCacheAssumption
<1>0. ValidInv /\ BufferStaysBlock BY DEF BCacheInv
<1>t. /\ mine \in [Procs -> Bufs]
      /\ pc \in [Procs -> Labels]
      /\ blockno \in [Bufs -> Blocks \cup {NoBlock}]
      /\ valid \in [Bufs -> BOOLEAN]
      /\ TypeOK
  BY DEF BCacheInv, TypeOK
<1>1. ASSUME NEW p \in Procs, NEW b \in Blocks, bget(p, b) PROVE ValidInv'
  <2>2. CASE panicked' = TRUE /\ UNCHANGED <<buf, refcnt, mine, pc>>
    BY <1>0, <2>2 DEF ValidInv, buf
  <2>3. ASSUME NEW i \in Bufs, Hits(p, b, i) PROVE ValidInv'
    <3>1. /\ mine' = [mine EXCEPT ![p] = i] /\ pc' = [pc EXCEPT ![p] = "lock"]
          /\ valid' = valid /\ blockno' = blockno
      BY <2>3 DEF Hits, buf
    <3> QED BY <1>0, <1>t, <3>1 DEF ValidInv
  <2>4. ASSUME NEW i \in Bufs, Recycles(p, b, i) PROVE ValidInv'
    <3>1. /\ mine' = [mine EXCEPT ![p] = i] /\ pc' = [pc EXCEPT ![p] = "lock"]
          /\ valid' = [valid EXCEPT ![i] = FALSE]
          /\ blockno' = [blockno EXCEPT ![i] = b]
          /\ refcnt[i] = 0
      BY <2>4 DEF Recycles
    <3>2. \A q \in Procs : pc[q] # "idle" => mine[q] # i BY <3>1, UnusedIsFree
    <3> QED BY <1>0, <1>t, <3>1, <3>2 DEF ValidInv
  <2> QED BY <1>t, <1>1, <2>2, <2>3, <2>4, BgetChoice
<1>2. ASSUME NEW p \in Procs, acquiresleep(p) PROVE ValidInv'
  <2>1. /\ UNCHANGED <<mine, blockno, valid>>
        /\ \A q \in Procs : pc'[q] = "have" => pc[q] = "have"
    BY <1>t, <1>2 DEF acquiresleep, Goto, buf, user
  <2> QED BY <1>0, <2>1 DEF ValidInv
<1>3. ASSUME NEW p \in Procs, bread(p) PROVE ValidInv'
  <2>1. /\ UNCHANGED <<mine, blockno>>
        /\ pc[p] = "read" /\ pc' = [pc EXCEPT ![p] = "have"]
    BY <1>3 DEF bread, Goto, user
  <2>2. valid'[mine[p]] /\ \A i \in Bufs \ {mine[p]} : valid'[i] = valid[i]
    BY <1>t, <1>3 DEF bread
  <2>3. blockno[mine[p]] \in Blocks BY <1>0, <2>1 DEF BufferStaysBlock
  <2> QED BY <1>0, <1>t, <2>1, <2>2, <2>3 DEF ValidInv
<1>4. ASSUME NEW p \in Procs, \/ \E v \in Vals : modify(p, v)
                              \/ bwrite(p) \/ bpin(p) \/ bunpin(p)
                              \/ releasesleep(p) \/ brelse(p)
      PROVE  ValidInv'
  <2>1. /\ UNCHANGED <<mine, blockno, valid>>
        /\ \A q \in Procs : pc'[q] = "have" => pc[q] = "have"
    BY <1>t, <1>4 DEF modify, bwrite, bpin, bunpin, releasesleep, brelse, Goto, buf, user
  <2> QED BY <1>0, <2>1 DEF ValidInv
<1>5. CASE UNCHANGED vars BY <1>0, <1>5 DEF vars, ValidInv
<1> QED BY <1>1, <1>2, <1>3, <1>4, <1>5, Steps

(* binit leaves every buffer unused, clean and linked once.                *)
LEMMA InitInv == Init => BCacheInv
<1> SUFFICES ASSUME Init PROVE BCacheInv OBVIOUS
<1> USE BCacheAssumption
<1>1. Linked
  <2>1. lru = [k \in Bufs |-> NBUF + 1 - k] BY DEF Init
  <2>2. \A k \in Bufs : NBUF + 1 - k \in Bufs BY DEF Bufs
  <2>3. lru \in [Bufs -> Bufs] BY <2>1, <2>2
  <2>4. \A j, k \in Bufs : lru[j] = lru[k] => j = k BY <2>1 DEF Bufs
  <2>5. ASSUME NEW i \in Bufs PROVE \E k \in Bufs : lru[k] = i
    <3>1. NBUF + 1 - i \in Bufs BY <2>2
    <3>2. lru[NBUF + 1 - i] = NBUF + 1 - (NBUF + 1 - i) BY <2>1, <3>1
    <3>3. NBUF + 1 - (NBUF + 1 - i) = i BY DEF Bufs
    <3> QED BY <3>1, <3>2, <3>3
  <2> QED BY <2>3, <2>4, <2>5 DEF Linked
<1>2. TypeOK
  <2>1. 1 \in Bufs BY DEF Bufs
  <2>2. (CHOOSE v \in Vals : TRUE) \in Vals OBVIOUS
  <2>3. data \in [Bufs -> Vals] BY <2>2 DEF Init
  <2> QED BY <1>1, <2>1, <2>3 DEF Init, TypeOK, Labels
<1>3. RefcntExact
  <2>1. \A i \in Bufs : Users(i) = {} BY DEF Init, Users
  <2>2. \A i \in Bufs : refcnt[i] = 0 /\ blockno[i] \notin pinned BY DEF Init
  <2> QED BY <2>1, <2>2, FS_EmptySet DEF RefcntExact
<1>4. BufferStaysBlock /\ LockInv /\ NoLostWakeup /\ ValidInv
  BY DEF Init, BufferStaysBlock, LockInv, NoLostWakeup, ValidInv
<1>5. OneBuffer
  <2>1. pinned = {} /\ \A i \in Bufs : blockno[i] \notin Blocks BY DEF Init
  <2>2. IsFiniteSet(pinned) /\ Cardinality(pinned) = 0 BY <2>1, FS_EmptySet
  <2> QED BY <2>1, <2>2 DEF OneBuffer
<1> QED BY <1>2, <1>3, <1>4, <1>5 DEF BCacheInv

(* The accounting of the buffer cache holds between any two critical       *)
(* sections of bio.c, for any number of users, blocks and buffers.         *)
THEOREM BCacheInvariance == Spec => []BCacheInv
<1>1. BCacheInv /\ [Next]_vars => BCacheInv'
  BY TypesStep, RefcntStep, BlockStep, LockStep, ValidStep DEF BCacheInv
<1> QED BY InitInv, <1>1, PTL DEF Spec

(* The buffer bget chose still holds the caller's block when acquiresleep  *)
(* returns.                                                                *)
THEOREM BufferStaysBlockHolds == Spec => []BufferStaysBlock
<1>1. BCacheInv => BufferStaysBlock BY DEF BCacheInv
<1> QED BY BCacheInvariance, <1>1, PTL

(* refcnt is the number of users plus the pin.                             *)
THEOREM RefcntExactHolds == Spec => []RefcntExact
<1>1. BCacheInv => RefcntExact BY DEF BCacheInv
<1> QED BY BCacheInvariance, <1>1, PTL

(* No process sleeps in acquiresleep for a lock that nobody has.           *)
THEOREM NoLostWakeupHolds == Spec => []NoLostWakeup
<1>1. BCacheInv => NoLostWakeup BY DEF BCacheInv
<1> QED BY BCacheInvariance, <1>1, PTL

----------------------------------------------------------------------------
(* Enough buffers for the users and the pins.                              *)

(* When every buffer is in use, there are no more of them than busy        *)
(* processes and pins.                                                     *)
LEMMA AllUsed ==
    ASSUME BCacheInv, \A i \in Bufs : refcnt[i] # 0
    PROVE  /\ NBUF <= Cardinality(Busy) + Cardinality(pinned)
           /\ IsFiniteSet(Busy) /\ Cardinality(Busy) \in Nat
           /\ Cardinality(pinned) \in Nat
<1> USE BCacheAssumption
<1> DEFINE A == {i \in Bufs : Users(i) # {}}
           B == {i \in Bufs : blockno[i] \in pinned}
           f == [i \in A |-> CHOOSE q \in Users(i) : TRUE]
           g == [i \in B |-> blockno[i]]
<1>1. Bufs \subseteq A \cup B
  <2> SUFFICES ASSUME NEW i \in Bufs, Users(i) = {}, blockno[i] \notin pinned
               PROVE  FALSE
    OBVIOUS
  <2>1. refcnt[i] = Cardinality(Users(i)) + 0 BY DEF BCacheInv, RefcntExact
  <2> QED BY <2>1, FS_EmptySet
<1>2. f \in Injection(A, Busy)
  <2>1. \A i \in A : f[i] \in Users(i) OBVIOUS
  <2>2. \A i \in A : f[i] \in Busy /\ mine[f[i]] = i BY <2>1 DEF Users, Busy
  <2>3. f \in [A -> Busy] BY <2>2
  <2> HIDE DEF f, A
  <2> QED BY <2>2, <2>3 DEF Injection, IsInjective
<1>3. g \in Injection(B, pinned)
  <2>1. pinned \subseteq Blocks BY DEF BCacheInv, TypeOK
  <2>2. \A i, j \in B : blockno[i] = blockno[j] => i = j
    BY <2>1 DEF BCacheInv, OneBuffer
  <2> QED BY <2>2 DEF Injection, IsInjective
<1>4. IsFiniteSet(Busy) /\ Cardinality(Busy) \in Nat
  <2>1. Busy \subseteq Procs BY DEF Busy
  <2> QED BY <2>1, FS_Subset, FS_CardinalityType
<1>5. IsFiniteSet(pinned) /\ Cardinality(pinned) \in Nat
  BY FS_CardinalityType DEF BCacheInv, OneBuffer
<1>6. /\ IsFiniteSet(Bufs) /\ Cardinality(Bufs) = NBUF BY FS_Interval DEF Bufs
<1> HIDE DEF A, B, f, g
<1>7. IsFiniteSet(A) /\ Cardinality(A) <= Cardinality(Busy)
  BY <1>2, <1>4, FS_Injection
<1>8. IsFiniteSet(B) /\ Cardinality(B) <= Cardinality(pinned)
  BY <1>3, <1>5, FS_Injection
<1>9. /\ IsFiniteSet(A \cup B)
      /\ Cardinality(A \cup B) = Cardinality(A) + Cardinality(B) - Cardinality(A \cap B)
  BY <1>7, <1>8, FS_Union
<1>10. IsFiniteSet(A \cap B) BY <1>7, FS_Intersection
<1>11. /\ Cardinality(A) \in Nat /\ Cardinality(B) \in Nat
       /\ Cardinality(A \cap B) \in Nat
  BY <1>7, <1>8, <1>10, FS_CardinalityType
<1>12. Cardinality(Bufs) <= Cardinality(A \cup B) BY <1>1, <1>9, FS_Subset
<1> QED BY <1>4, <1>5, <1>6, <1>7, <1>8, <1>9, <1>11, <1>12

(* A step of the cache is a bget, or leaves panicked as it is.             *)
LEMMA PanicSteps ==
    ASSUME [Next]_vars
    PROVE  panicked' = panicked \/ \E p \in Procs, b \in Blocks : bget(p, b)
BY Steps DEF acquiresleep, bread, modify, bwrite, bpin, bunpin, releasesleep, brelse, vars

(* Once bget has panicked the users may go on with the buffers they have,  *)
(* but nobody becomes idle and no pin goes.                                *)
LEMMA StillUsed ==
    ASSUME BCacheInv, [Next]_vars, panicked
    PROVE  Busy' = Busy /\ pinned' = pinned
<1>1. /\ pinned' = pinned
      /\ \A q \in Procs : pc'[q] # "idle" <=> pc[q] # "idle"
  BY Steps DEF BCacheInv, TypeOK, bget, acquiresleep, bread, modify, bwrite, bpin,
               bunpin, releasesleep, brelse, Goto, vars
<1> QED BY <1>1 DEF Busy

(* bget panics only when the users and the pins come to NBUF, whatever the *)
(* number of processes, buffers and pins: bio.c leaks no buffer.           *)
THEOREM NoBufferLeaked == Spec => []PanicOnlyWhenExhausted
<1>1. Init => PanicOnlyWhenExhausted BY DEF Init, PanicOnlyWhenExhausted
<1>2. PanicOnlyWhenExhausted /\ BCacheInv /\ [Next]_vars => PanicOnlyWhenExhausted'
  <2> SUFFICES ASSUME PanicOnlyWhenExhausted, BCacheInv, [Next]_vars, panicked'
               PROVE  NBUF <= Cardinality(Busy') + Cardinality(pinned')
    BY DEF PanicOnlyWhenExhausted
  <2>1. CASE panicked BY <2>1, StillUsed DEF PanicOnlyWhenExhausted
  <2>2. CASE ~panicked
    <3>1. PICK p \in Procs, b \in Blocks : bget(p, b) BY <2>2, PanicSteps
    <3>2. /\ \A i \in Bufs : refcnt[i] # 0
          /\ pc' = pc /\ pinned' = pinned
      BY <2>2, <3>1 DEF bget
    <3>3. Busy' = Busy BY <3>2 DEF Busy
    <3> QED BY <3>2, <3>3, AllUsed
  <2> QED BY <2>1, <2>2
<1> QED BY <1>1, <1>2, BCacheInvariance, PTL DEF Spec

----------------------------------------------------------------------------
(* The cache implements LockedStore.                                       *)

(* What the mapping's two choices choose.                                  *)
HolderFact ==
    \A b \in Blocks :
      /\ \A p \in Procs : pc[p] = "have" /\ want[p] = b => Holder(b) = p
      /\ (\A p \in Procs : ~(pc[p] = "have" /\ want[p] = b)) => Holder(b) = NoProc

ContentFact ==
    \A b \in Blocks :
      /\ \A i \in Bufs : blockno[i] = b =>
           Content(b) = IF valid[i] THEN data[i] ELSE disk[b]
      /\ (\A i \in Bufs : blockno[i] # b) => Content(b) = disk[b]

(* A block is had by the one user that has the lock of its one buffer, and *)
(* the content of a block is that of its one valid buffer.                 *)
LEMMA MappingFacts == BCacheInv => HolderFact /\ ContentFact
<1> SUFFICES ASSUME BCacheInv PROVE HolderFact /\ ContentFact OBVIOUS
<1>1. HolderFact
  <2>1. ASSUME NEW b \in Blocks, NEW p \in Procs, NEW q \in Procs,
               pc[p] = "have", want[p] = b, pc[q] = "have", want[q] = b
        PROVE  p = q
    <3>1. mine[p] \in Bufs /\ mine[q] \in Bufs BY DEF BCacheInv, TypeOK
    <3>2. blockno[mine[p]] = b /\ blockno[mine[q]] = b
      BY <2>1 DEF BCacheInv, BufferStaysBlock
    <3>3. mine[p] = mine[q] BY <3>1, <3>2 DEF BCacheInv, OneBuffer
    <3>4. locked[mine[p]] = p /\ locked[mine[q]] = q BY <2>1 DEF BCacheInv, LockInv
    <3> QED BY <3>3, <3>4
  <2> QED BY <2>1 DEF HolderFact, Holder
<1>2. ContentFact
  <2>1. \A b \in Blocks : \A i, j \in Bufs : blockno[i] = b /\ blockno[j] = b => i = j
    BY DEF BCacheInv, OneBuffer
  <2> QED BY <2>1 DEF ContentFact, Content, Cached
<1> QED BY <1>1, <1>2

(* The same users have the same blocks.                                    *)
LEMMA HolderKept ==
    ASSUME HolderFact, HolderFact',
           \A q \in Procs : pc'[q] = "have" <=> pc[q] = "have",
           \A q \in Procs : pc[q] = "have" => want'[q] = want[q]
    PROVE  [b \in Blocks |-> Holder(b)]' = [b \in Blocks |-> Holder(b)]
<1>1. ASSUME NEW b \in Blocks PROVE Holder(b)' = Holder(b)
  <2>1. CASE \E p \in Procs : pc[p] = "have" /\ want[p] = b
    <3>1. PICK p \in Procs : pc[p] = "have" /\ want[p] = b BY <2>1
    <3>2. Holder(b) = p BY <3>1 DEF HolderFact
    <3>3. Holder(b)' = p BY <3>1 DEF HolderFact
    <3> QED BY <3>2, <3>3
  <2>2. CASE \A p \in Procs : ~(pc[p] = "have" /\ want[p] = b)
    <3>1. Holder(b) = NoProc BY <2>2 DEF HolderFact
    <3>2. Holder(b)' = NoProc BY <2>2 DEF HolderFact
    <3> QED BY <3>1, <3>2
  <2> QED BY <2>1, <2>2
<1> QED BY <1>1

(* Buffers that are not recycled and keep their content or their disk      *)
(* block's keep the content of every block.                                *)
LEMMA ContentKept ==
    ASSUME ContentFact, ContentFact', blockno' = blockno,
           \A i \in Bufs : blockno[i] \in Blocks =>
             (IF valid'[i] THEN data'[i] ELSE disk'[blockno[i]]) =
             (IF valid[i] THEN data[i] ELSE disk[blockno[i]]),
           \A b \in Blocks : (\A i \in Bufs : blockno[i] # b) => disk'[b] = disk[b]
    PROVE  [b \in Blocks |-> Content(b)]' = [b \in Blocks |-> Content(b)]
<1>1. ASSUME NEW b \in Blocks PROVE Content(b)' = Content(b)
  <2>1. CASE \E i \in Bufs : blockno[i] = b
    <3>1. PICK i \in Bufs : blockno[i] = b BY <2>1
    <3>2. Content(b) = IF valid[i] THEN data[i] ELSE disk[b]
      BY <3>1 DEF ContentFact
    <3>3. Content(b)' = IF valid'[i] THEN data'[i] ELSE disk'[b]
      BY <3>1 DEF ContentFact
    <3> QED BY <3>1, <3>2, <3>3
  <2>2. CASE \A i \in Bufs : blockno[i] # b
    <3>1. Content(b) = disk[b] BY <2>2 DEF ContentFact
    <3>2. Content(b)' = disk'[b] BY <2>2 DEF ContentFact
    <3> QED BY <2>2, <3>1, <3>2
  <2> QED BY <2>1, <2>2
<1> QED BY <1>1

(* Each step of the cache is a step of the store, or changes neither the   *)
(* holders nor the contents.                                               *)
LEMMA StepRefines ==
    ASSUME BCacheInv, BCacheInv', HolderFact, HolderFact', ContentFact,
           ContentFact', [Next]_vars
    PROVE  [Store!Next]_(Store!vars)
<1> USE BCacheAssumption
<1> DEFINE C == [b \in Blocks |-> Content(b)]
           H == [b \in Blocks |-> Holder(b)]
<1>s. ASSUME C' = C, H' = H, disk' = disk, pinned' = pinned
      PROVE  [Store!Next]_(Store!vars)
  BY <1>s DEF Store!vars
<1>t. /\ mine \in [Procs -> Bufs]
      /\ want \in [Procs -> Blocks \cup {NoBlock}]
      /\ locked \in [Bufs -> Procs \cup {NoProc}]
      /\ pc \in [Procs -> Labels]
      /\ blockno \in [Bufs -> Blocks \cup {NoBlock}]
      /\ valid \in [Bufs -> BOOLEAN]
      /\ data \in [Bufs -> Vals]
      /\ disk \in [Blocks -> Vals]
      /\ TypeOK
  BY DEF BCacheInv, TypeOK
<1>u. ASSUME NEW p \in Procs, pc[p] # "idle"
      PROVE  /\ mine[p] \in Bufs /\ want[p] \in Blocks /\ blockno[mine[p]] = want[p]
             /\ \A i \in Bufs : blockno[i] = want[p] => i = mine[p]
  <2>1. want[p] \in Blocks /\ blockno[mine[p]] = want[p]
    BY <1>u DEF BCacheInv, BufferStaysBlock
  <2>2. mine[p] \in Bufs BY <1>t
  <2>3. \A i, j \in Bufs : blockno[i] = blockno[j] /\ blockno[i] \in Blocks => i = j
    BY DEF BCacheInv, OneBuffer
  <2> QED BY <2>1, <2>2, <2>3
<1>1. ASSUME NEW p \in Procs, NEW b \in Blocks, bget(p, b)
      PROVE  [Store!Next]_(Store!vars)
  <2>1. /\ disk' = disk /\ pinned' = pinned
        /\ pc[p] = "idle" /\ want' = [want EXCEPT ![p] = b]
    BY <1>1 DEF bget
  <2>2. ASSUME pc' = pc \/ pc' = [pc EXCEPT ![p] = "lock"] PROVE H' = H
    <3>1. \A q \in Procs : pc'[q] = "have" <=> pc[q] = "have" BY <1>t, <2>1, <2>2
    <3>2. \A q \in Procs : pc[q] = "have" => want'[q] = want[q] BY <1>t, <2>1
    <3> QED BY <3>1, <3>2, HolderKept
  <2>3. CASE panicked' = TRUE /\ UNCHANGED <<buf, refcnt, mine, pc>>
    <3>1. C' = C BY <2>1, <2>3, ContentKept DEF buf
    <3> QED BY <2>1, <2>2, <2>3, <3>1, <1>s
  <2>4. ASSUME NEW i \in Bufs, Hits(p, b, i) PROVE [Store!Next]_(Store!vars)
    <3>1. C' = C BY <2>1, <2>4, ContentKept DEF Hits, buf
    <3>2. H' = H BY <2>2, <2>4 DEF Hits
    <3> QED BY <2>1, <3>1, <3>2, <1>s
  <2>5. ASSUME NEW i \in Bufs, Recycles(p, b, i) PROVE [Store!Next]_(Store!vars)
    <3>1. /\ blockno' = [blockno EXCEPT ![i] = b]
          /\ valid' = [valid EXCEPT ![i] = FALSE] /\ data' = data
          /\ refcnt[i] = 0
          /\ \A j \in Bufs : blockno[j] # b
      BY <2>5 DEF Recycles
    <3>2. H' = H BY <2>2, <2>5 DEF Recycles
    <3>3. ASSUME NEW c \in Blocks
          PROVE  Content(c)' = IF c = blockno[i] THEN disk[c] ELSE Content(c)
      <4>1. CASE c = b
        <5>1. Content(c) = disk[c] /\ c # blockno[i] BY <3>1, <4>1 DEF ContentFact
        <5>2. blockno'[i] = c /\ ~valid'[i] BY <1>t, <3>1, <4>1
        <5>3. Content(c)' = disk'[c] BY <5>2 DEF ContentFact
        <5> QED BY <2>1, <5>1, <5>3
      <4>2. CASE c # b /\ blockno[i] = c
        <5>2. \A j \in Bufs : blockno[j] = c => j = i
          BY <4>2 DEF BCacheInv, OneBuffer
        <5>3. \A j \in Bufs : blockno'[j] # c BY <1>t, <3>1, <4>2, <5>2
        <5>4. Content(c)' = disk'[c] BY <5>3 DEF ContentFact
        <5> QED BY <2>1, <4>2, <5>4
      <4>3. CASE c # b /\ blockno[i] # c /\ \E j \in Bufs : blockno[j] = c
        <5>1. PICK j \in Bufs : blockno[j] = c BY <4>3
        <5>2. blockno'[j] = c /\ valid'[j] = valid[j] /\ data'[j] = data[j]
          BY <1>t, <3>1, <4>3, <5>1
        <5>3. Content(c) = IF valid[j] THEN data[j] ELSE disk[c]
          BY <5>1 DEF ContentFact
        <5>4. Content(c)' = IF valid'[j] THEN data'[j] ELSE disk'[c]
          BY <5>2 DEF ContentFact
        <5> QED BY <2>1, <4>3, <5>2, <5>3, <5>4
      <4>4. CASE c # b /\ \A j \in Bufs : blockno[j] # c
        <5>1. \A j \in Bufs : blockno'[j] # c BY <1>t, <3>1, <4>4
        <5>2. Content(c) = disk[c] BY <4>4 DEF ContentFact
        <5>3. Content(c)' = disk'[c] BY <5>1 DEF ContentFact
        <5> QED BY <2>1, <4>4, <5>2, <5>3
      <4> QED BY <4>1, <4>2, <4>3, <4>4
    <3>4. CASE blockno[i] \in Blocks
      <4>1. C' = [C EXCEPT ![blockno[i]] = disk[blockno[i]]] BY <3>3, <3>4
      <4>2. blockno[i] \notin pinned /\ \A q \in Procs : pc[q] # "idle" => mine[q] # i
        BY <3>1, UnusedIsFree
      <4>3. \A q \in Procs : ~(pc[q] = "have" /\ want[q] = blockno[i])
        <5> SUFFICES ASSUME NEW q \in Procs, pc[q] = "have", want[q] = blockno[i]
                     PROVE  FALSE
          OBVIOUS
        <5>1. i = mine[q] BY <1>u
        <5> QED BY <4>2, <5>1
      <4>4. H[blockno[i]] = NoProc BY <3>4, <4>3 DEF HolderFact
      <4>5. Store!Forget(blockno[i]) BY <2>1, <3>2, <4>1, <4>2, <4>4 DEF Store!Forget
      <4> QED BY <3>4, <4>5 DEF Store!Next
    <3>5. CASE blockno[i] \notin Blocks
      <4>1. C' = C BY <3>3, <3>5
      <4> QED BY <2>1, <3>2, <4>1, <1>s
    <3> QED BY <3>4, <3>5
  <2> QED BY <1>t, <1>1, <2>3, <2>4, <2>5, BgetChoice
<1>2. ASSUME NEW p \in Procs, acquiresleep(p) PROVE [Store!Next]_(Store!vars)
  <2>1. \A q \in Procs : pc'[q] = "have" <=> pc[q] = "have"
    BY <1>t, <1>2 DEF acquiresleep, Goto
  <2>2. UNCHANGED <<disk, pinned, blockno, valid, data, want>>
    BY <1>2 DEF acquiresleep, buf, user
  <2>3. C' = C BY <2>2, ContentKept
  <2>4. H' = H BY <2>1, <2>2, HolderKept
  <2> QED BY <2>2, <2>3, <2>4, <1>s
<1>3. ASSUME NEW p \in Procs, bread(p) PROVE [Store!Next]_(Store!vars)
  <2>1. /\ UNCHANGED <<disk, pinned, blockno, want, mine>>
        /\ pc[p] = "read" /\ pc' = [pc EXCEPT ![p] = "have"]
    BY <1>3 DEF bread, Goto, user
  <2>2. want[p] \in Blocks /\ blockno[mine[p]] = want[p] /\ mine[p] \in Bufs
    BY <1>u, <2>1
  <2>3. \A i \in Bufs :
          (IF valid'[i] THEN data'[i] ELSE disk'[blockno[i]]) =
          (IF valid[i] THEN data[i] ELSE disk[blockno[i]])
    <3>1. CASE valid[mine[p]] BY <1>3, <2>1, <3>1 DEF bread
    <3>2. CASE ~valid[mine[p]]
      <4>1. /\ data' = [data EXCEPT ![mine[p]] = disk[blockno[mine[p]]]]
            /\ valid' = [valid EXCEPT ![mine[p]] = TRUE]
        BY <1>3, <3>2 DEF bread
      <4> QED BY <1>t, <2>1, <3>2, <4>1
    <3> QED BY <3>1, <3>2
  <2>4. C' = C BY <2>1, <2>3, ContentKept
  <2>5. \A q \in Procs : ~(pc[q] = "have" /\ want[q] = want[p])
    <3> SUFFICES ASSUME NEW q \in Procs, pc[q] = "have", want[q] = want[p] PROVE FALSE
      OBVIOUS
    <3>1. mine[q] = mine[p] BY <1>u, <2>2
    <3>2. locked[mine[q]] = q /\ locked[mine[p]] = p BY <2>1 DEF BCacheInv, LockInv
    <3> QED BY <2>1, <3>1, <3>2
  <2>6. H[want[p]] = NoProc BY <2>2, <2>5 DEF HolderFact
  <2>7. ASSUME NEW b \in Blocks PROVE Holder(b)' = IF b = want[p] THEN p ELSE Holder(b)
    <3>1. CASE b = want[p]
      <4>1. pc'[p] = "have" /\ want'[p] = b BY <1>t, <2>1, <3>1
      <4> QED BY <3>1, <4>1 DEF HolderFact
    <3>2. CASE b # want[p] /\ \E q \in Procs : pc[q] = "have" /\ want[q] = b
      <4>1. PICK q \in Procs : pc[q] = "have" /\ want[q] = b BY <3>2
      <4>2. pc'[q] = "have" /\ want'[q] = b BY <1>t, <2>1, <4>1
      <4>3. Holder(b) = q BY <4>1 DEF HolderFact
      <4>4. Holder(b)' = q BY <4>2 DEF HolderFact
      <4> QED BY <3>2, <4>3, <4>4
    <3>3. CASE b # want[p] /\ \A q \in Procs : ~(pc[q] = "have" /\ want[q] = b)
      <4>1. \A q \in Procs : ~(pc'[q] = "have" /\ want'[q] = b) BY <1>t, <2>1, <3>3
      <4>2. Holder(b) = NoProc BY <3>3 DEF HolderFact
      <4>3. Holder(b)' = NoProc BY <4>1 DEF HolderFact
      <4> QED BY <3>3, <4>2, <4>3
    <3> QED BY <3>1, <3>2, <3>3
  <2>8. H' = [H EXCEPT ![want[p]] = p] BY <2>7
  <2>9. Store!Take(p, want[p]) BY <2>1, <2>4, <2>6, <2>8 DEF Store!Take
  <2> QED BY <2>2, <2>9 DEF Store!Next
<1>4. ASSUME NEW p \in Procs, NEW v \in Vals, modify(p, v)
      PROVE  [Store!Next]_(Store!vars)
  <2>1. /\ UNCHANGED <<disk, pinned, blockno, want, mine, pc, valid>>
        /\ pc[p] = "have" /\ data' = [data EXCEPT ![mine[p]] = v]
    BY <1>4 DEF modify, user
  <2>2. want[p] \in Blocks /\ blockno[mine[p]] = want[p] /\ mine[p] \in Bufs
        /\ \A i \in Bufs : blockno[i] = want[p] => i = mine[p]
    BY <1>u, <2>1
  <2>3. valid[mine[p]] BY <2>1 DEF BCacheInv, ValidInv
  <2>4. H' = H BY <2>1, HolderKept
  <2>5. H[want[p]] = p BY <2>1, <2>2 DEF HolderFact
  <2>6. ASSUME NEW b \in Blocks PROVE Content(b)' = IF b = want[p] THEN v ELSE Content(b)
    <3>1. CASE b = want[p]
      <4>1. PICK i \in Bufs : i = mine[p] BY <2>2
      <4>2. blockno'[i] = b /\ valid'[i] /\ data'[i] = v
        BY <1>t, <2>1, <2>2, <2>3, <3>1, <4>1
      <4>3. Content(b)' = IF valid'[i] THEN data'[i] ELSE disk'[b]
        BY <4>2 DEF ContentFact
      <4> QED BY <3>1, <4>2, <4>3
    <3>2. CASE b # want[p] /\ \E i \in Bufs : blockno[i] = b
      <4>1. PICK i \in Bufs : blockno[i] = b BY <3>2
      <4>2. data'[i] = data[i] BY <1>t, <2>1, <2>2, <3>2, <4>1
      <4>3. Content(b) = IF valid[i] THEN data[i] ELSE disk[b] BY <4>1 DEF ContentFact
      <4>4. Content(b)' = IF valid'[i] THEN data'[i] ELSE disk'[b]
        BY <2>1, <4>1 DEF ContentFact
      <4> QED BY <2>1, <3>2, <4>2, <4>3, <4>4
    <3>3. CASE b # want[p] /\ \A i \in Bufs : blockno[i] # b
      <4>1. Content(b) = disk[b] BY <3>3 DEF ContentFact
      <4>2. Content(b)' = disk'[b] BY <2>1, <3>3 DEF ContentFact
      <4> QED BY <2>1, <3>3, <4>1, <4>2
    <3> QED BY <3>1, <3>2, <3>3
  <2>7. C' = [C EXCEPT ![want[p]] = v] BY <2>6
  <2>8. Store!Change(p, want[p], v) BY <2>1, <2>4, <2>5, <2>7 DEF Store!Change
  <2> QED BY <2>2, <2>8 DEF Store!Next
<1>5. ASSUME NEW p \in Procs, bwrite(p) PROVE [Store!Next]_(Store!vars)
  <2>1. /\ UNCHANGED <<data, pinned, blockno, want, mine, pc, valid>> /\ pc[p] = "have"
        /\ disk' = [disk EXCEPT ![blockno[mine[p]]] = data[mine[p]]]
    BY <1>5 DEF bwrite, buf, user
  <2>2. want[p] \in Blocks /\ blockno[mine[p]] = want[p] /\ mine[p] \in Bufs
        /\ \A i \in Bufs : blockno[i] = want[p] => i = mine[p]
    BY <1>u, <2>1
  <2>3. valid[mine[p]] BY <2>1 DEF BCacheInv, ValidInv
  <2>4. H' = H BY <2>1, HolderKept
  <2>5. \A b \in Blocks \ {want[p]} : disk'[b] = disk[b] BY <1>t, <2>1, <2>2
  <2>6. \A i \in Bufs : blockno[i] \in Blocks =>
          (IF valid'[i] THEN data'[i] ELSE disk'[blockno[i]]) =
          (IF valid[i] THEN data[i] ELSE disk[blockno[i]])
    BY <2>1, <2>2, <2>3, <2>5
  <2>7. \A b \in Blocks : (\A i \in Bufs : blockno[i] # b) => disk'[b] = disk[b]
    BY <2>2, <2>5
  <2>8. C' = C BY <2>1, <2>6, <2>7, ContentKept
  <2>9. H[want[p]] = p BY <2>1, <2>2 DEF HolderFact
  <2>10. C[want[p]] = data[mine[p]] BY <2>2, <2>3 DEF ContentFact
  <2>11. Store!Write(p, want[p])
    BY <2>1, <2>2, <2>4, <2>8, <2>9, <2>10 DEF Store!Write
  <2> QED BY <2>2, <2>11 DEF Store!Next
<1>6. ASSUME NEW p \in Procs, bpin(p) \/ bunpin(p) \/ brelse(p)
      PROVE  [Store!Next]_(Store!vars)
  <2>1. UNCHANGED <<disk, blockno, valid, data, want>>
    BY <1>6 DEF bpin, bunpin, brelse, buf, user
  <2>2. \A q \in Procs : pc'[q] = "have" <=> pc[q] = "have"
    BY <1>t, <1>6 DEF bpin, bunpin, brelse, Goto
  <2>3. C' = C BY <2>1, ContentKept
  <2>4. H' = H BY <2>1, <2>2, HolderKept
  <2>5. pc[p] = "have" => want[p] \in Blocks /\ H[want[p]] = p
    BY <1>u DEF HolderFact
  <2>6. CASE bpin(p)
    <3>1. pc[p] = "have" /\ pinned' = pinned \cup {want[p]} BY <2>6 DEF bpin
    <3>2. Store!Keep(p, want[p]) BY <2>1, <2>3, <2>4, <2>5, <3>1 DEF Store!Keep
    <3> QED BY <2>5, <3>1, <3>2 DEF Store!Next
  <2>7. CASE bunpin(p)
    <3>1. pc[p] = "have" /\ pinned' = pinned \ {want[p]} BY <2>7 DEF bunpin
    <3>2. Store!Unkeep(p, want[p]) BY <2>1, <2>3, <2>4, <2>5, <3>1 DEF Store!Unkeep
    <3> QED BY <2>5, <3>1, <3>2 DEF Store!Next
  <2>8. CASE brelse(p)
    <3>1. pinned' = pinned BY <2>8 DEF brelse
    <3> QED BY <2>1, <2>3, <2>4, <3>1, <1>s
  <2> QED BY <1>6, <2>6, <2>7, <2>8
<1>7. ASSUME NEW p \in Procs, releasesleep(p) PROVE [Store!Next]_(Store!vars)
  <2>1. /\ UNCHANGED <<disk, pinned, blockno, valid, data, want, mine>> /\ pc[p] = "have"
        /\ pc' = [q \in Procs |-> IF q = p THEN "unref"
                                  ELSE IF pc[q] = "asleep" /\ mine[q] = mine[p]
                                       THEN "lock" ELSE pc[q]]
    BY <1>7 DEF releasesleep, buf, user
  <2>2. want[p] \in Blocks BY <1>u, <2>1
  <2>3. C' = C BY <2>1, ContentKept
  <2>4. H[want[p]] = p BY <2>1, <2>2 DEF HolderFact
  <2>5. \A q \in Procs : pc'[q] = "have" <=> pc[q] = "have" /\ q # p BY <2>1
  <2>6. ASSUME NEW b \in Blocks
        PROVE  Holder(b)' = IF b = want[p] THEN NoProc ELSE Holder(b)
    <3>1. CASE b = want[p]
      <4>1. \A q \in Procs : pc[q] = "have" /\ want[q] = b => q = p
        BY <2>1, <2>4, <3>1 DEF HolderFact
      <4>2. \A q \in Procs : ~(pc'[q] = "have" /\ want'[q] = b) BY <2>1, <2>5, <4>1
      <4> QED BY <3>1, <4>2 DEF HolderFact
    <3>2. CASE b # want[p] /\ \E q \in Procs : pc[q] = "have" /\ want[q] = b
      <4>1. PICK q \in Procs : pc[q] = "have" /\ want[q] = b BY <3>2
      <4>2. pc'[q] = "have" /\ want'[q] = b BY <2>1, <2>5, <3>2, <4>1
      <4>3. Holder(b) = q BY <4>1 DEF HolderFact
      <4>4. Holder(b)' = q BY <4>2 DEF HolderFact
      <4> QED BY <3>2, <4>3, <4>4
    <3>3. CASE b # want[p] /\ \A q \in Procs : ~(pc[q] = "have" /\ want[q] = b)
      <4>1. \A q \in Procs : ~(pc'[q] = "have" /\ want'[q] = b) BY <2>1, <2>5, <3>3
      <4>2. Holder(b) = NoProc BY <3>3 DEF HolderFact
      <4>3. Holder(b)' = NoProc BY <4>1 DEF HolderFact
      <4> QED BY <3>3, <4>2, <4>3
    <3> QED BY <3>1, <3>2, <3>3
  <2>7. H' = [H EXCEPT ![want[p]] = NoProc] BY <2>6
  <2>8. Store!Give(p, want[p]) BY <2>1, <2>3, <2>4, <2>7 DEF Store!Give
  <2> QED BY <2>2, <2>8 DEF Store!Next
<1>8. CASE UNCHANGED vars
  <2>1. C' = C BY <1>8, ContentKept DEF vars
  <2>2. H' = H BY <1>8, HolderKept DEF vars
  <2> QED BY <1>8, <2>1, <2>2, <1>s DEF vars
<1> QED BY <1>1, <1>2, <1>3, <1>4, <1>5, <1>6, <1>7, <1>8, Steps

(* The cache is a store of locked blocks: whatever bget recycles, a        *)
(* written or pinned change stays, and users exclude each other.           *)
THEOREM StoreRefinement == Spec => ImplementsLockedStore
<1>1. Init => Store!Init
  <2> SUFFICES ASSUME Init PROVE Store!Init OBVIOUS
  <2>1. HolderFact /\ ContentFact BY InitInv, MappingFacts
  <2>2. \A p \in Procs : pc[p] # "have" BY DEF Init
  <2>3. \A b \in Blocks : Holder(b) = NoProc BY <2>1, <2>2 DEF HolderFact
  <2>4. \A i \in Bufs : blockno[i] \notin Blocks BY BCacheAssumption DEF Init
  <2>5. \A b \in Blocks : Content(b) = disk[b] BY <2>1, <2>4 DEF ContentFact
  <2>6. disk \in [Blocks -> Vals] /\ pinned = {} BY DEF Init
  <2> QED BY <2>3, <2>5, <2>6 DEF Store!Init
<1>2. BCacheInv' => HolderFact' /\ ContentFact' BY MappingFacts, PTL
<1>3. BCacheInv /\ BCacheInv' /\ [Next]_vars => [Store!Next]_(Store!vars)
  BY <1>2, MappingFacts, StepRefines
<1> QED BY BCacheInvariance, <1>1, <1>3, PTL DEF Spec, ImplementsLockedStore, Store!Spec

=============================================================================
