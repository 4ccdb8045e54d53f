----------------------------- MODULE PipeProofs -----------------------------
(***************************************************************************)
(* Proofs about pipes (module Pipe), for any number of processes and any   *)
(* size of the ring.                                                       *)
(***************************************************************************)
EXTENDS Pipe, TLAPS

(* A step of a call, from its acquire on.                                   *)
CallStep(p) ==
    \/ acquire(p) \/ write_loop(p) \/ write_full(p)
    \/ read_loop(p) \/ read_empty(p) \/ read_copy(p)

(* Types of the control state are kept.                                    *)
LEMMA TypesStep ==
    ASSUME PipeInv, [Next]_vars
    PROVE  /\ pc' \in [Procs -> Labels] /\ ends' \in [Procs -> SUBSET Ends]
           /\ killed' \in [Procs -> BOOLEAN]
           /\ page' \in {"none", "live", "freed"}
           /\ readopen' \in BOOLEAN /\ writeopen' \in BOOLEAN
           /\ lock' \in Procs \cup {NoProc}
<1>. DEFINE T == /\ pc' \in [Procs -> Labels] /\ ends' \in [Procs -> SUBSET Ends]
                 /\ killed' \in [Procs -> BOOLEAN]
                 /\ page' \in {"none", "live", "freed"}
                 /\ readopen' \in BOOLEAN /\ writeopen' \in BOOLEAN
                 /\ lock' \in Procs \cup {NoProc}
<1>0. /\ pc \in [Procs -> Labels] /\ ends \in [Procs -> SUBSET Ends]
      /\ killed \in [Procs -> BOOLEAN]
      /\ page \in {"none", "live", "freed"}
      /\ readopen \in BOOLEAN /\ writeopen \in BOOLEAN
      /\ lock \in Procs \cup {NoProc}
  BY DEF PipeInv
<1>1. CASE pipealloc
  BY <1>0, <1>1, PipeAssumption DEF pipealloc, Ends
<1>2. ASSUME NEW p \in Procs, NEW e \in Ends, fileclose(p, e) PROVE T
  BY <1>0, <1>2 DEF fileclose, Ends, Goto, Labels, pi
<1>3. ASSUME NEW p \in Procs, NEW q \in Procs, filedup(p, q) PROVE T
  BY <1>0, <1>3 DEF filedup, pi
<1>4. ASSUME NEW p \in Procs, pipeclose(p) PROVE T
  BY <1>0, <1>4 DEF pipeclose, WakeReaders, WakeWriters, WakeAndGoto, Labels
<1>5. ASSUME NEW p \in Procs, kill(p) PROVE T
  <2>1. pc' = [pc EXCEPT ![p] = CASE pc[p] = "write_asleep" -> "write"
                                  [] pc[p] = "read_asleep" -> "read"
                                  [] OTHER -> pc[p]]
    BY <1>0, <1>5 DEF kill
  <2>2. pc' \in [Procs -> Labels]
    BY <1>0, <2>1 DEF Labels
  <2>. QED
    BY <1>0, <1>5, <2>2 DEF kill, pi
<1>6. ASSUME NEW p \in Procs, NEW e \in Ends, NEW k \in 0 .. MaxN, Start(p, e, k)
      PROVE  T
  BY <1>0, <1>6 DEF Start, Goto, Labels, Ends, pi
<1>7. ASSUME NEW p \in Procs, CallStep(p) PROVE T
  <2>1. UNCHANGED <<page, readopen, writeopen, ends, killed>>
    BY <1>7 DEF CallStep, acquire, write_loop, write_full, read_loop, read_empty,
       read_copy, pi
  <2>2. pc' \in [Procs -> Labels]
    BY <1>0, <1>7 DEF CallStep, acquire, write_loop, write_full, read_loop,
       read_empty, read_copy, WriteDone, ReadDone, GiveUp, Sleep, Goto,
       WakeReaders, WakeWriters, WakeAndGoto, Labels
  <2>3. lock' \in Procs \cup {NoProc}
    BY <1>0, <1>7 DEF CallStep, acquire, write_loop, write_full, read_loop,
       read_empty, read_copy, WriteDone, ReadDone, GiveUp, Sleep
  <2>. QED
    BY <1>0, <2>1, <2>2, <2>3
<1>8. CASE UNCHANGED vars
  BY <1>0, <1>8 DEF vars
<1>. QED
  BY <1>1, <1>2, <1>3, <1>4, <1>5, <1>6, <1>7, <1>8 DEF Next, InCall, CallStep

(* Other processes stay where they are or are woken.                       *)
OthersWoken(p) ==
    \A q \in Procs \ {p} :
      \/ pc'[q] = pc[q]
      \/ pc[q] = "read_asleep" /\ pc'[q] = "read"
      \/ pc[q] = "write_asleep" /\ pc'[q] = "write"

(* A step of a call stays in the call or returns, with the lock held as    *)
(* long as the code holds it.                                              *)
LEMMA CallMoves ==
    ASSUME PipeInv, NEW p \in Procs, CallStep(p)
    PROVE  /\ OthersWoken(p)
           /\ \/ pc[p] \in Reading /\ pc'[p] \in Reading \cup {"user"}
              \/ pc[p] \in Writing /\ pc'[p] \in Writing \cup {"user"}
           /\ IF pc'[p] \in Locked THEN lock' = p ELSE lock' = NoProc
           /\ UNCHANGED <<page, readopen, writeopen, ends, killed>>
<1>0. pc \in [Procs -> Labels]
  BY DEF PipeInv
<1>1. \A q \in Procs : (lock = q) = (pc[q] \in Locked)
  BY DEF PipeInv
<1>2. UNCHANGED <<page, readopen, writeopen, ends, killed>>
  BY DEF CallStep, acquire, write_loop, write_full, read_loop, read_empty,
     read_copy, pi
<1>3. OthersWoken(p)
  BY <1>0 DEF OthersWoken, CallStep, acquire, write_loop, write_full, read_loop,
     read_empty, read_copy, WriteDone, ReadDone, GiveUp, Sleep, Goto,
     WakeReaders, WakeWriters, WakeAndGoto
<1>4. \/ pc[p] \in Reading /\ pc'[p] \in Reading \cup {"user"}
      \/ pc[p] \in Writing /\ pc'[p] \in Writing \cup {"user"}
  <2>. USE DEF Reading, Writing
  <2>1. CASE acquire(p)
    BY <1>0, <2>1 DEF acquire, Goto, Ends
  <2>2. CASE write_loop(p) \/ write_full(p)
    BY <1>0, <2>2 DEF write_loop, write_full, WriteDone, GiveUp, Goto,
       WakeReaders, WakeAndGoto
  <2>3. CASE read_loop(p) \/ read_empty(p) \/ read_copy(p)
    BY <1>0, <2>3 DEF read_loop, read_empty, read_copy, ReadDone, GiveUp, Sleep,
       Goto, WakeWriters, WakeAndGoto
  <2>. QED
    BY <2>1, <2>2, <2>3 DEF CallStep
<1>5. IF pc'[p] \in Locked THEN lock' = p ELSE lock' = NoProc
  <2>1. CASE acquire(p)
    BY <1>0, <2>1 DEF acquire, Goto, Locked
  <2>2. CASE write_loop(p)
    BY <1>0, <1>1, <2>2 DEF write_loop, WriteDone, GiveUp, Goto, WakeReaders,
       WakeAndGoto, Locked
  <2>3. CASE write_full(p)
    BY <1>0, <2>3 DEF write_full, WakeReaders, WakeAndGoto, Locked
  <2>4. CASE read_loop(p)
    BY <1>0, <1>1, <2>4 DEF read_loop, GiveUp, Goto, Locked
  <2>5. CASE read_empty(p)
    BY <1>0, <2>5 DEF read_empty, Sleep, Goto, Locked
  <2>6. CASE read_copy(p)
    BY <1>0, <1>1, <2>6 DEF read_copy, ReadDone, WakeWriters, WakeAndGoto, Locked
  <2>. QED
    BY <2>1, <2>2, <2>3, <2>4, <2>5, <2>6 DEF CallStep
<1>. QED
  BY <1>2, <1>3, <1>4, <1>5

(* The lock is held exactly by the process inside a critical section, and  *)
(* the page is live while an end is open.                                  *)
LEMMA LockStep ==
    ASSUME PipeInv, [Next]_vars
    PROVE  /\ \A q \in Procs : (lock' = q) = (pc'[q] \in Locked)
           /\ (page' = "live") = (readopen' \/ writeopen')
<1>. DEFINE L == \A q \in Procs : (lock' = q) = (pc'[q] \in Locked)
            P == (page' = "live") = (readopen' \/ writeopen')
<1>0. /\ pc \in [Procs -> Labels] /\ readopen \in BOOLEAN /\ writeopen \in BOOLEAN
      /\ \A q \in Procs : (lock = q) = (pc[q] \in Locked)
      /\ (page = "live") = (readopen \/ writeopen)
  BY DEF PipeInv
<1>1. CASE pipealloc
  BY <1>0, <1>1 DEF pipealloc
<1>2. ASSUME NEW p \in Procs, NEW e \in Ends, fileclose(p, e) PROVE L /\ P
  BY <1>0, <1>2 DEF fileclose, Goto, Locked, pi
<1>3. ASSUME NEW p \in Procs, NEW q \in Procs, filedup(p, q) PROVE L /\ P
  BY <1>0, <1>3 DEF filedup, pi
<1>4. ASSUME NEW p \in Procs, pipeclose(p) PROVE L /\ P
  <2>1. lock = NoProc /\ lock' = NoProc /\ OthersWoken(p) /\ pc'[p] = "user"
    BY <1>0, <1>4 DEF pipeclose, WakeReaders, WakeWriters, WakeAndGoto, OthersWoken
  <2>2. L
    BY <1>0, <2>1, PipeAssumption DEF OthersWoken, Locked
  <2>3. readopen \/ writeopen
    BY <1>4 DEF PipeInv, EndInv, pipeclose
  <2>4. readopen' \in BOOLEAN /\ writeopen' \in BOOLEAN
    BY TypesStep
  <2>5. P
    BY <1>0, <1>4, <2>3, <2>4 DEF pipeclose
  <2>. QED
    BY <2>2, <2>5
<1>5. ASSUME NEW p \in Procs, kill(p) PROVE L /\ P
  <2>1. \A q \in Procs : pc'[q] # pc[q] => pc[q] \notin Locked /\ pc'[q] \notin Locked
    BY <1>0, <1>5 DEF kill, Locked
  <2>. QED
    BY <1>0, <1>5, <2>1 DEF kill, pi
<1>6. ASSUME NEW p \in Procs, NEW e \in Ends, NEW k \in 0 .. MaxN, Start(p, e, k)
      PROVE  L /\ P
  BY <1>0, <1>6 DEF Start, Goto, Locked, Ends, pi
<1>7. ASSUME NEW p \in Procs, CallStep(p) PROVE L /\ P
  <2>1. \A q \in Procs \ {p} : pc'[q] \in Locked => pc[q] \in Locked
    BY <1>7, CallMoves DEF OthersWoken, Locked
  <2>2. lock \in {p, NoProc}
    BY <1>0, <1>7 DEF CallStep, acquire, write_loop, write_full, read_loop,
       read_empty, read_copy, Locked
  <2>3. \A q \in Procs \ {p} : pc'[q] \notin Locked
    BY <1>0, <2>1, <2>2, PipeAssumption
  <2>4. L
    BY <1>7, <2>3, CallMoves, PipeAssumption
  <2>5. P
    BY <1>0, <1>7, CallMoves
  <2>. QED
    BY <2>4, <2>5
<1>8. CASE UNCHANGED vars
  BY <1>0, <1>8 DEF vars
<1>. QED
  BY <1>1, <1>2, <1>3, <1>4, <1>5, <1>6, <1>7, <1>8 DEF Next, InCall, CallStep

(* The accounting of both ends.                                            *)
EndsOk ==
    /\ EndInv("read", readopen, "close_read", Reading)
    /\ EndInv("write", writeopen, "close_write", Writing)

(* Steps that leave the descriptors alone and move processes within their  *)
(* calls keep both ends' accounting.                                       *)
LEMMA EndsFrame ==
    ASSUME PipeInv, UNCHANGED <<ends, readopen, writeopen>>,
           \A q \in Procs :
             \/ pc'[q] = pc[q]
             \/ pc'[q] = "user" /\ pc[q] \in Reading \cup Writing
             \/ pc'[q] \in Reading /\ "read" \in ends[q] /\ pc[q] \in Reading \cup {"user"}
             \/ pc'[q] \in Writing /\ "write" \in ends[q] /\ pc[q] \in Writing \cup {"user"}
    PROVE  EndsOk'
<1>1. /\ \A q \in Procs : pc'[q] = "close_read" <=> pc[q] = "close_read"
      /\ \A q \in Procs : pc'[q] = "close_write" <=> pc[q] = "close_write"
      /\ \A q \in Procs : pc'[q] \in Reading => pc[q] \in Reading \/ "read" \in ends[q]
      /\ \A q \in Procs : pc'[q] \in Writing => pc[q] \in Writing \/ "write" \in ends[q]
  BY DEF Reading, Writing
<1>2. EndInv("read", readopen, "close_read", Reading)'
  BY <1>1 DEF PipeInv, EndInv, Holders
<1>3. EndInv("write", writeopen, "close_write", Writing)'
  BY <1>1 DEF PipeInv, EndInv, Holders
<1>. QED
  BY <1>2, <1>3 DEF EndsOk

(* Both ends' accounting is kept by every step.                            *)
LEMMA EndsStep ==
    ASSUME PipeInv, [Next]_vars
    PROVE  EndsOk'
<1>0. /\ pc \in [Procs -> Labels] /\ ends \in [Procs -> SUBSET Ends]
      /\ readopen \in BOOLEAN /\ writeopen \in BOOLEAN
      /\ EndsOk /\ page \in {"none", "live", "freed"}
      /\ (page = "live") = (readopen \/ writeopen)
  BY DEF PipeInv, EndsOk
<1>1. CASE pipealloc
  <2>1. ~readopen /\ ~writeopen
    BY <1>0, <1>1 DEF pipealloc
  <2>2. \A p \in Procs : ends[p] = {} /\ pc[p] \notin Reading \cup Writing
                         /\ pc[p] \notin {"close_read", "close_write"}
    <3>1. Holders("read") = {} /\ Holders("write") = {}
      BY <1>0, <2>1 DEF EndsOk, EndInv
    <3>2. \A p \in Procs : ends[p] = {}
      BY <1>0, <3>1 DEF Holders, Ends
    <3>. QED
      BY <1>0, <2>1, <3>2 DEF EndsOk, EndInv
  <2>3. /\ pc' = pc /\ ends'[Creator] = Ends /\ readopen' = TRUE /\ writeopen' = TRUE
    BY <1>0, <1>1, PipeAssumption DEF pipealloc
  <2>4. Creator \in Holders("read")' /\ Creator \in Holders("write")'
    BY <2>3, PipeAssumption DEF Holders, Ends
  <2>. QED
    BY <2>2, <2>3, <2>4 DEF EndsOk, EndInv
<1>2. ASSUME NEW p \in Procs, NEW e \in Ends, fileclose(p, e) PROVE EndsOk'
  <2>1. /\ pc[p] = "user" /\ e \in ends[p] /\ UNCHANGED <<readopen, writeopen>>
        /\ ends' = [ends EXCEPT ![p] = @ \ {e}]
    BY <1>2 DEF fileclose, pi
  <2>2. CASE Holders(e) # {p}
    <3>1. pc' = pc
      BY <1>2, <2>2 DEF fileclose
    <3>2. PICK q \in Procs : q # p /\ q \in Holders(e)
      BY <2>1, <2>2 DEF Holders
    <3>3. q \in Holders(e)'
      BY <1>0, <2>1, <3>2 DEF Holders
    <3>4. \A f \in Ends : f # e => Holders(f)' = Holders(f)
      BY <1>0, <2>1 DEF Holders
    <3>5. \A r \in Procs, f \in Ends : f \in ends'[r] <=> f \in ends[r] /\ ~(r = p /\ f = e)
      BY <1>0, <2>1
    <3>6. CASE e = "read"
      BY <1>0, <2>1, <3>1, <3>2, <3>3, <3>4, <3>5, <3>6
         DEF EndsOk, EndInv, Ends, Reading, Writing
    <3>7. CASE e = "write"
      BY <1>0, <2>1, <3>1, <3>2, <3>3, <3>4, <3>5, <3>7
         DEF EndsOk, EndInv, Ends, Reading, Writing
    <3>. QED
      BY <3>6, <3>7 DEF Ends
  <2>3. CASE Holders(e) = {p}
    <3>1. pc' = [pc EXCEPT ![p] = IF e = "write" THEN "close_write" ELSE "close_read"]
      BY <1>2, <2>3 DEF fileclose, Goto
    <3>2. Holders(e)' = {}
      BY <1>0, <2>1, <2>3 DEF Holders
    <3>3. \A f \in Ends : f # e => Holders(f)' = Holders(f)
      BY <1>0, <2>1 DEF Holders
    <3>4. \A r \in Procs, f \in Ends : f \in ends'[r] <=> f \in ends[r] /\ ~(r = p /\ f = e)
      BY <1>0, <2>1
    <3>5. p \in Holders(e)
      BY <2>3
    <3>6. CASE e = "read"
      BY <1>0, <2>1, <2>3, <3>1, <3>2, <3>3, <3>4, <3>5, <3>6
         DEF EndsOk, EndInv, Ends, Reading, Writing
    <3>7. CASE e = "write"
      BY <1>0, <2>1, <2>3, <3>1, <3>2, <3>3, <3>4, <3>5, <3>7
         DEF EndsOk, EndInv, Ends, Reading, Writing
    <3>. QED
      BY <3>6, <3>7 DEF Ends
  <2>. QED
    BY <2>2, <2>3
<1>3. ASSUME NEW p \in Procs, NEW q \in Procs, filedup(p, q) PROVE EndsOk'
  <2>1. /\ UNCHANGED <<pc, readopen, writeopen>> /\ ends[q] = {} /\ q # p
        /\ ends' = [ends EXCEPT ![q] = ends[p]]
    BY <1>3 DEF filedup, pi
  <2>2. \A e \in Ends : Holders(e)' = IF e \in ends[p] THEN Holders(e) \cup {q}
                                      ELSE Holders(e)
    BY <1>0, <2>1 DEF Holders
  <2>3. \A e \in Ends : e \in ends[p] => p \in Holders(e)
    BY DEF Holders
  <2>4. \A r \in Procs, e \in Ends : e \in ends[r] => e \in ends'[r]
    BY <1>0, <2>1
  <2>. QED
    BY <1>0, <2>1, <2>2, <2>3, <2>4 DEF EndsOk, EndInv, Ends
<1>4. ASSUME NEW p \in Procs, pipeclose(p) PROVE EndsOk'
  <2>1. ends' = ends /\ OthersWoken(p) /\ pc'[p] = "user"
    BY <1>0, <1>4 DEF pipeclose, WakeReaders, WakeWriters, WakeAndGoto, OthersWoken
  <2>2. Holders("read")' = Holders("read") /\ Holders("write")' = Holders("write")
    BY <2>1 DEF Holders
  <2>3. CASE pc[p] = "close_write" /\ writeopen' = FALSE /\ readopen' = readopen
    <3>1. Holders("write") = {} /\ \A q \in Procs \ {p} : pc[q] # "close_write"
      BY <1>0, <2>3 DEF EndsOk, EndInv
    <3>2. \A q \in Procs : pc'[q] # "close_write"
      BY <2>1, <3>1 DEF OthersWoken
    <3>3. EndInv("write", writeopen, "close_write", Writing)'
      BY <1>0, <2>1, <2>2, <2>3, <3>1, <3>2 DEF EndsOk, EndInv, OthersWoken, Writing
    <3>4. \A q \in Procs : pc'[q] = "close_read" <=> pc[q] = "close_read"
      BY <2>1, <2>3 DEF OthersWoken
    <3>5. EndInv("read", readopen, "close_read", Reading)'
      BY <1>0, <2>1, <2>2, <2>3, <3>4 DEF EndsOk, EndInv, OthersWoken, Reading
    <3>. QED
      BY <3>3, <3>5 DEF EndsOk
  <2>4. CASE pc[p] = "close_read" /\ readopen' = FALSE /\ writeopen' = writeopen
    <3>1. Holders("read") = {} /\ \A q \in Procs \ {p} : pc[q] # "close_read"
      BY <1>0, <2>4 DEF EndsOk, EndInv
    <3>2. \A q \in Procs : pc'[q] # "close_read"
      BY <2>1, <3>1 DEF OthersWoken
    <3>3. EndInv("read", readopen, "close_read", Reading)'
      BY <1>0, <2>1, <2>2, <2>4, <3>1, <3>2 DEF EndsOk, EndInv, OthersWoken, Reading
    <3>4. \A q \in Procs : pc'[q] = "close_write" <=> pc[q] = "close_write"
      BY <2>1, <2>4 DEF OthersWoken
    <3>5. EndInv("write", writeopen, "close_write", Writing)'
      BY <1>0, <2>1, <2>2, <2>4, <3>4 DEF EndsOk, EndInv, OthersWoken, Writing
    <3>. QED
      BY <3>3, <3>5 DEF EndsOk
  <2>. QED
    BY <1>4, <2>3, <2>4 DEF pipeclose
<1>5. ASSUME NEW p \in Procs, kill(p) PROVE EndsOk'
  <2>1. /\ UNCHANGED <<ends, readopen, writeopen>>
        /\ \A q \in Procs : \/ pc'[q] = pc[q]
                            \/ pc[q] = "read_asleep" /\ pc'[q] = "read"
                            \/ pc[q] = "write_asleep" /\ pc'[q] = "write"
    BY <1>0, <1>5 DEF kill, pi
  <2>. QED
    BY <1>0, <2>1, EndsFrame DEF EndsOk, EndInv, Reading, Writing
<1>6. ASSUME NEW p \in Procs, NEW e \in Ends, NEW k \in 0 .. MaxN, Start(p, e, k)
      PROVE  EndsOk'
  <2>1. /\ UNCHANGED <<ends, readopen, writeopen>> /\ pc[p] = "user" /\ e \in ends[p]
        /\ pc'[p] = e /\ \A q \in Procs \ {p} : pc'[q] = pc[q]
    BY <1>0, <1>6 DEF Start, Goto, pi
  <2>. QED
    BY <2>1, EndsFrame DEF Reading, Writing, Ends
<1>7. ASSUME NEW p \in Procs, CallStep(p) PROVE EndsOk'
  <2>1. \A q \in Procs : /\ pc[q] \in Reading => "read" \in ends[q]
                         /\ pc[q] \in Writing => "write" \in ends[q]
    BY <1>0 DEF EndsOk, EndInv
  <2>2. \A q \in Procs :
          \/ pc'[q] = pc[q]
          \/ pc'[q] = "user" /\ pc[q] \in Reading \cup Writing
          \/ pc'[q] \in Reading /\ pc[q] \in Reading
          \/ pc'[q] \in Writing /\ pc[q] \in Writing
    BY <1>7, CallMoves DEF OthersWoken, Reading, Writing
  <2>. QED
    BY <1>7, <2>1, <2>2, CallMoves, EndsFrame
<1>8. CASE UNCHANGED vars
  BY <1>8, EndsFrame DEF vars
<1>. QED
  BY <1>1, <1>2, <1>3, <1>4, <1>5, <1>6, <1>7, <1>8 DEF Next, InCall, CallStep

(* When the page is not live nobody is left who could use it.              *)
LEMMA ClosedIsIdle == PipeInv => NoUseAfterFree
<1>. SUFFICES ASSUME PipeInv, page # "live" PROVE
                /\ lock = NoProc
                /\ \A p \in Procs : ends[p] = {} /\ pc[p] = "user"
  BY DEF NoUseAfterFree
<1>1. /\ EndsOk /\ ~readopen /\ ~writeopen /\ pc \in [Procs -> Labels]
      /\ ends \in [Procs -> SUBSET Ends] /\ lock \in Procs \cup {NoProc}
      /\ \A q \in Procs : (lock = q) = (pc[q] \in Locked)
  BY DEF PipeInv, EndsOk
<1>2. Holders("read") = {} /\ Holders("write") = {}
  BY <1>1 DEF EndsOk, EndInv
<1>3. \A p \in Procs : ends[p] = {}
  BY <1>1, <1>2 DEF Holders, Ends
<1>4. \A p \in Procs : pc[p] \notin Reading \cup Writing
                       /\ pc[p] \notin {"close_read", "close_write"}
  BY <1>1, <1>3 DEF EndsOk, EndInv
<1>5. \A p \in Procs : pc[p] = "user"
  BY <1>1, <1>4 DEF Labels, Reading, Writing
<1>6. lock = NoProc
  BY <1>1, <1>5 DEF Locked
<1>. QED
  BY <1>3, <1>5, <1>6

(* Steps of a call: who makes a sleeper's condition false has the lock,    *)
(* and does not give it up before the wakeup.                              *)
LEMMA SleepCallStep ==
    ASSUME PipeInv, NEW p \in Procs, CallStep(p)
    PROVE  SleepInv'
<1>0. /\ pc \in [Procs -> Labels] /\ SleepInv /\ EndsOk
      /\ \A q \in Procs : (lock = q) = (pc[q] \in Locked)
  BY DEF PipeInv, EndsOk
<1>1. OthersWoken(p) /\ UNCHANGED <<readopen, writeopen, ends, killed>>
  BY CallMoves
<1>2. pc[p] \in Locked => \A q \in Procs \ {p} : pc[q] \notin Locked
  BY <1>0
<1>f. UNCHANGED <<nread, nwrite>> => Full' = Full /\ Empty' = Empty
  BY DEF Full, Empty
<1>3. CASE acquire(p) \/ read_loop(p) \/ read_empty(p)
  <2>1. UNCHANGED <<nread, nwrite>> /\ \A q \in Procs \ {p} : pc'[q] = pc[q]
    BY <1>0, <1>3 DEF acquire, read_loop, read_empty, GiveUp, Sleep, Goto, pi
  <2>2. /\ pc[p] \in {"read", "write", "read_loop", "read_empty"}
        /\ pc'[p] \in {"user", "write_loop", "read_loop", "read_empty",
                       "read_asleep", "read_copy"}
        /\ pc'[p] = "read_empty" => Empty /\ writeopen
        /\ pc'[p] = "read_asleep" => pc[p] = "read_empty"
    BY <1>0, <1>3 DEF acquire, read_loop, read_empty, GiveUp, Sleep, Goto, Ends
  <2>. QED
    BY <1>0, <1>1, <1>f, <2>1, <2>2 DEF SleepInv
<1>4. CASE write_full(p)
  <2>1. UNCHANGED <<nread, nwrite>> /\ pc[p] = "write_full" /\ pc'[p] = "write_asleep"
    BY <1>0, <1>4 DEF write_full, WakeReaders, WakeAndGoto, pi
  <2>2. \A q \in Procs \ {p} :
          pc'[q] = IF pc[q] = "read_asleep" THEN "read" ELSE pc[q]
    BY <1>0, <1>4 DEF write_full, WakeReaders, WakeAndGoto
  <2>3. Full' /\ readopen'
    BY <1>0, <1>1, <1>f, <2>1 DEF SleepInv
  <2>4. \A q \in Procs : pc'[q] # "read_asleep"
    BY <2>1, <2>2
  <2>5. \A q \in Procs : pc'[q] = "read_empty" => Empty' /\ writeopen'
    BY <1>0, <1>1, <1>f, <2>1, <2>2 DEF SleepInv
  <2>. QED
    BY <2>3, <2>4, <2>5 DEF SleepInv
<1>5. CASE write_loop(p)
  <2>0. pc[p] = "write_loop"
    BY <1>5 DEF write_loop
  <2>1. CASE WriteDone(p) /\ UNCHANGED <<nread, nwrite>>
    <3>1. pc'[p] = "user" /\ \A q \in Procs \ {p} :
            pc'[q] = IF pc[q] = "read_asleep" THEN "read" ELSE pc[q]
      BY <2>1 DEF WriteDone, WakeReaders, WakeAndGoto
    <3>. QED
      BY <1>0, <1>1, <1>f, <2>0, <2>1, <3>1 DEF SleepInv
  <2>2. CASE GiveUp(p) /\ UNCHANGED <<nread, nwrite>> /\ (~readopen \/ killed[p])
    <3>1. pc'[p] = "user" /\ \A q \in Procs \ {p} : pc'[q] = pc[q]
      BY <1>0, <2>2 DEF GiveUp, Goto
    <3>2. ASSUME NEW q \in Procs, pc[q] = "read_asleep" PROVE readopen
      <4>1. q \in Holders("read")
        BY <1>0, <3>2 DEF EndsOk, EndInv, Holders, Reading
      <4>. QED
        BY <1>0, <4>1 DEF EndsOk, EndInv
    <3>. QED
      BY <1>0, <1>1, <1>f, <2>0, <2>2, <3>1, <3>2 DEF SleepInv
  <2>3. CASE Full /\ readopen /\ pc' = [pc EXCEPT ![p] = "write_full"]
             /\ UNCHANGED <<nread, nwrite>>
    BY <1>0, <1>1, <1>f, <2>0, <2>3 DEF SleepInv
  <2>4. CASE ~Full /\ pc' = pc
    <3>1. \A q \in Procs : pc[q] # "write_asleep" /\ pc[q] # "write_full"
                           /\ pc[q] # "read_empty"
      BY <1>0, <1>2, <2>0, <2>4 DEF SleepInv, Locked
    <3>. QED
      BY <1>0, <1>1, <2>0, <2>4, <3>1 DEF SleepInv
  <2>. QED
    BY <1>5, <2>1, <2>2, <2>3, <2>4 DEF write_loop, Goto
<1>6. CASE read_copy(p)
  <2>0. pc[p] = "read_copy" /\ nwrite' = nwrite
    BY <1>6 DEF read_copy
  <2>1. \A q \in Procs \ {p} : pc[q] \notin {"write_loop", "write_full", "read_empty"}
    BY <1>2, <2>0 DEF Locked
  <2>2. CASE ReadDone(p) /\ (nread' = nread \/ ~Empty)
    <3>1. pc'[p] = "user" /\ \A q \in Procs \ {p} :
            pc'[q] = IF pc[q] = "write_asleep" THEN "write" ELSE pc[q]
      BY <2>2 DEF ReadDone, WakeWriters, WakeAndGoto
    <3>2. \A q \in Procs : pc[q] = "read_asleep" =>
            writeopen /\ (Empty \/ \E r \in Procs : killed[r])
      BY <1>0, <2>0, <2>1 DEF SleepInv
    <3>. QED
      BY <1>1, <1>f, <2>0, <2>1, <2>2, <3>1, <3>2 DEF SleepInv
  <2>3. CASE ~Empty /\ pc' = pc
    <3>1. \A q \in Procs : pc[q] = "read_asleep" =>
            writeopen /\ \E r \in Procs : killed[r]
      BY <1>0, <2>0, <2>1, <2>3 DEF SleepInv
    <3>. QED
      BY <1>0, <1>1, <2>0, <2>1, <2>3, <3>1 DEF SleepInv
  <2>. QED
    BY <1>6, <2>2, <2>3 DEF read_copy
<1>. QED
  BY <1>3, <1>4, <1>5, <1>6 DEF CallStep

(* Nobody is left asleep with his condition false, whatever the step.      *)
LEMMA SleepStep ==
    ASSUME PipeInv, [Next]_vars
    PROVE  SleepInv'
<1>0. /\ pc \in [Procs -> Labels] /\ killed \in [Procs -> BOOLEAN] /\ SleepInv
      /\ \A q \in Procs : (lock = q) = (pc[q] \in Locked)
  BY DEF PipeInv
<1>f. UNCHANGED <<nread, nwrite>> => Full' = Full /\ Empty' = Empty
  BY DEF Full, Empty
<1>1. CASE pipealloc
  <2>1. \A q \in Procs : pc'[q] = "user"
    BY <1>1, ClosedIsIdle DEF NoUseAfterFree, pipealloc
  <2>. QED
    BY <2>1 DEF SleepInv
<1>2. ASSUME NEW p \in Procs, NEW e \in Ends,
             fileclose(p, e) \/ \E k \in 0 .. MaxN : Start(p, e, k)
      PROVE  SleepInv'
  <2>1. /\ UNCHANGED <<nread, nwrite, readopen, writeopen, killed>> /\ pc[p] = "user"
        /\ \A q \in Procs \ {p} : pc'[q] = pc[q]
        /\ pc'[p] \in {"user", "close_read", "close_write", "read", "write"}
    BY <1>0, <1>2 DEF fileclose, Start, Goto, pi, Ends
  <2>. QED
    BY <1>0, <1>f, <2>1 DEF SleepInv
<1>3. ASSUME NEW p \in Procs, NEW q \in Procs, filedup(p, q) PROVE SleepInv'
  BY <1>0, <1>3, <1>f DEF filedup, pi, SleepInv
<1>4. ASSUME NEW p \in Procs, pipeclose(p) PROVE SleepInv'
  <2>1. UNCHANGED <<nread, nwrite, killed>> /\ lock = NoProc
    BY <1>4 DEF pipeclose
  <2>2. \A q \in Procs : pc[q] \notin Locked
    BY <1>0, <2>1, PipeAssumption
  <2>3. CASE /\ pc[p] = "close_write" /\ readopen' = readopen
             /\ WakeReaders(p, "user")
    <3>1. pc'[p] = "user" /\ \A q \in Procs \ {p} :
            pc'[q] = IF pc[q] = "read_asleep" THEN "read" ELSE pc[q]
      BY <2>3 DEF WakeReaders, WakeAndGoto
    <3>. QED
      BY <1>0, <1>f, <2>1, <2>2, <2>3, <3>1 DEF SleepInv, Locked
  <2>4. CASE /\ pc[p] = "close_read" /\ writeopen' = writeopen
             /\ WakeWriters(p, "user")
    <3>1. pc'[p] = "user" /\ \A q \in Procs \ {p} :
            pc'[q] = IF pc[q] = "write_asleep" THEN "write" ELSE pc[q]
      BY <2>4 DEF WakeWriters, WakeAndGoto
    <3>. QED
      BY <1>0, <1>f, <2>1, <2>2, <2>4, <3>1 DEF SleepInv, Locked
  <2>. QED
    BY <1>4, <2>3, <2>4 DEF pipeclose
<1>5. ASSUME NEW p \in Procs, kill(p) PROVE SleepInv'
  <2>1. /\ UNCHANGED <<nread, nwrite, readopen, writeopen>>
        /\ \A q \in Procs : killed[q] => killed'[q]
        /\ \A q \in Procs : \/ pc'[q] = pc[q]
                            \/ pc[q] = "read_asleep" /\ pc'[q] = "read"
                            \/ pc[q] = "write_asleep" /\ pc'[q] = "write"
    BY <1>0, <1>5 DEF kill, pi
  <2>. QED
    BY <1>0, <1>f, <2>1 DEF SleepInv
<1>6. ASSUME NEW p \in Procs, CallStep(p) PROVE SleepInv'
  BY <1>6, SleepCallStep
<1>7. CASE UNCHANGED vars
  BY <1>0, <1>7, <1>f DEF vars, SleepInv
<1>. QED
  BY <1>1, <1>2, <1>3, <1>4, <1>5, <1>6, <1>7 DEF Next, InCall, CallStep

(* Before pipe() nobody has an end or sleeps.                              *)
LEMMA InitPipeInv == Init => PipeInv
<1>. SUFFICES ASSUME Init PROVE PipeInv
  OBVIOUS
<1>1. Holders("read") = {} /\ Holders("write") = {}
  BY DEF Init, Holders
<1>2. \A p \in Procs : pc[p] = "user"
  BY DEF Init
<1>3. EndsOk
  BY <1>1, <1>2 DEF Init, EndsOk, EndInv, Reading, Writing
<1>4. SleepInv
  BY <1>2 DEF SleepInv
<1>. QED
  <2>1. pc \in [Procs -> Labels] /\ ends \in [Procs -> SUBSET Ends]
        /\ killed \in [Procs -> BOOLEAN]
    BY DEF Init, Labels
  <2>2. page = "none" /\ readopen = FALSE /\ writeopen = FALSE /\ lock = NoProc
    BY DEF Init
  <2>3. \A p \in Procs : (lock = p) = (pc[p] \in Locked)
    BY <1>2, <2>2, PipeAssumption DEF Locked
  <2>. QED
    BY <1>3, <1>4, <2>1, <2>2, <2>3 DEF PipeInv, EndsOk

(* The accounting of the ends and of the sleepers holds at all times, for  *)
(* any number of processes sharing the pipe.                               *)
THEOREM PipeInvariance == Spec => []PipeInv
<1>1. PipeInv /\ [Next]_vars => PipeInv'
  <2>. SUFFICES ASSUME PipeInv, [Next]_vars PROVE PipeInv'
    OBVIOUS
  <2>. QED
    BY TypesStep, LockStep, EndsStep, SleepStep DEF PipeInv, EndsOk
<1>. QED
  BY <1>1, InitPipeInv, PTL DEF Spec

(* The page of a pipe is freed only when nobody can touch it again.        *)
THEOREM NoUseAfterFreeHolds == Spec => []NoUseAfterFree
BY PipeInvariance, ClosedIsIdle, PTL

(* No reader or writer of a pipe misses its wakeup.                        *)
THEOREM NoLostWakeupHolds == Spec => []NoLostWakeup
<1>1. PipeInv => NoLostWakeup
  <2>. SUFFICES ASSUME PipeInv, lock = NoProc, NEW p \in Procs PROVE
                  /\ pc[p] = "write_asleep" => readopen /\ Full
                  /\ pc[p] = "read_asleep" =>
                       writeopen /\ (Empty \/ \E q \in Procs : killed[q])
    BY DEF NoLostWakeup
  <2>1. \A q \in Procs : pc[q] \notin Locked
    BY PipeAssumption DEF PipeInv
  <2>. QED
    BY <2>1 DEF PipeInv, SleepInv, Locked
<1>. QED
  BY <1>1, PipeInvariance, PTL
=============================================================================
