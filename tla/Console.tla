------------------------------ MODULE Console -------------------------------
(***************************************************************************)
(* The console of kernel/console.c on the UART of kernel/uart.c: processes *)
(* that read and write it, the interrupt handler uartintr with             *)
(* consoleintr, and the device.                                            *)
(*                                                                         *)
(* cons.lock and uart_tx_lock serialise what they protect; a step of their *)
(* holder is a turn of its loop.  The echo does not take uart_tx_lock: it  *)
(* looks at the line status and writes the device on its own, next to      *)
(* uartstart on another CPU, so looking and writing are two steps.  So     *)
(* does printf of the kernel, one at a time under its own lock.  The       *)
(* device sends from a FIFO, says it is idle when the FIFO is empty, and   *)
(* interrupts when a character has come in or the FIFO has run empty.      *)
(***************************************************************************)
EXTENDS Integers, Sequences

CONSTANTS
    Readers, Writers,   \* processes that read, and that write, the console
    Intr,               \* uartintr, run by the CPU that claimed the interrupt
    Printf,             \* the CPU that has pr.lock and prints
    NBytes,             \* processes write the bytes 0 .. NBytes - 1 in turn
    INPUT_BUF,          \* size of the input ring
    UintMod,            \* 2^32 for the uint indices of the input ring
    UART_TX_BUF_SIZE,   \* size of the output ring
    Uint64Mod,          \* 2^64 for its indices
    BsEcho,             \* characters that echo a BACKSPACE (3 in consputc)
    ReadSizes,          \* bytes that reads ask for
    Killed,             \* processes that somebody may kill
    None                \* no lock holder, no byte

\* What the constants are: the sizes of the rings divide the range of their indices.
ASSUME ConsoleAssumption ==
    /\ INPUT_BUF \in Nat \ {0} /\ UART_TX_BUF_SIZE \in Nat \ {0} /\ ReadSizes \subseteq Nat
    /\ NBytes \in Nat \ {0}
    /\ UintMod \in Nat /\ UintMod > INPUT_BUF /\ UintMod % INPUT_BUF = 0 /\ BsEcho \in Nat \ {0}
    /\ Uint64Mod \in Nat /\ Uint64Mod > UART_TX_BUF_SIZE
    /\ Uint64Mod % UART_TX_BUF_SIZE = 0
    /\ Intr \notin Readers \cup Writers /\ Printf \notin Readers \cup Writers \cup {Intr}
    /\ None \notin Readers \cup Writers \cup {Intr, Printf}
    /\ Killed \subseteq Readers \cup Writers

VARIABLES
    cons,       \* struct cons: buf, r, w, e, and the holder of its lock
    tx,         \* uart_tx_buf, uart_tx_r, uart_tx_w, and the lock's holder
    fifo, rx,   \* the device: characters to send, whether one has come in
    irq,        \* its interrupt is pending
    pc,         \* where the processes and the handler are
    n, got,     \* a read: bytes asked for, bytes moved
    src,        \* the next byte that is written
    reg,        \* the character between uart_tx_buf and the device
    echo,       \* characters the handler has still to echo
    killed      \* p->killed

vars == <<cons, tx, fifo, rx, irq, pc, n, got, src, reg, echo, killed>>
call == <<n, got>>

Bytes == 0 .. NBytes - 1
Echo == NBytes     \* any character of an echo or of printf

Procs == Readers \cup Writers
Threads == Procs \cup {Intr, Printf}
Typed == {"a", "nl", "eof"}             \* what goes into the ring
Keys == Typed \cup {"erase", "kill"}    \* ^H and ^U edit it

Init ==
    /\ cons = [buf |-> [k \in 0 .. INPUT_BUF - 1 |-> "a"], r |-> 0, w |-> 0,
               e |-> 0, lock |-> None]
    /\ tx = [buf |-> [k \in 0 .. UART_TX_BUF_SIZE - 1 |-> None],
             r |-> 0, w |-> 0, lock |-> None]
    /\ fifo = <<>> /\ rx = FALSE /\ irq = FALSE
    /\ pc = [t \in Threads |-> "user"]
    /\ n = [p \in Procs |-> 0] /\ got = [p \in Procs |-> 0]
    /\ src = 0 /\ reg = None /\ echo = 0
    /\ killed = [p \in Procs |-> FALSE]

Goto(t, label) == pc' = [pc EXCEPT ![t] = label]
WakeAndGoto(t, asleep, again, label) ==
    pc' = [u \in Threads |-> IF u = t THEN label
                             ELSE IF pc[u] = asleep THEN again ELSE pc[u]]

(* Unsigned distance.                                                      *)
Dist(from, to, mod) == (to - from) % mod

(* Places of a ring outside its indices are not read before they are       *)
(* written; the model forgets what is left in them.                        *)
Forget(ring, end, mod, size, blank) ==
    [ring EXCEPT !.buf = [k \in DOMAIN @ |->
       IF \E j \in 1 .. Dist(ring.r, end, mod) : k = ((ring.r + j - 1) % mod) % size
       THEN @[k] ELSE blank]]
ConsTo(c) == cons' = Forget(c, c.e, UintMod, INPUT_BUF, "a")
TxTo(t) == tx' = Forget(t, t.w, Uint64Mod, UART_TX_BUF_SIZE, None)

----------------------------------------------------------------------------
(* consoleread(user_dst, dst, n)                                           *)

Call(p, label, k) ==
    /\ pc[p] = "user" /\ ~killed[p]
    /\ Goto(p, label)
    /\ n' = [n EXCEPT ![p] = k] /\ got' = [got EXCEPT ![p] = 0]
    /\ UNCHANGED <<cons, tx, fifo, rx, irq, src, reg, echo, killed>>

Return(p) ==
    /\ Goto(p, "user")
    /\ n' = [n EXCEPT ![p] = 0] /\ got' = [got EXCEPT ![p] = 0]

read_acquire(p) ==
    /\ pc[p] = "read" /\ cons.lock = None
    /\ cons' = [cons EXCEPT !.lock = p]
    /\ Goto(p, "read_loop")
    /\ UNCHANGED <<tx, fifo, rx, irq, call, src, reg, echo, killed>>

AtRead(p) == pc[p] = "read_loop" /\ cons.lock = p

(* Nothing to read: give up when killed, or sleep on &cons.r.              *)
read_empty(p) ==
    /\ AtRead(p) /\ got[p] < n[p] /\ cons.r = cons.w
    /\ cons' = [cons EXCEPT !.lock = None]
    /\ IF killed[p] THEN Return(p) ELSE Goto(p, "read_asleep") /\ UNCHANGED call
    /\ UNCHANGED <<tx, fifo, rx, irq, src, reg, echo, killed>>

(* A character: ^D ends the read and stays for the next one unless it is   *)
(* the first; a newline ends it; a failed copyout ends it too, and the     *)
(* character is gone.                                                      *)
read_char(p) ==
    /\ AtRead(p) /\ got[p] < n[p] /\ cons.r # cons.w
    /\ LET c == cons.buf[cons.r % INPUT_BUF]
           next == (cons.r + 1) % UintMod
       IN  \/ /\ c = "eof"
              /\ ConsTo([cons EXCEPT !.lock = None,
                                      !.r = IF got[p] > 0 THEN @ ELSE next])
              /\ Return(p)
           \/ /\ c = "nl"
              /\ ConsTo([cons EXCEPT !.lock = None, !.r = next])
              /\ Return(p)
           \/ /\ c = "a"     \* copyout fails
              /\ ConsTo([cons EXCEPT !.lock = None, !.r = next])
              /\ Return(p)
           \/ /\ c = "a"
              /\ ConsTo([cons EXCEPT !.r = next])
              /\ got' = [got EXCEPT ![p] = @ + 1]
              /\ UNCHANGED <<pc, n>>
    /\ UNCHANGED <<tx, fifo, rx, irq, src, reg, echo, killed>>

read_full(p) ==
    /\ AtRead(p) /\ got[p] >= n[p]
    /\ cons' = [cons EXCEPT !.lock = None]
    /\ Return(p)
    /\ UNCHANGED <<tx, fifo, rx, irq, src, reg, echo, killed>>

----------------------------------------------------------------------------
(* consolewrite(user_src, src, n), uartputc and uartstart                  *)

(* The end of the loop: all is written, or copyin fails.  The length of a  *)
(* write is left open.                                                     *)
write_done(p) ==
    /\ pc[p] = "write"
    /\ Return(p)
    /\ UNCHANGED <<cons, tx, fifo, rx, irq, src, reg, echo, killed>>

(* The LSR_TX_IDLE bit of the line status.                                 *)
Idle == fifo = <<>>

Full == tx.w = (tx.r + UART_TX_BUF_SIZE) % Uint64Mod

write_sleep(p) ==
    /\ pc[p] = "write" /\ tx.lock = None /\ Full
    /\ Goto(p, "write_asleep")
    /\ UNCHANGED <<cons, tx, fifo, rx, irq, call, src, reg, echo, killed>>

(* Mutant: a byte goes to the device at once when that is idle, past those *)
(* that wait in the ring.                                                  *)
uartputc_Direct(p) ==
    /\ pc[p] = "write" /\ tx.lock = None /\ ~Full
    /\ src' = (src + 1) % NBytes
    /\ IF Idle
       THEN fifo' = Append(fifo, src) /\ UNCHANGED <<tx, pc>>
       ELSE /\ tx' = [tx EXCEPT !.lock = p, !.w = (@ + 1) % Uint64Mod,
                                !.buf[tx.w % UART_TX_BUF_SIZE] = src]
            /\ Goto(p, "start") /\ UNCHANGED fifo
    /\ UNCHANGED <<cons, rx, irq, call, reg, echo, killed>>

uartputc(p) ==
    /\ pc[p] = "write" /\ tx.lock = None /\ ~Full
    /\ tx' = [tx EXCEPT !.lock = p, !.w = (@ + 1) % Uint64Mod,
                        !.buf[tx.w % UART_TX_BUF_SIZE] = src]
    /\ src' = (src + 1) % NBytes
    /\ Goto(p, "start")
    /\ UNCHANGED <<cons, fifo, rx, irq, call, reg, echo, killed>>

(* uartstart has no more to do, and its caller releases uart_tx_lock.      *)
start_return(t) ==
    /\ pc[t] = "start"
    /\ tx.w = tx.r \/ ~Idle
    /\ tx' = [tx EXCEPT !.lock = None]
    /\ Goto(t, IF t = Intr THEN "user" ELSE "write")
    /\ UNCHANGED <<cons, fifo, rx, irq, call, src, reg, echo, killed>>

(* Mutant: the writers that wait for room are not woken.                   *)
start_take_NoWakeup(t) ==
    /\ pc[t] = "start" /\ tx.w # tx.r /\ Idle
    /\ reg' = tx.buf[tx.r % UART_TX_BUF_SIZE]
    /\ TxTo([tx EXCEPT !.r = (@ + 1) % Uint64Mod])
    /\ Goto(t, "thr")
    /\ UNCHANGED <<cons, fifo, rx, irq, call, src, echo, killed>>

(* A character leaves the ring; wakeup(&uart_tx_r).                        *)
start_take(t) ==
    /\ pc[t] = "start" /\ tx.w # tx.r /\ Idle
    /\ reg' = tx.buf[tx.r % UART_TX_BUF_SIZE]
    /\ TxTo([tx EXCEPT !.r = (@ + 1) % Uint64Mod])
    /\ WakeAndGoto(t, "write_asleep", "write", "thr")
    /\ UNCHANGED <<cons, fifo, rx, irq, call, src, echo, killed>>

start_thr(t) ==
    /\ pc[t] = "thr"
    /\ fifo' = Append(fifo, reg)
    /\ reg' = None
    /\ Goto(t, "start")
    /\ UNCHANGED <<cons, tx, rx, irq, call, src, echo, killed>>

----------------------------------------------------------------------------
(* uartintr and consoleintr                                                *)

uartintr ==
    /\ irq /\ pc[Intr] = "user"
    /\ irq' = FALSE
    /\ Goto(Intr, "rx")
    /\ UNCHANGED <<cons, tx, fifo, rx, call, src, reg, echo, killed>>

(* Mutant: backspace and kill-line edit what is before the edit index,     *)
(* whether it has been handed over or not.                                 *)
Edit_PastW(c) ==
    LET used == Dist(cons.r, cons.e, UintMod)
        new == (cons.e + 1) % UintMod
        commit == c \in {"nl", "eof"} \/ new = (cons.r + INPUT_BUF) % UintMod
    IN  CASE c \in {"kill", "erase"} /\ used > 0 ->
               [cons |-> [cons EXCEPT !.e = (@ - 1) % UintMod,
                                      !.w = IF cons.w = cons.e THEN (@ - 1) % UintMod ELSE @],
                wake |-> FALSE, echo |-> BsEcho]
          [] c \in Typed /\ used < INPUT_BUF ->
               [cons |-> [cons EXCEPT !.buf[cons.e % INPUT_BUF] = c, !.e = new,
                                      !.w = IF commit THEN new ELSE @],
                wake |-> commit, echo |-> 1]
          [] OTHER -> [cons |-> cons, wake |-> FALSE, echo |-> 0]

(* What consoleintr makes of the ring: the new w and e, the new content,   *)
(* whether the readers are woken and how much is echoed.                   *)
Edit(c) ==
    LET used == Dist(cons.r, cons.e, UintMod)
        new == (cons.e + 1) % UintMod
        commit == c \in {"nl", "eof"} \/ new = (cons.r + INPUT_BUF) % UintMod
        back(k) == [cons EXCEPT !.e = (@ - k) % UintMod]
        open == Dist(cons.w, cons.e, UintMod)
        line == CHOOSE k \in 0 .. open :    \* ^U stops at w or at a newline
                  /\ \A j \in 1 .. k : cons.buf[((cons.e - j) % UintMod) % INPUT_BUF] # "nl"
                  /\ k = open \/ cons.buf[((cons.e - k - 1) % UintMod) % INPUT_BUF] = "nl"
    IN  CASE c = "kill" -> [cons |-> back(line), wake |-> FALSE, echo |-> BsEcho * line]
          [] c = "erase" /\ cons.e # cons.w -> [cons |-> back(1), wake |-> FALSE, echo |-> BsEcho]
          [] c \in Typed /\ used < INPUT_BUF ->
               [cons |-> [cons EXCEPT !.buf[cons.e % INPUT_BUF] = c, !.e = new,
                                      !.w = IF commit THEN new ELSE @],
                wake |-> commit, echo |-> 1]
          [] OTHER -> [cons |-> cons, wake |-> FALSE, echo |-> 0]

(* uartgetc and consoleintr(c): the echo comes first in the code, but      *)
(* nobody sees the ring before cons.lock is released after it.             *)
consoleintr(c) ==
    /\ pc[Intr] = "rx" /\ rx /\ cons.lock = None
    /\ rx' = FALSE
    /\ LET d == Edit(c)
           then == IF d.echo = 0 THEN "rx" ELSE "echo"
       IN  /\ ConsTo([d.cons EXCEPT !.lock = IF d.echo = 0 THEN None ELSE Intr])
           /\ echo' = d.echo
           /\ IF d.wake THEN WakeAndGoto(Intr, "read_asleep", "read", then)
                        ELSE Goto(Intr, then)
    /\ UNCHANGED <<tx, fifo, irq, call, src, reg, killed>>

(* uartputc_sync: spin until the device is idle, then write it.            *)
echo_idle ==
    /\ pc[Intr] = "echo" /\ Idle
    /\ Goto(Intr, "echo_thr")
    /\ UNCHANGED <<cons, tx, fifo, rx, irq, call, src, reg, echo, killed>>

echo_thr ==
    /\ pc[Intr] = "echo_thr"
    /\ fifo' = Append(fifo, Echo)
    /\ echo' = echo - 1
    /\ IF echo = 1 THEN Goto(Intr, "rx") /\ cons' = [cons EXCEPT !.lock = None]
                   ELSE Goto(Intr, "echo") /\ UNCHANGED cons
    /\ UNCHANGED <<tx, rx, irq, call, src, reg, killed>>

(* A character of printf, by uartputc_sync as well.                        *)
printf_idle ==
    /\ pc[Printf] = "user" /\ Idle
    /\ Goto(Printf, "print_thr")
    /\ UNCHANGED <<cons, tx, fifo, rx, irq, call, src, reg, echo, killed>>

printf_thr ==
    /\ pc[Printf] = "print_thr"
    /\ fifo' = Append(fifo, Echo)
    /\ Goto(Printf, "user")
    /\ UNCHANGED <<cons, tx, rx, irq, call, src, reg, echo, killed>>

(* No more input: send buffered characters.                                *)
send_buffered ==
    /\ pc[Intr] = "rx" /\ ~rx /\ tx.lock = None
    /\ tx' = [tx EXCEPT !.lock = Intr]
    /\ Goto(Intr, "start")
    /\ UNCHANGED <<cons, fifo, rx, irq, call, src, reg, echo, killed>>

----------------------------------------------------------------------------
(* The device, and kill().                                                 *)

Receive ==
    /\ ~rx
    /\ rx' = TRUE /\ irq' = TRUE
    /\ UNCHANGED <<cons, tx, fifo, pc, call, src, reg, echo, killed>>

Transmit ==
    /\ fifo # <<>>
    /\ fifo' = Tail(fifo)
    /\ irq' = (irq \/ Tail(fifo) = <<>>)
    /\ UNCHANGED <<cons, tx, rx, pc, call, src, reg, echo, killed>>

kill(p) ==
    /\ p \in Killed /\ ~killed[p]
    /\ killed' = [killed EXCEPT ![p] = TRUE]
    /\ pc' = [pc EXCEPT ![p] = CASE @ = "read_asleep" -> "read"
                                 [] @ = "write_asleep" -> "write"
                                 [] OTHER -> @]
    /\ UNCHANGED <<cons, tx, fifo, rx, irq, call, src, reg, echo>>

----------------------------------------------------------------------------
Reader(p) == read_acquire(p) \/ read_empty(p) \/ read_char(p) \/ read_full(p)
Writer(p) == write_done(p) \/ write_sleep(p) \/ uartputc(p)
Start(t) == start_return(t) \/ start_take(t) \/ start_thr(t)
Handler ==
    uartintr \/ (\E c \in Keys : consoleintr(c)) \/ echo_idle \/ echo_thr \/ send_buffered

Next ==
    \/ \E p \in Readers : Reader(p) \/ \E k \in ReadSizes : Call(p, "read", k)
    \/ \E p \in Writers : Writer(p) \/ Call(p, "write", 0)
    \/ \E p \in Procs : kill(p)
    \/ \E t \in Threads : Start(t)
    \/ Handler \/ printf_idle \/ printf_thr
    \/ Receive \/ Transmit

Spec == Init /\ [][Next]_vars

----------------------------------------------------------------------------
(* Properties.                                                             *)

TypeOK ==
    /\ cons \in [buf : [0 .. INPUT_BUF - 1 -> Typed], r : 0 .. UintMod - 1,
                 w : 0 .. UintMod - 1, e : 0 .. UintMod - 1,
                 lock : Threads \cup {None}]
    /\ tx \in [buf : [0 .. UART_TX_BUF_SIZE - 1 -> Bytes \cup {None}], r : 0 .. Uint64Mod - 1,
               w : 0 .. Uint64Mod - 1, lock : Threads \cup {None}]
    /\ rx \in BOOLEAN /\ irq \in BOOLEAN
    /\ pc \in [Threads -> {"user", "read", "read_loop", "read_asleep", "write",
                           "write_asleep", "start", "thr", "rx", "echo", "echo_thr",
                           "print_thr"}]
    /\ \A p \in Procs : n[p] \in ReadSizes \cup {0} /\ got[p] \in 0 .. n[p]
    /\ src \in Bytes /\ reg \in Bytes \cup {None} /\ echo \in 0 .. BsEcho * INPUT_BUF
    /\ killed \in [Procs -> BOOLEAN]

Held(from, to) == [k \in 1 .. Dist(from, to, UintMod) |->
                     cons.buf[((from + k - 1) % UintMod) % INPUT_BUF]]

Lines == INSTANCE LineInput
         WITH Chars <- Typed, Ends <- {"nl", "eof"}, Size <- INPUT_BUF,
              ready <- Held(cons.r, cons.w), edit <- Held(cons.w, cons.e)

(* The three indices of the input ring implement a line being edited and   *)
(* lines handed over: no character is lost, doubled or changed after its   *)
(* line has ended, however readers and the interrupt handler interleave    *)
(* and also when the indices wrap around.                                  *)
ImplementsLines == Lines!Spec

(* Bytes accepted from write() and not yet sent, oldest first.             *)
Outgoing ==
    SelectSeq(fifo, LAMBDA c : c \in Bytes)
    \o (IF reg = None THEN <<>> ELSE <<reg>>)
    \o [k \in 1 .. Dist(tx.r, tx.w, Uint64Mod) |->
          tx.buf[((tx.r + k - 1) % Uint64Mod) % UART_TX_BUF_SIZE]]

(* Bytes are sent in the order they were accepted, each once, whichever    *)
(* CPU is in uartstart and whatever is echoed in between.                  *)
OutputInOrder ==
    [][\/ Outgoing' = Outgoing
       \/ src' # src /\ Outgoing' = Append(Outgoing, src)
       \/ fifo # <<>> /\ Outgoing # <<>> /\ fifo' = Tail(fifo) /\ Outgoing' = Tail(Outgoing)]_vars

(* Echo and printf ignore uart_tx_lock, but each of the three finds the    *)
(* device idle before it writes one character: there are never more than   *)
(* three in the device's 16-byte FIFO.                                     *)
FifoFits == Len(fifo) <= 3

(* Nobody sleeps on a condition that has become false: a sleeping reader   *)
(* has nothing to read and a sleeping writer no room.                      *)
NoLostWakeup ==
    \A p \in Procs :
      /\ pc[p] = "read_asleep" => cons.r = cons.w
      /\ pc[p] = "write_asleep" => Full

(* Whoever waits in the ring will be sent: while uart_tx_lock is free and  *)
(* the ring is not empty, the device is busy or the handler is on its way. *)
SendPending ==
    tx.lock = None /\ tx.r # tx.w =>
      fifo # <<>> \/ irq \/ pc[Intr] \in {"rx", "echo", "echo_thr"}

(* What readers, writers, handler and device keep true together.           *)
ConsoleInv == TypeOK /\ FifoFits /\ NoLostWakeup /\ SendPending
=============================================================================
