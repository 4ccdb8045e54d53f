-------------------------------- MODULE Fifo --------------------------------
(***************************************************************************)
(* What a pipe promises: bytes come out in the order they went in, each    *)
(* once, at most Size of them wait, and no byte goes in once an end has    *)
(* been closed by its last holder.                                         *)
(***************************************************************************)
EXTENDS Sequences, Naturals

CONSTANTS Bytes, Size

VARIABLES
    queue,   \* bytes written and not yet read
    ropen,   \* somebody can still read
    wopen    \* somebody can still write

vars == <<queue, ropen, wopen>>

Init == queue = <<>> /\ ~ropen /\ ~wopen

Open ==
    /\ ~ropen /\ ~wopen
    /\ ropen' = TRUE /\ wopen' = TRUE
    /\ queue' = <<>>

Send(ch) ==
    /\ ropen /\ wopen
    /\ Len(queue) < Size
    /\ queue' = Append(queue, ch)
    /\ UNCHANGED <<ropen, wopen>>

Receive ==
    /\ ropen
    /\ queue # <<>>
    /\ queue' = Tail(queue)
    /\ UNCHANGED <<ropen, wopen>>

CloseRead == ropen /\ ropen' = FALSE /\ UNCHANGED <<queue, wopen>>
CloseWrite == wopen /\ wopen' = FALSE /\ UNCHANGED <<queue, ropen>>

Next == Open \/ (\E ch \in Bytes : Send(ch)) \/ Receive \/ CloseRead \/ CloseWrite

Spec == Init /\ [][Next]_vars

=============================================================================
