----------------------------- MODULE LineInput ------------------------------
(***************************************************************************)
(* What the console promises its readers: a line can be edited until it is *)
(* ended, what has been ended is delivered in order, each character once,  *)
(* and editing never reaches into it.                                      *)
(***************************************************************************)
EXTENDS Sequences, SequencesExt, Naturals

CONSTANTS Chars, Ends, Size

VARIABLES
    ready,  \* ended and not yet delivered
    edit    \* the line being typed

vars == <<ready, edit>>

Init == ready = <<>> /\ edit = <<>>

(* A character that ends the line, or fills the last place, hands it over. *)
Type(ch) ==
    /\ Len(ready) + Len(edit) < Size
    /\ LET line == Append(edit, ch)
       IN  IF ch \in Ends \/ Len(ready) + Len(line) = Size
           THEN ready' = ready \o line /\ edit' = <<>>
           ELSE edit' = line /\ UNCHANGED ready

Erase == edit # <<>> /\ edit' = Front(edit) /\ UNCHANGED ready
KillLine == edit' = <<>> /\ UNCHANGED ready
Deliver == ready # <<>> /\ ready' = Tail(ready) /\ UNCHANGED edit

Next == (\E ch \in Chars : Type(ch)) \/ Erase \/ KillLine \/ Deliver

Spec == Init /\ [][Next]_vars

=============================================================================
