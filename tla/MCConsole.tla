------------------------------ MODULE MCConsole -----------------------------
(* Instance of Console for TLC.  A behaviour is in one of two parts: every *)
(* key is typed, a reader may be killed and only echoes are sent, or a     *)
(* process and printf write while lines of one newline are typed and read. *)
EXTENDS Console

VARIABLE part

InPart ==
    /\ part = "keys" => \A t \in Writers \cup {Printf} : pc[t] = "user"
    /\ part = "output" => /\ \A p \in Procs : ~killed[p]
                          /\ \A k \in DOMAIN Held(cons.r, cons.e) : Held(cons.r, cons.e)[k] = "nl"

MCInit == Init /\ part \in {"keys", "output"}
MCNext == Next /\ UNCHANGED part /\ InPart'
MCSpec == MCInit /\ [][MCNext]_<<vars, part>>
=============================================================================
