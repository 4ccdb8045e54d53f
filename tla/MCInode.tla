------------------------------ MODULE MCInode -------------------------------
(* Instance of Inode for TLC: the calls the processes make.                *)
EXTENDS Inode, TLC

CONSTANTS p1, p2

Dir(n, ents, up) == [Free EXCEPT !.type = "DIR", !.nlink = n, !.ents = ents @@ NoEnts, !.up = up]
Tree(d) == [i \in Inums |-> IF i \in DOMAIN d THEN d[i] ELSE Free]

(* The image of mkfs; and a tree with /d/d, which p1 has made its working  *)
(* directory with the first call.                                          *)
Fresh  == [tree |-> Tree(<<Dir(1, <<>>, Root)>>), cwd |-> AtRoot, calls |-> 0]
Nested == [tree |-> Tree(<<Dir(2, "d" :> 2, Root), Dir(2, "d" :> 3, Root), Dir(1, <<>>, 2)>>),
           cwd |-> [AtRoot EXCEPT ![p1] = 3], calls |-> 1]

MCFresh  == {Fresh}
MCStarts == {Fresh, Nested}

MCCalls ==
    (p1 :> {[op |-> "create", path |-> <<"a">>, type |-> "FILE"],
            [op |-> "unlink", path |-> <<"a">>],
            [op |-> "open", path |-> <<"/", "a">>, mode |-> "r"],
            [op |-> "chdir", path |-> <<"/", "d">>],
            [op |-> "chdir", path |-> <<"..">>],
            [op |-> "unlink", path |-> <<"/", "d", "d">>]}) @@
    (p2 :> {[op |-> "mkdir", path |-> <<"/", "d">>, type |-> "DIR"],
            [op |-> "mknod", path |-> <<"/", "a">>, type |-> "NODEV"],
            [op |-> "unlink", path |-> <<"/", "d">>],
            [op |-> "link", path |-> <<"a">>, new |-> <<"/", "d", "a">>],
            [op |-> "open", path |-> <<"/", "d">>, mode |-> "w"],
            [op |-> "create", path |-> <<".">>, type |-> "FILE"]})
=============================================================================
