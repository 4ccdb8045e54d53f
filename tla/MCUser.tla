------------------------------- MODULE MCUser -------------------------------
(* The memory of processes and what runs in it: the shell and init, the    *)
(* shell's parser, malloc, the string routines, grep and wc.  The models   *)
(* do not share state: a behaviour is one of the part that `part' names,   *)
(* the others stay as they are.                                            *)
EXTENDS Memory, ShellRun, Umalloc, CString, Grep

CONSTANTS p1, p2, LineChars, MaxLine

VARIABLES part,   \* the part that runs
          line    \* a line typed to the shell

(* Files: one segment; two that share a page, behind a header that is no   *)
(* segment; then one for every test of exec that fails on its file.        *)
Seg(v, m, f, o) == [type |-> "LOAD", vaddr |-> v, memsz |-> m, filesz |-> f, off |-> o]
Hdr(t)     == [Seg(0, 0, 0, 0) EXCEPT !.type = t]
Elf(n, s)  == [magic |-> TRUE, len |-> n, seg |-> s]
Small      == Elf(12, <<Seg(0, 4, 3, 1)>>)
Large      == Elf(14, <<Hdr("OTHER"), Seg(0, 10, 10, 0), Seg(8, 6, 1, 11)>>)
BadFiles   ==
    {Elf(9,  <<Seg(0, 16, 10, 0)>>),
     Elf(14, <<Seg(0, 3, 3, 0), Seg(11, 2, 1, 0)>>),
     Elf(14, <<Seg(0, 9, 3, 0), Seg(0, 1, 2, 0)>>),
     Elf(14, <<Hdr("SHORT")>>),
     Elf(14, <<Seg(Uint64Mod - PGSIZE, 2 * PGSIZE, 1, 0)>>),
     [Elf(0, <<>>) EXCEPT !.magic = FALSE]}

(* Argument lists: none, two that fit, two strings without room for the    *)
(* array or for themselves, too many, a pointer and a string that cannot   *)
(* be fetched.                                                             *)
Lists == {<<>>, <<<<3>>, <<>>>>, <<<<3, 3>>, <<3>>>>, <<<<3, 3, 3, 3, 3, 3, 3>>, <<3>>>>,
          <<<<>>, <<>>, <<>>>>, <<<<3>>, NoPointer>>, <<<<3>>, NoString>>}

MCExecCalls ==
    {[prog |-> Small, args |-> l] : l \in Lists}
    \cup {[prog |-> f, args |-> <<<<3>>>>] : f \in BadFiles \cup {Large}}

MCDeltas    == {-17, -5, 12}
MCAddrs     == {6, 12}
MCCopyAddrs == {0, 6, 12, 15, 24}

(* Lines with every kind of command, pipelines of two and three programs,  *)
(* and one that does not parse.                                            *)
MCCommands == {parsecmd(l) : l \in
    { <<"e", "|", "c">>, <<"e", "|", "c", "|", "c">>, <<"e", ">", "f", "&">>,
      <<"(", "e", "&", ";", "e", ")", "|", "c">>, <<"|", ")">> }}

(* The memory when another part runs: no process.                          *)
MemoryOff == /\ k = [free |-> Pages, data |-> [b \in Pages |-> Junk], got |-> 0]
             /\ proc = [p \in Procs |-> Unused] /\ at = [p \in Procs |-> Idle]
             /\ mem = [p \in Procs |-> NoMem]
             /\ pipes = {} /\ panic = "none" /\ calls = 0

UInit == /\ part \in {"memory", "line", "shell", "malloc", "string", "text"}
         /\ IF part = "memory" THEN Init ELSE MemoryOff
         /\ line = <<>> /\ MInit /\ GInit
         /\ IF part = "shell" THEN ShInit ELSE ShOff
         /\ SInit /\ (part # "string" => bytes = [i \in Mem |-> 0])

(* The shell's input, character by character.                              *)
Type == /\ part = "line" /\ Len(line) < MaxLine
        /\ \E c \in LineChars : line' = Append(line, c)
        /\ UNCHANGED <<part, vars, shvars, mvars, svars, gvars>>

UNext ==
    \/ part = "memory" /\ Next /\ UNCHANGED <<part, line, shvars, mvars, svars, gvars>>
    \/ Type
    \/ part = "shell" /\ ShNext /\ UNCHANGED <<part, line, vars, mvars, svars, gvars>>
    \/ part = "malloc" /\ MNext /\ UNCHANGED <<part, line, vars, shvars, svars, gvars>>
    \/ part = "string" /\ SNext /\ UNCHANGED <<part, line, vars, shvars, mvars, gvars>>
    \/ part = "text" /\ GNext /\ UNCHANGED <<part, line, vars, shvars, mvars, svars>>

USpec == /\ UInit
         /\ [][UNext]_<<part, line, vars, shvars, mvars, svars, gvars>>
         /\ ShFairness

----------------------------------------------------------------------------
(* parsecmd reads a line as the language says: the same commands, words    *)
(* and files, ended where they end, or an error (sh.c:265-493).            *)
ParsesLine == parsecmd(line) = Line(Tokens(line))
=============================================================================
