--------------------------------- MODULE Grep ---------------------------------
(***************************************************************************)
(* grep (user/grep.c) and wc (user/wc.c) on input that read() returns in   *)
(* pieces of any size, as a pipe or the console does, and grep's matcher.  *)
(* A pattern and a line are sequences of characters; a position one past   *)
(* the end stands for the end mark.                                        *)
(***************************************************************************)
EXTENDS Integers, Sequences, SequencesExt, FiniteSetsExt

CONSTANTS PatChars, MaxPat,     \* characters and length of a pattern
          TextChars, MaxText,   \* characters and length of the input
          BUF                   \* size of grep's buffer (1024)

VARIABLES re,       \* the pattern
          seen,     \* the input read so far
          buf,      \* grep: buf[0..m-1]
          out,      \* grep: the lines written
          cnt       \* wc: l, w, c and inword

gvars == <<re, seen, buf, out, cnt>>

NL == "nl"                    \* the end of a line
Blanks == {" ", NL}

GInit == /\ re = <<>> /\ seen = <<>> /\ buf = <<>> /\ out = <<>>
         /\ cnt = [l |-> 0, w |-> 0, c |-> 0, inword |-> FALSE]

-----------------------------------------------------------------------------
\* The matcher, on the rest r of the pattern and t of the line.
Hd(s) == IF s = <<>> THEN "" ELSE s[1]

RECURSIVE matchhere(_, _), matchstar(_, _, _)

\* c* and then r: r is tried first, then one more c is taken.
matchstar(c, r, t) == \/ matchhere(r, t)
                      \/ t # <<>> /\ (Hd(t) = c \/ c = ".") /\ matchstar(c, r, Tail(t))

matchhere(r, t) ==
    IF r = <<>> THEN TRUE
    ELSE IF Len(r) > 1 /\ r[2] = "*" THEN matchstar(r[1], SubSeq(r, 3, Len(r)), t)
    ELSE IF r = <<"$">> THEN t = <<>>
    ELSE t # <<>> /\ (r[1] = "." \/ r[1] = t[1]) /\ matchhere(Tail(r), Tail(t))

match(r, t) == IF Hd(r) = "^" THEN matchhere(Tail(r), t)
               ELSE \E i \in 1..Len(t) + 1 : matchhere(r, SubSeq(t, i, Len(t)))

-----------------------------------------------------------------------------
\* The whole lines of s, without their ends, and what is behind the last.
Newlines(s)  == SetToSortSeq({i \in DOMAIN s : s[i] = NL}, LAMBDA a, b : a < b)
Lines(s) == LET from(e) == [k \in DOMAIN e |-> SubSeq(s, (IF k = 1 THEN 0 ELSE e[k - 1]) + 1, e[k] - 1)]
            IN  from(Newlines(s))
Rest(s)  == SubSeq(s, Max({0} \cup {i \in DOMAIN s : s[i] = NL}) + 1, Len(s))

\* Mutant: what is left of a line is dropped before the next read.
Kept_Nothing(s) == <<>>

\* memmove(buf, p, m): the start of a line stays for the next read.
Kept(s) == Rest(s)

\* grep's loop: n bytes behind those kept; the whole lines in the buffer are matched.
grep(piece) ==
    LET now(b) == /\ out' = out \o SelectSeq(Lines(b), LAMBDA l : match(re, l))
                  /\ buf' = Kept(b)
    IN  now(buf \o piece)

\* wc's loop body for one character.
count(r, ch) == [l |-> r.l + (IF ch = NL THEN 1 ELSE 0),
                 w |-> r.w + (IF ch \notin Blanks /\ ~r.inword THEN 1 ELSE 0),
                 c |-> r.c + 1,
                 inword |-> ch \notin Blanks]

wc(piece) == cnt' = FoldLeft(count, cnt, piece)

\* The pattern is given before anything is read.
Pattern == /\ seen = <<>> /\ Len(re) < MaxPat
           /\ \E c \in PatChars : re' = Append(re, c)
           /\ UNCHANGED <<seen, buf, out, cnt>>

\* read() returns n > 0 bytes, no more than there is room for in grep's buffer;
\* full of one line, the buffer ends the loop as the end of the input does.
Read == /\ \E n \in 1..MaxText - Len(seen) : n <= BUF - Len(buf) - 1 /\
             \E piece \in [1..n -> TextChars] :
                /\ seen' = seen \o piece
                /\ grep(piece)
                /\ wc(piece)
        /\ UNCHANGED re

GNext == Pattern \/ Read

GSpec == GInit /\ [][GNext]_gvars

-----------------------------------------------------------------------------
\* A pattern is a sequence of characters, each repeated when a "*" stands behind it,
\* anchored by a first "^" and a last "$".  It matches where the text can be cut
\* into pieces, one for each.
StartOf(r) == LET s[i \in 0..Len(r)] == IF i = 0 THEN FALSE ELSE ~(r[i] = "*" /\ s[i - 1])
              IN  {i \in DOMAIN r : s[i]}
Starred(r, i) == i + 1 \in DOMAIN r /\ r[i + 1] = "*"

Cut(r, t, left) ==
    LET end   == Len(r) \in StartOf(r) /\ r[Len(r)] = "$"
        items == SetToSortSeq(StartOf(r) \ (IF end THEN {Len(r)} ELSE {}), LAMBDA a, b : a < b)
        fits(c, x) == c = "." \/ c = x
    IN  \E f \in [0..Len(items) -> 0..Len(t)] :
           /\ left => f[0] = 0
           /\ end => f[Len(items)] = Len(t)
           /\ \A k \in DOMAIN items :
                /\ f[k - 1] <= f[k]
                /\ ~Starred(r, items[k]) => f[k] = f[k - 1] + 1
                /\ \A j \in f[k - 1] + 1..f[k] : fits(r[items[k]], t[j])

Matches(r, t) == IF Hd(r) = "^" THEN Cut(Tail(r), t, TRUE) ELSE Cut(r, t, FALSE)

\* However the input is cut into reads, grep has written exactly the whole lines read
\* so far that the pattern matches, in their order, the pattern read as "^ . * $"
\* (grep.c:1): a line in two buffers is neither lost nor matched in halves.
PrintsMatchingLines == out = SelectSeq(Lines(seen), LAMBDA l : Matches(re, l))

\* However the input is cut into reads, wc's counts are those of the input: a word in
\* two buffers is one word.
CountsInput ==
    /\ cnt.c = Len(seen)
    /\ cnt.l = Cardinality({i \in DOMAIN seen : seen[i] = NL})
    /\ cnt.w = Cardinality({i \in DOMAIN seen :
                  seen[i] \notin Blanks /\ (i = 1 \/ seen[i - 1] \in Blanks)})

\* The output of grep and of wc depends on the input and not on how it is cut into reads.
TextExact == PrintsMatchingLines /\ CountsInput
=============================================================================
