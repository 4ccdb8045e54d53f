------------------------------- MODULE CString -------------------------------
(***************************************************************************)
(* Memory and string routines of kernel/string.c and user/ulib.c, byte by  *)
(* byte on a memory of M bytes (0 is the end mark of a string), the        *)
(* element-wise reading of path names (skipelem) and the printing of       *)
(* integers (printint) of both printf.c.  A behaviour is one call on any   *)
(* contents.                                                               *)
(***************************************************************************)
EXTENDS Integers, Sequences, SequencesExt, FiniteSetsExt

CONSTANTS M,        \* bytes of memory
          Chars,    \* what a byte may be, 0 included
          DIRSIZ,   \* bytes of a name in a directory
          Slash,    \* the character that separates the elements of a path
          Width     \* bits of an int

VARIABLES bytes, old, \* the memory, and before the call
          call,       \* the call made
          ret         \* what it returned or printed: a sequence of strings

svars == <<bytes, old, call, ret>>

Mem == 0..M - 1
NoCall == [op |-> "none", d |-> 0, s |-> 0, n |-> 0]

SInit == /\ bytes \in [Mem -> Chars]
         /\ old = bytes
         /\ call = NoCall
         /\ ret = <<>>

-----------------------------------------------------------------------------
Upto(n) == [i \in 1..n |-> i - 1]

\* Bytes copied one at a time, at the offsets of order.
CopyIn(m, d, s, order) == FoldLeft(LAMBDA x, i : [x EXCEPT ![d + i] = x[s + i]], m, order)

\* Mutant: always upwards.
kmemmove_Up(m, d, s, n) == CopyIn(m, d, s, Upto(n))

\* kernel memmove: downwards only when the end of the source is overwritten.
kmemmove(m, d, s, n) == CopyIn(m, d, s, IF s < d /\ s + n > d THEN Reverse(Upto(n)) ELSE Upto(n))

\* user memmove: upwards only when the source is above.
umemmove(m, d, s, n) == CopyIn(m, d, s, IF s > d THEN Upto(n) ELSE Reverse(Upto(n)))

\* The length of the string at s, or n when it does not end before.
strnlen(m, s, n) == Min({i \in 0..n : i = n \/ (s + i \in Mem /\ m[s + i] = 0)})

\* strncpy: through the end mark, then zeros up to n.
strncpy(m, d, s, n) ==
    LET k == strnlen(m, s, n)
    IN  [i \in Mem |-> IF i \in d..d + k - 1 THEN m[s + i - d]
                       ELSE IF i \in d + k..d + n - 1 THEN 0 ELSE m[i]]

\* safestrcpy: at most n - 1 bytes, then a zero.
safestrcpy(m, d, s, n) ==
    LET k == strnlen(m, s, n - 1)
    IN  IF n <= 0 THEN m
        ELSE [i \in Mem |-> IF i \in d..d + k - 1 THEN m[s + i - d]
                            ELSE IF i = d + k THEN 0 ELSE m[i]]

RECURSIVE strncmp(_, _, _, _)
\* strncmp: the loop stops at n, at an end mark or at a difference.
strncmp(m, p, q, n) ==
    IF n = 0 THEN 0
    ELSE IF m[p] # 0 /\ m[p] = m[q] THEN strncmp(m, p + 1, q + 1, n - 1)
    ELSE m[p] - m[q]

-----------------------------------------------------------------------------
\* skipelem on the string at i: the element, at most DIRSIZ bytes of it, and the
\* position behind it and the slashes that follow; no element at the end.
SkipBytes(m, i, skip) == Min({j \in i..M : j = M \/ (j < M /\ m[j] \notin skip)})

skipelem(m, path) ==
    LET from(s, e) == [name |-> [k \in 1..Min({e - s, DIRSIZ}) |-> m[s + k - 1]],
                       path |-> SkipBytes(m, e, {Slash})]
        elem(s)    == IF s = M THEN [name |-> <<>>, path |-> M]
                      ELSE IF m[s] = 0 THEN [name |-> <<>>, path |-> M]
                      ELSE from(s, SkipBytes(m, s, Chars \ {Slash, 0}))
    IN  elem(SkipBytes(m, path, {Slash}))

RECURSIVE Elements(_, _)
\* The elements namex walks: skipelem until there is none.
Elements(m, path) ==
    LET rest(e) == IF e.name = <<>> THEN <<>> ELSE <<e.name>> \o Elements(m, e.path)
    IN  rest(skipelem(m, path))

-----------------------------------------------------------------------------
\* An int of Width bits, and the same bits as an unsigned.
Ints   == -(2 ^ (Width - 1))..2 ^ (Width - 1) - 1
uint(x) == x % (2 ^ Width)

RECURSIVE Digits(_, _)
\* The do-while: least digit first.
Digits(x, b) == <<x % b>> \o (IF x \div b # 0 THEN Digits(x \div b, b) ELSE <<>>)

\* printint: the digits put out, -1 for the sign.
printint(xx, b, sgn) ==
    Reverse(IF sgn /\ xx < 0 THEN Append(Digits(uint(-xx), b), -1) ELSE Digits(uint(xx), b))

-----------------------------------------------------------------------------
Made(op, d, s, n) == /\ call = NoCall
                     /\ call' = [op |-> op, d |-> d, s |-> s, n |-> n]
                     /\ old' = bytes

\* A copy between any two places; the string copies are never called on places
\* that overlap.
Copy == \E d, s \in Mem, n \in 0..M :
    /\ d + n <= M /\ s + n <= M
    /\ \/ Made("memmove", d, s, n) /\ bytes' = kmemmove(bytes, d, s, n)
       \/ Made("memmove", d, s, n) /\ bytes' = umemmove(bytes, d, s, n)
       \/ /\ d + n <= s \/ s + n <= d
          /\ \/ Made("strncpy", d, s, n) /\ bytes' = strncpy(bytes, d, s, n)
             \/ Made("safestrcpy", d, s, n) /\ bytes' = safestrcpy(bytes, d, s, n)
    /\ ret' = <<>>

Compare == \E p, q \in Mem :
    /\ p + DIRSIZ <= M /\ q + DIRSIZ <= M
    /\ Made("namecmp", p, q, DIRSIZ)
    /\ ret' = <<<<strncmp(bytes, p, q, DIRSIZ)>>>>
    /\ UNCHANGED bytes

Walk == /\ Made("namex", 0, 0, 0)
        /\ ret' = Elements(bytes, 0)
        /\ UNCHANGED bytes

Show == \E xx \in Ints, b \in {3, 4}, sgn \in BOOLEAN :
    /\ \A i \in Mem : bytes[i] = 0       \* the memory plays no part
    /\ Made(IF sgn THEN "signed" ELSE "unsigned", 0, xx, b)
    /\ ret' = <<printint(xx, b, sgn)>>
    /\ UNCHANGED bytes

SNext == Copy \/ Compare \/ Walk \/ Show

SSpec == SInit /\ [][SNext]_svars

-----------------------------------------------------------------------------
\* The string or field of n bytes at a.
Field(m, a, n) == {<<i, m[a + i]>> : i \in {j \in 0..n - 1 : \A k \in 0..j : m[a + k] # 0}}

\* Every copy leaves exactly what was asked for at its destination, overlap or not,
\* ended or padded as the function promises ("guaranteed to NUL-terminate",
\* string.c:83), and not a byte elsewhere is changed.
CopiesExact ==
    LET d == call.d
        n == call.n
    IN  call.op \in {"memmove", "strncpy", "safestrcpy"} =>
        /\ \A i \in Mem \ (d..d + n - 1) : bytes[i] = old[i]
        /\ call.op = "memmove" => \A i \in 0..n - 1 : bytes[d + i] = old[call.s + i]
        /\ call.op = "strncpy" =>
             /\ Field(bytes, d, n) = Field(old, call.s, n)
             /\ \A i, j \in 0..n - 1 : i < j /\ bytes[d + i] = 0 => bytes[d + j] = 0
        /\ call.op = "safestrcpy" /\ n > 0 =>
             /\ Field(bytes, d, n) = Field(old, call.s, n - 1)
             /\ \E i \in 0..n - 1 : bytes[d + i] = 0

\* Two names are the same to namecmp when they are the same up to their end or to
\* DIRSIZ bytes, whatever lies behind the end (fs.c:522-525).
NamesCompared ==
    call.op = "namecmp" =>
        (ret[1][1] = 0 <=> Field(bytes, call.d, DIRSIZ) = Field(bytes, call.s, DIRSIZ))

\* The elements of a path are its longest runs without a slash, in their order, each
\* cut to DIRSIZ bytes: no element is empty, skipped or read twice (fs.c:599-622).
ElementsInOrder ==
    LET end     == Min({i \in 0..M : i = M \/ (i < M /\ bytes[i] = 0)})
        first   == {i \in 0..end - 1 : bytes[i] # Slash /\ (i = 0 \/ bytes[i - 1] = Slash)}
        last(i) == Min({j \in i..end : j = end \/ (j < end /\ bytes[j] = Slash)})
        elem(i) == [k \in 1..Min({last(i) - i, DIRSIZ}) |-> bytes[i + k - 1]]
        starts  == SetToSortSeq(first, LAMBDA a, b : a < b)
    IN  call.op = "namex" => ret = [k \in DOMAIN starts |-> elem(starts[k])]

\* What printint puts out reads back as the number, the most negative one included,
\* in the unsigned reading when no sign is asked for, without leading zeros.
PrintsValue ==
    LET value(ds, b) == FoldLeft(LAMBDA v, x : v * b + x, 0, ds)
    IN  call.op \in {"signed", "unsigned"} =>
        LET neg == ret[1][1] = -1
            ds  == IF neg THEN Tail(ret[1]) ELSE ret[1]
            v   == value(ds, call.n)
        IN  /\ ds[1] # 0 \/ Len(ds) = 1
            /\ (IF neg THEN -v ELSE v) = (IF call.op = "signed" THEN call.s ELSE uint(call.s))

\* Every routine returns what its reference says, for every content of the memory:
\* copies, comparison of names, the elements of a path, numbers.
StringsExact == CopiesExact /\ NamesCompared /\ ElementsInOrder /\ PrintsValue
=============================================================================
