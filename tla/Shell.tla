-------------------------------- MODULE Shell --------------------------------
(***************************************************************************)
(* The command parser of user/sh.c, function by function, and beside it    *)
(* the language it is meant to read.  The buffer s is a sequence of        *)
(* characters, a position is an index into it, Len(s) + 1 its end (es).    *)
(* Every parse function returns the command and the position it stopped    *)
(* at; Failed is the result of panic(), which ends the child that parses.  *)
(***************************************************************************)
EXTENDS Integers, Sequences, SequencesExt, FiniteSetsExt

CONSTANT MAXARGS    \* argv slots of an execcmd, the last for the end mark

whitespace == {" "}
symbols    == {"<", "|", ">", "&", ";", "(", ")"}

EXEC(argv)          == [type |-> "EXEC", argv |-> argv]
REDIR(c, file, tok) == [type |-> "REDIR", cmd |-> c, file |-> file, tok |-> tok]
PIPE(l, r)          == [type |-> "PIPE", left |-> l, right |-> r]
LIST(l, r)          == [type |-> "LIST", left |-> l, right |-> r]
BACK(c)             == [type |-> "BACK", cmd |-> c]

Error   == [type |-> "panic"]
Failed  == [cmd |-> Error, ps |-> 0]
IsError(c) == c.type = "panic"

-----------------------------------------------------------------------------
\* The first position from i on that is not in chars, or the end.
SkipWhile(s, i, chars) ==
    Min({j \in i..Len(s) + 1 : j = Len(s) + 1 \/ s[j] \notin chars})

At(s, i) == IF i > Len(s) THEN "" ELSE s[i]

\* Where the word that starts at i ends.
WordEnd(s, i) == Min({j \in i..Len(s) + 1 : At(s, j) \in whitespace \cup symbols \cup {""}})

\* gettoken: the token, its place [q, eq), and the position after it and the
\* white space behind it.  "+" is ">>", "" the end of the line.
gettoken(s, ps) ==
    LET token(tok, q, eq) == [tok |-> tok, q |-> q, eq |-> eq, ps |-> SkipWhile(s, eq, whitespace)]
        from(q, c) == IF c = "" THEN token("", q, q)
                      ELSE IF c = ">" /\ At(s, q + 1) = ">" THEN token("+", q, q + 2)
                      ELSE IF c \in symbols THEN token(c, q, q + 1)
                      ELSE token("a", q, WordEnd(s, q))
        at(q) == from(q, At(s, q))
    IN  at(SkipWhile(s, ps, whitespace))

\* The parse functions are given T, what gettoken returns at each position.
Gettoken(s) == [i \in 1..Len(s) + 1 |-> gettoken(s, i)]

\* peek: is the next character that is not blank one of toks?
peek(T, ps, toks) == T[ps].tok \in toks \/ (T[ps].tok = "+" /\ ">" \in toks)

Word(t) == [q |-> t.q, eq |-> t.eq]

RECURSIVE parseline(_, _), parsepipe(_, _), parseredirs(_, _, _), parseargs(_, _, _, _)

\* parseredirs: each redirection wraps the command so far.
parseredirs(c, T, ps) ==
    LET redir(op, file) == IF file.tok # "a" THEN Failed
                           ELSE parseredirs(REDIR(c, Word(file), op.tok), T, file.ps)
    IN  IF peek(T, ps, {"<", ">"}) THEN redir(T[ps], T[T[ps].ps]) ELSE [cmd |-> c, ps |-> ps]

\* The redirections of an execcmd are put around it as they come, the arguments
\* into it: Wrap is the command once all are known.
Wrap(argv, redirs) == FoldLeft(LAMBDA c, r : REDIR(c, r.file, r.tok), EXEC(argv), redirs)

\* parseexec's loop: argv so far, the redirections so far.
parseargs(argv, redirs, T, ps) ==
    LET redir(op, file) ==
          IF file.tok # "a" THEN Failed
          ELSE parseargs(argv, Append(redirs, [file |-> Word(file), tok |-> op.tok]), T, file.ps)
        arg(t) ==
          IF t.tok # "a" \/ Len(argv) + 1 >= MAXARGS THEN Failed
          ELSE parseargs(Append(argv, Word(t)), redirs, T, t.ps)
    IN  IF peek(T, ps, {"<", ">"}) THEN redir(T[ps], T[T[ps].ps])
        ELSE IF peek(T, ps, {"|", ")", "&", ";", ""})
        THEN [cmd |-> Wrap(argv, redirs), ps |-> T[ps].q]
        ELSE arg(T[ps])

\* parseblock: a line in parentheses, then redirections.
parseblock(T, ps) ==
    LET close(l) == IF IsError(l.cmd) \/ ~peek(T, l.ps, {")"}) THEN Failed
                    ELSE parseredirs(l.cmd, T, T[l.ps].ps)
    IN  close(parseline(T, T[ps].ps))

parseexec(T, ps) == IF peek(T, ps, {"("}) THEN parseblock(T, ps)
                    ELSE parseargs(<<>>, <<>>, T, ps)

\* c, made of l and r, unless the right one is in error.
Joined(r, c) == IF IsError(r.cmd) THEN Failed ELSE [cmd |-> c, ps |-> r.ps]

\* parsepipe: "|" groups to the right.
parsepipe(T, ps) ==
    LET both(l, r) == Joined(r, PIPE(l.cmd, r.cmd))
        left(l)    == IF IsError(l.cmd) \/ ~peek(T, l.ps, {"|"}) THEN l
                      ELSE both(l, parsepipe(T, T[l.ps].ps))
    IN  left(parseexec(T, ps))

RECURSIVE Backs(_, _)
\* parseline's while: one BACK for each "&".
Backs(T, l) == IF IsError(l.cmd) \/ ~peek(T, l.ps, {"&"}) THEN l
               ELSE Backs(T, [cmd |-> BACK(l.cmd), ps |-> T[l.ps].ps])

parseline(T, ps) ==
    LET both(l, r) == Joined(r, LIST(l.cmd, r.cmd))
        left(l)    == IF IsError(l.cmd) \/ ~peek(T, l.ps, {";"}) THEN l
                      ELSE both(l, parseline(T, T[l.ps].ps))
    IN  left(Backs(T, parsepipe(T, ps)))

RECURSIVE Ends_Exec(_)
\* Mutant: nulterminate does not end the name of a file.
Ends_Exec(c) ==
    CASE c.type = "EXEC"              -> {c.argv[i].eq : i \in DOMAIN c.argv}
      [] c.type \in {"REDIR", "BACK"} -> Ends_Exec(c.cmd)
      [] c.type \in {"PIPE", "LIST"}  -> Ends_Exec(c.left) \cup Ends_Exec(c.right)

RECURSIVE Ends(_)
\* The positions nulterminate overwrites with 0.
Ends(c) ==
    CASE c.type = "EXEC"              -> {c.argv[i].eq : i \in DOMAIN c.argv}
      [] c.type = "REDIR"             -> Ends(c.cmd) \cup {c.file.eq}
      [] c.type \in {"PIPE", "LIST"}  -> Ends(c.left) \cup Ends(c.right)
      [] c.type = "BACK"              -> Ends(c.cmd)

RECURSIVE Strings(_, _, _)
\* The command as exec and open will see it: each word is what lies between its
\* start and the first 0 behind it in the buffer.
Strings(s, nul, c) ==
    LET str(w) == SubSeq(s, w.q, Min({j \in w.q..Len(s) + 1 : j \in nul \/ j = Len(s) + 1}) - 1)
    IN  CASE c.type = "EXEC"  -> EXEC([i \in DOMAIN c.argv |-> str(c.argv[i])])
          [] c.type = "REDIR" -> REDIR(Strings(s, nul, c.cmd), str(c.file), c.tok)
          [] c.type = "PIPE"  -> PIPE(Strings(s, nul, c.left), Strings(s, nul, c.right))
          [] c.type = "LIST"  -> LIST(Strings(s, nul, c.left), Strings(s, nul, c.right))
          [] c.type = "BACK"  -> BACK(Strings(s, nul, c.cmd))

\* parsecmd: a line, nothing left over, its words ended by nulterminate.
parsecmd(s) ==
    LET whole(l) == IF IsError(l.cmd) \/ SkipWhile(s, l.ps, whitespace) # Len(s) + 1 THEN Error
                    ELSE Strings(s, Ends(l.cmd), l.cmd)
    IN  whole(parseline(Gettoken(s), 1))

-----------------------------------------------------------------------------
(***************************************************************************)
(* The language, said another way: a line is cut into words and symbols;   *)
(* the first ";" outside parentheses splits it in two commands, "&" at the *)
(* end puts what is before it in the background, the first "|" outside     *)
(* parentheses splits a pipeline, and what remains is a list in            *)
(* parentheses or words, with redirections.                                *)
(***************************************************************************)

\* The words and symbols of a line, each a sequence of characters: a character
\* joins the token before it when no blank is between and both are of a word, or
\* it is the second of ">>".
Tokens(s) ==
    LET joins(i) == /\ i > 1
                    /\ \/ {s[i - 1], s[i]} \cap (symbols \cup whitespace) = {}
                       \/ s[i - 1] = ">" /\ s[i] = ">"
                          /\ Cardinality({j \in 1..i : \A k \in j..i : s[k] = ">"}) % 2 = 0
        step(t, i) == IF s[i] \in whitespace THEN t
                      ELSE IF joins(i) THEN [t EXCEPT ![Len(t)] = Append(@, s[i])]
                      ELSE Append(t, <<s[i]>>)
    IN  FoldLeft(step, <<>>, [i \in DOMAIN s |-> i])

Is(t, i, x) == i \in DOMAIN t /\ t[i] = <<x>>
IsWord(t)   == t[1] \notin symbols

\* How deep in parentheses position i is.
Depth(t, i) == Cardinality({j \in 1..i : Is(t, j, "(")}) - Cardinality({j \in 1..i : Is(t, j, ")")})

\* The first position of token x outside parentheses, 0 if there is none.
Split(t, x) == LET at == {i \in DOMAIN t : Is(t, i, x) /\ Depth(t, i) = 0}
               IN  IF at = {} THEN 0 ELSE Min(at)

Before(t, i) == SubSeq(t, 1, i - 1)
After(t, i)  == SubSeq(t, i + 1, Len(t))
Or(a, b, c)  == IF IsError(a) \/ IsError(b) THEN Error ELSE c

\* Redirections are pairs of an operator and a word.
IsRedir(t, i) == i \in DOMAIN t /\ t[i][1] \in {"<", ">"}
RedirsOf(t)   == {i \in DOMAIN t : IsRedir(t, i)}
WordsOf(t)    == {i \in DOMAIN t : IsWord(t[i]) /\ ~IsRedir(t, i - 1)}

\* t holds nothing but words and whole redirections.
Simple(t) == /\ \A i \in DOMAIN t : IsWord(t[i]) \/ IsRedir(t, i)
             /\ \A i \in RedirsOf(t) : i + 1 \in DOMAIN t /\ IsWord(t[i + 1])

Redirected(c, t) == FoldLeft(LAMBDA x, i : REDIR(x, t[i + 1], IF Len(t[i]) = 2 THEN "+" ELSE t[i][1]), c,
                             SetToSortSeq(RedirsOf(t), LAMBDA a, b : a < b))

RECURSIVE Line(_), Background(_), Pipeline(_)

\* Words and redirections.
Words(t) ==
    LET args(w) == IF ~Simple(t) \/ Len(w) >= MAXARGS THEN Error
                   ELSE Redirected(EXEC([i \in DOMAIN w |-> t[w[i]]]), t)
    IN  args(SetToSortSeq(WordsOf(t), LAMBDA a, b : a < b))

\* A list in parentheses, up to the one that closes it, and redirections.
Block(t, close) ==
    LET whole(c, rest) == IF ~Simple(rest) \/ WordsOf(rest) # {} \/ IsError(c) THEN Error
                          ELSE Redirected(c, rest)
    IN  IF close = {} THEN Error
        ELSE whole(Line(SubSeq(t, 2, Min(close) - 1)), After(t, Min(close)))

Command(t) == IF Is(t, 1, "(") THEN Block(t, {j \in DOMAIN t : Is(t, j, ")") /\ Depth(t, j) = 0})
              ELSE Words(t)

Pipeline(t) ==
    LET both(l, r) == Or(l, r, PIPE(l, r))
        at(i)      == IF i = 0 THEN Command(t) ELSE both(Command(Before(t, i)), Pipeline(After(t, i)))
    IN  at(Split(t, "|"))

Background(t) ==
    LET back(c) == Or(c, c, BACK(c))
    IN  IF Is(t, Len(t), "&") THEN back(Background(Front(t))) ELSE Pipeline(t)

Line(t) ==
    LET both(l, r) == Or(l, r, LIST(l, r))
        at(i)      == IF i = 0 THEN Background(t) ELSE both(Background(Before(t, i)), Line(After(t, i)))
    IN  at(Split(t, ";"))
=============================================================================
