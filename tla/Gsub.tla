-------------------------------- MODULE Gsub --------------------------------
(***************************************************************************)
(* sub and gsub: the compilation of the replacement (re_cmpl.c), gsub3,    *)
(* which builds its result in a buffer whose length it guesses, and        *)
(* bi_sub.  A round of gsub3's loop is three steps: find a match and copy  *)
(* what is before it; make the replacement and put it; move on.  Offsets   *)
(* are C's, from 0.  The regular expression is a table "re": re.at[p + 1]  *)
(* is the length of the longest match at offset p, -1 for none, and re.bol *)
(* that at offset 0 where ^ may match.                                     *)
(***************************************************************************)
EXTENDS Integers, Sequences, SequencesExt, FiniteSetsExt

CONSTANTS Texts,      \* bound: the texts to substitute in
          Tables(_),  \* bound: the tables tried on a text of a length
          Repls,      \* bound: the replacements
          Amp         \* what & is compiled to

\* texts and replacements are sequences of characters, and a match lies in its
\* text
ASSUME GsubAssumption ==
    /\ \A t \in Texts \cup Repls : t \in Seq(ToSet(t))
    /\ \A t \in Texts : \A m \in Tables(Len(t)) :
         /\ m \in [at : [1..Len(t) + 1 -> Int], bol : Int]
         /\ m.bol <= Len(t) /\ \A p \in 0..Len(t) : p + m.at[p + 1] <= Len(t)

VARIABLES fn,         \* "sub" or "gsub"
          input, re,
          raw, repl,  \* the replacement as written and as compiled
          pc,         \* "look", "put", "move" or "done"
          j, skip0, repl_cnt,
          found,      \* where, howmuch and the offset the search began at
          xrepl,      \* the replacement made last, NoText before the first
          output,     \* what is in the buffer: used is its length
          guess, limit,
          reused      \* history: xrepl was used for another match than its own

args == <<fn, input, re, raw, repl>>
vars == <<args, pc, j, skip0, repl_cnt, found, xrepl, output, guess, limit, reused>>

len == Len(input)
used == Len(output)
Piece(from, n) == SubSeq(input, from + 1, from + n)
NoText == <<Amp>>
NoMatch == [where |-> -1, howmuch |-> 0, for |-> NoText]

-----------------------------------------------------------------------------
(* The replacement.                                                        *)

\* Pairs of backslashes count as one only if what follows them is an &.
Merge(s, i) == \E r \in i + 2..Len(s) : s[r] = "&" /\ \A k \in i + 2..r - 1 : s[k] = "\\"
\* a variant: a backslash before & is dropped, and the & still stands for the match
REPL_compile_bare(s) ==
    LET n == Len(s)
        Is(i, ch) == i <= n /\ s[i] = ch
        from[i \in 1..n + 2] ==
            IF i > n THEN <<>>
            ELSE IF Is(i, "\\") /\ Is(i + 1, "&") THEN <<Amp>> \o from[i + 2]
            ELSE <<IF Is(i, "&") THEN Amp ELSE s[i]>> \o from[i + 1]
    IN  from[1]
\* The vector of pieces, as a sequence of characters and Amps.
REPL_compile(s) ==
    LET n == Len(s)
        Is(i, ch) == i <= n /\ s[i] = ch
        from[i \in 1..n + 2] ==
            IF i > n THEN <<>>
            ELSE IF Is(i, "\\") /\ Is(i + 1, "\\")
            THEN (IF Merge(s, i) THEN <<"\\">> ELSE <<"\\", "\\">>) \o from[i + 2]
            ELSE IF Is(i, "\\") /\ Is(i + 1, "&") THEN <<"&">> \o from[i + 2]
            ELSE <<IF Is(i, "&") THEN Amp ELSE s[i]>> \o from[i + 1]
    IN  from[1]
IsReplv(cell) == Contains(cell, Amp)
replv_to_repl(cell, sval) == FlattenSeq([i \in 1..Len(cell) |-> IF cell[i] = Amp THEN sval ELSE <<cell[i]>>])

-----------------------------------------------------------------------------
(* The matcher: the leftmost longest match at or behind an offset.         *)

LengthAt(p, no_bol) == IF p = 0 /\ ~no_bol THEN re.bol ELSE re.at[p + 1]
Hits(from, no_bol) == {p \in from..len : LengthAt(p, no_bol) >= 0}
REmatch(from, no_bol) ==
    IF Hits(from, no_bol) = {} THEN NoMatch
    ELSE LET p == Min(Hits(from, no_bol))
         IN  [where |-> p, howmuch |-> LengthAt(p, no_bol), for |-> Piece(p, LengthAt(p, no_bol))]

-----------------------------------------------------------------------------
(* bi_gsub and gsub3.                                                      *)

Init == /\ fn \in {"sub", "gsub"}
        /\ input \in Texts /\ re \in Tables(Len(input))
        /\ raw \in Repls /\ repl = REPL_compile(raw)
        /\ pc = "look" /\ j = 0 /\ skip0 = -1 /\ repl_cnt = 0 /\ found = NoMatch
        /\ xrepl = IF IsReplv(repl) THEN NoText ELSE repl
        /\ output = <<>> /\ guess = Len(input) /\ limit = Len(input)
        /\ reused = FALSE

Look == /\ fn = "gsub" /\ pc = "look" /\ j <= len
        /\ LET m == REmatch(j, j # 0)
               have == m.where - j
           IN  IF m = NoMatch
               THEN /\ output' = output \o Piece(j, len - j)
                    /\ pc' = "done"
                    /\ UNCHANGED <<found, skip0>>
               ELSE /\ output' = output \o Piece(j, have)
                    /\ skip0' = IF have > 0 THEN -1 ELSE skip0
                    /\ found' = m
                    /\ pc' = "put"
        /\ UNCHANGED <<args, j, repl_cnt, xrepl, guess, limit, reused>>
\* a variant: the loop ends at the length, not behind it
Looked_exact == /\ fn = "gsub" /\ pc = "look" /\ j = len
                /\ pc' = "done"
                /\ UNCHANGED <<args, j, skip0, repl_cnt, found, xrepl, output, guess, limit, reused>>
LookedAll == /\ fn = "gsub" /\ pc = "look" /\ j > len
             /\ pc' = "done"
             /\ UNCHANGED <<args, j, skip0, repl_cnt, found, xrepl, output, guess, limit, reused>>

\* xrepl is made anew unless the text it holds is the text that was matched.
Made == IF IsReplv(repl) /\ xrepl # found.for THEN replv_to_repl(repl, found.for) ELSE xrepl
\* a variant: the estimate is compared with the allocated length before it grows
Grown_late(have) ==
    IF have <= found.howmuch THEN [guess |-> guess - (found.howmuch - have), limit |-> limit]
    ELSE LET more == guess + (have - found.howmuch)
         IN  IF guess > limit THEN [guess |-> more + 1, limit |-> 2 * (more + 1)]
             ELSE [guess |-> more, limit |-> limit]
\* The estimate of the length, and the buffer when the estimate reaches it.
Grown(have) ==
    IF have <= found.howmuch THEN [guess |-> guess - (found.howmuch - have), limit |-> limit]
    ELSE LET more == guess + (have - found.howmuch)
         IN  IF more >= limit THEN [guess |-> more + 1, limit |-> 2 * (more + 1)]
             ELSE [guess |-> more, limit |-> limit]
\* An empty match right behind the last match is not replaced.
Counts == found.howmuch > 0 \/ j # skip0
Put == /\ pc = "put"
       /\ xrepl' = Made
       /\ reused' = (reused \/ (Counts /\ IsReplv(repl) /\ Made # replv_to_repl(repl, found.for)))
       /\ IF Counts
          THEN /\ repl_cnt' = repl_cnt + 1
               /\ guess' = Grown(Len(Made)).guess /\ limit' = Grown(Len(Made)).limit
               /\ output' = output \o Made
          ELSE UNCHANGED <<repl_cnt, guess, limit, output>>
       /\ pc' = "move"
       /\ UNCHANGED <<args, j, skip0, found>>

\* Where the next search begins: behind the match, and one on if it was empty.
Behind(m) == m.where + (IF m.howmuch > 0 THEN m.howmuch ELSE 1)
Move == /\ pc = "move"
        /\ j' = Behind(found)
        /\ skip0' = IF found.howmuch > 0 THEN Behind(found) ELSE -1
        /\ output' = IF found.howmuch = 0 /\ found.where < len THEN output \o Piece(found.where, 1) ELSE output
        /\ pc' = "look"
        /\ UNCHANGED <<args, repl_cnt, found, xrepl, guess, limit, reused>>

\* bi_sub allocates what it needs.
bi_sub == /\ fn = "sub" /\ pc = "look"
          /\ LET m == REmatch(0, FALSE)
                 made == replv_to_repl(repl, m.for)
                 back == m.where + m.howmuch
             IN  IF m = NoMatch
                 THEN output' = input /\ UNCHANGED <<repl_cnt, limit>>
                 ELSE /\ output' = Piece(0, m.where) \o made \o Piece(back, len - back)
                      /\ limit' = m.where + Len(made) + (len - back)
                      /\ repl_cnt' = 1
          /\ pc' = "done"
          /\ UNCHANGED <<args, j, skip0, found, xrepl, guess, reused>>

gsub3 == Look \/ LookedAll \/ Put \/ Move
Next == bi_sub \/ gsub3
Spec == Init /\ [][Next]_vars /\ WF_vars(Next)

-----------------------------------------------------------------------------
(* What the documents promise.                                             *)

\* What a raw replacement means: the characters that are put, and Amp for each &
\* that is the match.  The documents agree where pairs of backslashes stand only
\* in runs before an &, and disagree elsewhere.
Backslashes(s, i) == i - 1 - Max({0} \cup {k \in 1..i - 1 : s[k] # "\\"})
BeforeAmp(s, i) == \E e \in i + 1..Len(s) : s[e] = "&" /\ \A k \in i..e - 1 : s[k] = "\\"
PairsBeforeAmp(s) == \A i \in 1..Len(s) - 1 : s[i] = "\\" /\ s[i + 1] = "\\" => BeforeAmp(s, i)

\* mawk.1:873-879, and re_cmpl.c:148-152: & is the match, \& an ampersand, \\ a
\* backslash, and a backslash before anything else stands for itself.
Posix(s) ==
    FlattenSeq([i \in 1..Len(s) |->
        IF s[i] = "&" THEN <<IF Backslashes(s, i) % 2 = 0 THEN Amp ELSE "&">>
        ELSE IF s[i] = "\\" /\ Backslashes(s, i) % 2 = 0 /\ i < Len(s) /\ s[i + 1] \in {"\\", "&"}
        THEN <<>>
        ELSE <<s[i]>>])

\* CHANGES, 20200925: "only escaping backslash with itself if those backslashes
\* happen to precede a &".  Other pairs stay.
Since2020(s) ==
    FlattenSeq([i \in 1..Len(s) |->
        IF s[i] = "&" THEN <<IF Backslashes(s, i) % 2 = 0 THEN Amp ELSE "&">>
        ELSE IF s[i] = "\\" /\ BeforeAmp(s, i) /\ Backslashes(s, i) % 2 = 0 THEN <<>>
        ELSE <<s[i]>>])

Written(s) == IF PairsBeforeAmp(s) THEN Posix(s) ELSE Since2020(s)

\* An & of the replacement is the match.
Expand(pieces, m) == FlattenSeq([i \in 1..Len(pieces) |-> IF pieces[i] = Amp THEN m.for ELSE <<pieces[i]>>])

\* An empty match keeps the character behind it.  The next search begins behind
\* both: at an offset, and TRUE where a match that was not empty ends there.
Kept(m) == IF m.howmuch > 0 \/ m.where = len THEN <<>> ELSE Piece(m.where, 1)
Onward(m) == IF m.howmuch > 0 THEN <<m.where + m.howmuch, TRUE>> ELSE <<m.where + 1, FALSE>>

\* What is behind a place after all matches there are replaced.  [text, cnt]
Replaced(pieces) ==
    LET rest[q \in (0..len + 1) \X BOOLEAN] ==
            LET p == q[1]
                m == REmatch(p, p # 0)
                counted == ~(q[2] /\ m.where = p /\ m.howmuch = 0)
            IN  IF p > len \/ m = NoMatch THEN [text |-> Piece(p, len - p), cnt |-> 0]
                ELSE [text |-> Piece(p, m.where - p) \o (IF counted THEN Expand(pieces, m) ELSE <<>>)
                               \o Kept(m) \o rest[Onward(m)].text,
                      cnt |-> rest[Onward(m)].cnt + (IF counted THEN 1 ELSE 0)]
    IN  rest[<<0, FALSE>>]
First(pieces) ==
    LET m == REmatch(0, FALSE)
        after == m.where + m.howmuch
    IN  IF m = NoMatch THEN [text |-> input, cnt |-> 0]
        ELSE [text |-> Piece(0, m.where) \o Expand(pieces, m) \o Piece(after, len - after),
              cnt |-> 1]
Promised == IF fn = "sub" THEN First(Written(raw)) ELSE Replaced(Written(raw))

TypeOK ==
    /\ fn \in {"sub", "gsub"} /\ input \in Texts /\ raw \in Repls
    /\ pc \in {"look", "put", "move", "done"}
    /\ j \in 0..len + 1 /\ skip0 \in -1..len /\ repl_cnt \in 0..len + 1
    /\ found.where \in -1..len /\ found.howmuch \in 0..len
    /\ guess \in Nat /\ limit \in Nat /\ reused \in BOOLEAN

\* The result is the text with every match replaced by what the replacement says
\* of it: as mawk(1) has it (Posix), if its pairs of backslashes stand before an &,
\* and as CHANGES has it since 20200925 for others, of which mawk.1:879 and the
\* comment at re_cmpl.c:148 say something else.  (gsub3, REPL_compile, bi_sub;
\* while xrepl was not used for a match it was not made for.)  The number returned
\* is the number of matches, of which an empty one right behind another does not
\* count.  (skip0 and the steps of j in gsub3.)
SubstitutesAsWritten ==
    pc = "done" => /\ repl_cnt = Promised.cnt
                   /\ ~reused => output = Promised.text

\* Whatever is copied lies in the buffer: the estimate, corrected on matches that
\* are replaced only, covers what is still to be copied.  (guess and limit in gsub3.)
BufferFits == used <= limit
BufferConsistent == TypeOK /\ BufferFits

\* Empty matches do not keep gsub3 at one place.  (the loop over j)
Ends == <>(pc = "done")

\* mawk(1) of gsub: an & in the replacement is replaced by the matched substring.
EveryMatchReplaced == pc = "done" => output = Promised.text
=============================================================================
