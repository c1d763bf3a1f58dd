----------------------------- MODULE FieldSplit -----------------------------
(***************************************************************************)
(* What splitting a text should give, told without a loop.  A text is a    *)
(* sequence of characters; the pieces are sequences of characters.  A      *)
(* regular expression is known by its longest matches in one text:         *)
(* re.at[p] is the length of the longest at position p when ^ does not     *)
(* match there, or -1, and re.bol the same at position 1 when ^ does.      *)
(* Splitter (split.c) computes these pieces step by step.                  *)
(***************************************************************************)
EXTENDS Integers, Sequences, FiniteSets

CONSTANT Space     \* the characters scan_code calls SC_SPACE

\* the numbers of a set, the smallest first
InOrder(S) == CHOOSE g \in [1..Cardinality(S) -> S] : \A i, j \in DOMAIN g : i < j => g[i] < g[j]

\* the runs of characters that are not space, from left to right
Word(t, p) == p \in 1..Len(t) /\ t[p] \notin Space
Starts(t) == {p \in 1..Len(t) : Word(t, p) /\ ~Word(t, p - 1)}
End(t, p) == CHOOSE q \in p..Len(t) : (\A i \in p..q : Word(t, i)) /\ ~Word(t, q + 1)
Words(t) ==
    LET first == InOrder(Starts(t))
    IN [i \in 1..Len(first) |-> SubSeq(t, first[i], End(t, first[i]))]

Letters(t) == [i \in 1..Len(t) |-> <<t[i]>>]

Longest(re, p) == IF p = 1 THEN re.bol ELSE re.at[p]

\* the matches that separate: of positive length, each starting as far to the
\* left as the ones before it allow
Separators(re, n) ==
    CHOOSE S \in SUBSET (1..n) :
        \A p \in 1..n :
            p \in S <=> /\ Longest(re, p) > 0
                        /\ ~\E q \in S : q < p /\ p < q + Longest(re, q)

\* what is left between the separators; nothing of the empty text
Between(t, re) ==
    LET n == Len(t)
        sep == InOrder(Separators(re, n))
        From(i) == IF i = 1 THEN 1 ELSE sep[i - 1] + Longest(re, sep[i - 1])
        To(i) == IF i > Len(sep) THEN n ELSE sep[i] - 1
    IN IF n = 0 THEN <<>>
       ELSE [i \in 1..Len(sep) + 1 |-> SubSeq(t, From(i), To(i))]

\* the expression of a single ordinary character
CharRE(t, c) ==
    LET at == [p \in 1..Len(t) + 1 |-> IF p <= Len(t) /\ t[p] = c THEN 1 ELSE -1]
    IN [at |-> at, bol |-> at[1]]
=============================================================================
