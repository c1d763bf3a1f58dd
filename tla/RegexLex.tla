------------------------------ MODULE RegexLex ------------------------------
(***************************************************************************)
(* The scanner of regular expressions, rexp0.c.  A regular expression is a *)
(* sequence of characters; a named class such as [:alpha:] is one element  *)
(* of it.  RE_lex is a function of the text and of the scanner's state     *)
(* [at, prev, nest, plus]: re_exp, prev, nest and plus_is_star_flag.       *)
(* The numeric escapes \ddd and \xhh are left out.                         *)
(***************************************************************************)
EXTENDS Integers, Sequences, SequencesExt

CONSTANTS Alphabet,     \* the characters of a subject, in collating order
          Named,        \* the named classes: a function to sets of characters
          Repetitions   \* repetitions_flag

ASSUME AlphabetAssumption == Alphabet \in Seq(STRING) /\ Repetitions \in BOOLEAN

NUL == ""
MaxInt == 999          \* MAX__INT: no upper limit
Digits == <<"0", "1", "2", "3", "4", "5", "6", "7", "8", "9">>
IsDigit(c) == \E d \in 1..10 : Digits[d] = c
At(t, i) == IF i \in 1..Len(t) THEN t[i] ELSE NUL
Ord(c) == CHOOSE k \in 1..Len(Alphabet) : Alphabet[k] = c

Char2token(c) ==
    CASE c = "$" -> "END"   [] c = "(" -> "LP"   [] c = ")" -> "RP"
      [] c = "*" -> "STAR"  [] c = "+" -> "PLUS" [] c = "." -> "ANY"
      [] c = "?" -> "Q"     [] c = "[" -> "CLASS" [] c = "\\" -> "SLASH"
      [] c = "^" -> "START" [] c = "{" -> "LB"   [] c = "|" -> "OR"
      [] c = "}" -> "RB"    [] OTHER -> "CHAR"

\* One state of a machine; it_min, it_max and s_enter are used by LOOP only.
State(op) == [op |-> op, end |-> FALSE, str |-> <<>>, set |-> {}, jump |-> 0,
              lo |-> 1, hi |-> MaxInt, enter |-> 0]
Accept == State("ACCEPT")
Atom(st) == <<st, Accept>>
RE_str(s) == Atom([State("STR") EXCEPT !.str = s])
RE_class(b) == Atom([State("CLASS") EXCEPT !.set = b])

-----------------------------------------------------------------------------
(* Interval expressions {n} {n,m} {n,} {,m}; i is where the "{" stands.     *)
ok_intervals(t, i) ==
    \E j \in i+1..Len(t) :
        /\ t[j] = "}"
        /\ \A k \in i+1..j-1 : IsDigit(t[k]) \/ t[k] = ","
        /\ \A k, l \in i+1..j-1 : t[k] = "," /\ t[l] = "," => k = l

Number(t, i, j) ==
    FoldLeft(LAMBDA n, c : 10 * n + (CHOOSE d \in 1..10 : Digits[d] = c) - 1,
             0, SubSeq(t, i, j))

do_intervals(t, i) ==
    LET close == CHOOSE j \in i+1..Len(t) : t[j] = "}" /\ "}" \notin ToSet(SubSeq(t, i, j - 1))
        comma == {k \in i+1..close : t[k] = ","}
        left  == IF comma = {} THEN close ELSE CHOOSE k \in comma : TRUE
        lo    == Number(t, i + 1, left - 1)
        hi    == IF comma = {} THEN lo
                 ELSE IF left + 1 = close /\ left > i + 1 THEN MaxInt
                 ELSE Number(t, left + 1, close - 1)
    IN  [at |-> close + 1, lo |-> lo, hi |-> hi, err |-> close = i + 1 \/ hi < lo]

-----------------------------------------------------------------------------
(* Escapes, literal strings and classes.                                    *)

\* The character after the backslash at i, and where the text goes on.
Escape(t, i) ==
    IF i = Len(t) THEN [c |-> "\\", at |-> i + 1]
    ELSE [c |-> IF t[i + 1] = "n" THEN "\n" ELSE t[i + 1], at |-> i + 2]

OneChar(t, i) == IF t[i] = "\\" THEN Escape(t, i) ELSE [c |-> t[i], at |-> i + 1]

RECURSIVE Run(_, _)
Run(t, i) ==
    IF i > Len(t) THEN <<>>
    ELSE LET k == Char2token(t[i])
         IN  IF k \in {"CHAR", "SLASH"} \/ (~Repetitions /\ k \in {"LB", "RB"})
             THEN LET e == OneChar(t, i) IN <<[c |-> e.c, at |-> e.at]>> \o Run(t, e.at)
             ELSE <<>>

\* A run of characters; one that is followed by an operator gives back its
\* last character, unless it is the only one.
do_str(t, first) ==
    LET run  == <<first>> \o Run(t, first.at)
        n    == Len(run)
        next == At(t, run[n].at)
        back == n > 1 /\ next \in {"*", "+", "?"} \cup (IF Repetitions THEN {"{"} ELSE {})
        keep == IF back THEN n - 1 ELSE n
    IN  [m |-> RE_str([k \in 1..keep |-> run[k].c]), at |-> run[keep].at]

RECURSIVE CloseOf(_, _)
CloseOf(t, j) == IF j > Len(t) THEN 0
                 ELSE IF t[j] = "]" THEN j
                 ELSE CloseOf(t, IF t[j] = "\\" THEN j + 2 ELSE j + 1)

RECURSIVE Members(_, _, _, _)
Members(t, p, q, prevc) ==
    CASE p >= q -> {}
      [] p < q /\ t[p] \in DOMAIN Named -> Named[t[p]] \cup Members(t, p + 1, q, prevc)
      [] p < q /\ t[p] = "-" /\ prevc # NUL /\ p + 1 # q ->
            LET e == OneChar(t, p + 1)
            IN  IF Ord(prevc) <= Ord(e.c)
                THEN {Alphabet[k] : k \in Ord(prevc)..Ord(e.c)} \cup Members(t, e.at, q, NUL)
                ELSE {"-"} \cup Members(t, p + 1, q, "-")
      [] OTHER -> LET e == OneChar(t, p) IN {e.c} \cup Members(t, e.at, q, e.c)

\* The class that starts at i; a "]" or "[" that comes first stands for itself.
do_class(t, i) ==
    LET lead == IF At(t, i + 1) \in {"[", "]"} THEN i + 2
                ELSE IF At(t, i + 1) = "^" /\ At(t, i + 2) \in {"[", "]"} THEN i + 3
                ELSE i + 1
        q    == CloseOf(t, lead)
        comp == At(t, i + 1) = "^"
        set  == IF q = 0 THEN {} ELSE Members(t, IF comp THEN i + 2 ELSE i + 1, q, NUL)
    IN  [m |-> RE_class(IF comp THEN ToSet(Alphabet) \ set ELSE set), at |-> q + 1, err |-> q = 0]

-----------------------------------------------------------------------------
(* RE_lex: the next token.  The result holds the scanner's new state, the   *)
(* token, the machine of an operand, the interval of "}", and an error.     *)
RE_lex_init == [at |-> 1, prev |-> "NOT_STARTED", nest |-> 0, plus |-> FALSE]

Fresh == {"NOT_STARTED", "OR", "LP", "CAT"}
AfterOperand == {"RB", "CHAR", "STR", "ANY", "CLASS", "START", "RP", "PLUS", "STAR", "Q", "U"}

TokenAt(t, i) ==
    LET c == Char2token(t[i])
    IN  IF \/ c = "LB" /\ ~(Repetitions /\ ok_intervals(t, i))
           \/ c = "RB" /\ ~Repetitions
        THEN "CHAR" ELSE c

Give(x, tok, at) == [x |-> [x EXCEPT !.at = at, !.prev = tok], tok |-> tok, m |-> <<>>,
                     lo |-> 0, hi |-> 0, err |-> FALSE]
Fail(x) == [Give(x, "NONE", x.at) EXCEPT !.err = TRUE]

\* The operand that stands before a "$" takes it as END_ON.
GiveOperand(t, x, tok, m, at) ==
    IF At(t, at) = "$" THEN [Give(x, tok, at + 1) EXCEPT !.m = [m EXCEPT ![1].end = TRUE]]
    ELSE [Give(x, tok, at) EXCEPT !.m = m]

\* "." and ".*"; ".+" is scanned twice, as "." and then as ".*".
LexAny(t, x) ==
    LET next == At(t, x.at + 1)
        u    == [Give(x, "U", x.at + 2) EXCEPT !.m = Atom(State("U"))]
    IN  CASE next = "*" -> u
          [] next = "+" /\ x.plus -> [u EXCEPT !.x.plus = FALSE]
          [] next = "+" /\ ~x.plus ->
                [Give(x, "ANY", x.at) EXCEPT !.x.plus = TRUE, !.m = Atom(State("ANY"))]
          [] OTHER -> GiveOperand(t, x, "ANY", Atom(State("ANY")), x.at + 1)

LexOperand(t, x, c) ==
    CASE c = "ANY"   -> LexAny(t, x)
      [] c = "START" -> GiveOperand(t, x, "START", Atom(State("START")), x.at + 1)
      [] c = "END"   -> [Give(x, "END", x.at + 1) EXCEPT !.m = Atom(State("END"))]
      [] c = "CLASS" -> LET k == do_class(t, x.at)
                        IN  IF k.err THEN Fail(x) ELSE GiveOperand(t, x, "CLASS", k.m, k.at)
      [] OTHER       -> LET first == IF c = "SLASH" THEN Escape(t, x.at)
                                     ELSE [c |-> t[x.at], at |-> x.at + 1]
                            k == do_str(t, first)
                        IN  GiveOperand(t, x, "STR", k.m, k.at)

RE_lex(t, x) ==
    IF x.at > Len(t) THEN Give(x, "NONE", x.at)
    ELSE LET c == TokenAt(t, x.at)
    IN  CASE c \in {"PLUS", "STAR"} /\ x.prev = "START" -> Fail(x)
          [] c \in {"OR", "Q"} \/ (c \in {"PLUS", "STAR"} /\ x.prev # "START") -> Give(x, c, x.at + 1)
          [] c = "LB" -> LET k == do_intervals(t, x.at)
                         IN  IF k.err THEN Fail(x)
                             ELSE [Give(x, "RB", k.at) EXCEPT !.lo = k.lo, !.hi = k.hi]
          [] c = "RP" /\ x.nest > 0 -> [Give(x, c, x.at + 1) EXCEPT !.x.nest = @ - 1]
          [] c = "LP" /\ x.prev \notin AfterOperand -> [Give(x, c, x.at + 1) EXCEPT !.x.nest = @ + 1]
          [] OTHER -> IF c # "LP" /\ x.prev \in Fresh THEN LexOperand(t, x, c)
                      ELSE Give(x, "CAT", x.at)
=============================================================================
