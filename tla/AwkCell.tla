------------------------------- MODULE AwkCell -------------------------------
(***************************************************************************)
(* Cells and the strings they share: cast.c, memory.c and the cell         *)
(* functions at the end of execute.c.  A cell of a string type holds one   *)
(* reference to a STRING; a heap maps the strings that are alive to their  *)
(* text and their reference count.  "lost" is not in the program: it       *)
(* counts the references that string_to_double forgets to give back.       *)
(* A text is a sequence of characters; numbers are integers, so CONVFMT    *)
(* is never used.  The empty string null_str is static: it is string 0 and *)
(* its count means nothing.                                                *)
(***************************************************************************)
EXTENDS Integers, Sequences, SequencesExt, FiniteSets

Digit == <<"0", "1", "2", "3", "4", "5", "6", "7", "8", "9">>
IsDigit(ch) == \E i \in 1..10 : Digit[i] = ch
DigitValue(ch) == (CHOOSE i \in 1..10 : Digit[i] = ch) - 1

RECURSIVE Decimal(_), ValueOf(_, _)
Decimal(n) ==
    IF n < 0 THEN <<"-">> \o Decimal(-n)
    ELSE IF n < 10 THEN <<Digit[n + 1]>> ELSE Append(Decimal(n \div 10), Digit[(n % 10) + 1])

\* strtod: the number at the front of the text.
ValueOf(text, n) ==
    IF text = <<>> \/ ~IsDigit(text[1]) THEN n ELSE ValueOf(Tail(text), 10 * n + DigitValue(text[1]))
Unsigned(text) == IF text # <<>> /\ text[1] = "-" THEN Tail(text) ELSE text
Strtod(text) == IF Unsigned(text) = text THEN ValueOf(text, 0) ELSE -ValueOf(Unsigned(text), 0)
LooksNumeric(text) == Unsigned(text) # <<>> /\ \A i \in 1..Len(Unsigned(text)) : IsDigit(Unsigned(text)[i])

-----------------------------------------------------------------------------
(* Strings.                                                                *)

NullStr == 0
TextOf(h, s) == IF s \in DOMAIN h THEN h[s].text ELSE <<>>
FreshString(h) == CHOOSE s \in 1..(Cardinality(DOMAIN h) + 1) : s \notin DOMAIN h
With(h, s, rec) == [i \in DOMAIN h \cup {s} |-> IF i = s THEN rec ELSE h[i]]

\* new_STRING, new_STRING0: the string and the heap with it.
NewString(h, text) ==
    IF text = <<>> THEN [s |-> NullStr, h |-> h]
    ELSE [s |-> FreshString(h), h |-> With(h, FreshString(h), [text |-> text, cnt |-> 1, lost |-> 0])]
RefString(h, s) == IF s \in DOMAIN h THEN [h EXCEPT ![s].cnt = @ + 1] ELSE h
free_STRING(h, s) ==
    IF s \notin DOMAIN h THEN h
    ELSE IF h[s].cnt = 1 THEN [i \in DOMAIN h \ {s} |-> h[i]] ELSE [h EXCEPT ![s].cnt = @ - 1]
Forget(h, s) == IF s \in DOMAIN h THEN [h EXCEPT ![s].lost = @ + 1] ELSE h

-----------------------------------------------------------------------------
(* Cells.  On the evaluation stack a cell may also hold the address of a   *)
(* cell, an array, or the number that _PUSHINT leaves in the type.         *)

MakeCell(t, n, s, at) == [t |-> t, n |-> n, s |-> s, at |-> at]
Noinit == MakeCell("NOINIT", 0, NullStr, <<>>)
Double(n) == MakeCell("DOUBLE", n, NullStr, <<>>)
StringCell(s) == MakeCell("STRING", 0, s, <<>>)
Mbstrn(s) == MakeCell("MBSTRN", 0, s, <<>>)
Address(at) == MakeCell("ADDRESS", 0, NullStr, at)
ArrayCell(at) == MakeCell("ARRAY", 0, NullStr, at)
Count(n) == MakeCell("INT", n, NullStr, <<>>)
Stringy == {"STRING", "STRNUM", "MBSTRN"}
CellTypes == {"NOINIT", "DOUBLE"} \cup Stringy
HasString(c) == c.t \in Stringy

Pair(c, h) == [c |-> c, h |-> h]
cellcpy(h, c) == Pair(c, IF HasString(c) THEN RefString(h, c.s) ELSE h)
cell_destroy(h, c) == IF HasString(c) THEN free_STRING(h, c.s) ELSE h

\* A text that string_to_double leaves by its label done, behind free_STRING:
\* no number in front, or the single character 0.
LeavesEarly(text) ==
    LET q == Unsigned(text) IN q = <<>> \/ ~IsDigit(q[1]) \/ q = <<"0">>

string_to_double(h, c) ==
    LET text == TextOf(h, c.s)
    IN  IF LeavesEarly(text) THEN Pair(Double(0), Forget(h, c.s))
        ELSE Pair(Double(Strtod(text)), free_STRING(h, c.s))

cast1_to_d(h, c) ==
    CASE c.t = "NOINIT" -> Pair(Double(0), h)
      [] c.t \in {"MBSTRN", "STRING"} -> string_to_double(h, c)
      [] c.t = "STRNUM" -> Pair(Double(c.n), free_STRING(h, c.s))
      [] OTHER -> Pair(c, h)

cast1_to_s(h, c) ==
    CASE c.t = "NOINIT" -> Pair(StringCell(NullStr), h)
      [] c.t = "DOUBLE" -> \* DoubleToString: an integer is printed as one
           LET new == NewString(h, Decimal(c.n)) IN Pair(StringCell(new.s), new.h)
      [] c.t \in {"MBSTRN", "STRNUM"} -> Pair(StringCell(c.s), h)
      [] OTHER -> Pair(c, h)

\* A string from input or from an array's keys is a number if it looks like one.
check_strnum(h, c) ==
    LET text == TextOf(h, c.s)
    IN  IF c.t # "MBSTRN" THEN c
        ELSE IF LooksNumeric(text)
             THEN MakeCell("STRNUM", Strtod(text), c.s, <<>>)
             ELSE StringCell(c.s)

Truth(h, c) ==
    LET d == check_strnum(h, c)
    IN  CASE d.t = "NOINIT" -> FALSE
          [] d.t = "STRING" -> TextOf(h, d.s) # <<>>
          [] OTHER -> d.n # 0

\* the stack cell that _TEST and _NOT leave
Flag(b) == Double(IF b THEN 1 ELSE 0)

Collation == <<",", "-">> \o Digit \o <<"a", "b", "x">>
CharRank(ch) == CHOOSE i \in 1..Len(Collation) : Collation[i] = ch
RECURSIVE Before(_, _)
Before(a, b) ==   \* memcmp, then the shorter one
    CASE b = <<>> -> FALSE
      [] a = <<>> -> TRUE
      [] CharRank(a[1]) # CharRank(b[1]) -> CharRank(a[1]) < CharRank(b[1])
      [] OTHER -> Before(Tail(a), Tail(b))
Sign(less, more) == IF less THEN -1 ELSE IF more THEN 1 ELSE 0

\* CompareCells: by number if both are numbers or could be, by text as soon
\* as one is a string; gives back the strings of both.
CompareCells(h, left, right) ==
    LET a == check_strnum(h, left)
        b == check_strnum(h, right)
    IN  IF a.t = "NOINIT" /\ b.t = "NOINIT" THEN [sign |-> 0, h |-> h]
        ELSE IF "STRING" \in {a.t, b.t}
        THEN LET s1 == cast1_to_s(h, a)
                 s2 == cast1_to_s(s1.h, b)
                 t1 == TextOf(s2.h, s1.c.s)
                 t2 == TextOf(s2.h, s2.c.s)
             IN  [sign |-> Sign(Before(t1, t2), Before(t2, t1)),
                  h |-> free_STRING(free_STRING(s2.h, s1.c.s), s2.c.s)]
        ELSE LET d1 == cast1_to_d(h, a)
                 d2 == cast1_to_d(d1.h, b)
             IN  [sign |-> Sign(d1.c.n < d2.c.n, d1.c.n > d2.c.n), h |-> d2.h]
=============================================================================
