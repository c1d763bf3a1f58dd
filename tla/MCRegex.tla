------------------------------- MODULE MCRegex -------------------------------
(***************************************************************************)
(* Regular expressions compiled and run on small subjects.  The inputs are *)
(* syntax trees; a tree is written out as the text that REcompile reads,   *)
(* and Ends says what the tree means, without any machine.                 *)
(***************************************************************************)
EXTENDS RegexRun

CONSTANTS MaxLen       \* subjects are at most this long

MCAlphabet == <<"a", "b">>
MCNamed == [c \in {"[:alpha:]"} |-> {"a", "b"}]

Node(k, a, b, lo, hi) == [k |-> k, a |-> a, b |-> b, lo |-> lo, hi |-> hi]
Str(cs) == Node("str", cs, <<>>, 0, 0)
Leaf(k) == Node(k, <<>>, <<>>, 0, 0)
Cat(x, y) == Node("cat", x, y, 0, 0)
Alt(x, y) == Node("or", x, y, 0, 0)
Star(x) == Node("rep", x, "*", 0, MaxInt)
Plus(x) == Node("rep", x, "+", 1, MaxInt)
Opt(x) == Node("rep", x, "?", 0, 1)
Braces(x, lo, hi) == Node("rep", x, "{", lo, hi)

\* One-argument and two-argument constructors over lists of trees.
UnaryOf(xs) == LET n == Len(xs)
               IN  [i \in 1..3 * n |-> LET x == xs[((i - 1) % n) + 1]
                                       IN  CASE i <= n -> Star(x)
                                             [] i > n /\ i <= 2 * n -> Plus(x)
                                             [] OTHER -> Opt(x)]
BinaryOf(xs, ys) == LET n == Len(xs) * Len(ys)
                    IN  [i \in 1..2 * n |->
                            LET j == (i - 1) % n
                                x == xs[(j \div Len(ys)) + 1]
                                y == ys[(j % Len(ys)) + 1]
                            IN  IF i <= n THEN Cat(x, y) ELSE Alt(x, y)]

A == Str(<<"a">>)
AB == Str(<<"a", "b">>)
B == Str(<<"b">>)
Dot == Leaf("any")
Atoms == <<A, AB, Dot, Leaf("class")>>
Small == <<A, B, Dot>>
Loops == <<Star(A), Plus(B), Opt(AB), Star(Dot), Plus(Dot)>>
\* A counted repetition is of one character: of a group of several the machine
\* accepts too much (rexp2.c:232; README, section 5).
Plain == Atoms \o UnaryOf(Atoms) \o BinaryOf(Small, Small)
         \o UnaryOf(BinaryOf(Small, <<A, B>>) \o Loops)
         \o BinaryOf(Loops, <<A, AB, Opt(A)>>) \o BinaryOf(<<B, Dot>>, Loops) \o BinaryOf(Loops, Loops)
         \o BinaryOf(BinaryOf(<<A>>, <<B>>), <<AB, Star(A)>>)
         \o BinaryOf(<<Leaf("bol")>>, <<A, Star(AB), Alt(A, B)>>) \o BinaryOf(<<A, Star(B), Leaf("class")>>, <<Leaf("eol")>>)
         \o <<Alt(Alt(A, A), AB), Cat(Cat(Leaf("bol"), Star(Dot)), Leaf("eol")),
              Star(Alt(Cat(A, Leaf("eol")), B)), Cat(A, Star(Star(Cat(Opt(A), B)))),
              Braces(A, 2, 2), Braces(B, 1, 2), Braces(A, 0, 2), Cat(Braces(A, 2, MaxInt), B), Braces(Dot, 1, 3)>>

-----------------------------------------------------------------------------
(* Writing a tree out: 0 within an alternative, 1 within a concatenation, 2 *)
(* below a repetition.                                                      *)
InParens(need, t) == IF need THEN <<"(">> \o t \o <<")">> ELSE t
BraceText(lo, hi) ==
    <<"{", Digits[lo + 1]>>
    \o (IF hi = lo THEN <<>> ELSE IF hi = MaxInt THEN <<",">> ELSE <<",", Digits[hi + 1]>>)
    \o <<"}">>

RECURSIVE Text(_, _)
Text(x, level) ==
    CASE x.k = "str"   -> InParens(level = 2 /\ Len(x.a) > 1, x.a)
      [] x.k = "any"   -> <<".">>
      [] x.k = "class" -> <<"[", "^", "b", "]">>
      [] x.k = "bol"   -> <<"^">>
      [] x.k = "eol"   -> <<"$">>
      [] x.k = "cat"   -> InParens(level = 2, Text(x.a, 1) \o Text(x.b, 1))
      [] x.k = "or"    -> InParens(level > 0, Text(x.a, 0) \o <<"|">> \o Text(x.b, 0))
      [] OTHER         -> InParens(x.a.k = "rep", Text(x.a, 2)) \o (IF x.b = "{" THEN BraceText(x.lo, x.hi) ELSE <<x.b>>)

\* Texts that no tree writes: escapes, ranges, characters that are operators
\* elsewhere, the ends of strings, and texts that do not compile.
Odd(t, x) == [text |-> t, tree |-> x, ok |-> TRUE]
Bad(t) == [text |-> t, tree |-> A, ok |-> FALSE]
Special ==
    <<Odd(<<>>, Str(<<>>)), Odd(<<"\\", "a">>, A), Odd(<<"a", "\\", "b">>, AB),
      Odd(<<"[", "a", "-", "b", "]">>, Dot), Odd(<<"[", "[:alpha:]", "]", "$">>, Cat(Dot, Leaf("eol"))),
      Odd(<<"[", "]", "a", "]", "b">>, AB), Odd(<<"[", "\\", "a", "]">>, A),
      Odd(<<"[", "b", "-", "a", "]", "a">>, Cat(Dot, A)),
      Odd(<<"^", "$">>, Cat(Leaf("bol"), Leaf("eol"))),
      Odd(<<"a", "b", "$", "|", "b">>, Alt(Cat(AB, Leaf("eol")), B)),
      Odd(<<"a", "|", "b", "{", "|", "b">>, Alt(Alt(A, Str(<<"b", "{">>)), B)),
      Odd(<<"a", "|", "b", "}", ")">>, Alt(A, Str(<<"b", "}", ")">>))),
      Odd(<<"a", "{", ",", "2", "}", "b">>, Cat(Braces(A, 0, 2), B)),
      Odd(<<"b", ".", "$">>, Cat(Cat(B, Dot), Leaf("eol"))),
      Bad(<<"(", "a">>), Bad(<<"a", "|">>), Bad(<<"^", "*">>), Bad(<<"[", "a">>),
      Bad(<<"a", "{", "}">>), Bad(<<"a", "{", "2", ",", "1", "}">>), Bad(<<"(", ")">>)>>

Listed(xs) == [i \in 1..Len(xs) |-> Odd(Text(xs[i], 0), xs[i])]
Entries == Listed(Plain) \o Special

-----------------------------------------------------------------------------
(* What a tree means: the positions at which a match from p can end.        *)
RECURSIVE Ends(_, _, _), Rounds(_, _, _, _, _)
Ends(x, str, p) ==
    CASE x.k = "str"   -> IF OccursAt(x.a, str, p) THEN {p + Len(x.a)} ELSE {}
      [] x.k = "any"   -> IF p < Len(str) THEN {p + 1} ELSE {}
      [] x.k = "class" -> IF p < Len(str) /\ str[p + 1] # "b" THEN {p + 1} ELSE {}
      [] x.k = "bol"   -> IF p = 0 /\ ~call.no_bol THEN {p} ELSE {}
      [] x.k = "eol"   -> IF p = Len(str) THEN {p} ELSE {}
      [] x.k = "cat"   -> UNION {Ends(x.b, str, q) : q \in Ends(x.a, str, p)}
      [] x.k = "or"    -> Ends(x.a, str, p) \cup Ends(x.b, str, p)
      [] OTHER         -> Rounds(x, str, {p}, 0, IF x.lo = 0 THEN {p} ELSE {})
Rounds(x, str, from, n, acc) ==
    LET next == UNION {Ends(x.a, str, q) : q \in from}
        more == IF n + 1 >= x.lo THEN acc \cup next ELSE acc
    IN  IF n >= x.hi \/ n > x.lo + Len(str) + 1 THEN acc
        ELSE Rounds(x, str, next, n + 1, more)

Subjects == UNION {[1..n -> {"a", "b"}] : n \in 0..MaxLen}

VARIABLE tree         \* which of Entries
MCInit == \E i \in 1..Len(Entries) :
            /\ tree = i
            /\ CompileInit(Entries[i].text)
            /\ RunInit
Compile == CompileNext /\ UNCHANGED <<runVars, tree>>
\* A test, and then a search of the same subject with the stacks it left.
Test == /\ call.fn = "none"
        /\ \E str \in Subjects : Call("REtest", str, FALSE)
        /\ UNCHANGED tree
Match == /\ call.fn = "REtest"
         /\ \E bol \in BOOLEAN : Call("REmatch", call.subject, bol)
         /\ UNCHANGED tree
Step == RunStep /\ UNCHANGED tree
MCNext == Compile \/ Test \/ Match \/ Step
vars == <<regexVars, tree>>
MCSpec == MCInit /\ [][MCNext]_vars /\ WF_vars(Compile) /\ WF_vars(Step)

-----------------------------------------------------------------------------
Answered == pc = "returned" /\ call.fn # "none"
EndsAt(p) == Ends(Entries[tree].tree, call.subject, p)
Matched == \E p \in 0..StrEnd : EndsAt(p) # {}

TypeOK ==
    /\ status \in {"compiling", "done", "error", "panic"}
    /\ pc \in {"switch", "refill", "returned"}
    /\ s \in 0..StrEnd + 1 /\ u \in BOOLEAN /\ pt \in 0..PosCap
    /\ ss \in NoPos..StrEnd /\ cb.ss \in NoPos..StrEnd /\ cb.e \in NoPos..StrEnd
    /\ status = "done" => m \in 1..Len(Machine)
    /\ pos \in [0..PosCap -> [pos : Int, owner : Int, prev : Nat]]

\* REtest says yes exactly when some part of the subject matches.
TestIsMembership == Answered /\ call.fn = "REtest" => (result.found <=> Matched)

\* What REmatch returns is a match, and it finds one whenever there is one.
MatchIsAMatch == Answered /\ call.fn = "REmatch" =>
    /\ result.found <=> Matched
    /\ result.found => result.at + result.len \in EndsAt(result.at)

\* It is the first one and the longest there, but for a search that met its best
\* match twice and stopped.
LongestUnlessRepeated == Answered /\ call.fn = "REmatch" /\ result.found /\ ~repeated =>
    /\ \A p \in 0..result.at - 1 : EndsAt(p) = {}
    /\ \A e \in EndsAt(result.at) : e <= result.at + result.len

\* REmatch "returns start of first longest match and the length by reference"
\* (rexp3.c).
MatchIsRight == MatchIsAMatch /\ LongestUnlessRepeated

\* The position popped at the end of a round is where this thread's round began.
PopsOwnPosition == pc = "switch" /\ here.op = "2JC" =>
    ~Unbalanced /\ open # <<>> /\ pos[Prev2].pos = Last(open)

\* Every expression compiles unless it is malformed, to one machine whose
\* jumps stay inside; and what runs it stays inside the machine, the subject and
\* the stacks.
Compiles ==
    /\ status \in {"compiling", IF Entries[tree].ok THEN "done" ELSE "error"}
    /\ status = "done" => \A k \in 1..Len(Machine) :
         Machine[k].op \in {"1J", "2JA", "2JB", "2JC", "LOOP", "ENTER"} =>
            k + Machine[k].jump \in 1..Len(Machine)
MachineConsistent == TypeOK /\ Compiles

\* Compiling and running come to an end, whatever the loops.
Terminates == <>[](status # "compiling" /\ pc = "returned")
=============================================================================
