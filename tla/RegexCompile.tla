---------------------------- MODULE RegexCompile ----------------------------
(***************************************************************************)
(* REcompile, rexp.c and rexp1.c: an operator precedence parser that keeps *)
(* a stack of operators and a stack of machines.  A machine is a sequence  *)
(* of states that ends with ACCEPT; jumps are relative.                    *)
(***************************************************************************)
EXTENDS RegexLex

VARIABLES text,      \* the regular expression
          lex,       \* the scanner's state
          token,     \* t, what RE_lex returned last
          m_stack,   \* the machines, the top last
          op_stack,  \* the operators [token, prec], the top last
          status     \* "compiling", "done", "error" or "panic"

compileVars == <<text, lex, token, m_stack, op_stack, status>>

-----------------------------------------------------------------------------
(* Building machines, rexp1.c.                                              *)
Jump(op, n) == [State(op) EXCEPT !.jump = n]

RE_cat(m, n) == Front(m) \o n
\* a variant: the first alternative jumps over the second and one state more
RE_or_long(m, n) == <<Jump("2JA", Len(m) + 1)>> \o Front(m) \o <<Jump("1J", Len(n) + 1)>> \o n
RE_or(m, n) == <<Jump("2JA", Len(m) + 1)>> \o Front(m) \o <<Jump("1J", Len(n))>> \o n
RE_close(m) == <<Jump("2JA", Len(m) + 2), State("SAVE_POS")>> \o Front(m)
                  \o <<Jump("2JC", -Len(m)), Accept>>
RE_poscl(m) == <<State("SAVE_POS")>> \o Front(m) \o <<Jump("2JC", -Len(m)), Accept>>
RE_01(m) == <<Jump("2JB", Len(m))>> \o m

\* The state that closes the loop whose SAVE_POS is at b: the loops in
\* between are the ones whose SAVE_POS and end both lie after b.
RECURSIVE LoopEnd(_, _, _)
LoopEnd(m, i, depth) ==
    LET d == CASE m[i].op = "SAVE_POS" -> depth + 1
               [] m[i].op \in {"2JC", "LOOP"} -> depth - 1
               [] OTHER -> depth
    IN  IF d = 0 THEN i ELSE LoopEnd(m, i + 1, d)

\* RE_set_limit: the loop that starts at b, which is the machine's first or
\* second state, becomes ENTER ... LOOP.  Loops inside it are not rewritten.
RE_set_limit(m, lo, hi) ==
    LET b    == IF m[1].op = "2JA" THEN 2 ELSE 1
        e    == LoopEnd(m, b, 0)
        loop == [m[e] EXCEPT !.op = "LOOP", !.lo = lo, !.hi = hi, !.enter = b - e - 1]
        over == IF b = 2 THEN <<[m[1] EXCEPT !.jump = @ + 1]>> ELSE <<>>
    IN  over \o <<Jump("ENTER", e - b + 1)>> \o SubSeq(m, b, e - 1) \o <<loop>>
             \o SubSeq(m, e + 1, Len(m))

\* The unrolled part of a machine of atoms stands before the loop, and a jump
\* around the loop between them.
RE_unrolled(atom, n, lo, hi) ==
    [k \in 1..n |-> atom] \o
    <<Jump("2JA", 5), Jump("ENTER", 3), State("SAVE_POS"), atom,
      [Jump("LOOP", -2) EXCEPT !.lo = lo, !.hi = hi, !.enter = -3], Accept>>

\* The interval applied to the machine on top; {0} and {0,0} are left out.
\* A machine is big when it has more than one state besides ACCEPT.
Repeat(m, lo, hi) ==
    CASE lo = 0 /\ hi = 1 -> RE_01(m)
      [] lo = 0 /\ hi # 1 -> RE_set_limit(RE_close(m), lo, hi)
      [] lo > 0 /\ (Len(m) > 2 \/ lo = 1) -> RE_set_limit(RE_poscl(m), lo, hi)
      [] OTHER -> IF lo = hi THEN [k \in 1..lo |-> m[1]] \o <<Accept>>
                  ELSE RE_unrolled(m[1], lo, 0, IF hi = MaxInt THEN hi ELSE hi - lo)

-----------------------------------------------------------------------------
(* The precedence table: what to do with token t when the operator on top   *)
(* is row.  "L" pushes t, "EQ" pushes the ")" of a "(", "G" reduces.        *)
\* a variant: alternation and concatenation bind alike
PrecFlat(row, t) ==
    IF row = "OR" /\ t = "CAT" THEN "G"
    ELSE CASE row = "NONE" -> IF t = "RP" THEN "ERR" ELSE "L"
           [] row = "LP"   -> IF t = "NONE" THEN "ERR" ELSE IF t = "RP" THEN "EQ" ELSE "L"
           [] row \in {"OR", "CAT"} -> IF t \in {"NONE", "OR", "CAT", "RP"} THEN "G" ELSE "L"
           [] OTHER        -> "G"
Prec(row, t) ==
    CASE row = "NONE" -> IF t = "RP" THEN "ERR" ELSE "L"
      [] row = "OR"   -> IF t \in {"NONE", "OR", "RP"} THEN "G" ELSE "L"
      [] row = "CAT"  -> IF t \in {"NONE", "OR", "CAT", "RP"} THEN "G" ELSE "L"
      [] row = "LP"   -> IF t = "NONE" THEN "ERR" ELSE IF t = "RP" THEN "EQ" ELSE "L"
      [] OTHER        -> IF t = "LP" THEN "PANIC" ELSE "G"

Apply(op, m, n) ==
    CASE op = "CAT"  -> RE_cat(m, n)
      [] op = "OR"   -> RE_or(m, n)
      [] op = "STAR" -> RE_close(m)
      [] op = "PLUS" -> RE_poscl(m)
      [] op = "Q"    -> RE_01(m)
      [] OTHER       -> m

\* The do-while loop of REcompile: operators are popped until the one below
\* was pushed with "L".  A CAT with a single machine left is dropped.
RECURSIVE PopOps(_, _)
PopOps(ms, ops) ==
    LET op     == Last(ops).token
        binary == op \in {"OR", "CAT"}
        empty  == op = "CAT" /\ Len(ms) = 1
        rest   == IF binary /\ ~empty THEN Front(ms) ELSE ms
        done   == IF empty THEN ms
                  ELSE Front(rest) \o <<Apply(op, Last(rest), Last(ms))>>
    IN  IF ~empty /\ rest = <<>> THEN [ms |-> ms, ops |-> ops, err |-> TRUE]
        ELSE IF ops[Len(ops) - 1].prec = "L" THEN [ms |-> done, ops |-> Front(ops), err |-> FALSE]
        ELSE PopOps(done, Front(ops))

-----------------------------------------------------------------------------
CompileInit(re) ==
    LET first == RE_lex(re, RE_lex_init)
    IN  /\ text = re
        /\ lex = first.x
        /\ token = first
        /\ m_stack = <<>>
        /\ op_stack = <<[token |-> "NONE", prec |-> ""]>>
        /\ status = IF re = <<>> THEN "done" ELSE IF first.err THEN "error" ELSE "compiling"

\* t = RE_lex(m_ptr + 1) at the end of a round, with the stacks as they are then.
Advance(ms, ops) ==
    LET next == RE_lex(text, lex)
    IN  /\ m_stack' = ms
        /\ op_stack' = ops
        /\ lex' = next.x
        /\ token' = next
        /\ status' = IF next.err THEN "error" ELSE status
        /\ UNCHANGED text

Operand ==
    /\ status = "compiling"
    /\ token.m # <<>>
    /\ Advance(Append(m_stack, token.m), op_stack)

Interval ==
    /\ status = "compiling"
    /\ token.tok = "RB"
    /\ m_stack # <<>>
    /\ token.hi > 0
    /\ Advance(Front(m_stack) \o <<Repeat(Last(m_stack), token.lo, token.hi)>>, op_stack)

IsOperator == token.m = <<>> /\ token.tok # "RB"
Finished == token.tok = "NONE" /\ Last(op_stack).token = "NONE"
Rule == Prec(Last(op_stack).token, token.tok)

EndOfExpression ==
    /\ status = "compiling"
    /\ Finished
    /\ status' = IF Len(m_stack) = 1 THEN "done" ELSE "panic"
    /\ UNCHANGED <<text, lex, token, m_stack, op_stack>>

Push ==
    /\ status = "compiling"
    /\ IsOperator /\ ~Finished
    /\ Rule \in {"L", "EQ"}
    /\ Advance(m_stack, Append([op_stack EXCEPT ![Len(op_stack)].prec = Rule],
                               [token |-> token.tok, prec |-> ""]))

Reduce ==
    /\ status = "compiling"
    /\ IsOperator /\ ~Finished
    /\ Rule = "G"
    /\ \E r \in {PopOps(m_stack, [op_stack EXCEPT ![Len(op_stack)].prec = "G"])} :
        /\ m_stack' = r.ms
        /\ op_stack' = r.ops
        /\ status' = IF r.err THEN "error" ELSE status
        /\ UNCHANGED <<text, lex, token>>

Refuse ==
    /\ status = "compiling"
    /\ IsOperator /\ ~Finished
    /\ Rule \in {"ERR", "PANIC"}
    /\ status' = IF Rule = "PANIC" THEN "panic" ELSE "error"
    /\ UNCHANGED <<text, lex, token, m_stack, op_stack>>

CompileNext == Operand \/ Interval \/ EndOfExpression \/ Push \/ Reduce \/ Refuse

\* The compiled machine; the empty expression is a lone ACCEPT.
Machine == IF text = <<>> THEN <<Accept>> ELSE m_stack[1]
=============================================================================
