----------------------------- MODULE AwkMeaning -----------------------------
(***************************************************************************)
(* What a program means, without code, stack or references: the effect of  *)
(* every tree, defined on the trees, and the types its identifiers must    *)
(* have.  This is the specification of AwkParse and AwkExec together.      *)
(***************************************************************************)
EXTENDS AwkCell

CONSTANT Texts

V(t, n, x) == [t |-> t, n |-> n, x |-> x]
None == V("none", 0, <<>>)
Number(n) == V("num", n, <<>>)
Str(x) == V("str", 0, x)
FromOutside(x) ==      \* input and the keys of arrays may be numbers
    IF LooksNumeric(x) THEN V("strnum", Strtod(x), x) ELSE Str(x)
ToNumber(v) == IF v.t = "str" THEN Strtod(v.x) ELSE v.n
ToText(v) == IF v.t = "num" THEN Decimal(v.n) ELSE v.x
Holds0(v) == IF v.t = "str" THEN v.x # <<>> ELSE v.n # 0
Compare(v, w) ==
    IF "str" \in {v.t, w.t} THEN Sign(Before(ToText(v), ToText(w)), Before(ToText(w), ToText(v)))
    ELSE Sign(ToNumber(v) < ToNumber(w), ToNumber(v) > ToNumber(w))
Bool(b) == Number(IF b THEN 1 ELSE 0)

-----------------------------------------------------------------------------
(* Types.  An identifier is written <<function, name>>, <<"", name>> for a *)
(* global one.                                                             *)

Functions1(prog) == {prog[i] : i \in {j \in 1..Len(prog) : prog[j].k = "function"}}
Params(fn) == [i \in 1..Len(fn.kids[1].kids) |-> fn.kids[1].kids[i].x]
RECURSIVE Nodes(_)
Nodes(t) == {t} \cup UNION {Nodes(t.kids[i]) : i \in 1..Len(t.kids)}
Scopes(prog) == [f \in {fn.x : fn \in Functions1(prog)} |-> Params(CHOOSE fn \in Functions1(prog) : fn.x = f)]
Id(scopes, f, x) == IF f # "" /\ \E i \in 1..Len(scopes[f]) : scopes[f][i] = x THEN <<f, x>> ELSE <<"", x>>
\* All nodes with the function they stand in.
Placed(prog) == UNION {{<<IF prog[i].k = "function" THEN prog[i].x ELSE "", t>> : t \in Nodes(prog[i])} : i \in 1..Len(prog)}

Passing(scopes, t) == 1..(IF t.x \in DOMAIN scopes /\ Len(t.kids) <= Len(scopes[t.x]) THEN Len(t.kids) ELSE 0)
UsedAs(prog, array) ==
    LET scopes == Scopes(prog)
        Of(f, t) == IF array
                    THEN IF t.k \in {"elem", "lelem", "in", "delete"} THEN {Id(scopes, f, t.x)}
                         ELSE IF t.k = "forin" THEN {Id(scopes, f, t.kids[1].x)} ELSE {}
                    ELSE IF t.k \in {"lvar", "forin"} THEN {Id(scopes, f, t.x)}
                         ELSE IF t.k = "call"
                         THEN {<<t.x, scopes[t.x][i]>> : i \in {j \in Passing(scopes, t) : t.kids[j].k # "var"}}
                         ELSE \* the identifiers read by this node, unless it is a call
                              {Id(scopes, f, t.kids[i].x) : i \in {j \in 1..Len(t.kids) : t.kids[j].k = "var" /\ t.k # "forin"}}
    IN  UNION {Of(p[1], p[2]) : p \in Placed(prog)}
Passed(prog) ==
    LET scopes == Scopes(prog)
    IN  UNION {{{Id(scopes, p[1], p[2].kids[i].x), <<p[2].x, scopes[p[2].x][i]>>} :
                    i \in {j \in Passing(scopes, p[2]) : p[2].k = "call" /\ p[2].kids[j].k = "var"}} : p \in Placed(prog)}
RECURSIVE Closed(_, _)
Closed(ids, pairs) ==
    LET more == ids \cup UNION {p \in pairs : p \cap ids # {}} IN IF more = ids THEN ids ELSE Closed(more, pairs)
ArrayIds(prog) == Closed(UsedAs(prog, TRUE), Passed(prog))
ScalarIds(prog) == Closed(UsedAs(prog, FALSE), Passed(prog))
\* Statements that need a loop, a function or a pattern around them.
RECURSIVE Stray(_, _)
Stray(t, allowed) ==
    \/ t.k \in {"break", "continue", "next", "nextfile", "return"} \ allowed
    \/ \E i \in 1..Len(t.kids) :
          Stray(t.kids[i], allowed \cup (CASE t.k \in {"while", "do", "for", "forin"} -> {"break", "continue"}
                                          [] t.k \in {"main", "pattern", "range"} -> {"next", "nextfile"}
                                          [] t.k = "function" -> {"return"} [] OTHER -> {}))
BadCall(scopes, t) == t.k = "call" /\ (t.x \notin DOMAIN scopes \/ Len(t.kids) > Len(scopes[t.x]))
WellFormed(prog) ==
    /\ ArrayIds(prog) \cap ScalarIds(prog) = {}
    /\ \A i \in 1..Len(prog) : ~Stray(prog[i], {})
    /\ \A p \in Placed(prog) : ~BadCall(Scopes(prog), p[2])

-----------------------------------------------------------------------------
(* Expressions.  r is the world: globals g, arrays a, the identifiers of   *)
(* the function that runs l, output, input and the program itself.         *)

Res(v, r) == [v |-> v, r |-> r]
Done(sig, v, r) == [sig |-> sig, v |-> v, r |-> r]

ArrayId(r, x) == IF x \in DOMAIN r.l THEN r.l[x].at ELSE <<"", x>>
IsArray(r, x) == (IF x \in DOMAIN r.l THEN <<r.fn, x>> ELSE <<"", x>>) \in r.arrs
Get(r, x) == IF x \in DOMAIN r.l THEN r.l[x].v ELSE IF x \in DOMAIN r.g THEN r.g[x] ELSE None
Put1(r, x, v) == IF x \in DOMAIN r.l THEN [r EXCEPT !.l[x].v = v] ELSE [r EXCEPT !.g = (x :> v) @@ @]
Arr(r, at) == IF at \in DOMAIN r.a THEN r.a[at] ELSE [k \in {} |-> None]
Cell1(r, at, key) == IF key \in DOMAIN Arr(r, at) THEN Arr(r, at)[key] ELSE None
PutCell(r, at, key, v) == [r EXCEPT !.a = (at :> ((key :> v) @@ Arr(r, at))) @@ @]

Math(op, x, y) == CASE op = "+" -> x + y [] op = "-" -> x - y [] op = "*" -> x * y [] op = "%" -> x % y
                    [] op = "^" -> IF y = 0 THEN 1 ELSE x ^ y
OpOf == [o \in {"_ADD", "_ADD_ASG"} |-> "+"] @@ [o \in {"_SUB", "_SUB_ASG"} |-> "-"] @@ [o \in {"_MUL", "_MUL_ASG"} |-> "*"]
        @@ [o \in {"_MOD", "_MOD_ASG"} |-> "%"] @@ [o \in {"_POW", "_POW_ASG"} |-> "^"]
Relation1(op, s) == CASE op = "_EQ" -> s = 0 [] op = "_NEQ" -> s # 0 [] op = "_LT" -> s < 0
                      [] op = "_LTE" -> s <= 0 [] op = "_GT" -> s > 0 [] op = "_GTE" -> s >= 0
In(text, re) == \E i \in 0..(Len(text) - Len(re)) : SubSeq(text, i + 1, i + Len(re)) = re
RECURSIVE JoinTexts(_)
JoinTexts(ts) == IF Len(ts) = 1 THEN ts[1] ELSE ts[1] \o <<",">> \o JoinTexts(Tail(ts))
RECURSIVE Sorted(_)
Sorted(keys) == IF keys = {} THEN <<>>
                ELSE LET k == CHOOSE x \in keys : \A y \in keys \ {x} : Before(x, y) IN <<k>> \o Sorted(keys \ {k})

NextRecord(r) == [r EXCEPT !.g = ("$0" :> FromOutside(r.input[1])) @@ ("NR" :> Number(ToNumber(Get(r, "NR")) + 1)) @@ @,
                           !.input = Tail(@)]

\* The one recursion: what tree or list x does in world r.
RECURSIVE Run(_, _, _)
Eval(t, r) == Run("expression", t, r)
EvalAll(ts, r) == Run("expressions", ts, r)
Exec(t, r) == Run("statement", t, r)
ExecAll(ts, r) == Run("statements", ts, r)
Loop(t, r) == Run("loop", t, r)
Each(t, keys, r) == Run("each", <<t, keys>>, r)

Expressions1(ts, r) ==
    IF ts = <<>> THEN Res(<<>>, r)
    ELSE LET first == Eval(ts[1], r)
             rest == EvalAll(Tail(ts), first.r)
         IN  Res(<<first.v>> \o rest.v, rest.r)
Key(vs) == JoinTexts([i \in 1..Len(vs) |-> ToText(vs[i])])

\* An lvalue is evaluated to a place: <<"", name>> or <<array, key>>.
Place(t, r) == IF t.k = "lvar" THEN Res(<<>>, r) ELSE IF t.k = "lrec" THEN Res(<<>>, r)
               ELSE LET ks == EvalAll(t.kids, r)
                        at == ArrayId(ks.r, t.x)
                    IN  Res(Key(ks.v), PutCell(ks.r, at, Key(ks.v), Cell1(ks.r, at, Key(ks.v))))
NameOf(t) == IF t.k = "lrec" THEN "$0" ELSE t.x
GetAt(t, key, r) == IF t.k = "lelem" THEN Cell1(r, ArrayId(r, t.x), key) ELSE Get(r, NameOf(t))
PutAt(t, key, r, v) == IF t.k = "lelem" THEN PutCell(r, ArrayId(r, t.x), key, v) ELSE Put1(r, NameOf(t), v)

\* A call: arrays go by name, the rest by value; then locals start empty.
Invoke(f, t, r) ==
    LET fn == r.fns[f]
        ByName(i) == i <= Len(t.kids) /\ <<f, fn.params[i]>> \in r.arrs
        values == EvalAll([i \in 1..Len(t.kids) |-> IF ByName(i) THEN [t.kids[i] EXCEPT !.k = "nothing"] ELSE t.kids[i]], r)
        Binding(i) == IF ByName(i) THEN [v |-> None, at |-> ArrayId(r, t.kids[i].x)]
                      ELSE [v |-> IF i <= Len(t.kids) THEN values.v[i] ELSE None, at |-> <<"local", r.fresh + i>>]
        inside == [values.r EXCEPT !.l = [x \in ToSet(fn.params) |-> Binding(CHOOSE i \in 1..Len(fn.params) : fn.params[i] = x)],
                                   !.fn = f, !.fresh = @ + Len(fn.params)]
        end == Exec(fn.body, inside)
    IN  [sig |-> IF end.sig = "exit" THEN "exit" ELSE "ok", v |-> IF end.sig = "return" THEN end.v ELSE None,
         r |-> [end.r EXCEPT !.l = r.l, !.fn = r.fn, !.stopped = @ \/ end.sig = "exit"]]

Expression1(t, r) ==
    LET kid(i) == t.kids[i]
        one == Eval(kid(1), r)
        two == Eval(kid(2), one.r)
    IN  CASE r.stopped -> Res(None, r)          \* a function has left the program
          [] t.k = "num" -> Res(Number(t.n), r)
          [] t.k = "str" -> Res(Str(Texts[t.x]), r)
          [] t.k = "nothing" -> Res(None, r)
          [] t.k = "var" -> Res(Get(r, t.x), r)
          [] t.k = "rec" -> Res(Get(r, "$0"), r)
          [] t.k = "re" -> Res(Bool(In(ToText(Get(r, "$0")), Texts[t.x])), r)
          [] t.k = "elem" -> LET ks == EvalAll(t.kids, r)
                                 at == ArrayId(ks.r, t.x)
                             IN  Res(Cell1(ks.r, at, Key(ks.v)), PutCell(ks.r, at, Key(ks.v), Cell1(ks.r, at, Key(ks.v))))
          [] t.k = "in" -> LET ks == EvalAll(t.kids, r) IN Res(Bool(Key(ks.v) \in DOMAIN Arr(ks.r, ArrayId(ks.r, t.x))), ks.r)
          [] t.k = "assign" -> LET p == Place(kid(1), r)
                                   e == Eval(kid(2), p.r)
                                   old == ToNumber(GetAt(kid(1), p.v, e.r))
                                   v == IF t.x \in {"_ASSIGN", "F_ASSIGN"} THEN e.v ELSE Number(Math(OpOf[t.x], old, ToNumber(e.v)))
                               IN  IF e.r.stopped THEN e ELSE Res(v, PutAt(kid(1), p.v, e.r, v))
          [] t.k = "unary" /\ t.x \in {"_POST_INC", "_POST_DEC", "_PRE_INC", "_PRE_DEC"} ->
                 LET p == Place(kid(1), r)
                     old == ToNumber(GetAt(kid(1), p.v, p.r))
                     new == IF t.x \in {"_POST_INC", "_PRE_INC"} THEN old + 1 ELSE old - 1
                 IN  Res(Number(IF t.x \in {"_POST_INC", "_POST_DEC"} THEN old ELSE new), PutAt(kid(1), p.v, p.r, Number(new)))
          [] t.k = "unary" /\ t.x = "_NOT" -> Res(Bool(~Holds0(one.v)), one.r)
          [] t.k = "unary" /\ t.x = "_UMINUS" -> Res(Number(-ToNumber(one.v)), one.r)
          [] t.k = "unary" /\ t.x = "_UPLUS" -> Res(Number(ToNumber(one.v)), one.r)
          [] t.k = "binary" -> IF t.x = "_CAT" THEN Res(Str(ToText(one.v) \o ToText(two.v)), two.r)
                               ELSE IF t.x \in DOMAIN OpOf THEN Res(Number(Math(OpOf[t.x], ToNumber(one.v), ToNumber(two.v))), two.r)
                               ELSE Res(Bool(Relation1(t.x, Compare(one.v, two.v))), two.r)
          [] t.k = "match" -> LET alone == kid(2).k \in {"re", "str"}
                                  re == IF alone THEN Texts[kid(2).x] ELSE ToText(two.v)
                                  b == In(ToText(one.v), re)
                              IN  Res(Bool(IF t.x = "!~" THEN ~b ELSE b), IF alone THEN one.r ELSE two.r)
          [] t.k = "or" -> IF Holds0(one.v) THEN Res(Bool(TRUE), one.r) ELSE Res(Bool(Holds0(two.v)), two.r)
          [] t.k = "and" -> IF Holds0(one.v) THEN Res(Bool(Holds0(two.v)), two.r) ELSE Res(Bool(FALSE), one.r)
          [] t.k = "cond" -> IF Holds0(one.v) THEN two ELSE Eval(kid(3), one.r)
          [] t.k = "length" -> Res(Number(IF IsArray(r, t.x) THEN Cardinality(DOMAIN Arr(r, ArrayId(r, t.x)))
                                          ELSE Len(ToText(Get(r, t.x)))), r)
          [] t.k = "getline" -> IF r.input = <<>> THEN Res(Number(0), r) ELSE Res(Number(1), NextRecord(r))
          [] t.k = "call" -> LET i == Invoke(t.x, t, r) IN Res(i.v, i.r)

-----------------------------------------------------------------------------
(* Statements end with a signal: ok, or how they leave what is around them. *)

After(e, s) == IF e.r.stopped THEN Done("exit", None, e.r) ELSE s
Statements1(ts, r) ==
    IF ts = <<>> THEN Done("ok", None, r)
    ELSE LET first == Exec(ts[1], r) IN IF first.sig = "ok" THEN ExecAll(Tail(ts), first.r) ELSE first
\* for and while: test, body, step
Loop1(t, r) ==
    LET test == IF t.kids[2].kids = <<>> THEN Res(Number(1), r) ELSE Eval(t.kids[2].kids[1], r)
        body == Exec(t.kids[4], test.r)
        step == IF t.kids[3].kids = <<>> THEN Res(None, body.r) ELSE Eval(t.kids[3].kids[1], body.r)
    IN  IF test.r.stopped THEN Done("exit", None, test.r)
        ELSE IF ~Holds0(test.v) THEN Done("ok", None, test.r)
        ELSE IF body.sig = "break" THEN Done("ok", None, body.r)
        ELSE IF body.sig \notin {"ok", "continue"} THEN body
        ELSE After(step, Loop(t, step.r))
Each1(t, keys, r) ==
    IF keys = <<>> THEN Done("ok", None, r)
    ELSE LET body == Exec(t.kids[2], Put1(r, t.x, FromOutside(keys[1])))
         IN  IF body.sig = "break" THEN Done("ok", None, body.r)
             ELSE IF body.sig \notin {"ok", "continue"} THEN body ELSE Each(t, Tail(keys), body.r)

Statement1(t, r) ==
    LET kid(i) == t.kids[i]
        one == Eval(kid(1), r)
    IN  CASE t.k = "block" -> ExecAll(t.kids, r)
          [] t.k = "empty" -> Done("ok", None, r)
          [] t.k \in {"break", "continue", "next"} -> Done(t.k, None, r)
          [] t.k = "nextfile" -> Done("next", None, [r EXCEPT !.input = <<>>])
          [] t.k = "expr" -> After(one, Done("ok", None, one.r))
          [] t.k = "print" -> LET vs == EvalAll(t.kids, r)
                                  line == IF t.kids = <<>> THEN <<ToText(Get(r, "$0"))>> ELSE [i \in 1..Len(vs.v) |-> ToText(vs.v[i])]
                              IN  After(vs, Done("ok", None, [vs.r EXCEPT !.out = Append(@, line)]))
          [] t.k = "if" -> After(one, IF Holds0(one.v) THEN Exec(kid(2), one.r) ELSE Done("ok", None, one.r))
          [] t.k = "ifelse" -> After(one, IF Holds0(one.v) THEN Exec(kid(2), one.r) ELSE Exec(kid(3), one.r))
          [] t.k = "while" -> Loop([t EXCEPT !.kids = <<[kid(1) EXCEPT !.kids = <<>>], [kid(1) EXCEPT !.kids = <<kid(1)>>],
                                                        [kid(1) EXCEPT !.kids = <<>>], kid(2)>>], r)
          [] t.k = "do" -> LET body == Exec(kid(1), r)
                               test == Eval(kid(2), body.r)
                           IN  IF body.sig = "break" THEN Done("ok", None, body.r)
                               ELSE IF body.sig \notin {"ok", "continue"} THEN body
                               ELSE After(test, IF Holds0(test.v) THEN Exec(t, test.r) ELSE Done("ok", None, test.r))
          [] t.k = "for" -> LET init == IF kid(1).kids = <<>> THEN Res(None, r) ELSE Eval(kid(1).kids[1], r)
                            IN  After(init, Loop(t, init.r))
          [] t.k = "forin" -> Each(t, Sorted(DOMAIN Arr(r, ArrayId(r, kid(1).x))), r)
          [] t.k = "delete" -> LET ks == EvalAll(t.kids, r)
                                   at == ArrayId(ks.r, t.x)
                                   gone == IF t.kids = <<>> THEN DOMAIN Arr(ks.r, at) ELSE {Key(ks.v)}
                               IN  Done("ok", None, [ks.r EXCEPT !.a = (at :> [k \in DOMAIN Arr(ks.r, at) \ gone |-> Arr(ks.r, at)[k]]) @@ @])
          [] t.k = "return" -> IF t.kids = <<>> THEN Done("return", None, r) ELSE After(one, Done("return", one.v, one.r))
          [] t.k = "exit" -> IF t.kids = <<>> THEN Done("exit", None, [r EXCEPT !.stopped = TRUE])
                             ELSE After(one, Done("exit", None, [one.r EXCEPT !.stopped = TRUE, !.code = ToNumber(one.v)]))

-----------------------------------------------------------------------------
(* Programs: BEGIN, then every pattern for every record, then END.         *)

Blocks(prog, kind) == [i \in 1..Len(SelectSeq(prog, LAMBDA t : t.k = kind)) |-> SelectSeq(prog, LAMBDA t : t.k = kind)[i].kids[1]]
Rules(prog) == SelectSeq(prog, LAMBDA t : t.k \in {"main", "pattern", "range"})

ApplyRules(rules, i, r) == Run("rules", <<rules, i>>, r)
Rules1(rules, i, r) ==
    IF i > Len(rules) THEN Done("ok", None, r)
    ELSE LET t == rules[i]
             first == Eval(t.kids[1], r)
             Go(s) == IF s.sig = "ok" THEN ApplyRules(rules, i + 1, s.r) ELSE s
             Ending(w) == LET last == Eval(t.kids[2], w)
                        IN  After(last, Go(Exec(t.kids[3], [last.r EXCEPT !.inside = IF Holds0(last.v) THEN @ \ {i} ELSE @ \cup {i}])))
         IN  CASE t.k = "main" -> Go(Exec(t.kids[1], r))
               [] t.k = "pattern" -> After(first, IF Holds0(first.v) THEN Go(Exec(t.kids[2], first.r)) ELSE ApplyRules(rules, i + 1, first.r))
               [] t.k = "range" -> IF i \in r.inside THEN Ending(r)
                                   ELSE After(first, IF Holds0(first.v) THEN Ending(first.r) ELSE ApplyRules(rules, i + 1, first.r))
Records1(rules, r) ==
    IF r.input = <<>> THEN Done("ok", None, r)
    ELSE LET s == ApplyRules(rules, 1, NextRecord(r)) IN IF s.sig = "exit" THEN s ELSE Run("records", rules, s.r)
Whole(prog, r) ==
    LET ends == Blocks(prog, "END")
        begun == ExecAll(Blocks(prog, "BEGIN"), r)
        read == IF begun.sig = "exit" \/ (Rules(prog) = <<>> /\ ends = <<>>) THEN begun ELSE Run("records", Rules(prog), begun.r)
    IN  ExecAll(ends, [read.r EXCEPT !.stopped = FALSE])

Run(what, x, r) ==
    CASE what = "expression" -> Expression1(x, r)
      [] what = "expressions" -> Expressions1(x, r)
      [] what = "statement" -> Statement1(x, r)
      [] what = "statements" -> Statements1(x, r)
      [] what = "loop" -> Loop1(x, r)
      [] what = "each" -> Each1(x[1], x[2], r)
      [] what = "rules" -> Rules1(x[1], x[2], r)
      [] what = "records" -> Records1(x, r)
      [] what = "program" -> Whole(x, r)

Meaning(prog, input) ==
    LET fns == [f \in DOMAIN Scopes(prog) |->
                   [params |-> Scopes(prog)[f], body |-> (CHOOSE fn \in Functions1(prog) : fn.x = f).kids[2]]]
        r0 == [g |-> [x \in {} |-> None], a |-> [x \in {} |-> 0], l |-> [x \in {} |-> 0], fn |-> "", out |-> <<>>, input |-> input,
               code |-> 0, stopped |-> FALSE, inside |-> {}, fresh |-> 0, fns |-> fns, arrs |-> ArrayIds(prog)]
    IN  Run("program", prog, r0).r
=============================================================================
