----------------------------- MODULE AwkPrograms -----------------------------
(***************************************************************************)
(* The programs that are checked, as syntax trees.  A case names a family, *)
(* its members' choices and the records of the input.                      *)
(***************************************************************************)
EXTENDS AwkCode

CONSTANT Cases      \* the cases of this run

N(n) == Tree("num", "", n, <<>>)
S(x) == Tree("str", x, 0, <<>>)
Re(x) == Tree("re", x, 0, <<>>)
X(x) == Tree("var", x, 0, <<>>)
LX(x) == Tree("lvar", x, 0, <<>>)
Dollar == Tree("rec", "", 0, <<>>)
LDollar == Tree("lrec", "", 0, <<>>)
T(k, kids) == Tree(k, "", 0, kids)
El(a, keys) == Tree("elem", a, 0, keys)
LEl(a, keys) == Tree("lelem", a, 0, keys)
In(keys, a) == Tree("in", a, 0, keys)
Asg(op, place, e) == Tree("assign", op, 0, <<place, e>>)
Bin(op, e, f) == Tree("binary", op, 0, <<e, f>>)
Un(op, e) == Tree("unary", op, 0, <<e>>)
Call1(f, args) == Tree("call", f, 0, args)
Match2(op, e, f) == Tree("match", op, 0, <<e, f>>)
Length1(x) == Tree("length", x, 0, <<>>)
Getline1 == Tree("getline", "", 0, <<>>)

St(e) == T("expr", <<e>>)
Put2(es) == T("print", es)
Let(x, e) == St(Asg("_ASSIGN", LX(x), e))
Blk(ss) == T("block", ss)
Word(k) == T(k, <<>>)
If(e, s) == T("if", <<e, s>>)
Fun(f, params, ss) == Tree("function", f, 0, <<T("params", [i \in 1..Len(params) |-> R("param", params[i], 0)]), Blk(ss)>>)
For(e1, e2, e3, s) == T("for", <<T("opt", e1), T("opt", e2), T("opt", e3), s>>)
ForIn(x, a, s) == Tree("forin", x, 0, <<X(a), s>>)
Begin1(ss) == T("BEGIN", <<Blk(ss)>>)
End1(ss) == T("END", <<Blk(ss)>>)
Main1(ss) == T("main", <<Blk(ss)>>)

-----------------------------------------------------------------------------
(* Loops in loops, left at every place.                                    *)

LoopKinds == {"while", "do", "for", "forever", "always", "never", "forin"}
Bump(x) == Un("_POST_INC", LX(x))
OneLoop(k, x, body) ==
    LET out == If(Bin("_GT", X(x), N(1)), Word("break"))
    IN  CASE k = "while" -> T("while", <<Bin("_LT", Bump(x), N(2)), Blk(body)>>)
          [] k = "do" -> T("do", <<Blk(body), Bin("_LT", Un("_PRE_INC", LX(x)), N(2))>>)
          [] k = "for" -> For(<<Asg("_ASSIGN", LX(x), N(0))>>, <<Bin("_LT", X(x), N(2))>>, <<Bump(x)>>, Blk(body))
          [] k = "forever" -> For(<<>>, <<>>, <<Bump(x)>>, Blk(<<out>> \o body))
          [] k = "always" -> T("while", <<N(1), Blk(<<If(Bin("_GT", Bump(x), N(1)), Word("break"))>> \o body)>>)
          [] k = "never" -> For(<<Asg("_ASSIGN", LX(x), N(7))>>, <<N(0)>>, <<>>, Blk(body))
          [] k = "forin" -> ForIn(x, "A", Blk(body))
LoopCases == [family : {"loops"}, outer : LoopKinds, inner : LoopKinds, input : {<<>>},
              leave : {<<"empty", "break">>, <<"continue", "break">>, <<"break", "continue">>, <<"empty", "continue">>,
                       <<"continue", "exit">>}]
Leaving(e, k) == If(e, Word(k))
LoopProgram(d) ==
    <<Begin1(<<St(Asg("_ASSIGN", LEl("A", <<N(1)>>), N(1))), St(Asg("_ASSIGN", LEl("A", <<S("ab")>>), N(1))),
               OneLoop(d.outer, "i", <<Put2(<<X("i")>>), Let("j", N(0)),
                   OneLoop(d.inner, "j", <<Leaving(Bin("_EQ", X("j"), N(1)), d.leave[2]), Put2(<<X("i"), X("j")>>)>>),
                   Leaving(Bin("_EQ", X("i"), N(1)), d.leave[1]), Put2(<<S("x")>>)>>),
               Put2(<<S("x")>>)>>)>>

-----------------------------------------------------------------------------
(* Values: operators on operands of every type.  x is a copy of the record. *)

Operand1 == [two |-> N(2), none |-> S(""), mixed |-> S("2a"), unset |-> X("u"), record |-> Dollar, copy |-> X("x"),
             cell |-> El("A", <<N(1)>>), fresh |-> El("A", <<S("x"), X("u")>>)]
Pairs == {"_LT", "_EQ", "_CAT"}
One == [sub |-> Bin("_SUB", X("x"), N(5)), mul |-> Bin("_MUL", X("x"), Dollar), mod |-> Bin("_MOD", X("x"), N(2)),
        pow |-> Bin("_POW", N(2), X("n")), neq |-> Bin("_NEQ", X("x"), N(2)), lte |-> Bin("_LTE", Dollar, S("2a")),
        gt |-> Bin("_GT", Dollar, X("u")), gte |-> Bin("_GTE", El("A", <<N(1)>>), N(2)), not |-> Un("_NOT", Dollar),
        minus |-> Un("_UMINUS", X("x")), plus |-> Un("_UPLUS", El("A", <<N(1)>>)), predec |-> Un("_PRE_DEC", LX("x")),
        preinc |-> Un("_PRE_INC", LEl("A", <<N(1)>>)), postdec |-> Un("_POST_DEC", LEl("A", <<S("x")>>)),
        or |-> T("or", <<X("x"), X("u")>>), and |-> T("and", <<Dollar, S("0")>>),
        cond |-> T("cond", <<X("x"), S("ab"), Dollar>>), re |-> Re("a"), match |-> Match2("~", Dollar, Re("2a")),
        nomatch |-> Match2("!~", X("x"), S("2a")), dynamic |-> Match2("~", S("ab"), X("x")),
        again |-> Bin("_ADD", Match2("~", S("ab"), X("x")), Match2("~", X("x"), Bin("_CAT", Dollar, X("u")))),
        written |-> Bin("_ADD", Match2("~", Dollar, S("2a")), Match2("~", S("ab"), X("x"))),
        in |-> In(<<Dollar>>, "A"), in2 |-> In(<<S("x"), X("u")>>, "A"), len |-> Length1("x"), lenA |-> Length1("A"),
        lenlater |-> Length1("v"), lenBlater |-> Length1("B"), lennever |-> Length1("y"),
        copied |-> Asg("_ASSIGN", LX("v"), X("x")), moved |-> Asg("F_ASSIGN", LDollar, S("ab")),
        add |-> Asg("_ADD_ASG", LX("x"), Dollar), less |-> Asg("_SUB_ASG", LEl("A", <<N(1)>>), S("2a")),
        times |-> Asg("_MUL_ASG", LX("x"), N(2)), rest |-> Asg("_MOD_ASG", LX("x"), N(2)),
        raised |-> Asg("_POW_ASG", LX("x"), N(2)), sum |-> Bin("_ADD", X("x"), Dollar), numbered |-> Bin("_ADD", X("NR"), N(0)), getline |-> Getline1]
Records1 == {<<"2">>, <<"0">>, <<"2", "a">>, <<>>}
ValueCases == [family : {"pairs"}, op : Pairs, left : DOMAIN Operand1, right : DOMAIN Operand1, input : {<<<<"2">>>>, <<<<"2", "a">>>>}]
              \cup [family : {"one"}, op : DOMAIN One, input : {<<t, <<"x">>>> : t \in Records1}]
ValueProgram(e) ==
    <<Main1(<<Let("x", Dollar), St(Asg("_ASSIGN", LEl("A", <<N(1)>>), X("x"))), Put2(<<e>>),
              Put2(<<Dollar, X("x"), El("A", <<N(1)>>)>>), If(In(<<S("x"), X("u")>>, "A"), Put2(<<Length1("A")>>))>>),
      End1(<<Put2(<<X("v"), X("x")>>), Tree("delete", "A", 0, <<N(1)>>), Put2(<<Length1("A")>>),
             St(Asg("_ASSIGN", LEl("B", <<X("x")>>), X("v")))>>)>>

-----------------------------------------------------------------------------
(* Calls of functions defined before and after, with arguments that turn   *)
(* out to be arrays, scalars, both or neither.                             *)

Guarded(e) == If(Bin("_LT", Bump("n"), N(2)), St(e))
FBody(k, p) == CASE k = "scalar" -> <<Put2(<<X(p)>>)>>
                 [] k = "array" -> <<St(Asg("_ASSIGN", LEl(p, <<Bump("n")>>), S("ab"))), Put2(<<Length1(p)>>)>>
                 [] k = "length" -> <<Put2(<<Length1(p)>>)>>
                 [] k = "passes" -> <<Guarded(Call1("g", <<X(p)>>))>>
                 [] k = "back" -> <<Guarded(Call1("f", <<X(p)>>)), T("return", <<X("n")>>)>>
                 [] k = "local" -> <<Guarded(Call1("g", <<X("l")>>)), Put2(<<Length1("l")>>)>>
                 [] k = "nothing" -> <<Word("return")>>
Caller == [unknown |-> <<St(Call1("f", <<X("x")>>)), Put2(<<Length1("x")>>)>>,
           array |-> <<St(Call1("f", <<X("x")>>)), Put2(<<El("x", <<N(0)>>)>>)>>,
           scalar |-> <<Let("x", S("ab")), St(Call1("f", <<X("x")>>)), Put2(<<X("x")>>)>>,
           value |-> <<Put2(<<Call1("g", <<Call1("f", <<N(2)>>)>>)>>)>>,
           missing |-> <<St(Call1("f", <<>>)), St(Call1("f", <<X("y")>>)), Put2(<<Length1("y")>>)>>,
           many |-> <<St(Call1("g", <<X("x"), X("y")>>))>>,
           undefined |-> <<St(Call1("h", <<>>)), Put2(<<X("x")>>)>>]
CallCases == [family : {"calls"}, f : {"scalar", "array", "length", "passes", "local", "nothing"},
              g : {"scalar", "array", "length", "back", "nothing"}, b : DOMAIN Caller,
              order : {<<1, 2, 3>>, <<2, 3, 1>>, <<3, 1, 2>>}, input : {<<>>}]
CallProgram(d) ==
    LET parts == <<Begin1(Caller[d.b]), Fun("f", <<"p", "l">>, FBody(d.f, "p")), Fun("g", <<"q">>, FBody(d.g, "q"))>>
    IN  [i \in 1..3 |-> parts[d.order[i]]]

(* Calls whose code is moved, before it is known what is passed.           *)
Test1(p, array) == <<IF array THEN St(Asg("_ASSIGN", LEl(p, <<X("n")>>), N(1))) ELSE Put2(<<X(p)>>),
                     T("return", <<Bin("_LT", Bump("n"), N(3))>>)>>
Asked == [plain |-> Call1("f", <<X("x")>>), nested |-> Call1("g", <<Call1("f", <<X("x")>>)>>),
          two |-> Bin("_ADD", Call1("f", <<X("x")>>), Call1("f", <<X("y")>>)),
          mixed |-> Call1("f2", <<N(1), X("x")>>), inner |-> Call1("f2", <<Call1("f", <<X("y")>>), X("x")>>)]
Bounded(x, e) == T("and", <<Bin("_LT", Bump(x), N(2)), e>>)
Moved(k, e, body) ==
    CASE k = "test" -> <<T("while", <<Bounded("i", e), body>>)>>
      [] k = "step" -> <<For(<<Asg("_ASSIGN", LX("i"), N(0))>>, <<Bin("_LT", Bump("i"), N(2))>>, <<e>>, body)>>
      [] k = "both" -> <<For(<<e>>, <<Bounded("i", e)>>, <<e>>, body)>>
      [] k = "inner" -> <<For(<<>>, <<Bounded("i", Call1("f", <<X("v")>>))>>, <<Call1("f", <<X("v")>>)>>,
                              Blk(<<Let("j", N(0)), T("while", <<Bounded("j", e), body>>)>>))>>
MovedCases == [family : {"moved"}, in : {"BEGIN", "function", "range"}, place : {"test", "step", "both", "inner"},
               e : DOMAIN Asked, array : BOOLEAN, input : {<<<<"a">>, <<"b">>>>}]
MovedProgram(d) ==
    LET stmts == Moved(d.place, Asked[d.e], Blk(<<Put2(<<X("i")>>), St(Call1("f", <<X("x")>>))>>)) \o <<Put2(<<Length1("x")>>)>>
        fs == <<Fun("f", <<"p">>, Test1("p", d.array)), Fun("f2", <<"k", "p">>, Test1("p", d.array)),
                Fun("g", <<"k">>, <<T("return", <<X("k")>>)>>)>>
    IN  CASE d.in = "BEGIN" -> <<Begin1(stmts)>> \o fs
          [] d.in = "function" -> <<Begin1(<<St(Call1("h", <<X("y")>>))>>), Fun("h", <<"x">>, stmts)>> \o fs
          [] d.in = "range" -> <<T("range", <<Asked[d.e], Asked[d.e], Blk(stmts)>>)>> \o fs

-----------------------------------------------------------------------------
(* Rules, records and the ways to leave them; exit and return from loops   *)
(* over arrays, deep recursion.                                            *)

Inputs == {<<>>} \cup {<<a, <<"b">>, b>> : a \in {<<"a">>, <<"a", "b">>}, b \in {<<"a">>, <<"b">>, <<"a", "b">>}}
Ways == [none |-> Word("empty"), next |-> Word("next"), nextfile |-> Word("nextfile"), exit |-> Word("exit"),
         status |-> T("exit", <<S("2a")>>), read |-> Put2(<<Getline1, Dollar, X("NR")>>),
         loop |-> ForIn("x", "A", If(Bin("_EQ", X("x"), Dollar), Word("next")))]
RuleCases == [family : {"rules"}, way : DOMAIN Ways, pat : {"range", "pattern"}, begin : BOOLEAN, end : BOOLEAN,
              input : Inputs]
RuleProgram(d) ==
    (IF d.begin THEN <<Begin1(<<Put2(<<Getline1>>)>>)>> ELSE <<>>)
    \o <<Main1(<<St(Asg("_ASSIGN", LEl("A", <<Dollar>>), Bump("n")))>>),
         IF d.pat = "range" THEN T("range", <<Re("a"), Re("b"), Blk(<<Put2(<<>>), Ways[d.way], Put2(<<S("x")>>)>>)>>)
         ELSE T("pattern", <<Bin("_EQ", Dollar, S("b")), Blk(<<Ways[d.way]>>)>>),
         Main1(<<Put2(<<Length1("A")>>)>>)>>
    \o (IF d.end THEN <<End1(<<Put2(<<Dollar, X("n")>>), Word("exit")>>)>> ELSE <<>>)

\* A recursion through the elements of an array, left at depth d.at
Deep == [returns |-> T("return", <<X("k")>>), exits |-> T("exit", <<X("k")>>), deletes |-> Tree("delete", "A", 0, <<>>)]
DeepCases == [family : {"deep"}, depth : 0..4, at : 0..4, how : DOMAIN Deep, end : BOOLEAN, input : {<<>>}]
DeepProgram(d) ==
    <<Fun("f", <<"k", "p", "l">>,
          <<St(Asg("_ASSIGN", LEl("l", <<X("k")>>), Bin("_CAT", X("k"), S("x")))), Let("v", El("l", <<X("k")>>)),
            ForIn("x", "p", Blk(<<If(Bin("_EQ", X("k"), N(d.at)), Deep[d.how]),
                                  If(Bin("_GT", X("k"), N(0)), Blk(<<Put2(<<Call1("f", <<Bin("_SUB", X("k"), N(1)), X("l")>>), X("x")>>)>>))>>)),
            T("return", <<Bin("_CAT", X("v"), Length1("p"))>>)>>),
      Begin1(<<St(Asg("_ASSIGN", LEl("A", <<S("a")>>), S("ab"))), St(Asg("_ASSIGN", LEl("A", <<S("b")>>), El("A", <<S("a")>>))),
               Put2(<<Call1("f", <<N(d.depth), X("A")>>)>>), Put2(<<Length1("A")>>)>>)>>
    \o (IF d.end THEN <<End1(<<Put2(<<X("v"), Call1("f", <<N(0), X("A")>>)>>)>>)>> ELSE <<>>)

-----------------------------------------------------------------------------
ProgramCases == LoopCases \cup ValueCases \cup CallCases \cup MovedCases \cup RuleCases \cup DeepCases
Globals == {"i", "j", "n", "u", "v", "x", "y", "A", "B", "NR"}

Family(d) == CASE d.family = "loops" -> LoopProgram(d)
               [] d.family = "pairs" -> ValueProgram(IF d.op \in Pairs THEN Bin(d.op, Operand1[d.left], Operand1[d.right])
                                                     ELSE N(0))
               [] d.family = "one" -> ValueProgram(One[d.op])
               [] d.family = "calls" -> CallProgram(d)
               [] d.family = "moved" -> MovedProgram(d)
               [] d.family = "rules" -> RuleProgram(d)
               [] d.family = "deep" -> DeepProgram(d)
Agenda(d) == Family(d) \o <<R("set_code", "", 0), R("resolve", "", 0)>>
=============================================================================
