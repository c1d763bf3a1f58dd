------------------------------ MODULE AwkParse ------------------------------
(***************************************************************************)
(* The productions and actions of the grammar, from PA_block to call_args. *)
(* Every statement and expression leaves the offset where its code begins  *)
(* on the parser's value stack c.vals (last on top).                       *)
(***************************************************************************)
EXTENDS AwkCalls

VARIABLES agenda,    \* what the parser has still to read and reduce
          c          \* the compiler's globals

Val(i) == c.vals[Len(c.vals) - i + 1]                 \* the i-th value from the top
Start(d) == [d EXCEPT !.vals = Append(@, Here(d))]    \* $$ = code_offset
Drop(d, n) == [d EXCEPT !.vals = SubSeq(@, 1, Len(@) - n)]

-----------------------------------------------------------------------------
(* The right hand sides.                                                   *)

Do(k) == R(k, "", 0)

\* An argument of a call that is a bare identifier is not an expression.
CallArgument(t) == IF t.k = "var" THEN <<R("call_id", t.x, 0)>> ELSE <<t, Do("arg_expr")>>

Optional(ts, none) == IF ts = <<>> THEN <<none>> ELSE ts
\* A list of statements: each but the first is joined to those before it.
Listed(ts) == FlattenSeq([i \in 1..Len(ts) |-> IF i = 1 THEN <<ts[i]>> ELSE <<ts[i], Do("join")>>])

Production(t) ==
    LET kid(i) == t.kids[i]
    IN  CASE t.k = "BEGIN" -> <<R("be_setup", "BEGIN", 0), kid(1), Do("to_main")>>
          [] t.k = "END" -> <<R("be_setup", "END", 0), kid(1), Do("to_main")>>
          [] t.k = "main" -> <<kid(1), Do("forget")>>
          [] t.k = "pattern" -> <<kid(1), Do("open_JZ"), kid(2), Do("patch"), Do("forget")>>
          [] t.k = "range" -> <<kid(1), Do("range_first"), kid(2), Do("STOP"), kid(3), Do("range_last")>>
          [] t.k = "function" -> <<R("funct_start", t.x, 0)>> \o kid(1).kids
                                 \o <<R("funct_body", t.x, 0), kid(2), R("function_def", t.x, 0)>>
          [] t.k = "block" -> IF t.kids = <<>> THEN <<Do("mark")>> ELSE Listed(t.kids)
          [] t.k = "expr" -> <<kid(1), Do("POP")>>
          [] t.k = "print" -> <<Do("mark")>> \o t.kids \o <<R("print_end", "", Len(t.kids))>>
          [] t.k = "if" -> <<kid(1), Do("open_JZ"), kid(2), Do("if_end")>>
          [] t.k = "ifelse" -> <<kid(1), Do("open_JZ"), kid(2), Do("open_JMP"), kid(3), Do("ifelse_end")>>
          [] t.k = "while" -> <<kid(1), Do("while_front"), kid(2), Do("while_end")>>
          [] t.k = "do" -> <<Do("BC_new"), kid(1), kid(2), Do("do_end")>>
          [] t.k = "for" -> Optional(kid(1).kids, Do("mark")) \o <<R("for1", "", Len(kid(1).kids))>>
                            \o Optional(kid(2).kids, Do("mark")) \o <<R("for2", "", Len(kid(2).kids))>>
                            \o Optional(kid(3).kids, Do("mark")) \o <<R("for3", "", Len(kid(3).kids))>>
                            \o <<kid(4), Do("for_end")>>
          [] t.k = "forin" -> <<R("array_loop_front", t.x, 0), R("array_loop_array", kid(1).x, 0), kid(2), Do("array_loop_end")>>
          [] t.k \in {"exit", "return"} -> IF t.kids = <<>> THEN <<R("leave0", t.k, 0)>> ELSE <<kid(1), R("leave", t.k, 0)>>
          [] t.k = "delete" -> <<Do("mark")>> \o t.kids \o <<R("delete_end", t.x, Len(t.kids))>>
          [] t.k = "assign" -> <<kid(1), kid(2), R("binary_end", t.x, 0)>>
          [] t.k = "binary" -> <<kid(1), kid(2), R("binary_end", t.x, 0)>>
          [] t.k = "unary" -> <<kid(1), R("unary_end", t.x, 0)>>
          [] t.k = "match" -> <<kid(1), kid(2), R("match_end", t.x, 0)>>
          [] t.k = "or" -> <<kid(1), R("test_open", "_LJNZ", 0), kid(2), Do("test_end")>>
          [] t.k = "and" -> <<kid(1), R("test_open", "_LJZ", 0), kid(2), Do("test_end")>>
          [] t.k = "cond" -> <<kid(1), Do("open_JZ"), kid(2), Do("open_JMP"), kid(3), Do("cond_end")>>
          [] t.k \in {"elem", "lelem"} ->
                 <<Do("mark")>> \o t.kids \o <<R(IF t.k = "elem" THEN "AE_PUSHI" ELSE "AE_PUSHA", t.x, Len(t.kids))>>
          [] t.k = "in" -> t.kids \o <<R("A_TEST", t.x, Len(t.kids))>>
          [] t.k = "call" -> <<Do("mark"), Do("ca_front")>> \o FlattenSeq([i \in 1..Len(t.kids) |-> CallArgument(kid(i))])
                             \o <<R("call_end", t.x, Len(t.kids))>>
Inner == {"BEGIN", "END", "main", "pattern", "range", "function", "block", "expr", "print", "if", "ifelse", "while", "do",
          "for", "forin", "exit", "return", "delete", "assign", "binary", "unary", "match", "or", "and", "cond",
          "elem", "lelem", "in", "call"}

\* The parser reads a tree; a leaf is reduced at once.
Shift == /\ agenda # <<>> /\ agenda[1].k \in Inner
         /\ agenda' = Production(agenda[1]) \o Tail(agenda)
         /\ UNCHANGED c
Reduce(k, d) == /\ agenda # <<>> /\ agenda[1].k = k
                /\ c' = d
                /\ agenda' = Tail(agenda)

-----------------------------------------------------------------------------
(* Patterns, blocks and functions.                                         *)

BeSetup == Reduce("be_setup", be_setup(c, agenda[1].x))
ToMain == Reduce("to_main", Drop(switch_code_to_main(c), 1))
Forget1 == Reduce("forget", Drop(c, 1))

\* "pattern," : the code of the pattern moves behind _RANGE and its four words.
RangeFirst ==
    LET p1 == Val(1)
        header == code2(Cut(code_push(c, p1), p1), "_RANGE", Num(1))
        padded == [header EXCEPT !.code = @ \o <<Num(0), Num(0), Num(0)>>, !.overrun = @ \/ Here(header) + 3 > header.limit]
        moved == code1(code_pop(padded), "_STOP")
    IN  Reduce("range_first", Patch(moved, p1 + 2, Here(moved) - (p1 + 1)))
Stop == Reduce("STOP", Drop(code1(c, "_STOP"), 1))
RangeLast ==
    LET p1 == Val(2)
    IN  Reduce("range_last", Drop(Patch(Patch(c, p1 + 3, Val(1) - (p1 + 1)), p1 + 4, Here(c) - (p1 + 1)), 2))

\* funct_head and f_arglist: the parameters hide the identifiers of their names.
FunctStart == Reduce("funct_start", [c EXCEPT !.fns = (agenda[1].x :> [nargs |-> 0, typev |-> <<>>]) @@ @,
                                              !.active = agenda[1].x])
Parameter == Reduce("param", [c EXCEPT !.locals = (agenda[1].x :> [type |-> "NONE", offset |-> Cardinality(DOMAIN @)]) @@ @,
                                       !.fns[c.active].nargs = @ + 1, !.fns[c.active].typev = Append(@, "LOCAL_NONE")])
FunctBody == LET saved == [Save(c, "MAIN") EXCEPT !.scope = "FUNCT", !.code = <<>>, !.limit = PAGESZ]
             IN  Reduce("funct_body", improve_arglist(saved, agenda[1].x))
FunctionDef ==
    LET closed == code2(c, "_RET0", Op("_HALT"))      \* resize_fblock
        restored == [Save(closed, agenda[1].x) EXCEPT !.locals = [l \in {} |-> [type |-> "NONE", offset |-> 0]]]
    IN  Reduce("function_def", Drop(switch_code_to_main(restored), 1))

-----------------------------------------------------------------------------
(* Statements.                                                             *)

Join == Reduce("join", Drop(c, 1))
Mark == Reduce("mark", Start(c))
Pop == Reduce("POP", code1(c, "_POP"))
Empty == Reduce("empty", Start(c))
Break == Reduce("break", code2(BC_insert(Start(c), "B", Here(c) + 1), "_JMP", Num(0)))
Continue == Reduce("continue", code2(BC_insert(Start(c), "C", Here(c) + 1), "_JMP", Num(0)))
OnlyInMain(d) == IF d.scope = "MAIN" THEN d ELSE Error(d)
Next1 == Reduce("next", code1(OnlyInMain(Start(c)), "_NEXT"))
Nextfile == Reduce("nextfile", code1(OnlyInMain(Start(c)), "_NEXTFILE"))
LeaveOp == IF agenda[1].x = "exit" THEN "_EXIT" ELSE "_RET"
ReturnHere(d) == IF agenda[1].x = "return" /\ d.scope # "FUNCT" THEN Error(d) ELSE d
Leave0 == Reduce("leave0", ReturnHere(code1(Start(c), IF agenda[1].x = "exit" THEN "_EXIT0" ELSE "_RET0")))
Leave == Reduce("leave", ReturnHere(code1(c, LeaveOp)))
Output == Reduce("print_end", Drop(code2(code2(c, "_PUSHINT", Num(agenda[1].n)), "_PRINT", Ptr("bi_print")), agenda[1].n))

OpenJZ == Reduce("open_JZ", code_jmp_open(c, "_JZ"))
OpenJMP == Reduce("open_JMP", code_jmp_open(c, "_JMP"))
PatchHere == Reduce("patch", Drop(patch_jmp(c, Here(c)), 1))
IfEnd == Reduce("if_end", Drop(patch_jmp(c, Here(c)), 1))
IfelseEnd == Reduce("ifelse_end", Drop(patch_jmp(patch_jmp(c, Here(c)), Val(1)), 2))
CondEnd == Reduce("cond_end", Drop(patch_jmp(patch_jmp(c, Here(c)), Val(1)), 2))

BCnew == Reduce("BC_new", BC_new(c))
DoEnd == Reduce("do_end", LET back == code_jmp(c, "_JNZ", Val(2)) IN Drop(BC_clear(back, Here(back), Val(1)), 1))

\* A test that is a constant other than 0 is not coded at all.
Always(d, from) == Here(d) - 2 = from /\ d.code[from + 1].op = "_PUSHD" /\ d.code[from + 2].n # 0
\* Otherwise it is set aside, and a jump to where it will be takes its place.
TestAside(d, from) ==
    IF Always(d, from) THEN Cut(d, from) ELSE code2(Cut(code_push(d, from), from), "_JMP", Num(0))
WhileFront == Reduce("while_front", TestAside(BC_new(c), Val(1)))
WhileEnd ==
    LET p1 == Val(2)
        p2 == Val(1)
        tested == code_jmp(code_pop(Patch(c, p1 + 1, Here(c) - (p1 + 1))), "_JNZ", p2)
        always == code_jmp(c, "_JMP", p1)
    IN  Reduce("while_end", Drop(IF p1 # p2 THEN BC_clear(tested, Here(tested), Here(c))
                                 ELSE BC_clear(always, Here(always), p2), 1))

For1 == Reduce("for1", IF agenda[1].n = 0 THEN c ELSE code1(c, "_POP"))
For2 == Reduce("for2", IF agenda[1].n = 0 THEN c ELSE TestAside(c, Val(1)))
For3 == LET marked == BC_new(c)
            popped == IF agenda[1].n = 0 THEN marked ELSE code1(marked, "_POP")
        IN  Reduce("for3", Drop(Cut(code_push(popped, Val(1)), Val(1)), 1))
\* The step comes behind the body, then the test.
ForEnd ==
    LET p2 == Val(2)
        p4 == Val(1)
        stepped == code_pop(c)
        tested == code_jmp(code_pop(Patch(stepped, p4 - 1, Here(stepped) - (p4 - 1))), "_JNZ", p4)
        always == code_jmp(stepped, "_JMP", p4)
    IN  Reduce("for_end", Drop(IF p2 # p4 THEN BC_clear(tested, Here(tested), Here(c))
                               ELSE BC_clear(always, Here(always), Here(c)), 2))
ArrayLoopFront == Reduce("array_loop_front",
    LET d == check_var(Start(BC_new(c)), agenda[1].x) IN Coded(d, agenda[1].x, "_PUSHA", "L_PUSHA"))
ArrayLoopArray == Reduce("array_loop_array",
    LET d == check_array(c, agenda[1].x) IN code2(Coded(d, agenda[1].x, "A_PUSHA", "LA_PUSHA"), "SET_ALOOP", Num(0)))
ArrayLoopEnd ==
    LET p2 == Val(1)
        set == Patch(c, p2 - 1, Here(c) - (p2 - 1))
    IN  Reduce("array_loop_end", Drop(code1(code_jmp(BC_clear(set, Here(c) + 2, Here(c)), "ALOOP", p2), "POP_AL"), 1))

\* Several subscripts are joined to one.
Subscripted(d, n) == IF n > 1 THEN code2(d, "A_CAT", Num(n)) ELSE d
Delete ==
    LET n == agenda[1].n
        d == check_array(Drop(Subscripted(c, n), n), agenda[1].x)
    IN  Reduce("delete_end", code1(Coded(d, agenda[1].x, "A_PUSHA", "LA_PUSHA"), IF n > 0 THEN "A_DEL" ELSE "DEL_A"))

-----------------------------------------------------------------------------
(* Expressions.                                                            *)

PushD == Reduce("num", code2(Start(c), "_PUSHD", Num(agenda[1].n)))
PushS == Reduce("str", code2(Start(c), "_PUSHS", Ptr(agenda[1].x)))
Match0 == Reduce("re", code2(Start(c), "_MATCH0", Ptr(agenda[1].x)))
Seen(d, x) == IF x = "NR" THEN [d EXCEPT !.NR_flag = TRUE] ELSE d      \* the scanner
PushI == Reduce("var", LET d == check_var(Seen(Start(c), agenda[1].x), agenda[1].x)
                       IN  Coded(d, agenda[1].x, "_PUSHI", "L_PUSHI"))
Lvalue == Reduce("lvar", LET d == check_var(Seen(Start(c), agenda[1].x), agenda[1].x)
                         IN  Coded(d, agenda[1].x, "_PUSHA", "L_PUSHA"))
Record == Reduce("rec", code2(Start(c), "_PUSHI", Ptr("$0")))          \* field_A2I
RecordLvalue == Reduce("lrec", code2(Start(c), "F_PUSHA", Ptr("$0")))
Element(k, global, local) ==
    LET n == agenda[1].n
    IN  Reduce(k, LET d == check_array(Drop(Subscripted(c, n), n), agenda[1].x) IN Coded(d, agenda[1].x, global, local))
ElementValue == Element("AE_PUSHI", "AE_PUSHI", "LAE_PUSHI")
ElementAddress == Element("AE_PUSHA", "AE_PUSHA", "LAE_PUSHA")
InArray ==
    LET n == agenda[1].n
        d == check_array(Drop(Subscripted(c, n), n - 1), agenda[1].x)
    IN  Reduce("A_TEST", code1(Coded(d, agenda[1].x, "A_PUSHA", "LA_PUSHA"), "A_TEST"))

Unary == Reduce("unary_end", code1(c, agenda[1].x))
Binary == Reduce("binary_end", Drop(code1(c, agenda[1].x), 1))
\* A pattern on the right that is written down is matched without being pushed.
Match ==
    LET p3 == Val(1)
        alone == p3 = Here(c) - 2
        op == c.code[p3 + 1].op
        d == IF alone /\ op \in {"_MATCH0", "_PUSHS"}
             THEN [c EXCEPT !.code[p3 + 1] = Op("_MATCH1")] ELSE code1(c, "_MATCH2")
    IN  Reduce("match_end", Drop(IF agenda[1].x = "!~" THEN code1(d, "_NOT") ELSE d, 1))
TestOpen == Reduce("test_open", code_jmp_open(code1(c, "_TEST"), agenda[1].x))
TestEnd == Reduce("test_end", LET d == code1(c, "_TEST") IN Drop(patch_jmp(d, Here(d)), 1))

\* length(x): what x is may not be known yet.
Length ==
    LET x == agenda[1].x
        d == Start(c)
        type == TypeOf(c, x)
        pushed == CASE type \in {"VAR", "LOCAL_VAR"} -> Coded(d, x, "_PUSHI", "L_PUSHI")
                    [] type \in {"ARRAY", "LOCAL_ARRAY"} -> Coded(d, x, "A_PUSHA", "LA_PUSHA")
                    [] type = "NONE" -> code2(d, "A_LENGTH", Ptr(x))
                    [] type = "LOCAL_NONE" -> code2(d, "_LENGTH", [Num(c.locals[x].offset) EXCEPT !.x = c.active])
    IN  Reduce("length", code2(pushed, "_BUILTIN", Ptr(IF type \in {"ARRAY", "LOCAL_ARRAY"} THEN "bi_alength" ELSE "bi_length")))
\* getline without redirection, into $0
Getline ==
    LET into == code2(Start(c), "F_PUSHA", Ptr("$0"))
    IN  Reduce("getline", code2(word1(code1(into, "_PUSHINT"), Num(0)), "_BUILTIN", Ptr("bi_getline")))

CaFront == Reduce("ca_front", [c EXCEPT !.calls = <<<<>>>> \o @])
CallId == Reduce("call_id", code_call_id(c, agenda[1].x))
ArgExpr == Reduce("arg_expr", Drop(arg_expr(c), 1))
Call ==
    LET f == agenda[1].x
        coded == code2(c, "_CALL", Ptr(f))
        counted == [word1(coded, Num(agenda[1].n)) EXCEPT !.calls = Tail(@)]
    IN  Reduce("call_end", check_fcall(counted, f, c.calls[1]))

-----------------------------------------------------------------------------
SetCode == Reduce("set_code", set_code(c))
FirstPass == Reduce("resolve", IF c.errors > 0 THEN c ELSE first_pass(c))
Resolve == /\ agenda = <<>> /\ c.errors = 0 /\ Resolvable(c)
           /\ c' = ResolveOne(c) /\ UNCHANGED agenda
Parsed == agenda = <<>> /\ ~(c.errors = 0 /\ Resolvable(c))

Patterns == BeSetup \/ ToMain \/ Forget1 \/ RangeFirst \/ Stop \/ RangeLast \/ FunctStart \/ Parameter \/ FunctBody \/ FunctionDef
Statements == Join \/ Mark \/ Pop \/ Empty \/ Break \/ Continue \/ Next1 \/ Nextfile \/ Leave0 \/ Leave \/ Output
              \/ OpenJZ \/ OpenJMP \/ PatchHere \/ IfEnd \/ IfelseEnd \/ CondEnd \/ BCnew \/ DoEnd
              \/ WhileFront \/ WhileEnd \/ For1 \/ For2 \/ For3 \/ ForEnd
              \/ ArrayLoopFront \/ ArrayLoopArray \/ ArrayLoopEnd \/ Delete
Expressions == PushD \/ PushS \/ Match0 \/ PushI \/ Lvalue \/ Record \/ RecordLvalue \/ ElementValue \/ ElementAddress
               \/ InArray \/ Unary \/ Binary \/ Match \/ TestOpen \/ TestEnd \/ Length \/ Getline
               \/ CaFront \/ CallId \/ ArgExpr \/ Call
ParseNext == Shift \/ Patterns \/ Statements \/ Expressions \/ SetCode \/ FirstPass \/ Resolve
=============================================================================
