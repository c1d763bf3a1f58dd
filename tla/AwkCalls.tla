------------------------------ MODULE AwkCalls ------------------------------
(***************************************************************************)
(* Function calls: the types of arguments that are bare identifiers        *)
(* (fcall.c and the parts of parse.c that collect arguments).  Whether an  *)
(* identifier is an array may be known only later; until then its push     *)
(* instruction stands for a scalar and its call is on the resolve list.    *)
(***************************************************************************)
EXTENDS AwkCode

\* ST_LOCAL_VAR and ST_LOCAL_ARRAY are the types CA_EXPR and CA_ARRAY of arguments.
is_local(c, x) == x \in DOMAIN c.locals
LocalType(type) == CASE type = "NONE" -> "LOCAL_NONE" [] type = "VAR" -> "LOCAL_VAR" [] type = "ARRAY" -> "LOCAL_ARRAY"
TypeOf(c, x) == IF is_local(c, x) THEN LocalType(c.locals[x].type) ELSE c.syms[x]
Set(c, x, type) ==
    IF is_local(c, x)
    THEN [c EXCEPT !.locals[x].type = type, 
                          !.fns[c.active].typev[c.locals[x].offset + 1] = LocalType(type)]
    ELSE [c EXCEPT !.syms[x] = type]

\* check_var and check_array: the first use decides.
check_as(c, x, type) ==
    LET is == IF is_local(c, x) THEN c.locals[x].type ELSE c.syms[x]
    IN  IF is = "NONE" THEN Set(c, x, type) ELSE IF is = type THEN c ELSE Error(c)
check_var(c, x) == check_as(c, x, "VAR")
check_array(c, x) == check_as(c, x, "ARRAY")

\* The operand of an instruction about x: a frame offset or a name.
Operand(c, x) == IF is_local(c, x) THEN Num(c.locals[x].offset) ELSE Ptr(x)
Coded(c, x, global, local) == code2(c, IF is_local(c, x) THEN local ELSE global, Operand(c, x))

Argument(c, type, x) ==
    [type |-> type, off |-> Here(c), x |-> x, fn |-> c.active,
     slot |-> IF is_local(c, x) THEN c.locals[x].offset + 1 ELSE 0]
PushArgument(c, a) ==
    [c EXCEPT !.calls[1] = <<[type |-> a.type, off |-> a.off, x |-> a.x, fn |-> a.fn, slot |-> a.slot,
                              num |-> Len(@) + 1]>> \o @]

\* An argument that is an expression is filed with the offset behind its code.
arg_expr(c) == PushArgument(c, Argument(c, "LOCAL_VAR", ""))

\* code_call_id
code_call_id(c, x) ==
    LET type == TypeOf(c, x)
        As(t) == PushArgument(c, Argument(c, t, x))
    IN  CASE type \in {"VAR", "LOCAL_VAR"} -> Coded(As("LOCAL_VAR"), x, "_PUSHI", "L_PUSHI")
          [] type \in {"ARRAY", "LOCAL_ARRAY"} -> Coded(As("LOCAL_ARRAY"), x, "A_PUSHA", "LA_PUSHA")
          [] type = "NONE" -> code2(As("NONE"), "_PUSHI", Ptr("dummy"))
          [] type = "LOCAL_NONE" -> Coded(As("LOCAL_NONE"), x, "_PUSHI", "L_PUSHI")

-----------------------------------------------------------------------------
(* call_arg_check.  "where" is the block that holds the call, "" for the   *)
(* one being filled.                                                       *)

Repair(c, where, off, words) ==
    LET Into(code) == [o \in 1..Len(code) |-> IF o > off /\ o <= off + Len(words) THEN words[o - off] ELSE code[o]]
    IN  IF where = "" THEN [c EXCEPT !.code = Into(@)] ELSE [c EXCEPT !.blocks[where] = Into(@)]

\* The type an unknown argument can be given: by its own identifier, else by the callee.
Inferred(c, callee, a) ==
    LET own == IF a.type = "NONE" THEN c.syms[a.x] ELSE c.fns[a.fn].typev[a.slot]
    IN  IF own \in {"VAR", "LOCAL_VAR"} THEN "LOCAL_VAR"
        ELSE IF own \in {"ARRAY", "LOCAL_ARRAY"} THEN "LOCAL_ARRAY"
        ELSE c.fns[callee].typev[a.num]

Known(type) == type \in {"LOCAL_VAR", "LOCAL_ARRAY"}
\* The identifier takes the type, and its push instruction is rewritten.
Typed(c, where, a, type) ==
    LET array == type = "LOCAL_ARRAY"
        id == IF a.type = "NONE"
              THEN [c EXCEPT !.syms[a.x] = IF array THEN "ARRAY" ELSE "VAR"]
              ELSE [c EXCEPT !.fns[a.fn].typev[a.slot] = type]
    IN  IF a.type = "NONE"
        THEN Repair(id, where, a.off, <<Op(IF array THEN "A_PUSHA" ELSE "_PUSHI"), Ptr(a.x)>>)
        ELSE IF array THEN Repair(id, where, a.off, <<Op("LA_PUSHA")>>) ELSE id

\* One argument: [c, left, moved]; "left" are the arguments still unknown.
\* a variant: the type found is not passed on to the callee
ArgumentKept(s, callee, where, a) ==
    LET type == IF Known(a.type) THEN a.type ELSE Inferred(s.c, callee, a)
        c2 == IF Known(a.type) \/ ~Known(type) THEN s.c ELSE Typed(s.c, where, a, type)
    IN  IF ~Known(type) THEN [s EXCEPT !.left = <<a>> \o @]
        ELSE [c |-> c2, left |-> s.left, moved |-> TRUE]
ArgumentChecked(s, callee, where, a) ==
    LET type == IF Known(a.type) THEN a.type ELSE Inferred(s.c, callee, a)
        c2 == IF Known(a.type) \/ ~Known(type) THEN s.c ELSE Typed(s.c, where, a, type)
        formal == c2.fns[callee].typev[a.num]
    IN  IF ~Known(type) THEN [s EXCEPT !.left = <<a>> \o @]
        ELSE [c |-> IF formal = "LOCAL_NONE" THEN [c2 EXCEPT !.fns[callee].typev[a.num] = type]
                    ELSE IF formal # type THEN Error(c2) ELSE c2,
              left |-> s.left, moved |-> TRUE]

call_arg_check(c, callee, args, where) ==
    FoldLeft(LAMBDA s, a : ArgumentChecked(s, callee, where, a),
             [c |-> c, left |-> <<>>, moved |-> FALSE], args)

arg_cnt_ok(c, callee, args) == args[1].num <= c.fns[callee].nargs

\* check_fcall: with the callee defined, check now; what is left waits.
HasCode(c, f) == f \in DOMAIN c.blocks
check_fcall(c, callee, args) ==
    LET Waiting(c2, left, counted) ==
            [c2 EXCEPT !.resolve = <<[callee |-> callee, scope |-> c.scope, level |-> c.level, caller |-> c.active,
                                      args |-> left, counted |-> counted]>> \o @]
    IN  IF ~HasCode(c, callee) THEN Waiting(c, args, FALSE)
        ELSE IF args = <<>> THEN c
        ELSE IF ~arg_cnt_ok(c, callee, args) THEN Error(c)
        ELSE LET s == call_arg_check(c, callee, args, "")
             IN  IF s.left = <<>> THEN s.c ELSE Waiting(s.c, s.left, TRUE)

-----------------------------------------------------------------------------
(* resolve_fcalls, when everything has been parsed.                        *)

BlockOf(p) == IF p.scope = "FUNCT" THEN p.caller ELSE p.scope

first_pass(c) ==
    LET Undefined(p) == ~HasCode(c, p.callee)
        TooMany(p) == ~Undefined(p) /\ p.args # <<>> /\ ~p.counted /\ ~arg_cnt_ok(c, p.callee, p.args)
        Keep(p) == ~Undefined(p) /\ p.args # <<>> /\ ~TooMany(p)
        Bad == {i \in 1..Len(c.resolve) : Undefined(c.resolve[i]) \/ TooMany(c.resolve[i])}
    IN  [c EXCEPT !.resolve = SelectSeq(@, Keep), !.errors = @ + Cardinality(Bad)]

\* One call of the list; when the list is through, the calls left over become
\* the list again, as long as something was found out.
Resolvable(c) == c.resolve # <<>> \/ (c.retry # <<>> /\ c.progress)
\* a variant: the calls left over are tried until none is left
ResolveOneAgain(c) ==
    IF c.resolve = <<>> THEN [c EXCEPT !.resolve = c.retry, !.retry = <<>>, !.progress = FALSE]
    ELSE LET p == c.resolve[1]
             s == call_arg_check(c, p.callee, p.args, BlockOf(p))
         IN  IF s.left = <<>> THEN [s.c EXCEPT !.resolve = Tail(@), !.progress = TRUE]
             ELSE [s.c EXCEPT !.resolve = Tail(@), !.progress = TRUE,
                              !.retry = <<[p EXCEPT !.args = s.left]>> \o @]
ResolveOne(c) ==
    IF c.resolve = <<>> THEN [c EXCEPT !.resolve = c.retry, !.retry = <<>>, !.progress = FALSE]
    ELSE LET p == c.resolve[1]
             s == call_arg_check(c, p.callee, p.args, BlockOf(p))
         IN  IF s.left = <<>> THEN [s.c EXCEPT !.resolve = Tail(@), !.progress = TRUE]
             ELSE [s.c EXCEPT !.resolve = Tail(@), !.progress = @ \/ s.moved,
                              !.retry = <<[p EXCEPT !.args = s.left]>> \o @]

\* improve_arglist: the first parameter of which an earlier call, not resolved
\* yet, shows what it is takes that type.
Shown(c, f, i) ==
    {p \in 1..Len(c.resolve) : c.resolve[p].callee = f
        /\ \E a \in 1..Len(c.resolve[p].args) : c.resolve[p].args[a].num = i /\ Known(c.resolve[p].args[a].type)}
ShownType(c, f, i) ==
    LET p == c.resolve[CHOOSE q \in Shown(c, f, i) : \A r \in Shown(c, f, i) : q <= r]
    IN  (CHOOSE a \in ToSet(p.args) : a.num = i).type
improve_arglist(c, f) ==
    LET Improvable == {i \in 1..c.fns[f].nargs : Shown(c, f, i) # {}}
        first == CHOOSE i \in Improvable : \A j \in Improvable : i <= j
        type == ShownType(c, f, first)
    IN  IF Improvable = {} THEN c
        ELSE [c EXCEPT !.locals = [l \in DOMAIN @ |->
                  IF @[l].offset + 1 = first THEN [@[l] EXCEPT !.type = IF type = "LOCAL_ARRAY" THEN "ARRAY" ELSE "VAR"]
                  ELSE @[l]]]
=============================================================================
