------------------------------- MODULE AwkExec -------------------------------
(***************************************************************************)
(* The stack machine of execute.c, running the blocks that AwkParse built. *)
(* m holds the statics and locals of execute() and all it can reach.  A    *)
(* nested call of execute() pushes the caller's locals on m.frames.  Stack *)
(* addresses are integers: a block of the evaluation stack starts at a     *)
(* multiple of BLOCK, the first one (the static eval_stack) at 0, and      *)
(* blocks from zmalloc lie above it.  m.stk has the cells up to sp.        *)
(***************************************************************************)
EXTENDS AwkParse, AwkCell

CONSTANTS STACK,      \* EVAL_STACK_SIZE
          DANGER,     \* offset from which a call changes stacks
          Texts       \* the string constants and regular expressions: name -> text

BLOCK == 100
ASSUME StackAssumption == STACK \in 1..BLOCK /\ DANGER \in 1..STACK

VARIABLE m

-----------------------------------------------------------------------------
(* The machine's state.                                                    *)

Var(x) == <<"var", x>>
Local(i) == <<"local", i>>
ElementAt(arr, key, stamp) == <<"element", arr, key, stamp>>

\* Constants of the code own a reference each.
ConstantHeap(names) ==
    LET order == SetToSeq(names)
    IN  [i \in 1..Len(order) |-> [text |-> Texts[order[i]], cnt |-> 1, lost |-> 0]]
ConstantOf(names) == [x \in names |-> CHOOSE i \in 1..Cardinality(names) : SetToSeq(names)[i] = x]
Strings(code) == UNION {{code[b][o + 1].x : o \in {p \in 1..Len(code[b]) - 1 : code[b][p].op = "_PUSHS"}} : b \in DOMAIN code}

Start0(d, input) ==
    LET first == IF "BEGIN" \in DOMAIN d.blocks THEN "BEGIN" ELSE "MAIN"
        strs == {x \in Strings(d.blocks) : Texts[x] # <<>>}
    IN  [b |-> first, o |-> 0, sp |-> -1, fp |-> -1, aloop |-> <<>>, oldBase |-> -1, oldSp |-> -1,
         base |-> 0, danger |-> DANGER, blocks |-> 0, over |-> FALSE,
         stk |-> [a \in {} |-> Noinit], frames |-> <<>>,
         code |-> d.blocks, has |-> {"BEGIN", "MAIN", "END"} \cap DOMAIN d.blocks, restart |-> -1,
         heap |-> ConstantHeap(strs), consts |-> ConstantOf(strs),
         vars |-> [x \in DOMAIN d.syms \cup {"$0", "NR"} |-> Noinit],
         arrays |-> [a \in {Var(x) : x \in {y \in DOMAIN d.syms : d.syms[y] = "ARRAY"}} |-> [k \in {} |-> 0]],
         res |-> {}, stamp |-> 0, input |-> input, out |-> <<>>, exit_code |-> 0, bozo |-> "", wild |-> FALSE, status |-> "run"]

W(s) == s.code[s.b][s.o + 1]
Arg(s, i) == s.code[s.b][s.o + 1 + i]
To(s, k) == [s EXCEPT !.o = @ + k]            \* past the instruction's words
Jump(s) == [s EXCEPT !.o = @ + 1 + Arg(s, 1).n]

Top(s) == s.stk[s.sp]
Below(s, i) == s.stk[s.sp - i]
Put(s, a, cell) == [s EXCEPT !.stk = (a :> cell) @@ @]
Push(s, cell) ==
    [Put(s, s.sp + 1, cell) EXCEPT !.sp = @ + 1, !.over = @ \/ (s.sp + 1) % BLOCK >= STACK]
Pops(s, n) == [s EXCEPT !.sp = @ - n, !.stk = [a \in DOMAIN @ \ (s.sp - n + 1)..s.sp |-> @[a]]]
SetHeap(s, h) == [s EXCEPT !.heap = h]
Replace(s, r) == SetHeap(Put(s, s.sp, r.c), r.h)           \* the top cell by a cast of it
Destroy(s, cell) == SetHeap(s, cell_destroy(s.heap, cell))
PushCopy(s, cell) == Push(SetHeap(s, cellcpy(s.heap, cell).h), cell)
Result(s, n, cell) == Push(Pops(s, n), cell)

\* The cell at an address, and storing one there.  An element that has been
\* deleted since its address was taken is no cell any more.
Alive(s, at) == at[1] = "element" => at[3] \in DOMAIN s.arrays[at[2]] /\ s.arrays[at[2]][at[3]].stamp = at[4]
At(s, at) == CASE at[1] = "var" -> s.vars[at[2]]
               [] at[1] = "local" -> s.stk[at[2]]
               [] at[1] = "element" -> IF Alive(s, at) THEN s.arrays[at[2]][at[3]].cell ELSE Noinit
Store(s, at, cell) ==
    CASE at[1] = "var" -> [s EXCEPT !.vars[at[2]] = cell]
      [] at[1] = "local" -> [s EXCEPT !.stk[at[2]] = cell]
      [] at[1] = "element" -> IF Alive(s, at) THEN [s EXCEPT !.arrays[at[2]][at[3]].cell = cell] ELSE [s EXCEPT !.wild = TRUE]

-----------------------------------------------------------------------------
(* Arrays as far as the machine sees them: AwkArray is their specification. *)

KeyOf(h, cell) == CASE cell.t = "NOINIT" -> <<>>
                    [] cell.t = "DOUBLE" -> Decimal(cell.n)
                    [] OTHER -> TextOf(h, cell.s)
array_find(s, arr, key) ==      \* CREATE
    IF key \in DOMAIN s.arrays[arr] THEN s
    ELSE [s EXCEPT !.arrays[arr] = (key :> [cell |-> Noinit, stamp |-> s.stamp + 1]) @@ @, !.stamp = @ + 1]
RECURSIVE Ordered(_)
Ordered(keys) == IF keys = {} THEN <<>>
                 ELSE LET k == CHOOSE x \in keys : \A y \in keys \ {x} : Before(x, y) IN <<k>> \o Ordered(keys \ {k})
Without(arr, keys) == [k \in DOMAIN arr \ keys |-> arr[k]]
RECURSIVE DestroyAll(_, _)
DestroyAll(h, cells) == IF cells = <<>> THEN h ELSE DestroyAll(cell_destroy(h, cells[1]), Tail(cells))
CellsOf(arr, keys) == LET order == Ordered(keys) IN [i \in 1..Len(order) |-> arr[order[i]].cell]
array_delete(s, arr, keys) ==
    [SetHeap(s, DestroyAll(s.heap, CellsOf(s.arrays[arr], keys))) EXCEPT !.arrays[arr] = Without(@, keys)]
array_clear(s, arr) == array_delete(s, arr, DOMAIN s.arrays[arr])

RECURSIVE Loaded(_, _)
\* array_loop_vector, in the order that WHINY_USERS asks for.  The strings of the
\* keys are the array's; what the vector holds of each is counted here as one.
Loaded(h, keys) == IF keys = <<>> THEN [v |-> <<>>, h |-> h]
                   ELSE LET new == NewString(h, keys[1])
                            rest == Loaded(new.h, Tail(keys))
                        IN  [v |-> <<new.s>> \o rest.v, h |-> rest.h]

-----------------------------------------------------------------------------
(* Instructions.  Each takes the machine at the instruction to the machine *)
(* behind it.                                                              *)

PUSHD(s) == To(Push(s, Double(Arg(s, 1).n)), 2)
PUSHS(s) == LET id == IF Texts[Arg(s, 1).x] = <<>> THEN NullStr ELSE s.consts[Arg(s, 1).x] IN To(PushCopy(s, StringCell(id)), 2)
PUSHINT(s) == To(Push(s, Count(Arg(s, 1).n)), 2)
PUSHA(s) == To(Push(s, Address(Var(Arg(s, 1).x))), 2)
PUSHI(s) == To(PushCopy(s, IF Arg(s, 1).x \in {"dummy", "missing"} THEN Noinit ELSE s.vars[Arg(s, 1).x]), 2)
L_PUSHA(s) == To(Push(s, Address(Local(s.fp + Arg(s, 1).n))), 2)
L_PUSHI(s) == To(PushCopy(s, s.stk[s.fp + Arg(s, 1).n]), 2)
A_PUSHA(s) == To(Push(s, ArrayCell(Var(Arg(s, 1).x))), 2)
LA_PUSHA(s) == To(Push(s, s.stk[s.fp + Arg(s, 1).n]), 2)

\* The array that an element instruction is about.
ArrayOf(s) == IF W(s).op \in {"AE_PUSHA", "AE_PUSHI"} THEN Var(Arg(s, 1).x) ELSE s.stk[s.fp + Arg(s, 1).n].at
AE_PUSHA(s) ==
    LET arr == ArrayOf(s)
        key == KeyOf(s.heap, Top(s))
        found == array_find(Destroy(s, Top(s)), arr, key)
    IN  To(Put(found, s.sp, Address(ElementAt(arr, key, found.arrays[arr][key].stamp))), 2)
AE_PUSHI(s) ==
    LET arr == ArrayOf(s)
        key == KeyOf(s.heap, Top(s))
        found == array_find(Destroy(s, Top(s)), arr, key)
    IN  To(PushCopy(Pops(found, 1), found.arrays[arr][key].cell), 2)
A_TEST(s) == To(Result(Destroy(s, Below(s, 1)), 2, Flag(KeyOf(s.heap, Below(s, 1)) \in DOMAIN s.arrays[Top(s).at])), 1)
A_DEL(s) == To(Pops(Destroy(array_delete(s, Top(s).at, {KeyOf(s.heap, Below(s, 1))} \cap DOMAIN s.arrays[Top(s).at]),
                            Below(s, 1)), 2), 1)
DEL_A(s) == To(Pops(array_clear(s, Top(s).at), 1), 1)

RECURSIVE Joined(_, _)
Joined(texts, sep) == IF Len(texts) = 1 THEN texts[1] ELSE texts[1] \o sep \o Joined(Tail(texts), sep)
A_CAT(s) ==
    LET n == Arg(s, 1).n
        cells == [i \in 1..n |-> Below(s, n - i)]
        new == NewString(DestroyAll(s.heap, cells), Joined([i \in 1..n |-> KeyOf(s.heap, cells[i])], <<",">>))
    IN  To(SetHeap(Result(s, n, StringCell(new.s)), new.h), 2)

\* for (x in A): the keys are copied when the loop is entered.
SET_ALOOP(s) ==
    LET vec == Loaded(s.heap, Ordered(DOMAIN s.arrays[Top(s).at]))
    IN  Jump(SetHeap(Pops([s EXCEPT !.aloop = <<[var |-> Below(s, 1).at, left |-> vec.v]>> \o @], 2), vec.h))
ALOOP(s) ==
    IF s.aloop # <<>> /\ s.aloop[1].left # <<>>
    THEN LET var == s.aloop[1].var
         IN  Jump([Store(Destroy(s, At(s, var)), var, Mbstrn(s.aloop[1].left[1])) EXCEPT !.aloop[1].left = Tail(@)])
    ELSE To(s, 2)
RECURSIVE FreeVector(_, _)
FreeVector(h, v) == IF v = <<>> THEN h ELSE FreeVector(free_STRING(h, v[1]), Tail(v))
\* a variant: the keys that were not used are kept
POP_AL_KEEPING(s) == IF s.aloop = <<>> THEN To(s, 1) ELSE To([s EXCEPT !.aloop = Tail(@)], 1)
POP_AL(s) ==
    IF s.aloop = <<>> THEN To(s, 1)
    ELSE To([SetHeap(s, FreeVector(s.heap, s.aloop[1].left)) EXCEPT !.aloop = Tail(@)], 1)
CLEAR_ALOOP_STACK(s) ==
    [SetHeap(s, FreeVector(s.heap, FlattenSeq([i \in 1..Len(s.aloop) |-> s.aloop[i].left]))) EXCEPT !.aloop = <<>>]

POP(s) == To(Pops(Destroy(s, Top(s)), 1), 1)
\* _ASSIGN, and F_ASSIGN for $0
ASSIGN(s) ==
    LET at == Below(s, 1).at
        value == check_strnum(s.heap, Top(s))
        stored == Store(Destroy(s, At(s, at)), at, value)
    IN  To(SetHeap(Result(stored, 2, value), cellcpy(stored.heap, value).h), 1)

Power(x, y) == IF y = 0 THEN 1 ELSE x ^ y
Compute(op, x, y) == CASE op \in {"_ADD", "_ADD_ASG"} -> x + y
                       [] op \in {"_SUB", "_SUB_ASG"} -> x - y
                       [] op \in {"_MUL", "_MUL_ASG"} -> x * y
                       [] op \in {"_MOD", "_MOD_ASG"} -> x % y
                       [] op \in {"_POW", "_POW_ASG"} -> Power(x, y)
OP_ASG(s) ==
    LET at == Below(s, 1).at
        right == cast1_to_d(s.heap, Top(s))
        left == cast1_to_d(right.h, At(s, at))
        value == Double(Compute(W(s).op, left.c.n, right.c.n))
    IN  To(Result(SetHeap(Store(s, at, value), left.h), 2, value), 1)
ARITH(s) ==
    LET left == cast1_to_d(s.heap, Below(s, 1))
        right == cast1_to_d(left.h, Top(s))
    IN  To(Result(SetHeap(s, right.h), 2, Double(Compute(W(s).op, left.c.n, right.c.n))), 1)
CREMENT(s) ==
    LET at == Top(s).at
        old == cast1_to_d(s.heap, At(s, at))
        new == old.c.n + (IF W(s).op \in {"_POST_INC", "_PRE_INC"} THEN 1 ELSE -1)
    IN  To(Result(SetHeap(Store(s, at, Double(new)), old.h), 1,
                  Double(IF W(s).op \in {"_POST_INC", "_POST_DEC"} THEN old.c.n ELSE new)), 1)
UMINUS(s) ==
    LET d == cast1_to_d(s.heap, Top(s)) IN To(Replace(s, [d EXCEPT !.c.n = IF W(s).op = "_UMINUS" THEN -@ ELSE @]), 1)
TEST(s) ==
    LET t == Truth(s.heap, Top(s))
    IN  To(Put(Destroy(s, Top(s)), s.sp, Flag(IF W(s).op = "_NOT" THEN ~t ELSE t)), 1)
CAT(s) ==
    LET left == cast1_to_s(s.heap, Below(s, 1))
        right == cast1_to_s(left.h, Top(s))
        new == NewString(right.h, TextOf(right.h, left.c.s) \o TextOf(right.h, right.c.s))
    IN  To(SetHeap(Result(s, 2, StringCell(new.s)), free_STRING(free_STRING(new.h, left.c.s), right.c.s)), 1)
Holds(op, sign) == CASE op = "_EQ" -> sign = 0 [] op = "_NEQ" -> sign # 0 [] op = "_LT" -> sign < 0
                     [] op = "_LTE" -> sign <= 0 [] op = "_GT" -> sign > 0 [] op = "_GTE" -> sign >= 0
COMPARE(s) ==
    LET r == CompareCells(s.heap, Below(s, 1), Top(s))
    IN  To(Result(SetHeap(s, r.h), 2, Flag(Holds(W(s).op, r.sign))), 1)

\* A regular expression is a literal text here.
Occurs(text, re) == \E i \in 0..(Len(text) - Len(re)) : SubSeq(text, i + 1, i + Len(re)) = re
MATCH0(s) ==
    LET subject == cast1_to_s(cellcpy(s.heap, s.vars["$0"]).h, s.vars["$0"])
    IN  To(Push(SetHeap(s, free_STRING(subject.h, subject.c.s)), Flag(Occurs(TextOf(subject.h, subject.c.s), Texts[Arg(s, 1).x]))), 2)
MATCH1(s) ==
    LET subject == cast1_to_s(s.heap, Top(s))
    IN  To(Put(SetHeap(s, free_STRING(subject.h, subject.c.s)), s.sp, Flag(Occurs(TextOf(subject.h, subject.c.s), Texts[Arg(s, 1).x]))), 2)
\* The patterns of the text, which the scanner has compiled.
Literals(code) ==
    UNION {{Texts[code[b][o + 1].x] : o \in {p \in 1..Len(code[b]) - 1 : code[b][p].op \in {"_MATCH0", "_MATCH1"}}} :
           b \in DOMAIN code}
\* re_compile keeps the string of a pattern that is not on its list, for good.
re_compile(s, h, str) ==
    IF TextOf(h, str) \in Literals(s.code) \cup {TextOf(h, r) : r \in s.res} THEN [h |-> h, res |-> s.res]
    ELSE [h |-> RefString(h, str), res |-> s.res \cup {str}]
MATCH2(s) ==
    LET re == cast1_to_s(s.heap, Top(s))
        compiled == re_compile(s, re.h, re.c.s)
        subject == cast1_to_s(free_STRING(compiled.h, re.c.s), Below(s, 1))
    IN  To([Result(SetHeap(s, free_STRING(subject.h, subject.c.s)), 2,
                   Flag(Occurs(TextOf(subject.h, subject.c.s), TextOf(re.h, re.c.s)))) EXCEPT !.res = compiled.res], 1)

-----------------------------------------------------------------------------
(* Builtins: print, length and getline from the main input.                *)

PRINT(s) ==     \* bi_print: without arguments, $0
    LET n == Top(s).n
        cells == IF n = 0 THEN <<s.vars["$0"]>> ELSE [i \in 1..n |-> Below(s, n + 1 - i)]
        line == [i \in 1..Len(cells) |-> KeyOf(s.heap, cells[i])]
    IN  To([Pops(IF n = 0 THEN s ELSE SetHeap(s, DestroyAll(s.heap, cells)), n + 1) EXCEPT !.out = Append(@, line)], 2)
bi_length(s) ==
    LET str == cast1_to_s(s.heap, Top(s))
    IN  To(Put(SetHeap(s, free_STRING(str.h, str.c.s)), s.sp, Double(Len(TextOf(str.h, str.c.s)))), 2)
bi_alength(s) == To(Put(s, s.sp, Double(Cardinality(DOMAIN s.arrays[Top(s).at]))), 2)

\* A record from the main input, as it is stored into $0.
Read(s) == LET text == s.input[1]
               new == NewString(s.heap, text)
           IN  [SetHeap(s, cell_destroy(new.h, s.vars["$0"]))
                EXCEPT !.vars["$0"] = IF text = <<>> THEN StringCell(NullStr) ELSE Mbstrn(new.s), !.input = Tail(@)]
CountNR(s) == LET nr == cast1_to_d(s.heap, s.vars["NR"])
              IN  [SetHeap(s, nr.h) EXCEPT !.vars["NR"] = Double(nr.c.n + 1)]
bi_getline(s) ==
    IF s.input = <<>> THEN To(Result(s, 2, Double(0)), 2)
    ELSE To(Result(CountNR(Read(s)), 2, Double(1)), 2)

\* length(x) and length(local) become what x has turned out to be.
Rewritten(s, words) == [s EXCEPT !.code[s.b] = [o \in 1..Len(@) |-> IF o - s.o \in 1..Len(words) /\ words[o - s.o].op # "keep"
                                                                    THEN words[o - s.o] ELSE @[o]]]
AsArray(op, operand) == <<Op(op), operand, Op("_BUILTIN"), Ptr("bi_alength")>>
A_LENGTH(s) ==
    LET x == Arg(s, 1).x
    IN  Rewritten(s, CASE c.syms[x] = "VAR" -> <<Op("_PUSHI"), Ptr(x)>>
                       [] c.syms[x] = "ARRAY" -> AsArray("A_PUSHA", Ptr(x))
                       [] c.syms[x] = "NONE" -> <<Op("_PUSHI"), Ptr("missing")>>)
LENGTH(s) ==
    LET w == Arg(s, 1)
        type == c.fns[w.x].typev[w.n + 1]
    IN  Rewritten(s, CASE type = "LOCAL_VAR" -> <<Op("L_PUSHI"), Num(w.n)>>
                       [] type = "LOCAL_ARRAY" -> AsArray("LA_PUSHA", Num(w.n))
                       [] type = "LOCAL_NONE" -> <<Op("_PUSHI"), Ptr("missing")>>)

-----------------------------------------------------------------------------
(* Jumps, the main loop and leaving the program.                           *)

JZ(s) ==
    LET go == IF W(s).op = "_JZ" THEN ~Truth(s.heap, Top(s)) ELSE Truth(s.heap, Top(s))
        popped == Pops(Destroy(s, Top(s)), 1)
    IN  IF go THEN Jump(popped) ELSE To(popped, 2)
\* && and ||: the value stays when the jump is taken
LJZ(s) == IF (Top(s).n = 0) = (W(s).op = "_LJZ") THEN Jump(s) ELSE To(Pops(s, 1), 2)

Goto(s, b, o) == [s EXCEPT !.b = b, !.o = o]
OMAIN(s) == [Goto(s, "MAIN", NextLabel(c)) EXCEPT !.restart = s.o + 1]
JMAIN(s) == [Goto(s, "MAIN", 0) EXCEPT !.has = @ \ {"BEGIN"}]
NEXT(s) == Goto(CLEAR_ALOOP_STACK(s), "MAIN", NextLabel(c))
\* FINsemi_close: what is left of the input is not read
NEXTFILE(s) == [NEXT(s) EXCEPT !.input = <<>>]
OL_GL(s) ==
    IF s.input # <<>>
    THEN Goto(IF W(s).op = "OL_GL_NR" THEN CountNR(Read(s)) ELSE Read(s), "MAIN", s.restart)
    ELSE IF "END" \notin s.has THEN [s EXCEPT !.status = "done"]
    ELSE [Goto(s, "END", 0) EXCEPT !.has = {}]

ForgetAll(h, stk) ==
    [i \in DOMAIN h |-> [h[i] EXCEPT !.lost = @ + Cardinality({a \in DOMAIN stk : HasString(stk[a]) /\ stk[a].s = i})]]
\* exit may be inside a function: the stack is abandoned, whatever is on it.
EXIT(s) ==
    LET code == IF W(s).op = "_EXIT" THEN cast1_to_d(s.heap, Top(s)) ELSE Pair(Double(s.exit_code), s.heap)
        popped == IF W(s).op = "_EXIT" THEN Pops(SetHeap(s, code.h), 1) ELSE s
        left == [popped EXCEPT !.exit_code = code.c.n]
    IN  IF "END" \notin s.has THEN [left EXCEPT !.status = "done"]
        ELSE CLEAR_ALOOP_STACK([Goto(SetHeap(left, ForgetAll(left.heap, left.stk)), "END", 0)
                                EXCEPT !.has = {}, !.sp = -1, !.stk = [a \in {} |-> Noinit]])

-----------------------------------------------------------------------------
(* Nested calls of execute(): range patterns and functions.                *)

Locals(s, kind) == [kind |-> kind, b |-> s.b, o |-> s.o, sp |-> s.sp, fp |-> s.fp, aloop |-> s.aloop,
                    oldBase |-> s.oldBase, oldSp |-> s.oldSp]
Enter(s, kind, b, o, fp) ==
    [s EXCEPT !.frames = <<Locals(s, kind)>> \o @, !.b = b, !.o = o, !.fp = fp, !.aloop = <<>>, !.oldBase = -1, !.oldSp = -1]
\* return from execute(): the caller's locals are back, the value is above its sp.
Leave1(s) == LET f == s.frames[1]
             IN  [s EXCEPT !.frames = Tail(@), !.b = f.b, !.o = f.o, !.sp = f.sp + 1, !.fp = f.fp, !.aloop = f.aloop,
                           !.oldBase = f.oldBase, !.oldSp = f.oldSp]

RANGE(s) ==
    LET kind == IF Arg(s, 1).n # 0 THEN "range1" ELSE "range2"
        pat == IF kind = "range1" THEN 5 ELSE 1 + Arg(s, 2).n
    IN  Enter(s, kind, s.b, s.o + pat, s.fp)
SetFlag(s, b) == [s EXCEPT !.code[s.b][s.o + 2] = Num(IF b THEN 1 ELSE 0)]
\* a variant: a record that begins the range cannot end it
STOP_ONE(s) ==
    LET back == Leave1(s)
        t == Truth(back.heap, Top(back))
        popped == Pops(Destroy(back, Top(back)), 1)
        Action(r) == [r EXCEPT !.o = r.o + 1 + Arg(r, 3).n]
    IN  IF s.frames[1].kind = "range2" THEN Action(SetFlag(popped, t))
        ELSE IF t THEN Action(SetFlag(popped, FALSE))
        ELSE [popped EXCEPT !.o = popped.o + 1 + Arg(popped, 4).n]
\* _STOP: the value of a pattern is there; with pattern 1 it goes on to
\* pattern 2 for the same record, or behind the action.
STOP(s) ==
    LET back == Leave1(s)
        t == Truth(back.heap, Top(back))
        popped == Pops(Destroy(back, Top(back)), 1)
        Action(r) == [r EXCEPT !.o = r.o + 1 + Arg(r, 3).n]
    IN  IF s.frames[1].kind = "range2" THEN Action(SetFlag(popped, t))
        ELSE IF t THEN RANGE(SetFlag(popped, FALSE))
        ELSE [popped EXCEPT !.o = popped.o + 1 + Arg(popped, 4).n]

NewBlock(s) == BLOCK * (s.blocks + 1)
\* a variant: only when the block is full
ChangeStackLate(s, oldSp) ==
    IF s.sp >= s.base + STACK
    THEN [s EXCEPT !.oldBase = s.base, !.oldSp = oldSp, !.base = NewBlock(s), !.danger = NewBlock(s) + DANGER,
                   !.blocks = @ + 1, !.sp = NewBlock(s)]
    ELSE s
\* execute() with a frame pointer changes stacks when sp is beyond the mark.
ChangeStack(s, oldSp) ==
    IF s.sp > s.danger
    THEN [s EXCEPT !.oldBase = s.base, !.oldSp = oldSp, !.base = NewBlock(s), !.danger = NewBlock(s) + DANGER,
                   !.blocks = @ + 1, !.sp = NewBlock(s)]
    ELSE s

RECURSIVE MakeLocals(_, _)
MakeLocals(s, types) ==
    IF types = <<>> THEN s
    ELSE IF types[1] = "LOCAL_ARRAY"
    THEN LET arr == Local(s.stamp + 1)
         IN  MakeLocals(Push([s EXCEPT !.arrays = (arr :> [k \in {} |-> 0]) @@ @, !.stamp = @ + 1], ArrayCell(arr)), Tail(types))
    ELSE MakeLocals(Push(s, Noinit), Tail(types))
CALL(s) ==
    LET fn == c.fns[Arg(s, 1).x]
        args == Arg(s, 2).n
        made == MakeLocals(s, SubSeq(fn.typev, args + 1, fn.nargs))
    IN  ChangeStack(Enter(made, "call", Arg(s, 1).x, 0, s.sp - args + 1), made.sp)

\* An array that was not passed, but made for this call.
FreeArray(s, local) ==
    IF s.sp >= local THEN [array_clear(s, Top(s).at) EXCEPT !.arrays = [a \in DOMAIN @ \ {Top(s).at} |-> @[a]]] ELSE s
RECURSIVE CleanUp(_, _, _, _)
\* The callee's frame, from the top; arrays that were passed stay.
CleanUp(s, nfp, local, types) ==
    IF s.sp < nfp THEN s
    ELSE LET type == types[Len(types)]
             freed == IF type = "LOCAL_ARRAY" THEN FreeArray(s, local) ELSE Destroy(s, Top(s))
         IN  CleanUp(Pops(freed, 1), nfp, local, SubSeq(types, 1, Len(types) - 1))
\* _RET: the value moves to the caller's stack if the stack was changed.
RET(s) ==
    LET valued == IF W(s).op = "_RET0" THEN Push(s, Noinit) ELSE s
        value == Top(valued)
        off == Pops(valued, 1)
        home == IF s.oldBase >= 0
                THEN [off EXCEPT !.base = s.oldBase, !.danger = s.oldBase + DANGER, !.blocks = @ - 1, !.sp = s.oldSp]
                ELSE off
        back == Leave1(CLEAR_ALOOP_STACK(home))
        caller == [back EXCEPT !.sp = @ - 1]
        fn == c.fns[Arg(caller, 1).x]
        args == Arg(caller, 2).n
        extra == IF fn.nargs > args THEN fn.nargs - args ELSE 0
        clean == CleanUp(caller, caller.sp - extra - args + 1, caller.sp - extra + 1, fn.typev)
    IN  To(Push(clean, value), 3)

-----------------------------------------------------------------------------
(* The loop of execute(): one instruction a step.                          *)

When(ops, Op1(_)) == m.status = "run" /\ W(m).op \in ops /\ m' = Op1(m)

Pushes == \/ When({"_PUSHD"}, PUSHD) \/ When({"_PUSHS"}, PUSHS) \/ When({"_PUSHINT"}, PUSHINT)
          \/ When({"_PUSHA", "F_PUSHA"}, PUSHA) \/ When({"_PUSHI"}, PUSHI)
          \/ When({"L_PUSHA"}, L_PUSHA) \/ When({"L_PUSHI"}, L_PUSHI)
          \/ When({"A_PUSHA"}, A_PUSHA) \/ When({"LA_PUSHA"}, LA_PUSHA)
Arrays == \/ When({"AE_PUSHA", "LAE_PUSHA"}, AE_PUSHA) \/ When({"AE_PUSHI", "LAE_PUSHI"}, AE_PUSHI)
          \/ When({"A_TEST"}, A_TEST) \/ When({"A_DEL"}, A_DEL) \/ When({"DEL_A"}, DEL_A) \/ When({"A_CAT"}, A_CAT)
          \/ When({"SET_ALOOP"}, SET_ALOOP) \/ When({"ALOOP"}, ALOOP) \/ When({"POP_AL"}, POP_AL)
Computing == \/ When({"_POP"}, POP) \/ When({"_ASSIGN", "F_ASSIGN"}, ASSIGN)
             \/ When({"_ADD_ASG", "_SUB_ASG", "_MUL_ASG", "_MOD_ASG", "_POW_ASG"}, OP_ASG)
             \/ When({"_ADD", "_SUB", "_MUL", "_MOD", "_POW"}, ARITH)
             \/ When({"_POST_INC", "_POST_DEC", "_PRE_INC", "_PRE_DEC"}, CREMENT)
             \/ When({"_UMINUS", "_UPLUS"}, UMINUS) \/ When({"_TEST", "_NOT"}, TEST) \/ When({"_CAT"}, CAT)
             \/ When({"_EQ", "_NEQ", "_LT", "_LTE", "_GT", "_GTE"}, COMPARE)
             \/ When({"_MATCH0"}, MATCH0) \/ When({"_MATCH1"}, MATCH1) \/ When({"_MATCH2"}, MATCH2)
Builtin(name) == {op \in {"_BUILTIN", "_PRINT"} : Arg(m, 1).x = name}
Builtins == \/ When(Builtin("bi_print"), PRINT) \/ When(Builtin("bi_length"), bi_length)
            \/ When(Builtin("bi_alength"), bi_alength) \/ When(Builtin("bi_getline"), bi_getline)
            \/ When({"A_LENGTH"}, A_LENGTH) \/ When({"_LENGTH"}, LENGTH)
Control == \/ When({"_JMP"}, Jump) \/ When({"_JZ", "_JNZ"}, JZ) \/ When({"_LJZ", "_LJNZ"}, LJZ)
           \/ When({"_OMAIN"}, OMAIN) \/ When({"_JMAIN"}, JMAIN) \/ When({"_NEXT"}, NEXT) \/ When({"_NEXTFILE"}, NEXTFILE)
           \/ When({"OL_GL", "OL_GL_NR"}, OL_GL) \/ When({"_EXIT", "_EXIT0"}, EXIT)
           \/ When({"_RANGE"}, RANGE) \/ When({"_STOP"}, STOP) \/ When({"_CALL"}, CALL) \/ When({"_RET", "_RET0"}, RET)
ExecNext == Pushes \/ Arrays \/ Computing \/ Builtins \/ Control
=============================================================================
