------------------------------ MODULE MCProgram ------------------------------
(***************************************************************************)
(* Families of small programs, compiled by AwkParse and run by AwkExec,    *)
(* against what AwkMeaning says of their trees.                            *)
(***************************************************************************)
EXTENDS AwkExec, AwkPrograms

\* The texts of the string constants and patterns.
TextsDef == [x \in {"", "0", "x", "a", "b", "ab", "2a", "12"} |->
    CASE x = "" -> <<>> [] x = "0" -> <<"0">> [] x = "x" -> <<"x">> [] x = "a" -> <<"a">> [] x = "b" -> <<"b">>
      [] x = "ab" -> <<"a", "b">> [] x = "2a" -> <<"2", "a">> [] x = "12" -> <<"1", "2">>]

VARIABLE id         \* the program and its input: a record of Cases

vars == <<agenda, c, m, id>>
Reading == [status |-> "parsing"]

Init == /\ id \in Cases
        /\ agenda = Agenda(id)
        /\ c = Compiler0(Globals)
        /\ m = Reading

Compile == m.status = "parsing" /\ ParseNext /\ UNCHANGED <<m, id>>
Begin == /\ m.status = "parsing" /\ Parsed /\ c.errors = 0
         /\ m' = Start0(c, id.input) /\ UNCHANGED <<agenda, c, id>>
Interpret == ExecNext /\ UNCHANGED <<agenda, c, id>>

\* mawk goes on until the program is rejected or has ended.  Next is enabled
\* exactly then: with Rest, a state in which it is not would be a deadlock.
Busy == m.status # "done" /\ ~(Parsed /\ c.errors > 0)
Rest == ~Busy /\ UNCHANGED vars
Next == Compile \/ Begin \/ Interpret \/ Rest
\* Weak fairness of Next, with Busy for its being enabled.
GoesOn == []<>~Busy \/ []<><<Next>>_vars
Spec == Init /\ [][Next]_vars /\ GoesOn

-----------------------------------------------------------------------------
Running == m.status = "run"
Loaded1 == m.status # "parsing"
Compiled == m.status = "parsing" /\ Parsed

\* The compiler counts, the machine stands on an instruction, strings that
\* are nobody's are gone.
TypeOK ==
    /\ c.errors \in Nat /\ c.level \in Nat /\ c.limit \in Nat /\ c.scope \in {"MAIN", "BEGIN", "END", "FUNCT"}
    /\ m.status \in {"parsing", "run", "done"}
    /\ Running => /\ m.b \in DOMAIN m.code /\ m.o \in 0..(Len(m.code[m.b]) - 1)
                  /\ W(m).op # ""
    /\ Loaded1 => /\ \A s \in DOMAIN m.heap : m.heap[s].cnt \in Nat \ {0}
                  /\ \A x \in DOMAIN m.vars : m.vars[x].t \in CellTypes

\* What a program prints and its exit code are what its text means: loops,
\* jumps, code that was moved, calls, ranges and conversions together.
Meant == INSTANCE AwkMeaning
RunsAsWritten ==
    m.status = "done" => \E is \in {Meant!Meaning(Family(id), id.input)} : m.out = is.out /\ m.exit_code = is.code

\* Exactly the programs are rejected in which an identifier is an array and a
\* scalar, by whatever calls that shows, or a word stands where it may not
\* (check_var, check_array, call_arg_check, BC_insert, the scopes).
RejectedIffIllFormed == Compiled => (c.errors = 0 <=> Meant!WellFormed(Family(id)))

\* When all is parsed, no jump, break, continue or code set aside is left over
\* and every jump and every part of a range goes to an instruction of its block
\* (jmp.c, "jmp_stack", "bc_stack", "mc_stack").
Jumps == {"_JMP", "_JZ", "_JNZ", "_LJZ", "_LJNZ", "SET_ALOOP", "ALOOP"}
Targets(code, o) ==
    IF code[o].op \in Jumps THEN {o + 1 + code[o + 1].n}
    ELSE IF code[o].op = "_RANGE" THEN {o + 1 + code[o + i].n : i \in 2..4} ELSE {}
JumpsLand ==
    Compiled /\ c.errors = 0 =>
        /\ c.jmp = <<>> /\ c.bc = <<>> /\ c.mc = <<>> /\ c.level = 0 /\ c.vals = <<>> /\ c.calls = <<>>
        /\ \A b \in DOMAIN c.blocks : \A o \in 1..Len(c.blocks[b]) :
              \A t \in Targets(c.blocks[b], o) : t \in 1..Len(c.blocks[b]) /\ c.blocks[b][t].op # ""

\* As long as a call waits for the types of its arguments, each of them is
\* filed under the offset of the instruction that pushes it, wherever that
\* has been moved (relocate_resolve_list).
Filled == IF Len(agenda) < 2 THEN "" ELSE IF c.scope = "FUNCT" THEN c.active ELSE c.scope
PushOf(a, b) == LET w == IF b = Filled THEN c.code ELSE c.blocks[b]
                IN  IF a.off + 2 <= Len(w) THEN <<w[a.off + 1].op, w[a.off + 2]>> ELSE <<"", Num(0)>>
PendingAtPush ==
    m.status = "parsing" /\ c.mc = <<>> /\ c.errors = 0 =>
        \A i \in 1..Len(c.resolve) : \A a \in ToSet(c.resolve[i].args) :
            CASE a.type = "NONE" -> PushOf(a, BlockOf(c.resolve[i])) = <<"_PUSHI", Ptr("dummy")>>
              [] a.type = "LOCAL_NONE" -> PushOf(a, BlockOf(c.resolve[i])) = <<"L_PUSHI", Num(a.slot - 1)>>
              [] OTHER -> TRUE

\* No block of code is written beyond its end: code1 does not look (code.h,
\* CODEWARN).
CodeFits == ~c.overrun
CodeConsistent == JumpsLand /\ CodeFits

\* The evaluation stack has the height that the DEBUG assertions of execute.c
\* ask for: nothing is left on it between records, one value where a pattern
\* ends or a function returns one, none where it returns nothing.
EntrySp == IF m.oldBase >= 0 THEN m.base ELSE m.frames[1].sp
BalancedStack ==
    Running =>
        CASE W(m).op \in {"OL_GL", "OL_GL_NR", "_JMAIN", "_OMAIN", "_NEXT", "_NEXTFILE"} -> m.sp = -1
          [] W(m).op = "_STOP" -> m.sp = m.frames[1].sp + 1
          [] W(m).op = "_RET" -> m.sp = EntrySp + 1
          [] W(m).op = "_RET0" -> m.sp = EntrySp
          [] OTHER -> TRUE

\* Every reference to a string is accounted for: by a cell of the stack, a
\* variable, an element, a key a loop has still to give, a constant of the
\* code, a compiled pattern, or by one of the two places that are known to lose
\* references.  So
\* no string is freed while it is in use, and none is kept that is not.
Holds1(cell, s) == HasString(cell) /\ cell.s = s
Waiting(loops, s) == {<<i, j>> \in UNION {{i} \X (1..Len(loops[i].left)) : i \in 1..Len(loops)} : loops[i].left[j] = s}
Holders(s) ==
    Cardinality({a \in DOMAIN m.stk : Holds1(m.stk[a], s)})
    + Cardinality({x \in DOMAIN m.vars : Holds1(m.vars[x], s)})
    + Cardinality({e \in UNION {{a} \X DOMAIN m.arrays[a] : a \in DOMAIN m.arrays} : Holds1(m.arrays[e[1]][e[2]].cell, s)})
    + Cardinality({x \in DOMAIN m.consts : m.consts[x] = s})
    + (IF s \in m.res THEN 1 ELSE 0)
    + Cardinality(Waiting(m.aloop, s))
    + FoldLeft(LAMBDA n, f : n + Cardinality(Waiting(f.aloop, s)), 0, m.frames)
ReferencesAccounted ==
    Loaded1 => /\ \A s \in DOMAIN m.heap : m.heap[s].cnt = Holders(s) + m.heap[s].lost
               /\ \A a \in DOMAIN m.stk : HasString(m.stk[a]) => m.stk[a].s \in DOMAIN m.heap \cup {NullStr}

\* A function's local arrays live as long as its frame: every array is the
\* program's or on the stack, and no array on the stack has been freed (RET).
\* END may follow an exit, which abandons the frames it leaves.
BeforeEND == "END" \in m.has \/ "END" \notin DOMAIN m.code
ArraysOwned ==
    Running /\ BeforeEND =>
               /\ \A a \in DOMAIN m.arrays : a[1] = "var" \/ \E p \in DOMAIN m.stk : m.stk[p] = ArrayCell(a)
               /\ \A p \in DOMAIN m.stk : m.stk[p].t = "ARRAY" => m.stk[p].at \in DOMAIN m.arrays

\* The evaluation stack is changed in time and changed back: the stack in use
\* is the one of the calls that are running, and there is room in its block.
Changed == {i \in 1..Len(m.frames) : m.frames[i].oldBase >= 0}
StackFits ==
    /\ Loaded1 => ~m.over
    /\ Running /\ BeforeEND /\ m.sp # -1 =>
          m.sp \div BLOCK = m.base \div BLOCK /\ m.blocks = Cardinality(Changed) + (IF m.oldBase >= 0 THEN 1 ELSE 0)

\* The evaluation stack has its height, and stays in its block.
StackConsistent == TypeOK /\ BalancedStack /\ StackFits

\* Strings and arrays are kept exactly as long as they are used.
StorageAccounted == ReferencesAccounted /\ ArraysOwned

\* Every program is rejected or comes to its end.
Terminates == <>~Busy
=============================================================================
