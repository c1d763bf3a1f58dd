------------------------------- MODULE AwkCode -------------------------------
(***************************************************************************)
(* The compiler: the actions of the grammar (parse.c), the blocks of code  *)
(* they fill (code.c) and the three stacks with which jumps are patched    *)
(* and code is moved (jmp.c).  The parser's work is an agenda of syntax    *)
(* trees and reductions: a tree is replaced by the right hand side of its  *)
(* production with the actions in their places, a reduction changes the    *)
(* compiler's globals c.  An instruction is a sequence of words, as in     *)
(* code.h; offsets are C's, the word at offset o is code[o + 1].           *)
(***************************************************************************)
EXTENDS Integers, Sequences, SequencesExt, FiniteSets

CONSTANTS PAGESZ,      \* a block of code grows by this many words
          CODEWARN     \* ... when fewer than this many are left

ASSUME PageAssumption == PAGESZ \in Nat /\ CODEWARN \in Nat /\ CODEWARN < PAGESZ

-----------------------------------------------------------------------------
(* Syntax trees and words of code.                                         *)

Tree(k, x, n, kids) == [k |-> k, x |-> x, n |-> n, kids |-> kids]
R(k, x, n) == Tree(k, x, n, <<>>)          \* a reduction

Op(op) == [op |-> op, n |-> 0, x |-> ""]
Num(n) == [op |-> "", n |-> n, x |-> ""]
Ptr(x) == [op |-> "", n |-> 0, x |-> x]

\* The compiler's globals.  "blocks" are the blocks that are not being
\* filled, "code" the active one, "vals" the parser's stack of start offsets,
\* "calls" the argument lists of the calls being parsed, last argument first.
Compiler0(globals) ==
    [code |-> <<Op("_OMAIN")>>, limit |-> PAGESZ, overrun |-> FALSE,
     blocks |-> [b \in {} |-> <<>>], limits |-> [b \in {} |-> 0],
     scope |-> "MAIN", active |-> "",
     vals |-> <<>>, calls |-> <<>>,
     jmp |-> <<>>, bc |-> <<>>, mc |-> <<>>, level |-> 0,
     syms |-> [g \in globals |-> "NONE"], locals |-> [l \in {} |-> [type |-> "NONE", offset |-> 0]],
     fns |-> [f \in {} |-> [nargs |-> 0, typev |-> <<>>]],
     resolve |-> <<>>, retry |-> <<>>, progress |-> FALSE, errors |-> 0, NR_flag |-> FALSE]

Here(c) == Len(c.code)                       \* code_offset
Error(c) == [c EXCEPT !.errors = @ + 1]      \* compile_error
InError(c) == c.errors > 0                   \* error_state

\* code1: one word without a look at the limit.
word1(c, w) == [c EXCEPT !.code = Append(@, w), !.overrun = @ \/ Len(c.code) >= c.limit]
code1(c, op) == word1(c, Op(op))

\* code_grow, as often as it takes to have room for len words more.
Grown(c, len) ==
    IF Here(c) + len < c.limit - CODEWARN THEN c.limit
    ELSE CHOOSE l \in {c.limit + PAGESZ * i : i \in 1..(len + CODEWARN + Here(c))} :
            /\ Here(c) + len < l - CODEWARN
            /\ Here(c) + len >= l - PAGESZ - CODEWARN

code2(c, op, w) == [c EXCEPT !.code = @ \o <<Op(op), w>>, !.limit = Grown(c, 2)]

Patch(c, at, n) == [c EXCEPT !.code[at + 1] = Num(n)]
Cut(c, at) == [c EXCEPT !.code = SubSeq(@, 1, at)]
Slice(c, from) == SubSeq(c.code, from + 1, Here(c))

-----------------------------------------------------------------------------
(* jmp.c: jumps to be patched, breaks and continues, code set aside.       *)

code_jmp(c, op, target) ==
    IF InError(c) THEN c ELSE code2(c, op, Num(target - (Here(c) + 1)))
code_jmp_open(c, op) ==
    IF InError(c) THEN c ELSE [code2(c, op, Num(0)) EXCEPT !.jmp = <<Here(c) + 1>> \o @]
patch_jmp(c, target) ==
    IF InError(c) THEN c
    ELSE [Patch(c, c.jmp[1], target - c.jmp[1]) EXCEPT !.jmp = Tail(@)]

BC_insert(c, type, at) ==
    IF InError(c) THEN c
    ELSE IF type # "mark" /\ c.bc = <<>> THEN Error(c)
    ELSE [c EXCEPT !.bc = <<[type |-> type, at |-> at]>> \o @]
BC_new(c) == BC_insert(c, "mark", 0)

\* the jumps of the innermost loop: those above its mark
Innermost(c) == (CHOOSE i \in 1..Len(c.bc) : c.bc[i].type = "mark" /\ \A j \in 1..i-1 : c.bc[j].type # "mark") - 1
\* a variant: the mark of the loop stays
ClosedLate(bc, n) == SubSeq(bc, n + 1, Len(bc))
Closed(bc, n) == SubSeq(bc, n + 2, Len(bc))
BC_clear(c, B, C) ==
    IF InError(c) THEN c
    ELSE LET n == Innermost(c)
             To(b) == IF b.type = "B" THEN B - b.at ELSE C - b.at
             Patched == [o \in 1..Here(c) |->
                            IF \E i \in 1..n : c.bc[i].at + 1 = o
                            THEN Num(To(c.bc[CHOOSE i \in 1..n : c.bc[i].at + 1 = o]))
                            ELSE c.code[o]]
         IN  [c EXCEPT !.code = Patched, !.bc = Closed(@, n)]

\* Set the code from an offset to the end aside.
code_push(c, from) ==
    LET aside == [code |-> Slice(c, from), off |-> from, level |-> c.level,
                  scope |-> IF c.resolve = <<>> THEN "NO_SCOPE" ELSE c.scope, fbp |-> c.active]
    IN  [(IF InError(c) THEN c ELSE [c EXCEPT !.mc = <<aside>> \o @]) EXCEPT !.level = @ + 1]

\* fcall.c, relocate_arglist: all the arguments of one call move, or none.
relocate_arglist(args, off, len, delta) ==
    IF args = <<>> \/ args[1].off < off \/ args[1].off >= off + len THEN args
    ELSE [i \in 1..Len(args) |-> [args[i] EXCEPT !.off = @ + delta]]
\* a variant: calls of every nesting are moved
relocate_any_level(c, m, delta) ==
    [i \in 1..Len(c.resolve) |->
        IF m.scope = c.resolve[i].scope /\ (m.scope = "FUNCT" => m.fbp = c.resolve[i].caller)
        THEN [c.resolve[i] EXCEPT !.args = relocate_arglist(@, m.off, Len(m.code), delta)]
        ELSE c.resolve[i]]
relocate_resolve_list(c, m, delta) ==
    [i \in 1..Len(c.resolve) |->
        IF /\ m.scope = c.resolve[i].scope
           /\ m.level = c.resolve[i].level
           /\ m.scope = "FUNCT" => m.fbp = c.resolve[i].caller
        THEN [c.resolve[i] EXCEPT !.args = relocate_arglist(@, m.off, Len(m.code), delta)]
        ELSE c.resolve[i]]

\* Bring the code set aside last back, behind the rest.
code_pop(c) ==
    IF InError(c) THEN c
    ELSE LET m == c.mc[1]
             Moved == IF m.scope = "NO_SCOPE" THEN c.resolve
                      ELSE relocate_resolve_list(c, m, Here(c) - m.off)
         IN  [c EXCEPT !.code = @ \o m.code, !.limit = Grown(c, Len(m.code)),
                       !.mc = Tail(@), !.level = @ - 1, !.resolve = Moved]

-----------------------------------------------------------------------------
(* code.c: which block is being filled.                                    *)

Save(c, b) == [c EXCEPT !.blocks = (b :> c.code) @@ @, !.limits = (b :> c.limit) @@ @]
Load(c, b) == IF b \in DOMAIN c.blocks
              THEN [c EXCEPT !.code = c.blocks[b], !.limit = c.limits[b]]
              ELSE [c EXCEPT !.code = <<>>, !.limit = PAGESZ]          \* new_code
be_setup(c, b) == [Load(Save(c, "MAIN"), b) EXCEPT !.scope = b]
switch_code_to_main(c) ==
    LET saved == IF c.scope \in {"BEGIN", "END"} THEN Save(c, c.scope) ELSE c
    IN  [(IF c.scope = "MAIN" THEN c ELSE Load(saved, "MAIN")) EXCEPT !.scope = "MAIN", !.active = ""]

Close(c, b, op) == Save(code2(Load(c, b), op, Op("_HALT")), b)
\* The end of every block; MAIN is dropped when there is nothing in it.
set_code(c) ==
    LET hasEnd == "END" \in DOMAIN c.blocks
        hasMain == hasEnd \/ Here(c) > 1
        main == IF hasMain THEN Save(code2(c, IF c.NR_flag THEN "OL_GL_NR" ELSE "OL_GL", Op("_HALT")), "MAIN")
                ELSE [c EXCEPT !.blocks = [b \in DOMAIN @ \ {"MAIN"} |-> @[b]]]
        end == IF hasEnd THEN Close(main, "END", "_EXIT0") ELSE main
        begin == IF "BEGIN" \in DOMAIN end.blocks
                 THEN Close(end, "BEGIN", IF hasMain THEN "_JMAIN" ELSE "_EXIT0") ELSE end
    IN  IF \E b \in {"BEGIN", "MAIN"} : b \in DOMAIN begin.blocks THEN begin
        ELSE [begin EXCEPT !.blocks = ("BEGIN" :> <<Op("_EXIT0"), Op("_HALT")>>) @@ @]
NextLabel(c) == Len(c.blocks["MAIN"]) - 2     \* gl_offset
=============================================================================
