----------------------------- MODULE MainInput -----------------------------
(***************************************************************************)
(* The main input (fin.c): open_main, next_main and the restart loop of    *)
(* FINgets, which goes from one operand to the next in the middle of a     *)
(* call, and their callers: the loop over the records (_OMAIN, OL_GL and   *)
(* OL_GL_NR of execute.c), getline in BEGIN, in a rule and in END, and     *)
(* nextfile.  Records are atoms; Fin has how they are cut.  Between two    *)
(* calls the program may assign to ARGV and ARGC.  A step is one turn of   *)
(* a loop: of FINgets, or of next_main over the operands.                  *)
(*                                                                         *)
(* nextfile after the end of the main input semi-closes dead_main, a       *)
(* static whose buffer is one static byte, and gives that byte to the      *)
(* memory pool.  The model stops there, with pc = "fault".                 *)
(***************************************************************************)
EXTENDS Integers, Sequences, FiniteSetsExt

CONSTANTS Names, Absent, Text(_), Args, MaxArgs,   \* as in AwkMain
          MaxChanges          \* bound: the assignments to ARGV and ARGC

null_str == ""

\* the FINs of no file have names of their own, and so has the failure
ASSUME MainAssumption ==
    /\ "-" \in Names \ Absent /\ Absent \subseteq Names
    /\ Names \cap {null_str, "semi", "unopened", "dead"} = {}
    /\ \A f \in Names : Text(f) \in Seq(STRING \ {"failed"})
    /\ MaxArgs \in Nat

VARIABLES ARGV, ARGC, argi,
          main_fin,      \* Unopened, dead_main or a FIN
          offset,        \* of file descriptor 0, in records
          FILENAME, FNR, NR, v,
          part,          \* "BEGIN", "main" or "END"
          pc,            \* "program", "FINgets", "next_main", "exit", "fault"
          open_flag,     \* of next_main
          caller,        \* "getline" or "OL_GL"
          out,
          changes,
          was            \* history: the state at the call

args == <<ARGV, ARGC, changes>>
file == <<FILENAME, FNR, NR, v>>
call == <<open_flag, caller, was>>
vars == <<args, argi, main_fin, offset, file, part, pc, call, out>>

\* A FIN holds the records at + 1, ..., to of the file in its buffer.
Fin(name, k) == [name |-> name, at |-> k, to |-> k, eof |-> FALSE]
Semi == [name |-> "semi", at |-> 0, to |-> 0, eof |-> TRUE]
Unopened == [name |-> "unopened", at |-> 0, to |-> 0, eof |-> FALSE]
dead_main == [name |-> "dead", at |-> 0, to |-> 0, eof |-> TRUE]
MAIN_FLAG == main_fin # dead_main
AtLimit == main_fin.at = main_fin.to

Init == /\ ARGV \in UNION {[1..k -> Args] : k \in 0..MaxArgs}
        /\ ARGC = 1 + Len(ARGV)
        /\ argi = 1 /\ main_fin = Unopened /\ offset = 0
        /\ FILENAME = null_str /\ FNR = 0 /\ NR = 0 /\ v = null_str
        /\ part = "BEGIN" /\ pc = "program" /\ open_flag = FALSE /\ caller = "getline"
        /\ out = "none" /\ changes = 0 /\ was = <<>>

-----------------------------------------------------------------------------
(* The callers.                                                            *)

Now == [argi |-> argi, main_fin |-> main_fin, offset |-> offset, FILENAME |-> FILENAME,
        FNR |-> FNR, NR |-> NR, v |-> v, out |-> out]

set_main_to_stdin == /\ main_fin' = Fin("-", offset)
                     /\ FILENAME' = "-" /\ FNR' = 0

\* FINgets(main_fin), behind open_main if it was never opened
Call(who) ==
    /\ pc = "program"
    /\ caller' = who /\ was' = Now /\ open_flag' = (main_fin = Unopened /\ ARGC # 1)
    /\ pc' = IF open_flag' THEN "next_main" ELSE "FINgets"
    /\ IF main_fin = Unopened /\ ARGC = 1 THEN set_main_to_stdin
       ELSE UNCHANGED <<main_fin, FILENAME, FNR>>
    /\ UNCHANGED <<args, argi, offset, NR, v, out>>

bi_getline == Call("getline") /\ UNCHANGED part
\* _OMAIN behind BEGIN, then OL_GL and OL_GL_NR behind every record
OL_GL == part # "END" /\ part' = "main" /\ Call("OL_GL")

\* _NEXTFILE, which the parser takes in rules only: FINsemi_close, then OL_GL
NEXTFILE ==
    /\ part = "main" /\ pc = "program"
    /\ IF main_fin = dead_main
       THEN pc' = "fault" /\ UNCHANGED <<main_fin, call>>
       ELSE /\ main_fin' = Semi /\ pc' = "FINgets"
            /\ caller' = "OL_GL" /\ open_flag' = FALSE
            /\ was' = [Now EXCEPT !.main_fin = Semi]
    /\ UNCHANGED <<args, argi, offset, file, part, out>>

\* exit, or the end of END
EXIT == /\ pc = "program"
        /\ IF part = "END" THEN pc' = "exit" /\ UNCHANGED part
           ELSE part' = "END" /\ UNCHANGED pc
        /\ UNCHANGED <<args, argi, main_fin, offset, file, call, out>>

\* the program changes its operands
Change == /\ pc = "program" /\ changes < MaxChanges /\ changes' = changes + 1
          /\ UNCHANGED <<argi, main_fin, offset, file, part, pc, call, out>>
SetArgv(i, a) == Change /\ UNCHANGED ARGC
                 /\ ARGV' = [k \in DOMAIN ARGV \cup {i} |-> IF k = i THEN a ELSE ARGV[k]]
DeleteArgv(i) == Change /\ UNCHANGED ARGC /\ i \in DOMAIN ARGV
                 /\ ARGV' = [k \in DOMAIN ARGV \ {i} |-> ARGV[k]]
SetArgc(n) == Change /\ UNCHANGED ARGV /\ ARGC' = n

-----------------------------------------------------------------------------
(* FINgets.                                                                *)

Return(o) == /\ pc' = "program" /\ out' = o
             /\ was' = <<>> /\ open_flag' = FALSE /\ caller' = "getline"

GiveRecord ==
    /\ pc = "FINgets" /\ ~AtLimit
    /\ main_fin' = [main_fin EXCEPT !.at = @ + 1]
    /\ Return(Text(main_fin.name)[main_fin.at + 1])
    /\ FNR' = FNR + 1 /\ NR' = NR + 1
    /\ UNCHANGED <<args, argi, offset, FILENAME, v, part>>

\* a variant: one read(2) that gives less than was asked for is the end
Ended_short(n, left) == {TRUE, FALSE}
\* fillbuff reads until the buffer is full or the file ends; then EOF_FLAG,
\* unless the last n of the records left just fill it
Ended(n, left) == IF n = 0 THEN {TRUE} ELSE IF n = left THEN {TRUE, FALSE} ELSE {FALSE}

Refill ==
    LET left == Len(Text(main_fin.name)) - main_fin.to
    IN  /\ pc = "FINgets" /\ AtLimit /\ ~main_fin.eof
        /\ \E n \in (IF left = 0 THEN {0} ELSE 1..left) : \E ended \in Ended(n, left) :
             /\ main_fin' = [main_fin EXCEPT !.to = @ + n, !.eof = ended]
             /\ offset' = IF main_fin.name = "-" THEN main_fin.to + n ELSE offset
        /\ UNCHANGED <<args, argi, file, part, pc, call, out>>

\* a variant: the flag of the first opening is still on
NextFlag_kept == open_flag
NextFlag == FALSE

\* at the end of a file: FINclose and next_main(0)
EndOfFile ==
    /\ pc = "FINgets" /\ AtLimit /\ main_fin.eof /\ MAIN_FLAG
    /\ main_fin' = Unopened /\ pc' = "next_main" /\ open_flag' = NextFlag
    /\ UNCHANGED <<args, argi, offset, file, part, caller, was, out>>

\* at the end of it all: OL_GL goes on to END
EndOfInput ==
    /\ pc = "FINgets" /\ AtLimit /\ main_fin.eof /\ ~MAIN_FLAG
    /\ Return("over")
    /\ part' = IF caller = "OL_GL" THEN "END" ELSE part
    /\ UNCHANGED <<args, argi, main_fin, offset, file>>

-----------------------------------------------------------------------------
(* next_main, an operand at a time.                                        *)

Operand == pc = "next_main" /\ argi < ARGC /\ argi \in DOMAIN ARGV
Passed == argi' = argi + 1

Skipped == \/ pc = "next_main" /\ argi < ARGC /\ argi \notin DOMAIN ARGV
           \/ Operand /\ ARGV[argi] = null_str
\* a variant: an empty operand is looked at again
SkipOperand_stuck ==
    /\ Skipped /\ argi' = IF argi \in DOMAIN ARGV THEN argi ELSE argi + 1
    /\ UNCHANGED <<args, main_fin, offset, file, part, pc, call, out>>
SkipOperand == /\ Skipped /\ Passed
               /\ UNCHANGED <<args, main_fin, offset, file, part, pc, call, out>>

\* is_cmdline_assign
AssignOperand == /\ Operand /\ ARGV[argi] \notin Names \cup {null_str} /\ Passed
                 /\ v' = ARGV[argi]
                 /\ UNCHANGED <<args, main_fin, offset, FILENAME, FNR, NR, part, pc, call, out>>

OpenOperand ==
    /\ Operand /\ ARGV[argi] \in Names \ Absent /\ Passed
    /\ main_fin' = Fin(ARGV[argi], IF ARGV[argi] = "-" THEN offset ELSE 0)
    /\ FILENAME' = ARGV[argi] /\ FNR' = 0 /\ pc' = "FINgets"
    /\ UNCHANGED <<args, offset, NR, v, part, call, out>>

\* mawk_exit(2)
CannotOpen == /\ Operand /\ ARGV[argi] \in Absent /\ Passed
              /\ pc' = "exit" /\ out' = "failed"
              /\ UNCHANGED <<args, main_fin, offset, file, part, call>>

NoOperand == /\ pc = "next_main" /\ argi >= ARGC /\ pc' = "FINgets"
             /\ IF open_flag THEN set_main_to_stdin
                ELSE main_fin' = dead_main /\ UNCHANGED <<FILENAME, FNR>>
             /\ UNCHANGED <<args, argi, offset, NR, v, part, call, out>>

-----------------------------------------------------------------------------
InCall == \/ GiveRecord \/ Refill \/ EndOfFile \/ EndOfInput
          \/ SkipOperand \/ AssignOperand \/ OpenOperand \/ CannotOpen \/ NoOperand

Program == \/ bi_getline \/ OL_GL \/ NEXTFILE \/ EXIT
           \/ \E i \in 1..MaxArgs : DeleteArgv(i) \/ \E a \in Args : SetArgv(i, a)
           \/ \E n \in 0..MaxArgs + 1 : SetArgc(n)

Next == InCall \/ Program

\* A call that was made goes on; the program makes the calls it likes.
Spec == Init /\ [][Next]_vars /\ WF_vars(InCall)

-----------------------------------------------------------------------------
(* Properties.                                                             *)

Records(f) == IF f \in Names THEN Len(Text(f)) ELSE 0

\* Type correctness; argi stays among the operands, the buffer inside the
\* file, and EOF_FLAG is set only when nothing is left to read.
TypeOK ==
    /\ DOMAIN ARGV \subseteq 1..MaxArgs /\ \A i \in DOMAIN ARGV : ARGV[i] \in Args
    /\ ARGC \in 0..MaxArgs + 1 /\ argi \in 1..MaxArgs + 1
    /\ main_fin.at <= main_fin.to /\ main_fin.to <= Records(main_fin.name)
    /\ main_fin.name = "-" => main_fin.to = offset
    /\ main_fin.eof => main_fin.to = Records(main_fin.name)
    /\ FNR <= NR /\ part \in {"BEGIN", "main", "END"}
    /\ pc \in {"program", "FINgets", "next_main", "exit", "fault"}

\* The main input is what mawk(1) says: a call takes the next record, however
\* many ends of files, empty files, skipped operands and assignments lie
\* before it, whoever calls and whatever the program did to the operands.  A
\* call is one step of AwkMain, taken when it returns.
Calling == pc \in {"FINgets", "next_main"}
At == IF Calling THEN was ELSE Now
Source == IF pc = "exit" /\ out = "failed" THEN "failed"
          ELSE CASE At.main_fin = Unopened -> "unopened"
                 [] At.main_fin = dead_main -> "over"
                 [] At.main_fin.name = "-" -> "stdin"
                 [] OTHER -> "file"
RestOfFile == IF At.main_fin.name \in Names \ {"-"}
              THEN SubSeq(Text(At.main_fin.name), At.main_fin.at + 1, Records(At.main_fin.name))
              ELSE <<>>
RestOfStdin == SubSeq(Text("-"), (IF At.main_fin.name = "-" THEN At.main_fin.at ELSE At.offset) + 1,
                      Records("-"))
Awk == INSTANCE AwkMain WITH
    source <- Source, rest <- RestOfFile, stdin <- RestOfStdin,
    argi <- At.argi, FILENAME <- At.FILENAME, FNR <- At.FNR, NR <- At.NR,
    v <- At.v, out <- At.out
ReadsTheOperands == Awk!Spec

\* A call returns, or ends the program: whatever the operands are, the loops
\* of FINgets and next_main end.
Returns == Calling ~> ~Calling

\* "this is how we mark EOF on main_fin" (fin.c:60): the static dead_main is
\* never given away.
DeadBufferStays == pc # "fault"
=============================================================================
