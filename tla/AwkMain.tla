------------------------------ MODULE AwkMain ------------------------------
(***************************************************************************)
(* What mawk(1) says of the main input: a read takes the next record of    *)
(* the current file; at its end the operands ARGV[argi], ..., ARGV[ARGC-1] *)
(* are gone through, up to the first file that has a record.  A deleted or *)
(* empty operand is skipped, an assignment is executed at its turn, a file *)
(* that cannot be opened ends the program.  If there is no file at all it  *)
(* is the standard input, which "-" also names.  A program may change the  *)
(* operands at any time, and skip the rest of a file.                      *)
(***************************************************************************)
EXTENDS Integers, Sequences, FiniteSetsExt

CONSTANTS Names,      \* the file names, "-" among them
          Absent,     \* the names of no file
          Text(_),    \* the records of a file
          Args,       \* the operands: Names, "" and assignments
          MaxArgs

null_str == ""

VARIABLES ARGV, ARGC,
          argi,       \* the next operand
          source,     \* "unopened", "file", "stdin", "over", or "failed"
          rest,       \* what is left of a file
          stdin,      \* what is left of the standard input
          FILENAME, FNR, NR,
          v,          \* the last assignment executed
          out         \* the outcome of the last read

operands == <<ARGV, ARGC>>
vars == <<operands, argi, source, rest, stdin, FILENAME, FNR, NR, v, out>>

Left == CASE source = "file" -> rest [] source = "stdin" -> stdin [] OTHER -> <<>>

Init == /\ ARGV \in UNION {[1..k -> Args] : k \in 0..MaxArgs}
        /\ ARGC = 1 + Len(ARGV)
        /\ argi = 1 /\ source = "unopened" /\ rest = <<>> /\ stdin = Text("-")
        /\ FILENAME = null_str /\ FNR = 0 /\ NR = 0 /\ v = null_str /\ out = "none"

\* a record of the current file
Continue == /\ Left # <<>>
            /\ out' = Head(Left)
            /\ IF source = "file" THEN rest' = Tail(rest) /\ UNCHANGED stdin
               ELSE stdin' = Tail(stdin) /\ UNCHANGED rest
            /\ FNR' = FNR + 1 /\ NR' = NR + 1
            /\ UNCHANGED <<operands, argi, source, FILENAME, v>>

-----------------------------------------------------------------------------
(* The operands to come.                                                   *)

Coming == {i \in argi..ARGC - 1 : i \in DOMAIN ARGV}
FileArgs == {i \in Coming : ARGV[i] \in Names}
HasRecords(f) == (IF f = "-" THEN stdin ELSE Text(f)) # <<>>
Stops == {i \in FileArgs : ARGV[i] \in Absent \/ HasRecords(ARGV[i])}
\* nothing but the standard input was asked for
OnlyStdin == source = "unopened" /\ FileArgs = {}

Opened(i) == {k \in FileArgs : k <= i /\ ARGV[k] \notin Absent}
Assigned(i) == {k \in Coming : k <= i /\ ARGV[k] \notin Names \cup {null_str}}

\* the operands up to the i-th have been gone through: the assignments were
\* executed, and the last of the files is the current one
PassTo(i) ==
    /\ argi' = Max({argi, i + 1})
    /\ v' = IF Assigned(i) = {} THEN v ELSE ARGV[Max(Assigned(i))]
    /\ FILENAME' = IF OnlyStdin THEN "-"
                   ELSE IF Opened(i) = {} THEN FILENAME ELSE ARGV[Max(Opened(i))]
    /\ UNCHANGED operands

\* the first record of a text
Begin(text) == out' = Head(text) /\ FNR' = 1 /\ NR' = NR + 1

\* no record has come of it
NoRecord(i, why) ==
    /\ PassTo(i)
    /\ source' = why /\ out' = why /\ rest' = <<>>
    /\ FNR' = IF OnlyStdin \/ Opened(i) # {} THEN 0 ELSE FNR
    /\ UNCHANGED <<stdin, NR>>

AtEnd == Left = <<>> /\ source \notin {"over", "failed"}

NextFileBegins ==
    /\ AtEnd /\ Stops # {}
    /\ LET f == ARGV[Min(Stops)] IN
         /\ PassTo(Min(Stops))
         /\ \/ /\ f \notin Absent \cup {"-"}
               /\ source' = "file" /\ Begin(Text(f)) /\ rest' = Tail(Text(f))
               /\ UNCHANGED stdin
            \/ /\ f = "-"
               /\ source' = "stdin" /\ Begin(stdin) /\ stdin' = Tail(stdin)
               /\ rest' = <<>>

CannotOpen == /\ AtEnd /\ Stops # {} /\ ARGV[Min(Stops)] \in Absent
              /\ NoRecord(Min(Stops), "failed")

StdinBegins == /\ AtEnd /\ OnlyStdin /\ stdin # <<>>
               /\ PassTo(ARGC - 1)
               /\ source' = "stdin" /\ Begin(stdin) /\ stdin' = Tail(stdin)
               /\ UNCHANGED rest

RunsOut == /\ AtEnd /\ Stops = {} /\ ~(OnlyStdin /\ stdin # <<>>)
           /\ NoRecord(ARGC - 1, "over")

\* the end stays the end, whatever becomes of the operands
StaysOver == source = "over" /\ out' = "over"
             /\ UNCHANGED <<operands, argi, source, rest, stdin, FILENAME, FNR, NR, v>>

Read == Continue \/ NextFileBegins \/ CannotOpen \/ StdinBegins \/ RunsOut \/ StaysOver

-----------------------------------------------------------------------------
(* The program.                                                            *)

\* nextfile: what had been read ahead of the standard input is lost with it
SkipFile == /\ source \in {"file", "stdin"}
            /\ source' = "file" /\ rest' = <<>>
            /\ \E k \in 0..Len(stdin) :
                 /\ k > 0 => source = "stdin"
                 /\ stdin' = SubSeq(stdin, k + 1, Len(stdin))
            /\ UNCHANGED <<operands, argi, FILENAME, FNR, NR, v, out>>

SetOperands == UNCHANGED <<argi, source, rest, stdin, FILENAME, FNR, NR, v, out>>

Next == Read \/ SkipFile \/ SetOperands

Spec == Init /\ [][Next]_vars
=============================================================================
