------------------------------ MODULE AwkInput ------------------------------
(***************************************************************************)
(* What mawk(1) says of reading records: an input is one text, cut by RS   *)
(* from the left, one record for each read, the rest for the next one,     *)
(* with the RS of that moment.  For RS = "" (mlr) the newlines in front of *)
(* the text and one at its end do not count.  An interactive input is read *)
(* line by line.  Fin (fin.c) implements this with a buffer.               *)
(***************************************************************************)
EXTENDS Integers, Sequences

CONSTANTS Files,            \* the texts
          Seps,             \* "char", "str", "mlr", "re"
          Match(_, _, _),   \* <<position, length>> of the first separator of a
                            \* text, <<0, 0>> if there is none; the third
                            \* argument says whether ^ matches at its front
          NL

VARIABLES rest,    \* what has not been read
          bof,     \* nothing has been read
          begun,   \* the text has been looked at
          lines,   \* the input is interactive
          rs, out

vars == <<rest, bof, begun, lines, rs, out>>

Init == /\ rest \in Files /\ bof = TRUE /\ lines \in BOOLEAN /\ begun = lines
        /\ rs \in Seps /\ out = <<"none">>

Stripped(t) ==
    LET front == {i \in 0..Len(t) : \A j \in 1..i : t[j] = NL}
        k == CHOOSE i \in front : \A j \in front : j <= i
    IN SubSeq(t, k + 1, Len(t))

Begin == /\ ~begun /\ rest # <<>> /\ begun' = TRUE
         /\ rest' = IF rs = "mlr" THEN Stripped(rest) ELSE rest
         /\ bof' = (rest' = rest)
         /\ UNCHANGED <<lines, rs, out>>

\* the end of an interactive line
LineEnd(t) ==
    LET ends == {i \in 1..Len(t) : t[i] = NL}
    IN IF ends = {} THEN <<0, 0>> ELSE <<CHOOSE i \in ends : \A j \in ends : i <= j, 1>>

LastRecord ==
    IF ~lines /\ rs = "mlr" /\ rest[Len(rest)] = NL THEN SubSeq(rest, 1, Len(rest) - 1)
    ELSE rest

Read ==
    LET m == IF lines THEN LineEnd(rest) ELSE Match(rs, rest, bof)
    IN /\ begun /\ rest # <<>>
       /\ IF m[1] # 0
          THEN /\ out' = <<"record", SubSeq(rest, 1, m[1] - 1)>>
               /\ rest' = SubSeq(rest, m[1] + m[2], Len(rest))
          ELSE out' = <<"record", LastRecord>> /\ rest' = <<>>
       /\ bof' = FALSE
       /\ UNCHANGED <<begun, lines, rs>>

End == /\ rest = <<>> /\ out' = <<"eof">>
       /\ UNCHANGED <<rest, bof, begun, lines, rs>>

AssignRS(v) == rs' = v /\ UNCHANGED <<rest, bof, begun, lines, out>>

\* a file that cannot be read ends the program
Fail == /\ ~lines /\ out' = <<"read error">>
        /\ UNCHANGED <<rest, bof, begun, lines, rs>>

Next == /\ out # <<"read error">>
        /\ Begin \/ Read \/ End \/ Fail \/ \E v \in Seps : AssignRS(v)

Spec == Init /\ [][Next]_vars
=============================================================================
