------------------------------ MODULE AwkRecord ------------------------------
(***************************************************************************)
(* What mawk(1), "Records and fields", promises about $0, $1 .. $NF and    *)
(* NF, told eagerly: the fields are there as soon as $0 is, $0 is rebuilt  *)
(* as soon as a field or NF changes, and a field beyond NF is "".  Field   *)
(* (field.c) implements it with a $0 that is split only when somebody      *)
(* asks, and with field cells that are never given back.                   *)
(***************************************************************************)
EXTENDS Integers, Sequences

CONSTANTS Cells,         \* the values a program assigns
          Null,          \* the cell holding ""
          Split(_, _),   \* the fields of a text under a value of FS
          Join(_, _, _), \* the text of a sequence of cells under OFS and CONVFMT
          Text(_, _),    \* the text of a cell under CONVFMT
          Str(_),        \* the cell of a text
          Num(_),        \* the cell of an integer
          Index(_),      \* the integer value of a cell
          FSs, OFSs, Formats,  \* the values of FS, OFS and CONVFMT
          MaxF           \* bound: the highest field assigned or read

VARIABLES rec,                  \* $0
          fld,                  \* $1 .. $NF
          nfCell,               \* what reading NF gives
          fs, ofs, convfmt,     \* FS, OFS, CONVFMT
          out                   \* what the last operation showed the program

settings == <<fs, ofs, convfmt>>
vars == <<rec, fld, nfCell, fs, ofs, convfmt, out>>

Done == out' = <<"done">>

Init == /\ rec = Null /\ fld = <<>> /\ nfCell = Num(0)
        /\ fs \in FSs /\ ofs \in OFSs /\ convfmt \in Formats
        /\ out = <<"done">>

\* $0 rebuilt from its fields; a lone field may keep its type
Rebuilt(fields) ==
    \/ rec' = Str(Join(fields, ofs, convfmt))
    \/ Len(fields) = 1 /\ rec' = fields[1]

\* n fields: the new ones are ""
Resized(n) == [i \in 1..n |-> IF i <= Len(fld) THEN fld[i] ELSE Null]

\* a record comes in, or $0 = c
AssignRecord(c) == /\ rec' = c
                   /\ fld' = Split(Text(c, convfmt), fs)
                   /\ nfCell' = Num(Len(fld'))
                   /\ Done /\ UNCHANGED settings

AssignNF(c) == /\ Index(c) >= 0
               /\ nfCell' = c /\ fld' = Resized(Index(c)) /\ Rebuilt(fld')
               /\ Done /\ UNCHANGED settings

\* a negative NF is a run time error
RejectNF(c) == /\ Index(c) < 0
               /\ out' = <<"error">>
               /\ UNCHANGED <<rec, fld, nfCell, fs, ofs, convfmt>>

AssignField(i, c) ==
    LET n == IF i > Len(fld) THEN i ELSE Len(fld)
    IN /\ fld' = [Resized(n) EXCEPT ![i] = c]
       /\ nfCell' = IF i > Len(fld) THEN Num(i) ELSE nfCell
       /\ Rebuilt(fld')
       /\ Done /\ UNCHANGED settings

\* FS, OFS and CONVFMT act on what is read or rebuilt afterwards
AssignSetting(f, o, m) == /\ fs' = f /\ ofs' = o /\ convfmt' = m
                          /\ Done /\ UNCHANGED <<rec, fld, nfCell>>

\* what is no format for a number is a run time error
RejectFormat == /\ out' = <<"illegal format">>
                /\ UNCHANGED <<rec, fld, nfCell, fs, ofs, convfmt>>

\* $0, $i and NF as values
Get(c) == /\ out' = <<"get", c>>
          /\ UNCHANGED <<rec, fld, nfCell, fs, ofs, convfmt>>

Field(i) == IF i <= Len(fld) THEN fld[i] ELSE Null

Next == \/ \E c \in Cells : \/ AssignRecord(c) \/ AssignNF(c) \/ RejectNF(c)
                            \/ \E i \in 1..MaxF : AssignField(i, c)
        \/ \E f \in FSs, o \in OFSs, m \in Formats : AssignSetting(f, o, m)
        \/ RejectFormat \/ Get(rec) \/ Get(nfCell) \/ \E i \in 1..MaxF : Get(Field(i))

Spec == Init /\ [][Next]_vars
=============================================================================
