------------------------------- MODULE MCField -------------------------------
EXTENDS Field, FiniteSets, SequencesExt

FS == INSTANCE FieldSplit WITH Space <- {" "}

\* a cell is a text or a number; one of them is not an integer, its text
\* depends on CONVFMT
MCStr(t) == [str |-> t]
MCNum(n) == [num |-> n]
MCNull == MCStr(<<>>)
OneAndHalf == [frac |-> 1]

MCText(c, m) == IF "str" \in DOMAIN c THEN c.str
                ELSE IF c = OneAndHalf THEN m ELSE <<ToString(c.num)>>

\* two pieces under either separator
MCRecords == {<<"a", " ", "b", ":", "c">>}
MCCells == {OneAndHalf, MCNum(-1), MCStr(<<"2", "x">>)}
MCFormats == {<<"1">>, <<"2", ":">>}
MCDefault == <<"1">>
MCOFSs == {<<" ">>, <<":">>}

\* the texts that are ever split: the record, and cells assigned to $0, the
\* number under the second format with a ":" at its end
Whole(t) == IF t = <<>> THEN <<>> ELSE <<MCStr(t)>>
MCSplit(t, v) ==
    IF Len(t) = 2 /\ t[2] = v THEN <<MCStr(<<t[1]>>), MCNull>>
    ELSE IF Len(t) <= 2 THEN Whole(t)
    ELSE IF v = " " THEN <<MCStr(<<"a">>), MCStr(<<"b", ":", "c">>)>>
    ELSE <<MCStr(<<"a", " ", "b">>), MCStr(<<"c">>)>>

\* these are the pieces FieldSplit gives
SplitOf(t, v) == IF v = " " THEN FS!Words(t) ELSE FS!Between(t, FS!CharRE(t, v))
ASSUME MCSplitAssumption ==
    \A v \in FSs : \A t \in {<<>>} \cup Records \cup
                       {MCText(c, m) : c \in Cells, m \in Formats} :
        LET pieces == SplitOf(t, v)
        IN MCSplit(t, v) = [i \in 1..Len(pieces) |-> MCStr(pieces[i])]

MCJoin(cells, o, m) ==
    FlattenSeq([i \in 1..2 * Len(cells) - 1 |->
                  IF i % 2 = 1 THEN MCText(cells[(i + 1) \div 2], m) ELSE o])

\* $(1.5) is $1
MCIndex(c) == IF c = MCStr(<<"2", "x">>) THEN 2
              ELSE IF c = OneAndHalf THEN 1
              ELSE IF "num" \in DOMAIN c THEN c.num ELSE 0
=============================================================================
