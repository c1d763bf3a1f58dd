--------------------------------- MODULE Fin ---------------------------------
(***************************************************************************)
(* fin.c: FINgets takes the next record from a buffered input.  One        *)
(* behaviour is the life of one FIN that is not the main input: FINdopen,  *)
(* then calls of FINgets with assignments of RS in between.                *)
(*                                                                         *)
(* The buffer holds data, the bytes up to limit; bufp counts the ones      *)
(* already returned (p inside FINgets).  A block input is read by refills  *)
(* of the whole buffer; a record that does not end in the buffer makes the *)
(* buffer move its tail to the front and fill up, or grow.  An interactive *)
(* input is read with fgets, BUFFSZ bytes at a time.                       *)
(*                                                                         *)
(* FINgets has four ways of going by where the buffer happens to end      *)
(* instead of by the text.  The model stops there, with fault set:         *)
(*   trim: the newlines in front fill the buffer, and the ones after the   *)
(*         refill are not trimmed;                                         *)
(*   peek: with more of the text the match of an expression would go on,   *)
(*         or another one begin before it; that is only looked for where   *)
(*         the match ends with the buffer, and then at the byte behind the *)
(*         buffer, which is not its own;                                   *)
(*   bol:  a record in the middle of the text is at the front of the       *)
(*         buffer and is taken for the first one, and ^ matches;           *)
(*   nul:  an interactive line holds a NUL, which ends what fgets read, and *)
(*         the rest of the line is overwritten ("we cannot detect embedded *)
(*         nulls in the input").                                           *)
(***************************************************************************)
EXTENDS Integers, Sequences

CONSTANTS Files, Seps, Match(_, _, _), NL,    \* as in AwkInput
          NUL,
          Beyond,      \* what the byte behind the buffer may be: NUL, other
          JUMPSZ,      \* buffer size and increment, 64 * BUFFSZ
          BUFFSZ       \* bytes per fgets

Byte == STRING
ASSUME FinAssumption ==
    /\ JUMPSZ \in Nat \ {0} /\ BUFFSZ \in 1..JUMPSZ
    /\ Files \subseteq Seq(Byte)

\* Of a part t of a text, u when followed by the rest: a separator is not
\* empty; where ^ may not match there is one only if there is one where it may;
\* a character or a string (memchr, str_str) is where it is, whatever follows.
IsSeparator(m, t) == m = <<0, 0>> \/ (m[1] \in 1..Len(t) /\ m[2] \in 1..Len(t) - m[1] + 1)
SeparatorsIn(kind, t, u) ==
    /\ \A b \in BOOLEAN : IsSeparator(Match(kind, t, b), t)
    /\ Match(kind, t, TRUE) = <<0, 0>> => Match(kind, t, FALSE) = <<0, 0>>
    /\ kind \notin {"mlr", "re"} => \A b, c \in BOOLEAN :
         Match(kind, t, b) # <<0, 0>> => Match(kind, u, c) = Match(kind, t, b)
Separators ==
    \A f \in Files : \A i \in 1..Len(f) + 1 : \A j \in i - 1..Len(f) : \A kind \in Seps :
        SeparatorsIn(kind, SubSeq(f, i, j), SubSeq(f, i, Len(f)))
ASSUME MatchAssumption == Separators

VARIABLES file,        \* ghost: the whole text
          input,       \* what read(2) has not delivered
          lines,       \* fin->fp: interactive
          data, bufp, size, flags,
          rs, pc, out, fault

vars == <<file, input, lines, data, bufp, size, flags, rs, pc, out, fault>>

Take(t, k) == SubSeq(t, 1, IF k < Len(t) THEN k ELSE Len(t))
Drop(t, k) == SubSeq(t, k + 1, Len(t))

\* a variant: the end of the input goes unnoticed
ShortUnseen(k) == {}

\* fillbuff reads until it has k bytes or the input ends; less than k: EOF_FLAG
Short(k) == IF Len(input) < k THEN {"EOF"} ELSE {}

AtLimit == bufp = Len(data)
AtEof   == "EOF" \in flags
Text    == Drop(data, bufp)

\* FINdopen
Init == /\ file \in Files /\ input = file /\ lines \in BOOLEAN
        /\ data = <<>> /\ bufp = 0 /\ size = JUMPSZ /\ flags = {"START"}
        /\ rs \in Seps /\ pc = "idle" /\ out = <<"none">> /\ fault = "none"

Fault(f) == fault' = f /\ UNCHANGED <<file, input, lines, data, bufp, size, flags, rs, pc, out>>
Fine == UNCHANGED <<file, lines, rs, fault>>
Return(o) == pc' = "idle" /\ out' = o

Call == /\ pc = "idle" /\ fault = "none" /\ pc' = "restart"
        /\ UNCHANGED <<input, data, bufp, size, flags, out>> /\ Fine

\* set_rs_shadow, between two reads
AssignRS(v) == /\ pc = "idle" /\ fault = "none" /\ rs' = v
               /\ UNCHANGED <<file, input, lines, data, bufp, size, flags, pc, out, fault>>

-----------------------------------------------------------------------------
(* restart: there must be something in the buffer                          *)

Restart == pc = "restart" /\ fault = "none"

Available == /\ Restart /\ ~AtLimit /\ pc' = "retry"
             /\ UNCHANGED <<input, data, bufp, size, flags, out>> /\ Fine

EndOfFile == /\ Restart /\ AtLimit /\ AtEof /\ Return(<<"eof">>)
             /\ UNCHANGED <<input, data, bufp, size, flags>> /\ Fine

\* a variant: EOF_FLAG is not set
RefillEmptyUnseen ==
    /\ Restart /\ AtLimit /\ ~AtEof /\ ~lines /\ input = <<>>
    /\ data' = <<>> /\ bufp' = 0
    /\ UNCHANGED <<input, flags, size, pc, out>> /\ Fine

RefillEmpty ==
    /\ Restart /\ AtLimit /\ ~AtEof /\ ~lines /\ input = <<>>
    /\ flags' = flags \cup {"EOF"} /\ data' = <<>> /\ bufp' = 0
    /\ UNCHANGED <<input, size, pc, out>> /\ Fine

\* a variant: for every RS
TrimmedAlways(t) ==
    IF "START" \in flags
    THEN CHOOSE k \in 0..Len(t) : /\ \A j \in 1..k : t[j] = NL
                                  /\ k < Len(t) => t[k + 1] # NL
    ELSE 0

\* how many newlines the first refill skips
Trimmed(t) ==
    IF "START" \in flags /\ rs = "mlr"
    THEN CHOOSE k \in 0..Len(t) : /\ \A j \in 1..k : t[j] = NL
                                  /\ k < Len(t) => t[k + 1] # NL
    ELSE 0

Refill ==
    LET t == Take(input, size)
        k == Trimmed(t)
    IN /\ Restart /\ AtLimit /\ ~AtEof /\ ~lines /\ input # <<>>
       /\ IF k = size /\ Len(input) > size /\ input[size + 1] = NL THEN Fault("trim")
          ELSE /\ data' = t /\ input' = Drop(input, size) /\ bufp' = k
               /\ flags' = (flags \ {"START"}) \cup Short(size)
               /\ pc' = IF k = Len(t) THEN "restart" ELSE "retry"
               /\ UNCHANGED <<size, out>> /\ Fine

\* fgets: at most BUFFSZ bytes, up to a newline
GetLine ==
    LET had == IF pc = "line" THEN data ELSE <<>>
        nl == {i \in 1..Len(Take(input, BUFFSZ)) : input[i] = NL}
        k == IF nl = {} THEN BUFFSZ ELSE CHOOSE i \in nl : \A j \in nl : i <= j
        t == had \o Take(input, IF nl = {} THEN k ELSE k - 1)
        nul == \E i \in 1..Len(Take(input, k)) : input[i] = NUL
    IN /\ fault = "none" /\ lines
       /\ pc = "line" \/ (Restart /\ AtLimit /\ ~AtEof)
       /\ IF nul THEN Fault("nul")
          ELSE IF input = <<>> /\ had = <<>>
          THEN /\ flags' = flags \cup {"EOF"} /\ data' = <<>> /\ bufp' = 0
               /\ pc' = "restart" /\ UNCHANGED <<input, size, out>> /\ Fine
          ELSE /\ data' = t /\ input' = Drop(input, k) /\ UNCHANGED flags /\ Fine
               /\ IF nl # {} \/ input = <<>>
                  THEN bufp' = Len(t) /\ Return(<<"record", t>>) /\ UNCHANGED size
                  ELSE /\ size' = size + JUMPSZ /\ pc' = "line"
                       /\ bufp' = 0 /\ UNCHANGED out

-----------------------------------------------------------------------------
(* retry: look for the separator in what the buffer has                    *)

Retry == pc = "retry" /\ fault = "none"

bol == bufp = 0 /\ "FIN" \notin flags
q   == Match(rs, Text, bol)

\* the match of an expression may go on behind it
Longer == rs \in {"mlr", "re"} /\ ~AtEof
EndsAtLimit == q[1] + q[2] > Len(Text)
NulFollows == ~EndsAtLimit /\ Text[q[1] + q[2]] = NUL

\* the match is cancelled, when b is the byte behind the buffer
Cancelled(b) == Longer /\ (NulFollows \/ (EndsAtLimit /\ b = NUL))
Found(b) == q[1] # 0 /\ ~Cancelled(b)

\* nothing of the text has been returned
AtFront == Len(Text) + Len(input) = Len(file)
FalseBol == bol /\ ~AtFront /\ q # Match(rs, Text, FALSE)
CutShort == rs \in {"mlr", "re"} /\ q # Match(rs, Text \o input, AtFront)

Record(b) ==
    /\ Retry /\ Found(b)
    /\ IF FalseBol THEN Fault("bol")
       ELSE IF CutShort THEN Fault("peek")
       ELSE /\ Return(<<"record", Take(Text, q[1] - 1)>>)
            /\ bufp' = bufp + q[1] + q[2] - 1
            /\ UNCHANGED <<input, data, size, flags>> /\ Fine

\* last line without a record terminator
LastRecord(b) ==
    LET cut == rs = "mlr" /\ data[Len(data)] = NL
        end == IF cut THEN Len(data) - 1 ELSE Len(data)
    IN /\ Retry /\ ~Found(b) /\ AtEof
       /\ Return(<<"record", SubSeq(data, bufp + 1, end)>>)
       /\ data' = Take(data, end) /\ bufp' = end
       /\ UNCHANGED <<input, size, flags>> /\ Fine

\* enlarge_fin_buffer
Enlarge(b) ==
    /\ Retry /\ ~Found(b) /\ ~AtEof /\ bufp = 0
    /\ size' = size + JUMPSZ
    /\ data' = data \o Take(input, JUMPSZ) /\ input' = Drop(input, JUMPSZ)
    /\ flags' = flags \cup Short(JUMPSZ)
    /\ UNCHANGED <<bufp, pc, out>> /\ Fine

Room == size - Len(Text)

\* move a partial line to the front of the buffer and fill up
Move(b) ==
    /\ Retry /\ ~Found(b) /\ ~AtEof /\ bufp > 0
    /\ data' = Text \o Take(input, Room) /\ input' = Drop(input, Room)
    /\ bufp' = 0 /\ flags' = flags \cup {"FIN"} \cup Short(Room)
    /\ UNCHANGED <<size, pc, out>> /\ Fine

Step == \/ Available \/ EndOfFile \/ RefillEmpty \/ Refill \/ GetLine
        \/ \E b \in Beyond : Record(b) \/ LastRecord(b) \/ Enlarge(b) \/ Move(b)

\* fillbuff: read(2) fails, and mawk exits with status 2
ReadError ==
    /\ ~lines /\ ~AtEof
    /\ (Restart /\ AtLimit) \/ (Retry /\ \E b \in Beyond : ~Found(b))
    /\ pc' = "exit" /\ out' = <<"read error">>
    /\ UNCHANGED <<input, data, bufp, size, flags>> /\ Fine

\* getline closes what is at its end, but the program may ask again
FINsemi_close == /\ pc = "idle" /\ fault = "none" /\ out = <<"eof">>
                 /\ data' = <<>> /\ bufp' = 0 /\ flags' = flags \cup {"EOF"}
                 /\ UNCHANGED <<input, size, pc, out>> /\ Fine

Next == Call \/ Step \/ ReadError \/ FINsemi_close \/ \E v \in Seps : AssignRS(v)

Spec == Init /\ [][Next]_vars

\* FINgets is sequential code, and the input has an end; nothing makes a read fail
FairSpec == Spec /\ WF_vars(Step)

-----------------------------------------------------------------------------
(* Properties                                                              *)

\* The fields of FIN have the types fin.h gives them.
TypeOK ==
    /\ Len(data) <= size /\ bufp \in 0..Len(data)
    /\ size >= JUMPSZ /\ size % JUMPSZ = 0
    /\ flags \subseteq {"START", "FIN", "EOF"}
    /\ pc \in {"idle", "restart", "retry", "line", "exit"}
    /\ fault \in {"none", "trim", "peek", "bol", "nul"}

\* Once a block input has been read from, and as long as its end has not been
\* seen, the buffer is full: limit never needs to be set by the move that fills
\* it, and the byte behind the data is the one behind the buffer.
FullBeforeEof ==
    ~lines /\ "START" \notin flags /\ ~AtEof => Len(data) = size
BufferConsistent == TypeOK /\ FullBeforeEof

\* Whatever the buffer size, and whether it moved, grew or was refilled in
\* between, the records are those of the whole text: no byte lost, doubled or
\* taken for another record where two reads meet.
Kept  == IF pc = "line" THEN data ELSE Text
Input == INSTANCE AwkInput WITH
            rest  <- Kept \o input,
            bof   <- Len(Kept) + Len(input) = Len(file),
            begun <- lines \/ "START" \notin flags
ReadsTheText == Input!Spec

\* Every read is answered, or fails and ends mawk, also when separators keep
\* being cancelled because there might be more to come.
Answers == pc = "restart" ~> (pc \in {"idle", "exit"} \/ fault # "none")
=============================================================================
