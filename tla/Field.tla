-------------------------------- MODULE Field --------------------------------
(***************************************************************************)
(* field.c: $0, the fields, NF and the settings that split and rebuild     *)
(* them, with the opcodes of execute.c that read a field (F_PUSHI,         *)
(* FE_PUSHI, NF_PUSHI), push its address (F_PUSHA, FE_PUSHA) and store     *)
(* through that address (F_ASSIGN, F_xxx_ASG, getline, sub).               *)
(*                                                                         *)
(* nf < 0 says that $0 has not been split.  Field cells live in banks of   *)
(* FBANK_SZ cells, whose addresses are in the vector fbankv; banks and     *)
(* vector only grow, and a cell beyond nf keeps its last value.  Pushing   *)
(* an address and storing through it are two steps: the right hand side is *)
(* evaluated in between, and may read a record, set NF or assign fields.   *)
(***************************************************************************)
EXTENDS Integers, Sequences, Functions

CONSTANTS Records,       \* the texts of the records the input delivers
          Cells, Null, Split(_, _), Join(_, _, _), Text(_, _), Str(_), Num(_),
          Index(_), FSs, OFSs, Formats,    \* as in AwkRecord
          DefaultFormat,      \* %.6g, which CONVFMT becomes when given a number
          Number, Illegal,    \* a number, and a text that is no format for one
          FBANK_SZ,           \* cells per bank, 1024 in sizes.h
          FBANKV_CHUNK_SIZE,  \* slots added to the vector at a time, 1024
          MaxF,               \* bound: the highest field of the model
          MaxDepth            \* bound: assignments nested in right hand sides

Assigned == Cells \cup {Str(t) : t \in Records}     \* the values $0 is given

AnyCell == Cells \cup {Null} \cup {Num(i) : i \in 0..MaxF}
           \cup UNION {Range(Split(Text(c, m), v)) :
                        c \in Assigned, m \in Formats, v \in FSs}

ASSUME FieldAssumption ==
    /\ DefaultFormat \in Formats
    /\ FBANK_SZ \in Nat \ {0} /\ FBANKV_CHUNK_SIZE \in Nat \ {0}
    /\ MaxF \in Nat /\ MaxDepth \in Nat
    /\ \A c \in Assigned, m \in Formats, v \in FSs :
          /\ Split(Text(c, m), v) \in Seq(AnyCell)
          /\ Len(Split(Text(c, m), v)) <= MaxF
    /\ \A i \in 0..MaxF : Index(Num(i)) = i
    /\ \A c \in Cells : Index(c) \in Int /\ Index(c) <= MaxF
    /\ \A m \in Formats, v \in FSs : Split(Text(Null, m), v) = <<>>
    /\ \A m \in Formats, o \in OFSs : Str(Join(<<>>, o, m)) = Null

VARIABLES f0,        \* field[0]
          f,         \* the cells of $1 .. $MaxF
          nf,        \* -1: $0 not split
          nfCell,    \* the pseudo field NF
          fs, ofs, convfmt,
          mem,       \* [banks, chunks]: banks allocated, vector size in chunks
          overrun,   \* ghost: a slot beyond the end of fbankv has been read
          addr,      \* the addresses on the evaluation stack, the top first
          out

settings == <<fs, ofs, convfmt>>
vars == <<f0, f, nf, nfCell, fs, ofs, convfmt, mem, overrun, addr, out>>

NFaddr == 0        \* the address of NF; those of $1 .. are 1 ..

max_field == mem.banks * FBANK_SZ - 1
Slots(m) == m.chunks * FBANKV_CHUNK_SIZE

\* a variant: <= for <
GrownLate(m, i) ==
    IF i <= m.banks * FBANK_SZ THEN m
    ELSE [banks |-> i \div FBANK_SZ + 1, chunks |-> m.chunks + 1]

\* slow_field_ptr(i) and allocate_fbankv(i): banks up to that of $i
Grown(m, i) ==
    IF i < m.banks * FBANK_SZ THEN m
    ELSE LET chunks == (i + 1) \div (FBANK_SZ * FBANKV_CHUNK_SIZE) + 1
         IN [banks |-> i \div FBANK_SZ + 1,
             chunks |-> IF chunks > m.chunks THEN chunks ELSE m.chunks]

\* field_ptr(i) for i up to n: the first cell of the last bank is what grows it
GrownTo(m, n) == Grown(m, (n \div FBANK_SZ) * FBANK_SZ)

-----------------------------------------------------------------------------
(* if (nf < 0) split_field0();  the fields, nf and NF after it             *)

Pieces == Split(Text(f0, convfmt), fs)

nfSplit   == IF nf < 0 THEN Len(Pieces) ELSE nf
NFStale   == nfCell               \* a variant: NF is not set by the split
NFSplit   == IF nf < 0 THEN Num(nfSplit) ELSE nfCell
memSplit  == IF nf < 0 THEN Grown(mem, nfSplit) ELSE mem
fSplit    == IF nf < 0
             THEN [i \in 1..MaxF |-> IF i <= nfSplit THEN Pieces[i] ELSE f[i]]
             ELSE f

\* a variant: it goes two banks beyond
SplitOverrunsEarly ==
    /\ nf < 0 /\ nfSplit > 0
    /\ (nfSplit + 1) \div FBANK_SZ + 1 >= Slots(memSplit)

\* transfer_to_fields ends by loading the address of the bank of $(cnt+1)
SplitOverruns ==
    /\ nf < 0 /\ nfSplit > 0
    /\ (nfSplit + 1) \div FBANK_SZ >= Slots(memSplit)

SplitFirst == /\ nf' = nfSplit /\ f' = fSplit /\ nfCell' = NFSplit
              /\ mem' = memSplit /\ overrun' = (overrun \/ SplitOverruns)

\* the value of $0 that build_field0 makes of the first n cells of g
build_field0(g, n) ==
    IF n = 0 THEN Null
    ELSE IF n = 1 THEN g[1]
    ELSE Str(Join([i \in 1..n |-> g[i]], ofs, convfmt))

-----------------------------------------------------------------------------

Init == /\ f0 = Null /\ f = [i \in 1..MaxF |-> Null]
        /\ nf = 0 /\ nfCell = Num(0)
        /\ fs \in FSs /\ ofs \in OFSs /\ convfmt \in Formats
        /\ mem = [banks |-> 1, chunks |-> 1] /\ overrun = FALSE
        /\ addr = <<>> /\ out = <<"done">>

Running == out \notin {<<"error">>, <<"illegal format">>}
Done == out' = <<"done">>
AddrKept == UNCHANGED addr
PushNext(a) == Len(addr) < MaxDepth /\ addr' = <<a + 1>> \o addr   \* a variant
Push(a)  == Len(addr) < MaxDepth /\ addr' = <<a>> \o addr
Pop      == addr' = Tail(addr)

\* set_field0: the main loop or getline delivers a record
set_field0(t) ==
    /\ Running /\ f0' = Str(t) /\ nf' = -1 /\ Done /\ AddrKept
    /\ UNCHANGED <<f, nfCell, fs, ofs, convfmt, mem, overrun>>

\* field_assign(field, c)
AssignRecord(c) ==
    /\ Running /\ f0' = c /\ nf' = -1 /\ Done /\ AddrKept
    /\ UNCHANGED <<f, nfCell, fs, ofs, convfmt, mem, overrun>>

\* variants: the pending split is left for later
AssignFSOnly(v) == /\ Running /\ fs' = v /\ Done /\ AddrKept
                   /\ UNCHANGED <<f0, f, nf, nfCell, ofs, convfmt, mem, overrun>>

\* field_assign of FS or CONVFMT: the pending split is done with the old one.
\* OFS is an ordinary variable.
AssignFS(v) == /\ Running /\ SplitFirst /\ fs' = v /\ Done /\ AddrKept
               /\ UNCHANGED <<f0, ofs, convfmt>>
\* A text that valid_format, or the trial with 3.1459, refuses is a run time error.
AssignCONVFMT(v) ==
    /\ Running /\ SplitFirst /\ AddrKept
    /\ IF v = Illegal THEN out' = <<"illegal format">> /\ UNCHANGED convfmt
       ELSE convfmt' = (IF v = Number THEN DefaultFormat ELSE v) /\ Done
    /\ UNCHANGED <<f0, fs, ofs>>
AssignOFS(v) == /\ Running /\ ofs' = v /\ Done /\ AddrKept
                /\ UNCHANGED <<f0, f, nf, nfCell, fs, convfmt, mem, overrun>>

\* F_PUSHA, FE_PUSHA: a field beyond nf is blanked, so that ++ and sub work
PushField(i) ==
    /\ Running /\ Push(i)
    /\ nf' = nfSplit /\ nfCell' = NFSplit
    /\ f' = IF i > nfSplit THEN [fSplit EXCEPT ![i] = Null] ELSE fSplit
    /\ mem' = Grown(memSplit, i) /\ overrun' = (overrun \/ SplitOverruns)
    /\ UNCHANGED <<f0, fs, ofs, convfmt, out>>

PushNF == /\ Running /\ Push(NFaddr)
          /\ SplitFirst
          /\ UNCHANGED <<f0, fs, ofs, convfmt, out>>

\* field_assign(NF, c)
StoreNF(c) ==
    LET n == Index(c)
        g == [i \in 1..MaxF |-> IF i > nfSplit /\ i <= n THEN Null ELSE fSplit[i]]
    IN /\ Running /\ addr # <<>> /\ Head(addr) = NFaddr /\ Pop
       /\ overrun' = (overrun \/ SplitOverruns)
       /\ IF n < 0
          THEN /\ out' = <<"error">>           \* negative value assigned to NF
               /\ nf' = nfSplit /\ f' = fSplit /\ nfCell' = NFSplit
               /\ mem' = memSplit /\ UNCHANGED f0
          ELSE /\ nfCell' = c /\ f' = g /\ nf' = n
               /\ mem' = IF n > nfSplit THEN GrownTo(memSplit, n) ELSE memSplit
               /\ f0' = build_field0(g, n) /\ Done
       /\ UNCHANGED settings

\* field_assign($i, c): the gap between nf and i becomes ""
StoreField(c) ==
    LET i == Head(addr)
        g == [j \in 1..MaxF |-> IF j = i THEN c
                                ELSE IF j > nfSplit /\ j < i THEN Null
                                ELSE fSplit[j]]
        n == IF i > nfSplit THEN i ELSE nfSplit
    IN /\ Running /\ addr # <<>> /\ i # NFaddr /\ Pop
       /\ f' = g /\ nf' = n /\ f0' = build_field0(g, n)
       /\ nfCell' = IF i > nfSplit THEN Num(i) ELSE NFSplit
       /\ mem' = memSplit /\ overrun' = (overrun \/ SplitOverruns)
       /\ Done /\ UNCHANGED settings

\* F_PUSHI, FE_PUSHI
GetField(i) == /\ Running /\ SplitFirst /\ AddrKept
               /\ out' = <<"get", IF i <= nfSplit THEN fSplit[i] ELSE Null>>
               /\ UNCHANGED <<f0, fs, ofs, convfmt>>

\* NF_PUSHI
GetNF == /\ Running /\ SplitFirst /\ AddrKept
         /\ out' = <<"get", NFSplit>>
         /\ UNCHANGED <<f0, fs, ofs, convfmt>>

\* _PUSHI of field[0]
GetRecord == /\ Running /\ out' = <<"get", f0>> /\ AddrKept
             /\ UNCHANGED <<f0, f, nf, nfCell, fs, ofs, convfmt, mem, overrun>>

Next == \/ \E t \in Records : set_field0(t)
        \/ \E c \in Cells : AssignRecord(c) \/ StoreNF(c) \/ StoreField(c)
        \/ \E v \in FSs : AssignFS(v)
        \/ \E v \in OFSs : AssignOFS(v)
        \/ \E v \in Formats \cup {Number, Illegal} : AssignCONVFMT(v)
        \/ \E i \in 1..MaxF : PushField(i) \/ GetField(i)
        \/ PushNF \/ GetNF \/ GetRecord

Spec == Init /\ [][Next]_vars

-----------------------------------------------------------------------------
(* Properties                                                              *)

\* Every variable keeps the type field.c gives it.
TypeOK ==
    /\ f \in [1..MaxF -> AnyCell] /\ nf \in -1..MaxF
    /\ nfCell \in AnyCell /\ fs \in FSs /\ ofs \in OFSs /\ convfmt \in Formats
    /\ mem \in [banks : Nat \ {0}, chunks : Nat \ {0}] /\ overrun \in BOOLEAN
    /\ addr \in Seq(0..MaxF)

\* "nf shadows NF": once $0 is split the two agree, through every assignment
\* of NF, of a field beyond it, and every pending split.
NFShadow == nf >= 0 => Index(nfCell) = nf

\* A field that is counted, or whose address is on the stack, has a cell in an
\* allocated bank, and every bank has a slot in fbankv: growing the fields one
\* way (a split) and the other (an assignment) never leaves a hole.
CellsExist ==
    /\ nf <= max_field
    /\ \A j \in 1..Len(addr) : addr[j] <= max_field
    /\ mem.banks <= Slots(mem)

\* The only read beyond the end of fbankv is the address transfer_to_fields
\* loads after the last cell of the last bank the vector has room for.
OverrunAtTheVeryEnd ==
    [][~overrun /\ overrun' => nfSplit + 1 = Slots(memSplit) * FBANK_SZ]_vars

\* The lazy record is the eager one: whenever the program looks at $0, at a
\* field or at NF, it sees what splitting at once would have shown, also when
\* FS, CONVFMT, NF or a field changed between the read and the look.
Fields == IF nf < 0 THEN Pieces ELSE [i \in 1..nf |-> f[i]]
Eager == INSTANCE AwkRecord WITH
            Cells <- Cells \cup {Str(t) : t \in Records},
            rec <- f0, fld <- Fields, nfCell <- NFSplit
LazyIsEager == Eager!Spec
=============================================================================
