----------------------------- MODULE FieldProofs -----------------------------
(***************************************************************************)
(* Proofs about Field, for every bank size, every chunk size, every way of *)
(* splitting, joining and formatting; and about Splitter, for every block  *)
(* size, every text and every expression, known by its matches.            *)
(***************************************************************************)
EXTENDS Field, Splitter, Facts, FiniteSetTheorems, TLAPS

\* A quotient is where its dividend lies.
LEMMA DivBounds ==
    ASSUME NEW i \in Nat, NEW b \in Nat \ {0}
    PROVE  /\ i \div b \in Nat
           /\ (i \div b) * b <= i
           /\ i < (i \div b + 1) * b
  BY SMTT(20)

\* A positive factor may be cancelled.
LEMMA Cancel ==
    ASSUME NEW x \in Int, NEW y \in Int, NEW b \in Nat \ {0}, x * b < y * b
    PROVE  x < y
  BY SMTT(20)

\* Multiplying by a natural number keeps the order.
LEMMA MulMono ==
    ASSUME NEW x \in Int, NEW y \in Int, NEW b \in Nat, x <= y
    PROVE  x * b <= y * b
  BY SMTT(20)

Mem == [banks : Nat \ {0}, chunks : Nat \ {0}]

\* Growing to $i gives it a cell, keeps the banks there are, and leaves a slot
\* in fbankv for every bank.
LEMMA GrownCovers ==
    ASSUME NEW m \in Mem, m.banks <= Slots(m), NEW i \in Nat
    PROVE  /\ Grown(m, i) \in Mem
           /\ m.banks <= Grown(m, i).banks
           /\ i < Grown(m, i).banks * FBANK_SZ
           /\ Grown(m, i).banks <= Slots(Grown(m, i))
  <1> DEFINE B == FBANK_SZ
             C == FBANKV_CHUNK_SIZE
             q == i \div B
             k == (i + 1) \div (B * C) + 1
             g == Grown(m, i)
  <1>0. B \in Nat \ {0} /\ C \in Nat \ {0}
    BY FieldAssumption
  <1>1. CASE i < m.banks * B
    BY <1>1, <1>0 DEF Grown, Mem
  <1>2. CASE ~(i < m.banks * B)
    <2>1. B * C \in Nat \ {0}
      BY <1>0, SMTT(20)
    <2>2. q \in Nat /\ q * B <= i /\ i < (q + 1) * B
      BY <1>0, DivBounds
    <2>3. k \in Nat \ {0} /\ i + 1 < k * (B * C)
      BY <2>1, DivBounds, i + 1 \in Nat
    <2>4. q + 1 <= k * C
      <3>1. k * (B * C) = (k * C) * B /\ k * C \in Nat
        BY <1>0, <2>3, SMTT(20)
      <3>2. q * B < (k * C) * B
        BY <2>2, <2>3, <3>1, <1>0, SMTT(20)
      <3>3. q < k * C
        BY <3>1, <3>2, <2>2, <1>0, Cancel
      <3> QED BY <3>3, <3>1, <2>2
    <2>5. m.banks <= q + 1
      <3>1. m.banks * B < (q + 1) * B
        BY <1>2, <2>2, <1>0, SMTT(20) DEF Mem
      <3> QED BY <3>1, <1>0, <2>2, Cancel DEF Mem
    <2>6. g.banks = q + 1 /\ g.chunks \in Nat \ {0} /\ k <= g.chunks /\ g \in Mem
      BY <1>2, <2>2, <2>3 DEF Grown, Mem
    <2>7. k * C <= g.chunks * C
      BY <2>3, <2>6, <1>0, MulMono
    <2>8. g.banks <= g.chunks * C
      BY <2>4, <2>6, <2>7, <2>2, <2>3, <1>0
    <2> QED BY <2>2, <2>5, <2>6, <2>8 DEF Slots
  <1> QED BY <1>1, <1>2

\* The same when the cells up to $n are asked for one after the other.
LEMMA GrownToCovers ==
    ASSUME NEW m \in Mem, m.banks <= Slots(m), NEW max \in Nat
    PROVE  /\ GrownTo(m, max) \in Mem
           /\ m.banks <= GrownTo(m, max).banks
           /\ max < GrownTo(m, max).banks * FBANK_SZ
           /\ GrownTo(m, max).banks <= Slots(GrownTo(m, max))
  <1> DEFINE B == FBANK_SZ
             q == max \div B
             g == GrownTo(m, max)
  <1>0. B \in Nat \ {0}
    BY FieldAssumption
  <1>1. q \in Nat /\ q * B <= max /\ max < (q + 1) * B /\ q * B \in Nat
    BY <1>0, DivBounds, SMTT(20)
  <1>2. /\ g \in Mem /\ m.banks <= g.banks
        /\ q * B < g.banks * B /\ g.banks <= Slots(g)
    BY <1>0, <1>1, GrownCovers DEF GrownTo
  <1>3. q < g.banks
    BY <1>0, <1>1, <1>2, Cancel DEF Mem
  <1>4. (q + 1) * B <= g.banks * B
    BY <1>0, <1>1, <1>2, <1>3, MulMono DEF Mem
  <1>5. max < g.banks * B
    BY <1>0, <1>1, <1>2, <1>4, SMTT(20) DEF Mem
  <1> QED BY <1>2, <1>5

-----------------------------------------------------------------------------
(* The inductive invariant: a $0 that is not split is one the program or   *)
(* the input assigned, never one built from fields.                        *)

IInv == TypeOK /\ NFShadow /\ CellsExist /\ (nf < 0 => f0 \in Assigned)

\* The empty cell, the cells of the numbers up to MaxF and what a program may
\* assign are all cells.
LEMMA AnyCellMembers ==
    /\ Null \in AnyCell
    /\ \A c \in Cells : c \in AnyCell
    /\ \A i \in 0..MaxF : Num(i) \in AnyCell
  BY DEF AnyCell

\* What the program sees after "if (nf < 0) split_field0()".
LEMMA SplitFacts ==
    ASSUME IInv
    PROVE  /\ nfSplit \in 0..MaxF
           /\ fSplit \in [1..MaxF -> AnyCell]
           /\ NFSplit \in AnyCell
           /\ Index(NFSplit) = nfSplit
           /\ memSplit \in Mem
           /\ mem.banks <= memSplit.banks
           /\ nfSplit < memSplit.banks * FBANK_SZ
           /\ memSplit.banks <= Slots(memSplit)
  <1>0. FBANK_SZ \in Nat \ {0} /\ mem \in Mem /\ mem.banks <= Slots(mem)
    BY FieldAssumption DEF IInv, TypeOK, CellsExist, Mem
  <1>1. CASE nf < 0
    <2>1. Pieces \in Seq(AnyCell) /\ Len(Pieces) \in 0..MaxF
      BY <1>1, FieldAssumption DEF IInv, TypeOK, Pieces
    <2>2. nfSplit = Len(Pieces) /\ NFSplit = Num(nfSplit)
          /\ memSplit = Grown(mem, nfSplit)
      BY <1>1 DEF nfSplit, NFSplit, memSplit
    <2>3. fSplit \in [1..MaxF -> AnyCell]
      BY <1>1, <2>1, <2>2 DEF fSplit, IInv, TypeOK
    <2>4. NFSplit \in AnyCell /\ Index(NFSplit) = nfSplit
      BY <2>1, <2>2, AnyCellMembers, FieldAssumption
    <2> QED BY <1>0, <2>1, <2>2, <2>3, <2>4, GrownCovers
  <1>2. CASE ~(nf < 0)
    <2>1. nfSplit = nf /\ NFSplit = nfCell /\ memSplit = mem /\ fSplit = f
      BY <1>2 DEF nfSplit, NFSplit, memSplit, fSplit
    <2>2. nf \in 0..MaxF /\ f \in [1..MaxF -> AnyCell] /\ nfCell \in AnyCell
      BY <1>2, FieldAssumption DEF IInv, TypeOK
    <2>3. Index(nfCell) = nf /\ nf < mem.banks * FBANK_SZ
      BY <1>0, <1>2, <2>2 DEF IInv, NFShadow, CellsExist, max_field, Mem
    <2> QED BY <1>0, <2>1, <2>2, <2>3 DEF Mem
  <1> QED BY <1>1, <1>2

\* Banks that grow keep a cell for every address on the stack.
LEMMA AddrCovered ==
    ASSUME IInv, mem' \in Mem, mem.banks <= mem'.banks
    PROVE  \A j \in 1..Len(addr) : addr[j] <= max_field'
  <1>0. FBANK_SZ \in Nat /\ mem.banks \in Int /\ mem'.banks \in Int
    BY FieldAssumption DEF IInv, TypeOK, Mem
  <1>1. mem.banks * FBANK_SZ <= mem'.banks * FBANK_SZ
    BY <1>0, MulMono
  <1>2. /\ mem.banks * FBANK_SZ \in Int /\ mem'.banks * FBANK_SZ \in Int
        /\ addr \in Seq(0..MaxF) /\ MaxF \in Nat
    BY FieldAssumption, SMTT(20) DEF IInv, TypeOK, Mem
  <1>3. \A j \in 1..Len(addr) : addr[j] \in Int /\ addr[j] <= mem.banks * FBANK_SZ - 1
    BY <1>2 DEF IInv, CellsExist, max_field
  <1> QED BY SMTT(30), ZenonT(30), <1>1, <1>2, <1>3 DEF max_field

\* A step that splits $0 and leaves $0 and the address stack alone.
LEMMA SplitStep ==
    ASSUME IInv, SplitFirst, UNCHANGED <<f0, addr>>,
           fs' \in FSs, ofs' \in OFSs, convfmt' \in Formats
    PROVE  IInv'
  <1>1. /\ nf' \in 0..MaxF /\ f' \in [1..MaxF -> AnyCell] /\ nfCell' \in AnyCell
        /\ Index(nfCell') = nf' /\ mem' \in Mem /\ mem.banks <= mem'.banks
        /\ nf' < mem'.banks * FBANK_SZ /\ mem'.banks <= Slots(mem')
    BY SplitFacts DEF SplitFirst
  <1>2. TypeOK'
    BY <1>1 DEF TypeOK, IInv, Mem, SplitFirst
  <1>3. CellsExist'
    <2>1. mem'.banks * FBANK_SZ \in Int
      BY <1>1, FieldAssumption, SMTT(20) DEF Mem
    <2> QED BY <1>1, <2>1, AddrCovered DEF CellsExist, max_field, Slots
  <1> QED BY <1>1, <1>2, <1>3 DEF IInv, NFShadow

\* A step that leaves the fields alone: at most $0 is given a new value.
LEMMA NoSplitStep ==
    ASSUME IInv, UNCHANGED <<f, nfCell, mem, overrun, addr>>,
           fs' \in FSs, ofs' \in OFSs, convfmt' \in Formats,
           \/ nf' = -1 /\ f0' \in Assigned
           \/ UNCHANGED <<nf, f0>>
    PROVE  IInv'
  <1>1. TypeOK'
    BY FieldAssumption DEF TypeOK, IInv
  <1>2. CellsExist'
    <2>1. mem.banks * FBANK_SZ \in Nat
      BY FieldAssumption, SMTT(20) DEF IInv, TypeOK
    <2> QED BY <2>1 DEF IInv, CellsExist, max_field, Slots
  <1>3. NFShadow' /\ (nf' < 0 => f0' \in Assigned)
    BY DEF IInv, NFShadow
  <1> QED BY <1>1, <1>2, <1>3 DEF IInv

\* A step after which $0 is split, the cell of $nf exists, and every address
\* is on the stack already or has a cell.
LEMMA StoreStep ==
    ASSUME IInv,
           nf' \in 0..MaxF, f' \in [1..MaxF -> AnyCell], nfCell' \in AnyCell,
           Index(nfCell') = nf', mem' \in Mem, mem.banks <= mem'.banks,
           nf' < mem'.banks * FBANK_SZ, mem'.banks <= Slots(mem'),
           overrun' \in BOOLEAN, addr' \in Seq(0..MaxF),
           \A j \in 1..Len(addr') : addr'[j] <= max_field',
           UNCHANGED settings
    PROVE  IInv'
  <1>1. TypeOK'
    BY DEF TypeOK, IInv, Mem, settings
  <1>2. CellsExist'
    <2>1. mem'.banks * FBANK_SZ \in Int
      BY FieldAssumption, SMTT(20) DEF Mem
    <2> QED BY <2>1 DEF CellsExist, max_field, Slots
  <1> QED BY <1>1, <1>2 DEF IInv, NFShadow

\* Popping the stack leaves addresses that were on it.
LEMMA PopCovered ==
    ASSUME IInv, addr # <<>>, Pop, mem' \in Mem, mem.banks <= mem'.banks
    PROVE  /\ addr' \in Seq(0..MaxF)
           /\ \A j \in 1..Len(addr') : addr'[j] <= max_field'
  <1>1. addr \in Seq(0..MaxF) /\ addr' = Tail(addr)
    BY DEF IInv, TypeOK, Pop
  <1>2. \A j \in 1..Len(addr') : addr'[j] = addr[j + 1] /\ j + 1 \in 1..Len(addr)
    BY <1>1
  <1> QED BY <1>1, <1>2, AddrCovered

\* Pushing the address of a field that has a cell.
LEMMA PushCovered ==
    ASSUME IInv, NEW i \in 0..MaxF, Push(i), i <= max_field',
           mem' \in Mem, mem.banks <= mem'.banks
    PROVE  /\ addr' \in Seq(0..MaxF)
           /\ \A j \in 1..Len(addr') : addr'[j] <= max_field'
  <1>1. addr \in Seq(0..MaxF) /\ addr' = <<i>> \o addr
    BY DEF IInv, TypeOK, Push
  <1>2. \A j \in 1..Len(addr') :
           \/ j = 1 /\ addr'[j] = i
           \/ j - 1 \in 1..Len(addr) /\ addr'[j] = addr[j - 1]
    BY <1>1
  <1> QED BY <1>1, <1>2, AddrCovered

-----------------------------------------------------------------------------
(* The invariant holds initially and is preserved by every operation.      *)

\* init: no fields, one bank, one chunk of fbankv.
LEMMA InitInv == Init => IInv
  <1> SUFFICES ASSUME Init PROVE IInv
    OBVIOUS
  <1>1. MaxF \in Nat /\ FBANK_SZ \in Nat \ {0} /\ FBANKV_CHUNK_SIZE \in Nat \ {0}
        /\ Index(Num(0)) = 0
    BY FieldAssumption
  <1>2. TypeOK
    <2>1. Null \in AnyCell /\ Num(0) \in AnyCell
      BY <1>1, AnyCellMembers
    <2>2. mem \in [banks : Nat \ {0}, chunks : Nat \ {0}]
      BY DEF Init
    <2>3. f \in [1..MaxF -> AnyCell]
      BY <2>1 DEF Init
    <2>4. nf \in -1..MaxF /\ nfCell \in AnyCell
      BY <1>1, <2>1 DEF Init
    <2>5. fs \in FSs /\ ofs \in OFSs /\ convfmt \in Formats /\ overrun \in BOOLEAN
      BY DEF Init
    <2>6. addr \in Seq(0..MaxF)
      BY DEF Init
    <2> QED BY <2>2, <2>3, <2>4, <2>5, <2>6 DEF TypeOK
  <1>3. CellsExist
    BY <1>1 DEF Init, CellsExist, max_field, Slots
  <1> QED BY <1>1, <1>2, <1>3 DEF IInv, NFShadow, Init

\* No operation of field.c, and no store through an address pushed earlier,
\* leaves the invariant.
LEMMA NextInv == IInv /\ [Next]_vars => IInv'
  <1> SUFFICES ASSUME IInv, [Next]_vars PROVE IInv'
    OBVIOUS
  <1> USE DEF AddrKept, Done
  <1>0. fs \in FSs /\ ofs \in OFSs /\ convfmt \in Formats
    BY DEF IInv, TypeOK
  <1>1. ASSUME NEW t \in Records, set_field0(t) PROVE IInv'
    BY <1>0, <1>1, NoSplitStep DEF set_field0, Assigned
  <1>2. ASSUME NEW c \in Cells, AssignRecord(c) PROVE IInv'
    BY <1>0, <1>2, NoSplitStep DEF AssignRecord, Assigned
  <1>3. ASSUME NEW v \in FSs, AssignFS(v) PROVE IInv'
    BY <1>0, <1>3, SplitStep DEF AssignFS
  <1>4. ASSUME NEW v \in OFSs, AssignOFS(v) PROVE IInv'
    BY <1>0, <1>4, NoSplitStep DEF AssignOFS
  <1>5. ASSUME NEW v \in Formats \cup {Number, Illegal}, AssignCONVFMT(v) PROVE IInv'
    <2>1. convfmt' \in Formats /\ SplitFirst /\ UNCHANGED <<f0, addr, fs, ofs>>
      BY <1>0, <1>5, FieldAssumption DEF AssignCONVFMT
    <2> QED BY <1>0, <2>1, SplitStep
  <1>6. ASSUME NEW i \in 1..MaxF, PushField(i) PROVE IInv'
    <2>1. mem' \in Mem /\ memSplit.banks <= mem'.banks /\ memSplit \in Mem
          /\ i < mem'.banks * FBANK_SZ /\ mem'.banks <= Slots(mem')
          /\ mem' = Grown(memSplit, i)
      BY <1>6, SplitFacts, GrownCovers DEF PushField
    <2>2. /\ nf' = nfSplit /\ nf' \in 0..MaxF /\ nfCell' \in AnyCell
          /\ Index(nfCell') = nf' /\ f' \in [1..MaxF -> AnyCell]
      BY <1>6, SplitFacts, AnyCellMembers DEF PushField
    <2>3. /\ memSplit.banks * FBANK_SZ <= mem'.banks * FBANK_SZ
          /\ memSplit.banks * FBANK_SZ \in Int /\ mem'.banks * FBANK_SZ \in Int
      <3>1. FBANK_SZ \in Nat /\ memSplit.banks \in Int /\ mem'.banks \in Int
        BY <2>1, FieldAssumption DEF Mem
      <3> QED BY <2>1, <3>1, MulMono, SMTT(20)
    <2>4. nf' < mem'.banks * FBANK_SZ /\ mem.banks <= mem'.banks
      BY SMTT(30), <2>1, <2>2, <2>3, SplitFacts, FieldAssumption DEF IInv, TypeOK, Mem
    <2>5. i <= max_field'
      BY <2>1, <2>3 DEF max_field
    <2>6. /\ addr' \in Seq(0..MaxF)
          /\ \A j \in 1..Len(addr') : addr'[j] <= max_field'
      <3>1. i \in 0..MaxF /\ Push(i)
        BY <1>6 DEF PushField
      <3> QED BY <2>1, <2>4, <2>5, <3>1, PushCovered
    <2>7. overrun' \in BOOLEAN /\ UNCHANGED settings
      BY <1>6 DEF PushField, settings
    <2> QED BY <2>1, <2>2, <2>4, <2>6, <2>7, StoreStep
  <1>7. ASSUME NEW i \in 1..MaxF, GetField(i) PROVE IInv'
    BY <1>0, <1>7, SplitStep DEF GetField
  <1>8. CASE PushNF
    <2>1. /\ nf' \in 0..MaxF /\ f' \in [1..MaxF -> AnyCell] /\ nfCell' \in AnyCell
          /\ Index(nfCell') = nf' /\ mem' \in Mem /\ mem.banks <= mem'.banks
          /\ nf' < mem'.banks * FBANK_SZ /\ mem'.banks <= Slots(mem')
      BY <1>8, SplitFacts DEF PushNF, SplitFirst
    <2>2. /\ addr' \in Seq(0..MaxF)
          /\ \A j \in 1..Len(addr') : addr'[j] <= max_field'
      <3>1. NFaddr \in 0..MaxF /\ Push(NFaddr) /\ NFaddr <= max_field'
        <4>1. MaxF \in Nat /\ mem'.banks * FBANK_SZ \in Int
          BY <2>1, FieldAssumption, SMTT(20) DEF Mem
        <4> QED BY <1>8, <2>1, <4>1 DEF PushNF, NFaddr, max_field
      <3> QED BY <2>1, <3>1, PushCovered
    <2>3. overrun' \in BOOLEAN /\ UNCHANGED settings
      BY <1>8 DEF PushNF, SplitFirst, settings
    <2> QED BY <2>1, <2>2, <2>3, StoreStep
  <1>9. CASE GetNF
    BY <1>0, <1>9, SplitStep DEF GetNF
  <1>10. CASE GetRecord
    BY <1>0, <1>10, NoSplitStep DEF GetRecord
  <1>11. ASSUME NEW c \in Cells, StoreNF(c) PROVE IInv'
    <2> DEFINE max == Index(c)
    <2>1. max \in Int /\ max <= MaxF /\ MaxF \in Nat
      BY FieldAssumption
    <2>2. /\ nf' \in 0..MaxF /\ f' \in [1..MaxF -> AnyCell] /\ nfCell' \in AnyCell
          /\ Index(nfCell') = nf' /\ mem' \in Mem /\ mem.banks <= mem'.banks
          /\ nf' < mem'.banks * FBANK_SZ /\ mem'.banks <= Slots(mem')
      <3>1. CASE max < 0
        BY <1>11, <3>1, SplitFacts DEF StoreNF
      <3>2. CASE ~(max < 0)
        <4>1. nf' = max /\ nfCell' = c /\ nf' \in 0..MaxF
          BY <1>11, <2>1, <3>2 DEF StoreNF
        <4>2. f' = [i \in 1..MaxF |-> IF i > nfSplit /\ i <= max THEN Null
                                     ELSE fSplit[i]]
          BY <1>11, <3>2 DEF StoreNF
        <4>3. f' \in [1..MaxF -> AnyCell] /\ nfCell' \in AnyCell
          BY <4>1, <4>2, SplitFacts, AnyCellMembers
        <4>4. CASE max > nfSplit
          <5>1. mem' = GrownTo(memSplit, max)
            BY <1>11, <3>2, <4>4 DEF StoreNF
          <5>2. /\ mem' \in Mem /\ memSplit.banks <= mem'.banks
                /\ max < mem'.banks * FBANK_SZ /\ mem'.banks <= Slots(mem')
            BY <4>1, <5>1, SplitFacts, GrownToCovers
          <5> QED BY SMTT(30), ZenonT(30), <4>1, <4>3, <5>2, SplitFacts DEF IInv, TypeOK, Mem
        <4>5. CASE ~(max > nfSplit)
          <5>1. mem' = memSplit
            BY <1>11, <3>2, <4>5 DEF StoreNF
          <5>2. mem'.banks * FBANK_SZ \in Int
            BY <5>1, SplitFacts, FieldAssumption, SMTT(20) DEF Mem
          <5> QED BY <4>1, <4>3, <4>5, <5>1, <5>2, SplitFacts
        <4> QED BY <4>4, <4>5
      <3> QED BY <3>1, <3>2
    <2>3. addr # <<>> /\ Pop /\ overrun' \in BOOLEAN /\ UNCHANGED settings
      BY <1>11 DEF StoreNF
    <2> QED BY <2>2, <2>3, PopCovered, StoreStep
  <1>12. ASSUME NEW c \in Cells, StoreField(c) PROVE IInv'
    <2> DEFINE i == Head(addr)
    <2>1. i \in 1..MaxF /\ i <= max_field
      BY <1>12, FieldAssumption DEF StoreField, NFaddr, IInv, TypeOK, CellsExist
    <2>2. nf' = (IF i > nfSplit THEN i ELSE nfSplit) /\ nf' \in 0..MaxF
      BY <1>12, <2>1, SplitFacts DEF StoreField
    <2>3. f' \in [1..MaxF -> AnyCell]
      <3>1. f' = [j \in 1..MaxF |-> IF j = i THEN c
                                   ELSE IF j > nfSplit /\ j < i THEN Null
                                   ELSE fSplit[j]]
        BY <1>12 DEF StoreField
      <3> QED BY <3>1, SplitFacts, AnyCellMembers
    <2>4. nfCell' \in AnyCell /\ Index(nfCell') = nf'
      <3>1. nfCell' = IF i > nfSplit THEN Num(i) ELSE NFSplit
        BY <1>12 DEF StoreField
      <3>2. Index(Num(i)) = i /\ Num(i) \in AnyCell
        BY <2>1, FieldAssumption, AnyCellMembers
      <3> QED BY <2>2, <3>1, <3>2, SplitFacts
    <2>5. /\ mem' = memSplit /\ mem' \in Mem /\ mem.banks <= mem'.banks
          /\ mem'.banks <= Slots(mem')
      BY <1>12, SplitFacts DEF StoreField
    <2>6. nf' < mem'.banks * FBANK_SZ
      <3>1. FBANK_SZ \in Nat /\ mem.banks \in Int /\ mem'.banks \in Int
        BY <2>5, FieldAssumption DEF IInv, TypeOK, Mem
      <3>2. mem.banks * FBANK_SZ <= mem'.banks * FBANK_SZ
        BY <2>5, <3>1, MulMono
      <3>3. mem.banks * FBANK_SZ \in Int /\ mem'.banks * FBANK_SZ \in Int
        BY <3>1, SMTT(20)
      <3> QED BY <2>1, <2>2, <2>5, <3>2, <3>3, SplitFacts DEF max_field
    <2>7. addr # <<>> /\ Pop /\ overrun' \in BOOLEAN /\ UNCHANGED settings
      BY <1>12 DEF StoreField
    <2> QED BY <2>2, <2>3, <2>4, <2>5, <2>6, <2>7, PopCovered, StoreStep
  <1>13. CASE UNCHANGED vars
    BY <1>0, <1>13, NoSplitStep DEF vars
  <1> QED
    BY <1>1, <1>2, <1>3, <1>4, <1>5, <1>6, <1>7, <1>8, <1>9, <1>10, <1>11,
       <1>12, <1>13 DEF Next

\* Every state of every behaviour satisfies the invariant.
THEOREM Invariance == Spec => []IInv
  BY InitInv, NextInv, PTL DEF Spec

\* Types, the shadow of NF and the cells that exist, in every reachable state.
THEOREM TypeCorrect == Spec => []TypeOK
  BY Invariance, PTL DEF IInv

\* NF and its shadow nf agree once $0 is split, in every reachable state.
THEOREM ShadowAgrees == Spec => []NFShadow
  BY Invariance, PTL DEF IInv

\* Every counted field and every pushed address has a cell, and every bank a
\* slot, in every reachable state.
THEOREM CellsAlwaysExist == Spec => []CellsExist
  BY Invariance, PTL DEF IInv

-----------------------------------------------------------------------------
(* The read beyond the end of fbankv.                                      *)

\* When the slot after the last bank is past the vector, the field after the
\* last one would be the first of a bank the vector has no room for.
LEMMA OverrunStep ==
    ASSUME IInv, [Next]_vars, ~overrun, overrun'
    PROVE  nfSplit + 1 = Slots(memSplit) * FBANK_SZ
  <1> DEFINE B == FBANK_SZ
             S == Slots(memSplit)
             q == (nfSplit + 1) \div B
  <1>0. B \in Nat \ {0} /\ FBANKV_CHUNK_SIZE \in Nat
    BY FieldAssumption
  <1>1. SplitOverruns
    BY DEF Next, vars, SplitFirst, set_field0, AssignRecord, AssignFS, AssignOFS,
           AssignCONVFMT, PushField, PushNF, StoreNF, StoreField, GetField,
           GetNF, GetRecord
  <1>2. q >= S
    BY <1>1 DEF SplitOverruns
  <1>3. /\ nfSplit \in Nat /\ memSplit \in Mem /\ memSplit.banks <= S
        /\ nfSplit < memSplit.banks * B
    BY SplitFacts, FieldAssumption
  <1>4. S \in Nat
    <2>1. memSplit.chunks \in Nat
      BY <1>3 DEF Mem
    <2> QED BY <1>0, <2>1, SMTT(20) DEF Slots
  <1>5. q \in Nat /\ q * B <= nfSplit + 1
    <2>1. nfSplit + 1 \in Nat
      BY <1>3
    <2> QED BY <1>0, <2>1, DivBounds
  <1>6. memSplit.banks * B <= S * B /\ S * B <= q * B
    <2>1. memSplit.banks \in Int /\ S \in Int /\ q \in Int /\ B \in Nat
      BY <1>0, <1>3, <1>4, <1>5 DEF Mem
    <2> QED BY <1>2, <1>3, <1>5, <2>1, MulMono
  <1>7. memSplit.banks * B \in Int /\ S * B \in Int /\ q * B \in Int
    <2>1. memSplit.banks \in Nat
      BY <1>3 DEF Mem
    <2> QED BY <1>0, <1>4, <1>5, <2>1, SMTT(20)
  <1> QED BY <1>3, <1>5, <1>6, <1>7

\* Whatever the sizes of a bank and a chunk, fbankv is overrun only by a record
\* that fills the last bank it has room for, to its last cell.
THEOREM OverrunOnlyAtTheEnd == Spec => OverrunAtTheVeryEnd
  <1>1. IInv /\ [Next]_vars
          => [~overrun /\ overrun' => nfSplit + 1 = Slots(memSplit) * FBANK_SZ]_vars
    BY OverrunStep
  <1> QED BY <1>1, Invariance, PTL DEF Spec, OverrunAtTheVeryEnd

-----------------------------------------------------------------------------
(* The lazy record implements the eager one.                               *)

\* Before and after the pending split the program sees the same fields.
LEMMA FieldsAre ==
    ASSUME IInv
    PROVE  Fields = [i \in 1..nfSplit |-> fSplit[i]] /\ Len(Fields) = nfSplit
  <1>1. CASE nf < 0
    <2>1. Pieces \in Seq(AnyCell) /\ Len(Pieces) \in 0..MaxF
      BY <1>1, FieldAssumption DEF IInv, TypeOK, Pieces
    <2>2. Fields = Pieces /\ nfSplit = Len(Pieces)
      BY <1>1 DEF Fields, nfSplit
    <2>3. Pieces = [i \in 1..Len(Pieces) |-> Pieces[i]]
      BY <2>1
    <2>4. \A i \in 1..nfSplit : fSplit[i] = Pieces[i]
      BY <1>1, <2>1, <2>2, FieldAssumption DEF fSplit
    <2> QED BY <2>2, <2>3, <2>4
  <1>2. CASE ~(nf < 0)
    <2>1. nf \in Nat /\ Fields = [i \in 1..nf |-> f[i]] /\ nfSplit = nf /\ fSplit = f
      BY <1>2, FieldAssumption DEF IInv, TypeOK, Fields, nfSplit, fSplit
    <2> QED BY <2>1
  <1> QED BY <1>1, <1>2

\* A step after which $0 is split: the fields are the first nf cells.
LEMMA FieldsAfter ==
    ASSUME nf' \in 0..MaxF
    PROVE  Fields' = [i \in 1..nf' |-> f'[i]] /\ NFSplit' = nfCell'
  <1>1. ~(nf' < 0)
    BY FieldAssumption
  <1> QED BY <1>1 DEF Fields, NFSplit

\* Splitting, and blanking a cell beyond nf, shows nothing.
LEMMA SplitShowsNothing ==
    ASSUME IInv, nf' = nfSplit, nfCell' = NFSplit,
           \A i \in 1..nfSplit : f'[i] = fSplit[i]
    PROVE  Fields' = Fields /\ NFSplit' = NFSplit
  <1>1. nf' \in 0..MaxF
    BY SplitFacts
  <1> QED BY <1>1, FieldsAre, FieldsAfter

\* build_field0 makes what the eager record calls a rebuilt $0.
LEMMA BuiltIsRebuilt ==
    ASSUME NEW g, NEW max \in Nat, f0' = build_field0(g, max),
           ofs \in OFSs, convfmt \in Formats
    PROVE  Eager!Rebuilt([i \in 1..max |-> g[i]])
  <1>1. CASE max = 0
    <2>1. [i \in 1..max |-> g[i]] = <<>>
      BY <1>1
    <2>2. Str(Join(<<>>, ofs, convfmt)) = Null
      BY FieldAssumption
    <2> QED BY <1>1, <2>1, <2>2 DEF build_field0, Eager!Rebuilt
  <1>2. CASE max = 1
    <2>1. Len([i \in 1..max |-> g[i]]) = 1 /\ [i \in 1..max |-> g[i]][1] = g[1]
      BY <1>2
    <2> QED BY <1>2, <2>1 DEF build_field0, Eager!Rebuilt
  <1>3. CASE max # 0 /\ max # 1
    BY <1>3 DEF build_field0, Eager!Rebuilt
  <1> QED BY <1>1, <1>2, <1>3

\* The empty record of field_init is the eager record's first state.
LEMMA EagerInit == Init => Eager!Init
  <1> SUFFICES ASSUME Init PROVE Eager!Init
    OBVIOUS
  <1>1. Fields = <<>> /\ NFSplit = Num(0)
    BY DEF Init, Fields, NFSplit
  <1> QED BY <1>1 DEF Init, Eager!Init

\* Every step shows what one step of the eager record shows, or nothing.
LEMMA EagerNext == IInv /\ [Next]_vars => [Eager!Next]_(Eager!vars)
  <1> SUFFICES ASSUME IInv, [Next]_vars PROVE [Eager!Next]_(Eager!vars)
    OBVIOUS
  <1>0. fs \in FSs /\ ofs \in OFSs /\ convfmt \in Formats
    BY DEF IInv, TypeOK
  <1>a. ASSUME NEW c \in Assigned, f0' = c, nf' = -1, out' = <<"done">>,
               UNCHANGED settings
        PROVE  Eager!AssignRecord(c)
    <2>1. Fields' = Split(Text(c, convfmt), fs)
      BY <1>a DEF Fields, Pieces, settings
    <2>2. NFSplit' = Num(Len(Fields'))
      BY <1>a DEF NFSplit, nfSplit, Fields
    <2> QED BY <1>a, <2>1, <2>2 DEF Eager!AssignRecord, Eager!Done, Eager!settings, settings
  <1>b. ASSUME NEW v \in FSs, NEW o \in OFSs, NEW m \in Formats,
               fs' = v, ofs' = o, convfmt' = m, f0' = f0, out' = <<"done">>,
               Fields' = Fields, NFSplit' = NFSplit
        PROVE  Eager!Next
    BY <1>b DEF Eager!Next, Eager!AssignSetting, Eager!Done
  <1>c. SplitFirst => Fields' = Fields /\ NFSplit' = NFSplit
    BY SplitShowsNothing DEF SplitFirst
  <1>1. ASSUME NEW t \in Records, set_field0(t) PROVE Eager!Next
    <2>1. Str(t) \in Assigned
      BY DEF Assigned
    <2>2. Eager!AssignRecord(Str(t))
      BY <1>1, <1>a, <2>1 DEF set_field0, Done, settings
    <2> QED BY <2>1, <2>2 DEF Eager!Next, Assigned
  <1>2. ASSUME NEW c \in Cells, AssignRecord(c) PROVE Eager!Next
    <2>1. c \in Assigned
      BY DEF Assigned
    <2>2. Eager!AssignRecord(c)
      BY <1>2, <1>a, <2>1 DEF AssignRecord, Done, settings
    <2> QED BY <2>1, <2>2 DEF Eager!Next, Assigned
  <1>3. ASSUME NEW v \in FSs, AssignFS(v) PROVE Eager!Next
    BY <1>0, <1>3, <1>b, <1>c DEF AssignFS, Done
  <1>4. ASSUME NEW v \in Formats \cup {Number, Illegal}, AssignCONVFMT(v) PROVE Eager!Next
    <2>1. Fields' = Fields /\ NFSplit' = NFSplit /\ UNCHANGED <<f0, fs, ofs>>
      BY <1>4, <1>c DEF AssignCONVFMT
    <2>2. CASE v = Illegal
      BY <1>4, <2>1, <2>2 DEF AssignCONVFMT, Eager!RejectFormat, Eager!Next
    <2>3. CASE v # Illegal
      <3>1. convfmt' \in Formats /\ out' = <<"done">>
        BY <1>4, <2>3, FieldAssumption DEF AssignCONVFMT, Done
      <3> QED BY <1>0, <1>b, <2>1, <3>1
    <2> QED BY <2>2, <2>3
  <1>5. ASSUME NEW v \in OFSs, AssignOFS(v) PROVE Eager!Next
    <2>1. Fields' = Fields /\ NFSplit' = NFSplit
      BY <1>5 DEF AssignOFS, Fields, NFSplit, nfSplit, Pieces
    <2> QED BY <1>0, <1>5, <1>b, <2>1 DEF AssignOFS, Done
  <1>6. ASSUME NEW i \in 1..MaxF, PushField(i) PROVE UNCHANGED Eager!vars
    <2>1. nf' = nfSplit /\ nfCell' = NFSplit
          /\ \A j \in 1..nfSplit : f'[j] = fSplit[j]
      BY <1>6, SplitFacts DEF PushField
    <2> QED BY <1>6, <2>1, SplitShowsNothing DEF PushField, Eager!vars
  <1>7. ASSUME PushNF PROVE UNCHANGED Eager!vars
    BY <1>7, <1>c DEF PushNF, Eager!vars
  <1>8. ASSUME NEW c \in Cells, StoreNF(c) PROVE Eager!Next
    <2> DEFINE max == Index(c)
               g == [i \in 1..MaxF |-> IF i > nfSplit /\ i <= max THEN Null
                                       ELSE fSplit[i]]
    <2>1. max \in Int /\ max <= MaxF /\ MaxF \in Nat /\ c \in Assigned
      BY FieldAssumption DEF Assigned
    <2>2. CASE max < 0
      <3>1. nf' = nfSplit /\ f' = fSplit /\ nfCell' = NFSplit /\ f0' = f0
            /\ out' = <<"error">> /\ UNCHANGED settings
        BY <1>8, <2>2 DEF StoreNF
      <3>2. Fields' = Fields /\ NFSplit' = NFSplit
        BY <3>1, SplitShowsNothing
      <3>3. Eager!RejectNF(c)
        BY <2>2, <3>1, <3>2 DEF Eager!RejectNF, settings
      <3> QED BY <2>1, <3>3 DEF Eager!Next, Assigned
    <2>3. CASE ~(max < 0)
      <3>1. /\ nfCell' = c /\ f' = g /\ nf' = max /\ f0' = build_field0(g, max)
            /\ out' = <<"done">> /\ UNCHANGED settings
        BY <1>8, <2>3 DEF StoreNF, Done
      <3>2. nf' \in 0..MaxF
        BY <2>1, <2>3, <3>1
      <3>3. Fields' = [i \in 1..max |-> g[i]] /\ NFSplit' = c
        BY <3>1, <3>2, FieldsAfter
      <3>4. Fields' = Eager!Resized(max)
        <4>1. \A i \in 1..max : g[i] = IF i <= Len(Fields) THEN Fields[i] ELSE Null
          BY <2>1, <3>1, <3>2, FieldsAre, SplitFacts
        <4> QED BY <3>3, <4>1 DEF Eager!Resized
      <3>5. Eager!Rebuilt(Fields')
        <4> HIDE DEF g, max
        <4>1. max \in Nat
          BY <3>1, <3>2, <2>1
        <4> QED BY <1>0, <3>1, <3>3, <4>1, BuiltIsRebuilt
      <3>6. Eager!AssignNF(c)
        BY SMTT(30), <2>3, <2>1, <3>1, <3>3, <3>4, <3>5
        DEF Eager!AssignNF, Eager!Done, Eager!settings, settings
      <3> QED BY <2>1, <3>6 DEF Eager!Next, Assigned
    <2> QED BY <2>2, <2>3
  <1>9. ASSUME NEW c \in Cells, StoreField(c) PROVE Eager!Next
    <2> DEFINE i == Head(addr)
               max == IF i > nfSplit THEN i ELSE nfSplit
               g == [j \in 1..MaxF |-> IF j = i THEN c
                                       ELSE IF j > nfSplit /\ j < i THEN Null
                                       ELSE fSplit[j]]
    <2>1. i \in 1..MaxF /\ MaxF \in Nat /\ max \in 0..MaxF /\ c \in Assigned /\ nfSplit \in 0..MaxF
      BY SMTT(30), <1>9, SplitFacts, FieldAssumption DEF StoreField, NFaddr, IInv, TypeOK, Assigned
    <2>2. /\ f' = g /\ nf' = max /\ f0' = build_field0(g, max)
          /\ nfCell' = (IF i > nfSplit THEN Num(i) ELSE NFSplit)
          /\ out' = <<"done">> /\ UNCHANGED settings
      BY <1>9 DEF StoreField, Done
    <2>3. Fields' = [j \in 1..max |-> g[j]] /\ NFSplit' = nfCell'
      BY <2>1, <2>2, FieldsAfter
    <2>4. Fields' = [Eager!Resized(max) EXCEPT ![i] = c]
      <3>1. \A j \in 1..max : g[j] = IF j = i THEN c
                                  ELSE IF j <= Len(Fields) THEN Fields[j] ELSE Null
        BY <2>1, FieldsAre
      <3> QED BY <2>1, <2>3, <3>1 DEF Eager!Resized
    <2>5. Eager!Rebuilt(Fields')
      <3> HIDE DEF g, max
      <3>1. max \in Nat
        BY <2>1
      <3> QED BY <1>0, <2>2, <2>3, <3>1, BuiltIsRebuilt
    <2>6. Eager!AssignField(i, c)
      BY <2>1, <2>2, <2>3, <2>4, <2>5, FieldsAre
      DEF Eager!AssignField, Eager!Done, Eager!settings, settings
    <2> QED BY <2>1, <2>6 DEF Eager!Next, Assigned
  <1>10. ASSUME NEW i \in 1..MaxF, GetField(i) PROVE Eager!Next
    <2>1. (IF i <= nfSplit THEN fSplit[i] ELSE Null) = Eager!Field(i)
      BY FieldsAre, SplitFacts DEF Eager!Field
    <2>2. Eager!Get(Eager!Field(i))
      BY <1>10, <1>c, <2>1 DEF GetField, Eager!Get
    <2> QED BY <2>2 DEF Eager!Next
  <1>11. ASSUME GetNF PROVE Eager!Next
    <2>1. Eager!Get(NFSplit)
      BY <1>11, <1>c DEF GetNF, Eager!Get
    <2> QED BY <2>1 DEF Eager!Next
  <1>12. ASSUME GetRecord PROVE Eager!Next
    <2>1. Fields' = Fields /\ NFSplit' = NFSplit
      BY <1>12 DEF GetRecord, Fields, NFSplit, nfSplit, Pieces
    <2>2. Eager!Get(f0)
      BY <1>12, <2>1 DEF GetRecord, Eager!Get
    <2> QED BY <2>2 DEF Eager!Next
  <1>13. CASE UNCHANGED vars
    BY <1>13 DEF vars, Eager!vars, Fields, NFSplit, nfSplit, Pieces
  <1> QED
    BY <1>1, <1>2, <1>3, <1>4, <1>5, <1>6, <1>7, <1>8, <1>9, <1>10, <1>11,
       <1>12, <1>13 DEF Next

\* The record whose fields are split late and never freed is the eager record
\* of mawk(1), for every splitter, every joiner and every CONVFMT.
THEOREM LazyImplementsEager == Spec => LazyIsEager
  BY Invariance, EagerInit, EagerNext, PTL DEF Spec, LazyIsEager, Eager!Spec

\* Quotient and remainder belong together.
LEMMA DivMod ==
    ASSUME NEW i \in Nat, NEW b \in Nat \ {0}
    PROVE  i = (i \div b) * b + (i % b) /\ i % b \in 0..b - 1 /\ i \div b \in Nat
  BY SMTT(20)

\* There is one quotient and one remainder.
LEMMA QuotientIs ==
    ASSUME NEW i \in Nat, NEW b \in Nat \ {0}, NEW x \in Nat, NEW y \in 0..b - 1, i = x * b + y
    PROVE  i \div b = x /\ i % b = y
  <1> DEFINE d == i \div b
             m == i % b
  <1>1. i = d * b + m /\ m \in 0..b - 1 /\ d \in Nat
    BY DivMod
  <1> HIDE DEF d, m
  <1>2. (d + 1) * b = d * b + b /\ (x + 1) * b = x * b + b /\ d * b \in Nat /\ x * b \in Nat
    BY <1>1, SMTT(20)
  <1>3. d * b < (x + 1) * b /\ x * b < (d + 1) * b
    BY <1>1, <1>2
  <1>4. d < x + 1 /\ x < d + 1
    <2>1. x + 1 \in Int /\ d + 1 \in Int /\ x \in Int /\ d \in Int
      BY <1>1
    <2> QED BY <1>3, <2>1, Cancel
  <1>5. d = x
    BY <1>1, <1>4
  <1>6. m = y
    BY <1>1, <1>5, <1>2
  <1> QED BY <1>5, <1>6 DEF d, m

\* Where the next number is.
LEMMA NextQuotient ==
    ASSUME NEW i \in Nat, NEW b \in Nat \ {0}
    PROVE  /\ i % b = b - 1 => (i + 1) \div b = i \div b + 1 /\ (i + 1) % b = 0
           /\ i % b # b - 1 => (i + 1) \div b = i \div b /\ (i + 1) % b = (i % b) + 1
  <1> DEFINE d == i \div b
             m == i % b
  <1>1. i = d * b + m /\ m \in 0..b - 1 /\ d \in Nat
    BY DivMod
  <1> HIDE DEF d, m
  <1>2. (d + 1) * b = d * b + b /\ d * b \in Nat
    BY <1>1, SMTT(20)
  <1>3. CASE m = b - 1
    <2>1. i + 1 = (d + 1) * b + 0 /\ i + 1 \in Nat /\ d + 1 \in Nat /\ 0 \in 0..b - 1
      BY <1>1, <1>2, <1>3
    <2>2. (i + 1) \div b = d + 1 /\ (i + 1) % b = 0
      BY <2>1, QuotientIs
    <2> QED BY <2>2, <1>3 DEF d, m
  <1>4. CASE m # b - 1
    <2>1. i + 1 = d * b + (m + 1) /\ i + 1 \in Nat /\ m + 1 \in 0..b - 1
      BY <1>1, <1>2, <1>4
    <2>2. (i + 1) \div b = d /\ (i + 1) % b = m + 1
      BY <1>1, <2>1, QuotientIs
    <2> QED BY <2>2, <1>4 DEF d, m
  <1> QED BY <1>3, <1>4 DEF m

\* The quotients do not get smaller.
LEMMA QuotientMono ==
    ASSUME NEW i \in Nat, NEW j \in Nat, i <= j, NEW b \in Nat \ {0}
    PROVE  i \div b <= j \div b
  <1> DEFINE d == i \div b
             e == j \div b
  <1>1. d \in Nat /\ d * b <= i /\ e \in Nat /\ j < (e + 1) * b
    BY DivBounds
  <1> HIDE DEF d, e
  <1>2. d * b < (e + 1) * b
    <2>1. d * b \in Nat /\ (e + 1) * b \in Nat
      BY <1>1, SMTT(20)
    <2> QED BY <1>1, <2>1
  <1>3. d < e + 1
    <2>1. d \in Int /\ e + 1 \in Int
      BY <1>1
    <2> QED BY <2>1, <1>2, Cancel
  <1> QED BY <1>1, <1>3 DEF d, e

-----------------------------------------------------------------------------
(* The block list.                                                         *)

\* The characters there are, and what is in a slot of a block.
Chars == UNION {ToSet(t) : t \in Texts \cup {m[1] : m \in Matches}}
Strings == Seq(Chars) \cup {Moved}
Blocks == Seq([1..SP_SIZE -> Strings])

\* The piece in place i of the list.
Held(i) == blocks[Node(i)][Slot(i)]

\* Places: each in a block, and two of them never the same.
LEMMA PlacesApart ==
    /\ \A i \in Nat \ {0} : Node(i) \in Nat \ {0} /\ Slot(i) \in 1..SP_SIZE
    /\ \A i, j \in Nat \ {0} : i # j => Node(i) # Node(j) \/ Slot(i) # Slot(j)
    /\ \A i, j \in Nat \ {0} : i <= j => Node(i) <= Node(j)
  <1>0. SP_SIZE \in Nat \ {0}
    BY SplitterAssumption
  <1>1. ASSUME NEW i \in Nat \ {0} PROVE Node(i) \in Nat \ {0} /\ Slot(i) \in 1..SP_SIZE
    <2>1. i - 1 \in Nat
      OBVIOUS
    <2> DEFINE k == i - 1
    <2>2. (k \div SP_SIZE) \in Nat /\ k % SP_SIZE \in 0..SP_SIZE - 1
      BY <2>1, <1>0, DivMod
    <2> QED BY <2>2, <1>0 DEF Node, Slot
  <1>2. ASSUME NEW i \in Nat \ {0}, NEW j \in Nat \ {0}, Node(i) = Node(j), Slot(i) = Slot(j) PROVE i = j
    <2> DEFINE k == i - 1
               l == j - 1
    <2>1. k \in Nat /\ l \in Nat
      OBVIOUS
    <2>2. /\ k = (k \div SP_SIZE) * SP_SIZE + (k % SP_SIZE) /\ k \div SP_SIZE \in Nat /\ k % SP_SIZE \in 0..SP_SIZE - 1
          /\ l = (l \div SP_SIZE) * SP_SIZE + (l % SP_SIZE) /\ l \div SP_SIZE \in Nat /\ l % SP_SIZE \in 0..SP_SIZE - 1
      BY <2>1, <1>0, DivMod
    <2>3. (k \div SP_SIZE) + 1 = (l \div SP_SIZE) + 1 /\ (k % SP_SIZE) + 1 = (l % SP_SIZE) + 1
      BY <1>2 DEF Node, Slot
    <2>4. k \div SP_SIZE = l \div SP_SIZE /\ k % SP_SIZE = l % SP_SIZE
      <3> DEFINE a == k \div SP_SIZE
                 b == l \div SP_SIZE
                 c == k % SP_SIZE
                 d == l % SP_SIZE
      <3>1. a \in Nat /\ b \in Nat /\ c \in Int /\ d \in Int /\ a + 1 = b + 1 /\ c + 1 = d + 1
        BY <2>2, <2>3, <1>0
      <3> HIDE DEF a, b, c, d
      <3>2. a = b /\ c = d
        BY <3>1
      <3> QED BY <3>2 DEF a, b, c, d
    <2>5. k = l
      BY <2>2, <2>4, Zenon
    <2> QED BY <2>5
  <1>3. ASSUME NEW i \in Nat \ {0}, NEW j \in Nat \ {0}, i <= j PROVE Node(i) <= Node(j)
    <2> DEFINE k == i - 1
               l == j - 1
    <2>1. k \in Nat /\ l \in Nat /\ k <= l
      BY <1>3
    <2>2. k \div SP_SIZE <= l \div SP_SIZE /\ k \div SP_SIZE \in Nat /\ l \div SP_SIZE \in Nat
      BY <2>1, <1>0, QuotientMono, DivMod
    <2> QED BY <2>2 DEF Node
  <1> QED BY <1>1, <1>2, <1>3

\* The place after a full block is in the next one.
LEMMA NextPlace ==
    ASSUME NEW i \in Nat \ {0}
    PROVE  Node(i + 1) = IF Slot(i) = SP_SIZE THEN Node(i) + 1 ELSE Node(i)
  <1> DEFINE k == i - 1
  <1>0. SP_SIZE \in Nat \ {0} /\ k \in Nat /\ k + 1 = (i + 1) - 1
    BY SplitterAssumption
  <1> DEFINE a == k \div SP_SIZE
             c == k % SP_SIZE
             b == (k + 1) \div SP_SIZE
  <1>1. a \in Nat /\ c \in 0..SP_SIZE - 1
    BY <1>0, DivMod
  <1>2. b = IF c = SP_SIZE - 1 THEN a + 1 ELSE a
    <2> HIDE DEF k
    <2> QED BY <1>0, NextQuotient
  <1>3. Node(i) = a + 1 /\ Slot(i) = c + 1 /\ Node(i + 1) = b + 1
    BY <1>0 DEF Node, Slot
  <1> HIDE DEF a, b, c
  <1> QED BY <1>0, <1>1, <1>2, <1>3

\* What fits in one block.
LEMMA FirstBlock ==
    ASSUME NEW i \in Nat \ {0}
    PROVE  Node(i) = 1 <=> i <= SP_SIZE
  <1> DEFINE k == i - 1
  <1>0. SP_SIZE \in Nat \ {0} /\ k \in Nat
    BY SplitterAssumption
  <1> DEFINE a == k \div SP_SIZE
             c == k % SP_SIZE
  <1>1. a \in Nat /\ k = a * SP_SIZE + c /\ c \in 0..SP_SIZE - 1
    BY <1>0, DivMod
  <1>2. Node(i) = a + 1
    BY DEF Node
  <1>3. ASSUME k < SP_SIZE PROVE a = 0
    <2>1. k = 0 * SP_SIZE + k /\ 0 \in Nat /\ k \in 0..SP_SIZE - 1
      BY <1>0, <1>3, SMTT(20)
    <2> HIDE DEF k
    <2> QED BY <1>0, <2>1, QuotientIs
  <1>4. ASSUME a = 0 PROVE k < SP_SIZE
    <2> HIDE DEF a, c, k
    <2>1. a * SP_SIZE = 0
      BY <1>0, <1>4, SMTT(20)
    <2> QED BY <1>0, <1>1, <2>1
  <1>5. k < SP_SIZE <=> i <= SP_SIZE
    BY <1>0
  <1> HIDE DEF a, k
  <1> QED BY <1>1, <1>2, <1>3, <1>4, <1>5

\* A piece more: in its place, and the others in theirs.  A block is added when
\* the last one is full.
LEMMA StoredInPlace ==
    ASSUME NEW piece \in Strings, blocks \in Blocks, cnt \in Nat, Len(blocks) = Node(cnt + 1), cnt' = cnt + 1,
           NEW grown \in BOOLEAN, blocks' = IF grown THEN Grow(Store(piece)) ELSE Store(piece)
    PROVE  /\ blocks' \in Blocks
           /\ Len(blocks') = Node(IF grown THEN cnt' + 1 ELSE cnt')
           /\ \A i \in 1..cnt' : Held(i)' = IF i <= cnt THEN Held(i) ELSE piece
  <1> DEFINE c == cnt + 1
             B == [1..SP_SIZE -> Strings]
  <1>0. /\ c \in Nat \ {0} /\ Node(c) \in Nat \ {0} /\ Slot(c) \in 1..SP_SIZE /\ SP_SIZE \in Nat \ {0}
        /\ c = cnt' /\ Len(blocks) = Node(c) /\ blocks \in Seq(B)
    <2>1. c \in Nat \ {0} /\ c = cnt' /\ blocks \in Seq(B)
      BY DEF Blocks
    <2>2. Len(blocks) = Node(c)
      OBVIOUS
    <2> HIDE DEF c, B
    <2>3. Node(c) \in Nat \ {0} /\ Slot(c) \in 1..SP_SIZE /\ SP_SIZE \in Nat \ {0}
      BY <2>1, PlacesApart, SplitterAssumption
    <2> QED BY <2>1, <2>2, <2>3
  <1> HIDE DEF c
  <1>1. Block \in B
    BY DEF Block, Strings
  <1>2. Store(piece) = [blocks EXCEPT ![Node(c)][Slot(c)] = piece]
    BY DEF Store, c
  <1> DEFINE st == Store(piece)
             row == [blocks[Node(c)] EXCEPT ![Slot(c)] = piece]
  <1>3. blocks[Node(c)] \in B /\ row \in B
    <2>1. blocks[Node(c)] \in B
      BY <1>0
    <2> HIDE DEF row
    <2> QED BY <2>1, <1>0 DEF row
  <1>4. st = [blocks EXCEPT ![Node(c)] = row]
    BY <1>2
  <1> HIDE DEF st, row
  <1>5. st \in Seq(B) /\ Len(st) = Node(c) /\ \A k \in 1..Node(c) : st[k] = IF k = Node(c) THEN row ELSE blocks[k]
    <2> HIDE DEF B
    <2> QED BY <1>0, <1>3, <1>4
  <1>6. ASSUME NEW i \in 1..c
        PROVE  /\ Node(i) \in 1..Node(c) /\ Slot(i) \in 1..SP_SIZE
               /\ st[Node(i)][Slot(i)] = IF i <= cnt THEN Held(i) ELSE piece
    <2>1. i \in Nat \ {0} /\ i <= c /\ (i <= cnt <=> i # c)
      BY <1>0 DEF c
    <2>2. Node(i) \in 1..Node(c) /\ Slot(i) \in 1..SP_SIZE
      <3>1. Node(i) <= Node(c) /\ Node(i) \in Nat \ {0} /\ Slot(i) \in 1..SP_SIZE
        BY <2>1, <1>0, PlacesApart
      <3> QED BY <3>1, <1>0
    <2>3. CASE i = c
      <3>1. st[Node(i)] = row
        BY <2>3, <2>2, <1>5
      <3>2. row[Slot(c)] = piece
        BY <1>0, <1>3 DEF row
      <3> QED BY <3>1, <3>2, <2>1, <2>2, <2>3
    <2>4. CASE i # c
      <3>1. Node(i) # Node(c) \/ Slot(i) # Slot(c)
        BY <2>1, <2>4, <1>0, PlacesApart
      <3>2. CASE Node(i) # Node(c)
        <4>1. st[Node(i)] = blocks[Node(i)]
          BY <3>2, <2>2, <1>5
        <4> QED BY <4>1, <2>1, <2>2, <2>4 DEF Held
      <3>3. CASE Node(i) = Node(c)
        <4>1. st[Node(i)] = row /\ Slot(i) # Slot(c)
          BY <3>1, <3>3, <2>2, <1>5
        <4>2. row[Slot(i)] = blocks[Node(c)][Slot(i)]
          BY <4>1, <2>2, <1>0, <1>3 DEF row
        <4> QED BY <4>1, <4>2, <3>3, <2>1, <2>2, <2>4 DEF Held
      <3> QED BY <3>2, <3>3
    <2> QED BY <2>3, <2>4
  <1>7. ASSUME blocks' \in Seq(B), Len(blocks') >= Node(c), \A k \in 1..Node(c) : blocks'[k] = st[k]
        PROVE  \A i \in 1..cnt' : Held(i)' = IF i <= cnt THEN Held(i) ELSE piece
    <2> SUFFICES ASSUME NEW i \in 1..c PROVE Held(i)' = IF i <= cnt THEN Held(i) ELSE piece
      BY <1>0
    <2>1. Held(i)' = blocks'[Node(i)][Slot(i)]
      BY DEF Held, Node, Slot
    <2> QED BY <2>1, <1>6, <1>7
  <1>8. CASE ~grown \/ Slot(c) # SP_SIZE
    <2>1. blocks' = st
      <3>1. ~grown => blocks' = st
        BY DEF st
      <3>2. Slot(c) # SP_SIZE => Grow(st) = st
        BY DEF Grow, c
      <3> QED BY <3>1, <3>2, <1>8 DEF st
    <2>2. Len(blocks') = Node(c) /\ blocks' \in Seq(B)
      BY <2>1, <1>5
    <2>3. grown => Node(c + 1) = Node(c)
      BY <1>0, <1>8, NextPlace
    <2>4. Len(blocks') = Node(IF grown THEN cnt' + 1 ELSE cnt')
      BY <2>2, <2>3, <1>0
    <2>5. \A i \in 1..cnt' : Held(i)' = IF i <= cnt THEN Held(i) ELSE piece
      <3>1. Len(blocks') >= Node(c)
        BY <2>2, <1>0
      <3> QED BY <3>1, <2>1, <2>2, <1>7
    <2> QED BY <2>2, <2>4, <2>5 DEF Blocks
  <1>9. CASE grown /\ Slot(c) = SP_SIZE
    <2>1. blocks' = Append(st, Block)
      BY <1>9 DEF Grow, c, st
    <2>2. /\ blocks' \in Seq(B) /\ Len(blocks') = Node(c) + 1
          /\ \A k \in 1..Node(c) : blocks'[k] = st[k]
      <3> HIDE DEF B
      <3>1. st \in Seq(B) /\ Len(st) = Node(c) /\ Node(c) \in Nat
        BY <1>0, <1>5
      <3> HIDE DEF st
      <3>2. /\ Append(st, Block) \in Seq(B) /\ Len(Append(st, Block)) = Len(st) + 1
            /\ \A k \in 1..Len(st) : Append(st, Block)[k] = st[k]
        BY <3>1, <1>1, AppendProperties
      <3> QED BY <3>1, <3>2, <2>1
    <2>3. Node(c + 1) = Node(c) + 1
      BY <1>0, <1>9, NextPlace
    <2>4. Len(blocks') = Node(IF grown THEN cnt' + 1 ELSE cnt')
      BY <2>2, <2>3, <1>0, <1>9
    <2>5. \A i \in 1..cnt' : Held(i)' = IF i <= cnt THEN Held(i) ELSE piece
      <3>1. Len(blocks') >= Node(c)
        BY <2>2, <1>0
      <3> QED BY <3>1, <2>2, <1>7
    <2> QED BY <2>2, <2>4, <2>5 DEF Blocks
  <1> QED BY <1>8, <1>9

-----------------------------------------------------------------------------
(* The next match.                                                         *)

L(q) == Ref!Longest(re, q)

\* Where a separator begins, at p or behind it, and the first of these.
Separating(p) == {q \in p..n : L(q) > 0}
Found(p) == IF Separating(p) = {} THEN <<None, 0>>
            ELSE <<Min(Separating(p)), L(Min(Separating(p)))>>

Splittable == text \in Seq(Chars) /\ re \in Tables(n)

\* A match lies in the text.
LEMMA LongestProps ==
    ASSUME Splittable
    PROVE  n \in Nat /\ \A q \in 1..n + 1 : L(q) \in Int /\ L(q) <= n /\ (q > 1 => q + L(q) <= n + 1) /\ (q > n => L(q) <= 0)
  <1>1. n \in Nat
    BY DEF Splittable, n
  <1>2. /\ re.at \in [1..n + 1 -> -1..n] /\ re.bol \in -1..n
        /\ \A p \in 1..n + 1 : re.at[p] <= n + 1 - p
    BY DEF Splittable, Tables
  <1>3. ASSUME NEW q \in 1..n + 1 PROVE L(q) = IF q = 1 THEN re.bol ELSE re.at[q]
    BY DEF L, Ref!Longest
  <1>4. ASSUME NEW q \in 1..n + 1
        PROVE  L(q) \in Int /\ L(q) <= n /\ (q > 1 => q + L(q) <= n + 1) /\ (q > n => L(q) <= 0)
    <2>1. CASE q = 1
      BY <2>1, <1>1, <1>2, <1>3
    <2>2. CASE q # 1
      <3>1. L(q) = re.at[q] /\ re.at[q] \in -1..n /\ re.at[q] <= n + 1 - q
        BY <2>2, <1>2, <1>3
      <3> QED BY <3>1, <1>1
    <2> QED BY <2>1, <2>2
  <1> QED BY <1>1, <1>4

\* A separator that is found lies in the text.
LEMMA FoundProps ==
    ASSUME Splittable, NEW p \in 1..n + 1, Separating(p) # {}
    PROVE  /\ Found(p)[1] \in p..n /\ Found(p)[2] = L(Found(p)[1]) /\ L(Found(p)[1]) > 0
           /\ Found(p)[1] + Found(p)[2] \in Found(p)[1] + 1..n + 1
           /\ \A q \in p..Found(p)[1] - 1 : L(q) <= 0
  <1>1. n \in Nat /\ \A q \in 1..n + 1 : L(q) \in Int /\ L(q) <= n /\ (q > 1 => q + L(q) <= n + 1)
    BY LongestProps
  <1> DEFINE m == Min(Separating(p))
  <1>2. m \in Separating(p) /\ \A q \in Separating(p) : m <= q
    <2>1. Separating(p) \subseteq Nat
      BY <1>1 DEF Separating
    <2> QED BY <2>1, MinProps
  <1>3. Found(p) = <<m, L(m)>>
    BY DEF Found
  <1> HIDE DEF m
  <1>4. m \in p..n /\ L(m) > 0
    BY <1>2 DEF Separating
  <1>5. m \in 1..n + 1 /\ m + L(m) \in m + 1..n + 1
    <2>1. m \in 1..n + 1
      BY <1>1, <1>4
    <2>2. L(m) \in Int /\ L(m) <= n /\ (m > 1 => m + L(m) <= n + 1)
      BY <2>1, <1>1
    <2> QED BY <2>1, <2>2, <1>1, <1>4
  <1>6. ASSUME NEW q \in p..m - 1 PROVE L(q) <= 0
    <2>1. q \in p..n /\ q \in 1..n + 1 /\ ~(m <= q)
      BY <1>1, <1>4
    <2>2. q \notin Separating(p) /\ L(q) \in Int
      BY <2>1, <1>1, <1>2
    <2> QED BY <2>1, <2>2 DEF Separating
  <1> QED BY <1>3, <1>4, <1>5, <1>6

\* The leftmost match, with the longest of those that begin there.
LEMMA REmatchIs ==
    ASSUME Splittable, NEW start \in 1..n + 1, NEW p \in start..n + 1, NEW nb \in BOOLEAN,
           nb <=> p > 1
    PROVE  /\ REmatch(p, nb)[1] = None => Separating(p) = {}
           /\ REmatch(p, nb)[1] # None =>
                /\ REmatch(p, nb)[1] \in p..n + 1 /\ REmatch(p, nb)[2] = L(REmatch(p, nb)[1])
                /\ L(REmatch(p, nb)[1]) >= 0
                /\ \A q \in p..REmatch(p, nb)[1] - 1 : L(q) < 0
  <1>1. n \in Nat /\ \A q \in 1..n + 1 : L(q) \in Int
    BY LongestProps
  <1>2. ASSUME NEW q \in p..n + 1 PROVE At(p, q, nb) = L(q)
    <2>1. p \in Nat /\ q \in Nat /\ 1 <= p /\ p <= q
      BY <1>1
    <2>2. q = 1 => p = 1 /\ ~nb
      BY <2>1
    <2>3. q # 1 /\ q = p => nb
      BY <2>1
    <2> QED BY <2>2, <2>3, Zenon DEF At, L, Ref!Longest
  <1> DEFINE hits == {q \in p..n + 1 : At(p, q, nb) >= 0}
             m == Min(hits)
  <1>3. REmatch(p, nb) = IF hits = {} THEN <<None, 0>> ELSE <<m, At(p, m, nb)>>
    BY DEF REmatch
  <1>4. \A q \in p..n + 1 : q \in 1..n + 1 /\ (q \in hits <=> L(q) >= 0) /\ L(q) \in Int
    BY <1>1, <1>2
  <1>5. hits \subseteq p..n + 1
    OBVIOUS
  <1>6. CASE hits = {}
    <2>1. REmatch(p, nb)[1] = None
      BY <1>3, <1>6
    <2>2. \A q \in p..n : q \in p..n + 1
      BY <1>1
    <2> HIDE DEF hits
    <2>3. Separating(p) = {}
      BY <2>2, <1>4, <1>6 DEF Separating
    <2> QED BY <2>1, <2>3
  <1>7. CASE hits # {}
    <2>1. m \in hits /\ \A q \in hits : m <= q
      <3>1. hits \subseteq Nat
        BY <1>1, <1>5
      <3> HIDE DEF hits
      <3> QED BY <3>1, <1>7, MinProps
    <2>2. REmatch(p, nb)[1] = m /\ REmatch(p, nb)[2] = At(p, m, nb)
      BY <1>3, <1>7
    <2> HIDE DEF m, hits
    <2>3. m \in p..n + 1 /\ L(m) >= 0 /\ At(p, m, nb) = L(m)
      BY <2>1, <1>2, <1>4, <1>5
    <2>4. m # None
      BY <2>3, <1>1 DEF None
    <2>5. ASSUME NEW q \in p..m - 1 PROVE L(q) < 0
      <3>1. q \in p..n + 1 /\ ~(m <= q)
        BY <2>3, <1>1
      <3> QED BY <3>1, <2>1, <1>4
    <2> QED BY <2>2, <2>3, <2>4, <2>5
  <1> QED BY <1>6, <1>7

\* What re_pos_match does at p, when F says what it does further on.
SearchAt(F, start, bol, p) ==
    LET m == REmatch(p, bol \/ p > start)
    IN IF p > n \/ m[1] = None THEN <<None, 0>>
       ELSE IF m[2] > 0 THEN m
       ELSE F[m[1] + 1]
SearchF(F, start, bol) == F = [p \in start..n + 2 |-> SearchAt(F, start, bol, p)]

\* The first separator is what it finds.
LEMMA SearchFinds ==
    ASSUME Splittable, NEW start \in 1..n + 1, NEW bol \in BOOLEAN, bol <=> start > 1,
           NEW F, NEW p \in start..n + 2, \A q \in start..n + 2 : q > p => F[q] = Found(q)
    PROVE  SearchAt(F, start, bol, p) = Found(p)
  <1>1. n \in Nat /\ \A q \in 1..n + 1 : L(q) \in Int /\ (q > n => L(q) <= 0)
    BY LongestProps
  <1> DEFINE nb == bol \/ p > start
             m == REmatch(p, nb)
  <1>2. SearchAt(F, start, bol, p) = IF p > n \/ m[1] = None THEN <<None, 0>>
                                     ELSE IF m[2] > 0 THEN m ELSE F[m[1] + 1]
    BY DEF SearchAt
  <1>3. nb \in BOOLEAN /\ (nb <=> p > 1)
    <2>1. (start > 1 \/ p > start) <=> p > 1
      BY <1>1
    <2>2. nb <=> (start > 1 \/ p > start)
      OBVIOUS
    <2> QED BY <2>1, <2>2
  <1>4. CASE p > n
    <2>1. Separating(p) = {}
      BY <1>1, <1>4 DEF Separating
    <2> QED BY <2>1, <1>2, <1>4 DEF Found
  <1>5. CASE p <= n
    <2>1. p \in start..n + 1 /\ p \in 1..n + 1
      BY <1>1, <1>5
    <2> HIDE DEF nb
    <2>2. /\ m[1] = None => Separating(p) = {}
          /\ m[1] # None => /\ m[1] \in p..n + 1 /\ m[2] = L(m[1]) /\ L(m[1]) >= 0
                            /\ \A q \in p..m[1] - 1 : L(q) < 0
      BY <2>1, <1>3, REmatchIs
    <2>3. m[1] # None => m = <<m[1], m[2]>>
      BY DEF REmatch
    <2> HIDE DEF m
    <2>4. CASE m[1] = None
      BY <2>2, <2>4, <1>2 DEF Found
    <2>5. CASE m[1] # None /\ m[2] > 0
      <3> DEFINE q == m[1]
      <3>1. q \in p..n + 1 /\ L(q) > 0 /\ \A r \in p..q - 1 : L(r) < 0
        BY <2>2, <2>5
      <3>2. q \in 1..n + 1 /\ q \in p..n
        BY <3>1, <1>1, <2>1
      <3> HIDE DEF q
      <3>3. q \in Separating(p) /\ \A r \in Separating(p) : q <= r
        <4>1. q \in Separating(p)
          BY <3>1, <3>2 DEF Separating
        <4>2. ASSUME NEW r \in Separating(p), r < q PROVE FALSE
          <5>1. r \in p..n /\ L(r) > 0 /\ r \in 1..n + 1
            BY <1>1 DEF Separating
          <5>2. r \in p..q - 1
            BY <5>1, <4>2, <3>2
          <5> QED BY <5>1, <5>2, <3>1, <1>1
        <4>3. \A r \in Separating(p) : r \in Int
          BY <1>1 DEF Separating
        <4> QED BY <4>1, <4>2, <4>3, <3>2
      <3>4. Min(Separating(p)) = q
        <4>1. Separating(p) \subseteq Nat
          BY <1>1 DEF Separating
        <4>2. Min(Separating(p)) \in Separating(p) /\ \A r \in Separating(p) : Min(Separating(p)) <= r
          BY <3>3, <4>1, MinProps
        <4> QED BY <3>3, <4>1, <4>2
      <3>5. Found(p) = <<q, L(q)>>
        BY <3>3, <3>4 DEF Found
      <3>6. SearchAt(F, start, bol, p) = m
        BY <1>2, <1>5, <1>1, <2>5
      <3> QED BY <3>5, <3>6, <2>2, <2>3, <2>5 DEF q
    <2>6. CASE m[1] # None /\ ~(m[2] > 0)
      <3> DEFINE q == m[1]
      <3>0. m[2] \in Int /\ m[2] = L(q) /\ q \in p..n + 1 /\ \A r \in p..q - 1 : L(r) < 0
        <4>1. q \in 1..n + 1
          BY <1>1, <2>1, <2>2, <2>6
        <4> QED BY <4>1, <1>1, <2>2, <2>6
      <3>1. q \in p..n + 1 /\ L(q) <= 0 /\ \A r \in p..q - 1 : L(r) < 0
        BY <3>0, <2>6
      <3>2. q \in 1..n + 1 /\ q + 1 \in start..n + 2 /\ q + 1 > p
        BY <3>1, <1>1, <2>1
      <3> HIDE DEF q
      <3>3. Separating(p) = Separating(q + 1)
        <4>1. ASSUME NEW r \in p..n, L(r) > 0 PROVE r \in q + 1..n
          <5>1. r \in 1..n + 1 /\ L(r) \in Int
            BY <1>1
          <5>2. r # q /\ r \notin p..q - 1
            BY <4>1, <5>1, <3>1, <3>2, <1>1
          <5> QED BY <5>2, <3>2, <1>1
        <4>2. \A r \in q + 1..n : r \in p..n
          BY <3>1, <1>1
        <4> QED BY <4>1, <4>2 DEF Separating
      <3>4. Found(p) = Found(q + 1)
        BY <3>3 DEF Found
      <3>5. SearchAt(F, start, bol, p) = F[q + 1]
        BY <1>2, <1>5, <1>1, <2>6 DEF q
      <3> QED BY <3>2, <3>4, <3>5
    <2> QED BY <2>4, <2>5, <2>6
  <1> QED BY <1>1, <1>4, <1>5

\* re_pos_match finds the first match that is not empty.
LEMMA FoundIs ==
    ASSUME Splittable, NEW start \in 1..n + 1, NEW bol \in BOOLEAN, bol <=> start > 1
    PROVE  re_pos_match(start, bol) = Found(start)
  <1>0. n \in Nat
    BY LongestProps
  <1> DEFINE D == start..n + 2
             c == CHOOSE F : SearchF(F, start, bol)
             g == [p \in D |-> Found(p)]
  <1>1. re_pos_match(start, bol) = c[start]
    BY DEF re_pos_match, SearchF, SearchAt
  <1>2. SearchF(g, start, bol)
    <2>1. ASSUME NEW p \in D PROVE SearchAt(g, start, bol, p) = Found(p)
      <3>1. \A q \in D : q > p => g[q] = Found(q)
        OBVIOUS
      <3> HIDE DEF g
      <3> QED BY <3>1, SearchFinds
    <2>2. g = [p \in D |-> SearchAt(g, start, bol, p)]
      <3> DEFINE h == [p \in D |-> SearchAt(g, start, bol, p)]
      <3>1. \A p \in D : h[p] = g[p]
        BY <2>1
      <3> QED BY <3>1
    <2> HIDE DEF g
    <2> QED BY <2>2 DEF SearchF
  <1>3. SearchF(c, start, bol)
    BY <1>2
  <1> HIDE DEF c, g
  <1> DEFINE T == {k \in Nat : \A p \in D : p + k > n + 2 => c[p] = Found(p)}
  <1>4. \A p \in D : c[p] = SearchAt(c, start, bol, p)
    BY <1>3, Zenon DEF SearchF
  <1>5. 0 \in T
    BY <1>0
  <1>6. ASSUME NEW k \in Nat, k \in T PROVE k + 1 \in T
    <2> SUFFICES ASSUME NEW p \in D, p + (k + 1) > n + 2 PROVE c[p] = Found(p)
      OBVIOUS
    <2>1. ASSUME NEW q \in D, q > p PROVE c[q] = Found(q)
      <3>1. q + k > n + 2
        BY <2>1, <1>0
      <3> QED BY <3>1, <1>6
    <2>2. SearchAt(c, start, bol, p) = Found(p)
      <3> HIDE DEF T
      <3> QED BY <2>1, SearchFinds
    <2> QED BY <1>4, <2>2
  <1>7. Nat \subseteq T
    <2> HIDE DEF T
    <2> QED BY <1>5, <1>6, NatAll
  <1>8. n + 2 \in T /\ start \in D /\ start + (n + 2) > n + 2
    BY <1>0, <1>7
  <1>9. c[start] = Found(start)
    BY <1>8
  <1> QED BY <1>1, <1>9

-----------------------------------------------------------------------------
(* What the pieces should be.                                              *)

Increasing(g) == \A i, j \in DOMAIN g : i < j => g[i] < g[j]

\* g has the members of S, the smallest first.
Enumerates(g, k, S) == g \in [1..k -> S] /\ Increasing(g) /\ \A x \in S : \E i \in 1..k : g[i] = x

\* There is one such list.
LEMMA OneOrder ==
    ASSUME NEW S, S \subseteq Nat, NEW k \in Nat, NEW F, NEW g, Enumerates(F, k, S), Enumerates(g, k, S)
    PROVE  F = g
  <1>1. \A i \in 1..k : F[i] \in Nat /\ g[i] \in Nat /\ F[i] \in S /\ g[i] \in S
    BY DEF Enumerates
  <1>2. \A i, j \in 1..k : i < j => F[i] < F[j] /\ g[i] < g[j]
    BY DEF Enumerates, Increasing
  <1> DEFINE B == {i \in 1..k : F[i] # g[i]}
  <1>3. B = {}
    <2> SUFFICES ASSUME B # {} PROVE FALSE
      OBVIOUS
    <2>1. PICK i \in B : \A h \in B : i <= h
      <3>1. B \subseteq Nat
        OBVIOUS
      <3> HIDE DEF B
      <3> QED BY <3>1, LeastNat
    <2>2. i \in 1..k /\ F[i] # g[i] /\ \A h \in 1..k : h < i => F[h] = g[h]
      BY <2>1
    <2>3. PICK j \in 1..k : g[j] = F[i]
      BY <1>1, <2>2 DEF Enumerates
    <2>4. PICK h \in 1..k : F[h] = g[i]
      BY <1>1, <2>2 DEF Enumerates
    <2> HIDE DEF B
    <2>5. j > i
      <3>1. j # i
        BY <2>2, <2>3
      <3>2. ~(j < i)
        BY <2>2, <2>3, <1>1, <1>2
      <3> QED BY <3>1, <3>2, <2>2
    <2>6. h > i
      <3>1. h # i
        BY <2>2, <2>4
      <3>2. ~(h < i)
        BY <2>2, <2>4, <1>1, <1>2
      <3> QED BY <3>1, <3>2, <2>2
    <2>7. g[i] < F[i] /\ F[i] < g[i]
      BY <2>2, <2>3, <2>4, <2>5, <2>6, <1>2
    <2> QED BY <2>7, <2>2, <1>1
  <1>4. \A i \in 1..k : F[i] = g[i]
    BY <1>3
  <1> QED BY <1>4 DEF Enumerates

\* And that is the list InOrder chooses.
LEMMA InOrderIs ==
    ASSUME NEW S, S \subseteq Nat, NEW k \in Nat, NEW g, Enumerates(g, k, S)
    PROVE  Ref!InOrder(S) = g
  <1>1. g \in Bijection(1..k, S)
    <2>1. g \in [1..k -> S] /\ \A i \in 1..k : g[i] \in Nat
      BY DEF Enumerates
    <2>2. ASSUME NEW i \in 1..k, NEW j \in 1..k, g[i] = g[j] PROVE i = j
      BY <2>1, <2>2 DEF Enumerates, Increasing
    <2>3. IsInjective(g)
      BY <2>1, <2>2 DEF IsInjective
    <2> QED BY <2>1, <2>3 DEF Bijection, Injection, Surjection, Enumerates
  <1>2. IsFiniteSet(S) /\ Cardinality(S) = k
    <2>1. IsFiniteSet(1..k) /\ Cardinality(1..k) = k
      BY FS_Interval
    <2>2. ExistsBijection(1..k, S)
      BY <1>1 DEF ExistsBijection
    <2> QED BY <2>1, <2>2, FS_Bijection
  <1> DEFINE c == CHOOSE F \in [1..k -> S] : Increasing(F)
  <1>3. c \in [1..k -> S] /\ Increasing(c)
    BY DEF Enumerates
  <1>4. Ref!InOrder(S) = c
    <2>1. Ref!Cardinality(S) = Cardinality(S)
      BY DEF Ref!Cardinality, Cardinality
    <2> QED BY <2>1, <1>2 DEF Ref!InOrder, Increasing
  <1> HIDE DEF c
  <1>5. c \in Injection(1..k, S)
    <2>1. \A i \in 1..k : c[i] \in Nat
      BY <1>3
    <2>2. ASSUME NEW i \in 1..k, NEW j \in 1..k, c[i] = c[j] PROVE i = j
      BY <2>1, <2>2, <1>3 DEF Increasing
    <2> QED BY <2>2, <1>3 DEF Injection, IsInjective
  <1>6. c \in Surjection(1..k, S)
    <2>1. Cardinality(1..k) = Cardinality(S)
      BY <1>2, FS_Interval
    <2> QED BY <2>1, <1>2, <1>5, FS_Injection
  <1>7. Enumerates(c, k, S)
    BY <1>3, <1>6 DEF Enumerates, Surjection
  <1> QED BY <1>4, <1>7, OneOrder

\* The list grows at its end.
LEMMA EnumeratesMore ==
    ASSUME NEW S, S \subseteq Nat, NEW k \in Nat, NEW g, Enumerates(g, k, S), NEW x \in Nat, \A y \in S : y < x
    PROVE  Enumerates([i \in 1..k + 1 |-> IF i <= k THEN g[i] ELSE x], k + 1, S \cup {x})
  <1> DEFINE h == [i \in 1..k + 1 |-> IF i <= k THEN g[i] ELSE x]
  <1>1. /\ \A i \in 1..k : i \in 1..k + 1 /\ h[i] = g[i] /\ g[i] \in S /\ g[i] \in Nat /\ g[i] < x
        /\ k + 1 \in 1..k + 1 /\ h[k + 1] = x /\ \A i \in 1..k + 1 : i \in 1..k \/ i = k + 1
    <2>1. \A i \in 1..k : g[i] \in S
      BY DEF Enumerates
    <2>2. \A i \in 1..k : i \in 1..k + 1 /\ i <= k
      OBVIOUS
    <2>3. k + 1 \in 1..k + 1 /\ ~(k + 1 <= k) /\ \A i \in 1..k + 1 : i \in 1..k \/ i = k + 1
      OBVIOUS
    <2>4. \A i \in 1..k : h[i] = g[i]
      BY <2>2
    <2>5. h[k + 1] = x
      BY <2>3
    <2> HIDE DEF h
    <2> QED BY <2>1, <2>2, <2>3, <2>4, <2>5
  <1>2. h \in [1..k + 1 -> S \cup {x}]
    BY <1>1
  <1>3. DOMAIN h = 1..k + 1
    OBVIOUS
  <1> HIDE DEF h
  <1>4. \A i, j \in 1..k : i < j => g[i] < g[j]
    BY DEF Enumerates, Increasing
  <1>5. Increasing(h)
    BY <1>1, <1>3, <1>4 DEF Increasing
  <1>6. ASSUME NEW y \in S \cup {x} PROVE \E i \in 1..k + 1 : h[i] = y
    BY <1>1 DEF Enumerates
  <1>7. Enumerates(h, k + 1, S \cup {x})
    BY <1>2, <1>5, <1>6 DEF Enumerates
  <1> QED BY <1>7 DEF h

\* The separators are those that satisfy their definition: there is one such set.
LEMMA SeparatorsAre ==
    ASSUME Splittable, NEW S, S \subseteq 1..n,
           \A p \in 1..n : p \in S <=> L(p) > 0 /\ ~\E q \in S : q < p /\ p < q + L(q)
    PROVE  Ref!Separators(re, n) = S
  <1> DEFINE Are(T) == \A p \in 1..n : p \in T <=> L(p) > 0 /\ ~\E q \in T : q < p /\ p < q + L(q)
             c == CHOOSE T \in SUBSET (1..n) : Are(T)
  <1>0. n \in Nat
    BY LongestProps
  <1>1. Ref!Separators(re, n) = c
    BY DEF Ref!Separators, L
  <1>2. c \in SUBSET (1..n) /\ Are(c)
    <2>1. S \in SUBSET (1..n) /\ Are(S)
      OBVIOUS
    <2> HIDE DEF Are
    <2> QED BY <2>1
  <1> HIDE DEF c
  <1> DEFINE B == {p \in 1..n : ~(p \in c <=> p \in S)}
  <1>3. B = {}
    <2> SUFFICES ASSUME B # {} PROVE FALSE
      OBVIOUS
    <2>1. PICK p \in B : \A q \in B : p <= q
      <3>1. B \subseteq Nat
        BY <1>0
      <3> HIDE DEF B
      <3> QED BY <3>1, LeastNat
    <2>2. p \in 1..n /\ ~(p \in c <=> p \in S)
      BY <2>1
    <2>3. \A q \in 1..n : q < p => (q \in c <=> q \in S)
      BY <2>1, <2>2, <1>0
    <2> HIDE DEF B
    <2>4. (\E q \in c : q < p /\ p < q + L(q)) <=> (\E q \in S : q < p /\ p < q + L(q))
      BY <2>3, <1>2
    <2> QED BY <2>2, <2>4, <1>2
  <1>4. c = S
    BY <1>2, <1>3
  <1> QED BY <1>1, <1>4

\* Where a word ends.
LEMMA EndIs ==
    ASSUME text \in Seq(Chars), NEW p \in 1..n, NEW e \in p..n,
           \A i \in p..e : Ref!Word(text, i), ~Ref!Word(text, e + 1)
    PROVE  Ref!End(text, p) = e
  <1>0. n \in Nat
    BY DEF n
  <1> DEFINE Ends(q) == (\A i \in p..q : Ref!Word(text, i)) /\ ~Ref!Word(text, q + 1)
             c == CHOOSE q \in p..n : Ends(q)
  <1>1. Ref!End(text, p) = c
    BY DEF Ref!End, n
  <1>2. c \in p..n /\ Ends(c)
    <2>1. Ends(e)
      OBVIOUS
    <2> HIDE DEF Ends
    <2> QED BY <2>1
  <1> HIDE DEF c
  <1>3. ~(c < e)
    <2> SUFFICES ASSUME c < e PROVE FALSE
      OBVIOUS
    <2>1. c + 1 \in p..e
      BY <1>0, <1>2
    <2> QED BY <2>1, <1>2
  <1>4. ~(e < c)
    <2> SUFFICES ASSUME e < c PROVE FALSE
      OBVIOUS
    <2>1. e + 1 \in p..c
      BY <1>0, <1>2
    <2> QED BY <2>1, <1>2
  <1>5. c = e
    BY <1>0, <1>2, <1>3, <1>4
  <1> QED BY <1>1, <1>5

-----------------------------------------------------------------------------
(* The invariant.                                                          *)

\* The words that begin before s are in the list.
WordsSoFar ==
    /\ s > 1 => ~Ref!Word(text, s)
    /\ \E g : /\ Enumerates(g, cnt, {p \in Ref!Starts(text) : p < s})
              /\ \A i \in 1..cnt : Held(i) = SubSeq(text, g[i], Ref!End(text, g[i]))

\* Where the piece before separator i begins.
From(g, i) == IF i = 1 THEN 1 ELSE g[i - 1] + L(g[i - 1])

\* S has the separators that begin before k, and they end there at the latest.
Cut(S, k) ==
    /\ S \subseteq 1..k - 1
    /\ \A p \in 1..k - 1 : p \in S <=> L(p) > 0 /\ ~\E q \in S : q < p /\ p < q + L(q)
    /\ \A q \in S : q + L(q) <= k

\* The separators before s are known, and what is before each is in the list.
CutsSoFar ==
    /\ no_bol <=> s > 1
    /\ \E S, g :
         /\ Cut(S, s) /\ Enumerates(g, cnt, S) /\ s = From(g, cnt + 1)
         /\ \A i \in 1..cnt : Held(i) = SubSeq(text, From(g, i), g[i] - 1)

LettersSoFar == cnt = s - 1 /\ \A i \in 1..cnt : Held(i) = <<text[i]>>

Shape ==
    /\ how \in {"space", "re", "null"} /\ phase \in {"idle", "split", "transfer"}
    /\ text \in Seq(Chars) /\ (how = "re" => re \in Tables(n))
    /\ s \in 1..n + 1 /\ no_bol \in BOOLEAN /\ cnt \in 0..n + 1 /\ blocks \in Blocks

Room ==
    /\ phase = "split" => cnt < s /\ Len(blocks) = Node(cnt + 1)
    /\ phase = "transfer" => Len(blocks) = Node(cnt + 1) \/ (cnt > 0 /\ Len(blocks) = Node(cnt))
    /\ phase = "idle" => Len(blocks) = 1

Arriving ==
    /\ phase = "split" => /\ n > 0
                          /\ how = "space" => WordsSoFar
                          /\ how = "re" => CutsSoFar
                          /\ how = "null" => LettersSoFar
    /\ phase = "transfer" => TextPieces = [i \in 1..cnt |-> Held(i)]
    /\ phase = "idle" => cells = TextPieces

SplitInv == Shape /\ Room /\ Arriving

\* How long a list is.
LEMMA EnumeratedLen ==
    ASSUME NEW S, S \subseteq Nat, NEW k \in Nat, NEW g, Enumerates(g, k, S)
    PROVE  g \in [1..k -> Nat] /\ g \in Seq(Nat) /\ Len(g) = k
  <1>1. g \in [1..k -> Nat]
    BY DEF Enumerates
  <1> QED BY <1>1

\* The words, by where they begin.
LEMMA WordsAre ==
    ASSUME NEW t \in Seq(Chars), NEW k \in Nat, NEW g, Enumerates(g, k, Ref!Starts(t))
    PROVE  Ref!Words(t) = [i \in 1..k |-> SubSeq(t, g[i], Ref!End(t, g[i]))]
  <1>1. Ref!Starts(t) \subseteq Nat
    BY DEF Ref!Starts
  <1>2. Ref!InOrder(Ref!Starts(t)) = g /\ Len(g) = k
    BY <1>1, InOrderIs, EnumeratedLen
  <1> QED BY <1>2, Zenon DEF Ref!Words

\* The pieces between the separators.
LEMMA BetweenAre ==
    ASSUME Splittable, n > 0, NEW k \in Nat, NEW g, Enumerates(g, k, Ref!Separators(re, n)),
           Ref!Separators(re, n) \subseteq Nat
    PROVE  Ref!Between(text, re) =
               [i \in 1..k + 1 |-> SubSeq(text, From(g, i), IF i > k THEN n ELSE g[i] - 1)]
  <1>1. Ref!InOrder(Ref!Separators(re, n)) = g /\ Len(g) = k
    BY InOrderIs, EnumeratedLen
  <1>2. n # 0
    BY DEF n
  <1> QED BY <1>1, <1>2, Zenon DEF Ref!Between, From, L, n

\* Nothing of the empty text.
LEMMA NothingOf ==
    ASSUME NEW t \in Seq(Chars), Len(t) = 0, NEW r
    PROVE  Ref!Words(t) = [i \in 1..0 |-> Held(i)] /\ Ref!Between(t, r) = [i \in 1..0 |-> Held(i)]
           /\ Ref!Letters(t) = [i \in 1..0 |-> Held(i)]
  <1>1. \A F : [i \in 1..0 |-> F[i]] = <<>>
    OBVIOUS
  <1>2. Ref!Between(t, r) = <<>>
    BY DEF Ref!Between
  <1>3. Ref!Words(t) = [i \in 1..0 |-> Held(i)]
    <2>1. Ref!Starts(t) = {}
      BY DEF Ref!Starts
    <2> DEFINE g == [i \in 1..0 |-> 0]
    <2>2. Enumerates(g, 0, {})
      BY DEF Enumerates, Increasing
    <2> HIDE DEF g
    <2>3. Enumerates(g, 0, Ref!Starts(t)) /\ 0 \in Nat
      BY <2>1, <2>2
    <2>4. Ref!Words(t) = [i \in 1..0 |-> SubSeq(t, g[i], Ref!End(t, g[i]))]
      BY <2>3, WordsAre, ZenonT(60)
    <2> QED BY <2>4
  <1>4. Ref!Letters(t) = [i \in 1..0 |-> Held(i)]
    BY DEF Ref!Letters
  <1>5. [i \in 1..0 |-> Held(i)] = <<>>
    OBVIOUS
  <1> QED BY <1>2, <1>3, <1>4, <1>5

\* The first of some places, or the place behind the text.
LEMMA FirstOf ==
    ASSUME n \in Nat, NEW p \in 1..n + 1, NEW A, A \subseteq p..n
    PROVE  LET m == Min(A \cup {n + 1})
           IN  m \in p..n + 1 /\ (m <= n => m \in A) /\ \A i \in p..m - 1 : i \notin A
  <1> DEFINE B == A \cup {n + 1}
             m == Min(B)
  <1>1. B \subseteq p..n + 1 /\ B # {} /\ B \subseteq Nat
    OBVIOUS
  <1>2. m \in B /\ \A i \in B : m <= i
    <2> HIDE DEF B
    <2> QED BY <1>1, MinProps
  <1> HIDE DEF m
  <1>3. m \in p..n + 1 /\ (m <= n => m \in A)
    BY <1>1, <1>2
  <1>4. ASSUME NEW i \in p..m - 1 PROVE i \notin A
    BY <1>1, <1>2, <1>3
  <1> QED BY <1>3, <1>4 DEF m

\* The first character of a word from p on.
LEMMA SkipSpaceIs ==
    ASSUME n \in Nat, NEW p \in 1..n + 1
    PROVE  /\ SkipSpace(p) \in p..n + 1
           /\ SkipSpace(p) <= n => Ref!Word(text, SkipSpace(p))
           /\ \A i \in p..SkipSpace(p) - 1 : ~Ref!Word(text, i)
  <1> DEFINE A == {q \in p..n : text[q] \notin Space}
             m == Min(A \cup {n + 1})
  <1>1. m \in p..n + 1 /\ (m <= n => m \in A) /\ \A i \in p..m - 1 : i \notin A
    <2>1. A \subseteq p..n
      OBVIOUS
    <2> HIDE DEF A
    <2> QED BY <2>1, FirstOf
  <1>2. SkipSpace(p) = m
    BY DEF SkipSpace
  <1> HIDE DEF m
  <1>3. m <= n => Ref!Word(text, m)
    BY <1>1 DEF Ref!Word, n
  <1>4. ASSUME NEW i \in p..m - 1 PROVE ~Ref!Word(text, i)
    <2>1. i \in p..n
      BY <1>1
    <2> QED BY <2>1, <1>1 DEF Ref!Word
  <1> QED BY <1>1, <1>2, <1>3, <1>4

\* The first character from p on that is in no word.
LEMMA SkipWordIs ==
    ASSUME n \in Nat, NEW p \in 1..n + 1
    PROVE  /\ SkipWord(p) \in p..n + 1
           /\ ~Ref!Word(text, SkipWord(p))
           /\ \A i \in p..SkipWord(p) - 1 : Ref!Word(text, i)
  <1> DEFINE A == {q \in p..n : text[q] \in Space}
             m == Min(A \cup {n + 1})
  <1>1. m \in p..n + 1 /\ (m <= n => m \in A) /\ \A i \in p..m - 1 : i \notin A
    <2>1. A \subseteq p..n
      OBVIOUS
    <2> HIDE DEF A
    <2> QED BY <2>1, FirstOf
  <1>2. SkipWord(p) = m
    BY DEF SkipWord
  <1> HIDE DEF m
  <1>3. ~Ref!Word(text, m)
    <2>1. CASE m <= n
      BY <2>1, <1>1 DEF Ref!Word
    <2>2. CASE ~(m <= n)
      BY <2>2, <1>1 DEF Ref!Word, n
    <2> QED BY <2>1, <2>2
  <1>4. ASSUME NEW i \in p..m - 1 PROVE Ref!Word(text, i)
    <2>1. i \in p..n /\ i \in 1..n
      BY <1>1
    <2> QED BY <2>1, <1>1 DEF Ref!Word, n
  <1> QED BY <1>1, <1>2, <1>3, <1>4

\* A part of a text is such a text.
LEMMA PartOf ==
    ASSUME text \in Seq(Chars), NEW a \in 1..n + 1, NEW b \in 0..n
    PROVE  SubSeq(text, a, b) \in Strings
  <1>1. \A i \in a..b : text[i] \in Chars
    BY DEF n
  <1>2. a \in Int /\ b \in Int
    BY DEF n
  <1>3. SubSeq(text, a, b) \in Seq(Chars)
    BY <1>1, <1>2, SubSeqProperties DEF n
  <1> QED BY <1>3 DEF Strings

\* What is promised stays while the text does.
LEMMA SamePieces ==
    ASSUME UNCHANGED <<how, text, re>>
    PROVE  n' = n /\ TextPieces' = TextPieces /\ \A q : L(q)' = L(q)
  <1>1. how' = how /\ text' = text /\ re' = re
    OBVIOUS
  <1> QED BY <1>1 DEF n, TextPieces, L

-----------------------------------------------------------------------------
(* The steps.                                                              *)

\* What is given to be split.
LEMMA GivenSplits ==
    /\ \A t \in Texts : t \in Seq(Chars)
    /\ \A m \in Matches : m[1] \in Seq(Chars) /\ m[2] \in Tables(Len(m[1]))
  <1> DEFINE A == Texts \cup {m[1] : m \in Matches}
  <1>1. ASSUME NEW t \in A, t \in Seq(ToSet(t)) PROVE t \in Seq(Chars)
    <2>1. ToSet(t) \subseteq Chars
      BY DEF Chars
    <2> HIDE DEF A
    <2>2. \A i \in 1..Len(t) : t[i] \in Chars
      BY <1>1, <2>1 DEF ToSet
    <2> QED BY <1>1, <2>2
  <1>2. ASSUME NEW t \in Texts PROVE t \in Seq(Chars)
    BY <1>1, SplitterAssumption
  <1>3. ASSUME NEW m \in Matches PROVE m[1] \in Seq(Chars) /\ m[2] \in Tables(Len(m[1]))
    BY <1>1, SplitterAssumption
  <1> QED BY <1>2, <1>3

\* At first there is the empty text.
LEMMA InitSplit == SplitInit => SplitInv
  <1> SUFFICES ASSUME SplitInit PROVE SplitInv
    OBVIOUS
  <1>1. /\ how = "space" /\ phase = "idle" /\ text = <<>> /\ s = 1 /\ no_bol = FALSE
        /\ blocks = <<Block>> /\ cnt = 0 /\ cells = <<>>
    BY DEF SplitInit
  <1>2. n = 0 /\ text \in Seq(Chars)
    BY <1>1 DEF n
  <1>3. blocks \in Blocks /\ Len(blocks) = 1
    <2>1. Block \in [1..SP_SIZE -> Strings]
      BY DEF Block, Strings
    <2> HIDE DEF Block
    <2> QED BY <1>1, <2>1 DEF Blocks
  <1>4. Shape
    <2>1. s \in 1..n + 1 /\ cnt \in 0..n + 1
      BY <1>1, <1>2
    <2>2. no_bol \in BOOLEAN
      BY <1>1
    <2>3. "space" # "re"
      OBVIOUS
    <2>4. how # "re"
      BY <1>1, <2>3, Zenon
    <2>5. how \in {"space", "re", "null"} /\ phase \in {"idle", "split", "transfer"}
      BY <1>1, Zenon
    <2> QED BY <1>2, <1>3, <2>1, <2>2, <2>4, <2>5, Zenon DEF Shape
  <1>5. cells = TextPieces
    <2>1. Ref!Words(text) = [i \in 1..0 |-> Held(i)]
      BY <1>2, NothingOf DEF n
    <2>2. [i \in 1..0 |-> Held(i)] = <<>>
      OBVIOUS
    <2> QED BY <1>1, <2>1, <2>2 DEF TextPieces
  <1> QED BY <1>1, <1>3, <1>4, <1>5 DEF SplitInv, Room, Arriving

\* The places of the first piece.
LEMMA FirstPlace == Node(1) = 1
  <1>1. 1 <= SP_SIZE
    BY SplitterAssumption
  <1> QED BY <1>1, FirstBlock

\* At the beginning of a text there is nothing in the list.
LEMMA StartStep ==
    ASSUME SplitInv, NEW F \in {"space", "re", "null"}, NEW t \in Seq(Chars), NEW r,
           F = "re" => r \in Tables(Len(t)), Start(F, t, r)
    PROVE  SplitInv'
  <1>1. /\ phase = "idle" /\ phase' = IF Len(t) = 0 THEN "transfer" ELSE "split"
        /\ how' = F /\ text' = t /\ re' = r /\ s' = 1 /\ no_bol' = FALSE /\ cnt' = 0 /\ cells' = <<>>
        /\ blocks' = blocks
    BY DEF Start
  <1>2. blocks \in Blocks /\ Len(blocks) = 1
    BY <1>1 DEF SplitInv, Shape, Room
  <1>3. n' = Len(t) /\ Len(t) \in Nat
    BY <1>1 DEF n
  <1>4. Shape'
    <2>1. s' \in 1..n' + 1 /\ cnt' \in 0..n' + 1
      BY <1>1, <1>3
    <2>2. how' = "re" => re' \in Tables(n')
      BY <1>1, <1>3
    <2> QED BY <1>1, <1>2, <2>1, <2>2 DEF Shape
  <1>5. Room'
    <2>1. Len(blocks') = Node(cnt' + 1) /\ cnt' < s'
      BY <1>1, <1>2, FirstPlace
    <2>2. phase' # "idle"
      BY <1>1
    <2>3. Node(cnt + 1)' = Node(cnt' + 1)
      BY DEF Node
    <2> QED BY <2>1, <2>2, <2>3 DEF Room
  <1>6. CASE Len(t) = 0
    <2>1. phase' = "transfer"
      BY <1>1, <1>6
    <2>2. TextPieces' = <<>>
      <3>1. [i \in 1..0 |-> Held(i)] = <<>>
        OBVIOUS
      <3>2. Ref!Words(t) = <<>> /\ Ref!Between(t, r) = <<>> /\ Ref!Letters(t) = <<>>
        BY <1>6, <3>1, NothingOf
      <3> QED BY <3>2, <1>1 DEF TextPieces
    <2>3. [i \in 1..cnt |-> Held(i)]' = <<>>
      BY <1>1
    <2> QED BY <2>1, <2>2, <2>3, <1>4, <1>5 DEF SplitInv, Arriving
  <1>7. CASE Len(t) # 0
    <2>1. phase' = "split" /\ n' > 0
      BY <1>1, <1>3, <1>7
    <2> DEFINE g == [i \in 1..0 |-> 0]
    <2>2. Enumerates(g, 0, {})
      BY DEF Enumerates, Increasing
    <2> HIDE DEF g
    <2>3. WordsSoFar'
      <3>1. {p \in Ref!Starts(text') : p < s'} = {}
        BY <1>1 DEF Ref!Starts
      <3>2. Enumerates(g, cnt', {p \in Ref!Starts(text') : p < s'})
        BY <1>1, <2>2, <3>1
      <3>3. ~(s' > 1) /\ \A i \in 1..cnt' : FALSE
        BY <1>1
      <3> QED BY <3>2, <3>3 DEF WordsSoFar
    <2>4. CutsSoFar'
      <3>1. Enumerates(g, cnt', {}) /\ Cut({}, s)'
        BY <1>1, <2>2 DEF Cut
      <3>2. (no_bol' <=> s' > 1) /\ (\A i \in 1..cnt' : FALSE)
        BY <1>1
      <3>3. s' = From(g, cnt + 1)'
        BY <1>1 DEF From
      <3> QED BY <3>1, <3>2, <3>3 DEF CutsSoFar
    <2>5. LettersSoFar'
      BY <1>1 DEF LettersSoFar
    <2> QED BY <2>1, <2>3, <2>4, <2>5, <1>4, <1>5 DEF SplitInv, Arriving
  <1> QED BY <1>6, <1>7

\* A piece more, with room for another one.
LEMMA Added ==
    ASSUME SplitInv, phase = "split", NEW piece \in Strings, Add(piece)
    PROVE  /\ cnt' = cnt + 1 /\ blocks' \in Blocks /\ Len(blocks') = Node(cnt' + 1)
           /\ \A i \in 1..cnt' : Held(i)' = IF i <= cnt THEN Held(i) ELSE piece
  <1>1. cnt \in Nat /\ blocks \in Blocks /\ Len(blocks) = Node(cnt + 1)
    BY DEF SplitInv, Shape, Room, n
  <1>2. cnt' = cnt + 1 /\ blocks' = Grow(Store(piece))
    BY DEF Add
  <1>3. blocks' = IF TRUE THEN Grow(Store(piece)) ELSE Store(piece)
    BY <1>2
  <1>4. /\ blocks' \in Blocks /\ Len(blocks') = Node(IF TRUE THEN cnt' + 1 ELSE cnt')
        /\ \A i \in 1..cnt' : Held(i)' = IF i <= cnt THEN Held(i) ELSE piece
    BY <1>1, <1>2, <1>3, StoredInPlace
  <1> QED BY <1>2, <1>4

\* The last piece.
LEMMA AddedLast ==
    ASSUME SplitInv, phase = "split", NEW piece \in Strings, AddLast(piece)
    PROVE  /\ cnt' = cnt + 1 /\ blocks' \in Blocks /\ Len(blocks') = Node(cnt')
           /\ \A i \in 1..cnt' : Held(i)' = IF i <= cnt THEN Held(i) ELSE piece
  <1>1. cnt \in Nat /\ blocks \in Blocks /\ Len(blocks) = Node(cnt + 1)
    BY DEF SplitInv, Shape, Room, n
  <1>2. cnt' = cnt + 1 /\ blocks' = Store(piece)
    BY DEF AddLast
  <1>3. blocks' = IF FALSE THEN Grow(Store(piece)) ELSE Store(piece)
    BY <1>2
  <1>4. /\ blocks' \in Blocks /\ Len(blocks') = Node(IF FALSE THEN cnt' + 1 ELSE cnt')
        /\ \A i \in 1..cnt' : Held(i)' = IF i <= cnt THEN Held(i) ELSE piece
    BY <1>1, <1>2, <1>3, StoredInPlace
  <1> QED BY <1>2, <1>4

\* space_split has the words that begin before the place it has reached.
LEMMA SpaceStep == ASSUME SplitInv, space_split PROVE SplitInv'
  <1> DEFINE q == SkipSpace(s)
             S == {p \in Ref!Starts(text) : p < s}
  <1>1. /\ phase = "split" /\ how = "space"
        /\ how' = how /\ text' = text /\ re' = re /\ no_bol' = no_bol
    BY DEF space_split, Splitting
  <1>2. /\ text \in Seq(Chars) /\ n \in Nat /\ s \in 1..n + 1 /\ no_bol \in BOOLEAN /\ cnt \in Nat
        /\ blocks \in Blocks /\ Len(blocks) = Node(cnt + 1) /\ cnt < s /\ n > 0 /\ WordsSoFar
    BY <1>1 DEF SplitInv, Shape, Room, Arriving, n
  <1>3. n' = n /\ TextPieces' = TextPieces
    BY <1>1, SamePieces
  <1>4. PICK g : /\ Enumerates(g, cnt, S)
                 /\ \A i \in 1..cnt : Held(i) = SubSeq(text, g[i], Ref!End(text, g[i]))
    BY <1>2 DEF WordsSoFar
  <1>5. S \subseteq Nat
    BY DEF Ref!Starts
  <1>6. q \in s..n + 1 /\ (q <= n => Ref!Word(text, q)) /\ \A i \in s..q - 1 : ~Ref!Word(text, i)
    BY <1>2, SkipSpaceIs
  <1>7. \A p \in Ref!Starts(text) : p \in 1..n /\ Ref!Word(text, p) /\ ~Ref!Word(text, p - 1)
    BY DEF Ref!Starts, n
  <1>8. CASE q = n + 1
    <2>1. phase' = "transfer" /\ s' = s /\ blocks' = blocks /\ cnt' = cnt
      BY <1>8 DEF space_split, Finish
    <2>2. Shape'
      BY <1>1, <1>2, <1>3, <2>1 DEF Shape, SplitInv
    <2>3. Room'
      <3>1. Node(cnt + 1)' = Node(cnt + 1)
        BY <2>1 DEF Node
      <3> QED BY <1>2, <2>1, <3>1 DEF Room
    <2> HIDE DEF q
    <2>4. S = Ref!Starts(text)
      <3>1. ASSUME NEW p \in Ref!Starts(text) PROVE p < s
        <4>1. p \notin s..q - 1 /\ p \in 1..n
          BY <1>6, <1>7
        <4> QED BY <4>1, <1>2, <1>8
      <3> QED BY <3>1
    <2>5. Ref!Words(text) = [i \in 1..cnt |-> Held(i)]
      <3>1. Enumerates(g, cnt, Ref!Starts(text))
        BY <1>4, <2>4
      <3>2. Ref!Words(text) = [i \in 1..cnt |-> SubSeq(text, g[i], Ref!End(text, g[i]))]
        BY <1>2, <3>1, WordsAre
      <3> QED BY <3>2, <1>4
    <2>6. TextPieces' = [i \in 1..cnt |-> Held(i)]'
      <3>1. TextPieces = Ref!Words(text)
        BY <1>1 DEF TextPieces
      <3>2. [i \in 1..cnt |-> Held(i)]' = [i \in 1..cnt |-> Held(i)]
        BY <2>1 DEF Held, Node, Slot
      <3> QED BY <1>3, <2>5, <3>1, <3>2
    <2> QED BY <2>1, <2>2, <2>3, <2>6 DEF SplitInv, Arriving
  <1>9. CASE q # n + 1
    <2> DEFINE e == SkipWord(q)
               piece == SubSeq(text, q, e - 1)
               h == [i \in 1..cnt + 1 |-> IF i <= cnt THEN g[i] ELSE q]
    <2>1. Add(piece) /\ s' = e /\ phase' = phase
      BY <1>9 DEF space_split
    <2> HIDE DEF q
    <2>2. q \in 1..n /\ Ref!Word(text, q)
      BY <1>2, <1>6, <1>9
    <2>3. e \in q..n + 1 /\ ~Ref!Word(text, e) /\ \A i \in q..e - 1 : Ref!Word(text, i)
      <3>1. q \in 1..n + 1
        BY <1>2, <2>2
      <3> QED BY <3>1, <1>2, SkipWordIs
    <2> HIDE DEF e
    <2>4. e > q /\ e - 1 \in q..n /\ (e - 1) + 1 = e
      <3>1. e # q
        BY <2>2, <2>3
      <3> QED BY <3>1, <1>2, <2>2, <2>3
    <2>5. Ref!End(text, q) = e - 1
      BY <1>2, <2>2, <2>3, <2>4, EndIs
    <2>6. piece \in Strings
      <3>1. q \in 1..n + 1 /\ e - 1 \in 0..n
        BY <1>2, <2>2, <2>4
      <3> QED BY <3>1, <1>2, PartOf
    <2> HIDE DEF piece
    <2>7. /\ cnt' = cnt + 1 /\ blocks' \in Blocks /\ Len(blocks') = Node(cnt' + 1)
          /\ \A i \in 1..cnt' : Held(i)' = IF i <= cnt THEN Held(i) ELSE piece
      BY <1>1, <2>1, <2>6, Added
    <2>8. cnt' < s' /\ s' \in 1..n + 1 /\ cnt' \in 0..n + 1
      BY <1>2, <1>6, <2>1, <2>2, <2>3, <2>4, <2>7
    <2>9. Shape'
      BY <1>1, <1>2, <1>3, <2>1, <2>7, <2>8 DEF Shape, SplitInv
    <2>10. Room'
      <3>1. Node(cnt + 1)' = Node(cnt' + 1)
        BY DEF Node
      <3> QED BY <1>1, <2>1, <2>7, <2>8, <3>1 DEF Room
    <2>11. q \in Ref!Starts(text)
      <3>1. ~Ref!Word(text, q - 1)
        <4>1. CASE q > s
          <5>1. q - 1 \in s..q - 1
            BY <4>1, <1>2, <2>2
          <5> QED BY <5>1, <1>6
        <4>2. CASE q = s
          <5>1. s = 1
            BY <4>2, <1>2, <2>2 DEF WordsSoFar
          <5> QED BY <4>2, <5>1 DEF Ref!Word
        <4> QED BY <4>1, <4>2, <1>2, <1>6
      <3> QED BY <3>1, <2>2 DEF Ref!Starts, n
    <2>12. {p \in Ref!Starts(text) : p < e} = S \cup {q}
      <3>1. ASSUME NEW p \in Ref!Starts(text), p < e, ~(p < s) PROVE p = q
        <4>1. p \in 1..n /\ p \notin s..q - 1
          BY <1>6, <1>7
        <4>2. ~(p > q)
          <5> SUFFICES ASSUME p > q PROVE FALSE
            OBVIOUS
          <5>1. p - 1 \in q..e - 1
            BY <3>1, <4>1, <1>2, <2>2, <2>3
          <5> QED BY <5>1, <2>3, <1>7
        <4> QED BY <3>1, <4>1, <4>2, <1>2, <2>2
      <3>2. ASSUME NEW p \in S PROVE p < e
        <4>1. p \in Nat /\ p < s
          BY <1>5
        <4> QED BY <4>1, <1>2, <1>6, <2>2, <2>3
      <3>3. q < e
        BY <2>4
      <3> QED BY <3>1, <3>2, <3>3, <2>11
    <2>13. Enumerates(h, cnt', S \cup {q})
      <3>1. \A y \in S : y < q
        <4>1. \A y \in S : y \in Nat /\ y < s
          BY <1>5
        <4> QED BY <4>1, <1>2, <1>6
      <3>2. q \in Nat
        BY <2>2
      <3> HIDE DEF S
      <3> QED BY <3>1, <3>2, <1>2, <1>4, <1>5, <2>7, EnumeratesMore
    <2>14. WordsSoFar'
      <3>1. s' > 1 => ~Ref!Word(text', s')
        BY <1>1, <2>1, <2>3
      <3>2. Enumerates(h, cnt', {p \in Ref!Starts(text') : p < s'})
        BY <1>1, <2>1, <2>12, <2>13
      <3>3. ASSUME NEW i \in 1..cnt' PROVE Held(i)' = SubSeq(text', h[i], Ref!End(text', h[i]))
        <4>1. CASE i <= cnt
          <5>1. h[i] = g[i] /\ i \in 1..cnt
            BY <4>1, <1>2, <2>7
          <5> HIDE DEF h
          <5> QED BY <4>1, <5>1, <1>1, <1>4, <2>7
        <4>2. CASE ~(i <= cnt)
          <5>1. h[i] = q
            BY <4>2, <2>7
          <5> HIDE DEF h
          <5> QED BY <4>2, <5>1, <1>1, <2>5, <2>7 DEF piece
        <4> QED BY <4>1, <4>2
      <3> HIDE DEF h
      <3> QED BY <3>1, <3>2, <3>3 DEF WordsSoFar
    <2> QED BY <1>1, <1>2, <1>3, <2>1, <2>9, <2>10, <2>14 DEF SplitInv, Arriving
  <1> QED BY <1>8, <1>9

\* When nothing separates any more, the cuts made are all of them.
LEMMA LastCut ==
    ASSUME Splittable, n > 0, s \in 1..n + 1, cnt \in Nat, Separating(s) = {},
           NEW S, NEW g, Cut(S, s), Enumerates(g, cnt, S), s = From(g, cnt + 1),
           \A i \in 1..cnt : Held(i) = SubSeq(text, From(g, i), g[i] - 1)
    PROVE  Ref!Between(text, re) = [i \in 1..cnt + 1 |-> IF i <= cnt THEN Held(i) ELSE SubSeq(text, s, n)]
  <1>0. n \in Nat
    BY LongestProps
  <1>1. S \subseteq 1..n
    BY <1>0 DEF Cut
  <1>2. ASSUME NEW p \in 1..n PROVE p \in S <=> L(p) > 0 /\ ~\E q \in S : q < p /\ p < q + L(q)
    <2>1. CASE p < s
      <3>1. p \in 1..s - 1
        BY <2>1, <1>0
      <3> QED BY <3>1 DEF Cut
    <2>2. CASE ~(p < s)
      <3>1. p \notin S
        BY <2>2, <1>0 DEF Cut
      <3>2. p \in s..n
        BY <2>2, <1>0
      <3>3. ~(L(p) > 0)
        BY <3>2 DEF Separating
      <3> QED BY <3>1, <3>3
    <2> QED BY <2>1, <2>2
  <1>3. Ref!Separators(re, n) = S
    BY <1>1, <1>2, SeparatorsAre
  <1>4. S \subseteq Nat
    BY <1>1
  <1>5. Ref!Between(text, re) =
            [i \in 1..cnt + 1 |-> SubSeq(text, From(g, i), IF i > cnt THEN n ELSE g[i] - 1)]
    BY <1>3, <1>4, BetweenAre
  <1>6. ASSUME NEW i \in 1..cnt + 1
        PROVE  SubSeq(text, From(g, i), IF i > cnt THEN n ELSE g[i] - 1) = IF i <= cnt THEN Held(i) ELSE SubSeq(text, s, n)
    <2>1. CASE i <= cnt
      <3>1. i \in 1..cnt /\ ~(i > cnt)
        BY <2>1
      <3> QED BY <2>1, <3>1
    <2>2. CASE ~(i <= cnt)
      <3>1. i = cnt + 1 /\ i > cnt
        BY <2>2
      <3> QED BY <2>2, <3>1
    <2> QED BY <2>1, <2>2
  <1> QED BY <1>5, <1>6

\* A cut more.
LEMMA NextCut ==
    ASSUME Splittable, s \in 1..n + 1, NEW S, Cut(S, s),
           NEW x \in s..n, L(x) > 0, \A q \in s..x - 1 : L(q) <= 0,
           NEW e, e = x + L(x)
    PROVE  Cut(S \cup {x}, e)
  <1>0. n \in Nat /\ \A q \in 1..n + 1 : L(q) \in Int
    BY LongestProps
  <1> DEFINE l == L(x)
             A(p, q) == q < p /\ p < q + L(q)
  <1>1. l \in Int /\ l > 0 /\ x \in Nat /\ x >= s /\ x >= 1 /\ e = x + l /\ s \in Nat
    BY <1>0
  <1> HIDE DEF l
  <1>2. S \cup {x} \subseteq 1..e - 1
    BY <1>0, <1>1 DEF Cut
  <1>3. ASSUME NEW p \in 1..e - 1
        PROVE  p \in S \cup {x} <=> L(p) > 0 /\ ~\E q \in S \cup {x} : A(p, q)
    <2>1. CASE p < s
      <3>1. p \in 1..s - 1 /\ p # x /\ ~(x < p)
        BY <2>1, <1>1
      <3>2. ~A(p, x)
        BY <3>1
      <3>3. p \in S <=> L(p) > 0 /\ ~\E q \in S : A(p, q)
        BY <3>1 DEF Cut
      <3> HIDE DEF A
      <3> QED BY <3>1, <3>2, <3>3
    <2>2. CASE p >= s /\ p < x
      <3>1. p \in s..x - 1 /\ p # x /\ p \notin S
        BY <2>2, <1>1 DEF Cut
      <3>2. p \in 1..n + 1
        BY <2>2, <1>0, <1>1
      <3>3. L(p) <= 0 /\ L(p) \in Int
        BY <3>1, <3>2, <1>0
      <3>4. ~(L(p) > 0)
        BY <3>3
      <3> QED BY <3>1, <3>4
    <2>3. CASE p = x
      <3>1. ASSUME NEW q \in S \cup {x} PROVE ~A(p, q)
        <4>1. CASE q = x
          BY <4>1, <2>3, <1>1
        <4>2. CASE q \in S
          <5>1. q + L(q) <= s /\ q \in 1..n + 1
            BY <4>2, <1>0 DEF Cut
          <5>2. L(q) \in Int
            BY <5>1, <1>0
          <5>3. ~(x < q + L(q))
            BY <5>1, <5>2, <1>1
          <5> QED BY <5>3, <2>3
        <4> QED BY <4>1, <4>2
      <3> HIDE DEF A
      <3> QED BY <2>3, <3>1
    <2>4. CASE p > x
      <3>1. A(p, x)
        BY <2>4, <1>1 DEF l
      <3>2. p # x /\ p \notin S
        BY <2>4, <1>1 DEF Cut
      <3> HIDE DEF A
      <3> QED BY <3>1, <3>2
    <2>5. p \in Nat
      BY <1>1
    <2> QED BY <2>1, <2>2, <2>3, <2>4, <2>5, <1>1
  <1>4. ASSUME NEW q \in S \cup {x} PROVE q + L(q) <= e
    <2>1. CASE q \in S
      <3>1. q + L(q) <= s /\ q \in 1..n + 1
        BY <2>1, <1>0 DEF Cut
      <3>2. L(q) \in Int
        BY <3>1, <1>0
      <3> QED BY <3>1, <3>2, <1>1
    <2>2. CASE q = x
      BY <2>2, <1>1 DEF l
    <2> QED BY <2>1, <2>2
  <1> QED BY <1>2, <1>3, <1>4 DEF Cut

\* re_split has the pieces before the separators it has passed.
LEMMA ReStep == ASSUME SplitInv, re_split PROVE SplitInv'
  <1> DEFINE m == re_pos_match(s, no_bol)
  <1>1. /\ phase = "split" /\ how = "re"
        /\ how' = how /\ text' = text /\ re' = re /\ cells' = cells
    BY DEF re_split, Splitting
  <1>2. /\ text \in Seq(Chars) /\ re \in Tables(n) /\ n \in Nat /\ s \in 1..n + 1 /\ no_bol \in BOOLEAN
        /\ cnt \in Nat /\ blocks \in Blocks /\ Len(blocks) = Node(cnt + 1) /\ cnt < s /\ n > 0 /\ CutsSoFar
    BY <1>1 DEF SplitInv, Shape, Room, Arriving, n
  <1>3. n' = n /\ TextPieces' = TextPieces /\ \A q : L(q)' = L(q)
    BY <1>1, SamePieces
  <1>4. Splittable
    BY <1>2 DEF Splittable
  <1>5. PICK S, g :
          /\ Cut(S, s) /\ Enumerates(g, cnt, S) /\ s = From(g, cnt + 1)
          /\ \A i \in 1..cnt : Held(i) = SubSeq(text, From(g, i), g[i] - 1)
    BY <1>2 DEF CutsSoFar
  <1>6. m = Found(s)
    <2>1. no_bol <=> s > 1
      BY <1>2 DEF CutsSoFar
    <2> QED BY <2>1, <1>2, <1>4, FoundIs
  <1>7. CASE Separating(s) = {}
    <2> DEFINE piece == SubSeq(text, s, n)
    <2>1. AddLast(piece) /\ phase' = "transfer" /\ s' = s /\ no_bol' = no_bol
      <3>1. CASE s > n
        <4>1. s > n /\ AddLast(<<>>) /\ Finish /\ UNCHANGED <<s, no_bol>>
          BY <3>1 DEF re_split
        <4>2. piece = <<>>
          BY <3>1, <1>2, SubSeqEmpty
        <4> QED BY <4>1, <4>2 DEF Finish
      <3>2. CASE ~(s > n)
        <4>1. m[1] = None
          BY <1>6, <1>7 DEF Found
        <4> QED BY <3>2, <4>1 DEF re_split, Finish
      <3> QED BY <3>1, <3>2
    <2>2. piece \in Strings
      BY <1>2, PartOf
    <2> HIDE DEF piece
    <2>3. /\ cnt' = cnt + 1 /\ blocks' \in Blocks /\ Len(blocks') = Node(cnt')
          /\ \A i \in 1..cnt' : Held(i)' = IF i <= cnt THEN Held(i) ELSE piece
      BY <1>1, <2>1, <2>2, AddedLast
    <2>4. cnt' \in 0..n + 1 /\ cnt' > 0
      BY <1>2, <2>3
    <2>5. Shape'
      BY <1>1, <1>2, <1>3, <2>1, <2>3, <2>4 DEF Shape, SplitInv
    <2>6. Room'
      <3>1. Node(cnt)' = Node(cnt')
        BY DEF Node
      <3> QED BY <2>1, <2>3, <2>4, <3>1 DEF Room
    <2>7. Ref!Between(text, re) = [i \in 1..cnt + 1 |-> IF i <= cnt THEN Held(i) ELSE piece]
      BY <1>2, <1>4, <1>5, <1>7, LastCut DEF piece
    <2>8. TextPieces' = [i \in 1..cnt |-> Held(i)]'
      <3>1. TextPieces = Ref!Between(text, re)
        <4>1. "re" # "space"
          OBVIOUS
        <4> QED BY <4>1, <1>1 DEF TextPieces
      <3>2. [i \in 1..cnt |-> Held(i)]' = [i \in 1..cnt' |-> IF i <= cnt THEN Held(i) ELSE piece]
        BY <2>3
      <3> QED BY <1>3, <2>3, <2>7, <3>1, <3>2
    <2> QED BY <2>1, <2>5, <2>6, <2>8 DEF SplitInv, Arriving
  <1>8. CASE Separating(s) # {}
    <2>0. PICK x, e : /\ x = m[1] /\ e = x + L(x)
                      /\ x \in s..n /\ m[2] = L(x) /\ L(x) > 0 /\ e \in x + 1..n + 1
                      /\ \A q \in s..x - 1 : L(q) <= 0
      <3>1. /\ Found(s)[1] \in s..n /\ Found(s)[2] = L(Found(s)[1]) /\ L(Found(s)[1]) > 0
            /\ Found(s)[1] + Found(s)[2] \in Found(s)[1] + 1..n + 1
            /\ \A q \in s..Found(s)[1] - 1 : L(q) <= 0
        BY <1>2, <1>4, <1>8, FoundProps
      <3>2. m[1] \in s..n /\ m[2] = L(m[1]) /\ L(m[1]) > 0 /\ m[1] + m[2] \in m[1] + 1..n + 1
        <4> HIDE DEF m
        <4> QED BY <3>1, <1>6
      <3>3. \A q \in s..m[1] - 1 : L(q) <= 0
        <4> HIDE DEF m
        <4> QED BY <3>1, <1>6
      <3> HIDE DEF m
      <3> QED BY <3>2, <3>3
    <2> DEFINE piece == SubSeq(text, s, x - 1)
    <2>1. /\ e = x + L(x) /\ x \in s..n /\ L(x) > 0 /\ e \in x + 1..n + 1
          /\ \A q \in s..x - 1 : L(q) <= 0
      BY <2>0
    <2>2. Add(piece) /\ s' = e /\ no_bol' = TRUE /\ phase' = phase
      <3>1. ~(s > n) /\ m[1] # None
        <4> HIDE DEF m
        <4> QED BY <2>0, <1>2 DEF None
      <3> QED BY <3>1, <2>0 DEF re_split
    <2> HIDE DEF m
    <2>3. piece \in Strings
      <3>1. x - 1 \in 0..n
        BY <2>1, <1>2
      <3> QED BY <3>1, <1>2, PartOf
    <2> HIDE DEF piece
    <2>4. /\ cnt' = cnt + 1 /\ blocks' \in Blocks /\ Len(blocks') = Node(cnt' + 1)
          /\ \A i \in 1..cnt' : Held(i)' = IF i <= cnt THEN Held(i) ELSE piece
      BY <1>1, <2>2, <2>3, Added
    <2>5. cnt' < s' /\ s' \in 1..n + 1 /\ cnt' \in 0..n + 1 /\ s' > 1
      BY <1>2, <2>1, <2>2, <2>4
    <2>6. Shape'
      BY <1>1, <1>2, <1>3, <2>2, <2>4, <2>5 DEF Shape, SplitInv
    <2>7. Room'
      <3>1. Node(cnt + 1)' = Node(cnt' + 1)
        BY DEF Node
      <3> QED BY <1>1, <2>2, <2>4, <2>5, <3>1 DEF Room
    <2>8. Cut(S \cup {x}, e)
      <3>1. Splittable /\ s \in 1..n + 1
        BY <1>2, <1>4
      <3> QED BY <3>1, <1>5, <2>1, NextCut
    <2>9. PICK h : h = [i \in 1..cnt + 1 |-> IF i <= cnt THEN g[i] ELSE x] /\ Enumerates(h, cnt', S \cup {x})
      <3>1. x \in Nat /\ (\A y \in S : y < x) /\ S \subseteq Nat
        BY <1>2, <1>5, <2>1 DEF Cut
      <3> QED BY <3>1, <1>2, <1>5, <2>4, EnumeratesMore
    <2>10. /\ \A i \in 1..cnt : h[i] = g[i]
           /\ h[cnt + 1] = x
           /\ \A i \in 1..cnt + 1 : From(h, i) = From(g, i)
           /\ From(h, cnt + 2) = e
      <3>1. \A i \in 1..cnt : h[i] = g[i]
        BY <1>2, <2>9
      <3>2. h[cnt + 1] = x
        BY <1>2, <2>9
      <3>3. ASSUME NEW i \in 1..cnt + 1 PROVE From(h, i) = From(g, i)
        <4>1. CASE i = 1
          BY <4>1 DEF From
        <4>2. CASE i # 1
          <5>1. i - 1 \in 1..cnt
            BY <4>2, <1>2
          <5> QED BY <4>2, <5>1, <3>1 DEF From
        <4> QED BY <4>1, <4>2
      <3>4. From(h, cnt + 2) = e
        <4>1. cnt + 2 # 1 /\ (cnt + 2) - 1 = cnt + 1
          BY <1>2
        <4> QED BY <4>1, <3>2, <2>1 DEF From
      <3> QED BY <3>1, <3>2, <3>3, <3>4
    <2>11. CutsSoFar'
      <3>1. no_bol' <=> s' > 1
        BY <2>2, <2>5
      <3>2. \A k : From(h, k)' = From(h, k)
        <4>1. \A k : L(h[k - 1])' = L(h[k - 1])
          BY <1>1 DEF L
        <4> QED BY <4>1 DEF From
      <3>3. s' = From(h, cnt + 1)'
        <4>1. From(h, cnt + 1)' = From(h, cnt' + 1)
          BY <1>1 DEF From, L
        <4>2. cnt' + 1 = cnt + 2
          BY <2>4, <1>2
        <4> QED BY <4>1, <4>2, <2>2, <2>10
      <3>4. ASSUME NEW i \in 1..cnt' PROVE Held(i)' = SubSeq(text', From(h, i)', h[i] - 1)
        <4>1. From(h, i)' = From(h, i)
          BY <3>2
        <4>2. CASE i <= cnt
          <5>1. i \in 1..cnt /\ i \in 1..cnt + 1
            BY <4>2, <1>2, <2>4
          <5> QED BY <4>1, <4>2, <5>1, <1>1, <1>5, <2>4, <2>10
        <4>3. CASE ~(i <= cnt)
          <5>1. i = cnt + 1 /\ i \in 1..cnt + 1
            BY <4>3, <1>2, <2>4
          <5> QED BY <4>1, <4>3, <5>1, <1>1, <1>5, <2>4, <2>10 DEF piece
        <4> QED BY <4>2, <4>3
      <3>5. Cut(S \cup {x}, s)'
        <4>1. Cut(S \cup {x}, s)' <=> Cut(S \cup {x}, s')
          BY <1>3 DEF Cut
        <4> QED BY <4>1, <2>2, <2>8
      <3> QED BY <3>1, <3>3, <3>4, <3>5, <2>9, Zenon DEF CutsSoFar
    <2> QED BY <1>1, <1>2, <1>3, <2>2, <2>6, <2>7, <2>11 DEF SplitInv, Arriving
  <1> QED BY <1>7, <1>8

\* null_split has the letters it has passed.
LEMMA NullStep == ASSUME SplitInv, null_split PROVE SplitInv'
  <1>1. /\ phase = "split" /\ how = "null"
        /\ how' = how /\ text' = text /\ re' = re /\ no_bol' = no_bol
    BY DEF null_split, Splitting
  <1>2. /\ text \in Seq(Chars) /\ n \in Nat /\ s \in 1..n + 1 /\ cnt \in Nat
        /\ blocks \in Blocks /\ Len(blocks) = Node(cnt + 1) /\ cnt < s /\ n > 0
        /\ cnt = s - 1 /\ \A i \in 1..cnt : Held(i) = <<text[i]>>
    BY <1>1 DEF SplitInv, Shape, Room, Arriving, LettersSoFar, n
  <1>3. n' = n /\ TextPieces' = TextPieces
    BY <1>1, SamePieces
  <1>4. CASE s > n
    <2>1. phase' = "transfer" /\ s' = s /\ blocks' = blocks /\ cnt' = cnt
      BY <1>4 DEF null_split, Finish
    <2>2. Shape'
      BY <1>1, <1>2, <1>3, <2>1 DEF Shape, SplitInv
    <2>3. Room'
      <3>1. Node(cnt + 1)' = Node(cnt + 1)
        BY <2>1 DEF Node
      <3> QED BY <1>2, <2>1, <3>1 DEF Room
    <2>4. TextPieces' = [i \in 1..cnt |-> Held(i)]'
      <3>1. TextPieces = Ref!Letters(text)
        <4>1. "null" # "space" /\ "null" # "re"
          OBVIOUS
        <4> QED BY <4>1, <1>1 DEF TextPieces
      <3>2. Ref!Letters(text) = [i \in 1..cnt |-> <<text[i]>>]
        <4>1. cnt = Len(text)
          BY <1>2, <1>4 DEF n
        <4> QED BY <4>1 DEF Ref!Letters
      <3>3. [i \in 1..cnt |-> Held(i)]' = [i \in 1..cnt |-> Held(i)]
        BY <2>1 DEF Held, Node, Slot
      <3> QED BY <1>2, <1>3, <3>1, <3>2, <3>3
    <2> QED BY <2>1, <2>2, <2>3, <2>4 DEF SplitInv, Arriving
  <1>5. CASE ~(s > n)
    <2> DEFINE piece == <<text[s]>>
    <2>1. Add(piece) /\ s' = s + 1 /\ phase' = phase
      BY <1>5 DEF null_split
    <2>2. piece \in Strings
      <3>1. text[s] \in Chars
        BY <1>2, <1>5 DEF n
      <3> QED BY <3>1 DEF Strings
    <2> HIDE DEF piece
    <2>3. /\ cnt' = cnt + 1 /\ blocks' \in Blocks /\ Len(blocks') = Node(cnt' + 1)
          /\ \A i \in 1..cnt' : Held(i)' = IF i <= cnt THEN Held(i) ELSE piece
      BY <1>1, <2>1, <2>2, Added
    <2>4. cnt' < s' /\ s' \in 1..n + 1 /\ cnt' \in 0..n + 1 /\ cnt' = s' - 1
      BY <1>2, <1>5, <2>1, <2>3
    <2>5. Shape'
      BY <1>1, <1>2, <1>3, <2>1, <2>3, <2>4 DEF Shape, SplitInv
    <2>6. Room'
      <3>1. Node(cnt + 1)' = Node(cnt' + 1)
        BY DEF Node
      <3> QED BY <1>1, <2>1, <2>3, <2>4, <3>1 DEF Room
    <2>7. LettersSoFar'
      <3>1. ASSUME NEW i \in 1..cnt' PROVE Held(i)' = <<text'[i]>>
        <4>1. CASE i <= cnt
          <5>1. i \in 1..cnt
            BY <4>1, <2>3
          <5> QED BY <4>1, <5>1, <1>1, <1>2, <2>3
        <4>2. CASE ~(i <= cnt)
          <5>1. i = s
            BY <4>2, <1>2, <2>3
          <5> QED BY <4>2, <5>1, <1>1, <2>3 DEF piece
        <4> QED BY <4>1, <4>2
      <3> QED BY <3>1, <2>4 DEF LettersSoFar
    <2> QED BY <1>1, <1>2, <1>3, <2>1, <2>5, <2>6, <2>7 DEF SplitInv, Arriving
  <1> QED BY <1>4, <1>5

\* What was in the list is in the cells, and the list is its first block.
LEMMA TransferStep == ASSUME SplitInv, transfer PROVE SplitInv'
  <1> DEFINE left == IF cnt >= SP_SIZE THEN <<blocks[1]>> ELSE blocks
             B == [1..SP_SIZE -> Strings]
  <1>1. /\ phase = "transfer" /\ phase' = "idle"
        /\ cells' = [i \in 1..cnt |-> Held(i)] /\ blocks' = [left EXCEPT ![1] = Block]
        /\ how' = how /\ text' = text /\ re' = re /\ s' = s /\ no_bol' = no_bol /\ cnt' = cnt
    BY DEF transfer, Held
  <1>2. /\ blocks \in Blocks /\ cnt \in Nat /\ TextPieces = [i \in 1..cnt |-> Held(i)]
        /\ Len(blocks) = Node(cnt + 1) \/ (cnt > 0 /\ Len(blocks) = Node(cnt))
    BY <1>1 DEF SplitInv, Shape, Room, Arriving, n
  <1>3. n' = n /\ TextPieces' = TextPieces
    BY <1>1, SamePieces
  <1>4. Len(blocks) >= 1
    <2>1. Node(cnt + 1) \in Nat \ {0} /\ (cnt > 0 => Node(cnt) \in Nat \ {0})
      BY <1>2, PlacesApart
    <2> QED BY <2>1, <1>2
  <1>5. left \in Seq(B) /\ Len(left) = 1
    <2> HIDE DEF B
    <2>1. blocks \in Seq(B)
      BY <1>2 DEF Blocks, B
    <2>2. CASE cnt >= SP_SIZE
      <3>1. blocks[1] \in B
        BY <2>1, <1>4
      <3> QED BY <2>2, <3>1
    <2>3. CASE ~(cnt >= SP_SIZE)
      <3>1. cnt + 1 <= SP_SIZE /\ cnt <= SP_SIZE
        BY <2>3, <1>2, SplitterAssumption
      <3>2. Node(cnt + 1) = 1 /\ (cnt > 0 => Node(cnt) = 1)
        BY <3>1, <1>2, FirstBlock
      <3> QED BY <2>1, <2>3, <3>2, <1>2
    <2> QED BY <2>2, <2>3
  <1> HIDE DEF left
  <1>6. blocks' \in Blocks /\ Len(blocks') = 1
    <2>1. Block \in B
      BY DEF Block, Strings
    <2> HIDE DEF Block, B
    <2>2. left \in [1..1 -> B]
      BY <1>5
    <2>3. blocks' \in [1..1 -> B]
      BY <2>1, <2>2, <1>1
    <2>4. blocks' \in Seq(B) /\ Len(blocks') = 1
      <3>1. PICK b \in B : blocks' = <<b>>
        BY <2>3
      <3>2. <<b>> \in Seq(B) /\ Len(<<b>>) = 1
        OBVIOUS
      <3> QED BY <3>1, <3>2
    <2> QED BY <2>4 DEF Blocks, B
  <1>7. Shape'
    BY <1>1, <1>3, <1>6 DEF Shape, SplitInv
  <1>8. Room'
    BY <1>1, <1>6 DEF Room
  <1>9. Arriving'
    BY <1>1, <1>2, <1>3 DEF Arriving
  <1> QED BY <1>7, <1>8, <1>9 DEF SplitInv

\* Nothing changes when no step is taken.
LEMMA SplitStutter == ASSUME SplitInv, UNCHANGED splitVars PROVE SplitInv'
  <1>1. /\ how' = how /\ phase' = phase /\ text' = text /\ re' = re /\ s' = s /\ no_bol' = no_bol
        /\ blocks' = blocks /\ cnt' = cnt /\ cells' = cells
    BY DEF splitVars
  <1>2. TextPieces' = TextPieces /\ n' = n
    BY <1>1, SamePieces
  <1>3. Shape'
    BY <1>1, <1>2 DEF Shape, SplitInv
  <1>4. Room' <=> Room
    BY <1>1 DEF Room, Node
  <1>5. Arriving' <=> Arriving
    BY <1>1 DEF Arriving, WordsSoFar, CutsSoFar, LettersSoFar, Cut, From, Held, Node, Slot, L, TextPieces, n
  <1> QED BY <1>3, <1>4, <1>5 DEF SplitInv

\* Every step keeps what is known of the list.
LEMMA SplitterStep == ASSUME SplitInv, [SplitNext]_splitVars PROVE SplitInv'
  <1>1. CASE UNCHANGED splitVars
    BY <1>1, SplitStutter
  <1>2. ASSUME NEW t \in Texts, Start("space", t, None) \/ Start("null", t, None) PROVE SplitInv'
    <2>1. t \in Seq(Chars) /\ "space" # "re" /\ "null" # "re"
      BY GivenSplits
    <2> QED BY <2>1, <1>2, StartStep
  <1>3. ASSUME NEW p \in Matches, Start("re", p[1], p[2]) PROVE SplitInv'
    <2>1. p[1] \in Seq(Chars) /\ p[2] \in Tables(Len(p[1]))
      BY GivenSplits
    <2> QED BY <2>1, <1>3, StartStep
  <1> QED BY <1>1, <1>2, <1>3, SpaceStep, ReStep, NullStep, TransferStep DEF SplitNext

\* What is known of the list holds in every behaviour.
LEMMA SplitterInvariant == SplitSpec => []SplitInv
  <1>1. SplitInit => SplitInv
    BY InitSplit
  <1>2. SplitInv /\ [SplitNext]_splitVars => SplitInv'
    BY SplitterStep
  <1> QED BY <1>1, <1>2, PTL DEF SplitSpec

\* The list has room for the next piece, never a second block too many, and is
\* its first block again when the pieces have left it.
THEOREM ListAlwaysFits == SplitSpec => []ListFits
  <1>1. SplitInv => ListFits
    <2> SUFFICES ASSUME SplitInv PROVE ListFits
      OBVIOUS
    <2>1. Shape /\ Room
      BY DEF SplitInv
    <2>2. ASSUME NEW i \in 1..Len(blocks) PROVE DOMAIN blocks[i] = 1..SP_SIZE
      <3>1. blocks[i] \in [1..SP_SIZE -> Strings]
        BY <2>1 DEF Shape, Blocks
      <3> QED BY <3>1
    <2>3. SplitTypeOK
      BY <2>1, <2>2 DEF Shape, SplitTypeOK
    <2>4. Len(blocks) = IF phase = "split" THEN Node(cnt + 1) ELSE IF phase = "idle" THEN 1 ELSE Len(blocks)
      BY <2>1 DEF Room
    <2> QED BY <2>3, <2>4 DEF ListFits
  <1> QED BY <1>1, SplitterInvariant, PTL

\* The cells get the pieces the text has.
THEOREM AllPiecesArrive == SplitSpec => []PiecesArrive
  <1>1. SplitInv => PiecesArrive
    BY DEF SplitInv, Arriving, PiecesArrive
  <1> QED BY <1>1, SplitterInvariant, PTL
=============================================================================
