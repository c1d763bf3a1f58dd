------------------------------ MODULE Splitter ------------------------------
(***************************************************************************)
(* split.c: a text is cut, piece by piece, into a list of blocks of        *)
(* SP_SIZE strings, and the strings are then moved to the cells of an      *)
(* array or to the fields.  The list grows by a block as soon as one is    *)
(* full and is cut back to its first block when the pieces have left it.   *)
(* space_split, re_split and null_split are three ways of finding the next *)
(* piece.  Regular expressions are those of FieldSplit.                    *)
(***************************************************************************)
EXTENDS Integers, Sequences, SequencesExt, FiniteSetsExt

CONSTANTS Space, SP_SIZE, Moved,
          Texts,       \* bound: what is split on white space and into letters
          Matches      \* bound: what re_split splits, <<text, expression>>

\* The longest matches of an expression in a text of k characters: their lengths at
\* each position, and at the first where ^ matches; -1 for none.
Tables(k) == {m \in [at : [1..k + 1 -> -1..k], bol : -1..k] :
                 \A p \in 1..k + 1 : m.at[p] <= k + 1 - p}

\* Texts are sequences, and a match lies in its text.
ASSUME SplitterAssumption ==
    /\ SP_SIZE \in Nat \ {0}
    /\ \A t \in Texts : t \in Seq(ToSet(t))
    /\ \A m \in Matches : m[1] \in Seq(ToSet(m[1])) /\ m[2] \in Tables(Len(m[1]))

VARIABLES how,          \* the function: "space", "re" or "null"
          phase,        \* "idle", "split" or "transfer"
          text, re,
          s, no_bol,    \* where it is in the text
          blocks,       \* split_block_list: each block has SP_SIZE strings
          cnt,          \* pieces in the list
          cells         \* where transfer_to_array, transfer_to_fields put them

splitVars == <<how, phase, text, re, s, no_bol, blocks, cnt, cells>>

Ref == INSTANCE FieldSplit

Block == [i \in 1..SP_SIZE |-> Moved]
n == Len(text)
None == 0        \* a null match pointer; positions start at 1

SplitInit == /\ how = "space" /\ phase = "idle" /\ text = <<>> /\ re = None
             /\ s = 1 /\ no_bol = FALSE
             /\ blocks = <<Block>> /\ cnt = 0 /\ cells = <<>>

-----------------------------------------------------------------------------
(* The matcher                                                             *)

\* REmatch: the leftmost position of p..n+1 with a match, and its length
At(p, q, nb) == IF q = p /\ ~nb THEN re.bol ELSE re.at[q]

REmatch(p, nb) ==
    LET hits == {q \in p..n + 1 : At(p, q, nb) >= 0}
    IN IF hits = {} THEN <<None, 0>> ELSE <<Min(hits), At(p, Min(hits), nb)>>

\* a variant: ^ matches again after an empty match
re_pos_match_bol(start, bol) ==
    LET search[p \in start..n + 2] ==
            LET m == REmatch(p, bol)
            IN IF p > n \/ m[1] = None THEN <<None, 0>>
               ELSE IF m[2] > 0 THEN m
               ELSE search[m[1] + 1]
    IN search[start]

\* the same of positive length: empty matches are stepped over
re_pos_match(start, bol) ==
    LET search[p \in start..n + 2] ==
            LET m == REmatch(p, bol \/ p > start)
            IN IF p > n \/ m[1] = None THEN <<None, 0>>
               ELSE IF m[2] > 0 THEN m
               ELSE search[m[1] + 1]
    IN search[start]

-----------------------------------------------------------------------------
(* The block list                                                          *)

Node(i) == ((i - 1) \div SP_SIZE) + 1
Slot(i) == ((i - 1) % SP_SIZE) + 1

\* node_p->strings[idx] = piece
Store(piece) == [blocks EXCEPT ![Node(cnt + 1)][Slot(cnt + 1)] = piece]

\* a variant: a block is added when a piece finds the last one full
GrowLate(b) == IF Slot(cnt + 1) = 1 /\ cnt > 0 THEN Append(b, Block) ELSE b

\* if (++idx == SP_SIZE) node_p = grow_sp_list(node_p)
Grow(b) == IF Slot(cnt + 1) = SP_SIZE THEN Append(b, Block) ELSE b

Add(piece) == blocks' = Grow(Store(piece)) /\ cnt' = cnt + 1

\* the last piece of re_split: idx is not increased
AddLast(piece) == blocks' = Store(piece) /\ cnt' = cnt + 1

Finish == phase' = "transfer"
Splitting(f) == phase = "split" /\ how = f

-----------------------------------------------------------------------------

\* the caller of a split function, which does not call it for the empty text
Start(f, t, r) ==
    /\ phase = "idle"
    /\ phase' = IF Len(t) = 0 THEN "transfer" ELSE "split"
    /\ how' = f /\ text' = t /\ re' = r
    /\ s' = 1 /\ no_bol' = FALSE /\ cnt' = 0 /\ cells' = <<>>
    /\ UNCHANGED blocks

SkipSpace(p) == Min({q \in p..n : text[q] \notin Space} \cup {n + 1})
SkipWord(p)  == Min({q \in p..n : text[q] \in Space} \cup {n + 1})

space_split ==
    LET q == SkipSpace(s)
    IN /\ Splitting("space")
       /\ IF q = n + 1
          THEN Finish /\ UNCHANGED <<s, blocks, cnt>>
          ELSE Add(SubSeq(text, q, SkipWord(q) - 1)) /\ s' = SkipWord(q)
               /\ UNCHANGED phase
       /\ UNCHANGED <<how, text, re, no_bol, cells>>

re_split ==
    LET m == re_pos_match(s, no_bol)
    IN /\ Splitting("re")
       /\ IF s > n                       \* last match at end, last field is ""
          THEN AddLast(<<>>) /\ Finish /\ UNCHANGED <<s, no_bol>>
          ELSE IF m[1] = None
          THEN AddLast(SubSeq(text, s, n)) /\ Finish /\ UNCHANGED <<s, no_bol>>
          ELSE /\ Add(SubSeq(text, s, m[1] - 1))
               /\ s' = m[1] + m[2] /\ no_bol' = TRUE /\ UNCHANGED phase
       /\ UNCHANGED <<how, text, re, cells>>

null_split ==
    /\ Splitting("null")
    /\ IF s > n THEN Finish /\ UNCHANGED <<s, blocks, cnt>>
       ELSE Add(<<text[s]>>) /\ s' = s + 1 /\ UNCHANGED phase
    /\ UNCHANGED <<how, text, re, no_bol, cells>>

\* transfer_to_array, transfer_to_fields, with spb_list_shrink when the walk
\* left the first block
transfer ==
    LET left == IF cnt >= SP_SIZE THEN <<blocks[1]>> ELSE blocks
    IN /\ phase = "transfer" /\ phase' = "idle"
       /\ cells' = [i \in 1..cnt |-> blocks[Node(i)][Slot(i)]]
       /\ blocks' = [left EXCEPT ![1] = Block]
       /\ UNCHANGED <<how, text, re, s, no_bol, cnt>>

SplitNext == \/ \E t \in Texts : Start("space", t, None) \/ Start("null", t, None)
             \/ \E p \in Matches : Start("re", p[1], p[2])
             \/ space_split \/ re_split \/ null_split \/ transfer

SplitSpec == SplitInit /\ [][SplitNext]_splitVars

-----------------------------------------------------------------------------
(* Properties                                                              *)

\* The variables have the types split.c gives them.
SplitTypeOK ==
    /\ how \in {"space", "re", "null"} /\ phase \in {"idle", "split", "transfer"}
    /\ s \in 1..n + 1 /\ no_bol \in BOOLEAN /\ cnt \in 0..n + 1
    /\ \A i \in 1..Len(blocks) : DOMAIN blocks[i] = 1..SP_SIZE

\* What the text has.
TextPieces == CASE how = "space" -> Ref!Words(text)
            [] how = "re"    -> Ref!Between(text, re)
            [] how = "null"  -> Ref!Letters(text)

\* The pieces that arrive in the cells are those the text has: none lost,
\* doubled or left behind in a block, however many blocks there are and however
\* empty matches, positive ones and ^ alternate.
PiecesArrive == phase = "idle" => cells = TextPieces

\* While splitting there is room for one more piece and no empty block beyond
\* it; afterwards the list is back to its first block ("Usually the list is of
\* size 1.  The list never gets smaller than size 1", split.c).
ListFits ==
    /\ SplitTypeOK
    /\ Len(blocks) = IF phase = "split" THEN Node(cnt + 1)
                     ELSE IF phase = "idle" THEN 1 ELSE Len(blocks)
=============================================================================
