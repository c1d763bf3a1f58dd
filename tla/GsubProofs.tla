----------------------------- MODULE GsubProofs -----------------------------
(***************************************************************************)
(* Proofs about Gsub: whatever the text, the matches and the replacement,  *)
(* gsub3 copies nothing behind the end of its buffer, and the result of    *)
(* sub and gsub is what the replacement says.                              *)
(***************************************************************************)
EXTENDS Gsub, Facts

-----------------------------------------------------------------------------
(* Texts.                                                                  *)

\* The characters there are, and the texts made of them.
Chars == {Amp, "&", "\\"} \cup UNION {ToSet(t) : t \in Texts \cup Repls}
Strings == Seq(Chars)

\* The texts and the raw replacements are such texts.
LEMMA GivenTexts == \A t \in Texts \cup Repls : t \in Strings
  <1>1. ASSUME NEW t \in Texts \cup Repls PROVE t \in Strings
    <2>1. t \in Seq(ToSet(t)) /\ ToSet(t) \subseteq Chars
      BY GsubAssumption DEF Chars
    <2> HIDE DEF Chars
    <2>2. \A i \in 1..Len(t) : t[i] \in Chars
      BY <2>1 DEF ToSet
    <2> QED BY <2>1, <2>2 DEF Strings
  <1> QED BY <1>1

\* The empty text.
LEMMA EmptyText == <<>> \in Strings
  BY DEF Strings

-----------------------------------------------------------------------------
(* The compiled replacement.                                               *)

Is(s, i, ch) == i <= Len(s) /\ s[i] = ch

\* What REPL_compile makes of the character at i, and where it goes on.
Converted(s, i) == IF Is(s, i, "\\") /\ Is(s, i + 1, "\\")
               THEN (IF Merge(s, i) THEN <<"\\">> ELSE <<"\\", "\\">>)
               ELSE IF Is(s, i, "\\") /\ Is(s, i + 1, "&") THEN <<"&">>
               ELSE <<IF Is(s, i, "&") THEN Amp ELSE s[i]>>
Two(s, i) == Is(s, i, "\\") /\ (Is(s, i + 1, "\\") \/ Is(s, i + 1, "&"))

\* The recursion of REPL_compile.
CompileF(f, s) ==
    f = [i \in 1..Len(s) + 2 |->
            IF i > Len(s) THEN <<>>
            ELSE IF Is(s, i, "\\") /\ Is(s, i + 1, "\\")
            THEN (IF Merge(s, i) THEN <<"\\">> ELSE <<"\\", "\\">>) \o f[i + 2]
            ELSE IF Is(s, i, "\\") /\ Is(s, i + 1, "&") THEN <<"&">> \o f[i + 2]
            ELSE <<IF Is(s, i, "&") THEN Amp ELSE s[i]>> \o f[i + 1]]

\* A character is compiled to one or two.
LEMMA ConvertedIsText ==
    ASSUME NEW s \in Strings, NEW i \in 1..Len(s)
    PROVE  Converted(s, i) \in Strings
  <1>1. s[i] \in Chars /\ Amp \in Chars /\ "&" \in Chars /\ "\\" \in Chars
    BY DEF Strings, Chars
  <1> HIDE DEF Chars
  <1>2. \A x \in Chars : <<x>> \in Seq(Chars)
    OBVIOUS
  <1>3. \A x, y \in Chars : <<x, y>> \in Seq(Chars)
    OBVIOUS
  <1> QED BY <1>1, <1>2, <1>3, ZenonT(30) DEF Converted, Strings

\* The recursion has a solution: it goes from the end to the start, and needs
\* the last two values.
LEMMA CompileExists ==
    ASSUME NEW s \in Strings
    PROVE  \E f : CompileF(f, s)
  <1> DEFINE n == Len(s)
             D == Strings \X Strings
             f0 == <<<<>>, <<>>>>
             Value(k, q) == Converted(s, n + 1 - k) \o (IF Two(s, n + 1 - k) THEN q[2] ELSE q[1])
             h == [p \in Nat \X D |-> IF p[1] \in 1..n THEN <<Value(p[1], p[2]), p[2][1]>> ELSE p[2]]
  <1>1. n \in Nat
    BY DEF Strings
  <1>2. f0 \in D
    <2>1. <<>> \in Strings
      BY EmptyText
    <2> QED BY <2>1
  <1>3. h \in [Nat \X D -> D]
    <2>1. ASSUME NEW k \in 1..n, NEW q \in D PROVE <<Value(k, q), q[1]>> \in D
      <3>1. n + 1 - k \in 1..n
        BY <1>1
      <3>2. Converted(s, n + 1 - k) \in Strings
        BY <3>1, ConvertedIsText
      <3>3. q[1] \in Strings /\ q[2] \in Strings
        OBVIOUS
      <3> HIDE DEF n
      <3>4. Value(k, q) \in Strings
        BY <3>2, <3>3 DEF Strings
      <3> QED BY <3>3, <3>4
    <2> HIDE DEF Value, n
    <2> QED BY <2>1
  <1>4. PICK g : Follows(g, D, f0, h)
    <2> HIDE DEF D, f0, h
    <2> QED BY <1>2, <1>3, Recursion
  <1>5. /\ g \in [Nat -> D] /\ g[0] = f0
        /\ \A k \in Nat \ {0} : g[k] = h[<<k, g[k - 1]>>]
    BY <1>4 DEF Follows
  <1>6. ASSUME NEW k \in 1..n PROVE g[k] = <<Value(k, g[k - 1]), g[k - 1][1]>>
    <2>1. k \in Nat \ {0} /\ k - 1 \in Nat
      BY <1>1
    <2>2. g[k - 1] \in D
      BY <2>1, <1>5
    <2> HIDE DEF D, Value, n
    <2>3. <<k, g[k - 1]>> \in Nat \X D
      BY <2>1, <2>2
    <2> QED BY <2>1, <2>3, <1>5
  <1> DEFINE f == [i \in 1..n + 2 |-> IF i > n THEN <<>> ELSE g[n + 1 - i][1]]
  <1>7. ASSUME NEW i \in 1..n
        PROVE  f[i] = Converted(s, i) \o (IF Two(s, i) THEN f[i + 2] ELSE f[i + 1])
    <2> DEFINE k == n + 1 - i
    <2>1. k \in 1..n /\ n + 1 - k = i /\ k - 1 \in Nat
      BY <1>1
    <2>2. f[i] = Value(k, g[k - 1])
      <3>1. f[i] = g[k][1]
        BY <1>1
      <3> HIDE DEF f, k, Value
      <3> QED BY <3>1, <2>1, <1>6
    <2>3. f[i + 1] = g[k - 1][1]
      <3>1. CASE i = n
        <4>1. k - 1 = 0 /\ f[i + 1] = <<>>
          BY <3>1, <1>1
        <4> HIDE DEF f, k
        <4> QED BY <4>1, <1>5
      <3>2. CASE i # n
        <4>1. i + 1 \in 1..n /\ n + 1 - (i + 1) = k - 1
          BY <3>2, <1>1
        <4> QED BY <4>1
      <3> QED BY <3>1, <3>2
    <2>4. f[i + 2] = g[k - 1][2]
      <3>1. CASE i = n
        <4>1. k - 1 = 0 /\ f[i + 2] = <<>>
          BY <3>1, <1>1
        <4> HIDE DEF f, k
        <4> QED BY <4>1, <1>5
      <3>2. CASE i # n
        <4>1. k - 1 \in 1..n
          BY <3>2, <1>1
        <4>2. g[k - 1][2] = g[k - 2][1]
          <5>1. g[k - 1] = <<Value(k - 1, g[k - 2]), g[k - 2][1]>>
            BY <4>1, <1>6, k - 1 - 1 = k - 2
          <5> HIDE DEF k, Value
          <5> QED BY <5>1
        <4>3. CASE i = n - 1
          <5>1. k - 2 = 0 /\ f[i + 2] = <<>>
            BY <4>3, <1>1
          <5> HIDE DEF f, k
          <5> QED BY <5>1, <4>2, <1>5
        <4>4. CASE i # n - 1
          <5>1. i + 2 \in 1..n /\ n + 1 - (i + 2) = k - 2
            BY <3>2, <4>4, <1>1
          <5>2. f[i + 2] = g[k - 2][1]
            BY <5>1
          <5> QED BY <5>2, <4>2
        <4> QED BY <4>3, <4>4
      <3> QED BY <3>1, <3>2
    <2> HIDE DEF f, k, D
    <2> QED BY <2>1, <2>2, <2>3, <2>4
  <1>8. /\ f = [i \in 1..n + 2 |-> f[i]]
        /\ \A i \in 1..n + 2 : i > n => f[i] = <<>>
    OBVIOUS
  <1> HIDE DEF f
  <1>9. ASSUME NEW i \in 1..n + 2
        PROVE  f[i] = IF i > Len(s) THEN <<>>
                      ELSE IF Is(s, i, "\\") /\ Is(s, i + 1, "\\")
                      THEN (IF Merge(s, i) THEN <<"\\">> ELSE <<"\\", "\\">>) \o f[i + 2]
                      ELSE IF Is(s, i, "\\") /\ Is(s, i + 1, "&") THEN <<"&">> \o f[i + 2]
                      ELSE <<IF Is(s, i, "&") THEN Amp ELSE s[i]>> \o f[i + 1]
    <2>1. CASE i > n
      BY <2>1, <1>8
    <2>2. CASE ~(i > n)
      <3>1. i \in 1..n
        BY <2>2, <1>1
      <3>2. f[i] = Converted(s, i) \o (IF Two(s, i) THEN f[i + 2] ELSE f[i + 1])
        BY <3>1, <1>7
      <3> QED BY <2>2, <3>2, ZenonT(30) DEF Converted, Two
    <2> QED BY <2>1, <2>2
  <1> QED BY <1>8, <1>9, Zenon DEF CompileF

\* A replacement is compiled from the end to the start, a character or two at
\* a time, to sequences of characters and Amps.
LEMMA CompiledBy ==
    ASSUME NEW s \in Strings
    PROVE  \E c : /\ REPL_compile(s) = c[1]
                  /\ \A i \in 1..Len(s) + 2 : c[i] \in Strings
                  /\ \A i \in 1..Len(s) + 2 : i > Len(s) => c[i] = <<>>
                  /\ \A i \in 1..Len(s) :
                       c[i] = Converted(s, i) \o (IF Two(s, i) THEN c[i + 2] ELSE c[i + 1])
  <1> DEFINE c == CHOOSE f : CompileF(f, s)
             n == Len(s)
  <1>1. REPL_compile(s) = c[1]
    BY DEF REPL_compile, CompileF, Is
  <1>2. CompileF(c, s)
    BY CompileExists
  <1>0. n \in Nat
    BY DEF Strings
  <1> HIDE DEF c
  <1>3. ASSUME NEW i \in 1..n
        PROVE  c[i] = Converted(s, i) \o (IF Two(s, i) THEN c[i + 2] ELSE c[i + 1])
    <2>1. i \in 1..n + 2 /\ ~(i > n)
      BY <1>0
    <2>2. c[i] = IF Is(s, i, "\\") /\ Is(s, i + 1, "\\")
                 THEN (IF Merge(s, i) THEN <<"\\">> ELSE <<"\\", "\\">>) \o c[i + 2]
                 ELSE IF Is(s, i, "\\") /\ Is(s, i + 1, "&") THEN <<"&">> \o c[i + 2]
                 ELSE <<IF Is(s, i, "&") THEN Amp ELSE s[i]>> \o c[i + 1]
      BY <1>2, <2>1 DEF CompileF
    <2> QED BY <2>2, ZenonT(30) DEF Converted, Two
  <1>4. \A i \in 1..n + 2 : i > n => c[i] = <<>>
    BY <1>2 DEF CompileF
  <1> DEFINE W == {i \in 1..n + 2 : c[i] \notin Strings}
  <1>5. W = {}
    <2> SUFFICES ASSUME W # {} PROVE FALSE
      OBVIOUS
    <2>1. PICK i \in W : \A y \in W : y <= i
      <3>1. W \subseteq Nat /\ (\A y \in W : y <= n + 2) /\ n + 2 \in Nat
        BY <1>0
      <3> HIDE DEF W
      <3> QED BY <3>1, MaxProps
    <2>2. i \in 1..n
      <3>1. i \in 1..n + 2 /\ c[i] \notin Strings
        OBVIOUS
      <3>2. ~(i > n)
        BY <3>1, <1>4, EmptyText
      <3> QED BY <3>1, <3>2, <1>0
    <2>3. c[i + 1] \in Strings /\ c[i + 2] \in Strings
      <3>1. i + 1 \in 1..n + 2 /\ i + 2 \in 1..n + 2 /\ ~(i + 1 <= i) /\ ~(i + 2 <= i)
        BY <2>2, <1>0
      <3>2. i + 1 \notin W /\ i + 2 \notin W
        BY <3>1, <2>1
      <3> QED BY <3>1, <3>2
    <2>4. Converted(s, i) \in Strings
      BY <2>2, ConvertedIsText
    <2>5. c[i] \in Strings
      <3>1. \A x, y \in Strings : x \o y \in Strings
        BY DEF Strings
      <3> QED BY <3>1, <2>2, <2>3, <2>4, <1>3
    <2> QED BY <2>5
  <1>6. \A i \in 1..n + 2 : c[i] \in Strings
    BY <1>5
  <1> QED BY <1>1, <1>3, <1>4, <1>6

LEMMA CompiledIsText ==
    ASSUME NEW s \in Strings
    PROVE  REPL_compile(s) \in Strings
  <1>1. 1 \in 1..Len(s) + 2
    BY DEF Strings
  <1> QED BY <1>1, CompiledBy

\* The replacement made for a match.
LEMMA MadeIsText ==
    ASSUME NEW cell \in Strings, NEW sval \in Strings
    PROVE  replv_to_repl(cell, sval) \in Strings
  <1> DEFINE seqs == [i \in 1..Len(cell) |-> IF cell[i] = Amp THEN sval ELSE <<cell[i]>>]
  <1>1. seqs \in Seq(Strings) /\ Len(seqs) = Len(cell)
    <2>1. Len(cell) \in Nat /\ \A i \in 1..Len(cell) : cell[i] \in Chars
      BY DEF Strings
    <2>2. \A x \in Chars : <<x>> \in Strings
      <3> HIDE DEF Chars
      <3> QED BY DEF Strings
    <2>3. \A i \in 1..Len(cell) : seqs[i] \in Strings
      BY <2>1, <2>2
    <2> QED BY <2>1, <2>3
  <1>2. replv_to_repl(cell, sval) = FlattenSeq(seqs)
    BY DEF replv_to_repl
  <1> HIDE DEF seqs
  <1>3. CASE Len(seqs) = 0
    BY <1>1, <1>2, <1>3 DEF FlattenSeq, Strings
  <1>4. CASE Len(seqs) # 0
    <2>1. Len(seqs) > 0 /\ seqs \in Seq(Seq(Chars))
      BY <1>1, <1>4 DEF Strings
    <2> QED BY <2>1, <1>2, FlatProps DEF Strings
  <1> QED BY <1>3, <1>4

-----------------------------------------------------------------------------
(* The matcher.                                                            *)

\* What is known of the text and its table.
GivenRe == /\ input \in Strings
           /\ re \in [at : [1..len + 1 -> Int], bol : Int]
           /\ re.bol <= len /\ \A p \in 0..len : p + re.at[p + 1] <= len

\* A part of the text.
LEMMA PieceProps ==
    ASSUME GivenRe, NEW from \in Nat, NEW n \in Nat, from + n <= len
    PROVE  Piece(from, n) \in Strings /\ Len(Piece(from, n)) = n
  <1>1. input \in Seq(Chars) /\ from + n \in Nat /\ from <= from + n /\ from + n - from = n
    BY DEF GivenRe, Strings
  <1>2. Piece(from, n) = Window(input, from, from + n)
    BY DEF Piece, Window
  <1> QED BY <1>1, <1>2, WindowProps DEF len, Strings

\* What a search finds lies in the text, not before the place it begins at.
LEMMA REmatchProps ==
    ASSUME GivenRe, NEW from \in 0..len, NEW no_bol \in BOOLEAN, REmatch(from, no_bol) # NoMatch
    PROVE  /\ REmatch(from, no_bol).where \in from..len
           /\ REmatch(from, no_bol).howmuch \in 0..len
           /\ REmatch(from, no_bol).where + REmatch(from, no_bol).howmuch <= len
           /\ REmatch(from, no_bol).for \in Strings
  <1> DEFINE H == Hits(from, no_bol)
             p == Min(H)
             l == LengthAt(p, no_bol)
  <1>0. len \in Nat
    BY DEF GivenRe, Strings, len
  <1>1. H # {} /\ REmatch(from, no_bol) = [where |-> p, howmuch |-> l, for |-> Piece(p, l)]
    BY DEF REmatch
  <1>2. p \in from..len /\ l >= 0
    <2>1. H \subseteq Nat
      BY <1>0 DEF Hits
    <2> HIDE DEF H
    <2>2. p \in H
      BY <1>1, <2>1, MinProps
    <2> HIDE DEF p
    <2> QED BY <2>2 DEF H, Hits
  <1> HIDE DEF p, H
  <1>3. l \in Int /\ p + l <= len
    <2>1. CASE p = 0 /\ ~no_bol
      <3>1. l = re.bol
        BY <2>1 DEF LengthAt
      <3> QED BY <3>1, <2>1, <1>0 DEF GivenRe
    <2>2. CASE ~(p = 0 /\ ~no_bol)
      <3>1. l = re.at[p + 1]
        BY <2>2 DEF LengthAt
      <3>2. p \in 0..len /\ p + 1 \in 1..len + 1
        BY <1>0, <1>2
      <3> HIDE DEF l
      <3> QED BY <3>1, <3>2 DEF GivenRe
    <2> QED BY <2>1, <2>2
  <1> HIDE DEF l
  <1>4. p \in Nat /\ l \in 0..len
    BY <1>0, <1>2, <1>3
  <1>5. Piece(p, l) \in Strings
    BY <1>3, <1>4, PieceProps
  <1> QED BY <1>1, <1>2, <1>3, <1>4, <1>5

-----------------------------------------------------------------------------
(* The inductive invariant.                                                *)

\* The characters of the text that are still to be copied, replaced or not.
Left == CASE pc = "look" -> IF j > len THEN 0 ELSE len - j
          [] pc = "put"  -> len - found.where
          [] pc = "move" -> len - (found.where + found.howmuch)
          [] pc = "done" -> 0

\* Where the loop has come to: every counted match takes it one on.
Placed == /\ pc = "look" => repl_cnt <= j
          /\ pc \in {"put", "move"} =>
                /\ found.where \in j..len /\ found.where + found.howmuch <= len
                /\ repl_cnt <= found.where + (IF pc = "put" THEN 0 ELSE 1)
          /\ fn = "sub" => pc \in {"look", "done"} /\ (pc = "look" => j = 0)

\* The estimate covers what was copied and what is left, and the buffer has
\* the room that is estimated.
Covered == /\ pc # "done" => used + Left <= guess /\ guess <= limit
           /\ used <= limit

Texted == /\ GivenRe /\ raw \in Strings /\ repl \in Strings
          /\ xrepl \in Strings /\ output \in Strings /\ found.for \in Strings

GsubInv == TypeOK /\ Texted /\ Placed /\ Covered

\* The numbers of the state.
LEMMA Numbers ==
    ASSUME GsubInv
    PROVE  /\ len \in Nat /\ used \in Nat /\ guess \in Nat /\ limit \in Nat
           /\ j \in 0..len + 1 /\ repl_cnt \in 0..len + 1 /\ skip0 \in -1..len
           /\ found.where \in -1..len /\ found.howmuch \in 0..len
  <1>1. len \in Nat /\ used \in Nat
    BY DEF GsubInv, Texted, GivenRe, Strings, len, used
  <1>2. TypeOK
    BY DEF GsubInv
  <1> QED BY <1>1, <1>2 DEF TypeOK

\* What is in the buffer is within what is estimated.
LEMMA Within ==
    ASSUME NEW a \in Nat, NEW b \in Nat, NEW c \in Nat, NEW d \in Nat, a + b <= c, c <= d
    PROVE  a <= d
  OBVIOUS

\* Texts put one behind the other.
LEMMA Copied ==
    ASSUME NEW s \in Strings, NEW t \in Strings
    PROVE  s \o t \in Strings /\ Len(s \o t) = Len(s) + Len(t)
           /\ Len(s) \in Nat /\ Len(t) \in Nat
  BY DEF Strings

\* The first state: the buffer is as long as the text.
LEMMA InitGsub == Init => GsubInv
  <1> SUFFICES ASSUME Init PROVE GsubInv
    OBVIOUS
  <1>1. input \in Strings /\ raw \in Strings /\ repl \in Strings
    BY GivenTexts, CompiledIsText DEF Init
  <1>2. len \in Nat /\ used = 0
    BY <1>1 DEF Strings, len, used, Init
  <1>3. GivenRe
    BY <1>1, GsubAssumption DEF GivenRe, Init, len
  <1>4. NoText \in Strings
    <2>1. Amp \in Chars
      BY DEF Chars
    <2> HIDE DEF Chars
    <2> QED BY <2>1 DEF NoText, Strings
  <1>5. Texted
    BY <1>1, <1>3, <1>4, EmptyText DEF Texted, Init, NoMatch
  <1>6. TypeOK
    <2>1. j \in 0..len + 1 /\ skip0 \in -1..len /\ repl_cnt \in 0..len + 1
      BY <1>2 DEF Init
    <2>2. found.where \in -1..len /\ found.howmuch \in 0..len
      BY <1>2 DEF Init, NoMatch
    <2>3. guess \in Nat /\ limit \in Nat
      BY <1>2 DEF Init, len
    <2>4. fn \in {"sub", "gsub"} /\ input \in Texts /\ raw \in Repls /\ pc = "look" /\ reused = FALSE
      BY DEF Init
    <2> QED BY <2>1, <2>2, <2>3, <2>4 DEF TypeOK
  <1>7. Placed /\ Covered
    BY <1>2 DEF Placed, Covered, Left, Init, len
  <1> QED BY <1>5, <1>6, <1>7 DEF GsubInv

\* A search copies what is before the match, or all of the rest.
LEMMA LookStep == ASSUME GsubInv, Look PROVE GsubInv'
  <1> DEFINE m == REmatch(j, j # 0)
  <1>1. /\ fn = "gsub" /\ pc = "look" /\ j <= len
        /\ UNCHANGED <<args, j, repl_cnt, xrepl, guess, limit, reused>>
    BY DEF Look
  <1>2. len \in Nat /\ used \in Nat /\ guess \in Nat /\ limit \in Nat /\ j \in 0..len
    BY <1>1, Numbers
  <1>3. len' = len /\ GivenRe /\ GivenRe' /\ output \in Strings
    BY <1>1 DEF GsubInv, Texted, GivenRe, len, args
  <1>4. used + (len - j) <= guess /\ guess <= limit /\ repl_cnt <= j
    BY <1>1, <1>2 DEF GsubInv, Covered, Left, Placed
  <1>5. CASE m = NoMatch
    <2>1. output' = output \o Piece(j, len - j) /\ pc' = "done" /\ UNCHANGED <<found, skip0>>
      BY <1>5 DEF Look
    <2>2. Piece(j, len - j) \in Strings /\ Len(Piece(j, len - j)) = len - j
      <3>1. j \in Nat /\ len - j \in Nat /\ j + (len - j) <= len
        BY <1>2
      <3> QED BY <3>1, <1>3, PieceProps
    <2>3. output' \in Strings /\ used' = used + (len - j)
      BY <2>1, <2>2, <1>3, Copied DEF used
    <2>4. Texted'
      BY <2>1, <2>3, <1>1, <1>3 DEF GsubInv, Texted, args
    <2>5. TypeOK'
      BY <2>1, <1>1, <1>3 DEF GsubInv, TypeOK, args
    <2>6. Placed' /\ Covered'
      BY <2>1, <2>3, <1>1, <1>2, <1>3, <1>4 DEF Placed, Covered, args
    <2> QED BY <2>4, <2>5, <2>6 DEF GsubInv
  <1>6. CASE m # NoMatch
    <2> DEFINE have == m.where - j
    <2>1. /\ output' = output \o Piece(j, have)
          /\ skip0' = (IF have > 0 THEN -1 ELSE skip0)
          /\ found' = m /\ pc' = "put"
      BY <1>6 DEF Look
    <2>2. m.where \in j..len /\ m.howmuch \in 0..len /\ m.where + m.howmuch <= len /\ m.for \in Strings
      <3>1. (j # 0) \in BOOLEAN
        OBVIOUS
      <3> QED BY <3>1, <1>2, <1>3, <1>6, REmatchProps
    <2> HIDE DEF m
    <2>3. Piece(j, have) \in Strings /\ Len(Piece(j, have)) = have
      <3>1. j \in Nat /\ have \in Nat /\ j + have <= len
        BY <1>2, <2>2
      <3> QED BY <3>1, <1>3, PieceProps
    <2>4. output' \in Strings /\ used' = used + have
      BY <2>1, <2>3, <1>3, Copied DEF used
    <2>5. Texted'
      BY <2>1, <2>2, <2>4, <1>1, <1>3 DEF GsubInv, Texted, args
    <2>6. TypeOK'
      <3>1. m.where \in -1..len
        BY <2>2, <1>2
      <3>2. skip0' \in -1..len
        BY <2>1, <1>2, Numbers
      <3> QED BY <3>1, <3>2, <2>1, <2>2, <1>1, <1>3 DEF GsubInv, TypeOK, args
    <2>7. Placed'
      <3>1. found'.where \in j..len /\ found'.where + found'.howmuch <= len /\ repl_cnt <= found'.where
        BY <2>1, <2>2, <1>2, <1>4, Numbers
      <3> QED BY <3>1, <2>1, <1>1, <1>3, Numbers DEF Placed, args
    <2>8. Covered'
      <3>1. Left' = len - m.where
        BY <2>1, <1>3 DEF Left
      <3>2. /\ used' \in Nat /\ Left' \in Nat /\ used' + Left' <= guess
        BY <3>1, <2>2, <2>4, <1>2, <1>4
      <3>3. guess' = guess /\ limit' = limit /\ used' <= limit
        BY <3>2, <1>1, <1>2, <1>4, Within
      <3> QED BY <3>2, <3>3, <1>4, Zenon DEF Covered
    <2> QED BY <2>5, <2>6, <2>7, <2>8 DEF GsubInv
  <1> QED BY <1>5, <1>6

\* The loop ends behind the text.
LEMMA LookedAllStep == ASSUME GsubInv, LookedAll PROVE GsubInv'
  <1>1. /\ pc' = "done" /\ fn = "gsub"
        /\ UNCHANGED <<args, j, skip0, repl_cnt, found, xrepl, output, guess, limit, reused>>
    BY DEF LookedAll
  <1>2. TypeOK'
    BY <1>1 DEF GsubInv, TypeOK, args, len
  <1>3. Texted'
    BY <1>1 DEF GsubInv, Texted, GivenRe, args, len
  <1>4. Placed' /\ Covered'
    BY <1>1 DEF GsubInv, Placed, Covered, args, used
  <1> QED BY <1>2, <1>3, <1>4 DEF GsubInv

\* The replacement is put where the estimate has room for it: the estimate is
\* corrected by what it adds, and never below zero.
LEMMA PutStep == ASSUME GsubInv, Put PROVE GsubInv'
  <1> DEFINE have == Len(Made)
  <1>1. /\ pc = "put" /\ pc' = "move" /\ xrepl' = Made
        /\ reused' = (reused \/ (Counts /\ IsReplv(repl) /\ Made # replv_to_repl(repl, found.for)))
        /\ UNCHANGED <<args, j, skip0, found>>
    BY DEF Put
  <1>2. len \in Nat /\ used \in Nat /\ guess \in Nat /\ limit \in Nat
    BY Numbers
  <1>3. len' = len /\ GivenRe' /\ output \in Strings
    BY <1>1 DEF GsubInv, Texted, GivenRe, len, args
  <1>4. /\ found.where \in j..len /\ found.howmuch \in 0..len
        /\ found.where + found.howmuch <= len /\ repl_cnt <= found.where
        /\ repl_cnt \in Nat /\ j \in Nat /\ fn # "sub"
    BY <1>1, Numbers DEF GsubInv, Placed
  <1>5. used + (len - found.where) <= guess /\ guess <= limit
    BY <1>1 DEF GsubInv, Covered, Left
  <1>6. Made \in Strings /\ have \in Nat
    <2>1. replv_to_repl(repl, found.for) \in Strings
      BY MadeIsText DEF GsubInv, Texted
    <2>2. Made \in Strings
      BY <2>1 DEF Made, GsubInv, Texted
    <2> QED BY <2>2 DEF Strings
  <1>7. reused' \in BOOLEAN
    BY <1>1 DEF GsubInv, TypeOK
  <1>8. CASE Counts
    <2>1. /\ repl_cnt' = repl_cnt + 1
          /\ guess' = Grown(have).guess /\ limit' = Grown(have).limit
          /\ output' = output \o Made
      BY <1>8 DEF Put
    <2>2. output' \in Strings /\ used' = used + have
      BY <2>1, <1>3, <1>6, Copied DEF used
    <2> HIDE DEF have
    <2>3. /\ guess' \in Nat /\ limit' \in Nat /\ guess' <= limit'
          /\ used + have + (len - (found.where + found.howmuch)) <= guess'
      <3>1. CASE have <= found.howmuch
        <4>1. guess' = guess - (found.howmuch - have) /\ limit' = limit
          BY <2>1, <3>1 DEF Grown
        <4> QED BY <4>1, <3>1, <1>2, <1>4, <1>5, <1>6
      <3>2. CASE ~(have <= found.howmuch)
        <4> DEFINE more == guess + (have - found.howmuch)
        <4>1. \/ more >= limit /\ guess' = more + 1 /\ limit' = 2 * (more + 1)
              \/ ~(more >= limit) /\ guess' = more /\ limit' = limit
          BY <2>1, <3>2 DEF Grown
        <4>2. more \in Nat /\ used + have + (len - (found.where + found.howmuch)) <= more
          BY <3>2, <1>2, <1>4, <1>5, <1>6
        <4> HIDE DEF more
        <4>3. used + have + (len - (found.where + found.howmuch)) \in Int
          BY <1>2, <1>4, <1>6
        <4> QED BY <4>1, <4>2, <4>3, <1>2
      <3> QED BY <3>1, <3>2
    <2>4. Texted'
      BY <2>2, <1>1, <1>3, <1>6 DEF GsubInv, Texted, args
    <2>5. TypeOK'
      <3>1. repl_cnt' \in 0..len + 1
        BY <2>1, <1>2, <1>4
      <3> QED BY <3>1, <2>3, <1>1, <1>3, <1>7 DEF GsubInv, TypeOK, args
    <2>6. Placed'
      BY <2>1, <1>1, <1>2, <1>3, <1>4 DEF Placed, args
    <2>7. Covered'
      <3>1. used' \in Nat /\ used' + Left' <= guess' /\ Left' \in Nat
        BY <2>2, <2>3, <1>1, <1>2, <1>3, <1>4, <1>6 DEF Left
      <3>2. used' <= limit' /\ guess' <= limit'
        BY <3>1, <2>3, Within
      <3> QED BY <3>1, <3>2, Zenon DEF Covered
    <2> QED BY <2>4, <2>5, <2>6, <2>7 DEF GsubInv
  <1>9. CASE ~Counts
    <2>1. UNCHANGED <<repl_cnt, guess, limit, output>> /\ found.howmuch = 0
      <3>1. ~(found.howmuch > 0)
        BY <1>9 DEF Counts
      <3> QED BY <3>1, <1>4, <1>9 DEF Put
    <2>2. Texted'
      BY <2>1, <1>1, <1>3, <1>6 DEF GsubInv, Texted, args
    <2>3. TypeOK'
      BY <2>1, <1>1, <1>3, <1>7 DEF GsubInv, TypeOK, args
    <2>4. Placed'
      BY <2>1, <1>1, <1>2, <1>3, <1>4 DEF Placed, args
    <2>5. Covered'
      BY <2>1, <1>1, <1>2, <1>3, <1>4, <1>5 DEF Covered, Left, used
    <2> QED BY <2>2, <2>3, <2>4, <2>5 DEF GsubInv
  <1> QED BY <1>8, <1>9

\* Moving on copies the character behind an empty match, if there is one.
LEMMA MoveStep == ASSUME GsubInv, Move PROVE GsubInv'
  <1>1. /\ pc = "move" /\ pc' = "look" /\ j' = Behind(found)
        /\ skip0' = (IF found.howmuch > 0 THEN Behind(found) ELSE -1)
        /\ UNCHANGED <<args, repl_cnt, found, xrepl, guess, limit, reused>>
    BY DEF Move
  <1>2. len \in Nat /\ used \in Nat /\ guess \in Nat /\ limit \in Nat
    BY Numbers
  <1>3. len' = len /\ GivenRe /\ GivenRe' /\ output \in Strings
    BY <1>1 DEF GsubInv, Texted, GivenRe, len, args
  <1>4. /\ found.where \in 0..len /\ found.howmuch \in 0..len
        /\ found.where + found.howmuch <= len /\ repl_cnt <= found.where + 1
        /\ repl_cnt \in Nat /\ fn # "sub"
    BY <1>1, Numbers DEF GsubInv, Placed
  <1>5. used + (len - (found.where + found.howmuch)) <= guess /\ guess <= limit
    BY <1>1 DEF GsubInv, Covered, Left
  <1>6. /\ Behind(found) = found.where + (IF found.howmuch > 0 THEN found.howmuch ELSE 1)
        /\ Behind(found) \in 0..len + 1 /\ repl_cnt <= Behind(found)
        /\ skip0' \in -1..len
    BY <1>1, <1>2, <1>4 DEF Behind
  <1>7. /\ output' \in Strings
        /\ used' = used + (IF found.howmuch = 0 /\ found.where < len THEN 1 ELSE 0)
    <2>1. CASE found.howmuch = 0 /\ found.where < len
      <3>1. output' = output \o Piece(found.where, 1)
        BY <2>1 DEF Move
      <3>2. Piece(found.where, 1) \in Strings /\ Len(Piece(found.where, 1)) = 1
        <4>1. found.where \in Nat /\ 1 \in Nat /\ found.where + 1 <= len
          BY <2>1, <1>2, <1>4
        <4> QED BY <4>1, <1>3, PieceProps
      <3>3. output' \in Strings /\ Len(output') = Len(output) + 1
        BY <3>1, <3>2, <1>3, Copied
      <3> QED BY <2>1, <3>3 DEF used
    <2>2. CASE ~(found.howmuch = 0 /\ found.where < len)
      <3>1. output' = output
        BY <2>2 DEF Move
      <3> QED BY <2>2, <3>1, <1>2, <1>3 DEF used
    <2> QED BY <2>1, <2>2
  <1>8. Texted'
    BY <1>7, <1>1, <1>3 DEF GsubInv, Texted, args
  <1>9. TypeOK'
    BY <1>6, <1>1, <1>3 DEF GsubInv, TypeOK, args
  <1>10. Placed'
    BY <1>6, <1>1, <1>3, <1>4 DEF Placed, args
  <1>11. Covered'
    <2>1. used' \in Nat /\ Left' \in Nat /\ used' + Left' <= guess
      <3>1. Left' = IF Behind(found) > len THEN 0 ELSE len - Behind(found)
        BY <1>1, <1>3 DEF Left
      <3> QED BY <3>1, <1>2, <1>4, <1>5, <1>6, <1>7
    <2>2. guess' = guess /\ limit' = limit
      BY <1>1
    <2>3. used' <= limit' /\ used' + Left' <= guess' /\ guess' <= limit'
      <3>1. used' \in Nat /\ Left' \in Nat /\ used' + Left' <= guess'
            /\ guess' <= limit' /\ guess' \in Nat /\ limit' \in Nat
        BY <2>1, <2>2, <1>2, <1>5, Zenon
      <3> QED BY <3>1, Within
    <2> QED BY <2>3, Zenon DEF Covered
  <1> QED BY <1>8, <1>9, <1>10, <1>11 DEF GsubInv

\* bi_sub has a buffer of the length of its result.
LEMMA SubStep == ASSUME GsubInv, bi_sub PROVE GsubInv'
  <1> DEFINE m == REmatch(0, FALSE)
             made == replv_to_repl(repl, m.for)
             back == m.where + m.howmuch
  <1>1. /\ fn = "sub" /\ pc = "look" /\ pc' = "done"
        /\ UNCHANGED <<args, j, skip0, found, xrepl, guess, reused>>
    BY DEF bi_sub
  <1>2. len \in Nat /\ limit \in Nat /\ guess \in Nat /\ used \in Nat /\ j = 0
    BY <1>1, Numbers DEF GsubInv, Placed
  <1>3. len' = len /\ GivenRe /\ GivenRe' /\ input \in Strings
    BY <1>1 DEF GsubInv, Texted, GivenRe, len, args
  <1>4. output' \in Strings /\ used' <= limit' /\ limit' \in Nat /\ repl_cnt' \in 0..len + 1
    <2>1. CASE m = NoMatch
      <3>1. output' = input /\ repl_cnt' = repl_cnt /\ limit' = limit
        BY <2>1 DEF bi_sub
      <3>2. used + len <= guess /\ guess <= limit
        BY <1>1, <1>2 DEF GsubInv, Covered, Left
      <3>3. used' = len
        BY <3>1 DEF used, len
      <3> QED BY <3>1, <3>2, <3>3, <1>2, <1>3, Numbers
    <2>2. CASE m # NoMatch
      <3>1. /\ output' = Piece(0, m.where) \o made \o Piece(back, len - back)
            /\ limit' = m.where + Len(made) + (len - back)
            /\ repl_cnt' = 1
        BY <2>2 DEF bi_sub
      <3>2. m.where \in 0..len /\ m.howmuch \in 0..len /\ back <= len /\ m.for \in Strings
        <4>1. 0 \in 0..len /\ FALSE \in BOOLEAN
          BY <1>2
        <4> QED BY <4>1, <1>3, <2>2, REmatchProps
      <3>3. made \in Strings
        BY <3>2, MadeIsText DEF GsubInv, Texted
      <3> HIDE DEF m, made
      <3>4. back \in Nat /\ len - back \in Nat /\ back + (len - back) <= len
        BY <3>2, <1>2
      <3> HIDE DEF back
      <3>5. Piece(0, m.where) \in Strings /\ Len(Piece(0, m.where)) = m.where
        <4>1. 0 \in Nat /\ m.where \in Nat /\ 0 + m.where <= len
          BY <3>2, <1>2
        <4> QED BY <4>1, <1>3, PieceProps
      <3>6. Piece(back, len - back) \in Strings /\ Len(Piece(back, len - back)) = len - back
        BY <3>4, <1>3, PieceProps
      <3>7. /\ output' \in Strings
            /\ used' = m.where + Len(made) + (len - back) /\ Len(made) \in Nat
        <4>1. /\ Piece(0, m.where) \o made \in Strings /\ Len(made) \in Nat
              /\ Len(Piece(0, m.where) \o made) = m.where + Len(made)
          BY <3>3, <3>5, Copied
        <4>2. /\ output' \in Strings
              /\ Len(output') = Len(Piece(0, m.where) \o made) + (len - back)
          BY <4>1, <3>1, <3>6, Copied
        <4> QED BY <4>1, <4>2 DEF used
      <3> QED BY <3>1, <3>2, <3>4, <3>7, <1>2
    <2> QED BY <2>1, <2>2
  <1>5. Texted'
    BY <1>4, <1>1, <1>3 DEF GsubInv, Texted, args
  <1>6. TypeOK'
    BY <1>4, <1>1, <1>3 DEF GsubInv, TypeOK, args
  <1>7. Placed' /\ Covered'
    BY <1>4, <1>1 DEF Placed, Covered
  <1> QED BY <1>5, <1>6, <1>7 DEF GsubInv

\* Nothing is copied behind the end of the buffer, and the numbers of gsub3 stay
\* in their ranges: the estimate does not fall below zero.
THEOREM BufferHolds == Spec => []BufferConsistent
  <1>1. GsubInv /\ [Next]_vars => GsubInv'
    <2> SUFFICES ASSUME GsubInv, [Next]_vars PROVE GsubInv'
      OBVIOUS
    <2>1. CASE Look
      BY <2>1, LookStep
    <2>2. CASE LookedAll
      BY <2>2, LookedAllStep
    <2>3. CASE Put
      BY <2>3, PutStep
    <2>4. CASE Move
      BY <2>4, MoveStep
    <2>5. CASE bi_sub
      BY <2>5, SubStep
    <2>6. CASE UNCHANGED vars
      BY <2>6 DEF GsubInv, TypeOK, Texted, GivenRe, Placed, Covered, Left, len, used, vars, args
    <2> QED BY <2>1, <2>2, <2>3, <2>4, <2>5, <2>6 DEF Next, gsub3
  <1>2. GsubInv => BufferConsistent
    BY DEF GsubInv, BufferConsistent, BufferFits, Covered
  <1> QED BY <1>1, <1>2, InitGsub, PTL DEF Spec

-----------------------------------------------------------------------------
(* What REPL_compile makes of a replacement.                               *)

\* Both ways to put three texts together give the same one.
Assoc(x, y, z) == (x \o y) \o z = x \o (y \o z)

\* Brackets do not matter.
LEMMA Associative == \A x, y, z \in Strings : Assoc(x, y, z)
  <1> TAKE x, y, z \in Strings
  <1>1. x \in Seq(Chars) /\ y \in Seq(Chars) /\ z \in Seq(Chars)
    BY DEF Strings
  <1> QED BY <1>1, ConcatAssociative, SMT DEF Assoc

\* Putting texts one behind the other.
LEMMA Joined ==
    /\ \A x \in Strings : x \o <<>> = x /\ <<>> \o x = x
    /\ \A x, y \in Strings : x \o y \in Strings
    /\ \A x, y, z \in Strings : (x \o y) \o z = x \o (y \o z)
  <1>1. \A x \in Strings : x \o <<>> = x /\ <<>> \o x = x
    BY ConcatEmptySeq, Zenon DEF Strings
  <1>2. \A x, y \in Strings : x \o y \in Strings
    BY ConcatProperties, Zenon DEF Strings
  <1> QED BY <1>1, <1>2, Associative DEF Assoc

-----------------------------------------------------------------------------
(* The compiled replacement is what Written says of the written one.       *)

\* What Since2020 makes of the character at i.
Meant(s, i) == IF s[i] = "&" THEN <<IF Backslashes(s, i) % 2 = 0 THEN Amp ELSE "&">>
               ELSE IF s[i] = "\\" /\ BeforeAmp(s, i) /\ Backslashes(s, i) % 2 = 0 THEN <<>>
               ELSE <<s[i]>>

\* A place where REPL_compile may stand: the backslashes before it are pairs,
\* unless it does not matter.
Begins(s, i) == i > Len(s) \/ s[i] \notin {"\\", "&"} \/ Backslashes(s, i) % 2 = 0

\* The backslashes before a place.
LEMMA BackslashesAre ==
    ASSUME NEW s \in Strings
    PROVE  /\ Backslashes(s, 1) = 0
           /\ \A i \in 1..Len(s) + 1 : Backslashes(s, i) \in Nat
           /\ \A i \in 1..Len(s) :
                Backslashes(s, i + 1) = IF s[i] = "\\" THEN Backslashes(s, i) + 1 ELSE 0
  <1> DEFINE n == Len(s)
             K(i) == {0} \cup {k \in 1..i - 1 : s[k] # "\\"}
  <1>0. n \in Nat
    BY DEF Strings
  <1>1. \A i \in 1..n + 1 : Backslashes(s, i) = i - 1 - Max(K(i))
    BY DEF Backslashes
  <1>2. ASSUME NEW i \in 1..n + 1
        PROVE  K(i) \subseteq Nat /\ K(i) # {} /\ i - 1 \in Nat /\ \A y \in K(i) : y <= i - 1
    BY <1>0
  <1>3. ASSUME NEW i \in 1..n + 1 PROVE Max(K(i)) \in K(i)
    <2> DEFINE k == K(i)
               b == i - 1
    <2>1. k \subseteq Nat /\ k # {} /\ b \in Nat /\ \A y \in k : y <= b
      BY <1>2
    <2> HIDE DEF k, b
    <2>2. Max(k) \in k
      BY <2>1, MaxProps
    <2> QED BY <2>2 DEF k
  <1>4. K(1) = {0}
    OBVIOUS
  <1>5. ASSUME NEW i \in 1..n
        PROVE  Backslashes(s, i + 1) = IF s[i] = "\\" THEN Backslashes(s, i) + 1 ELSE 0
    <2>1. i \in 1..n + 1 /\ i + 1 \in 1..n + 1 /\ (i + 1) - 1 = i
      BY <1>0
    <2>2. CASE s[i] = "\\"
      <3>1. K(i + 1) = K(i)
        BY <2>1, <2>2, <1>0
      <3>2. Max(K(i)) \in Nat
        BY <1>2, <1>3, <2>1
      <3> HIDE DEF K
      <3> QED BY <3>1, <3>2, <2>1, <2>2, <1>1
    <2>3. CASE s[i] # "\\"
      <3>1. i \in K(i + 1)
        BY <2>1, <2>3, <1>0
      <3>2. K(i + 1) \subseteq Nat /\ \A y \in K(i + 1) : y <= i
        BY <1>2, <2>1
      <3> HIDE DEF K
      <3>3. Max(K(i + 1)) = i
        BY <3>1, <3>2, MaxIs
      <3> QED BY <3>3, <2>1, <2>3, <1>1
    <2> QED BY <2>2, <2>3
  <1>6. ASSUME NEW i \in 1..n + 1 PROVE Backslashes(s, i) \in Nat
    <2>1. Max(K(i)) \in Nat /\ Max(K(i)) <= i - 1 /\ i - 1 \in Nat
      BY <1>2, <1>3
    <2> HIDE DEF K
    <2> QED BY <2>1, <1>1
  <1>7. Backslashes(s, 1) = 0
    <2>1. Max(K(1)) \in {0} /\ 1 \in 1..n + 1
      BY <1>0, <1>3, <1>4
    <2> HIDE DEF K
    <2> QED BY <2>1, <1>1
  <1> QED BY <1>5, <1>6, <1>7

\* REPL_compile makes of a character or two what is meant by them, and stands
\* right again behind them.
LEMMA ConvertedAsMeant ==
    ASSUME NEW s \in Strings, NEW i \in 1..Len(s), Begins(s, i)
    PROVE  /\ Two(s, i) => /\ i + 1 \in 1..Len(s) /\ Begins(s, i + 2)
                           /\ Converted(s, i) = Meant(s, i) \o Meant(s, i + 1)
           /\ ~Two(s, i) => Begins(s, i + 1) /\ Converted(s, i) = Meant(s, i)
  <1> DEFINE n == Len(s)
             B(k) == Backslashes(s, k)
  <1>0. n \in Nat /\ i \in 1..n /\ "\\" # "&" /\ i + 1 \in 1..n + 1
    BY DEF Strings
  <1>1. B(i) \in Nat /\ B(i + 1) = (IF s[i] = "\\" THEN B(i) + 1 ELSE 0)
    BY <1>0, BackslashesAre
  <1>2. i + 1 \in 1..n => B(i + 2) = IF s[i + 1] = "\\" THEN B(i + 1) + 1 ELSE 0
    <2>1. (i + 1) + 1 = i + 2
      OBVIOUS
    <2> QED BY <2>1, BackslashesAre
  <1>3. s[i] \in {"\\", "&"} => B(i) % 2 = 0
    BY <1>0 DEF Begins
  <1> HIDE DEF B, n
  <1>4. CASE Two(s, i)
    <2>1. s[i] = "\\" /\ i + 1 \in 1..n /\ s[i + 1] \in {"\\", "&"}
      BY <1>4, <1>0 DEF Two, Is, n
    <2>2. B(i) % 2 = 0 /\ B(i + 1) = B(i) + 1 /\ B(i + 1) % 2 = 1
      <3>1. B(i) % 2 = 0 /\ B(i + 1) = B(i) + 1
        BY <2>1, <1>1, <1>3
      <3> QED BY <3>1, <1>1
    <2>3. CASE s[i + 1] = "&"
      <3>1. BeforeAmp(s, i)
        <4>1. i + 1 \in i + 1..Len(s) /\ \A k \in i..(i + 1) - 1 : k = i
          BY <2>1 DEF n
        <4> QED BY <4>1, <2>1, <2>3 DEF BeforeAmp
      <3>2. Meant(s, i) = <<>>
        BY <3>1, <2>1, <2>2, <1>0 DEF Meant, B
      <3>3. Meant(s, i + 1) = <<"&">>
        BY <2>2, <2>3, <1>0 DEF Meant, B
      <3>4. Converted(s, i) = <<"&">>
        BY <2>1, <2>3, <1>0 DEF Converted, Is, n
      <3>5. <<>> \o <<"&">> = <<"&">>
        OBVIOUS
      <3>6. Begins(s, i + 2)
        <4>1. B(i + 2) = 0
          BY <2>1, <2>3, <1>0, <1>2
        <4> QED BY <4>1 DEF Begins, B
      <3> QED BY <3>2, <3>3, <3>4, <3>5, <3>6, <2>1, <1>4 DEF n
    <2>4. CASE s[i + 1] = "\\"
      <3>1. Meant(s, i + 1) = <<"\\">>
        <4>1. ~(B(i + 1) % 2 = 0)
          BY <2>2
        <4> QED BY <4>1, <2>4, <1>0 DEF Meant, B
      <3>2. Merge(s, i) <=> BeforeAmp(s, i)
        <4>1. ASSUME Merge(s, i) PROVE BeforeAmp(s, i)
          <5>1. PICK r \in i + 2..Len(s) : s[r] = "&" /\ \A k \in i + 2..r - 1 : s[k] = "\\"
            BY <4>1 DEF Merge
          <5>2. r \in i + 1..Len(s) /\ \A k \in i..r - 1 : k = i \/ k = i + 1 \/ k \in i + 2..r - 1
            BY <1>0 DEF n
          <5>3. \A k \in i..r - 1 : s[k] = "\\"
            BY <5>1, <5>2, <2>1, <2>4
          <5> QED BY <5>1, <5>2, <5>3 DEF BeforeAmp
        <4>2. ASSUME BeforeAmp(s, i) PROVE Merge(s, i)
          <5>1. PICK e \in i + 1..Len(s) : s[e] = "&" /\ \A k \in i..e - 1 : s[k] = "\\"
            BY <4>2 DEF BeforeAmp
          <5>2. e # i + 1
            BY <5>1, <2>4, <1>0
          <5>3. e \in i + 2..Len(s) /\ \A k \in i + 2..e - 1 : k \in i..e - 1
            BY <5>2, <1>0 DEF n
          <5> QED BY <5>1, <5>3 DEF Merge
        <4> QED BY <4>1, <4>2
      <3>3. Converted(s, i) = IF BeforeAmp(s, i) THEN <<"\\">> ELSE <<"\\", "\\">>
        <4>1. Is(s, i, "\\") /\ Is(s, i + 1, "\\")
          BY <2>1, <2>4, <1>0 DEF Is, n
        <4> QED BY <4>1, <3>2 DEF Converted
      <3>4. Meant(s, i) = IF BeforeAmp(s, i) THEN <<>> ELSE <<"\\">>
        BY <2>1, <2>2, <1>0 DEF Meant, B
      <3>5. <<>> \o <<"\\">> = <<"\\">> /\ <<"\\">> \o <<"\\">> = <<"\\", "\\">>
        <4>1. ASSUME NEW S, NEW x \in S PROVE <<>> \o <<x>> = <<x>>
          <5>1. <<x>> \in Seq(S)
            OBVIOUS
          <5> QED BY <5>1, ConcatEmptySeq
        <4>2. ASSUME NEW S, NEW x \in S PROVE <<x>> \o <<x>> = <<x, x>>
          <5> DEFINE a == <<x>>
                     b == a \o a
                     c == <<x, x>>
          <5>1. a \in Seq(S) /\ Len(a) = 1 /\ a[1] = x
            OBVIOUS
          <5> HIDE DEF a
          <5>2. b \in Seq(S) /\ Len(b) = 2 /\ b[1] = x /\ b[2] = x
            <6>1. /\ b \in Seq(S) /\ Len(b) = Len(a) + Len(a)
                  /\ \A h \in 1..Len(a) + Len(a) : b[h] = IF h <= Len(a) THEN a[h] ELSE a[h - Len(a)]
              BY <5>1, ConcatProperties
            <6> HIDE DEF b
            <6>2. /\ 1 \in 1..Len(a) + Len(a) /\ 2 \in 1..Len(a) + Len(a)
                  /\ 1 <= Len(a) /\ ~(2 <= Len(a)) /\ 2 - Len(a) = 1
              BY <5>1
            <6>3. b[1] = a[1] /\ b[2] = a[1]
              BY <6>1, <6>2
            <6> QED BY <6>1, <6>3, <5>1
          <5> HIDE DEF b
          <5>3. c \in Seq(S) /\ Len(c) = 2 /\ c[1] = x /\ c[2] = x
            OBVIOUS
          <5> HIDE DEF c
          <5>4. \A h \in 1..2 : h = 1 \/ h = 2
            OBVIOUS
          <5>5. \A h \in 1..Len(b) : b[h] = c[h]
            BY <5>2, <5>3, <5>4
          <5>6. b = c
            BY <5>2, <5>3, <5>5, SeqEqual
          <5> QED BY <5>6 DEF b, c, a
        <4> QED BY <4>1, <4>2, "\\" \in {"\\"}
      <3>6. Begins(s, i + 2)
        <4>1. B(i + 2) = B(i) + 2 /\ B(i + 2) % 2 = 0
          <5>1. B(i + 2) = B(i) + 2
            BY <2>1, <2>2, <2>4, <1>1, <1>2
          <5> QED BY <5>1, <2>2, <1>1
        <4> QED BY <4>1 DEF Begins, B
      <3>7. Converted(s, i) = Meant(s, i) \o Meant(s, i + 1)
        BY <3>1, <3>3, <3>4, <3>5
      <3> QED BY <3>6, <3>7, <2>1, <1>4 DEF n
    <2> QED BY <2>1, <2>3, <2>4
  <1>5. CASE ~Two(s, i)
    <2>1. Converted(s, i) = <<IF s[i] = "&" THEN Amp ELSE s[i]>>
      <3>1. ~(Is(s, i, "\\") /\ Is(s, i + 1, "\\")) /\ ~(Is(s, i, "\\") /\ Is(s, i + 1, "&"))
        BY <1>5 DEF Two
      <3>2. Is(s, i, "&") <=> s[i] = "&"
        BY <1>0 DEF Is, n
      <3> QED BY <3>1, <3>2, Zenon DEF Converted
    <2>2. Begins(s, i + 1)
      <3>1. CASE s[i] = "\\"
        <4>1. i + 1 > n \/ s[i + 1] \notin {"\\", "&"}
          <5>1. Is(s, i, "\\")
            BY <3>1, <1>0 DEF Is, n
          <5>2. ~Is(s, i + 1, "\\") /\ ~Is(s, i + 1, "&")
            BY <5>1, <1>5 DEF Two
          <5> QED BY <5>2, <1>0 DEF Is, n
        <4> QED BY <4>1 DEF Begins, n
      <3>2. CASE s[i] # "\\"
        <4>1. B(i + 1) = 0
          BY <3>2, <1>1
        <4> QED BY <4>1 DEF Begins, B
      <3> QED BY <3>1, <3>2
    <2>3. Meant(s, i) = <<IF s[i] = "&" THEN Amp ELSE s[i]>>
      <3>1. CASE s[i] = "&"
        <4>1. B(i) % 2 = 0
          BY <3>1, <1>3
        <4> QED BY <4>1, <3>1 DEF Meant, B
      <3>2. CASE s[i] = "\\"
        <4>1. ~BeforeAmp(s, i)
          <5> SUFFICES ASSUME NEW e \in i + 1..Len(s), s[e] = "&", \A k \in i..e - 1 : s[k] = "\\" PROVE FALSE
            BY DEF BeforeAmp
          <5>1. Is(s, i, "\\") /\ i + 1 <= Len(s)
            BY <3>2, <1>0 DEF Is, n
          <5>2. s[i + 1] # "\\" /\ s[i + 1] # "&"
            BY <5>1, <1>5 DEF Two, Is
          <5>3. e # i + 1
            BY <5>2
          <5>4. i + 1 \in i..e - 1
            BY <5>3, <1>0 DEF n
          <5> QED BY <5>2, <5>4
        <4> QED BY <4>1, <3>2, <1>0 DEF Meant
      <3>3. CASE s[i] # "&" /\ s[i] # "\\"
        BY <3>3 DEF Meant
      <3> QED BY <3>1, <3>2, <3>3
    <2> QED BY <2>1, <2>2, <2>3, <1>5
  <1> QED BY <1>4, <1>5

\* What REPL_compile makes of a replacement is what CHANGES says it is.
LEMMA CompiledSince2020 ==
    ASSUME NEW s \in Strings
    PROVE  REPL_compile(s) = Since2020(s)
  <1> DEFINE n == Len(s)
             w == [i \in 1..n |-> Meant(s, i)]
  <1>0. n \in Nat /\ \A i \in 1..n : s[i] \in Chars
    BY DEF Strings
  <1>1. Since2020(s) = FlattenSeq(w)
    BY DEF Since2020, Meant
  <1>2. w \in Seq(Seq(Chars)) /\ Len(w) = n /\ \A i \in 1..n : w[i] = Meant(s, i) /\ w[i] \in Strings
    <2>1. Amp \in Chars /\ "&" \in Chars
      BY DEF Chars
    <2>2. ASSUME NEW i \in 1..n PROVE Meant(s, i) \in Strings
      <3>1. s[i] \in Chars
        BY <1>0
      <3> HIDE DEF Chars
      <3>2. <<>> \in Strings /\ \A x \in Chars : <<x>> \in Strings
        BY DEF Strings
      <3> QED BY <3>1, <3>2, <2>1, Zenon DEF Meant
    <2> HIDE DEF Chars
    <2> QED BY <2>2, <1>0 DEF Strings
  <1> HIDE DEF w
  <1>3. PICK g : /\ \A i \in 0..n : g[i] \in Strings
                 /\ g[0] = <<>> /\ \A i \in 1..n : g[i] = g[i - 1] \o w[i]
                 /\ FlattenSeq(w) = g[n]
    <2>1. \E g : /\ \A i \in 0..Len(w) : g[i] \in Strings
                 /\ g[0] = <<>> /\ \A i \in 1..Len(w) : g[i] = g[i - 1] \o w[i]
                 /\ FlattenSeq(w) = g[Len(w)]
      BY <1>2, FlatPrefixes DEF Strings
    <2> QED BY <2>1, <1>2
  <1>4. PICK c : /\ REPL_compile(s) = c[1]
                 /\ \A i \in 1..n + 2 : c[i] \in Strings
                 /\ \A i \in 1..n + 2 : i > n => c[i] = <<>>
                 /\ \A i \in 1..n : c[i] = Converted(s, i) \o (IF Two(s, i) THEN c[i + 2] ELSE c[i + 1])
    BY CompiledBy
  <1> DEFINE W == {i \in 1..n + 1 : Begins(s, i) /\ g[i - 1] \o c[i] = c[1]}
  <1>5. 1 \in W
    <2>1. 1 \in 1..n + 1 /\ 1 \in 1..n + 2 /\ 1 - 1 = 0
      BY <1>0
    <2>2. c[1] \in Strings
      BY <2>1, <1>4
    <2>3. Begins(s, 1)
      <3>1. Backslashes(s, 1) = 0
        BY BackslashesAre
      <3> QED BY <3>1 DEF Begins
    <2>4. g[1 - 1] \o c[1] = c[1]
      <3>1. g[1 - 1] = <<>>
        BY <2>1, <1>3
      <3>2. <<>> \o c[1] = c[1]
        BY <2>2, Joined, Zenon
      <3> QED BY <3>1, <3>2, Zenon
    <2> QED BY <2>1, <2>3, <2>4
  <1>6. PICK i \in W : \A k \in W : k <= i
    <2>1. W \subseteq 1..n + 1
      OBVIOUS
    <2> HIDE DEF W
    <2>2. W \subseteq Nat /\ (\A y \in W : y <= n + 1) /\ n + 1 \in Nat /\ W # {}
      BY <2>1, <1>0, <1>5
    <2> QED BY <2>2, MaxProps
  <1>7. i \in 1..n + 1 /\ Begins(s, i) /\ g[i - 1] \o c[i] = c[1]
    OBVIOUS
  <1>8. ASSUME i # n + 1 PROVE FALSE
    <2>1. i \in 1..n /\ i - 1 \in 0..n /\ i \in 0..n /\ i + 1 \in 1..n + 2 /\ i + 2 \in 1..n + 2
      BY <1>0, <1>7, <1>8
    <2>2. g[i - 1] \in Strings /\ g[i] = g[i - 1] \o w[i] /\ w[i] = Meant(s, i) /\ w[i] \in Strings
      BY <1>2, <1>3, <2>1
    <2>4. CASE Two(s, i)
      <3>1. i + 1 \in 1..n /\ Begins(s, i + 2) /\ Converted(s, i) = w[i] \o w[i + 1]
        BY <2>1, <2>2, <2>4, <1>2, <1>7, ConvertedAsMeant
      <3>2. w[i + 1] \in Strings /\ g[i + 1] = g[i] \o w[i + 1]
        <4>1. (i + 1) - 1 = i
          BY <1>0
        <4> QED BY <3>1, <4>1, <1>2, <1>3
      <3>3. c[i] = (w[i] \o w[i + 1]) \o c[i + 2] /\ c[i + 2] \in Strings
        BY <3>1, <2>1, <2>4, <1>4
      <3>4. g[i + 1] \o c[i + 2] = c[1]
        <4>1. w[i] \o w[i + 1] \in Strings
          BY <2>2, <3>2, Joined
        <4>2. (g[i - 1] \o w[i]) \o w[i + 1] = g[i - 1] \o (w[i] \o w[i + 1])
          BY <2>2, <3>2, Joined
        <4>3. (g[i - 1] \o (w[i] \o w[i + 1])) \o c[i + 2] = g[i - 1] \o ((w[i] \o w[i + 1]) \o c[i + 2])
          BY <4>1, <2>2, <3>3, Joined
        <4>4. g[i + 1] \o c[i + 2] = g[i - 1] \o c[i]
          BY <4>2, <4>3, <2>2, <3>2, <3>3, Zenon
        <4> QED BY <4>4, <1>7
      <3>5. i + 2 \in W /\ ~(i + 2 <= i)
        <4>1. i + 2 \in 1..n + 1 /\ (i + 2) - 1 = i + 1
          BY <3>1, <1>0
        <4>2. g[(i + 2) - 1] \o c[i + 2] = c[1]
          BY <4>1, <3>4
        <4>3. ~(i + 2 <= i)
          BY <1>0, <2>1
        <4> QED BY <4>1, <4>2, <4>3, <3>1
      <3> HIDE DEF W
      <3> QED BY <3>5, <1>6
    <2>5. CASE ~Two(s, i)
      <3>1. Begins(s, i + 1) /\ Converted(s, i) = w[i]
        BY <2>1, <2>2, <2>5, <1>7, ConvertedAsMeant
      <3>2. c[i] = w[i] \o c[i + 1] /\ c[i + 1] \in Strings
        BY <3>1, <2>1, <2>5, <1>4
      <3>3. g[i] \o c[i + 1] = g[i - 1] \o c[i]
        <4>1. (g[i - 1] \o w[i]) \o c[i + 1] = g[i - 1] \o (w[i] \o c[i + 1])
          BY <3>2, <2>2, Joined
        <4> QED BY <4>1, <3>2, <2>2, Zenon
      <3>4. i + 1 \in W /\ ~(i + 1 <= i)
        <4>1. i + 1 \in 1..n + 1 /\ (i + 1) - 1 = i
          BY <2>1, <1>0
        <4>2. g[(i + 1) - 1] \o c[i + 1] = c[1]
          BY <4>1, <3>3, <1>7
        <4>3. ~(i + 1 <= i)
          BY <1>0, <2>1
        <4> QED BY <4>1, <4>2, <4>3, <3>1
      <3> HIDE DEF W
      <3> QED BY <3>4, <1>6
    <2> QED BY <2>4, <2>5
  <1>9. g[n] \o <<>> = c[1]
    <2>1. n + 1 \in 1..n + 2 /\ (n + 1) - 1 = n /\ n + 1 > n
      BY <1>0
    <2> QED BY <2>1, <1>4, <1>7, <1>8
  <1>10. g[n] \in Strings
    BY <1>0, <1>3
  <1>11. g[n] = c[1]
    BY <1>9, <1>10, Joined
  <1> QED BY <1>1, <1>3, <1>4, <1>11

\* What Posix makes of the character at i.
Promise(s, i) == IF s[i] = "&" THEN <<IF Backslashes(s, i) % 2 = 0 THEN Amp ELSE "&">>
                 ELSE IF s[i] = "\\" /\ Backslashes(s, i) % 2 = 0 /\ i < Len(s) /\ s[i + 1] \in {"\\", "&"}
                 THEN <<>>
                 ELSE <<s[i]>>

\* What REPL_compile makes of a replacement is what Written says it is: where
\* pairs of backslashes stand before an & only, CHANGES and mawk(1) agree.
LEMMA CompiledAsWritten ==
    ASSUME NEW s \in Strings
    PROVE  REPL_compile(s) = Written(s)
  <1>0. Len(s) \in Nat
    BY DEF Strings
  <1>1. ASSUME PairsBeforeAmp(s), NEW i \in 1..Len(s), s[i] = "\\"
        PROVE  BeforeAmp(s, i) <=> (i < Len(s) /\ s[i + 1] \in {"\\", "&"})
    <2>1. ASSUME BeforeAmp(s, i) PROVE i < Len(s) /\ s[i + 1] \in {"\\", "&"}
      <3>1. PICK e \in i + 1..Len(s) : s[e] = "&" /\ \A k \in i..e - 1 : s[k] = "\\"
        BY <2>1 DEF BeforeAmp
      <3>2. CASE e = i + 1
        BY <3>1, <3>2, <1>0
      <3>3. CASE e # i + 1
        <4>1. i + 1 \in i..e - 1 /\ i < Len(s)
          BY <3>3, <1>0
        <4> QED BY <4>1, <3>1
      <3> QED BY <3>2, <3>3
    <2>2. ASSUME i < Len(s), s[i + 1] = "&" PROVE BeforeAmp(s, i)
      <3>1. i + 1 \in i + 1..Len(s) /\ \A k \in i..(i + 1) - 1 : k = i
        BY <2>2, <1>0
      <3> QED BY <3>1, <2>2, <1>1 DEF BeforeAmp
    <2>3. ASSUME i < Len(s), s[i + 1] = "\\" PROVE BeforeAmp(s, i)
      <3>1. i \in 1..Len(s) - 1
        BY <2>3, <1>0
      <3> QED BY <3>1, <2>3, <1>1 DEF PairsBeforeAmp
    <2> QED BY <2>1, <2>2, <2>3
  <1>2. ASSUME PairsBeforeAmp(s) PROVE Since2020(s) = Posix(s)
    <2>1. ASSUME NEW i \in 1..Len(s) PROVE Meant(s, i) = Promise(s, i)
      <3>1. CASE s[i] = "\\"
        BY <3>1, <1>1, <1>2, Zenon DEF Meant, Promise
      <3>2. CASE s[i] # "\\"
        BY <3>2, Zenon DEF Meant, Promise
      <3> QED BY <3>1, <3>2
    <2>2. [i \in 1..Len(s) |-> Meant(s, i)] = [i \in 1..Len(s) |-> Promise(s, i)]
      BY <2>1, Zenon
    <2>3. /\ Since2020(s) = FlattenSeq([i \in 1..Len(s) |-> Meant(s, i)])
          /\ Posix(s) = FlattenSeq([i \in 1..Len(s) |-> Promise(s, i)])
      BY DEF Since2020, Posix, Meant, Promise
    <2> QED BY <2>2, <2>3
  <1> QED BY <1>2, CompiledSince2020 DEF Written

-----------------------------------------------------------------------------
(* What is promised, by its recursion.                                     *)

\* A replacement without & is what it is put for.
LEMMA PlainReplacement ==
    ASSUME NEW cell \in Strings, ~IsReplv(cell), NEW sval
    PROVE  replv_to_repl(cell, sval) = cell
  <1> DEFINE seqs == [i \in 1..Len(cell) |-> IF cell[i] = Amp THEN sval ELSE <<cell[i]>>]
  <1>1. Len(cell) \in Nat /\ \A i \in 1..Len(cell) : cell[i] \in Chars /\ cell[i] # Amp
    BY DEF Strings, IsReplv, Contains
  <1>2. \A i \in 1..Len(cell) : seqs[i] = <<cell[i]>>
    BY <1>1
  <1>3. seqs \in Seq(Seq(Chars)) /\ Len(seqs) = Len(cell)
    <2> HIDE DEF Chars
    <2>1. \A x \in Chars : <<x>> \in Seq(Chars)
      OBVIOUS
    <2>2. \A i \in 1..Len(cell) : seqs[i] \in Seq(Chars)
      BY <1>1, <1>2, <2>1
    <2> QED BY <1>1, <2>2
  <1>4. replv_to_repl(cell, sval) = FlattenSeq(seqs)
    BY DEF replv_to_repl
  <1> HIDE DEF seqs
  <1> QED BY <1>2, <1>3, <1>4, FlatOnes DEF Strings

\* The replacement that is promised for a match is the one that is made.
LEMMA ExpandIs == \A pieces, m : Expand(pieces, m) = replv_to_repl(pieces, m.for)
  BY DEF Expand, replv_to_repl

Results == [text : Strings, cnt : Nat]
Places == (0..len + 1) \X BOOLEAN

Counted(q, m) == ~(q[2] /\ m.where = q[1] /\ m.howmuch = 0)
MatchAt(q) == REmatch(q[1], q[1] # 0)

\* What is behind the place q, where f has what is behind the later ones.
RestAt(f, pieces, q) ==
    IF q[1] > len \/ MatchAt(q) = NoMatch THEN [text |-> Piece(q[1], len - q[1]), cnt |-> 0]
    ELSE [text |-> Piece(q[1], MatchAt(q).where - q[1])
                   \o (IF Counted(q, MatchAt(q)) THEN Expand(pieces, MatchAt(q)) ELSE <<>>)
                   \o Kept(MatchAt(q)) \o f[Onward(MatchAt(q))].text,
          cnt |-> f[Onward(MatchAt(q))].cnt + (IF Counted(q, MatchAt(q)) THEN 1 ELSE 0)]
RestF(f, pieces) == f = [q \in Places |-> RestAt(f, pieces, q)]

LEMMA PlaceIs ==
    ASSUME NEW e \in 0..len + 1, NEW b \in BOOLEAN
    PROVE  <<e, b>> \in Places /\ <<e, b>>[1] = e /\ <<e, b>>[2] = b
  BY DEF Places

\* The match at a place goes on to a later one.
LEMMA OnwardIs ==
    ASSUME GivenRe, NEW q \in Places, q[1] <= len, MatchAt(q) # NoMatch
    PROVE  /\ q[1] \in 0..len /\ q[2] \in BOOLEAN
           /\ MatchAt(q).where \in q[1]..len /\ MatchAt(q).howmuch \in 0..len
           /\ MatchAt(q).where + MatchAt(q).howmuch <= len
           /\ MatchAt(q).for \in Strings
           /\ Onward(MatchAt(q)) \in Places /\ Onward(MatchAt(q))[1] > q[1]
           /\ Kept(MatchAt(q)) \in Strings
           /\ Piece(q[1], MatchAt(q).where - q[1]) \in Strings
  <1> DEFINE m == MatchAt(q)
             p == q[1]
  <1>0. len \in Nat
    BY DEF GivenRe, Strings, len
  <1>1. p \in 0..len /\ q[2] \in BOOLEAN
    BY <1>0 DEF Places
  <1>2. m.where \in p..len /\ m.howmuch \in 0..len /\ m.where + m.howmuch <= len /\ m.for \in Strings
    <2>1. (p # 0) \in BOOLEAN
      OBVIOUS
    <2> QED BY <1>1, <2>1, REmatchProps DEF MatchAt
  <1> HIDE DEF m, p
  <1>3. Onward(m) \in Places /\ Onward(m)[1] > p
    <2>1. CASE m.howmuch > 0
      <3>1. Onward(m) = <<m.where + m.howmuch, TRUE>>
        BY <2>1 DEF Onward
      <3>2. m.where + m.howmuch \in 0..len + 1 /\ m.where + m.howmuch > p
        BY <2>1, <1>0, <1>1, <1>2
      <3> QED BY <3>1, <3>2, PlaceIs
    <2>2. CASE ~(m.howmuch > 0)
      <3>1. Onward(m) = <<m.where + 1, FALSE>>
        BY <2>2 DEF Onward
      <3>2. m.where + 1 \in 0..len + 1 /\ m.where + 1 > p
        BY <2>2, <1>0, <1>1, <1>2
      <3> QED BY <3>1, <3>2, PlaceIs
    <2> QED BY <2>1, <2>2
  <1>4. Kept(m) \in Strings
    <2>1. CASE m.howmuch > 0 \/ m.where = len
      BY <2>1, EmptyText DEF Kept
    <2>2. CASE ~(m.howmuch > 0 \/ m.where = len)
      <3>1. m.where \in Nat /\ 1 \in Nat /\ m.where + 1 <= len
        BY <2>2, <1>0, <1>1, <1>2
      <3> QED BY <2>2, <3>1, PieceProps DEF Kept
    <2> QED BY <2>1, <2>2
  <1>5. Piece(p, m.where - p) \in Strings
    <2>1. p \in Nat /\ m.where - p \in Nat /\ p + (m.where - p) <= len
      BY <1>0, <1>1, <1>2
    <2> QED BY <2>1, PieceProps
  <1> QED BY <1>1, <1>2, <1>3, <1>4, <1>5 DEF m, p

\* The value is a result if the later ones are.
LEMMA RestAtIs ==
    ASSUME GivenRe, NEW pieces \in Strings, NEW f \in [Places -> Results], NEW q \in Places
    PROVE  RestAt(f, pieces, q) \in Results
  <1> DEFINE m == MatchAt(q)
             p == q[1]
  <1>0. len \in Nat /\ p \in 0..len + 1
    BY DEF GivenRe, Strings, len, Places
  <1>1. CASE p > len \/ m = NoMatch
    <2>1. RestAt(f, pieces, q) = [text |-> Piece(p, len - p), cnt |-> 0]
      BY <1>1 DEF RestAt
    <2>2. Piece(p, len - p) \in Strings
      <3>1. CASE p <= len
        <4>1. p \in Nat /\ len - p \in Nat /\ p + (len - p) <= len
          BY <3>1, <1>0
        <4> HIDE DEF p
        <4> QED BY <4>1, PieceProps
      <3>2. CASE ~(p <= len)
        <4>1. p + 1 > p + (len - p) /\ p + 1 \in Int /\ p + (len - p) \in Int
          BY <3>2, <1>0
        <4>2. input \in Seq(Chars)
          BY DEF GivenRe, Strings
        <4> HIDE DEF p
        <4>3. Piece(p, len - p) = <<>>
          BY <4>1, <4>2, SubSeqEmpty DEF Piece
        <4> QED BY <4>3, EmptyText
      <3> QED BY <3>1, <3>2
    <2> QED BY <2>1, <2>2 DEF Results
  <1>2. CASE ~(p > len \/ m = NoMatch)
    <2> DEFINE a == Piece(p, m.where - p)
               b == IF Counted(q, m) THEN Expand(pieces, m) ELSE <<>>
               c == Kept(m)
               r == f[Onward(m)]
               k == IF Counted(q, m) THEN 1 ELSE 0
    <2>1. RestAt(f, pieces, q) = [text |-> a \o b \o c \o r.text, cnt |-> r.cnt + k]
      BY <1>2 DEF RestAt
    <2>2. a \in Strings /\ c \in Strings /\ r \in Results /\ m.for \in Strings
      BY <1>0, <1>2, OnwardIs
    <2>3. b \in Strings
      <3>1. Expand(pieces, m) \in Strings
        <4> HIDE DEF m
        <4> QED BY <2>2, ExpandIs, MadeIsText
      <3> QED BY <3>1, EmptyText
    <2>4. k \in Nat
      OBVIOUS
    <2> HIDE DEF a, b, c, r, k
    <2>5. r.text \in Strings /\ r.cnt \in Nat
      BY <2>2 DEF Results
    <2>6. a \o b \o c \o r.text \in Strings /\ r.cnt + k \in Nat
      <3>1. c \o r.text \in Strings
        BY <2>2, <2>5, Joined, Zenon
      <3>2. b \o c \o r.text \in Strings /\ a \o b \in Strings
        BY <3>1, <2>2, <2>3, <2>5, Joined, Zenon
      <3>3. a \o b \o c \in Strings
        BY <3>2, <2>2, Joined, Zenon
      <3>4. a \o b \o c \o r.text \in Strings
        BY <3>3, <2>5, Joined, Zenon
      <3>5. r.cnt + k \in Nat
        BY <2>4, <2>5
      <3> QED BY <3>4, <3>5
    <2> QED BY <2>1, <2>6 DEF Results
  <1> QED BY <1>1, <1>2

\* It depends on the later ones only.
LEMMA RestAgrees ==
    ASSUME GivenRe, NEW pieces, NEW f, NEW g, NEW q \in Places,
           \A r \in Places : r[1] > q[1] => f[r] = g[r]
    PROVE  RestAt(f, pieces, q) = RestAt(g, pieces, q)
  <1>1. CASE q[1] > len \/ MatchAt(q) = NoMatch
    BY <1>1 DEF RestAt
  <1>2. CASE ~(q[1] > len \/ MatchAt(q) = NoMatch)
    <2>1. q[1] <= len
      BY <1>2 DEF Places, GivenRe, Strings, len
    <2>2. Onward(MatchAt(q)) \in Places /\ Onward(MatchAt(q))[1] > q[1]
      BY <1>2, <2>1, OnwardIs
    <2>3. f[Onward(MatchAt(q))] = g[Onward(MatchAt(q))]
      BY <2>2
    <2> QED BY <1>2, <2>3, Zenon DEF RestAt
  <1> QED BY <1>1, <1>2

\* The recursion has a solution: what is behind a place is known after as many
\* rounds as there are places behind it.
LEMMA RestExists ==
    ASSUME GivenRe, NEW pieces \in Strings
    PROVE  \E f : f \in [Places -> Results] /\ RestF(f, pieces)
  <1> DEFINE D == [Places -> Results]
             f0 == [q \in Places |-> [text |-> <<>>, cnt |-> 0]]
             Round(f) == [q \in Places |-> RestAt(f, pieces, q)]
             h == [x \in Nat \X D |-> Round(x[2])]
  <1>0. len \in Nat
    BY DEF GivenRe, Strings, len
  <1>1. f0 \in D
    <2>1. [text |-> <<>>, cnt |-> 0] \in Results
      BY EmptyText DEF Results
    <2> QED BY <2>1
  <1>2. \A f \in D : Round(f) \in D
    BY RestAtIs
  <1> HIDE DEF D, f0, Round
  <1>3. h \in [Nat \X D -> D]
    BY <1>2
  <1>4. PICK g : Follows(g, D, f0, h)
    <2> HIDE DEF h
    <2> QED BY <1>1, <1>3, Recursion
  <1>5. \A k \in Nat : g[k] \in D /\ g[k + 1] = Round(g[k])
    <2> SUFFICES ASSUME NEW k \in Nat PROVE g[k] \in D /\ g[k + 1] = Round(g[k])
      OBVIOUS
    <2>1. g[k] \in D
      BY <1>4 DEF Follows
    <2>2. k + 1 \in Nat \ {0} /\ (k + 1) - 1 = k
      OBVIOUS
    <2>3. g[k + 1] = h[<<k + 1, g[k]>>]
      <3> HIDE DEF h
      <3> QED BY <2>2, <1>4 DEF Follows
    <2> QED BY <2>1, <2>2, <2>3
  <1> DEFINE T == {k \in Nat : \A q \in Places : q[1] + k > len + 1 => g[k + 1][q] = g[k][q]}
  <1>6. 0 \in T
    <2>1. \A q \in Places : ~(q[1] + 0 > len + 1)
      BY <1>0 DEF Places
    <2> QED BY <2>1
  <1>7. ASSUME NEW k \in Nat, k \in T PROVE k + 1 \in T
    <2> SUFFICES ASSUME NEW q \in Places, q[1] + (k + 1) > len + 1
                 PROVE  g[(k + 1) + 1][q] = g[k + 1][q]
      OBVIOUS
    <2>1. g[k + 1] = Round(g[k]) /\ g[(k + 1) + 1] = Round(g[k + 1])
      BY <1>5
    <2>2. ASSUME NEW r \in Places, r[1] > q[1] PROVE g[k + 1][r] = g[k][r]
      <3>1. r[1] + k > len + 1
        BY <2>2, <1>0 DEF Places
      <3> QED BY <3>1, <1>7
    <2>3. RestAt(g[k + 1], pieces, q) = RestAt(g[k], pieces, q)
      BY <2>2, RestAgrees
    <2>4. Round(g[k + 1])[q] = RestAt(g[k + 1], pieces, q) /\ Round(g[k])[q] = RestAt(g[k], pieces, q)
      BY DEF Round
    <2> QED BY <2>1, <2>3, <2>4
  <1>8. Nat \subseteq T
    <2> HIDE DEF T
    <2> QED BY <1>6, <1>7, NatAll
  <1> DEFINE n == len + 2
             f == g[n]
  <1>9. n \in Nat /\ n \in T
    BY <1>0, <1>8
  <1>10. f \in D /\ Round(f) \in D /\ g[n + 1] = Round(f)
    BY <1>2, <1>5, <1>9
  <1>11. \A q \in Places : Round(f)[q] = f[q]
    <2> SUFFICES ASSUME NEW q \in Places PROVE g[n + 1][q] = g[n][q]
      BY <1>10
    <2>1. q[1] + n > len + 1
      BY <1>0 DEF Places
    <2> HIDE DEF n
    <2> QED BY <2>1, <1>9
  <1> HIDE DEF f
  <1>12. Round(f) = f
    <2> DEFINE u == Round(f)
    <2>1. u \in [Places -> Results] /\ f \in [Places -> Results] /\ \A q \in Places : u[q] = f[q]
      BY <1>10, <1>11 DEF D
    <2> HIDE DEF u
    <2>2. u = f
      BY <2>1
    <2> QED BY <2>2 DEF u
  <1> QED BY <1>10, <1>12 DEF RestF, Round, D

\* And one only.
LEMMA RestUnique ==
    ASSUME GivenRe, NEW pieces, NEW f, RestF(f, pieces), NEW g, RestF(g, pieces)
    PROVE  \A q \in Places : f[q] = g[q]
  <1> DEFINE T == {k \in Nat : \A q \in Places : q[1] + k > len + 1 => f[q] = g[q]}
  <1>0. len \in Nat
    BY DEF GivenRe, Strings, len
  <1>1. \A q \in Places : f[q] = RestAt(f, pieces, q) /\ g[q] = RestAt(g, pieces, q)
    BY Zenon DEF RestF
  <1>2. 0 \in T
    BY <1>0 DEF Places
  <1>3. ASSUME NEW k \in Nat, k \in T PROVE k + 1 \in T
    <2> SUFFICES ASSUME NEW q \in Places, q[1] + (k + 1) > len + 1 PROVE f[q] = g[q]
      OBVIOUS
    <2>1. ASSUME NEW r \in Places, r[1] > q[1] PROVE f[r] = g[r]
      <3>1. r[1] + k > len + 1
        BY <2>1, <1>0 DEF Places
      <3> QED BY <3>1, <1>3
    <2>2. RestAt(f, pieces, q) = RestAt(g, pieces, q)
      BY <2>1, RestAgrees
    <2> QED BY <1>1, <2>2
  <1>4. Nat \subseteq T
    <2> HIDE DEF T
    <2> QED BY <1>2, <1>3, NatAll
  <1>5. len + 2 \in T /\ \A q \in Places : q[1] + (len + 2) > len + 1
    BY <1>0, <1>4 DEF Places
  <1> QED BY <1>5

\* What is promised is its value at the start.
LEMMA ReplacedIs ==
    ASSUME GivenRe, NEW pieces, NEW f, RestF(f, pieces)
    PROVE  Replaced(pieces) = f[<<0, FALSE>>]
  <1> DEFINE c == CHOOSE g : RestF(g, pieces)
  <1>1. Replaced(pieces) = c[<<0, FALSE>>]
    BY DEF Replaced, RestF, RestAt, Places, Counted, MatchAt
  <1>2. RestF(c, pieces)
    OBVIOUS
  <1> HIDE DEF c
  <1>3. <<0, FALSE>> \in Places
    <2>1. 0 \in 0..len + 1
      BY DEF GivenRe, Strings, len
    <2> QED BY <2>1, PlaceIs
  <1> QED BY <1>1, <1>2, <1>3, RestUnique

-----------------------------------------------------------------------------
(* The result.                                                             *)

\* While the text and its table stay, so does what is promised of them.
LEMMA SamePromise ==
    ASSUME UNCHANGED <<input, re>>
    PROVE  /\ \A p, b : REmatch(p, b)' = REmatch(p, b)
           /\ \A m : Kept(m)' = Kept(m)
           /\ Places' = Places
           /\ \A f, pieces : RestF(f, pieces)' <=> RestF(f, pieces)
           /\ \A pieces : First(pieces)' = First(pieces)
  <1>1. len' = len /\ \A a, b : Piece(a, b)' = Piece(a, b)
    BY DEF len, Piece
  <1>2. \A p, b : LengthAt(p, b)' = LengthAt(p, b)
    BY DEF LengthAt
  <1>3. \A p, b : Hits(p, b)' = Hits(p, b)
    BY <1>1, <1>2 DEF Hits
  <1>4. \A p, b : REmatch(p, b)' = REmatch(p, b)
    BY <1>1, <1>2, <1>3, Zenon DEF REmatch
  <1>5. \A m : Kept(m)' = Kept(m)
    BY <1>1, Zenon DEF Kept
  <1>6. Places' = Places
    BY <1>1 DEF Places
  <1>7. \A q : MatchAt(q)' = MatchAt(q)
    BY <1>4, Zenon DEF MatchAt
  <1>8. \A f, pieces, q : RestAt(f, pieces, q)' = RestAt(f, pieces, q)
    <2>1. input' = input
      OBVIOUS
    <2> SUFFICES ASSUME NEW f, NEW pieces, NEW q PROVE RestAt(f, pieces, q)' = RestAt(f, pieces, q)
      OBVIOUS
    <2>2. MatchAt(q)' = MatchAt(q)
      BY <1>7
    <2>3. Kept(MatchAt(q))' = Kept(MatchAt(q))
      BY <1>1, <2>1, <2>2, Zenon DEF Kept, Piece
    <2>4. Expand(pieces, MatchAt(q))' = Expand(pieces, MatchAt(q))
      BY <2>2
    <2>5. Counted(q, MatchAt(q))' = Counted(q, MatchAt(q))
      BY <2>2
    <2>6. Onward(MatchAt(q))' = Onward(MatchAt(q))
      BY <2>2
    <2>7. Piece(q[1], MatchAt(q).where - q[1])' = Piece(q[1], MatchAt(q).where - q[1])
      BY <2>1, <2>2, Zenon DEF Piece
    <2>8. Piece(q[1], len - q[1])' = Piece(q[1], len - q[1])
      BY <2>1, <1>1, Zenon DEF Piece
    <2> QED BY <1>1, <2>2, <2>3, <2>4, <2>5, <2>6, <2>7, <2>8, Zenon DEF RestAt
  <1>9. \A f, pieces : RestF(f, pieces)' <=> RestF(f, pieces)
    BY <1>6, <1>8, SMTT(30) DEF RestF
  <1>10. \A pieces : First(pieces)' = First(pieces)
    BY <1>1, <1>4, Zenon DEF First, Expand
  <1> QED BY <1>4, <1>5, <1>6, <1>9, <1>10

\* The replacement is compiled as it is meant, and one without & is never made
\* anew.
Compiled == repl = Written(raw) /\ (~IsReplv(repl) => xrepl = repl)

\* What is in the buffer, what comes next and what is behind the place q are all
\* that was promised; and so are the matches counted.
Completes(f, extra, n, q) ==
    /\ q \in Places
    /\ repl_cnt + n + f[q].cnt = f[<<0, FALSE>>].cnt
    /\ ~reused => output \o extra \o f[q].text = f[<<0, FALSE>>].text
ToCome == IF Counts THEN Expand(repl, found) ELSE <<>>
ToCount == IF Counts THEN 1 ELSE 0
Rests(f) ==
    /\ pc = "look" => Completes(f, <<>>, 0, <<j, skip0 = j>>)
    /\ pc = "put"  => Completes(f, ToCome \o Kept(found), ToCount, Onward(found))
    /\ pc = "move" => Completes(f, Kept(found), 0, Onward(found))
    /\ pc = "done" => /\ repl_cnt = f[<<0, FALSE>>].cnt
                      /\ ~reused => output = f[<<0, FALSE>>].text

Kind(f) == f \in [Places -> Results] /\ RestF(f, repl)
Promising == /\ fn = "gsub" => \E f : Kind(f) /\ Rests(f)
             /\ fn = "sub" /\ pc = "done" =>
                    repl_cnt = First(repl).cnt /\ output = First(repl).text

SubstInv == GsubInv /\ Compiled /\ Promising

\* What it says of a function that solves the recursion.
LEMMA KindHas ==
    ASSUME GsubInv, NEW f, Kind(f)
    PROVE  /\ \A q \in Places : f[q] = RestAt(f, repl, q) /\ f[q].text \in Strings /\ f[q].cnt \in Nat
           /\ <<0, FALSE>> \in Places
  <1>1. \A q \in Places : f[q] = RestAt(f, repl, q)
    BY Zenon DEF Kind, RestF
  <1>2. \A q \in Places : f[q] \in Results
    BY DEF Kind
  <1>3. \A r \in Results : r.text \in Strings /\ r.cnt \in Nat
    BY DEF Results
  <1>4. <<0, FALSE>> \in Places
    <2>1. 0 \in 0..len + 1
      BY Numbers
    <2> QED BY <2>1, PlaceIs
  <1> QED BY <1>1, <1>2, <1>3, <1>4

LEMMA KindStays ==
    ASSUME UNCHANGED args, NEW f, Kind(f)
    PROVE  Kind(f)'
  <1>1. UNCHANGED <<input, re>> /\ repl' = repl
    BY DEF args
  <1>2. Places' = Places /\ (RestF(f, repl)' <=> RestF(f, repl))
    <2>1. Places' = Places
      BY <1>1, SamePromise
    <2>2. \A pieces : RestF(f, pieces)' <=> RestF(f, pieces)
      BY <1>1, SamePromise
    <2> QED BY <1>1, <2>1, <2>2
  <1>3. Results' = Results
    BY DEF Results, Strings, Chars
  <1> QED BY <1>2, <1>3 DEF Kind

\* Where the brackets are does not matter.
Regrouped(a, b, c, d, e) ==
    /\ a \o <<>> \o (b \o c \o d \o e) = (a \o b) \o (c \o d) \o e
    /\ a \o (c \o d) \o e = (a \o c) \o d \o e
    /\ a \o (<<>> \o d) \o e = a \o d \o e
    /\ a \o d \o e = (a \o d) \o <<>> \o e
    /\ a \o <<>> \o b = a \o b

LEMMA Brackets ==
    ASSUME NEW a \in Strings, NEW b \in Strings, NEW c \in Strings, NEW d \in Strings, NEW e \in Strings
    PROVE  Regrouped(a, b, c, d, e)
  <1>1. /\ b \o c \in Strings /\ c \o d \in Strings /\ a \o b \in Strings /\ a \o d \in Strings
        /\ d \o e \in Strings /\ (c \o d) \o e \in Strings /\ (b \o c) \o d \in Strings
        /\ c \o (d \o e) \in Strings
    BY Joined
  <1>2. a \o <<>> = a /\ <<>> \o d = d /\ (a \o d) \o <<>> = a \o d
    BY <1>1, Joined
  <1>3. ((b \o c) \o d) \o e = b \o (c \o (d \o e))
    <2>1. Assoc(b \o c, d, e) /\ Assoc(b, c, d \o e)
      BY <1>1, Associative, Zenon
    <2> QED BY <2>1, Zenon DEF Assoc
  <1>4. ((a \o b) \o (c \o d)) \o e = a \o (b \o (c \o (d \o e)))
    <2>1. Assoc(a \o b, c \o d, e) /\ Assoc(a, b, (c \o d) \o e) /\ Assoc(c, d, e)
      BY <1>1, Associative, Zenon
    <2> QED BY <2>1, Zenon DEF Assoc
  <1>5. a \o (c \o d) = (a \o c) \o d
    <2>1. Assoc(a, c, d)
      BY Associative, Zenon
    <2> QED BY <2>1, Zenon DEF Assoc
  <1> QED BY <1>2, <1>3, <1>4, <1>5, Zenon DEF Regrouped

\* The first state.
LEMMA InitSubst == Init => SubstInv
  <1> SUFFICES ASSUME Init PROVE SubstInv
    OBVIOUS
  <1>1. GsubInv
    BY InitGsub
  <1>2. raw \in Strings /\ repl \in Strings /\ GivenRe
    BY <1>1 DEF GsubInv, Texted
  <1>3. Compiled
    BY <1>2, CompiledAsWritten DEF Compiled, Init
  <1>4. fn = "gsub" => \E f : Kind(f) /\ Rests(f)
    <2>1. PICK f : Kind(f)
      BY <1>2, RestExists DEF Kind
    <2>2. Rests(f)
      <3>1. <<j, skip0 = j>> = <<0, FALSE>>
        <4>1. (skip0 = j) = FALSE
          BY DEF Init
        <4> QED BY <4>1 DEF Init
      <3>2. f[<<0, FALSE>>].text \in Strings /\ f[<<0, FALSE>>].cnt \in Nat /\ <<0, FALSE>> \in Places
        BY <2>1, <1>1, KindHas
      <3>3. <<>> \o <<>> \o f[<<0, FALSE>>].text = f[<<0, FALSE>>].text
        <4>1. <<>> \o <<>> = <<>>
          BY EmptyText, Joined
        <4> QED BY <4>1, <3>2, Joined
      <3>4. 0 + 0 + f[<<0, FALSE>>].cnt = f[<<0, FALSE>>].cnt
        BY <3>2
      <3>5. pc = "look" /\ repl_cnt = 0 /\ output = <<>>
        BY DEF Init
      <3> QED BY <3>1, <3>2, <3>3, <3>4, <3>5 DEF Rests, Completes
    <2> QED BY <2>1, <2>2
  <1>5. pc # "done"
    BY DEF Init
  <1> QED BY <1>1, <1>3, <1>4, <1>5 DEF SubstInv, Promising

\* The state after a step of gsub3.
LEMMA Compiling ==
    ASSUME Compiled, UNCHANGED args, ~IsReplv(repl) => xrepl' = xrepl
    PROVE  Compiled'
  <1>1. repl' = repl /\ raw' = raw
    BY DEF args
  <1>2. Written(raw)' = Written(raw)
    BY <1>1
  <1>3. IsReplv(repl)' = IsReplv(repl)
    BY <1>1
  <1> QED BY <1>1, <1>2, <1>3 DEF Compiled

\* The search finds what comes next of what was promised.
LEMMA LookSubst == ASSUME SubstInv, Look PROVE SubstInv'
  <1> DEFINE q == <<j, skip0 = j>>
             m == REmatch(j, j # 0)
             have == m.where - j
  <1>1. /\ fn = "gsub" /\ pc = "look" /\ j <= len
        /\ UNCHANGED <<args, j, repl_cnt, xrepl, guess, limit, reused>>
    BY DEF Look
  <1>2. GsubInv /\ GsubInv' /\ Compiled /\ GivenRe /\ output \in Strings /\ repl \in Strings
    BY LookStep DEF SubstInv, GsubInv, Texted
  <1>3. Compiled'
    BY <1>1, <1>2, Compiling
  <1>4. PICK f : Kind(f) /\ Rests(f)
    BY <1>1 DEF SubstInv, Promising
  <1>5. /\ UNCHANGED <<input, re>> /\ repl' = repl /\ fn' = fn /\ j' = j /\ repl_cnt' = repl_cnt
        /\ reused' = reused
    BY <1>1 DEF args
  <1>6. Kind(f)'
    BY <1>1, <1>4, KindStays
  <1>7. /\ len \in Nat /\ j \in 0..len /\ q \in Places /\ q[1] = j /\ q[2] = (skip0 = j)
        /\ MatchAt(q) = m /\ repl_cnt \in Nat /\ skip0 \in -1..len
    <2>1. len \in Nat /\ j \in 0..len /\ repl_cnt \in Nat /\ skip0 \in -1..len
      BY <1>1, <1>2, Numbers
    <2>2. j \in 0..len + 1 /\ (skip0 = j) \in BOOLEAN
      BY <2>1
    <2>3. q \in Places /\ q[1] = j /\ q[2] = (skip0 = j)
      BY <2>2, PlaceIs
    <2> HIDE DEF q
    <2> QED BY <2>1, <2>3 DEF MatchAt
  <1>8. Completes(f, <<>>, 0, q)
    BY <1>1, <1>4 DEF Rests
  <1>9. f[q] = RestAt(f, repl, q) /\ f[q].text \in Strings /\ f[q].cnt \in Nat
    BY <1>2, <1>4, <1>7, KindHas
  <1> DEFINE total == f[<<0, FALSE>>]
  <1>10. repl_cnt + f[q].cnt = total.cnt /\ (~reused => output \o <<>> \o f[q].text = total.text)
    <2>1. repl_cnt + 0 + f[q].cnt = total.cnt /\ (~reused => output \o <<>> \o f[q].text = total.text)
      BY <1>8, Zenon DEF Completes
    <2> HIDE DEF total, q
    <2>2. repl_cnt + 0 = repl_cnt
      BY <1>7
    <2> QED BY <2>1, <2>2, Zenon
  <1> HIDE DEF total, q
  <1>11. Rests(f)'
    <2>1. CASE m = NoMatch
      <3>1. output' = output \o Piece(j, len - j) /\ pc' = "done"
        BY <2>1 DEF Look
      <3>2. f[q] = [text |-> Piece(j, len - j), cnt |-> 0]
        BY <2>1, <1>7, <1>9 DEF RestAt
      <3>3. f[q].text = Piece(j, len - j) /\ f[q].cnt = 0
        BY <3>2
      <3>4. output \o <<>> \o f[q].text = output'
        <4>1. Regrouped(output, f[q].text, <<>>, <<>>, <<>>)
          BY <1>2, <1>9, EmptyText, Brackets
        <4> QED BY <4>1, <3>1, <3>3 DEF Regrouped
      <3>5. repl_cnt' = total.cnt /\ (~reused' => output' = total.text)
        <4>1. repl_cnt + 0 = repl_cnt
          BY <1>7
        <4> QED BY <4>1, <3>3, <3>4, <1>5, <1>10, Zenon
      <3> QED BY <3>1, <3>5 DEF Rests, total
    <2>2. CASE m # NoMatch
      <3> DEFINE a == Piece(j, have)
                 b == IF Counted(q, m) THEN Expand(repl, m) ELSE <<>>
                 n == IF Counted(q, m) THEN 1 ELSE 0
                 c == Kept(m)
                 r == f[Onward(m)]
      <3>1. /\ output' = output \o Piece(j, have) /\ pc' = "put" /\ found' = m
            /\ skip0' = IF have > 0 THEN -1 ELSE skip0
        BY <2>2 DEF Look
      <3>2. f[q] = [text |-> a \o b \o c \o r.text, cnt |-> r.cnt + n]
        <4>1. ~(q[1] > len \/ MatchAt(q) = NoMatch)
          BY <2>2, <1>7
        <4> QED BY <4>1, <1>7, <1>9, Zenon DEF RestAt
      <3>3. /\ m.where \in j..len /\ m.howmuch \in 0..len /\ m.for \in Strings
            /\ Onward(m) \in Places /\ c \in Strings /\ a \in Strings
        <4>1. q[1] <= len /\ MatchAt(q) # NoMatch
          BY <2>2, <1>1, <1>7
        <4> QED BY <4>1, <1>2, <1>7, OnwardIs
      <3>4. b \in Strings
        <4>1. Expand(repl, m) \in Strings
          <5> HIDE DEF m
          <5> QED BY <1>2, <3>3, ExpandIs, MadeIsText
        <4> QED BY <4>1, EmptyText
      <3>5. r.text \in Strings /\ r.cnt \in Nat
        BY <1>2, <1>4, <3>3, KindHas
      <3>6. Counts' <=> Counted(q, m)
        <4> HIDE DEF m
        <4>1. Counts' <=> (m.howmuch > 0 \/ j # skip0')
          BY <3>1, <1>5 DEF Counts
        <4>2. Counted(q, m) <=> ~(skip0 = j /\ m.where = j /\ m.howmuch = 0)
          BY <1>7 DEF Counted
        <4>3. CASE have > 0
          BY <4>1, <4>2, <4>3, <3>1, <3>3, <1>7
        <4>4. CASE ~(have > 0)
          <5>1. m.where = j /\ skip0' = skip0
            BY <4>4, <3>1, <3>3, <1>7
          <5>2. m.howmuch > 0 <=> m.howmuch # 0
            BY <3>3
          <5> QED BY <4>1, <4>2, <5>1, <5>2
        <4> QED BY <4>3, <4>4
      <3>7. /\ Expand(repl, found)' = Expand(repl, m) /\ Onward(found)' = Onward(m)
            /\ Kept(found)' = Kept(m) /\ Places' = Places
        <4>1. Expand(repl, found)' = Expand(repl, m) /\ Onward(found)' = Onward(m)
          BY <3>1, <1>5
        <4>2. len' = len /\ input' = input /\ found' = m
          BY <3>1, <1>5 DEF len
        <4>3. Kept(found)' = Kept(m)
          <5> HIDE DEF m
          <5> QED BY <4>2, Zenon DEF Kept, Piece
        <4>4. Places' = Places
          BY <1>5, SamePromise
        <4> QED BY <4>1, <4>3, <4>4
      <3>8. ToCome' = b /\ ToCount' = n
        BY <3>6, <3>7, Zenon DEF ToCome, ToCount
      <3>9. f[q].text = a \o b \o c \o r.text /\ f[q].cnt = r.cnt + n /\ n \in Nat
        <4>1. n \in Nat
          OBVIOUS
        <4> DEFINE t == a \o b \o c \o r.text
                   k == r.cnt + n
        <4>2. f[q] = [text |-> t, cnt |-> k]
          BY <3>2
        <4> HIDE DEF t, k, n
        <4>3. f[q].text = t /\ f[q].cnt = k
          BY <4>2
        <4> QED BY <4>1, <4>3 DEF t, k
      <3>10. output \o <<>> \o f[q].text = output' \o (b \o c) \o r.text
        <4> DEFINE t == r.text
        <4>0. t \in Strings
          BY <3>5
        <4> HIDE DEF a, b, c, r, n, t
        <4>1. output \o <<>> \o (a \o b \o c \o t) = (output \o a) \o (b \o c) \o t
          <5>1. output \in Strings /\ a \in Strings /\ b \in Strings /\ c \in Strings
            BY <1>2, <3>3, <3>4
          <5>2. Regrouped(output, a, b, c, t)
            BY <5>1, <4>0, Brackets
          <5> QED BY <5>2 DEF Regrouped
        <4>2. output' = output \o a
          BY <3>1 DEF a
        <4> QED BY <4>1, <4>2, <3>9 DEF t
      <3> HIDE DEF b, c, n, m
      <3>11. repl_cnt + n + r.cnt = total.cnt
        <4> HIDE DEF r, total
        <4> QED BY <3>5, <3>9, <1>7, <1>10
      <3>12. ~reused => output' \o (b \o c) \o r.text = total.text
        BY <3>10, <1>10
      <3>13. Completes(f, ToCome \o Kept(found), ToCount, Onward(found))'
        <4>1. Onward(found)' \in Places'
          BY <3>3, <3>7
        <4>2. (ToCome \o Kept(found))' = b \o c
          BY <3>7, <3>8 DEF c
        <4>3. repl_cnt' + ToCount' + f[Onward(found)'].cnt = f[<<0, FALSE>>].cnt
          BY <3>7, <3>8, <3>11, <1>5 DEF total
        <4>4. ~reused' => output' \o (ToCome \o Kept(found))' \o f[Onward(found)'].text = f[<<0, FALSE>>].text
          BY <4>2, <3>7, <3>12, <1>5 DEF total
        <4> QED BY <4>1, <4>3, <4>4 DEF Completes
      <3> QED BY <3>1, <3>13 DEF Rests
    <2> QED BY <2>1, <2>2
  <1>12. fn' = "gsub"
    BY <1>1, <1>5
  <1> QED BY <1>2, <1>3, <1>6, <1>11, <1>12 DEF SubstInv, Promising

\* Behind the text there is nothing more.
LEMMA LookedAllSubst == ASSUME SubstInv, LookedAll PROVE SubstInv'
  <1> DEFINE q == <<j, skip0 = j>>
  <1>1. /\ fn = "gsub" /\ pc = "look" /\ j > len /\ pc' = "done"
        /\ UNCHANGED <<args, j, skip0, repl_cnt, found, xrepl, output, guess, limit, reused>>
    BY DEF LookedAll
  <1>2. GsubInv /\ GsubInv' /\ Compiled /\ GivenRe /\ output \in Strings
    BY LookedAllStep DEF SubstInv, GsubInv, Texted
  <1>3. Compiled'
    BY <1>1, <1>2, Compiling
  <1>4. PICK f : Kind(f) /\ Rests(f)
    BY <1>1 DEF SubstInv, Promising
  <1>5. Kind(f)'
    BY <1>1, <1>4, KindStays
  <1>6. /\ len \in Nat /\ j = len + 1 /\ q \in Places /\ q[1] = j /\ repl_cnt \in Nat
    <2>1. len \in Nat /\ j \in 0..len + 1 /\ repl_cnt \in Nat
      BY <1>2, Numbers
    <2>2. j \in 0..len + 1 /\ (skip0 = j) \in BOOLEAN
      BY <2>1
    <2>3. q \in Places /\ q[1] = j
      BY <2>2, PlaceIs
    <2> HIDE DEF q
    <2> QED BY <2>1, <2>3, <1>1
  <1>7. Completes(f, <<>>, 0, q)
    BY <1>1, <1>4 DEF Rests
  <1>8. f[q] = RestAt(f, repl, q)
    BY <1>2, <1>4, <1>6, KindHas
  <1> DEFINE total == f[<<0, FALSE>>]
             e == Piece(j, len - j)
  <1>9. repl_cnt + 0 + f[q].cnt = total.cnt /\ (~reused => output \o <<>> \o f[q].text = total.text)
    BY <1>7 DEF Completes
  <1> HIDE DEF total, q
  <1>10. f[q] = [text |-> e, cnt |-> 0]
    BY <1>1, <1>6, <1>8 DEF RestAt
  <1>11. e = <<>>
    <2>1. j + 1 > j + (len - j) /\ j + 1 \in Int /\ j + (len - j) \in Int
      BY <1>6
    <2>2. input \in Seq(Chars)
      BY <1>2 DEF GivenRe, Strings
    <2> QED BY <2>1, <2>2, SubSeqEmpty DEF Piece
  <1> HIDE DEF e
  <1>12. f[q].text = <<>> /\ f[q].cnt = 0
    BY <1>10, <1>11
  <1>13. output \o <<>> \o <<>> = output
    <2>1. output \o <<>> = output
      BY <1>2, Joined
    <2> QED BY <2>1
  <1>14. repl_cnt = total.cnt /\ (~reused => output = total.text)
    <2>1. repl_cnt + 0 + 0 = repl_cnt
      BY <1>6
    <2> QED BY <2>1, <1>9, <1>12, <1>13, Zenon
  <1>15. Rests(f)'
    BY <1>1, <1>14 DEF Rests, total
  <1>16. fn' = "gsub"
    BY <1>1 DEF args
  <1> QED BY <1>2, <1>3, <1>5, <1>15, <1>16 DEF SubstInv, Promising

\* The replacement that is put is the one that was promised, unless the last
\* one was taken for another match.
LEMMA PutSubst == ASSUME SubstInv, Put PROVE SubstInv'
  <1> DEFINE x == ToCome
             n == ToCount
             k == Kept(found)
             o == Onward(found)
  <1>1. /\ pc = "put" /\ pc' = "move" /\ xrepl' = Made
        /\ reused' = (reused \/ (Counts /\ IsReplv(repl) /\ Made # replv_to_repl(repl, found.for)))
        /\ UNCHANGED <<args, j, skip0, found>>
    BY DEF Put
  <1>2. /\ GsubInv /\ GsubInv' /\ Compiled /\ GivenRe /\ output \in Strings /\ repl \in Strings
        /\ xrepl \in Strings /\ found.for \in Strings
    BY PutStep DEF SubstInv, GsubInv, Texted
  <1>3. ~IsReplv(repl) => Made = repl /\ xrepl = repl
    BY <1>2 DEF Made, Compiled
  <1>4. Compiled'
    BY <1>1, <1>2, <1>3, Compiling
  <1>5. fn = "gsub"
    BY <1>1, <1>2 DEF GsubInv, TypeOK, Placed
  <1>6. PICK f : Kind(f) /\ Rests(f)
    BY <1>5 DEF SubstInv, Promising
  <1>7. Kind(f)'
    BY <1>1, <1>6, KindStays
  <1>8. Completes(f, x \o k, n, o)
    BY <1>1, <1>6 DEF Rests
  <1> DEFINE total == f[<<0, FALSE>>]
             t == f[o].text
             c == f[o].cnt
  <1>9. /\ o \in Places /\ repl_cnt + n + c = total.cnt
        /\ ~reused => output \o (x \o k) \o t = total.text
    BY <1>8 DEF Completes
  <1>10. t \in Strings /\ c \in Nat /\ repl_cnt \in Nat
    BY <1>2, <1>6, <1>9, KindHas, Numbers
  <1>11. k \in Strings
    <2>1. len \in Nat /\ found.where \in 0..len /\ found.howmuch \in 0..len /\ found.where + found.howmuch <= len
      BY <1>1, <1>2, Numbers DEF GsubInv, Placed
    <2>2. CASE found.howmuch > 0 \/ found.where = len
      BY <2>2, EmptyText DEF Kept
    <2>3. CASE ~(found.howmuch > 0 \/ found.where = len)
      <3>1. found.where \in Nat /\ 1 \in Nat /\ found.where + 1 <= len
        BY <2>1, <2>3
      <3> QED BY <3>1, <2>3, <1>2, PieceProps DEF Kept
    <2> QED BY <2>2, <2>3
  <1>12. Expand(repl, found) = replv_to_repl(repl, found.for) /\ Expand(repl, found) \in Strings
    BY <1>2, ExpandIs, MadeIsText
  <1>13. k' = k /\ o' = o /\ Places' = Places
    <2>1. UNCHANGED <<input, re>> /\ found' = found /\ len' = len /\ input' = input
      BY <1>1 DEF args, len
    <2>2. Places' = Places
      BY <2>1, SamePromise
    <2>3. k' = k
      BY <2>1, Zenon DEF Kept, Piece
    <2>4. o' = o
      BY <2>1
    <2> QED BY <2>2, <2>3, <2>4
  <1>14. /\ repl_cnt' = repl_cnt + n
         /\ ~reused' => ~reused /\ output' \o k \o t = output \o (x \o k) \o t
    <2>1. CASE Counts
      <3>1. repl_cnt' = repl_cnt + 1 /\ output' = output \o Made
        BY <2>1 DEF Put
      <3>2. x = Expand(repl, found) /\ n = 1
        BY <2>1 DEF ToCome, ToCount
      <3>3. ASSUME ~reused' PROVE ~reused /\ Made = x
        <4>1. ~reused /\ (IsReplv(repl) => Made = replv_to_repl(repl, found.for))
          BY <3>3, <2>1, <1>1
        <4>2. ~IsReplv(repl) => replv_to_repl(repl, found.for) = repl
          BY <1>2, PlainReplacement
        <4> QED BY <4>1, <4>2, <3>2, <1>3, <1>12
      <3> HIDE DEF x, n, k, t
      <3>4. Regrouped(output, <<>>, x, k, t)
        BY <1>2, <1>10, <1>11, <1>12, <3>2, EmptyText, Brackets
      <3>5. output \o (x \o k) \o t = (output \o x) \o k \o t
        BY <3>4 DEF Regrouped
      <3> QED BY <3>1, <3>2, <3>3, <3>5
    <2>2. CASE ~Counts
      <3>1. repl_cnt' = repl_cnt /\ output' = output
        BY <2>2 DEF Put
      <3>3. x = <<>> /\ n = 0
        BY <2>2 DEF ToCome, ToCount
      <3>4. ~reused' => ~reused
        BY <2>2, <1>1
      <3> HIDE DEF x, n, k, t
      <3>5. Regrouped(output, <<>>, <<>>, k, t)
        BY <1>2, <1>10, <1>11, EmptyText, Brackets
      <3>6. output \o (x \o k) \o t = output \o k \o t
        BY <3>3, <3>5 DEF Regrouped
      <3>7. repl_cnt' = repl_cnt + n
        BY <3>1, <3>3, <1>10
      <3> QED BY <3>1, <3>4, <3>6, <3>7
    <2> QED BY <2>1, <2>2
  <1>15. Completes(f, Kept(found), 0, Onward(found))'
    <2>1. n \in Nat
      BY DEF ToCount
    <2>2. o' \in Places' /\ f[o'].cnt = c /\ f[o'].text = t
      BY <1>9, <1>13
    <2>3. repl_cnt' + 0 + c = total.cnt
      <3> HIDE DEF n, c, total
      <3> QED BY <2>1, <1>9, <1>10, <1>14
    <2>4. ~reused' => output' \o k' \o t = total.text
      BY <1>9, <1>13, <1>14
    <2> QED BY <2>2, <2>3, <2>4, Zenon DEF Completes
  <1>16. Rests(f)'
    BY <1>1, <1>15 DEF Rests
  <1>17. fn' = "gsub"
    BY <1>1, <1>5 DEF args
  <1> QED BY <1>2, <1>4, <1>7, <1>16, <1>17 DEF SubstInv, Promising

\* Moving on keeps the character behind an empty match.
LEMMA MoveSubst == ASSUME SubstInv, Move PROVE SubstInv'
  <1> DEFINE k == Kept(found)
             o == Onward(found)
  <1>1. /\ pc = "move" /\ pc' = "look" /\ j' = Behind(found)
        /\ skip0' = (IF found.howmuch > 0 THEN Behind(found) ELSE -1)
        /\ output' = IF found.howmuch = 0 /\ found.where < len THEN output \o Piece(found.where, 1) ELSE output
        /\ UNCHANGED <<args, repl_cnt, found, xrepl, guess, limit, reused>>
    BY DEF Move
  <1>2. GsubInv /\ GsubInv' /\ Compiled /\ GivenRe /\ output \in Strings
    BY MoveStep DEF SubstInv, GsubInv, Texted
  <1>3. Compiled'
    BY <1>1, <1>2, Compiling
  <1>4. fn = "gsub"
    BY <1>1, <1>2 DEF GsubInv, TypeOK, Placed
  <1>5. PICK f : Kind(f) /\ Rests(f)
    BY <1>4 DEF SubstInv, Promising
  <1>6. Kind(f)'
    BY <1>1, <1>5, KindStays
  <1>7. Completes(f, k, 0, o)
    BY <1>1, <1>5 DEF Rests
  <1> DEFINE total == f[<<0, FALSE>>]
             t == f[o].text
             c == f[o].cnt
  <1>8. /\ o \in Places /\ repl_cnt + 0 + c = total.cnt
        /\ ~reused => output \o k \o t = total.text
    BY <1>7 DEF Completes
  <1>9. t \in Strings /\ c \in Nat
    BY <1>2, <1>5, <1>8, KindHas
  <1>10. len \in Nat /\ found.where \in 0..len /\ found.howmuch \in 0..len /\ found.where + found.howmuch <= len
    BY <1>1, <1>2, Numbers DEF GsubInv, Placed
  <1>11. k \in Strings /\ output' = output \o k
    <2>1. CASE found.howmuch > 0 \/ found.where = len
      <3>1. k = <<>> /\ output' = output
        BY <2>1, <1>1, <1>10 DEF Kept
      <3> QED BY <3>1, <1>2, EmptyText, Joined
    <2>2. CASE ~(found.howmuch > 0 \/ found.where = len)
      <3>1. found.where \in Nat /\ 1 \in Nat /\ found.where + 1 <= len /\ found.howmuch = 0 /\ found.where < len
        BY <1>10, <2>2
      <3>2. k = Piece(found.where, 1) /\ k \in Strings
        BY <3>1, <2>2, <1>2, PieceProps DEF Kept
      <3> QED BY <3>1, <3>2, <1>1
    <2> QED BY <2>1, <2>2
  <1>12. o = <<j', skip0' = j'>>
    <2>1. CASE found.howmuch > 0
      <3>1. o = <<found.where + found.howmuch, TRUE>> /\ j' = found.where + found.howmuch /\ skip0' = j'
        BY <2>1, <1>1 DEF Onward, Behind
      <3>2. (skip0' = j') = TRUE
        BY <3>1
      <3> QED BY <3>1, <3>2
    <2>2. CASE ~(found.howmuch > 0)
      <3>1. o = <<found.where + 1, FALSE>> /\ j' = found.where + 1 /\ skip0' = -1
        BY <2>2, <1>1 DEF Onward, Behind
      <3>2. (skip0' = j') = FALSE
        BY <3>1, <1>10
      <3> QED BY <3>1, <3>2
    <2> QED BY <2>1, <2>2
  <1>13. Places' = Places /\ repl_cnt' = repl_cnt /\ reused' = reused
    <2>1. UNCHANGED <<input, re>>
      BY <1>1 DEF args
    <2> QED BY <2>1, <1>1, SamePromise
  <1>14. output' \o <<>> \o t = output \o k \o t
    <2> HIDE DEF k, t
    <2>1. Regrouped(output, <<>>, <<>>, k, t)
      BY <1>2, <1>9, <1>11, EmptyText, Brackets
    <2> QED BY <2>1, <1>11 DEF Regrouped
  <1>15. Completes(f, <<>>, 0, <<j, skip0 = j>>)'
    <2>1. <<j', skip0' = j'>> = o
      BY <1>12
    <2> HIDE DEF o
    <2>2. <<j', skip0' = j'>> \in Places' /\ f[<<j', skip0' = j'>>].cnt = c /\ f[<<j', skip0' = j'>>].text = t
      BY <2>1, <1>8, <1>13
    <2>3. repl_cnt' + 0 + c = total.cnt /\ (~reused' => output' \o <<>> \o t = total.text)
      BY <1>8, <1>13, <1>14
    <2> QED BY <2>2, <2>3, Zenon DEF Completes
  <1>16. Rests(f)'
    BY <1>1, <1>15 DEF Rests
  <1>17. fn' = "gsub"
    BY <1>1, <1>4 DEF args
  <1> QED BY <1>2, <1>3, <1>6, <1>16, <1>17 DEF SubstInv, Promising

\* bi_sub replaces the first match.
LEMMA SubSubst == ASSUME SubstInv, bi_sub PROVE SubstInv'
  <1> DEFINE m == REmatch(0, FALSE)
             back == m.where + m.howmuch
  <1>1. /\ fn = "sub" /\ pc = "look" /\ pc' = "done"
        /\ UNCHANGED <<args, j, skip0, found, xrepl, guess, reused>>
    BY DEF bi_sub
  <1>2. GsubInv /\ GsubInv' /\ Compiled
    BY SubStep DEF SubstInv
  <1>3. Compiled'
    BY <1>1, <1>2, Compiling
  <1>4. repl_cnt = 0
    BY <1>1, <1>2, Numbers DEF GsubInv, Placed
  <1>5. repl_cnt' = First(repl).cnt /\ output' = First(repl).text
    <2>1. CASE m = NoMatch
      <3>1. output' = input /\ repl_cnt' = repl_cnt
        BY <2>1 DEF bi_sub
      <3>2. First(repl) = [text |-> input, cnt |-> 0]
        BY <2>1 DEF First
      <3> QED BY <3>1, <3>2, <1>4
    <2>2. CASE m # NoMatch
      <3> DEFINE a == Piece(0, m.where) \o Expand(repl, m) \o Piece(back, len - back)
      <3>1. First(repl) = [text |-> a, cnt |-> 1]
        BY <2>2 DEF First
      <3>2. output' = Piece(0, m.where) \o replv_to_repl(repl, m.for) \o Piece(back, len - back) /\ repl_cnt' = 1
        BY <2>2 DEF bi_sub
      <3>3. Expand(repl, m) = replv_to_repl(repl, m.for)
        BY ExpandIs
      <3>4. output' = a
        BY <3>2, <3>3
      <3>5. repl_cnt' = 1
        BY <3>2
      <3> HIDE DEF a
      <3>6. First(repl).text = a /\ First(repl).cnt = 1
        BY <3>1
      <3> HIDE DEF m, back
      <3> QED BY <3>4, <3>5, <3>6, Zenon
    <2> QED BY <2>1, <2>2
  <1>6. First(repl)' = First(repl) /\ fn' = fn
    <2>1. UNCHANGED <<input, re>> /\ repl' = repl /\ fn' = fn
      BY <1>1 DEF args
    <2>2. \A pieces : First(pieces)' = First(pieces)
      BY <2>1, SamePromise
    <2> QED BY <2>1, <2>2
  <1>7. Promising'
    BY <1>1, <1>5, <1>6 DEF Promising
  <1> QED BY <1>2, <1>3, <1>7 DEF SubstInv

\* The result is the text with its matches replaced as the replacement is
\* written, and the number returned that of the matches.
THEOREM Substitution == Spec => []SubstitutesAsWritten
  <1>1. SubstInv /\ [Next]_vars => SubstInv'
    <2> SUFFICES ASSUME SubstInv, [Next]_vars PROVE SubstInv'
      OBVIOUS
    <2>1. CASE Look
      BY <2>1, LookSubst
    <2>2. CASE LookedAll
      BY <2>2, LookedAllSubst
    <2>3. CASE Put
      BY <2>3, PutSubst
    <2>4. CASE Move
      BY <2>4, MoveSubst
    <2>5. CASE bi_sub
      BY <2>5, SubSubst
    <2>6. CASE UNCHANGED vars
      <3>1. /\ UNCHANGED args /\ UNCHANGED <<input, re>> /\ found' = found /\ len' = len /\ input' = input
            /\ repl' = repl /\ fn' = fn /\ pc' = pc /\ j' = j /\ skip0' = skip0 /\ repl_cnt' = repl_cnt
            /\ xrepl' = xrepl /\ output' = output /\ reused' = reused
        BY <2>6 DEF vars, args, len
      <3>2. GsubInv'
        BY <2>6 DEF SubstInv, GsubInv, TypeOK, Texted, GivenRe, Placed, Covered, Left, len, used, vars, args
      <3>3. Compiled'
        BY <3>1, Compiling DEF SubstInv
      <3>4. Promising'
        <4>1. CASE fn = "gsub"
          <5>1. PICK f : Kind(f) /\ Rests(f)
            BY <4>1 DEF SubstInv, Promising
          <5>2. Kind(f)'
            BY <3>1, <5>1, KindStays
          <5>3. Kept(found)' = Kept(found)
            BY <3>1, Zenon DEF Kept, Piece
          <5>4. Places' = Places
            BY <3>1, SamePromise
          <5>5. Counts' = Counts
            BY <3>1 DEF Counts
          <5>6. ToCome' = ToCome /\ ToCount' = ToCount /\ Onward(found)' = Onward(found)
            BY <3>1, <5>5, Zenon DEF ToCome, ToCount, Expand
          <5>7. Rests(f)'
            BY <3>1, <5>1, <5>3, <5>4, <5>6, Zenon DEF Rests, Completes
          <5> QED BY <4>1, <3>1, <5>2, <5>7 DEF Promising
        <4>2. CASE fn # "gsub"
          <5>1. \A pieces : First(pieces)' = First(pieces)
            BY <3>1, SamePromise
          <5>2. First(repl)' = First(repl)
            BY <3>1, <5>1
          <5> QED BY <4>2, <3>1, <5>2 DEF SubstInv, Promising
        <4> QED BY <4>1, <4>2
      <3> QED BY <3>2, <3>3, <3>4 DEF SubstInv
    <2> QED BY <2>1, <2>2, <2>3, <2>4, <2>5, <2>6 DEF Next, gsub3
  <1>2. SubstInv => SubstitutesAsWritten
    <2> SUFFICES ASSUME SubstInv, pc = "done"
                 PROVE  repl_cnt = Promised.cnt /\ (~reused => output = Promised.text)
      BY DEF SubstitutesAsWritten
    <2>1. GivenRe /\ repl = Written(raw) /\ fn \in {"sub", "gsub"}
      BY DEF SubstInv, GsubInv, Texted, TypeOK, Compiled
    <2>2. CASE fn = "gsub"
      <3>1. PICK f : Kind(f) /\ Rests(f)
        BY <2>2 DEF SubstInv, Promising
      <3>2. Replaced(repl) = f[<<0, FALSE>>]
        BY <2>1, <3>1, ReplacedIs DEF Kind
      <3>3. Promised = f[<<0, FALSE>>]
        BY <2>1, <2>2, <3>2 DEF Promised
      <3> QED BY <3>1, <3>3 DEF Rests
    <2>3. CASE fn = "sub"
      <3>1. Promised = First(repl)
        BY <2>1, <2>3 DEF Promised
      <3> QED BY <2>3, <3>1 DEF SubstInv, Promising
    <2> QED BY <2>1, <2>2, <2>3
  <1> QED BY <1>1, <1>2, InitSubst, PTL DEF Spec
=============================================================================
