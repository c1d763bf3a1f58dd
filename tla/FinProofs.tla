------------------------------ MODULE FinProofs ------------------------------
(***************************************************************************)
(* Proofs about Fin: whatever the sizes of the buffer and of a line of     *)
(* fgets, the buffer is consistent, and the records are those of the text. *)
(***************************************************************************)
EXTENDS Fin, Facts

-----------------------------------------------------------------------------
(* The inductive invariant.                                                *)

\* How much of the text read(2) has delivered, what of that is in the buffer
\* and not returned, and what was returned.
Pos == Len(file) - Len(input)
Given == Pos - Len(Kept)

\* The buffer is the part of the text in front of what is still to be read.
Placed ==
    /\ file \in Files /\ file \in Seq(Byte) /\ data \in Seq(Byte)
    /\ bufp \in 0..Len(data) /\ Pos \in 0..Len(file) /\ Given \in 0..Pos
    /\ input = Window(file, Pos, Len(file)) /\ Kept = Window(file, Given, Pos)

Sized ==
    /\ Len(data) <= size /\ \E m \in Nat \ {0} : size = m * JUMPSZ
    /\ flags \subseteq {"START", "FIN", "EOF"}
    /\ pc \in {"idle", "restart", "retry", "line", "exit"}
    /\ fault \in {"none", "trim", "peek", "bol", "nul"}
    /\ FullBeforeEof
    /\ pc = "line" => Len(data) + BUFFSZ <= size

\* What the flags, and the place in FINgets, say of the buffer.
Flagged ==
    /\ lines \in BOOLEAN /\ rs \in Seps
    /\ AtEof => input = <<>>
    /\ lines => pc # "retry" /\ (pc # "line" => AtLimit)
    /\ pc = "line" => lines /\ data # <<>> /\ \A i \in 1..Len(data) : data[i] # NL
    /\ pc = "retry" => ~AtLimit
    /\ ~lines /\ "START" \in flags => data = <<>> /\ input = file
    /\ ~lines /\ ("FIN" \in flags \/ bufp > 0) => Given > 0
    /\ pc = "idle" /\ out = <<"eof">> => AtLimit /\ AtEof

FinInv == Placed /\ Sized /\ Flagged

\* Nothing is done after a read that failed.
Dead == out = <<"read error">> => pc = "exit"

-----------------------------------------------------------------------------
(* Parts of the text.                                                      *)

Least(m, n) == IF m < n THEN m ELSE n

\* The length and the bytes of a part.
LEMMA Part ==
    ASSUME NEW f \in Seq(Byte), NEW a \in Nat, NEW b \in Nat, a <= b, b <= Len(f)
    PROVE  /\ Window(f, a, b) \in Seq(Byte) /\ Len(Window(f, a, b)) = b - a
           /\ Window(f, a, b) = <<>> <=> a = b
           /\ \A i \in 1..b - a : Window(f, a, b)[i] = f[a + i]
  <1>1. Window(f, a, b) \in Seq(Byte)
    BY WindowProps
  <1>2. Len(Window(f, a, b)) = b - a
    BY WindowProps
  <1>3. Window(f, a, b) = <<>> <=> a = b
    BY WindowProps
  <1>4. \A i \in 1..b - a : Window(f, a, b)[i] = f[a + i]
    BY WindowProps
  <1> QED BY <1>1, <1>2, <1>3, <1>4

\* Two parts that meet.
LEMMA Join ==
    ASSUME NEW f \in Seq(Byte), NEW a \in Nat, NEW b \in Nat, NEW c \in Nat, a <= b, b <= c, c <= Len(f)
    PROVE  Window(f, a, b) \o Window(f, b, c) = Window(f, a, c)
  BY WindowJoin

\* What Take and Drop make of a part of a text.
LEMMA TakeDrop ==
    ASSUME NEW f \in Seq(Byte), NEW a \in Nat, NEW b \in Nat, a <= b, b <= Len(f), NEW k \in Nat
    PROVE  /\ Take(Window(f, a, b), k) = Window(f, a, a + Least(k, b - a))
           /\ Drop(Window(f, a, b), k) = Window(f, a + Least(k, b - a), b)
  <1> DEFINE t == Window(f, a, b)
             d == Least(k, b - a)
  <1>1. t \in Seq(Byte)
    BY WindowProps
  <1>2. Len(t) = b - a
    BY WindowProps
  <1>3. d \in Nat /\ d <= b - a /\ a + d <= b /\ a + d \in Nat /\ b - a \in Nat
    BY DEF Least
  <1>4. Window(t, 0, d) = Window(f, a + 0, a + d)
    BY <1>3, WindowOfWindow
  <1>5. Window(t, d, b - a) = Window(f, a + d, a + (b - a))
    BY <1>3, WindowOfWindow
  <1> HIDE DEF t
  <1>6. Take(t, k) = Window(t, 0, d)
    BY <1>2 DEF Take, Window, Least
  <1>7. Drop(t, k) = Window(f, a + d, b)
    <2>1. CASE k <= b - a
      <3>1. d = k
        BY <2>1, <1>3 DEF Least
      <3>2. Drop(t, k) = Window(t, d, b - a)
        BY <3>1, <1>2 DEF Drop, Window
      <3> QED BY <1>3, <1>5, <3>2
    <2>2. CASE ~(k <= b - a)
      <3>1. d = b - a /\ a + d = b
        BY <2>2, <1>3 DEF Least
      <3>2. Drop(t, k) = <<>>
        BY <1>2, <1>3, <2>2, SubSeqEmpty DEF Drop
      <3>3. Window(f, b, b) = <<>>
        BY WindowProps
      <3> QED BY <3>1, <3>2, <3>3
    <2> QED BY <2>1, <2>2
  <1>8. a + 0 = a
    OBVIOUS
  <1> QED BY <1>4, <1>6, <1>7, <1>8 DEF t, d

\* How long the parts are, and what they make together.
LEMMA Parts ==
    ASSUME Placed
    PROVE  /\ Len(file) \in Nat /\ Pos \in Nat /\ Given \in Nat /\ Given <= Pos /\ Pos <= Len(file)
           /\ input \in Seq(Byte) /\ Len(input) = Len(file) - Pos
           /\ Kept \in Seq(Byte) /\ Len(Kept) = Pos - Given
           /\ Kept \o input = Window(file, Given, Len(file))
           /\ Len(Kept) + Len(input) = Len(file) <=> Given = 0
           /\ Text \in Seq(Byte) /\ Len(Text) = Len(data) - bufp
           /\ \A i \in 1..Len(Text) : Text[i] = data[bufp + i]
  <1>1. /\ file \in Seq(Byte) /\ data \in Seq(Byte) /\ Len(file) \in Nat /\ Len(data) \in Nat
        /\ Pos \in Nat /\ Given \in Nat /\ Given <= Pos /\ Pos <= Len(file)
        /\ bufp \in Nat /\ bufp <= Len(data) /\ Pos <= Len(file) /\ Given <= Len(file)
    BY DEF Placed
  <1>2. input = Window(file, Pos, Len(file)) /\ Kept = Window(file, Given, Pos)
    BY DEF Placed
  <1> DEFINE l == Len(file)
             k == Len(data)
             w == Window(data, bufp, k)
  <1>3. Text = w
    BY DEF Text, Drop, Window
  <1> HIDE DEF Text, Placed, Kept, Pos, Given, l, k
  <1>4. l \in Nat /\ Pos <= l /\ l <= Len(file) /\ k \in Nat /\ bufp <= k /\ k <= Len(data)
    BY <1>1 DEF l, k
  <1>5. /\ Window(file, Pos, l) \in Seq(Byte) /\ Len(Window(file, Pos, l)) = l - Pos
    BY <1>1, <1>4, Part
  <1>6. /\ Window(file, Given, Pos) \in Seq(Byte) /\ Len(Window(file, Given, Pos)) = Pos - Given
    BY <1>1, <1>4, Part
  <1>7. Window(file, Given, Pos) \o Window(file, Pos, l) = Window(file, Given, l)
    BY ZenonT(60), <1>1, <1>4, Join
  <1>8. w \in Seq(Byte) /\ Len(w) = k - bufp
    BY <1>1, <1>4, Part
  <1>9. \A i \in 1..k - bufp : w[i] = data[bufp + i]
    <2>1. data \in Seq(Byte) /\ bufp \in Nat
      BY <1>1
    <2> QED BY <1>4, <2>1, Part
  <1> HIDE DEF w
  <1>10. Text \in Seq(Byte) /\ Len(Text) = Len(data) - bufp /\ \A i \in 1..Len(Text) : Text[i] = data[bufp + i]
    BY <1>3, <1>8, <1>9 DEF k
  <1>11. input \in Seq(Byte) /\ Len(input) = Len(file) - Pos /\ Kept \in Seq(Byte) /\ Len(Kept) = Pos - Given
    BY <1>2, <1>5, <1>6 DEF l
  <1>12. Kept \o input = Window(file, Given, Len(file))
    BY <1>2, <1>7 DEF l
  <1>13. Len(Kept) + Len(input) = Len(file) <=> Given = 0
    <2>1. Len(Kept) + Len(input) = Len(file) - Given
      BY <1>1, <1>11
    <2> QED BY <1>1, <2>1
  <1> QED BY <1>1, <1>10, <1>11, <1>12, <1>13

\* A step puts the buffer behind other parts of the text.
LEMMA PlacedAt ==
    ASSUME Placed, file' = file, data' \in Seq(Byte), bufp' \in 0..Len(data'),
           NEW g \in Nat, NEW p \in Nat, g <= p, p <= Len(file),
           input' = Window(file, p, Len(file)), Kept' = Window(file, g, p)
    PROVE  /\ Placed' /\ Pos' = p /\ Given' = g
           /\ (Kept \o input)' = Window(file, g, Len(file))
           /\ (Len(Kept) + Len(input) = Len(file))' <=> g = 0
           /\ Len(input') = Len(file) - p /\ input' \in Seq(Byte)
           /\ input' = <<>> <=> p = Len(file)
           /\ Kept' = <<>> <=> g = p
  <1> DEFINE l == Len(file)
             i == Window(file, p, l)
             k == Window(file, g, p)
  <1>1. file \in Seq(Byte) /\ file \in Files /\ l \in Nat /\ l <= Len(file) /\ p <= l
    BY DEF Placed
  <1>2. input' = i /\ Kept' = k
    OBVIOUS
  <1> HIDE DEF l, Kept
  <1>3. i \in Seq(Byte) /\ Len(i) = l - p /\ (i = <<>> <=> p = l)
    BY <1>1, Part
  <1>4. k \in Seq(Byte) /\ Len(k) = p - g /\ (k = <<>> <=> g = p)
    BY ZenonT(60), <1>1, Part
  <1>5. k \o i = Window(file, g, l)
    BY <1>1, Join
  <1> HIDE DEF i, k
  <1>6. Len(file') - Len(input') = p /\ l = Len(file)
    BY <1>1, <1>2, <1>3 DEF l
  <1>7. Pos' = p
    BY <1>6 DEF Pos
  <1>8. Pos' - Len(Kept') = g
    BY <1>2, <1>4, <1>7
  <1>9. Given' = g
    BY <1>8 DEF Given
  <1>10. Placed'
    BY <1>1, <1>6, <1>7, <1>9 DEF Placed
  <1>11. Kept' \o input' = Window(file, g, Len(file))
    BY <1>2, <1>5, <1>6
  <1>12. Len(Kept') + Len(input') = Len(file') <=> g = 0
    <2>1. Len(Kept') + Len(input') = l - g
      BY <1>1, <1>2, <1>3, <1>4
    <2> QED BY <1>1, <1>6, <2>1
  <1>13. /\ (Kept \o input)' = Window(file, g, Len(file))
         /\ (Len(Kept) + Len(input) = Len(file))' <=> g = 0
    BY <1>11, <1>12
  <1>14. /\ Len(input') = Len(file) - p /\ input' \in Seq(Byte)
         /\ input' = <<>> <=> p = Len(file)
         /\ Kept' = <<>> <=> g = p
    BY <1>2, <1>3, <1>4, <1>6
  <1> QED BY <1>7, <1>9, <1>10, <1>13, <1>14

\* A step that leaves the buffer alone.
LEMMA PlacedSame ==
    ASSUME Placed, UNCHANGED <<file, input, data, bufp>>, Kept' = Kept
    PROVE  Placed' /\ Pos' = Pos /\ Given' = Given
  BY DEF Placed, Pos, Given

\* What is assumed of the separators, of the buffer and of the text.
LEMMA OneSeparator ==
    ASSUME Placed, Kept = Text, rs \in Seps
    PROVE  SeparatorsIn(rs, Text, Text \o input)
  <1> DEFINE i == Given + 1
  <1>1. Text = SubSeq(file, i, Pos) /\ Text \o input = SubSeq(file, i, Len(file))
    BY Parts DEF Window, Placed
  <1>2. file \in Files /\ i \in 1..Len(file) + 1 /\ Pos \in i - 1..Len(file)
    BY Parts DEF Placed
  <1> HIDE DEF i
  <1>3. SeparatorsIn(rs, SubSeq(file, i, Pos), SubSeq(file, i, Len(file)))
    BY <1>2, MatchAssumption DEF Separators
  <1> QED BY <1>1, <1>3

\* The size of the buffer grows by JUMPSZ.
LEMMA Multiple ==
    ASSUME NEW n, \E m \in Nat \ {0} : n = m * JUMPSZ
    PROVE  /\ n \in Nat /\ n >= JUMPSZ
           /\ \E m \in Nat \ {0} : n + JUMPSZ = m * JUMPSZ
  <1>1. PICK m \in Nat \ {0} : n = m * JUMPSZ
    OBVIOUS
  <1>2. JUMPSZ \in Nat \ {0}
    BY FinAssumption
  <1>3. (m + 1) * JUMPSZ = m * JUMPSZ + JUMPSZ /\ m * JUMPSZ \in Nat /\ m * JUMPSZ >= JUMPSZ
    BY <1>2
  <1>4. m + 1 \in Nat \ {0} /\ n + JUMPSZ = (m + 1) * JUMPSZ
    BY <1>1, <1>3
  <1> QED BY <1>1, <1>3, <1>4

\* The size is a multiple of JUMPSZ.
LEMMA NoRemainder ==
    ASSUME NEW n, \E m \in Nat \ {0} : n = m * JUMPSZ
    PROVE  n % JUMPSZ = 0
  <1>1. PICK m \in Nat \ {0} : n = m * JUMPSZ
    OBVIOUS
  <1>2. JUMPSZ \in Nat \ {0}
    BY FinAssumption
  <1>3. (m * JUMPSZ) % JUMPSZ = 0
    BY <1>2
  <1> QED BY <1>1, <1>3

-----------------------------------------------------------------------------
(* The steps that do not move the buffer in the text.  Each of them keeps  *)
(* the invariant and is a step of AwkInput, or none.                       *)

\* As long as the buffer's place is the same AwkInput sees nothing.
LEMMA Unseen ==
    ASSUME Placed, file' = file, UNCHANGED <<lines, rs, out>>,
           (Kept \o input)' = Window(file, Given, Len(file)),
           (Len(Kept) + Len(input) = Len(file))' <=> Given = 0,
           (lines \/ "START" \notin flags)' <=> (lines \/ "START" \notin flags)
    PROVE  UNCHANGED Input!vars
  <1>1. (Kept \o input)' = Kept \o input
        /\ ((Len(Kept) + Len(input) = Len(file))' <=> Len(Kept) + Len(input) = Len(file))
    BY Parts
  <1> QED BY <1>1 DEF Input!vars

\* A call, and the look at what is in the buffer.
LEMMA StepCalls ==
    ASSUME FinInv, Call \/ Available
    PROVE  FinInv' /\ UNCHANGED Input!vars
  <1>1. /\ pc # "line" /\ pc' \in {"restart", "retry"} /\ (pc' = "retry" => ~AtLimit)
        /\ (pc' = "retry" => pc = "restart")
        /\ UNCHANGED <<input, data, bufp, size, flags, out, file, lines, rs, fault>>
    BY DEF Call, Available, Restart, Fine
  <1>2. Kept' = Kept
    BY <1>1 DEF Kept, Text
  <1>3. Placed'
    BY <1>1, <1>2, PlacedSame DEF FinInv
  <1>4. Given' = Given
    BY <1>1, <1>2, PlacedSame DEF FinInv
  <1>5. Sized'
    BY <1>1 DEF FinInv, Sized, FullBeforeEof, AtEof
  <1>6. Flagged'
    BY <1>1, <1>4 DEF FinInv, Flagged, AtLimit, AtEof
  <1>7. UNCHANGED Input!vars
    BY <1>1, <1>2 DEF Input!vars
  <1> QED BY <1>3, <1>5, <1>6, <1>7 DEF FinInv

\* An assignment to RS.
LEMMA StepAssigns ==
    ASSUME FinInv, NEW w \in Seps, AssignRS(w)
    PROVE  FinInv' /\ Input!AssignRS(w)
  <1>1. /\ rs' = w
        /\ UNCHANGED <<file, input, lines, data, bufp, size, flags, pc, out, fault>>
    BY DEF AssignRS
  <1>2. Kept' = Kept
    BY <1>1 DEF Kept, Text
  <1>3. Placed'
    BY <1>1, <1>2, PlacedSame DEF FinInv
  <1>4. Given' = Given
    BY <1>1, <1>2, PlacedSame DEF FinInv
  <1>5. Sized'
    BY <1>1 DEF FinInv, Sized, FullBeforeEof, AtEof
  <1>6. Flagged'
    BY <1>1, <1>4 DEF FinInv, Flagged, AtLimit, AtEof
  <1>7. Input!AssignRS(w)
    BY <1>1, <1>2 DEF Input!AssignRS
  <1> QED BY <1>3, <1>5, <1>6, <1>7 DEF FinInv

\* A fault ends the model.
LEMMA StepFaults ==
    ASSUME FinInv, NEW f \in {"trim", "peek", "bol", "nul"}, Fault(f)
    PROVE  FinInv' /\ UNCHANGED Input!vars
  <1>1. fault' = f /\ UNCHANGED <<file, input, lines, data, bufp, size, flags, rs, pc, out>>
    BY DEF Fault
  <1>2. Kept' = Kept
    BY <1>1 DEF Kept, Text
  <1>3. Placed'
    BY <1>1, <1>2, PlacedSame DEF FinInv
  <1>4. Given' = Given
    BY <1>1, <1>2, PlacedSame DEF FinInv
  <1>5. Sized'
    BY <1>1 DEF FinInv, Sized, FullBeforeEof, AtEof
  <1>6. Flagged'
    BY <1>1, <1>4 DEF FinInv, Flagged, AtLimit, AtEof
  <1>7. UNCHANGED Input!vars
    BY <1>1, <1>2 DEF Input!vars
  <1> QED BY <1>3, <1>5, <1>6, <1>7 DEF FinInv

\* At the end of the input.
LEMMA StepEnds ==
    ASSUME FinInv, EndOfFile
    PROVE  FinInv' /\ Input!End
  <1>1. /\ pc = "restart" /\ pc' = "idle" /\ out' = <<"eof">> /\ AtLimit /\ AtEof
        /\ UNCHANGED <<input, data, bufp, size, flags, file, lines, rs, fault>>
    BY DEF EndOfFile, Restart, Return, Fine
  <1>2. Kept' = Kept
    BY <1>1 DEF Kept, Text
  <1>3. Placed'
    BY <1>1, <1>2, PlacedSame DEF FinInv
  <1>4. Given' = Given
    BY <1>1, <1>2, PlacedSame DEF FinInv
  <1>5. Sized'
    BY <1>1 DEF FinInv, Sized, FullBeforeEof, AtEof
  <1>6. Flagged'
    BY <1>1, <1>4 DEF FinInv, Flagged, AtLimit, AtEof
  <1>7. Kept \o input = <<>>
    <2>1. Placed /\ input = <<>> /\ Text \in Seq(Byte) /\ Len(Text) = 0
      BY <1>1, Parts DEF FinInv, Flagged, AtLimit
    <2>2. Kept = <<>>
      BY <1>1, <2>1, EmptySeq DEF Kept
    <2> QED BY <2>1, <2>2, ConcatEmptySeq
  <1>8. Input!End
    BY <1>1, <1>2, <1>7 DEF Input!End
  <1> QED BY <1>3, <1>5, <1>6, <1>8 DEF FinInv

\* The buffer, of which nothing is left, is given up.
LEMMA Emptied ==
    ASSUME FinInv, pc # "line", AtLimit, pc' # "line", data' = <<>>, bufp' = 0, UNCHANGED <<file, input>>
    PROVE  /\ Placed' /\ Given' = Given
           /\ (Kept \o input)' = Window(file, Given, Len(file))
           /\ (Len(Kept) + Len(input) = Len(file))' <=> Given = 0
  <1>1. /\ Placed /\ Pos \in Nat /\ Given \in Nat /\ Given <= Pos /\ Pos <= Len(file)
        /\ Len(Kept) = Pos - Given /\ Len(Text) = Len(data) - bufp /\ file \in Seq(Byte)
        /\ Len(data) \in Nat
    BY Parts DEF FinInv, Placed
  <1>2. Given = Pos
    BY <1>1 DEF Kept, AtLimit
  <1>3. <<>> \in Seq(Byte) /\ Len(<<>>) = 0
    BY EmptySeq
  <1>4. data' \in Seq(Byte) /\ bufp' \in 0..Len(data')
    BY <1>3
  <1>5. Window(file, Given, Pos) = <<>>
    BY <1>1, <1>2, Part
  <1>6. Kept' = <<>>
    <2>1. Drop(<<>>, 0) = <<>>
      BY <1>3, SubSeqFull DEF Drop
    <2> QED BY <2>1 DEF Kept, Text
  <1>7. input' = Window(file, Pos, Len(file)) /\ Kept' = Window(file, Given, Pos)
    BY <1>1, <1>5, <1>6 DEF Placed
  <1> HIDE DEF Placed, Kept, Pos, Given
  <1> QED BY <1>1, <1>4, <1>7, PlacedAt

\* The end of the input, found with nothing in the buffer, and a close there.
LEMMA StepEmpties ==
    ASSUME FinInv, RefillEmpty \/ FINsemi_close
    PROVE  FinInv' /\ UNCHANGED Input!vars
  <1>1. /\ pc # "line" /\ AtLimit /\ pc' = pc /\ pc # "retry" /\ data' = <<>> /\ bufp' = 0
        /\ flags' = flags \cup {"EOF"} /\ input = <<>>
        /\ UNCHANGED <<input, size, out, file, lines, rs, fault>>
    BY DEF RefillEmpty, FINsemi_close, Restart, Fine, FinInv, Flagged
  <1>2. /\ Placed' /\ Given' = Given
        /\ (Kept \o input)' = Window(file, Given, Len(file))
        /\ (Len(Kept) + Len(input) = Len(file))' <=> Given = 0
    BY <1>1, Emptied
  <1>3. Len(data') = 0 /\ Len(data) \in Nat
    BY <1>1, EmptySeq DEF FinInv, Placed
  <1>4. Sized'
    BY <1>1, <1>3 DEF FinInv, Sized, FullBeforeEof, AtEof
  <1>5. Flagged'
    BY <1>1, <1>2, <1>3 DEF FinInv, Flagged, AtLimit, AtEof
  <1>6. UNCHANGED Input!vars
    BY <1>1, <1>2, Unseen DEF FinInv
  <1> QED BY <1>2, <1>4, <1>5, <1>6 DEF FinInv

-----------------------------------------------------------------------------
(* The steps that read.                                                    *)

\* The part of a text from a to c, and behind it the next k bytes.
LEMMA Fill ==
    ASSUME NEW f \in Seq(Byte), NEW a \in Nat, NEW c \in Nat, a <= c, c <= Len(f), NEW k \in Nat
    PROVE  \E p \in Nat :
              /\ c <= p /\ p <= Len(f) /\ p = c + Least(k, Len(f) - c)
              /\ Window(f, a, c) \o Take(Window(f, c, Len(f)), k) = Window(f, a, p)
              /\ Drop(Window(f, c, Len(f)), k) = Window(f, p, Len(f))
              /\ Window(f, a, p) \in Seq(Byte) /\ Len(Window(f, a, p)) = p - a
              /\ Drop(Window(f, a, p), 0) = Window(f, a, p)
  <1> DEFINE l == Len(f)
             p == c + Least(k, l - c)
  <1>1. l \in Nat /\ l <= Len(f) /\ c <= l /\ p \in Nat /\ c <= p /\ p <= l
    BY DEF Least
  <1>2. Take(Window(f, c, l), k) = Window(f, c, p) /\ Drop(Window(f, c, l), k) = Window(f, p, l)
    <2> HIDE DEF l
    <2> QED BY <1>1, TakeDrop
  <1>3. p <= Len(f) /\ a <= p
    BY <1>1
  <1>4. p = c + Least(k, l - c)
    OBVIOUS
  <1> HIDE DEF p
  <1>5. Window(f, a, c) \o Window(f, c, p) = Window(f, a, p)
    BY SMTT(30), <1>1, <1>3, Join
  <1>6. Window(f, a, p) \in Seq(Byte) /\ Len(Window(f, a, p)) = p - a
    BY <1>1, <1>3, Part
  <1>7. Drop(Window(f, a, p), 0) = Window(f, a, p)
    BY <1>6, SubSeqFull DEF Drop
  <1> QED BY <1>1, <1>2, <1>3, <1>4, <1>5, <1>6, <1>7

\* What is left goes to the front of the buffer, and k bytes are read behind it.
LEMMA Filled ==
    ASSUME Placed, pc # "line", pc' # "line", NEW k \in Nat, data' = Text \o Take(input, k),
           input' = Drop(input, k), bufp' = 0, file' = file
    PROVE  /\ Placed' /\ Given' = Given
           /\ (Kept \o input)' = Window(file, Given, Len(file))
           /\ (Len(Kept) + Len(input) = Len(file))' <=> Given = 0
           /\ Len(data') = Len(Text) + Least(k, Len(input))
           /\ Len(input) <= k => input' = <<>>
  <1>1. /\ Pos \in Nat /\ Given \in Nat /\ Given <= Pos /\ Pos <= Len(file) /\ Len(file) \in Nat
        /\ Len(input) = Len(file) - Pos /\ file \in Seq(Byte) /\ Kept = Text /\ Len(Kept) = Pos - Given
    BY Parts DEF Placed, Kept
  <1>2. input = Window(file, Pos, Len(file)) /\ Kept = Window(file, Given, Pos)
    BY DEF Placed
  <1>3. PICK p \in Nat :
              /\ Pos <= p /\ p <= Len(file) /\ p = Pos + Least(k, Len(file) - Pos)
              /\ Window(file, Given, Pos) \o Take(Window(file, Pos, Len(file)), k) = Window(file, Given, p)
              /\ Drop(Window(file, Pos, Len(file)), k) = Window(file, p, Len(file))
              /\ Window(file, Given, p) \in Seq(Byte) /\ Len(Window(file, Given, p)) = p - Given
              /\ Drop(Window(file, Given, p), 0) = Window(file, Given, p)
    <2>1. file \in Seq(Byte) /\ Pos \in Nat /\ Given \in Nat /\ Given <= Pos /\ Pos <= Len(file)
      BY <1>1
    <2> HIDE DEF Pos, Given
    <2> QED BY ZenonT(60), <2>1, Fill
  <1>4. data' = Window(file, Given, p) /\ input' = Window(file, p, Len(file)) /\ Kept' = Window(file, Given, p)
    <2>1. data' = Window(file, Given, p) /\ input' = Window(file, p, Len(file))
      BY <1>1, <1>2, <1>3
    <2>2. Kept' = Drop(data', 0)
      BY DEF Kept, Text
    <2> QED BY <1>3, <2>1, <2>2
  <1>5. data' \in Seq(Byte) /\ Len(data') = p - Given /\ Given <= p /\ bufp' \in 0..Len(data')
    <2>1. data' \in Seq(Byte) /\ Len(data') = p - Given
      BY <1>3, <1>4
    <2>2. Given <= p /\ p - Given \in Nat
      BY <1>1, <1>3
    <2> QED BY <2>1, <2>2
  <1>6. /\ Placed' /\ Given' = Given
        /\ (Kept \o input)' = Window(file, Given, Len(file))
        /\ (Len(Kept) + Len(input) = Len(file))' <=> Given = 0
        /\ input' = <<>> <=> p = Len(file)
    <2>1. Given \in Nat /\ p <= Len(file)
      BY <1>1, <1>3
    <2> HIDE DEF Placed, Kept, Pos, Given
    <2> QED BY <1>4, <1>5, <2>1, PlacedAt
  <1>7. Len(data') = Len(Text) + Least(k, Len(input)) /\ (Len(input) <= k => p = Len(file))
    <2> DEFINE e == Len(input)
    <2>1. e = Len(file) - Pos /\ Len(data') = p - Given /\ p = Pos + Least(k, e) /\ Len(Text) = Pos - Given
      BY <1>1, <1>3, <1>5
    <2>2. Pos \in Nat /\ Given \in Nat /\ e \in Nat /\ Len(file) \in Nat
      BY <1>1
    <2> HIDE DEF e, Pos, Given
    <2>3. Len(data') = Len(Text) + Least(k, e)
      BY <2>1, <2>2 DEF Least
    <2>4. e <= k => p = Len(file)
      BY <2>1, <2>2 DEF Least
    <2> QED BY <2>3, <2>4 DEF e
  <1> QED BY <1>6, <1>7

\* enlarge_fin_buffer, and the move of a partial record to the front.
LEMMA StepFills ==
    ASSUME FinInv, NEW b, Enlarge(b) \/ Move(b)
    PROVE  FinInv' /\ UNCHANGED Input!vars
  <1> DEFINE k == IF bufp = 0 THEN JUMPSZ ELSE size - Len(Text)
  <1>1. /\ pc = "retry" /\ pc' = pc /\ ~AtEof /\ data' = Text \o Take(input, k)
        /\ input' = Drop(input, k) /\ bufp' = 0
        /\ flags' = (IF bufp = 0 THEN flags ELSE flags \cup {"FIN"}) \cup Short(k)
        /\ size' = (IF bufp = 0 THEN size + JUMPSZ ELSE size)
        /\ UNCHANGED <<out, file, lines, rs, fault>>
    <2>1. bufp = 0 => Text = data
      BY SubSeqFull DEF FinInv, Placed, Text, Drop
    <2>2. CASE Enlarge(b)
      BY <2>1, <2>2 DEF Enlarge, Retry, Fine
    <2>3. CASE Move(b)
      <3>1. bufp # 0
        BY <2>3 DEF Move
      <3> HIDE DEF AtEof, Text, Take, Drop, Short
      <3> QED BY <2>3, <3>1 DEF Move, Retry, Room, Fine
    <2> QED BY <2>2, <2>3
  <1>2. /\ Placed /\ Sized /\ Flagged /\ bufp \in Nat /\ bufp <= Len(data) /\ Len(data) \in Nat
        /\ Len(Text) = Len(data) - bufp /\ Len(input) \in Nat
        /\ Len(data) <= size /\ \E m \in Nat \ {0} : size = m * JUMPSZ
    BY SMTT(30), Parts DEF FinInv, Placed, Sized
  <1>3. JUMPSZ \in Nat \ {0} /\ size \in Nat /\ (\E m \in Nat \ {0} : size + JUMPSZ = m * JUMPSZ)
    BY <1>2, FinAssumption, Multiple
  <1>4. k \in Nat /\ (bufp = 0 => k = JUMPSZ) /\ (bufp # 0 => k = size - Len(Text))
    BY <1>2, <1>3
  <1> HIDE DEF k
  <1>5. /\ Placed' /\ Given' = Given
        /\ (Kept \o input)' = Window(file, Given, Len(file))
        /\ (Len(Kept) + Len(input) = Len(file))' <=> Given = 0
        /\ Len(data') = Len(Text) + Least(k, Len(input))
        /\ Len(input) <= k => input' = <<>>
    BY <1>1, <1>2, <1>4, Filled
  <1>6. ~lines /\ "START" \notin flags /\ bufp # Len(data)
    <2>1. ~lines /\ bufp # Len(data)
      BY <1>1, <1>2 DEF Flagged, AtLimit
    <2>2. data # <<>>
      BY <1>2, <2>1, EmptySeq
    <2> QED BY <1>2, <2>1, <2>2 DEF Flagged
  <1>7. /\ "START" \notin flags' /\ ("EOF" \in flags' <=> Len(input) < k)
        /\ flags' \subseteq {"START", "FIN", "EOF"}
        /\ ("FIN" \in flags' => "FIN" \in flags \/ bufp > 0)
    BY <1>1, <1>2, <1>6 DEF Sized, Short, AtEof
  <1>8. Len(data) = size
    BY <1>1, <1>2, <1>6 DEF Sized, FullBeforeEof
  <1>9. /\ Len(data') <= size' /\ (Len(input) >= k => Len(data') = size')
        /\ Len(data') > 0
    <2>1. Least(k, Len(input)) \in Nat /\ Least(k, Len(input)) <= k /\ (Len(input) >= k => Least(k, Len(input)) = k)
      BY <1>2, <1>4 DEF Least
    <2> DEFINE e == Least(k, Len(input))
               n == Len(data')
    <2>2. Len(data) \in Nat /\ Len(data) > 0 /\ n = Len(Text) + e /\ Len(Text) = Len(data) - bufp
      BY <1>2, <1>5, <1>6
    <2>3. Len(input) \in Nat /\ bufp \in Nat /\ bufp <= Len(data) /\ bufp # Len(data) /\ JUMPSZ \in Nat
      BY <1>2, <1>3, <1>6
    <2> HIDE DEF e, n
    <2>4. e \in Nat /\ e <= k /\ (Len(input) >= k => e = k)
      BY <2>1 DEF e
    <2>5. CASE bufp = 0
      <3>1. k = JUMPSZ /\ size' = size + JUMPSZ
        BY <1>1, <1>4, <2>5
      <3>2. n = size + e
        BY <1>8, <2>2, <2>3, <2>4, <2>5
      <3>3. n <= size' /\ (Len(input) >= k => n = size') /\ n > 0
        BY <1>3, <1>8, <2>2, <2>3, <2>4, <3>1, <3>2
      <3> QED BY <3>3 DEF n
    <2>6. CASE bufp # 0
      <3>1. k = size - Len(Text) /\ size' = size
        BY <1>1, <1>4, <2>6
      <3>2. k = bufp /\ n = (size - bufp) + e
        BY <1>3, <1>8, <2>2, <2>3, <3>1
      <3>3. n <= size' /\ (Len(input) >= k => n = size') /\ n > 0
        BY <1>3, <1>8, <2>2, <2>3, <2>4, <3>1, <3>2
      <3> QED BY <3>3 DEF n
    <2> QED BY <2>5, <2>6
  <1>10. Sized'
    <2>1. \E m \in Nat \ {0} : size' = m * JUMPSZ
      BY <1>1, <1>2, <1>3
    <2>2. FullBeforeEof'
      BY <1>2, <1>4, <1>7, <1>9 DEF FullBeforeEof, AtEof
    <2> QED BY <1>1, <1>2, <1>7, <1>9, <2>1, <2>2 DEF Sized
  <1>11. Flagged'
    <2>1. AtEof' => input' = <<>>
      BY <1>4, <1>2, <1>5, <1>7 DEF AtEof
    <2>2. ~AtLimit'
      BY <1>1, <1>9 DEF AtLimit
    <2>3. "FIN" \in flags' \/ bufp' > 0 => Given' > 0
      BY <1>1, <1>2, <1>5, <1>6, <1>7 DEF Flagged
    <2> QED BY <1>1, <1>2, <1>6, <1>7, <2>1, <2>2, <2>3 DEF Flagged
  <1>12. UNCHANGED Input!vars
    BY <1>1, <1>2, <1>5, <1>6, <1>7, Unseen
  <1> QED BY <1>5, <1>10, <1>11, <1>12 DEF FinInv

\* Of a part of a text that is full of what was just read, k bytes are skipped.
LEMMA Skip ==
    ASSUME NEW f \in Seq(Byte), NEW a \in Nat, NEW c \in Nat, a <= c, c <= Len(f), NEW k \in 0..c - a
    PROVE  Drop(Window(f, a, c), k) = Window(f, a + k, c)
  <1>1. k \in Nat /\ Least(k, c - a) = k
    BY DEF Least
  <1>2. Drop(Window(f, a, c), k) = Window(f, a + Least(k, c - a), c)
    BY <1>1, TakeDrop
  <1> QED BY <1>1, <1>2

\* How many newlines a text starts with.
LEMMA Leading ==
    ASSUME NEW t \in Seq(Byte)
    PROVE  \E k \in 0..Len(t) : /\ \A j \in 1..k : t[j] = NL
                                /\ k < Len(t) => t[k + 1] # NL
  <1> DEFINE F == {i \in 0..Len(t) : \A j \in 1..i : t[j] = NL}
  <1>1. Len(t) \in Nat /\ F \subseteq Nat /\ 0 \in F /\ \A y \in F : y <= Len(t)
    OBVIOUS
  <1>2. PICK k \in F : \A y \in F : y <= k
    <2> HIDE DEF F
    <2> QED BY <1>1, MaxProps
  <1>3. k \in 0..Len(t) /\ \A j \in 1..k : t[j] = NL
    OBVIOUS
  <1>4. ASSUME k < Len(t), t[k + 1] = NL PROVE FALSE
    <2>1. k + 1 \in 0..Len(t) /\ \A j \in 1..k + 1 : t[j] = NL
      BY <1>3, <1>4
    <2>2. k + 1 <= k
      BY <1>2, <2>1
    <2> QED BY <1>3, <2>2
  <1> QED BY <1>3, <1>4

\* What AwkInput takes off a text in front for RS = "".
LEMMA Strip ==
    ASSUME NEW f \in Seq(Byte), NEW k \in 0..Len(f), \A j \in 1..k : f[j] = NL,
           k < Len(f) => f[k + 1] # NL
    PROVE  Input!Stripped(f) = Window(f, k, Len(f))
  <1> DEFINE F == {i \in 0..Len(f) : \A j \in 1..i : f[j] = NL}
             m == CHOOSE i \in F : \A j \in F : j <= i
  <1>1. k \in F
    OBVIOUS
  <1>2. ASSUME NEW i \in F PROVE i <= k
    <2>1. i \in 0..Len(f) /\ \A j \in 1..i : f[j] = NL
      OBVIOUS
    <2>2. ASSUME k < i PROVE FALSE
      <3>1. k + 1 \in 1..i /\ k < Len(f)
        BY <2>1, <2>2
      <3> QED BY <2>1, <3>1
    <2> QED BY <2>1, <2>2
  <1>3. F \subseteq Nat
    OBVIOUS
  <1>4. m = k
    <2> HIDE DEF F
    <2>1. m \in F /\ \A j \in F : j <= m
      BY <1>1, <1>2
    <2>2. m <= k /\ k <= m /\ m \in Nat
      BY <1>1, <1>2, <1>3, <2>1
    <2> QED BY <2>2
  <1>5. Input!Stripped(f) = SubSeq(f, m + 1, Len(f))
    BY DEF Input!Stripped
  <1> HIDE DEF m
  <1> QED BY <1>4, <1>5 DEF Window

\* What a read of n bytes delivers, and what it leaves.
LEMMA Reads ==
    ASSUME NEW f \in Seq(Byte), NEW c \in Nat, c <= Len(f), NEW n \in Nat
    PROVE  \E p \in Nat :
              /\ c <= p /\ p <= Len(f) /\ p = c + Least(n, Len(f) - c)
              /\ Take(Window(f, c, Len(f)), n) = Window(f, c, p)
              /\ Drop(Window(f, c, Len(f)), n) = Window(f, p, Len(f))
              /\ Window(f, c, p) \in Seq(Byte) /\ Len(Window(f, c, p)) = p - c
              /\ \A i \in 1..p - c : Window(f, c, p)[i] = f[c + i]
  <1> DEFINE l == Len(f)
             p == c + Least(n, l - c)
  <1>1. l \in Nat /\ l <= Len(f) /\ c <= l /\ p \in Nat /\ c <= p /\ p <= l
    BY DEF Least
  <1>2. Take(Window(f, c, l), n) = Window(f, c, p) /\ Drop(Window(f, c, l), n) = Window(f, p, l)
    <2> HIDE DEF l
    <2> QED BY <1>1, TakeDrop
  <1>3. p <= Len(f) /\ p = c + Least(n, l - c)
    BY <1>1
  <1> HIDE DEF p
  <1>4. p \in Nat /\ c <= p /\ p <= Len(f)
    BY <1>1, <1>3
  <1>5. Window(f, c, p) \in Seq(Byte) /\ Len(Window(f, c, p)) = p - c
    BY <1>4, Part
  <1>6. \A i \in 1..p - c : Window(f, c, p)[i] = f[c + i]
    BY <1>4, Part
  <1> QED BY <1>1, <1>2, <1>3, <1>5, <1>6

\* A refill when nothing is left of the buffer.  The first one is where AwkInput
\* begins, without the newlines in front that do not count.
LEMMA StepRefill ==
    ASSUME FinInv, Refill
    PROVE  FinInv' /\ (Input!Begin \/ UNCHANGED Input!vars)
  <1> DEFINE t == Take(input, size)
             k == Trimmed(t)
             filled == k = size /\ Len(input) > size /\ input[size + 1] = NL
  <1>1. CASE filled
    <2>1. Fault("trim")
      BY <1>1 DEF Refill
    <2> QED BY <2>1, StepFaults
  <1>2. CASE ~filled
    <2>1. /\ pc = "restart" /\ AtLimit /\ ~AtEof /\ ~lines /\ input # <<>>
          /\ data' = t /\ input' = Drop(input, size) /\ bufp' = k
          /\ flags' = (flags \ {"START"}) \cup Short(size)
          /\ pc' = IF k = Len(t) THEN "restart" ELSE "retry"
          /\ UNCHANGED <<size, out, file, lines, rs, fault>>
      BY <1>2 DEF Refill, Restart, Fine
    <2>2. /\ Placed /\ Sized /\ Flagged /\ file \in Seq(Byte) /\ Len(file) \in Nat
          /\ Pos \in Nat /\ Given \in Nat /\ Given <= Pos /\ Pos <= Len(file)
          /\ Len(input) = Len(file) - Pos /\ size \in Nat /\ size > 0
      <3>1. Placed /\ Sized /\ Flagged
        BY DEF FinInv
      <3>2. size \in Nat /\ size >= JUMPSZ
        BY <3>1, Multiple DEF Sized
      <3> QED BY <3>1, <3>2, Parts, FinAssumption DEF Placed
    <2>3. Given = Pos
      <3>1. Len(Kept) = Pos - Given /\ Len(Text) = Len(data) - bufp /\ Len(data) \in Nat
        BY <2>2, Parts DEF Placed
      <3>2. Kept = Text /\ bufp = Len(data)
        BY <2>1 DEF Kept, AtLimit
      <3> QED BY <2>2, <3>1, <3>2
    <2>4. PICK p \in Nat :
              /\ Pos <= p /\ p <= Len(file) /\ p = Pos + Least(size, Len(file) - Pos)
              /\ Take(Window(file, Pos, Len(file)), size) = Window(file, Pos, p)
              /\ Drop(Window(file, Pos, Len(file)), size) = Window(file, p, Len(file))
              /\ Window(file, Pos, p) \in Seq(Byte) /\ Len(Window(file, Pos, p)) = p - Pos
              /\ \A i \in 1..p - Pos : Window(file, Pos, p)[i] = file[Pos + i]
      <3>1. file \in Seq(Byte) /\ Pos \in Nat /\ Pos <= Len(file) /\ size \in Nat
        BY <2>2
      <3> HIDE DEF Pos
      <3> QED BY <3>1, Reads
    <2>5. /\ t = Window(file, Pos, p) /\ t \in Seq(Byte) /\ Len(t) = p - Pos
          /\ \A i \in 1..p - Pos : t[i] = file[Pos + i]
          /\ input' = Window(file, p, Len(file))
      <3>1. input = Window(file, Pos, Len(file))
        BY <2>2 DEF Placed
      <3>2. t = Window(file, Pos, p) /\ input' = Window(file, p, Len(file))
        BY <2>1, <2>4, <3>1
      <3> QED BY <2>4, <3>2
    <2>6. /\ k \in 0..Len(t) /\ ("START" \notin flags \/ rs # "mlr" => k = 0)
          /\ "START" \in flags /\ rs = "mlr" => /\ \A j \in 1..k : t[j] = NL
                                                /\ k < Len(t) => t[k + 1] # NL
      <3>1. t \in Seq(Byte) /\ Len(t) \in Nat
        BY <2>5
      <3> HIDE DEF t
      <3>2. \E i \in 0..Len(t) : (\A j \in 1..i : t[j] = NL) /\ (i < Len(t) => t[i + 1] # NL)
        BY <3>1, Leading
      <3> QED BY <3>1, <3>2 DEF Trimmed
    <2>7. k \in Nat /\ k <= p - Pos /\ Pos + k \in Nat /\ Pos + k <= p
      BY <2>2, <2>4, <2>5, <2>6
    <2> HIDE DEF t, k
    <2>8. Drop(Window(file, Pos, p), k) = Window(file, Pos + k, p)
      <3>1. file \in Seq(Byte) /\ Pos \in Nat /\ Pos <= p /\ p <= Len(file) /\ k \in 0..p - Pos
        BY <2>2, <2>4, <2>7
      <3> HIDE DEF Pos
      <3> QED BY <3>1, Skip
    <2>9. Kept' = Window(file, Pos + k, p)
      <3>1. Kept' = Drop(data', bufp')
        BY <2>1 DEF Kept, Text
      <3> QED BY <2>1, <2>5, <2>8, <3>1
    <2>10. /\ Placed' /\ Given' = Pos + k
           /\ (Kept \o input)' = Window(file, Pos + k, Len(file))
           /\ (Len(Kept) + Len(input) = Len(file))' <=> Pos + k = 0
           /\ input' = <<>> <=> p = Len(file)
      <3>1. data' \in Seq(Byte) /\ bufp' \in 0..Len(data')
        BY <2>1, <2>5, <2>6
      <3> DEFINE g == Pos + k
      <3>2. g \in Nat /\ g <= p /\ p <= Len(file) /\ Placed /\ file' = file
            /\ Kept' = Window(file, g, p) /\ input' = Window(file, p, Len(file))
        BY <2>1, <2>2, <2>4, <2>5, <2>7, <2>9
      <3> HIDE DEF g, Placed, Pos, Given, Kept
      <3>3. /\ Placed' /\ Given' = g
            /\ (Kept \o input)' = Window(file, g, Len(file))
            /\ (Len(Kept) + Len(input) = Len(file))' <=> g = 0
            /\ input' = <<>> <=> p = Len(file)
        BY <3>1, <3>2, PlacedAt
      <3> QED BY <3>3 DEF g
    <2>11. /\ "START" \notin flags' /\ ("EOF" \in flags' <=> Len(input) < size)
           /\ flags' \subseteq {"START", "FIN", "EOF"} /\ ("FIN" \in flags' => "FIN" \in flags)
      BY <2>1, <2>2 DEF Sized, Short, AtEof
    <2>12. /\ Len(data') = p - Pos /\ p - Pos \in Nat /\ p - Pos <= size
           /\ (Len(input) >= size => p - Pos = size) /\ (Len(input) < size => p = Len(file))
      <3>1. Len(data') = p - Pos
        BY <2>1, <2>5
      <3> DEFINE l == Len(file)
      <3>2. l \in Nat /\ Pos \in Nat /\ size \in Nat /\ Pos <= l /\ p = Pos + Least(size, l - Pos) /\ Len(input) = l - Pos
        BY <2>2, <2>4
      <3> HIDE DEF l, Pos
      <3>3. /\ p - Pos \in Nat /\ p - Pos <= size
            /\ (Len(input) >= size => p - Pos = size) /\ (Len(input) < size => p = l)
        BY <3>2 DEF Least
      <3> QED BY <3>1, <3>3 DEF l
    <2>13. Sized'
      <3>1. FullBeforeEof'
        BY <2>1, <2>2, <2>11, <2>12 DEF FullBeforeEof, AtEof
      <3>2. pc' # "line" /\ pc' \in {"idle", "restart", "retry", "line"}
        BY <2>1
      <3> QED BY <2>1, <2>2, <2>11, <2>12, <3>1, <3>2 DEF Sized
    <2>14. Flagged'
      <3>1. AtEof' => input' = <<>>
        BY <2>10, <2>11, <2>12 DEF AtEof
      <3>2. pc' = "retry" => ~AtLimit'
        BY <2>1 DEF AtLimit
      <3>3. "FIN" \in flags' \/ bufp' > 0 => Given' > 0
        <4>1. Given' = Pos + k
          BY <2>10
        <4>2. "FIN" \in flags => Pos > 0
          BY <2>1, <2>2, <2>3 DEF Flagged
        <4> QED BY <2>1, <2>2, <2>7, <2>11, <4>1, <4>2
      <3> QED BY <2>1, <2>2, <2>11, <3>1, <3>2, <3>3 DEF Flagged
    <2>15. CASE "START" \notin flags
      <3>1. k = 0 /\ Pos + k = Given
        BY <2>2, <2>3, <2>6, <2>15
      <3>2. UNCHANGED Input!vars
        BY <2>1, <2>2, <2>10, <2>11, <2>15, <3>1, Unseen
      <3> QED BY <2>10, <2>13, <2>14, <3>2 DEF FinInv
    <2>16. CASE "START" \in flags
      <3>1. input = file /\ Pos = 0 /\ Given = 0 /\ file # <<>>
        BY <2>1, <2>2, <2>3, <2>16 DEF Flagged, Pos
      <3>2. Kept \o input = file
        <4>1. Kept \o input = Window(file, 0, Len(file))
          BY <2>2, <3>1, Parts
        <4>2. Window(file, 0, Len(file)) = file
          BY <2>2, SubSeqFull DEF Window
        <4> QED BY <4>1, <4>2
      <3>3. (Kept \o input)' = Window(file, k, Len(file)) /\ ((Len(Kept) + Len(input) = Len(file))' <=> k = 0)
        BY <2>7, <2>10, <3>1
      <3>4. (Kept \o input)' = IF rs = "mlr" THEN Input!Stripped(file) ELSE file
        <4>1. CASE rs = "mlr"
          <5>1. \A j \in 1..k : file[j] = NL
            BY <2>5, <2>6, <2>7, <2>16, <3>1, <4>1
          <5>2. k < Len(file) => file[k + 1] # NL
            <6>1. CASE k < p
              <7>1. k < Len(t) /\ k + 1 \in 1..p - Pos
                BY <2>5, <2>7, <3>1, <6>1
              <7>2. t[k + 1] # NL /\ t[k + 1] = file[Pos + (k + 1)]
                BY <2>5, <2>6, <2>16, <4>1, <7>1
              <7> QED BY <2>7, <3>1, <7>2
            <6>2. CASE k = p
              <7>1. ASSUME k < Len(file) PROVE k = size /\ Len(input) > size
                BY <2>2, <2>4, <2>7, <2>12, <3>1, <6>2, <7>1
              <7>2. ASSUME k < Len(file) PROVE input[size + 1] # NL
                BY <1>2, <7>1, <7>2 DEF k, t
              <7> QED BY <3>1, <7>1, <7>2
            <6> QED BY <2>7, <3>1, <6>1, <6>2
          <5>3. file \in Seq(Byte) /\ k \in 0..Len(file)
            BY <2>2, <2>4, <2>7, <3>1
          <5>4. Input!Stripped(file) = Window(file, k, Len(file))
            BY <5>1, <5>2, <5>3, Strip
          <5> QED BY <3>3, <4>1, <5>4
        <4>2. CASE rs # "mlr"
          BY <2>2, <2>6, <3>3, <4>2, SubSeqFull DEF Window
        <4> QED BY <4>1, <4>2
      <3>5. (Kept \o input)' = file <=> k = 0
        <4>1. Len(Window(file, k, Len(file))) = Len(file) - k
          <5>1. file \in Seq(Byte) /\ k \in Nat /\ Len(file) \in Nat /\ k <= Len(file)
            BY <2>2, <2>4, <2>7, <3>1
          <5> DEFINE l == Len(file)
          <5>2. l \in Nat /\ k <= l /\ l <= Len(file)
            BY <5>1
          <5> HIDE DEF l
          <5>3. Len(Window(file, k, l)) = l - k
            BY <5>1, <5>2, Part
          <5> QED BY <5>3 DEF l
        <4>2. k = 0 => Window(file, k, Len(file)) = file
          BY <2>2, SubSeqFull DEF Window
        <4>3. Window(file, k, Len(file)) = file => k = 0
          BY <2>2, <2>7, <4>1
        <4> QED BY <3>3, <4>2, <4>3
      <3>6. Input!Begin
        <4>1. (lines \/ "START" \notin flags) = FALSE /\ (lines \/ "START" \notin flags)' = TRUE
          BY <2>1, <2>11, <2>16
        <4>2. (Len(Kept) + Len(input) = Len(file))' = ((Kept \o input)' = Kept \o input)
          BY <3>2, <3>3, <3>5
        <4>3. (Kept \o input)' = IF rs = "mlr" THEN Input!Stripped(Kept \o input) ELSE Kept \o input
          BY <3>2, <3>4
        <4> QED BY <2>1, <3>1, <3>2, <4>1, <4>2, <4>3 DEF Input!Begin
      <3> QED BY <2>10, <2>13, <2>14, <3>6 DEF FinInv
    <2> QED BY <2>15, <2>16
  <1> QED BY <1>1, <1>2

-----------------------------------------------------------------------------
(* The steps that return a record.                                         *)

\* A part of a text, and a longer one from the same place, start with the same
\* bytes.
LEMMA Starts ==
    ASSUME NEW f \in Seq(Byte), NEW a \in Nat, NEW c \in Nat, NEW l \in Nat, a <= c, c <= l, l <= Len(f),
           NEW n \in Nat, n <= c - a
    PROVE  Take(Window(f, a, c), n) = SubSeq(Window(f, a, l), 1, n)
  <1>1. Take(Window(f, a, c), n) = Window(f, a, a + n)
    <2>1. Least(n, c - a) = n
      BY DEF Least
    <2>2. c <= Len(f)
      OBVIOUS
    <2>3. Take(Window(f, a, c), n) = Window(f, a, a + Least(n, c - a))
      BY <2>2, TakeDrop
    <2> QED BY <2>1, <2>3
  <1>2. a <= l /\ n <= l - a
    OBVIOUS
  <1>3. Window(Window(f, a, l), 0, n) = Window(f, a + 0, a + n)
    BY <1>2, WindowOfWindow
  <1>4. Window(Window(f, a, l), 0, n) = SubSeq(Window(f, a, l), 0 + 1, n)
    BY DEF Window
  <1> QED BY <1>1, <1>3, <1>4

\* What is left of a part of a text when the first d bytes are taken.
LEMMA Leaves ==
    ASSUME NEW f \in Seq(Byte), NEW a \in Nat, NEW l \in Nat, a <= l, l <= Len(f),
           NEW d \in Nat, d <= l - a
    PROVE  SubSeq(Window(f, a, l), d + 1, Len(Window(f, a, l))) = Window(f, a + d, l)
  <1> DEFINE w == Window(f, a, l)
  <1>1. Len(w) = l - a
    BY Part
  <1>2. Window(w, d, l - a) = Window(f, a + d, a + (l - a))
    BY WindowOfWindow
  <1>3. a + (l - a) = l
    OBVIOUS
  <1> HIDE DEF w
  <1>4. Window(w, d, l - a) = SubSeq(w, d + 1, l - a)
    BY DEF Window
  <1>5. SubSeq(w, d + 1, Len(w)) = Window(f, a + d, l)
    BY <1>1, <1>2, <1>3, <1>4
  <1> QED BY <1>5 DEF w

\* What is left of the bytes is left when the first ones are dropped at once.
LEMMA DropDrop ==
    ASSUME NEW t \in Seq(Byte), NEW b \in Nat, b <= Len(t), NEW d \in Nat, d <= Len(t) - b
    PROVE  Drop(t, b + d) = Drop(Drop(t, b), d)
  <1> DEFINE l == Len(t)
  <1>1. l \in Nat /\ l <= Len(t) /\ b <= l /\ d \in 0..l - b
    OBVIOUS
  <1>2. Drop(t, b) = Window(t, b, l) /\ Drop(t, b + d) = Window(t, b + d, l)
    BY DEF Drop, Window
  <1> HIDE DEF l
  <1>3. Drop(Window(t, b, l), d) = Window(t, b + d, l)
    BY <1>1, Skip
  <1> QED BY <1>2, <1>3

\* Where a record is looked for: in a block input, behind the first read.
LEMMA Looking ==
    ASSUME FinInv, pc = "retry"
    PROVE  /\ ~lines /\ "START" \notin flags /\ Kept = Text /\ ~AtLimit
           /\ Len(Text) \in Nat /\ Len(Text) > 0 /\ Given < Pos
           /\ Kept \o input # <<>>
  <1>1. Placed /\ Flagged
    BY DEF FinInv
  <1>2. /\ Len(data) \in Nat /\ bufp \in Nat /\ bufp <= Len(data)
    BY <1>1 DEF Placed
  <1>3. ~lines /\ ~AtLimit /\ Kept = Text
    BY <1>1 DEF Flagged, Kept
  <1>4. "START" \notin flags
    BY <1>1, <1>2, <1>3, EmptySeq DEF Flagged, AtLimit
  <1>5. Len(Text) = Len(data) - bufp /\ Len(Kept) = Pos - Given /\ Pos \in Nat /\ Given \in Nat
        /\ Kept \in Seq(Byte) /\ input \in Seq(Byte) /\ Len(input) \in Nat
    BY <1>1, Parts
  <1>6. Len(Text) \in Nat /\ Len(Text) > 0 /\ Given < Pos
    BY <1>2, <1>3, <1>5 DEF AtLimit
  <1>7. Kept \o input # <<>>
    <2>1. Len(Kept \o input) = Len(Kept) + Len(input)
      BY <1>5
    <2> QED BY <1>3, <1>5, <1>6, <2>1
  <1> QED BY <1>3, <1>4, <1>6, <1>7

\* A record with a separator behind it.
LEMMA StepRecord ==
    ASSUME FinInv, NEW b, Record(b)
    PROVE  FinInv' /\ (Input!Read \/ UNCHANGED Input!vars)
  <1>1. CASE FalseBol
    BY <1>1, StepFaults DEF Record
  <1>2. CASE ~FalseBol /\ CutShort
    BY <1>2, StepFaults DEF Record
  <1>3. CASE ~FalseBol /\ ~CutShort
    <2> DEFINE n == q[1] - 1
               d == q[1] + q[2] - 1
               g == Given + d
    <2>1. /\ pc = "retry" /\ q[1] # 0 /\ pc' = "idle" /\ out' = <<"record", Take(Text, n)>>
          /\ bufp' = bufp + q[1] + q[2] - 1
          /\ UNCHANGED <<input, data, size, flags, file, lines, rs, fault>>
      BY <1>3 DEF Record, Retry, Found, Return, Fine
    <2>2. /\ Placed /\ Sized /\ Flagged /\ file \in Seq(Byte) /\ Len(file) \in Nat
          /\ Pos \in Nat /\ Given \in Nat /\ Pos <= Len(file) /\ Given <= Pos
          /\ data \in Seq(Byte) /\ Len(data) \in Nat /\ bufp \in Nat /\ bufp <= Len(data)
          /\ Len(Text) = Len(data) - bufp /\ Len(Kept) = Pos - Given
      BY Parts DEF FinInv, Placed
    <2>3. /\ ~lines /\ "START" \notin flags /\ Kept = Text /\ Kept \o input # <<>>
          /\ Len(Text) \in Nat
      BY <2>1, Looking
    <2>4. SeparatorsIn(rs, Text, Text \o input)
      BY <2>2, <2>3, OneSeparator DEF Flagged
    <2>5. q[1] \in 1..Len(Text) /\ q[2] \in 1..Len(Text) - q[1] + 1
      <3>1. bol \in BOOLEAN
        BY DEF bol
      <3>2. q = <<0, 0>> \/ (q[1] \in 1..Len(Text) /\ q[2] \in 1..Len(Text) - q[1] + 1)
        BY <2>4, <3>1 DEF SeparatorsIn, IsSeparator, q
      <3> QED BY <2>1, <3>2
    <2>6. q = Match(rs, Text \o input, AtFront)
      <3>1. CASE rs \in {"mlr", "re"}
        BY <1>3, <3>1 DEF CutShort
      <3>2. CASE rs \notin {"mlr", "re"}
        <4>1. q # <<0, 0>> /\ bol \in BOOLEAN /\ AtFront \in BOOLEAN
          BY <2>1 DEF bol, AtFront
        <4> QED BY <2>4, <3>2, <4>1 DEF SeparatorsIn, q
      <3> QED BY <3>1, <3>2
    <2>7. /\ n \in Nat /\ d \in Nat /\ n <= d /\ 1 <= d /\ d <= Len(Text) /\ d <= Pos - Given
          /\ bufp' = bufp + d /\ d + 1 = q[1] + q[2]
      <3>1. q[1] \in Nat /\ q[2] \in Nat /\ q[1] >= 1 /\ q[2] >= 1 /\ q[1] + q[2] <= Len(Text) + 1
        BY <2>3, <2>5
      <3>2. Len(Text) = Pos - Given
        BY <2>2, <2>3
      <3>3. n \in Nat /\ d \in Nat /\ n <= d /\ 1 <= d /\ d <= Len(Text) /\ d + 1 = q[1] + q[2]
        BY SMTT(30), <2>3, <3>1
      <3>4. bufp' = bufp + d
        BY <2>1, <2>2, <3>1
      <3> HIDE DEF n, d
      <3> QED BY <3>2, <3>3, <3>4
    <2> HIDE DEF n, d
    <2>8. /\ Take(Window(file, Given, Pos), n) = SubSeq(Window(file, Given, Len(file)), 1, n)
          /\ Drop(Window(file, Given, Pos), d) = Window(file, g, Pos)
          /\ SubSeq(Window(file, Given, Len(file)), d + 1, Len(Window(file, Given, Len(file)))) = Window(file, g, Len(file))
      <3>1. file \in Seq(Byte) /\ Given \in Nat /\ Pos \in Nat /\ Given <= Pos /\ Pos <= Len(file)
            /\ n \in Nat /\ d \in Nat /\ n <= d /\ d <= Pos - Given
        BY <2>2, <2>7
      <3> DEFINE l == Len(file)
      <3>2. l \in Nat /\ l <= Len(file) /\ Pos <= l /\ Given <= l /\ n <= Pos - Given /\ d <= l - Given
        BY <2>2, <2>7
      <3> HIDE DEF Given, Pos, l
      <3>3. Take(Window(file, Given, Pos), n) = SubSeq(Window(file, Given, l), 1, n)
        BY <3>1, <3>2, Starts
      <3>4. Drop(Window(file, Given, Pos), d) = Window(file, Given + d, Pos)
        BY <3>1, Skip
      <3>5. SubSeq(Window(file, Given, l), d + 1, Len(Window(file, Given, l))) = Window(file, Given + d, l)
        BY ZenonT(60), <3>1, <3>2, Leaves
      <3> QED BY <3>3, <3>4, <3>5 DEF l
    <2>9. Text = Window(file, Given, Pos) /\ Kept \o input = Window(file, Given, Len(file))
      BY <2>2, <2>3, Parts DEF Placed
    <2>10. Kept' = Window(file, g, Pos)
      <3>1. Kept' = Drop(data, bufp + d)
        BY <2>1, <2>7 DEF Kept, Text
      <3>2. Drop(data, bufp + d) = Drop(Text, d)
        BY <2>2, <2>7, DropDrop DEF Text
      <3> QED BY <2>8, <2>9, <3>1, <3>2
    <2>11. /\ Placed' /\ Given' = g
           /\ (Kept \o input)' = Window(file, g, Len(file))
           /\ (Len(Kept) + Len(input) = Len(file))' <=> g = 0
      <3>1. data' \in Seq(Byte) /\ bufp' \in 0..Len(data')
        BY <2>1, <2>2, <2>7
      <3>2. g \in Nat /\ g <= Pos /\ Pos \in Nat /\ Pos <= Len(file) /\ Placed /\ file' = file
            /\ input' = Window(file, Pos, Len(file))
        BY <2>1, <2>2, <2>7 DEF Placed
      <3> HIDE DEF g, Placed, Pos, Given, Kept
      <3> QED BY <2>10, <3>1, <3>2, PlacedAt
    <2>12. g > 0
      BY <2>2, <2>7
    <2>13. Sized'
      BY <2>1, <2>2 DEF Sized, FullBeforeEof, AtEof
    <2>14. Flagged'
      <3>1. pc' = "idle" /\ out' # <<"eof">>
        BY <2>1
      <3> QED BY <2>1, <2>2, <2>3, <2>11, <2>12, <3>1 DEF Flagged, AtLimit, AtEof
    <2>15. Input!Read
      <3>1. /\ (Len(Kept) + Len(input) = Len(file)) = AtFront
            /\ q = Match(rs, Kept \o input, Len(Kept) + Len(input) = Len(file))
        BY <2>3, <2>6 DEF AtFront
      <3>2. out' = <<"record", SubSeq(Kept \o input, 1, q[1] - 1)>>
        BY <2>1, <2>8, <2>9 DEF n
      <3>3. (Kept \o input)' = SubSeq(Kept \o input, q[1] + q[2], Len(Kept \o input))
        BY <2>7, <2>8, <2>9, <2>11
      <3>4. (Len(Kept) + Len(input) = Len(file))' = FALSE
        BY <2>11, <2>12
      <3>5. (lines \/ "START" \notin flags) /\ (lines \/ "START" \notin flags)' = (lines \/ "START" \notin flags)
        BY <2>1, <2>3
      <3> HIDE DEF q, Kept
      <3> QED BY <2>1, <2>3, <3>1, <3>2, <3>3, <3>4, <3>5 DEF Input!Read
    <2> QED BY <2>11, <2>13, <2>14, <2>15 DEF FinInv
  <1> QED BY <1>1, <1>2, <1>3

\* Nothing of the text is left, and all the buffer was returned.
LEMMA AllGiven ==
    ASSUME Placed, file' = file, NEW p \in Nat, Pos <= p, p <= Len(file), input' = Window(file, p, Len(file)),
           data' \in Seq(Byte), bufp' = Len(data'), pc' # "line"
    PROVE  /\ Placed' /\ Pos' = p /\ Given' = p
           /\ (Kept \o input)' = Window(file, p, Len(file))
           /\ (Len(Kept) + Len(input) = Len(file))' <=> p = 0
           /\ input' = <<>> <=> p = Len(file)
  <1>1. Kept' = <<>>
    <2>1. Kept' = SubSeq(data', Len(data') + 1, Len(data')) /\ Len(data') \in Nat
      BY DEF Kept, Text, Drop
    <2> QED BY <2>1, SubSeqEmpty
  <1>2. Window(file, p, p) = <<>>
    <2>1. file \in Seq(Byte)
      BY DEF Placed
    <2> QED BY <2>1, Part
  <1>3. bufp' \in 0..Len(data') /\ Kept' = Window(file, p, p) /\ p <= p
    BY <1>1, <1>2
  <1> HIDE DEF Placed, Kept, Pos, Given
  <1> QED BY <1>3, PlacedAt

\* The last record, with no separator behind it.
LEMMA StepLastRecord ==
    ASSUME FinInv, NEW b, LastRecord(b)
    PROVE  FinInv' /\ Input!Read
  <1> DEFINE cut == rs = "mlr" /\ data[Len(data)] = NL
             end == IF cut THEN Len(data) - 1 ELSE Len(data)
             m == Match(rs, Kept \o input, Len(Kept) + Len(input) = Len(file))
             l == Len(file)
  <1>1. /\ pc = "retry" /\ ~Found(b) /\ AtEof /\ pc' = "idle"
        /\ out' = <<"record", SubSeq(data, bufp + 1, end)>>
        /\ data' = Take(data, end) /\ bufp' = end
        /\ UNCHANGED <<input, size, flags, file, lines, rs, fault>>
    BY DEF LastRecord, Retry, Return, Fine
  <1>2. /\ Placed /\ Sized /\ Flagged /\ file \in Seq(Byte) /\ Len(file) \in Nat
        /\ Pos \in Nat /\ Given \in Nat /\ Pos <= Len(file) /\ Given <= Pos
        /\ data \in Seq(Byte) /\ Len(data) \in Nat /\ bufp \in Nat /\ bufp <= Len(data)
        /\ Text \in Seq(Byte) /\ Len(Text) = Len(data) - bufp
        /\ \A i \in 1..Len(Text) : Text[i] = data[bufp + i]
        /\ Len(Kept) + Len(input) = Len(file) <=> Given = 0
    BY Parts DEF FinInv, Placed
  <1>3. /\ ~lines /\ "START" \notin flags /\ Kept = Text /\ Kept \o input # <<>>
        /\ Len(Text) \in Nat /\ Len(Text) > 0 /\ Given < Pos
    BY <1>1, Looking
  <1>4. input = <<>> /\ Kept \o input = Text
    BY <1>1, <1>2, <1>3, ConcatEmptySeq DEF Flagged
  <1>5. SeparatorsIn(rs, Text, Text \o input)
    BY <1>2, <1>3, OneSeparator DEF Flagged
  <1>6. q = <<0, 0>>
    <2>1. q[1] = 0
      BY <1>1 DEF Found, Cancelled, Longer
    <2>2. bol \in BOOLEAN
      BY DEF bol
    <2>3. q = <<0, 0>> \/ q[1] \in 1..Len(Text)
      BY <1>5, <2>2 DEF SeparatorsIn, IsSeparator, q
    <2> QED BY <1>3, <2>1, <2>3
  <1>7. m[1] = 0
    <2>1. bol => Match(rs, Text, TRUE) = <<0, 0>> /\ Match(rs, Text, FALSE) = <<0, 0>>
      <3>1. bol => bol = TRUE
        BY DEF bol
      <3>2. bol => Match(rs, Text, TRUE) = <<0, 0>>
        BY <1>6, <3>1 DEF q
      <3> QED BY <1>5, <3>2 DEF SeparatorsIn
    <2>2. ~bol => Match(rs, Text, FALSE) = <<0, 0>>
      BY <1>6 DEF q, bol
    <2>3. Given = 0 => bol
      <3>1. Given = 0 => ~("FIN" \in flags \/ bufp > 0)
        BY <1>2, <1>3 DEF Flagged
      <3> QED BY <1>2, <3>1 DEF bol
    <2>4. (Len(Kept) + Len(input) = Len(file)) = (Given = 0)
      BY <1>2
    <2>5. m = Match(rs, Text, Given = 0)
      BY <1>4, <2>4
    <2>6. Match(rs, Text, Given = 0) = <<0, 0>>
      <3>1. CASE Given = 0
        <4>1. (Given = 0) = TRUE
          BY <3>1
        <4> QED BY <2>1, <2>3, <3>1, <4>1
      <3>2. CASE Given # 0
        <4>1. (Given = 0) = FALSE
          BY <3>2
        <4> QED BY <2>1, <2>2, <4>1
      <3> QED BY <3>1, <3>2
    <2> QED BY <2>5, <2>6
  <1>8. /\ end \in Nat /\ bufp <= end /\ end <= Len(data)
        /\ end = (IF cut THEN Len(data) - 1 ELSE Len(data))
    BY <1>2, <1>3
  <1>9. Text[Len(Text)] = data[Len(data)]
    <2>1. Len(Text) \in 1..Len(Text) /\ bufp + Len(Text) = Len(data)
      BY <1>2, <1>3
    <2> QED BY <1>2, <2>1
  <1>10. out' = <<"record", Input!LastRecord>>
    <2>1. SubSeq(data, bufp + 1, end) = IF cut THEN SubSeq(Text, 1, Len(Text) - 1) ELSE Text
      <3> DEFINE k == Len(data)
                 e == end - bufp
      <3>1. k \in Nat /\ bufp <= k /\ k <= Len(data) /\ e \in Nat /\ e <= k - bufp /\ bufp + e = end
        BY <1>2, <1>8
      <3>2. Text = Window(data, bufp, k)
        BY DEF Text, Drop, Window
      <3>3. e = IF cut THEN Len(Text) - 1 ELSE Len(Text)
        BY <1>2, <1>8
      <3>4. data \in Seq(Byte) /\ bufp \in Nat
        BY <1>2
      <3> HIDE DEF k, e, end, cut
      <3>5. Window(Window(data, bufp, k), 0, e) = Window(data, bufp + 0, bufp + e)
        BY <3>1, <3>4, WindowOfWindow
      <3>6. Window(Text, 0, e) = Window(data, bufp, end)
        BY <3>1, <3>2, <3>4, <3>5
      <3>7. SubSeq(data, bufp + 1, end) = SubSeq(Text, 1, e)
        <4>1. Window(Text, 0, e) = SubSeq(Text, 0 + 1, e) /\ Window(data, bufp, end) = SubSeq(data, bufp + 1, end)
          BY DEF Window
        <4>2. 0 + 1 = 1
          OBVIOUS
        <4>3. Window(Text, 0, e) = SubSeq(Text, 1, e)
          BY ONLY <4>1, <4>2
        <4> QED BY ONLY <3>6, <4>1, <4>3
      <3>8. SubSeq(Text, 1, Len(Text)) = Text
        BY <1>2, SubSeqFull
      <3> QED BY <3>3, <3>7, <3>8
    <2>2. Input!LastRecord = IF cut THEN SubSeq(Text, 1, Len(Text) - 1) ELSE Text
      BY <1>3, <1>4, <1>9 DEF Input!LastRecord
    <2> QED BY <1>1, <2>1, <2>2
  <1> HIDE DEF end, m
  <1>11. data' \in Seq(Byte) /\ Len(data') = end
    <2>1. data \in Seq(Byte) /\ 0 \in Nat /\ end \in Nat /\ end <= Len(data) /\ 0 <= end
      BY <1>2, <1>8
    <2>2. Window(data, 0, end) \in Seq(Byte) /\ Len(Window(data, 0, end)) = end - 0
      BY <2>1, Part
    <2>3. data' = Window(data, 0, end)
      <3>1. (IF end < Len(data) THEN end ELSE Len(data)) = end
        BY <1>2, <2>1
      <3>2. Take(data, end) = SubSeq(data, 1, end)
        BY <3>1 DEF Take
      <3>3. Window(data, 0, end) = SubSeq(data, 0 + 1, end)
        BY DEF Window
      <3>4. 0 + 1 = 1
        OBVIOUS
      <3>5. Window(data, 0, end) = SubSeq(data, 1, end)
        BY ONLY <3>3, <3>4
      <3> QED BY <1>1, <3>2, <3>5
    <2> QED BY <1>8, <2>2, <2>3
  <1>12. Pos = Len(file)
    BY <1>2, <1>4, EmptySeq DEF Pos
  <1>13. /\ Placed' /\ Given' = Pos
         /\ (Kept \o input)' = <<>>
         /\ (Len(Kept) + Len(input) = Len(file))' <=> Pos = 0
         /\ input' = <<>>
    <2>1. /\ Placed /\ file' = file /\ Pos \in Nat /\ Pos <= Pos /\ Pos <= Len(file)
          /\ input' = Window(file, Pos, Len(file)) /\ bufp' = Len(data') /\ pc' # "line"
      BY <1>1, <1>2, <1>11 DEF Placed
    <2> DEFINE p == Pos
    <2>2. p \in Nat /\ Pos <= p /\ p <= Len(file) /\ input' = Window(file, p, Len(file)) /\ p = Len(file)
      BY <1>12, <2>1
    <2> HIDE DEF p, Placed, Pos, Given, Kept
    <2>3. /\ Placed' /\ Given' = p
          /\ (Kept \o input)' = Window(file, p, Len(file))
          /\ (Len(Kept) + Len(input) = Len(file))' <=> p = 0
      BY <1>11, <2>1, <2>2, AllGiven
    <2>4. (Kept \o input)' = <<>>
      <3>1. Window(file, Pos, Len(file)) = input
        BY <1>2 DEF Placed
      <3> QED BY <1>4, <2>3, <3>1 DEF p
    <2> QED BY <1>1, <1>4, <2>3, <2>4 DEF p
  <1>14. Sized'
    <2>1. size \in Nat
      BY <1>2, Multiple DEF Sized
    <2>2. Len(data') <= size'
      BY <1>1, <1>2, <1>8, <1>11, <2>1 DEF Sized
    <2> QED BY <1>1, <1>2, <2>2 DEF Sized, FullBeforeEof, AtEof
  <1>15. Flagged'
    <2>1. out' # <<"eof">> /\ AtLimit' /\ Given' > 0
      BY <1>1, <1>2, <1>3, <1>11, <1>13 DEF AtLimit
    <2> QED BY <1>1, <1>2, <1>3, <1>13, <2>1 DEF Flagged, AtEof
  <1>16. Input!Read
    <2>1. (Len(Kept) + Len(input) = Len(file))' = FALSE
      BY <1>2, <1>3, <1>13
    <2>2. (lines \/ "START" \notin flags) /\ (lines \/ "START" \notin flags)' = (lines \/ "START" \notin flags)
      BY <1>1, <1>3
    <2> HIDE DEF Kept
    <2> QED BY <1>1, <1>3, <1>7, <1>10, <1>13, <2>1, <2>2 DEF Input!Read, m
  <1> QED BY <1>13, <1>14, <1>15, <1>16 DEF FinInv

-----------------------------------------------------------------------------
(* Interactive lines.                                                      *)

\* The front of a part of a text.
LEMMA FrontPart ==
    ASSUME NEW f \in Seq(Byte), NEW a \in Nat, NEW c \in Nat, NEW l \in Nat, a <= c, c <= l, l <= Len(f)
    PROVE  SubSeq(Window(f, a, l), 1, c - a) = Window(f, a, c)
  <1>1. a <= l /\ 0 \in Nat /\ c - a \in Nat /\ 0 <= c - a /\ c - a <= l - a
    OBVIOUS
  <1>2. Window(Window(f, a, l), 0, c - a) = Window(f, a + 0, a + (c - a))
    BY <1>1, WindowOfWindow
  <1>3. a + 0 = a /\ a + (c - a) = c /\ 0 + 1 = 1
    OBVIOUS
  <1>4. Window(Window(f, a, l), 0, c - a) = SubSeq(Window(f, a, l), 0 + 1, c - a)
    BY DEF Window
  <1> QED BY ONLY <1>2, <1>3, <1>4

\* The end of the line that starts a text.
LEMMA LineEnds ==
    ASSUME NEW h \in Seq(Byte), NEW t \in Seq(Byte), \A i \in 1..Len(h) : h[i] # NL,
           NEW k \in 1..Len(t), t[k] = NL, \A j \in 1..k - 1 : t[j] # NL
    PROVE  Input!LineEnd(h \o t) = <<Len(h) + k, 1>>
  <1> DEFINE u == h \o t
             E == {i \in 1..Len(u) : u[i] = NL}
             e == Len(h) + k
  <1>1. /\ Len(u) = Len(h) + Len(t) /\ Len(h) \in Nat /\ Len(t) \in Nat
        /\ \A i \in 1..Len(u) : u[i] = IF i <= Len(h) THEN h[i] ELSE t[i - Len(h)]
    BY ConcatProperties
  <1> HIDE DEF u
  <1>2. e \in 1..Len(u) /\ u[e] = NL
    <2>1. e \in 1..Len(u) /\ ~(e <= Len(h)) /\ e - Len(h) = k
      BY <1>1
    <2> QED BY <1>1, <2>1
  <1>3. ASSUME NEW i \in E PROVE e <= i
    <2>1. i \in 1..Len(u) /\ u[i] = NL
      OBVIOUS
    <2>2. ~(i <= Len(h))
      BY <1>1, <2>1
    <2>3. i - Len(h) \in 1..Len(t) /\ t[i - Len(h)] = NL
      BY <1>1, <2>1, <2>2
    <2>4. ~(i - Len(h) \in 1..k - 1)
      BY <2>3
    <2> QED BY <1>1, <2>1, <2>3, <2>4
  <1>4. (CHOOSE i \in E : \A j \in E : i <= j) = e
    <2>1. e \in E /\ E \subseteq Nat
      BY <1>2
    <2> HIDE DEF E, e
    <2> DEFINE m == CHOOSE i \in E : \A j \in E : i <= j
    <2>2. m \in E /\ \A j \in E : m <= j
      BY <1>3, <2>1
    <2>3. m <= e /\ e <= m /\ m \in Nat /\ e \in Nat
      BY <1>3, <2>1, <2>2
    <2> QED BY <2>3
  <1>5. E # {}
    BY <1>2
  <1>6. Input!LineEnd(u) = IF E = {} THEN <<0, 0>> ELSE <<CHOOSE i \in E : \A j \in E : i <= j, 1>>
    BY DEF Input!LineEnd
  <1> HIDE DEF E, e
  <1> QED BY <1>4, <1>5, <1>6 DEF u, e

\* There is none.
LEMMA LineGoesOn ==
    ASSUME NEW t \in Seq(Byte), \A i \in 1..Len(t) : t[i] # NL
    PROVE  Input!LineEnd(t) = <<0, 0>>
  <1>1. {i \in 1..Len(t) : t[i] = NL} = {}
    OBVIOUS
  <1> QED BY <1>1 DEF Input!LineEnd

\* What fgets is called with: the part of the line that is in the buffer, and
\* room for more.
LEMMA OnLine ==
    ASSUME FinInv, lines, pc = "line" \/ (pc = "restart" /\ AtLimit)
    PROVE  /\ Kept = (IF pc = "line" THEN data ELSE <<>>)
           /\ \A i \in 1..Len(Kept) : Kept[i] # NL
           /\ Len(Kept) + BUFFSZ <= size /\ size \in Nat
  <1>1. /\ Placed /\ Sized /\ Flagged
    BY DEF FinInv
  <1>2. size \in Nat /\ size >= JUMPSZ
    BY <1>1, Multiple DEF Sized
  <1>3. CASE pc = "line"
    <2>1. Kept = data
      BY <1>3 DEF Kept
    <2>2. (\A i \in 1..Len(data) : data[i] # NL) /\ Len(data) + BUFFSZ <= size
      BY <1>1, <1>3 DEF Flagged, Sized
    <2> QED BY <1>2, <1>3, <2>1, <2>2
  <1>4. CASE pc # "line"
    <2>1. Kept = Text /\ AtLimit
      BY <1>4 DEF Kept
    <2>2. Text \in Seq(Byte) /\ Len(Text) = Len(data) - bufp /\ Len(data) \in Nat
      BY <1>1, Parts DEF Placed
    <2>3. Len(Text) = 0
      BY <2>1, <2>2 DEF AtLimit
    <2>4. Kept = <<>>
      BY <2>1, <2>2, <2>3, EmptySeq
    <2>5. Len(Kept) = 0
      BY <2>1, <2>3
    <2>6. BUFFSZ <= size
      BY <1>2, FinAssumption
    <2>7. BUFFSZ \in Nat
      BY FinAssumption
    <2> QED BY <1>2, <1>4, <2>4, <2>5, <2>6, <2>7
  <1> QED BY <1>3, <1>4

\* The line ends in what fgets read.
LEMMA LineComplete ==
    ASSUME FinInv, lines, pc # "idle", NEW k \in 1..Len(input), k <= BUFFSZ, input[k] = NL,
           \A j \in 1..k - 1 : input[j] # NL, \A i \in 1..Len(Kept) : Kept[i] # NL,
           Len(Kept) + BUFFSZ <= size, size \in Nat,
           data' = Kept \o Take(input, k - 1), input' = Drop(input, k), bufp' = Len(data'),
           pc' = "idle", out' = <<"record", data'>>, UNCHANGED <<flags, size, file, lines, rs, fault>>
    PROVE  FinInv' /\ Input!Read
  <1> DEFINE l == Len(file)
             c == Pos + (k - 1)
             p == Pos + k
             w == Window(file, Given, l)
  <1>1. /\ Placed /\ Sized /\ Flagged /\ file \in Seq(Byte) /\ l \in Nat /\ l <= Len(file)
        /\ Pos \in Nat /\ Given \in Nat /\ Pos <= l /\ Given <= Pos /\ Given <= l
        /\ Kept \in Seq(Byte) /\ input \in Seq(Byte) /\ Len(input) = l - Pos /\ Len(Kept) = Pos - Given
        /\ Kept = Window(file, Given, Pos) /\ input = Window(file, Pos, l) /\ Kept \o input = w
    BY ONLY SMTT(30), FinInv, Parts DEF FinInv, Placed
  <1>2. /\ file \in Seq(Byte) /\ l \in Nat /\ l <= Len(file)
        /\ Pos \in Nat /\ Given \in Nat /\ Pos <= l /\ Given <= Pos /\ Given <= l
    BY ONLY <1>1
  <1>3. /\ k \in Nat /\ k - 1 \in Nat /\ k <= l - Pos /\ k - 1 <= l - Pos /\ BUFFSZ \in Nat
        /\ c \in Nat /\ p \in Nat /\ Pos <= c /\ c <= p /\ p <= l /\ c = p - 1 /\ Given <= c /\ c <= l /\ p > 0
    BY <1>1, FinAssumption
  <1>4. Least(k - 1, l - Pos) = k - 1 /\ Least(k, l - Pos) = k
    BY ONLY <1>2, <1>3 DEF Least
  <1> HIDE DEF Kept, Pos, Given, l, w
  <1>5. Take(Window(file, Pos, l), k - 1) = Window(file, Pos, Pos + Least(k - 1, l - Pos))
    BY SMTT(30), <1>1, <1>3, TakeDrop
  <1>6. Drop(Window(file, Pos, l), k) = Window(file, Pos + Least(k, l - Pos), l)
    BY SMTT(30), <1>1, <1>3, TakeDrop
  <1>7. Take(input, k - 1) = Window(file, Pos, c) /\ input' = Window(file, p, l)
    BY <1>1, <1>4, <1>5, <1>6
  <1> HIDE DEF c, p
  <1>8. c \in Nat /\ Given <= c /\ Pos <= c /\ c <= l
    BY ONLY <1>3
  <1>9. data' = Window(file, Given, c)
    <2>1. Window(file, Given, Pos) \o Window(file, Pos, c) = Window(file, Given, c)
      BY ONLY SMTT(30), <1>2, <1>8, Join
    <2> QED BY <1>1, <1>7, <2>1
  <1>10. data' \in Seq(Byte) /\ Len(data') = c - Given
    <2>1. c <= Len(file)
      BY <1>2, <1>8
    <2>2. Window(file, Given, c) \in Seq(Byte) /\ Len(Window(file, Given, c)) = c - Given
      BY ONLY <1>2, <1>8, <2>1, Part
    <2> QED BY <1>9, <2>2
  <1>11. /\ Placed' /\ Given' = p
         /\ (Kept \o input)' = Window(file, p, l)
         /\ (Len(Kept) + Len(input) = Len(file))' <=> p = 0
         /\ input' = <<>> <=> p = l
    <2>1. Pos <= p /\ p <= Len(file) /\ input' = Window(file, p, Len(file)) /\ l = Len(file) /\ pc' # "line" /\ file' = file
      BY <1>1, <1>3, <1>7 DEF l
    <2> HIDE DEF Placed
    <2> QED BY <1>1, <1>3, <1>10, <2>1, AllGiven
  <1>12. Len(data') <= size
    BY <1>1, <1>3, <1>10 DEF c
  <1>13. Sized'
    BY <1>1, <1>12 DEF Sized, FullBeforeEof, AtEof
  <1>14. Flagged'
    <2>1. out' # <<"eof">> /\ AtLimit'
      BY DEF AtLimit
    <2>2. AtEof' => input' = <<>>
      <3>1. AtEof => Len(input) = 0
        BY <1>1, EmptySeq DEF Flagged
      <3> QED BY <3>1 DEF AtEof
    <2> QED BY <1>1, <2>1, <2>2 DEF Flagged
  <1>15. Input!LineEnd(Kept \o input) = <<Len(Kept) + k, 1>>
    BY <1>1, LineEnds
  <1>16. SubSeq(Kept \o input, 1, Len(Kept) + k - 1) = data'
    <2>1. SubSeq(w, 1, c - Given) = Window(file, Given, c)
      BY ONLY <1>2, <1>8, FrontPart DEF w
    <2>2. Len(Kept) + k - 1 = c - Given
      BY <1>1, <1>3 DEF c
    <2> QED BY <1>1, <1>9, <2>1, <2>2
  <1>17. SubSeq(Kept \o input, Len(Kept) + k + 1, Len(Kept \o input)) = Window(file, p, l)
    <2> DEFINE d == Len(Kept) + k
    <2>1. d \in Nat /\ d <= l - Given /\ Given + d = p /\ d = Len(Kept) + k
      BY <1>1, <1>3 DEF p
    <2> HIDE DEF d
    <2>3. d \in Nat /\ d <= l - Given
      BY ONLY <2>1
    <2>2. SubSeq(Window(file, Given, l), d + 1, Len(Window(file, Given, l))) = Window(file, Given + d, l)
      BY ONLY ZenonT(60), <1>2, <2>3, Leaves
    <2> QED BY <1>1, <2>1, <2>2 DEF w
  <1>18. Kept \o input # <<>>
    <2>9. Kept \in Seq(Byte) /\ input \in Seq(Byte)
      BY <1>1
    <2>1. Len(Kept \o input) = Len(Kept) + Len(input)
      BY ONLY <2>9
    <2> QED BY ONLY <1>1, <1>3, <2>1
  <1>19. Input!Read
    <2> DEFINE m == <<Len(Kept) + k, 1>>
    <2>1. m[1] # 0 /\ m[1] = Len(Kept) + k /\ m[2] = 1
      BY <1>1, <1>3
    <2>2. out' = <<"record", SubSeq(Kept \o input, 1, m[1] - 1)>>
      BY <1>16, <2>1
    <2>3. (Kept \o input)' = SubSeq(Kept \o input, m[1] + m[2], Len(Kept \o input))
      BY <1>11, <1>17, <2>1
    <2>4. (Len(Kept) + Len(input) = Len(file))' = FALSE
      BY <1>3, <1>11
    <2>5. (lines \/ "START" \notin flags) /\ (lines \/ "START" \notin flags)' = (lines \/ "START" \notin flags)
      OBVIOUS
    <2> HIDE DEF m
    <2>6. Input!LineEnd(Kept \o input) = m
      BY <1>15 DEF m
    <2> QED BY <1>18, <2>1, <2>2, <2>3, <2>4, <2>5, <2>6 DEF Input!Read
  <1> QED BY <1>11, <1>13, <1>14, <1>19 DEF FinInv

\* The input ends in a line that has begun.
LEMMA LineAtEnd ==
    ASSUME FinInv, lines, pc # "idle", input = <<>>, Kept # <<>>, \A i \in 1..Len(Kept) : Kept[i] # NL,
           Len(Kept) + BUFFSZ <= size, size \in Nat,
           data' = Kept, input' = <<>>, bufp' = Len(data'),
           pc' = "idle", out' = <<"record", data'>>, UNCHANGED <<flags, size, file, lines, rs, fault>>
    PROVE  FinInv' /\ Input!Read
  <1>1. /\ Placed /\ Sized /\ Flagged /\ Len(file) \in Nat
        /\ Pos \in Nat /\ Given \in Nat /\ Pos <= Len(file) /\ Given <= Pos
        /\ Kept \in Seq(Byte) /\ Len(input) = Len(file) - Pos /\ Len(Kept) = Pos - Given
        /\ input = Window(file, Pos, Len(file))
    BY ONLY FinInv, Parts DEF FinInv, Placed
  <1>2. Pos = Len(file)
    BY <1>1, EmptySeq DEF Pos
  <1>3. Pos > 0
    <2>1. Len(Kept) # 0
      BY <1>1, EmptySeq
    <2> QED BY ONLY <1>1, <2>1
  <1>4. Kept \o input = Kept
    BY <1>1, ConcatEmptySeq
  <1>5. /\ Placed' /\ Given' = Pos
        /\ (Kept \o input)' = <<>>
        /\ (Len(Kept) + Len(input) = Len(file))' <=> Pos = 0
    <2> DEFINE p == Pos
    <2>1. /\ Placed /\ file' = file /\ p \in Nat /\ Pos <= p /\ p <= Len(file)
          /\ input' = Window(file, p, Len(file)) /\ data' \in Seq(Byte) /\ pc' # "line"
      BY <1>1
    <2> HIDE DEF p, Placed, Pos, Given, Kept
    <2>2. /\ Placed' /\ Given' = p
          /\ (Kept \o input)' = Window(file, p, Len(file))
          /\ (Len(Kept) + Len(input) = Len(file))' <=> p = 0
      BY <2>1, AllGiven
    <2> QED BY <1>1, <2>2 DEF p
  <1>6. Len(data') <= size
    BY <1>1, FinAssumption
  <1>7. Sized'
    BY <1>1, <1>6 DEF Sized, FullBeforeEof, AtEof
  <1>8. Flagged'
    <2>1. out' # <<"eof">> /\ AtLimit'
      BY DEF AtLimit
    <2> QED BY <1>1, <2>1 DEF Flagged, AtEof
  <1>9. Input!LineEnd(Kept \o input) = <<0, 0>>
    BY <1>1, <1>4, LineGoesOn
  <1>10. Input!LastRecord = Kept
    BY <1>4 DEF Input!LastRecord
  <1>11. Input!Read
    <2>1. (Len(Kept) + Len(input) = Len(file))' = FALSE
      BY <1>1, <1>3, <1>5
    <2>2. (lines \/ "START" \notin flags) /\ (lines \/ "START" \notin flags)' = (lines \/ "START" \notin flags)
      OBVIOUS
    <2>3. out' = <<"record", Input!LastRecord>>
      BY <1>10
    <2>4. Kept \o input # <<>>
      BY <1>4
    <2> HIDE DEF Kept
    <2> QED BY <1>5, <1>9, <2>1, <2>2, <2>3, <2>4 DEF Input!Read
  <1> QED BY <1>5, <1>7, <1>8, <1>11 DEF FinInv

\* The line does not end in what fgets read, and the buffer grows.
LEMMA LineGrows ==
    ASSUME FinInv, lines, pc # "idle", input # <<>>, \A i \in 1..Len(Kept) : Kept[i] # NL,
           \A i \in 1..Len(Take(input, BUFFSZ)) : input[i] # NL,
           Len(Kept) + BUFFSZ <= size, size \in Nat,
           data' = Kept \o Take(input, BUFFSZ), input' = Drop(input, BUFFSZ), bufp' = 0,
           pc' = "line", size' = size + JUMPSZ, UNCHANGED <<out, flags, file, lines, rs, fault>>
    PROVE  FinInv' /\ UNCHANGED Input!vars
  <1>1. /\ Placed /\ Sized /\ Flagged /\ file \in Seq(Byte) /\ Len(file) \in Nat
        /\ Pos \in Nat /\ Given \in Nat /\ Pos <= Len(file) /\ Given <= Pos
        /\ Kept \in Seq(Byte) /\ input \in Seq(Byte) /\ Len(input) = Len(file) - Pos /\ Len(Kept) = Pos - Given
        /\ Kept = Window(file, Given, Pos) /\ input = Window(file, Pos, Len(file))
    BY ONLY FinInv, Parts DEF FinInv, Placed
  <1>2. /\ file \in Seq(Byte) /\ Pos \in Nat /\ Given \in Nat /\ Pos <= Len(file) /\ Given <= Pos
        /\ BUFFSZ \in Nat /\ BUFFSZ > 0 /\ BUFFSZ <= JUMPSZ /\ JUMPSZ \in Nat /\ JUMPSZ > 0
    BY ONLY <1>1, FinAssumption
  <1>3. PICK p \in Nat :
              /\ Pos <= p /\ p <= Len(file) /\ p = Pos + Least(BUFFSZ, Len(file) - Pos)
              /\ Window(file, Given, Pos) \o Take(Window(file, Pos, Len(file)), BUFFSZ) = Window(file, Given, p)
              /\ Drop(Window(file, Pos, Len(file)), BUFFSZ) = Window(file, p, Len(file))
              /\ Window(file, Given, p) \in Seq(Byte) /\ Len(Window(file, Given, p)) = p - Given
              /\ Drop(Window(file, Given, p), 0) = Window(file, Given, p)
    <2> HIDE DEF Pos, Given
    <2> QED BY ONLY ZenonT(60), <1>2, Fill
  <1>4. data' = Window(file, Given, p) /\ input' = Window(file, p, Len(file)) /\ Kept' = Window(file, Given, p)
    <2>1. data' = Window(file, Given, p) /\ input' = Window(file, p, Len(file))
      BY <1>1, <1>3
    <2>2. Kept' = data'
      BY DEF Kept
    <2> QED BY <2>1, <2>2
  <1>5. data' \in Seq(Byte) /\ Len(data') = p - Given /\ Given <= p /\ bufp' \in 0..Len(data')
    <2>1. data' \in Seq(Byte) /\ Len(data') = p - Given
      BY ONLY <1>3, <1>4
    <2>2. Given <= p /\ p - Given \in Nat
      BY ONLY <1>1, <1>3
    <2> QED BY <2>1, <2>2
  <1>6. /\ Placed' /\ Given' = Given
        /\ (Kept \o input)' = Window(file, Given, Len(file))
        /\ (Len(Kept) + Len(input) = Len(file))' <=> Given = 0
        /\ input' = <<>> <=> p = Len(file)
    <2>1. Placed /\ Given \in Nat /\ p <= Len(file) /\ file' = file
      BY <1>1, <1>3
    <2> HIDE DEF Placed, Kept, Pos, Given
    <2> QED BY ONLY <1>4, <1>5, <2>1, PlacedAt
  <1>7. Len(Take(input, BUFFSZ)) = p - Pos /\ Take(input, BUFFSZ) \in Seq(Byte) /\ p - Pos <= BUFFSZ /\ p > Pos
    <2>1. Len(input) > 0
      BY <1>1, EmptySeq
    <2>2. p = Pos + Least(BUFFSZ, Len(input)) /\ Pos \in Nat /\ Len(input) \in Nat
      BY ONLY <1>1, <1>3
    <2>3. Least(BUFFSZ, Len(input)) \in Nat /\ Least(BUFFSZ, Len(input)) > 0 /\ Least(BUFFSZ, Len(input)) <= BUFFSZ
          /\ Least(BUFFSZ, Len(input)) <= Len(input)
      BY ONLY <1>2, <2>1, <2>2 DEF Least
    <2>4. p - Pos = Least(BUFFSZ, Len(input)) /\ p > Pos /\ p - Pos <= BUFFSZ
      <3> HIDE DEF Pos
      <3> QED BY ONLY <2>2, <2>3
    <2>5. Take(input, BUFFSZ) = Window(input, 0, Least(BUFFSZ, Len(input)))
      BY ONLY TRUE DEF Take, Window, Least
    <2>6. input \in Seq(Byte)
      BY <1>1
    <2> DEFINE e == Least(BUFFSZ, Len(input))
    <2>7. e \in Nat /\ 0 <= e /\ e <= Len(input) /\ 0 \in Nat
      BY ONLY <2>3
    <2> HIDE DEF e
    <2>8. Window(input, 0, e) \in Seq(Byte) /\ Len(Window(input, 0, e)) = e - 0
      BY ONLY <2>6, <2>7, Part
    <2>9. e - 0 = e
      BY ONLY <2>7
    <2> QED BY ONLY <2>4, <2>5, <2>8, <2>9 DEF e
  <1>8. ASSUME NEW i \in 1..Len(data') PROVE data'[i] # NL
    <2> DEFINE r == Take(input, BUFFSZ)
    <2>1. Kept \in Seq(Byte) /\ r \in Seq(Byte) /\ data' = Kept \o r /\ Len(r) = p - Pos /\ Len(Kept) = Pos - Given
          /\ Len(data') = p - Given /\ Pos \in Nat /\ Given \in Nat /\ Given <= Pos
      BY <1>1, <1>5, <1>7
    <2>2. \A j \in 1..Len(r) : r[j] = input[j]
      <3>1. input \in Seq(Byte)
        BY <1>1
      <3> QED BY ONLY <1>2, <3>1 DEF Take
    <2> HIDE DEF r, Kept, Pos, Given
    <2>3. CASE i <= Len(Kept)
      <3>1. (Kept \o r)[i] = Kept[i] /\ i \in 1..Len(Kept)
        BY ONLY <2>1, <2>3, i \in 1..Len(data')
      <3> QED BY <2>1, <3>1
    <2>4. CASE ~(i <= Len(Kept))
      <3>1. i - Len(Kept) \in 1..Len(r) /\ (Kept \o r)[i] = r[i - Len(Kept)]
        BY ONLY <2>1, <2>4, i \in 1..Len(data')
      <3>2. r[i - Len(Kept)] = input[i - Len(Kept)] /\ input[i - Len(Kept)] # NL
        BY <2>2, <3>1 DEF r
      <3> QED BY <2>1, <3>1, <3>2
    <2> QED BY <2>3, <2>4
  <1>9. Len(data') + BUFFSZ <= size' /\ Len(data') <= size' /\ Len(data') > 0
    <2>1. Len(data') = p - Given /\ Len(Kept) = Pos - Given /\ size' = size + JUMPSZ /\ Len(Kept) + BUFFSZ <= size /\ size \in Nat
      BY <1>1, <1>5
    <2> HIDE DEF Kept, Pos, Given
    <2>2. p - Pos <= BUFFSZ /\ p > Pos
      BY <1>7
    <2> QED BY ONLY <1>2, <2>1, <2>2
  <1>10. Sized'
    <2>1. \E m \in Nat \ {0} : size' = m * JUMPSZ
      BY <1>1, Multiple DEF Sized
    <2> QED BY <1>1, <1>9, <2>1 DEF Sized, FullBeforeEof, AtEof
  <1>11. Flagged'
    <2>1. data' # <<>>
      BY <1>9, EmptySeq
    <2>2. AtEof' => input' = <<>>
      <3>1. AtEof => input = <<>>
        BY <1>1 DEF Flagged
      <3> QED BY <3>1 DEF AtEof
    <2> QED BY <1>1, <1>8, <2>1, <2>2 DEF Flagged
  <1>12. UNCHANGED Input!vars
    BY <1>1, <1>6, Unseen
  <1> QED BY <1>6, <1>10, <1>11, <1>12 DEF FinInv

\* One call of fgets.
LEMMA StepGetLine ==
    ASSUME FinInv, GetLine
    PROVE  FinInv' /\ (Input!Read \/ UNCHANGED Input!vars)
  <1> DEFINE had == IF pc = "line" THEN data ELSE <<>>
             X == Take(input, BUFFSZ)
             nl == {i \in 1..Len(X) : input[i] = NL}
             k == IF nl = {} THEN BUFFSZ ELSE CHOOSE i \in nl : \A j \in nl : i <= j
             t == had \o Take(input, IF nl = {} THEN k ELSE k - 1)
             nul == \E i \in 1..Len(Take(input, k)) : input[i] = NUL
  <1>1. CASE nul
    <2>1. Fault("nul")
      BY <1>1 DEF GetLine
    <2> QED BY <2>1, StepFaults
  <1>2. CASE ~nul
    <2>1. /\ lines /\ (pc = "line" \/ (pc = "restart" /\ AtLimit)) /\ pc # "idle"
          /\ \/ /\ input = <<>> /\ had = <<>>
                /\ flags' = flags \cup {"EOF"} /\ data' = <<>> /\ bufp' = 0
                /\ pc' = "restart" /\ UNCHANGED <<input, size, out, file, lines, rs, fault>>
             \/ /\ ~(input = <<>> /\ had = <<>>)
                /\ data' = t /\ input' = Drop(input, k) /\ UNCHANGED <<flags, file, lines, rs, fault>>
                /\ \/ /\ nl # {} \/ input = <<>>
                      /\ bufp' = Len(t) /\ pc' = "idle" /\ out' = <<"record", t>> /\ UNCHANGED size
                   \/ /\ nl = {} /\ input # <<>>
                      /\ size' = size + JUMPSZ /\ pc' = "line" /\ bufp' = 0 /\ UNCHANGED out
      BY <1>2 DEF GetLine, Restart, Return, Fine
    <2>2. /\ Kept = had /\ (\A i \in 1..Len(Kept) : Kept[i] # NL)
          /\ Len(Kept) + BUFFSZ <= size /\ size \in Nat
      BY <2>1, OnLine
    <2>3. /\ Placed /\ Sized /\ Flagged /\ input \in Seq(Byte) /\ Len(input) \in Nat
          /\ Kept \in Seq(Byte) /\ BUFFSZ \in Nat /\ BUFFSZ > 0
      BY ONLY FinInv, Parts, FinAssumption DEF FinInv
    <2> HIDE DEF nul, had
    <2>4. CASE input = <<>> /\ had = <<>>
      <3>1. /\ flags' = flags \cup {"EOF"} /\ data' = <<>> /\ bufp' = 0 /\ input = <<>>
            /\ pc' = "restart" /\ UNCHANGED <<input, size, out, file, lines, rs, fault>>
        BY <2>1, <2>4
      <3>2. pc # "line" /\ AtLimit
        BY <2>1, <2>3, <2>4 DEF Flagged, had
      <3>3. /\ Placed' /\ Given' = Given
            /\ (Kept \o input)' = Window(file, Given, Len(file))
            /\ (Len(Kept) + Len(input) = Len(file))' <=> Given = 0
        BY <3>1, <3>2, Emptied
      <3>4. Len(data') = 0 /\ Len(data) \in Nat
        BY <2>3, <3>1, EmptySeq DEF Placed
      <3>5. Sized'
        BY <2>2, <2>3, <3>1, <3>4, <2>1 DEF Sized, FullBeforeEof, AtEof
      <3>6. Flagged'
        BY <2>1, <2>3, <3>1, <3>3, <3>4 DEF Flagged, AtLimit, AtEof
      <3>7. UNCHANGED Input!vars
        BY <2>1, <2>3, <3>1, <3>3, Unseen
      <3> QED BY <3>3, <3>5, <3>6, <3>7 DEF FinInv
    <2>5. CASE nl # {}
      <3>1. /\ data' = t /\ input' = Drop(input, k) /\ UNCHANGED <<flags, file, lines, rs, fault>>
            /\ bufp' = Len(t) /\ pc' = "idle" /\ out' = <<"record", t>> /\ UNCHANGED size
        <4>1. input # <<>>
          <5>1. ASSUME input = <<>> PROVE Len(X) = 0
            BY <5>1, SubSeqEmpty, EmptySeq, <2>3 DEF Take
          <5> QED BY <2>5, <5>1
        <4> QED BY <2>1, <2>5, <4>1
      <3>2. Len(X) \in Nat /\ Len(X) <= BUFFSZ /\ Len(X) <= Len(input)
        <4>1. X = Window(input, 0, Least(BUFFSZ, Len(input)))
          BY ONLY TRUE DEF Take, Window, Least
        <4> DEFINE e == Least(BUFFSZ, Len(input))
        <4>2. e \in Nat /\ 0 <= e /\ e <= Len(input) /\ 0 \in Nat /\ e <= BUFFSZ /\ e - 0 = e
          BY ONLY <2>3 DEF Least
        <4> HIDE DEF e
        <4>3. Len(Window(input, 0, e)) = e - 0
          BY ONLY <2>3, <4>2, Part
        <4> QED BY ONLY <4>1, <4>2, <4>3 DEF e
      <3>3. nl \subseteq Nat
        BY <3>2
      <3>4. PICK x \in nl : \A y \in nl : x <= y
        <4> HIDE DEF nl
        <4> QED BY ONLY <2>5, <3>3, LeastNat
      <3>5. k \in nl /\ \A y \in nl : k <= y
        <4> HIDE DEF nl
        <4> QED BY <2>5, <3>4
      <3>6. t = had \o Take(input, k - 1)
        BY <2>5
      <3> HIDE DEF k, t
      <3>7. k \in 1..Len(input) /\ k <= BUFFSZ /\ input[k] = NL
        BY <2>3, <3>2, <3>5
      <3>8. \A j \in 1..k - 1 : input[j] # NL
        <4>1. ASSUME NEW j \in 1..k - 1, input[j] = NL PROVE FALSE
          <5>1. j \in 1..Len(X) /\ ~(k <= j)
            BY <3>2, <3>5, <3>7
          <5> QED BY <3>5, <4>1, <5>1
        <4> QED BY <4>1
      <3>9. FinInv' /\ Input!Read
        <4>1. data' = Kept \o Take(input, k - 1) /\ bufp' = Len(data') /\ out' = <<"record", data'>>
          BY <2>2, <3>1, <3>6
        <4> HIDE DEF Kept
        <4> QED BY <2>1, <2>2, <3>1, <3>7, <3>8, <4>1, LineComplete
      <3> QED BY <3>9
    <2>6. CASE nl = {} /\ input = <<>> /\ had # <<>>
      <3>1. /\ data' = t /\ input' = Drop(input, k) /\ UNCHANGED <<flags, file, lines, rs, fault>>
            /\ bufp' = Len(t) /\ pc' = "idle" /\ out' = <<"record", t>> /\ UNCHANGED size
        BY <2>1, <2>6
      <3>2. k = BUFFSZ /\ Take(input, k) = <<>> /\ Drop(input, k) = <<>>
        BY <2>3, <2>6, SubSeqEmpty, EmptySeq DEF Take, Drop
      <3>3. t = had
        BY <2>2, <2>3, <2>6, <3>2, ConcatEmptySeq
      <3> HIDE DEF t, k, nl
      <3>4. FinInv' /\ Input!Read
        <4>1. data' = Kept /\ input' = <<>> /\ bufp' = Len(data') /\ out' = <<"record", data'>> /\ Kept # <<>>
          BY <2>2, <2>6, <3>1, <3>2, <3>3
        <4> HIDE DEF Kept
        <4> QED BY <2>1, <2>2, <2>6, <3>1, <4>1, LineAtEnd
      <3> QED BY <3>4
    <2>7. CASE nl = {} /\ input # <<>>
      <3>1. /\ data' = t /\ input' = Drop(input, k) /\ UNCHANGED <<flags, file, lines, rs, fault, out>>
            /\ size' = size + JUMPSZ /\ pc' = "line" /\ bufp' = 0
        BY <2>1, <2>7
      <3>2. k = BUFFSZ /\ t = had \o Take(input, BUFFSZ) /\ \A i \in 1..Len(X) : input[i] # NL
        BY <2>7
      <3> HIDE DEF t, k, nl
      <3>3. FinInv' /\ UNCHANGED Input!vars
        <4>1. data' = Kept \o Take(input, BUFFSZ) /\ input' = Drop(input, BUFFSZ)
          BY <2>2, <3>1, <3>2
        <4> HIDE DEF Kept
        <4> QED BY <2>1, <2>2, <2>7, <3>1, <3>2, <4>1, LineGrows
      <3> QED BY <3>3
    <2> QED BY <2>4, <2>5, <2>6, <2>7
  <1> QED BY <1>1, <1>2

-----------------------------------------------------------------------------
(* The theorems.                                                           *)

\* FINdopen: nothing has been read, and the text is what AwkInput starts with.
LEMMA StepOpens ==
    ASSUME Init
    PROVE  FinInv /\ Input!Init
  <1>1. /\ file \in Files /\ file \in Seq(Byte) /\ Len(file) \in Nat /\ input = file
        /\ data = <<>> /\ bufp = 0 /\ size = JUMPSZ /\ flags = {"START"} /\ lines \in BOOLEAN
        /\ rs \in Seps /\ pc = "idle" /\ out = <<"none">> /\ fault = "none"
    BY FinAssumption DEF Init
  <1>2. Kept = <<>>
    BY <1>1, SubSeqEmpty, EmptySeq DEF Kept, Text, Drop
  <1>3. Pos = 0 /\ Given = 0
    <2>1. Pos = 0
      BY <1>1 DEF Pos
    <2>2. Len(Kept) = 0
      BY <1>2, EmptySeq
    <2> QED BY <2>1, <2>2 DEF Given
  <1>4. input = Window(file, 0, Len(file)) /\ Kept = Window(file, 0, 0)
    <2>1. Window(file, 0, Len(file)) = file
      BY <1>1, SubSeqFull DEF Window
    <2>2. Window(file, 0, 0) = <<>>
      BY <1>1, SubSeqEmpty DEF Window
    <2> QED BY <1>1, <1>2, <2>1, <2>2
  <1>5. Placed
    <2>1. data \in Seq(Byte) /\ bufp \in 0..Len(data)
      BY <1>1, EmptySeq
    <2>2. Pos \in 0..Len(file) /\ Given \in 0..Pos
      BY <1>1, <1>3
    <2>3. input = Window(file, Pos, Len(file)) /\ Kept = Window(file, Given, Pos)
      BY ONLY <1>3, <1>4
    <2> QED BY ONLY <1>1, <2>1, <2>2, <2>3 DEF Placed
  <1>6. Sized
    <2>1. JUMPSZ \in Nat \ {0} /\ size = 1 * JUMPSZ
      BY <1>1, FinAssumption
    <2>2. \E m \in Nat \ {0} : size = m * JUMPSZ
      BY <2>1
    <2>3. Len(data) <= size
      BY <1>1, <2>1, EmptySeq
    <2> QED BY <1>1, <2>2, <2>3 DEF Sized, FullBeforeEof
  <1>7. Flagged
    BY <1>1, EmptySeq DEF Flagged, AtEof, AtLimit
  <1>8. Input!Init
    <2>1. Kept \o input = file
      BY <1>1, <1>2, ConcatEmptySeq
    <2>2. (Len(Kept) + Len(input) = Len(file)) = TRUE
      BY <1>1, <1>2, EmptySeq
    <2>3. (lines \/ "START" \notin flags) = lines
      BY <1>1
    <2> QED BY <1>1, <2>1, <2>2, <2>3 DEF Input!Init
  <1> QED BY <1>5, <1>6, <1>7, <1>8 DEF FinInv

\* No step is taken after a read that failed.
LEMMA StepLives ==
    ASSUME Dead, Next
    PROVE  out # <<"read error">> /\ Dead'
  <1>1. pc # "exit"
    BY DEF Next, Step, Call, Available, EndOfFile, RefillEmpty, Refill, GetLine, Record, LastRecord,
           Enlarge, Move, ReadError, FINsemi_close, AssignRS, Restart, Retry
  <1>2. out # <<"read error">>
    BY <1>1 DEF Dead
  <1>3. CASE ReadError
    BY <1>2, <1>3 DEF ReadError, Dead
  <1>4. CASE ~ReadError
    <2>1. "eof" # "read error" /\ \A t : Len(<<"record", t>>) = 2 /\ Len(<<"read error">>) = 1
      OBVIOUS
    <2>2. <<"eof">> # <<"read error">> /\ \A t : <<"record", t>> # <<"read error">>
      BY <2>1
    <2>3. out' = out \/ out' = <<"eof">> \/ \E t : out' = <<"record", t>>
      <3>1. ASSUME NEW b \in Beyond, Record(b) \/ LastRecord(b) \/ Enlarge(b) \/ Move(b)
            PROVE  out' = out \/ \E t : out' = <<"record", t>>
        BY <3>1, Zenon DEF Record, LastRecord, Enlarge, Move, Return, Fault
      <3>2. GetLine \/ Refill => out' = out \/ \E t : out' = <<"record", t>>
        BY Zenon DEF GetLine, Refill, Return, Fault
      <3>3. Call \/ Available \/ EndOfFile \/ RefillEmpty \/ FINsemi_close \/ (\E v \in Seps : AssignRS(v))
              => out' = out \/ out' = <<"eof">>
        BY Zenon DEF Call, Available, EndOfFile, RefillEmpty, FINsemi_close, AssignRS, Return
      <3> QED BY <1>4, <3>1, <3>2, <3>3 DEF Next, Step
    <2> QED BY <1>2, <2>2, <2>3 DEF Dead
  <1> QED BY <1>2, <1>3, <1>4

\* A read that fails.
LEMMA StepFails ==
    ASSUME FinInv, ReadError
    PROVE  FinInv' /\ Input!Fail
  <1>1. /\ ~lines /\ pc # "line" /\ pc' = "exit" /\ out' = <<"read error">>
        /\ UNCHANGED <<input, data, bufp, size, flags, file, lines, rs, fault>>
    BY DEF ReadError, Restart, Retry, Fine
  <1>2. Kept' = Kept
    BY <1>1 DEF Kept, Text
  <1>3. Placed' /\ Given' = Given
    BY <1>1, <1>2, PlacedSame DEF FinInv
  <1>4. Sized'
    BY <1>1 DEF FinInv, Sized, FullBeforeEof, AtEof
  <1>5. Flagged'
    BY <1>1, <1>3 DEF FinInv, Flagged, AtLimit, AtEof
  <1>6. Input!Fail
    BY <1>1, <1>2 DEF Input!Fail
  <1> QED BY <1>3, <1>4, <1>5, <1>6 DEF FinInv

\* Every step keeps the invariant, and is a step of AwkInput or none.
LEMMA StepReads ==
    ASSUME FinInv, Dead, [Next]_vars
    PROVE  FinInv' /\ Dead' /\ [Input!Next]_Input!vars
  <1>0. /\ Next => out # <<"read error">> /\ Dead'
        /\ UNCHANGED vars => Dead'
    BY StepLives DEF vars, Dead
  <1>1. CASE Call \/ Available
    BY <1>1, <1>0, StepCalls DEF Next, Step
  <1>2. CASE EndOfFile
    BY <1>2, <1>0, StepEnds DEF Input!Next, Next, Step
  <1>3. CASE RefillEmpty \/ FINsemi_close
    BY <1>3, <1>0, StepEmpties DEF Next, Step
  <1>4. CASE Refill
    BY <1>4, <1>0, StepRefill DEF Input!Next, Next, Step
  <1>5. CASE GetLine
    BY <1>5, <1>0, StepGetLine DEF Input!Next, Next, Step
  <1>6. ASSUME NEW b \in Beyond, Record(b) \/ LastRecord(b) \/ Enlarge(b) \/ Move(b)
        PROVE  FinInv' /\ [Input!Next]_Input!vars
    <2>1. CASE Record(b)
      BY <2>1, <1>0, StepRecord DEF Input!Next, Next, Step
    <2>2. CASE LastRecord(b)
      BY <2>2, <1>0, StepLastRecord DEF Input!Next, Next, Step
    <2>3. CASE Enlarge(b) \/ Move(b)
      BY <2>3, StepFills
    <2> QED BY <1>6, <2>1, <2>2, <2>3
  <1>7. ASSUME NEW v \in Seps, AssignRS(v)
        PROVE  FinInv' /\ [Input!Next]_Input!vars
    BY <1>7, <1>0, StepAssigns DEF Input!Next, Next
  <1>9. CASE ReadError
    BY <1>9, <1>0, StepFails DEF Input!Next, Next
  <1>8. CASE UNCHANGED vars
    <2>1. UNCHANGED <<file, input, lines, data, bufp, size, flags, rs, pc, out, fault>>
      BY <1>8 DEF vars
    <2>2. Kept' = Kept
      BY <2>1 DEF Kept, Text
    <2>3. Placed' /\ Given' = Given
      BY <2>1, <2>2, PlacedSame DEF FinInv
    <2>4. Sized'
      BY <2>1 DEF FinInv, Sized, FullBeforeEof, AtEof
    <2>5. Flagged'
      BY <2>1, <2>3 DEF FinInv, Flagged, AtLimit, AtEof
    <2>6. UNCHANGED Input!vars
      BY <2>1, <2>2 DEF Input!vars
    <2> QED BY <1>0, <1>8, <2>3, <2>4, <2>5, <2>6 DEF FinInv
  <1> QED BY <1>0, <1>1, <1>2, <1>3, <1>4, <1>5, <1>6, <1>7, <1>8, <1>9 DEF Next, Step

\* What the invariant says of the fields of FIN.
LEMMA FieldsFit == ASSUME FinInv PROVE BufferConsistent
  <1>1. Placed /\ Sized
    BY DEF FinInv
  <1>2. size \in Nat /\ size >= JUMPSZ /\ size % JUMPSZ = 0
    BY <1>1, Multiple, NoRemainder DEF Sized
  <1> QED BY <1>1, <1>2 DEF Placed, Sized, BufferConsistent, TypeOK

\* The buffer, its size, limit and flags fit together, and it is full until the
\* end of the input is seen.
THEOREM BufferFits == Spec => []BufferConsistent
  <1>1. Init => FinInv /\ Dead
    BY StepOpens DEF Init, Dead
  <1>2. FinInv /\ Dead /\ [Next]_vars => FinInv' /\ Dead'
    BY StepReads
  <1>3. FinInv => BufferConsistent
    BY FieldsFit
  <1> QED BY <1>1, <1>2, <1>3, PTL DEF Spec

\* The records are those of the whole text, whatever the sizes of the buffer and
\* of a read: Fin implements AwkInput.
THEOREM FinImplements == Spec => ReadsTheText
  <1>1. Init => FinInv /\ Dead /\ Input!Init
    BY StepOpens DEF Init, Dead
  <1>2. FinInv /\ Dead /\ [Next]_vars => FinInv' /\ Dead' /\ [Input!Next]_Input!vars
    BY StepReads
  <1> QED BY <1>1, <1>2, PTL DEF Spec, ReadsTheText, Input!Spec

=============================================================================
