-------------------------------- MODULE Facts --------------------------------
(***************************************************************************)
(* Facts about numbers and sequences that the proofs about several         *)
(* components use.  Induction is stated over a set instead of a predicate. *)
(***************************************************************************)
EXTENDS Integers, Sequences, SequencesExt, WellFoundedInduction, SequenceTheorems, TLAPS

\* A set of natural numbers has a least element.
LEMMA LeastNat ==
    ASSUME NEW S, S \subseteq Nat, S # {}
    PROVE  \E x \in S : \A y \in S : x <= y
  <1>1. OpToRel(<, Nat) = {p \in Nat \X Nat : p[1] < p[2]}
    BY DEF OpToRel
  <1>2. PICK x \in S : \A y \in S : ~(<<y, x>> \in OpToRel(<, Nat))
    BY NatLessThanWellFounded, WFMin
  <1>3. \A y \in S : ~(y < x)
    BY <1>1, <1>2
  <1> QED BY <1>3

\* A set that has 0, and the successor of each of its numbers, has them all.
LEMMA NatAll ==
    ASSUME NEW T, 0 \in T, \A n \in Nat : n \in T => n + 1 \in T
    PROVE  Nat \subseteq T
  <1> SUFFICES ASSUME Nat \ T # {} PROVE FALSE
    OBVIOUS
  <1>1. PICK x \in Nat \ T : \A y \in Nat \ T : x <= y
    BY LeastNat, Nat \ T \subseteq Nat
  <1>2. x # 0 /\ x - 1 \in Nat /\ x - 1 \in T
    BY <1>1
  <1> QED BY <1>1, <1>2

\* A sequence without its i-th element.
LEMMA RemoveAtProps ==
    ASSUME NEW S, NEW s \in Seq(S), NEW i \in 1..Len(s)
    PROVE  /\ RemoveAt(s, i) \in Seq(S)
           /\ Len(RemoveAt(s, i)) = Len(s) - 1
           /\ \A j \in 1..Len(s) - 1 : RemoveAt(s, i)[j] = IF j < i THEN s[j] ELSE s[j + 1]
  <1> DEFINE f == SubSeq(s, 1, i - 1)
             b == SubSeq(s, i + 1, Len(s))
  <1>1. f \in Seq(S) /\ Len(f) = i - 1 /\ \A j \in 1..i - 1 : f[j] = s[j]
    OBVIOUS
  <1>2. b \in Seq(S) /\ Len(b) = Len(s) - i /\ \A j \in 1..Len(s) - i : b[j] = s[j + i]
    OBVIOUS
  <1>3. RemoveAt(s, i) = f \o b
    BY DEF RemoveAt
  <1> HIDE DEF f, b
  <1>4. /\ f \o b \in Seq(S) /\ Len(f \o b) = Len(s) - 1
        /\ \A j \in 1..Len(s) - 1 : (f \o b)[j] = IF j <= i - 1 THEN f[j] ELSE b[j - (i - 1)]
    BY <1>1, <1>2, ConcatProperties
  <1>5. ASSUME NEW j \in 1..Len(s) - 1 
        PROVE  (f \o b)[j] = IF j < i THEN s[j] ELSE s[j + 1]
    <2>1. CASE j < i
      BY <2>1, <1>1, <1>4
    <2>2. CASE ~(j < i)
      <3>1. j - (i - 1) \in 1..Len(s) - i /\ (j - (i - 1)) + i = j + 1
        BY <2>2
      <3> QED BY <2>2, <3>1, <1>2, <1>4
    <2> QED BY <2>1, <2>2
  <1> QED BY <1>3, <1>4, <1>5

\* A sequence with an element in front.
LEMMA PrependProps ==
    ASSUME NEW S, NEW s \in Seq(S), NEW x \in S
    PROVE  /\ <<x>> \o s \in Seq(S)
           /\ Len(<<x>> \o s) = Len(s) + 1
           /\ \A j \in 1..Len(s) + 1 : (<<x>> \o s)[j] = IF j = 1 THEN x ELSE s[j - 1]
  OBVIOUS

\* The least of some numbers.
LEMMA MinProps ==
    ASSUME NEW S, S \subseteq Nat, S # {}
    PROVE  Min(S) \in S /\ \A y \in S : Min(S) <= y
  BY LeastNat DEF Min

\* The greatest of some numbers that have a bound.
LEMMA MaxProps ==
    ASSUME NEW S, S \subseteq Nat, S # {}, NEW n \in Nat, \A y \in S : y <= n
    PROVE  Max(S) \in S /\ \A y \in S : y <= Max(S)
  <1> DEFINE T == {n - y : y \in S}
  <1>0. T \subseteq Nat /\ T # {}
    <2>1. ASSUME NEW y \in S PROVE n - y \in Nat
      <3>1. y \in Nat /\ y <= n
        OBVIOUS
      <3> QED BY <3>1
    <2>2. PICK y \in S : TRUE
      OBVIOUS
    <2>3. n - y \in T
      OBVIOUS
    <2> QED BY <2>1, <2>3
  <1>1. PICK d \in T : \A e \in T : d <= e
    <2> HIDE DEF T
    <2> QED BY <1>0, LeastNat
  <1>2. PICK x \in S : d = n - x
    OBVIOUS
  <1>3. ASSUME NEW y \in S PROVE x >= y
    <2>1. n - y \in T
      OBVIOUS
    <2>2. d <= n - y
      BY <1>1, <2>1
    <2> QED BY <1>2, <2>2
  <1>4. Max(S) \in S /\ \A y \in S : Max(S) >= y
    BY <1>2, <1>3 DEF Max
  <1> QED BY <1>4

\* A number of them that none exceeds is the greatest.
LEMMA MaxIs ==
    ASSUME NEW S, S \subseteq Nat, NEW x \in S, \A y \in S : y <= x
    PROVE  Max(S) = x
  <1>1. x \in Nat /\ S # {}
    OBVIOUS
  <1>2. Max(S) \in S /\ \A y \in S : y <= Max(S)
    BY <1>1, MaxProps
  <1>3. Max(S) <= x /\ x <= Max(S) /\ Max(S) \in Nat
    BY <1>2
  <1> QED BY <1>1, <1>3

\* What is left of a sequence behind its k-th element.
LEMMA RestProps ==
    ASSUME NEW S, NEW s \in Seq(S), NEW k \in 0..Len(s)
    PROVE  /\ SubSeq(s, k + 1, Len(s)) \in Seq(S)
           /\ Len(SubSeq(s, k + 1, Len(s))) = Len(s) - k
           /\ SubSeq(s, k + 1, Len(s)) = <<>> <=> k = Len(s)
           /\ k < Len(s) => /\ Head(SubSeq(s, k + 1, Len(s))) = s[k + 1]
                            /\ Tail(SubSeq(s, k + 1, Len(s))) = SubSeq(s, k + 2, Len(s))
           /\ \A d \in 0..Len(s) - k :
                SubSeq(SubSeq(s, k + 1, Len(s)), d + 1, Len(s) - k) = SubSeq(s, k + d + 1, Len(s))
  <1>1. /\ SubSeq(s, k + 1, Len(s)) \in Seq(S)
        /\ Len(SubSeq(s, k + 1, Len(s))) = Len(s) - k
    BY SubSeqProperties
  <1>2. SubSeq(s, k + 1, Len(s)) = <<>> <=> k = Len(s)
    <2>1. CASE k = Len(s)
      BY <2>1, SubSeqEmpty
    <2>2. CASE k # Len(s)
      <3> DEFINE r == SubSeq(s, k + 1, Len(s))
      <3>1. Len(r) # 0
        BY <1>1, <2>2
      <3> HIDE DEF r
      <3>2. r # <<>>
        BY <3>1
      <3> QED BY <3>2, <2>2 DEF r
    <2> QED BY <2>1, <2>2
  <1>3. ASSUME k < Len(s)
        PROVE  /\ Head(SubSeq(s, k + 1, Len(s))) = s[k + 1]
               /\ Tail(SubSeq(s, k + 1, Len(s))) = SubSeq(s, k + 2, Len(s))
    BY <1>3, HeadTailOfSubSeq
  <1>4. ASSUME NEW d \in 0..Len(s) - k
        PROVE  SubSeq(SubSeq(s, k + 1, Len(s)), d + 1, Len(s) - k) = SubSeq(s, k + d + 1, Len(s))
    BY <1>4, SubSeqOfSubSeq
  <1> QED BY <1>1, <1>2, <1>3, <1>4

\* A part of a sequence, from behind its a-th to its b-th element.
Window(f, a, b) == SubSeq(f, a + 1, b)

\* Its length and its elements.
LEMMA WindowProps ==
    ASSUME NEW S, NEW f \in Seq(S), NEW a \in Nat, NEW b \in Nat, a <= b, b <= Len(f)
    PROVE  /\ Window(f, a, b) \in Seq(S)
           /\ Len(Window(f, a, b)) = b - a
           /\ \A i \in 1..b - a : Window(f, a, b)[i] = f[a + i]
           /\ Window(f, a, b) = <<>> <=> a = b
  <1> DEFINE w == Window(f, a, b)
  <1>1. \A i \in a + 1..b : f[i] \in S
    OBVIOUS
  <1>2. /\ w \in Seq(S) /\ Len(w) = IF a + 1 <= b THEN b - (a + 1) + 1 ELSE 0
        /\ \A i \in 1..b - (a + 1) + 1 : w[i] = f[(a + 1) + i - 1]
    BY <1>1, SubSeqProperties DEF Window
  <1> HIDE DEF w
  <1>3. Len(w) = b - a /\ \A i \in 1..b - a : w[i] = f[a + i]
    BY <1>2
  <1>4. w = <<>> <=> a = b
    BY <1>2, <1>3, EmptySeq
  <1> QED BY <1>2, <1>3, <1>4 DEF w

\* Two parts that meet make one.
LEMMA WindowJoin ==
    ASSUME NEW S, NEW f \in Seq(S), NEW a \in Nat, NEW b \in Nat, NEW c \in Nat,
           a <= b, b <= c, c <= Len(f)
    PROVE  Window(f, a, b) \o Window(f, b, c) = Window(f, a, c)
  BY ConcatAdjacentSubSeq DEF Window

\* A part of a part.
LEMMA WindowOfWindow ==
    ASSUME NEW S, NEW f \in Seq(S), NEW a \in Nat, NEW b \in Nat, a <= b, b <= Len(f),
           NEW i \in Nat, NEW j \in Nat, i <= j, j <= b - a
    PROVE  Window(Window(f, a, b), i, j) = Window(f, a + i, a + j)
  <1> DEFINE w == Window(f, a, b)
             u == Window(w, i, j)
             c == a + i
             d == a + j
             v == Window(f, c, d)
  <1>1. w \in Seq(S)
    BY WindowProps
  <1>2. Len(w) = b - a
    BY WindowProps
  <1>3. \A k \in 1..b - a : w[k] = f[a + k]
    BY WindowProps
  <1>4. c \in Nat /\ d \in Nat /\ c <= d /\ d <= Len(f) /\ d - c = j - i /\ c = a + i
    OBVIOUS
  <1> HIDE DEF c, d
  <1>5. v \in Seq(S)
    BY <1>4, WindowProps
  <1>6. Len(v) = d - c
    BY <1>4, WindowProps
  <1>7. \A k \in 1..d - c : v[k] = f[c + k]
    BY <1>4, WindowProps
  <1> HIDE DEF v, w
  <1>8. j <= Len(w)
    BY <1>2
  <1>9. u \in Seq(S)
    BY <1>1, <1>8, WindowProps
  <1>10. Len(u) = j - i
    BY <1>1, <1>8, WindowProps
  <1>11. \A k \in 1..j - i : u[k] = w[i + k]
    BY SMTT(30), ZenonT(30), <1>1, <1>8, WindowProps
  <1> HIDE DEF u
  <1>12. ASSUME NEW k \in 1..Len(u) PROVE u[k] = v[k]
    <2>1. k \in 1..j - i /\ i + k \in 1..b - a /\ k \in 1..d - c
      BY <1>4, <1>10
    <2>2. u[k] = f[a + (i + k)]
      BY <1>3, <1>11, <2>1
    <2>3. v[k] = f[c + k] /\ c + k = a + (i + k)
      BY <1>4, <1>7, <2>1
    <2> QED BY <2>2, <2>3
  <1>13. Len(u) = Len(v)
    BY <1>4, <1>6, <1>10
  <1>14. u = v
    BY <1>5, <1>9, <1>12, <1>13, SeqEqual
  <1> QED BY <1>14 DEF u, v, w, c, d

-----------------------------------------------------------------------------
(* Recursive functions.                                                    *)

\* f follows the recursion for n steps, or for ever.
Steps(f, n, D, f0, h) == f \in [0..n -> D] /\ f[0] = f0 /\ \A i \in 1..n : f[i] = h[<<i, f[i - 1]>>]

Follows(f, D, f0, h) == f \in [Nat -> D] /\ f[0] = f0 /\ \A i \in Nat \ {0} : f[i] = h[<<i, f[i - 1]>>]

\* A recursive function on the natural numbers whose values are in D exists.
LEMMA Recursion ==
    ASSUME NEW D, NEW f0 \in D, NEW h \in [Nat \X D -> D]
    PROVE  \E f : Follows(f, D, f0, h)
  <1> DEFINE T == {n \in Nat : \E f : Steps(f, n, D, f0, h)}
             U == {n \in Nat : \A m, k \in Nat : \A f, g :
                      n <= m /\ n <= k /\ Steps(f, m, D, f0, h) /\ Steps(g, k, D, f0, h) => f[n] = g[n]}
  <1>1. 0 \in T
    <2>1. Steps([i \in 0..0 |-> f0], 0, D, f0, h)
      BY DEF Steps
    <2> QED BY <2>1
  <1>2. ASSUME NEW n \in Nat, n \in T PROVE n + 1 \in T
    <2>1. PICK f : Steps(f, n, D, f0, h)
      BY <1>2
    <2>2. f[n] \in D
      BY <2>1 DEF Steps
    <2>3. h[<<n + 1, f[n]>>] \in D
      BY <2>2
    <2> DEFINE g == [i \in 0..n + 1 |-> IF i = n + 1 THEN h[<<n + 1, f[n]>>] ELSE f[i]]
    <2>4. g \in [0..n + 1 -> D]
      BY <2>1, <2>3 DEF Steps
    <2>5. ASSUME NEW i \in 1..n + 1 PROVE g[i] = h[<<i, g[i - 1]>>]
      <3>1. CASE i = n + 1
        <4>1. g[n + 1] = h[<<n + 1, f[n]>>] /\ g[n] = f[n]
          OBVIOUS
        <4>2. i - 1 = n
          BY <3>1
        <4> QED BY <3>1, <4>1, <4>2
      <3>2. CASE i # n + 1
        BY <3>2, <2>1 DEF Steps
      <3> QED BY <3>1, <3>2
    <2>6. g[0] = f0
      BY <2>1 DEF Steps
    <2> HIDE DEF g
    <2>7. Steps(g, n + 1, D, f0, h)
      BY <2>4, <2>5, <2>6 DEF Steps
    <2> QED BY <2>7
  <1>3. Nat \subseteq T
    <2> HIDE DEF T
    <2> QED BY <1>1, <1>2, NatAll
  <1>4. 0 \in U
    BY DEF Steps
  <1>5. ASSUME NEW n \in Nat, n \in U PROVE n + 1 \in U
    <2> SUFFICES ASSUME NEW m \in Nat, NEW k \in Nat, NEW f, NEW g, n + 1 <= m, n + 1 <= k,
                        Steps(f, m, D, f0, h), Steps(g, k, D, f0, h)
                 PROVE  f[n + 1] = g[n + 1]
      OBVIOUS
    <2>1. f[n] = g[n]
      BY <1>5
    <2>2. f[n + 1] = h[<<n + 1, f[n]>>]
      BY DEF Steps
    <2>3. g[n + 1] = h[<<n + 1, g[n]>>]
      BY DEF Steps
    <2> QED BY <2>1, <2>2, <2>3
  <1>6. Nat \subseteq U
    <2> HIDE DEF U
    <2> QED BY <1>4, <1>5, NatAll
  <1> DEFINE F(n) == CHOOSE f : Steps(f, n, D, f0, h)
             f == [n \in Nat |-> F(n)[n]]
  <1>7. \A n \in Nat : Steps(F(n), n, D, f0, h)
    BY <1>3
  <1> HIDE DEF F
  <1>8. f \in [Nat -> D]
    BY <1>7 DEF Steps
  <1>9. \A n \in Nat \ {0} : F(n)[n - 1] = F(n - 1)[n - 1]
    <2> SUFFICES ASSUME NEW n \in Nat \ {0} PROVE F(n)[n - 1] = F(n - 1)[n - 1]
      OBVIOUS
    <2>1. n - 1 \in U /\ n - 1 <= n /\ n - 1 \in Nat
      BY <1>6
    <2>2. Steps(F(n), n, D, f0, h) /\ Steps(F(n - 1), n - 1, D, f0, h)
      BY <1>7, <2>1
    <2> QED BY <2>1, <2>2
  <1>10. ASSUME NEW n \in Nat PROVE f[n] = IF n = 0 THEN f0 ELSE h[<<n, f[n - 1]>>]
    <2>1. CASE n = 0
      BY <2>1, <1>7 DEF Steps
    <2>2. CASE n # 0
      <3>1. F(n)[n] = h[<<n, F(n)[n - 1]>>]
        BY <1>7, <2>2 DEF Steps
      <3>2. n - 1 \in Nat
        BY <2>2
      <3> QED BY <3>1, <3>2, <2>2, <1>9
    <2> QED BY <2>1, <2>2
  <1> HIDE DEF f
  <1> QED BY <1>8, <1>10 DEF Follows

-----------------------------------------------------------------------------
(* Sequences as sets of their elements.                                    *)

\* No element occurs twice.
NoTwice(s) == \A i, j \in 1..Len(s) : s[i] = s[j] => i = j

\* A sequence backwards.
LEMMA ReverseProps ==
    ASSUME NEW S, NEW s \in Seq(S)
    PROVE  /\ Reverse(s) \in Seq(S) /\ Len(Reverse(s)) = Len(s)
           /\ ToSet(Reverse(s)) = ToSet(s)
           /\ NoTwice(s) => NoTwice(Reverse(s))
  <1> DEFINE n == Len(s)
             r == Reverse(s)
  <1>1. n \in Nat /\ DOMAIN s = 1..n
    OBVIOUS
  <1>2. \A i \in 1..n : n - i + 1 \in 1..n /\ n - (n - i + 1) + 1 = i
    BY <1>1
  <1>3. r \in Seq(S) /\ Len(r) = n /\ DOMAIN r = 1..n
    <2>1. \A i \in 1..n : s[n - i + 1] \in S
      BY <1>2
    <2>2. r = [i \in 1..n |-> s[n - i + 1]]
      BY DEF Reverse
    <2> QED BY <2>1, <2>2, <1>1
  <1>4. \A i \in 1..n : r[i] = s[n - i + 1]
    BY <1>1 DEF Reverse
  <1> HIDE DEF r
  <1>5. ToSet(r) = ToSet(s)
    <2>1. ASSUME NEW x \in ToSet(r) PROVE x \in ToSet(s)
      BY <1>1, <1>2, <1>3, <1>4 DEF ToSet
    <2>2. ASSUME NEW x \in ToSet(s) PROVE x \in ToSet(r)
      <3>1. PICK i \in 1..n : x = s[i]
        BY <1>1 DEF ToSet
      <3>2. r[n - i + 1] = x /\ n - i + 1 \in 1..n
        BY <3>1, <1>2, <1>4
      <3> QED BY <3>2, <1>3 DEF ToSet
    <2> QED BY <2>1, <2>2
  <1>6. ASSUME NoTwice(s) PROVE NoTwice(r)
    <2> SUFFICES ASSUME NEW i \in 1..n, NEW j \in 1..n, r[i] = r[j] PROVE i = j
      BY <1>3 DEF NoTwice
    <2>1. n - i + 1 \in 1..n /\ n - j + 1 \in 1..n
      BY <1>2
    <2>2. s[n - i + 1] = s[n - j + 1]
      BY <1>4
    <2>3. \A p, q \in 1..n : s[p] = s[q] => p = q
      BY <1>6 DEF NoTwice
    <2>4. n - i + 1 = n - j + 1
      BY <2>1, <2>2, <2>3
    <2> QED BY <2>4, <1>1
  <1> QED BY <1>3, <1>5, <1>6 DEF r

\* Two sequences one behind the other.
LEMMA JoinProps ==
    ASSUME NEW S, NEW s \in Seq(S), NEW t \in Seq(S)
    PROVE  /\ s \o t \in Seq(S) /\ ToSet(s \o t) = ToSet(s) \cup ToSet(t)
           /\ NoTwice(s) /\ NoTwice(t) /\ ToSet(s) \cap ToSet(t) = {} => NoTwice(s \o t)
  <1> DEFINE m == Len(s)
             n == Len(t)
             u == s \o t
  <1>1. m \in Nat /\ n \in Nat /\ DOMAIN s = 1..m /\ DOMAIN t = 1..n
    OBVIOUS
  <1>2. u \in Seq(S) /\ Len(u) = m + n /\ DOMAIN u = 1..m + n
    OBVIOUS
  <1>3. \A i \in 1..m : u[i] = s[i]
    OBVIOUS
  <1>4. \A i \in 1..n : u[m + i] = t[i]
    OBVIOUS
  <1> HIDE DEF u
  <1>5. \A i \in 1..m + n : i \in 1..m \/ (i - m \in 1..n /\ m + (i - m) = i)
    BY <1>1
  <1>6. \A i \in 1..n : m + i \in 1..m + n
    BY <1>1
  <1>7. \A i \in 1..m : i \in 1..m + n
    BY <1>1
  <1>8. ASSUME NEW x \in ToSet(u) PROVE x \in ToSet(s) \cup ToSet(t)
    <2>1. PICK i \in 1..m + n : x = u[i]
      BY <1>2 DEF ToSet
    <2>2. CASE i \in 1..m
      BY <2>1, <2>2, <1>1, <1>3 DEF ToSet
    <2>3. CASE i - m \in 1..n /\ m + (i - m) = i
      <3>1. x = t[i - m]
        BY <2>1, <2>3, <1>4
      <3> QED BY <3>1, <2>3, <1>1 DEF ToSet
    <2> QED BY <2>2, <2>3, <1>5
  <1>9. ASSUME NEW x \in ToSet(s) \cup ToSet(t) PROVE x \in ToSet(u)
    <2>1. CASE x \in ToSet(s)
      <3>1. PICK i \in 1..m : x = s[i]
        BY <2>1, <1>1 DEF ToSet
      <3>2. x = u[i] /\ i \in 1..m + n
        BY <3>1, <1>3, <1>7
      <3> QED BY <3>2, <1>2 DEF ToSet
    <2>2. CASE x \in ToSet(t)
      <3>1. PICK i \in 1..n : x = t[i]
        BY <2>2, <1>1 DEF ToSet
      <3>2. x = u[m + i] /\ m + i \in 1..m + n
        BY <3>1, <1>4, <1>6
      <3> QED BY <3>2, <1>2 DEF ToSet
    <2> QED BY <2>1, <2>2
  <1>10. ASSUME NoTwice(s), NoTwice(t), ToSet(s) \cap ToSet(t) = {} PROVE NoTwice(u)
    <2> SUFFICES ASSUME NEW i \in 1..m + n, NEW j \in 1..m + n, u[i] = u[j] PROVE i = j
      BY <1>2 DEF NoTwice
    <2>0. \A a \in 1..m, b \in 1..n : s[a] # t[b]
      BY <1>10, <1>1 DEF ToSet
    <2>1. CASE i \in 1..m /\ j \in 1..m
      BY <2>1, <1>3, <1>10 DEF NoTwice
    <2>2. CASE i \in 1..m /\ j - m \in 1..n /\ m + (j - m) = j
      <3>1. u[i] = s[i] /\ u[j] = t[j - m]
        BY <2>2, <1>3, <1>4
      <3> QED BY <3>1, <2>0, <2>2
    <2>3. CASE j \in 1..m /\ i - m \in 1..n /\ m + (i - m) = i
      <3>1. u[j] = s[j] /\ u[i] = t[i - m]
        BY <2>3, <1>3, <1>4
      <3> QED BY <3>1, <2>0, <2>3
    <2>4. CASE i - m \in 1..n /\ m + (i - m) = i /\ j - m \in 1..n /\ m + (j - m) = j
      <3>1. u[j] = t[j - m] /\ u[i] = t[i - m]
        BY <2>4, <1>4
      <3>2. i - m = j - m
        BY <3>1, <2>4, <1>10 DEF NoTwice
      <3> QED BY <3>2, <2>4
    <2> QED BY <2>1, <2>2, <2>3, <2>4, <1>5
  <1> QED BY <1>2, <1>8, <1>9, <1>10 DEF u

\* The recursion of FlattenSeq.
FlatF(f, seqs) ==
    f = [i \in 1..Len(seqs) |-> IF i = 1 THEN seqs[i] ELSE f[i - 1] \o seqs[i]]

\* Some function follows it.
LEMMA FlatExists ==
    ASSUME NEW S, NEW seqs \in Seq(Seq(S)), Len(seqs) > 0
    PROVE  \E f : FlatF(f, seqs)
  <1> DEFINE D == Seq(S)
             f0 == seqs[1]
             n == Len(seqs)
             h == [q \in Nat \X D |-> IF q[1] + 1 \in 1..n THEN q[2] \o seqs[q[1] + 1] ELSE q[2]]
  <1>0. n \in Nat /\ n > 0 /\ \A i \in 1..n : seqs[i] \in D
    OBVIOUS
  <1>1. f0 \in D
    BY <1>0
  <1>2. h \in [Nat \X D -> D]
    <2>1. ASSUME NEW q \in Nat \X D
          PROVE  (IF q[1] + 1 \in 1..n THEN q[2] \o seqs[q[1] + 1] ELSE q[2]) \in D
      <3>1. q[1] \in Nat /\ q[2] \in D
        OBVIOUS
      <3>2. ASSUME q[1] + 1 \in 1..n PROVE q[2] \o seqs[q[1] + 1] \in D
        BY <1>0, <3>1, <3>2
      <3> QED BY <3>1, <3>2
    <2> QED BY <2>1
  <1> HIDE DEF f0
  <1>3. PICK g : Follows(g, D, f0, h)
    <2> HIDE DEF h, D
    <2> QED BY <1>1, <1>2, Recursion
  <1> DEFINE f == [i \in 1..n |-> g[i - 1]]
  <1>4. ASSUME NEW i \in 1..n PROVE f[i] = IF i = 1 THEN seqs[i] ELSE f[i - 1] \o seqs[i]
    <2>1. CASE i = 1
      BY <2>1, <1>3 DEF Follows, f0
    <2>2. CASE i # 1
      <3>1. i - 1 \in Nat \ {0} /\ i - 2 \in Nat /\ (i - 1) - 1 = i - 2 /\ i - 1 \in 1..n
        BY <1>0, <2>2
      <3>2. g[i - 2] \in D
        BY <3>1, <1>3 DEF Follows
      <3>3. g[i - 1] = h[<<i - 1, g[i - 2]>>]
        <4> HIDE DEF h
        <4> QED BY <3>1, <1>3 DEF Follows
      <3>4. h[<<i - 1, g[i - 2]>>] = g[i - 2] \o seqs[i]
        <4>1. (i - 1) + 1 = i
          BY <1>0
        <4> QED BY <3>1, <3>2, <4>1
      <3>5. f[i] = g[i - 1] /\ f[i - 1] = g[i - 2]
        BY <3>1
      <3> QED BY <3>3, <3>4, <3>5, <2>2
    <2> QED BY <2>1, <2>2
  <1>5. f = [i \in 1..n |-> f[i]]
    OBVIOUS
  <1> HIDE DEF f
  <1>6. FlatF(f, seqs)
    BY <1>4, <1>5 DEF FlatF
  <1> QED BY <1>6

\* FlattenSeq is the last value of it.
LEMMA FlatIs ==
    ASSUME NEW S, NEW seqs \in Seq(Seq(S)), Len(seqs) > 0
    PROVE  \E f : FlatF(f, seqs) /\ FlattenSeq(seqs) = f[Len(seqs)]
  <1> DEFINE c == CHOOSE d : FlatF(d, seqs)
  <1>1. FlattenSeq(seqs) = c[Len(seqs)]
    BY DEF FlattenSeq, FlatF
  <1>2. FlatF(c, seqs)
    BY FlatExists
  <1> QED BY <1>1, <1>2

\* It has the elements of all sequences, none twice if none was.
LEMMA FlatProps ==
    ASSUME NEW S, NEW seqs \in Seq(Seq(S)), Len(seqs) > 0
    PROVE  /\ FlattenSeq(seqs) \in Seq(S)
           /\ ToSet(FlattenSeq(seqs)) = UNION {ToSet(seqs[i]) : i \in 1..Len(seqs)}
           /\ /\ \A i \in 1..Len(seqs) : NoTwice(seqs[i])
              /\ \A i, j \in 1..Len(seqs) : i # j => ToSet(seqs[i]) \cap ToSet(seqs[j]) = {}
              => NoTwice(FlattenSeq(seqs))
  <1> DEFINE n == Len(seqs)
             Good == /\ \A i \in 1..Len(seqs) : NoTwice(seqs[i])
                     /\ \A i, j \in 1..Len(seqs) : i # j => ToSet(seqs[i]) \cap ToSet(seqs[j]) = {}
             Upto(k) == UNION {ToSet(seqs[i]) : i \in 1..k}
  <1>1. PICK c : FlatF(c, seqs) /\ FlattenSeq(seqs) = c[n]
    BY FlatIs
  <1>2. n \in Nat \ {0} /\ \A i \in 1..n : seqs[i] \in Seq(S)
    OBVIOUS
  <1>3. \A i \in 1..n : c[i] = IF i = 1 THEN seqs[i] ELSE c[i - 1] \o seqs[i]
    <2> DEFINE E(g, i) == IF i = 1 THEN seqs[i] ELSE g[i - 1] \o seqs[i]
    <2>1. c = [i \in 1..n |-> E(c, i)]
      BY <1>1 DEF FlatF
    <2> HIDE DEF E
    <2>2. \A i \in 1..n : c[i] = E(c, i)
      BY <2>1
    <2> QED BY <2>2 DEF E
  <1> DEFINE P(k) == c[k] \in Seq(S) /\ ToSet(c[k]) = Upto(k) /\ (Good => NoTwice(c[k]))
             T == {k \in Nat : k + 1 <= n => P(k + 1)}
  <1>4. 0 \in T
    <2>1. c[1] = seqs[1] /\ 1 \in 1..n
      BY <1>2, <1>3
    <2>2. Upto(1) = ToSet(seqs[1])
      <3>1. 1..1 = {1}
        OBVIOUS
      <3> QED BY <3>1
    <2>3. P(1)
      BY <2>1, <2>2, <1>2
    <2> HIDE DEF P
    <2> QED BY <2>3
  <1>5. ASSUME NEW k \in Nat, k \in T PROVE k + 1 \in T
    <2> DEFINE m == k + 1
    <2>0. SUFFICES ASSUME m + 1 <= n PROVE P(m + 1)
      <3> HIDE DEF P
      <3> QED OBVIOUS
    <2>1. P(m)
      <3> HIDE DEF P
      <3>1. m <= n
        BY <2>0, <1>2
      <3> QED BY <3>1, <1>5
    <2>2. m \in 1..n /\ m + 1 \in 1..n /\ m + 1 # 1 /\ (m + 1) - 1 = m
      BY <2>0, <1>2
    <2> HIDE DEF m
    <2>3. c[m + 1] = c[m] \o seqs[m + 1]
      BY <1>3, <2>2
    <2>4. seqs[m + 1] \in Seq(S)
      BY <1>2, <2>2
    <2>5. c[m + 1] \in Seq(S) /\ ToSet(c[m + 1]) = ToSet(c[m]) \cup ToSet(seqs[m + 1])
      BY SMTT(30), ZenonT(30), <2>1, <2>3, <2>4, JoinProps
    <2>6. Upto(m + 1) = Upto(m) \cup ToSet(seqs[m + 1])
      <3>1. 1..m + 1 = (1..m) \cup {m + 1}
        BY <2>2
      <3> QED BY <3>1
    <2>7. ASSUME Good PROVE NoTwice(c[m + 1])
      <3>1. ASSUME NEW x \in Upto(m) PROVE x \notin ToSet(seqs[m + 1])
        <4>1. PICK i \in 1..m : x \in ToSet(seqs[i])
          OBVIOUS
        <4>2. i \in 1..n /\ i # m + 1
          BY <2>2
        <4> QED BY <4>1, <4>2, <2>2, <2>7
      <3>2. ToSet(c[m]) \cap ToSet(seqs[m + 1]) = {}
        BY <3>1, <2>1
      <3>3. NoTwice(seqs[m + 1]) /\ NoTwice(c[m])
        BY <2>1, <2>2, <2>7
      <3> QED BY <3>2, <3>3, <2>1, <2>3, <2>4, JoinProps
    <2> QED BY <2>1, <2>5, <2>6, <2>7
  <1>6. Nat \subseteq T
    <2> HIDE DEF T
    <2> QED BY <1>4, <1>5, NatAll
  <1>7. n - 1 \in Nat /\ (n - 1) + 1 = n /\ n <= n
    BY <1>2
  <1>8. P(n)
    <2> HIDE DEF P
    <2> QED BY <1>6, <1>7
  <1> QED BY <1>1, <1>8

\* It is the last of the sequences that come about one after the other.
LEMMA FlatPrefixes ==
    ASSUME NEW S, NEW seqs \in Seq(Seq(S))
    PROVE  \E g : /\ \A i \in 0..Len(seqs) : g[i] \in Seq(S)
                  /\ g[0] = <<>> /\ \A i \in 1..Len(seqs) : g[i] = g[i - 1] \o seqs[i]
                  /\ FlattenSeq(seqs) = g[Len(seqs)]
  <1> DEFINE n == Len(seqs)
  <1>1. n \in Nat /\ \A i \in 1..n : seqs[i] \in Seq(S)
    OBVIOUS
  <1>2. <<>> \in Seq(S)
    OBVIOUS
  <1>3. CASE n = 0
    <2> DEFINE g == [i \in 0..0 |-> <<>>]
    <2>1. FlattenSeq(seqs) = <<>>
      BY <1>3 DEF FlattenSeq
    <2>2. g[0] = <<>>
      OBVIOUS
    <2> HIDE DEF g
    <2>3. (\A i \in 0..n : i = 0) /\ ~(\E i \in 1..n : TRUE)
      BY <1>3
    <2> HIDE DEF n
    <2> QED BY <1>2, <1>3, <2>1, <2>2, <2>3 DEF n
  <1>4. CASE n # 0
    <2>0. n > 0
      BY <1>1, <1>4
    <2>1. PICK c : FlatF(c, seqs) /\ FlattenSeq(seqs) = c[n]
      BY <2>0, FlatIs
    <2>2. \A i \in 1..n : c[i] = IF i = 1 THEN seqs[i] ELSE c[i - 1] \o seqs[i]
      <3> DEFINE E(f, i) == IF i = 1 THEN seqs[i] ELSE f[i - 1] \o seqs[i]
      <3>1. c = [i \in 1..n |-> E(c, i)]
        BY <2>1 DEF FlatF
      <3> HIDE DEF E
      <3>2. \A i \in 1..n : c[i] = E(c, i)
        BY <3>1
      <3> QED BY <3>2 DEF E
    <2> DEFINE B == {i \in 1..n : c[i] \notin Seq(S)}
    <2>3. B = {}
      <3> SUFFICES ASSUME B # {} PROVE FALSE
        OBVIOUS
      <3>1. PICK i \in B : \A k \in B : i <= k
        <4>1. B \subseteq Nat
          BY <1>1
        <4> HIDE DEF B
        <4> QED BY <4>1, LeastNat
      <3>2. i \in 1..n /\ c[i] \notin Seq(S)
        OBVIOUS
      <3>3. i # 1
        BY <3>2, <2>2, <1>1
      <3>4. i - 1 \in 1..n /\ ~(i <= i - 1)
        BY <3>2, <3>3, <1>1
      <3>5. c[i - 1] \in Seq(S)
        BY <3>4, <3>1
      <3>6. c[i] = c[i - 1] \o seqs[i] /\ seqs[i] \in Seq(S)
        BY <3>2, <3>3, <2>2, <1>1
      <3> QED BY <3>2, <3>5, <3>6
    <2>4. \A i \in 1..n : c[i] \in Seq(S)
      BY <2>3
    <2> DEFINE g == [i \in 0..n |-> IF i = 0 THEN <<>> ELSE c[i]]
    <2>5. g[0] = <<>> /\ \A i \in 1..n : g[i] = c[i]
      BY <1>1
    <2>6. \A i \in 0..n : i = 0 \/ i \in 1..n
      BY <1>1
    <2> HIDE DEF g
    <2>7. ASSUME NEW i \in 0..n PROVE g[i] \in Seq(S)
      BY <2>4, <2>5, <2>6, <1>2
    <2>8. ASSUME NEW i \in 1..n PROVE g[i] = g[i - 1] \o seqs[i]
      <3>1. CASE i = 1
        <4>1. g[i - 1] = <<>>
          BY <3>1, <2>5
        <4>2. g[i] = seqs[i] /\ seqs[i] \in Seq(S)
          BY <3>1, <2>5, <2>2, <1>1
        <4> QED BY <4>1, <4>2
      <3>2. CASE i # 1
        <4>1. i - 1 \in 1..n
          BY <3>2, <1>1
        <4> QED BY <4>1, <3>2, <2>5, <2>2
      <3> QED BY <3>1, <3>2
    <2>9. n \in 1..n
      BY <2>0, <1>1
    <2>10. FlattenSeq(seqs) = g[n]
      BY <2>9, <2>1, <2>5
    <2> HIDE DEF n
    <2> QED BY <2>5, <2>7, <2>8, <2>10 DEF n
  <1> QED BY <1>3, <1>4

\* Sequences of one element each give the sequence of these elements.
LEMMA FlatOnes ==
    ASSUME NEW S, NEW s \in Seq(S), NEW seqs \in Seq(Seq(S)),
           Len(seqs) = Len(s), \A i \in 1..Len(s) : seqs[i] = <<s[i]>>
    PROVE  FlattenSeq(seqs) = s
  <1> DEFINE n == Len(s)
  <1>1. n \in Nat /\ \A i \in 1..n : s[i] \in S
    OBVIOUS
  <1>2. PICK g : /\ \A i \in 0..n : g[i] \in Seq(S)
                 /\ g[0] = <<>> /\ \A i \in 1..n : g[i] = g[i - 1] \o seqs[i]
                 /\ FlattenSeq(seqs) = g[n]
    <2>1. \E g : /\ \A i \in 0..Len(seqs) : g[i] \in Seq(S)
                 /\ g[0] = <<>> /\ \A i \in 1..Len(seqs) : g[i] = g[i - 1] \o seqs[i]
                 /\ FlattenSeq(seqs) = g[Len(seqs)]
      BY FlatPrefixes
    <2>2. Len(seqs) = n
      OBVIOUS
    <2> HIDE DEF n
    <2> QED BY <2>1, <2>2
  <1> DEFINE P(k) == Len(g[k]) = k /\ \A i \in 1..k : g[k][i] = s[i]
             T == {k \in Nat : k <= n => P(k)}
  <1>3. 0 \in T
    BY <1>2
  <1>4. ASSUME NEW k \in Nat, k \in T PROVE k + 1 \in T
    <2> SUFFICES ASSUME k + 1 <= n PROVE P(k + 1)
      OBVIOUS
    <2> DEFINE u == g[k]
    <2>1. k <= n /\ k \in 0..n /\ k + 1 \in 1..n /\ (k + 1) - 1 = k
      BY <1>1
    <2>2. u \in Seq(S) /\ Len(u) = k /\ \A i \in 1..k : u[i] = s[i]
      BY <1>2, <1>4, <2>1
    <2>3. g[k + 1] = u \o <<s[k + 1]>> /\ s[k + 1] \in S
      BY <1>1, <1>2, <2>1
    <2> HIDE DEF u
    <2>4. /\ Len(u \o <<s[k + 1]>>) = k + 1
          /\ \A i \in 1..k + 1 : (u \o <<s[k + 1]>>)[i] = IF i <= k THEN u[i] ELSE s[k + 1]
      BY <2>2, <2>3
    <2>5. ASSUME NEW i \in 1..k + 1 PROVE (u \o <<s[k + 1]>>)[i] = s[i]
      <3>1. CASE i <= k
        BY <3>1, <2>2, <2>4
      <3>2. CASE ~(i <= k)
        <4>1. i = k + 1
          BY <3>2
        <4> QED BY <4>1, <3>2, <2>4
      <3> QED BY <3>1, <3>2
    <2> QED BY <2>3, <2>4, <2>5
  <1>5. Nat \subseteq T
    <2> HIDE DEF T
    <2> QED BY <1>3, <1>4, NatAll
  <1>6. P(n)
    BY <1>1, <1>5
  <1>7. g[n] \in Seq(S)
    BY <1>1, <1>2
  <1> QED BY <1>2, <1>6, <1>7, SeqEqual
=============================================================================
