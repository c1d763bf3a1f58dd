--------------------------- MODULE HashArrayProofs ---------------------------
(***************************************************************************)
(* Proofs about HashArray, for every set of keys, hash function, size of   *)
(* the first table and average length of a list.                           *)
(***************************************************************************)
EXTENDS HashArray, Facts, FiniteSetTheorems, TLAPS

-----------------------------------------------------------------------------
(* The nodes of a list that are in a set.                                  *)

\* The recursion of Those.
ThoseF(f, list, P) ==
    f = [i \in 0..Len(list) |->
            IF i = 0 THEN <<>>
            ELSE IF list[i] \in P THEN Append(f[i - 1], list[i]) ELSE f[i - 1]]

\* The recursion has a solution.
LEMMA ThoseExists ==
    ASSUME NEW S, NEW list \in Seq(S), NEW P
    PROVE  \E f : ThoseF(f, list, P)
  <1> DEFINE h == [q \in Nat \X Seq(S) |->
                     IF q[1] \in 1..Len(list) /\ list[q[1]] \in P THEN Append(q[2], list[q[1]]) ELSE q[2]]
  <1>1. h \in [Nat \X Seq(S) -> Seq(S)]
    <2>1. ASSUME NEW q \in Nat \X Seq(S)
          PROVE  (IF q[1] \in 1..Len(list) /\ list[q[1]] \in P THEN Append(q[2], list[q[1]]) ELSE q[2]) \in Seq(S)
      <3>1. q[1] \in Nat /\ q[2] \in Seq(S)
        OBVIOUS
      <3>2. ASSUME q[1] \in 1..Len(list) PROVE Append(q[2], list[q[1]]) \in Seq(S)
        BY <3>1, <3>2
      <3> QED BY <3>1, <3>2
    <2> QED BY <2>1
  <1>2. <<>> \in Seq(S)
    OBVIOUS
  <1>3. PICK g \in [Nat -> Seq(S)] : g[0] = <<>> /\ \A i \in Nat \ {0} : g[i] = h[<<i, g[i - 1]>>]
    <2> DEFINE D == Seq(S)
               f0 == <<>>
    <2>1. f0 \in D /\ h \in [Nat \X D -> D]
      BY <1>1, <1>2
    <2> HIDE DEF h, D, f0
    <2>2. \E g : Follows(g, D, f0, h)
      BY <2>1, Recursion
    <2> QED BY <2>2 DEF D, f0, Follows
  <1> DEFINE f == [i \in 0..Len(list) |-> g[i]]
  <1>4. f \in [0..Len(list) -> Seq(S)]
    OBVIOUS
  <1>5. ASSUME NEW i \in 0..Len(list)
        PROVE  f[i] = IF i = 0 THEN <<>>
                      ELSE IF list[i] \in P THEN Append(f[i - 1], list[i]) ELSE f[i - 1]
    <2>1. CASE i = 0
      BY <2>1, <1>3
    <2>2. CASE i # 0
      <3>1. g[i] = h[<<i, g[i - 1]>>] /\ i \in Nat /\ g[i - 1] \in Seq(S) /\ i \in 1..Len(list)
        <4>1. i \in Nat /\ i - 1 \in Nat
          BY <2>2
        <4>2. g[i - 1] \in Seq(S)
          BY <4>1
        <4>3. i \in Nat \ {0} /\ i \in 1..Len(list)
          BY <2>2
        <4> HIDE DEF h
        <4> QED BY <4>2, <4>3, <1>3
      <3>2. h[<<i, g[i - 1]>>] = IF list[i] \in P THEN Append(g[i - 1], list[i]) ELSE g[i - 1]
        BY <3>1
      <3>3. f[i] = g[i] /\ f[i - 1] = g[i - 1]
        BY <2>2
      <3> QED BY <3>1, <3>2, <3>3, <2>2
    <2> QED BY <2>1, <2>2
  <1> HIDE DEF f
  <1>6. ThoseF(f, list, P)
    BY <1>4, <1>5 DEF ThoseF
  <1> QED BY <1>6

\* So Those is the last value of one.
LEMMA ThoseIs ==
    ASSUME NEW S, NEW list \in Seq(S), NEW P
    PROVE  \E f : ThoseF(f, list, P) /\ Those(list, P) = f[Len(list)]
  <1> DEFINE c == CHOOSE d : ThoseF(d, list, P)
  <1>1. Those(list, P) = c[Len(list)]
    BY DEF Those, ThoseF
  <1>2. ThoseF(c, list, P)
    BY ThoseExists
  <1> QED BY <1>1, <1>2

\* s is what is left of the first n elements of a list: those that are in P.
Picks(p, s, list, n, P) ==
    /\ p \in [1..Len(s) -> 1..n]
    /\ \A j, k \in 1..Len(s) : j < k => p[j] < p[k]
    /\ \A j \in 1..Len(s) : s[j] = list[p[j]] /\ s[j] \in P
    /\ \A q \in 1..n : list[q] \in P => \E j \in 1..Len(s) : p[j] = q

\* One more element of the list is picked when it is in P.
LEMMA PicksOn ==
    ASSUME NEW S, NEW list \in Seq(S), NEW P, NEW n \in Nat, n + 1 <= Len(list),
           NEW s \in Seq(S), NEW p, Picks(p, s, list, n, P)
    PROVE  /\ list[n + 1] \in P => \E r : Picks(r, Append(s, list[n + 1]), list, n + 1, P)
           /\ list[n + 1] \notin P => Picks(p, s, list, n + 1, P)
  <1>1. ASSUME list[n + 1] \notin P PROVE Picks(p, s, list, n + 1, P)
    <2>1. p \in [1..Len(s) -> 1..n + 1]
      BY DEF Picks
    <2>2. ASSUME NEW q \in 1..n + 1, list[q] \in P PROVE \E j \in 1..Len(s) : p[j] = q
      <3>1. q \in 1..n
        BY <1>1, <2>2
      <3> QED BY <2>2, <3>1 DEF Picks
    <2> QED BY <2>1, <2>2 DEF Picks
  <1>2. ASSUME list[n + 1] \in P
        PROVE  \E r : Picks(r, Append(s, list[n + 1]), list, n + 1, P)
    <2> DEFINE x == list[n + 1]
               l == Len(s)
               r == [j \in 1..l + 1 |-> IF j = l + 1 THEN n + 1 ELSE p[j]]
               t == Append(s, x)
    <2>1. x \in S /\ l \in Nat
      OBVIOUS
    <2>2. Len(t) = l + 1 /\ t[l + 1] = x /\ \A j \in 1..l : t[j] = s[j]
      BY <2>1
    <2>3. \A j \in 1..l : p[j] \in 1..n
      BY DEF Picks
    <2>4. \A j \in 1..l : r[j] = p[j]
      BY <2>1
    <2>5. r[l + 1] = n + 1 /\ r \in [1..l + 1 -> 1..n + 1]
      BY <2>1, <2>3
    <2> HIDE DEF r, t
    <2>6. ASSUME NEW j \in 1..l + 1, NEW k \in 1..l + 1, j < k PROVE r[j] < r[k]
      <3>1. j \in 1..l /\ r[j] = p[j] /\ p[j] \in 1..n
        BY <2>1, <2>3, <2>4, <2>6
      <3>2. CASE k = l + 1
        BY <3>1, <3>2, <2>5
      <3>3. CASE k # l + 1
        <4>1. k \in 1..l /\ r[k] = p[k]
          BY <3>3, <2>1, <2>4
        <4> QED BY <3>1, <4>1, <2>6 DEF Picks
      <3> QED BY <3>2, <3>3
    <2>7. ASSUME NEW j \in 1..l + 1 PROVE t[j] = list[r[j]] /\ t[j] \in P
      <3>1. CASE j = l + 1
        BY <3>1, <1>2, <2>2, <2>5
      <3>2. CASE j # l + 1
        <4>1. j \in 1..l
          BY <3>2, <2>1
        <4> QED BY <4>1, <2>2, <2>4 DEF Picks
      <3> QED BY <3>1, <3>2
    <2>8. ASSUME NEW q \in 1..n + 1, list[q] \in P PROVE \E j \in 1..l + 1 : r[j] = q
      <3>1. CASE q = n + 1
        BY <3>1, <2>1, <2>5
      <3>2. CASE q # n + 1
        <4>1. q \in 1..n
          BY <3>2
        <4>2. PICK j \in 1..l : p[j] = q
          BY <4>1, <2>8 DEF Picks
        <4>3. j \in 1..l + 1 /\ r[j] = q
          BY <4>2, <2>1, <2>4
        <4> QED BY <4>3
      <3> QED BY <3>1, <3>2
    <2>9. Picks(r, t, list, n + 1, P)
      BY <2>2, <2>5, <2>6, <2>7, <2>8 DEF Picks
    <2> QED BY <2>9 DEF t
  <1> QED BY <1>1, <1>2

\* Those picks the nodes of the set by increasing positions.
LEMMA ThosePicks ==
    ASSUME NEW S, NEW list \in Seq(S), NEW P
    PROVE  /\ Those(list, P) \in Seq(S)
           /\ \E p : Picks(p, Those(list, P), list, Len(list), P)
  <1>1. PICK c : ThoseF(c, list, P) /\ Those(list, P) = c[Len(list)]
    BY ThoseIs
  <1> DEFINE T == {i \in Nat : i <= Len(list) => c[i] \in Seq(S) /\ \E p : Picks(p, c[i], list, i, P)}
  <1>2. /\ c[0] = <<>>
        /\ \A i \in 1..Len(list) : c[i] = IF list[i] \in P THEN Append(c[i - 1], list[i]) ELSE c[i - 1]
    <2> DEFINE E(g, i) == IF i = 0 THEN <<>>
                          ELSE IF list[i] \in P THEN Append(g[i - 1], list[i]) ELSE g[i - 1]
    <2>1. c = [i \in 0..Len(list) |-> E(c, i)]
      BY <1>1 DEF ThoseF
    <2> HIDE DEF E
    <2>2. \A i \in 0..Len(list) : c[i] = E(c, i)
      BY <2>1
    <2>3. Len(list) \in Nat
      OBVIOUS
    <2> QED BY <2>2, <2>3 DEF E
  <1>3. 0 \in T
    <2>1. Len(<<>>) = 0 /\ <<>> \in Seq(S)
      OBVIOUS
    <2>2. Picks(<<>>, <<>>, list, 0, P)
      BY <2>1 DEF Picks
    <2> QED BY <1>2, <2>1, <2>2
  <1>4. ASSUME NEW i \in Nat, i \in T PROVE i + 1 \in T
    <2> SUFFICES ASSUME i + 1 <= Len(list)
                 PROVE  c[i + 1] \in Seq(S) /\ \E p : Picks(p, c[i + 1], list, i + 1, P)
      OBVIOUS
    <2>1. PICK p : Picks(p, c[i], list, i, P)
      BY <1>4
    <2>2. c[i] \in Seq(S)
      BY <1>4
    <2>3. i + 1 \in 1..Len(list) /\ (i + 1) - 1 = i
      OBVIOUS
    <2>4. c[i + 1] = IF list[i + 1] \in P THEN Append(c[i], list[i + 1]) ELSE c[i]
      BY <1>2, <2>3
    <2>5. CASE list[i + 1] \in P
      <3>1. Append(c[i], list[i + 1]) \in Seq(S)
        BY <2>2, <2>3
      <3> QED BY <3>1, <2>1, <2>2, <2>4, <2>5, PicksOn
    <2>6. CASE list[i + 1] \notin P
      BY <2>1, <2>2, <2>4, <2>6, PicksOn
    <2> QED BY <2>5, <2>6
  <1>5. Nat \subseteq T
    <2> HIDE DEF T
    <2> QED BY <1>3, <1>4, NatAll
  <1>6. Len(list) \in T
    BY <1>5
  <1> QED BY <1>1, <1>6

\* Those keeps the nodes of the set, each as often as it was and in its order.
LEMMA ThoseProps ==
    ASSUME NEW S, NEW list \in Seq(S), NEW P
    PROVE  /\ Those(list, P) \in Seq(S)
           /\ ToSet(Those(list, P)) = ToSet(list) \cap P
           /\ NoTwice(list) => NoTwice(Those(list, P))
           /\ \A j, k : Before(Those(list, P), j, k) => Before(list, j, k)
  <1> DEFINE s == Those(list, P)
             n == Len(list)
  <1>1. s \in Seq(S)
    BY ThosePicks
  <1>2. PICK p : Picks(p, s, list, n, P)
    BY ThosePicks
  <1> HIDE DEF s
  <1>3. DOMAIN s = 1..Len(s) /\ DOMAIN list = 1..n /\ Len(s) \in Nat /\ n \in Nat
    BY <1>1
  <1>4. \A j \in 1..Len(s) : p[j] \in 1..n
    BY <1>2 DEF Picks
  <1>5. ToSet(s) = ToSet(list) \cap P
    <2>1. ASSUME NEW x \in ToSet(s) PROVE x \in ToSet(list) \cap P
      <3>1. PICK j \in 1..Len(s) : x = s[j]
        BY <1>3 DEF ToSet
      <3> QED BY <3>1, <1>2, <1>3, <1>4 DEF Picks, ToSet
    <2>2. ASSUME NEW x \in ToSet(list) \cap P PROVE x \in ToSet(s)
      <3>1. PICK q \in 1..n : x = list[q]
        BY <1>3 DEF ToSet
      <3>2. PICK j \in 1..Len(s) : p[j] = q
        BY <3>1, <1>2 DEF Picks
      <3>3. s[j] = x
        BY <3>1, <3>2, <1>2 DEF Picks
      <3> QED BY <3>3, <1>3 DEF ToSet
    <2> QED BY <2>1, <2>2
  <1>6. ASSUME NoTwice(list) PROVE NoTwice(s)
    <2> SUFFICES ASSUME NEW j \in 1..Len(s), NEW k \in 1..Len(s), s[j] = s[k] PROVE j = k
      BY DEF NoTwice
    <2>1. p[j] = p[k]
      BY <1>2, <1>4, <1>6 DEF Picks, NoTwice
    <2>2. ~(j < k) /\ ~(k < j)
      BY <1>2, <1>4, <2>1 DEF Picks
    <2> QED BY <1>3, <2>2
  <1>7. ASSUME NEW j, NEW k, Before(s, j, k) PROVE Before(list, j, k)
    <2>1. PICK m \in 1..Len(s), q \in 1..Len(s) : m < q /\ s[m] = j /\ s[q] = k
      BY <1>7 DEF Before
    <2>2. p[m] \in 1..n /\ p[q] \in 1..n /\ p[m] < p[q] /\ list[p[m]] = j /\ list[p[q]] = k
      BY <1>2, <1>4, <2>1 DEF Picks
    <2> QED BY <2>2 DEF Before
  <1> QED BY <1>1, <1>5, <1>6, <1>7 DEF s

-----------------------------------------------------------------------------
(* Masks and buckets.                                                      *)

\* What a table can have for hmask.
LEMMA Doubled ==
    /\ doubled[0] = StartMask
    /\ \A i \in Nat : doubled[i] \in Nat /\ doubled[i] >= i /\ doubled[i + 1] = 2 * doubled[i] + 1
  <1> DEFINE h == [q \in Nat \X Nat |-> 2 * q[2] + 1]
             Is(f) == f = [i \in Nat |-> IF i = 0 THEN StartMask ELSE 2 * f[i - 1] + 1]
  <1>1. StartMask \in Nat /\ h \in [Nat \X Nat -> Nat]
    BY HashArrayAssumption
  <1>2. PICK f : Follows(f, Nat, StartMask, h)
    <2> HIDE DEF h
    <2> QED BY <1>1, Recursion
  <1>3. ASSUME NEW i \in Nat PROVE f[i] = IF i = 0 THEN StartMask ELSE 2 * f[i - 1] + 1
    <2>1. CASE i = 0
      BY <2>1, <1>2 DEF Follows
    <2>2. CASE i # 0
      <3>1. i - 1 \in Nat /\ i \in Nat \ {0}
        BY <2>2
      <3>2. f[i] = h[<<i, f[i - 1]>>] /\ f[i - 1] \in Nat
        <4> HIDE DEF h
        <4> QED BY <3>1, <1>2 DEF Follows
      <3> QED BY <3>2, <2>2
    <2> QED BY <2>1, <2>2
  <1>4. f = [i \in Nat |-> f[i]]
    BY <1>2 DEF Follows
  <1>5. Is(f)
    BY <1>3, <1>4
  <1>6. doubled = CHOOSE g : Is(g)
    BY DEF doubled
  <1>7. Is(doubled)
    <2> HIDE DEF Is
    <2> QED BY <1>5, <1>6
  <1>8. \A i \in Nat : doubled[i] = IF i = 0 THEN StartMask ELSE 2 * doubled[i - 1] + 1
    BY <1>7
  <1> HIDE DEF Is
  <1>9. doubled[0] = StartMask
    BY <1>8
  <1>10. \A i \in Nat : doubled[i + 1] = 2 * doubled[i] + 1
    <2>1. \A i \in Nat : i + 1 \in Nat /\ i + 1 # 0 /\ (i + 1) - 1 = i
      OBVIOUS
    <2> QED BY <1>8, <2>1
  <1> DEFINE T == {i \in Nat : doubled[i] \in Nat /\ doubled[i] >= i}
  <1>11. 0 \in T
    BY <1>1, <1>9
  <1>12. \A i \in Nat : i \in T => i + 1 \in T
    BY <1>10
  <1>13. Nat \subseteq T
    <2> HIDE DEF T
    <2> QED BY <1>11, <1>12, NatAll
  <1> QED BY <1>9, <1>10, <1>13

\* A bucket is one of the buckets.
LEMMA BucketType ==
    ASSUME NEW k \in Int, NEW m \in Nat
    PROVE  Bucket(k, m) \in 0..m
  BY SMTT(20) DEF Bucket

\* Quotient and remainder.
LEMMA DivMod ==
    ASSUME NEW k \in Int, NEW n \in Nat \ {0}
    PROVE  k = n * (k \div n) + (k % n) /\ k % n \in 0..n - 1 /\ k \div n \in Int
  BY SMTT(20)

\* Two multiples of a number that are less than it apart are the same.
LEMMA Multiples ==
    ASSUME NEW a \in Int, NEW b \in Int, NEW p \in Nat \ {0}, NEW r \in 0..p - 1, NEW t \in 0..p - 1,
           p * a + r = p * b + t
    PROVE  r = t
  <1>1. ASSUME NEW x \in Int, NEW y \in Int, x < y PROVE p * x + p <= p * y
    <2>1. y - x - 1 \in Nat
      BY <1>1
    <2>2. p * (y - x - 1) >= 0
      BY <2>1, SMTT(20)
    <2>3. p * (y - x - 1) = p * y - p * x - p
      BY SMTT(20)
    <2>4. p * x \in Int /\ p * y \in Int
      BY SMTT(20)
    <2> QED BY <2>2, <2>3, <2>4
  <1>2. p * a \in Int /\ p * b \in Int
    BY SMTT(20)
  <1>3. CASE a = b
    BY <1>2, <1>3
  <1>4. CASE a < b
    <2>1. p * a + p <= p * b
      BY <1>1, <1>4
    <2> QED BY <1>2, <2>1
  <1>5. CASE b < a
    <2>1. p * b + p <= p * a
      BY <1>1, <1>5
    <2> QED BY <1>2, <2>1
  <1> QED BY <1>3, <1>4, <1>5

\* When the table is doubled a node stays in its bucket or goes to the one as
\* far behind it as there were buckets.
LEMMA BucketSplits ==
    ASSUME NEW k \in Int, NEW m \in Nat
    PROVE  Bucket(k, 2 * m + 1) = Bucket(k, m) \/ Bucket(k, 2 * m + 1) = Bucket(k, m) + m + 1
  <1> DEFINE p == m + 1
             u == k % (2 * p)
             q == k \div (2 * p)
             v == k % p
             w == k \div p
  <1>1. p \in Nat \ {0} /\ 2 * p \in Nat \ {0} /\ 2 * m + 1 + 1 = 2 * p
    OBVIOUS
  <1> HIDE DEF p
  <1>2. k = 2 * p * q + u /\ u \in 0..2 * p - 1 /\ q \in Int
    BY <1>1, DivMod
  <1>3. k = p * w + v /\ v \in 0..p - 1 /\ w \in Int
    BY <1>1, DivMod
  <1> HIDE DEF q, u, v, w
  <1>4. 2 * p * q = p * (2 * q)
    BY <1>1, <1>2, SMTT(20)
  <1>5. CASE u < p
    <2>1. p * (2 * q) + u = p * w + v /\ u \in 0..p - 1 /\ 2 * q \in Int
      BY <1>1, <1>2, <1>3, <1>4, <1>5
    <2>2. u = v
      BY <2>1, <1>1, <1>3, Multiples
    <2> QED BY <2>2, <1>1 DEF u, v, p, Bucket
  <1>6. CASE u >= p
    <2>1. u - p \in 0..p - 1 /\ 2 * q + 1 \in Int
      BY <1>1, <1>2, <1>6
    <2>2. p * (2 * q + 1) = p * (2 * q) + p
      BY <1>1, <1>2, SMTT(20)
    <2>3. p * (2 * q) \in Int /\ p * w \in Int
      BY <1>1, <1>2, <1>3, SMTT(20)
    <2>4. p * (2 * q + 1) + (u - p) = p * w + v
      BY <1>1, <1>2, <1>3, <1>4, <2>2, <2>3
    <2>5. u - p = v
      BY <2>1, <2>4, <1>1, <1>3, Multiples
    <2>6. u = v + p
      BY <2>5, <1>1, <1>2, <1>3
    <2> QED BY <2>6, <1>1, <1>3 DEF u, v, p, Bucket
  <1> QED BY <1>1, <1>2, <1>5, <1>6

-----------------------------------------------------------------------------
(* Lists that hold the nodes of a set, each on the list "at" says and once. *)

ListsOf(m) == [0..m -> Seq(Keys)]
Filed(lists, m, S, at) ==
    /\ lists \in ListsOf(m) /\ at \in [S -> 0..m] /\ S \subseteq Keys
    /\ \A i \in 0..m : NoTwice(lists[i]) /\ ToSet(lists[i]) = {k \in S : at[k] = i}

\* One list is another, and nodes come and go.
Upd(lists, i, s) == [lists EXCEPT ![i] = s]
More(at, S, k, i) == [x \in S \cup {k} |-> IF x = k THEN i ELSE at[x]]
Less(at, S, k) == [x \in S \ {k} |-> at[x]]

\* A node is on its list and on no other.
LEMMA FiledOn ==
    ASSUME NEW lists, NEW m \in Nat, NEW S, NEW at, Filed(lists, m, S, at), NEW i \in 0..m, NEW k
    PROVE  /\ lists[i] \in Seq(Keys)
           /\ Contains(lists[i], k) <=> k \in S /\ at[k] = i
  <1>1. lists[i] \in Seq(Keys)
    BY DEF Filed, ListsOf
  <1>2. Contains(lists[i], k) <=> k \in ToSet(lists[i])
    BY <1>1 DEF Contains, ToSet
  <1>3. ToSet(lists[i]) = {x \in S : at[x] = i}
    BY DEF Filed
  <1> QED BY <1>1, <1>2, <1>3

\* What a list is that has one more node, in front.
LEMMA FrontProps ==
    ASSUME NEW list \in Seq(Keys), NEW k \in Keys
    PROVE  /\ <<k>> \o list \in Seq(Keys) /\ ToSet(<<k>> \o list) = ToSet(list) \cup {k}
           /\ NoTwice(list) /\ k \notin ToSet(list) => NoTwice(<<k>> \o list)
           /\ Head(<<k>> \o list) = k /\ Tail(<<k>> \o list) = list /\ <<k>> \o list # <<>>
  <1>1. <<k>> \in Seq(Keys) /\ ToSet(<<k>>) = {k} /\ NoTwice(<<k>>)
    <2>1. <<k>> \in Seq(Keys) /\ Len(<<k>>) = 1 /\ <<k>>[1] = k /\ DOMAIN <<k>> = 1..1
      OBVIOUS
    <2>2. 1..1 = {1}
      OBVIOUS
    <2> QED BY <2>1, <2>2 DEF ToSet, NoTwice
  <1> DEFINE u == <<k>>
  <1>2. u \o list \in Seq(Keys) /\ ToSet(u \o list) = ToSet(list) \cup {k}
    <2>1. u \in Seq(Keys) /\ ToSet(u) = {k}
      BY <1>1
    <2> HIDE DEF u
    <2> QED BY <2>1, JoinProps
  <1>3. ASSUME NoTwice(list), k \notin ToSet(list) PROVE NoTwice(u \o list)
    <2>1. u \in Seq(Keys) /\ NoTwice(u) /\ ToSet(u) \cap ToSet(list) = {}
      BY <1>1, <1>3
    <2> HIDE DEF u
    <2> QED BY <2>1, <1>3, JoinProps
  <1>4. Head(<<k>> \o list) = k /\ Tail(<<k>> \o list) = list /\ <<k>> \o list # <<>>
    <2> DEFINE t == <<k>> \o list
    <2>1. t \in Seq(Keys) /\ Len(t) = Len(list) + 1 /\ t[1] = k /\ \A i \in 1..Len(list) : t[i + 1] = list[i]
      BY PrependProps
    <2> HIDE DEF t
    <2>2. Len(t) > 0 /\ t # <<>>
      BY <2>1
    <2>3. Head(t) = k
      BY <2>1, <2>2
    <2>4. Tail(t) \in Seq(Keys) /\ Len(Tail(t)) = Len(list) /\ \A i \in 1..Len(list) : Tail(t)[i] = list[i]
      BY <2>1, <2>2
    <2>5. Tail(t) = list
      BY <2>4, SeqEqual
    <2> QED BY <2>2, <2>3, <2>5 DEF t
  <1> QED BY <1>2, <1>3, <1>4

\* A list without one of its nodes.
LEMMA WithoutProps ==
    ASSUME NEW list \in Seq(Keys), NEW k
    PROVE  /\ Without(list, k) \in Seq(Keys) /\ ToSet(Without(list, k)) = ToSet(list) \ {k}
           /\ NoTwice(list) => NoTwice(Without(list, k))
  <1>1. ToSet(list) \cap (ToSet(list) \ {k}) = ToSet(list) \ {k}
    OBVIOUS
  <1> QED BY <1>1, ThoseProps DEF Without

\* Lists of which one is another.
LEMMA OneList ==
    ASSUME NEW m \in Nat, NEW lists \in ListsOf(m), NEW i \in 0..m, NEW s \in Seq(Keys)
    PROVE  /\ Upd(lists, i, s) \in ListsOf(m)
           /\ Upd(lists, i, s)[i] = s
           /\ \A j \in 0..m : j # i => Upd(lists, i, s)[j] = lists[j]
  BY DEF ListsOf, Upd

\* Moving a node to the front changes nothing but the order.
LEMMA FiledToFront ==
    ASSUME NEW lists, NEW m \in Nat, NEW S, NEW at, Filed(lists, m, S, at), NEW i \in 0..m,
           NEW k, Contains(lists[i], k)
    PROVE  /\ Filed(Upd(lists, i, ToFront(lists[i], k)), m, S, at)
           /\ Head(Upd(lists, i, ToFront(lists[i], k))[i]) = k
           /\ Upd(lists, i, ToFront(lists[i], k))[i] # <<>>
  <1> DEFINE l == lists[i]
             w == Without(l, k)
             t == ToFront(l, k)
             new == Upd(lists, i, t)
  <1>1. l \in Seq(Keys) /\ k \in S /\ at[k] = i /\ k \in Keys
    BY FiledOn DEF Filed
  <1>2. NoTwice(l) /\ ToSet(l) = {x \in S : at[x] = i}
    BY DEF Filed
  <1>3. w \in Seq(Keys) /\ ToSet(w) = ToSet(l) \ {k} /\ NoTwice(w)
    BY <1>1, <1>2, WithoutProps
  <1>4. t = <<k>> \o w
    BY DEF ToFront
  <1> HIDE DEF w, t
  <1>5. t \in Seq(Keys) /\ ToSet(t) = ToSet(w) \cup {k} /\ NoTwice(t) /\ Head(t) = k /\ t # <<>>
    <2>1. k \notin ToSet(w)
      BY <1>3
    <2> QED BY <2>1, <1>1, <1>3, <1>4, FrontProps
  <1>6. ToSet(t) = {x \in S : at[x] = i}
    BY <1>1, <1>2, <1>3, <1>5
  <1>7. new \in ListsOf(m) /\ new[i] = t /\ \A j \in 0..m : j # i => new[j] = lists[j]
    BY <1>5, OneList DEF Filed
  <1> HIDE DEF new
  <1>8. \A j \in 0..m : NoTwice(new[j]) /\ ToSet(new[j]) = {x \in S : at[x] = j}
    BY <1>5, <1>6, <1>7 DEF Filed
  <1>9. Filed(new, m, S, at)
    BY <1>7, <1>8 DEF Filed
  <1> QED BY <1>5, <1>7, <1>9 DEF t, new

\* Another node goes to the front of some list.
LEMMA FiledMore ==
    ASSUME NEW lists, NEW m \in Nat, NEW S, NEW at, Filed(lists, m, S, at), NEW i \in 0..m,
           NEW k \in Keys, k \notin S
    PROVE  Filed(Upd(lists, i, <<k>> \o lists[i]), m, S \cup {k}, More(at, S, k, i))
  <1> DEFINE l == lists[i]
             t == <<k>> \o l
             new == Upd(lists, i, t)
             R == S \cup {k}
             to == More(at, S, k, i)
  <1>1. l \in Seq(Keys) /\ NoTwice(l) /\ ToSet(l) = {x \in S : at[x] = i}
    BY DEF Filed, ListsOf
  <1>2. t \in Seq(Keys) /\ ToSet(t) = ToSet(l) \cup {k} /\ NoTwice(t)
    <2>1. k \notin ToSet(l)
      BY <1>1
    <2> QED BY <2>1, <1>1, FrontProps
  <1> HIDE DEF t
  <1>3. new \in ListsOf(m) /\ new[i] = t /\ \A j \in 0..m : j # i => new[j] = lists[j]
    BY <1>2, OneList DEF Filed
  <1> HIDE DEF new
  <1>4. to \in [R -> 0..m] /\ R \subseteq Keys
    BY DEF Filed, More
  <1>5. \A x \in S : to[x] = at[x]
    BY DEF More
  <1>6. to[k] = i
    BY DEF More
  <1> HIDE DEF to
  <1>7. \A j \in 0..m : NoTwice(new[j]) /\ ToSet(new[j]) = {x \in R : to[x] = j}
    <2> SUFFICES ASSUME NEW j \in 0..m PROVE NoTwice(new[j]) /\ ToSet(new[j]) = {x \in R : to[x] = j}
      OBVIOUS
    <2>1. CASE j = i
      BY <2>1, <1>1, <1>2, <1>3, <1>5, <1>6
    <2>2. CASE j # i
      <3>1. new[j] = lists[j] /\ NoTwice(lists[j]) /\ ToSet(lists[j]) = {x \in S : at[x] = j}
        BY <2>2, <1>3 DEF Filed
      <3> QED BY <3>1, <2>2, <1>5, <1>6
    <2> QED BY <2>1, <2>2
  <1>8. Filed(new, m, R, to)
    BY <1>3, <1>4, <1>7 DEF Filed
  <1> QED BY <1>8 DEF t, new, to

\* A node leaves its list.
LEMMA FiledLess ==
    ASSUME NEW lists, NEW m \in Nat, NEW S, NEW at, Filed(lists, m, S, at), NEW i \in 0..m,
           NEW k \in S, at[k] = i, NEW s \in Seq(Keys), NoTwice(s), ToSet(s) = ToSet(lists[i]) \ {k}
    PROVE  Filed(Upd(lists, i, s), m, S \ {k}, Less(at, S, k))
  <1> DEFINE new == Upd(lists, i, s)
             R == S \ {k}
             to == Less(at, S, k)
  <1>1. new \in ListsOf(m) /\ new[i] = s /\ \A j \in 0..m : j # i => new[j] = lists[j]
    BY OneList DEF Filed
  <1> HIDE DEF new
  <1>2. to \in [R -> 0..m] /\ R \subseteq Keys /\ \A x \in R : to[x] = at[x]
    BY DEF Filed, Less
  <1> HIDE DEF to
  <1>3. \A j \in 0..m : NoTwice(new[j]) /\ ToSet(new[j]) = {x \in R : to[x] = j}
    <2> SUFFICES ASSUME NEW j \in 0..m PROVE NoTwice(new[j]) /\ ToSet(new[j]) = {x \in R : to[x] = j}
      OBVIOUS
    <2>0. NoTwice(lists[j]) /\ ToSet(lists[j]) = {x \in S : at[x] = j}
      BY DEF Filed
    <2>1. CASE j = i
      BY <2>0, <2>1, <1>1, <1>2
    <2>2. CASE j # i
      BY <2>0, <2>2, <1>1, <1>2
    <2> QED BY <2>1, <2>2
  <1> QED BY <1>1, <1>2, <1>3 DEF Filed, new, to

\* Where it is unlinked, and where it is at the front.
LEMMA FiledWithout ==
    ASSUME NEW lists, NEW m \in Nat, NEW S, NEW at, Filed(lists, m, S, at), NEW i \in 0..m,
           NEW k \in S, at[k] = i
    PROVE  /\ Filed(Upd(lists, i, Without(lists[i], k)), m, S \ {k}, Less(at, S, k))
           /\ lists[i] # <<>> /\ Head(lists[i]) = k =>
                Filed(Upd(lists, i, Tail(lists[i])), m, S \ {k}, Less(at, S, k))
  <1> DEFINE l == lists[i]
  <1>1. l \in Seq(Keys) /\ NoTwice(l)
    BY DEF Filed, ListsOf
  <1> HIDE DEF l
  <1>2. Without(l, k) \in Seq(Keys) /\ ToSet(Without(l, k)) = ToSet(l) \ {k} /\ NoTwice(Without(l, k))
    BY <1>1, WithoutProps
  <1>3. ASSUME l # <<>>, Head(l) = k
        PROVE  Tail(l) \in Seq(Keys) /\ ToSet(Tail(l)) = ToSet(l) \ {k} /\ NoTwice(Tail(l))
    <2> DEFINE t == Tail(l)
               n == Len(l)
    <2>1. n \in Nat /\ n > 0 /\ l[1] = k
      BY <1>1, <1>3
    <2>2. t \in Seq(Keys) /\ Len(t) = n - 1 /\ \A j \in 1..n - 1 : t[j] = l[j + 1]
      BY <1>1, <1>3, <2>1
    <2> HIDE DEF t
    <2>3. DOMAIN t = 1..n - 1 /\ DOMAIN l = 1..n
      BY <1>1, <2>2
    <2>4. \A j \in 1..n - 1 : j + 1 \in 1..n /\ j + 1 # 1
      BY <2>1
    <2>5. NoTwice(t)
      <3> SUFFICES ASSUME NEW a \in 1..n - 1, NEW b \in 1..n - 1, t[a] = t[b] PROVE a = b
        BY <2>2 DEF NoTwice
      <3>1. a + 1 = b + 1
        BY <1>1, <2>2, <2>4 DEF NoTwice
      <3> QED BY <3>1, <2>1
    <2>6. ASSUME NEW x \in ToSet(t) PROVE x \in ToSet(l) \ {k}
      <3>1. PICK j \in 1..n - 1 : x = t[j]
        BY <2>3 DEF ToSet
      <3>2. x = l[j + 1] /\ j + 1 \in 1..n /\ j + 1 # 1 /\ 1 \in 1..n
        BY <3>1, <2>1, <2>2, <2>4
      <3>3. x # k
        BY <3>2, <1>1, <2>1 DEF NoTwice
      <3> QED BY <3>2, <3>3, <2>3 DEF ToSet
    <2>7. ASSUME NEW x \in ToSet(l) \ {k} PROVE x \in ToSet(t)
      <3>1. PICK j \in 1..n : x = l[j]
        BY <2>3 DEF ToSet
      <3>2. j - 1 \in 1..n - 1 /\ (j - 1) + 1 = j
        BY <3>1, <2>1, <2>7
      <3>3. x = t[j - 1]
        BY <3>1, <3>2, <2>2
      <3> QED BY <3>2, <3>3, <2>3 DEF ToSet
    <2>8. ToSet(t) = ToSet(l) \ {k}
      BY <2>6, <2>7
    <2> QED BY <2>2, <2>5, <2>8 DEF t
  <1>4. Filed(Upd(lists, i, Without(l, k)), m, S \ {k}, Less(at, S, k))
    <2> DEFINE w == Without(l, k)
    <2>1. w \in Seq(Keys) /\ ToSet(w) = ToSet(lists[i]) \ {k} /\ NoTwice(w)
      BY <1>2 DEF l
    <2> HIDE DEF w
    <2>2. Filed(Upd(lists, i, w), m, S \ {k}, Less(at, S, k))
      BY <2>1, FiledLess
    <2> QED BY <2>2 DEF w
  <1>5. ASSUME l # <<>>, Head(l) = k
        PROVE  Filed(Upd(lists, i, Tail(l)), m, S \ {k}, Less(at, S, k))
    <2> DEFINE w == Tail(l)
    <2>1. w \in Seq(Keys) /\ ToSet(w) = ToSet(lists[i]) \ {k} /\ NoTwice(w)
      BY <1>3, <1>5 DEF l
    <2> HIDE DEF w
    <2>2. Filed(Upd(lists, i, w), m, S \ {k}, Less(at, S, k))
      BY <2>1, FiledLess
    <2> QED BY <2>2 DEF w
  <1> QED BY <1>4, <1>5 DEF l

\* A list that has no node twice is no longer than the nodes are many.
LEMMA ShortList ==
    ASSUME NEW T, IsFiniteSet(T), NEW s \in Seq(Keys), NoTwice(s), ToSet(s) \subseteq T
    PROVE  Len(s) <= Cardinality(T)
  <1>1. Len(s) \in Nat /\ DOMAIN s = 1..Len(s)
    OBVIOUS
  <1>2. s \in [1..Len(s) -> T]
    BY <1>1 DEF ToSet
  <1>3. s \in Injection(1..Len(s), T)
    BY <1>1, <1>2 DEF Injection, IsInjective, NoTwice
  <1>4. Cardinality(1..Len(s)) <= Cardinality(T)
    BY <1>3, FS_Injection
  <1>5. Cardinality(1..Len(s)) = IF 1 > Len(s) THEN 0 ELSE Len(s) - 1 + 1
    BY SMTT(30), <1>1, FS_Interval
  <1> QED BY <1>1, <1>4, <1>5

\* How often a node is on the lists.
LEMMA CountIs ==
    ASSUME NEW lists, NEW m \in Nat, NEW S, NEW at, Filed(lists, m, S, at), NEW k,
           A.size \in Nat, \A i \in 0..m : Len(lists[i]) <= A.size
    PROVE  Count(lists, k) = IF k \in S THEN 1 ELSE 0
  <1> DEFINE places == {p \in (DOMAIN lists) \X (1..A.size) : p[2] <= Len(lists[p[1]]) /\ lists[p[1]][p[2]] = k}
  <1>1. DOMAIN lists = 0..m /\ \A i \in 0..m : lists[i] \in Seq(Keys) /\ DOMAIN lists[i] = 1..Len(lists[i]) /\ Len(lists[i]) \in Nat
    BY DEF Filed, ListsOf
  <1>2. \A p \in places : k \in S /\ at[k] = p[1] /\ p[1] \in 0..m /\ p[2] \in 1..Len(lists[p[1]])
    <2> SUFFICES ASSUME NEW p \in places
                 PROVE  k \in S /\ at[k] = p[1] /\ p[1] \in 0..m /\ p[2] \in 1..Len(lists[p[1]])
      OBVIOUS
    <2>1. p[1] \in 0..m /\ p[2] \in 1..Len(lists[p[1]]) /\ lists[p[1]][p[2]] = k
      BY <1>1
    <2>2. k \in ToSet(lists[p[1]])
      BY <2>1, <1>1 DEF ToSet
    <2> QED BY <2>1, <2>2 DEF Filed
  <1>3. CASE k \notin S
    <2>1. places = {}
      BY <1>2, <1>3
    <2> QED BY <2>1, <1>3, FS_EmptySet DEF Count
  <1>4. CASE k \in S
    <2> DEFINE i == at[k]
    <2>1. i \in 0..m /\ k \in ToSet(lists[i])
      BY <1>4 DEF Filed
    <2>2. PICK j \in 1..Len(lists[i]) : lists[i][j] = k
      BY <1>1, <2>1 DEF ToSet
    <2>3. <<i, j>> \in places
      BY <1>1, <2>1, <2>2
    <2>4. \A p \in places : p = <<i, j>>
      <3> SUFFICES ASSUME NEW p \in places PROVE p = <<i, j>>
        OBVIOUS
      <3>1. p[1] = i /\ p[2] \in 1..Len(lists[i])
        BY <1>2
      <3>2. lists[i][p[2]] = k
        BY <3>1
      <3>3. p[2] = j
        BY <2>1, <2>2, <3>1, <3>2 DEF Filed, NoTwice
      <3>4. p = <<p[1], p[2]>>
        OBVIOUS
      <3> QED BY <3>1, <3>3, <3>4
    <2>5. places = {<<i, j>>}
      BY <2>3, <2>4
    <2> QED BY <2>5, <1>4, FS_Singleton DEF Count
  <1> QED BY <1>3, <1>4

\* Empty lists.
LEMMA FiledNone ==
    ASSUME NEW m \in Nat
    PROVE  Filed(NoLists(m), m, {}, <<>>)
  <1>1. NoLists(m) \in ListsOf(m)
    BY DEF NoLists, ListsOf
  <1>2. \A i \in 0..m : NoTwice(NoLists(m)[i]) /\ ToSet(NoLists(m)[i]) = {}
    BY DEF NoLists, NoTwice, ToSet
  <1>3. <<>> \in [{} -> 0..m]
    OBVIOUS
  <1> QED BY <1>1, <1>2, <1>3 DEF Filed

\* Where the nodes of a sequence go when each list takes those of its bucket.
Filing(nodes, h, m) == [i \in 0..m |-> Those(nodes, {k \in ToSet(nodes) : Bucket(h[k], m) = i})]
InBuckets(S, h, m) == [k \in S |-> Bucket(h[k], m)]

\* Filing the nodes of a sequence without repetitions puts each on the list of its
\* bucket, once.
LEMMA FiledAll ==
    ASSUME NEW m \in Nat, NEW nodes \in Seq(Keys), NoTwice(nodes), NEW h,
           \A k \in ToSet(nodes) : h[k] \in Int
    PROVE  Filed(Filing(nodes, h, m), m, ToSet(nodes), InBuckets(ToSet(nodes), h, m))
  <1> DEFINE S == ToSet(nodes)
             at == InBuckets(S, h, m)
             new == Filing(nodes, h, m)
  <1>1. S \subseteq Keys
    BY DEF ToSet
  <1>2. \A k \in S : at[k] = Bucket(h[k], m) /\ at[k] \in 0..m
    BY BucketType DEF InBuckets
  <1>3. at \in [S -> 0..m]
    BY <1>2 DEF InBuckets
  <1>4. ASSUME NEW i \in 0..m
        PROVE  new[i] \in Seq(Keys) /\ NoTwice(new[i]) /\ ToSet(new[i]) = {k \in S : at[k] = i}
    <2> DEFINE P == {k \in S : Bucket(h[k], m) = i}
    <2>1. new[i] = Those(nodes, P)
      BY DEF Filing
    <2> HIDE DEF P
    <2>2. Those(nodes, P) \in Seq(Keys) /\ NoTwice(Those(nodes, P)) /\ ToSet(Those(nodes, P)) = S \cap P
      BY ThoseProps
    <2>3. S \cap P = {k \in S : at[k] = i}
      BY <1>2 DEF P
    <2> QED BY <2>1, <2>2, <2>3
  <1>5. new \in ListsOf(m)
    BY <1>4 DEF Filing, ListsOf
  <1> QED BY <1>1, <1>3, <1>4, <1>5 DEF Filed

\* Where they are after the table was doubled.
Doubling(at, S, h, m) == [k \in S |-> IF Bucket(h[k], 2 * m + 1) = at[k] THEN at[k] ELSE at[k] + m + 1]

\* Doubling takes nothing off the lists.
LEMMA FiledTwice ==
    ASSUME NEW lists, NEW m \in Nat, NEW S, NEW at, Filed(lists, m, S, at), NEW h
    PROVE  Filed(Spread(lists, h, m), 2 * m + 1, S, Doubling(at, S, h, m))
  <1> DEFINE n == 2 * m + 1
             new == Spread(lists, h, m)
             to == Doubling(at, S, h, m)
             Old(i) == IF i <= m THEN i ELSE i - m - 1
             P(i) == IF i <= m THEN Belong(lists[i], h, m, i)
                     ELSE ToSet(lists[i - m - 1]) \ Belong(lists[i - m - 1], h, m, i - m - 1)
  <1>1. \A i \in 0..n : Old(i) \in 0..m /\ (i <= m => Old(i) = i) /\ (~(i <= m) => Old(i) = i - m - 1)
    OBVIOUS
  <1>2. \A k \in S : at[k] \in 0..m
    BY DEF Filed
  <1>3. \A k \in S : to[k] = IF Bucket(h[k], n) = at[k] THEN at[k] ELSE at[k] + m + 1
    BY DEF Doubling
  <1>4. to \in [S -> 0..n]
    <2>1. \A k \in S : at[k] \in 0..n /\ at[k] + m + 1 \in 0..n
      BY <1>2
    <2> QED BY <2>1 DEF Doubling
  <1>5. \A i \in 0..n : new[i] = Those(lists[Old(i)], P(i))
    BY DEF Spread
  <1> HIDE DEF new, to, Old
  <1>6. ASSUME NEW i \in 0..n
        PROVE  new[i] \in Seq(Keys) /\ NoTwice(new[i]) /\ ToSet(new[i]) = {k \in S : to[k] = i}
    <2> DEFINE l == lists[Old(i)]
               Q == P(i)
    <2>1. l \in Seq(Keys) /\ NoTwice(l) /\ ToSet(l) = {k \in S : at[k] = Old(i)}
      BY <1>1 DEF Filed, ListsOf
    <2>2. new[i] = Those(l, Q)
      BY <1>5
    <2>3. ToSet(l) \cap Q = {k \in S : to[k] = i}
      <3>1. CASE i <= m
        <4>1. Old(i) = i /\ Q = {k \in ToSet(lists[i]) : Bucket(h[k], n) = i}
          BY <3>1, <1>1 DEF Belong
        <4>2. ToSet(l) \cap Q = {k \in S : at[k] = i /\ Bucket(h[k], n) = i}
          BY <2>1, <4>1
        <4>3. \A k \in S : to[k] = i <=> (at[k] = i /\ Bucket(h[k], n) = i)
          BY <1>2, <1>3, <3>1
        <4> QED BY <4>2, <4>3
      <3>2. CASE ~(i <= m)
        <4> DEFINE o == i - m - 1
        <4>1. Old(i) = o /\ Q = ToSet(lists[o]) \ {k \in ToSet(lists[o]) : Bucket(h[k], n) = o} /\ o \in 0..m
          BY <3>2, <1>1 DEF Belong
        <4>2. ToSet(l) \cap Q = {k \in S : at[k] = o /\ Bucket(h[k], n) # o}
          BY <2>1, <4>1
        <4>3. \A k \in S : to[k] = i <=> (at[k] = o /\ Bucket(h[k], n) # o)
          BY <1>2, <1>3, <3>2
        <4> QED BY <4>2, <4>3
      <3> QED BY <3>1, <3>2
    <2> HIDE DEF l, Q
    <2>4. Those(l, Q) \in Seq(Keys) /\ NoTwice(Those(l, Q)) /\ ToSet(Those(l, Q)) = ToSet(l) \cap Q
      BY <2>1, ThoseProps
    <2> QED BY <2>2, <2>3, <2>4 DEF l
  <1>7. new \in ListsOf(n)
    BY <1>6 DEF Spread, ListsOf, new
  <1>8. Filed(new, n, S, to)
    BY <1>4, <1>6, <1>7 DEF Filed
  <1> QED BY <1>6, <1>8 DEF new, to, Old

\* Nodes that were in their buckets are in their new ones.
LEMMA DoublingFiles ==
    ASSUME NEW m \in Nat, NEW S, NEW at, NEW h, NEW k \in S, h[k] \in Int, at[k] = Bucket(h[k], m)
    PROVE  Doubling(at, S, h, m)[k] = Bucket(h[k], 2 * m + 1)
  <1>1. Bucket(h[k], m) \in 0..m
    BY BucketType
  <1>2. Bucket(h[k], 2 * m + 1) = Bucket(h[k], m) \/ Bucket(h[k], 2 * m + 1) = Bucket(h[k], m) + m + 1
    BY BucketSplits
  <1> QED BY <1>1, <1>2 DEF Doubling

\* The walk over all lists meets every node once.
LEMMA WalkAll ==
    ASSUME NEW lists, NEW m \in Nat, NEW S, NEW at, Filed(lists, m, S, at)
    PROVE  Walk(lists, m) \in Seq(Keys) /\ ToSet(Walk(lists, m)) = S /\ NoTwice(Walk(lists, m))
  <1> DEFINE seqs == [i \in 1..m + 1 |-> lists[i - 1]]
  <1>1. \A i \in 1..m + 1 : i - 1 \in 0..m
    OBVIOUS
  <1>2. \A i \in 1..m + 1 : seqs[i] = lists[i - 1] /\ seqs[i] \in Seq(Keys) /\ NoTwice(seqs[i])
                            /\ ToSet(seqs[i]) = {k \in S : at[k] = i - 1}
    BY <1>1 DEF Filed, ListsOf
  <1>3. seqs \in Seq(Seq(Keys)) /\ Len(seqs) = m + 1 /\ m + 1 \in Nat /\ m + 1 > 0
    BY <1>2
  <1>4. Walk(lists, m) = FlattenSeq(seqs)
    BY DEF Walk
  <1> HIDE DEF seqs
  <1>5. \A i, j \in 1..m + 1 : i # j => ToSet(seqs[i]) \cap ToSet(seqs[j]) = {}
    <2> SUFFICES ASSUME NEW i \in 1..m + 1, NEW j \in 1..m + 1, i # j, NEW k \in ToSet(seqs[i]), k \in ToSet(seqs[j])
                 PROVE  FALSE
      OBVIOUS
    <2>1. at[k] = i - 1 /\ at[k] = j - 1
      BY <1>2
    <2> QED BY <2>1
  <1>6. /\ FlattenSeq(seqs) \in Seq(Keys)
        /\ ToSet(FlattenSeq(seqs)) = UNION {ToSet(seqs[i]) : i \in 1..m + 1}
        /\ NoTwice(FlattenSeq(seqs))
    BY <1>2, <1>3, <1>5, FlatProps
  <1>7. UNION {ToSet(seqs[i]) : i \in 1..m + 1} = S
    <2>1. ASSUME NEW k \in S PROVE k \in UNION {ToSet(seqs[i]) : i \in 1..m + 1}
      <3>1. at[k] \in 0..m
        BY DEF Filed
      <3>2. at[k] + 1 \in 1..m + 1 /\ (at[k] + 1) - 1 = at[k]
        BY <3>1
      <3>3. k \in ToSet(seqs[at[k] + 1])
        BY <3>2, <1>2
      <3> QED BY <3>2, <3>3
    <2> QED BY <2>1, <1>2
  <1> QED BY <1>4, <1>6, <1>7

-----------------------------------------------------------------------------
(* The array.                                                              *)

Lists == {<<>>} \cup UNION {ListsOf(m) : m \in Nat}
Maps  == UNION {[S -> Val] : S \in SUBSET Keys}
ArrT  == [type : Flags, size : Nat, limit : Nat, hmask : Nat, slist : Lists, ilist : Lists,
          cells : Seq(Val), val : Maps,
          svals : SUBSET Keys, ivals : SUBSET Keys, misfiled : SUBSET Keys]
Tables == {{"INT"}, {"STR"}, {"INT", "STR"}}

Sized(a) == /\ \E i \in Nat : a.hmask = doubled[i]
            /\ a.limit = hmask_to_limit(a.hmask) /\ a.size <= a.limit
            /\ IsFiniteSet(Live(a)) /\ a.size = Cardinality(Live(a)) /\ a.cells = <<>>

\* The nodes of S are on the lists by string, and those with an ival on the
\* lists by integer.
ByString(a, S) == IF "STR" \in a.type
                  THEN a.svals = S /\ Filed(a.slist, a.hmask, S, InBuckets(S, Hash, a.hmask))
                  ELSE a.svals = {} /\ a.slist \in ListsOf(a.hmask)
InPlace(a, at) == \A k \in a.ivals \ a.misfiled : at[k] = Bucket(k, a.hmask)
ByInteger(a, S) == /\ a.ivals \subseteq S \cap IntKeys
                   /\ "STR" \notin a.type => a.ivals = S /\ a.misfiled = {}
                   /\ \E at : Filed(a.ilist, a.hmask, a.ivals, at) /\ InPlace(a, at)

\* A table on whose lists are the nodes of S; all of them when no operation is
\* under way.
TableOK(a, S) == /\ a \in ArrT /\ a.type \in Tables /\ Sized(a)
                 /\ ByString(a, S) /\ ByInteger(a, S)
SplitOK(a) == /\ a \in ArrT /\ a.cells \in Seq(Val)
              /\ a = [NullArray EXCEPT !.type = AY_SPLIT, !.size = Len(a.cells), !.limit = a.limit, !.cells = a.cells]
              /\ Len(a.cells) <= a.limit /\ 1..Len(a.cells) \subseteq IntKeys
ArrOK(a) == \/ a = NullArray
            \/ SplitOK(a)
            \/ TableOK(a, Live(a))

MapOf(a) == IF a.type = AY_SPLIT THEN a.cells ELSE a.val
With(f, k, v) == [x \in DOMAIN f \cup {k} |-> IF x = k THEN v ELSE f[x]]

\* The keys are integers or have a hash.
LEMMA KeyTypes ==
    /\ \A k \in IntKeys : k \in Int /\ k \in Keys
    /\ \A k \in Keys : Hash[k] \in Nat /\ Hash[k] \in Int
    /\ StartMask \in Nat /\ MaxAve \in Nat \ {0} /\ Uninit \in Val
  BY HashArrayAssumption DEF Keys

\* There is room for one more node in a table of twice the lists.
LEMMA RoomForMore ==
    ASSUME NEW m \in Nat, NEW n \in Nat, n <= hmask_to_limit(m)
    PROVE  hmask_to_limit(m) \in Nat /\ hmask_to_limit(2 * m + 1) \in Nat /\ n + 1 <= hmask_to_limit(2 * m + 1)
  <1> DEFINE x == (m + 1) * MaxAve
  <1>1. MaxAve \in Nat \ {0}
    BY KeyTypes
  <1>2. x \in Nat /\ x >= 1
    <2>1. x \in Nat
      BY <1>1
    <2>2. x = m * MaxAve + MaxAve /\ m * MaxAve \in Nat
      BY <1>1, SMTT(20)
    <2> QED BY <1>1, <2>1, <2>2
  <1>3. (2 * m + 1 + 1) * MaxAve = 2 * x
    BY <1>1, SMTT(20)
  <1> HIDE DEF x
  <1>4. n <= x
    BY DEF x, hmask_to_limit
  <1>5. hmask_to_limit(m) = x /\ hmask_to_limit(2 * m + 1) = 2 * x
    BY <1>3 DEF x, hmask_to_limit
  <1> QED BY <1>2, <1>4, <1>5

\* The mask of a table is a natural number, and so is that of a doubled one.
LEMMA MaskType ==
    ASSUME NEW a, Sized(a), a \in ArrT
    PROVE  a.hmask \in Nat /\ \E i \in Nat : 2 * a.hmask + 1 = doubled[i]
  <1>1. PICK i \in Nat : a.hmask = doubled[i]
    BY DEF Sized
  <1>2. i + 1 \in Nat /\ doubled[i + 1] = 2 * doubled[i] + 1 /\ doubled[i] \in Nat
    BY Doubled
  <1> QED BY <1>1, <1>2

\* The fields after a node was counted, and after the table was doubled.
LEMMA CountedFields ==
    ASSUME NEW a \in ArrT, NEW k \in Keys
    PROVE  /\ Counted(a, k) \in ArrT /\ Counted(a, k).val = With(a.val, k, Uninit)
           /\ Counted(a, k).type = a.type /\ Counted(a, k).size = a.size + 1
           /\ Counted(a, k).limit = a.limit /\ Counted(a, k).hmask = a.hmask
           /\ Counted(a, k).slist = a.slist /\ Counted(a, k).ilist = a.ilist
           /\ Counted(a, k).cells = a.cells /\ Counted(a, k).svals = a.svals
           /\ Counted(a, k).ivals = a.ivals /\ Counted(a, k).misfiled = a.misfiled
  <1>1. a.size + 1 \in Nat
    BY DEF ArrT
  <1>2. With(a.val, k, Uninit) \in Maps
    <2>1. PICK S \in SUBSET Keys : a.val \in [S -> Val]
      BY DEF ArrT, Maps
    <2>2. With(a.val, k, Uninit) \in [S \cup {k} -> Val]
      BY <2>1, KeyTypes DEF With
    <2>3. S \cup {k} \in SUBSET Keys
      OBVIOUS
    <2> QED BY <2>2, <2>3 DEF Maps
  <1>3. Counted(a, k) = [a EXCEPT !.size = a.size + 1, !.val = With(a.val, k, Uninit)]
    BY DEF Counted, With, ArrT
  <1> QED BY <1>1, <1>2, <1>3 DEF ArrT

\* The fields of a table that was doubled.
LEMMA DoubleFields ==
    ASSUME NEW a \in ArrT,
           Spread(a.slist, Hash, a.hmask) \in Lists, Spread(a.ilist, Ival, a.hmask) \in Lists,
           2 * a.hmask + 1 \in Nat, hmask_to_limit(2 * a.hmask + 1) \in Nat
    PROVE  LET d == double_the_hash_table(a)
           IN  /\ d \in ArrT /\ d.type = a.type /\ d.size = a.size /\ d.val = a.val
               /\ d.hmask = 2 * a.hmask + 1 /\ d.limit = hmask_to_limit(2 * a.hmask + 1)
               /\ d.slist = Spread(a.slist, Hash, a.hmask) /\ d.ilist = Spread(a.ilist, Ival, a.hmask)
               /\ d.cells = a.cells /\ d.svals = a.svals /\ d.ivals = a.ivals /\ d.misfiled = a.misfiled
  BY DEF double_the_hash_table, ArrT

\* The nodes of a table are a finite set of keys.
LEMMA LiveType ==
    ASSUME NEW a \in ArrT
    PROVE  Live(a) \subseteq Keys /\ a.val \in [Live(a) -> Val]
  BY DEF ArrT, Maps, Live

\* The lists of a table are lists.
LEMMA TableLists ==
    ASSUME NEW a, NEW S, TableOK(a, S)
    PROVE  a.hmask \in Nat /\ a.slist \in ListsOf(a.hmask) /\ a.ilist \in ListsOf(a.hmask)
  <1>1. a.hmask \in Nat
    BY DEF TableOK, ArrT
  <1>2. a.slist \in ListsOf(a.hmask)
    BY DEF TableOK, ByString, Filed
  <1>3. a.ilist \in ListsOf(a.hmask)
    BY DEF TableOK, ByInteger, Filed
  <1> QED BY <1>1, <1>2, <1>3

\* Where the buckets of twice the lists come from.
LEMMA Halves ==
    ASSUME NEW m \in Nat, NEW i \in 0..2 * m + 1
    PROVE  i % (m + 1) = IF i <= m THEN i ELSE i - m - 1
  <1> DEFINE p == m + 1
             q == i \div p
             r == i % p
  <1>1. p \in Nat \ {0} /\ i \in Int
    OBVIOUS
  <1> HIDE DEF p
  <1>2. i = p * q + r /\ r \in 0..p - 1 /\ q \in Int
    BY <1>1, DivMod
  <1> HIDE DEF q, r
  <1>3. CASE i <= m
    <2>1. p * q + r = p * 0 + i /\ i \in 0..p - 1
      BY <1>1, <1>2, <1>3, SMTT(20) DEF p
    <2>2. r = i
      BY <1>1, <1>2, <2>1, Multiples
    <2> QED BY <1>3, <2>2 DEF r, p
  <1>4. CASE ~(i <= m)
    <2>1. p * q + r = p * 1 + (i - p) /\ i - p \in 0..p - 1
      BY <1>1, <1>2, <1>4, SMTT(20) DEF p
    <2>2. r = i - p
      BY <1>1, <1>2, <2>1, Multiples
    <2> QED BY <1>4, <2>2 DEF r, p
  <1> QED BY <1>3, <1>4

\* Any lists spread over twice as many lists are lists, and what a new list has it
\* has in the order of the old one.
LEMMA SpreadLists ==
    ASSUME NEW m \in Nat, NEW lists \in ListsOf(m), NEW h
    PROVE  /\ Spread(lists, h, m) \in ListsOf(2 * m + 1)
           /\ \A i \in 0..2 * m + 1 : \A j, k :
                Before(Spread(lists, h, m)[i], j, k) => Before(lists[i % (m + 1)], j, k)
  <1> DEFINE n == 2 * m + 1
             new == Spread(lists, h, m)
             Old(i) == i % (m + 1)
             P(i) == IF i <= m THEN Belong(lists[i], h, m, i)
                     ELSE ToSet(lists[i - m - 1]) \ Belong(lists[i - m - 1], h, m, i - m - 1)
  <1>1. \A i \in 0..n : Old(i) = IF i <= m THEN i ELSE i - m - 1
    BY Halves
  <1>2. \A i \in 0..n : Old(i) \in 0..m
    BY <1>1
  <1>3. \A i \in 0..n : new[i] = Those(lists[Old(i)], P(i))
    BY <1>1 DEF Spread
  <1> HIDE DEF Old, P, new
  <1>4. ASSUME NEW i \in 0..n
        PROVE  new[i] \in Seq(Keys) /\ \A j, k : Before(new[i], j, k) => Before(lists[Old(i)], j, k)
    <2> DEFINE l == lists[Old(i)]
               Q == P(i)
    <2>1. new[i] = Those(l, Q) /\ l \in Seq(Keys)
      BY <1>2, <1>3 DEF ListsOf
    <2> HIDE DEF l, Q
    <2>2. Those(l, Q) \in Seq(Keys) /\ \A j, k : Before(Those(l, Q), j, k) => Before(l, j, k)
      BY <2>1, ThoseProps
    <2> QED BY <2>1, <2>2 DEF l
  <1>5. new \in ListsOf(n)
    BY <1>4 DEF ListsOf, Spread, new
  <1> QED BY <1>4, <1>5 DEF new, Old

\* A node more, counted but not filed yet.
LEMMA CountedOK ==
    ASSUME NEW a, TableOK(a, Live(a)), NEW k \in Keys, k \notin Live(a)
    PROVE  LET c == Counted(a, k)
           IN  /\ c \in ArrT /\ c.type \in Tables /\ ByString(c, Live(a)) /\ ByInteger(c, Live(a))
               /\ Live(c) = Live(a) \cup {k} /\ IsFiniteSet(Live(c)) /\ c.size = Cardinality(Live(c))
               /\ c.val = With(a.val, k, Uninit)
               /\ c.size = a.size + 1 /\ c.limit = a.limit /\ c.hmask = a.hmask /\ c.cells = <<>>
               /\ c.type = a.type /\ c.svals = a.svals /\ c.ivals = a.ivals /\ c.misfiled = a.misfiled
  <1> DEFINE c == Counted(a, k)
  <1>1. a \in ArrT
    BY DEF TableOK
  <1>2. /\ c \in ArrT /\ c.val = With(a.val, k, Uninit)
        /\ c.type = a.type /\ c.size = a.size + 1
        /\ c.limit = a.limit /\ c.hmask = a.hmask
        /\ c.slist = a.slist /\ c.ilist = a.ilist
        /\ c.cells = a.cells /\ c.svals = a.svals
        /\ c.ivals = a.ivals /\ c.misfiled = a.misfiled
    BY <1>1, CountedFields
  <1> HIDE DEF c
  <1>3. Live(c) = Live(a) \cup {k}
    BY <1>2 DEF Live, With
  <1>4. IsFiniteSet(Live(c)) /\ c.size = Cardinality(Live(c))
    <2>1. IsFiniteSet(Live(a)) /\ a.size = Cardinality(Live(a))
      BY DEF TableOK, Sized
    <2>2. IsFiniteSet(Live(a) \cup {k}) /\ Cardinality(Live(a) \cup {k}) = Cardinality(Live(a)) + 1
      BY <2>1, FS_AddElement
    <2> QED BY <1>2, <1>3, <2>1, <2>2
  <1>5. c.type \in Tables /\ c.cells = <<>>
    BY <1>2 DEF TableOK, Sized
  <1>6. ByString(c, Live(a))
    BY <1>2 DEF TableOK, ByString
  <1>7. ByInteger(c, Live(a))
    BY <1>2 DEF TableOK, ByInteger, InPlace
  <1> QED BY <1>2, <1>3, <1>4, <1>5, <1>6, <1>7 DEF c

\* The fields that doubling leaves alone, and what else it does not disturb.
LEMMA DoubledOK ==
    ASSUME NEW a \in ArrT, NEW S, a.type \in Tables, ByString(a, S), ByInteger(a, S), S \subseteq Keys,
           hmask_to_limit(2 * a.hmask + 1) \in Nat
    PROVE  LET d == double_the_hash_table(a)
           IN  /\ d \in ArrT /\ d.type = a.type /\ d.size = a.size /\ d.val = a.val
               /\ d.hmask = 2 * a.hmask + 1 /\ d.limit = hmask_to_limit(2 * a.hmask + 1)
               /\ d.cells = a.cells /\ d.svals = a.svals /\ d.ivals = a.ivals /\ d.misfiled = a.misfiled
               /\ ByString(d, S) /\ ByInteger(d, S)
  <1> DEFINE d == double_the_hash_table(a)
             m == a.hmask
             n == 2 * m + 1
             sl == Spread(a.slist, Hash, m)
             il == Spread(a.ilist, Ival, m)
  <1>1. m \in Nat /\ n \in Nat
    BY DEF ArrT
  <1>2. a.slist \in ListsOf(m) /\ a.ilist \in ListsOf(m)
    BY DEF ByString, ByInteger, Filed
  <1>3. sl \in ListsOf(n) /\ il \in ListsOf(n)
    BY <1>1, <1>2, SpreadLists
  <1>4. sl \in Lists /\ il \in Lists
    BY <1>1, <1>3 DEF Lists
  <1>5. /\ d \in ArrT /\ d.type = a.type /\ d.size = a.size /\ d.val = a.val
        /\ d.hmask = n /\ d.limit = hmask_to_limit(n)
        /\ d.slist = sl /\ d.ilist = il
        /\ d.cells = a.cells /\ d.svals = a.svals /\ d.ivals = a.ivals /\ d.misfiled = a.misfiled
    BY <1>1, <1>4, DoubleFields
  <1> HIDE DEF d, m, n, sl, il
  <1>6. ByString(d, S)
    <2>1. CASE "STR" \in a.type
      <3> DEFINE at == InBuckets(S, Hash, m)
                 to == Doubling(at, S, Hash, m)
                 tb == InBuckets(S, Hash, n)
      <3>1. a.svals = S /\ Filed(a.slist, m, S, at)
        BY <2>1 DEF ByString, m
      <3>2. Filed(sl, n, S, to)
        BY <1>1, <3>1, FiledTwice DEF sl, n
      <3>3. \A k \in S : to[k] = tb[k]
        <4> SUFFICES ASSUME NEW k \in S PROVE to[k] = tb[k]
          OBVIOUS
        <4>1. at[k] = Bucket(Hash[k], m) /\ tb[k] = Bucket(Hash[k], n)
          BY DEF InBuckets
        <4>2. Hash[k] \in Int
          BY KeyTypes
        <4> HIDE DEF at, tb
        <4>3. to[k] = Bucket(Hash[k], 2 * m + 1)
          BY <1>1, <4>1, <4>2, DoublingFiles
        <4> QED BY <4>1, <4>3 DEF n
      <3>4. to = tb
        <4>1. to = [k \in S |-> to[k]]
          BY DEF Doubling
        <4>2. tb = [k \in S |-> tb[k]]
          BY DEF InBuckets
        <4> HIDE DEF to, tb
        <4> QED BY <4>1, <4>2, <3>3
      <3> QED BY <2>1, <1>5, <3>1, <3>2, <3>4 DEF ByString
    <2>2. CASE "STR" \notin a.type
      BY <2>2, <1>3, <1>5 DEF ByString
    <2> QED BY <2>1, <2>2
  <1>7. ByInteger(d, S)
    <2>1. PICK at : Filed(a.ilist, m, a.ivals, at) /\ InPlace(a, at)
      BY DEF ByInteger, m
    <2> DEFINE to == Doubling(at, a.ivals, Ival, m)
    <2>2. Filed(il, n, a.ivals, to)
      BY <1>1, <2>1, FiledTwice DEF il, n
    <2>3. \A k \in a.ivals \ a.misfiled : to[k] = Bucket(k, n)
      <3> SUFFICES ASSUME NEW k \in a.ivals \ a.misfiled PROVE to[k] = Bucket(k, n)
        OBVIOUS
      <3>1. k \in IntKeys /\ k \in Int
        BY KeyTypes DEF ByInteger
      <3>2. Ival[k] = k
        BY <3>1 DEF Ival
      <3>3. at[k] = Bucket(Ival[k], m) /\ Ival[k] \in Int
        BY <2>1, <3>1, <3>2 DEF InPlace, m
      <3>4. to[k] = Bucket(Ival[k], 2 * m + 1)
        BY <1>1, <3>3, DoublingFiles
      <3> QED BY <3>2, <3>4 DEF n
    <2> HIDE DEF to
    <2>4. Filed(d.ilist, d.hmask, d.ivals, to) /\ InPlace(d, to)
      BY <1>5, <2>2, <2>3 DEF InPlace
    <2> QED BY <1>5, <2>4 DEF ByInteger
  <1> QED BY <1>5, <1>6, <1>7 DEF d, n, m

\* A fresh node is counted and the table is doubled when that was one too many.
\* The lists hold what they held.
LEMMA NewNodeOK ==
    ASSUME NEW a, TableOK(a, Live(a)), NEW k \in Keys, k \notin Live(a)
    PROVE  LET n == NewNode(a, k)
           IN  /\ TableOK(n, Live(a)) /\ n.val = With(a.val, k, Uninit)
               /\ Live(n) = Live(a) \cup {k}
               /\ n.type = a.type /\ n.svals = a.svals /\ n.ivals = a.ivals /\ n.misfiled = a.misfiled
               /\ n.hmask # a.hmask => n.hmask = 2 * a.hmask + 1
  <1> DEFINE c == Counted(a, k)
             n == NewNode(a, k)
             d == double_the_hash_table(c)
             S == Live(a)
  <1>1. /\ c \in ArrT /\ c.type \in Tables /\ ByString(c, S) /\ ByInteger(c, S)
        /\ Live(c) = S \cup {k} /\ IsFiniteSet(Live(c)) /\ c.size = Cardinality(Live(c))
        /\ c.val = With(a.val, k, Uninit)
        /\ c.size = a.size + 1 /\ c.limit = a.limit /\ c.hmask = a.hmask /\ c.cells = <<>>
        /\ c.type = a.type /\ c.svals = a.svals /\ c.ivals = a.ivals /\ c.misfiled = a.misfiled
    BY CountedOK
  <1>2. a \in ArrT /\ Sized(a)
    BY DEF TableOK
  <1>3. a.hmask \in Nat /\ a.size \in Nat /\ a.limit = hmask_to_limit(a.hmask) /\ a.size <= hmask_to_limit(a.hmask)
        /\ \E i \in Nat : a.hmask = doubled[i]
    BY <1>2 DEF Sized, ArrT
  <1>4. hmask_to_limit(a.hmask) \in Nat /\ hmask_to_limit(2 * a.hmask + 1) \in Nat /\ a.size + 1 <= hmask_to_limit(2 * a.hmask + 1)
    BY <1>3, RoomForMore
  <1>5. n = IF c.size > c.limit THEN d ELSE c
    BY DEF NewNode, DoubleIfOver
  <1> HIDE DEF c, n
  <1>6. CASE ~(c.size > c.limit)
    <2>1. n = c
      BY <1>5, <1>6
    <2>2. c.size <= c.limit
      BY <1>1, <1>3, <1>4, <1>6
    <2>3. Sized(c)
      BY <1>1, <1>3, <2>2 DEF Sized
    <2> QED BY <1>1, <2>1, <2>3 DEF TableOK, n
  <1>7. CASE c.size > c.limit
    <2>1. n = d
      BY <1>5, <1>7
    <2>2. S \subseteq Keys /\ hmask_to_limit(2 * c.hmask + 1) \in Nat
      BY <1>1, <1>2, <1>4, LiveType
    <2>3. /\ d \in ArrT /\ d.type = c.type /\ d.size = c.size /\ d.val = c.val
          /\ d.hmask = 2 * c.hmask + 1 /\ d.limit = hmask_to_limit(2 * c.hmask + 1)
          /\ d.cells = c.cells /\ d.svals = c.svals /\ d.ivals = c.ivals /\ d.misfiled = c.misfiled
          /\ ByString(d, S) /\ ByInteger(d, S)
      BY <1>1, <2>2, DoubledOK
    <2> HIDE DEF d
    <2>4. Live(d) = Live(c)
      BY <2>3 DEF Live
    <2>5. \E i \in Nat : d.hmask = doubled[i]
      <3>1. \E i \in Nat : 2 * a.hmask + 1 = doubled[i]
        BY <1>2, MaskType
      <3> QED BY <3>1, <2>3, <1>1
    <2>6. Sized(d)
      BY <1>1, <1>3, <1>4, <2>3, <2>4, <2>5 DEF Sized
    <2>7. TableOK(d, S)
      BY <1>1, <2>3, <2>6 DEF TableOK
    <2> QED BY <1>1, <2>1, <2>3, <2>4, <2>7 DEF n
  <1> QED BY <1>6, <1>7

AtFront(list, k) == list # <<>> /\ Head(list) = k

\* Lists of a table are fields of an array.
LEMMA ListFields ==
    ASSUME NEW a \in ArrT, NEW S, NEW at, NEW lists, Filed(lists, a.hmask, S, at)
    PROVE  lists \in Lists
  <1>1. a.hmask \in Nat
    BY DEF ArrT
  <1> QED BY <1>1 DEF Filed, Lists

\* A node goes to the front of its slist.
LEMMA OnSlistOK ==
    ASSUME NEW a, NEW S, TableOK(a, S), "STR" \in a.type, NEW k \in Keys, k \notin S
    PROVE  LET b == OnSlist(a, k)
           IN  /\ TableOK(b, S \cup {k}) /\ b.val = a.val /\ b.hmask = a.hmask
               /\ b.type = a.type /\ b.ivals = a.ivals /\ b.misfiled = a.misfiled /\ b.ilist = a.ilist
               /\ AtFront(b.slist[Bucket(Hash[k], b.hmask)], k)
  <1> DEFINE b == OnSlist(a, k)
             m == a.hmask
             i == Bucket(Hash[k], m)
             T == S \cup {k}
             t == <<k>> \o a.slist[i]
             new == Upd(a.slist, i, t)
             at == InBuckets(S, Hash, m)
  <1>1. a \in ArrT /\ m \in Nat /\ a.svals = S /\ Filed(a.slist, m, S, at)
    BY DEF TableOK, ArrT, ByString
  <1>2. i \in 0..m /\ Hash[k] \in Int
    BY <1>1, KeyTypes, BucketType
  <1> HIDE DEF i, m, at
  <1>3. Filed(new, m, T, More(at, S, k, i))
    BY <1>1, <1>2, FiledMore
  <1>4. More(at, S, k, i) = InBuckets(T, Hash, m)
    BY DEF More, InBuckets, at, i
  <1>5. a.slist \in ListsOf(m) /\ a.slist[i] \in Seq(Keys)
    BY <1>1, <1>2 DEF Filed, ListsOf
  <1>6. t \in Seq(Keys) /\ AtFront(t, k)
    BY <1>5, FrontProps DEF AtFront
  <1> HIDE DEF t
  <1>7. new \in Lists /\ new[i] = t
    <2>1. Filed(new, a.hmask, T, More(at, S, k, i))
      BY <1>3 DEF m
    <2>2. new \in Lists
      BY <2>1, <1>1, ListFields
    <2> QED BY <2>2, <1>1, <1>2, <1>5, <1>6, OneList
  <1>8. S \cup {k} \in SUBSET Keys
    BY <1>1 DEF Filed
  <1>9. b = [a EXCEPT !.slist = new, !.svals = T]
    BY <1>1, <1>5 DEF OnSlist, Upd, t, i, m, ArrT
  <1> HIDE DEF new, T, b
  <1>10. /\ b \in ArrT /\ b.slist = new /\ b.svals = T
         /\ b.type = a.type /\ b.size = a.size /\ b.limit = a.limit /\ b.hmask = m /\ b.ilist = a.ilist
         /\ b.cells = a.cells /\ b.val = a.val /\ b.ivals = a.ivals /\ b.misfiled = a.misfiled
    BY <1>1, <1>7, <1>8, <1>9 DEF ArrT, T, m
  <1>11. Sized(b)
    <2>1. Live(b) = Live(a)
      BY <1>10 DEF Live
    <2> QED BY <2>1, <1>10 DEF TableOK, Sized, m
  <1>12. ByString(b, T)
    BY <1>3, <1>4, <1>10 DEF ByString
  <1>13. ByInteger(b, T)
    BY <1>10 DEF TableOK, ByInteger, InPlace, T, m
  <1>14. TableOK(b, T)
    BY <1>10, <1>11, <1>12, <1>13 DEF TableOK
  <1> QED BY <1>6, <1>7, <1>10, <1>14 DEF b, T, m, i

\* A node that is found on its slist comes to the front of it.
LEMMA FrontOfSlist ==
    ASSUME NEW a, NEW S, TableOK(a, S), "STR" \in a.type, NEW k \in S
    PROVE  LET i == Bucket(Hash[k], a.hmask)
               b == [a EXCEPT !.slist[i] = ToFront(@, k)]
           IN  /\ TableOK(b, S) /\ b.val = a.val /\ b.hmask = a.hmask
               /\ b.type = a.type /\ b.ivals = a.ivals /\ b.misfiled = a.misfiled /\ b.ilist = a.ilist
               /\ AtFront(b.slist[i], k)
  <1> DEFINE m == a.hmask
             i == Bucket(Hash[k], m)
             t == ToFront(a.slist[i], k)
             new == Upd(a.slist, i, t)
             at == InBuckets(S, Hash, m)
             b == [a EXCEPT !.slist[i] = ToFront(@, k)]
  <1>1. a \in ArrT /\ m \in Nat /\ a.svals = S /\ Filed(a.slist, m, S, at) /\ k \in Keys
    BY DEF TableOK, ArrT, ByString, Filed
  <1>2. i \in 0..m
    BY <1>1, KeyTypes, BucketType
  <1>3. at[k] = i
    BY DEF InBuckets
  <1> HIDE DEF i, m, at
  <1>4. Contains(a.slist[i], k)
    BY <1>1, <1>2, <1>3, FiledOn
  <1>5. Filed(new, m, S, at) /\ AtFront(new[i], k)
    <2> DEFINE l == a.slist
    <2>0. Filed(l, m, S, at) /\ Contains(l[i], k)
      BY <1>1, <1>4
    <2> HIDE DEF l
    <2>9. /\ Filed(Upd(l, i, ToFront(l[i], k)), m, S, at)
          /\ Head(Upd(l, i, ToFront(l[i], k))[i]) = k
          /\ Upd(l, i, ToFront(l[i], k))[i] # <<>>
      BY <2>0, <1>1, <1>2, FiledToFront
    <2>1. Filed(new, m, S, at) /\ Head(new[i]) = k /\ new[i] # <<>>
      BY <2>9 DEF l
    <2> QED BY <2>1 DEF AtFront
  <1> HIDE DEF t
  <1>6. new \in Lists
    BY <1>1, <1>5, ListFields DEF m
  <1>7. b = [a EXCEPT !.slist = new]
    BY <1>1 DEF Upd, t, ArrT
  <1> HIDE DEF new, b
  <1>8. /\ b \in ArrT /\ b.slist = new /\ b.svals = S
        /\ b.type = a.type /\ b.size = a.size /\ b.limit = a.limit /\ b.hmask = m /\ b.ilist = a.ilist
        /\ b.cells = a.cells /\ b.val = a.val /\ b.ivals = a.ivals /\ b.misfiled = a.misfiled
    BY <1>1, <1>6, <1>7 DEF ArrT, m
  <1>9. Sized(b)
    <2>1. Live(b) = Live(a)
      BY <1>8 DEF Live
    <2> QED BY <2>1, <1>8 DEF TableOK, Sized, m
  <1>10. ByString(b, S)
    BY <1>5, <1>8 DEF ByString, at
  <1>11. ByInteger(b, S)
    BY <1>8 DEF TableOK, ByInteger, InPlace, m
  <1>12. TableOK(b, S)
    BY <1>8, <1>9, <1>10, <1>11 DEF TableOK
  <1> QED BY <1>5, <1>8, <1>12 DEF b, m, i

\* What a lookup by string of a table that has its strings returns.
LEMMA SearchSlistOK ==
    ASSUME NEW a, TableOK(a, Live(a)), "STR" \in a.type, NEW k \in Keys, NEW create \in BOOLEAN
    PROVE  LET r == SearchSlist(a, k, create)
               b == r.arr
           IN  /\ r.shared = FALSE /\ r.hit = (k \in Live(a) \/ create)
               /\ TableOK(b, Live(b)) /\ b.type = a.type /\ b.ivals = a.ivals /\ b.misfiled = a.misfiled
               /\ b.hmask = a.hmask \/ b.hmask = 2 * a.hmask + 1
               /\ k \in Live(a) \/ ~create => b.val = a.val /\ b.hmask = a.hmask /\ b.ilist = a.ilist
               /\ k \notin Live(a) /\ create => b.val = With(a.val, k, Uninit)
               /\ r.hit => AtFront(b.slist[Bucket(Hash[k], b.hmask)], k)
  <1> DEFINE r == SearchSlist(a, k, create)
             m == a.hmask
             i == Bucket(Hash[k], m)
             S == Live(a)
             at == InBuckets(S, Hash, m)
             f == [a EXCEPT !.slist[i] = ToFront(@, k)]
             n == NewNode(a, k)
  <1>1. m \in Nat /\ Filed(a.slist, m, S, at)
    BY DEF TableOK, ArrT, ByString
  <1>2. i \in 0..m
    BY <1>1, KeyTypes, BucketType
  <1>3. Contains(a.slist[i], k) <=> k \in S
    <2>1. k \in S => at[k] = i
      BY DEF InBuckets
    <2> HIDE DEF at, i, m, S
    <2>2. Contains(a.slist[i], k) <=> k \in S /\ at[k] = i
      BY <1>1, <1>2, FiledOn
    <2> QED BY <2>1, <2>2
  <1>4. r = IF Contains(a.slist[i], k) THEN Hit(f) ELSE IF create THEN Hit(OnSlist(n, k)) ELSE Miss(a)
    BY DEF SearchSlist
  <1> HIDE DEF r, f, n
  <1>5. CASE k \in S
    <2>1. r.arr = f /\ r.hit = TRUE /\ r.shared = FALSE
      BY <1>3, <1>4, <1>5 DEF Hit
    <2>2. /\ TableOK(f, S) /\ f.val = a.val /\ f.hmask = a.hmask
          /\ f.type = a.type /\ f.ivals = a.ivals /\ f.misfiled = a.misfiled /\ f.ilist = a.ilist
          /\ AtFront(f.slist[i], k)
      BY <1>5, FrontOfSlist DEF f
    <2>3. Live(f) = S
      BY <2>2 DEF Live
    <2> QED BY <1>5, <2>1, <2>2, <2>3 DEF r
  <1>6. CASE k \notin S /\ ~create
    <2>1. r.arr = a /\ r.hit = FALSE /\ r.shared = FALSE
      BY <1>3, <1>4, <1>6 DEF Miss
    <2> QED BY <1>6, <2>1 DEF r
  <1>7. CASE k \notin S /\ create
    <2> DEFINE b == OnSlist(n, k)
    <2>1. r.arr = b /\ r.hit = TRUE /\ r.shared = FALSE
      BY <1>3, <1>4, <1>7 DEF Hit
    <2>2. /\ TableOK(n, S) /\ n.val = With(a.val, k, Uninit) /\ Live(n) = S \cup {k}
          /\ n.type = a.type /\ n.svals = a.svals /\ n.ivals = a.ivals /\ n.misfiled = a.misfiled
          /\ n.hmask # a.hmask => n.hmask = 2 * a.hmask + 1
      BY <1>7, NewNodeOK DEF n
    <2> HIDE DEF S
    <2>3. /\ TableOK(b, S \cup {k}) /\ b.val = n.val /\ b.hmask = n.hmask
          /\ b.type = n.type /\ b.ivals = n.ivals /\ b.misfiled = n.misfiled
          /\ AtFront(b.slist[Bucket(Hash[k], b.hmask)], k)
      BY <1>7, <2>2, OnSlistOK
    <2> HIDE DEF b
    <2>4. Live(b) = S \cup {k}
      BY <2>2, <2>3 DEF Live
    <2> QED BY <1>7, <2>1, <2>2, <2>3, <2>4 DEF r, S
  <1> QED BY <1>5, <1>6, <1>7

\* An array without a table, and one with an empty table.
LEMMA NullFields ==
    /\ NullArray \in ArrT /\ NullArray.type = {} /\ NullArray.size = 0 /\ NullArray.limit = 0 /\ NullArray.hmask = 0
    /\ NullArray.slist = <<>> /\ NullArray.ilist = <<>> /\ NullArray.cells = <<>> /\ NullArray.val = <<>>
    /\ NullArray.svals = {} /\ NullArray.ivals = {} /\ NullArray.misfiled = {} /\ Live(NullArray) = {}
  <1>1. <<>> \in Lists
    BY DEF Lists
  <1>2. <<>> \in Maps
    <2>1. <<>> \in [{} -> Val]
      OBVIOUS
    <2> QED BY <2>1 DEF Maps
  <1>3. <<>> \in Seq(Val) /\ DOMAIN <<>> = {}
    OBVIOUS
  <1> QED BY <1>1, <1>2, <1>3 DEF NullArray, ArrT, AY_NULL, Flags, Live

\* No nodes on empty lists.
LEMMA FiledNothing ==
    ASSUME NEW m \in Nat, NEW at \in [{} -> 0..m]
    PROVE  NoLists(m) \in ListsOf(m) /\ Filed(NoLists(m), m, {}, at)
  BY FiledNone DEF Filed

\* An array without a table gets an empty one.
LEMMA MakeEmptyOK ==
    ASSUME NEW flag \in {"INT", "STR"}
    PROVE  LET b == make_empty_table(NullArray, flag)
           IN  TableOK(b, Live(b)) /\ b.type = {flag} /\ b.val = <<>> /\ b.misfiled = {} /\ Live(b) = {}
  <1> DEFINE b == make_empty_table(NullArray, flag)
             m == StartMask
  <1>1. m \in Nat /\ NoLists(m) \in ListsOf(m) /\ NoLists(m) \in Lists
    BY KeyTypes, FiledNone DEF Filed, Lists
  <1>2. hmask_to_limit(m) \in Nat
    <2>1. 0 \in Nat /\ 0 <= hmask_to_limit(m)
      BY KeyTypes, SMTT(20) DEF hmask_to_limit
    <2> QED BY <1>1, <2>1, RoomForMore
  <1>3. b = [NullArray EXCEPT !.type = {flag}, !.hmask = m, !.limit = hmask_to_limit(m),
                              !.slist = NoLists(m), !.ilist = NoLists(m)]
    BY DEF make_empty_table
  <1>4. {flag} \in Flags /\ {flag} \in Tables
    BY DEF Flags, Tables
  <1> HIDE DEF b, m
  <1>5. /\ b \in ArrT /\ b.type = {flag} /\ b.size = 0 /\ b.limit = hmask_to_limit(m) /\ b.hmask = m
        /\ b.slist = NoLists(m) /\ b.ilist = NoLists(m) /\ b.cells = <<>> /\ b.val = <<>>
        /\ b.svals = {} /\ b.ivals = {} /\ b.misfiled = {}
    BY <1>1, <1>2, <1>3, <1>4, NullFields DEF ArrT
  <1>6. Live(b) = {}
    BY <1>5 DEF Live
  <1>7. Sized(b)
    <2>1. m = doubled[0] /\ 0 \in Nat
      BY Doubled DEF m
    <2>2. IsFiniteSet({}) /\ Cardinality({}) = 0
      BY FS_EmptySet
    <2> QED BY <1>2, <1>5, <1>6, <2>1, <2>2, RoomForMore DEF Sized
  <1>8. ByString(b, {})
    <2>1. InBuckets({}, Hash, m) \in [{} -> 0..m]
      BY DEF InBuckets
    <2>2. Filed(NoLists(m), m, {}, InBuckets({}, Hash, m))
      BY <1>1, <2>1, FiledNothing
    <2> QED BY <1>1, <1>5, <2>2 DEF ByString
  <1>9. ByInteger(b, {})
    <2>1. Filed(NoLists(m), m, {}, <<>>) /\ InPlace(b, <<>>)
      BY <1>1, <1>5, FiledNone DEF InPlace
    <2> QED BY <1>5, <2>1 DEF ByInteger
  <1> QED BY <1>4, <1>5, <1>6, <1>7, <1>8, <1>9 DEF TableOK, b

\* A table keyed on integers gets its strings.
LEMMA EnterAllOK ==
    ASSUME NEW a, TableOK(a, Live(a)), "STR" \notin a.type
    PROVE  LET b == EnterAll(a)
           IN  TableOK(b, Live(b)) /\ "STR" \in b.type /\ b.val = a.val /\ b.misfiled = a.misfiled
  <1> DEFINE b == EnterAll(a)
             m == a.hmask
             S == Live(a)
             w == Walk(a.ilist, m)
             nodes == Reverse(w)
             new == Filing(nodes, Hash, m)
  <1>1. a \in ArrT /\ m \in Nat /\ a.ivals = S /\ S \subseteq Keys
    BY LiveType DEF TableOK, ArrT, ByInteger
  <1>2. PICK at : Filed(a.ilist, m, a.ivals, at) /\ InPlace(a, at)
    BY DEF TableOK, ByInteger
  <1>3. b = [a EXCEPT !.slist = new, !.svals = S, !.type = a.type \cup {"STR"}]
    BY <1>1 DEF EnterAll, EnterStrings, Filing, ArrT
  <1> HIDE DEF m, S
  <1>4. w \in Seq(Keys) /\ ToSet(w) = S /\ NoTwice(w)
    <2>1. Filed(a.ilist, m, S, at)
      BY <1>1, <1>2
    <2> QED BY <1>1, <2>1, WalkAll
  <1> HIDE DEF w
  <1>5. nodes \in Seq(Keys) /\ ToSet(nodes) = S /\ NoTwice(nodes)
    BY <1>4, ReverseProps
  <1> HIDE DEF nodes
  <1>6. Filed(new, m, S, InBuckets(S, Hash, m))
    <2>1. \A k \in ToSet(nodes) : Hash[k] \in Int
      BY <1>1, <1>5, KeyTypes
    <2>2. Filed(Filing(nodes, Hash, m), m, ToSet(nodes), InBuckets(ToSet(nodes), Hash, m))
      BY <1>1, <1>5, <2>1, FiledAll
    <2> QED BY <2>2, <1>5
  <1> HIDE DEF new, b
  <1>7. new \in Lists
    BY <1>1, <1>6, ListFields DEF m
  <1>8. a.type \cup {"STR"} \in Flags /\ a.type \cup {"STR"} \in Tables
    BY DEF TableOK, Tables, Flags
  <1>9. /\ b \in ArrT /\ b.slist = new /\ b.svals = S /\ b.type = a.type \cup {"STR"}
        /\ b.size = a.size /\ b.limit = a.limit /\ b.hmask = m /\ b.ilist = a.ilist
        /\ b.cells = a.cells /\ b.val = a.val /\ b.ivals = a.ivals /\ b.misfiled = a.misfiled
    BY <1>1, <1>3, <1>7, <1>8 DEF ArrT, m
  <1>10. Live(b) = S
    BY <1>9 DEF Live, S
  <1>11. Sized(b)
    BY <1>9, <1>10 DEF TableOK, Sized, m, S
  <1>12. ByString(b, S)
    BY <1>6, <1>9 DEF ByString
  <1>13. ByInteger(b, S)
    BY <1>9 DEF TableOK, ByInteger, InPlace, m, S
  <1> QED BY <1>8, <1>9, <1>10, <1>11, <1>12, <1>13 DEF TableOK, b

\* The cells of a split array become nodes keyed on integers.
LEMMA ConvertOK ==
    ASSUME NEW a, SplitOK(a)
    PROVE  LET b == convert_split_array_to_table(a)
           IN  TableOK(b, Live(b)) /\ b.type = {"INT"} /\ b.val = a.cells /\ b.misfiled = {} /\ Live(b) = 1..a.size
  <1> DEFINE b == convert_split_array_to_table(a)
             n == a.size
             masks == {x \in {doubled[i] : i \in 0..n} : n <= hmask_to_limit(x)}
             m == Min(masks)
             desc == [i \in 1..n |-> n + 1 - i]
             S == 1..n
             new == [i \in 0..m |-> Those(desc, {k \in 1..n : Bucket(k, m) = i})]
  <1>1. a \in ArrT /\ n = Len(a.cells) /\ n \in Nat /\ a.cells \in [1..n -> Val] /\ S \subseteq IntKeys
    <2>1. a \in ArrT /\ a.cells \in Seq(Val) /\ 1..Len(a.cells) \subseteq IntKeys
      BY DEF SplitOK
    <2>2. a = [NullArray EXCEPT !.type = AY_SPLIT, !.size = Len(a.cells), !.limit = a.limit, !.cells = a.cells]
      BY DEF SplitOK
    <2>3. n = Len(a.cells)
      BY <2>2 DEF NullArray
    <2>4. n \in Nat /\ a.cells \in [1..n -> Val]
      BY <2>1, <2>3
    <2> QED BY <2>1, <2>3, <2>4
  <1>2. b = [NullArray EXCEPT !.type = {"INT"}, !.size = n, !.hmask = m,
                !.limit = hmask_to_limit(m), !.slist = NoLists(m), !.ilist = new,
                !.val = a.cells, !.ivals = S]
    BY DEF convert_split_array_to_table
  <1>3. m \in Nat /\ n <= hmask_to_limit(m) /\ \E i \in Nat : m = doubled[i]
    <2>1. masks \subseteq Nat
      <3>1. \A i \in 0..n : doubled[i] \in Nat
        <4>1. \A i \in 0..n : i \in Nat
          BY <1>1
        <4> QED BY <4>1, Doubled
      <3> QED BY <3>1
    <2>2. doubled[n] \in masks
      <3>1. doubled[n] \in Nat /\ doubled[n] >= n
        BY <1>1, Doubled
      <3>2. n <= hmask_to_limit(doubled[n])
        <4> DEFINE x == doubled[n]
        <4>1. x \in Nat /\ x >= n /\ MaxAve \in Nat \ {0}
          BY <3>1, KeyTypes
        <4> HIDE DEF x
        <4>2. (x + 1) * MaxAve >= x + 1
          BY <4>1, SMTT(20)
        <4>3. hmask_to_limit(x) = (x + 1) * MaxAve /\ (x + 1) * MaxAve \in Nat
          BY <4>1 DEF hmask_to_limit
        <4> QED BY <1>1, <4>1, <4>2, <4>3 DEF x
      <3> QED BY <1>1, <3>2
    <2> HIDE DEF masks
    <2>3. m \in masks
      BY <2>1, <2>2, MinProps
    <2>4. m \in Nat
      BY <2>1, <2>3
    <2> HIDE DEF m
    <2>5. PICK i \in 0..n : m = doubled[i]
      BY <2>3 DEF masks
    <2>6. i \in Nat
      BY <1>1
    <2> QED BY <2>3, <2>4, <2>5, <2>6 DEF masks
  <1> HIDE DEF masks, m
  <1>4. desc \in Seq(Keys) /\ ToSet(desc) = S /\ NoTwice(desc)
    <2>1. \A i \in 1..n : n + 1 - i \in 1..n
      BY <1>1
    <2>2. desc \in Seq(Keys) /\ Len(desc) = n /\ DOMAIN desc = 1..n
      BY <1>1, <2>1, KeyTypes
    <2>3. \A i \in 1..n : desc[i] = n + 1 - i
      OBVIOUS
    <2> HIDE DEF desc
    <2>4. ToSet(desc) = S
      <3>1. ASSUME NEW k \in S PROVE k \in ToSet(desc)
        <4>1. n + 1 - k \in 1..n /\ desc[n + 1 - k] = n + 1 - (n + 1 - k)
          BY <1>1, <2>3
        <4>2. n + 1 - (n + 1 - k) = k
          BY <1>1
        <4> QED BY <4>1, <4>2, <2>2 DEF ToSet
      <3>2. ASSUME NEW k \in ToSet(desc) PROVE k \in S
        BY <2>1, <2>2, <2>3 DEF ToSet
      <3> QED BY <3>1, <3>2
    <2>5. NoTwice(desc)
      <3> SUFFICES ASSUME NEW i \in 1..n, NEW j \in 1..n, desc[i] = desc[j] PROVE i = j
        BY <2>2 DEF NoTwice
      <3>1. n + 1 - i = n + 1 - j
        BY <2>3
      <3> QED BY <1>1, <3>1
    <2> QED BY <2>2, <2>4, <2>5
  <1> HIDE DEF desc
  <1>5. Filed(new, m, S, InBuckets(S, Ival, m))
    <2>1. \A k \in ToSet(desc) : Ival[k] = k /\ Ival[k] \in Int
      BY <1>1, <1>4, KeyTypes DEF Ival
    <2>2. Filed(Filing(desc, Ival, m), m, ToSet(desc), InBuckets(ToSet(desc), Ival, m))
      BY <1>3, <1>4, <2>1, FiledAll
    <2>3. new = Filing(desc, Ival, m)
      <3>1. \A i \in 0..m : {k \in ToSet(desc) : Bucket(Ival[k], m) = i} = {k \in 1..n : Bucket(k, m) = i}
        BY <1>4, <2>1
      <3> QED BY <3>1 DEF Filing
    <2> HIDE DEF new, S
    <2> QED BY <2>2, <2>3, <1>4
  <1> HIDE DEF new, b
  <1>6. new \in Lists /\ NoLists(m) \in Lists /\ NoLists(m) \in ListsOf(m)
    BY <1>3, <1>5, FiledNone DEF Filed, Lists
  <1>7. hmask_to_limit(m) \in Nat
    BY <1>1, <1>3, RoomForMore
  <1>8. {"INT"} \in Flags /\ {"INT"} \in Tables /\ a.cells \in Maps /\ S \subseteq Keys
    <2>1. S \subseteq Keys
      BY <1>1, KeyTypes
    <2> QED BY <2>1, <1>1 DEF Flags, Tables, Maps
  <1>9. /\ b \in ArrT /\ b.type = {"INT"} /\ b.size = n /\ b.limit = hmask_to_limit(m) /\ b.hmask = m
        /\ b.slist = NoLists(m) /\ b.ilist = new /\ b.cells = <<>> /\ b.val = a.cells
        /\ b.svals = {} /\ b.ivals = S /\ b.misfiled = {}
    BY <1>1, <1>2, <1>3, <1>6, <1>7, <1>8, NullFields DEF ArrT
  <1>10. Live(b) = S
    BY <1>1, <1>9 DEF Live
  <1>11. Sized(b)
    <2>1. IsFiniteSet(1..n) /\ Cardinality(1..n) = IF 1 > n THEN 0 ELSE n - 1 + 1
      BY SMTT(30), <1>1, FS_Interval
    <2>2. Cardinality(1..n) = n
      BY <2>1, <1>1
    <2> QED BY <1>3, <1>9, <1>10, <2>1, <2>2 DEF Sized
  <1>12. ByString(b, S)
    BY <1>6, <1>9 DEF ByString
  <1>13. ByInteger(b, S)
    <2>1. InPlace(b, InBuckets(S, Ival, m))
      BY <1>1, <1>9 DEF InPlace, InBuckets, Ival
    <2> QED BY <1>1, <1>5, <1>9, <2>1 DEF ByInteger
  <1> QED BY <1>8, <1>9, <1>10, <1>11, <1>12, <1>13 DEF TableOK, b

\* What a lookup of k returns when the array held the map m.
Found(r, m, k, create) ==
    /\ r.hit = (k \in DOMAIN m \/ create)
    /\ MapOf(r.arr) = IF k \in DOMAIN m \/ ~create THEN m ELSE With(m, k, Uninit)

\* The three kinds of array are told apart by their flags.
LEMMA Kinds ==
    ASSUME NEW a, ArrOK(a)
    PROVE  /\ a.type = AY_NULL => a = NullArray /\ MapOf(a) = <<>> /\ a.misfiled = {}
           /\ a.type = AY_SPLIT => SplitOK(a) /\ MapOf(a) = a.cells /\ a.misfiled = {}
           /\ a.type \notin {AY_NULL, AY_SPLIT} => TableOK(a, Live(a)) /\ MapOf(a) = a.val
           /\ "STR" \in a.type => TableOK(a, Live(a)) /\ MapOf(a) = a.val
           /\ a \in ArrT
  <1>1. {} \notin Tables /\ {"SPLIT"} \notin Tables /\ {} # {"SPLIT"} /\ "STR" \notin {"SPLIT"}
    BY DEF Tables
  <1>2. CASE a = NullArray
    BY <1>1, <1>2, NullFields DEF AY_NULL, AY_SPLIT, MapOf
  <1>3. CASE SplitOK(a)
    <2>1. a.type = {"SPLIT"} /\ a.misfiled = {} /\ a \in ArrT
      BY <1>3 DEF SplitOK, AY_SPLIT, NullArray
    <2> QED BY <1>1, <1>3, <2>1 DEF AY_NULL, AY_SPLIT, MapOf
  <1>4. CASE TableOK(a, Live(a))
    <2>1. a.type \in Tables /\ a \in ArrT
      BY <1>4 DEF TableOK
    <2> QED BY <1>1, <1>4, <2>1 DEF AY_NULL, AY_SPLIT, MapOf
  <1> QED BY <1>2, <1>3, <1>4 DEF ArrOK

\* A table holds its map in its nodes.
LEMMA TableMap ==
    ASSUME NEW a, NEW S, TableOK(a, S)
    PROVE  MapOf(a) = a.val /\ a.type # AY_SPLIT /\ a.type # AY_NULL /\ a \in ArrT
  BY DEF TableOK, Tables, MapOf, AY_SPLIT, AY_NULL

\* Any array gets a table with its strings.
LEMMA AddStringsOK ==
    ASSUME NEW a, ArrOK(a), "STR" \notin a.type
    PROVE  LET b == add_string_associations(a)
           IN  TableOK(b, Live(b)) /\ "STR" \in b.type /\ b.val = MapOf(a) /\ b.misfiled = a.misfiled
  <1> DEFINE b == add_string_associations(a)
  <1>1. CASE a.type = AY_NULL
    <2>1. a = NullArray /\ MapOf(a) = <<>> /\ a.misfiled = {}
      BY <1>1, Kinds
    <2>2. b = make_empty_table(NullArray, "STR")
      BY <1>1, <2>1 DEF add_string_associations
    <2> HIDE DEF b
    <2>3. TableOK(b, Live(b)) /\ b.type = {"STR"} /\ b.val = <<>> /\ b.misfiled = {}
      BY <2>2, MakeEmptyOK
    <2> QED BY <2>1, <2>3 DEF b
  <1>2. CASE a.type = AY_SPLIT
    <2> DEFINE c == convert_split_array_to_table(a)
    <2>1. SplitOK(a) /\ MapOf(a) = a.cells /\ a.misfiled = {}
      BY <1>2, Kinds
    <2>2. b = EnterAll(c)
      BY <1>2 DEF add_string_associations, AY_SPLIT, AY_NULL
    <2>3. TableOK(c, Live(c)) /\ c.type = {"INT"} /\ c.val = a.cells /\ c.misfiled = {}
      BY <2>1, ConvertOK
    <2> HIDE DEF b, c
    <2>4. "STR" \notin c.type
      BY <2>3
    <2>5. TableOK(b, Live(b)) /\ "STR" \in b.type /\ b.val = c.val /\ b.misfiled = c.misfiled
      BY <2>2, <2>3, <2>4, EnterAllOK
    <2> QED BY <2>1, <2>3, <2>5 DEF b
  <1>3. CASE a.type \notin {AY_NULL, AY_SPLIT}
    <2>1. TableOK(a, Live(a)) /\ MapOf(a) = a.val
      BY <1>3, Kinds
    <2>2. b = EnterAll(a)
      BY <1>3 DEF add_string_associations
    <2> QED BY <2>1, <2>2, EnterAllOK
  <1> QED BY <1>1, <1>2, <1>3

\* Looking up a string.
LEMMA FindBySvalOK ==
    ASSUME NEW a, ArrOK(a), NEW k \in Keys, NEW create \in BOOLEAN
    PROVE  LET r == find_by_sval(a, k, create)
               b == r.arr
           IN  /\ r.shared = FALSE /\ Found(r, MapOf(a), k, create)
               /\ TableOK(b, Live(b)) /\ b.misfiled = a.misfiled /\ "STR" \in b.type
               /\ r.hit => AtFront(b.slist[Bucket(Hash[k], b.hmask)], k)
               /\ "STR" \in a.type =>
                    /\ b.type = a.type /\ b.ivals = a.ivals
                    /\ b.hmask = a.hmask \/ b.hmask = 2 * a.hmask + 1
                    /\ ~create => b.hmask = a.hmask /\ b.ilist = a.ilist
  <1> DEFINE c == IF "STR" \in a.type THEN a ELSE add_string_associations(a)
             r == find_by_sval(a, k, create)
             b == r.arr
             m == MapOf(a)
  <1>1. TableOK(c, Live(c)) /\ "STR" \in c.type /\ c.val = m /\ c.misfiled = a.misfiled
    <2>1. CASE "STR" \in a.type
      BY <2>1, Kinds
    <2>2. CASE "STR" \notin a.type
      BY <2>2, AddStringsOK
    <2> QED BY <2>1, <2>2
  <1>2. "STR" \in a.type => c = a
    OBVIOUS
  <1>3. r = SearchSlist(c, k, create)
    BY DEF find_by_sval
  <1> HIDE DEF c, r, m
  <1>4. /\ r.shared = FALSE /\ r.hit = (k \in Live(c) \/ create)
        /\ TableOK(b, Live(b)) /\ b.type = c.type /\ b.ivals = c.ivals /\ b.misfiled = c.misfiled
        /\ b.hmask = c.hmask \/ b.hmask = 2 * c.hmask + 1
        /\ k \in Live(c) \/ ~create => b.val = c.val /\ b.hmask = c.hmask /\ b.ilist = c.ilist
        /\ k \notin Live(c) /\ create => b.val = With(c.val, k, Uninit)
        /\ r.hit => AtFront(b.slist[Bucket(Hash[k], b.hmask)], k)
    <2> DEFINE x == SearchSlist(c, k, create)
    <2>1. /\ x.shared = FALSE /\ x.hit = (k \in Live(c) \/ create)
          /\ TableOK(x.arr, Live(x.arr)) /\ x.arr.type = c.type /\ x.arr.ivals = c.ivals /\ x.arr.misfiled = c.misfiled
          /\ x.arr.hmask = c.hmask \/ x.arr.hmask = 2 * c.hmask + 1
          /\ k \in Live(c) \/ ~create => x.arr.val = c.val /\ x.arr.hmask = c.hmask /\ x.arr.ilist = c.ilist
          /\ k \notin Live(c) /\ create => x.arr.val = With(c.val, k, Uninit)
          /\ x.hit => AtFront(x.arr.slist[Bucket(Hash[k], x.arr.hmask)], k)
      BY <1>1, SearchSlistOK
    <2> HIDE DEF x
    <2>2. r = x
      BY <1>3 DEF x
    <2> QED BY <2>1, <2>2
  <1>5. Live(c) = DOMAIN m
    BY <1>1 DEF Live
  <1>6. MapOf(b) = b.val
    BY <1>4, TableMap
  <1>7. Found(r, m, k, create)
    BY <1>1, <1>4, <1>5, <1>6 DEF Found
  <1> QED BY <1>1, <1>2, <1>4, <1>7 DEF r, m

\* A node found on an ilist comes to the front of it.
LEMMA FrontOfIlist ==
    ASSUME NEW a, NEW S, TableOK(a, S), NEW k, NEW i \in 0..a.hmask, Contains(a.ilist[i], k)
    PROVE  LET b == [a EXCEPT !.ilist[i] = ToFront(@, k)]
           IN  /\ TableOK(b, S) /\ b.val = a.val /\ b.hmask = a.hmask
               /\ b.type = a.type /\ b.ivals = a.ivals /\ b.misfiled = a.misfiled
               /\ AtFront(b.ilist[i], k)
  <1> DEFINE m == a.hmask
             l == a.ilist
             t == ToFront(l[i], k)
             new == Upd(l, i, t)
             b == [a EXCEPT !.ilist[i] = ToFront(@, k)]
  <1>1. a \in ArrT /\ m \in Nat
    BY DEF TableOK, ArrT
  <1>2. PICK at : Filed(l, m, a.ivals, at) /\ InPlace(a, at)
    BY DEF TableOK, ByInteger
  <1>3. b = [a EXCEPT !.ilist = new]
    BY <1>1 DEF Upd, ArrT
  <1>4. Filed(new, m, a.ivals, at) /\ AtFront(new[i], k)
    <2>1. Contains(l[i], k) /\ i \in 0..m
      OBVIOUS
    <2> HIDE DEF l, m
    <2>2. /\ Filed(Upd(l, i, ToFront(l[i], k)), m, a.ivals, at)
          /\ Head(Upd(l, i, ToFront(l[i], k))[i]) = k
          /\ Upd(l, i, ToFront(l[i], k))[i] # <<>>
      BY <1>1, <1>2, <2>1, FiledToFront
    <2> QED BY <2>2 DEF AtFront
  <1> HIDE DEF new, b, t
  <1>5. new \in Lists
    BY <1>1, <1>4, ListFields
  <1>6. /\ b \in ArrT /\ b.ilist = new /\ b.slist = a.slist /\ b.svals = a.svals
        /\ b.type = a.type /\ b.size = a.size /\ b.limit = a.limit /\ b.hmask = m
        /\ b.cells = a.cells /\ b.val = a.val /\ b.ivals = a.ivals /\ b.misfiled = a.misfiled
    BY <1>1, <1>3, <1>5 DEF ArrT
  <1>7. Sized(b)
    <2>1. Live(b) = Live(a)
      BY <1>6 DEF Live
    <2> QED BY <2>1, <1>6 DEF TableOK, Sized
  <1>8. ByString(b, S)
    BY <1>6 DEF TableOK, ByString
  <1>9. ByInteger(b, S)
    <2>1. Filed(b.ilist, b.hmask, b.ivals, at) /\ InPlace(b, at)
      BY <1>2, <1>4, <1>6 DEF InPlace
    <2> QED BY <2>1, <1>6 DEF TableOK, ByInteger
  <1>10. TableOK(b, S)
    BY <1>6, <1>7, <1>8, <1>9 DEF TableOK
  <1> QED BY <1>4, <1>6, <1>10 DEF b

\* b is a with node k at the front of ilist i.
WithIval(b, a, at, i, k) ==
    /\ b \in ArrT /\ b.type = a.type \cup {"INT"} /\ b.type \in Tables
    /\ b.size = a.size /\ b.limit = a.limit /\ b.hmask = a.hmask /\ b.slist = a.slist
    /\ b.cells = a.cells /\ b.val = a.val /\ b.svals = a.svals
    /\ b.ivals = a.ivals \cup {k}
    /\ b.misfiled = IF i = Bucket(k, a.hmask) THEN a.misfiled ELSE a.misfiled \cup {k}
    /\ Filed(b.ilist, b.hmask, b.ivals, More(at, a.ivals, k, i))
    /\ InPlace(b, More(at, a.ivals, k, i))
    /\ AtFront(b.ilist[i], k)

\* A node goes to the front of an ilist, and counts as misfiled when that is not
\* the one of its bucket.
LEMMA OnIlistOK ==
    ASSUME NEW a \in ArrT, a.type \in Tables, NEW at, Filed(a.ilist, a.hmask, a.ivals, at), InPlace(a, at),
           NEW i \in 0..a.hmask, NEW k \in IntKeys, k \notin a.ivals
    PROVE  WithIval(OnIlist(a, i, k), a, at, i, k)
  <1> DEFINE m == a.hmask
             l == a.ilist
             t == <<k>> \o l[i]
             new == Upd(l, i, t)
             T == a.ivals \cup {k}
             x == IF i = Bucket(k, m) THEN a.misfiled ELSE a.misfiled \cup {k}
             to == More(at, a.ivals, k, i)
             b == OnIlist(a, i, k)
  <1>1. m \in Nat /\ l \in ListsOf(m) /\ k \in Keys /\ l[i] \in Seq(Keys)
    BY KeyTypes DEF ArrT, Filed, ListsOf
  <1>2. b = [a EXCEPT !.ilist = new, !.ivals = T, !.type = a.type \cup {"INT"}, !.misfiled = x]
    BY DEF OnIlist, Upd, ArrT
  <1>3. Filed(new, m, T, to)
    <2>1. Filed(l, m, a.ivals, at) /\ i \in 0..m
      OBVIOUS
    <2> HIDE DEF l, m
    <2> QED BY <1>1, <2>1, FiledMore
  <1>4. new \in Lists
    BY <1>3, ListFields
  <1>5. AtFront(new[i], k)
    <2>1. t \in Seq(Keys) /\ AtFront(t, k)
      BY <1>1, FrontProps DEF AtFront
    <2> HIDE DEF t
    <2>2. new[i] = t
      BY <2>1, <1>1, OneList
    <2> QED BY <2>1, <2>2
  <1>6. a.type \cup {"INT"} \in Flags /\ a.type \cup {"INT"} \in Tables /\ T \subseteq Keys /\ x \subseteq Keys
    BY <1>1 DEF Tables, Flags, ArrT
  <1>7. (\A y \in a.ivals : to[y] = at[y]) /\ to[k] = i
    BY DEF More
  <1>8. ASSUME NEW y \in T \ x PROVE to[y] = Bucket(y, m)
    <2>1. CASE y = k
      <3>1. i = Bucket(k, m)
        BY <1>8, <2>1
      <3> QED BY <2>1, <3>1, <1>7
    <2>2. CASE y # k
      <3>1. y \in a.ivals \ a.misfiled
        BY <1>8, <2>2
      <3> QED BY <3>1, <1>7 DEF InPlace
    <2> QED BY <2>1, <2>2
  <1> HIDE DEF new, b, x, to
  <1>9. /\ b \in ArrT /\ b.type = a.type \cup {"INT"}
        /\ b.size = a.size /\ b.limit = a.limit /\ b.hmask = m /\ b.slist = a.slist /\ b.ilist = new
        /\ b.cells = a.cells /\ b.val = a.val /\ b.svals = a.svals
        /\ b.ivals = T /\ b.misfiled = x
    BY <1>2, <1>4, <1>6 DEF ArrT
  <1>10. InPlace(b, to)
    BY <1>8, <1>9 DEF InPlace
  <1> QED BY <1>3, <1>5, <1>6, <1>9, <1>10 DEF b, x, to, WithIval

\* A node is on some list when it is one of those filed.
LEMMA FiledSomewhere ==
    ASSUME NEW lists, NEW m \in Nat, NEW S, NEW at, Filed(lists, m, S, at), NEW k
    PROVE  /\ DOMAIN lists = 0..m
           /\ (\E i \in 0..m : Contains(lists[i], k)) <=> k \in S
  <1>1. \A i \in 0..m : Contains(lists[i], k) <=> k \in S /\ at[k] = i
    BY FiledOn
  <1>2. k \in S => at[k] \in 0..m
    BY DEF Filed
  <1> QED BY <1>1, <1>2 DEF Filed, ListsOf

\* The node found by string is filed on the ilist computed before: on two ilists
\* only if it was misfiled already.
LEMMA FileByIvalOK ==
    ASSUME NEW a, TableOK(a, Live(a)), NEW k \in IntKeys, k \in Live(a), "STR" \in a.type,
           NEW indx \in 0..a.hmask
    PROVE  LET q == FileByIval(Hit(a), indx, k)
           IN  /\ q.hit = TRUE /\ q.arr.val = a.val /\ q.arr.type \in Tables /\ q.arr.hmask = a.hmask
               /\ q.shared = (k \in a.ivals)
               /\ ~q.shared => TableOK(q.arr, Live(q.arr)) /\ AtFront(q.arr.ilist[indx], k)
  <1> DEFINE m == a.hmask
             o == OnIlist(a, indx, k)
             s == \E i \in 0..m : Contains(a.ilist[i], k)
             q == FileByIval(Hit(a), indx, k)
             S == Live(a)
  <1>1. a \in ArrT /\ m \in Nat /\ a.type \in Tables
    BY DEF TableOK, ArrT
  <1>2. PICK at : Filed(a.ilist, m, a.ivals, at) /\ InPlace(a, at)
    BY DEF TableOK, ByInteger
  <1>3. s = (k \in a.ivals)
    <2> DEFINE l == a.ilist
               T == a.ivals
    <2>1. Filed(l, m, T, at)
      BY <1>2
    <2> HIDE DEF l, m, T
    <2>2. (\E i \in 0..m : Contains(l[i], k)) <=> k \in T
      BY <1>1, <2>1, FiledSomewhere
    <2>3. s <=> k \in a.ivals
      BY <2>2 DEF l, m, T
    <2>4. s \in BOOLEAN
      OBVIOUS
    <2> HIDE DEF s
    <2> QED BY <2>3, <2>4
  <1>4. q.arr = o /\ q.hit = TRUE /\ q.shared = s
    BY DEF FileByIval, Hit
  <1>5. o.val = a.val /\ o.type = a.type \cup {"INT"} /\ o.hmask = m
    BY <1>1 DEF ArrT, OnIlist
  <1>6. a.type \cup {"INT"} \in Tables
    BY <1>1 DEF Tables
  <1>7. ASSUME k \notin a.ivals
        PROVE  TableOK(o, Live(o)) /\ AtFront(o.ilist[indx], k)
    <2> DEFINE to == More(at, a.ivals, k, indx)
    <2>1. /\ o \in ArrT /\ o.type = a.type \cup {"INT"} /\ o.type \in Tables
          /\ o.size = a.size /\ o.limit = a.limit /\ o.hmask = m /\ o.slist = a.slist
          /\ o.cells = a.cells /\ o.val = a.val /\ o.svals = a.svals
          /\ o.ivals = a.ivals \cup {k}
          /\ Filed(o.ilist, o.hmask, o.ivals, to) /\ InPlace(o, to)
          /\ AtFront(o.ilist[indx], k)
      <3>1. WithIval(o, a, at, indx, k)
        BY <1>1, <1>2, <1>7, OnIlistOK
      <3> QED BY <3>1 DEF WithIval
    <2> HIDE DEF m, o, to
    <2>2. Live(o) = S
      BY <2>1 DEF Live
    <2>3. Sized(o)
      BY <2>1, <2>2 DEF TableOK, Sized, m
    <2>4. ByString(o, S)
      BY <2>1 DEF TableOK, ByString, m
    <2>5. ByInteger(o, S)
      <3>1. o.ivals \subseteq S \cap IntKeys
        BY <2>1 DEF TableOK, ByInteger
      <3> QED BY <2>1, <3>1 DEF ByInteger
    <2> QED BY <2>1, <2>2, <2>3, <2>4, <2>5 DEF TableOK
  <1> HIDE DEF o, s, q
  <1> QED BY <1>3, <1>4, <1>5, <1>6, <1>7 DEF q

\* A new node of a table without strings is filed by its integer.
LEMMA FileNewOK ==
    ASSUME NEW a, TableOK(a, Live(a)), "STR" \notin a.type, NEW k \in IntKeys, k \notin Live(a)
    PROVE  LET q == FileNew(NewNode(a, k), k)
               b == q.arr
           IN  /\ q.hit = TRUE /\ q.shared = FALSE
               /\ TableOK(b, Live(b)) /\ b.val = With(a.val, k, Uninit)
  <1> DEFINE n == NewNode(a, k)
             m == n.hmask
             i == Bucket(k, m)
             o == OnIlist(n, i, k)
             S == Live(a)
             T == S \cup {k}
  <1>1. k \in Keys /\ k \in Int
    BY KeyTypes
  <1>2. /\ TableOK(n, S) /\ n.val = With(a.val, k, Uninit) /\ Live(n) = T
        /\ n.type = a.type
    BY <1>1, NewNodeOK
  <1> HIDE DEF n, S
  <1>3. n \in ArrT /\ m \in Nat /\ n.type \in Tables
    BY <1>2 DEF TableOK, ArrT
  <1>4. PICK at : Filed(n.ilist, m, n.ivals, at) /\ InPlace(n, at)
    BY <1>2 DEF TableOK, ByInteger
  <1>5. n.ivals = S /\ n.misfiled = {} /\ S \subseteq IntKeys /\ "STR" \notin n.type
    BY <1>2 DEF TableOK, ByInteger
  <1>6. k \notin S /\ i \in 0..m
    BY <1>1, <1>3, BucketType DEF S
  <1> DEFINE to == More(at, n.ivals, k, i)
  <1> HIDE DEF m, i
  <1>7. /\ o \in ArrT /\ o.type = n.type \cup {"INT"} /\ o.type \in Tables
        /\ o.size = n.size /\ o.limit = n.limit /\ o.hmask = m /\ o.slist = n.slist
        /\ o.cells = n.cells /\ o.val = n.val /\ o.svals = n.svals
        /\ o.ivals = n.ivals \cup {k} /\ o.misfiled = n.misfiled
        /\ Filed(o.ilist, o.hmask, o.ivals, to) /\ InPlace(o, to)
    <2>1. WithIval(o, n, at, i, k)
      BY <1>3, <1>4, <1>5, <1>6, OnIlistOK DEF m
    <2> QED BY <2>1 DEF WithIval, m, i
  <1>8. FileNew(n, k) = Hit(o)
    BY DEF FileNew, i, m
  <1> HIDE DEF o, to
  <1>9. Live(o) = T
    BY <1>2, <1>7 DEF Live
  <1>10. Sized(o)
    BY <1>2, <1>7, <1>9 DEF TableOK, Sized, m
  <1>11. "STR" \notin o.type
    BY <1>5, <1>7
  <1>12. ByString(o, T)
    BY <1>2, <1>5, <1>7, <1>11 DEF TableOK, ByString, m
  <1>13. ByInteger(o, T)
    <2>1. o.ivals = T /\ o.misfiled = {} /\ T \subseteq IntKeys
      BY <1>5, <1>7
    <2> QED BY <2>1, <1>7 DEF ByInteger
  <1>14. TableOK(o, T)
    BY <1>7, <1>10, <1>12, <1>13 DEF TableOK
  <1> QED BY <1>2, <1>7, <1>8, <1>9, <1>14 DEF Hit, n

\* Looking up an integer in a table.
LEMMA FindByIvalOK ==
    ASSUME NEW a, TableOK(a, Live(a)), NEW k \in IntKeys, NEW create \in BOOLEAN
    PROVE  LET r == find_by_ival(a, k, create)
               b == r.arr
           IN  /\ Found(r, a.val, k, create)
               /\ IF r.shared THEN k \in a.misfiled /\ r.hit ELSE TableOK(b, Live(b))
               /\ ~create /\ r.hit /\ ~r.shared => AtFront(b.ilist[Bucket(k, b.hmask)], k)
  <1> DEFINE m == a.hmask
             l == a.ilist
             indx == Bucket(k, m)
             S == Live(a)
             r == find_by_ival(a, k, create)
             f == [a EXCEPT !.ilist[indx] = ToFront(@, k)]
             c == find_by_sval(a, k, create)
  <1>1. a \in ArrT /\ m \in Nat /\ k \in Keys /\ k \in Int /\ a.ivals \subseteq S \cap IntKeys /\ S = DOMAIN a.val
    BY KeyTypes DEF TableOK, ArrT, ByInteger, Live
  <1>2. indx \in 0..m
    BY <1>1, BucketType
  <1>3. PICK at : Filed(l, m, a.ivals, at) /\ InPlace(a, at)
    BY DEF TableOK, ByInteger
  <1>4. Contains(l[indx], k) <=> k \in a.ivals /\ at[k] = indx
    <2> HIDE DEF l, m, indx
    <2> DEFINE T == a.ivals
    <2>1. Filed(l, m, T, at)
      BY <1>3
    <2> HIDE DEF T
    <2>2. Contains(l[indx], k) <=> k \in T /\ at[k] = indx
      BY <2>1, <1>1, <1>2, FiledOn
    <2> QED BY <2>2 DEF T
  <1>5. k \in a.ivals /\ ~Contains(l[indx], k) => k \in a.misfiled
    BY <1>3, <1>4 DEF InPlace
  <1>6. r = IF Contains(l[indx], k) THEN Hit(f)
            ELSE IF "STR" \in a.type THEN FileByIval(c, indx, k)
            ELSE IF create THEN FileNew(NewNode(a, k), k)
            ELSE Miss(a)
    BY DEF find_by_ival
  <1>7. MapOf(a) = a.val /\ ArrOK(a)
    BY TableMap DEF ArrOK
  <1> HIDE DEF r, f, c
  <1>8. CASE Contains(l[indx], k)
    <2>1. r.arr = f /\ r.hit = TRUE /\ r.shared = FALSE
      BY <1>6, <1>8 DEF Hit
    <2>2. /\ TableOK(f, S) /\ f.val = a.val /\ f.hmask = a.hmask
          /\ AtFront(f.ilist[indx], k)
      BY <1>2, <1>8, FrontOfIlist DEF f
    <2>3. Live(f) = S /\ k \in S
      BY <2>2, <1>1, <1>4, <1>8 DEF Live
    <2>4. MapOf(f) = f.val
      BY <2>2, TableMap
    <2>5. Found(r, a.val, k, create)
      BY <1>1, <2>1, <2>2, <2>3, <2>4 DEF Found
    <2> HIDE DEF S
    <2> QED BY <2>1, <2>2, <2>3, <2>5 DEF r
  <1>9. CASE ~Contains(l[indx], k) /\ "STR" \in a.type
    <2> DEFINE b == c.arr
    <2>1. r = FileByIval(c, indx, k)
      BY <1>6, <1>9
    <2>2. /\ c.shared = FALSE /\ Found(c, MapOf(a), k, create)
          /\ TableOK(b, Live(b)) /\ b.misfiled = a.misfiled
          /\ b.type = a.type /\ b.ivals = a.ivals
          /\ b.hmask = m \/ b.hmask = 2 * m + 1
          /\ ~create => b.hmask = m
      BY <1>1, <1>7, <1>9, FindBySvalOK DEF c
    <2>3. c.hit = (k \in S \/ create) /\ b.val = IF k \in S \/ ~create THEN a.val ELSE With(a.val, k, Uninit)
      <3>1. MapOf(b) = b.val
        BY <2>2, TableMap
      <3> QED BY <1>1, <1>7, <2>2, <3>1 DEF Found
    <2>4. c = [arr |-> b, hit |-> c.hit, shared |-> FALSE]
      BY DEF c, find_by_sval, SearchSlist, Hit, Miss
    <2>5. CASE ~c.hit
      <3>1. r = c
        BY <2>1, <2>5 DEF FileByIval
      <3> QED BY <1>7, <2>2, <2>5, <3>1 DEF r
    <2>6. CASE c.hit
      <3>1. k \in Live(b)
        BY <2>3, <2>6 DEF Live, With
      <3>2. indx \in 0..b.hmask /\ "STR" \in b.type /\ c.hit = TRUE
        BY <1>1, <1>2, <1>9, <2>2, <2>3, <2>6
      <3> HIDE DEF indx
      <3>3. /\ r.hit = TRUE /\ r.arr.val = b.val /\ r.arr.type \in Tables /\ r.arr.hmask = b.hmask
            /\ r.shared = (k \in b.ivals)
            /\ ~r.shared => TableOK(r.arr, Live(r.arr)) /\ AtFront(r.arr.ilist[indx], k)
        <4> DEFINE q == FileByIval(Hit(b), indx, k)
        <4> HIDE DEF b
        <4>1. /\ q.hit = TRUE /\ q.arr.val = b.val /\ q.arr.type \in Tables /\ q.arr.hmask = b.hmask
              /\ q.shared = (k \in b.ivals)
              /\ ~q.shared => TableOK(q.arr, Live(q.arr)) /\ AtFront(q.arr.ilist[indx], k)
          BY <2>2, <3>1, <3>2, FileByIvalOK
        <4> HIDE DEF q
        <4>2. c = Hit(b)
          BY <2>4, <3>2 DEF Hit
        <4>3. r = q
          BY <2>1, <4>2 DEF q
        <4> QED BY <4>1, <4>3
      <3>4. MapOf(r.arr) = b.val
        BY <3>3 DEF Tables, MapOf, AY_SPLIT
      <3>5. Found(r, a.val, k, create)
        BY <1>1, <2>3, <2>6, <3>3, <3>4 DEF Found
      <3>6. r.shared => k \in a.misfiled
        BY <1>5, <1>9, <2>2, <3>3
      <3>7. ~create => Bucket(k, r.arr.hmask) = indx
        BY <2>2, <3>3 DEF indx
      <3> QED BY <3>3, <3>5, <3>6, <3>7 DEF r
    <2> QED BY <2>5, <2>6
  <1>10. CASE ~Contains(l[indx], k) /\ "STR" \notin a.type
    <2>1. k \notin S
      <3>1. a.ivals = S /\ a.misfiled = {}
        BY <1>10 DEF TableOK, ByInteger
      <3> QED BY <1>5, <1>10, <3>1
    <2>2. CASE create
      <3> DEFINE q == FileNew(NewNode(a, k), k)
                 b == q.arr
      <3>1. r = q
        BY <1>6, <1>10, <2>2
      <3>2. /\ q.hit = TRUE /\ q.shared = FALSE
            /\ TableOK(b, Live(b)) /\ b.val = With(a.val, k, Uninit)
        BY <1>10, <2>1, FileNewOK
      <3> HIDE DEF q
      <3>3. MapOf(b) = b.val
        BY <3>2, TableMap
      <3>4. Found(q, a.val, k, create)
        BY <1>1, <2>1, <2>2, <3>2, <3>3 DEF Found
      <3> QED BY <2>2, <3>1, <3>2, <3>4 DEF r
    <2>3. CASE ~create
      <3>1. r = Miss(a)
        BY <1>6, <1>10, <2>3
      <3>2. r.arr = a /\ r.hit = FALSE /\ r.shared = FALSE
        BY <3>1 DEF Miss
      <3>3. Found(r, a.val, k, create)
        BY <1>1, <1>7, <2>1, <2>3, <3>2 DEF Found
      <3> QED BY <3>2, <3>3 DEF r
    <2> QED BY <2>2, <2>3
  <1> QED BY <1>8, <1>9, <1>10

\* An array of no elements holds the empty map.
LEMMA NoElements ==
    ASSUME NEW a, ArrOK(a), a.size = 0
    PROVE  DOMAIN MapOf(a) = {}
  <1>1. CASE a.type = AY_NULL
    <2>1. MapOf(a) = <<>>
      BY <1>1, Kinds
    <2> QED BY <2>1
  <1>2. CASE a.type = AY_SPLIT
    <2>1. SplitOK(a) /\ MapOf(a) = a.cells
      BY <1>2, Kinds
    <2>2. a.cells \in Seq(Val) /\ a.size = Len(a.cells)
      BY <2>1 DEF SplitOK, NullArray
    <2> QED BY <2>1, <2>2
  <1>3. CASE a.type \notin {AY_NULL, AY_SPLIT}
    <2>1. TableOK(a, Live(a)) /\ MapOf(a) = a.val
      BY <1>3, Kinds
    <2>2. IsFiniteSet(Live(a)) /\ Cardinality(Live(a)) = 0
      BY <2>1 DEF TableOK, Sized
    <2>3. Live(a) = {}
      BY <2>2, FS_EmptySet
    <2> QED BY <2>1, <2>3 DEF Live
  <1> QED BY <1>1, <1>2, <1>3

\* Every lookup keeps an array an array, unless it would put a node on two lists.
LEMMA ArrayFindOK ==
    ASSUME NEW a, ArrOK(a), NEW k \in Keys, NEW num \in BOOLEAN, num => k \in IntKeys, NEW create \in BOOLEAN
    PROVE  LET r == array_find(a, k, num, create)
           IN  /\ Found(r, MapOf(a), k, create)
               /\ IF r.shared THEN a.misfiled # {} ELSE ArrOK(r.arr)
  <1> DEFINE r == array_find(a, k, num, create)
  <1>1. CASE a.size = 0 /\ ~create
    <2>1. r = Miss(a)
      BY <1>1 DEF array_find
    <2>2. DOMAIN MapOf(a) = {}
      BY <1>1, NoElements
    <2> HIDE DEF r
    <2>3. r.arr = a /\ r.hit = FALSE /\ r.shared = FALSE
      BY <2>1 DEF Miss
    <2> QED BY <1>1, <2>2, <2>3 DEF Found, r
  <1>2. CASE ~(a.size = 0 /\ ~create) /\ ~num
    <2>1. r = find_by_sval(a, k, create)
      BY <1>2 DEF array_find
    <2> DEFINE q == find_by_sval(a, k, create)
    <2>2. q.shared = FALSE /\ Found(q, MapOf(a), k, create) /\ TableOK(q.arr, Live(q.arr))
      BY FindBySvalOK
    <2> HIDE DEF r, q
    <2>3. r = q
      BY <2>1 DEF q
    <2> QED BY <2>2, <2>3 DEF ArrOK, r
  <1>3. CASE ~(a.size = 0 /\ ~create) /\ num /\ a.type = AY_SPLIT
    <2>1. SplitOK(a) /\ MapOf(a) = a.cells
      BY <1>3, Kinds
    <2>2. DOMAIN a.cells = 1..a.size
      <3>1. a.cells \in Seq(Val) /\ a.size = Len(a.cells)
        BY <2>1 DEF SplitOK, NullArray
      <3> QED BY <3>1
    <2>3. CASE k \in 1..a.size
      <3>1. r = Hit(a)
        BY <1>3, <2>3 DEF array_find
      <3> HIDE DEF r
      <3>2. r.arr = a /\ r.hit = TRUE /\ r.shared = FALSE
        BY <3>1 DEF Hit
      <3> QED BY <2>1, <2>2, <2>3, <3>2 DEF Found, r
    <2>4. CASE k \notin 1..a.size /\ ~create
      <3>1. r = Miss(a)
        BY <1>3, <2>4 DEF array_find
      <3> HIDE DEF r
      <3>2. r.arr = a /\ r.hit = FALSE /\ r.shared = FALSE
        BY <3>1 DEF Miss
      <3> QED BY <2>1, <2>2, <2>4, <3>2 DEF Found, r
    <2>5. CASE k \notin 1..a.size /\ create
      <3> DEFINE c == convert_split_array_to_table(a)
                 q == find_by_ival(c, k, create)
      <3>1. r = q
        BY <1>3, <2>5 DEF array_find
      <3>2. TableOK(c, Live(c)) /\ c.val = a.cells /\ c.misfiled = {}
        BY <2>1, ConvertOK
      <3> HIDE DEF c
      <3>3. /\ Found(q, c.val, k, create)
            /\ IF q.shared THEN k \in c.misfiled /\ q.hit ELSE TableOK(q.arr, Live(q.arr))
        BY <1>3, <3>2, FindByIvalOK
      <3> HIDE DEF q, r
      <3> QED BY <2>1, <3>1, <3>2, <3>3 DEF ArrOK, r
    <2> QED BY <2>3, <2>4, <2>5
  <1>4. CASE ~(a.size = 0 /\ ~create) /\ num /\ a.type # AY_SPLIT
    <2> DEFINE c == IF a.type = AY_NULL THEN make_empty_table(a, "INT") ELSE a
               q == find_by_ival(c, k, create)
    <2>1. r = q
      BY <1>4 DEF array_find
    <2>2. TableOK(c, Live(c)) /\ c.val = MapOf(a) /\ c.misfiled = a.misfiled
      <3>1. CASE a.type = AY_NULL
        <4>1. a = NullArray /\ MapOf(a) = <<>> /\ a.misfiled = {}
          BY <3>1, Kinds
        <4> DEFINE e == make_empty_table(NullArray, "INT")
        <4>2. TableOK(e, Live(e)) /\ e.val = <<>> /\ e.misfiled = {}
          BY MakeEmptyOK
        <4> HIDE DEF e
        <4>3. c = e
          BY <3>1, <4>1 DEF e
        <4> HIDE DEF c
        <4> QED BY <4>1, <4>2, <4>3
      <3>2. CASE a.type # AY_NULL
        BY <1>4, <3>2, Kinds
      <3> QED BY <3>1, <3>2
    <2> HIDE DEF c
    <2>3. /\ Found(q, c.val, k, create)
          /\ IF q.shared THEN k \in c.misfiled /\ q.hit ELSE TableOK(q.arr, Live(q.arr))
      BY <1>4, <2>2, FindByIvalOK
    <2> HIDE DEF q, r
    <2> QED BY <2>1, <2>2, <2>3 DEF ArrOK, r
  <1> QED BY <1>1, <1>2, <1>3, <1>4

\* Assigning the cell a lookup found.
LEMMA SetCellOK ==
    ASSUME NEW a, ArrOK(a), NEW k, k \in DOMAIN MapOf(a), NEW v \in Val
    PROVE  LET b == SetCell(a, k, v)
           IN  ArrOK(b) /\ MapOf(b) = With(MapOf(a), k, v) /\ CellOf(a, k) = MapOf(a)[k]
  <1> DEFINE b == SetCell(a, k, v)
  <1>0. CellOf(a, k) = MapOf(a)[k]
    BY DEF CellOf, MapOf
  <1>1. CASE a.type = AY_SPLIT
    <2> DEFINE c == [a.cells EXCEPT ![k] = v]
    <2>1. SplitOK(a) /\ MapOf(a) = a.cells /\ a \in ArrT
      BY <1>1, Kinds
    <2>2. a.cells \in Seq(Val) /\ k \in DOMAIN a.cells
      BY <2>1 DEF SplitOK
    <2>3. c \in Seq(Val) /\ Len(c) = Len(a.cells) /\ c = With(a.cells, k, v)
      BY <2>2 DEF With
    <2>4. b = [a EXCEPT !.cells = c]
      BY <1>1, <2>1 DEF SetCell, ArrT
    <2>5. a = [NullArray EXCEPT !.type = AY_SPLIT, !.size = Len(a.cells), !.limit = a.limit, !.cells = a.cells]
      BY <2>1 DEF SplitOK
    <2> HIDE DEF b, c
    <2>6. b \in ArrT /\ b.cells = c /\ b.type = AY_SPLIT /\ b.limit = a.limit
      BY <1>1, <2>1, <2>3, <2>4 DEF ArrT
    <2>7. b = [NullArray EXCEPT !.type = AY_SPLIT, !.size = Len(c), !.limit = a.limit, !.cells = c]
      BY <2>3, <2>4, <2>5 DEF NullArray
    <2>8. SplitOK(b)
      BY <2>1, <2>3, <2>6, <2>7 DEF SplitOK
    <2> QED BY <1>0, <2>1, <2>3, <2>6, <2>8 DEF ArrOK, MapOf, b
  <1>2. CASE a.type # AY_SPLIT
    <2> DEFINE c == [a.val EXCEPT ![k] = v]
               S == Live(a)
    <2>1. TableOK(a, S) /\ MapOf(a) = a.val /\ a \in ArrT
      <3>1. a.type # AY_NULL
        <4> SUFFICES ASSUME a.type = AY_NULL PROVE FALSE
          OBVIOUS
        <4>1. MapOf(a) = <<>>
          BY Kinds
        <4> QED BY <4>1
      <3> QED BY <1>2, <3>1, Kinds
    <2>2. a.val \in [S -> Val] /\ S \subseteq Keys /\ k \in S
      BY <2>1, LiveType DEF Live
    <2>3. c = With(a.val, k, v) /\ c \in [S -> Val]
      BY <2>2 DEF With
    <2>4. b = [a EXCEPT !.val = c]
      BY <1>2, <2>1 DEF SetCell, ArrT
    <2>5. c \in Maps
      BY <2>2, <2>3 DEF Maps
    <2> HIDE DEF b, c
    <2>6. /\ b \in ArrT /\ b.ilist = a.ilist /\ b.slist = a.slist /\ b.svals = a.svals
          /\ b.type = a.type /\ b.size = a.size /\ b.limit = a.limit /\ b.hmask = a.hmask
          /\ b.cells = a.cells /\ b.val = c /\ b.ivals = a.ivals /\ b.misfiled = a.misfiled
      BY <2>1, <2>4, <2>5 DEF ArrT
    <2>7. Live(b) = S
      BY <2>3, <2>6 DEF Live
    <2> HIDE DEF S
    <2>8. TableOK(b, S)
      <3>1. Sized(b)
        BY <2>1, <2>6, <2>7 DEF TableOK, Sized, S
      <3>2. ByString(b, S)
        BY <2>1, <2>6 DEF TableOK, ByString
      <3>3. ByInteger(b, S)
        BY <2>1, <2>6 DEF TableOK, ByInteger, InPlace
      <3> QED BY <2>1, <2>6, <3>1, <3>2, <3>3 DEF TableOK
    <2> QED BY <1>0, <1>2, <2>1, <2>3, <2>6, <2>7, <2>8 DEF ArrOK, MapOf, b
  <1> QED BY <1>1, <1>2

\* A node leaves the table, and the last one takes the table with it.
LEMMA UnlinkOK ==
    ASSUME NEW c \in ArrT, c.type \in Tables, Sized(c), NEW k \in Live(c)
    PROVE  LET b == Unlink(c, k)
               f == Restrict(c.val, DOMAIN c.val \ {k})
           IN  /\ c.size = 1 => b = NullArray /\ f = <<>>
               /\ c.size # 1 =>
                    /\ b \in ArrT /\ Sized(b) /\ Live(b) = Live(c) \ {k} /\ b.val = f
                    /\ b.type = c.type /\ b.hmask = c.hmask /\ b.slist = c.slist /\ b.ilist = c.ilist
                    /\ b.svals = c.svals \ {k} /\ b.ivals = c.ivals \ {k} /\ b.misfiled = c.misfiled \ {k}
  <1> DEFINE b == Unlink(c, k)
             S == Live(c)
             T == S \ {k}
             f == Restrict(c.val, DOMAIN c.val \ {k})
  <1>1. S = DOMAIN c.val /\ c.val \in [S -> Val] /\ S \subseteq Keys /\ c.size \in Nat
    BY LiveType DEF Live, ArrT
  <1>2. IsFiniteSet(T) /\ Cardinality(T) = c.size - 1 /\ c.size >= 1
    <2>1. IsFiniteSet(S) /\ c.size = Cardinality(S)
      BY DEF Sized
    <2>2. IsFiniteSet(S \ {k}) /\ Cardinality(S \ {k}) = Cardinality(S) - 1
      BY <2>1, FS_RemoveElement
    <2>3. Cardinality(T) \in Nat
      BY <2>2, FS_CardinalityType
    <2> QED BY <1>1, <2>1, <2>2, <2>3
  <1>3. f = [x \in T |-> c.val[x]] /\ f \in [T -> Val]
    BY <1>1 DEF Restrict
  <1>4. ASSUME c.size = 1 PROVE b = NullArray /\ f = <<>>
    <2>1. b = NullArray
      BY <1>4 DEF Unlink
    <2>2. T = {}
      <3> HIDE DEF T
      <3> QED BY <1>2, <1>4, FS_EmptySet
    <2> HIDE DEF f, T
    <2>3. f \in [{} -> Val]
      BY <1>3, <2>2
    <2>4. f = <<>>
      BY <2>3
    <2> QED BY <2>1, <2>4
  <1>5. ASSUME c.size # 1
        PROVE  /\ b \in ArrT /\ Sized(b) /\ Live(b) = T /\ b.val = f
               /\ b.type = c.type /\ b.hmask = c.hmask /\ b.slist = c.slist /\ b.ilist = c.ilist
               /\ b.svals = c.svals \ {k} /\ b.ivals = c.ivals \ {k} /\ b.misfiled = c.misfiled \ {k}
    <2>1. b = [c EXCEPT !.size = c.size - 1, !.val = f, !.svals = c.svals \ {k},
                        !.ivals = c.ivals \ {k}, !.misfiled = c.misfiled \ {k}]
      BY <1>5 DEF Unlink, ArrT
    <2>2. f \in Maps
      <3>1. T \in SUBSET Keys
        BY <1>1
      <3> HIDE DEF f, T
      <3> QED BY <1>3, <3>1 DEF Maps
    <2>3. c.size - 1 \in Nat
      BY <1>1, <1>2
    <2>4. c.svals \ {k} \subseteq Keys /\ c.ivals \ {k} \subseteq Keys /\ c.misfiled \ {k} \subseteq Keys
      BY DEF ArrT
    <2>5. DOMAIN f = T
      BY <1>3
    <2> HIDE DEF b, f, T
    <2>6. /\ b \in ArrT /\ b.val = f /\ b.size = c.size - 1
          /\ b.type = c.type /\ b.hmask = c.hmask /\ b.slist = c.slist /\ b.ilist = c.ilist
          /\ b.limit = c.limit /\ b.cells = c.cells
          /\ b.svals = c.svals \ {k} /\ b.ivals = c.ivals \ {k} /\ b.misfiled = c.misfiled \ {k}
      BY <2>1, <2>2, <2>3, <2>4 DEF ArrT
    <2>7. Live(b) = T
      BY <2>5, <2>6 DEF Live
    <2>8. b.size <= b.limit
      <3>1. c.size <= c.limit /\ c.limit \in Nat
        BY DEF Sized, ArrT
      <3> QED BY <1>1, <2>6, <3>1
    <2>9. Sized(b)
      BY <1>2, <2>6, <2>7, <2>8 DEF Sized
    <2> QED BY <2>6, <2>7, <2>9
  <1> QED BY <1>4, <1>5

\* The slists when a node leaves them, wherever it stands.
LEMMA OffSlists ==
    ASSUME NEW m \in Nat, NEW S, NEW lists, Filed(lists, m, S, InBuckets(S, Hash, m)), NEW k \in S
    PROVE  LET i == Bucket(Hash[k], m)
               w == Upd(lists, i, Without(lists[i], k))
               t == Upd(lists, i, Tail(lists[i]))
           IN  /\ Filed(w, m, S \ {k}, InBuckets(S \ {k}, Hash, m))
               /\ AtFront(lists[i], k) => Filed(t, m, S \ {k}, InBuckets(S \ {k}, Hash, m))
  <1> DEFINE i == Bucket(Hash[k], m)
             at == InBuckets(S, Hash, m)
             T == S \ {k}
  <1>1. at[k] = i /\ Less(at, S, k) = InBuckets(T, Hash, m)
    BY DEF InBuckets, Less
  <1>2. i \in 0..m
    <2>1. k \in Keys
      BY DEF Filed
    <2> QED BY <2>1, KeyTypes, BucketType
  <1> HIDE DEF i, at
  <1>3. Filed(lists, m, S, at)
    BY DEF at
  <1>4. /\ Filed(Upd(lists, i, Without(lists[i], k)), m, S \ {k}, Less(at, S, k))
        /\ lists[i] # <<>> /\ Head(lists[i]) = k =>
             Filed(Upd(lists, i, Tail(lists[i])), m, S \ {k}, Less(at, S, k))
    BY <1>1, <1>2, <1>3, FiledWithout
  <1> QED BY <1>1, <1>4 DEF i, AtFront

\* The ilist of the bucket of a node when the node leaves it.
LEMMA OffIlists ==
    ASSUME NEW m \in Nat, NEW S, NEW at, NEW lists, Filed(lists, m, S, at), NEW k \in Keys, NEW i \in 0..m,
           Contains(lists[i], k)
    PROVE  /\ k \in S /\ at[k] = i
           /\ Filed(Upd(lists, i, Without(lists[i], k)), m, S \ {k}, Less(at, S, k))
           /\ AtFront(lists[i], k) => Filed(Upd(lists, i, Tail(lists[i])), m, S \ {k}, Less(at, S, k))
  <1>1. k \in S /\ at[k] = i
    BY FiledOn
  <1>2. /\ Filed(Upd(lists, i, Without(lists[i], k)), m, S \ {k}, Less(at, S, k))
        /\ lists[i] # <<>> /\ Head(lists[i]) = k =>
             Filed(Upd(lists, i, Tail(lists[i])), m, S \ {k}, Less(at, S, k))
    BY <1>1, FiledWithout
  <1> QED BY <1>1, <1>2 DEF AtFront

\* What is at the front of a list is on it.
LEMMA FrontIsOn ==
    ASSUME NEW m \in Nat, NEW lists \in ListsOf(m), NEW i \in 0..m, NEW k, AtFront(lists[i], k)
    PROVE  Contains(lists[i], k)
  <1> DEFINE l == lists[i]
  <1>1. l \in Seq(Keys) /\ l # <<>> /\ Head(l) = k
    BY DEF ListsOf, AtFront
  <1> HIDE DEF l
  <1>2. 1 \in 1..Len(l) /\ l[1] = k
    BY <1>1
  <1>3. Contains(l, k)
    BY <1>2 DEF Contains
  <1> QED BY <1>3 DEF l

\* Those that stay are where they were.
LEMMA InPlaceLess ==
    ASSUME NEW a, NEW b, NEW at, NEW k, InPlace(a, at), b.hmask = a.hmask,
           b.ivals = a.ivals \ {k}, b.misfiled = a.misfiled \ {k}
    PROVE  InPlace(b, Less(at, a.ivals, k))
  <1> SUFFICES ASSUME NEW y \in b.ivals \ b.misfiled PROVE Less(at, a.ivals, k)[y] = Bucket(y, a.hmask)
    BY DEF InPlace
  <1>1. y \in a.ivals \ a.misfiled /\ y \in a.ivals \ {k}
    OBVIOUS
  <1>2. Less(at, a.ivals, k)[y] = at[y]
    BY <1>1 DEF Less
  <1> QED BY <1>1, <1>2 DEF InPlace

\* delete A[k] of an integer that was found.
LEMMA DeleteNumOK ==
    ASSUME NEW a, TableOK(a, Live(a)), NEW k \in IntKeys, AtFront(a.ilist[Bucket(k, a.hmask)], k)
    PROVE  LET b == Unlink(OffItsSlist(OffIlist(a, k), k), k)
           IN  ArrOK(b) /\ MapOf(b) = Restrict(a.val, DOMAIN a.val \ {k})
  <1> DEFINE m == a.hmask
             S == Live(a)
             i == Bucket(k, m)
             j == Bucket(Hash[k], m)
             il == Upd(a.ilist, i, Tail(a.ilist[i]))
             sl == IF k \in a.svals THEN Upd(a.slist, j, Without(a.slist[j], k)) ELSE a.slist
             c == OffItsSlist(OffIlist(a, k), k)
             b == Unlink(c, k)
             f == Restrict(a.val, DOMAIN a.val \ {k})
  <1>1. a \in ArrT /\ m \in Nat /\ k \in Keys /\ k \in Int /\ a.type \in Tables /\ S \subseteq Keys
    BY KeyTypes, LiveType DEF TableOK, ArrT
  <1>2. i \in 0..m /\ j \in 0..m
    BY <1>1, KeyTypes, BucketType
  <1>3. PICK at : Filed(a.ilist, m, a.ivals, at) /\ InPlace(a, at)
    BY DEF TableOK, ByInteger
  <1>4. a.ilist \in ListsOf(m) /\ a.slist \in ListsOf(m)
    BY TableLists
  <1>5. c = [a EXCEPT !.ilist = il, !.slist = sl]
    BY <1>1 DEF OffItsSlist, OffIlist, Upd, ArrT
  <1>6. k \in a.ivals /\ at[k] = i /\ Filed(il, m, a.ivals \ {k}, Less(at, a.ivals, k))
    <2> DEFINE l == a.ilist
               T == a.ivals
    <2>1. Filed(l, m, T, at) /\ l \in ListsOf(m) /\ AtFront(l[i], k)
      BY <1>3, <1>4
    <2> HIDE DEF l, T, m, i
    <2>2. Contains(l[i], k)
      BY <1>1, <1>2, <2>1, FrontIsOn
    <2>3. /\ k \in T /\ at[k] = i
          /\ Filed(Upd(l, i, Without(l[i], k)), m, T \ {k}, Less(at, T, k))
          /\ AtFront(l[i], k) => Filed(Upd(l, i, Tail(l[i])), m, T \ {k}, Less(at, T, k))
      <3>1. m \in Nat /\ i \in 0..m /\ k \in Keys
        BY <1>1, <1>2
      <3> QED BY <3>1, <2>1, <2>2, OffIlists
    <2>4. Filed(Upd(l, i, Tail(l[i])), m, T \ {k}, Less(at, T, k))
      BY <2>1, <2>3
    <2> QED BY <2>3, <2>4 DEF l, T
  <1>7. k \in S
    BY <1>6 DEF TableOK, ByInteger
  <1>8. IF "STR" \in a.type
        THEN a.svals = S /\ Filed(sl, m, S \ {k}, InBuckets(S \ {k}, Hash, m))
        ELSE a.svals = {} /\ sl = a.slist
    <2>1. CASE "STR" \in a.type
      <3> DEFINE l == a.slist
      <3>1. a.svals = S /\ Filed(l, m, S, InBuckets(S, Hash, m))
        BY <2>1 DEF TableOK, ByString
      <3>2. sl = Upd(l, j, Without(l[j], k))
        BY <1>7, <3>1
      <3> HIDE DEF l, S, m, sl
      <3>3. Filed(Upd(l, j, Without(l[j], k)), m, S \ {k}, InBuckets(S \ {k}, Hash, m))
        BY <1>1, <1>7, <3>1, OffSlists
      <3> QED BY <2>1, <3>1, <3>2, <3>3
    <2>2. CASE "STR" \notin a.type
      BY <2>2 DEF TableOK, ByString
    <2> QED BY <2>1, <2>2
  <1>9. sl \in ListsOf(m) /\ il \in ListsOf(m)
    BY <1>4, <1>6, <1>8 DEF Filed
  <1>10. sl \in Lists /\ il \in Lists
    BY <1>1, <1>9 DEF Lists
  <1> HIDE DEF sl, il, c
  <1>11. /\ c \in ArrT /\ c.ilist = il /\ c.slist = sl /\ c.val = a.val
         /\ c.type = a.type /\ c.hmask = m /\ c.size = a.size /\ c.limit = a.limit /\ c.cells = a.cells
         /\ c.svals = a.svals /\ c.ivals = a.ivals /\ c.misfiled = a.misfiled
    BY <1>1, <1>5, <1>10 DEF ArrT
  <1>12. Live(c) = S
    BY <1>11 DEF Live
  <1>13. Sized(c)
    BY <1>11, <1>12 DEF TableOK, Sized
  <1>14. /\ c.size = 1 => b = NullArray /\ f = <<>>
         /\ c.size # 1 =>
              /\ b \in ArrT /\ Sized(b) /\ Live(b) = S \ {k} /\ b.val = f
              /\ b.type = a.type /\ b.hmask = m /\ b.slist = sl /\ b.ilist = il
              /\ b.svals = a.svals \ {k} /\ b.ivals = a.ivals \ {k} /\ b.misfiled = a.misfiled \ {k}
    <2>1. c.type \in Tables /\ k \in Live(c)
      BY <1>1, <1>7, <1>11, <1>12
    <2> DEFINE e == Unlink(c, k)
               g == Restrict(c.val, DOMAIN c.val \ {k})
    <2>2. /\ c.size = 1 => e = NullArray /\ g = <<>>
          /\ c.size # 1 =>
               /\ e \in ArrT /\ Sized(e) /\ Live(e) = Live(c) \ {k} /\ e.val = g
               /\ e.type = c.type /\ e.hmask = c.hmask /\ e.slist = c.slist /\ e.ilist = c.ilist
               /\ e.svals = c.svals \ {k} /\ e.ivals = c.ivals \ {k} /\ e.misfiled = c.misfiled \ {k}
      BY <1>11, <1>13, <2>1, UnlinkOK
    <2>3. g = f
      BY <1>11
    <2> HIDE DEF e, g, f
    <2>4. b = e
      BY DEF e
    <2> HIDE DEF b
    <2> QED BY <2>2, <2>3, <2>4, <1>11, <1>12
  <1> HIDE DEF b, f
  <1>15. CASE c.size = 1
    BY <1>14, <1>15, NullFields DEF ArrOK, MapOf, AY_SPLIT, b, c, f
  <1>16. CASE c.size # 1
    <2>1. ByString(b, S \ {k})
      BY <1>1, <1>8, <1>9, <1>14, <1>16 DEF ByString
    <2>2. InPlace(b, Less(at, a.ivals, k))
      BY <1>3, <1>14, <1>16, InPlaceLess
    <2>3. ByInteger(b, S \ {k})
      <3>1. a.ivals \subseteq S \cap IntKeys /\ ("STR" \notin a.type => a.ivals = S /\ a.misfiled = {})
        BY DEF TableOK, ByInteger
      <3> QED BY <3>1, <2>2, <1>6, <1>14, <1>16 DEF ByInteger
    <2>4. TableOK(b, Live(b))
      BY <1>1, <1>14, <1>16, <2>1, <2>3 DEF TableOK
    <2>5. MapOf(b) = b.val
      BY <2>4, TableMap
    <2> QED BY <1>14, <1>16, <2>4, <2>5 DEF ArrOK, b, c, f
  <1> QED BY <1>15, <1>16

\* A table one of whose ilists still has a freed node.
Dangling(a) == /\ a \in ArrT /\ a.type \in Tables /\ Sized(a)
               /\ ByString(a, Live(a)) /\ a.ilist \in ListsOf(a.hmask)

\* delete A[k] of a string that was found: only the integer that stands for no
\* integer stays behind on a list.
LEMMA DeleteStrOK ==
    ASSUME NEW a, TableOK(a, Live(a)), "STR" \in a.type, NEW k \in Live(a),
           AtFront(a.slist[Bucket(Hash[k], a.hmask)], k),
           ~(Numbered(a, k) /\ ~Contains(a.ilist[Bucket(k, a.hmask)], k))
    PROVE  LET b == Unlink(OffItsIlist(OffSlist(a, k), k), k)
           IN  /\ MapOf(b) = Restrict(a.val, DOMAIN a.val \ {k})
               /\ IF \E j \in DOMAIN b.ilist : Contains(b.ilist[j], k)
                  THEN Dangling(b) /\ k = NotAnIvalue /\ k \in IntKeys
                  ELSE ArrOK(b)
  <1> DEFINE m == a.hmask
             S == Live(a)
             i == Bucket(k, m)
             j == Bucket(Hash[k], m)
             sl == Upd(a.slist, j, Tail(a.slist[j]))
             il == IF Numbered(a, k) THEN Upd(a.ilist, i, Without(a.ilist[i], k)) ELSE a.ilist
             c == OffItsIlist(OffSlist(a, k), k)
             b == Unlink(c, k)
             f == Restrict(a.val, DOMAIN a.val \ {k})
             d == \E n \in DOMAIN b.ilist : Contains(b.ilist[n], k)
             P == k \in a.ivals /\ k = NotAnIvalue
  <1>1. a \in ArrT /\ m \in Nat /\ k \in Keys /\ a.type \in Tables /\ S \subseteq Keys
    BY LiveType DEF TableOK, ArrT
  <1>2. PICK at : Filed(a.ilist, m, a.ivals, at) /\ InPlace(a, at)
    BY DEF TableOK, ByInteger
  <1>3. a.ivals \subseteq IntKeys /\ a.ilist \in ListsOf(m) /\ a.slist \in ListsOf(m)
    BY TableLists DEF TableOK, ByInteger
  <1>4. c = [a EXCEPT !.slist = sl, !.ilist = il]
    <2>1. OffSlist(a, k) = [a EXCEPT !.slist = sl]
      BY <1>1 DEF OffSlist, Upd, ArrT
    <2> DEFINE o == [a EXCEPT !.slist = sl]
    <2> HIDE DEF sl
    <2>2. o.ivals = a.ivals /\ o.ilist = a.ilist /\ o.hmask = m
      BY <1>1 DEF ArrT
    <2>3. OffItsIlist(o, k) = IF Numbered(a, k) THEN [o EXCEPT !.ilist = Upd(a.ilist, i, Without(a.ilist[i], k))] ELSE o
      BY <2>2 DEF OffItsIlist, Numbered, Upd
    <2>4. CASE Numbered(a, k)
      BY <2>1, <2>3, <2>4
    <2>5. CASE ~Numbered(a, k)
      BY <1>1, <2>1, <2>3, <2>5 DEF ArrT
    <2> QED BY <2>4, <2>5
  <1>5. a.svals = S /\ Filed(sl, m, S \ {k}, InBuckets(S \ {k}, Hash, m))
    <2> DEFINE l == a.slist
    <2>1. a.svals = S /\ Filed(l, m, S, InBuckets(S, Hash, m)) /\ AtFront(l[j], k)
      BY DEF TableOK, ByString
    <2> HIDE DEF l, S, m
    <2>2. /\ Filed(Upd(l, j, Without(l[j], k)), m, S \ {k}, InBuckets(S \ {k}, Hash, m))
          /\ AtFront(l[j], k) => Filed(Upd(l, j, Tail(l[j])), m, S \ {k}, InBuckets(S \ {k}, Hash, m))
      <3>1. k \in S
        BY DEF S
      <3> QED BY <1>1, <2>1, <3>1, OffSlists
    <2> QED BY <2>1, <2>2 DEF l
  <1>6. ASSUME ~P PROVE Filed(il, m, a.ivals \ {k}, Less(at, a.ivals, k))
    <2>1. CASE Numbered(a, k)
      <3> DEFINE l == a.ilist
                 T == a.ivals
      <3>1. Filed(l, m, T, at) /\ Contains(l[i], k) /\ k \in IntKeys
        BY <1>2, <1>3, <2>1 DEF Numbered
      <3>2. i \in 0..m /\ m \in Nat /\ k \in Keys
        BY <1>1, <3>1, KeyTypes, BucketType
      <3> HIDE DEF l, T, m, i
      <3>3. /\ k \in T /\ at[k] = i
            /\ Filed(Upd(l, i, Without(l[i], k)), m, T \ {k}, Less(at, T, k))
            /\ AtFront(l[i], k) => Filed(Upd(l, i, Tail(l[i])), m, T \ {k}, Less(at, T, k))
        BY <3>1, <3>2, OffIlists
      <3> QED BY <2>1, <3>3 DEF l, T
    <2>2. CASE ~Numbered(a, k)
      <3>1. k \notin a.ivals /\ il = a.ilist
        BY <1>6, <2>2 DEF Numbered
      <3>2. a.ivals \ {k} = a.ivals
        BY <3>1
      <3>3. Less(at, a.ivals, k) = at
        <4>1. at = [x \in a.ivals |-> at[x]]
          BY <1>2 DEF Filed
        <4> QED BY <3>2, <4>1 DEF Less
      <3> HIDE DEF il
      <3> QED BY <1>2, <3>1, <3>2, <3>3
    <2> QED BY <2>1, <2>2
  <1>7. ASSUME P PROVE il = a.ilist
    BY <1>7 DEF Numbered
  <1>8. sl \in ListsOf(m) /\ il \in ListsOf(m)
    <2> HIDE DEF sl, il, P
    <2> QED BY <1>3, <1>5, <1>6, <1>7 DEF Filed
  <1>9. sl \in Lists /\ il \in Lists
    BY <1>1, <1>8 DEF Lists
  <1> HIDE DEF sl, il, c
  <1>10. /\ c \in ArrT /\ c.ilist = il /\ c.slist = sl /\ c.val = a.val
         /\ c.type = a.type /\ c.hmask = m /\ c.size = a.size /\ c.limit = a.limit /\ c.cells = a.cells
         /\ c.svals = a.svals /\ c.ivals = a.ivals /\ c.misfiled = a.misfiled
    BY <1>1, <1>4, <1>9 DEF ArrT
  <1>11. Live(c) = S
    BY <1>10 DEF Live
  <1>12. Sized(c)
    BY <1>10, <1>11 DEF TableOK, Sized
  <1>13. /\ c.size = 1 => b = NullArray /\ f = <<>>
         /\ c.size # 1 =>
              /\ b \in ArrT /\ Sized(b) /\ Live(b) = S \ {k} /\ b.val = f
              /\ b.type = a.type /\ b.hmask = m /\ b.slist = sl /\ b.ilist = il
              /\ b.svals = a.svals \ {k} /\ b.ivals = a.ivals \ {k} /\ b.misfiled = a.misfiled \ {k}
    <2>1. c.type \in Tables /\ k \in Live(c)
      BY <1>1, <1>10, <1>11
    <2> DEFINE e == Unlink(c, k)
               g == Restrict(c.val, DOMAIN c.val \ {k})
    <2>2. /\ c.size = 1 => e = NullArray /\ g = <<>>
          /\ c.size # 1 =>
               /\ e \in ArrT /\ Sized(e) /\ Live(e) = Live(c) \ {k} /\ e.val = g
               /\ e.type = c.type /\ e.hmask = c.hmask /\ e.slist = c.slist /\ e.ilist = c.ilist
               /\ e.svals = c.svals \ {k} /\ e.ivals = c.ivals \ {k} /\ e.misfiled = c.misfiled \ {k}
      BY <1>10, <1>12, <2>1, UnlinkOK
    <2>3. g = f
      BY <1>10
    <2> HIDE DEF e, g, f
    <2>4. b = e
      BY DEF e
    <2> HIDE DEF b
    <2> QED BY <2>2, <2>3, <2>4, <1>10, <1>11
  <1> HIDE DEF b, f, d, P
  <1>14. CASE c.size = 1
    <2>1. ~d
      BY <1>13, <1>14, NullFields DEF d
    <2>2. ArrOK(b) /\ MapOf(b) = f
      BY <1>13, <1>14, NullFields DEF ArrOK, MapOf, AY_SPLIT
    <2> QED BY <2>1, <2>2 DEF b, c, d, f
  <1>15. CASE c.size # 1
    <2>1. MapOf(b) = f
      BY <1>1, <1>13, <1>15 DEF MapOf, AY_SPLIT, Tables
    <2>2. ByString(b, S \ {k})
      BY <1>5, <1>8, <1>13, <1>15 DEF ByString
    <2>3. CASE ~P
      <3>1. Filed(il, m, a.ivals \ {k}, Less(at, a.ivals, k))
        BY <1>6, <2>3
      <3>2. InPlace(b, Less(at, a.ivals, k))
        BY <1>2, <1>13, <1>15, InPlaceLess
      <3>3. ByInteger(b, S \ {k})
        <4>1. a.ivals \subseteq S \cap IntKeys /\ "STR" \in b.type
          BY <1>13, <1>15 DEF TableOK, ByInteger
        <4> QED BY <3>1, <3>2, <4>1, <1>13, <1>15 DEF ByInteger
      <3>4. TableOK(b, Live(b))
        BY <1>1, <1>13, <1>15, <2>2, <3>3 DEF TableOK
      <3>5. ~d
        <4> DEFINE T == a.ivals \ {k}
        <4> HIDE DEF T
        <4>1. Filed(il, m, T, Less(at, a.ivals, k))
          BY <3>1 DEF T
        <4>2. DOMAIN il = 0..m /\ ((\E n \in 0..m : Contains(il[n], k)) <=> k \in T)
          BY <1>1, <4>1, FiledSomewhere
        <4>3. k \notin T
          BY DEF T
        <4> QED BY <1>13, <1>15, <4>2, <4>3 DEF d
      <3> QED BY <2>1, <3>4, <3>5 DEF ArrOK, b, c, d, f
    <2>4. CASE P
      <3>1. il = a.ilist /\ k \in a.ivals /\ k = NotAnIvalue /\ k \in IntKeys
        BY <1>3, <1>7, <2>4 DEF P
      <3>2. d
        <4> DEFINE T == a.ivals
        <4>1. Filed(il, m, T, at) /\ k \in T
          BY <1>2, <3>1
        <4> HIDE DEF T
        <4>2. DOMAIN il = 0..m /\ ((\E n \in 0..m : Contains(il[n], k)) <=> k \in T)
          BY <1>1, <4>1, FiledSomewhere
        <4> QED BY <1>13, <1>15, <4>1, <4>2 DEF d
      <3>3. Dangling(b)
        BY <1>1, <1>8, <1>13, <1>15, <2>2 DEF Dangling
      <3> QED BY <2>1, <3>1, <3>2, <3>3 DEF b, c, d, f
    <2> QED BY <2>3, <2>4
  <1> QED BY <1>14, <1>15

-----------------------------------------------------------------------------
(* The invariant.                                                          *)

\* The array is one of the three kinds; only where a freed node was left on an
\* ilist is that list not what it should be.
ArrayInv == /\ fault \in {"none", "shared", "crash", "dangling"}
            /\ IF fault = "dangling" THEN Dangling(A) ELSE ArrOK(A)

\* The first state.
LEMMA InitArray == Init => ArrayInv /\ A.misfiled = {}
  BY NullFields DEF Init, ArrayInv, ArrOK

\* The block of a split array has room for the pieces.
LEMMA RoomForPieces ==
    ASSUME NEW n \in Nat
    PROVE  (n - (n % SplitRound)) + SplitRound \in Nat /\ n <= (n - (n % SplitRound)) + SplitRound
  <1>1. SplitRound \in Nat \ {0}
    BY HashArrayAssumption
  <1>2. n % SplitRound \in 0..SplitRound - 1 /\ n % SplitRound <= n
    <2> DEFINE q == n \div SplitRound
               r == n % SplitRound
    <2>1. n = SplitRound * q + r /\ r \in 0..SplitRound - 1 /\ q \in Int
      BY <1>1, DivMod
    <2>2. q >= 0
      BY <1>1, SMTT(20)
    <2> HIDE DEF q, r
    <2>3. SplitRound * q >= 0
      BY <1>1, <2>1, <2>2, SMTT(20)
    <2>4. SplitRound * q \in Int
      BY <1>1, <2>1
    <2>5. r <= n
      BY <1>1, <2>1, <2>3, <2>4
    <2> QED BY <2>1, <2>5 DEF r
  <1> QED BY <1>1, <1>2

\* The steps that look up and keep: what they look up and what they find.
LEMMA ReferStep ==
    ASSUME ArrayInv, NEW k \in Keys, NEW num \in BOOLEAN, num => k \in IntKeys, Refer(k, num)
    PROVE  /\ ArrayInv'
           /\ fault = "none" /\ (fault' # "none" => A' = A /\ out' = out /\ A.misfiled # {})
           /\ fault' = "none" =>
                LET m == MapOf(A)
                    n == IF k \in DOMAIN m THEN m ELSE With(m, k, Uninit)
                IN  MapOf(A') = n /\ out' = <<"ref", k, n[k]>>
  <1> DEFINE r == array_find(A, k, num, TRUE)
             m == MapOf(A)
  <1>1. fault = "none" /\ ArrOK(A) /\ Keep(r, r.arr, <<"ref", k, CellOf(r.arr, k)>>)
    BY DEF Refer, Running, ArrayInv
  <1>2. Found(r, m, k, TRUE) /\ IF r.shared THEN A.misfiled # {} ELSE ArrOK(r.arr)
    BY <1>1, ArrayFindOK
  <1> HIDE DEF r, m
  <1>3. CASE r.shared
    <2>1. fault' = "shared" /\ A' = A /\ out' = out
      BY <1>1, <1>3 DEF Keep
    <2> QED BY <1>1, <1>2, <1>3, <2>1 DEF ArrayInv
  <1>4. CASE ~r.shared
    <2>1. A' = r.arr /\ out' = <<"ref", k, CellOf(r.arr, k)>> /\ fault' = "none"
      BY <1>1, <1>4 DEF Keep
    <2>2. ArrOK(r.arr) /\ MapOf(r.arr) = IF k \in DOMAIN m THEN m ELSE With(m, k, Uninit)
      BY <1>2, <1>4 DEF Found
    <2>3. CellOf(r.arr, k) = MapOf(r.arr)[k]
      BY DEF CellOf, MapOf
    <2> QED BY <1>1, <2>1, <2>2, <2>3 DEF ArrayInv, m
  <1> QED BY <1>3, <1>4

\* (k in A) answers as the map does and leaves the map.
LEMMA MemberStep ==
    ASSUME ArrayInv, NEW k \in Keys, NEW num \in BOOLEAN, num => k \in IntKeys, Member(k, num)
    PROVE  /\ ArrayInv'
           /\ fault = "none" /\ (fault' # "none" => A' = A /\ out' = out /\ A.misfiled # {})
           /\ fault' = "none" => MapOf(A') = MapOf(A) /\ out' = <<"in", k, k \in DOMAIN MapOf(A)>>
  <1> DEFINE r == array_find(A, k, num, FALSE)
             m == MapOf(A)
  <1>1. fault = "none" /\ ArrOK(A) /\ Keep(r, r.arr, <<"in", k, r.hit>>)
    BY DEF Member, Running, ArrayInv
  <1>2. Found(r, m, k, FALSE) /\ IF r.shared THEN A.misfiled # {} ELSE ArrOK(r.arr)
    BY <1>1, ArrayFindOK
  <1> HIDE DEF r, m
  <1>3. CASE r.shared
    <2>1. fault' = "shared" /\ A' = A /\ out' = out
      BY <1>1, <1>3 DEF Keep
    <2> QED BY <1>1, <1>2, <1>3, <2>1 DEF ArrayInv
  <1>4. CASE ~r.shared
    <2>1. A' = r.arr /\ out' = <<"in", k, r.hit>> /\ fault' = "none"
      BY <1>1, <1>4 DEF Keep
    <2>2. ArrOK(r.arr) /\ MapOf(r.arr) = m /\ r.hit = (k \in DOMAIN m)
      BY <1>2, <1>4 DEF Found
    <2> QED BY <1>1, <2>1, <2>2 DEF ArrayInv, m
  <1> QED BY <1>3, <1>4

\* A[k] = v changes the map at k only.
LEMMA AssignStep ==
    ASSUME ArrayInv, NEW k \in Keys, NEW num \in BOOLEAN, num => k \in IntKeys, NEW v \in Val, Assign(k, num, v)
    PROVE  /\ ArrayInv'
           /\ fault = "none" /\ (fault' # "none" => A' = A /\ out' = out /\ A.misfiled # {})
           /\ fault' = "none" => MapOf(A') = With(MapOf(A), k, v) /\ out' = <<"set", k, v>>
  <1> DEFINE r == array_find(A, k, num, TRUE)
             m == MapOf(A)
             b == SetCell(r.arr, k, v)
  <1>1. fault = "none" /\ ArrOK(A) /\ Keep(r, b, <<"set", k, v>>)
    BY DEF Assign, Running, ArrayInv
  <1>2. Found(r, m, k, TRUE) /\ IF r.shared THEN A.misfiled # {} ELSE ArrOK(r.arr)
    BY <1>1, ArrayFindOK
  <1> HIDE DEF r, m
  <1>3. CASE r.shared
    <2>1. fault' = "shared" /\ A' = A /\ out' = out
      BY <1>1, <1>3 DEF Keep
    <2> QED BY <1>1, <1>2, <1>3, <2>1 DEF ArrayInv
  <1>4. CASE ~r.shared
    <2>1. A' = b /\ out' = <<"set", k, v>> /\ fault' = "none"
      BY <1>1, <1>4 DEF Keep
    <2>2. ArrOK(r.arr) /\ MapOf(r.arr) = IF k \in DOMAIN m THEN m ELSE With(m, k, Uninit)
      BY <1>2, <1>4 DEF Found
    <2>3. k \in DOMAIN MapOf(r.arr) /\ With(MapOf(r.arr), k, v) = With(m, k, v)
      BY <2>2 DEF With
    <2>4. ArrOK(b) /\ MapOf(b) = With(MapOf(r.arr), k, v)
      BY <2>2, <2>3, SetCellOK
    <2> HIDE DEF b
    <2> QED BY <1>1, <2>1, <2>3, <2>4 DEF ArrayInv, m
  <1> QED BY <1>3, <1>4

\* Nothing is deleted where nothing is found.
LEMMA RestrictNothing ==
    ASSUME NEW a, ArrOK(a), NEW k, k \notin DOMAIN MapOf(a)
    PROVE  Restrict(MapOf(a), DOMAIN MapOf(a) \ {k}) = MapOf(a)
  <1> DEFINE m == MapOf(a)
  <1>1. m = [x \in DOMAIN m |-> m[x]]
    <2>1. a \in ArrT
      BY Kinds
    <2>2. a.cells \in Seq(Val) /\ a.val \in [Live(a) -> Val]
      BY <2>1, LiveType DEF ArrT
    <2>3. m = a.cells \/ m = a.val
      BY DEF MapOf
    <2> HIDE DEF m
    <2> QED BY <2>2, <2>3
  <1>2. DOMAIN m \ {k} = DOMAIN m
    OBVIOUS
  <1> HIDE DEF m
  <1> QED BY <1>1, <1>2 DEF Restrict, m

\* delete A[k] of an integer takes k out of the map.
LEMMA DeleteNumStep ==
    ASSUME ArrayInv, NEW k \in IntKeys, DeleteNum(k)
    PROVE  /\ ArrayInv'
           /\ fault = "none" /\ (fault' # "none" => A' = A /\ out' = out /\ A.misfiled # {})
           /\ fault' = "none" => MapOf(A') = Restrict(MapOf(A), DOMAIN MapOf(A) \ {k}) /\ out' = <<"delete", k>>
  <1> DEFINE m == MapOf(A)
             inRange == A.type = AY_SPLIT => k \in 1..A.size
             a == IF A.type = AY_SPLIT THEN convert_split_array_to_table(A) ELSE A
             r == find_by_ival(a, k, FALSE)
             b == Unlink(OffItsSlist(OffIlist(r.arr, k), k), k)
  <1>1. fault = "none" /\ ArrOK(A)
    BY DEF DeleteNum, Running, ArrayInv
  <1>2. IF A.size = 0 \/ ~inRange THEN DeleteNothing(A, k)
        ELSE IF ~r.hit THEN DeleteNothing(r.arr, k)
        ELSE Keep(r, b, <<"delete", k>>)
    BY DEF DeleteNum
  <1>3. CASE A.size = 0 \/ ~inRange
    <2>1. A' = A /\ out' = <<"delete", k>> /\ fault' = fault
      BY <1>2, <1>3 DEF DeleteNothing
    <2>2. k \notin DOMAIN m
      <3>1. CASE A.size = 0
        BY <1>1, <3>1, NoElements
      <3>2. CASE ~inRange
        <4>1. SplitOK(A) /\ m = A.cells
          BY <1>1, <3>2, Kinds
        <4>2. A.cells \in Seq(Val) /\ A.size = Len(A.cells)
          BY <4>1 DEF SplitOK, NullArray
        <4> QED BY <3>2, <4>1, <4>2
      <3> QED BY <1>3, <3>1, <3>2
    <2>3. Restrict(m, DOMAIN m \ {k}) = m
      BY <1>1, <2>2, RestrictNothing
    <2> QED BY <1>1, <2>1, <2>3 DEF ArrayInv
  <1>4. CASE ~(A.size = 0 \/ ~inRange)
    <2>1. TableOK(a, Live(a)) /\ a.val = m /\ a.misfiled = A.misfiled
      <3>1. CASE A.type = AY_SPLIT
        <4> DEFINE c == convert_split_array_to_table(A)
        <4>1. SplitOK(A) /\ m = A.cells /\ A.misfiled = {}
          BY <1>1, <3>1, Kinds
        <4>2. TableOK(c, Live(c)) /\ c.val = A.cells /\ c.misfiled = {}
          BY <4>1, ConvertOK
        <4> HIDE DEF c
        <4>3. a = c
          BY <3>1 DEF c
        <4> HIDE DEF a
        <4> QED BY <4>1, <4>2, <4>3
      <3>2. CASE A.type # AY_SPLIT
        <4>1. A.type # AY_NULL
          <5> SUFFICES ASSUME A.type = AY_NULL PROVE FALSE
            OBVIOUS
          <5>1. A = NullArray
            BY <1>1, Kinds
          <5>2. A.size = 0
            BY <5>1, NullFields
          <5> QED BY <1>4, <5>2
        <4> QED BY <1>1, <3>2, <4>1, Kinds
      <3> QED BY <3>1, <3>2
    <2> HIDE DEF a, m
    <2>2. /\ Found(r, a.val, k, FALSE)
          /\ IF r.shared THEN k \in a.misfiled /\ r.hit ELSE TableOK(r.arr, Live(r.arr))
          /\ ~FALSE /\ r.hit /\ ~r.shared => AtFront(r.arr.ilist[Bucket(k, r.arr.hmask)], k)
      BY <2>1, FindByIvalOK
    <2> HIDE DEF r
    <2>3. r.hit = (k \in DOMAIN m) /\ MapOf(r.arr) = m
      BY <2>1, <2>2 DEF Found
    <2>4. CASE ~r.hit
      <3>1. A' = r.arr /\ out' = <<"delete", k>> /\ fault' = fault
        BY <1>2, <1>4, <2>4 DEF DeleteNothing
      <3>2. ArrOK(r.arr)
        BY <2>2, <2>4 DEF ArrOK
      <3>3. Restrict(m, DOMAIN m \ {k}) = m
        BY <2>3, <2>4, <3>2, RestrictNothing
      <3> QED BY <1>1, <2>3, <3>1, <3>2, <3>3 DEF ArrayInv, m
    <2>5. CASE r.hit /\ r.shared
      <3>1. fault' = "shared" /\ A' = A /\ out' = out
        BY <1>2, <1>4, <2>5 DEF Keep
      <3> QED BY <1>1, <2>1, <2>2, <2>5, <3>1 DEF ArrayInv
    <2>6. CASE r.hit /\ ~r.shared
      <3>1. A' = b /\ out' = <<"delete", k>> /\ fault' = fault
        BY <1>2, <1>4, <2>6 DEF Keep
      <3> DEFINE e == r.arr
      <3>2. TableOK(e, Live(e)) /\ AtFront(e.ilist[Bucket(k, e.hmask)], k)
        BY <2>2, <2>6
      <3>3. b = Unlink(OffItsSlist(OffIlist(e, k), k), k)
        OBVIOUS
      <3> HIDE DEF e, b
      <3>4. ArrOK(b) /\ MapOf(b) = Restrict(e.val, DOMAIN e.val \ {k})
        <4> DEFINE u == Unlink(OffItsSlist(OffIlist(e, k), k), k)
        <4>1. ArrOK(u) /\ MapOf(u) = Restrict(e.val, DOMAIN e.val \ {k})
          BY <3>2, DeleteNumOK
        <4> HIDE DEF u
        <4>2. b = u
          BY <3>3 DEF u
        <4> QED BY <4>1, <4>2
      <3>5. e.val = m
        BY <2>3, <3>2, TableMap DEF e
      <3> QED BY <1>1, <3>1, <3>4, <3>5 DEF ArrayInv, m
    <2> QED BY <2>4, <2>5, <2>6
  <1> QED BY <1>3, <1>4

\* delete A[k] of a string: no integer that has an ival is left behind.
LEMMA DeleteStrStep ==
    ASSUME ArrayInv, NEW k \in Keys, DeleteStr(k)
    PROVE  /\ ArrayInv'
           /\ fault = "none"
           /\ fault' # "none" =>
                \/ A' = A /\ out' = out /\ A.misfiled # {}
                \/ k = NotAnIvalue /\ k \in IntKeys
           /\ \/ A' = A /\ out' = out
              \/ MapOf(A') = Restrict(MapOf(A), DOMAIN MapOf(A) \ {k}) /\ out' = <<"delete", k>>
  <1> DEFINE m == MapOf(A)
             r == find_by_sval(A, k, FALSE)
             e == r.arr
             b == Unlink(OffItsIlist(OffSlist(e, k), k), k)
             lost == Numbered(e, k) /\ ~Contains(e.ilist[Bucket(k, e.hmask)], k)
  <1>1. fault = "none" /\ ArrOK(A)
    BY DEF DeleteStr, Running, ArrayInv
  <1>2. IF A.size = 0 THEN DeleteNothing(A, k)
        ELSE IF ~r.hit THEN DeleteNothing(e, k)
        ELSE IF lost THEN fault' = "crash" /\ UNCHANGED <<A, out>>
        ELSE /\ A' = b /\ out' = <<"delete", k>>
             /\ fault' = IF \E j \in DOMAIN A'.ilist : Contains(A'.ilist[j], k) THEN "dangling" ELSE fault
    BY DEF DeleteStr
  <1>3. CASE A.size = 0
    <2>1. A' = A /\ out' = <<"delete", k>> /\ fault' = fault
      BY <1>2, <1>3 DEF DeleteNothing
    <2>2. k \notin DOMAIN m
      BY <1>1, <1>3, NoElements
    <2>3. Restrict(m, DOMAIN m \ {k}) = m
      BY <1>1, <2>2, RestrictNothing
    <2> QED BY <1>1, <2>1, <2>3 DEF ArrayInv
  <1>4. CASE A.size # 0
    <2>1. /\ Found(r, m, k, FALSE) /\ TableOK(e, Live(e)) /\ e.misfiled = A.misfiled /\ "STR" \in e.type
          /\ r.hit => AtFront(e.slist[Bucket(Hash[k], e.hmask)], k)
      BY <1>1, FindBySvalOK
    <2> HIDE DEF r, m
    <2>2. r.hit = (k \in DOMAIN m) /\ MapOf(e) = m /\ e.val = m
      BY <2>1, TableMap DEF Found
    <2>3. CASE ~r.hit
      <3>1. A' = e /\ out' = <<"delete", k>> /\ fault' = fault
        BY <1>2, <1>4, <2>3 DEF DeleteNothing
      <3>2. ArrOK(e)
        BY <2>1 DEF ArrOK
      <3>3. Restrict(m, DOMAIN m \ {k}) = m
        BY <2>2, <2>3, <3>2, RestrictNothing
      <3> QED BY <1>1, <2>2, <3>1, <3>2, <3>3 DEF ArrayInv, m
    <2>4. CASE r.hit /\ lost
      <3>1. fault' = "crash" /\ A' = A /\ out' = out
        BY <1>2, <1>4, <2>4
      <3>2. k \in e.ivals /\ k \in IntKeys /\ ~Contains(e.ilist[Bucket(k, e.hmask)], k)
        BY <2>1, <2>4 DEF Numbered, TableOK, ByInteger
      <3>3. k \in e.misfiled
        <4> DEFINE l == e.ilist
                   n == e.hmask
                   T == e.ivals
        <4>1. PICK at : Filed(l, n, T, at) /\ InPlace(e, at)
          BY <2>1 DEF TableOK, ByInteger
        <4>2. n \in Nat /\ Bucket(k, n) \in 0..n
          BY <2>1, <3>2, KeyTypes, BucketType DEF TableOK, ArrT
        <4>3. k \in T /\ ~Contains(l[Bucket(k, n)], k)
          BY <3>2
        <4> HIDE DEF l, n, T
        <4>4. at[k] # Bucket(k, n)
          BY <4>1, <4>2, <4>3, FiledOn
        <4> QED BY <4>1, <4>3, <4>4 DEF InPlace, n, T
      <3> QED BY <1>1, <2>1, <3>1, <3>3 DEF ArrayInv
    <2>5. CASE r.hit /\ ~lost
      <3>1. /\ A' = b /\ out' = <<"delete", k>>
            /\ fault' = IF \E j \in DOMAIN A'.ilist : Contains(A'.ilist[j], k) THEN "dangling" ELSE fault
        BY <1>2, <1>4, <2>5
      <3>2. TableOK(e, Live(e)) /\ AtFront(e.slist[Bucket(Hash[k], e.hmask)], k) /\ k \in Live(e) /\ ~lost
        BY <2>1, <2>2, <2>5 DEF Live
      <3> HIDE DEF e, b
      <3>3. /\ MapOf(b) = Restrict(e.val, DOMAIN e.val \ {k})
            /\ IF \E j \in DOMAIN b.ilist : Contains(b.ilist[j], k)
               THEN Dangling(b) /\ k = NotAnIvalue /\ k \in IntKeys
               ELSE ArrOK(b)
        <4> DEFINE u == Unlink(OffItsIlist(OffSlist(e, k), k), k)
        <4>1. /\ MapOf(u) = Restrict(e.val, DOMAIN e.val \ {k})
              /\ IF \E j \in DOMAIN u.ilist : Contains(u.ilist[j], k)
                 THEN Dangling(u) /\ k = NotAnIvalue /\ k \in IntKeys
                 ELSE ArrOK(u)
          BY <2>1, <3>2, DeleteStrOK
        <4> HIDE DEF u
        <4>2. b = u
          BY DEF b, u
        <4> QED BY <4>1, <4>2
      <3>4. CASE \E j \in DOMAIN b.ilist : Contains(b.ilist[j], k)
        <4>1. fault' = "dangling" /\ Dangling(b) /\ k = NotAnIvalue /\ k \in IntKeys
          BY <3>1, <3>3, <3>4
        <4> QED BY <1>1, <2>2, <3>1, <3>3, <4>1 DEF ArrayInv, m
      <3>5. CASE ~\E j \in DOMAIN b.ilist : Contains(b.ilist[j], k)
        <4>1. fault' = "none" /\ ArrOK(b)
          BY <1>1, <3>1, <3>3, <3>5
        <4> QED BY <1>1, <2>2, <3>1, <3>3, <4>1 DEF ArrayInv, m
      <3> QED BY <3>4, <3>5
    <2> QED BY <2>3, <2>4, <2>5
  <1> QED BY <1>3, <1>4

\* split(s, A): the pieces fit the block they are copied to.
LEMMA LoadStep ==
    ASSUME ArrayInv, NEW n \in 0..MaxSplit, NEW pieces \in [1..n -> Val], Load(pieces)
    PROVE  ArrayInv' /\ fault = "none" /\ fault' = "none" /\ MapOf(A') = pieces /\ out' = <<"load", n>>
  <1> DEFINE room == IF A.type # AY_SPLIT \/ A.limit < n
                     THEN (n - (n % SplitRound)) + SplitRound ELSE A.limit
  <1>1. n \in Nat /\ pieces \in Seq(Val) /\ Len(pieces) = n /\ 1..n \subseteq IntKeys
    <2>1. MaxSplit \in Nat /\ 1..MaxSplit \subseteq IntKeys
      BY HashArrayAssumption
    <2> QED BY <2>1
  <1>2. fault = "none" /\ fault' = fault /\ out' = <<"load", n>> /\ ArrOK(A)
        /\ A' = [NullArray EXCEPT !.type = AY_SPLIT, !.size = n, !.limit = room, !.cells = pieces]
    BY <1>1 DEF Load, Running, ArrayInv
  <1>3. A.limit \in Nat
    BY <1>2, Kinds DEF ArrT
  <1>4. room \in Nat /\ n <= room
    BY SMTT(30), <1>1, <1>3, RoomForPieces
  <1> HIDE DEF room
  <1>5. A' \in ArrT /\ A'.cells = pieces /\ A'.limit = room /\ A'.type = AY_SPLIT
    BY <1>1, <1>2, <1>4, NullFields DEF ArrT, Flags, AY_SPLIT
  <1>6. SplitOK(A')
    BY <1>1, <1>2, <1>4, <1>5 DEF SplitOK
  <1> QED BY <1>2, <1>5, <1>6 DEF ArrayInv, ArrOK, MapOf

\* for (k in A): the vector holds every key of the array, none twice.
LEMMA LoopStep ==
    ASSUME ArrayInv, Loop
    PROVE  /\ ArrayInv' /\ fault = "none" /\ fault' = "none" /\ MapOf(A') = MapOf(A)
           /\ out' = <<"loop", out'[2]>> /\ ToSet(out'[2]) = DOMAIN MapOf(A)
  <1> DEFINE a == IF A.size = 0 \/ "STR" \in A.type THEN A ELSE add_string_associations(A)
             w == IF a.size = 0 THEN <<>> ELSE Walk(a.slist, a.hmask)
  <1>1. fault = "none" /\ ArrOK(A) /\ A' = a /\ fault' = fault /\ out' = <<"loop", w>>
    BY DEF Loop, Running, ArrayInv
  <1>2. ToSet(<<>>) = {}
    BY DEF ToSet
  <1>3. CASE A.size = 0
    BY <1>1, <1>2, <1>3, NoElements DEF ArrayInv
  <1>4. CASE A.size # 0
    <2>1. TableOK(a, Live(a)) /\ "STR" \in a.type /\ a.val = MapOf(A)
      <3>1. CASE "STR" \in A.type
        BY <1>1, <3>1, Kinds
      <3>2. CASE "STR" \notin A.type
        <4> DEFINE c == add_string_associations(A)
        <4>1. TableOK(c, Live(c)) /\ "STR" \in c.type /\ c.val = MapOf(A)
          BY <1>1, <3>2, AddStringsOK
        <4> HIDE DEF c
        <4>2. a = c
          BY <1>4, <3>2 DEF c
        <4> HIDE DEF a
        <4> QED BY <4>1, <4>2
      <3> QED BY <3>1, <3>2
    <2> HIDE DEF a
    <2>2. ToSet(w) = Live(a)
      <3>1. CASE a.size = 0
        <4>1. IsFiniteSet(Live(a)) /\ Cardinality(Live(a)) = 0
          BY <2>1, <3>1 DEF TableOK, Sized
        <4> QED BY <1>2, <3>1, <4>1, FS_EmptySet
      <3>2. CASE a.size # 0
        <4> DEFINE l == a.slist
                   m == a.hmask
                   S == Live(a)
        <4>1. m \in Nat /\ Filed(l, m, S, InBuckets(S, Hash, m))
          BY <2>1 DEF TableOK, ArrT, ByString
        <4> HIDE DEF l, m, S
        <4>2. ToSet(Walk(l, m)) = S
          BY <4>1, WalkAll
        <4> QED BY <3>2, <4>2 DEF l, m, S
      <3> QED BY <3>1, <3>2
    <2>3. MapOf(a) = a.val
      BY <2>1, TableMap
    <2> HIDE DEF w
    <2>4. out'[2] = w
      BY <1>1
    <2> QED BY <1>1, <2>1, <2>2, <2>3, <2>4 DEF ArrayInv, ArrOK, Live
  <1> QED BY <1>3, <1>4

\* delete A
LEMMA ClearStep ==
    ASSUME ArrayInv, Clear
    PROVE  ArrayInv' /\ fault = "none" /\ fault' = "none" /\ MapOf(A') = <<>> /\ out' = <<"clear">>
  BY NullFields DEF Clear, Running, ArrayInv, ArrOK, MapOf, AY_SPLIT

-----------------------------------------------------------------------------
(* The theorems.                                                           *)

\* The abstract map and the answer of a state.
LEMMA Mapped ==
    /\ Map = MapOf(A) /\ Map' = MapOf(A')
    /\ A' = A /\ out' = out => Map' = Map /\ Answer' = Answer
    /\ out'[1] # "loop" => Answer' = out'
    /\ out' = <<"loop", out'[2]>> => Answer' = <<"loop", ToSet(out'[2])>>
  BY DEF Map, MapOf, Answer

\* What every step keeps and what it shows of the map: where it raises a fault a
\* node was misfiled, or there is an integer that stands for no integer.
StepOK == /\ ArrayInv' /\ fault = "none"
          /\ fault' # "none" => (A' = A /\ A.misfiled # {}) \/ NotAnIvalue \in IntKeys
          /\ Abstract!Next \/ (Map' = Map /\ Answer' = Answer)

\* Each operation keeps the invariant, is a step of the map, and faults only
\* by a misfiled node: a reference,
LEMMA ReferShown ==
    ASSUME ArrayInv, NEW k \in Keys, NEW num \in BOOLEAN, num => k \in IntKeys, Refer(k, num)
    PROVE  StepOK
  <1> DEFINE m == MapOf(A)
             n == IF k \in DOMAIN m THEN m ELSE With(m, k, Uninit)
  <1>1. /\ ArrayInv'
        /\ fault = "none" /\ (fault' # "none" => A' = A /\ out' = out /\ A.misfiled # {})
        /\ fault' = "none" => MapOf(A') = n /\ out' = <<"ref", k, n[k]>>
    BY ReferStep
  <1>2. CASE fault' # "none"
    BY <1>1, <1>2, Mapped DEF StepOK
  <1>3. CASE fault' = "none"
    <2> HIDE DEF n
    <2>1. Map' = n /\ Answer' = <<"ref", k, n[k]>>
      BY <1>1, <1>3, Mapped
    <2>2. Abstract!Refer(k)
      BY <2>1, Mapped DEF Abstract!Refer, Abstract!Put, With, n
    <2> QED BY <1>1, <1>3, <2>2 DEF StepOK, Abstract!Next
  <1> QED BY <1>2, <1>3

\* a test of membership,
LEMMA MemberShown ==
    ASSUME ArrayInv, NEW k \in Keys, NEW num \in BOOLEAN, num => k \in IntKeys, Member(k, num)
    PROVE  StepOK
  <1>1. /\ ArrayInv'
        /\ fault = "none" /\ (fault' # "none" => A' = A /\ out' = out /\ A.misfiled # {})
        /\ fault' = "none" => MapOf(A') = MapOf(A) /\ out' = <<"in", k, k \in DOMAIN MapOf(A)>>
    BY MemberStep
  <1>2. CASE fault' # "none"
    BY <1>1, <1>2, Mapped DEF StepOK
  <1>3. CASE fault' = "none"
    <2>1. Map' = Map /\ Answer' = <<"in", k, k \in DOMAIN Map>>
      BY <1>1, <1>3, Mapped
    <2>2. Abstract!Member(k)
      BY <2>1 DEF Abstract!Member
    <2> QED BY <1>1, <1>3, <2>2 DEF StepOK, Abstract!Next
  <1> QED BY <1>2, <1>3

\* an assignment,
LEMMA AssignShown ==
    ASSUME ArrayInv, NEW k \in Keys, NEW num \in BOOLEAN, num => k \in IntKeys, NEW v \in Val, Assign(k, num, v)
    PROVE  StepOK
  <1>1. /\ ArrayInv'
        /\ fault = "none" /\ (fault' # "none" => A' = A /\ out' = out /\ A.misfiled # {})
        /\ fault' = "none" => MapOf(A') = With(MapOf(A), k, v) /\ out' = <<"set", k, v>>
    BY AssignStep
  <1>2. CASE fault' # "none"
    BY <1>1, <1>2, Mapped DEF StepOK
  <1>3. CASE fault' = "none"
    <2>1. Map' = With(Map, k, v) /\ Answer' = <<"set", k, v>>
      BY <1>1, <1>3, Mapped
    <2>2. Abstract!Assign(k, v)
      BY <2>1 DEF Abstract!Assign, Abstract!Put, With
    <2> QED BY <1>1, <1>3, <2>2 DEF StepOK, Abstract!Next
  <1> QED BY <1>2, <1>3

\* a deletion,
LEMMA DeleteShown ==
    ASSUME ArrayInv, NEW k \in Keys, DeleteStr(k) \/ (k \in IntKeys /\ DeleteNum(k))
    PROVE  StepOK
  <1>1. /\ ArrayInv' /\ fault = "none"
        /\ fault' # "none" => (A' = A /\ A.misfiled # {}) \/ NotAnIvalue \in IntKeys
        /\ \/ A' = A /\ out' = out
           \/ MapOf(A') = Restrict(MapOf(A), DOMAIN MapOf(A) \ {k}) /\ out' = <<"delete", k>>
    <2>1. CASE DeleteStr(k)
      BY <2>1, DeleteStrStep
    <2>2. CASE k \in IntKeys /\ DeleteNum(k)
      BY <2>2, DeleteNumStep
    <2> QED BY <2>1, <2>2
  <1>2. CASE A' = A /\ out' = out
    BY <1>1, <1>2, Mapped DEF StepOK
  <1>3. CASE MapOf(A') = Restrict(MapOf(A), DOMAIN MapOf(A) \ {k}) /\ out' = <<"delete", k>>
    <2>1. Map' = Restrict(Map, DOMAIN Map \ {k}) /\ Answer' = <<"delete", k>>
      BY <1>3, Mapped
    <2>2. Abstract!Delete(k)
      BY <2>1 DEF Abstract!Delete, Abstract!Restrict, Restrict
    <2> QED BY <1>1, <2>2 DEF StepOK, Abstract!Next
  <1> QED BY <1>1, <1>2, <1>3

\* split(s, A),
LEMMA LoadShown ==
    ASSUME ArrayInv, NEW n \in 0..MaxSplit, NEW pieces \in [1..n -> Val], Load(pieces)
    PROVE  StepOK
  <1>1. ArrayInv' /\ fault = "none" /\ fault' = "none" /\ MapOf(A') = pieces /\ out' = <<"load", n>>
    BY LoadStep
  <1>2. Map' = pieces /\ Answer' = <<"load", n>>
    BY <1>1, Mapped
  <1>3. Len(pieces) = n
    <2>1. n \in Nat
      BY HashArrayAssumption
    <2> QED BY <2>1
  <1>4. Abstract!Load(pieces)
    BY <1>2, <1>3 DEF Abstract!Load
  <1> QED BY <1>1, <1>4 DEF StepOK, Abstract!Next

\* delete A,
LEMMA ClearShown == ASSUME ArrayInv, Clear PROVE StepOK
  <1>1. ArrayInv' /\ fault = "none" /\ fault' = "none" /\ MapOf(A') = <<>> /\ out' = <<"clear">>
    BY ClearStep
  <1>2. Map' = <<>> /\ Answer' = <<"clear">>
    BY <1>1, Mapped
  <1> QED BY <1>1, <1>2 DEF StepOK, Abstract!Next, Abstract!Clear

\* for (k in A).
LEMMA LoopShown == ASSUME ArrayInv, Loop PROVE StepOK
  <1>1. /\ ArrayInv' /\ fault = "none" /\ fault' = "none" /\ MapOf(A') = MapOf(A)
        /\ out' = <<"loop", out'[2]>> /\ ToSet(out'[2]) = DOMAIN MapOf(A)
    BY LoopStep
  <1>2. Map' = Map /\ Answer' = <<"loop", DOMAIN Map>>
    BY <1>1, Mapped
  <1> QED BY <1>1, <1>2 DEF StepOK, Abstract!Next, Abstract!Loop

\* So does every step.
LEMMA NextShown == ASSUME ArrayInv, Next PROVE StepOK
  <1>1. ASSUME NEW k \in Keys, Refer(k, FALSE) \/ Member(k, FALSE) \/ DeleteStr(k)
        PROVE  StepOK
    BY <1>1, ReferShown, MemberShown, DeleteShown
  <1>2. ASSUME NEW k \in Keys, NEW v \in Val \ {Uninit}, Assign(k, FALSE, v)
        PROVE  StepOK
    BY <1>2, AssignShown
  <1>3. ASSUME NEW k \in IntKeys, Refer(k, TRUE) \/ Member(k, TRUE) \/ DeleteNum(k)
        PROVE  StepOK
    <2>1. k \in Keys
      BY KeyTypes
    <2> QED BY <1>3, <2>1, ReferShown, MemberShown, DeleteShown
  <1>4. ASSUME NEW k \in IntKeys, NEW v \in Val \ {Uninit}, Assign(k, TRUE, v)
        PROVE  StepOK
    <2>1. k \in Keys
      BY KeyTypes
    <2> QED BY <1>4, <2>1, AssignShown
  <1>5. ASSUME NEW n \in 0..MaxSplit, NEW pieces \in [1..n -> Val \ {Uninit}], Load(pieces)
        PROVE  StepOK
    <2>1. pieces \in [1..n -> Val]
      OBVIOUS
    <2> QED BY <1>5, <2>1, LoadShown
  <1> QED BY <1>1, <1>2, <1>3, <1>4, <1>5, ClearShown, LoopShown DEF Next

\* Every state is one the invariant describes.
THEOREM ArrayInvariant == Spec => []ArrayInv
  <1>1. Init => ArrayInv
    BY InitArray
  <1>2. ArrayInv /\ [Next]_vars => ArrayInv'
    <2>1. ASSUME ArrayInv, Next PROVE ArrayInv'
      BY <2>1, NextShown DEF StepOK
    <2>2. ASSUME ArrayInv, UNCHANGED vars PROVE ArrayInv'
      BY <2>2 DEF ArrayInv, vars
    <2> QED BY <2>1, <2>2
  <1> QED BY <1>1, <1>2, PTL DEF Spec

\* The lists of a table are no longer than it has nodes.
LEMMA ShortLists ==
    ASSUME NEW a, Sized(a), NEW m \in Nat, NEW S, S \subseteq Live(a), NEW at, NEW lists, Filed(lists, m, S, at)
    PROVE  \A i \in 0..m : Len(lists[i]) <= a.size
  <1> SUFFICES ASSUME NEW i \in 0..m PROVE Len(lists[i]) <= a.size
    OBVIOUS
  <1> DEFINE l == lists[i]
  <1>1. l \in Seq(Keys) /\ NoTwice(l) /\ ToSet(l) \subseteq Live(a)
    BY DEF Filed, ListsOf
  <1>2. IsFiniteSet(Live(a)) /\ a.size = Cardinality(Live(a))
    BY DEF Sized
  <1> HIDE DEF l
  <1>3. Len(l) <= Cardinality(Live(a))
    BY <1>1, <1>2, ShortList
  <1> QED BY <1>2, <1>3 DEF l

\* The lists by string of a table that has them, as the program counts on them.
LEMMA StringLists ==
    ASSUME A \in ArrT, A.type \in Tables, Sized(A), ByString(A, Live(A))
    PROVE  StringListsComplete
  <1>1. CASE "STR" \notin A.type
    BY <1>1 DEF StringListsComplete, ByString
  <1>2. CASE "STR" \in A.type
    <2> DEFINE m == A.hmask
               S == Live(A)
               l == A.slist
               at == InBuckets(S, Hash, m)
    <2>1. m \in Nat /\ A.size \in Nat /\ A.svals = S /\ Filed(l, m, S, at) /\ S \subseteq Keys
      BY <1>2, LiveType DEF ArrT, ByString
    <2>2. \A i \in 0..m : Len(l[i]) <= A.size
      <3>1. S \subseteq Live(A)
        OBVIOUS
      <3> HIDE DEF m, S, l
      <3> QED BY <2>1, <3>1, ShortLists
    <2>3. DOMAIN l = 0..m
      BY <2>1 DEF Filed, ListsOf
    <2>4. \A k \in Keys : Count(l, k) = IF k \in S THEN 1 ELSE 0
      <3> HIDE DEF m, S, l, at
      <3> QED BY <2>1, <2>2, CountIs
    <2>5. \A k \in S : Contains(l[Bucket(Hash[k], m)], k)
      <3> SUFFICES ASSUME NEW k \in S PROVE Contains(l[Bucket(Hash[k], m)], k)
        OBVIOUS
      <3>1. at[k] = Bucket(Hash[k], m)
        BY DEF InBuckets
      <3>2. Bucket(Hash[k], m) \in 0..m
        BY <2>1, KeyTypes, BucketType
      <3> HIDE DEF m, S, l, at
      <3> QED BY <2>1, <3>1, <3>2, FiledOn
    <2> QED BY <1>2, <2>1, <2>2, <2>3, <2>4, <2>5 DEF StringListsComplete
  <1> QED BY <1>1, <1>2

\* And those by integer.
LEMMA IntLists ==
    ASSUME A \in ArrT, A.type \in Tables, Sized(A), ByInteger(A, Live(A))
    PROVE  IntListsComplete
  <1> DEFINE m == A.hmask
             S == A.ivals
             l == A.ilist
  <1>1. PICK at : Filed(l, m, S, at) /\ InPlace(A, at)
    BY DEF ByInteger
  <1>2. m \in Nat /\ A.size \in Nat /\ S \subseteq Live(A) /\ S \subseteq IntKeys
    BY DEF ArrT, ByInteger
  <1>3. DOMAIN l = 0..m
    BY <1>1 DEF Filed, ListsOf
  <1>4. "STR" \notin A.type => S = Live(A)
    BY DEF ByInteger
  <1>5. \A k \in S \ A.misfiled : at[k] = Bucket(k, m)
    BY <1>1 DEF InPlace
  <1>6. \A i \in 0..m : Len(l[i]) <= A.size
    <2> HIDE DEF m, S, l
    <2> QED BY <1>1, <1>2, ShortLists
  <1>7. \A k \in Keys : Count(l, k) = IF k \in S THEN 1 ELSE 0
    <2> HIDE DEF m, S, l
    <2> QED BY <1>1, <1>2, <1>6, CountIs
  <1>8. \A k \in S \ A.misfiled : Contains(l[Bucket(k, m)], k)
    <2> SUFFICES ASSUME NEW k \in S \ A.misfiled PROVE Contains(l[Bucket(k, m)], k)
      OBVIOUS
    <2>1. Bucket(k, m) \in 0..m
      BY <1>2, KeyTypes, BucketType
    <2>2. at[k] = Bucket(k, m) /\ k \in S
      BY <1>5
    <2> HIDE DEF m, S, l
    <2> QED BY <1>1, <1>2, <2>1, <2>2, FiledOn
  <1> QED BY <1>3, <1>4, <1>6, <1>7, <1>8 DEF IntListsComplete

\* The sizes of a table.
LEMMA TableLoad ==
    ASSUME A \in ArrT, A.type \in Tables, Sized(A)
    PROVE  LoadFactor
  <1>1. PICK i \in Nat : A.hmask = doubled[i]
    BY DEF Sized
  <1>2. i \in 0..A.hmask
    BY <1>1, Doubled
  <1>3. A.type # AY_SPLIT
    BY DEF Tables, AY_SPLIT
  <1> QED BY <1>1, <1>2, <1>3 DEF Sized, LoadFactor

\* The invariant implies what the runs check.
LEMMA InvIsConsistent == ArrayInv => TableConsistent
  <1> SUFFICES ASSUME ArrayInv PROVE TableConsistent
    OBVIOUS
  <1>1. fault \in {"none", "shared", "crash", "dangling"}
    BY DEF ArrayInv
  <1>2. ASSUME A \in ArrT, DOMAIN A.slist = DOMAIN A.ilist,
               \A i \in DOMAIN A.slist : A.slist[i] \in Seq(Keys) /\ A.ilist[i] \in Seq(Keys)
        PROVE  TypeOK
    BY <1>1, <1>2, LiveType DEF TypeOK, ArrT
  <1>3. ASSUME A \in ArrT, A.slist \in ListsOf(A.hmask), A.ilist \in ListsOf(A.hmask) PROVE TypeOK
    BY <1>2, <1>3 DEF ListsOf
  <1>4. CASE A = NullArray
    <2>1. TypeOK
      BY <1>2, <1>4, NullFields
    <2>2. ~InTable /\ A.type # AY_SPLIT /\ "STR" \notin A.type
      BY <1>4, NullFields DEF InTable, AY_SPLIT
    <2>3. LoadFactor
      BY <1>4, <2>2, NullFields DEF LoadFactor
    <2> QED BY <1>4, <2>1, <2>2, <2>3, NullFields DEF TableConsistent, StringListsComplete, IntListsComplete
  <1>5. CASE SplitOK(A)
    <2>1. /\ A \in ArrT /\ A.type = {"SPLIT"} /\ A.size = Len(A.cells) /\ A.slist = <<>> /\ A.ilist = <<>>
          /\ A.svals = {} /\ Len(A.cells) <= A.limit
      BY <1>5 DEF SplitOK, NullArray, AY_SPLIT
    <2>2. TypeOK
      BY <1>2, <2>1
    <2>3. ~InTable /\ "STR" \notin A.type
      BY <2>1 DEF InTable
    <2>4. LoadFactor
      BY <2>1, <2>3 DEF LoadFactor
    <2> QED BY <2>1, <2>2, <2>3, <2>4 DEF TableConsistent, StringListsComplete, IntListsComplete
  <1>6. CASE fault # "dangling" /\ TableOK(A, Live(A))
    <2>1. TypeOK
      BY <1>3, <1>6, TableLists DEF TableOK
    <2> QED BY <1>6, <2>1, TableLoad, StringLists, IntLists DEF TableConsistent, TableOK
  <1>7. CASE fault = "dangling" /\ Dangling(A)
    <2>1. A.slist \in ListsOf(A.hmask)
      BY <1>7 DEF Dangling, ByString, Filed
    <2>2. TypeOK
      BY <1>3, <1>7, <2>1 DEF Dangling
    <2>3. IntListsComplete
      BY <1>7 DEF IntListsComplete
    <2> QED BY <1>7, <2>2, <2>3, TableLoad, StringLists DEF TableConsistent, Dangling
  <1> QED BY <1>4, <1>5, <1>6, <1>7 DEF ArrayInv, ArrOK

\* In every state the dual table is what array.c says it is.
THEOREM TableIsConsistent == Spec => []TableConsistent
  BY ArrayInvariant, InvIsConsistent, PTL

\* Where no key is the integer that stands for no integer, nothing but a node
\* misfiled by a lookup that doubled the table raises a fault.
THEOREM FaultsExplained ==
    ASSUME NotAnIvalue \notin IntKeys
    PROVE  Spec => []FaultsComeFromMisfiling
  <1>1. Init => FaultsComeFromMisfiling
    BY DEF Init, FaultsComeFromMisfiling
  <1>2. ArrayInv /\ FaultsComeFromMisfiling /\ [Next]_vars => FaultsComeFromMisfiling'
    <2>1. ASSUME ArrayInv, Next PROVE FaultsComeFromMisfiling'
      BY <2>1, NextShown DEF StepOK, FaultsComeFromMisfiling
    <2>2. ASSUME FaultsComeFromMisfiling, UNCHANGED vars PROVE FaultsComeFromMisfiling'
      BY <2>2 DEF FaultsComeFromMisfiling, vars
    <2> QED BY <2>1, <2>2
  <1> QED BY <1>1, <1>2, ArrayInvariant, PTL DEF Spec

\* The dual table implements the map of an AWK array: every operation answers as
\* the map does and leaves what the map is left.
THEOREM ArrayRefines == Spec => ImplementsAwkArray
  <1>1. Init => Abstract!Init
    BY NullFields DEF Init, Abstract!Init, Map, Answer, AY_SPLIT
  <1>2. ArrayInv /\ [Next]_vars => [Abstract!Next]_(Abstract!vars)
    <2>1. ASSUME ArrayInv, Next PROVE [Abstract!Next]_(Abstract!vars)
      BY <2>1, NextShown DEF StepOK, Abstract!vars
    <2>2. ASSUME UNCHANGED vars PROVE Map' = Map /\ Answer' = Answer
      BY <2>2, Mapped DEF vars
    <2> QED BY <2>1, <2>2 DEF Abstract!vars
  <1> QED BY <1>1, <1>2, ArrayInvariant, PTL DEF Spec, ImplementsAwkArray, Abstract!Spec

-----------------------------------------------------------------------------
(* What doubling does to the order of the lists.                           *)

\* The lists of a table that was doubled, with node k perhaps in front of one.
SpreadWith(new, lists, h, m, k) ==
    /\ DOMAIN new = 0..2 * m + 1
    /\ \A i \in 0..2 * m + 1 : new[i] \in {Spread(lists, h, m)[i], <<k>> \o Spread(lists, h, m)[i]}

Grown(b, a, k) == /\ k \notin Live(a) /\ b.hmask = 2 * a.hmask + 1
                  /\ SpreadWith(b.slist, a.slist, Hash, a.hmask, k)
                  /\ SpreadWith(b.ilist, a.ilist, Ival, a.hmask, k)

\* The other nodes of a list with k in front are in the order of the list.
LEMMA BehindFront ==
    ASSUME NEW l \in Seq(Keys), NEW k \in Keys, NEW j, NEW x, j # k, Before(<<k>> \o l, j, x)
    PROVE  Before(l, j, x)
  <1> DEFINE t == <<k>> \o l
  <1>1. Len(t) = Len(l) + 1 /\ t[1] = k /\ \A i \in 2..Len(t) : t[i] = l[i - 1]
    OBVIOUS
  <1>2. PICK p \in 1..Len(t), q \in 1..Len(t) : p < q /\ t[p] = j /\ t[q] = x
    BY DEF Before
  <1> HIDE DEF t
  <1>3. p # 1
    BY <1>1, <1>2
  <1>4. p - 1 \in 1..Len(l) /\ q - 1 \in 1..Len(l) /\ l[p - 1] = j /\ l[q - 1] = x /\ p - 1 < q - 1
    BY <1>1, <1>2, <1>3
  <1> QED BY <1>4 DEF Before

\* What the lists hold of the nodes there were is in the order it was in.
LEMMA SpreadOrder ==
    ASSUME NEW m \in Nat, NEW lists \in ListsOf(m), NEW h, NEW k \in Keys, NEW new,
           SpreadWith(new, lists, h, m, k), NEW i \in 0..2 * m + 1, NEW j, NEW x, j # k, Before(new[i], j, x)
    PROVE  Before(lists[i % (m + 1)], j, x)
  <1> DEFINE s == Spread(lists, h, m)[i]
  <1>1. /\ Spread(lists, h, m) \in ListsOf(2 * m + 1)
        /\ Before(s, j, x) => Before(lists[i % (m + 1)], j, x)
    BY SpreadLists
  <1>2. s \in Seq(Keys)
    BY <1>1 DEF ListsOf
  <1>3. new[i] = s \/ new[i] = <<k>> \o s
    BY DEF SpreadWith
  <1>4. Before(s, j, x)
    <2> HIDE DEF s
    <2>1. CASE new[i] = s
      BY <2>1
    <2>2. CASE new[i] = <<k>> \o s
      BY <2>2, <1>2, BehindFront
    <2> QED BY <1>3, <2>1, <2>2
  <1> QED BY <1>1, <1>4

\* Both kinds of list of a table that has grown.
LEMMA GrownOrder ==
    ASSUME NEW a, TableOK(a, Live(a)), NEW b, NEW k \in Keys, Grown(b, a, k)
    PROVE  \A i \in DOMAIN b.slist : \A j, x \in Live(a) :
              /\ Before(b.slist[i], j, x) => Before(a.slist[i % (a.hmask + 1)], j, x)
              /\ Before(b.ilist[i], j, x) => Before(a.ilist[i % (a.hmask + 1)], j, x)
  <1> DEFINE m == a.hmask
             sl == a.slist
             il == a.ilist
             bs == b.slist
             bi == b.ilist
  <1>1. m \in Nat /\ sl \in ListsOf(m) /\ il \in ListsOf(m)
    BY TableLists
  <1>2. /\ SpreadWith(bs, sl, Hash, m, k) /\ SpreadWith(bi, il, Ival, m, k)
        /\ DOMAIN bs = 0..2 * m + 1 /\ \A j \in Live(a) : j # k
    BY DEF Grown, SpreadWith
  <1> HIDE DEF m, sl, il, bs, bi
  <1>3. ASSUME NEW i \in 0..2 * m + 1, NEW j \in Live(a), NEW x \in Live(a)
        PROVE  /\ Before(bs[i], j, x) => Before(sl[i % (m + 1)], j, x)
               /\ Before(bi[i], j, x) => Before(il[i % (m + 1)], j, x)
    BY <1>1, <1>2, <1>3, SpreadOrder
  <1> QED BY <1>2, <1>3 DEF m, sl, il, bs, bi

\* A fresh node that has the table doubled leaves the lists spread.
LEMMA NewNodeGrows ==
    ASSUME NEW a, TableOK(a, Live(a)), NEW k \in Keys, k \notin Live(a)
    PROVE  LET n == NewNode(a, k)
           IN  /\ n \in ArrT /\ n.type = a.type
               /\ n.hmask # a.hmask => /\ n.hmask = 2 * a.hmask + 1
                                       /\ n.slist = Spread(a.slist, Hash, a.hmask)
                                       /\ n.ilist = Spread(a.ilist, Ival, a.hmask)
  <1> DEFINE n == NewNode(a, k)
             c == Counted(a, k)
             d == double_the_hash_table(c)
  <1>1. n \in ArrT /\ n.type = a.type
    BY NewNodeOK DEF TableOK
  <1>2. a \in ArrT
    BY DEF TableOK
  <1>3. c \in ArrT /\ c.hmask = a.hmask /\ c.slist = a.slist /\ c.ilist = a.ilist
    BY <1>2, CountedFields
  <1>4. n = IF c.size > c.limit THEN d ELSE c
    BY DEF NewNode, DoubleIfOver
  <1> HIDE DEF c, n
  <1>5. /\ d.hmask = 2 * a.hmask + 1
        /\ d.slist = Spread(a.slist, Hash, a.hmask) /\ d.ilist = Spread(a.ilist, Ival, a.hmask)
    BY <1>3 DEF double_the_hash_table, ArrT
  <1> HIDE DEF d
  <1>6. n = c => n.hmask = a.hmask
    BY <1>3
  <1>7. n = c \/ n = d
    BY <1>4
  <1> QED BY <1>1, <1>5, <1>6, <1>7 DEF n

\* A node goes to the front of list i.
Put(lists, i, k) == [lists EXCEPT ![i] = <<k>> \o @]

\* Filing the node in front of one list keeps the others.
LEMMA PutInFront ==
    ASSUME NEW m \in Nat, NEW lists, NEW h, NEW s, s = Spread(lists, h, m), NEW i, NEW k
    PROVE  SpreadWith(s, lists, h, m, k) /\ SpreadWith(Put(s, i, k), lists, h, m, k)
  <1> DEFINE t == Put(s, i, k)
  <1>1. DOMAIN s = 0..2 * m + 1
    BY DEF Spread
  <1>2. DOMAIN t = 0..2 * m + 1 /\ \A j \in 0..2 * m + 1 : t[j] = IF j = i THEN <<k>> \o s[j] ELSE s[j]
    BY <1>1 DEF Put
  <1> HIDE DEF t
  <1> QED BY <1>1, <1>2 DEF SpreadWith, t

\* What a lookup by string returns when it doubled the table.
GrownBySval(r, a, k, create) ==
    /\ r.hit = TRUE /\ create = TRUE /\ k \notin Live(a) /\ r.arr \in ArrT
    /\ r.arr.hmask = 2 * a.hmask + 1 /\ SpreadWith(r.arr.slist, a.slist, Hash, a.hmask, k)
    /\ r.arr.ilist = Spread(a.ilist, Ival, a.hmask)

\* A lookup by string of a table that has its strings doubles it by creating a node.
LEMMA SvalGrows ==
    ASSUME NEW a, TableOK(a, Live(a)), "STR" \in a.type, NEW k \in Keys, NEW create \in BOOLEAN,
           find_by_sval(a, k, create).arr.hmask # a.hmask
    PROVE  GrownBySval(find_by_sval(a, k, create), a, k, create)
  <1> DEFINE r == find_by_sval(a, k, create)
             b == r.arr
             m == a.hmask
             i == Bucket(Hash[k], m)
             n == NewNode(a, k)
             o == OnSlist(n, k)
             x == SearchSlist(a, k, create)
  <1>1. r = x
    BY DEF find_by_sval
  <1>2. /\ k \in Live(a) \/ ~create => x.arr.hmask = a.hmask
        /\ x.hit = (k \in Live(a) \/ create) /\ TableOK(x.arr, Live(x.arr))
    BY SearchSlistOK
  <1>3. x = IF Contains(a.slist[i], k) THEN Hit([a EXCEPT !.slist[i] = ToFront(@, k)])
            ELSE IF create THEN Hit(o) ELSE Miss(a)
    BY DEF SearchSlist
  <1>4. a \in ArrT /\ m \in Nat
    BY DEF TableOK, ArrT
  <1>5. [a EXCEPT !.slist[i] = ToFront(@, k)].hmask = m
    BY <1>4 DEF ArrT
  <1> DEFINE y == Hit([a EXCEPT !.slist[i] = ToFront(@, k)])
  <1>6. y.arr.hmask = m
    BY <1>5 DEF Hit
  <1> HIDE DEF x, o, n, r, i, y
  <1>7. create /\ k \notin Live(a) /\ x.hit = TRUE /\ b \in ArrT
    BY <1>1, <1>2 DEF TableOK, r
  <1>8. x = Hit(o)
    <2>1. x # y
      BY <1>1, <1>6 DEF r
    <2> QED BY <1>3, <1>7, <2>1 DEF y
  <1>9. b = o
    BY <1>1, <1>8 DEF Hit
  <1>10. /\ n \in ArrT
         /\ n.hmask # m => /\ n.hmask = 2 * m + 1
                           /\ n.slist = Spread(a.slist, Hash, m)
                           /\ n.ilist = Spread(a.ilist, Ival, m)
    BY <1>7, NewNodeGrows DEF n
  <1>11. o.hmask = n.hmask /\ o.ilist = n.ilist /\ o.slist = Put(n.slist, Bucket(Hash[k], n.hmask), k)
    BY <1>10 DEF OnSlist, ArrT, Put, o
  <1>12. n.hmask # m
    BY <1>9, <1>11 DEF r
  <1>13. SpreadWith(o.slist, a.slist, Hash, m, k)
    BY <1>4, <1>10, <1>11, <1>12, PutInFront
  <1> QED BY <1>1, <1>7, <1>9, <1>10, <1>11, <1>12, <1>13 DEF r, GrownBySval

\* A lookup by integer: only one that creates a node doubles the table.
LEMMA IvalGrows ==
    ASSUME NEW a, TableOK(a, Live(a)), NEW k \in IntKeys, NEW create \in BOOLEAN,
           find_by_ival(a, k, create).arr.hmask # a.hmask
    PROVE  create /\ Grown(find_by_ival(a, k, create).arr, a, k)
  <1> DEFINE r == find_by_ival(a, k, create)
             m == a.hmask
             l == a.ilist
             indx == Bucket(k, m)
             c == find_by_sval(a, k, create)
             n == NewNode(a, k)
             f == [a EXCEPT !.ilist[indx] = ToFront(@, k)]
  <1>1. a \in ArrT /\ m \in Nat /\ k \in Keys /\ k \in Int
    BY KeyTypes DEF TableOK, ArrT
  <1>2. r = IF Contains(l[indx], k) THEN Hit(f)
            ELSE IF "STR" \in a.type THEN FileByIval(c, indx, k)
            ELSE IF create THEN FileNew(n, k)
            ELSE Miss(a)
    BY DEF find_by_ival
  <1>3. f.hmask = m
    BY <1>1 DEF ArrT
  <1> HIDE DEF f, r, c, n
  <1>4. CASE Contains(l[indx], k)
    <2>1. r.arr = f
      BY <1>2, <1>4 DEF Hit
    <2> QED BY <1>3, <2>1 DEF r
  <1>5. CASE ~Contains(l[indx], k) /\ "STR" \in a.type
    <2> DEFINE b == c.arr
               o == OnIlist(b, indx, k)
    <2>1. r = FileByIval(c, indx, k)
      BY <1>2, <1>5
    <2>2. r.arr = IF c.hit THEN o ELSE b
      BY <2>1 DEF FileByIval
    <2>3. b \in ArrT
      BY <1>1, <1>5, FindBySvalOK DEF c, ArrOK, TableOK
    <2>4. o.hmask = b.hmask /\ o.slist = b.slist /\ o.ilist = Put(b.ilist, indx, k)
      BY <2>3 DEF OnIlist, ArrT, Put
    <2> HIDE DEF o, b
    <2>5. b.hmask # m
      BY <2>2, <2>4 DEF r
    <2>6. /\ c.hit = TRUE /\ create /\ k \notin Live(a)
          /\ b.hmask = 2 * m + 1 /\ SpreadWith(b.slist, a.slist, Hash, m, k)
          /\ b.ilist = Spread(a.ilist, Ival, m)
      <3>1. GrownBySval(c, a, k, create)
        BY <1>1, <1>5, <2>5, SvalGrows DEF b, c
      <3> QED BY <3>1 DEF GrownBySval, b
    <2>7. SpreadWith(o.ilist, a.ilist, Ival, m, k)
      BY <1>1, <2>4, <2>6, PutInFront
    <2> QED BY <2>2, <2>4, <2>6, <2>7 DEF Grown, r
  <1>6. CASE ~Contains(l[indx], k) /\ "STR" \notin a.type
    <2>1. create
      <3>1. ~create => r = Miss(a)
        BY <1>2, <1>6
      <3>2. Miss(a).arr.hmask = m
        BY DEF Miss
      <3> QED BY <3>1, <3>2 DEF r
    <2>2. k \notin Live(a)
      <3>1. PICK at : Filed(l, m, a.ivals, at) /\ InPlace(a, at)
        BY DEF TableOK, ByInteger
      <3>2. a.ivals = Live(a) /\ a.misfiled = {}
        BY <1>6 DEF TableOK, ByInteger
      <3>3. indx \in 0..m
        BY <1>1, BucketType
      <3>4. k \in Live(a) => at[k] = indx
        BY <3>1, <3>2 DEF InPlace
      <3> DEFINE T == a.ivals
      <3>5. Filed(l, m, T, at) /\ ~Contains(l[indx], k)
        BY <3>1, <1>6
      <3> HIDE DEF T, l, indx, m
      <3>6. ~(k \in T /\ at[k] = indx)
        BY <1>1, <3>3, <3>5, FiledOn
      <3> QED BY <3>2, <3>4, <3>6 DEF T
    <2>3. r = FileNew(n, k)
      BY <1>2, <1>6, <2>1
    <2> DEFINE i == Bucket(k, n.hmask)
               o == OnIlist(n, i, k)
    <2>4. r.arr = o
      BY <2>3 DEF FileNew, Hit
    <2>5. /\ n \in ArrT
          /\ n.hmask # m => /\ n.hmask = 2 * m + 1
                            /\ n.slist = Spread(a.slist, Hash, m)
                            /\ n.ilist = Spread(a.ilist, Ival, m)
      BY <1>1, <2>2, NewNodeGrows DEF n
    <2>6. o.hmask = n.hmask /\ o.slist = n.slist /\ o.ilist = Put(n.ilist, i, k)
      BY <2>5 DEF OnIlist, ArrT, Put
    <2> HIDE DEF o, i
    <2>7. n.hmask # m
      BY <2>4, <2>6 DEF r
    <2>8. SpreadWith(o.slist, a.slist, Hash, m, k) /\ SpreadWith(o.ilist, a.ilist, Ival, m, k)
      BY <1>1, <2>5, <2>6, <2>7, PutInFront
    <2> QED BY <2>1, <2>2, <2>4, <2>5, <2>6, <2>7, <2>8 DEF Grown, r
  <1> QED BY <1>4, <1>5, <1>6

\* Every lookup of a table that keeps its flags.
LEMMA LookupGrows ==
    ASSUME NEW a, TableOK(a, Live(a)), NEW k \in Keys, NEW num \in BOOLEAN, num => k \in IntKeys,
           NEW create \in BOOLEAN, NEW b, b = array_find(a, k, num, create).arr,
           b.type = a.type, b.hmask # a.hmask
    PROVE  create /\ Grown(b, a, k)
  <1> DEFINE r == array_find(a, k, num, create)
             s == find_by_sval(a, k, create)
             t == find_by_ival(a, k, create)
  <1>1. a.type # AY_SPLIT /\ a.type # AY_NULL
    BY TableMap
  <1>2. r = IF a.size = 0 /\ ~create THEN Miss(a) ELSE IF ~num THEN s ELSE t
    BY <1>1 DEF array_find
  <1>3. b = r.arr
    OBVIOUS
  <1> HIDE DEF r, s, t
  <1>4. ~(a.size = 0 /\ ~create)
    <2>1. Miss(a).arr = a
      BY DEF Miss
    <2> QED BY <1>2, <1>3, <2>1
  <1>5. CASE num
    <2>1. b = t.arr
      BY <1>2, <1>3, <1>4, <1>5
    <2>2. t.arr.hmask # a.hmask
      BY <2>1
    <2>3. create /\ Grown(t.arr, a, k)
      <3>1. k \in IntKeys /\ find_by_ival(a, k, create).arr.hmask # a.hmask
        BY <1>5, <2>2 DEF t
      <3>2. create /\ Grown(find_by_ival(a, k, create).arr, a, k)
        BY <3>1, IvalGrows
      <3> QED BY <3>2 DEF t
    <2> QED BY <2>1, <2>3
  <1>6. CASE ~num
    <2>1. b = s.arr
      BY <1>2, <1>3, <1>4, <1>6
    <2>2. "STR" \in a.type
      <3>1. ArrOK(a)
        BY DEF ArrOK
      <3>2. "STR" \in find_by_sval(a, k, create).arr.type
        BY <3>1, FindBySvalOK
      <3> QED BY <2>1, <3>2 DEF s
    <2>3. /\ create /\ k \notin Live(a) /\ b.hmask = 2 * a.hmask + 1
          /\ SpreadWith(b.slist, a.slist, Hash, a.hmask, k) /\ b.ilist = Spread(a.ilist, Ival, a.hmask)
      <3>1. GrownBySval(s, a, k, create)
        BY <2>1, <2>2, SvalGrows DEF s
      <3> QED BY <2>1, <3>1 DEF GrownBySval
    <2>4. a.hmask \in Nat
      BY DEF TableOK, ArrT
    <2>5. SpreadWith(b.ilist, a.ilist, Ival, a.hmask, k)
      BY <2>3, <2>4, PutInFront
    <2> QED BY <2>3, <2>5 DEF Grown
  <1> QED BY <1>5, <1>6

\* What the operations do to an array after the lookup leaves its flags and its
\* mask alone, or takes the table.
Masked(b, a) == b = NullArray \/ (b.type = a.type /\ b.hmask = a.hmask)
Fields(a) == {"type", "hmask", "slist", "ilist"} \subseteq DOMAIN a

\* Assigning a cell of a table leaves the lists alone.
LEMMA SetCellMask ==
    ASSUME NEW a \in ArrT, a.type # AY_SPLIT, NEW k, NEW v
    PROVE  LET b == SetCell(a, k, v)
           IN  b.type = a.type /\ b.hmask = a.hmask /\ b.slist = a.slist /\ b.ilist = a.ilist
  BY DEF SetCell, ArrT

\* Taking a node off its lists and out of the table.
LEMMA DeleteMask ==
    ASSUME NEW a \in ArrT, NEW k
    PROVE  /\ Masked(Unlink(OffItsSlist(OffIlist(a, k), k), k), a)
           /\ Masked(Unlink(OffItsIlist(OffSlist(a, k), k), k), a)
  <1>1. Fields(a)
    BY DEF ArrT, Fields
  <1>2. ASSUME NEW c, Fields(c)
        PROVE  /\ Fields(OffIlist(c, k)) /\ OffIlist(c, k).type = c.type /\ OffIlist(c, k).hmask = c.hmask
               /\ Fields(OffSlist(c, k)) /\ OffSlist(c, k).type = c.type /\ OffSlist(c, k).hmask = c.hmask
               /\ Fields(OffItsIlist(c, k)) /\ OffItsIlist(c, k).type = c.type /\ OffItsIlist(c, k).hmask = c.hmask
               /\ Fields(OffItsSlist(c, k)) /\ OffItsSlist(c, k).type = c.type /\ OffItsSlist(c, k).hmask = c.hmask
               /\ Masked(Unlink(c, k), c)
    <2>1. Fields(OffIlist(c, k)) /\ OffIlist(c, k).type = c.type /\ OffIlist(c, k).hmask = c.hmask
      BY <1>2 DEF OffIlist, Fields
    <2>2. Fields(OffSlist(c, k)) /\ OffSlist(c, k).type = c.type /\ OffSlist(c, k).hmask = c.hmask
      BY <1>2 DEF OffSlist, Fields
    <2>3. Fields(OffItsIlist(c, k)) /\ OffItsIlist(c, k).type = c.type /\ OffItsIlist(c, k).hmask = c.hmask
      BY <1>2 DEF OffItsIlist, Fields
    <2>4. Fields(OffItsSlist(c, k)) /\ OffItsSlist(c, k).type = c.type /\ OffItsSlist(c, k).hmask = c.hmask
      BY <1>2 DEF OffItsSlist, Fields
    <2>5. Masked(Unlink(c, k), c)
      <3> DEFINE u == [c EXCEPT !.size = @ - 1, !.val = Restrict(@, DOMAIN @ \ {k}),
                                !.svals = @ \ {k}, !.ivals = @ \ {k}, !.misfiled = @ \ {k}]
      <3>1. Unlink(c, k) = IF c.size = 1 THEN NullArray ELSE u
        BY DEF Unlink
      <3>2. u.type = c.type /\ u.hmask = c.hmask
        BY <1>2 DEF Fields
      <3> HIDE DEF u
      <3> QED BY <3>1, <3>2 DEF Masked
    <2> QED BY <2>1, <2>2, <2>3, <2>4, <2>5
  <1> DEFINE n == OffItsSlist(OffIlist(a, k), k)
             s == OffItsIlist(OffSlist(a, k), k)
  <1>3. Fields(n) /\ n.type = a.type /\ n.hmask = a.hmask /\ Fields(s) /\ s.type = a.type /\ s.hmask = a.hmask
    BY <1>1, <1>2
  <1> HIDE DEF n, s
  <1>4. Masked(Unlink(n, k), n) /\ Masked(Unlink(s, k), s)
    BY <1>2, <1>3
  <1>5. Masked(Unlink(n, k), a) /\ Masked(Unlink(s, k), a)
    BY <1>3, <1>4 DEF Masked
  <1> QED BY <1>5 DEF n, s

\* The table was doubled and is keyed as it was.
Doubles == A.type = A'.type /\ A'.hmask > A.hmask /\ InTable

\* The array has a table when an operation doubles it.
LEMMA TableBefore ==
    ASSUME ArrayInv, Running, Doubles
    PROVE  /\ TableOK(A, Live(A)) /\ A \in ArrT /\ A.hmask \in Nat /\ A'.hmask # A.hmask
           /\ A.type # AY_SPLIT /\ A.type # AY_NULL
           /\ \A k : ~Masked(A', A)
  <1>1. ArrOK(A)
    BY DEF ArrayInv, Running
  <1>2. A.type # AY_SPLIT /\ A.type # AY_NULL
    BY DEF Doubles, InTable, AY_SPLIT, AY_NULL
  <1>3. TableOK(A, Live(A)) /\ A \in ArrT
    BY <1>1, <1>2, Kinds
  <1>4. A.hmask \in Nat
    BY <1>3 DEF ArrT
  <1>5. A'.hmask # A.hmask
    BY <1>4 DEF Doubles
  <1>6. A'.hmask # 0
    BY <1>4 DEF Doubles
  <1> QED BY <1>2, <1>3, <1>4, <1>5, <1>6, NullFields DEF Masked

\* A reference or an assignment doubles by the node it creates.
LEMMA CreateDoubles ==
    ASSUME ArrayInv, Doubles, NEW k \in Keys, NEW num \in BOOLEAN, num => k \in IntKeys,
           Refer(k, num) \/ \E v \in Val : Assign(k, num, v)
    PROVE  Grown(A', A, k)
  <1> DEFINE r == array_find(A, k, num, TRUE)
             b == r.arr
  <1>1. fault = "none" /\ Running
    BY DEF Refer, Assign, Running
  <1>2. TableOK(A, Live(A)) /\ A.hmask \in Nat /\ A'.hmask # A.hmask /\ A.type # AY_SPLIT /\ ArrOK(A)
    BY <1>1, TableBefore DEF ArrOK
  <1>3. ~r.shared /\ (A' = b \/ \E v \in Val : A' = SetCell(b, k, v))
    BY <1>2 DEF Refer, Assign, Keep
  <1>4. ArrOK(b)
    BY <1>2, <1>3, ArrayFindOK
  <1>5. A'.type = A.type
    BY DEF Doubles
  <1> HIDE DEF b
  <1>6. b.type = A'.type /\ b.hmask = A'.hmask /\ b.slist = A'.slist /\ b.ilist = A'.ilist
    <2>1. CASE A' = b
      BY <2>1
    <2>2. CASE A' # b
      <3>1. PICK v \in Val : A' = SetCell(b, k, v)
        BY <1>3, <2>2
      <3>2. b \in ArrT
        BY <1>4, Kinds
      <3>3. b.type # AY_SPLIT
        <4>1. CASE b.type = AY_SPLIT
          <5>1. A'.type = b.type
            BY <3>1, <3>2, <4>1 DEF SetCell, ArrT
          <5> QED BY <1>2, <1>5, <4>1, <5>1
        <4> QED BY <4>1
      <3> QED BY <3>1, <3>2, <3>3, SetCellMask
    <2> QED BY <2>1, <2>2
  <1>7. Grown(b, A, k)
    <2>1. b.type = A.type /\ b.hmask # A.hmask
      BY <1>2, <1>5, <1>6
    <2> QED BY <1>2, <2>1, LookupGrows DEF b
  <1> QED BY <1>6, <1>7 DEF Grown

\* Neither a test of membership doubles a table nor a deletion.
LEMMA LookDoubles ==
    ASSUME ArrayInv, Doubles, NEW k \in Keys, NEW num \in BOOLEAN, num => k \in IntKeys,
           Member(k, num) \/ (num /\ DeleteNum(k)) \/ (~num /\ DeleteStr(k))
    PROVE  FALSE
  <1>1. fault = "none" /\ Running
    BY DEF Member, DeleteNum, DeleteStr, Running
  <1>2. /\ TableOK(A, Live(A)) /\ A.hmask \in Nat /\ A'.hmask # A.hmask /\ A.type # AY_SPLIT /\ A.type # AY_NULL
        /\ ~Masked(A', A) /\ A' # A /\ A'.type = A.type /\ ArrOK(A)
    BY <1>1, TableBefore DEF ArrOK, Doubles
  <1>3. CASE Member(k, num)
    <2> DEFINE b == array_find(A, k, num, FALSE).arr
    <2>1. A' = b
      BY <1>2, <1>3 DEF Member, Keep
    <2> QED BY <1>2, <2>1, LookupGrows
  <1>4. CASE num /\ DeleteNum(k)
    <2> DEFINE r == find_by_ival(A, k, FALSE)
               b == r.arr
    <2>1. A' = A \/ A' = b \/ (~r.shared /\ A' = Unlink(OffItsSlist(OffIlist(b, k), k), k))
      BY <1>2, <1>4 DEF DeleteNum, DeleteNothing, Keep
    <2>2. /\ IF r.shared THEN k \in A.misfiled /\ r.hit ELSE TableOK(b, Live(b))
          /\ b.hmask = A.hmask
      BY <1>2, <1>4, FindByIvalOK, IvalGrows
    <2> HIDE DEF b, r
    <2>3. A' # b
      BY <1>2, <2>2
    <2>4. Masked(A', b) /\ b.type = A.type
      <3>1. ~r.shared /\ A' = Unlink(OffItsSlist(OffIlist(b, k), k), k)
        BY <1>2, <2>1, <2>3
      <3>2. b \in ArrT
        BY <2>2, <3>1 DEF TableOK
      <3>3. Masked(A', b)
        BY <3>1, <3>2, DeleteMask
      <3> QED BY <1>2, <3>3, NullFields DEF Masked, AY_NULL
    <2> QED BY <1>2, <2>2, <2>4 DEF Masked
  <1>5. CASE ~num /\ DeleteStr(k)
    <2> DEFINE r == find_by_sval(A, k, FALSE)
               b == r.arr
    <2>1. A' = A \/ A' = b \/ A' = Unlink(OffItsIlist(OffSlist(b, k), k), k)
      BY <1>2, <1>5 DEF DeleteStr, DeleteNothing
    <2>2. TableOK(b, Live(b)) /\ "STR" \in b.type /\ ("STR" \in A.type => b.hmask = A.hmask)
      BY <1>2, FindBySvalOK
    <2> HIDE DEF b, r
    <2>3. b \in ArrT
      BY <2>2 DEF TableOK
    <2>4. Masked(A', b)
      BY <1>2, <2>1, <2>3, DeleteMask DEF Masked
    <2>5. A'.type = b.type
      BY <1>2, <2>4, NullFields DEF Masked, AY_NULL
    <2> QED BY <1>2, <2>2, <2>4, <2>5 DEF Masked
  <1> QED BY <1>3, <1>4, <1>5

\* Nor do the operations on the whole array.
LEMMA WholeDoubles ==
    ASSUME ArrayInv, Doubles, Clear \/ Loop \/ \E n \in 0..MaxSplit : \E pieces \in [1..n -> Val] : Load(pieces)
    PROVE  FALSE
  <1>1. fault = "none" /\ Running
    BY DEF Clear, Loop, Load, Running
  <1>2. /\ TableOK(A, Live(A)) /\ A.hmask \in Nat /\ A'.hmask # A.hmask /\ A.type # AY_SPLIT /\ A.type # AY_NULL
        /\ A' # A /\ A'.type = A.type /\ ArrOK(A)
    BY <1>1, TableBefore DEF ArrOK, Doubles
  <1>3. CASE Clear
    BY <1>2, <1>3, NullFields DEF Clear, AY_NULL
  <1>4. CASE \E n \in 0..MaxSplit : \E pieces \in [1..n -> Val] : Load(pieces)
    <2>1. A'.type = AY_SPLIT
      BY <1>4 DEF Load, NullArray
    <2> QED BY <1>2, <2>1
  <1>5. CASE Loop
    <2> DEFINE b == add_string_associations(A)
    <2>1. "STR" \notin A.type /\ A' = b
      BY <1>2, <1>5 DEF Loop
    <2>2. "STR" \in b.type
      BY <1>2, <2>1, AddStringsOK
    <2> HIDE DEF b
    <2> QED BY <1>2, <2>1, <2>2
  <1> QED BY <1>3, <1>4, <1>5

\* A table that was doubled holds its lists spread, the new node in front.
LEMMA NextDoubles ==
    ASSUME ArrayInv, Next, Doubles
    PROVE  TableOK(A, Live(A)) /\ \E k \in Keys : Grown(A', A, k)
  <1>1. TableOK(A, Live(A))
    BY TableBefore DEF Next, Refer, Member, Assign, DeleteStr, DeleteNum, Load, Clear, Loop
  <1>2. ASSUME NEW k \in Keys, Refer(k, FALSE) \/ \E v \in Val \ {Uninit} : Assign(k, FALSE, v)
        PROVE  Grown(A', A, k)
    BY <1>2, CreateDoubles
  <1>3. ASSUME NEW k \in IntKeys, Refer(k, TRUE) \/ \E v \in Val \ {Uninit} : Assign(k, TRUE, v)
        PROVE  k \in Keys /\ Grown(A', A, k)
    BY <1>3, CreateDoubles, KeyTypes
  <1>4. ASSUME NEW k \in Keys, Member(k, FALSE) \/ DeleteStr(k) PROVE FALSE
    BY <1>4, LookDoubles
  <1>5. ASSUME NEW k \in IntKeys, Member(k, TRUE) \/ DeleteNum(k) PROVE FALSE
    BY <1>5, LookDoubles, KeyTypes
  <1>6. ~Clear /\ ~Loop
    BY WholeDoubles
  <1>7. ASSUME NEW n \in 0..MaxSplit, NEW pieces \in [1..n -> Val \ {Uninit}], Load(pieces) PROVE FALSE
    <2>1. pieces \in [1..n -> Val]
      OBVIOUS
    <2> QED BY <1>7, <2>1, WholeDoubles
  <1>8. \E k \in Keys : Grown(A', A, k)
    BY <1>2, <1>3, <1>4, <1>5, <1>6, <1>7 DEF Next
  <1> QED BY <1>1, <1>8

\* Doubling splits the lists without reordering them.
THEOREM DoublingOrder == Spec => DoublingKeepsOrder
  <1> DEFINE Kept == Doubles =>
                       \A i \in DOMAIN A'.slist : \A j, k \in Live(A) :
                          /\ Before(A'.slist[i], j, k) =>
                               Before(A.slist[i % (A.hmask + 1)], j, k)
                          /\ Before(A'.ilist[i], j, k) /\ k \in A.ivals /\ j \in A.ivals =>
                               Before(A.ilist[i % (A.hmask + 1)], j, k)
  <1>1. ArrayInv /\ [Next]_vars => [Kept]_vars
    <2> SUFFICES ASSUME ArrayInv, Next, Doubles PROVE Kept
      OBVIOUS
    <2>1. TableOK(A, Live(A)) /\ \E k \in Keys : Grown(A', A, k)
      BY NextDoubles
    <2> QED BY <2>1, GrownOrder
  <1> QED BY <1>1, ArrayInvariant, PTL DEF Spec, DoublingKeepsOrder, Doubles
==============================================================================
