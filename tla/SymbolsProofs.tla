---------------------------- MODULE SymbolsProofs ----------------------------
(***************************************************************************)
(* Proofs about Symbols and the memory pools it lives on: whatever the     *)
(* names, the hash function and the sizes of blocks, pools and chunks.     *)
(***************************************************************************)
EXTENDS Symbols, Facts, FiniteSetTheorems

-----------------------------------------------------------------------------
(* The heap: blocks and units.                                             *)

BlockT == [at : Nat, size : Nat \ {0}]
HeapT == [pool : [1..POOLSZ -> Seq(Nat)], avail : Nat, amt_avail : 0..CHUNK,
          areas : SUBSET BlockT, brk : Nat, live : SUBSET BlockT]

\* A heap: accounted for, the areas of malloc below brk and apart from one
\* another, and a block that is too large for the pools is an area.
HeapInv(h) == /\ h \in HeapT /\ Accounted(h)
              /\ Apart(h.areas) /\ \A a \in h.areas : a.at + a.size <= h.brk
              /\ \A b \in h.live : b.size > POOLSZ => b \in h.areas

\* A block is a block, and it has a unit.
LEMMA BlockType ==
    ASSUME NEW p \in Nat, NEW n \in Nat \ {0}
    PROVE  /\ Block(p, n) \in BlockT /\ Block(p, n).at = p /\ Block(p, n).size = n
           /\ p \in Units(Block(p, n)) /\ Units(Block(p, n)) = p..p + n - 1
  BY DEF Block, BlockT, Units

LEMMA BlockIs ==
    ASSUME NEW b \in BlockT
    PROVE  /\ b = Block(b.at, b.size) /\ b.at \in Nat /\ b.size \in Nat \ {0}
           /\ b.at \in Units(b)
  BY DEF Block, BlockT, Units

\* Equal blocks have equal addresses and lengths.
LEMMA BlockEqual ==
    ASSUME NEW p, NEW n, NEW q, NEW m
    PROVE  Block(p, n) = Block(q, m) <=> p = q /\ n = m
  <1>1. /\ Block(p, n).at = p /\ Block(p, n).size = n
        /\ Block(q, m).at = q /\ Block(q, m).size = m
    BY DEF Block
  <1> QED BY <1>1

\* A block cut in two.
LEMMA CutUnits ==
    ASSUME NEW p \in Nat, NEW n \in Nat \ {0}, NEW m \in Nat \ {0}
    PROVE  /\ Units(Block(p, n + m)) = Units(Block(p, n)) \cup Units(Block(p + n, m))
           /\ Units(Block(p, n)) \cap Units(Block(p + n, m)) = {}
  BY DEF Block, Units

\* The size of a block in units is at least one.
LEMMA BlocksOf ==
    ASSUME NEW size \in Nat \ {0}
    PROVE  BytesToBlocks(size) \in Nat \ {0}
  <1>1. ZBLOCKSZ \in Nat \ {0}
    BY ZmallocAssumption
  <1> DEFINE k == size + ZBLOCKSZ - 1
             q == k \div ZBLOCKSZ
  <1>2. k \in Nat /\ k >= ZBLOCKSZ
    BY <1>1
  <1> HIDE DEF k
  <1>3. /\ q \in Int /\ k = ZBLOCKSZ * q + (k % ZBLOCKSZ) /\ k % ZBLOCKSZ \in 0..ZBLOCKSZ - 1
    BY <1>1, <1>2, SMTT(20)
  <1>4. ASSUME q <= 0 PROVE FALSE
    <2> DEFINE r == k % ZBLOCKSZ
               x == -q
    <2>1. r \in 0..ZBLOCKSZ - 1 /\ x \in Nat /\ q = -x
      BY <1>3, <1>4
    <2> HIDE DEF r, x
    <2>2. ZBLOCKSZ * x >= 0 /\ ZBLOCKSZ * (-x) = -(ZBLOCKSZ * x)
      BY <1>1, <2>1, SMTT(20)
    <2>3. ZBLOCKSZ * q <= 0 /\ ZBLOCKSZ * q \in Int
      <3> DEFINE y == ZBLOCKSZ * x
      <3>1. y \in Int /\ y >= 0
        BY <2>1, <2>2, <1>1, SMTT(20)
      <3>2. ZBLOCKSZ * q = -y
        BY <2>1, <2>2
      <3> HIDE DEF y
      <3> QED BY <3>1, <3>2
    <2>4. k = ZBLOCKSZ * q + r
      BY <1>3 DEF r
    <2> QED BY <2>1, <2>3, <2>4, <1>1, <1>2
  <1> QED BY <1>3, <1>4 DEF k, BytesToBlocks

\* What is in a set of blocks.
LEMMA InUnits == \A B, u : u \in UnitsOf(B) <=> \E b \in B : u \in Units(b)
  BY DEF UnitsOf

\* What a heap is made of are blocks.
LEMMA PartTypes ==
    ASSUME NEW h \in HeapT
    PROVE  /\ Parts(h) \subseteq BlockT /\ h.live \subseteq BlockT /\ h.areas \subseteq BlockT
           /\ Pooled(h) \subseteq BlockT /\ InHand(h) \subseteq BlockT
           /\ h.amt_avail \in Nat /\ h.avail \in Nat /\ h.brk \in Nat
           /\ \A k \in 1..POOLSZ : h.pool[k] \in Seq(Nat)
  <1>1. /\ h.pool \in [1..POOLSZ -> Seq(Nat)] /\ h.avail \in Nat /\ h.amt_avail \in 0..CHUNK
        /\ h.areas \subseteq BlockT /\ h.brk \in Nat /\ h.live \subseteq BlockT
    BY DEF HeapT
  <1>2. POOLSZ \in Nat \ {0} /\ CHUNK \in Nat
    BY ZmallocAssumption
  <1>3. Pooled(h) \subseteq BlockT
    <2>1. ASSUME NEW k \in 1..POOLSZ, NEW i \in 1..Len(h.pool[k]) PROVE Block(h.pool[k][i], k) \in BlockT
      <3>1. h.pool[k] \in Seq(Nat) /\ k \in Nat \ {0}
        BY <1>1, <1>2
      <3>2. h.pool[k][i] \in Nat
        BY <3>1
      <3> QED BY <3>1, <3>2, BlockType
    <2> QED BY <2>1 DEF Pooled
  <1>4. InHand(h) \subseteq BlockT
    <2>1. h.amt_avail # 0 => h.amt_avail \in Nat \ {0}
      BY <1>1, <1>2
    <2>2. h.amt_avail # 0 => Block(h.avail, h.amt_avail) \in BlockT
      BY <2>1, <1>1, BlockType
    <2> QED BY <2>2 DEF InHand
  <1> QED BY <1>1, <1>2, <1>3, <1>4 DEF Parts

\* The blocks of the pools, by their place.
LEMMA InPools ==
    ASSUME NEW h \in HeapT, NEW b
    PROVE  b \in Pooled(h) <=> \E k \in 1..POOLSZ : \E i \in 1..Len(h.pool[k]) : b = Block(h.pool[k][i], k)
  BY DEF Pooled

-----------------------------------------------------------------------------
(* What an operation writes, and what it leaves alone.                     *)

WithAvail(h, a, m) == [h EXCEPT !.avail = a, !.amt_avail = m]
WithLive(h, L) == [h EXCEPT !.live = L]
WithAreas(h, A, k) == [h EXCEPT !.areas = A, !.brk = k]
WithPool(h, n, s, m) == [h EXCEPT !.pool[n] = s, !.amt_avail = m]

LEMMA SetAvail ==
    ASSUME NEW h \in HeapT, NEW a \in Nat, NEW m \in 0..CHUNK
    PROVE  LET g == WithAvail(h, a, m)
           IN  /\ g \in HeapT /\ g.pool = h.pool /\ g.avail = a /\ g.amt_avail = m
               /\ g.areas = h.areas /\ g.brk = h.brk /\ g.live = h.live
  BY DEF HeapT, WithAvail

LEMMA SetLive ==
    ASSUME NEW h \in HeapT, NEW L, L \subseteq BlockT
    PROVE  LET g == WithLive(h, L)
           IN  /\ g \in HeapT /\ g.pool = h.pool /\ g.avail = h.avail /\ g.amt_avail = h.amt_avail
               /\ g.areas = h.areas /\ g.brk = h.brk /\ g.live = L
  BY DEF HeapT, WithLive

LEMMA SetAreas ==
    ASSUME NEW h \in HeapT, NEW A, A \subseteq BlockT, NEW k \in Nat
    PROVE  LET g == WithAreas(h, A, k)
           IN  /\ g \in HeapT /\ g.pool = h.pool /\ g.avail = h.avail /\ g.amt_avail = h.amt_avail
               /\ g.areas = A /\ g.brk = k /\ g.live = h.live
  BY DEF HeapT, WithAreas

LEMMA SetPool ==
    ASSUME NEW h \in HeapT, NEW n \in 1..POOLSZ, NEW s \in Seq(Nat), NEW m \in 0..CHUNK
    PROVE  LET g == WithPool(h, n, s, m)
           IN  /\ g \in HeapT /\ g.pool = [h.pool EXCEPT ![n] = s] /\ g.avail = h.avail
               /\ g.amt_avail = m /\ g.areas = h.areas /\ g.brk = h.brk /\ g.live = h.live
  <1> DEFINE P == [h.pool EXCEPT ![n] = s]
             g == WithPool(h, n, s, m)
  <1>1. P \in [1..POOLSZ -> Seq(Nat)]
    BY DEF HeapT
  <1>2. g = [h EXCEPT !.pool = P, !.amt_avail = m]
    BY DEF WithPool
  <1> HIDE DEF P, g
  <1>3. /\ g \in HeapT /\ g.pool = P /\ g.avail = h.avail /\ g.amt_avail = m
        /\ g.areas = h.areas /\ g.brk = h.brk /\ g.live = h.live
    BY <1>1, <1>2 DEF HeapT
  <1> QED BY <1>3 DEF P, g

\* A field that is written again with what it holds.
LEMMA SameField ==
    ASSUME NEW h \in HeapT, NEW n \in 1..POOLSZ, NEW s \in Seq(Nat), NEW A, A \subseteq BlockT
    PROVE  /\ [h EXCEPT !.pool[n] = s] = WithPool(h, n, s, h.amt_avail)
           /\ [h EXCEPT !.areas = A] = WithAreas(h, A, h.brk)
  <1> DEFINE P == [h.pool EXCEPT ![n] = s]
             m == h.amt_avail
  <1>1. P \in [1..POOLSZ -> Seq(Nat)]
    BY DEF HeapT
  <1>2. /\ WithPool(h, n, s, m) = [h EXCEPT !.pool = P, !.amt_avail = m]
        /\ [h EXCEPT !.pool[n] = s] = [h EXCEPT !.pool = P]
    BY DEF WithPool
  <1>3. m = h.amt_avail
    OBVIOUS
  <1> HIDE DEF P, m
  <1>4. [h EXCEPT !.pool = P] = [h EXCEPT !.pool = P, !.amt_avail = m]
    BY <1>1, <1>3 DEF HeapT
  <1>5. [h EXCEPT !.areas = A] = WithAreas(h, A, h.brk)
    BY DEF HeapT, WithAreas
  <1> QED BY <1>2, <1>4, <1>5 DEF m

LEMMA MallocFields ==
    ASSUME NEW h \in HeapT, NEW n \in Nat \ {0}
    PROVE  LET g == Malloc(h, n)
           IN  /\ g \in HeapT /\ g.pool = h.pool /\ g.avail = h.avail /\ g.amt_avail = h.amt_avail
               /\ g.areas = h.areas \cup {Block(h.brk, n)} /\ g.brk = h.brk + n + 1
               /\ g.live = h.live
  <1> DEFINE A == h.areas \cup {Block(h.brk, n)}
             k == h.brk + n + 1
  <1>1. h.areas \subseteq BlockT /\ h.brk \in Nat
    BY DEF HeapT
  <1>2. Block(h.brk, n) \in BlockT /\ k \in Nat
    <2>1. Block(h.brk, n) \in BlockT
      BY <1>1, BlockType
    <2>2. k \in Nat
      BY <1>1
    <2> QED BY <2>1, <2>2
  <1>3. A \subseteq BlockT
    BY <1>1, <1>2
  <1>4. Malloc(h, n) = WithAreas(h, A, k)
    BY DEF Malloc, WithAreas
  <1> HIDE DEF A, k
  <1>5. LET g == WithAreas(h, A, k)
        IN  /\ g \in HeapT /\ g.pool = h.pool /\ g.avail = h.avail /\ g.amt_avail = h.amt_avail
            /\ g.areas = A /\ g.brk = k /\ g.live = h.live
    BY <1>2, <1>3, SetAreas
  <1> QED BY <1>4, <1>5 DEF A, k

-----------------------------------------------------------------------------
(* A pool gives its first block, or gets one more.                         *)

\* The rest of a pool has all others.
LEMMA PoolPop ==
    ASSUME NEW h \in HeapT, NEW n \in 1..POOLSZ, h.pool[n] # <<>>, NEW g \in HeapT,
           g.pool = [h.pool EXCEPT ![n] = Tail(@)], \A k \in 1..POOLSZ : IsInjective(h.pool[k])
    PROVE  /\ Head(h.pool[n]) \in Nat /\ Block(Head(h.pool[n]), n) \in Pooled(h)
           /\ Pooled(g) = Pooled(h) \ {Block(Head(h.pool[n]), n)}
           /\ \A k \in 1..POOLSZ : IsInjective(g.pool[k])
  <1> DEFINE s == h.pool[n]
             t == g.pool[n]
             b == Block(Head(s), n)
  <1>1. /\ s \in Seq(Nat) /\ s # <<>> /\ Len(s) \in Nat \ {0}
        /\ \A i, j \in 1..Len(s) : s[i] = s[j] => i = j
    <2>1. s \in Seq(Nat) /\ s # <<>> /\ IsInjective(s)
      BY PartTypes
    <2>2. Len(s) \in Nat \ {0} /\ DOMAIN s = 1..Len(s)
      BY <2>1
    <2> QED BY <2>1, <2>2 DEF IsInjective
  <1>2. /\ t = Tail(s) /\ Len(t) = Len(s) - 1 /\ \A i \in 1..Len(t) : t[i] = s[i + 1]
        /\ DOMAIN t = 1..Len(t)
    <2>1. t = Tail(s)
      BY DEF HeapT
    <2> HIDE DEF s, t
    <2>2. Tail(s) \in Seq(Nat) /\ Len(Tail(s)) = Len(s) - 1
      BY <1>1
    <2>3. \A i \in 1..Len(s) - 1 : Tail(s)[i] = s[i + 1]
      BY <1>1
    <2> QED BY <2>1, <2>2, <2>3
  <1>3. \A k \in 1..POOLSZ : k # n => g.pool[k] = h.pool[k]
    BY DEF HeapT
  <1>4. Head(s) = s[1] /\ Head(s) \in Nat
    BY <1>1
  <1> HIDE DEF s, t
  <1>5. b \in Pooled(h)
    <2>1. 1 \in 1..Len(s)
      BY <1>1
    <2> QED BY <2>1, <1>4, InPools DEF s
  <1>6. ASSUME NEW c \in Pooled(g) PROVE c \in Pooled(h) /\ c # b
    <2>1. PICK k \in 1..POOLSZ : \E i \in 1..Len(g.pool[k]) : c = Block(g.pool[k][i], k)
      BY <1>6, InPools
    <2>2. CASE k # n
      <3>1. c \in Pooled(h)
        BY <2>1, <2>2, <1>3, InPools
      <3> QED BY <3>1, <2>1, <2>2, BlockEqual
    <2>3. CASE k = n
      <3>1. PICK i \in 1..Len(t) : c = Block(t[i], n)
        BY <2>1, <2>3 DEF t
      <3>2. i + 1 \in 1..Len(s) /\ t[i] = s[i + 1] /\ i + 1 # 1 /\ 1 \in 1..Len(s)
        BY <1>1, <1>2
      <3>3. c = Block(s[i + 1], n) /\ s[i + 1] # Head(s)
        BY <3>1, <3>2, <1>1, <1>4
      <3>4. c \in Pooled(h)
        BY <3>2, <3>3, InPools DEF s
      <3> QED BY <3>3, <3>4, BlockEqual
    <2> QED BY <2>2, <2>3
  <1>7. ASSUME NEW c \in Pooled(h), c # b PROVE c \in Pooled(g)
    <2>1. PICK k \in 1..POOLSZ : \E i \in 1..Len(h.pool[k]) : c = Block(h.pool[k][i], k)
      BY <1>7, InPools
    <2>2. CASE k # n
      BY <2>1, <2>2, <1>3, InPools
    <2>3. CASE k = n
      <3>1. PICK i \in 1..Len(s) : c = Block(s[i], n)
        BY <2>1, <2>3 DEF s
      <3>2. i # 1
        BY <3>1, <1>4, <1>7
      <3>3. i - 1 \in 1..Len(t) /\ t[i - 1] = s[i]
        BY <3>2, <1>1, <1>2
      <3> QED BY <3>1, <3>3, InPools DEF t
    <2> QED BY <2>2, <2>3
  <1>8. ASSUME NEW k \in 1..POOLSZ PROVE IsInjective(g.pool[k])
    <2>1. CASE k # n
      BY <2>1, <1>3
    <2>2. CASE k = n
      <3>1. ASSUME NEW i \in 1..Len(t), NEW j \in 1..Len(t), t[i] = t[j] PROVE i = j
        <4>1. i + 1 \in 1..Len(s) /\ j + 1 \in 1..Len(s) /\ s[i + 1] = s[j + 1]
          BY <3>1, <1>1, <1>2
        <4> HIDE DEF s, t
        <4>2. i + 1 = j + 1
          BY <4>1, <1>1
        <4> QED BY <4>2
      <3> QED BY <3>1, <2>2, <1>2 DEF IsInjective, t
    <2> QED BY <2>1, <2>2
  <1> QED BY <1>4, <1>5, <1>6, <1>7, <1>8 DEF s

\* One more block in front.
LEMMA PoolPush ==
    ASSUME NEW h \in HeapT, NEW n \in 1..POOLSZ, NEW p \in Nat, NEW g \in HeapT,
           g.pool = [h.pool EXCEPT ![n] = <<p>> \o @], Block(p, n) \notin Pooled(h),
           \A k \in 1..POOLSZ : IsInjective(h.pool[k])
    PROVE  /\ Pooled(g) = Pooled(h) \cup {Block(p, n)}
           /\ \A k \in 1..POOLSZ : IsInjective(g.pool[k])
  <1> DEFINE s == h.pool[n]
             t == g.pool[n]
             b == Block(p, n)
  <1>1. /\ s \in Seq(Nat) /\ Len(s) \in Nat
        /\ \A i, j \in 1..Len(s) : s[i] = s[j] => i = j
    <2>1. s \in Seq(Nat) /\ IsInjective(s)
      BY PartTypes
    <2> HIDE DEF s
    <2>2. Len(s) \in Nat /\ DOMAIN s = 1..Len(s)
      BY <2>1
    <2> QED BY <2>1, <2>2 DEF IsInjective
  <1>2. /\ t = <<p>> \o s
    BY DEF HeapT
  <1>3. \A k \in 1..POOLSZ : k # n => g.pool[k] = h.pool[k]
    BY DEF HeapT
  <1>0. \A i \in 1..Len(s) : s[i] # p
    BY InPools
  <1> HIDE DEF s, t
  <1>4. /\ Len(t) = Len(s) + 1 /\ DOMAIN t = 1..Len(t)
        /\ \A i \in 1..Len(t) : t[i] = IF i = 1 THEN p ELSE s[i - 1]
    BY <1>1, <1>2, PrependProps
  <1>5. b \in Pooled(g)
    <2>1. 1 \in 1..Len(t) /\ t[1] = p
      BY <1>1, <1>4
    <2> QED BY <2>1, InPools DEF t
  <1>6. ASSUME NEW c \in Pooled(g), c # b PROVE c \in Pooled(h)
    <2>0. \E k \in 1..POOLSZ : \E i \in 1..Len(g.pool[k]) : c = Block(g.pool[k][i], k)
      BY <1>6 DEF Pooled
    <2>1. PICK k \in 1..POOLSZ : \E i \in 1..Len(g.pool[k]) : c = Block(g.pool[k][i], k)
      BY <2>0
    <2>2. CASE k # n
      BY <2>1, <2>2, <1>3, InPools
    <2>3. CASE k = n
      <3>1. PICK i \in 1..Len(t) : c = Block(t[i], n)
        BY <2>1, <2>3 DEF t
      <3>2. i # 1
        BY <3>1, <1>4, <1>6
      <3>3. i - 1 \in 1..Len(s) /\ t[i] = s[i - 1]
        BY <3>2, <1>1, <1>4
      <3> QED BY <3>1, <3>3, InPools DEF s
    <2> QED BY <2>2, <2>3
  <1>7. ASSUME NEW c \in Pooled(h) PROVE c \in Pooled(g)
    <2>1. PICK k \in 1..POOLSZ : \E i \in 1..Len(h.pool[k]) : c = Block(h.pool[k][i], k)
      BY <1>7, InPools
    <2>2. CASE k # n
      BY <2>1, <2>2, <1>3, InPools
    <2>3. CASE k = n
      <3>1. PICK i \in 1..Len(s) : c = Block(s[i], n)
        BY <2>1, <2>3 DEF s
      <3>2. i + 1 \in 1..Len(t) /\ t[i + 1] = s[i]
        BY <1>1, <1>4
      <3> QED BY <3>1, <3>2, InPools DEF t
    <2> QED BY <2>2, <2>3
  <1>8. ASSUME NEW k \in 1..POOLSZ PROVE IsInjective(g.pool[k])
    <2>1. CASE k # n
      BY <2>1, <1>3
    <2>2. CASE k = n
      <3>1. ASSUME NEW i \in 1..Len(t), NEW j \in 1..Len(t), t[i] = t[j] PROVE i = j
        <4>1. CASE i = 1 \/ j = 1
          <5>1. \A l \in 1..Len(t) : l # 1 => l - 1 \in 1..Len(s) /\ t[l] = s[l - 1]
            BY <1>1, <1>4
          <5>2. \A l \in 1..Len(t) : l # 1 => t[l] # p
            BY <5>1, <1>0 DEF s
          <5> QED BY <3>1, <4>1, <5>2, <1>4
        <4>2. CASE i # 1 /\ j # 1
          <5>1. i - 1 \in 1..Len(s) /\ j - 1 \in 1..Len(s) /\ s[i - 1] = s[j - 1]
            BY <3>1, <4>2, <1>1, <1>4
          <5>2. i - 1 = j - 1
            BY <5>1, <1>1
          <5> QED BY <5>2
        <4> QED BY <4>1, <4>2
      <3> QED BY <3>1, <2>2, <1>4 DEF IsInjective, t
    <2> QED BY <2>1, <2>2
  <1> QED BY <1>5, <1>6, <1>7, <1>8

-----------------------------------------------------------------------------
(* zmalloc and zfree.                                                      *)

\* Two heaps with the same pools have the same blocks in them.
LEMMA SamePools ==
    ASSUME NEW h, NEW g, g.pool = h.pool
    PROVE  Pooled(g) = Pooled(h)
  BY DEF Pooled

\* The parts of a heap.
LEMMA Owners ==
    ASSUME NEW h, HeapInv(h)
    PROVE  /\ h \in HeapT /\ Parts(h) = h.live \cup Pooled(h) \cup InHand(h)
           /\ Apart(Parts(h)) /\ Apart(h.areas) /\ UnitsOf(Parts(h)) = UnitsOf(h.areas)
           /\ \A k \in 1..POOLSZ : IsInjective(h.pool[k])
           /\ h.live \cap Pooled(h) = {} /\ (h.live \cup Pooled(h)) \cap InHand(h) = {}
           /\ \A a \in h.areas : a.at + a.size <= h.brk
           /\ \A b \in h.live : b.size > POOLSZ => b \in h.areas
  BY DEF HeapInv, Accounted, OneOwner, Parts

\* And conversely.
LEMMA Owned ==
    ASSUME NEW h \in HeapT, NEW P, P = h.live \cup Pooled(h) \cup InHand(h),
           Apart(P), Apart(h.areas), UnitsOf(P) = UnitsOf(h.areas),
           \A k \in 1..POOLSZ : IsInjective(h.pool[k]),
           h.live \cap Pooled(h) = {}, (h.live \cup Pooled(h)) \cap InHand(h) = {},
           \A a \in h.areas : a.at + a.size <= h.brk,
           \A b \in h.live : b.size > POOLSZ => b \in h.areas
    PROVE  HeapInv(h)
  BY DEF HeapInv, Accounted, OneOwner, Parts

\* Nothing lies beyond brk.
LEMMA BelowBrk ==
    ASSUME NEW h, HeapInv(h), NEW n \in Nat \ {0}
    PROVE  /\ \A b \in Parts(h) \cup h.areas : Units(b) \cap Units(Block(h.brk, n)) = {}
           /\ Block(h.brk, n) \notin Parts(h) /\ Block(h.brk, n) \notin h.areas
  <1> DEFINE c == Block(h.brk, n)
  <1>1. h.brk \in Nat /\ Parts(h) \subseteq BlockT /\ h.areas \subseteq BlockT
    BY Owners, PartTypes
  <1>2. ASSUME NEW u, u \in UnitsOf(h.areas) PROVE u < h.brk
    <2>1. PICK a \in h.areas : u \in Units(a)
      BY <1>2, InUnits
    <2>2. a.at \in Nat /\ a.size \in Nat /\ a.at + a.size <= h.brk
      BY <1>1, BlockIs, Owners
    <2> QED BY <2>1, <2>2, <1>1 DEF Units
  <1>3. \A u \in Units(c) : u >= h.brk /\ u \in Nat
    <2>1. Units(c) = h.brk..h.brk + n - 1
      BY <1>1, BlockType
    <2> HIDE DEF c
    <2> QED BY <2>1, <1>1
  <1>4. ASSUME NEW b \in Parts(h) \cup h.areas PROVE Units(b) \cap Units(c) = {}
    <2>1. Units(b) \subseteq UnitsOf(h.areas)
      BY Owners, InUnits
    <2> QED BY <2>1, <1>1, <1>2, <1>3
  <1>5. h.brk \in Units(c)
    BY <1>1, BlockType
  <1> QED BY <1>4, <1>5

\* The rest of the chunk goes to the pool of its size.
LEMMA FreeAvailOK ==
    ASSUME NEW h, HeapInv(h), h.amt_avail <= POOLSZ
    PROVE  /\ HeapInv(FreeAvail(h)) /\ FreeAvail(h).amt_avail = 0
           /\ FreeAvail(h).live = h.live /\ FreeAvail(h).brk = h.brk
  <1> DEFINE g == FreeAvail(h)
             n == h.amt_avail
             b == Block(h.avail, n)
  <1>0. h \in HeapT /\ n \in Nat /\ h.avail \in Nat
    BY Owners, PartTypes
  <1>1. CASE n = 0
    BY <1>1 DEF FreeAvail
  <1>2. CASE n # 0
    <2>1. n \in 1..POOLSZ /\ h.pool[n] \in Seq(Nat)
      BY <1>0, <1>2, PartTypes, ZmallocAssumption
    <2>2. g = [h EXCEPT !.pool[n] = <<h.avail>> \o @, !.amt_avail = 0]
      BY <1>2 DEF FreeAvail
    <2>3. <<h.avail>> \o h.pool[n] \in Seq(Nat)
      BY <2>1, <1>0, PrependProps
    <2>4. /\ g.pool = [h.pool EXCEPT ![n] = <<h.avail>> \o h.pool[n]] /\ g.amt_avail = 0
          /\ g.avail = h.avail /\ g.areas = h.areas /\ g.brk = h.brk /\ g.live = h.live
          /\ g \in HeapT
      <3> DEFINE s == <<h.avail>> \o h.pool[n]
      <3>1. 0 \in 0..CHUNK
        BY ZmallocAssumption
      <3>2. g = WithPool(h, n, s, 0)
        BY <2>2 DEF WithPool
      <3> HIDE DEF g, s
      <3>3. s \in Seq(Nat)
        BY <2>3 DEF s
      <3>4. /\ g \in HeapT /\ g.pool = [h.pool EXCEPT ![n] = s] /\ g.avail = h.avail
            /\ g.amt_avail = 0 /\ g.areas = h.areas /\ g.brk = h.brk /\ g.live = h.live
        BY <3>1, <3>2, <3>3, <2>1, <1>0, SetPool
      <3> QED BY <3>4 DEF s
    <2>5. g \in HeapT
      BY <2>4
    <2>6. InHand(h) = {b} /\ InHand(g) = {}
      BY <2>4, <1>2 DEF InHand
    <2> HIDE DEF g
    <2>7. b \notin Pooled(h) /\ b \notin h.live
      BY <2>6, Owners
    <2>8. Pooled(g) = Pooled(h) \cup {b} /\ \A k \in 1..POOLSZ : IsInjective(g.pool[k])
      BY <2>1, <2>4, <2>5, <2>7, <1>0, PoolPush, Owners
    <2>9. Parts(h) = g.live \cup Pooled(g) \cup InHand(g)
      BY <2>4, <2>6, <2>8, Owners
    <2>10. g.live \cap Pooled(g) = {} /\ (g.live \cup Pooled(g)) \cap InHand(g) = {}
      BY <2>4, <2>6, <2>7, <2>8, Owners
    <2>11. Apart(g.areas) /\ UnitsOf(Parts(h)) = UnitsOf(g.areas) /\ Apart(Parts(h))
      BY <2>4, Owners
    <2>12. /\ \A a \in g.areas : a.at + a.size <= g.brk
           /\ \A c \in g.live : c.size > POOLSZ => c \in g.areas
      BY <2>4, Owners
    <2>13. HeapInv(g)
      BY <2>5, <2>8, <2>9, <2>10, <2>11, <2>12, Owned
    <2> QED BY <2>4, <2>13 DEF g
  <1> QED BY <1>1, <1>2

\* An area more, that is handed out or at hand.
LEMMA MoreArea ==
    ASSUME NEW h, HeapInv(h), NEW n \in Nat \ {0}, NEW g \in HeapT,
           g.pool = h.pool, g.areas = h.areas \cup {Block(h.brk, n)}, g.brk = h.brk + n + 1,
           \/ InHand(g) = InHand(h) /\ g.live = h.live \cup {Block(h.brk, n)}
           \/ InHand(h) = {} /\ InHand(g) = {Block(h.brk, n)} /\ g.live = h.live
    PROVE  HeapInv(g) /\ Block(h.brk, n) \notin h.live
  <1> DEFINE c == Block(h.brk, n)
             P == g.live \cup Pooled(g) \cup InHand(g)
  <1>1. Pooled(g) = Pooled(h)
    BY SamePools
  <1>2. P = Parts(h) \cup {c}
    BY <1>1, Owners
  <1>3. /\ \A b \in Parts(h) \cup h.areas : Units(b) \cap Units(c) = {}
        /\ c \notin Parts(h) /\ c \notin h.areas
    BY BelowBrk
  <1>4. c.at = h.brk /\ c.size = n /\ h.brk \in Nat
    BY BlockType, Owners, PartTypes
  <1> HIDE DEF c
  <1>5. Apart(P) /\ Apart(g.areas)
    <2>1. Apart(Parts(h)) /\ Apart(h.areas)
      BY Owners
    <2>2. Apart(Parts(h) \cup {c})
      BY <2>1, <1>3 DEF Apart
    <2>3. Apart(h.areas \cup {c})
      BY <2>1, <1>3 DEF Apart
    <2> QED BY <2>2, <2>3, <1>2 DEF c
  <1>6. UnitsOf(P) = UnitsOf(g.areas)
    <2>1. UnitsOf(Parts(h)) = UnitsOf(h.areas) /\ g.areas = h.areas \cup {c}
      BY Owners DEF c
    <2> HIDE DEF P
    <2> QED BY <2>1, <1>2 DEF UnitsOf
  <1>7. \A k \in 1..POOLSZ : IsInjective(g.pool[k])
    BY Owners
  <1>8. c \notin h.live /\ c \notin Pooled(h) /\ c \notin InHand(h)
    BY <1>3, Owners
  <1>9. g.live \cap Pooled(g) = {} /\ (g.live \cup Pooled(g)) \cap InHand(g) = {}
    BY <1>1, <1>8, Owners DEF c
  <1>10. \A a \in g.areas : a.at + a.size <= g.brk
    <2>1. \A a \in h.areas : a.at + a.size <= h.brk /\ a.at \in Nat /\ a.size \in Nat
      BY Owners, PartTypes, BlockIs
    <2> QED BY <2>1, <1>4 DEF c
  <1>11. \A b \in g.live : b.size > POOLSZ => b \in g.areas
    BY Owners
  <1>12. HeapInv(g)
    BY <1>5, <1>6, <1>7, <1>9, <1>10, <1>11, Owned
  <1> QED BY <1>8, <1>12 DEF c

\* A chunk from malloc.
LEMMA NewChunkOK ==
    ASSUME NEW h, HeapInv(h), h.amt_avail = 0
    PROVE  HeapInv(NewChunk(h)) /\ NewChunk(h).amt_avail = CHUNK /\ NewChunk(h).live = h.live
  <1> DEFINE g == NewChunk(h)
             c == Block(h.brk, CHUNK)
  <1>1. CHUNK \in Nat \ {0} /\ h \in HeapT /\ h.brk \in Nat
    BY ZmallocAssumption, Owners, PartTypes
  <1>2. c \in BlockT
    BY <1>1, BlockType
  <1>3. /\ g.pool = h.pool /\ g.areas = h.areas \cup {c} /\ g.brk = h.brk + CHUNK + 1
        /\ g.avail = h.brk /\ g.amt_avail = CHUNK /\ g.live = h.live /\ g \in HeapT
    <2> DEFINE m == Malloc(h, CHUNK)
    <2>1. /\ m \in HeapT /\ m.pool = h.pool /\ m.areas = h.areas \cup {c}
          /\ m.brk = h.brk + CHUNK + 1 /\ m.live = h.live
      BY <1>1, MallocFields
    <2>2. g = WithAvail(m, h.brk, CHUNK) /\ CHUNK \in 0..CHUNK
      BY <1>1 DEF NewChunk, WithAvail
    <2> HIDE DEF m, g, c
    <2>3. LET a == WithAvail(m, h.brk, CHUNK)
          IN  /\ a \in HeapT /\ a.pool = m.pool /\ a.avail = h.brk /\ a.amt_avail = CHUNK
              /\ a.areas = m.areas /\ a.brk = m.brk /\ a.live = m.live
      <3> DEFINE k == h.brk
      <3>1. k \in Nat /\ m \in HeapT /\ CHUNK \in 0..CHUNK
        BY <1>1, <2>1, <2>2
      <3> HIDE DEF k
      <3>2. LET a == WithAvail(m, k, CHUNK)
            IN  /\ a \in HeapT /\ a.pool = m.pool /\ a.avail = k /\ a.amt_avail = CHUNK
                /\ a.areas = m.areas /\ a.brk = m.brk /\ a.live = m.live
        BY <3>1, SetAvail, ZenonT(40)
      <3> QED BY <3>2 DEF k
    <2> QED BY <2>1, <2>2, <2>3
  <1>4. g \in HeapT
    BY <1>3
  <1>5. InHand(h) = {} /\ InHand(g) = {c}
    BY <1>1, <1>3 DEF InHand
  <1> HIDE DEF g
  <1>6. HeapInv(g)
    BY <1>1, <1>3, <1>4, <1>5, MoreArea
  <1> QED BY <1>3, <1>6 DEF g

\* The block is given out.
Given(t, n) == [t[2] EXCEPT !.live = @ \cup {Block(t[1], n)}]

\* An area of its own.
LEMMA MallocOK ==
    ASSUME NEW h, HeapInv(h), NEW n \in Nat \ {0}
    PROVE  LET g == Given(<<h.brk, Malloc(h, n)>>, n)
           IN  /\ HeapInv(g) /\ h.brk \in Nat /\ g.live = h.live \cup {Block(h.brk, n)}
               /\ Block(h.brk, n) \notin h.live
  <1> DEFINE g == Given(<<h.brk, Malloc(h, n)>>, n)
             c == Block(h.brk, n)
  <1>1. h \in HeapT /\ h.brk \in Nat
    BY Owners, PartTypes
  <1>2. c \in BlockT
    BY <1>1, BlockType
  <1>4. /\ g.pool = h.pool /\ g.areas = h.areas \cup {c} /\ g.brk = h.brk + n + 1
        /\ g.avail = h.avail /\ g.amt_avail = h.amt_avail /\ g.live = h.live \cup {c}
        /\ g \in HeapT
    <2> DEFINE m == Malloc(h, n)
    <2>1. /\ m \in HeapT /\ m.pool = h.pool /\ m.areas = h.areas \cup {c} /\ m.avail = h.avail
          /\ m.brk = h.brk + n + 1 /\ m.live = h.live /\ m.amt_avail = h.amt_avail
      BY <1>1, MallocFields
    <2>2. g = [m EXCEPT !.live = @ \cup {c}]
      BY DEF Given
    <2>3. h.live \cup {c} \subseteq BlockT
      BY <1>1, <1>2, PartTypes
    <2> HIDE DEF m, g, c
    <2>4. g = WithLive(m, h.live \cup {c})
      BY <2>1, <2>2 DEF WithLive
    <2> QED BY <2>1, <2>3, <2>4, SetLive
  <1>5. g \in HeapT
    BY <1>4
  <1>6. InHand(g) = InHand(h)
    BY <1>4 DEF InHand
  <1> HIDE DEF g
  <1>7. HeapInv(g) /\ c \notin h.live
    BY <1>4, <1>5, <1>6, MoreArea
  <1> QED BY <1>1, <1>4, <1>7 DEF g

\* The front of the chunk at hand.
LEMMA FromAvailOK ==
    ASSUME NEW h, HeapInv(h), NEW n \in 1..POOLSZ, n <= h.amt_avail
    PROVE  LET g == Given(FromAvail(h, n), n)
           IN  /\ HeapInv(g) /\ h.avail \in Nat /\ g.live = h.live \cup {Block(h.avail, n)}
               /\ Block(h.avail, n) \notin h.live
  <1> DEFINE g == Given(FromAvail(h, n), n)
             c == Block(h.avail, n)
             m == h.amt_avail - n
             old == Block(h.avail, h.amt_avail)
             rest == Block(h.avail + n, m)
  <1>1. /\ h \in HeapT /\ h.avail \in Nat /\ h.amt_avail \in 0..CHUNK /\ n \in Nat \ {0}
        /\ m \in Nat /\ m \in 0..CHUNK /\ CHUNK \in Nat /\ POOLSZ \in Nat
    BY Owners, PartTypes, ZmallocAssumption DEF HeapT
  <1>2. c \in BlockT /\ c.size = n
    BY <1>1, BlockType
  <1>4. /\ g.pool = h.pool /\ g.areas = h.areas /\ g.brk = h.brk
        /\ g.avail = h.avail + n /\ g.amt_avail = m /\ g.live = h.live \cup {c} /\ g \in HeapT
    <2> DEFINE f == FromAvail(h, n)[2]
    <2>1. f = WithAvail(h, h.avail + n, m)
      BY DEF FromAvail, WithAvail
    <2>2. g = [f EXCEPT !.live = @ \cup {c}]
      BY DEF Given, FromAvail
    <2>3. h.live \cup {c} \subseteq BlockT /\ h.avail + n \in Nat
      BY <1>1, <1>2, PartTypes
    <2> DEFINE k == h.avail + n
    <2>6. k \in Nat /\ m \in 0..CHUNK /\ h \in HeapT /\ f = WithAvail(h, k, m)
      BY <2>1, <2>3, <1>1
    <2> HIDE DEF f, g, c, m, k
    <2>7. LET a == WithAvail(h, k, m)
          IN  /\ a \in HeapT /\ a.pool = h.pool /\ a.avail = k /\ a.amt_avail = m
              /\ a.areas = h.areas /\ a.brk = h.brk /\ a.live = h.live
      BY <2>6, SetAvail
    <2>4. /\ f \in HeapT /\ f.pool = h.pool /\ f.areas = h.areas /\ f.brk = h.brk
          /\ f.avail = h.avail + n /\ f.amt_avail = m /\ f.live = h.live
      BY <2>6, <2>7 DEF k
    <2>5. g = WithLive(f, h.live \cup {c})
      BY <2>2, <2>4 DEF WithLive
    <2> QED BY <2>3, <2>4, <2>5, SetLive
  <1>5. g \in HeapT
    BY <1>4
  <1>6. InHand(h) = {old}
    BY <1>1 DEF InHand
  <1>7. InHand(g) = IF m = 0 THEN {} ELSE {rest}
    BY <1>4 DEF InHand
  <1>8. m = 0 => old = c
    BY <1>1
  <1>9. m # 0 => /\ Units(old) = Units(c) \cup Units(rest) /\ Units(c) \cap Units(rest) = {}
                 /\ h.avail + n \in Units(rest) /\ rest \in BlockT
    <2> HAVE m # 0
    <2>1. m \in Nat \ {0} /\ h.amt_avail = n + m /\ h.avail + n \in Nat
      BY <1>1
    <2> HIDE DEF m
    <2>2. old = Block(h.avail, n + m)
      BY <2>1
    <2>3. /\ Units(Block(h.avail, n + m)) = Units(c) \cup Units(rest)
          /\ Units(c) \cap Units(rest) = {}
      BY <2>1, <1>1, CutUnits
    <2>4. h.avail + n \in Units(rest) /\ rest \in BlockT
      BY <2>1, BlockType
    <2> HIDE DEF old, c, rest
    <2> QED BY <2>2, <2>3, <2>4
  <1>10. h.avail \in Units(c) /\ h.avail \in Units(old)
    <2>1. h.amt_avail \in Nat \ {0}
      BY <1>1
    <2> QED BY <2>1, <1>1, BlockType
  <1> HIDE DEF g, c, rest, old, m
  <1> DEFINE R == h.live \cup Pooled(h)
             P == g.live \cup Pooled(g) \cup InHand(g)
  <1>11. Pooled(g) = Pooled(h)
    BY <1>4, SamePools
  <1>12. Parts(h) = R \cup {old} /\ old \notin R /\ Apart(R \cup {old})
    BY <1>6, Owners
  <1>13. P = R \cup {c} \cup (IF m = 0 THEN {} ELSE {rest})
    BY <1>4, <1>7, <1>11
  <1>14. \A b \in R : Units(b) \cap Units(old) = {}
    <2>1. \A b \in R : b # old /\ b \in R \cup {old} /\ old \in R \cup {old}
      BY <1>12
    <2> QED BY <2>1, <1>12 DEF Apart
  <1>15. /\ \A b \in R : Units(b) \cap Units(c) = {} /\ (m # 0 => Units(b) \cap Units(rest) = {})
         /\ c \notin R /\ (m # 0 => rest \notin R /\ rest # c)
    BY <1>8, <1>9, <1>10, <1>14
  <1>16. Apart(P)
    <2>1. Apart(R)
      BY <1>12 DEF Apart
    <2>2. CASE m = 0
      <3>1. P = R \cup {c}
        BY <2>2, <1>13
      <3> HIDE DEF P, R
      <3> QED BY <3>1, <2>1, <1>15 DEF Apart
    <2>3. CASE m # 0
      <3>1. P = R \cup {c} \cup {rest}
        BY <2>3, <1>13
      <3>2. Units(c) \cap Units(rest) = {}
        BY <2>3, <1>9
      <3> HIDE DEF P, R
      <3> QED BY <3>1, <3>2, <2>1, <2>3, <1>15 DEF Apart
    <2> QED BY <2>2, <2>3
  <1>17. UnitsOf(P) = UnitsOf(g.areas)
    <2>1. UnitsOf(R \cup {old}) = UnitsOf(g.areas)
      BY <1>4, <1>12, Owners
    <2>2. CASE m = 0
      BY <2>1, <2>2, <1>8, <1>13
    <2>3. CASE m # 0
      <3>1. P = R \cup {c} \cup {rest} /\ Units(old) = Units(c) \cup Units(rest)
        BY <2>3, <1>9, <1>13
      <3> HIDE DEF P, R
      <3> QED BY <3>1, <2>1 DEF UnitsOf
    <2> QED BY <2>2, <2>3
  <1>18. g.live \cap Pooled(g) = {} /\ (g.live \cup Pooled(g)) \cap InHand(g) = {}
    <2>1. h.live \cap Pooled(h) = {}
      BY Owners
    <2> QED BY <2>1, <1>4, <1>7, <1>11, <1>15
  <1>19. \A k \in 1..POOLSZ : IsInjective(g.pool[k])
    BY <1>4, Owners
  <1>20. Apart(g.areas) /\ \A a \in g.areas : a.at + a.size <= g.brk
    BY <1>4, Owners
  <1>21. \A b \in g.live : b.size > POOLSZ => b \in g.areas
    <2>1. ~(c.size > POOLSZ)
      BY <1>1, <1>2
    <2> QED BY <2>1, <1>4, Owners
  <1>22. HeapInv(g)
    BY <1>5, <1>16, <1>17, <1>18, <1>19, <1>20, <1>21, Owned
  <1> QED BY <1>1, <1>4, <1>15, <1>22 DEF g, c

\* The first block of a pool.
LEMMA PopOK ==
    ASSUME NEW h, HeapInv(h), NEW n \in 1..POOLSZ, h.pool[n] # <<>>
    PROVE  LET p == Head(h.pool[n])
               g == Given(<<p, [h EXCEPT !.pool[n] = Tail(@)]>>, n)
           IN  /\ HeapInv(g) /\ p \in Nat /\ g.live = h.live \cup {Block(p, n)}
               /\ Block(p, n) \notin h.live
  <1> DEFINE p == Head(h.pool[n])
             s == Tail(h.pool[n])
             f == [h EXCEPT !.pool[n] = Tail(@)]
             g == Given(<<p, f>>, n)
             c == Block(p, n)
  <1>1. /\ h \in HeapT /\ n \in Nat \ {0} /\ POOLSZ \in Nat /\ h.amt_avail \in 0..CHUNK
        /\ h.pool[n] \in Seq(Nat) /\ \A k \in 1..POOLSZ : IsInjective(h.pool[k])
    BY Owners, PartTypes, ZmallocAssumption DEF HeapT
  <1>2. s \in Seq(Nat) /\ p \in Nat
    BY <1>1
  <1>3. f = WithPool(h, n, s, h.amt_avail)
    BY <1>1, <1>2, SameField
  <1>4. g = [f EXCEPT !.live = @ \cup {c}]
    BY DEF Given
  <1>5. c \in BlockT /\ c.size = n
    BY <1>1, <1>2, BlockType
  <1> HIDE DEF f, g, c, p, s
  <1>6. /\ f \in HeapT /\ f.pool = [h.pool EXCEPT ![n] = s] /\ f.avail = h.avail
        /\ f.amt_avail = h.amt_avail /\ f.areas = h.areas /\ f.brk = h.brk /\ f.live = h.live
    BY <1>1, <1>2, <1>3, SetPool
  <1>7. h.live \cup {c} \subseteq BlockT
    BY <1>1, <1>5, PartTypes
  <1>8. g = WithLive(f, h.live \cup {c})
    BY <1>4, <1>6 DEF WithLive
  <1>9. /\ g \in HeapT /\ g.pool = [h.pool EXCEPT ![n] = s] /\ g.avail = h.avail
        /\ g.amt_avail = h.amt_avail /\ g.areas = h.areas /\ g.brk = h.brk
        /\ g.live = h.live \cup {c}
    BY <1>6, <1>7, <1>8, SetLive
  <1>10. g.pool = [h.pool EXCEPT ![n] = Tail(@)]
    BY <1>9 DEF s
  <1>11. /\ c \in Pooled(h) /\ Pooled(g) = Pooled(h) \ {c}
         /\ \A k \in 1..POOLSZ : IsInjective(g.pool[k])
    <2>1. h.pool[n] # <<>> /\ h \in HeapT /\ n \in 1..POOLSZ /\ g \in HeapT /\ \A k \in 1..POOLSZ : IsInjective(h.pool[k])
      BY <1>1, <1>9
    <2> QED BY <2>1, <1>10, PoolPop, ZenonT(30) DEF c, p
  <1>12. InHand(g) = InHand(h)
    BY <1>9 DEF InHand
  <1>13. Parts(h) = g.live \cup Pooled(g) \cup InHand(g)
    BY <1>9, <1>11, <1>12, Owners
  <1>14. c \notin h.live
    BY <1>11, Owners
  <1>15. g.live \cap Pooled(g) = {} /\ (g.live \cup Pooled(g)) \cap InHand(g) = {}
    BY <1>9, <1>11, <1>12, Owners
  <1>16. \A b \in g.live : b.size > POOLSZ => b \in g.areas
    <2>1. ~(c.size > POOLSZ)
      BY <1>1, <1>5
    <2> QED BY <2>1, <1>9, Owners
  <1>17. /\ Apart(Parts(h)) /\ Apart(g.areas) /\ UnitsOf(Parts(h)) = UnitsOf(g.areas)
         /\ \A a \in g.areas : a.at + a.size <= g.brk
    BY <1>9, Owners
  <1>18. HeapInv(g)
    BY <1>9, <1>11, <1>13, <1>15, <1>16, <1>17, Owned
  <1> QED BY <1>2, <1>9, <1>14, <1>18 DEF g, f, c, p

\* zmalloc: a block that no one has, whatever happens inside.
LEMMA zmallocOK ==
    ASSUME NEW h, HeapInv(h), NEW size \in Nat \ {0}
    PROVE  LET t == zmalloc(h, size)
               c == Block(t[1], BytesToBlocks(size))
           IN  /\ HeapInv(t[2]) /\ t[1] \in Nat /\ t[2].live = h.live \cup {c} /\ c \notin h.live
               /\ \A b \in h.live : b.at # t[1]
  <1> DEFINE n == BytesToBlocks(size)
             t == Taken(h, n)
             g == Given(t, n)
             c == Block(t[1], n)
  <1>1. n \in Nat \ {0} /\ POOLSZ \in Nat \ {0} /\ CHUNK \in Nat /\ CHUNK >= POOLSZ
    BY BlocksOf, ZmallocAssumption
  <1>2. h \in HeapT /\ h.amt_avail \in Nat
    BY Owners, PartTypes
  <1>3. zmalloc(h, size) = <<t[1], g>>
    BY DEF zmalloc, Given
  <1> HIDE DEF n
  <1>4. HeapInv(g) /\ t[1] \in Nat /\ g.live = h.live \cup {c} /\ c \notin h.live
    <2>1. CASE IsPoolable(n) /\ h.pool[n] # <<>>
      <3>1. n \in 1..POOLSZ
        BY <1>1, <2>1 DEF IsPoolable
      <3>2. t = <<Head(h.pool[n]), [h EXCEPT !.pool[n] = Tail(@)]>>
        BY <2>1 DEF Taken
      <3>3. t[1] = Head(h.pool[n])
        BY <3>2
      <3> HIDE DEF t
      <3> QED BY <3>1, <3>2, <3>3, <2>1, PopOK
    <2>2. CASE ~(IsPoolable(n) /\ h.pool[n] # <<>>) /\ IsPoolable(n) /\ n <= h.amt_avail
      <3>1. n \in 1..POOLSZ
        BY <1>1, <2>2 DEF IsPoolable
      <3>2. t = FromAvail(h, n)
        BY <2>2 DEF Taken
      <3>3. t[1] = h.avail
        BY <3>2 DEF FromAvail
      <3> HIDE DEF t
      <3> QED BY <3>1, <3>2, <3>3, <2>2, FromAvailOK
    <2>3. CASE ~(IsPoolable(n) /\ h.pool[n] # <<>>) /\ IsPoolable(n) /\ ~(n <= h.amt_avail) /\ Roomy(h)
      <3> DEFINE k == NewChunk(FreeAvail(h))
      <3>1. n \in 1..POOLSZ /\ h.amt_avail <= POOLSZ
        BY <1>1, <1>2, <2>3 DEF IsPoolable
      <3>2. t = FromAvail(k, n)
        BY <2>3 DEF Taken
      <3>3. t[1] = k.avail
        BY <3>2 DEF FromAvail
      <3>4. /\ HeapInv(FreeAvail(h)) /\ FreeAvail(h).amt_avail = 0 /\ FreeAvail(h).live = h.live
        BY <3>1, FreeAvailOK
      <3>5. HeapInv(k) /\ k.amt_avail = CHUNK /\ k.live = h.live
        BY <3>4, NewChunkOK
      <3> HIDE DEF k, t
      <3>6. n <= k.amt_avail
        BY <3>1, <3>5, <1>1
      <3> QED BY <3>1, <3>2, <3>3, <3>5, <3>6, FromAvailOK
    <2>4. CASE ~(IsPoolable(n) /\ h.pool[n] # <<>>) /\ ~(IsPoolable(n) /\ (n <= h.amt_avail \/ Roomy(h)))
      <3> DEFINE k == IF IsPoolable(n) THEN FreeAvail(h) ELSE h
      <3>1. t = <<h.brk, Malloc(k, n)>>
        BY <2>4 DEF Taken
      <3>2. HeapInv(k) /\ k.live = h.live /\ k.brk = h.brk
        <4>1. CASE IsPoolable(n)
          <5>1. h.amt_avail <= POOLSZ
            BY <1>1, <1>2, <2>4, <4>1 DEF IsPoolable
          <5> QED BY <5>1, <4>1, FreeAvailOK
        <4> QED BY <4>1
      <3>3. t[1] = h.brk
        BY <3>1
      <3> HIDE DEF k, t
      <3> QED BY <3>1, <3>2, <3>3, <1>1, MallocOK
    <2> QED BY <2>1, <2>2, <2>3, <2>4
  <1> HIDE DEF g, t
  <1>5. ASSUME NEW b \in h.live PROVE b.at # t[1]
    <2>1. b \in Parts(g) /\ c \in Parts(g) /\ b # c /\ g \in HeapT
      BY <1>4, Owners
    <2>2. Units(b) \cap Units(c) = {}
      BY <2>1, <1>4, Owners DEF Apart
    <2>3. b.at \in Units(b)
      BY <2>1, PartTypes, BlockIs
    <2>4. t[1] \in Units(c)
      BY <1>1, <1>4, BlockType
    <2> QED BY <2>2, <2>3, <2>4
  <1>6. zmalloc(h, size)[1] = t[1] /\ zmalloc(h, size)[2] = g
    BY <1>3
  <1> QED BY <1>4, <1>5, <1>6 DEF n

\* zfree of a block that was given out: that block is gone, no other.
LEMMA zfreeOK ==
    ASSUME NEW h, HeapInv(h), NEW size \in Nat \ {0}, NEW p \in Nat,
           Block(p, BytesToBlocks(size)) \in h.live
    PROVE  LET g == zfree(h, p, size)
           IN  HeapInv(g) /\ g.live = h.live \ {Block(p, BytesToBlocks(size))}
  <1> DEFINE n == BytesToBlocks(size)
             c == Block(p, n)
             f == [h EXCEPT !.live = @ \ {c}]
             g == zfree(h, p, size)
             L == h.live \ {c}
  <1>1. n \in Nat \ {0} /\ POOLSZ \in Nat \ {0} /\ h \in HeapT
    BY BlocksOf, ZmallocAssumption, Owners
  <1>2. L \subseteq BlockT /\ f = WithLive(h, L)
    BY <1>1, PartTypes DEF WithLive
  <1>3. c.size = n /\ p \in Units(c)
    BY <1>1, BlockType
  <1>4. c \in h.live /\ c \notin Pooled(h) /\ c \notin InHand(h)
    BY Owners
  <1>5. /\ Apart(Parts(h)) /\ UnitsOf(Parts(h)) = UnitsOf(h.areas)
        /\ Parts(h) = h.live \cup Pooled(h) \cup InHand(h)
        /\ h.live \cap Pooled(h) = {} /\ (h.live \cup Pooled(h)) \cap InHand(h) = {}
    BY Owners
  <1>6. g = IF IsPoolable(n) THEN [f EXCEPT !.pool[n] = <<p>> \o @]
            ELSE [f EXCEPT !.areas = @ \ {c}]
    BY DEF zfree
  <1> HIDE DEF n, c, f, g, L
  <1>7. /\ f \in HeapT /\ f.pool = h.pool /\ f.avail = h.avail /\ f.amt_avail = h.amt_avail
        /\ f.areas = h.areas /\ f.brk = h.brk /\ f.live = L
    BY <1>1, <1>2, SetLive
  <1>8. Pooled(f) = Pooled(h) /\ InHand(f) = InHand(h)
    BY <1>7, SamePools DEF InHand
  <1>9. CASE IsPoolable(n)
    <2> DEFINE s == <<p>> \o f.pool[n]
    <2>1. n \in 1..POOLSZ
      BY <1>1, <1>9 DEF IsPoolable
    <2>2. f.pool[n] \in Seq(Nat) /\ f.amt_avail \in 0..CHUNK
      BY <2>1, <1>7, PartTypes DEF HeapT
    <2>3. s \in Seq(Nat)
      BY <2>2, PrependProps
    <2>4. g = WithPool(f, n, s, f.amt_avail)
      <3>1. g = [f EXCEPT !.pool[n] = s]
        BY <1>6, <1>9
      <3> HIDE DEF s
      <3>2. [f EXCEPT !.pool[n] = s] = WithPool(f, n, s, f.amt_avail)
        BY <1>7, <2>1, <2>3, SameField
      <3> QED BY <3>1, <3>2
    <2> HIDE DEF s
    <2>5. /\ g \in HeapT /\ g.pool = [f.pool EXCEPT ![n] = s] /\ g.avail = f.avail
          /\ g.amt_avail = f.amt_avail /\ g.areas = f.areas /\ g.brk = f.brk /\ g.live = f.live
      BY <2>1, <2>2, <2>3, <2>4, <1>7, SetPool
    <2>6. g.pool = [f.pool EXCEPT ![n] = <<p>> \o @]
      BY <2>5 DEF s
    <2>7. \A k \in 1..POOLSZ : IsInjective(f.pool[k])
      BY <1>7, Owners
    <2>8. Pooled(g) = Pooled(f) \cup {c} /\ \A k \in 1..POOLSZ : IsInjective(g.pool[k])
      BY <2>1, <2>5, <2>6, <2>7, <1>4, <1>7, <1>8, PoolPush DEF c
    <2>9. InHand(g) = InHand(h)
      BY <2>5, <1>7 DEF InHand
    <2>10. Parts(h) = g.live \cup Pooled(g) \cup InHand(g)
      BY <2>5, <2>8, <2>9, <1>4, <1>5, <1>7, <1>8 DEF L
    <2>11. g.live \cap Pooled(g) = {} /\ (g.live \cup Pooled(g)) \cap InHand(g) = {}
      BY <2>5, <2>8, <2>9, <1>4, <1>5, <1>7, <1>8 DEF L
    <2>12. /\ Apart(g.areas) /\ UnitsOf(Parts(h)) = UnitsOf(g.areas)
           /\ \A a \in g.areas : a.at + a.size <= g.brk
           /\ \A b \in g.live : b.size > POOLSZ => b \in g.areas
      BY <2>5, <1>7, Owners DEF L
    <2>13. HeapInv(g)
      BY <2>5, <2>8, <2>10, <2>11, <2>12, <1>5, Owned
    <2> QED BY <2>5, <2>13, <1>7 DEF g, c, n, L
  <1>10. CASE ~IsPoolable(n)
    <2> DEFINE A == h.areas \ {c}
               P == Parts(h) \ {c}
    <2>1. c \in h.areas
      <3>1. c.size > POOLSZ
        BY <1>1, <1>3, <1>10 DEF IsPoolable
      <3> QED BY <3>1, <1>4, Owners
    <2>2. A \subseteq BlockT /\ h.brk \in Nat
      BY <1>1, PartTypes
    <2>3. g = WithAreas(f, A, f.brk)
      <3>1. g = [f EXCEPT !.areas = A]
        BY <1>6, <1>7, <1>10
      <3>2. [f EXCEPT !.areas = A] = WithAreas(f, A, f.brk)
        <4>1. 1 \in 1..POOLSZ /\ f.pool[1] \in Seq(Nat)
          BY <1>1, <1>7, PartTypes
        <4> HIDE DEF A
        <4> QED BY <4>1, <2>2, <1>7, SameField
      <3> QED BY <3>1, <3>2
    <2> HIDE DEF A
    <2>4. /\ g \in HeapT /\ g.pool = f.pool /\ g.avail = f.avail /\ g.amt_avail = f.amt_avail
          /\ g.areas = A /\ g.brk = f.brk /\ g.live = f.live
      BY <2>2, <2>3, <1>7, SetAreas
    <2>5. Pooled(g) = Pooled(h) /\ InHand(g) = InHand(h)
      BY <2>4, <1>7, SamePools DEF InHand
    <2>6. P = g.live \cup Pooled(g) \cup InHand(g)
      BY <2>4, <2>5, <1>4, <1>5, <1>7 DEF L
    <2>7. Apart(P) /\ Apart(g.areas)
      BY <2>4, <1>5, Owners DEF Apart, A
    <2>8. UnitsOf(P) = UnitsOf(g.areas)
      <3>1. \A b \in P : Units(b) \cap Units(c) = {}
        BY <1>4, <1>5 DEF Apart
      <3>2. \A b \in A : Units(b) \cap Units(c) = {}
        BY <2>1, Owners DEF Apart, A
      <3>3. c \in Parts(h)
        BY <1>4, <1>5
      <3>4. ASSUME NEW u PROVE u \in UnitsOf(P) <=> u \in UnitsOf(A)
        <4>1. u \in UnitsOf(P) <=> u \in UnitsOf(Parts(h)) /\ u \notin Units(c)
          BY <3>1, <3>3, InUnits
        <4>2. u \in UnitsOf(A) <=> u \in UnitsOf(h.areas) /\ u \notin Units(c)
          BY <3>2, <2>1, InUnits DEF A
        <4> QED BY <4>1, <4>2, <1>5
      <3> HIDE DEF P
      <3> QED BY <3>4, <2>4
    <2>9. g.live \cap Pooled(g) = {} /\ (g.live \cup Pooled(g)) \cap InHand(g) = {}
      BY <2>4, <2>5, <1>5, <1>7 DEF L
    <2>10. \A k \in 1..POOLSZ : IsInjective(g.pool[k])
      BY <2>4, <1>7, Owners
    <2>11. /\ \A a \in g.areas : a.at + a.size <= g.brk
           /\ \A b \in g.live : b.size > POOLSZ => b \in g.areas
      BY <2>4, <1>7, Owners DEF A, L
    <2>12. HeapInv(g)
      BY <2>4, <2>6, <2>7, <2>8, <2>9, <2>10, <2>11, Owned
    <2> QED BY <2>4, <2>12, <1>7 DEF g, c, n, L
  <1> QED BY <1>9, <1>10

\* Before anything is taken.
LEMMA NoMemoryOK == HeapInv(NoMemory) /\ NoMemory.live = {}
  <1> DEFINE h == NoMemory
  <1>1. /\ h.pool = [k \in 1..POOLSZ |-> <<>>] /\ h.avail = 0 /\ h.amt_avail = 0
        /\ h.areas = {} /\ h.brk = 0 /\ h.live = {}
    BY DEF NoMemory
  <1>2. h \in HeapT
    <2>1. [k \in 1..POOLSZ |-> <<>>] \in [1..POOLSZ -> Seq(Nat)] /\ 0 \in 0..CHUNK
      BY ZmallocAssumption
    <2> QED BY <2>1 DEF NoMemory, HeapT
  <1> HIDE DEF h
  <1>3. \A k \in 1..POOLSZ : h.pool[k] = <<>>
    BY <1>1
  <1>4. Pooled(h) = {}
    BY <1>3 DEF Pooled
  <1>5. InHand(h) = {}
    BY <1>1 DEF InHand
  <1>6. \A k \in 1..POOLSZ : IsInjective(h.pool[k])
    BY <1>3 DEF IsInjective
  <1>7. HeapInv(h)
    BY <1>1, <1>2, <1>4, <1>5, <1>6, Owned DEF Apart, UnitsOf
  <1> QED BY <1>1, <1>7 DEF h

-----------------------------------------------------------------------------
(* The table: its fields, and what an operation writes.                    *)

AllNames == Ids \cup Keywords
Symbol == [name : AllNames, type : Types]
SymMaps == UNION {[D -> Symbol] : D \in SUBSET Nat}
TabT == [z : HeapT, hash_table : [Buckets -> Seq(Nat)], save_list : Seq(Nat),
         last_hash : Buckets, symtab : SymMaps]

\* The nodes of a map, and what is a map of nodes.
LEMMA MapType ==
    ASSUME NEW m \in SymMaps
    PROVE  /\ m \in [DOMAIN m -> Symbol] /\ DOMAIN m \subseteq Nat
           /\ \A p \in DOMAIN m : /\ m[p] \in Symbol /\ m[p].name \in AllNames /\ m[p].type \in Types
                                  /\ m[p] = [name |-> m[p].name, type |-> m[p].type]
  <1>1. m \in [DOMAIN m -> Symbol] /\ DOMAIN m \subseteq Nat
    BY DEF SymMaps
  <1>2. \A v \in Symbol : /\ v.name \in AllNames /\ v.type \in Types
                          /\ v = [name |-> v.name, type |-> v.type]
    BY DEF Symbol
  <1> QED BY <1>1, <1>2

LEMMA MapIs ==
    ASSUME NEW D, D \subseteq Nat, NEW m \in [D -> Symbol]
    PROVE  m \in SymMaps
  BY DEF SymMaps

\* The fields of a table, and the table that the variables become.
LEMMA TabFields ==
    ASSUME NEW s \in TabT
    PROVE  /\ s.z \in HeapT /\ s.hash_table \in [Buckets -> Seq(Nat)] /\ s.save_list \in Seq(Nat)
           /\ s.last_hash \in Buckets /\ s.symtab \in SymMaps
           /\ s = [z |-> s.z, hash_table |-> s.hash_table, save_list |-> s.save_list,
                   last_hash |-> s.last_hash, symtab |-> s.symtab]
  BY DEF TabT

LEMMA BecomesIs ==
    ASSUME NEW s \in TabT, Becomes(s)
    PROVE  S' = s
  BY TabFields DEF S, Becomes

WithList(s, b, l) == [s EXCEPT !.hash_table[b] = l]
WithSymtab(s, m) == [s EXCEPT !.symtab = m]
WithHeap(s, h) == [s EXCEPT !.z = h]

LEMMA SetList ==
    ASSUME NEW s \in TabT, NEW b \in Buckets, NEW l \in Seq(Nat)
    PROVE  LET g == WithList(s, b, l)
           IN  /\ g \in TabT /\ g.hash_table = [s.hash_table EXCEPT ![b] = l] /\ g.z = s.z
               /\ g.save_list = s.save_list /\ g.last_hash = s.last_hash /\ g.symtab = s.symtab
  <1> DEFINE P == [s.hash_table EXCEPT ![b] = l]
             g == WithList(s, b, l)
  <1>1. P \in [Buckets -> Seq(Nat)]
    BY DEF TabT
  <1>2. g = [s EXCEPT !.hash_table = P]
    BY DEF WithList
  <1> HIDE DEF P, g
  <1>3. /\ g \in TabT /\ g.hash_table = P /\ g.z = s.z /\ g.save_list = s.save_list
        /\ g.last_hash = s.last_hash /\ g.symtab = s.symtab
    BY <1>1, <1>2 DEF TabT
  <1> QED BY <1>3 DEF P, g

LEMMA SetSymtab ==
    ASSUME NEW s \in TabT, NEW m \in SymMaps
    PROVE  LET g == WithSymtab(s, m)
           IN  /\ g \in TabT /\ g.hash_table = s.hash_table /\ g.z = s.z /\ g.symtab = m
               /\ g.save_list = s.save_list /\ g.last_hash = s.last_hash
  BY DEF TabT, WithSymtab

LEMMA SetHeap ==
    ASSUME NEW s \in TabT, NEW h \in HeapT
    PROVE  LET g == WithHeap(s, h)
           IN  /\ g \in TabT /\ g.hash_table = s.hash_table /\ g.z = h /\ g.symtab = s.symtab
               /\ g.save_list = s.save_list /\ g.last_hash = s.last_hash
  BY DEF TabT, WithHeap

\* The operations of the table that are made of these.
LEMMA PutFields ==
    ASSUME NEW s \in TabT, NEW b \in Buckets, NEW p \in Nat
    PROVE  LET g == PutFront(s, b, p)
           IN  /\ g \in TabT /\ g.hash_table = [s.hash_table EXCEPT ![b] = <<p>> \o s.hash_table[b]]
               /\ g.z = s.z /\ g.save_list = s.save_list /\ g.last_hash = s.last_hash
               /\ g.symtab = s.symtab
  <1> DEFINE l == <<p>> \o s.hash_table[b]
  <1>1. s.hash_table[b] \in Seq(Nat)
    BY TabFields
  <1>2. l \in Seq(Nat)
    BY <1>1, PrependProps
  <1>3. PutFront(s, b, p) = WithList(s, b, l)
    BY DEF PutFront, WithList
  <1> HIDE DEF l
  <1>4. LET g == WithList(s, b, l)
        IN  /\ g \in TabT /\ g.hash_table = [s.hash_table EXCEPT ![b] = l] /\ g.z = s.z
            /\ g.save_list = s.save_list /\ g.last_hash = s.last_hash /\ g.symtab = s.symtab
    BY <1>2, SetList
  <1> QED BY <1>3, <1>4 DEF l

LEMMA WriteFields ==
    ASSUME NEW s \in TabT, NEW p \in Nat, NEW name \in AllNames, NEW type \in Types
    PROVE  LET g == Write(s, p, name, type)
           IN  /\ g \in TabT /\ g.hash_table = s.hash_table /\ g.z = s.z
               /\ g.save_list = s.save_list /\ g.last_hash = s.last_hash
               /\ DOMAIN g.symtab = DOMAIN s.symtab \cup {p}
               /\ g.symtab[p] = [name |-> name, type |-> type]
               /\ \A q \in DOMAIN s.symtab \ {p} : g.symtab[q] = s.symtab[q]
  <1> DEFINE D == DOMAIN s.symtab \cup {p}
             v == [name |-> name, type |-> type]
             m == [q \in D |-> IF q = p THEN v ELSE s.symtab[q]]
             g == Write(s, p, name, type)
  <1>1. m \in SymMaps
    <2>1. s.symtab \in [DOMAIN s.symtab -> Symbol] /\ DOMAIN s.symtab \subseteq Nat
      BY TabFields, MapType
    <2>2. v \in Symbol
      BY DEF Symbol
    <2> HIDE DEF v
    <2>3. m \in [D -> Symbol]
      BY <2>1, <2>2
    <2>4. D \subseteq Nat
      BY <2>1
    <2> QED BY <2>3, <2>4, MapIs
  <1>2. g = WithSymtab(s, m)
    BY DEF Write, WithSymtab
  <1>3. DOMAIN m = D /\ m[p] = v /\ \A q \in DOMAIN s.symtab \ {p} : m[q] = s.symtab[q]
    OBVIOUS
  <1> HIDE DEF m, g
  <1>4. /\ g \in TabT /\ g.hash_table = s.hash_table /\ g.z = s.z /\ g.symtab = m
        /\ g.save_list = s.save_list /\ g.last_hash = s.last_hash
    BY <1>1, <1>2, SetSymtab
  <1> QED BY <1>3, <1>4 DEF g

Retyped(s, p, type) == [s EXCEPT !.symtab[p].type = type]

\* The type of a node.
LEMMA RetypeFields ==
    ASSUME NEW s \in TabT, NEW p \in DOMAIN s.symtab, NEW type \in Types
    PROVE  LET g == Retyped(s, p, type)
           IN  /\ g \in TabT /\ g.hash_table = s.hash_table /\ g.z = s.z
               /\ g.save_list = s.save_list /\ g.last_hash = s.last_hash
               /\ DOMAIN g.symtab = DOMAIN s.symtab
               /\ g.symtab[p] = [name |-> s.symtab[p].name, type |-> type]
               /\ \A q \in DOMAIN s.symtab \ {p} : g.symtab[q] = s.symtab[q]
  <1> DEFINE m == [s.symtab EXCEPT ![p].type = type]
             g == Retyped(s, p, type)
             v == [name |-> s.symtab[p].name, type |-> type]
             u == s.symtab[p]
  <1>1. /\ s.symtab \in [DOMAIN s.symtab -> Symbol] /\ DOMAIN s.symtab \subseteq Nat /\ u \in Symbol
        /\ u.name \in AllNames
    BY TabFields, MapType
  <1>2. [u EXCEPT !.type = type] = v /\ v \in Symbol
    <2> HIDE DEF u
    <2>1. [u EXCEPT !.type = type] = [name |-> u.name, type |-> type]
      BY <1>1 DEF Symbol
    <2>2. [name |-> u.name, type |-> type] \in Symbol
      BY <1>1 DEF Symbol
    <2> QED BY <2>1, <2>2 DEF u
  <1>3. m = [s.symtab EXCEPT ![p] = v]
    BY <1>2
  <1>4. g = WithSymtab(s, m)
    BY DEF WithSymtab, Retyped
  <1> HIDE DEF m, g, v, u
  <1>5. m \in [DOMAIN s.symtab -> Symbol] /\ m[p] = v /\ \A q \in DOMAIN s.symtab \ {p} : m[q] = s.symtab[q]
    BY <1>1, <1>2, <1>3
  <1>6. m \in SymMaps
    BY <1>1, <1>5, MapIs
  <1>7. /\ g \in TabT /\ g.hash_table = s.hash_table /\ g.z = s.z /\ g.symtab = m
        /\ g.save_list = s.save_list /\ g.last_hash = s.last_hash
    BY <1>4, <1>6, SetSymtab
  <1> QED BY <1>5, <1>7 DEF g, v

\* The table after a node is freed.
LEMMA FreeFields ==
    ASSUME NEW s \in TabT, NEW p, zfree(s.z, p, NodeSize) \in HeapT
    PROVE  LET g == FreeNode(s, p)
           IN  /\ g \in TabT /\ g.hash_table = s.hash_table /\ g.z = zfree(s.z, p, NodeSize)
               /\ g.save_list = s.save_list /\ g.last_hash = s.last_hash
               /\ DOMAIN g.symtab = DOMAIN s.symtab \ {p}
               /\ \A q \in DOMAIN s.symtab \ {p} : g.symtab[q] = s.symtab[q]
  <1> DEFINE m == Restrict(s.symtab, DOMAIN s.symtab \ {p})
             h == zfree(s.z, p, NodeSize)
             g == FreeNode(s, p)
             t == WithSymtab(s, m)
  <1>1. s.symtab \in [DOMAIN s.symtab -> Symbol] /\ DOMAIN s.symtab \subseteq Nat
    BY TabFields, MapType
  <1>2. /\ m \in [DOMAIN s.symtab \ {p} -> Symbol] /\ DOMAIN m = DOMAIN s.symtab \ {p}
        /\ \A q \in DOMAIN s.symtab \ {p} : m[q] = s.symtab[q]
    BY <1>1 DEF Restrict
  <1>3. DOMAIN s.symtab \ {p} \subseteq Nat
    BY <1>1
  <1>4. m \in SymMaps
    BY <1>2, <1>3, MapIs
  <1>5. g = [s EXCEPT !.symtab = m, !.z = h]
    BY DEF FreeNode
  <1> HIDE DEF m, h, g
  <1>6. g = WithHeap(t, h)
    BY <1>5 DEF WithHeap, WithSymtab
  <1> HIDE DEF t
  <1>7. /\ t \in TabT /\ t.hash_table = s.hash_table /\ t.z = s.z /\ t.symtab = m
        /\ t.save_list = s.save_list /\ t.last_hash = s.last_hash
    BY <1>4, SetSymtab DEF t
  <1>8. h \in HeapT
    BY DEF h
  <1>9. /\ g \in TabT /\ g.hash_table = t.hash_table /\ g.z = h /\ g.symtab = t.symtab
        /\ g.save_list = t.save_list /\ g.last_hash = t.last_hash
    BY <1>6, <1>7, <1>8, SetHeap
  <1> QED BY <1>2, <1>7, <1>9 DEF g, h

-----------------------------------------------------------------------------
(* The lists of a table.                                                   *)

\* A list gets one more node in front, or loses one.
LEMMA ListPut ==
    ASSUME NEW l \in Seq(Nat), NEW p \in Nat, NoTwice(l), p \notin ToSet(l)
    PROVE  /\ <<p>> \o l \in Seq(Nat) /\ NoTwice(<<p>> \o l) /\ ToSet(<<p>> \o l) = ToSet(l) \cup {p}
           /\ Head(<<p>> \o l) = p /\ Len(<<p>> \o l) = Len(l) + 1
  <1> DEFINE k == <<p>>
  <1>1. k \in Seq(Nat) /\ ToSet(k) = {p} /\ NoTwice(k)
    BY DEF ToSet, NoTwice
  <1>2. ToSet(k) \cap ToSet(l) = {}
    BY <1>1
  <1>3. Head(k \o l) = p /\ Len(k \o l) = Len(l) + 1
    OBVIOUS
  <1> HIDE DEF k
  <1>4. k \o l \in Seq(Nat) /\ ToSet(k \o l) = ToSet(k) \cup ToSet(l) /\ NoTwice(k \o l)
    BY <1>1, <1>2, JoinProps
  <1> QED BY <1>1, <1>3, <1>4 DEF k

LEMMA ListCut ==
    ASSUME NEW l \in Seq(Nat), NEW i \in 1..Len(l), NoTwice(l)
    PROVE  /\ RemoveAt(l, i) \in Seq(Nat) /\ NoTwice(RemoveAt(l, i))
           /\ ToSet(RemoveAt(l, i)) = ToSet(l) \ {l[i]} /\ l[i] \in ToSet(l)
  <1> DEFINE r == RemoveAt(l, i)
             n == Len(l)
  <1>1. n \in Nat /\ DOMAIN l = 1..n /\ i \in 1..n
    OBVIOUS
  <1>2. r \in Seq(Nat) /\ Len(r) = n - 1 /\ \A j \in 1..n - 1 : r[j] = IF j < i THEN l[j] ELSE l[j + 1]
    BY RemoveAtProps
  <1>3. \A j, k \in 1..n : l[j] = l[k] => j = k
    BY DEF NoTwice
  <1> HIDE DEF r, n
  <1>4. DOMAIN r = 1..n - 1
    BY <1>2
  <1> DEFINE up(j) == IF j < i THEN j ELSE j + 1
  <1>5. \A j \in 1..n - 1 : up(j) \in 1..n /\ up(j) # i /\ r[j] = l[up(j)]
    BY <1>1, <1>2
  <1>6. \A j, k \in 1..n - 1 : up(j) = up(k) => j = k
    BY <1>1
  <1>7. \A k \in 1..n : k # i => \E j \in 1..n - 1 : up(j) = k
    <2>1. ASSUME NEW k \in 1..n, k # i PROVE \E j \in 1..n - 1 : up(j) = k
      <3>1. CASE k < i
        BY <3>1, <1>1
      <3>2. CASE k > i
        <4>1. k - 1 \in 1..n - 1 /\ up(k - 1) = k
          BY <3>2, <1>1
        <4> QED BY <4>1
      <3> QED BY <3>1, <3>2, <2>1, <1>1
    <2> QED BY <2>1
  <1> HIDE DEF up
  <1>8. NoTwice(r)
    <2>1. ASSUME NEW j \in 1..n - 1, NEW k \in 1..n - 1, r[j] = r[k] PROVE j = k
      BY <2>1, <1>3, <1>5, <1>6
    <2> QED BY <2>1, <1>2 DEF NoTwice
  <1>9. ToSet(r) = ToSet(l) \ {l[i]}
    <2>1. ToSet(r) = {r[j] : j \in 1..n - 1} /\ ToSet(l) = {l[j] : j \in 1..n}
      BY <1>1, <1>4 DEF ToSet
    <2>2. ASSUME NEW x \in ToSet(r) PROVE x \in ToSet(l) /\ x # l[i]
      BY <2>1, <2>2, <1>1, <1>3, <1>5
    <2>3. ASSUME NEW x \in ToSet(l), x # l[i] PROVE x \in ToSet(r)
      <3>1. PICK k \in 1..n : x = l[k]
        BY <2>1, <2>3
      <3>2. PICK j \in 1..n - 1 : up(j) = k
        BY <3>1, <2>3, <1>7
      <3> QED BY <3>1, <3>2, <2>1, <1>5
    <2> QED BY <2>2, <2>3
  <1>10. l[i] \in ToSet(l)
    BY <1>1 DEF ToSet
  <1> QED BY <1>2, <1>8, <1>9, <1>10 DEF r

\* The nodes N are in the table, each in the bucket of its name, each once.
Filed(ht, m, N) ==
    /\ N \subseteq DOMAIN m
    /\ \A b \in Buckets : /\ NoTwice(ht[b])
                          /\ ToSet(ht[b]) = {p \in N : hash(m[p].name) = b}

\* One node more, where the names of the others stay.
LEMMA FiledPut ==
    ASSUME NEW ht \in [Buckets -> Seq(Nat)], NEW m, NEW N, Filed(ht, m, N), NEW p \in Nat, p \notin N,
           NEW mm, p \in DOMAIN mm, N \subseteq DOMAIN mm, \A q \in N : mm[q].name = m[q].name,
           NEW b \in Buckets, hash(mm[p].name) = b
    PROVE  Filed([ht EXCEPT ![b] = <<p>> \o ht[b]], mm, N \cup {p})
  <1> DEFINE g == [ht EXCEPT ![b] = <<p>> \o ht[b]]
             l == ht[b]
  <1>1. N \cup {p} \subseteq DOMAIN mm
    OBVIOUS
  <1>2. ASSUME NEW c \in Buckets
        PROVE  NoTwice(g[c]) /\ ToSet(g[c]) = {q \in N \cup {p} : hash(mm[q].name) = c}
    <2>1. NoTwice(ht[c]) /\ ToSet(ht[c]) = {q \in N : hash(mm[q].name) = c}
      BY DEF Filed
    <2>2. CASE c # b
      <3>1. g[c] = ht[c]
        BY <2>2
      <3> HIDE DEF g
      <3> QED BY <2>1, <2>2, <3>1
    <2>3. CASE c = b
      <3>1. g[c] = <<p>> \o l
        BY <2>3
      <3>2. l \in Seq(Nat) /\ NoTwice(l) /\ p \notin ToSet(l)
        BY <2>1, <2>3
      <3>3. ToSet(l) = {q \in N : hash(mm[q].name) = b}
        BY <2>1, <2>3
      <3> HIDE DEF g, l
      <3>4. NoTwice(g[c]) /\ ToSet(g[c]) = ToSet(l) \cup {p}
        BY <3>1, <3>2, ListPut
      <3> QED BY <3>3, <3>4, <2>3
    <2> QED BY <2>2, <2>3
  <1> HIDE DEF g
  <1>3. Filed(g, mm, N \cup {p})
    BY <1>1, <1>2 DEF Filed
  <1> QED BY <1>3 DEF g

\* One node less.
LEMMA FiledCut ==
    ASSUME NEW ht \in [Buckets -> Seq(Nat)], NEW m, NEW N, Filed(ht, m, N),
           NEW b \in Buckets, NEW i \in 1..Len(ht[b])
    PROVE  /\ ht[b][i] \in N /\ hash(m[ht[b][i]].name) = b /\ RemoveAt(ht[b], i) \in Seq(Nat)
           /\ [ht EXCEPT ![b] = RemoveAt(ht[b], i)] \in [Buckets -> Seq(Nat)]
           /\ Filed([ht EXCEPT ![b] = RemoveAt(ht[b], i)], m, N \ {ht[b][i]})
  <1> DEFINE r == RemoveAt(ht[b], i)
             g == [ht EXCEPT ![b] = r]
             p == ht[b][i]
             l == ht[b]
  <1>1. l \in Seq(Nat) /\ NoTwice(l) /\ ToSet(l) = {q \in N : hash(m[q].name) = b}
    BY DEF Filed
  <1>2. r \in Seq(Nat) /\ NoTwice(r) /\ ToSet(r) = ToSet(l) \ {p} /\ p \in ToSet(l)
    BY <1>1, ListCut
  <1>3. p \in N /\ hash(m[p].name) = b
    BY <1>1, <1>2
  <1>4. g \in [Buckets -> Seq(Nat)] /\ g[b] = r /\ \A c \in Buckets : c # b => g[c] = ht[c]
    BY <1>2
  <1> HIDE DEF g, r, p, l
  <1>5. ASSUME NEW c \in Buckets
        PROVE  NoTwice(g[c]) /\ ToSet(g[c]) = {q \in N \ {p} : hash(m[q].name) = c}
    <2>1. NoTwice(ht[c]) /\ ToSet(ht[c]) = {q \in N : hash(m[q].name) = c}
      BY DEF Filed
    <2>2. CASE c # b
      BY <2>1, <2>2, <1>3, <1>4
    <2>3. CASE c = b
      BY <2>3, <1>1, <1>2, <1>4
    <2> QED BY <2>2, <2>3
  <1>6. N \ {p} \subseteq DOMAIN m
    BY DEF Filed
  <1>7. Filed(g, m, N \ {p})
    BY <1>5, <1>6 DEF Filed
  <1> QED BY <1>2, <1>3, <1>4, <1>7 DEF g, r, p, l

\* Other types, or other nodes elsewhere.
LEMMA FiledSame ==
    ASSUME NEW ht, NEW m, NEW N, Filed(ht, m, N), NEW mm, N \subseteq DOMAIN mm,
           \A q \in N : mm[q].name = m[q].name
    PROVE  Filed(ht, mm, N)
  BY DEF Filed

-----------------------------------------------------------------------------
(* Whose blocks the heap has given out.                                    *)

NodeBlock(p) == Block(p, BytesToBlocks(NodeSize))
BlocksOfNodes(D) == {NodeBlock(p) : p \in D}
OtherT == [at : Nat, bytes : Nat \ {0}]
OtherBlock(o) == Block(o.at, BytesToBlocks(o.bytes))
BlocksOfOthers(oth) == {OtherBlock(o) : o \in oth}
TextBlocks(L, D, oth) == L \ (BlocksOfNodes(D) \cup BlocksOfOthers(oth))

\* The blocks L are the nodes D, what the rest of mawk has, and as many texts
\* as there are names in W.
Held(L, D, W, oth) ==
    /\ BlocksOfNodes(D) \subseteq L /\ BlocksOfOthers(oth) \subseteq L
    /\ BlocksOfNodes(D) \cap BlocksOfOthers(oth) = {}
    /\ oth \subseteq OtherT /\ \A a, b \in oth : OtherBlock(a) = OtherBlock(b) => a = b
    /\ IsFiniteSet(D) /\ IsFiniteSet(W) /\ IsFiniteSet(oth) /\ IsFiniteSet(TextBlocks(L, D, oth))
    /\ Cardinality(TextBlocks(L, D, oth)) = Cardinality(W)

\* A node has a block of its own.
LEMMA NodeBlockIs ==
    ASSUME NEW p, NEW q
    PROVE  NodeBlock(p) = NodeBlock(q) <=> p = q
  BY BlockEqual DEF NodeBlock

LEMMA BlocksPlus ==
    ASSUME NEW D, NEW p
    PROVE  /\ BlocksOfNodes(D \cup {p}) = BlocksOfNodes(D) \cup {NodeBlock(p)}
           /\ p \notin D => /\ NodeBlock(p) \notin BlocksOfNodes(D)
           /\ BlocksOfNodes(D \ {p}) = BlocksOfNodes(D) \ {NodeBlock(p)}
           /\ p \in D => NodeBlock(p) \in BlocksOfNodes(D)
  BY NodeBlockIs DEF BlocksOfNodes

\* A node more.
LEMMA HeldNode ==
    ASSUME NEW L, NEW D, NEW W, NEW oth, Held(L, D, W, oth), NEW p, NodeBlock(p) \notin L
    PROVE  p \notin D /\ Held(L \cup {NodeBlock(p)}, D \cup {p}, W, oth)
  <1> DEFINE c == NodeBlock(p)
             E == D \cup {p}
             K == L \cup {c}
  <1>1. /\ BlocksOfNodes(D) \subseteq L /\ BlocksOfOthers(oth) \subseteq L
        /\ BlocksOfNodes(D) \cap BlocksOfOthers(oth) = {}
        /\ oth \subseteq OtherT /\ \A a, b \in oth : OtherBlock(a) = OtherBlock(b) => a = b
        /\ IsFiniteSet(D) /\ IsFiniteSet(W) /\ IsFiniteSet(oth) /\ IsFiniteSet(TextBlocks(L, D, oth))
        /\ Cardinality(TextBlocks(L, D, oth)) = Cardinality(W)
    BY DEF Held
  <1>2. p \notin D
    BY <1>1, BlocksPlus
  <1>3. BlocksOfNodes(E) = BlocksOfNodes(D) \cup {c}
    BY BlocksPlus
  <1>4. IsFiniteSet(E)
    BY <1>1, FS_AddElement
  <1> HIDE DEF c, E, K
  <1>5. c \notin L /\ K = L \cup {c}
    BY DEF c, K
  <1>6. TextBlocks(K, E, oth) = TextBlocks(L, D, oth)
    BY <1>1, <1>3, <1>5 DEF TextBlocks
  <1>7. /\ BlocksOfNodes(E) \subseteq K /\ BlocksOfOthers(oth) \subseteq K
        /\ BlocksOfNodes(E) \cap BlocksOfOthers(oth) = {}
    BY <1>1, <1>3, <1>5
  <1>8. Held(K, E, W, oth)
    BY <1>1, <1>4, <1>6, <1>7 DEF Held
  <1> QED BY <1>2, <1>8 DEF c, E, K

\* A node less.
LEMMA HeldFree ==
    ASSUME NEW L, NEW D, NEW W, NEW oth, Held(L, D, W, oth), NEW p \in D
    PROVE  NodeBlock(p) \in L /\ Held(L \ {NodeBlock(p)}, D \ {p}, W, oth)
  <1> DEFINE c == NodeBlock(p)
             E == D \ {p}
             K == L \ {c}
  <1>1. /\ BlocksOfNodes(D) \subseteq L /\ BlocksOfOthers(oth) \subseteq L
        /\ BlocksOfNodes(D) \cap BlocksOfOthers(oth) = {}
        /\ oth \subseteq OtherT /\ \A a, b \in oth : OtherBlock(a) = OtherBlock(b) => a = b
        /\ IsFiniteSet(D) /\ IsFiniteSet(W) /\ IsFiniteSet(oth) /\ IsFiniteSet(TextBlocks(L, D, oth))
        /\ Cardinality(TextBlocks(L, D, oth)) = Cardinality(W)
    BY DEF Held
  <1>3. BlocksOfNodes(E) = BlocksOfNodes(D) \ {c} /\ c \in BlocksOfNodes(D)
    BY BlocksPlus
  <1>4. IsFiniteSet(E)
    BY <1>1, FS_RemoveElement
  <1> HIDE DEF c, E, K
  <1>5. K = L \ {c}
    BY DEF K
  <1>6. TextBlocks(K, E, oth) = TextBlocks(L, D, oth)
    BY <1>1, <1>3, <1>5 DEF TextBlocks
  <1>7. /\ BlocksOfNodes(E) \subseteq K /\ BlocksOfOthers(oth) \subseteq K
        /\ BlocksOfNodes(E) \cap BlocksOfOthers(oth) = {}
    BY <1>1, <1>3, <1>5
  <1>8. Held(K, E, W, oth)
    BY <1>1, <1>4, <1>6, <1>7 DEF Held
  <1> QED BY <1>1, <1>3, <1>8 DEF c, E, K

\* A text more, of a new name.
LEMMA HeldText ==
    ASSUME NEW L, NEW D, NEW W, NEW oth, Held(L, D, W, oth), NEW c, c \notin L, NEW w, w \notin W
    PROVE  Held(L \cup {c}, D, W \cup {w}, oth)
  <1> DEFINE T == TextBlocks(L, D, oth)
             K == L \cup {c}
  <1>1. /\ BlocksOfNodes(D) \subseteq L /\ BlocksOfOthers(oth) \subseteq L
        /\ BlocksOfNodes(D) \cap BlocksOfOthers(oth) = {}
        /\ oth \subseteq OtherT /\ \A a, b \in oth : OtherBlock(a) = OtherBlock(b) => a = b
        /\ IsFiniteSet(D) /\ IsFiniteSet(W) /\ IsFiniteSet(oth) /\ IsFiniteSet(T)
        /\ Cardinality(T) = Cardinality(W)
    BY DEF Held
  <1>2. TextBlocks(K, D, oth) = T \cup {c} /\ c \notin T
    BY <1>1 DEF TextBlocks
  <1> HIDE DEF T
  <1>3. IsFiniteSet(T \cup {c}) /\ Cardinality(T \cup {c}) = Cardinality(T) + 1
    BY <1>1, <1>2, FS_AddElement
  <1>4. IsFiniteSet(W \cup {w}) /\ Cardinality(W \cup {w}) = Cardinality(W) + 1
    BY <1>1, FS_AddElement
  <1>5. BlocksOfNodes(D) \subseteq K /\ BlocksOfOthers(oth) \subseteq K
    BY <1>1
  <1> HIDE DEF K
  <1>6. Held(K, D, W \cup {w}, oth)
    BY <1>1, <1>2, <1>3, <1>4, <1>5 DEF Held
  <1> QED BY <1>6 DEF K

\* The rest of mawk takes a block, and gives one back.
LEMMA HeldTake ==
    ASSUME NEW L, NEW D, NEW W, NEW oth, Held(L, D, W, oth), NEW o \in OtherT, OtherBlock(o) \notin L
    PROVE  Held(L \cup {OtherBlock(o)}, D, W, oth \cup {o})
  <1> DEFINE c == OtherBlock(o)
             K == L \cup {c}
             u == oth \cup {o}
  <1>1. /\ BlocksOfNodes(D) \subseteq L /\ BlocksOfOthers(oth) \subseteq L
        /\ BlocksOfNodes(D) \cap BlocksOfOthers(oth) = {}
        /\ oth \subseteq OtherT /\ \A a, b \in oth : OtherBlock(a) = OtherBlock(b) => a = b
        /\ IsFiniteSet(D) /\ IsFiniteSet(W) /\ IsFiniteSet(oth) /\ IsFiniteSet(TextBlocks(L, D, oth))
        /\ Cardinality(TextBlocks(L, D, oth)) = Cardinality(W)
    BY DEF Held
  <1>2. BlocksOfOthers(u) = BlocksOfOthers(oth) \cup {c}
    BY DEF BlocksOfOthers
  <1>3. \A a \in oth : OtherBlock(a) # c
    BY <1>1 DEF BlocksOfOthers
  <1>4. IsFiniteSet(u)
    BY <1>1, FS_AddElement
  <1>5. u \subseteq OtherT /\ \A a, b \in u : OtherBlock(a) = OtherBlock(b) => a = b
    BY <1>1, <1>3
  <1> HIDE DEF c, u, K
  <1>6. c \notin L /\ K = L \cup {c}
    BY DEF c, K
  <1>7. TextBlocks(K, D, u) = TextBlocks(L, D, oth)
    BY <1>1, <1>2, <1>6 DEF TextBlocks
  <1>8. /\ BlocksOfNodes(D) \subseteq K /\ BlocksOfOthers(u) \subseteq K
        /\ BlocksOfNodes(D) \cap BlocksOfOthers(u) = {}
    BY <1>1, <1>2, <1>6
  <1>9. Held(K, D, W, u)
    BY <1>1, <1>4, <1>5, <1>7, <1>8 DEF Held
  <1> QED BY <1>9 DEF c, K, u

LEMMA HeldGive ==
    ASSUME NEW L, NEW D, NEW W, NEW oth, Held(L, D, W, oth), NEW o \in oth
    PROVE  o \in OtherT /\ OtherBlock(o) \in L /\ Held(L \ {OtherBlock(o)}, D, W, oth \ {o})
  <1> DEFINE c == OtherBlock(o)
             K == L \ {c}
             u == oth \ {o}
  <1>1. /\ BlocksOfNodes(D) \subseteq L /\ BlocksOfOthers(oth) \subseteq L
        /\ BlocksOfNodes(D) \cap BlocksOfOthers(oth) = {}
        /\ oth \subseteq OtherT /\ \A a, b \in oth : OtherBlock(a) = OtherBlock(b) => a = b
        /\ IsFiniteSet(D) /\ IsFiniteSet(W) /\ IsFiniteSet(oth) /\ IsFiniteSet(TextBlocks(L, D, oth))
        /\ Cardinality(TextBlocks(L, D, oth)) = Cardinality(W)
    BY DEF Held
  <1>2. BlocksOfOthers(u) = BlocksOfOthers(oth) \ {c} /\ c \in BlocksOfOthers(oth)
    BY <1>1 DEF BlocksOfOthers
  <1>4. IsFiniteSet(u)
    BY <1>1, FS_RemoveElement
  <1>5. u \subseteq OtherT /\ \A a, b \in u : OtherBlock(a) = OtherBlock(b) => a = b
    BY <1>1
  <1> HIDE DEF c, u, K
  <1>6. K = L \ {c}
    BY DEF K
  <1>7. TextBlocks(K, D, u) = TextBlocks(L, D, oth)
    BY <1>1, <1>2, <1>6 DEF TextBlocks
  <1>8. /\ BlocksOfNodes(D) \subseteq K /\ BlocksOfOthers(u) \subseteq K
        /\ BlocksOfNodes(D) \cap BlocksOfOthers(u) = {}
    BY <1>1, <1>2, <1>6
  <1>9. Held(K, D, W, u)
    BY <1>1, <1>4, <1>5, <1>7, <1>8 DEF Held
  <1> QED BY <1>1, <1>2, <1>9 DEF c, K, u

-----------------------------------------------------------------------------
(* A table in order.                                                       *)

NamesOf(m, N) == {m[p].name : p \in N}
LocalsIn(m, N) == {p \in N : m[p].type \in LocalTypes}
Named(m, N) == \A p, q \in N : m[p].name = m[q].name => p = q

\* M are the globals that were saved: each name is that of one node at most in
\* the table, and of one in M, where it stands for a local in the table.
Scoped(m, M) ==
    /\ M \subseteq DOMAIN m /\ Named(m, DOMAIN m \ M) /\ Named(m, M)
    /\ \A p \in M : m[p].type \notin LocalTypes
    /\ NamesOf(m, LocalsIn(m, DOMAIN m \ M)) = NamesOf(m, M)

TabInv(s, M, oth) ==
    /\ s \in TabT /\ HeapInv(s.z)
    /\ Filed(s.hash_table, s.symtab, DOMAIN s.symtab \ M) /\ Scoped(s.symtab, M)
    /\ Held(s.z.live, DOMAIN s.symtab, NamesOf(s.symtab, DOMAIN s.symtab) \cap Ids, oth)

\* The facts about the names that every step needs.
LEMMA Given_names ==
    /\ \A s \in AllNames : hash(s) \in Buckets /\ Length(s) + 1 \in Nat \ {0}
    /\ NodeSize \in Nat \ {0} /\ Ids \cap Keywords = {}
    /\ {"ST_KEYWORD", "ST_NONE", "ST_VAR", "ST_FUNCT", "ST_LOCAL_NONE", "ST_LOCAL_VAR"} \subseteq Types
    /\ Sizes \subseteq Nat \ {0}
  <1>1. \A s \in AllNames : hash(s) \in Buckets /\ Length(s) \in Nat
    BY SymbolsAssumption DEF AllNames
  <1>2. \A n \in Nat : n + 1 \in Nat \ {0}
    OBVIOUS
  <1> QED BY <1>1, <1>2, SymbolsAssumption

\* The place of a name in the bucket that it hashes to.
LEMMA AtProps ==
    ASSUME NEW s \in TabT, NEW N, Filed(s.hash_table, s.symtab, N), NEW name \in AllNames
    PROVE  LET l == s.hash_table[hash(name)]
               i == At(s, name)
           IN  /\ l \in Seq(Nat) /\ i \in 0..Len(l)
               /\ i = 0 <=> name \notin NamesOf(s.symtab, N)
               /\ i # 0 => i \in 1..Len(l) /\ l[i] \in N /\ s.symtab[l[i]].name = name
  <1> DEFINE b == hash(name)
             l == s.hash_table[b]
             i == At(s, name)
             I == {j \in 1..Len(l) : s.symtab[l[j]].name = name}
  <1>1. b \in Buckets /\ l \in Seq(Nat) /\ Len(l) \in Nat /\ DOMAIN l = 1..Len(l)
    BY Given_names, TabFields
  <1>2. ToSet(l) = {p \in N : hash(s.symtab[p].name) = b}
    BY <1>1 DEF Filed
  <1>3. i = IF I # {} THEN Min(I) ELSE 0
    BY DEF At, SelectInSeq
  <1> HIDE DEF i
  <1>4. I \subseteq Nat
    BY <1>1
  <1>5. I # {} => i \in I
    BY <1>3, <1>4, MinProps
  <1>6. ASSUME NEW j \in I PROVE l[j] \in N /\ s.symtab[l[j]].name = name
    BY <1>1, <1>2 DEF ToSet
  <1>7. ASSUME name \in NamesOf(s.symtab, N) PROVE I # {}
    <2>1. PICK p \in N : s.symtab[p].name = name
      BY <1>7 DEF NamesOf
    <2>2. p \in ToSet(l)
      BY <2>1, <1>2
    <2>3. PICK j \in 1..Len(l) : l[j] = p
      BY <2>2, <1>1 DEF ToSet
    <2>4. j \in I
      BY <2>1, <2>3
    <2> QED BY <2>4
  <1>8. I # {} => i \in 1..Len(l) /\ l[i] \in N /\ s.symtab[l[i]].name = name /\ i # 0
    <2>1. I # {} => i \in I
      BY <1>5
    <2>2. i \in I => i \in 1..Len(l) /\ i # 0
      BY <1>1
    <2> HIDE DEF I, l
    <2> QED BY <2>1, <2>2, <1>6
  <1>9. I = {} => i = 0 /\ i \in 0..Len(l)
    <2>1. 0 \in 0..Len(l)
      BY <1>1
    <2> HIDE DEF I, l
    <2> QED BY <2>1, <1>3
  <1> HIDE DEF I
  <1>10. I # {} => name \in NamesOf(s.symtab, N)
    BY <1>8 DEF NamesOf
  <1>11. I # {} => i \in 0..Len(l)
    BY <1>1, <1>8
  <1> QED BY <1>1, <1>7, <1>8, <1>9, <1>10, <1>11 DEF i, l, b

\* A node at the front of a bucket: its address is new.
NodeMade(s, b, name, type, g, p) ==
    /\ g \in TabT /\ p \in Nat /\ p \notin DOMAIN s.symtab /\ NodeBlock(p) \notin s.z.live
    /\ HeapInv(g.z) /\ g.z.live = s.z.live \cup {NodeBlock(p)}
    /\ g.hash_table = [s.hash_table EXCEPT ![b] = <<p>> \o s.hash_table[b]]
    /\ g.save_list = s.save_list /\ g.last_hash = s.last_hash
    /\ DOMAIN g.symtab = DOMAIN s.symtab \cup {p}
    /\ g.symtab[p] = [name |-> name, type |-> type]
    /\ \A q \in DOMAIN s.symtab : g.symtab[q] = s.symtab[q]

LEMMA NewNodeFields ==
    ASSUME NEW s \in TabT, HeapInv(s.z), BlocksOfNodes(DOMAIN s.symtab) \subseteq s.z.live,
           NEW b \in Buckets, NEW name \in AllNames, NEW type \in Types
    PROVE  NodeMade(s, b, name, type, NewNode(s, b, name, type), zmalloc(s.z, NodeSize)[1])
  <1> DEFINE t == zmalloc(s.z, NodeSize)
             p == t[1]
             u == WithHeap(s, t[2])
             v == Write(u, p, name, type)
             g == NewNode(s, b, name, type)
  <1>1. /\ HeapInv(t[2]) /\ p \in Nat /\ t[2].live = s.z.live \cup {NodeBlock(p)}
        /\ NodeBlock(p) \notin s.z.live
    BY Given_names, zmallocOK DEF NodeBlock
  <1>2. g = PutFront(v, b, p)
    BY DEF NewNode, WithHeap
  <1>3. p \notin DOMAIN s.symtab
    BY <1>1 DEF BlocksOfNodes
  <1> HIDE DEF t, g
  <1>4. t[2] \in HeapT
    BY <1>1, Owners
  <1> HIDE DEF u, v, p
  <1>5. /\ u \in TabT /\ u.hash_table = s.hash_table /\ u.z = t[2] /\ u.symtab = s.symtab
        /\ u.save_list = s.save_list /\ u.last_hash = s.last_hash
    BY <1>4, SetHeap DEF u
  <1>6. /\ v \in TabT /\ v.hash_table = u.hash_table /\ v.z = u.z
        /\ v.save_list = u.save_list /\ v.last_hash = u.last_hash
        /\ DOMAIN v.symtab = DOMAIN u.symtab \cup {p}
        /\ v.symtab[p] = [name |-> name, type |-> type]
        /\ \A q \in DOMAIN u.symtab \ {p} : v.symtab[q] = u.symtab[q]
    BY <1>1, <1>5, WriteFields DEF v
  <1>7. /\ g \in TabT /\ g.hash_table = [v.hash_table EXCEPT ![b] = <<p>> \o v.hash_table[b]]
        /\ g.z = v.z /\ g.save_list = v.save_list /\ g.last_hash = v.last_hash
        /\ g.symtab = v.symtab
    <2>1. v \in TabT /\ p \in Nat
      BY <1>1, <1>6
    <2>2. LET k == PutFront(v, b, p)
          IN  /\ k \in TabT /\ k.hash_table = [v.hash_table EXCEPT ![b] = <<p>> \o v.hash_table[b]]
              /\ k.z = v.z /\ k.save_list = v.save_list /\ k.last_hash = v.last_hash
              /\ k.symtab = v.symtab
      BY <2>1, PutFields, Zenon
    <2> QED BY <2>2, <1>2, Zenon
  <1>8. \A q \in DOMAIN s.symtab : g.symtab[q] = s.symtab[q]
    BY <1>3, <1>5, <1>6, <1>7
  <1>9. /\ HeapInv(g.z) /\ g.z.live = s.z.live \cup {NodeBlock(p)}
    BY <1>1, <1>5, <1>6, <1>7 DEF t
  <1>10. NodeMade(s, b, name, type, g, p)
    BY <1>1, <1>3, <1>5, <1>6, <1>7, <1>8, <1>9 DEF NodeMade
  <1> QED BY <1>10 DEF t, g, p

\* What a table in order holds.
LEMMA TabHas ==
    ASSUME NEW s, NEW M, NEW oth, TabInv(s, M, oth)
    PROVE  /\ s \in TabT /\ HeapInv(s.z)
           /\ Filed(s.hash_table, s.symtab, DOMAIN s.symtab \ M) /\ Scoped(s.symtab, M)
           /\ Held(s.z.live, DOMAIN s.symtab, NamesOf(s.symtab, DOMAIN s.symtab) \cap Ids, oth)
           /\ BlocksOfNodes(DOMAIN s.symtab) \subseteq s.z.live
           /\ M \subseteq DOMAIN s.symtab /\ DOMAIN s.symtab \subseteq Nat
           /\ Named(s.symtab, DOMAIN s.symtab \ M) /\ Named(s.symtab, M)
           /\ \A p \in M : s.symtab[p].type \notin LocalTypes
           /\ NamesOf(s.symtab, LocalsIn(s.symtab, DOMAIN s.symtab \ M)) = NamesOf(s.symtab, M)
           /\ \A p \in DOMAIN s.symtab : /\ s.symtab[p] \in Symbol /\ s.symtab[p].name \in AllNames
                                         /\ s.symtab[p].type \in Types
  <1>1. /\ s \in TabT /\ HeapInv(s.z)
        /\ Filed(s.hash_table, s.symtab, DOMAIN s.symtab \ M) /\ Scoped(s.symtab, M)
        /\ Held(s.z.live, DOMAIN s.symtab, NamesOf(s.symtab, DOMAIN s.symtab) \cap Ids, oth)
    BY DEF TabInv
  <1>2. s.symtab \in SymMaps
    BY <1>1, TabFields
  <1>3. /\ DOMAIN s.symtab \subseteq Nat
        /\ \A p \in DOMAIN s.symtab : /\ s.symtab[p] \in Symbol /\ s.symtab[p].name \in AllNames
                                      /\ s.symtab[p].type \in Types
    BY <1>2, MapType
  <1>4. BlocksOfNodes(DOMAIN s.symtab) \subseteq s.z.live
    BY <1>1 DEF Held
  <1> QED BY <1>1, <1>3, <1>4 DEF Scoped

\* A name that is in no list is the name of no node.
LEMMA NoNode ==
    ASSUME NEW m, NEW M, Scoped(m, M), NEW name, name \notin NamesOf(m, DOMAIN m \ M)
    PROVE  name \notin NamesOf(m, DOMAIN m) /\ name \notin NamesOf(m, M)
  <1>1. NamesOf(m, LocalsIn(m, DOMAIN m \ M)) \subseteq NamesOf(m, DOMAIN m \ M)
    BY DEF NamesOf, LocalsIn
  <1>2. name \notin NamesOf(m, M)
    BY <1>1 DEF Scoped
  <1>3. NamesOf(m, DOMAIN m) \subseteq NamesOf(m, DOMAIN m \ M) \cup NamesOf(m, M)
    BY DEF NamesOf
  <1> QED BY <1>2, <1>3

\* A new name that is no local: the scopes and the names.
LEMMA ScopedNew ==
    ASSUME NEW m, NEW M, Scoped(m, M), NEW p, p \notin DOMAIN m, NEW mm,
           DOMAIN mm = DOMAIN m \cup {p}, \A q \in DOMAIN m : mm[q] = m[q],
           mm[p].name \notin NamesOf(m, DOMAIN m), mm[p].type \notin LocalTypes
    PROVE  /\ Scoped(mm, M) /\ NamesOf(mm, DOMAIN mm) = NamesOf(m, DOMAIN m) \cup {mm[p].name}
           /\ DOMAIN mm \ M = (DOMAIN m \ M) \cup {p}
  <1>1. M \subseteq DOMAIN m /\ p \notin M
    BY DEF Scoped
  <1>2. DOMAIN mm \ M = (DOMAIN m \ M) \cup {p}
    BY <1>1
  <1>3. \A q \in DOMAIN m : mm[q].name # mm[p].name /\ mm[q] = m[q]
    BY DEF NamesOf
  <1>4. Named(mm, DOMAIN mm \ M)
    <2>1. Named(m, DOMAIN m \ M)
      BY DEF Scoped
    <2> QED BY <2>1, <1>2, <1>3 DEF Named
  <1>5. Named(mm, M) /\ NamesOf(mm, M) = NamesOf(m, M) /\ \A q \in M : mm[q].type \notin LocalTypes
    BY <1>1 DEF Named, NamesOf, Scoped
  <1>6. LocalsIn(mm, DOMAIN mm \ M) = LocalsIn(m, DOMAIN m \ M)
    BY <1>2 DEF LocalsIn
  <1>7. NamesOf(mm, LocalsIn(mm, DOMAIN mm \ M)) = NamesOf(m, LocalsIn(m, DOMAIN m \ M))
    BY <1>6 DEF NamesOf, LocalsIn
  <1>8. NamesOf(mm, DOMAIN mm) = NamesOf(m, DOMAIN m) \cup {mm[p].name}
    BY DEF NamesOf
  <1>9. Scoped(mm, M)
    BY <1>1, <1>4, <1>5, <1>7 DEF Scoped
  <1> QED BY <1>2, <1>8, <1>9

\* find: the node of a name, which may be new.
FindIs(s, M, oth, name, f, p) ==
    /\ TabInv(f, M, oth) /\ f.save_list = s.save_list
    /\ p \in DOMAIN f.symtab \ M /\ f.symtab[p].name = name
    /\ DOMAIN f.symtab = DOMAIN s.symtab \cup {p}
    /\ \A q \in DOMAIN s.symtab : f.symtab[q] = s.symtab[q]
    /\ f.symtab[p].type = IF At(s, name) = 0 THEN "ST_NONE"
                          ELSE s.symtab[s.hash_table[hash(name)][At(s, name)]].type
    /\ p \in DOMAIN s.symtab <=> At(s, name) # 0
    /\ p \notin DOMAIN s.symtab => name \notin NamesOf(s.symtab, DOMAIN s.symtab)

LEMMA findOld ==
    ASSUME NEW s, NEW M, NEW oth, TabInv(s, M, oth), NEW name \in AllNames, At(s, name) # 0
    PROVE  FindIs(s, M, oth, name, find(s, name), Found(find(s, name), name))
  <1> DEFINE b == hash(name)
             l == s.hash_table[b]
             i == At(s, name)
             f == find(s, name)
             p == l[i]
             r == RemoveAt(l, i)
             k == <<p>> \o r
             N == DOMAIN s.symtab \ M
  <1>1. /\ s \in TabT /\ Filed(s.hash_table, s.symtab, N) /\ N \subseteq Nat
        /\ s.hash_table \in [Buckets -> Seq(Nat)] /\ b \in Buckets
    BY TabHas, TabFields, Given_names
  <1>2. l \in Seq(Nat) /\ i \in 1..Len(l) /\ p \in N /\ s.symtab[p].name = name
    BY <1>1, AtProps
  <1>3. f = WithList(s, b, k)
    <2> DEFINE new == NewNode(s, b, name, "ST_NONE")
    <2>1. f = IF i = 0 THEN [new EXCEPT !.z = zmalloc(@, Length(name) + 1)[2]]
              ELSE [s EXCEPT !.hash_table[b] = <<@[i]>> \o RemoveAt(@, i)]
      BY DEF find
    <2> HIDE DEF f, new
    <2> QED BY <2>1 DEF WithList
  <1>4. At(s, name) = i /\ i # 0
    OBVIOUS
  <1> DEFINE g == [s.hash_table EXCEPT ![b] = r]
  <1>5. g \in [Buckets -> Seq(Nat)] /\ r \in Seq(Nat) /\ Filed(g, s.symtab, N \ {p})
    <2>1. /\ s.hash_table \in [Buckets -> Seq(Nat)] /\ Filed(s.hash_table, s.symtab, N)
          /\ b \in Buckets /\ i \in 1..Len(s.hash_table[b])
      BY <1>1, <1>2
    <2> HIDE DEF b, i, N
    <2> QED BY <2>1, FiledCut, Zenon
  <1>6. g[b] = r /\ [g EXCEPT ![b] = k] = [s.hash_table EXCEPT ![b] = k]
    <2> HIDE DEF r, k
    <2> QED BY <1>1
  <1>7. p \in Nat
    BY <1>1, <1>2
  <1>8. k \in Seq(Nat) /\ Head(k) = p
    <2> HIDE DEF r, p
    <2> QED BY <1>5, <1>7
  <1>9. Filed([s.hash_table EXCEPT ![b] = k], s.symtab, N)
    <2> DEFINE E == N \ {p}
    <2>1. /\ p \notin E /\ p \in DOMAIN s.symtab /\ E \subseteq DOMAIN s.symtab /\ E \cup {p} = N
          /\ hash(s.symtab[p].name) = b
      BY <1>2
    <2> HIDE DEF E, g, r, k, p, b, N
    <2>2. Filed(g, s.symtab, E)
      BY <1>5 DEF E
    <2>3. Filed([g EXCEPT ![b] = <<p>> \o g[b]], s.symtab, E \cup {p})
      BY <2>1, <2>2, <1>1, <1>5, <1>7, FiledPut
    <2>4. <<p>> \o g[b] = k
      BY <1>6 DEF k
    <2> QED BY <2>1, <2>3, <2>4, <1>6
  <1> HIDE DEF f, k, b, l, p, r, N, g, i
  <1>10. /\ f \in TabT /\ f.hash_table = [s.hash_table EXCEPT ![b] = k] /\ f.z = s.z
         /\ f.save_list = s.save_list /\ f.last_hash = s.last_hash /\ f.symtab = s.symtab
    BY <1>1, <1>3, <1>8, SetList, ZenonT(40)
  <1>11. TabInv(f, M, oth)
    <2>1. HeapInv(s.z) /\ Scoped(s.symtab, M)
          /\ Held(s.z.live, DOMAIN s.symtab, NamesOf(s.symtab, DOMAIN s.symtab) \cap Ids, oth)
      BY TabHas
    <2> QED BY <2>1, <1>9, <1>10 DEF TabInv, N
  <1>12. Found(f, name) = p
    <2>1. f.hash_table[b] = k
      BY <1>1, <1>8, <1>10
    <2> QED BY <2>1, <1>8 DEF Found, b
  <1>13. /\ p \in DOMAIN f.symtab \ M /\ f.symtab[p].name = name /\ DOMAIN f.symtab = DOMAIN s.symtab \cup {p}
         /\ p \in DOMAIN s.symtab
    BY <1>2, <1>10 DEF N
  <1>14. f.symtab[p].type = s.symtab[s.hash_table[hash(name)][At(s, name)]].type
    BY <1>10 DEF p, l, i, b
  <1> QED BY <1>4, <1>10, <1>11, <1>12, <1>13, <1>14 DEF FindIs, f

LEMMA findNew ==
    ASSUME NEW s, NEW M, NEW oth, TabInv(s, M, oth), NEW name \in AllNames, At(s, name) = 0,
           name \in Keywords => name \in NamesOf(s.symtab, DOMAIN s.symtab)
    PROVE  FindIs(s, M, oth, name, find(s, name), Found(find(s, name), name))
  <1> DEFINE b == hash(name)
             f == find(s, name)
             g == NewNode(s, b, name, "ST_NONE")
             p == zmalloc(s.z, NodeSize)[1]
             t == zmalloc(g.z, Length(name) + 1)
             c == Block(t[1], BytesToBlocks(Length(name) + 1))
             N == DOMAIN s.symtab \ M
             D == DOMAIN s.symtab
             W == NamesOf(s.symtab, D)
  <1>1. /\ s \in TabT /\ Filed(s.hash_table, s.symtab, N) /\ HeapInv(s.z) /\ b \in Buckets
        /\ s.hash_table \in [Buckets -> Seq(Nat)] /\ BlocksOfNodes(D) \subseteq s.z.live
        /\ Scoped(s.symtab, M) /\ "ST_NONE" \in Types /\ Held(s.z.live, D, W \cap Ids, oth)
    BY TabHas, TabFields, Given_names
  <1>2. name \notin W
    <2>1. name \notin NamesOf(s.symtab, N)
      BY <1>1, AtProps
    <2> QED BY <2>1, <1>1, NoNode
  <1>3. name \in Ids
    BY <1>2 DEF AllNames
  <1>4. f = WithHeap(g, t[2])
    BY DEF find, WithHeap
  <1> HIDE DEF b, f, g, p, t, c, N, D, W
  <1>5. /\ g \in TabT /\ p \in Nat /\ p \notin DOMAIN s.symtab /\ NodeBlock(p) \notin s.z.live
        /\ HeapInv(g.z) /\ g.z.live = s.z.live \cup {NodeBlock(p)}
        /\ g.hash_table = [s.hash_table EXCEPT ![b] = <<p>> \o s.hash_table[b]]
        /\ g.save_list = s.save_list /\ g.last_hash = s.last_hash
        /\ DOMAIN g.symtab = DOMAIN s.symtab \cup {p}
        /\ g.symtab[p] = [name |-> name, type |-> "ST_NONE"]
        /\ \A q \in DOMAIN s.symtab : g.symtab[q] = s.symtab[q]
    <2>1. /\ s \in TabT /\ HeapInv(s.z) /\ BlocksOfNodes(DOMAIN s.symtab) \subseteq s.z.live
          /\ b \in Buckets /\ "ST_NONE" \in Types
      BY <1>1 DEF D
    <2>2. NodeMade(s, b, name, "ST_NONE", NewNode(s, b, name, "ST_NONE"), zmalloc(s.z, NodeSize)[1])
      BY <2>1, NewNodeFields
    <2>3. NodeMade(s, b, name, "ST_NONE", g, p)
      BY <2>2 DEF g, p
    <2> QED BY <2>3 DEF NodeMade
  <1>6. HeapInv(t[2]) /\ t[2].live = g.z.live \cup {c} /\ c \notin g.z.live /\ t[2] \in HeapT
    <2>1. Length(name) + 1 \in Nat \ {0}
      BY Given_names
    <2>2. HeapInv(t[2]) /\ t[2].live = g.z.live \cup {c} /\ c \notin g.z.live
      BY <2>1, <1>5, zmallocOK DEF t, c
    <2> QED BY <2>2, Owners
  <1>7. /\ f \in TabT /\ f.hash_table = g.hash_table /\ f.z = t[2] /\ f.symtab = g.symtab
        /\ f.save_list = g.save_list /\ f.last_hash = g.last_hash
    BY <1>4, <1>5, <1>6, SetHeap
  <1> DEFINE m == f.symtab
  <1>8. /\ DOMAIN m = D \cup {p} /\ p \notin D /\ \A q \in D : m[q] = s.symtab[q]
        /\ m[p].name = name /\ m[p].type = "ST_NONE" /\ m[p].type \notin LocalTypes
    BY <1>5, <1>7 DEF D, LocalTypes
  <1> HIDE DEF m
  <1>9. /\ Scoped(m, M) /\ NamesOf(m, DOMAIN m) = W \cup {name} /\ DOMAIN m \ M = N \cup {p}
    <2>1. /\ m[p].name \notin NamesOf(s.symtab, DOMAIN s.symtab) /\ m[p].type \notin LocalTypes
          /\ p \notin DOMAIN s.symtab /\ DOMAIN m = DOMAIN s.symtab \cup {p}
          /\ \A q \in DOMAIN s.symtab : m[q] = s.symtab[q]
      BY <1>2, <1>8 DEF W, D
    <2>2. /\ Scoped(m, M) /\ NamesOf(m, DOMAIN m) = NamesOf(s.symtab, DOMAIN s.symtab) \cup {m[p].name}
          /\ DOMAIN m \ M = (DOMAIN s.symtab \ M) \cup {p}
      <3>1. Scoped(s.symtab, M)
        BY <1>1
      <3> QED BY <2>1, <3>1, ScopedNew, SMTT(30)
    <2> QED BY <2>2, <1>8 DEF N, W, D
  <1>10. Filed(f.hash_table, m, N \cup {p})
    <2>1. p \notin N /\ p \in DOMAIN m /\ N \subseteq DOMAIN m /\ \A q \in N : m[q].name = s.symtab[q].name
      BY <1>8 DEF N, D
    <2>2. hash(m[p].name) = b
      BY <1>8 DEF b
    <2>4. p \in Nat
      BY <1>5
    <2>3. Filed([s.hash_table EXCEPT ![b] = <<p>> \o s.hash_table[b]], m, N \cup {p})
      BY <2>1, <2>2, <2>4, <1>1, FiledPut, Zenon
    <2> QED BY <2>3, <1>5, <1>7
  <1>11. Held(f.z.live, DOMAIN m, NamesOf(m, DOMAIN m) \cap Ids, oth)
    <2>0. Held(s.z.live, D, W \cap Ids, oth) /\ NodeBlock(p) \notin s.z.live
      BY <1>1, <1>5
    <2>5. Held(s.z.live \cup {NodeBlock(p)}, D \cup {p}, W \cap Ids, oth)
      BY <2>0, HeldNode, Zenon
    <2>1. Held(g.z.live, D \cup {p}, W \cap Ids, oth)
      BY <2>5, <1>5
    <2>2. name \notin W \cap Ids
      BY <1>2
    <2>3. Held(g.z.live \cup {c}, D \cup {p}, (W \cap Ids) \cup {name}, oth)
      BY <2>1, <2>2, <1>6, HeldText
    <2>4. NamesOf(m, DOMAIN m) \cap Ids = (W \cap Ids) \cup {name}
      BY <1>3, <1>9
    <2> QED BY <2>3, <2>4, <1>6, <1>7, <1>8
  <1>12. TabInv(f, M, oth)
    BY <1>6, <1>7, <1>9, <1>10, <1>11 DEF TabInv, m
  <1>13. Found(f, name) = p
    <2>1. s.hash_table[b] \in Seq(Nat)
      BY <1>1
    <2>2. f.hash_table[b] = <<p>> \o s.hash_table[b]
      BY <1>1, <1>5, <1>7
    <2>3. Head(<<p>> \o s.hash_table[b]) = p
      BY <2>1, <1>5
    <2> QED BY <2>2, <2>3 DEF Found, b
  <1>14. p \notin M
    BY <1>1, <1>8 DEF Scoped, D
  <1>15. f.save_list = s.save_list
    BY <1>5, <1>7
  <1>16. /\ p \in DOMAIN f.symtab \ M /\ f.symtab[p].name = name
         /\ DOMAIN f.symtab = DOMAIN s.symtab \cup {p}
         /\ \A q \in DOMAIN s.symtab : f.symtab[q] = s.symtab[q]
         /\ f.symtab[p].type = "ST_NONE" /\ name \notin NamesOf(s.symtab, DOMAIN s.symtab)
         /\ p \notin DOMAIN s.symtab
    BY <1>2, <1>8, <1>14 DEF m, D, W
  <1> QED BY <1>12, <1>13, <1>15, <1>16 DEF FindIs, f

LEMMA findOK ==
    ASSUME NEW s, NEW M, NEW oth, TabInv(s, M, oth), NEW name \in AllNames,
           name \in Keywords => name \in NamesOf(s.symtab, DOMAIN s.symtab)
    PROVE  FindIs(s, M, oth, name, find(s, name), Found(find(s, name), name))
  BY findOld, findNew

-----------------------------------------------------------------------------
(* Scopes: a parameter, the end of its function, a type that shows.        *)

\* The global p is saved, and a local q of its name is new.
LEMMA ScopedSave ==
    ASSUME NEW m, NEW M, Scoped(m, M), NEW p \in DOMAIN m \ M, m[p].type \notin LocalTypes,
           NEW q, q \notin DOMAIN m, NEW mm, DOMAIN mm = DOMAIN m \cup {q},
           \A r \in DOMAIN m : mm[r] = m[r], mm[q].name = m[p].name, mm[q].type \in LocalTypes
    PROVE  /\ Scoped(mm, M \cup {p}) /\ NamesOf(mm, DOMAIN mm) = NamesOf(m, DOMAIN m)
           /\ DOMAIN mm \ (M \cup {p}) = ((DOMAIN m \ M) \ {p}) \cup {q}
  <1> DEFINE N == DOMAIN m \ M
             K == (N \ {p}) \cup {q}
             name == m[p].name
  <1>1. M \subseteq DOMAIN m /\ Named(m, N) /\ Named(m, M) /\ NamesOf(m, LocalsIn(m, N)) = NamesOf(m, M)
        /\ \A r \in M : m[r].type \notin LocalTypes
    BY DEF Scoped
  <1>2. DOMAIN mm \ (M \cup {p}) = K
    BY <1>1
  <1>3. \A r \in N : r # p => m[r].name # name
    BY <1>1 DEF Named
  <1>4. \A r \in M : m[r].name # name
    <2>1. ASSUME NEW r \in M, m[r].name = name PROVE FALSE
      <3>1. name \in NamesOf(m, LocalsIn(m, N))
        BY <2>1, <1>1 DEF NamesOf
      <3>2. PICK l \in LocalsIn(m, N) : m[l].name = name
        BY <3>1 DEF NamesOf
      <3>3. l \in N /\ m[l].type \in LocalTypes
        BY <3>2 DEF LocalsIn
      <3> QED BY <3>2, <3>3, <1>3
    <2> QED BY <2>1
  <1>5. Named(mm, K)
    <2>1. \A r \in N \ {p} : mm[r] = m[r] /\ mm[r].name # name
      BY <1>3
    <2>2. mm[q].name = name
      OBVIOUS
    <2> HIDE DEF name
    <2> QED BY <2>1, <2>2, <1>1 DEF Named
  <1>6. Named(mm, M \cup {p})
    <2>1. \A r \in M : mm[r] = m[r] /\ mm[r].name # name
      BY <1>1, <1>4
    <2>2. mm[p].name = name
      OBVIOUS
    <2> HIDE DEF name
    <2> QED BY <2>1, <2>2, <1>1 DEF Named
  <1>7. \A r \in M \cup {p} : mm[r].type \notin LocalTypes
    BY <1>1
  <1>8. LocalsIn(mm, K) = LocalsIn(m, N) \cup {q}
    <2>1. \A r \in N \ {p} : mm[r] = m[r]
      OBVIOUS
    <2> QED BY <2>1 DEF LocalsIn
  <1>9. NamesOf(mm, LocalsIn(mm, K)) = NamesOf(m, LocalsIn(m, N)) \cup {name}
    <2>1. LocalsIn(m, N) \subseteq DOMAIN m
      BY DEF LocalsIn
    <2>2. \A r \in LocalsIn(m, N) : mm[r] = m[r]
      BY <2>1
    <2>3. mm[q].name = name
      OBVIOUS
    <2> HIDE DEF K, N, name
    <2> QED BY <2>2, <2>3, <1>8 DEF NamesOf
  <1>10. NamesOf(mm, M \cup {p}) = NamesOf(m, M) \cup {name}
    <2>1. \A r \in M : mm[r] = m[r]
      BY <1>1
    <2>2. mm[p].name = name
      OBVIOUS
    <2> HIDE DEF name
    <2> QED BY <2>1, <2>2 DEF NamesOf
  <1>11. NamesOf(mm, DOMAIN mm) = NamesOf(m, DOMAIN m)
    BY DEF NamesOf
  <1>12. M \cup {p} \subseteq DOMAIN mm
    BY <1>1
  <1> HIDE DEF K, N, name
  <1>13. Scoped(mm, M \cup {p})
    BY <1>1, <1>2, <1>5, <1>6, <1>7, <1>9, <1>10, <1>12 DEF Scoped
  <1> QED BY <1>2, <1>11, <1>13 DEF K, N

\* The local l is gone, and the global p of its name is back.
LEMMA ScopedRestore ==
    ASSUME NEW m, NEW M, Scoped(m, M), NEW p \in M, NEW l \in DOMAIN m \ M, m[l].name = m[p].name,
           NEW mm, DOMAIN mm = DOMAIN m \ {l}, \A r \in DOMAIN m \ {l} : mm[r] = m[r]
    PROVE  /\ Scoped(mm, M \ {p}) /\ NamesOf(mm, DOMAIN mm) = NamesOf(m, DOMAIN m)
           /\ DOMAIN mm \ (M \ {p}) = ((DOMAIN m \ M) \ {l}) \cup {p} /\ m[l].type \in LocalTypes
  <1> DEFINE N == DOMAIN m \ M
             K == (N \ {l}) \cup {p}
             name == m[p].name
  <1>1. M \subseteq DOMAIN m /\ Named(m, N) /\ Named(m, M) /\ NamesOf(m, LocalsIn(m, N)) = NamesOf(m, M)
        /\ \A r \in M : m[r].type \notin LocalTypes
    BY DEF Scoped
  <1>2. DOMAIN mm \ (M \ {p}) = K
    BY <1>1
  <1>3. \A r \in N : r # l => m[r].name # name
    BY <1>1 DEF Named
  <1>4. \A r \in M : r # p => m[r].name # name
    BY <1>1 DEF Named
  <1>5. m[l].type \in LocalTypes
    <2>1. name \in NamesOf(m, LocalsIn(m, N))
      BY <1>1 DEF NamesOf
    <2>2. PICK r \in LocalsIn(m, N) : m[r].name = name
      BY <2>1 DEF NamesOf
    <2>3. r \in N /\ m[r].type \in LocalTypes
      BY <2>2 DEF LocalsIn
    <2> QED BY <2>2, <2>3, <1>3
  <1>6. mm[p] = m[p] /\ \A r \in N \ {l} : mm[r] = m[r]
    BY <1>1
  <1>7. Named(mm, K)
    <2>1. \A r \in N \ {l} : mm[r] = m[r] /\ mm[r].name # name
      BY <1>3, <1>6
    <2>2. mm[p].name = name
      BY <1>6
    <2> HIDE DEF name
    <2> QED BY <2>1, <2>2, <1>1 DEF Named
  <1>8. \A r \in M : mm[r] = m[r]
    BY <1>1
  <1>9. Named(mm, M \ {p}) /\ \A r \in M \ {p} : mm[r].type \notin LocalTypes
    BY <1>1, <1>8 DEF Named
  <1>10. LocalsIn(mm, K) = LocalsIn(m, N) \ {l}
    <2>1. mm[p].type \notin LocalTypes
      BY <1>1, <1>8
    <2> QED BY <2>1, <1>6 DEF LocalsIn
  <1>11. NamesOf(mm, LocalsIn(mm, K)) = NamesOf(m, LocalsIn(m, N)) \ {name}
    <2> DEFINE A == LocalsIn(m, N)
    <2>1. \A r \in A : r \in N
      BY DEF LocalsIn
    <2>2. \A r \in A \ {l} : mm[r] = m[r] /\ m[r].name # name
      BY <2>1, <1>3, <1>6
    <2>3. m[l].name = name
      OBVIOUS
    <2> HIDE DEF A, K, N, name
    <2>4. LocalsIn(mm, K) = A \ {l}
      BY <1>10 DEF A
    <2>5. NamesOf(mm, A \ {l}) = NamesOf(m, A) \ {name}
      BY <2>2, <2>3 DEF NamesOf
    <2> QED BY <2>4, <2>5 DEF A
  <1>12. NamesOf(mm, M \ {p}) = NamesOf(m, M) \ {name}
    <2>1. \A r \in M \ {p} : mm[r] = m[r] /\ m[r].name # name
      BY <1>4, <1>8
    <2>2. m[p].name = name
      OBVIOUS
    <2> HIDE DEF name
    <2> QED BY <2>1, <2>2 DEF NamesOf
  <1>13. NamesOf(mm, DOMAIN mm) = NamesOf(m, DOMAIN m)
    <2>1. p \in DOMAIN mm /\ mm[p].name = m[l].name
      BY <1>1, <1>8
    <2> QED BY <2>1 DEF NamesOf
  <1>14. M \ {p} \subseteq DOMAIN mm
    BY <1>1
  <1> HIDE DEF K, N, name
  <1>15. Scoped(mm, M \ {p})
    BY <1>1, <1>2, <1>7, <1>9, <1>11, <1>12, <1>14 DEF Scoped
  <1> QED BY <1>2, <1>5, <1>13, <1>15 DEF K, N

\* Another type, but a local stays a local.
LEMMA ScopedType ==
    ASSUME NEW m, NEW M, Scoped(m, M), NEW mm, DOMAIN mm = DOMAIN m,
           \A r \in DOMAIN m : /\ mm[r].name = m[r].name
                               /\ mm[r].type \in LocalTypes <=> m[r].type \in LocalTypes
    PROVE  Scoped(mm, M) /\ NamesOf(mm, DOMAIN mm) = NamesOf(m, DOMAIN m)
  <1>1. M \subseteq DOMAIN m
    BY DEF Scoped
  <1>2. \A A : A \subseteq DOMAIN m => NamesOf(mm, A) = NamesOf(m, A)
    BY DEF NamesOf
  <1>3. LocalsIn(mm, DOMAIN m \ M) = LocalsIn(m, DOMAIN m \ M) /\ LocalsIn(m, DOMAIN m \ M) \subseteq DOMAIN m
    BY DEF LocalsIn
  <1>4. Named(mm, DOMAIN m \ M) /\ Named(mm, M)
    BY <1>1 DEF Named, Scoped
  <1>5. \A r \in M : mm[r].type \notin LocalTypes
    BY <1>1 DEF Scoped
  <1> QED BY <1>1, <1>2, <1>3, <1>4, <1>5 DEF Scoped

-----------------------------------------------------------------------------
(* insert, delete, and a type that shows.                                  *)

\* A type that shows.
LEMMA RetypeOK ==
    ASSUME NEW s, NEW M, NEW oth, TabInv(s, M, oth), NEW p \in DOMAIN s.symtab, NEW type \in Types,
           type \in LocalTypes <=> s.symtab[p].type \in LocalTypes
    PROVE  TabInv(Retyped(s, p, type), M, oth)
  <1> DEFINE g == Retyped(s, p, type)
             N == DOMAIN s.symtab \ M
  <1>1. /\ s \in TabT /\ HeapInv(s.z) /\ Filed(s.hash_table, s.symtab, N) /\ Scoped(s.symtab, M)
        /\ Held(s.z.live, DOMAIN s.symtab, NamesOf(s.symtab, DOMAIN s.symtab) \cap Ids, oth)
    BY TabHas
  <1>2. /\ g \in TabT /\ g.hash_table = s.hash_table /\ g.z = s.z
        /\ g.save_list = s.save_list /\ g.last_hash = s.last_hash
        /\ DOMAIN g.symtab = DOMAIN s.symtab
        /\ g.symtab[p] = [name |-> s.symtab[p].name, type |-> type]
        /\ \A q \in DOMAIN s.symtab \ {p} : g.symtab[q] = s.symtab[q]
    BY <1>1, RetypeFields
  <1> HIDE DEF g
  <1>3. \A r \in DOMAIN s.symtab : /\ g.symtab[r].name = s.symtab[r].name
                                   /\ g.symtab[r].type \in LocalTypes <=> s.symtab[r].type \in LocalTypes
    BY <1>2
  <1>4. Scoped(g.symtab, M) /\ NamesOf(g.symtab, DOMAIN g.symtab) = NamesOf(s.symtab, DOMAIN s.symtab)
    BY <1>1, <1>2, <1>3, ScopedType
  <1>5. Filed(g.hash_table, g.symtab, DOMAIN g.symtab \ M)
    BY <1>1, <1>2, <1>3, FiledSame
  <1>6. TabInv(g, M, oth)
    BY <1>1, <1>2, <1>4, <1>5 DEF TabInv
  <1> QED BY <1>6 DEF g

\* insert: a keyword that is new.
InsertIs(s, M, oth, name, f, p) ==
    /\ TabInv(f, M, oth) /\ f.save_list = s.save_list
    /\ DOMAIN f.symtab = DOMAIN s.symtab \cup {p} /\ p \notin DOMAIN s.symtab
    /\ \A q \in DOMAIN s.symtab : f.symtab[q] = s.symtab[q]
    /\ f.symtab[p].name = name /\ f.symtab[p].type = "ST_KEYWORD"
    /\ name \notin NamesOf(s.symtab, DOMAIN s.symtab)

LEMMA insertOK ==
    ASSUME NEW s, NEW M, NEW oth, TabInv(s, M, oth), NEW name \in Keywords, At(s, name) = 0
    PROVE  \E p : InsertIs(s, M, oth, name, insert(s, name), p)
  <1> DEFINE b == hash(name)
             g == insert(s, name)
             p == zmalloc(s.z, NodeSize)[1]
             N == DOMAIN s.symtab \ M
             D == DOMAIN s.symtab
             W == NamesOf(s.symtab, D)
  <1>0. name \in AllNames
    BY DEF AllNames
  <1>1. /\ s \in TabT /\ Filed(s.hash_table, s.symtab, N) /\ HeapInv(s.z) /\ b \in Buckets
        /\ s.hash_table \in [Buckets -> Seq(Nat)] /\ BlocksOfNodes(D) \subseteq s.z.live
        /\ Scoped(s.symtab, M) /\ "ST_KEYWORD" \in Types /\ Held(s.z.live, D, W \cap Ids, oth)
    BY <1>0, TabHas, TabFields, Given_names
  <1>2. name \notin W
    <2>1. name \notin NamesOf(s.symtab, N)
      BY <1>0, <1>1, AtProps
    <2> QED BY <2>1, <1>1, NoNode
  <1>3. name \notin Ids
    BY Given_names
  <1>4. g = NewNode(s, b, name, "ST_KEYWORD")
    BY DEF insert
  <1> HIDE DEF b, g, p, N, D, W
  <1>5. NodeMade(s, b, name, "ST_KEYWORD", g, p)
    <2>1. /\ s \in TabT /\ HeapInv(s.z) /\ BlocksOfNodes(DOMAIN s.symtab) \subseteq s.z.live
          /\ b \in Buckets /\ "ST_KEYWORD" \in Types
      BY <1>1 DEF D
    <2>2. NodeMade(s, b, name, "ST_KEYWORD", NewNode(s, b, name, "ST_KEYWORD"), zmalloc(s.z, NodeSize)[1])
      BY <2>1, <1>0, NewNodeFields
    <2> QED BY <2>2, <1>4 DEF p
  <1>6. /\ g \in TabT /\ p \in Nat /\ p \notin DOMAIN s.symtab /\ NodeBlock(p) \notin s.z.live
        /\ HeapInv(g.z) /\ g.z.live = s.z.live \cup {NodeBlock(p)}
        /\ g.hash_table = [s.hash_table EXCEPT ![b] = <<p>> \o s.hash_table[b]]
        /\ g.save_list = s.save_list /\ DOMAIN g.symtab = DOMAIN s.symtab \cup {p}
        /\ g.symtab[p] = [name |-> name, type |-> "ST_KEYWORD"]
        /\ \A q \in DOMAIN s.symtab : g.symtab[q] = s.symtab[q]
    BY <1>5 DEF NodeMade
  <1> DEFINE m == g.symtab
  <1>8. /\ DOMAIN m = D \cup {p} /\ p \notin D /\ \A q \in D : m[q] = s.symtab[q]
        /\ m[p].name = name /\ m[p].type = "ST_KEYWORD" /\ m[p].type \notin LocalTypes
    BY <1>6 DEF D, LocalTypes
  <1> HIDE DEF m
  <1>9. /\ Scoped(m, M) /\ NamesOf(m, DOMAIN m) = W \cup {name} /\ DOMAIN m \ M = N \cup {p}
    <2>1. /\ m[p].name \notin NamesOf(s.symtab, DOMAIN s.symtab) /\ m[p].type \notin LocalTypes
          /\ p \notin DOMAIN s.symtab /\ DOMAIN m = DOMAIN s.symtab \cup {p}
          /\ \A q \in DOMAIN s.symtab : m[q] = s.symtab[q]
      BY <1>2, <1>8 DEF W, D
    <2>2. /\ Scoped(m, M) /\ NamesOf(m, DOMAIN m) = NamesOf(s.symtab, DOMAIN s.symtab) \cup {m[p].name}
          /\ DOMAIN m \ M = (DOMAIN s.symtab \ M) \cup {p}
      <3>1. Scoped(s.symtab, M)
        BY <1>1
      <3> QED BY <2>1, <3>1, ScopedNew, SMTT(30)
    <2> QED BY <2>2, <1>8 DEF N, W, D
  <1>10. Filed(g.hash_table, m, N \cup {p})
    <2>1. p \notin N /\ p \in DOMAIN m /\ N \subseteq DOMAIN m /\ \A q \in N : m[q].name = s.symtab[q].name
      BY <1>8 DEF N, D
    <2>2. hash(m[p].name) = b
      BY <1>8 DEF b
    <2>4. p \in Nat
      BY <1>6
    <2>3. Filed([s.hash_table EXCEPT ![b] = <<p>> \o s.hash_table[b]], m, N \cup {p})
      BY <2>1, <2>2, <2>4, <1>1, FiledPut, Zenon
    <2> QED BY <2>3, <1>6
  <1>11. Held(g.z.live, DOMAIN m, NamesOf(m, DOMAIN m) \cap Ids, oth)
    <2>0. Held(s.z.live, D, W \cap Ids, oth) /\ NodeBlock(p) \notin s.z.live
      BY <1>1, <1>6
    <2>1. Held(s.z.live \cup {NodeBlock(p)}, D \cup {p}, W \cap Ids, oth)
      BY <2>0, HeldNode, Zenon
    <2>2. NamesOf(m, DOMAIN m) \cap Ids = W \cap Ids
      BY <1>3, <1>9
    <2> QED BY <2>1, <2>2, <1>6, <1>8
  <1>12. TabInv(g, M, oth)
    BY <1>6, <1>9, <1>10, <1>11 DEF TabInv, m
  <1>13. InsertIs(s, M, oth, name, g, p)
    BY <1>2, <1>6, <1>8, <1>12 DEF InsertIs, m, D, W
  <1> QED BY <1>13 DEF g

\* delete: the node of a name leaves its list, and last_hash remembers where.
DeleteIs(s, N, p, g) ==
    /\ g \in TabT /\ g.z = s.z /\ g.symtab = s.symtab /\ g.save_list = s.save_list
    /\ g.last_hash = hash(s.symtab[p].name) /\ Filed(g.hash_table, s.symtab, N \ {p})
    /\ s.hash_table[hash(s.symtab[p].name)][At(s, s.symtab[p].name)] = p

LEMMA deleteOK ==
    ASSUME NEW s \in TabT, NEW N, Filed(s.hash_table, s.symtab, N), Named(s.symtab, N),
           NEW p \in N
    PROVE  DeleteIs(s, N, p, delete(s, s.symtab[p].name))
  <1> DEFINE name == s.symtab[p].name
             b == hash(name)
             l == s.hash_table[b]
             i == At(s, name)
             r == RemoveAt(l, i)
             u == WithList(s, b, r)
             g == delete(s, name)
  <1>1. /\ s.hash_table \in [Buckets -> Seq(Nat)] /\ name \in AllNames /\ b \in Buckets
    <2>1. s.symtab \in SymMaps /\ p \in DOMAIN s.symtab /\ s.hash_table \in [Buckets -> Seq(Nat)]
      BY TabFields DEF Filed
    <2>2. name \in AllNames
      BY <2>1, MapType
    <2> QED BY <2>1, <2>2, Given_names
  <1>2. /\ l \in Seq(Nat) /\ i \in 0..Len(l) /\ (i = 0 <=> name \notin NamesOf(s.symtab, N))
        /\ i # 0 => i \in 1..Len(l) /\ l[i] \in N /\ s.symtab[l[i]].name = name
    <2> HIDE DEF name
    <2> QED BY <1>1, AtProps
  <1>3. name \in NamesOf(s.symtab, N)
    BY DEF NamesOf
  <1>4. i \in 1..Len(l) /\ l[i] = p
    BY <1>2, <1>3 DEF Named
  <1>5. g = [s EXCEPT !.hash_table[b] = r, !.last_hash = b]
    BY DEF delete
  <1>6. r \in Seq(Nat) /\ Filed([s.hash_table EXCEPT ![b] = r], s.symtab, N \ {p})
    <2>1. b \in Buckets /\ i \in 1..Len(s.hash_table[b]) /\ s.hash_table[b][i] = p
      BY <1>1, <1>4
    <2> HIDE DEF b, i
    <2>2. /\ RemoveAt(s.hash_table[b], i) \in Seq(Nat)
          /\ Filed([s.hash_table EXCEPT ![b] = RemoveAt(s.hash_table[b], i)], s.symtab, N \ {s.hash_table[b][i]})
      BY <2>1, <1>1, FiledCut, Zenon
    <2> QED BY <2>1, <2>2
  <1> HIDE DEF g, r, i, l, b, name
  <1>7. g = [u EXCEPT !.last_hash = b]
    BY <1>5 DEF u, WithList
  <1> HIDE DEF u
  <1>8. /\ u \in TabT /\ u.hash_table = [s.hash_table EXCEPT ![b] = r] /\ u.z = s.z
        /\ u.save_list = s.save_list /\ u.last_hash = s.last_hash /\ u.symtab = s.symtab
    BY <1>1, <1>6, SetList, Zenon DEF u
  <1>9. /\ g \in TabT /\ g.hash_table = u.hash_table /\ g.z = u.z
        /\ g.save_list = u.save_list /\ g.last_hash = b /\ g.symtab = u.symtab
    BY <1>1, <1>7, <1>8 DEF TabT
  <1>10. s.hash_table[hash(s.symtab[p].name)][At(s, s.symtab[p].name)] = p
    BY <1>4 DEF l, b, i, name
  <1>11. g.last_hash = hash(s.symtab[p].name)
    BY <1>9 DEF b, name
  <1>12. Filed(g.hash_table, s.symtab, N \ {p})
    BY <1>6, <1>8, <1>9
  <1>13. DeleteIs(s, N, p, g)
    BY <1>8, <1>9, <1>10, <1>11, <1>12 DEF DeleteIs
  <1> QED BY <1>13 DEF g, name

\* save_id: the global p goes to the save list, and a local takes its place.
SaveIs(s, M, oth, p, g, q) ==
    /\ TabInv(g, M \cup {p}, oth) /\ g.save_list = <<p>> \o s.save_list
    /\ DOMAIN g.symtab = DOMAIN s.symtab \cup {q} /\ q \notin DOMAIN s.symtab
    /\ \A r \in DOMAIN s.symtab : g.symtab[r] = s.symtab[r]
    /\ g.symtab[q].name = s.symtab[p].name /\ g.symtab[q].type = "ST_LOCAL_NONE"

LEMMA save_idOK ==
    ASSUME NEW s, NEW M, NEW oth, TabInv(s, M, oth), NEW name, NEW p \in DOMAIN s.symtab \ M,
           s.symtab[p].name = name, s.symtab[p].type \notin LocalTypes, Found(s, name) = p
    PROVE  \E q : SaveIs(s, M, oth, p, save_id(s, name), q)
  <1> DEFINE N == DOMAIN s.symtab \ M
             D == DOMAIN s.symtab
             W == NamesOf(s.symtab, D)
             b == hash(name)
             gone == delete(s, name)
             new == NewNode(gone, b, name, "ST_LOCAL_NONE")
             q == zmalloc(gone.z, NodeSize)[1]
             g == save_id(s, name)
  <1>1. /\ s \in TabT /\ Filed(s.hash_table, s.symtab, N) /\ HeapInv(s.z) /\ p \in N
        /\ BlocksOfNodes(D) \subseteq s.z.live /\ Scoped(s.symtab, M) /\ Named(s.symtab, N)
        /\ Held(s.z.live, D, W \cap Ids, oth) /\ D \subseteq Nat
        /\ name \in AllNames /\ b \in Buckets /\ "ST_LOCAL_NONE" \in Types
    <2>1. name \in AllNames
      BY TabHas
    <2> QED BY <2>1, TabHas, Given_names
  <1>2. DeleteIs(s, N, p, gone)
    BY <1>1, deleteOK
  <1>3. /\ gone \in TabT /\ gone.z = s.z /\ gone.symtab = s.symtab /\ gone.save_list = s.save_list
        /\ gone.last_hash = b /\ Filed(gone.hash_table, s.symtab, N \ {p})
    BY <1>2 DEF DeleteIs
  <1>4. g = [new EXCEPT !.save_list = <<p>> \o @]
    <2>1. gone.last_hash = b /\ Found(s, name) = p
      BY <1>3
    <2> QED BY <2>1 DEF save_id
  <1> HIDE DEF gone, new, q, g, b, D, N, W
  <1>5. NodeMade(gone, b, name, "ST_LOCAL_NONE", new, q)
    <2>1. HeapInv(gone.z) /\ BlocksOfNodes(DOMAIN gone.symtab) \subseteq gone.z.live
      BY <1>1, <1>3 DEF D
    <2>2. NodeMade(gone, b, name, "ST_LOCAL_NONE", NewNode(gone, b, name, "ST_LOCAL_NONE"),
                   zmalloc(gone.z, NodeSize)[1])
      BY <2>1, <1>1, <1>3, NewNodeFields
    <2> QED BY <2>2 DEF new, q
  <1>6. /\ new \in TabT /\ q \in Nat /\ q \notin D /\ NodeBlock(q) \notin s.z.live
        /\ HeapInv(new.z) /\ new.z.live = s.z.live \cup {NodeBlock(q)}
        /\ new.hash_table = [gone.hash_table EXCEPT ![b] = <<q>> \o gone.hash_table[b]]
        /\ new.save_list = s.save_list /\ DOMAIN new.symtab = D \cup {q}
        /\ new.symtab[q] = [name |-> name, type |-> "ST_LOCAL_NONE"]
        /\ \A r \in D : new.symtab[r] = s.symtab[r]
    BY <1>3, <1>5 DEF NodeMade, D
  <1>7. p \in Nat /\ p \in D
    BY <1>1 DEF N, D
  <1>8. /\ g \in TabT /\ g.z = new.z /\ g.hash_table = new.hash_table /\ g.symtab = new.symtab
        /\ g.save_list = <<p>> \o new.save_list
    <2> DEFINE k == <<p>> \o new.save_list
    <2>1. new.save_list \in Seq(Nat)
      BY <1>6, TabFields
    <2>2. k \in Seq(Nat)
      BY <2>1, <1>7, PrependProps
    <2>3. g = [new EXCEPT !.save_list = k]
      BY <1>4
    <2> HIDE DEF k
    <2>4. /\ g \in TabT /\ g.z = new.z /\ g.hash_table = new.hash_table /\ g.symtab = new.symtab
          /\ g.save_list = k
      BY <2>2, <2>3, <1>6 DEF TabT
    <2> QED BY <2>4 DEF k
  <1> DEFINE m == g.symtab
  <1>9. /\ DOMAIN m = D \cup {q} /\ \A r \in D : m[r] = s.symtab[r]
        /\ m[q].name = name /\ m[q].type = "ST_LOCAL_NONE" /\ m[q].type \in LocalTypes
    BY <1>6, <1>8 DEF LocalTypes
  <1> HIDE DEF m
  <1>10. /\ Scoped(m, M \cup {p}) /\ NamesOf(m, DOMAIN m) = W
         /\ DOMAIN m \ (M \cup {p}) = (N \ {p}) \cup {q}
    <2>1. /\ p \in DOMAIN s.symtab \ M /\ s.symtab[p].type \notin LocalTypes /\ q \notin DOMAIN s.symtab
          /\ DOMAIN m = DOMAIN s.symtab \cup {q} /\ \A r \in DOMAIN s.symtab : m[r] = s.symtab[r]
          /\ m[q].name = s.symtab[p].name /\ m[q].type \in LocalTypes
      BY <1>6, <1>9 DEF D
    <2>2. Scoped(s.symtab, M)
      BY <1>1
    <2>3. /\ Scoped(m, M \cup {p}) /\ NamesOf(m, DOMAIN m) = NamesOf(s.symtab, DOMAIN s.symtab)
          /\ DOMAIN m \ (M \cup {p}) = ((DOMAIN s.symtab \ M) \ {p}) \cup {q}
      BY <2>1, <2>2, ScopedSave, SMTT(30)
    <2> QED BY <2>3 DEF W, N, D
  <1>11. Filed(g.hash_table, m, (N \ {p}) \cup {q})
    <2> DEFINE E == N \ {p}
    <2>1. q \notin E /\ q \in DOMAIN m /\ E \subseteq DOMAIN m /\ \A r \in E : m[r].name = s.symtab[r].name
      BY <1>6, <1>9 DEF N, D
    <2>2. hash(m[q].name) = b
      BY <1>9 DEF b
    <2>3. gone.hash_table \in [Buckets -> Seq(Nat)] /\ q \in Nat /\ b \in Buckets /\ Filed(gone.hash_table, s.symtab, E)
      BY <1>1, <1>3, <1>6, TabFields
    <2> HIDE DEF E
    <2>4. Filed([gone.hash_table EXCEPT ![b] = <<q>> \o gone.hash_table[b]], m, E \cup {q})
      BY <2>1, <2>2, <2>3, FiledPut, Zenon
    <2> QED BY <2>4, <1>6, <1>8 DEF E
  <1>12. Held(g.z.live, DOMAIN m, NamesOf(m, DOMAIN m) \cap Ids, oth)
    <2>0. Held(s.z.live, D, W \cap Ids, oth) /\ NodeBlock(q) \notin s.z.live
      BY <1>1, <1>6
    <2>1. Held(s.z.live \cup {NodeBlock(q)}, D \cup {q}, W \cap Ids, oth)
      BY <2>0, HeldNode, Zenon
    <2> QED BY <2>1, <1>6, <1>8, <1>9, <1>10
  <1>13. TabInv(g, M \cup {p}, oth)
    <2>1. Filed(g.hash_table, m, DOMAIN m \ (M \cup {p}))
      BY <1>10, <1>11
    <2> QED BY <2>1, <1>6, <1>8, <1>10, <1>12 DEF TabInv, m
  <1>14. SaveIs(s, M, oth, p, g, q)
    BY <1>6, <1>8, <1>9, <1>13 DEF SaveIs, m, D
  <1> QED BY <1>14 DEF g

\* One step of restore_ids.
RestoredIs(s, M, oth, p, g) ==
    /\ TabInv(g, M \ {p}, oth) /\ g.save_list = s.save_list
    /\ \E l \in DOMAIN s.symtab : /\ s.symtab[l].type \in LocalTypes
                                  /\ DOMAIN g.symtab = DOMAIN s.symtab \ {l}
    /\ \A r \in DOMAIN g.symtab : g.symtab[r] = s.symtab[r]

LEMMA RestoreOneOK ==
    ASSUME NEW s, NEW M, NEW oth, TabInv(s, M, oth), NEW p \in M
    PROVE  RestoredIs(s, M, oth, p, RestoreOne(s, p))
  <1> DEFINE N == DOMAIN s.symtab \ M
             D == DOMAIN s.symtab
             W == NamesOf(s.symtab, D)
             name == s.symtab[p].name
             b == hash(name)
             gone == delete(s, name)
  <1>1. /\ s \in TabT /\ Filed(s.hash_table, s.symtab, N) /\ HeapInv(s.z) /\ M \subseteq D
        /\ Scoped(s.symtab, M) /\ Named(s.symtab, N) /\ D \subseteq Nat
        /\ Held(s.z.live, D, W \cap Ids, oth) /\ name \in AllNames /\ b \in Buckets
    <2>1. name \in AllNames
      BY TabHas
    <2> QED BY <2>1, TabHas, Given_names
  <1>2. PICK l \in N : s.symtab[l].name = name
    <2>1. name \in NamesOf(s.symtab, M)
      BY DEF NamesOf
    <2>2. name \in NamesOf(s.symtab, LocalsIn(s.symtab, N))
      BY <2>1, TabHas
    <2> QED BY <2>2 DEF NamesOf, LocalsIn
  <1> DEFINE f == FreeNode(gone, l)
             g == RestoreOne(s, p)
  <1>3. DeleteIs(s, N, l, gone)
    BY <1>1, <1>2, deleteOK
  <1>4. /\ gone \in TabT /\ gone.z = s.z /\ gone.symtab = s.symtab /\ gone.save_list = s.save_list
        /\ gone.last_hash = b /\ Filed(gone.hash_table, s.symtab, N \ {l})
        /\ s.hash_table[b][At(s, name)] = l
    BY <1>2, <1>3 DEF DeleteIs
  <1>5. g = PutFront(f, b, p)
    <2>1. g = PutFront(FreeNode(gone, s.hash_table[b][At(s, name)]), gone.last_hash, p)
      BY DEF RestoreOne
    <2> HIDE DEF g, gone, b, name
    <2> QED BY <2>1, <1>4 DEF name
  <1>6. /\ HeapInv(zfree(s.z, l, NodeSize)) /\ zfree(s.z, l, NodeSize) \in HeapT
        /\ zfree(s.z, l, NodeSize).live = s.z.live \ {NodeBlock(l)}
        /\ Held(s.z.live \ {NodeBlock(l)}, D \ {l}, W \cap Ids, oth)
    <2>1. l \in D /\ l \in Nat
      BY <1>1
    <2>2. NodeBlock(l) \in s.z.live /\ Held(s.z.live \ {NodeBlock(l)}, D \ {l}, W \cap Ids, oth)
      BY <2>1, <1>1, HeldFree
    <2>3. /\ HeapInv(zfree(s.z, l, NodeSize))
          /\ zfree(s.z, l, NodeSize).live = s.z.live \ {NodeBlock(l)}
      <3>1. Block(l, BytesToBlocks(NodeSize)) \in s.z.live /\ NodeSize \in Nat \ {0}
        BY <2>2, Given_names DEF NodeBlock
      <3> QED BY <3>1, <2>1, <1>1, zfreeOK DEF NodeBlock
    <2> QED BY <2>2, <2>3, Owners
  <1> HIDE DEF f, g, gone, b, D, N, W, name
  <1>7. /\ f \in TabT /\ f.hash_table = gone.hash_table /\ f.z = zfree(s.z, l, NodeSize)
        /\ f.save_list = s.save_list /\ DOMAIN f.symtab = D \ {l}
        /\ \A q \in D \ {l} : f.symtab[q] = s.symtab[q]
    <2>1. zfree(gone.z, l, NodeSize) \in HeapT
      BY <1>4, <1>6
    <2>2. /\ f \in TabT /\ f.hash_table = gone.hash_table /\ f.z = zfree(gone.z, l, NodeSize)
          /\ f.save_list = gone.save_list
          /\ DOMAIN f.symtab = DOMAIN gone.symtab \ {l}
          /\ \A q \in DOMAIN gone.symtab \ {l} : f.symtab[q] = gone.symtab[q]
      BY <2>1, <1>4, FreeFields DEF f
    <2> QED BY <2>2, <1>4 DEF D
  <1>8. /\ g \in TabT /\ g.hash_table = [gone.hash_table EXCEPT ![b] = <<p>> \o gone.hash_table[b]]
        /\ g.z = f.z /\ g.save_list = s.save_list /\ g.symtab = f.symtab
    <2>1. p \in Nat /\ f \in TabT /\ b \in Buckets
      BY <1>1, <1>7
    <2>2. LET k == PutFront(f, b, p)
          IN  /\ k \in TabT /\ k.hash_table = [f.hash_table EXCEPT ![b] = <<p>> \o f.hash_table[b]]
              /\ k.z = f.z /\ k.save_list = f.save_list /\ k.last_hash = f.last_hash
              /\ k.symtab = f.symtab
      BY <2>1, PutFields, Zenon
    <2>3. f.hash_table = gone.hash_table /\ f.save_list = s.save_list
      BY <1>7
    <2> QED BY <2>2, <2>3, <1>5
  <1> DEFINE m == g.symtab
  <1>9. DOMAIN m = D \ {l} /\ \A r \in D \ {l} : m[r] = s.symtab[r]
    BY <1>7, <1>8
  <1> HIDE DEF m
  <1>10. /\ Scoped(m, M \ {p}) /\ NamesOf(m, DOMAIN m) = W
         /\ DOMAIN m \ (M \ {p}) = (N \ {l}) \cup {p} /\ s.symtab[l].type \in LocalTypes
    <2>1. /\ l \in DOMAIN s.symtab \ M /\ s.symtab[l].name = s.symtab[p].name
          /\ DOMAIN m = DOMAIN s.symtab \ {l} /\ \A r \in DOMAIN s.symtab \ {l} : m[r] = s.symtab[r]
      BY <1>2, <1>9 DEF D, N, name
    <2>2. Scoped(s.symtab, M)
      BY <1>1
    <2>3. /\ Scoped(m, M \ {p}) /\ NamesOf(m, DOMAIN m) = NamesOf(s.symtab, DOMAIN s.symtab)
          /\ DOMAIN m \ (M \ {p}) = ((DOMAIN s.symtab \ M) \ {l}) \cup {p} /\ s.symtab[l].type \in LocalTypes
      BY <2>1, <2>2, ScopedRestore, SMTT(60)
    <2> QED BY <2>3 DEF W, N, D
  <1>11. Filed(g.hash_table, m, (N \ {l}) \cup {p})
    <2> DEFINE E == N \ {l}
    <2>1. /\ p \notin E /\ p \in DOMAIN m /\ E \subseteq DOMAIN m /\ \A r \in E : m[r].name = s.symtab[r].name
          /\ m[p].name = name
      BY <1>1, <1>2, <1>9 DEF N, D, name
    <2>2. hash(m[p].name) = b
      BY <2>1 DEF b
    <2>3. gone.hash_table \in [Buckets -> Seq(Nat)] /\ p \in Nat /\ b \in Buckets /\ Filed(gone.hash_table, s.symtab, E)
      BY <1>1, <1>4, TabFields
    <2> HIDE DEF E
    <2>4. Filed([gone.hash_table EXCEPT ![b] = <<p>> \o gone.hash_table[b]], m, E \cup {p})
      BY <2>1, <2>2, <2>3, FiledPut, Zenon
    <2> QED BY <2>4, <1>8 DEF E
  <1>12. Held(g.z.live, DOMAIN m, NamesOf(m, DOMAIN m) \cap Ids, oth) /\ HeapInv(g.z)
    <2>1. g.z = zfree(s.z, l, NodeSize)
      BY <1>7, <1>8
    <2>2. DOMAIN m = D \ {l} /\ NamesOf(m, DOMAIN m) = W
      BY <1>9, <1>10
    <2> QED BY <1>6, <2>1, <2>2
  <1>13. TabInv(g, M \ {p}, oth)
    <2>1. Filed(g.hash_table, m, DOMAIN m \ (M \ {p}))
      BY <1>10, <1>11
    <2> QED BY <2>1, <1>8, <1>10, <1>12 DEF TabInv, m
  <1>14. \E k \in DOMAIN s.symtab : s.symtab[k].type \in LocalTypes /\ DOMAIN g.symtab = DOMAIN s.symtab \ {k}
    BY <1>2, <1>9, <1>10 DEF m, D, N
  <1>15. RestoredIs(s, M, oth, p, g)
    BY <1>8, <1>9, <1>13, <1>14 DEF RestoredIs, m
  <1> QED BY <1>15 DEF g

-----------------------------------------------------------------------------
(* restore_ids: one saved global after the other.                          *)

\* The function of restore_ids.
Restores(f, s) ==
    /\ DOMAIN f = 0..Len(s.save_list)
    /\ f[0] = [s EXCEPT !.save_list = <<>>]
    /\ \A i \in 1..Len(s.save_list) : f[i] = RestoreOne(f[i - 1], s.save_list[i])

LEMMA RestoreSteps ==
    ASSUME NEW s, s.save_list \in Seq(Nat)
    PROVE  \E f : Restores(f, s) /\ restore_ids(s) = f[Len(s.save_list)]
  <1> DEFINE list == s.save_list
             N == Len(list)
             Step(g, i) == IF i = 0 THEN [s EXCEPT !.save_list = <<>>] ELSE RestoreOne(g[i - 1], list[i])
             Is(g, n) == g = [i \in 0..n |-> Step(g, i)]
             T == {n \in Nat : \E g : Is(g, n)}
  <1>1. N \in Nat
    OBVIOUS
  <1>2. 0 \in T
    <2> DEFINE g == [i \in 0..0 |-> [s EXCEPT !.save_list = <<>>]]
    <2>1. Is(g, 0)
      OBVIOUS
    <2> HIDE DEF g
    <2> QED BY <2>1
  <1>3. ASSUME NEW n \in Nat, n \in T PROVE n + 1 \in T
    <2>1. PICK g : Is(g, n)
      BY <1>3
    <2> DEFINE k == [i \in 0..n + 1 |-> IF i = n + 1 THEN RestoreOne(g[n], list[n + 1]) ELSE g[i]]
    <2>2. DOMAIN k = 0..n + 1 /\ \A i \in 0..n : k[i] = g[i]
      OBVIOUS
    <2>3. k[n + 1] = RestoreOne(g[n], list[n + 1])
      OBVIOUS
    <2>4. \A i \in 0..n : g[i] = Step(g, i)
      BY <2>1
    <2>5. ASSUME NEW i \in 0..n + 1 PROVE k[i] = Step(k, i)
      <3>1. CASE i = 0
        BY <3>1, <2>2, <2>4
      <3>2. CASE i # 0 /\ i # n + 1
        <4>1. i \in 0..n /\ i - 1 \in 0..n
          BY <3>2
        <4> HIDE DEF k, list
        <4> QED BY <4>1, <3>2, <2>2, <2>4
      <3>3. CASE i = n + 1
        <4>1. i - 1 = n /\ n \in 0..n /\ i # 0
          BY <3>3
        <4> HIDE DEF k, list
        <4> QED BY <4>1, <3>3, <2>2, <2>3
      <3> QED BY <3>1, <3>2, <3>3
    <2>6. k = [i \in 0..n + 1 |-> k[i]]
      BY <2>2
    <2> HIDE DEF k, Step
    <2>7. Is(k, n + 1)
      BY <2>5, <2>6
    <2> QED BY <2>7
  <1>4. N \in T
    BY <1>1, <1>2, <1>3, NatAll
  <1> DEFINE c == CHOOSE g : Is(g, N)
  <1>5. restore_ids(s) = c[N]
    BY DEF restore_ids
  <1>6. Is(c, N)
    BY <1>4
  <1> HIDE DEF c
  <1>7. DOMAIN c = 0..N /\ \A i \in 0..N : c[i] = Step(c, i)
    BY <1>6
  <1>8. Restores(c, s)
    <2>1. 0 \in 0..N /\ \A i \in 1..N : i \in 0..N /\ i # 0
      BY <1>1
    <2> HIDE DEF N, list
    <2>2. c[0] = [s EXCEPT !.save_list = <<>>] /\ \A i \in 1..N : c[i] = RestoreOne(c[i - 1], list[i])
      BY <2>1, <1>7
    <2> QED BY <2>2, <1>7 DEF Restores, N, list
  <1> QED BY <1>5, <1>8

\* The save list: its nodes, each once.
SavedIn(s) == {s.save_list[i] : i \in 1..Len(s.save_list)}

LEMMA RestoreAllOK ==
    ASSUME NEW s, NEW oth, TabInv(s, SavedIn(s), oth), NoTwice(s.save_list)
    PROVE  LET g == restore_ids(s)
           IN  /\ TabInv(g, {}, oth) /\ g.save_list = <<>>
               /\ DOMAIN g.symtab = {p \in DOMAIN s.symtab : s.symtab[p].type \notin LocalTypes}
               /\ \A p \in DOMAIN g.symtab : g.symtab[p] = s.symtab[p]
  <1> DEFINE list == s.save_list
             n == Len(list)
             D == DOMAIN s.symtab
             M(i) == {list[j] : j \in i + 1..n}
  <1>1. s \in TabT /\ list \in Seq(Nat) /\ n \in Nat
    <2>1. s \in TabT
      BY TabHas
    <2>2. list \in Seq(Nat)
      BY <2>1, TabFields
    <2> QED BY <2>1, <2>2
  <1>2. PICK f : Restores(f, s) /\ restore_ids(s) = f[n]
    BY <1>1, RestoreSteps
  <1>3. /\ f[0] = [s EXCEPT !.save_list = <<>>]
        /\ \A i \in 1..n : f[i] = RestoreOne(f[i - 1], list[i])
    BY <1>2 DEF Restores
  <1>4. \A j, k \in 1..n : list[j] = list[k] => j = k
    BY DEF NoTwice
  <1>5. M(0) = SavedIn(s) /\ M(n) = {}
    <2>1. M(0) = SavedIn(s)
      BY DEF SavedIn
    <2>2. n + 1..n = {}
      BY <1>1
    <2> QED BY <2>1, <2>2
  <1> HIDE DEF list, n, D
  <1>6. \A i \in 1..n : list[i] \in M(i - 1) /\ M(i) = M(i - 1) \ {list[i]}
    <2>1. ASSUME NEW i \in 1..n PROVE list[i] \in M(i - 1) /\ M(i) = M(i - 1) \ {list[i]}
      <3>1. i - 1 + 1 = i /\ i \in i..n /\ i..n = (i + 1..n) \cup {i} /\ i \notin i + 1..n
            /\ i + 1..n \subseteq 1..n
        BY <1>1
      <3>2. M(i - 1) = {list[j] : j \in i..n}
        BY <3>1
      <3>3. \A j \in i + 1..n : list[j] # list[i]
        BY <3>1, <1>4
      <3> QED BY <3>1, <3>2, <3>3
    <2> QED BY <2>1
  <1> HIDE DEF M
  <1> DEFINE C(i) == /\ TabInv(f[i], M(i), oth) /\ f[i].save_list = <<>>
                     /\ DOMAIN f[i].symtab \subseteq D
                     /\ \A p \in D : s.symtab[p].type \notin LocalTypes => p \in DOMAIN f[i].symtab
                     /\ \A p \in DOMAIN f[i].symtab : f[i].symtab[p] = s.symtab[p]
             T == {i \in Nat : i <= n => C(i)}
  <1>7. 0 \in T
    <2>1. /\ f[0] \in TabT /\ f[0].z = s.z /\ f[0].hash_table = s.hash_table /\ f[0].symtab = s.symtab
          /\ f[0].save_list = <<>>
      <3> DEFINE e == <<>>
                 u == f[0]
      <3>1. e \in Seq(Nat) /\ u = [s EXCEPT !.save_list = e] /\ s \in TabT
        BY <1>1, <1>3
      <3> HIDE DEF e, u
      <3>2. /\ u \in TabT /\ u.z = s.z /\ u.hash_table = s.hash_table /\ u.symtab = s.symtab
            /\ u.save_list = e
        BY <3>1 DEF TabT
      <3> QED BY <3>2 DEF e, u
    <2>2. TabInv(f[0], M(0), oth)
      BY <2>1, <1>5 DEF TabInv
    <2> QED BY <2>1, <2>2 DEF D
  <1>8. ASSUME NEW i \in Nat, i \in T PROVE i + 1 \in T
    <2> SUFFICES ASSUME i + 1 <= n PROVE C(i + 1)
      OBVIOUS
    <2> DEFINE k == i + 1
               p == list[k]
    <2>1. C(i) /\ k \in 1..n /\ k - 1 = i
      <3>1. i <= n /\ i + 1 \in 1..n /\ i + 1 - 1 = i
        BY <1>1
      <3>2. C(i)
        BY <3>1, <1>8
      <3> HIDE DEF C
      <3> QED BY <3>1, <3>2
    <2>2. f[k] = RestoreOne(f[i], p) /\ p \in M(i) /\ M(k) = M(i) \ {p}
      BY <2>1, <1>3, <1>6
    <2> HIDE DEF p, k
    <2>3. RestoredIs(f[i], M(i), oth, p, f[k])
      BY <2>1, <2>2, RestoreOneOK
    <2>4. /\ TabInv(f[k], M(k), oth) /\ f[k].save_list = <<>>
          /\ \A r \in DOMAIN f[k].symtab : f[k].symtab[r] = f[i].symtab[r]
      BY <2>1, <2>2, <2>3 DEF RestoredIs
    <2>5. PICK l \in DOMAIN f[i].symtab : /\ f[i].symtab[l].type \in LocalTypes
                                          /\ DOMAIN f[k].symtab = DOMAIN f[i].symtab \ {l}
      BY <2>3 DEF RestoredIs
    <2>6. s.symtab[l].type \in LocalTypes
      BY <2>1, <2>5
    <2>7. C(k)
      BY <2>1, <2>4, <2>5, <2>6
    <2> QED BY <2>7 DEF k
  <1>9. C(n)
    <2>1. Nat \subseteq T
      <3> HIDE DEF T
      <3> QED BY <1>7, <1>8, NatAll
    <2> QED BY <2>1, <1>1
  <1> DEFINE g == restore_ids(s)
  <1>10. /\ TabInv(g, {}, oth) /\ g.save_list = <<>> /\ DOMAIN g.symtab \subseteq D
         /\ \A p \in D : s.symtab[p].type \notin LocalTypes => p \in DOMAIN g.symtab
         /\ \A p \in DOMAIN g.symtab : g.symtab[p] = s.symtab[p]
    BY <1>2, <1>5, <1>9
  <1> HIDE DEF g
  <1>11. \A p \in DOMAIN g.symtab : g.symtab[p].type \notin LocalTypes
    <2>1. NamesOf(g.symtab, LocalsIn(g.symtab, DOMAIN g.symtab \ {})) = NamesOf(g.symtab, {})
      BY <1>10, TabHas
    <2> QED BY <2>1 DEF NamesOf, LocalsIn
  <1>12. DOMAIN g.symtab = {p \in D : s.symtab[p].type \notin LocalTypes}
    BY <1>10, <1>11
  <1> QED BY <1>10, <1>12 DEF g, D

-----------------------------------------------------------------------------
(* The inductive invariant.                                                *)

\* The table is in order, the save list has each global once and is empty
\* outside a function, and every keyword is known once the text begins.
Good(s, oth, sc, tk, fn) ==
    /\ TabInv(s, SavedIn(s), oth) /\ NoTwice(s.save_list)
    /\ sc \in {"init", "main"} => s.save_list = <<>>
    /\ sc # "init" => Keywords \subseteq NamesOf(s.symtab, DOMAIN s.symtab)
    /\ sc \in {"init", "main", "params", "body"} /\ tk \in 0..MaxOther /\ fn \in 0..MaxFunctions

SymInv == Good(S, others, scope, taken, functions)

\* What a map of nodes says of names: the globals and the locals.
GlobalsIn(m) == {p \in DOMAIN m : m[p].type \notin LocalTypes}

\* The step of the map: a node is new or has another type.
Puts(m, mm, name, type) ==
    \E p : /\ DOMAIN mm = DOMAIN m \cup {p} /\ mm[p].name = name /\ mm[p].type = type
           /\ \A q \in DOMAIN m \ {p} : mm[q] = m[q]
           /\ p \in DOMAIN m => m[p].name = name /\ (m[p].type \in LocalTypes <=> type \in LocalTypes)
           /\ p \notin DOMAIN m => IF type \in LocalTypes THEN name \notin NamesOf(m, LocalsIn(m, DOMAIN m))
                                   ELSE name \notin NamesOf(m, DOMAIN m)

\* The step of the map at the end of a function.
Drops(m, mm) == /\ DOMAIN mm = GlobalsIn(m)
                /\ \A p \in DOMAIN mm : mm[p] = m[p]

\* The fields of the table of the variables.
LEMMA FieldsOfS ==
    /\ S.z = z /\ S.hash_table = hash_table /\ S.save_list = save_list /\ S.last_hash = last_hash
    /\ S.symtab = symtab /\ SavedIn(S) = Saved
    /\ S'.z = z' /\ S'.hash_table = hash_table' /\ S'.save_list = save_list'
    /\ S'.last_hash = last_hash' /\ S'.symtab = symtab'
  BY DEF S, SavedIn, Saved

LEMMA GoodHas ==
    ASSUME SymInv
    PROVE  /\ TabInv(S, SavedIn(S), others) /\ NoTwice(save_list) /\ S \in TabT
           /\ scope \in {"init", "main"} => save_list = <<>> /\ SavedIn(S) = {}
           /\ scope # "init" => Keywords \subseteq NamesOf(symtab, DOMAIN symtab)
           /\ scope \in {"init", "main", "params", "body"}
           /\ taken \in 0..MaxOther /\ functions \in 0..MaxFunctions
  <1>1. save_list = <<>> => Saved = {}
    BY DEF Saved
  <1> QED BY <1>1, FieldsOfS, TabHas DEF SymInv, Good

\* It holds before anything is inserted.
LEMMA SymInvInit == Init => SymInv
  <1> SUFFICES ASSUME Init PROVE SymInv
    OBVIOUS
  <1>0. /\ z = NoMemory /\ hash_table = [b \in Buckets |-> <<>>] /\ save_list = <<>>
        /\ last_hash \in Buckets /\ symtab = <<>> /\ others = {} /\ taken = 0 /\ scope = "init"
        /\ functions = 0
    BY SymbolsAssumption DEF Init
  <1>1. HeapInv(z) /\ z.live = {} /\ z \in HeapT
    BY <1>0, NoMemoryOK, Owners
  <1>2. DOMAIN symtab = {} /\ symtab \in SymMaps
    <2>1. symtab \in [{} -> Symbol]
      BY <1>0
    <2> QED BY <2>1, MapIs
  <1>3. hash_table \in [Buckets -> Seq(Nat)] /\ save_list \in Seq(Nat) /\ \A b \in Buckets : hash_table[b] = <<>>
    BY <1>0
  <1>4. S \in TabT
    BY <1>0, <1>1, <1>2, <1>3 DEF S, TabT
  <1>5. SavedIn(S) = {}
    BY <1>0, FieldsOfS DEF Saved
  <1>6. Filed(hash_table, symtab, {})
    BY <1>3 DEF Filed, NoTwice, ToSet
  <1>7. Scoped(symtab, {})
    BY <1>2 DEF Scoped, Named, NamesOf, LocalsIn
  <1>8. Held({}, {}, {}, {})
    <2>1. BlocksOfNodes({}) = {} /\ BlocksOfOthers({}) = {}
      BY DEF BlocksOfNodes, BlocksOfOthers
    <2>2. TextBlocks({}, {}, {}) = {}
      BY DEF TextBlocks
    <2> QED BY <2>1, <2>2, FS_EmptySet DEF Held
  <1>9. NamesOf(symtab, {}) \cap Ids = {}
    BY DEF NamesOf
  <1>10. TabInv(S, {}, others)
    <2>1. DOMAIN symtab \ {} = {}
      BY <1>2
    <2> QED BY <2>1, <1>0, <1>1, <1>2, <1>4, <1>6, <1>7, <1>8, <1>9, FieldsOfS DEF TabInv
  <1>11. NoTwice(save_list)
    BY <1>0 DEF NoTwice
  <1>12. taken \in 0..MaxOther /\ functions \in 0..MaxFunctions
    BY <1>0, SymbolsAssumption
  <1> QED BY <1>0, <1>5, <1>10, <1>11, <1>12, FieldsOfS DEF SymInv, Good

\* A table that the variables become.
LEMMA GoodNext ==
    ASSUME NEW g, Becomes(g), Good(g, others', scope', taken', functions')
    PROVE  SymInv' /\ S' = g /\ symtab' = g.symtab
  <1>1. g \in TabT
    BY TabHas DEF Good
  <1>2. S' = g
    BY <1>1, BecomesIs
  <1>3. symtab' = g.symtab
    BY <1>2, FieldsOfS
  <1> QED BY <1>2, <1>3 DEF SymInv

\* A table with the same save list and more names.
LEMMA GoodKeeps ==
    ASSUME SymInv, NEW g, NEW oth, TabInv(g, SavedIn(S), oth), g.save_list = S.save_list,
           NamesOf(symtab, DOMAIN symtab) \subseteq NamesOf(g.symtab, DOMAIN g.symtab)
    PROVE  Good(g, oth, scope, taken, functions)
  <1>1. SavedIn(g) = SavedIn(S)
    BY DEF SavedIn
  <1> QED BY <1>1, GoodHas, FieldsOfS DEF Good

-----------------------------------------------------------------------------
(* One step of the program.                                                *)

LEMMA kw_initStep ==
    ASSUME SymInv, NEW name \in Ids \cup Keywords, kw_init(name)
    PROVE  SymInv' /\ Puts(symtab, symtab', name, "ST_KEYWORD") /\ scope = "init"
           /\ name \notin NamesOf(symtab, DOMAIN symtab)
  <1> DEFINE g == insert(S, name)
  <1>1. /\ scope = "init" /\ name \in Keywords /\ At(S, name) = 0 /\ Becomes(g)
        /\ UNCHANGED <<others, taken, scope, functions>>
    BY DEF kw_init
  <1>2. PICK p : InsertIs(S, SavedIn(S), others, name, g, p)
    BY <1>1, GoodHas, insertOK
  <1> HIDE DEF g
  <1>3. /\ TabInv(g, SavedIn(S), others) /\ g.save_list = S.save_list
        /\ DOMAIN g.symtab = DOMAIN symtab \cup {p} /\ p \notin DOMAIN symtab
        /\ \A q \in DOMAIN symtab : g.symtab[q] = symtab[q]
        /\ g.symtab[p].name = name /\ g.symtab[p].type = "ST_KEYWORD"
        /\ name \notin NamesOf(symtab, DOMAIN symtab)
    BY <1>2, FieldsOfS DEF InsertIs
  <1>4. NamesOf(symtab, DOMAIN symtab) \subseteq NamesOf(g.symtab, DOMAIN g.symtab)
    BY <1>3 DEF NamesOf
  <1>5. Good(g, others, scope, taken, functions)
    BY <1>3, <1>4, GoodKeeps
  <1>6. Good(g, others', scope', taken', functions')
    BY <1>1, <1>5
  <1>7. SymInv' /\ symtab' = g.symtab
    BY <1>1, <1>6, GoodNext
  <1>8. Puts(symtab, g.symtab, name, "ST_KEYWORD")
    <2>1. "ST_KEYWORD" \notin LocalTypes
      BY DEF LocalTypes
    <2> QED BY <2>1, <1>3 DEF Puts
  <1> QED BY <1>1, <1>3, <1>7, <1>8

\* The node that find finds for the variables.
LEMMA FindS ==
    ASSUME SymInv, NEW name \in Ids \cup Keywords, scope # "init"
    PROVE  LET f == find(S, name)
               p == Found(f, name)
           IN  /\ TabInv(f, SavedIn(S), others) /\ f.save_list = save_list /\ SavedIn(f) = SavedIn(S)
               /\ Good(f, others, scope, taken, functions)
               /\ p \in DOMAIN f.symtab \ SavedIn(S) /\ f.symtab[p].name = name
               /\ DOMAIN f.symtab = DOMAIN symtab \cup {p}
               /\ \A q \in DOMAIN symtab : f.symtab[q] = symtab[q]
               /\ f.symtab[p].type = TypeOf(name) /\ TypeOf(name) \in Types
               /\ p \in DOMAIN symtab => f.symtab = symtab
               /\ p \notin DOMAIN symtab => /\ name \notin NamesOf(symtab, DOMAIN symtab)
                                            /\ TypeOf(name) = "ST_NONE"
  <1> DEFINE f == find(S, name)
             p == Found(f, name)
  <1>1. /\ name \in AllNames /\ TabInv(S, SavedIn(S), others) /\ S.symtab = symtab
        /\ name \in Keywords => name \in NamesOf(S.symtab, DOMAIN S.symtab)
    BY GoodHas, FieldsOfS DEF AllNames
  <1>2. FindIs(S, SavedIn(S), others, name, f, p)
    BY <1>1, findOK
  <1> HIDE DEF f, p
  <1>3. /\ TabInv(f, SavedIn(S), others) /\ f.save_list = save_list
        /\ p \in DOMAIN f.symtab \ SavedIn(S) /\ f.symtab[p].name = name
        /\ DOMAIN f.symtab = DOMAIN symtab \cup {p}
        /\ \A q \in DOMAIN symtab : f.symtab[q] = symtab[q]
        /\ p \in DOMAIN symtab <=> At(S, name) # 0
        /\ p \notin DOMAIN symtab => name \notin NamesOf(symtab, DOMAIN symtab)
    BY <1>2, FieldsOfS DEF FindIs
  <1>4. f.symtab[p].type = TypeOf(name)
    BY <1>2, FieldsOfS DEF FindIs, TypeOf
  <1>5. f.symtab[p].type \in Types
    BY <1>3, TabHas
  <1>6. p \in DOMAIN symtab => f.symtab = symtab
    <2>1. f.symtab \in [DOMAIN f.symtab -> Symbol] /\ symtab \in [DOMAIN symtab -> Symbol]
      <3>1. f \in TabT /\ S \in TabT
        BY <1>3, TabHas, GoodHas
      <3>2. f.symtab \in SymMaps /\ symtab \in SymMaps
        BY <3>1, TabFields, FieldsOfS
      <3> QED BY <3>2, MapType
    <2> QED BY <2>1, <1>3
  <1>7. p \notin DOMAIN symtab => TypeOf(name) = "ST_NONE"
    BY <1>3 DEF TypeOf
  <1>8. SavedIn(f) = SavedIn(S)
    BY <1>3, FieldsOfS DEF SavedIn
  <1>9. Good(f, others, scope, taken, functions)
    <2>1. NamesOf(symtab, DOMAIN symtab) \subseteq NamesOf(f.symtab, DOMAIN f.symtab)
      BY <1>3 DEF NamesOf
    <2> QED BY <2>1, <1>3, FieldsOfS, GoodKeeps
  <1> QED BY <1>3, <1>4, <1>5, <1>6, <1>7, <1>8, <1>9 DEF f, p

\* A name in the text.
LEMMA MetOK ==
    ASSUME SymInv, NEW name \in Ids \cup Keywords, scope # "init", NEW type \in Types,
           type \in LocalTypes <=> TypeOf(name) \in LocalTypes
    PROVE  /\ Good(Met(name, type), others, scope, taken, functions)
           /\ Puts(symtab, Met(name, type).symtab, name, type)
           /\ Met(name, type).save_list = save_list
  <1> DEFINE f == find(S, name)
             p == Found(f, name)
             g == Retyped(f, p, type)
  <1>1. /\ TabInv(f, SavedIn(S), others) /\ f.save_list = save_list /\ SavedIn(f) = SavedIn(S)
        /\ Good(f, others, scope, taken, functions)
        /\ p \in DOMAIN f.symtab \ SavedIn(S) /\ f.symtab[p].name = name
        /\ DOMAIN f.symtab = DOMAIN symtab \cup {p}
        /\ \A q \in DOMAIN symtab : f.symtab[q] = symtab[q]
        /\ f.symtab[p].type = TypeOf(name)
        /\ p \notin DOMAIN symtab => /\ name \notin NamesOf(symtab, DOMAIN symtab)
                                     /\ TypeOf(name) = "ST_NONE"
    BY FindS
  <1>2. Met(name, type) = g
    BY DEF Met, Retyped
  <1> HIDE DEF f, p
  <1>3. TabInv(g, SavedIn(S), others)
    BY <1>1, RetypeOK
  <1>4. /\ g.save_list = f.save_list /\ DOMAIN g.symtab = DOMAIN f.symtab
        /\ g.symtab[p] = [name |-> name, type |-> type]
        /\ \A q \in DOMAIN f.symtab \ {p} : g.symtab[q] = f.symtab[q]
    <2>1. f \in TabT /\ p \in DOMAIN f.symtab
      BY <1>1, TabHas
    <2> QED BY <2>1, <1>1, RetypeFields
  <1> HIDE DEF g
  <1>5. g.symtab[p].name = name /\ g.symtab[p].type = type
    BY <1>4
  <1>6. Good(g, others, scope, taken, functions)
    <2>1. NamesOf(symtab, DOMAIN symtab) \subseteq NamesOf(g.symtab, DOMAIN g.symtab)
      <3>1. \A q \in DOMAIN symtab : q \in DOMAIN g.symtab /\ g.symtab[q].name = symtab[q].name
        BY <1>1, <1>4, <1>5
      <3> QED BY <3>1 DEF NamesOf
    <2> QED BY <2>1, <1>1, <1>3, <1>4, FieldsOfS, GoodKeeps
  <1>7. Puts(symtab, g.symtab, name, type)
    <2>1. p \in DOMAIN symtab => symtab[p].name = name /\ (symtab[p].type \in LocalTypes <=> type \in LocalTypes)
      BY <1>1
    <2>2. p \notin DOMAIN symtab => type \notin LocalTypes /\ name \notin NamesOf(symtab, DOMAIN symtab)
      BY <1>1 DEF LocalTypes
    <2>3. \A q \in DOMAIN symtab \ {p} : g.symtab[q] = symtab[q]
      BY <1>1, <1>4
    <2> QED BY <2>1, <2>2, <2>3, <1>1, <1>4, <1>5 DEF Puts
  <1> QED BY <1>1, <1>2, <1>4, <1>6, <1>7

LEMMA UseStep ==
    ASSUME SymInv, NEW name \in Ids \cup Keywords, Use(name)
    PROVE  /\ SymInv' /\ scope \in {"main", "body"} /\ scope' = scope
           /\ \E type \in Shown(TypeOf(name)) :
                /\ Puts(symtab, symtab', name, type) /\ (type \in LocalTypes <=> TypeOf(name) \in LocalTypes)
  <1>1. /\ scope \in {"main", "body"} /\ UNCHANGED <<others, taken, scope, functions>>
        /\ \E type \in Shown(TypeOf(name)) : Becomes(Met(name, type))
    BY DEF Use
  <1>2. PICK type \in Shown(TypeOf(name)) : Becomes(Met(name, type))
    BY <1>1
  <1>3. TypeOf(name) \in Types
    BY <1>1, FindS
  <1>4. type \in Types /\ (type \in LocalTypes <=> TypeOf(name) \in LocalTypes)
    BY <1>3, Given_names DEF Shown, LocalTypes
  <1>5. /\ Good(Met(name, type), others, scope, taken, functions)
        /\ Puts(symtab, Met(name, type).symtab, name, type)
    BY <1>1, <1>4, MetOK
  <1>6. Good(Met(name, type), others', scope', taken', functions')
    BY <1>1, <1>5
  <1>7. SymInv' /\ symtab' = Met(name, type).symtab
    BY <1>2, <1>6, GoodNext
  <1> QED BY <1>1, <1>4, <1>5, <1>7

LEMMA DefineStep ==
    ASSUME SymInv, NEW name \in Ids \cup Keywords, Define(name)
    PROVE  LET type == IF TypeOf(name) = "ST_NONE" THEN "ST_FUNCT" ELSE TypeOf(name)
           IN  /\ SymInv' /\ scope = "main" /\ Puts(symtab, symtab', name, type)
               /\ scope' = IF TypeOf(name) = "ST_KEYWORD" THEN "main" ELSE "params"
               /\ type \in LocalTypes <=> TypeOf(name) \in LocalTypes
  <1> DEFINE type == IF TypeOf(name) = "ST_NONE" THEN "ST_FUNCT" ELSE TypeOf(name)
             g == Met(name, type)
  <1>1. /\ scope = "main" /\ functions < MaxFunctions /\ functions' = functions + 1 /\ Becomes(g)
        /\ scope' = (IF TypeOf(name) = "ST_KEYWORD" THEN "main" ELSE "params")
        /\ UNCHANGED <<others, taken>>
    BY DEF Define
  <1>2. TypeOf(name) \in Types
    BY <1>1, FindS
  <1>3. type \in Types /\ (type \in LocalTypes <=> TypeOf(name) \in LocalTypes)
    BY <1>2, Given_names DEF LocalTypes
  <1> HIDE DEF type, g
  <1>4. /\ Good(g, others, scope, taken, functions) /\ Puts(symtab, g.symtab, name, type)
        /\ g.save_list = save_list
    BY <1>1, <1>3, MetOK DEF g
  <1>5. functions' \in 0..MaxFunctions
    <2>1. functions \in 0..MaxFunctions /\ MaxFunctions \in Nat
      BY GoodHas, SymbolsAssumption
    <2> QED BY <2>1, <1>1
  <1>6. Good(g, others', scope', taken', functions')
    <2>1. g.save_list = <<>>
      BY <1>1, <1>4, GoodHas
    <2> QED BY <2>1, <1>1, <1>4, <1>5 DEF Good
  <1>7. SymInv' /\ symtab' = g.symtab
    BY <1>1, <1>6, GoodNext
  <1> QED BY <1>1, <1>3, <1>4, <1>7 DEF type

\* The end of a function, or of a failed definition.
LEMMA RestoreGood ==
    ASSUME NEW s, NEW oth, NEW sc, NEW tk, NEW fn, Good(s, oth, sc, tk, fn), sc # "init"
    PROVE  Good(restore_ids(s), oth, "main", tk, fn) /\ Drops(s.symtab, restore_ids(s).symtab)
  <1> DEFINE g == restore_ids(s)
             m == s.symtab
             M == SavedIn(s)
  <1>1. /\ TabInv(s, M, oth) /\ NoTwice(s.save_list)
        /\ Keywords \subseteq NamesOf(m, DOMAIN m)
        /\ tk \in 0..MaxOther /\ fn \in 0..MaxFunctions
    BY DEF Good
  <1>2. /\ TabInv(g, {}, oth) /\ g.save_list = <<>>
        /\ DOMAIN g.symtab = GlobalsIn(m) /\ \A p \in DOMAIN g.symtab : g.symtab[p] = m[p]
    BY <1>1, RestoreAllOK DEF GlobalsIn
  <1>3. M \subseteq GlobalsIn(m) /\ LocalsIn(m, DOMAIN m) = LocalsIn(m, DOMAIN m \ M)
        /\ NamesOf(m, LocalsIn(m, DOMAIN m \ M)) = NamesOf(m, M)
    BY <1>1, TabHas DEF GlobalsIn, LocalsIn
  <1> HIDE DEF g, m, M
  <1>4. \A p \in DOMAIN m : m[p].name \in NamesOf(m, GlobalsIn(m))
    <2>1. ASSUME NEW p \in DOMAIN m PROVE m[p].name \in NamesOf(m, GlobalsIn(m))
      <3>1. CASE m[p].type \in LocalTypes
        <4>1. m[p].name \in NamesOf(m, M)
          BY <1>3, <3>1 DEF NamesOf, LocalsIn
        <4> QED BY <4>1, <1>3 DEF NamesOf
      <3>2. CASE m[p].type \notin LocalTypes
        BY <3>2 DEF NamesOf, GlobalsIn
      <3> QED BY <3>1, <3>2
    <2> QED BY <2>1
  <1>5. NamesOf(g.symtab, DOMAIN g.symtab) = NamesOf(m, GlobalsIn(m))
    BY <1>2 DEF NamesOf
  <1>6. Keywords \subseteq NamesOf(g.symtab, DOMAIN g.symtab)
    BY <1>1, <1>4, <1>5 DEF NamesOf
  <1>7. SavedIn(g) = {} /\ NoTwice(g.save_list)
    BY <1>2 DEF SavedIn, NoTwice
  <1>8. Good(g, oth, "main", tk, fn)
    BY <1>1, <1>2, <1>6, <1>7 DEF Good
  <1>9. Drops(m, g.symtab)
    BY <1>2 DEF Drops
  <1> QED BY <1>8, <1>9 DEF g, m

\* A parameter whose name is that of the global p, which find has found.
LEMMA SaveGood ==
    ASSUME NEW s, NEW oth, NEW tk, NEW fn, Good(s, oth, "params", tk, fn),
           NEW name, NEW p \in DOMAIN s.symtab \ SavedIn(s),
           s.symtab[p].name = name, s.symtab[p].type \notin LocalTypes, Found(s, name) = p
    PROVE  /\ Good(save_id(s, name), oth, "params", tk, fn)
           /\ Puts(s.symtab, save_id(s, name).symtab, name, "ST_LOCAL_NONE")
           /\ name \notin NamesOf(s.symtab, LocalsIn(s.symtab, DOMAIN s.symtab))
  <1> DEFINE g == save_id(s, name)
             m == s.symtab
             M == SavedIn(s)
             l == s.save_list
  <1>1. /\ TabInv(s, M, oth) /\ NoTwice(l) /\ Keywords \subseteq NamesOf(m, DOMAIN m)
        /\ tk \in 0..MaxOther /\ fn \in 0..MaxFunctions
    BY DEF Good
  <1>2. PICK q : SaveIs(s, M, oth, p, g, q)
    BY <1>1, save_idOK
  <1>3. l \in Seq(Nat) /\ DOMAIN m \subseteq Nat /\ Named(m, DOMAIN m \ M)
        /\ \A r \in M : m[r].type \notin LocalTypes
    <2>1. s \in TabT
      BY <1>1, TabHas
    <2> QED BY <2>1, <1>1, TabHas, TabFields
  <1> HIDE DEF g
  <1>4. /\ TabInv(g, M \cup {p}, oth) /\ g.save_list = <<p>> \o l
        /\ DOMAIN g.symtab = DOMAIN m \cup {q} /\ q \notin DOMAIN m
        /\ \A r \in DOMAIN m : g.symtab[r] = m[r]
        /\ g.symtab[q].name = name /\ g.symtab[q].type = "ST_LOCAL_NONE"
    BY <1>2 DEF SaveIs
  <1>5. p \in Nat /\ ToSet(l) = M
    BY <1>3 DEF ToSet, SavedIn
  <1> HIDE DEF m, M, l
  <1>6. NoTwice(g.save_list) /\ ToSet(g.save_list) = M \cup {p} /\ g.save_list \in Seq(Nat)
    BY <1>1, <1>3, <1>4, <1>5, ListPut DEF m, M
  <1>7. SavedIn(g) = M \cup {p}
    BY <1>6 DEF SavedIn, ToSet
  <1>8. NamesOf(m, DOMAIN m) \subseteq NamesOf(g.symtab, DOMAIN g.symtab)
    BY <1>4 DEF NamesOf
  <1>9. Good(g, oth, "params", tk, fn)
    BY <1>1, <1>4, <1>6, <1>7, <1>8 DEF Good
  <1>10. name \notin NamesOf(m, LocalsIn(m, DOMAIN m))
    <2> SUFFICES ASSUME NEW r \in DOMAIN m, m[r].type \in LocalTypes, m[r].name = name PROVE FALSE
      BY DEF NamesOf, LocalsIn
    <2>1. r \in DOMAIN m \ M /\ p \in DOMAIN m \ M
      BY <1>3 DEF m, M
    <2>2. r = p
      BY <2>1, <1>3 DEF Named, m
    <2> QED BY <2>2 DEF m
  <1>11. Puts(m, g.symtab, name, "ST_LOCAL_NONE")
    <2>1. "ST_LOCAL_NONE" \in LocalTypes
      BY DEF LocalTypes
    <2> QED BY <2>1, <1>4, <1>10 DEF Puts
  <1> QED BY <1>9, <1>10, <1>11 DEF g, m

LEMMA ParamStep ==
    ASSUME SymInv, NEW name \in Ids \cup Keywords, Param(name)
    PROVE  /\ SymInv' /\ scope = "params"
           /\ \/ /\ TypeOf(name) \in {"ST_KEYWORD", "ST_FUNCT"} /\ scope' = "main"
                 /\ Drops(symtab, symtab')
              \/ /\ TypeOf(name) = "ST_NONE" /\ scope' = "main"
                 /\ \E m : Puts(symtab, m, name, "ST_FUNCT") /\ Drops(m, symtab')
              \/ /\ TypeOf(name) = "ST_LOCAL_NONE" /\ scope' = scope /\ symtab' = symtab
              \/ /\ TypeOf(name) \in {"ST_NONE", "ST_VAR"} /\ scope' = scope
                 /\ \E m : /\ \/ m = symtab /\ name \in NamesOf(symtab, GlobalsIn(symtab))
                              \/ /\ Puts(symtab, m, name, "ST_NONE")
                                 /\ name \notin NamesOf(symtab, DOMAIN symtab)
                           /\ Puts(m, symtab', name, "ST_LOCAL_NONE")
                           /\ name \notin NamesOf(m, LocalsIn(m, DOMAIN m))
  <1> DEFINE f == find(S, name)
             p == Found(f, name)
             g == Met(name, "ST_FUNCT")
             type == TypeOf(name)
  <1>1. /\ scope = "params" /\ UNCHANGED <<others, taken, functions>>
        /\ \/ type \in {"ST_KEYWORD", "ST_FUNCT"} /\ Becomes(restore_ids(f)) /\ scope' = "main"
           \/ type = "ST_NONE" /\ Becomes(restore_ids(g)) /\ scope' = "main"
           \/ type = "ST_LOCAL_NONE" /\ Becomes(f) /\ UNCHANGED scope
           \/ type \in {"ST_NONE", "ST_VAR"} /\ Becomes(save_id(f, name)) /\ UNCHANGED scope
    BY DEF Param
  <1>2. /\ Good(f, others, scope, taken, functions) /\ SavedIn(f) = SavedIn(S)
        /\ p \in DOMAIN f.symtab \ SavedIn(S) /\ f.symtab[p].name = name
        /\ DOMAIN f.symtab = DOMAIN symtab \cup {p}
        /\ \A q \in DOMAIN symtab : f.symtab[q] = symtab[q]
        /\ f.symtab[p].type = type
        /\ p \in DOMAIN symtab => f.symtab = symtab
        /\ p \notin DOMAIN symtab => name \notin NamesOf(symtab, DOMAIN symtab) /\ type = "ST_NONE"
    BY <1>1, FindS
  <1>3. Found(f, name) = p
    OBVIOUS
  <1>4. ASSUME type = "ST_NONE"
        PROVE  Good(g, others, scope, taken, functions) /\ Puts(symtab, g.symtab, name, "ST_FUNCT")
    <2>1. "ST_FUNCT" \in Types /\ ("ST_FUNCT" \in LocalTypes <=> TypeOf(name) \in LocalTypes)
      BY <1>4, SymbolsAssumption DEF LocalTypes
    <2> QED BY <1>1, <2>1, MetOK
  <1> HIDE DEF f, p, g, type
  <1>5. CASE type \in {"ST_KEYWORD", "ST_FUNCT"} /\ Becomes(restore_ids(f)) /\ scope' = "main"
    <2>1. f.symtab = symtab
      BY <1>2, <1>5
    <2>2. Good(restore_ids(f), others, "main", taken, functions) /\ Drops(symtab, restore_ids(f).symtab)
      BY <1>1, <1>2, <2>1, RestoreGood
    <2>3. Good(restore_ids(f), others', scope', taken', functions')
      BY <1>1, <1>5, <2>2
    <2>4. SymInv' /\ symtab' = restore_ids(f).symtab
      BY <1>5, <2>3, GoodNext
    <2> QED BY <1>1, <1>5, <2>2, <2>4 DEF type
  <1>6. CASE type = "ST_LOCAL_NONE" /\ Becomes(f) /\ UNCHANGED scope
    <2>1. f.symtab = symtab
      BY <1>2, <1>6
    <2>2. Good(f, others', scope', taken', functions')
      BY <1>1, <1>2, <1>6
    <2>3. SymInv' /\ symtab' = f.symtab
      BY <1>6, <2>2, GoodNext
    <2> QED BY <1>1, <1>6, <2>1, <2>3 DEF type
  <1>7. CASE type \in {"ST_NONE", "ST_VAR"} /\ Becomes(save_id(f, name)) /\ UNCHANGED scope
    <2>1. type \notin LocalTypes
      BY <1>7 DEF LocalTypes
    <2>2. /\ Good(save_id(f, name), others, "params", taken, functions)
          /\ Puts(f.symtab, save_id(f, name).symtab, name, "ST_LOCAL_NONE")
          /\ name \notin NamesOf(f.symtab, LocalsIn(f.symtab, DOMAIN f.symtab))
      BY <1>1, <1>2, <1>3, <2>1, SaveGood
    <2>3. Good(save_id(f, name), others', scope', taken', functions')
      BY <1>1, <1>7, <2>2
    <2>4. SymInv' /\ symtab' = save_id(f, name).symtab
      BY <1>7, <2>3, GoodNext
    <2>5. \/ f.symtab = symtab /\ name \in NamesOf(symtab, GlobalsIn(symtab))
          \/ Puts(symtab, f.symtab, name, "ST_NONE") /\ name \notin NamesOf(symtab, DOMAIN symtab)
      <3>1. CASE p \in DOMAIN symtab
        BY <3>1, <1>2, <2>1 DEF NamesOf, GlobalsIn
      <3>2. CASE p \notin DOMAIN symtab
        <4>1. Puts(symtab, f.symtab, name, "ST_NONE")
          BY <3>2, <1>2, <2>1 DEF Puts
        <4> QED BY <4>1, <3>2, <1>2
      <3> QED BY <3>1, <3>2
    <2> QED BY <1>1, <1>7, <2>2, <2>4, <2>5 DEF type
  <1>8. CASE type = "ST_NONE" /\ Becomes(restore_ids(g)) /\ scope' = "main"
    <2>1. Good(g, others, scope, taken, functions) /\ Puts(symtab, g.symtab, name, "ST_FUNCT")
      BY <1>4, <1>8
    <2>2. Good(restore_ids(g), others, "main", taken, functions) /\ Drops(g.symtab, restore_ids(g).symtab)
      BY <1>1, <2>1, RestoreGood
    <2>3. Good(restore_ids(g), others', scope', taken', functions')
      BY <1>1, <1>8, <2>2
    <2>4. SymInv' /\ symtab' = restore_ids(g).symtab
      BY <1>8, <2>3, GoodNext
    <2> QED BY <1>1, <1>8, <2>1, <2>2, <2>4 DEF type
  <1> QED BY <1>1, <1>5, <1>6, <1>7, <1>8

LEMMA LeaveStep ==
    ASSUME SymInv, Leave
    PROVE  SymInv' /\ scope \in {"params", "body"} /\ scope' = "main" /\ Drops(symtab, symtab')
  <1>1. /\ scope \in {"params", "body"} /\ scope' = "main" /\ Becomes(restore_ids(S))
        /\ UNCHANGED <<others, taken, functions>>
    BY DEF Leave
  <1>2. Good(restore_ids(S), others, "main", taken, functions) /\ Drops(symtab, restore_ids(S).symtab)
    BY <1>1, RestoreGood, FieldsOfS DEF SymInv
  <1>3. Good(restore_ids(S), others', scope', taken', functions')
    BY <1>1, <1>2
  <1>4. SymInv' /\ symtab' = restore_ids(S).symtab
    BY <1>1, <1>3, GoodNext
  <1> QED BY <1>1, <1>2, <1>4

\* The text begins when every keyword is known.
LEMMA ParseStep ==
    ASSUME SymInv, Parse
    PROVE  SymInv' /\ scope = "init" /\ scope' = "main" /\ symtab' = symtab
  <1>1. /\ scope = "init" /\ scope' = "main" /\ \A k \in Keywords : At(S, k) # 0
        /\ UNCHANGED <<z, others, taken, hash_table, save_list, last_hash, symtab, functions>>
    BY DEF Parse, memory, table
  <1>2. Becomes(S)
    BY <1>1, FieldsOfS DEF Becomes
  <1>3. Keywords \subseteq NamesOf(symtab, DOMAIN symtab)
    <2> SUFFICES ASSUME NEW k \in Keywords PROVE k \in NamesOf(symtab, DOMAIN symtab)
      OBVIOUS
    <2>1. k \in AllNames /\ S \in TabT /\ Filed(S.hash_table, S.symtab, DOMAIN S.symtab \ SavedIn(S))
      BY GoodHas, TabHas DEF AllNames
    <2>2. k \in NamesOf(S.symtab, DOMAIN S.symtab \ SavedIn(S))
      BY <1>1, <2>1, AtProps
    <2> QED BY <2>2, FieldsOfS DEF NamesOf
  <1>4. Good(S, others', scope', taken', functions')
    BY <1>1, <1>3, GoodHas, FieldsOfS DEF Good
  <1> QED BY <1>1, <1>2, <1>4, GoodNext

LEMMA BodyStep ==
    ASSUME SymInv, Body
    PROVE  /\ SymInv' /\ scope = "params" /\ scope' = "body"
           /\ \/ symtab' = symtab
              \/ \E p \in LocalsIn(symtab, DOMAIN symtab) :
                   Puts(symtab, symtab', symtab[p].name, "ST_LOCAL_VAR")
  <1>1. /\ scope = "params" /\ scope' = "body"
        /\ UNCHANGED <<z, others, taken, hash_table, save_list, last_hash, functions>>
        /\ \/ UNCHANGED symtab
           \/ \E p \in DOMAIN symtab : /\ symtab[p].type = "ST_LOCAL_NONE"
                                       /\ symtab' = [symtab EXCEPT ![p].type = "ST_LOCAL_VAR"]
    BY DEF Body, memory
  <1>2. CASE symtab' = symtab
    <2>1. Becomes(S)
      BY <1>1, <1>2, FieldsOfS DEF Becomes
    <2>2. Good(S, others', scope', taken', functions')
      BY <1>1, GoodHas, FieldsOfS DEF Good
    <2> QED BY <1>1, <1>2, <2>1, <2>2, GoodNext
  <1>3. ASSUME NEW p \in DOMAIN symtab, symtab[p].type = "ST_LOCAL_NONE",
               symtab' = [symtab EXCEPT ![p].type = "ST_LOCAL_VAR"]
        PROVE  SymInv' /\ p \in LocalsIn(symtab, DOMAIN symtab)
               /\ Puts(symtab, symtab', symtab[p].name, "ST_LOCAL_VAR")
    <2> DEFINE type == "ST_LOCAL_VAR"
               g == Retyped(S, p, type)
    <2>1. type \in Types /\ type \in LocalTypes /\ symtab[p].type \in LocalTypes
      BY <1>3, Given_names DEF LocalTypes
    <2>2. TabInv(S, SavedIn(S), others) /\ S \in TabT /\ p \in DOMAIN S.symtab /\ S.symtab = symtab
      BY <1>3, GoodHas, FieldsOfS
    <2>3. g.symtab = symtab'
      <3>1. g = WithSymtab(S, symtab')
        BY <1>3, FieldsOfS DEF Retyped, WithSymtab
      <3>2. WithSymtab(S, symtab').symtab = symtab'
        BY DEF WithSymtab, S
      <3> QED BY <3>1, <3>2
    <2> HIDE DEF type, g
    <2>4. /\ g \in TabT /\ g.hash_table = S.hash_table /\ g.z = S.z
          /\ g.save_list = S.save_list /\ g.last_hash = S.last_hash
          /\ DOMAIN g.symtab = DOMAIN symtab
          /\ g.symtab[p] = [name |-> symtab[p].name, type |-> type]
          /\ \A q \in DOMAIN symtab \ {p} : g.symtab[q] = symtab[q]
      BY <2>1, <2>2, RetypeFields DEF g
    <2>5. TabInv(g, SavedIn(S), others)
      BY <2>1, <2>2, RetypeOK DEF g
    <2>6. Becomes(g)
      BY <1>1, <2>3, <2>4, FieldsOfS DEF Becomes
    <2>7. g.symtab[p].name = symtab[p].name /\ g.symtab[p].type = type
      BY <2>4
    <2>8. NamesOf(symtab, DOMAIN symtab) \subseteq NamesOf(g.symtab, DOMAIN g.symtab)
      BY <2>4, <2>7 DEF NamesOf
    <2>9. Good(g, others', scope', taken', functions')
      <3>1. Good(g, others, scope, taken, functions)
        BY <2>4, <2>5, <2>8, GoodKeeps
      <3> QED BY <3>1, <1>1 DEF Good
    <2>10. Puts(symtab, g.symtab, symtab[p].name, type)
      <3>1. DOMAIN g.symtab = DOMAIN symtab \cup {p}
        BY <1>3, <2>4
      <3> QED BY <3>1, <1>3, <2>1, <2>4, <2>7 DEF Puts
    <2> QED BY <1>3, <2>1, <2>3, <2>6, <2>9, <2>10, GoodNext DEF LocalsIn, type
  <1> QED BY <1>1, <1>2, <1>3

\* The rest of mawk takes a block, and gives one back.
LEMMA TakeStep ==
    ASSUME SymInv, NEW size \in Sizes, Take(size)
    PROVE  SymInv' /\ scope' = scope /\ symtab' = symtab
  <1> DEFINE t == zmalloc(z, size)
             o == [at |-> t[1], bytes |-> size]
             g == WithHeap(S, t[2])
  <1>1. /\ taken < MaxOther /\ taken' = taken + 1 /\ z' = t[2] /\ others' = others \cup {o}
        /\ UNCHANGED <<hash_table, save_list, last_hash, symtab, scope, functions>>
    BY DEF Take, table
  <1>2. TabInv(S, SavedIn(S), others) /\ S \in TabT /\ S.z = z /\ S.symtab = symtab
    BY GoodHas, FieldsOfS
  <1>3. HeapInv(z) /\ size \in Nat \ {0}
    BY <1>2, TabHas, Given_names
  <1>4. /\ HeapInv(t[2]) /\ t[1] \in Nat
        /\ t[2].live = z.live \cup {Block(t[1], BytesToBlocks(size))}
        /\ Block(t[1], BytesToBlocks(size)) \notin z.live
    BY <1>3, zmallocOK
  <1> HIDE DEF t
  <1>5. o \in OtherT /\ OtherBlock(o) = Block(t[1], BytesToBlocks(size))
    BY <1>3, <1>4 DEF OtherT, OtherBlock
  <1> HIDE DEF o
  <1>6. t[2] \in HeapT
    BY <1>4 DEF HeapInv
  <1>7. /\ g \in TabT /\ g.hash_table = S.hash_table /\ g.z = t[2] /\ g.symtab = S.symtab
        /\ g.save_list = S.save_list /\ g.last_hash = S.last_hash
    BY <1>2, <1>6, SetHeap
  <1> HIDE DEF g
  <1>8. Held(t[2].live, DOMAIN symtab, NamesOf(symtab, DOMAIN symtab) \cap Ids, others \cup {o})
    <2>1. Held(z.live, DOMAIN symtab, NamesOf(symtab, DOMAIN symtab) \cap Ids, others)
      BY <1>2, TabHas
    <2>2. OtherBlock(o) \notin z.live /\ t[2].live = z.live \cup {OtherBlock(o)}
      BY <1>4, <1>5
    <2>3. Held(z.live \cup {OtherBlock(o)}, DOMAIN symtab, NamesOf(symtab, DOMAIN symtab) \cap Ids, others \cup {o})
      BY <2>1, <2>2, <1>5, HeldTake
    <2> QED BY <2>2, <2>3
  <1>9. TabInv(g, SavedIn(S), others')
    BY <1>1, <1>2, <1>4, <1>7, <1>8, TabHas DEF TabInv
  <1>10. Becomes(g)
    BY <1>1, <1>7, FieldsOfS DEF Becomes
  <1>11. Good(g, others', scope, taken, functions)
    BY <1>2, <1>7, <1>9, GoodKeeps
  <1>12. taken' \in 0..MaxOther
    <2>1. taken \in 0..MaxOther /\ MaxOther \in Nat
      BY GoodHas, SymbolsAssumption
    <2> QED BY <2>1, <1>1
  <1>13. Good(g, others', scope', taken', functions')
    BY <1>1, <1>11, <1>12 DEF Good
  <1> QED BY <1>1, <1>10, <1>13, GoodNext

LEMMA GiveStep ==
    ASSUME SymInv, NEW o \in others, Give(o)
    PROVE  SymInv' /\ scope' = scope /\ symtab' = symtab
  <1> DEFINE h == zfree(z, o.at, o.bytes)
             g == WithHeap(S, h)
  <1>1. /\ z' = h /\ others' = others \ {o}
        /\ UNCHANGED <<taken, hash_table, save_list, last_hash, symtab, scope, functions>>
    BY DEF Give, table
  <1>2. TabInv(S, SavedIn(S), others) /\ S \in TabT /\ S.z = z /\ S.symtab = symtab
    BY GoodHas, FieldsOfS
  <1>3. HeapInv(z) /\ Held(z.live, DOMAIN symtab, NamesOf(symtab, DOMAIN symtab) \cap Ids, others)
    BY <1>2, TabHas
  <1>4. /\ o \in OtherT /\ OtherBlock(o) \in z.live
        /\ Held(z.live \ {OtherBlock(o)}, DOMAIN symtab, NamesOf(symtab, DOMAIN symtab) \cap Ids, others \ {o})
    BY <1>3, HeldGive
  <1>5. o.at \in Nat /\ o.bytes \in Nat \ {0} /\ Block(o.at, BytesToBlocks(o.bytes)) \in z.live
    BY <1>4 DEF OtherT, OtherBlock
  <1>6. HeapInv(h) /\ h.live = z.live \ {OtherBlock(o)}
    BY <1>3, <1>5, zfreeOK DEF OtherBlock
  <1> HIDE DEF h
  <1>7. h \in HeapT
    BY <1>6 DEF HeapInv
  <1>8. /\ g \in TabT /\ g.hash_table = S.hash_table /\ g.z = h /\ g.symtab = S.symtab
        /\ g.save_list = S.save_list /\ g.last_hash = S.last_hash
    BY <1>2, <1>7, SetHeap
  <1> HIDE DEF g
  <1>9. TabInv(g, SavedIn(S), others')
    BY <1>1, <1>2, <1>4, <1>6, <1>8, TabHas DEF TabInv
  <1>10. Becomes(g)
    BY <1>1, <1>8, FieldsOfS DEF Becomes
  <1>11. Good(g, others', scope, taken, functions)
    BY <1>2, <1>8, <1>9, GoodKeeps
  <1>12. Good(g, others', scope', taken', functions')
    BY <1>1, <1>11
  <1> QED BY <1>1, <1>10, <1>12, GoodNext

LEMMA StutterStep ==
    ASSUME SymInv, UNCHANGED vars
    PROVE  SymInv' /\ scope' = scope /\ symtab' = symtab
  <1>1. UNCHANGED <<z, others, taken, hash_table, save_list, last_hash, symtab, scope, functions>>
    BY DEF vars, memory, table
  <1>2. Becomes(S)
    BY <1>1, FieldsOfS DEF Becomes
  <1>3. Good(S, others', scope', taken', functions')
    BY <1>1 DEF SymInv
  <1> QED BY <1>1, <1>2, <1>3, GoodNext

-----------------------------------------------------------------------------
(* What holds in every state.                                              *)

LEMMA SymInvNext == SymInv /\ [Next]_vars => SymInv'
  <1> SUFFICES ASSUME SymInv, [Next]_vars PROVE SymInv'
    OBVIOUS
  <1>1. ASSUME NEW s \in Ids \cup Keywords, kw_init(s) PROVE SymInv'
    BY <1>1, kw_initStep
  <1>2. ASSUME NEW s \in Ids \cup Keywords, Define(s) PROVE SymInv'
    BY <1>2, DefineStep
  <1>3. ASSUME NEW s \in Ids \cup Keywords, Param(s) PROVE SymInv'
    BY <1>3, ParamStep
  <1>4. ASSUME NEW s \in Ids \cup Keywords, Use(s) PROVE SymInv'
    BY <1>4, UseStep
  <1>5. ASSUME NEW n \in Sizes, Take(n) PROVE SymInv'
    BY <1>5, TakeStep
  <1>6. CASE Parse
    BY <1>6, ParseStep
  <1>7. CASE Body
    BY <1>7, BodyStep
  <1>8. CASE Leave
    BY <1>8, LeaveStep
  <1>9. ASSUME NEW b \in others, Give(b) PROVE SymInv'
    BY <1>9, GiveStep
  <1>10. CASE UNCHANGED vars
    BY <1>10, StutterStep
  <1> QED BY <1>1, <1>2, <1>3, <1>4, <1>5, <1>6, <1>7, <1>8, <1>9, <1>10 DEF Next

\* The table and the heap are in order, the save list has each global once,
\* and the texts in the heap are those of the names that were met.
THEOREM SymbolsInvariant == Spec => []SymInv
  <1> QED BY SymInvInit, SymInvNext, PTL DEF Spec

\* zmalloc.c: whatever is taken and freed, in whatever order and of whatever
\* size, no two blocks share a unit, and each unit of each chunk is in a block
\* that was given out, in a pool or still unused.
THEOREM SymbolsHeap == Spec => []HeapAccounted
  <1>1. SymInv => HeapAccounted
    BY GoodHas, TabHas, FieldsOfS DEF HeapInv, HeapAccounted
  <1> QED BY <1>1, SymbolsInvariant, PTL

-----------------------------------------------------------------------------
(* How many nodes and blocks there are.                                    *)

LEMMA SameSize ==
    ASSUME NEW A, NEW B, IsFiniteSet(A), NEW f \in [A -> B],
           \A a, c \in A : f[a] = f[c] => a = c, \A b \in B : \E a \in A : f[a] = b
    PROVE  IsFiniteSet(B) /\ Cardinality(B) = Cardinality(A)
  <1>1. f \in Bijection(A, B)
    BY DEF Bijection, Injection, Surjection, IsInjective
  <1>2. ExistsBijection(A, B)
    BY <1>1 DEF ExistsBijection
  <1> QED BY <1>2, FS_Bijection

\* A list that has nothing twice is as long as the set of what it has.
LEMMA LengthIs ==
    ASSUME NEW T, NEW l \in Seq(T), NoTwice(l)
    PROVE  LET E == {l[i] : i \in 1..Len(l)} IN IsFiniteSet(E) /\ Cardinality(E) = Len(l)
  <1> DEFINE n == Len(l)
             E == {l[i] : i \in 1..n}
  <1>1. n \in Nat /\ l \in [1..n -> E]
    OBVIOUS
  <1>2. /\ \A a, c \in 1..n : l[a] = l[c] => a = c
        /\ \A b \in E : \E a \in 1..n : l[a] = b
    BY DEF NoTwice
  <1>3. IsFiniteSet(1..n) /\ Cardinality(1..n) = n
    BY <1>1, FS_Interval
  <1> HIDE DEF n, E
  <1>4. IsFiniteSet(E) /\ Cardinality(E) = n
    BY <1>1, <1>2, <1>3, SameSize
  <1> QED BY <1>4 DEF n, E

\* Two parts that share nothing.
LEMMA SizeOfParts ==
    ASSUME NEW A, NEW B, IsFiniteSet(A), IsFiniteSet(B), A \cap B = {}
    PROVE  /\ IsFiniteSet(A \cup B) /\ Cardinality(A \cup B) = Cardinality(A) + Cardinality(B)
           /\ Cardinality(A) \in Nat /\ Cardinality(B) \in Nat
  <1>1. Cardinality(A \cap B) = 0
    BY FS_EmptySet
  <1>2. Cardinality(A) \in Nat /\ Cardinality(B) \in Nat
    BY FS_CardinalityType
  <1>3. IsFiniteSet(A \cup B) /\ Cardinality(A \cup B) = Cardinality(A) + Cardinality(B) - Cardinality(A \cap B)
    BY FS_Union
  <1> QED BY <1>1, <1>2, <1>3

\* A block for each node, and for each other owner.
LEMMA BlocksCounted ==
    ASSUME NEW L, NEW D, NEW W, NEW oth, D \subseteq Nat, Held(L, D, W, oth)
    PROVE  Cardinality(L) = Cardinality(D) + Cardinality(oth) + Cardinality(W)
  <1> DEFINE B == BlocksOfNodes(D)
             O == BlocksOfOthers(oth)
             T == TextBlocks(L, D, oth)
  <1>1. /\ B \subseteq L /\ O \subseteq L /\ B \cap O = {} /\ T = L \ (B \cup O)
        /\ \A a, b \in oth : OtherBlock(a) = OtherBlock(b) => a = b
        /\ IsFiniteSet(D) /\ IsFiniteSet(oth) /\ IsFiniteSet(T) /\ Cardinality(T) = Cardinality(W)
    BY DEF Held, TextBlocks
  <1>2. IsFiniteSet(B) /\ Cardinality(B) = Cardinality(D)
    <2> DEFINE f == [p \in D |-> NodeBlock(p)]
    <2>1. f \in [D -> B] /\ \A b \in B : \E p \in D : f[p] = b
      BY DEF BlocksOfNodes
    <2>2. ASSUME NEW p \in D, NEW q \in D, f[p] = f[q] PROVE p = q
      <3>1. NodeBlock(p) = NodeBlock(q)
        BY <2>2
      <3> QED BY <3>1, NodeBlockIs
    <2> HIDE DEF f, B
    <2> QED BY <1>1, <2>1, <2>2, SameSize
  <1>3. IsFiniteSet(O) /\ Cardinality(O) = Cardinality(oth)
    <2> DEFINE f == [o \in oth |-> OtherBlock(o)]
    <2>1. f \in [oth -> O] /\ \A b \in O : \E o \in oth : f[o] = b
      BY DEF BlocksOfOthers
    <2>2. \A a, b \in oth : f[a] = f[b] => a = b
      BY <1>1
    <2> HIDE DEF f, O
    <2> QED BY <1>1, <2>1, <2>2, SameSize
  <1> HIDE DEF B, O, T
  <1>4. IsFiniteSet(B \cup O) /\ Cardinality(B \cup O) = Cardinality(D) + Cardinality(oth)
    <2>1. IsFiniteSet(B) /\ IsFiniteSet(O) /\ B \cap O = {}
      BY <1>1, <1>2, <1>3
    <2>2. IsFiniteSet(B \cup O) /\ Cardinality(B \cup O) = Cardinality(B) + Cardinality(O)
      BY <2>1, SizeOfParts, Zenon
    <2> QED BY <2>2, <1>2, <1>3
  <1>5. (B \cup O) \cap T = {} /\ (B \cup O) \cup T = L
    BY <1>1
  <1>6. Cardinality((B \cup O) \cup T) = Cardinality(B \cup O) + Cardinality(T)
    BY <1>1, <1>4, <1>5, SizeOfParts
  <1> QED BY <1>1, <1>4, <1>5, <1>6

\* The nodes are those of the buckets and those of the save list.
LEMMA TableIs ==
    ASSUME SymInv
    PROVE  InTable = DOMAIN symtab \ Saved /\ Saved \subseteq DOMAIN symtab
  <1>1. /\ Filed(hash_table, symtab, DOMAIN symtab \ Saved) /\ Saved \subseteq DOMAIN symtab
        /\ hash_table \in [Buckets -> Seq(Nat)]
        /\ \A p \in DOMAIN symtab : symtab[p].name \in AllNames
    BY GoodHas, TabHas, FieldsOfS, TabFields
  <1>2. \A b \in Buckets : {hash_table[b][i] : i \in 1..Len(hash_table[b])} = ToSet(hash_table[b])
    <2> SUFFICES ASSUME NEW b \in Buckets
                 PROVE  {hash_table[b][i] : i \in 1..Len(hash_table[b])} = ToSet(hash_table[b])
      OBVIOUS
    <2>1. hash_table[b] \in Seq(Nat)
      BY <1>1
    <2> QED BY <2>1 DEF ToSet
  <1>3. \A b \in Buckets : ToSet(hash_table[b]) = {p \in DOMAIN symtab \ Saved : hash(symtab[p].name) = b}
    BY <1>1 DEF Filed
  <1>4. \A p \in DOMAIN symtab : hash(symtab[p].name) \in Buckets
    BY <1>1, Given_names
  <1>5. \A p : p \in InTable <=> \E b \in Buckets : p \in ToSet(hash_table[b])
    <2>1. \A p : p \in InTable <=> \E b \in Buckets : p \in {hash_table[b][i] : i \in 1..Len(hash_table[b])}
      <3> DEFINE In(b) == {hash_table[b][i] : i \in 1..Len(hash_table[b])}
      <3>1. InTable = UNION {In(b) : b \in Buckets}
        BY DEF InTable
      <3> HIDE DEF In
      <3>2. \A p : p \in InTable <=> \E b \in Buckets : p \in In(b)
        BY <3>1
      <3> QED BY <3>2 DEF In
    <2> QED BY <1>2, <2>1
  <1>6. ASSUME NEW p \in InTable PROVE p \in DOMAIN symtab \ Saved
    BY <1>3, <1>5, <1>6
  <1>7. ASSUME NEW p \in DOMAIN symtab \ Saved PROVE p \in InTable
    <2>1. hash(symtab[p].name) \in Buckets
      BY <1>4
    <2>2. p \in ToSet(hash_table[hash(symtab[p].name)])
      BY <2>1, <1>3
    <2> QED BY <2>1, <2>2, <1>5
  <1> QED BY <1>1, <1>6, <1>7

LEMMA TypesHold == SymInv => TypeOK
  <1> SUFFICES ASSUME SymInv PROVE TypeOK
    OBVIOUS
  <1> DEFINE N == DOMAIN symtab \ Saved
  <1>1. /\ Filed(hash_table, symtab, N) /\ Named(symtab, N) /\ hash_table \in [Buckets -> Seq(Nat)]
        /\ \A p \in DOMAIN symtab : symtab[p].name \in AllNames /\ symtab[p].type \in Types
        /\ last_hash \in Buckets
    BY GoodHas, TabHas, FieldsOfS, TabFields
  <1>2. ASSUME NEW b \in Buckets, NEW i \in 1..Len(hash_table[b])
        PROVE  /\ hash(NameOf(hash_table[b][i])) = b
               /\ \A j \in 1..i - 1 : NameOf(hash_table[b][j]) # NameOf(hash_table[b][i])
    <2> DEFINE l == hash_table[b]
    <2>1. l \in Seq(Nat) /\ NoTwice(l) /\ ToSet(l) = {p \in N : hash(symtab[p].name) = b}
      BY <1>1 DEF Filed
    <2>2. \A j \in 1..Len(l) : l[j] \in ToSet(l)
      BY <2>1 DEF ToSet
    <2>3. hash(symtab[l[i]].name) = b /\ l[i] \in N
      BY <2>1, <2>2
    <2>4. ASSUME NEW j \in 1..i - 1 PROVE symtab[l[j]].name # symtab[l[i]].name
      <3>1. j \in 1..Len(l) /\ j # i
        BY <2>1
      <3>2. l[j] \in N /\ l[j] # l[i]
        BY <3>1, <2>1, <2>2 DEF NoTwice
      <3> HIDE DEF l
      <3> QED BY <3>2, <2>3, <1>1 DEF Named
    <2> QED BY <2>3, <2>4 DEF NameOf
  <1>3. \A p \in DOMAIN symtab : symtab[p].name \in Ids \cup Keywords
    BY <1>1 DEF AllNames
  <1> QED BY <1>1, <1>2, <1>3, GoodHas DEF TypeOK

LEMMA NodesHold == SymInv => NodesAccounted
  <1> SUFFICES ASSUME SymInv PROVE NodesAccounted
    OBVIOUS
  <1> DEFINE D == DOMAIN symtab
             W == {NameOf(p) : p \in InTable \cup Saved} \cap Ids
  <1>1. InTable \cap Saved = {} /\ InTable \cup Saved = D
    BY TableIs
  <1>2. W = NamesOf(symtab, D) \cap Ids
    BY <1>1 DEF NamesOf, NameOf
  <1>3. NodeBlocks = BlocksOfNodes(D)
    BY <1>1 DEF NodeBlocks, BlocksOfNodes, NodeBlock
  <1>4. /\ Held(z.live, D, NamesOf(symtab, D) \cap Ids, others) /\ D \subseteq Nat
        /\ NoTwice(save_list) /\ save_list \in Seq(Nat)
    BY GoodHas, TabHas, FieldsOfS, TabFields
  <1>5. Cardinality(z.live) = Cardinality(D) + Cardinality(others) + Cardinality(W)
    <2>1. Cardinality(z.live) = Cardinality(D) + Cardinality(others) + Cardinality(NamesOf(symtab, D) \cap Ids)
      BY <1>4, BlocksCounted
    <2> QED BY <2>1, <1>2
  <1>6. IsFiniteSet(D) /\ IsFiniteSet(others) /\ IsFiniteSet(W) /\ BlocksOfNodes(D) \subseteq z.live
    BY <1>2, <1>4 DEF Held
  <1>7. Cardinality(Saved) = Len(save_list) /\ IsFiniteSet(Saved)
    BY <1>4, LengthIs DEF Saved
  <1>8. IsFiniteSet(InTable)
    BY <1>1, <1>6, FS_Subset
  <1>9. Cardinality(D) = Cardinality(InTable) + Cardinality(Saved)
    BY <1>1, <1>7, <1>8, SizeOfParts
  <1>10. Cardinality(others) \in Nat /\ Cardinality(W) \in Nat /\ Cardinality(InTable) \in Nat
         /\ Len(save_list) \in Nat
    BY <1>4, <1>6, <1>8, FS_CardinalityType
  <1>11. Cardinality(z.live) = Cardinality(InTable) + Len(save_list) + Cardinality(others) + Cardinality(W)
    BY <1>5, <1>7, <1>9, <1>10
  <1> QED BY <1>1, <1>3, <1>6, <1>11 DEF NodesAccounted

\* hash.c: each node is in the bucket of its name, whatever was saved and
\* restored; restore_ids frees the locals, all of them and nothing else,
\* although it looks each of them up by name.
THEOREM SymbolsTable == Spec => []TableConsistent
  <1>1. SymInv => TableConsistent
    BY TypesHold, NodesHold DEF TableConsistent
  <1> QED BY <1>1, SymbolsInvariant, PTL

-----------------------------------------------------------------------------
(* The names: what each stands for is the type of its node.                *)

MapOf(m, N) == [s \in NamesOf(m, N) |-> m[CHOOSE p \in N : m[p].name = s].type]
GlobalMap(m) == MapOf(m, GlobalsIn(m))
LocalMap(m) == MapOf(m, LocalsIn(m, DOMAIN m))
\* No two globals and no two locals share a name.
Separate(m) == Named(m, GlobalsIn(m)) /\ Named(m, LocalsIn(m, DOMAIN m))

LEMMA MapValue ==
    ASSUME NEW m, NEW N, Named(m, N)
    PROVE  /\ DOMAIN MapOf(m, N) = NamesOf(m, N)
           /\ \A p \in N : m[p].name \in NamesOf(m, N) /\ MapOf(m, N)[m[p].name] = m[p].type
  <1>1. DOMAIN MapOf(m, N) = NamesOf(m, N)
    BY DEF MapOf
  <1>2. ASSUME NEW p \in N PROVE m[p].name \in NamesOf(m, N) /\ MapOf(m, N)[m[p].name] = m[p].type
    <2> DEFINE c == CHOOSE q \in N : m[q].name = m[p].name
    <2>1. m[p].name \in NamesOf(m, N)
      BY DEF NamesOf
    <2>2. c \in N /\ m[c].name = m[p].name
      OBVIOUS
    <2>3. c = p
      BY <2>2 DEF Named
    <2>4. MapOf(m, N)[m[p].name] = m[c].type
      BY <2>1 DEF MapOf
    <2> QED BY <2>1, <2>3, <2>4
  <1> QED BY <1>1, <1>2

\* The function of a map is known by its values.
LEMMA MapIsFunction ==
    ASSUME NEW m, NEW N, Named(m, N), NEW f, f = [s \in NamesOf(m, N) |-> f[s]],
           \A p \in N : f[m[p].name] = m[p].type
    PROVE  MapOf(m, N) = f
  <1>1. \A s \in NamesOf(m, N) : MapOf(m, N)[s] = f[s]
    <2> SUFFICES ASSUME NEW s \in NamesOf(m, N) PROVE MapOf(m, N)[s] = f[s]
      OBVIOUS
    <2>1. PICK p \in N : s = m[p].name
      BY DEF NamesOf
    <2> QED BY <2>1, MapValue
  <1>2. MapOf(m, N) = [s \in NamesOf(m, N) |-> MapOf(m, N)[s]]
    BY DEF MapOf
  <1> QED BY <1>1, <1>2

LEMMA MapSame ==
    ASSUME NEW m, NEW N, Named(m, N), NEW mm, \A p \in N : mm[p] = m[p]
    PROVE  Named(mm, N) /\ MapOf(mm, N) = MapOf(m, N)
  <1>1. Named(mm, N) /\ NamesOf(mm, N) = NamesOf(m, N)
    BY DEF Named, NamesOf
  <1>2. MapOf(m, N) = [s \in NamesOf(m, N) |-> MapOf(m, N)[s]]
    BY DEF MapOf
  <1>3. \A p \in N : MapOf(m, N)[mm[p].name] = mm[p].type
    BY MapValue
  <1> QED BY <1>1, <1>2, <1>3, MapIsFunction

\* Of the nodes N of m only p is another in mm, or is new.
Alters(m, N, mm, p) ==
    /\ Named(m, N) /\ \A q \in N \ {p} : mm[q] = m[q]
    /\ p \in N => m[p].name = mm[p].name
    /\ p \notin N => mm[p].name \notin NamesOf(m, N)

LEMMA MapPut ==
    ASSUME NEW m, NEW N, NEW mm, NEW p, Alters(m, N, mm, p)
    PROVE  /\ Named(mm, N \cup {p})
           /\ MapOf(mm, N \cup {p}) = Scopes!Put(MapOf(m, N), mm[p].name, mm[p].type)
  <1> DEFINE K == N \cup {p}
             f == MapOf(m, N)
             g == Scopes!Put(f, mm[p].name, mm[p].type)
  <1>0. /\ Named(m, N) /\ \A q \in N \ {p} : mm[q] = m[q]
        /\ p \in N => m[p].name = mm[p].name
        /\ p \notin N => mm[p].name \notin NamesOf(m, N)
    BY DEF Alters
  <1>1. \A q \in N : q # p => m[q].name # mm[p].name
    BY <1>0 DEF Named, NamesOf
  <1>2. Named(mm, K)
    BY <1>0, <1>1 DEF Named
  <1>3. NamesOf(mm, K) = NamesOf(m, N) \cup {mm[p].name}
    BY <1>0 DEF NamesOf
  <1>4. DOMAIN f = NamesOf(m, N) /\ \A q \in N : m[q].name \in NamesOf(m, N) /\ f[m[q].name] = m[q].type
    BY <1>0, MapValue
  <1> HIDE DEF f
  <1>5. g = [k \in NamesOf(mm, K) |-> IF k = mm[p].name THEN mm[p].type ELSE f[k]]
    BY <1>3, <1>4 DEF Scopes!Put
  <1> HIDE DEF g
  <1>6. g = [k \in NamesOf(mm, K) |-> g[k]]
    BY <1>5
  <1>7. \A q \in K : g[mm[q].name] = mm[q].type
    <2>1. mm[p].name \in NamesOf(mm, K)
      BY <1>3
    <2>2. ASSUME NEW q \in N, q # p PROVE g[mm[q].name] = mm[q].type
      <3>1. mm[q] = m[q] /\ m[q].name # mm[p].name /\ m[q].name \in NamesOf(mm, K)
        BY <2>2, <1>0, <1>1, <1>3, <1>4
      <3> QED BY <3>1, <1>4, <1>5
    <2>3. g[mm[p].name] = mm[p].type
      BY <2>1, <1>5
    <2> QED BY <2>2, <2>3
  <1> HIDE DEF K
  <1>8. MapOf(mm, K) = g
    BY <1>2, <1>6, <1>7, MapIsFunction
  <1> QED BY <1>2, <1>8 DEF K, g, f

\* A name gets a type: a local of its own, or a global.
LEMMA PutsMaps ==
    ASSUME NEW m, NEW mm, NEW name, NEW type, Separate(m), Puts(m, mm, name, type)
    PROVE  /\ Separate(mm)
           /\ type \in LocalTypes => /\ LocalMap(mm) = Scopes!Put(LocalMap(m), name, type)
                                     /\ GlobalMap(mm) = GlobalMap(m)
           /\ type \notin LocalTypes => /\ GlobalMap(mm) = Scopes!Put(GlobalMap(m), name, type)
                                        /\ LocalMap(mm) = LocalMap(m)
  <1> DEFINE G == GlobalsIn(m)
             L == LocalsIn(m, DOMAIN m)
  <1>1. PICK p : /\ DOMAIN mm = DOMAIN m \cup {p} /\ mm[p].name = name /\ mm[p].type = type
                 /\ \A q \in DOMAIN m \ {p} : mm[q] = m[q]
                 /\ p \in DOMAIN m => m[p].name = name /\ (m[p].type \in LocalTypes <=> type \in LocalTypes)
                 /\ p \notin DOMAIN m => IF type \in LocalTypes THEN name \notin NamesOf(m, L)
                                         ELSE name \notin NamesOf(m, DOMAIN m)
    BY DEF Puts
  <1>2. Named(m, G) /\ Named(m, L) /\ G \subseteq DOMAIN m /\ L \subseteq DOMAIN m
    BY DEF Separate, GlobalsIn, LocalsIn
  <1>3. CASE type \in LocalTypes
    <2>1. LocalsIn(mm, DOMAIN mm) = L \cup {p} /\ GlobalsIn(mm) = G /\ p \notin G
      BY <1>1, <1>3 DEF LocalsIn, GlobalsIn
    <2>2. \A q \in G : mm[q] = m[q]
      BY <1>1, <1>2, <2>1
    <2>3. Alters(m, L, mm, p)
      BY <1>1, <1>2, <1>3 DEF Alters, LocalsIn
    <2> HIDE DEF G, L
    <2>4. Named(mm, G) /\ MapOf(mm, G) = MapOf(m, G)
      BY <1>2, <2>2, MapSame
    <2>5. Named(mm, L \cup {p}) /\ MapOf(mm, L \cup {p}) = Scopes!Put(MapOf(m, L), mm[p].name, mm[p].type)
      BY <2>3, MapPut
    <2> QED BY <1>1, <1>3, <2>1, <2>4, <2>5 DEF Separate, LocalMap, GlobalMap, G, L
  <1>4. CASE type \notin LocalTypes
    <2>1. LocalsIn(mm, DOMAIN mm) = L /\ GlobalsIn(mm) = G \cup {p} /\ p \notin L
      BY <1>1, <1>4 DEF LocalsIn, GlobalsIn
    <2>2. \A q \in L : mm[q] = m[q]
      BY <1>1, <1>2, <2>1
    <2>3. Alters(m, G, mm, p)
      BY <1>1, <1>2, <1>4 DEF Alters, GlobalsIn, NamesOf
    <2> HIDE DEF G, L
    <2>4. Named(mm, L) /\ MapOf(mm, L) = MapOf(m, L)
      BY <1>2, <2>2, MapSame
    <2>5. Named(mm, G \cup {p}) /\ MapOf(mm, G \cup {p}) = Scopes!Put(MapOf(m, G), mm[p].name, mm[p].type)
      BY <2>3, MapPut
    <2> QED BY <1>1, <1>4, <2>1, <2>4, <2>5 DEF Separate, LocalMap, GlobalMap, G, L
  <1> QED BY <1>3, <1>4

LEMMA EmptyMap == \A m : MapOf(m, {}) = <<>>
  <1> SUFFICES ASSUME NEW m PROVE MapOf(m, {}) = <<>>
    OBVIOUS
  <1>1. NamesOf(m, {}) = {}
    BY DEF NamesOf
  <1> QED BY <1>1 DEF MapOf

LEMMA DropsMaps ==
    ASSUME NEW m, NEW mm, Separate(m), Drops(m, mm)
    PROVE  GlobalMap(mm) = GlobalMap(m) /\ LocalMap(mm) = <<>>
  <1>1. DOMAIN mm = GlobalsIn(m) /\ \A p \in GlobalsIn(m) : mm[p] = m[p]
    BY DEF Drops
  <1>2. GlobalsIn(mm) = GlobalsIn(m) /\ LocalsIn(mm, DOMAIN mm) = {}
    BY <1>1 DEF GlobalsIn, LocalsIn
  <1>3. MapOf(mm, GlobalsIn(m)) = MapOf(m, GlobalsIn(m))
    BY <1>1, MapSame DEF Separate
  <1> QED BY <1>2, <1>3, EmptyMap DEF GlobalMap, LocalMap

-----------------------------------------------------------------------------
(* The table is the scopes of mawk(1).                                     *)

LEMMA SeparateS ==
    ASSUME SymInv
    PROVE  /\ Separate(symtab)
           /\ NamesOf(symtab, LocalsIn(symtab, DOMAIN symtab)) \subseteq NamesOf(symtab, GlobalsIn(symtab))
           /\ scope \in {"init", "main"} => LocalMap(symtab) = <<>> /\ LocalsIn(symtab, DOMAIN symtab) = {}
  <1> DEFINE m == symtab
             M == Saved
             N == DOMAIN m \ M
             G == GlobalsIn(m)
             L == LocalsIn(m, DOMAIN m)
  <1>1. /\ M \subseteq DOMAIN m /\ Named(m, N) /\ Named(m, M) /\ \A p \in M : m[p].type \notin LocalTypes
        /\ NamesOf(m, LocalsIn(m, N)) = NamesOf(m, M)
        /\ scope \in {"init", "main"} => M = {}
    BY GoodHas, TabHas, FieldsOfS
  <1>2. L = LocalsIn(m, N) /\ M \subseteq G /\ G \subseteq DOMAIN m /\ L \subseteq N
    BY <1>1 DEF LocalsIn, GlobalsIn
  <1>3. Named(m, L)
    BY <1>1, <1>2 DEF Named
  <1>4. Named(m, G)
    <2> SUFFICES ASSUME NEW p \in G, NEW q \in G, m[p].name = m[q].name PROVE p = q
      BY DEF Named
    <2>1. ASSUME NEW a \in G, NEW c \in M, m[a].name = m[c].name PROVE a \in M
      <3> SUFFICES ASSUME a \notin M PROVE FALSE
        OBVIOUS
      <3>1. m[c].name \in NamesOf(m, L)
        BY <1>1, <1>2 DEF NamesOf
      <3>2. PICK l \in L : m[l].name = m[c].name
        BY <3>1 DEF NamesOf
      <3>3. a \in N /\ l \in N
        BY <1>2
      <3>4. a = l
        BY <1>1, <2>1, <3>2, <3>3 DEF Named
      <3> QED BY <3>4 DEF LocalsIn, GlobalsIn
    <2>2. p \in M <=> q \in M
      BY <2>1
    <2>3. p \in DOMAIN m /\ q \in DOMAIN m
      BY <1>2
    <2> QED BY <1>1, <2>2, <2>3 DEF Named
  <1>5. NamesOf(m, L) \subseteq NamesOf(m, G)
    BY <1>1, <1>2 DEF NamesOf
  <1>6. ASSUME scope \in {"init", "main"} PROVE L = {}
    <2>1. NamesOf(m, L) = {}
      BY <1>1, <1>2, <1>6 DEF NamesOf
    <2> QED BY <2>1 DEF NamesOf
  <1>7. L = {} => LocalMap(m) = <<>>
    BY EmptyMap DEF LocalMap
  <1> QED BY <1>3, <1>4, <1>5, <1>6, <1>7 DEF Separate

LEMMA MapsAre ==
    SymInv => TypesIn(Globals) = GlobalMap(symtab) /\ TypesIn(InTable \ Globals) = LocalMap(symtab)
  <1> SUFFICES ASSUME SymInv
               PROVE  TypesIn(Globals) = GlobalMap(symtab) /\ TypesIn(InTable \ Globals) = LocalMap(symtab)
    OBVIOUS
  <1>1. InTable = DOMAIN symtab \ Saved /\ Saved \subseteq DOMAIN symtab
    BY TableIs
  <1>2. \A p \in Saved : symtab[p].type \notin LocalTypes
    BY GoodHas, TabHas, FieldsOfS
  <1>3. Globals = GlobalsIn(symtab) /\ InTable \ Globals = LocalsIn(symtab, DOMAIN symtab)
    BY <1>1, <1>2 DEF Globals, GlobalsIn, LocalsIn
  <1>4. \A N : TypesIn(N) = MapOf(symtab, N)
    BY DEF TypesIn, MapOf, NamesOf, NameOf
  <1> QED BY <1>3, <1>4 DEF GlobalMap, LocalMap

LEMMA MapsAreNext ==
    SymInv' => (TypesIn(Globals))' = GlobalMap(symtab') /\ (TypesIn(InTable \ Globals))' = LocalMap(symtab')
  <1>1. SymInv' => (TypesIn(Globals) = GlobalMap(symtab) /\ TypesIn(InTable \ Globals) = LocalMap(symtab))'
    BY MapsAre, PTL
  <1> QED BY <1>1

\* What a name stands for.
LEMMA StandsIs ==
    ASSUME SymInv, NEW name \in Ids \cup Keywords
    PROVE  /\ Scopes!Stands(name) = TypeOf(name)
           /\ name \in DOMAIN LocalMap(symtab) <=> TypeOf(name) \in LocalTypes
           /\ name \in DOMAIN LocalMap(symtab) => name \in DOMAIN GlobalMap(symtab)
           /\ name \in DOMAIN GlobalMap(symtab) <=> name \in NamesOf(symtab, DOMAIN symtab)
           /\ name \in NamesOf(symtab, GlobalsIn(symtab)) <=> name \in DOMAIN GlobalMap(symtab)
           /\ name \in NamesOf(symtab, DOMAIN symtab) \/ TypeOf(name) = "ST_NONE"
  <1> DEFINE m == symtab
             N == DOMAIN m \ Saved
             G == GlobalsIn(m)
             L == LocalsIn(m, DOMAIN m)
  <1>1. /\ S \in TabT /\ Filed(S.hash_table, S.symtab, N) /\ Scoped(m, Saved) /\ Named(m, N)
        /\ S.symtab = m /\ S.hash_table = hash_table /\ name \in AllNames
        /\ \A p \in Saved : m[p].type \notin LocalTypes
    BY GoodHas, TabHas, FieldsOfS DEF AllNames
  <1>2. /\ DOMAIN LocalMap(m) = NamesOf(m, L) /\ DOMAIN GlobalMap(m) = NamesOf(m, G)
        /\ \A p \in L : LocalMap(m)[m[p].name] = m[p].type
        /\ \A p \in G : GlobalMap(m)[m[p].name] = m[p].type
        /\ NamesOf(m, L) \subseteq NamesOf(m, G)
    BY SeparateS, MapValue DEF Separate, LocalMap, GlobalMap
  <1>3. NamesOf(m, DOMAIN m) = NamesOf(m, G)
    <2>1. NamesOf(m, DOMAIN m) = NamesOf(m, G) \cup NamesOf(m, L)
      BY DEF NamesOf, GlobalsIn, LocalsIn
    <2> QED BY <2>1, <1>2
  <1>4. Scopes!Stands(name) = IF name \in NamesOf(m, L) THEN LocalMap(m)[name]
                              ELSE IF name \in NamesOf(m, G) THEN GlobalMap(m)[name] ELSE "ST_NONE"
    BY MapsAre, <1>2 DEF Scopes!Stands
  <1>5. CASE At(S, name) = 0
    <2>1. name \notin NamesOf(m, N)
      BY <1>1, <1>5, AtProps
    <2>2. name \notin NamesOf(m, DOMAIN m)
      BY <1>1, <2>1, NoNode
    <2>3. TypeOf(name) = "ST_NONE" /\ "ST_NONE" \notin LocalTypes
      BY <1>5 DEF TypeOf, LocalTypes
    <2> HIDE DEF m, G, L
    <2> QED BY <1>2, <1>3, <1>4, <2>2, <2>3 DEF m, G, L
  <1>6. CASE At(S, name) # 0
    <2> DEFINE p == hash_table[hash(name)][At(S, name)]
    <2>1. p \in N /\ m[p].name = name /\ TypeOf(name) = m[p].type
      BY <1>1, <1>6, AtProps DEF TypeOf
    <2> HIDE DEF p
    <2>2. name \in NamesOf(m, DOMAIN m)
      BY <2>1 DEF NamesOf
    <2>3. CASE m[p].type \in LocalTypes
      <3>1. p \in L /\ name \in NamesOf(m, L)
        BY <2>1, <2>3 DEF LocalsIn, NamesOf
      <3> HIDE DEF m, G, L
      <3> QED BY <1>2, <1>3, <1>4, <2>1, <2>2, <2>3, <3>1 DEF m, G, L
    <2>4. CASE m[p].type \notin LocalTypes
      <3>1. p \in G
        BY <2>1, <2>4 DEF GlobalsIn
      <3>2. name \notin NamesOf(m, L)
        <4> SUFFICES ASSUME NEW r \in L, m[r].name = name PROVE FALSE
          BY DEF NamesOf
        <4>1. r \in N /\ m[r].type \in LocalTypes
          BY <1>1 DEF LocalsIn
        <4>2. r = p
          BY <1>1, <2>1, <4>1 DEF Named
        <4> QED BY <2>4, <4>1, <4>2
      <3> HIDE DEF m, G, L
      <3> QED BY <1>2, <1>3, <1>4, <2>1, <2>2, <2>4, <3>1, <3>2 DEF m, G, L
    <2> QED BY <2>3, <2>4
  <1> QED BY <1>5, <1>6

\* What the maps are before and after a step.
MapsStep(gm, lm) ==
    /\ TypesIn(Globals) = GlobalMap(symtab) /\ TypesIn(InTable \ Globals) = LocalMap(symtab)
    /\ (TypesIn(Globals))' = gm /\ (TypesIn(InTable \ Globals))' = lm

LEMMA Stepping ==
    ASSUME SymInv, SymInv'
    PROVE  MapsStep(GlobalMap(symtab'), LocalMap(symtab'))
  BY MapsAre, MapsAreNext DEF MapsStep

LEMMA StayScopes ==
    ASSUME SymInv, SymInv', symtab' = symtab, scope' = scope
    PROVE  UNCHANGED Scopes!vars
  <1>1. MapsStep(GlobalMap(symtab), LocalMap(symtab))
    BY Stepping
  <1> QED BY <1>1 DEF MapsStep, Scopes!vars

LEMMA ReserveScopes ==
    ASSUME SymInv, NEW name \in Ids \cup Keywords, kw_init(name)
    PROVE  Scopes!Reserve(name)
  <1>1. /\ SymInv' /\ Puts(symtab, symtab', name, "ST_KEYWORD") /\ scope = "init"
        /\ name \notin NamesOf(symtab, DOMAIN symtab) /\ scope' = scope
    BY kw_initStep DEF kw_init
  <1>2. "ST_KEYWORD" \notin LocalTypes
    BY DEF LocalTypes
  <1>3. /\ GlobalMap(symtab') = Scopes!Put(GlobalMap(symtab), name, "ST_KEYWORD")
        /\ LocalMap(symtab') = LocalMap(symtab)
    BY <1>1, <1>2, SeparateS, PutsMaps
  <1>4. MapsStep(GlobalMap(symtab'), LocalMap(symtab'))
    BY <1>1, Stepping
  <1>5. name \notin DOMAIN GlobalMap(symtab)
    BY <1>1, StandsIs
  <1> QED BY <1>1, <1>3, <1>4, <1>5 DEF MapsStep, Scopes!Reserve

LEMMA StartScopes ==
    ASSUME SymInv, Parse
    PROVE  Scopes!Start
  <1>1. SymInv' /\ scope = "init" /\ scope' = "main" /\ symtab' = symtab
    BY ParseStep
  <1>2. MapsStep(GlobalMap(symtab), LocalMap(symtab))
    BY <1>1, Stepping
  <1> QED BY <1>1, <1>2 DEF MapsStep, Scopes!Start

LEMMA UseScopes ==
    ASSUME SymInv, NEW name \in Ids \cup Keywords, Use(name)
    PROVE  Scopes!Use(name)
  <1>1. SymInv' /\ scope \in {"main", "body"} /\ scope' = scope
    BY UseStep
  <1>2. PICK type \in Shown(TypeOf(name)) :
          Puts(symtab, symtab', name, type) /\ (type \in LocalTypes <=> TypeOf(name) \in LocalTypes)
    BY UseStep
  <1>3. Scopes!Stands(name) = TypeOf(name) /\ (name \in DOMAIN LocalMap(symtab) <=> type \in LocalTypes)
    BY <1>2, StandsIs
  <1>4. type \in Scopes!Shown(Scopes!Stands(name))
    BY <1>2, <1>3 DEF Shown, Scopes!Shown
  <1>5. MapsStep(GlobalMap(symtab'), LocalMap(symtab'))
    BY <1>1, Stepping
  <1>6. /\ type \in LocalTypes => /\ LocalMap(symtab') = Scopes!Put(LocalMap(symtab), name, type)
                                  /\ GlobalMap(symtab') = GlobalMap(symtab)
        /\ type \notin LocalTypes => /\ GlobalMap(symtab') = Scopes!Put(GlobalMap(symtab), name, type)
                                     /\ LocalMap(symtab') = LocalMap(symtab)
    BY <1>2, SeparateS, PutsMaps
  <1> QED BY <1>1, <1>3, <1>4, <1>5, <1>6 DEF MapsStep, Scopes!Use

LEMMA DefineScopes ==
    ASSUME SymInv, NEW name \in Ids \cup Keywords, Define(name)
    PROVE  Scopes!Define(name)
  <1> DEFINE type == IF TypeOf(name) = "ST_NONE" THEN "ST_FUNCT" ELSE TypeOf(name)
  <1>1. /\ SymInv' /\ scope = "main" /\ Puts(symtab, symtab', name, type)
        /\ scope' = (IF TypeOf(name) = "ST_KEYWORD" THEN "main" ELSE "params")
        /\ type \in LocalTypes <=> TypeOf(name) \in LocalTypes
    BY DefineStep
  <1>2. Scopes!Stands(name) = TypeOf(name) /\ (name \in DOMAIN LocalMap(symtab) <=> TypeOf(name) \in LocalTypes)
    BY StandsIs
  <1>3. LocalMap(symtab) = <<>>
    BY <1>1, SeparateS
  <1>4. type \notin LocalTypes
    BY <1>1, <1>2, <1>3
  <1> HIDE DEF type
  <1>5. GlobalMap(symtab') = Scopes!Put(GlobalMap(symtab), name, type) /\ LocalMap(symtab') = LocalMap(symtab)
    BY <1>1, <1>4, SeparateS, PutsMaps
  <1>6. MapsStep(GlobalMap(symtab'), LocalMap(symtab'))
    BY <1>1, Stepping
  <1> QED BY <1>1, <1>2, <1>5, <1>6 DEF MapsStep, Scopes!Define, type

LEMMA ParamScopes ==
    ASSUME SymInv, NEW name \in Ids \cup Keywords, Param(name)
    PROVE  Scopes!Param(name)
  <1> DEFINE type == TypeOf(name)
             G == GlobalMap(symtab)
             L == LocalMap(symtab)
  <1>1. SymInv' /\ scope = "params"
    BY ParamStep
  <1>2. MapsStep(GlobalMap(symtab'), LocalMap(symtab'))
    BY <1>1, Stepping
  <1>3. /\ Scopes!Stands(name) = type /\ (name \in DOMAIN L <=> type \in LocalTypes)
        /\ name \in DOMAIN L => name \in DOMAIN G
        /\ name \in DOMAIN G <=> name \in NamesOf(symtab, DOMAIN symtab)
        /\ name \in NamesOf(symtab, GlobalsIn(symtab)) <=> name \in DOMAIN G
        /\ name \in NamesOf(symtab, DOMAIN symtab) \/ type = "ST_NONE"
    BY StandsIs
  <1>4. CASE type \in {"ST_KEYWORD", "ST_FUNCT"} /\ scope' = "main" /\ Drops(symtab, symtab')
    <2>1. GlobalMap(symtab') = G /\ LocalMap(symtab') = <<>>
      BY <1>4, SeparateS, DropsMaps
    <2>2. name \in DOMAIN G
      BY <1>3, <1>4
    <2> HIDE DEF type, G, L
    <2> QED BY <1>1, <1>2, <1>3, <1>4, <2>1, <2>2 DEF MapsStep, Scopes!Param, G, L
  <1>5. CASE type = "ST_LOCAL_NONE" /\ scope' = scope /\ symtab' = symtab
    <2>1. type \in LocalTypes /\ type \notin {"ST_KEYWORD", "ST_FUNCT"}
      BY <1>5 DEF LocalTypes
    <2>2. name \in DOMAIN L /\ name \in DOMAIN G
      BY <1>3, <2>1
    <2> HIDE DEF type
    <2> QED BY <1>1, <1>2, <1>3, <1>5, <2>1, <2>2 DEF MapsStep, Scopes!Param
  <1>6. ASSUME type \in {"ST_NONE", "ST_VAR"}, scope' = scope,
               NEW m, \/ m = symtab /\ name \in NamesOf(symtab, GlobalsIn(symtab))
                      \/ /\ Puts(symtab, m, name, "ST_NONE")
                         /\ name \notin NamesOf(symtab, DOMAIN symtab),
               Puts(m, symtab', name, "ST_LOCAL_NONE")
        PROVE  Scopes!Param(name)
    <2>1. /\ "ST_NONE" \notin LocalTypes /\ "ST_LOCAL_NONE" \in LocalTypes /\ type \notin LocalTypes
          /\ type \notin {"ST_KEYWORD", "ST_FUNCT"}
      BY <1>6 DEF LocalTypes
    <2>2. /\ Separate(m) /\ LocalMap(m) = L
          /\ GlobalMap(m) = IF name \in DOMAIN G THEN G ELSE Scopes!Put(G, name, "ST_NONE")
      <3>1. CASE m = symtab /\ name \in NamesOf(symtab, GlobalsIn(symtab))
        BY <1>3, <3>1, SeparateS
      <3>2. CASE Puts(symtab, m, name, "ST_NONE") /\ name \notin NamesOf(symtab, DOMAIN symtab)
        <4>1. /\ Separate(m) /\ GlobalMap(m) = Scopes!Put(GlobalMap(symtab), name, "ST_NONE")
              /\ LocalMap(m) = LocalMap(symtab)
          BY <2>1, <3>2, SeparateS, PutsMaps
        <4> QED BY <4>1, <3>2, <1>3
      <3> QED BY <1>6, <3>1, <3>2
    <2>3. LocalMap(symtab') = Scopes!Put(LocalMap(m), name, "ST_LOCAL_NONE") /\ GlobalMap(symtab') = GlobalMap(m)
      BY <1>6, <2>1, <2>2, PutsMaps
    <2>4. name \notin DOMAIN L
      BY <1>3, <2>1
    <2> HIDE DEF type
    <2> QED BY <1>1, <1>2, <1>3, <1>6, <2>1, <2>2, <2>3, <2>4 DEF MapsStep, Scopes!Param
  <1>7. ASSUME type = "ST_NONE", scope' = "main",
               NEW m, Puts(symtab, m, name, "ST_FUNCT"), Drops(m, symtab')
        PROVE  Scopes!Param(name)
    <2>1. "ST_FUNCT" \notin LocalTypes
      BY DEF LocalTypes
    <2>2. Separate(m) /\ GlobalMap(m) = Scopes!Put(G, name, "ST_FUNCT")
      BY <1>7, <2>1, SeparateS, PutsMaps
    <2>3. GlobalMap(symtab') = Scopes!Put(G, name, "ST_FUNCT") /\ LocalMap(symtab') = <<>>
      BY <1>7, <2>2, DropsMaps
    <2> HIDE DEF type, G, L
    <2> QED BY <1>1, <1>2, <1>3, <1>7, <2>3 DEF MapsStep, Scopes!Param, G, L
  <1> HIDE DEF type, G, L
  <1> QED BY <1>4, <1>5, <1>6, <1>7, ParamStep DEF type

LEMMA BodyScopes ==
    ASSUME SymInv, Body
    PROVE  Scopes!Body
  <1>1. SymInv' /\ scope = "params" /\ scope' = "body"
    BY BodyStep
  <1>2. MapsStep(GlobalMap(symtab'), LocalMap(symtab'))
    BY <1>1, Stepping
  <1>3. CASE symtab' = symtab
    BY <1>1, <1>2, <1>3 DEF MapsStep, Scopes!Body
  <1>4. ASSUME NEW p \in LocalsIn(symtab, DOMAIN symtab),
               Puts(symtab, symtab', symtab[p].name, "ST_LOCAL_VAR")
        PROVE  Scopes!Body
    <2>1. "ST_LOCAL_VAR" \in LocalTypes
      BY DEF LocalTypes
    <2>2. /\ LocalMap(symtab') = Scopes!Put(LocalMap(symtab), symtab[p].name, "ST_LOCAL_VAR")
          /\ GlobalMap(symtab') = GlobalMap(symtab)
      BY <1>4, <2>1, SeparateS, PutsMaps
    <2>3. symtab[p].name \in DOMAIN LocalMap(symtab)
      BY SeparateS, MapValue DEF Separate, LocalMap
    <2> QED BY <1>1, <1>2, <2>2, <2>3 DEF MapsStep, Scopes!Body
  <1> QED BY <1>3, <1>4, BodyStep

LEMMA LeaveScopes ==
    ASSUME SymInv, Leave
    PROVE  Scopes!Leave
  <1>1. SymInv' /\ scope \in {"params", "body"} /\ scope' = "main" /\ Drops(symtab, symtab')
    BY LeaveStep
  <1>2. MapsStep(GlobalMap(symtab'), LocalMap(symtab'))
    BY <1>1, Stepping
  <1>3. GlobalMap(symtab') = GlobalMap(symtab) /\ LocalMap(symtab') = <<>>
    BY <1>1, SeparateS, DropsMaps
  <1> QED BY <1>1, <1>2, <1>3 DEF MapsStep, Scopes!Leave

LEMMA ScopesInit == Init => Scopes!Init
  <1> SUFFICES ASSUME Init PROVE Scopes!Init
    OBVIOUS
  <1>1. SymInv /\ symtab = <<>> /\ scope = "init"
    BY SymInvInit DEF Init
  <1>2. LocalMap(symtab) = <<>>
    BY <1>1, SeparateS
  <1>3. GlobalMap(symtab) = <<>>
    <2>1. GlobalsIn(symtab) = {}
      BY <1>1 DEF GlobalsIn
    <2> QED BY <2>1, EmptyMap DEF GlobalMap
  <1> QED BY <1>1, <1>2, <1>3, MapsAre DEF Scopes!Init

LEMMA ScopesNext == SymInv /\ [Next]_vars => [Scopes!Next]_(Scopes!vars)
  <1> SUFFICES ASSUME SymInv, [Next]_vars PROVE [Scopes!Next]_(Scopes!vars)
    OBVIOUS
  <1>1. ASSUME NEW s \in Ids \cup Keywords, kw_init(s) PROVE Scopes!Next
    BY <1>1, ReserveScopes DEF Scopes!Next
  <1>2. ASSUME NEW s \in Ids \cup Keywords, Define(s) PROVE Scopes!Next
    BY <1>2, DefineScopes DEF Scopes!Next
  <1>3. ASSUME NEW s \in Ids \cup Keywords, Param(s) PROVE Scopes!Next
    BY <1>3, ParamScopes DEF Scopes!Next
  <1>4. ASSUME NEW s \in Ids \cup Keywords, Use(s) PROVE Scopes!Next
    BY <1>4, UseScopes DEF Scopes!Next
  <1>5. ASSUME NEW n \in Sizes, Take(n) PROVE UNCHANGED Scopes!vars
    BY <1>5, TakeStep, StayScopes
  <1>6. CASE Parse
    BY <1>6, StartScopes DEF Scopes!Next
  <1>7. CASE Body
    BY <1>7, BodyScopes DEF Scopes!Next
  <1>8. CASE Leave
    BY <1>8, LeaveScopes DEF Scopes!Next
  <1>9. ASSUME NEW b \in others, Give(b) PROVE UNCHANGED Scopes!vars
    BY <1>9, GiveStep, StayScopes
  <1>10. CASE UNCHANGED vars
    BY <1>10, StutterStep, StayScopes
  <1> QED BY <1>1, <1>2, <1>3, <1>4, <1>5, <1>6, <1>7, <1>8, <1>9, <1>10 DEF Next

\* Inside a function a parameter stands for a local, whatever the bucket that
\* it shares; behind the function, or behind an error in it, every global is
\* what it was: each step of the table is one of AwkScopes, or changes no name.
THEOREM SymbolsScopes == Spec => NamesAreScoped
  BY SymbolsInvariant, ScopesInit, ScopesNext, PTL DEF Spec, NamesAreScoped, Scopes!Spec
=============================================================================
