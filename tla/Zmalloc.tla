------------------------------ MODULE Zmalloc ------------------------------
(***************************************************************************)
(* The memory pools (zmalloc.c), as operators on a heap.  A block of at    *)
(* most POOLSZ units comes from the pool of its size, else from the front  *)
(* of the chunk at hand, and goes back to the pool of the size it is freed *)
(* with; a chunk too small for a request becomes one block of a pool.      *)
(* Larger blocks are malloc's.  Addresses and lengths are in units of      *)
(* ZBLOCKSZ bytes; a pool is a sequence, its front first.                  *)
(***************************************************************************)
EXTENDS Integers, Sequences, FiniteSets, Functions

CONSTANTS ZBLOCKSZ, POOLSZ, CHUNK,
          MaxChunks    \* bound: the chunks that malloc has memory for

ASSUME ZmallocAssumption == /\ ZBLOCKSZ \in Nat \ {0} /\ POOLSZ \in Nat \ {0}
                            /\ CHUNK \in Nat /\ CHUNK >= POOLSZ /\ MaxChunks \in Nat

Block(p, blocks) == [at |-> p, size |-> blocks]

\* areas are malloc's, up to brk; live is history: the blocks given out
NoMemory == [pool |-> [k \in 1..POOLSZ |-> <<>>], avail |-> 0, amt_avail |-> 0,
             areas |-> {}, brk |-> 0, live |-> {}]

BytesToBlocks(size) == (size + ZBLOCKSZ - 1) \div ZBLOCKSZ
IsPoolable(blocks) == blocks <= POOLSZ

\* malloc: an area that does not touch another
Malloc(z, n) == [z EXCEPT !.areas = @ \cup {Block(z.brk, n)}, !.brk = @ + n + 1]

\* a variant: filed one pool too high
FreeAvail_high(z) ==
    IF z.amt_avail = 0 THEN z
    ELSE [z EXCEPT !.pool[z.amt_avail + 1] = <<z.avail>> \o @, !.amt_avail = 0]
\* what is left of the chunk becomes a block of the pool of its size
FreeAvail(z) ==
    IF z.amt_avail = 0 THEN z
    ELSE [z EXCEPT !.pool[z.amt_avail] = <<z.avail>> \o @, !.amt_avail = 0]
NewChunk(z) == [Malloc(z, CHUNK) EXCEPT !.avail = z.brk, !.amt_avail = CHUNK]
FromAvail(z, n) == <<z.avail, [z EXCEPT !.avail = @ + n, !.amt_avail = @ - n]>>

Roomy(z) == Cardinality({a \in z.areas : a.size = CHUNK}) < MaxChunks

\* the address and the heap
Taken(z, n) ==
    IF IsPoolable(n) /\ z.pool[n] # <<>>
    THEN <<Head(z.pool[n]), [z EXCEPT !.pool[n] = Tail(@)]>>
    ELSE IF IsPoolable(n) /\ (n <= z.amt_avail \/ Roomy(z))
    THEN FromAvail(IF n <= z.amt_avail THEN z ELSE NewChunk(FreeAvail(z)), n)
    ELSE <<z.brk, Malloc(IF IsPoolable(n) THEN FreeAvail(z) ELSE z, n)>>
zmalloc(z, size) ==
    LET n == BytesToBlocks(size)
        t == Taken(z, n)
    IN  <<t[1], [t[2] EXCEPT !.live = @ \cup {Block(t[1], n)}]>>

zfree(z, p, size) ==
    LET n == BytesToBlocks(size)
        gone == [z EXCEPT !.live = @ \ {Block(p, n)}]
    IN  IF IsPoolable(n) THEN [gone EXCEPT !.pool[n] = <<p>> \o @]
        ELSE [gone EXCEPT !.areas = @ \ {Block(p, n)}]

-----------------------------------------------------------------------------
(* What a heap is made of.                                                 *)

Units(b) == b.at..b.at + b.size - 1
UnitsOf(B) == UNION {Units(b) : b \in B}
Pooled(z) == UNION {{Block(p, k) : p \in {z.pool[k][i] : i \in 1..Len(z.pool[k])}} : k \in 1..POOLSZ}
InHand(z) == IF z.amt_avail = 0 THEN {} ELSE {Block(z.avail, z.amt_avail)}
Parts(z) == z.live \cup Pooled(z) \cup InHand(z)

\* The blocks given out, the ones in the pools and the rest of the chunk are
\* disjoint, and together they are all that malloc gave: a unit has one owner,
\* and none is lost.
Apart(B) == \A b, c \in B : b = c \/ Units(b) \cap Units(c) = {}
OneOwner(z) == /\ Apart(Parts(z))
               /\ \A k \in 1..POOLSZ : IsInjective(z.pool[k])
               /\ z.live \cap Pooled(z) = {}
               /\ (z.live \cup Pooled(z)) \cap InHand(z) = {}
Accounted(z) == OneOwner(z) /\ UnitsOf(Parts(z)) = UnitsOf(z.areas)
=============================================================================
