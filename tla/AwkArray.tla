------------------------------ MODULE AwkArray ------------------------------
(***************************************************************************)
(* What an AWK array promises its user, whatever structure holds it: a     *)
(* finite map from string keys to values.  An integer and its decimal      *)
(* string are the same key.  HashArray (array.c) implements it.            *)
(***************************************************************************)
EXTENDS Integers, Sequences, Functions

CONSTANTS Keys,      \* the string keys; integers stand for their decimal form
          Val,       \* the values a cell can hold
          Uninit,    \* the value of a cell nobody has assigned (C_NOINIT)
          MaxSplit   \* split() delivers at most this many pieces

VARIABLES map,   \* the elements: a function whose domain is the set of keys
          out    \* the answer the last operation gave the program

vars == <<map, out>>

Put(m, k, v) == [x \in DOMAIN m \cup {k} |-> IF x = k THEN v ELSE m[x]]

Init == map = <<>> /\ out = <<"none">>

\* A[k] as a value: creates the element
Refer(k) == /\ map' = IF k \in DOMAIN map THEN map ELSE Put(map, k, Uninit)
            /\ out' = <<"ref", k, map'[k]>>

\* k in A: creates nothing
Member(k) == /\ UNCHANGED map
             /\ out' = <<"in", k, k \in DOMAIN map>>

\* A[k] = v
Assign(k, v) == /\ map' = Put(map, k, v)
                /\ out' = <<"set", k, v>>

Delete(k) == /\ map' = Restrict(map, DOMAIN map \ {k})
             /\ out' = <<"delete", k>>

\* split(s, A): the old elements go, the pieces are A[1] .. A[n]
Load(pieces) == /\ map' = pieces
                /\ out' = <<"load", Len(pieces)>>

Clear == map' = <<>> /\ out' = <<"clear">>

\* for (k in A): the set of keys at the time the loop starts
Loop == UNCHANGED map /\ out' = <<"loop", DOMAIN map>>

Next == \/ \E k \in Keys : Refer(k) \/ Member(k) \/ Delete(k)
        \/ \E k \in Keys, v \in Val : Assign(k, v)
        \/ \E n \in 0..MaxSplit : \E pieces \in [1..n -> Val] : Load(pieces)
        \/ Clear \/ Loop

Spec == Init /\ [][Next]_vars
=============================================================================
