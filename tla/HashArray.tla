------------------------------ MODULE HashArray ------------------------------
(***************************************************************************)
(* array.c: one AWK array as the dual hash table of mawk.                  *)
(*                                                                         *)
(* A table is a vector of hmask+1 pairs of lists.  A node of key k is on   *)
(* the slist of bucket Hash[k] & hmask when the table is keyed on strings  *)
(* (AY_STR), and on the ilist of bucket k & hmask once somebody looked it  *)
(* up as an integer (AY_INT).  Both lookups move what they find to the     *)
(* front of its list; deletion relies on that.  A node is named by its     *)
(* key (an integer k stands for the string sprintf("%ld", k) too), a list  *)
(* by the sequence of its nodes, and the array by one record whose fields  *)
(* are those of struct _array and of its nodes.                            *)
(*                                                                         *)
(* find_by_ival keeps the bucket it computed on entry when find_by_sval    *)
(* doubled the table meanwhile; the ghost field misfiled remembers the     *)
(* nodes filed that way.  A step that leaves the lists in a state these    *)
(* sequences cannot express (a node linked on two lists at once, a list    *)
(* holding a freed node) or that follows a null pointer sets fault, and    *)
(* the model stops there.                                                  *)
(***************************************************************************)
EXTENDS Integers, Sequences, FiniteSets, SequencesExt, FiniteSetsExt, Functions

CONSTANTS IntKeys,     \* keys that are (decimal forms of) integers
          Names,       \* keys that are not
          Val, Uninit, \* the values of cells
          Hash,        \* ahash(): a natural number for each key
          MaxInt,      \* Max_Int
          StartMask,   \* STARTING_HMASK, 63 in array.c
          MaxAve,      \* MAX_AVE_LIST_LENGTH, 12 in array.c
          SplitRound,  \* split arrays are allocated in multiples of this, 4
          MaxSplit     \* bound: the most pieces split() delivers

Keys == IntKeys \cup Names

ASSUME HashArrayAssumption ==
    /\ MaxInt \in Nat /\ IntKeys \subseteq -(MaxInt + 1)..MaxInt
    /\ IntKeys \cap Names = {}
    /\ Hash \in [Keys -> Nat]
    /\ StartMask \in Nat /\ \E n \in 1..30 : StartMask = 2^n - 1
    /\ MaxAve \in Nat \ {0} /\ SplitRound \in Nat \ {0}
    /\ MaxSplit \in Nat /\ 1..MaxSplit \subseteq IntKeys
    /\ Uninit \in Val

VARIABLES A, out, fault

vars == <<A, out, fault>>

NotAnIvalue == -MaxInt - 1

AY_NULL  == {}

AY_SPLIT == {"SPLIT"}

hmask_to_limit(m) == (m + 1) * MaxAve

Bucket(h, m) == h % (m + 1)          \* h & m, m being 2^n - 1

NoLists(m) == [i \in 0..m |-> <<>>]

\* struct _array after memset(A, 0, sizeof(*A)): no table, no nodes
NullArray == [type |-> AY_NULL, size |-> 0, limit |-> 0, hmask |-> 0,
              slist |-> <<>>, ilist |-> <<>>, cells |-> <<>>,
              val |-> <<>>, svals |-> {}, ivals |-> {}, misfiled |-> {}]

Live(a) == DOMAIN a.val

\* the nodes of a list that are in S, and those that are not k, in their order
Those(list, S) ==
    LET those[i \in 0..Len(list)] ==
            IF i = 0 THEN <<>>
            ELSE IF list[i] \in S THEN Append(those[i - 1], list[i]) ELSE those[i - 1]
    IN those[Len(list)]
Without(list, k) == Those(list, ToSet(list) \ {k})

ToFront(list, k) == <<k>> \o Without(list, k)

-----------------------------------------------------------------------------
(* Constructors and conversions                                            *)

make_empty_table(a, flag) ==
    [a EXCEPT !.type = {flag}, !.hmask = StartMask,
              !.limit = hmask_to_limit(StartMask),
              !.slist = NoLists(StartMask), !.ilist = NoLists(StartMask)]

\* hmask of a table that was doubled i times, or began as large
doubled[i \in Nat] == IF i = 0 THEN StartMask ELSE 2 * doubled[i - 1] + 1

\* the cells of a split array become nodes keyed on integers only
convert_split_array_to_table(a) ==
    LET n == a.size
        m == Min({x \in {doubled[i] : i \in 0..n} : n <= hmask_to_limit(x)})
        descending == [i \in 1..n |-> n + 1 - i]
    IN [NullArray EXCEPT
           !.type = {"INT"}, !.size = n, !.hmask = m,
           !.limit = hmask_to_limit(m), !.slist = NoLists(m),
           !.ilist = [b \in 0..m |->
                        Those(descending, {k \in 1..n : Bucket(k, m) = b})],
           !.val = a.cells, !.ivals = 1..n]

\* a variant: list hmask is left out
WalkShort(lists, m) == FlattenSeq([i \in 1..m |-> lists[i - 1]])

\* the nodes of the ilists in the order add_string_associations meets them
Walk(lists, m) == FlattenSeq([i \in 1..m + 1 |-> lists[i - 1]])

\* every node gets its string and goes on the slist of its bucket
EnterStrings(a, nodes) ==
    [a EXCEPT !.slist = [i \in 0..a.hmask |->
                           Those(nodes, {k \in ToSet(nodes) : Bucket(Hash[k], a.hmask) = i})],
              !.svals = Live(a), !.type = @ \cup {"STR"}]

EnterAll(a) == EnterStrings(a, Reverse(Walk(a.ilist, a.hmask)))

add_string_associations(a) ==
    IF a.type = AY_NULL THEN make_empty_table(a, "STR")
    ELSE IF a.type = AY_SPLIT THEN EnterAll(convert_split_array_to_table(a))
    ELSE EnterAll(a)

\* what the ilists are hashed on
Ival == [k \in IntKeys |-> k]

\* the nodes of a list of 2m + 2 lists that belong on list i of them
Belong(list, h, m, i) == {k \in ToSet(list) : Bucket(h[k], 2 * m + 1) = i}

\* a variant: each node goes to the front of its new list
SpreadReversed(lists, h, m) ==
    [i \in 0..2 * m + 1 |->
       LET list == lists[i % (m + 1)] IN Those(Reverse(list), Belong(list, h, m, i))]

\* list i keeps the nodes whose masked hash is still i, the others go to
\* list i + old_hmask + 1, in the same order
Spread(lists, h, m) ==
    LET Stay(i) == Belong(lists[i], h, m, i)
    IN [i \in 0..2 * m + 1 |->
          IF i <= m THEN Those(lists[i], Stay(i))
          ELSE Those(lists[i - m - 1], ToSet(lists[i - m - 1]) \ Stay(i - m - 1))]

\* a variant: the ilists are not split
double_the_slists(a) ==
    LET n == 2 * a.hmask + 1
    IN [a EXCEPT !.slist = Spread(@, Hash, a.hmask),
                 !.ilist = [i \in 0..n |-> IF i <= a.hmask THEN @[i] ELSE <<>>],
                 !.hmask = n, !.limit = hmask_to_limit(n)]

double_the_hash_table(a) ==
    LET n == 2 * a.hmask + 1
    IN [a EXCEPT !.slist = Spread(@, Hash, a.hmask),
                 !.ilist = Spread(@, Ival, a.hmask),
                 !.hmask = n, !.limit = hmask_to_limit(n)]

-----------------------------------------------------------------------------
(* Lookup.  Each returns the array after the lookup (lists move, nodes and *)
(* associations are created), whether the key was found or created, and    *)
(* whether that left a node on two ilists.                                 *)

Hit(a)  == [arr |-> a, hit |-> TRUE, shared |-> FALSE]
Miss(a) == [arr |-> a, hit |-> FALSE, shared |-> FALSE]

\* a fresh node for k, counted, with the table doubled if that is one too many
Counted(a, k) == [a EXCEPT !.size = @ + 1,
                           !.val = [x \in DOMAIN @ \cup {k} |->
                                      IF x = k THEN Uninit ELSE @[x]]]
DoubleIfOver(a) == IF a.size > a.limit THEN double_the_hash_table(a) ELSE a
NewNode(a, k) == DoubleIfOver(Counted(a, k))

\* file node k at the front of its slist
OnSlist(a, k) == [a EXCEPT !.slist[Bucket(Hash[k], a.hmask)] = <<k>> \o @,
                           !.svals = @ \cup {k}]

SearchSlist(a, k, create) ==
    LET i == Bucket(Hash[k], a.hmask)
    IN IF Contains(a.slist[i], k)
       THEN Hit([a EXCEPT !.slist[i] = ToFront(@, k)])
       ELSE IF create
       THEN Hit(OnSlist(NewNode(a, k), k))
       ELSE Miss(a)

find_by_sval(a, k, create) ==
    SearchSlist(IF "STR" \in a.type THEN a ELSE add_string_associations(a), k, create)

\* file node k at the front of ilist i
OnIlist(a, i, k) == [a EXCEPT !.ilist[i] = <<k>> \o @, !.ivals = @ \cup {k},
                              !.type = @ \cup {"INT"},
                              !.misfiled = IF i = Bucket(k, a.hmask) THEN @ ELSE @ \cup {k}]

\* the node found by string goes on ilist indx, which was computed before the
\* table was doubled
FileByIval(r, indx, k) ==
    IF ~r.hit THEN r
    ELSE [arr |-> OnIlist(r.arr, indx, k), hit |-> TRUE,
          shared |-> \E i \in 0..r.arr.hmask : Contains(r.arr.ilist[i], k)]

FileNew(a, k) == Hit(OnIlist(a, Bucket(k, a.hmask), k))

find_by_ival(a, k, create) ==
    LET indx == Bucket(k, a.hmask)
    IN IF Contains(a.ilist[indx], k)
       THEN Hit([a EXCEPT !.ilist[indx] = ToFront(@, k)])
       ELSE IF "STR" \in a.type
       THEN FileByIval(find_by_sval(a, k, create), indx, k)
       ELSE IF create THEN FileNew(NewNode(a, k), k)
       ELSE Miss(a)

\* num: the subscript is a C_DOUBLE with an integer value
array_find(a, k, num, create) ==
    IF a.size = 0 /\ ~create THEN Miss(a)
    ELSE IF ~num THEN find_by_sval(a, k, create)
    ELSE IF a.type = AY_SPLIT
    THEN IF k \in 1..a.size THEN Hit(a)
         ELSE IF ~create THEN Miss(a)
         ELSE find_by_ival(convert_split_array_to_table(a), k, create)
    ELSE find_by_ival(IF a.type = AY_NULL THEN make_empty_table(a, "INT") ELSE a,
                      k, create)

CellOf(a, k) == IF a.type = AY_SPLIT THEN a.cells[k] ELSE a.val[k]

SetCell(a, k, v) == IF a.type = AY_SPLIT THEN [a EXCEPT !.cells[k] = v]
                    ELSE [a EXCEPT !.val[k] = v]

-----------------------------------------------------------------------------
(* The operations of the interpreter: execute.c pushes a cell or its       *)
(* address, tests membership, assigns, deletes, splits and loops.  What    *)
(* the program observes goes to out.                                       *)

Init == A = NullArray /\ out = <<"none">> /\ fault = "none"

Running == fault = "none"

\* the result of a lookup becomes the array, unless a node is on two lists
Keep(r, a, o) == IF r.shared THEN fault' = "shared" /\ UNCHANGED <<A, out>>
                 ELSE A' = a /\ out' = o /\ UNCHANGED fault

Refer(k, num) ==
    Running /\ \E r \in {array_find(A, k, num, TRUE)} :
                  Keep(r, r.arr, <<"ref", k, CellOf(r.arr, k)>>)

Member(k, num) ==
    Running /\ \E r \in {array_find(A, k, num, FALSE)} :
                  Keep(r, r.arr, <<"in", k, r.hit>>)

Assign(k, num, v) ==
    Running /\ \E r \in {array_find(A, k, num, TRUE)} :
                  Keep(r, SetCell(r.arr, k, v), <<"set", k, v>>)

\* array_clear
Clear == /\ Running
         /\ A' = NullArray /\ out' = <<"clear">> /\ UNCHANGED fault

\* the node leaves the table; the last one takes the table with it
Unlink(a, k) ==
    IF a.size = 1 THEN NullArray
    ELSE [a EXCEPT !.size = @ - 1, !.val = Restrict(@, DOMAIN @ \ {k}),
                   !.svals = @ \ {k}, !.ivals = @ \ {k}, !.misfiled = @ \ {k}]

DeleteNothing(a, k) == A' = a /\ out' = <<"delete", k>> /\ UNCHANGED fault

\* array_delete of an integer: the node found is at the front of its ilist
OffIlist(a, k) == [a EXCEPT !.ilist[Bucket(k, a.hmask)] = Tail(@)]
OffItsSlist(a, k) == IF k \in a.svals
                     THEN [a EXCEPT !.slist[Bucket(Hash[k], a.hmask)] = Without(@, k)]
                     ELSE a

DeleteNum(k) ==
    LET inRange == A.type = AY_SPLIT => k \in 1..A.size
        a == IF A.type = AY_SPLIT THEN convert_split_array_to_table(A) ELSE A
    IN /\ Running
       /\ IF A.size = 0 \/ ~inRange THEN DeleteNothing(A, k)
          ELSE \E r \in {find_by_ival(a, k, FALSE)} :
                 IF ~r.hit THEN DeleteNothing(r.arr, k)
                 ELSE Keep(r, Unlink(OffItsSlist(OffIlist(r.arr, k), k), k),
                           <<"delete", k>>)

\* array_delete of a string: the node found is at the front of its slist; if
\* it has an ival it is looked for on the ilist of its bucket, to the end of
\* the list and beyond
OffSlist(a, k) == [a EXCEPT !.slist[Bucket(Hash[k], a.hmask)] = Tail(@)]
Numbered(a, k) == k \in a.ivals /\ k # NotAnIvalue
OffItsIlist(a, k) == IF Numbered(a, k)
                     THEN [a EXCEPT !.ilist[Bucket(k, a.hmask)] = Without(@, k)]
                     ELSE a

DeleteStr(k) ==
    /\ Running
    /\ IF A.size = 0 THEN DeleteNothing(A, k)
       ELSE \E r \in {find_by_sval(A, k, FALSE)} :
              IF ~r.hit THEN DeleteNothing(r.arr, k)
              ELSE IF /\ Numbered(r.arr, k)
                      /\ ~Contains(r.arr.ilist[Bucket(k, r.arr.hmask)], k)
              THEN fault' = "crash" /\ UNCHANGED <<A, out>>
              ELSE /\ A' = Unlink(OffItsIlist(OffSlist(r.arr, k), k), k)
                   /\ out' = <<"delete", k>>
                   /\ fault' = IF \E j \in DOMAIN A'.ilist : Contains(A'.ilist[j], k)
                               THEN "dangling" ELSE fault

\* array_load: the block of a split array that is large enough is reused
Load(pieces) ==
    LET n == Len(pieces)
        room == IF A.type # AY_SPLIT \/ A.limit < n
                THEN (n - (n % SplitRound)) + SplitRound ELSE A.limit
    IN /\ Running
       /\ A' = [NullArray EXCEPT !.type = AY_SPLIT, !.size = n, !.limit = room,
                                 !.cells = pieces]
       /\ out' = <<"load", n>> /\ UNCHANGED fault

\* array_loop_vector: the keys off the slists, bucket by bucket
Loop == LET a == IF A.size = 0 \/ "STR" \in A.type THEN A
                 ELSE add_string_associations(A)
        IN /\ Running /\ A' = a /\ UNCHANGED fault
           /\ out' = <<"loop", IF a.size = 0 THEN <<>>
                              ELSE Walk(a.slist, a.hmask)>>

Next ==
    \/ \E k \in Keys : \/ Refer(k, FALSE) \/ Member(k, FALSE) \/ DeleteStr(k)
                      \/ \E v \in Val \ {Uninit} : Assign(k, FALSE, v)
    \/ \E k \in IntKeys : \/ Refer(k, TRUE) \/ Member(k, TRUE) \/ DeleteNum(k)
                         \/ \E v \in Val \ {Uninit} : Assign(k, TRUE, v)
    \/ \E n \in 0..MaxSplit : \E pieces \in [1..n -> Val \ {Uninit}] : Load(pieces)
    \/ Clear \/ Loop

Spec == Init /\ [][Next]_vars

-----------------------------------------------------------------------------
(* Properties                                                              *)

Flags == {{}, {"INT"}, {"STR"}, {"INT", "STR"}, {"SPLIT"}}

\* The fields have the types array.c gives them.
TypeOK ==
    /\ A.type \in Flags /\ A.size \in Nat /\ A.limit \in Nat /\ A.hmask \in Nat
    /\ DOMAIN A.slist = DOMAIN A.ilist
    /\ \A i \in DOMAIN A.slist : A.slist[i] \in Seq(Keys) /\ A.ilist[i] \in Seq(Keys)
    /\ A.cells \in Seq(Val) /\ A.val \in [Live(A) -> Val]
    /\ Live(A) \cup A.svals \cup A.ivals \cup A.misfiled \subseteq Keys
    /\ fault \in {"none", "shared", "crash", "dangling"}

InTable == A.type \cap {"INT", "STR"} # {}

\* The load factor is bounded whatever sequence of creations, conversions,
\* deletions and doublings led here: (hmask+1)*max_ave_list_length = limit,
\* hmask+1 is a power of two, size <= limit; a split array fits its block
\* (mawk-arrays(7), "Data Structures").
LoadFactor ==
    /\ InTable => /\ A.limit = hmask_to_limit(A.hmask)
                  /\ \E i \in 0..A.hmask : A.hmask = doubled[i]
                  /\ A.size = Cardinality(Live(A))
    /\ A.type = AY_SPLIT => A.size = Len(A.cells)
    /\ A.size <= A.limit

\* how often k occurs on the lists
Count(lists, k) == Cardinality({p \in (DOMAIN lists) \X (1..A.size) :
                                   p[2] <= Len(lists[p[1]]) /\ lists[p[1]][p[2]] = k})

\* The vector of for (k in A) has room for size strings and is filled from the
\* slists: when AY_STR is set every node has a string, and is on the slist of
\* its bucket once and on no other, and nothing else is on any slist.
StringListsComplete ==
    IF "STR" \in A.type
    THEN /\ A.svals = Live(A)
         /\ \A i \in DOMAIN A.slist : Len(A.slist[i]) <= A.size
         /\ \A k \in Keys : Count(A.slist, k) = IF k \in Live(A) THEN 1 ELSE 0
         /\ \A k \in Live(A) : Contains(A.slist[Bucket(Hash[k], A.hmask)], k)
    ELSE A.svals = {}

\* The nodes with an ival are on one ilist each, that of their bucket unless
\* find_by_ival misfiled them; with AY_STR off every node has an ival.
IntListsComplete ==
    (fault = "none" /\ InTable) =>
        /\ "STR" \notin A.type => A.ivals = Live(A)
        /\ \A i \in DOMAIN A.ilist : Len(A.ilist[i]) <= A.size
        /\ \A k \in Keys : Count(A.ilist, k) = IF k \in A.ivals THEN 1 ELSE 0
        /\ \A k \in A.ivals \ A.misfiled : Contains(A.ilist[Bucket(k, A.hmask)], k)

\* The dual table is what array.c says it is, in every state: sizes and limits,
\* the lists by string and the lists by integer.
TableConsistent == TypeOK /\ LoadFactor /\ StringListsComplete /\ IntListsComplete

\* Nothing but a node misfiled by a lookup that doubled the table makes the two
\* lookups disagree, has array_delete follow a null link or leaves a deleted
\* node on a list.
FaultsComeFromMisfiling == fault # "none" => A.misfiled # {}

Before(list, j, k) == \E m, n \in 1..Len(list) : m < n /\ list[m] = j /\ list[n] = k

\* Doubling splits every list without reordering it: what was more recently
\* used stays in front of what was less recently used ("the positions of the
\* move-to-the-front heuristic are preserved").
DoublingKeepsOrder ==
    [][(A.type = A'.type /\ A'.hmask > A.hmask /\ InTable) =>
         \A i \in DOMAIN A'.slist : \A j, k \in Live(A) :
            /\ Before(A'.slist[i], j, k) =>
                 Before(A.slist[i % (A.hmask + 1)], j, k)
            /\ Before(A'.ilist[i], j, k) /\ k \in A.ivals /\ j \in A.ivals =>
                 Before(A.ilist[i % (A.hmask + 1)], j, k)]_vars

\* The association array.c keeps is that of an AWK array: every answer, every
\* element and every value is that of the abstract map, through conversions,
\* doublings and both kinds of lookup.
Map == IF A.type = AY_SPLIT THEN A.cells ELSE A.val
Answer == IF out[1] = "loop" THEN <<"loop", ToSet(out[2])>> ELSE out

Abstract == INSTANCE AwkArray WITH map <- Map, out <- Answer

ImplementsAwkArray == Abstract!Spec
=============================================================================
