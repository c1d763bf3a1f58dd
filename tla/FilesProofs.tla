----------------------------- MODULE FilesProofs -----------------------------
(***************************************************************************)
(* Proofs about Files, for every set of names, of processes and of exit    *)
(* statuses and any number of streams.                                     *)
(***************************************************************************)
EXTENDS Files, Facts, FiniteSetTheorems

\* The first of a set of places of the list is one of them.
LEMMA FirstIn ==
    ASSUME NEW S, S \subseteq Nat, S # {}
    PROVE  First(S) \in S /\ \A j \in S : First(S) <= j
  BY LeastNat DEF First

-----------------------------------------------------------------------------
(* The types of the data.                                                  *)

Titles == Names \cup {Stdin, Stdout, Stderr}
NodeT == [id : Nat, name : Titles, type : Types, pid : Nat, ptr : {"open", "semi", "null"}]
Marks == Statuses \cup {0}
ChildT == (Pids \cup {JunkPid}) \X Marks
ProcT == [pid : Pids, st : {"run", "zombie", "reaped"}, status : Marks, quiet : BOOLEAN]

Runs   == {[do |-> "run"]}
Closes == [do : {"close"}, name : Titles]
Exits  == [do : {"exit"}, at : Nat \ {0}]
Waits  == [do : {"wait"}, pid : Nat, id : Nat, then : Runs \cup Closes \cup Exits,
           what : {"getline", "close", "exit"}]
Gones  == {[do |-> "gone"]}
OpT    == Runs \cup Closes \cup Exits \cup Waits \cup Gones

OutT == {Nothing} \cup ({"close", "exit", "getline"} \X Nat \X Marks)

Typed ==
    /\ file_list \in Seq(NodeT) /\ child_list \in Seq(ChildT)
    /\ last \in Nat /\ last >= 2
    /\ DOMAIN procs \subseteq 3..last /\ procs \in [DOMAIN procs -> ProcT]
    /\ \A s \in DOMAIN procs : procs[s].pid \in used
    /\ dirty \cup closed \subseteq 0..last
    /\ op \in OpT /\ out \in OutT
    /\ out # Nothing => out[2] <= last
    /\ fault \in {"none", "twice", "closed", "null", "bozo"}

-----------------------------------------------------------------------------
(* The list of streams.                                                    *)

\* A node is of a stream that was opened, and a pipe has its process; no two
\* nodes are of one stream, or answer one lookup.
NodeOK(n, ps, l) == /\ n.id <= l
                    /\ n.type \in Pipes <=> n.id \in DOMAIN ps
                    /\ n.id \in DOMAIN ps => n.pid = ps[n.id].pid
                    /\ n.type \notin Pipes => n.pid = NoPid
Apart(n, m) == /\ n.id # m.id
               /\ n.name = m.name /\ n.ptr # "null" /\ m.ptr # "null" => ~Same(n.type, m.type)
ListOK(list, ps, l) == /\ \A i \in DOMAIN list : NodeOK(list[i], ps, l)
                       /\ \A i, j \in DOMAIN list : i # j => Apart(list[i], list[j])

\* What mawk does when it does not wait, or will do when it has waited.
Doing == IF op.do = "wait" THEN op.then ELSE op

NoneClosed == Doing.do \in {"run", "close"} => \A i \in DOMAIN file_list : file_list[i].id \notin closed

\* Mawk waits for any process, or for the one of a stream that it has closed.
WaitOK ==
    op.do = "wait" =>
        /\ op.id <= last
        /\ op.what = "getline" => op.pid = 0 /\ op.then.do = "run"
        /\ op.what # "getline" => /\ op.pid # 0 /\ op.id \in DOMAIN procs \cap closed
                                  /\ procs[op.id].pid = op.pid
                                  /\ op.then.do = op.what
        /\ op.what = "exit" => \A i \in DOMAIN file_list :
                                  file_list[i].id = op.id => file_list[i].type = "PIPE_OUT"

StreamsInv == Typed /\ ListOK(file_list, procs, last) /\ NoneClosed /\ WaitOK

\* A list made of nodes of another one, each at most once.
Alike(n, m) == /\ n.id = m.id /\ n.name = m.name /\ n.type = m.type /\ n.pid = m.pid
               /\ n.ptr = "null" <=> m.ptr = "null"
MadeOf(new, old) ==
    /\ new \in Seq(NodeT)
    /\ \E p \in [DOMAIN new -> DOMAIN old] :
         /\ \A j, k \in DOMAIN new : p[j] = p[k] => j = k
         /\ \A k \in DOMAIN new : Alike(new[k], old[p[k]])

\* The rest of a good list is good.
LEMMA MadeOfOK ==
    ASSUME NEW new, NEW old, NEW ps, NEW l, MadeOf(new, old), ListOK(old, ps, l)
    PROVE  ListOK(new, ps, l)
  BY DEF MadeOf, ListOK, NodeOK, Apart, Alike

\* Whatever such a list has was in the other one.
LEMMA MadeOfIn ==
    ASSUME NEW new, NEW old, MadeOf(new, old), NEW i \in DOMAIN new
    PROVE  \E j \in DOMAIN old : Alike(new[i], old[j])
  BY DEF MadeOf

\* A node that leaves the list, and one that goes to its front.
LEMMA Leaves ==
    ASSUME NEW list \in Seq(NodeT), NEW i \in DOMAIN list
    PROVE  /\ MadeOf(RemoveAt(list, i), list)
           /\ \A n \in NodeT : Alike(n, list[i]) => MadeOf(<<n>> \o RemoveAt(list, i), list)
           /\ \A n \in NodeT : Len(<<n>> \o RemoveAt(list, i)) = Len(list) /\ (<<n>> \o RemoveAt(list, i))[1] = n
  <1> DEFINE r == RemoveAt(list, i)
  <1>0. /\ r \in Seq(NodeT) /\ Len(r) = Len(list) - 1 /\ DOMAIN list = 1..Len(list)
        /\ \A j \in 1..Len(list) - 1 : r[j] = IF j < i THEN list[j] ELSE list[j + 1]
    <2>1. DOMAIN list = 1..Len(list)
      OBVIOUS
    <2> QED BY <2>1, RemoveAtProps
  <1>00. DOMAIN r = 1..Len(list) - 1 /\ Len(list) \in Nat
    BY <1>0
  <1> HIDE DEF r
  <1>1. MadeOf(r, list)
    <2> DEFINE p == [j \in DOMAIN r |-> IF j < i THEN j ELSE j + 1]
    <2>1. p \in [DOMAIN r -> DOMAIN list]
      BY <1>0, <1>00
    <2>2. \A j, k \in DOMAIN r : p[j] = p[k] => j = k
      BY <1>0, <1>00
    <2>3. \A k \in DOMAIN r : Alike(r[k], list[p[k]])
      BY <1>0, <1>00 DEF Alike
    <2> HIDE DEF p
    <2> QED BY <1>0, <2>1, <2>2, <2>3 DEF MadeOf
  <1>2. ASSUME NEW n \in NodeT
        PROVE  /\ Alike(n, list[i]) => MadeOf(<<n>> \o r, list)
               /\ Len(<<n>> \o r) = Len(list) /\ (<<n>> \o r)[1] = n
    <2> DEFINE q == <<n>> \o r
               p == [j \in 1..Len(list) |-> IF j = 1 THEN i ELSE IF j <= i THEN j - 1 ELSE j]
    <2>0. /\ q \in Seq(NodeT) /\ Len(q) = Len(list)
          /\ \A j \in 1..Len(list) : q[j] = IF j = 1 THEN n ELSE r[j - 1]
      BY <1>0, <1>00, PrependProps
    <2> HIDE DEF q
    <2>00. DOMAIN q = 1..Len(list) /\ 1 \in DOMAIN q
      BY <2>0, <1>0
    <2>1. p \in [DOMAIN q -> DOMAIN list]
      BY <1>0, <2>00
    <2>2. \A j, k \in DOMAIN q : p[j] = p[k] => j = k
      BY <1>0, <2>00
    <2>3. ASSUME Alike(n, list[i]), NEW k \in DOMAIN q PROVE Alike(q[k], list[p[k]])
      <3>1. CASE k = 1
        BY <3>1, <2>3, <2>0, <2>00
      <3>2. CASE k # 1
        <4>1. k - 1 \in 1..Len(list) - 1 /\ q[k] = r[k - 1] /\ (k - 1) + 1 = k
          BY <3>2, <2>0, <2>00
        <4>2. q[k] = list[p[k]]
          BY <4>1, <3>2, <1>0, <2>00
        <4> QED BY <4>2 DEF Alike
      <3> QED BY <3>1, <3>2
    <2> HIDE DEF p
    <2> QED BY <2>0, <2>00, <2>1, <2>2, <2>3 DEF MadeOf, q
  <1> QED BY <1>1, <1>2 DEF r

-----------------------------------------------------------------------------
(* What the operations do to the list.                                     *)

\* A stream is found: its node goes to the front.
LEMMA FoundOne ==
    ASSUME StreamsInv, NEW name, NEW type, Hits(name, type) # {}
    PROVE  /\ First(Hits(name, type)) \in DOMAIN file_list
           /\ First(Hits(name, type)) \in Hits(name, type)
           /\ MadeOf(FoundList(First(Hits(name, type))), file_list)
           /\ Len(FoundList(First(Hits(name, type)))) = Len(file_list)
           /\ FoundList(First(Hits(name, type)))[1] = file_list[First(Hits(name, type))]
  <1>1. Hits(name, type) \subseteq DOMAIN file_list /\ DOMAIN file_list = 1..Len(file_list)
    BY DEF Hits, StreamsInv, Typed
  <1>2. First(Hits(name, type)) \in Hits(name, type)
    BY <1>1, FirstIn
  <1> DEFINE i == First(Hits(name, type))
  <1>3. i \in DOMAIN file_list /\ file_list \in Seq(NodeT)
    BY <1>1, <1>2 DEF StreamsInv, Typed
  <1> HIDE DEF i
  <1>4. file_list[i] \in NodeT /\ Alike(file_list[i], file_list[i])
    BY <1>3 DEF Alike
  <1>5. FoundList(i) = <<file_list[i]>> \o RemoveAt(file_list, i)
    BY DEF FoundList
  <1>6. /\ MadeOf(FoundList(i), file_list) /\ Len(FoundList(i)) = Len(file_list)
        /\ FoundList(i)[1] = file_list[i]
    BY <1>3, <1>4, <1>5, Leaves
  <1> QED BY <1>2, <1>3, <1>6 DEF i

\* close() takes the first node of a name from the list.
LEMMA NamedOne ==
    ASSUME StreamsInv, NEW name, Named(name) # {}
    PROVE  /\ First(Named(name)) \in DOMAIN file_list
           /\ MadeOf(Freed(First(Named(name))), file_list)
  <1>1. Named(name) \subseteq DOMAIN file_list /\ DOMAIN file_list = 1..Len(file_list)
    BY DEF Named, StreamsInv, Typed
  <1>2. First(Named(name)) \in Named(name)
    BY <1>1, FirstIn
  <1> QED BY <1>1, <1>2, Leaves DEF Freed, StreamsInv, Typed

\* print and getline: the stream is the first of the list, and no other was
\* closed or lost.
LEMMA FileFind ==
    ASSUME StreamsInv, Idle, NEW name \in Names, NEW type \in Kinds, file_find(name, type)
    PROVE  /\ file_list' \in Seq(NodeT) /\ Len(file_list') > 0
           /\ file_list'[1].id <= last'
           /\ last' \in Nat /\ last' >= last
           /\ DOMAIN procs' \subseteq 3..last' /\ procs' \in [DOMAIN procs' -> ProcT]
           /\ \A s \in DOMAIN procs' : procs'[s].pid \in used'
           /\ ListOK(file_list', procs', last')
           /\ \A i \in DOMAIN file_list' : file_list'[i].id \notin closed
  <1>0. \A i \in DOMAIN file_list : file_list[i].id \notin closed
    BY DEF Idle, NoneClosed, Doing, StreamsInv
  <1>1. CASE Find(name, type)
    <2>1. MadeOf(file_list', file_list) /\ Len(file_list') = Len(file_list)
          /\ UNCHANGED <<procs, used, last>> /\ Len(file_list) > 0
      BY <1>1, FoundOne DEF Find, StreamsInv, Typed
    <2>2. ListOK(file_list', procs', last')
      BY <2>1, MadeOfOK DEF StreamsInv
    <2>3. \A i \in DOMAIN file_list' : file_list'[i].id \notin closed
      <3> SUFFICES ASSUME NEW i \in DOMAIN file_list' PROVE file_list'[i].id \notin closed
        OBVIOUS
      <3>1. PICK j \in DOMAIN file_list : Alike(file_list'[i], file_list[j])
        BY <2>1, MadeOfIn
      <3> QED BY <1>0, <3>1 DEF Alike
    <2>4. file_list' \in Seq(NodeT)
      BY <2>1 DEF MadeOf
    <2>5. 1 \in DOMAIN file_list'
      BY <2>1, <2>4
    <2> QED BY <2>1, <2>2, <2>3, <2>4, <2>5 DEF StreamsInv, Typed, ListOK, NodeOK
  <1>2. CASE Open(name, type)
    <2>0. Kinds \subseteq Types /\ Pids \subseteq Nat \ {0}
      BY FilesAssumption DEF Types
    <2>1. PICK pid \in Nat :
             /\ file_list' = OpenedList(name, type, pid)
             /\ IF type \in Pipes THEN pid \in Pids /\ Fork(pid)
                ELSE pid = NoPid /\ UNCHANGED <<procs, used>>
      BY <1>2, <2>0 DEF Open, NoPid
    <2>2. last' = last + 1 /\ last \in Nat /\ file_list \in Seq(NodeT) /\ Hits(name, type) = {}
      BY <1>2 DEF Open, StreamsInv, Typed
    <2> DEFINE n == Node(last + 1, name, type, pid)
    <2>3. n \in NodeT /\ n.id = last + 1 /\ n.name = name /\ n.type = type /\ n.pid = pid /\ n.ptr = "open"
      BY <2>0, <2>2 DEF NodeT, Node, Titles
    <2> HIDE DEF n
    <2>4. /\ file_list' \in Seq(NodeT) /\ Len(file_list') = Len(file_list) + 1
          /\ \A j \in 1..Len(file_list) + 1 : file_list'[j] = IF j = 1 THEN n ELSE file_list[j - 1]
      BY <2>1, <2>2, <2>3, PrependProps DEF OpenedList, n
    <2>5. DOMAIN file_list' = 1..Len(file_list) + 1 /\ file_list'[1] = n
      BY <2>4, <2>2
    <2>6. /\ DOMAIN procs' \subseteq 3..last' /\ procs' \in [DOMAIN procs' -> ProcT]
          /\ \A s \in DOMAIN procs' : procs'[s].pid \in used'
          /\ DOMAIN procs' = IF type \in Pipes THEN DOMAIN procs \cup {last + 1} ELSE DOMAIN procs
          /\ \A s \in DOMAIN procs : procs'[s] = procs[s]
          /\ type \in Pipes => procs'[last + 1].pid = pid
          /\ last + 1 \notin DOMAIN procs
      <3>1. CASE type \in Pipes
        <4>0. /\ DOMAIN procs \subseteq 3..last /\ procs \in [DOMAIN procs -> ProcT]
              /\ \A s \in DOMAIN procs : procs[s].pid \in used
              /\ last >= 2
          BY DEF StreamsInv, Typed
        <4> DEFINE new == [pid |-> pid, st |-> "run", status |-> 0, quiet |-> FALSE]
        <4>1. new \in ProcT /\ new.pid = pid
          BY <3>1, <2>1 DEF ProcT, Marks
        <4> HIDE DEF new
        <4>2. /\ procs' = [s \in DOMAIN procs \cup {last + 1} |->
                             IF s = last + 1 THEN new ELSE procs[s]]
              /\ used' = used \cup {pid}
          BY <3>1, <2>1 DEF Fork, new
        <4>3. last + 1 \notin DOMAIN procs /\ last + 1 \in 3..last + 1
          BY <4>0, <2>2
        <4>4. DOMAIN procs' = DOMAIN procs \cup {last + 1} /\ procs'[last + 1] = new
              /\ \A s \in DOMAIN procs : procs'[s] = procs[s]
          BY <4>2, <4>3
        <4>5. procs' \in [DOMAIN procs' -> ProcT]
          BY <4>0, <4>1, <4>2, <4>4
        <4> QED BY <3>1, <4>0, <4>1, <4>2, <4>3, <4>4, <4>5, <2>2
      <3>2. CASE type \notin Pipes
        BY <3>2, <2>1, <2>2 DEF StreamsInv, Typed
      <3> QED BY <3>1, <3>2
    <2>7. \A i \in DOMAIN file_list : /\ NodeOK(file_list[i], procs', last')
                                      /\ Apart(file_list[i], n) /\ Apart(n, file_list[i])
                                      /\ file_list[i].id \notin closed
                                      /\ file_list[i].id <= last
      <3> SUFFICES ASSUME NEW i \in DOMAIN file_list
                   PROVE  /\ NodeOK(file_list[i], procs', last')
                          /\ Apart(file_list[i], n) /\ Apart(n, file_list[i])
                          /\ file_list[i].id \notin closed /\ file_list[i].id <= last
        OBVIOUS
      <3>1. NodeOK(file_list[i], procs, last) /\ file_list[i] \in NodeT
        BY <2>2 DEF StreamsInv, ListOK
      <3>2. file_list[i].id # last + 1 /\ file_list[i].id <= last
        BY <3>1, <2>2 DEF NodeOK, NodeT
      <3>3. NodeOK(file_list[i], procs', last')
        BY <3>1, <3>2, <2>2, <2>6 DEF NodeOK, NodeT
      <3>4. Apart(file_list[i], n) /\ Apart(n, file_list[i])
        BY <3>2, <2>2, <2>3 DEF Hits, Apart, Same
      <3> QED BY <1>0, <3>2, <3>3, <3>4 DEF StreamsInv
    <2>8. NodeOK(n, procs', last') /\ n.id \notin closed
      BY <2>1, <2>2, <2>3, <2>6 DEF NodeOK, StreamsInv, Typed
    <2>9. ListOK(file_list', procs', last')
      <3>1. \A j \in DOMAIN file_list' : file_list'[j] = n \/ \E i \in DOMAIN file_list : i = j - 1 /\ file_list'[j] = file_list[i]
        BY <2>4, <2>5, <2>2
      <3>2. \A j \in DOMAIN file_list' : NodeOK(file_list'[j], procs', last')
        BY <3>1, <2>7, <2>8
      <3>3. ASSUME NEW i \in DOMAIN file_list', NEW j \in DOMAIN file_list', i # j
            PROVE  Apart(file_list'[i], file_list'[j])
        <4>0. \A k, m \in DOMAIN file_list : k # m => Apart(file_list[k], file_list[m])
          BY DEF StreamsInv, ListOK
        <4>1. CASE i = 1
          <5>1. j - 1 \in DOMAIN file_list /\ file_list'[j] = file_list[j - 1] /\ file_list'[i] = n
            BY <4>1, <3>3, <2>4, <2>5, <2>2
          <5> QED BY <5>1, <2>7
        <4>2. CASE j = 1
          <5>1. i - 1 \in DOMAIN file_list /\ file_list'[i] = file_list[i - 1] /\ file_list'[j] = n
            BY <4>2, <3>3, <2>4, <2>5, <2>2
          <5> QED BY <5>1, <2>7
        <4>3. CASE i # 1 /\ j # 1
          <5>1. /\ i - 1 \in DOMAIN file_list /\ file_list'[i] = file_list[i - 1]
                /\ j - 1 \in DOMAIN file_list /\ file_list'[j] = file_list[j - 1]
                /\ i - 1 # j - 1
            BY <4>3, <3>3, <2>4, <2>5, <2>2
          <5> QED BY <5>1, <4>0
        <4> QED BY <4>1, <4>2, <4>3
      <3> QED BY <3>2, <3>3 DEF ListOK
    <2>10. \A i \in DOMAIN file_list' : file_list'[i].id \notin closed
      <3>1. \A j \in DOMAIN file_list' : file_list'[j] = n \/ \E i \in DOMAIN file_list : file_list'[j] = file_list[i]
        BY <2>4, <2>5, <2>2
      <3> QED BY <3>1, <2>7, <2>8
    <2> QED BY <2>2, <2>3, <2>4, <2>5, <2>6, <2>9, <2>10
  <1> QED BY <1>1, <1>2 DEF file_find

-----------------------------------------------------------------------------
(* The invariant of the streams.                                           *)

\* The standard streams are three streams with names of their own (set_stdio).
LEMMA StreamsInit == ASSUME Init PROVE StreamsInv
  <1> DEFINE n == [Node(0, Stdin, "F_IN", NoPid) EXCEPT !.ptr = "null"]
             m == Node(1, Stdout, "F_TRUNC", NoPid)
             e == Node(2, Stderr, "F_TRUNC", NoPid)
  <1>1. n \in NodeT /\ m \in NodeT /\ e \in NodeT
    BY DEF NodeT, Node, Titles, Types, NoPid
  <1>2. /\ n.id = 0 /\ m.id = 1 /\ e.id = 2 /\ n.ptr = "null"
        /\ m.name = Stdout /\ e.name = Stderr /\ n.pid = 0 /\ m.pid = 0 /\ e.pid = 0
        /\ n.type = "F_IN" /\ m.type = "F_TRUNC" /\ e.type = "F_TRUNC"
    BY DEF Node, NoPid
  <1>3. Stdout # Stderr
    <2> SUFFICES ASSUME Stdout = Stderr PROVE FALSE
      OBVIOUS
    <2>1. Cardinality({Stdin, Stdout, Stderr}) <= 2
      <3>1. IsFiniteSet({Stdin}) /\ Cardinality({Stdin}) = 1
        BY FS_Singleton
      <3>2. Cardinality({Stdin} \cup {Stdout}) <= 2
        BY <3>1, FS_AddElement
      <3>3. {Stdin} \cup {Stdout} = {Stdin, Stdout, Stderr}
        OBVIOUS
      <3> QED BY <3>2, <3>3
    <2> QED BY <2>1, FilesAssumption
  <1> HIDE DEF n, m, e
  <1>4. file_list = <<n, m, e>>
    BY DEF Init, n, m, e
  <1>5. /\ file_list \in Seq(NodeT) /\ DOMAIN file_list = 1..3
        /\ file_list[1] = n /\ file_list[2] = m /\ file_list[3] = e
    BY <1>1, <1>4
  <1>6. procs = <<>> /\ DOMAIN procs = {} /\ procs \in [DOMAIN procs -> ProcT]
    BY DEF Init
  <1>7. ListOK(file_list, procs, last)
    BY <1>2, <1>3, <1>5, <1>6 DEF Init, ListOK, NodeOK, Apart, Pipes, NoPid, Same
  <1>8. Typed
    BY <1>5, <1>6 DEF Init, Typed, OpT, Runs, OutT, Nothing
  <1> QED BY <1>7, <1>8 DEF Init, StreamsInv, NoneClosed, Doing, WaitOK

\* Steps that leave the list and the processes alone.
LEMMA StreamsKept ==
    ASSUME StreamsInv, UNCHANGED <<file_list, procs, used, closed, last>>,
           child_list' \in Seq(ChildT), dirty' \subseteq 0..last,
           op' \in Runs \cup Closes \cup Exits \cup Gones,
           op'.do \in {"run", "close"} => Doing.do \in {"run", "close"},
           out' \in OutT, out' # Nothing => out'[2] <= last,
           fault' \in {"none", "twice", "closed", "null", "bozo"}
    PROVE  StreamsInv'
  <1>1. op' \in OpT /\ op'.do # "wait"
    BY DEF OpT, Runs, Closes, Exits, Gones
  <1>2. Typed'
    BY <1>1 DEF StreamsInv, Typed
  <1>3. NoneClosed'
    BY <1>1 DEF StreamsInv, NoneClosed, Doing
  <1> QED BY <1>1, <1>2, <1>3 DEF StreamsInv, WaitOK

\* Steps that change the processes but neither add one nor renumber them.
SameProcs(ps, qs) == /\ DOMAIN ps = DOMAIN qs /\ \A s \in DOMAIN qs : ps[s].pid = qs[s].pid

\* Such a step changes no stream.
LEMMA ProcsKept ==
    ASSUME StreamsInv, UNCHANGED <<file_list, used, closed, last, dirty, fault>>,
           SameProcs(procs', procs), procs' \in [DOMAIN procs' -> ProcT],
           child_list' \in Seq(ChildT),
           \/ UNCHANGED <<op, out>>
           \/ op.do = "wait" /\ op' = op.then /\ out' \in OutT /\ (out' # Nothing => out'[2] <= last)
    PROVE  StreamsInv'
  <1>1. op.do = "wait" => op.then \in OpT /\ op.then.do # "wait" /\ op \in Waits
    BY DEF StreamsInv, Typed, OpT, Runs, Closes, Exits, Gones, Waits
  <1>2. Typed'
    BY <1>1 DEF StreamsInv, Typed, SameProcs
  <1>3. ListOK(file_list', procs', last')
    BY DEF StreamsInv, ListOK, NodeOK, SameProcs
  <1>4. Doing' = Doing
    BY <1>1 DEF Doing
  <1>5. NoneClosed'
    BY <1>4 DEF StreamsInv, NoneClosed
  <1>6. WaitOK'
    BY <1>1 DEF StreamsInv, WaitOK, SameProcs
  <1> QED BY <1>2, <1>3, <1>5, <1>6 DEF StreamsInv

\* print and getline on a stream that is there or is opened.
LEMMA PrintStreams ==
    ASSUME StreamsInv, NEW name \in Names, NEW type \in Kinds,
           PrintTo(name, type) \/ GetRecord(name, type)
    PROVE  StreamsInv'
  <1>1. /\ Idle /\ file_find(name, type) /\ UNCHANGED <<child_list, closed, op, fault>>
        /\ out' = Nothing /\ dirty' \subseteq dirty \cup {1, 2, file_list'[1].id}
    BY DEF PrintTo, GetRecord
  <1>2. /\ file_list' \in Seq(NodeT) /\ Len(file_list') > 0
        /\ file_list'[1].id <= last'
        /\ last' \in Nat /\ last' >= last
        /\ DOMAIN procs' \subseteq 3..last' /\ procs' \in [DOMAIN procs' -> ProcT]
        /\ \A s \in DOMAIN procs' : procs'[s].pid \in used'
        /\ ListOK(file_list', procs', last')
        /\ \A i \in DOMAIN file_list' : file_list'[i].id \notin closed
    BY <1>1, FileFind
  <1>3. file_list'[1].id \in 0..last'
    <2>1. file_list'[1] \in NodeT
      BY <1>2
    <2> QED BY <2>1, <1>2 DEF NodeT
  <1>4. Typed'
    BY <1>1, <1>2, <1>3 DEF StreamsInv, Typed, OutT
  <1>5. op' = [do |-> "run"] /\ op'.do = "run"
    BY <1>1 DEF Idle
  <1> QED BY <1>1, <1>2, <1>4, <1>5 DEF StreamsInv, NoneClosed, Doing, WaitOK

\* getline at the end of a stream keeps its node, half closed.
LEMMA GetEofStreams ==
    ASSUME StreamsInv, NEW name \in Names, NEW type \in Kinds, GetEof(name, type)
    PROVE  StreamsInv'
  <1> DEFINE i == First(Hits(name, type))
             n == file_list[i]
             e == [n EXCEPT !.ptr = "semi"]
  <1>1. i \in DOMAIN file_list /\ i \in Hits(name, type)
    BY FoundOne DEF GetEof
  <1>2. n \in NodeT /\ n.ptr # "null" /\ n.id <= last /\ n.id \notin closed /\ Idle
    <2>1. n \in NodeT
      BY <1>1 DEF StreamsInv, Typed
    <2>2. n.ptr # "null"
      BY <1>1 DEF Hits
    <2>3. n.id <= last
      BY <1>1 DEF StreamsInv, ListOK, NodeOK
    <2>4. Idle
      BY DEF GetEof
    <2>5. Doing.do = "run"
      BY <2>4 DEF Idle, Doing
    <2>6. n.id \notin closed
      BY <1>1, <2>5 DEF StreamsInv, NoneClosed
    <2> QED BY <2>1, <2>2, <2>3, <2>4, <2>6
  <1> HIDE DEF i
  <1>3. e \in NodeT /\ Alike(e, n) /\ e.id = n.id
    BY <1>2 DEF NodeT, Alike
  <1>4. /\ file_list' = <<e>> \o RemoveAt(file_list, i)
        /\ \/ op' = [do |-> "wait", pid |-> 0, id |-> n.id, then |-> [do |-> "run"],
                      what |-> "getline"] /\ UNCHANGED out
           \/ out' = Nothing /\ UNCHANGED op
        /\ UNCHANGED <<child_list, procs, used, dirty, closed, last, fault>>
    BY DEF GetEof, i
  <1> HIDE DEF n, e
  <1>5. MadeOf(file_list', file_list)
    BY <1>1, <1>3, <1>4, Leaves DEF n, StreamsInv, Typed
  <1>6. ListOK(file_list', procs', last') /\ file_list' \in Seq(NodeT)
    BY <1>4, <1>5, MadeOfOK DEF StreamsInv, MadeOf
  <1>7. \A k \in DOMAIN file_list' : file_list'[k].id \notin closed
    <2> SUFFICES ASSUME NEW k \in DOMAIN file_list' PROVE file_list'[k].id \notin closed
      OBVIOUS
    <2>1. PICK j \in DOMAIN file_list : Alike(file_list'[k], file_list[j])
      BY <1>5, MadeOfIn
    <2>2. file_list[j].id \notin closed
      BY <1>2 DEF Idle, NoneClosed, Doing, StreamsInv
    <2> QED BY <2>1, <2>2 DEF Alike
  <1>8. op' \in OpT /\ (op'.do = "wait" => op'.id <= last /\ op'.what = "getline" /\ op'.pid = 0 /\ op'.then.do = "run")
    <2>1. CASE op' = [do |-> "wait", pid |-> 0, id |-> n.id, then |-> [do |-> "run"], what |-> "getline"]
      <3>1. op' \in Waits
        BY <2>1, <1>2 DEF Waits, Runs, NodeT
      <3> QED BY <2>1, <3>1, <1>2 DEF OpT
    <2>2. CASE UNCHANGED op
      BY <2>2, <1>2 DEF Idle, OpT, Runs
    <2> QED BY <1>4, <2>1, <2>2
  <1>9. Typed'
    BY <1>4, <1>6, <1>8 DEF StreamsInv, Typed, OutT
  <1>10. WaitOK'
    BY <1>4, <1>8 DEF WaitOK
  <1> QED BY <1>4, <1>6, <1>7, <1>9, <1>10 DEF StreamsInv, NoneClosed

\* When a wait is over mawk goes on with what it waited for.
LEMMA DoneTyped ==
    ASSUME StreamsInv, Waiting, NEW status \in Marks, Done(status)
    PROVE  /\ op.do = "wait" /\ op' = op.then
           /\ out' \in OutT /\ out' # Nothing /\ out'[2] <= last
  <1>1. op \in Waits
    BY DEF Waiting, StreamsInv, Typed, OpT, Runs, Closes, Exits, Gones, Waits
  <1>2. out' = <<op.what, op.id, status>> /\ op.id <= last
    BY DEF Done, Waiting, StreamsInv, WaitOK
  <1> QED BY <1>1, <1>2 DEF Done, Waiting, OutT, Waits, Nothing

\* A wait changes no stream, whichever process it brings.
LEMMA WaitStreams == ASSUME StreamsInv, Wait PROVE StreamsInv'
  <1>0. child_list \in Seq(ChildT) /\ 0 \in Marks /\ procs \in [DOMAIN procs -> ProcT]
    BY DEF StreamsInv, Typed, Marks
  <1>1. CASE WaitRemembered
    <2>1. Remembered \subseteq DOMAIN child_list /\ Remembered # {} /\ DOMAIN child_list = 1..Len(child_list)
      BY <1>0, <1>1 DEF WaitRemembered, Remembered
    <2>2. PICK i \in 1..Len(child_list) :
             /\ Waiting /\ Done(child_list[i][2]) /\ child_list' = RemoveAt(child_list, i)
             /\ UNCHANGED <<file_list, procs, used, dirty, closed, last, fault>>
      BY <1>1, <2>1, FirstIn DEF WaitRemembered
    <2>3. child_list' \in Seq(ChildT) /\ child_list[i][2] \in Marks
      BY <2>2, <1>0, RemoveAtProps DEF ChildT
    <2> QED BY <1>0, <2>2, <2>3, DoneTyped, ProcsKept DEF SameProcs
  <1>2. CASE WaitNobody
    <2>1. Waiting /\ UNCHANGED <<file_list, procs, used, dirty, closed, last>>
      BY <1>2 DEF WaitNobody
    <2>2. CASE op.pid = 0
      <3> DEFINE junk == <<JunkPid, 0>>
      <3>1. /\ Done(0) /\ UNCHANGED fault
            /\ child_list' = child_list \/ child_list' = <<junk>> \o child_list
        BY <1>2, <2>2 DEF WaitNobody
      <3>2. junk \in ChildT
        BY <1>0 DEF ChildT
      <3> HIDE DEF junk
      <3>3. child_list' \in Seq(ChildT)
        <4>1. child_list \in Seq(ChildT)
          BY <1>0
        <4>2. <<junk>> \o child_list \in Seq(ChildT)
          BY <3>2, <4>1, PrependProps
        <4> QED BY <3>1, <4>1, <4>2
      <3> QED BY <1>0, <2>1, <3>1, <3>3, DoneTyped, ProcsKept DEF SameProcs
    <2>3. CASE op.pid # 0
      <3>1. fault' = "bozo" /\ UNCHANGED <<op, out, child_list>>
        BY <1>2, <2>3 DEF WaitNobody
      <3> QED BY <2>1, <3>1 DEF StreamsInv, Typed, NoneClosed, Doing, WaitOK
    <2> QED BY <2>2, <2>3
  <1>3. ASSUME NEW s \in DOMAIN procs, WaitReaps(s) PROVE StreamsInv'
    <2>1. /\ Waiting /\ procs' = [procs EXCEPT ![s].st = "reaped"]
          /\ UNCHANGED <<file_list, used, dirty, closed, last, fault>>
          /\ \/ Done(procs[s].status) /\ UNCHANGED child_list
             \/ /\ child_list' = <<<<procs[s].pid, procs[s].status>>>> \o child_list
                /\ Done(0) \/ UNCHANGED <<op, out>>
      BY <1>3 DEF WaitReaps, add_to_child_list
    <2>2. procs[s] \in ProcT
      BY <1>0
    <2>3. procs[s].status \in Marks /\ <<procs[s].pid, procs[s].status>> \in ChildT
      BY <2>2 DEF ProcT, ChildT
    <2>4. child_list' \in Seq(ChildT)
      <3> DEFINE mark == <<procs[s].pid, procs[s].status>>
      <3>1. child_list \in Seq(ChildT) /\ mark \in ChildT
        BY <1>0, <2>3
      <3>2. child_list' = child_list \/ child_list' = <<mark>> \o child_list
        BY <2>1
      <3> HIDE DEF mark
      <3>3. <<mark>> \o child_list \in Seq(ChildT)
        BY <3>1, PrependProps
      <3> QED BY <3>1, <3>2, <3>3
    <2>5. SameProcs(procs', procs) /\ procs' \in [DOMAIN procs' -> ProcT]
      BY <1>0, <2>1, <2>2 DEF SameProcs, ProcT
    <2> QED BY <1>0, <2>1, <2>3, <2>4, <2>5, DoneTyped, ProcsKept
  <1> QED BY <1>1, <1>2, <1>3 DEF Wait

\* close() leaves no node of the stream that it closes.
LEMMA CloseStreams ==
    ASSUME StreamsInv, CloseNode \/ CloseFails \/ CloseReturns PROVE StreamsInv'
  <1>1. CASE CloseReturns
    BY <1>1, StreamsKept DEF CloseReturns, Closing, Doing, Runs, StreamsInv, Typed
  <1> DEFINE i == First(Named(op.name))
             n == file_list[i]
  <1>2. CASE Named(op.name) # {} /\ (CloseNode \/ CloseFails)
    <2>1. i \in DOMAIN file_list /\ MadeOf(RemoveAt(file_list, i), file_list)
      BY <1>2, NamedOne DEF Freed
    <2> HIDE DEF i
    <2>2. /\ op.do = "close" /\ op \in Closes /\ fault = "none"
          /\ n \in NodeT /\ n.id \in 0..last /\ n.id \notin closed
          /\ NodeOK(n, procs, last)
      <3>1. op.do = "close" /\ op \in Closes /\ fault = "none"
        BY <1>2 DEF CloseNode, CloseFails, Closing, StreamsInv, Typed, OpT, Runs, Closes,
                    Exits, Gones, Waits
      <3>2. n \in NodeT /\ NodeOK(n, procs, last) /\ last \in Nat
        BY <2>1 DEF StreamsInv, Typed, ListOK
      <3>3. n.id \notin closed
        BY <3>1, <2>1 DEF StreamsInv, NoneClosed, Doing
      <3>4. n.id \in 0..last
        BY <3>2 DEF NodeOK, NodeT
      <3> QED BY <3>1, <3>2, <3>3, <3>4
    <2>3. CASE CloseNode /\ n.ptr = "null"
      <3>1. fault' = "null" /\ UNCHANGED <<file_list, dirty, closed, op, out, child_list, procs, used, last>>
        BY <2>3 DEF CloseNode, i
      <3> QED BY <3>1 DEF StreamsInv, Typed, NoneClosed, Doing, WaitOK
    <2> DEFINE Waited == [do |-> "wait", pid |-> n.pid, id |-> n.id, then |-> op, what |-> "close"]
    <2>4. CASE (CloseNode /\ n.ptr # "null") \/ CloseFails
      <3>1. /\ file_list' = RemoveAt(file_list, i)
            /\ closed' = closed \cup {n.id} /\ dirty' = dirty \ {n.id}
            /\ UNCHANGED <<child_list, procs, used, last, fault>>
            /\ \/ n.type \in Pipes /\ op' = Waited /\ UNCHANGED out
               \/ out' = <<"close", n.id, 0>> /\ UNCHANGED op
               \/ op' = [do |-> "exit", at |-> 1] /\ UNCHANGED out
        BY <2>4 DEF CloseNode, CloseFails, Closed, Freed, Exit, i
      <3>2. ListOK(file_list', procs', last') /\ file_list' \in Seq(NodeT)
        BY <2>1, <3>1, MadeOfOK DEF StreamsInv, MadeOf
      <3>3. /\ op' \in OpT /\ Doing'.do \in {"close", "exit"}
            /\ op'.do = "wait" => n.type \in Pipes /\ op' = Waited
        <4>1. CASE n.type \in Pipes /\ op' = Waited
          <5>1. op' \in Waits
            BY <4>1, <2>2 DEF Waits, NodeT
          <5> QED BY <4>1, <5>1, <2>2 DEF OpT, Doing
        <4>2. CASE UNCHANGED op
          BY <4>2, <2>2 DEF OpT, Doing
        <4>3. CASE op' = [do |-> "exit", at |-> 1]
          BY <4>3 DEF OpT, Exits, Doing
        <4> QED BY <3>1, <4>1, <4>2, <4>3
      <3>4. out' \in OutT /\ (out' # Nothing => out'[2] <= last)
        BY SMTT(30), <3>1, <2>2 DEF OutT, Marks, NodeT, StreamsInv, Typed
      <3>5. Typed'
        BY <3>1, <3>2, <3>3, <3>4, <2>2 DEF StreamsInv, Typed
      <3>6. \A k \in DOMAIN file_list' : file_list'[k].id \notin closed'
        <4> SUFFICES ASSUME NEW k \in DOMAIN file_list' PROVE file_list'[k].id \notin closed'
          OBVIOUS
        <4>1. DOMAIN file_list = 1..Len(file_list) /\ file_list \in Seq(NodeT)
          BY DEF StreamsInv, Typed
        <4>2. k \in 1..Len(file_list) - 1 /\ file_list'[k] = IF k < i THEN file_list[k] ELSE file_list[k + 1]
          <5>1. Len(file_list') = Len(file_list) - 1 /\ i \in 1..Len(file_list)
            BY <2>1, <3>1, <4>1, RemoveAtProps
          <5>2. k \in 1..Len(file_list) - 1
            BY <5>1, <3>2
          <5> QED BY <5>1, <5>2, <3>1, <4>1, RemoveAtProps
        <4>3. PICK j \in DOMAIN file_list : j # i /\ file_list'[k] = file_list[j]
          <5>1. CASE k < i
            BY <5>1, <4>1, <4>2, <2>1
          <5>2. CASE ~(k < i)
            <6>1. k + 1 \in DOMAIN file_list /\ k + 1 # i
              BY <5>2, <4>1, <4>2, <2>1
            <6> QED BY <6>1, <5>2, <4>2
          <5> QED BY <5>1, <5>2
        <4>4. file_list[j].id # n.id /\ file_list[j].id \notin closed
          BY <4>3, <2>1, <2>2 DEF StreamsInv, ListOK, Apart, NoneClosed, Doing
        <4> QED BY <4>3, <4>4, <3>1
      <3>7. WaitOK'
        <4> SUFFICES ASSUME op'.do = "wait" PROVE WaitOK'
          BY DEF WaitOK
        <4>1. n.type \in Pipes /\ op' = Waited
          BY <3>3
        <4>2. n.id \in DOMAIN procs /\ n.pid = procs[n.id].pid
          BY <4>1, <2>2 DEF NodeOK
        <4>3. n.pid # 0
          BY <4>2, FilesAssumption DEF StreamsInv, Typed, ProcT
        <4> QED BY <4>1, <4>2, <4>3, <3>1, <2>2 DEF WaitOK
      <3> QED BY <3>2, <3>5, <3>6, <3>7 DEF StreamsInv, NoneClosed
    <2> QED BY <1>2, <2>3, <2>4
  <1> QED BY <1>1, <1>2 DEF CloseNode, CloseFails

\* The walk at the exit keeps the nodes, but for one whose output fails.
LEMMA ExitStreams ==
    ASSUME StreamsInv, ExitNode \/ ExitFails \/ Exited PROVE StreamsInv'
  <1>0. op.do = "exit" /\ op \in Exits /\ op.at \in Nat \ {0} /\ fault = "none"
        /\ file_list \in Seq(NodeT) /\ DOMAIN file_list = 1..Len(file_list)
    BY DEF ExitNode, ExitFails, Exited, Exiting, StreamsInv, Typed, OpT, Runs, Closes, Exits, Gones, Waits
  <1>1. CASE Exited
    BY <1>1, StreamsKept DEF Exited, Gones, StreamsInv, Typed
  <1>2. CASE (ExitNode \/ ExitFails) /\ op.at <= Len(file_list)
    <2>1. op.at \in DOMAIN file_list /\ Here \in NodeT /\ NodeOK(Here, procs, last) /\ Here.id \in 0..last
      <3>1. op.at \in DOMAIN file_list
        BY <1>0, <1>2
      <3>2. Here \in NodeT /\ NodeOK(Here, procs, last) /\ last \in Nat
        BY <1>0, <3>1 DEF Here, StreamsInv, Typed, ListOK
      <3>3. Here.id \in 0..last
        BY <3>2 DEF NodeOK, NodeT
      <3> QED BY <3>1, <3>2, <3>3
    <2>2. CASE ExitFails
      <3>1. /\ file_list' = RemoveAt(file_list, op.at)
            /\ closed' = closed \cup {Here.id} /\ dirty' = dirty \ {Here.id}
            /\ op' = [do |-> "exit", at |-> 1]
            /\ UNCHANGED <<child_list, procs, used, last, out, fault>>
        BY <2>2 DEF ExitFails, Closed, Exit
      <3>2. ListOK(file_list', procs', last') /\ file_list' \in Seq(NodeT)
        BY <1>0, <2>1, <3>1, Leaves, MadeOfOK DEF StreamsInv, MadeOf
      <3>3. op' \in OpT /\ op'.do = "exit"
        BY <3>1 DEF OpT, Exits
      <3> QED BY <3>1, <3>2, <3>3, <2>1 DEF StreamsInv, Typed, NoneClosed, Doing, WaitOK
    <2>3. CASE ExitNode /\ ~IS_OUTPUT(Here.type)
      <3>1. op' = Onward /\ UNCHANGED <<dirty, closed, fault, file_list, child_list, procs, used, last, out>>
        BY <2>3, <1>2 DEF ExitNode
      <3>2. op' \in Exits
        BY <3>1, <1>0 DEF Onward, Exits
      <3> QED BY <3>1, <3>2, <1>0, StreamsKept DEF StreamsInv, Typed, Exits
    <2>4. CASE ExitNode /\ IS_OUTPUT(Here.type) /\ Here.id \in closed
      <3>1. fault' = "twice" /\ UNCHANGED <<dirty, closed, op, file_list, child_list, procs, used, last, out>>
        BY <2>4, <1>2 DEF ExitNode
      <3> QED BY <3>1 DEF StreamsInv, Typed, NoneClosed, Doing, WaitOK
    <2>5. CASE ExitNode /\ IS_OUTPUT(Here.type) /\ Here.id \notin closed
      <3>1. /\ closed' = closed \cup {Here.id} /\ dirty' = dirty \ {Here.id}
            /\ op' = AfterClose(Here)
            /\ UNCHANGED <<fault, file_list, child_list, procs, used, last, out>>
        BY <2>5, <1>2 DEF ExitNode, Closed
      <3>2. Onward \in Exits /\ Onward.do = "exit"
        BY <1>0 DEF Onward, Exits
      <3> DEFINE Waited == [do |-> "wait", pid |-> Here.pid, id |-> Here.id, then |-> Onward, what |-> "exit"]
      <3>3. CASE Here.type = "PIPE_OUT"
        <4>1. op' = Waited
          BY <3>1, <3>3 DEF AfterClose
        <4>2. op' \in Waits
          BY <4>1, <3>2, <2>1 DEF Waits, NodeT
        <4>3. Here.id \in DOMAIN procs /\ Here.pid = procs[Here.id].pid
          BY <3>3, <2>1 DEF NodeOK, Pipes
        <4>4. Here.pid # 0
          BY <4>3, FilesAssumption DEF StreamsInv, Typed, ProcT
        <4>5. \A i \in DOMAIN file_list : file_list[i].id = Here.id => file_list[i].type = "PIPE_OUT"
          BY <2>1, <3>3 DEF Here, StreamsInv, ListOK, Apart
        <4>6. WaitOK'
          BY <4>1, <4>3, <4>4, <4>5, <3>1, <3>2, <2>1 DEF WaitOK
        <4>7. Typed'
          BY <4>2, <3>1, <2>1 DEF StreamsInv, Typed, OpT
        <4>8. Doing' = Onward
          BY <4>1 DEF Doing
        <4> QED BY <4>6, <4>7, <4>8, <3>1, <3>2 DEF StreamsInv, NoneClosed
      <3>4. CASE Here.type # "PIPE_OUT"
        <4>1. op' = Onward
          BY <3>1, <3>4 DEF AfterClose
        <4> QED BY <4>1, <3>1, <3>2, <2>1 DEF StreamsInv, Typed, NoneClosed, Doing, WaitOK, OpT
      <3> QED BY <3>3, <3>4
    <2> QED BY <1>2, <2>2, <2>3, <2>4, <2>5
  <1> QED BY <1>1, <1>2 DEF ExitNode, ExitFails

\* What the children do changes no stream.
LEMMA ChildStreams == ASSUME StreamsInv, Child PROVE StreamsInv'
  <1>1. PICK s \in DOMAIN procs : ChildQuiet(s) \/ ChildExits(s)
    BY DEF Child
  <1>2. procs \in [DOMAIN procs -> ProcT] /\ procs[s] \in ProcT /\ child_list \in Seq(ChildT)
    BY DEF StreamsInv, Typed
  <1>3. SameProcs(procs', procs) /\ procs' \in [DOMAIN procs' -> ProcT] /\ ChildUnchanged
    <2>1. CASE ChildQuiet(s)
      BY <2>1, <1>2 DEF ChildQuiet, SameProcs, ProcT
    <2>2. CASE ChildExits(s)
      BY SMTT(30), <2>2, <1>2 DEF ChildExits, SameProcs, ProcT, Marks
    <2> QED BY <1>1, <2>1, <2>2
  <1> QED BY <1>2, <1>3, ProcsKept DEF ChildUnchanged

\* Every step of mawk and of its children keeps the list of streams.
LEMMA StreamsStep == ASSUME StreamsInv, [Next]_vars PROVE StreamsInv'
  <1>0. Typed /\ 0 \in Nat /\ (Idle => op \in Runs /\ Doing.do = "run")
    BY DEF StreamsInv, Idle, Runs, Doing
  <1>1. ASSUME NEW name \in Names, NEW type \in Kinds,
               \/ PrintTo(name, type) \/ GetRecord(name, type) \/ GetEof(name, type)
               \/ OpenFails(name, type) \/ PipeFlushesClosed(name, type)
        PROVE  StreamsInv'
    <2>1. CASE OpenFails(name, type)
      <3>1. UNCHANGED <<file_list, child_list, procs, used, closed, last, fault>> /\ dirty' \subseteq dirty
        BY <2>1 DEF OpenFails
      <3>2. Idle /\ (op' = [do |-> "exit", at |-> 1] \/ op' = op) /\ (out' = out \/ out' = Nothing)
        BY <2>1 DEF OpenFails
      <3>3. op' \in Runs \cup Exits
        BY <3>2, <1>0 DEF Exits
      <3> QED BY <1>0, <3>1, <3>2, <3>3, StreamsKept DEF Typed, OutT, Nothing
    <2>2. CASE PipeFlushesClosed(name, type)
      BY <2>2, <1>0, StreamsKept DEF PipeFlushesClosed, Typed
    <2> QED BY <1>1, <2>1, <2>2, PrintStreams, GetEofStreams
  <1>2. ASSUME NEW name \in Names, StartClose(name) \/ file_flush(name) PROVE StreamsInv'
    <2>1. CASE StartClose(name)
      <3>1. op' \in Closes /\ out' = Nothing /\ Idle
        BY <2>1 DEF StartClose, Closes, Titles
      <3> QED BY <2>1, <3>1, <1>0, StreamsKept DEF StartClose, Typed, OutT
    <2>2. CASE file_flush(name)
      <3>1. /\ Idle /\ dirty' \subseteq dirty /\ out' = Nothing
            /\ UNCHANGED <<file_list, child_list, procs, used, closed, op, last, fault>>
        BY <2>2 DEF file_flush, Flush
      <3> QED BY <3>1, <1>0, StreamsKept DEF Typed, OutT
    <2> QED BY <1>2, <2>1, <2>2
  <1>3. CASE PrintStdout \/ FlushStdout
    <2>1. PICK d \in {dirty \cup {1}, dirty \ {1}} : OnStdout(d)
      BY <1>3 DEF PrintStdout, FlushStdout
    <2>2. /\ Idle /\ UNCHANGED <<file_list, child_list, procs, used, closed, op, last>>
          /\ fault' \in {fault, "closed"} /\ dirty' \in {dirty, d} /\ out' \in {out, Nothing}
      BY <2>1 DEF OnStdout
    <2>3. dirty' \subseteq 0..last
      BY <1>0, <2>1, <2>2 DEF Typed
    <2> QED BY <2>2, <2>3, <1>0, StreamsKept DEF Typed, OutT, Nothing
  <1>4. CASE flush_all_output
    <2>1. /\ Idle /\ dirty' \subseteq dirty /\ out' = Nothing
          /\ UNCHANGED <<file_list, child_list, procs, used, closed, op, last, fault>>
      BY <1>4 DEF flush_all_output, Flush
    <2> QED BY <2>1, <1>0, StreamsKept DEF Typed, OutT
  <1>5. CASE StartExit
    <2>1. op' \in Exits /\ Idle
      BY <1>5 DEF StartExit, Exit, Exits
    <2> QED BY <1>5, <2>1, <1>0, StreamsKept DEF StartExit, Typed, Exits
  <1>6. CASE Mawk \/ Errors
    BY <1>6, CloseStreams, ExitStreams, WaitStreams DEF Mawk, Errors
  <1>7. CASE Child
    BY <1>7, ChildStreams
  <1>8. CASE UNCHANGED vars
    BY <1>8 DEF vars, StreamsInv, Typed, ListOK, NoneClosed, Doing, WaitOK
  <1> QED BY <1>1, <1>2, <1>3, <1>4, <1>5, <1>6, <1>7, <1>8 DEF Next

\* The types of files.c's data, and one stream for a name and a type.
LEMMA StreamsInvImplies == ASSUME StreamsInv PROVE StreamsConsistent
  <1>1. ASSUME NEW i \in DOMAIN file_list
        PROVE  /\ file_list[i].type \in Types /\ file_list[i].id \in 0..last
               /\ file_list[i].pid \in IF file_list[i].type \in Pipes THEN Pids ELSE {NoPid}
               /\ file_list[i].ptr \in {"open", "semi", "null"}
    <2>1. file_list[i] \in NodeT /\ NodeOK(file_list[i], procs, last) /\ last \in Nat
      BY DEF StreamsInv, Typed, ListOK
    <2> QED BY <2>1 DEF NodeOK, NodeT, StreamsInv, Typed, ProcT
  <1>2. \A i \in DOMAIN child_list : child_list[i][1] \in Pids \cup {JunkPid}
    BY DEF StreamsInv, Typed, ChildT
  <1>3. op.do \in {"run", "wait", "close", "exit", "gone"}
    BY DEF StreamsInv, Typed, OpT, Runs, Closes, Exits, Gones, Waits
  <1>4. TypeOK
    BY <1>1, <1>2, <1>3 DEF StreamsInv, Typed, TypeOK
  <1>5. OneStreamPerName
    BY DEF OneStreamPerName, StreamsInv, ListOK, Apart, Same, NoneClosed, Doing
  <1> QED BY <1>4, <1>5 DEF StreamsConsistent

\* Redirection opens a file or a command only once: whatever is opened, read,
\* closed and flushed, and whichever of it fails, no two nodes of file_list
\* answer one lookup, and none but those of the walk at the exit is of a stream
\* that was closed (file_find, file_close).
THEOREM OneStream == Spec => []StreamsConsistent
  <1>1. Init => StreamsInv
    BY StreamsInit
  <1>2. StreamsInv /\ [Next]_vars => StreamsInv'
    BY StreamsStep
  <1>3. StreamsInv => StreamsConsistent
    BY StreamsInvImplies
  <1> QED BY <1>1, <1>2, <1>3, PTL DEF Spec

-----------------------------------------------------------------------------
(* The invariant of the children, when no process id is used twice.        *)

ProcsApart == \A s, t \in DOMAIN procs : procs[s].pid = procs[t].pid => s = t

\* child_list has the processes that were reaped, each once, with their statuses.
Listed ==
    /\ \A j \in DOMAIN child_list :
         child_list[j][1] # JunkPid =>
            \E s \in DOMAIN procs : /\ procs[s].pid = child_list[j][1] /\ procs[s].st = "reaped"
                                    /\ procs[s].status = child_list[j][2]
    /\ \A j, k \in DOMAIN child_list :
         child_list[j][1] = child_list[k][1] /\ child_list[j][1] # JunkPid => j = k

\* The status of s may still be asked for: its pipe is open, or mawk waits for it.
Wanted(s) == \/ \E i \in DOMAIN file_list : /\ file_list[i].id = s
                                            /\ file_list[i].type = "PIPE_IN" \/ s \notin closed
             \/ op.do = "wait" /\ op.what # "getline" /\ op.id = s
Found(s) == \E j \in DOMAIN child_list : child_list[j][1] = procs[s].pid
NoneLost == \A s \in DOMAIN procs : Wanted(s) /\ procs[s].st = "reaped" => Found(s)

\* The walk over the list at the exit, or again after an output that failed.
Through(n) == /\ n.id \in closed \ dirty
              /\ n.type = "PIPE_OUT" => procs[n.id].st = "reaped" \/ (op.do = "wait" /\ op.id = n.id)
ExitSoFar == Doing.do = "exit" => \A i \in DOMAIN file_list :
                                    i < Doing.at /\ IS_OUTPUT(file_list[i].type) => Through(file_list[i])

ChildrenInv == /\ StreamsInv /\ ProcsApart /\ Listed /\ NoneLost /\ ExitSoFar
               /\ fault # "bozo" /\ CloseGetsItsStatus /\ ExitFinishes

\* There is no child at first.
LEMMA ChildrenInit == ASSUME Init PROVE ChildrenInv
  <1>1. procs = <<>> /\ DOMAIN procs = {} /\ child_list = <<>> /\ DOMAIN child_list = {}
    BY DEF Init
  <1> QED BY <1>1, StreamsInit DEF Init, ChildrenInv, ProcsApart, Listed, NoneLost, ExitSoFar, Doing,
                                   CloseGetsItsStatus, ExitFinishes, Nothing

\* What the invariant says of a child whose pipe is open.
LEMMA ChildrenInvImplies ==
    ASSUME ChildrenInv PROVE ChildrenAccounted /\ CloseGetsItsStatus /\ ExitFinishes
  <1> SUFFICES ASSUME op.do \in {"run", "close"}, NEW i \in DOMAIN file_list,
                      file_list[i].type \in Pipes
               PROVE  LET n == file_list[i]
                          remembered == {j \in DOMAIN child_list : child_list[j][1] = n.pid}
                      IN  IF procs[n.id].st = "reaped"
                          THEN Cardinality(remembered) = 1 /\
                               \A j \in remembered : child_list[j][2] = procs[n.id].status
                          ELSE remembered = {}
    BY DEF ChildrenInv, ChildrenAccounted
  <1> DEFINE n == file_list[i]
             remembered == {j \in DOMAIN child_list : child_list[j][1] = n.pid}
  <1>1. n.id \in DOMAIN procs /\ n.pid = procs[n.id].pid /\ n.id \notin closed
    BY DEF ChildrenInv, StreamsInv, ListOK, NodeOK, NoneClosed, Doing
  <1>2. n.pid # JunkPid
    BY <1>1, FilesAssumption DEF ChildrenInv, StreamsInv, Typed, ProcT, JunkPid
  <1>3. Wanted(n.id)
    BY <1>1 DEF Wanted
  <1>4. \A j \in remembered : procs[n.id].st = "reaped" /\ child_list[j][2] = procs[n.id].status
    BY <1>1, <1>2 DEF ChildrenInv, Listed, ProcsApart
  <1>5. CASE procs[n.id].st = "reaped"
    <2>1. PICK j \in DOMAIN child_list : child_list[j][1] = n.pid
      BY <1>1, <1>3, <1>5 DEF ChildrenInv, NoneLost, Found
    <2>2. remembered = {j}
      BY <1>2, <2>1 DEF ChildrenInv, Listed
    <2>3. Cardinality(remembered) = 1
      BY <2>2, FS_Singleton
    <2> QED BY <1>4, <1>5, <2>3
  <1>6. CASE procs[n.id].st # "reaped"
    BY <1>4, <1>6
  <1> QED BY <1>5, <1>6

\* What an operation that finds or opens a stream adds to the processes.
LEMMA FileFindProcs ==
    ASSUME StreamsInv, NEW name \in Names, NEW type \in Kinds, file_find(name, type)
    PROVE  /\ \A s \in DOMAIN procs : s \in DOMAIN procs' /\ procs'[s] = procs[s]
           /\ \A s \in DOMAIN procs' \ DOMAIN procs :
                s = last + 1 /\ procs'[s].st = "run" /\ (~Reuse => procs'[s].pid \notin used)
           /\ \A i \in DOMAIN file_list' :
                file_list'[i].id = last + 1 \/ \E j \in DOMAIN file_list : Alike(file_list'[i], file_list[j])
  <1>1. CASE Find(name, type)
    BY <1>1, FoundOne, MadeOfIn DEF Find
  <1>2. CASE Open(name, type)
    <2>1. /\ \A s \in DOMAIN procs : s \in DOMAIN procs' /\ procs'[s] = procs[s]
          /\ \A s \in DOMAIN procs' \ DOMAIN procs :
                s = last + 1 /\ procs'[s].st = "run" /\ (~Reuse => procs'[s].pid \notin used)
      <3>1. CASE type \in Pipes
        <4>1. PICK pid \in Pids : Fork(pid)
          BY <1>2, <3>1 DEF Open
        <4>2. last + 1 \notin DOMAIN procs
          BY DEF StreamsInv, Typed
        <4> QED BY <4>1, <4>2 DEF Fork, Free
      <3>2. CASE type \notin Pipes
        BY <1>2, <3>2 DEF Open
      <3> QED BY <3>1, <3>2
    <2>2. PICK pid \in Nat : file_list' = OpenedList(name, type, pid)
      BY <1>2, FilesAssumption DEF Open, NoPid
    <2>3. last \in Nat /\ file_list \in Seq(NodeT)
      BY DEF StreamsInv, Typed
    <2> DEFINE n == Node(last + 1, name, type, pid)
    <2>4. n \in NodeT /\ n.id = last + 1
      BY <2>3, FilesAssumption DEF NodeT, Node, Titles, Types
    <2> HIDE DEF n
    <2>5. /\ file_list' \in Seq(NodeT) /\ Len(file_list') = Len(file_list) + 1
          /\ \A j \in 1..Len(file_list) + 1 : file_list'[j] = IF j = 1 THEN n ELSE file_list[j - 1]
      BY <2>2, <2>3, <2>4, PrependProps DEF OpenedList, n
    <2>6. ASSUME NEW i \in DOMAIN file_list', i # 1
          PROVE  i - 1 \in DOMAIN file_list /\ file_list'[i] = file_list[i - 1]
      BY <2>5, <2>6, <2>3
    <2>7. file_list'[1] = n
      BY <2>5, <2>3
    <2> QED BY <2>1, <2>4, <2>6, <2>7 DEF Alike
  <1> QED BY <1>1, <1>2 DEF file_find

\* Steps that leave the processes alone.
LEMMA ChildrenKept ==
    ASSUME ChildrenInv, StreamsInv', UNCHANGED <<procs, child_list>>,
           file_list' = file_list \/ MadeOf(file_list', file_list), closed \subseteq closed',
           op'.do = "wait" /\ op'.what # "getline" => Wanted(op'.id),
           out' = out \/ out' = Nothing \/ out'[2] \notin DOMAIN procs,
           fault' # "bozo", ExitSoFar', ExitFinishes'
    PROVE  ChildrenInv'
  <1>1. ProcsApart' /\ Listed'
    BY DEF ChildrenInv, ProcsApart, Listed
  <1>2. NoneLost'
    <2> SUFFICES ASSUME NEW s \in DOMAIN procs, Wanted(s)' PROVE Wanted(s)
      BY DEF ChildrenInv, NoneLost, Found
    <2>1. CASE op'.do = "wait" /\ op'.what # "getline" /\ op'.id = s
      BY <2>1
    <2>2. ASSUME NEW i \in DOMAIN file_list', file_list'[i].id = s,
                 file_list'[i].type = "PIPE_IN" \/ s \notin closed'
          PROVE  Wanted(s)
      <3>1. CASE file_list' = file_list
        BY <2>2, <3>1 DEF Wanted
      <3>2. CASE MadeOf(file_list', file_list)
        <4>1. PICK j \in DOMAIN file_list : Alike(file_list'[i], file_list[j])
          BY <3>2, MadeOfIn
        <4> QED BY <2>2, <4>1 DEF Wanted, Alike
      <3> QED BY <3>1, <3>2
    <2> QED BY <2>1, <2>2 DEF Wanted
  <1>3. CloseGetsItsStatus'
    BY DEF ChildrenInv, CloseGetsItsStatus, Nothing
  <1> QED BY <1>1, <1>2, <1>3 DEF ChildrenInv

\* A new child has a process id that no other one had.
LEMMA PrintChildren ==
    ASSUME ChildrenInv, ~Reuse, NEW name \in Names, NEW type \in Kinds,
           PrintTo(name, type) \/ GetRecord(name, type)
    PROVE  ChildrenInv'
  <1>1. /\ Idle /\ file_find(name, type) /\ UNCHANGED <<child_list, closed, op, fault>>
        /\ out' = Nothing
    BY DEF PrintTo, GetRecord
  <1>2. /\ \A s \in DOMAIN procs : s \in DOMAIN procs' /\ procs'[s] = procs[s]
        /\ \A s \in DOMAIN procs' \ DOMAIN procs :
             s = last + 1 /\ procs'[s].st = "run" /\ procs'[s].pid \notin used
        /\ \A i \in DOMAIN file_list' :
             file_list'[i].id = last + 1 \/ \E j \in DOMAIN file_list : Alike(file_list'[i], file_list[j])
    BY <1>1, FileFindProcs DEF ChildrenInv
  <1>3. StreamsInv'
    BY PrintStreams DEF ChildrenInv
  <1>4. op.do = "run" /\ op'.do = "run"
    BY <1>1 DEF Idle
  <1>5. ProcsApart'
    BY <1>2 DEF ChildrenInv, StreamsInv, Typed, ProcsApart
  <1>6. Listed'
    BY <1>1, <1>2 DEF ChildrenInv, Listed
  <1>7. NoneLost'
    <2> SUFFICES ASSUME NEW s \in DOMAIN procs', Wanted(s)', procs'[s].st = "reaped"
                 PROVE  Found(s)'
      BY DEF NoneLost
    <2>1. s \in DOMAIN procs /\ procs'[s] = procs[s] /\ s # last + 1
      BY <1>2 DEF ChildrenInv, StreamsInv, Typed
    <2>2. PICK i \in DOMAIN file_list' : file_list'[i].id = s /\ (file_list'[i].type = "PIPE_IN" \/ s \notin closed)
      BY <1>1, <1>4 DEF Wanted
    <2>3. PICK j \in DOMAIN file_list : Alike(file_list'[i], file_list[j])
      BY <1>2, <2>1, <2>2
    <2>4. Wanted(s)
      BY <2>2, <2>3 DEF Wanted, Alike
    <2> QED BY <1>1, <2>1, <2>4 DEF ChildrenInv, NoneLost, Found
  <1> QED BY <1>1, <1>3, <1>4, <1>5, <1>6, <1>7 DEF ChildrenInv, ExitSoFar, Doing, ExitFinishes,
                                                    CloseGetsItsStatus, Nothing

\* getline at the end of a command waits for any child.
LEMMA GetEofChildren ==
    ASSUME ChildrenInv, NEW name \in Names, NEW type \in Kinds, GetEof(name, type)
    PROVE  ChildrenInv'
  <1> DEFINE i == First(Hits(name, type))
             n == file_list[i]
             e == [n EXCEPT !.ptr = "semi"]
  <1>1. i \in DOMAIN file_list /\ i \in Hits(name, type)
    BY FoundOne DEF GetEof, ChildrenInv
  <1>2. n \in NodeT /\ n.ptr # "null" /\ Idle
    <2>1. n \in NodeT
      BY <1>1 DEF ChildrenInv, StreamsInv, Typed
    <2>2. n.ptr # "null"
      BY <1>1 DEF Hits
    <2> QED BY <2>1, <2>2 DEF GetEof
  <1> HIDE DEF i
  <1>3. e \in NodeT /\ Alike(e, n)
    BY <1>2 DEF NodeT, Alike
  <1>4. /\ file_list' = <<e>> \o RemoveAt(file_list, i)
        /\ \/ op'.do = "wait" /\ op'.what = "getline" /\ op'.then.do = "run" /\ UNCHANGED out
           \/ out' = Nothing /\ UNCHANGED op
        /\ UNCHANGED <<child_list, procs, used, dirty, closed, last, fault>>
    BY DEF GetEof, i
  <1> HIDE DEF n, e
  <1>5. MadeOf(file_list', file_list)
    BY <1>1, <1>3, <1>4, Leaves DEF n, ChildrenInv, StreamsInv, Typed
  <1>6. op.do = "run" /\ fault' # "bozo"
    BY <1>2, <1>4 DEF Idle
  <1>7. ExitSoFar' /\ ExitFinishes'
    BY <1>4, <1>6 DEF ExitSoFar, Doing, ExitFinishes
  <1>8. StreamsInv'
    BY GetEofStreams DEF ChildrenInv
  <1> QED BY <1>4, <1>5, <1>6, <1>7, <1>8, ChildrenKept

\* The status of the process that mawk waits for has come.
LEMMA WaitOver ==
    ASSUME ChildrenInv, ~Reuse, op.do = "wait", op.what # "getline",
           op' = op.then, UNCHANGED <<file_list, closed>>, NEW s, s = op.id
    PROVE  ~Wanted(s)'
  <1>1. op.id \in closed /\ op.then.do = op.what /\ op.then.do # "wait"
    BY DEF ChildrenInv, StreamsInv, WaitOK, Typed, OpT, Runs, Closes, Exits, Gones, Waits
  <1>2. ASSUME NEW i \in DOMAIN file_list, file_list[i].id = op.id PROVE file_list[i].type # "PIPE_IN"
    <2>1. CASE op.what = "exit"
      BY <1>2, <2>1 DEF ChildrenInv, StreamsInv, WaitOK
    <2>2. CASE op.what = "close"
      BY <1>1, <1>2, <2>2 DEF ChildrenInv, StreamsInv, NoneClosed, Doing
    <2>3. op.what \in {"exit", "close"}
      BY DEF ChildrenInv, StreamsInv, Typed, OpT, Runs, Closes, Exits, Gones, Waits
    <2> QED BY <2>1, <2>2, <2>3
  <1> QED BY <1>1, <1>2 DEF Wanted

\* wait() hands a status to mawk or puts it on the list of the dead.
LEMMA WaitChildren ==
    ASSUME ChildrenInv, ~Reuse, Wait PROVE ChildrenInv'
  <1>0. StreamsInv /\ StreamsInv'
    BY WaitStreams DEF ChildrenInv
  <1>1. /\ Waiting /\ op.do = "wait" /\ op \in Waits /\ WaitOK
        /\ op.then.do \in {"run", "close", "exit"}
        /\ child_list \in Seq(ChildT) /\ DOMAIN child_list = 1..Len(child_list)
        /\ procs \in [DOMAIN procs -> ProcT]
    BY <1>0 DEF Wait, WaitRemembered, WaitNobody, WaitReaps, Waiting, StreamsInv, Typed, OpT,
                Runs, Closes, Exits, Gones, Waits
  <1>2. /\ op.what # "getline" <=> op.pid # 0
        /\ op.what # "getline" => op.id \in DOMAIN procs /\ procs[op.id].pid = op.pid
    BY <1>1 DEF WaitOK
  <1>3. \A s \in DOMAIN procs : procs[s].pid # JunkPid /\ procs[s].pid # 0
    BY <1>1, FilesAssumption DEF ProcT, JunkPid
  <1>4. CASE WaitRemembered
    <2>1. PICK i \in DOMAIN child_list :
             /\ child_list[i][1] = op.pid /\ op.pid # 0
             /\ op' = op.then /\ out' = <<op.what, op.id, child_list[i][2]>>
             /\ child_list' = RemoveAt(child_list, i)
             /\ UNCHANGED <<file_list, procs, used, dirty, closed, last, fault>>
      <3>1. Remembered \subseteq DOMAIN child_list /\ Remembered # {} /\ Remembered \subseteq Nat
        BY <1>1, <1>4 DEF WaitRemembered, Remembered
      <3>2. First(Remembered) \in Remembered
        BY <3>1, FirstIn
      <3> QED BY <1>4, <3>2 DEF WaitRemembered, Done, Remembered
    <2>2. procs[op.id].st = "reaped" /\ procs[op.id].status = child_list[i][2]
          /\ op.id \in DOMAIN procs /\ procs[op.id].pid = op.pid
      BY <1>2, <1>3, <2>1 DEF ChildrenInv, Listed, ProcsApart
    <2>3. /\ \A j \in DOMAIN child_list' : \E k \in DOMAIN child_list :
               k = (IF j < i THEN j ELSE j + 1) /\ child_list'[j] = child_list[k]
          /\ \A k \in DOMAIN child_list : k # i => \E j \in DOMAIN child_list' : child_list'[j] = child_list[k]
          /\ DOMAIN child_list' \subseteq Nat
      <3>1. /\ child_list' \in Seq(ChildT) /\ Len(child_list') = Len(child_list) - 1
            /\ \A j \in 1..Len(child_list) - 1 :
                 child_list'[j] = IF j < i THEN child_list[j] ELSE child_list[j + 1]
        BY <1>1, <2>1, RemoveAtProps
      <3>2. DOMAIN child_list' = 1..Len(child_list) - 1
        BY <3>1, <1>1
      <3>3. ASSUME NEW j \in DOMAIN child_list'
            PROVE  \E k \in DOMAIN child_list :
                      k = (IF j < i THEN j ELSE j + 1) /\ child_list'[j] = child_list[k]
        BY <1>1, <2>1, <3>1, <3>2
      <3>4. ASSUME NEW k \in DOMAIN child_list, k # i
            PROVE  \E j \in DOMAIN child_list' : child_list'[j] = child_list[k]
        <4>1. CASE k < i
          BY <1>1, <2>1, <3>1, <3>2, <4>1
        <4>2. CASE k > i
          <5>1. k - 1 \in 1..Len(child_list) - 1 /\ ~(k - 1 < i) /\ (k - 1) + 1 = k
            BY <1>1, <2>1, <4>2
          <5> QED BY <3>1, <3>2, <5>1
        <4> QED BY <3>4, <4>1, <4>2, <1>1, <2>1
      <3> QED BY <3>2, <3>3, <3>4
    <2>4. ProcsApart'
      BY <2>1 DEF ChildrenInv, ProcsApart
    <2>5. Listed'
      <3>1. \A j \in DOMAIN child_list' :
              child_list'[j][1] # JunkPid =>
                \E s \in DOMAIN procs : /\ procs[s].pid = child_list'[j][1] /\ procs[s].st = "reaped"
                                        /\ procs[s].status = child_list'[j][2]
        BY <2>3 DEF ChildrenInv, Listed
      <3>2. ASSUME NEW j \in DOMAIN child_list', NEW k \in DOMAIN child_list',
                   child_list'[j][1] = child_list'[k][1], child_list'[j][1] # JunkPid
            PROVE  j = k
        <4>1. PICK jj \in DOMAIN child_list : jj = (IF j < i THEN j ELSE j + 1) /\ child_list'[j] = child_list[jj]
          BY <2>3
        <4>2. PICK kk \in DOMAIN child_list : kk = (IF k < i THEN k ELSE k + 1) /\ child_list'[k] = child_list[kk]
          BY <2>3
        <4>3. jj = kk
          BY <3>2, <4>1, <4>2 DEF ChildrenInv, Listed
        <4> QED BY <4>1, <4>2, <4>3, <1>1, <2>1, <2>3
      <3> QED BY <2>1, <3>1, <3>2 DEF Listed
    <2>6. NoneLost'
      <3> SUFFICES ASSUME NEW s \in DOMAIN procs, Wanted(s)', procs[s].st = "reaped" PROVE Found(s)'
        BY <2>1 DEF NoneLost
      <3>1. s # op.id
        BY <1>1, <1>2, <2>1, WaitOver
      <3>2. Wanted(s)
        BY <1>1, <2>1 DEF Wanted
      <3>3. PICK k \in DOMAIN child_list : child_list[k][1] = procs[s].pid
        BY <3>2 DEF ChildrenInv, NoneLost, Found
      <3>4. k # i
        BY <2>1, <2>2, <3>1, <3>3 DEF ChildrenInv, ProcsApart
      <3> QED BY <2>1, <2>3, <3>3, <3>4 DEF Found
    <2>7. CloseGetsItsStatus'
      BY <2>1, <2>2 DEF CloseGetsItsStatus
    <2>8. ExitSoFar' /\ ExitFinishes'
      <3>1. Doing' = Doing /\ op'.do # "gone"
        BY <1>1, <2>1 DEF Doing
      <3> QED BY <3>1, <2>1, <2>2 DEF ChildrenInv, ExitSoFar, Through, ExitFinishes
    <2> QED BY <1>0, <2>1, <2>4, <2>5, <2>6, <2>7, <2>8 DEF ChildrenInv
  <1>5. CASE WaitNobody
    <2>1. op.pid = 0
      <3> SUFFICES ASSUME op.pid # 0 PROVE FALSE
        OBVIOUS
      <3>1. Wanted(op.id)
        BY <1>1, <1>2 DEF Wanted
      <3>2. procs[op.id].st = "reaped"
        BY <1>2, <1>5 DEF WaitNobody
      <3>3. \E j \in DOMAIN child_list : child_list[j][1] = op.pid
        BY <1>2, <3>1, <3>2 DEF ChildrenInv, NoneLost, Found
      <3> QED BY <1>5, <3>3 DEF WaitNobody, Remembered
    <2> DEFINE junk == <<JunkPid, 0>>
    <2>2. /\ op' = op.then /\ out' = <<op.what, op.id, 0>> /\ op.what = "getline"
          /\ UNCHANGED <<fault, file_list, procs, used, dirty, closed, last>>
          /\ child_list' = child_list \/ child_list' = <<junk>> \o child_list
      BY <1>2, <1>5, <2>1 DEF WaitNobody, Done
    <2>3. junk \in ChildT /\ junk[1] = JunkPid
      BY DEF ChildT, Marks
    <2> HIDE DEF junk
    <2>4. /\ \A j \in DOMAIN child_list' : child_list'[j][1] = JunkPid \/
               \E k \in DOMAIN child_list : /\ child_list'[j] = child_list[k]
                                            /\ k = (IF child_list' = child_list THEN j ELSE j - 1)
          /\ \A k \in DOMAIN child_list : \E j \in DOMAIN child_list' : child_list'[j] = child_list[k]
          /\ DOMAIN child_list' \subseteq Nat
      <3>1. CASE child_list' = child_list
        BY <3>1, <1>1
      <3>2. CASE child_list' = <<junk>> \o child_list
        <4>1. /\ child_list' \in Seq(ChildT) /\ Len(child_list') = Len(child_list) + 1
              /\ \A j \in 1..Len(child_list) + 1 :
                   child_list'[j] = IF j = 1 THEN junk ELSE child_list[j - 1]
          BY <3>2, <1>1, <2>3, PrependProps
        <4>2. DOMAIN child_list' = 1..Len(child_list) + 1 /\ child_list' # child_list
          BY <4>1, <1>1
        <4>3. ASSUME NEW k \in DOMAIN child_list
              PROVE  \E j \in DOMAIN child_list' : child_list'[j] = child_list[k]
          <5>1. k + 1 \in 1..Len(child_list) + 1 /\ k + 1 # 1 /\ (k + 1) - 1 = k
            BY <1>1
          <5> QED BY <4>1, <4>2, <5>1
        <4>4. ASSUME NEW j \in DOMAIN child_list', j # 1
              PROVE  j - 1 \in DOMAIN child_list /\ child_list'[j] = child_list[j - 1]
          BY <4>1, <4>2, <4>4, <1>1
        <4> QED BY <2>3, <4>1, <4>2, <4>3, <4>4
      <3> QED BY <2>2, <3>1, <3>2
    <2>5. Listed'
      <3>1. \A j, k \in DOMAIN child_list' :
               child_list'[j][1] = child_list'[k][1] /\ child_list'[j][1] # JunkPid => j = k
        BY SMTT(30), <2>4, <1>1 DEF ChildrenInv, Listed
      <3> QED BY SMTT(30), <2>2, <2>4, <3>1 DEF ChildrenInv, Listed
    <2>6. NoneLost'
      <3> SUFFICES ASSUME NEW s \in DOMAIN procs, Wanted(s)', procs[s].st = "reaped" PROVE Found(s)'
        BY <2>2 DEF NoneLost
      <3>1. Wanted(s)
        BY <1>1, <2>2 DEF Wanted
      <3> QED BY <2>2, <2>4, <3>1 DEF ChildrenInv, NoneLost, Found
    <2>7. ExitSoFar' /\ ExitFinishes' /\ CloseGetsItsStatus' /\ ProcsApart'
      <3>1. Doing' = Doing /\ op'.do # "gone"
        BY <1>1, <2>2 DEF Doing
      <3>2. Doing.do # "exit"
        BY <1>1, <2>2 DEF Doing, WaitOK
      <3> QED BY <3>1, <3>2, <2>2 DEF ChildrenInv, ExitSoFar, ExitFinishes, CloseGetsItsStatus, ProcsApart
    <2> QED BY <1>0, <2>2, <2>5, <2>6, <2>7 DEF ChildrenInv
  <1>6. ASSUME NEW s \in DOMAIN procs, WaitReaps(s) PROVE ChildrenInv'
    <2>1. /\ procs[s].st = "zombie" /\ procs' = [procs EXCEPT ![s].st = "reaped"]
          /\ UNCHANGED <<file_list, used, dirty, closed, last, fault>>
      BY <1>6 DEF WaitReaps
    <2>2. /\ DOMAIN procs' = DOMAIN procs /\ procs'[s].st = "reaped"
          /\ \A t \in DOMAIN procs : /\ procs'[t].pid = procs[t].pid /\ procs'[t].status = procs[t].status
                                     /\ t # s => procs'[t] = procs[t]
                                     /\ procs[t].st = "reaped" => procs'[t].st = "reaped"
      BY <1>1, <2>1 DEF ProcT
    <2>3. ProcsApart'
      BY <2>2 DEF ChildrenInv, ProcsApart
    <2>4. ExitFinishes'
      <3>1. op'.do # "gone"
        BY <1>1, <1>6 DEF WaitReaps, Done
      <3> QED BY <3>1 DEF ExitFinishes
    <2>5. CASE procs[s].pid = op.pid
      <3>1. op.what # "getline" /\ s = op.id
        BY <1>2, <1>3, <2>5 DEF ChildrenInv, ProcsApart
      <3>2. op' = op.then /\ out' = <<op.what, op.id, procs[s].status>> /\ UNCHANGED child_list
        BY <1>6, <2>5 DEF WaitReaps, Done
      <3>3. Listed'
        BY <2>2, <3>2 DEF ChildrenInv, Listed
      <3>4. NoneLost'
        <4> SUFFICES ASSUME NEW t \in DOMAIN procs, Wanted(t)', procs'[t].st = "reaped" PROVE Found(t)'
          BY <2>2 DEF NoneLost
        <4>1. t # s
          BY <1>1, <2>1, <3>1, <3>2, WaitOver
        <4>2. Wanted(t) /\ procs[t].st = "reaped"
          BY <1>1, <2>1, <2>2, <3>2, <4>1 DEF Wanted
        <4> QED BY <2>2, <3>2, <4>2 DEF ChildrenInv, NoneLost, Found
      <3>5. CloseGetsItsStatus'
        BY <2>2, <3>1, <3>2 DEF CloseGetsItsStatus
      <3>6. ExitSoFar'
        <4>1. Doing' = Doing
          BY <1>1, <3>2 DEF Doing
        <4>2. ASSUME NEW i \in DOMAIN file_list, Doing.do = "exit", i < Doing.at, IS_OUTPUT(file_list[i].type)
              PROVE  Through(file_list[i])'
          <5>1. Through(file_list[i]) /\ (file_list[i].type = "PIPE_OUT" => file_list[i].id \in DOMAIN procs)
            BY <4>2, <1>0 DEF ChildrenInv, ExitSoFar, StreamsInv, ListOK, NodeOK, Pipes
          <5> QED BY <5>1, <2>1, <2>2, <3>1, <3>2 DEF Through
        <4> QED BY <4>1, <4>2, <2>1 DEF ExitSoFar
      <3> QED BY <1>0, <2>1, <2>3, <2>4, <3>3, <3>4, <3>5, <3>6 DEF ChildrenInv
    <2>6. CASE procs[s].pid # op.pid
      <3> DEFINE c == <<procs[s].pid, procs[s].status>>
      <3>1. /\ child_list' = <<c>> \o child_list
            /\ \/ op.pid = 0 /\ op' = op.then /\ out' = <<op.what, op.id, 0>>
               \/ UNCHANGED <<op, out>>
        BY <1>6, <2>6 DEF WaitReaps, Done, add_to_child_list
      <3>2. c \in ChildT /\ c[1] = procs[s].pid /\ c[2] = procs[s].status
        BY <1>1 DEF ChildT, ProcT
      <3> HIDE DEF c
      <3>3. /\ child_list' \in Seq(ChildT) /\ Len(child_list') = Len(child_list) + 1
            /\ \A j \in 1..Len(child_list) + 1 :
                 child_list'[j] = IF j = 1 THEN c ELSE child_list[j - 1]
        BY <3>1, <1>1, <3>2, PrependProps
      <3>4. DOMAIN child_list' = 1..Len(child_list) + 1 /\ child_list'[1] = c /\ 1 \in DOMAIN child_list'
        BY <3>3, <1>1
      <3>5. \A k \in DOMAIN child_list : \E j \in DOMAIN child_list' : child_list'[j] = child_list[k]
        <4> SUFFICES ASSUME NEW k \in DOMAIN child_list
                     PROVE  \E j \in DOMAIN child_list' : child_list'[j] = child_list[k]
          OBVIOUS
        <4>1. k + 1 \in 1..Len(child_list) + 1 /\ k + 1 # 1 /\ (k + 1) - 1 = k
          BY <1>1
        <4> QED BY <3>3, <3>4, <4>1
      <3>6. ASSUME NEW j \in DOMAIN child_list', j # 1
            PROVE  j - 1 \in DOMAIN child_list /\ child_list'[j] = child_list[j - 1]
        BY <3>3, <3>4, <3>6, <1>1
      <3>7. \A k \in DOMAIN child_list : child_list[k][1] # procs[s].pid
        BY <1>3, <2>1 DEF ChildrenInv, Listed, ProcsApart
      <3>8. Listed'
        <4>1. ASSUME NEW j \in DOMAIN child_list', child_list'[j][1] # JunkPid
              PROVE  \E t \in DOMAIN procs' : /\ procs'[t].pid = child_list'[j][1] /\ procs'[t].st = "reaped"
                                              /\ procs'[t].status = child_list'[j][2]
          <5>1. CASE j = 1
            BY <5>1, <3>2, <3>4, <2>2
          <5>2. CASE j # 1
            BY <5>2, <4>1, <3>6, <2>2 DEF ChildrenInv, Listed
          <5> QED BY <5>1, <5>2
        <4>2. ASSUME NEW j \in DOMAIN child_list', NEW k \in DOMAIN child_list',
                     child_list'[j][1] = child_list'[k][1], child_list'[j][1] # JunkPid
              PROVE  j = k
          <5>1. CASE j # 1 /\ k # 1
            <6>1. j - 1 = k - 1
              BY <4>2, <5>1, <3>6 DEF ChildrenInv, Listed
            <6> QED BY <6>1, <3>4, <1>1
          <5>2. CASE j = 1 \/ k = 1
            BY <4>2, <5>2, <3>2, <3>4, <3>6, <3>7
          <5> QED BY <5>1, <5>2
        <4> QED BY <4>1, <4>2 DEF Listed
      <3>9. NoneLost'
        <4> SUFFICES ASSUME NEW t \in DOMAIN procs, Wanted(t)', procs'[t].st = "reaped" PROVE Found(t)'
          BY <2>2 DEF NoneLost
        <4>1. CASE t = s
          BY <4>1, <2>2, <3>2, <3>4 DEF Found
        <4>2. CASE t # s
          <5>1. Wanted(t) /\ procs[t].st = "reaped"
            BY <1>1, <2>1, <2>2, <3>1, <4>2 DEF Wanted
          <5> QED BY <2>2, <3>5, <5>1 DEF ChildrenInv, NoneLost, Found
        <4> QED BY <4>1, <4>2
      <3>10. CloseGetsItsStatus'
        <4>1. CASE op.pid = 0 /\ out' = <<op.what, op.id, 0>>
          BY <4>1, <1>2 DEF CloseGetsItsStatus
        <4>2. CASE UNCHANGED out
          BY <4>2, <2>2 DEF ChildrenInv, CloseGetsItsStatus
        <4> QED BY <3>1, <4>1, <4>2
      <3>11. ExitSoFar'
        <4>1. CASE op.pid = 0 /\ op' = op.then
          <5>1. Doing'.do = "run"
            BY <4>1, <1>1, <1>2 DEF Doing, WaitOK
          <5> QED BY <5>1 DEF ExitSoFar
        <4>2. CASE UNCHANGED op
          <5>1. Doing' = Doing
            BY <4>2 DEF Doing
          <5>2. ASSUME NEW i \in DOMAIN file_list, Doing.do = "exit", i < Doing.at, IS_OUTPUT(file_list[i].type)
                PROVE  Through(file_list[i])'
            <6>1. Through(file_list[i]) /\ (file_list[i].type = "PIPE_OUT" => file_list[i].id \in DOMAIN procs)
              BY <5>2, <1>0 DEF ChildrenInv, ExitSoFar, StreamsInv, ListOK, NodeOK, Pipes
            <6> QED BY <6>1, <2>1, <2>2, <4>2 DEF Through
          <5> QED BY <5>1, <5>2, <2>1 DEF ExitSoFar
        <4> QED BY <3>1, <4>1, <4>2
      <3> QED BY <1>0, <2>1, <2>3, <2>4, <3>8, <3>9, <3>10, <3>11 DEF ChildrenInv
    <2> QED BY <2>5, <2>6
  <1> QED BY <1>4, <1>5, <1>6 DEF Wait

\* close(): the status of a pipe can still be had when its stream is closed.
LEMMA CloseChildren ==
    ASSUME ChildrenInv, CloseNode \/ CloseFails \/ CloseReturns PROVE ChildrenInv'
  <1>0. StreamsInv /\ StreamsInv'
    BY CloseStreams DEF ChildrenInv
  <1>1. /\ op.do = "close" /\ fault = "none" /\ UNCHANGED <<procs, child_list>>
        /\ file_list \in Seq(NodeT) /\ DOMAIN file_list = 1..Len(file_list)
    BY <1>0 DEF CloseNode, CloseFails, CloseReturns, Closing, StreamsInv, Typed
  <1>2. CASE CloseReturns
    BY <1>0, <1>1, <1>2, ChildrenKept DEF CloseReturns, ExitSoFar, ExitFinishes, Doing
  <1> DEFINE i == First(Named(op.name))
             n == file_list[i]
  <1>3. CASE Named(op.name) # {} /\ (CloseNode \/ CloseFails)
    <2>1. i \in DOMAIN file_list /\ MadeOf(RemoveAt(file_list, i), file_list)
      BY <1>0, <1>3, NamedOne DEF Freed
    <2> HIDE DEF i
    <2>2. n.id \notin closed /\ NodeOK(n, procs, last)
      BY <1>0, <1>1, <2>1 DEF StreamsInv, NoneClosed, Doing, ListOK
    <2>3. CASE CloseNode /\ n.ptr = "null"
      <3>1. fault' = "null" /\ UNCHANGED <<file_list, dirty, closed, op, out>>
        BY <2>3 DEF CloseNode, i
      <3> QED BY <1>0, <1>1, <3>1, ChildrenKept DEF ExitSoFar, ExitFinishes, Doing
    <2>4. CASE (CloseNode /\ n.ptr # "null") \/ CloseFails
      <3>1. /\ file_list' = RemoveAt(file_list, i) /\ closed' = closed \cup {n.id}
            /\ fault' = fault
            /\ \/ op'.do = "wait" /\ op'.id = n.id /\ op'.then = op /\ UNCHANGED out
               \/ n.type \notin Pipes /\ out' = <<"close", n.id, 0>> /\ UNCHANGED op
               \/ op' = [do |-> "exit", at |-> 1] /\ UNCHANGED out
        <4>1. /\ file_list' = RemoveAt(file_list, i) /\ closed' = closed \cup {n.id} /\ fault' = fault
              /\ CloseFails => Exit /\ UNCHANGED out
          BY <2>4 DEF CloseNode, CloseFails, Closed, Freed, i
        <4>2. CASE CloseNode /\ n.ptr # "null"
          <5> DEFINE wait == [do |-> "wait", pid |-> n.pid, id |-> n.id, then |-> op, what |-> "close"]
          <5>1. \/ op' = wait /\ UNCHANGED out
                \/ n.type \notin Pipes /\ out' = <<"close", n.id, 0>> /\ UNCHANGED op
            BY <4>2 DEF CloseNode, i
          <5>2. wait.do = "wait" /\ wait.id = n.id /\ wait.then = op
            OBVIOUS
          <5> HIDE DEF wait, n
          <5> QED BY <4>1, <5>1, <5>2
        <4>3. CASE CloseFails
          BY <4>1, <4>3 DEF Exit
        <4> QED BY <2>4, <4>2, <4>3
      <3>2. Wanted(n.id)
        BY <2>1, <2>2 DEF Wanted
      <3>3. n.type \notin Pipes => n.id \notin DOMAIN procs
        BY <2>2 DEF NodeOK
      <3>4. ExitSoFar'
        <4>1. DOMAIN file_list' \subseteq Nat \ {0}
          BY <1>0 DEF StreamsInv, Typed
        <4>2. Doing'.do = "exit" => Doing'.at = 1
          BY <1>1, <3>1 DEF Doing
        <4> QED BY <4>1, <4>2 DEF ExitSoFar
      <3>5. ExitFinishes'
        BY <1>1, <3>1 DEF ExitFinishes
      <3> QED BY <1>0, <1>1, <2>1, <3>1, <3>2, <3>3, <3>4, <3>5, ChildrenKept
    <2> QED BY <1>3, <2>3, <2>4
  <1> QED BY <1>2, <1>3 DEF CloseNode, CloseFails

\* The walk at the exit: the nodes behind it are closed, written and over.
LEMMA ExitChildren ==
    ASSUME ChildrenInv, ExitNode \/ ExitFails \/ Exited PROVE ChildrenInv'
  <1>0. StreamsInv /\ StreamsInv'
    BY ExitStreams DEF ChildrenInv
  <1>1. /\ op.do = "exit" /\ op \in Exits /\ op.at \in Nat \ {0} /\ fault = "none"
        /\ UNCHANGED <<procs, child_list, out>>
        /\ file_list \in Seq(NodeT) /\ DOMAIN file_list = 1..Len(file_list)
    BY <1>0 DEF ExitNode, ExitFails, Exited, Exiting, StreamsInv, Typed, OpT, Runs, Closes, Exits, Gones, Waits
  <1>2. \A i \in DOMAIN file_list : i < op.at /\ IS_OUTPUT(file_list[i].type) =>
            /\ file_list[i].id \in closed \ dirty
            /\ file_list[i].type = "PIPE_OUT" => procs[file_list[i].id].st = "reaped"
    BY <1>1 DEF ChildrenInv, ExitSoFar, Doing, Through
  <1>3. CASE Exited
    <2>1. op' = [do |-> "gone"] /\ op.at > Len(file_list) /\ UNCHANGED <<file_list, closed, dirty, fault>>
      BY <1>3 DEF Exited
    <2>2. ASSUME NEW i \in DOMAIN file_list PROVE i < op.at /\ file_list[i].type \in Types
      <3>1. file_list[i] \in NodeT /\ i \in 1..Len(file_list) /\ Len(file_list) \in Nat
        BY <1>1
      <3> QED BY <1>1, <2>1, <3>1 DEF NodeT
    <2>3. ExitFinishes'
      BY <1>1, <1>2, <2>1, <2>2 DEF ExitFinishes, Types, IS_OUTPUT
    <2>4. ExitSoFar'
      BY <2>1 DEF ExitSoFar, Doing
    <2> QED BY <1>0, <1>1, <2>1, <2>3, <2>4, ChildrenKept
  <1>4. CASE ExitFails
    <2>1. /\ file_list' = RemoveAt(file_list, op.at) /\ op.at \in DOMAIN file_list
          /\ closed' = closed \cup {Here.id} /\ op' = [do |-> "exit", at |-> 1] /\ fault' = fault
      BY <1>1, <1>4 DEF ExitFails, Closed, Exit
    <2>2. MadeOf(file_list', file_list)
      BY <1>1, <2>1, Leaves
    <2>3. ExitSoFar'
      <3>1. DOMAIN file_list' \subseteq Nat \ {0}
        BY <1>0 DEF StreamsInv, Typed
      <3> QED BY <2>1, <3>1 DEF ExitSoFar, Doing
    <2>4. ExitFinishes'
      BY <2>1 DEF ExitFinishes
    <2> QED BY <1>0, <1>1, <2>1, <2>2, <2>3, <2>4, ChildrenKept
  <1>5. CASE ExitNode
    <2>1. op.at \in DOMAIN file_list /\ Here = file_list[op.at] /\ file_list' = file_list
      BY <1>1, <1>5 DEF ExitNode, Here
    <2>2. Onward \in Exits /\ Onward.do = "exit" /\ Onward.at = op.at + 1
      BY <1>1 DEF Onward, Exits
    <2>3. CASE ~IS_OUTPUT(Here.type)
      <3>1. op' = Onward /\ UNCHANGED <<dirty, closed, fault>>
        BY <1>5, <2>3 DEF ExitNode
      <3>2. ExitSoFar'
        BY <1>1, <1>2, <2>1, <2>2, <2>3, <3>1 DEF ExitSoFar, Doing, Through
      <3> QED BY <1>0, <1>1, <2>1, <2>2, <3>1, <3>2, ChildrenKept DEF ExitFinishes
    <2>4. CASE IS_OUTPUT(Here.type) /\ Here.id \in closed
      <3>1. fault' = "twice" /\ UNCHANGED <<dirty, closed, op>>
        BY <1>5, <2>4 DEF ExitNode
      <3>2. ExitSoFar'
        BY <1>1, <1>2, <2>1, <3>1 DEF ExitSoFar, Doing, Through
      <3> QED BY <1>0, <1>1, <2>1, <3>1, <3>2, ChildrenKept DEF ExitFinishes
    <2>5. CASE IS_OUTPUT(Here.type) /\ Here.id \notin closed
      <3>1. /\ closed' = closed \cup {Here.id} /\ dirty' = dirty \ {Here.id} /\ fault' = fault
            /\ op' = AfterClose(Here)
        BY <1>5, <2>5 DEF ExitNode, Closed
      <3>2. /\ Here.type = "PIPE_OUT" => op'.do = "wait" /\ op'.id = Here.id /\ op'.then = Onward
            /\ Here.type # "PIPE_OUT" => op' = Onward
        BY <3>1 DEF AfterClose
      <3>3. Doing' = Onward /\ op'.do \in {"wait", "exit"} /\ (op'.do = "wait" => op'.id = Here.id)
        BY <2>2, <3>2 DEF Doing
      <3>4. Wanted(Here.id)
        BY <2>1, <2>5 DEF Wanted
      <3>5. ExitSoFar'
        <4> SUFFICES ASSUME NEW i \in DOMAIN file_list, i < op.at + 1, IS_OUTPUT(file_list[i].type)
                     PROVE  Through(file_list[i])'
          BY <2>1, <2>2, <3>3 DEF ExitSoFar
        <4>1. CASE i = op.at
          BY <4>1, <2>1, <3>1, <3>2 DEF Through
        <4>2. CASE i # op.at
          <5>1. i < op.at
            BY <1>1, <4>2
          <5>2. file_list[i].id # Here.id
            BY <1>0, <2>1, <4>2 DEF StreamsInv, ListOK, Apart
          <5> QED BY <1>1, <1>2, <2>1, <3>1, <5>1, <5>2 DEF Through
        <4> QED BY <4>1, <4>2
      <3>6. ExitFinishes'
        BY <3>3 DEF ExitFinishes
      <3> QED BY <1>0, <1>1, <2>1, <3>1, <3>3, <3>4, <3>5, <3>6, ChildrenKept
    <2> QED BY <2>3, <2>4, <2>5
  <1> QED BY <1>3, <1>4, <1>5

\* A child ends: nobody has its status yet.
LEMMA ChildChildren == ASSUME ChildrenInv, Child PROVE ChildrenInv'
  <1>1. PICK s \in DOMAIN procs : ChildQuiet(s) \/ ChildExits(s)
    BY DEF Child
  <1>2. procs \in [DOMAIN procs -> ProcT] /\ StreamsInv'
    BY ChildStreams DEF ChildrenInv, StreamsInv, Typed
  <1>3. /\ procs[s].st = "run" /\ ChildUnchanged
        /\ DOMAIN procs' = DOMAIN procs
        /\ \A t \in DOMAIN procs : /\ procs'[t].pid = procs[t].pid
                                   /\ t # s => procs'[t] = procs[t]
        /\ procs'[s].st # "reaped"
    <2>1. procs[s] \in ProcT
      BY <1>2
    <2>2. CASE ChildQuiet(s)
      BY <1>2, <2>1, <2>2 DEF ChildQuiet, ProcT
    <2>3. CASE ChildExits(s)
      <3>1. PICK status \in Statuses : procs' = [procs EXCEPT ![s].st = "zombie", ![s].status = status]
        BY <2>3 DEF ChildExits
      <3> QED BY <1>2, <2>1, <2>3, <3>1 DEF ChildExits, ProcT
    <2> QED BY <1>1, <2>2, <2>3
  <1>4. \A t \in DOMAIN procs : procs[t].st = "reaped" \/ procs'[t].st = "reaped" => procs'[t] = procs[t]
    BY <1>3
  <1>5. ProcsApart' /\ Listed'
    BY <1>3, <1>4 DEF ChildUnchanged, ChildrenInv, ProcsApart, Listed
  <1>6. NoneLost'
    BY <1>3, <1>4 DEF ChildUnchanged, ChildrenInv, NoneLost, Wanted, Found
  <1>7. \A i \in DOMAIN file_list : file_list[i].type = "PIPE_OUT" => file_list[i].id \in DOMAIN procs
    BY DEF ChildrenInv, StreamsInv, ListOK, NodeOK, Pipes
  <1>8. ExitSoFar'
    <2>1. Doing' = Doing /\ file_list' = file_list
      BY <1>3 DEF ChildUnchanged, Doing
    <2>2. ASSUME NEW i \in DOMAIN file_list, Through(file_list[i]) PROVE Through(file_list[i])'
      BY <1>3, <1>4, <1>7, <2>2 DEF ChildUnchanged, Through
    <2> QED BY <2>1, <2>2 DEF ChildrenInv, ExitSoFar
  <1>9. ExitFinishes'
    BY <1>3, <1>4, <1>7 DEF ChildUnchanged, ChildrenInv, ExitFinishes
  <1>10. CloseGetsItsStatus'
    BY <1>3, <1>4 DEF ChildUnchanged, ChildrenInv, CloseGetsItsStatus
  <1> QED BY <1>2, <1>3, <1>5, <1>6, <1>8, <1>9, <1>10 DEF ChildUnchanged, ChildrenInv

\* Every step keeps the account of the children, as long as the system does not
\* hand out a process id twice.
LEMMA ChildrenStep == ASSUME ChildrenInv, ~Reuse, [Next]_vars PROVE ChildrenInv'
  <1>0. StreamsInv /\ StreamsInv'
    BY StreamsStep DEF ChildrenInv
  <1>1. ASSUME NEW name \in Names, NEW type \in Kinds,
               OpenFails(name, type) \/ PipeFlushesClosed(name, type)
        PROVE  ChildrenInv'
    <2>1. /\ op.do = "run" /\ UNCHANGED <<procs, child_list, file_list, closed>> /\ fault' # "bozo"
          /\ op' = op \/ op' = [do |-> "exit", at |-> 1]
          /\ out' = out \/ out' = Nothing
      BY <1>1 DEF OpenFails, PipeFlushesClosed, Idle, Exit
    <2>2. ExitSoFar' /\ ExitFinishes'
      <3>1. DOMAIN file_list \subseteq Nat \ {0}
        BY <1>0 DEF StreamsInv, Typed
      <3> QED BY <2>1, <3>1 DEF ExitSoFar, ExitFinishes, Doing
    <2> QED BY <1>0, <2>1, <2>2, ChildrenKept
  <1>2. ASSUME NEW name \in Names, StartClose(name) \/ file_flush(name) PROVE ChildrenInv'
    <2>1. /\ op.do = "run" /\ UNCHANGED <<procs, child_list, file_list, closed, fault>>
          /\ op'.do \in {"run", "close"} /\ fault = "none" /\ out' = Nothing
      BY <1>2 DEF StartClose, file_flush, Flush, Idle
    <2>2. ExitSoFar' /\ ExitFinishes'
      BY <2>1 DEF ExitSoFar, ExitFinishes, Doing
    <2> QED BY <1>0, <2>1, <2>2, ChildrenKept
  <1>3. CASE PrintStdout \/ FlushStdout \/ flush_all_output \/ StartExit
    <2>1. /\ op.do = "run" /\ UNCHANGED <<procs, child_list, file_list, closed>> /\ fault' # "bozo"
          /\ op' = op \/ op' = [do |-> "exit", at |-> 1]
          /\ out' = out \/ out' = Nothing
      BY <1>3 DEF PrintStdout, FlushStdout, OnStdout, flush_all_output, Flush, StartExit, Exit, Idle
    <2>2. ExitSoFar' /\ ExitFinishes'
      <3>1. DOMAIN file_list \subseteq Nat \ {0}
        BY <1>0 DEF StreamsInv, Typed
      <3> QED BY <2>1, <3>1 DEF ExitSoFar, ExitFinishes, Doing
    <2> QED BY <1>0, <2>1, <2>2, ChildrenKept
  <1>4. CASE Mawk \/ Errors
    BY <1>4, CloseChildren, ExitChildren, WaitChildren DEF Mawk, Errors
  <1>5. CASE Child
    BY <1>5, ChildChildren
  <1>6. CASE UNCHANGED vars
    BY <1>0, <1>6 DEF vars, ChildrenInv, ProcsApart, Listed, NoneLost, Wanted, Found, ExitSoFar, Doing, Through,
                      CloseGetsItsStatus, ExitFinishes
  <1> QED BY <1>1, <1>2, <1>3, <1>4, <1>5, <1>6, PrintChildren, GetEofChildren DEF Next

\* wait() by one pipe, by getline or by close never loses the child of another,
\* and finds its own: "can't happen" (wait_for) does not, as long as the system
\* does not hand out a process id twice.
THEOREM ChildrenKeptTrack == ASSUME ~Reuse PROVE Spec => []ChildrenAccounted
  <1>1. Init => ChildrenInv
    BY ChildrenInit
  <1>2. ChildrenInv /\ [Next]_vars => ChildrenInv'
    BY ChildrenStep
  <1>3. ChildrenInv => ChildrenAccounted
    BY ChildrenInvImplies
  <1> QED BY <1>1, <1>2, <1>3, PTL DEF Spec

\* close() of a command, and the walk at the exit, get the status of that
\* command and only after it ended (file_close, close_out_pipes, wait_for).
THEOREM CloseWaits == ASSUME ~Reuse PROVE Spec => []CloseGetsItsStatus
  <1>1. Init => ChildrenInv
    BY ChildrenInit
  <1>2. ChildrenInv /\ [Next]_vars => ChildrenInv'
    BY ChildrenStep
  <1>3. ChildrenInv => CloseGetsItsStatus
    BY ChildrenInvImplies
  <1> QED BY <1>1, <1>2, <1>3, PTL DEF Spec

\* However many outputs fail on the way, a program that leaves has written what
\* it could and waited for every command that reads from it (mawk_exit).
THEOREM ExitWaits == ASSUME ~Reuse PROVE Spec => []ExitFinishes
  <1>1. Init => ChildrenInv
    BY ChildrenInit
  <1>2. ChildrenInv /\ [Next]_vars => ChildrenInv'
    BY ChildrenStep
  <1>3. ChildrenInv => ExitFinishes
    BY ChildrenInvImplies
  <1> QED BY <1>1, <1>2, <1>3, PTL DEF Spec

=============================================================================
