-------------------------------- MODULE Files --------------------------------
(***************************************************************************)
(* files.c: the list of open streams, found by name and type and moved to  *)
(* the front; closing and flushing them; the processes at the other end of *)
(* pipes and the list of dead ones; and what close(), fflush(), getline,   *)
(* print and leaving the program make of them (bi_funct.c, print.c,        *)
(* main.c).                                                                *)
(*                                                                         *)
(* Every fopen, pipe or fdopen makes a stream with a number of its own.    *)
(* The processes are the environment: each ends when it likes, but one     *)
(* that mawk writes to is a filter, which need not end before its input    *)
(* has been closed.  wait(2) delivers the dead in any order.               *)
(*                                                                         *)
(* The model stops, with fault set, when the code closes a stream a second *)
(* time (twice), writes to a closed one (closed), follows a null pointer   *)
(* (null) or finds no child to wait for (bozo).                            *)
(***************************************************************************)
EXTENDS Integers, Sequences, FiniteSets, SequencesExt

CONSTANTS Names,         \* the names the program uses
          Kinds,         \* bound: the types it opens
          Stdin, Stdout, Stderr,
          Pids,          \* process ids the system hands out
          Reuse,         \* whether it hands out the id of a reaped process
          Statuses,      \* exit statuses
          MaxOpen        \* bound: streams opened

ASSUME FilesAssumption ==
    /\ Kinds \subseteq {"F_IN", "PIPE_IN", "PIPE_OUT", "F_APPEND", "F_TRUNC"}
    /\ Pids \subseteq Nat \ {0} /\ Reuse \in BOOLEAN /\ MaxOpen \in Nat
    /\ Cardinality({Stdin, Stdout, Stderr}) = 3

VARIABLES file_list,     \* nodes [id, name, type, pid, ptr]
          child_list,    \* dead children nobody asked for yet, <<pid, status>>
          procs,         \* ghost of the system: the children, by stream
          used,          \* process ids handed out before
          dirty,         \* streams with buffered output
          closed,        \* streams closed
          op,            \* what the interpreter is doing
          last,          \* number of the last stream opened
          out,           \* the stream and the status a wait brought
          fault

vars == <<file_list, child_list, procs, used, dirty, closed, op, last, out, fault>>

Pipes   == {"PIPE_OUT", "PIPE_IN"}
IS_OUTPUT(type) == type \in {"PIPE_OUT", "F_APPEND", "F_TRUNC"}
Types   == {"F_IN", "PIPE_IN", "PIPE_OUT", "F_APPEND", "F_TRUNC"}
Nothing == <<"none">>

NoPid == 0
JunkPid == -1              \* what wait() returns when there is no child

Node(id, name, type, pid) == [id |-> id, name |-> name, type |-> type,
                              pid |-> pid, ptr |-> "open"]

\* set_stdio
Init == /\ file_list = << [Node(0, Stdin, "F_IN", NoPid) EXCEPT !.ptr = "null"],
                          Node(1, Stdout, "F_TRUNC", NoPid),
                          Node(2, Stderr, "F_TRUNC", NoPid) >>
        /\ child_list = <<>> /\ procs = <<>> /\ used = {}
        /\ dirty = {} /\ closed = {}
        /\ op = [do |-> "run"] /\ last = 2
        /\ out = Nothing /\ fault = "none"

Idle == op = [do |-> "run"] /\ fault = "none"

\* one of the streams of a name and a type; append and truncate are the same
SameType(type1, type2) == type1 = type2             \* a variant
Same(type1, type2) == type1 = type2 \/ {type1, type2} \subseteq {"F_APPEND", "F_TRUNC"}

Hits(name, type) ==
    {i \in DOMAIN file_list : /\ file_list[i].name = name
                              /\ file_list[i].ptr # "null"
                              /\ Same(file_list[i].type, type)}
First(S) == CHOOSE i \in S : \A j \in S : i <= j

FoundList(i) == <<file_list[i]>> \o RemoveAt(file_list, i)

OpenedList(name, type, pid) == <<Node(last + 1, name, type, pid)>> \o file_list

\* a process for the pipe just opened
Free(pid) == /\ \A s \in DOMAIN procs : procs[s].st \in {"run", "zombie"} => procs[s].pid # pid
             /\ Reuse \/ pid \notin used
Fork(pid) ==
    /\ Free(pid) /\ used' = used \cup {pid}
    /\ procs' = [s \in DOMAIN procs \cup {last + 1} |->
                   IF s = last + 1
                   THEN [pid |-> pid, st |-> "run", status |-> 0, quiet |-> FALSE]
                   ELSE procs[s]]

-----------------------------------------------------------------------------
(* file_find, as print and getline use it                                  *)

\* the stream is there: move its node to the front
Find(name, type) ==
    /\ Hits(name, type) # {}
    /\ file_list' = FoundList(First(Hits(name, type)))
    /\ UNCHANGED <<procs, used, last>>

\* it is not: open it and put it at the front
Open(name, type) ==
    /\ Hits(name, type) = {} /\ last < MaxOpen + 2 /\ last' = last + 1
    /\ type \in Pipes => {1, 2} \cap closed = {}
    /\ IF type \in Pipes
       THEN \E pid \in Pids : /\ Fork(pid)
                              /\ file_list' = OpenedList(name, type, pid)
       ELSE file_list' = OpenedList(name, type, NoPid) /\ UNCHANGED <<procs, used>>

file_find(name, type) == Find(name, type) \/ Open(name, type)

\* print > name, print | name.  get_pipe flushes the standard streams.
PrintTo(name, type) ==
    /\ Idle /\ IS_OUTPUT(type) /\ file_find(name, type)
    /\ dirty' = (IF type = "PIPE_OUT" /\ last' # last THEN dirty \ {1, 2} ELSE dirty)
                \cup {file_list'[1].id}
    /\ out' = Nothing
    /\ UNCHANGED <<child_list, closed, op, fault>>

\* print without redirection and fflush() go to stdout, open or not
OnStdout(streams) ==
    /\ Idle
    /\ IF 1 \in closed THEN fault' = "closed" /\ UNCHANGED <<dirty, out>>
       ELSE dirty' = streams /\ out' = Nothing /\ UNCHANGED fault
    /\ UNCHANGED <<file_list, child_list, procs, used, closed, op, last>>

PrintStdout == OnStdout(dirty \cup {1})
FlushStdout == OnStdout(dirty \ {1})

\* an output cannot be opened: exit 2.  An input cannot: getline says -1, or
\* exit 2 when there are too many files (EMFILE).
OpenFails(name, type) ==
    /\ Idle /\ Hits(name, type) = {}
    /\ \/ op' = [do |-> "exit", at |-> 1] /\ UNCHANGED out
       \/ ~IS_OUTPUT(type) /\ out' = Nothing /\ UNCHANGED op
    /\ dirty' \in {dirty} \cup (IF type \in Pipes THEN {dirty \ {1, 2}} ELSE {})
    /\ UNCHANGED <<file_list, child_list, procs, used, closed, last, fault>>

\* get_pipe flushes the standard streams, whether they are open or not
PipeFlushesClosed(name, type) ==
    /\ Idle /\ type \in Pipes /\ Hits(name, type) = {} /\ {1, 2} \cap closed # {}
    /\ fault' = "closed"
    /\ UNCHANGED <<file_list, child_list, procs, used, dirty, closed, op, last, out>>

\* getline from a file or a pipe finds a record
GetRecord(name, type) ==
    /\ Idle /\ ~IS_OUTPUT(type) /\ file_find(name, type)
    /\ file_list'[1].ptr = "open"
    /\ dirty' = IF type = "PIPE_IN" /\ last' # last THEN dirty \ {1, 2} ELSE dirty
    /\ out' = Nothing
    /\ UNCHANGED <<child_list, closed, op, fault>>

\* getline from a stream already closed, or one at its end: FINsemi_close, and for a pipe wait_for(0)
GetEof(name, type) ==
    LET i == First(Hits(name, type))
        n == file_list[i]
    IN /\ Idle /\ ~IS_OUTPUT(type) /\ Hits(name, type) # {}
       /\ type = "PIPE_IN" => (procs[n.id].st # "run" \/ procs[n.id].quiet)
       /\ file_list' = <<[n EXCEPT !.ptr = "semi"]>> \o RemoveAt(file_list, i)
       /\ IF type = "PIPE_IN"
          THEN op' = [do |-> "wait", pid |-> 0, id |-> n.id, then |-> [do |-> "run"],
                      what |-> "getline"] /\ UNCHANGED out
          ELSE out' = Nothing /\ UNCHANGED op
       /\ UNCHANGED <<child_list, procs, used, dirty, closed, last, fault>>

-----------------------------------------------------------------------------
(* wait_for(pid), pid = 0 for any child                                    *)

Waiting == op.do = "wait" /\ fault = "none"

DoneAgain(status) ==                             \* a variant: getline waits on
    /\ op' = IF op.pid = 0 THEN op ELSE op.then
    /\ out' = <<op.what, op.id, status>>
Done(status) == op' = op.then /\ out' = <<op.what, op.id, status>>

AnyRemembered == DOMAIN child_list               \* a variant: whose is not asked
Remembered == {i \in DOMAIN child_list : child_list[i][1] = op.pid}

NotAdded(s) == child_list                        \* a variant
add_to_child_list(s) == <<<<procs[s].pid, procs[s].status>>>> \o child_list

\* an earlier wait() caught our child
WaitRemembered ==
    /\ Waiting /\ op.pid # 0 /\ Remembered # {}
    /\ LET i == First(Remembered)
       IN Done(child_list[i][2]) /\ child_list' = RemoveAt(child_list, i)
    /\ UNCHANGED <<file_list, procs, used, dirty, closed, last, fault>>

\* wait(2) delivers a dead child: ours, or one for the list
WaitReaps(s) ==
    /\ Waiting /\ (op.pid # 0 => Remembered = {})
    /\ procs[s].st = "zombie"
    /\ procs' = [procs EXCEPT ![s].st = "reaped"]
    /\ IF procs[s].pid = op.pid
       THEN Done(procs[s].status) /\ UNCHANGED child_list
       ELSE /\ child_list' = add_to_child_list(s)
            /\ IF op.pid = 0 THEN Done(0) ELSE UNCHANGED <<op, out>>
    /\ UNCHANGED <<file_list, used, dirty, closed, last, fault>>

\* wait(2) fails: no child is left.  Junk that is listed twice says no more.
WaitNobody ==
    /\ Waiting /\ (op.pid # 0 => Remembered = {})
    /\ \A s \in DOMAIN procs : procs[s].st = "reaped"
    /\ IF op.pid = 0
       THEN /\ Done(0) /\ UNCHANGED fault
            /\ child_list' = IF Contains(child_list, <<JunkPid, 0>>) THEN child_list
                             ELSE <<<<JunkPid, 0>>>> \o child_list
       ELSE fault' = "bozo" /\ UNCHANGED <<op, out, child_list>>
    /\ UNCHANGED <<file_list, procs, used, dirty, closed, last>>

Wait == WaitRemembered \/ WaitNobody \/ \E s \in DOMAIN procs : WaitReaps(s)

-----------------------------------------------------------------------------
(* close(name): every node of that name                                    *)

StartClose(name) ==
    /\ Idle /\ op' = [do |-> "close", name |-> name] /\ out' = Nothing
    /\ UNCHANGED <<file_list, child_list, procs, used, dirty, closed, last, fault>>

Named(name) == {i \in DOMAIN file_list : file_list[i].name = name}
Closing == op.do = "close" /\ fault = "none"

Exit == op' = [do |-> "exit", at |-> 1]

Freed(i) == RemoveAt(file_list, i)

\* the stream of node n is closed; it may fail if there is output to write
Closed(n) == closed' = closed \cup {n.id} /\ dirty' = dirty \ {n.id}

CloseNode ==
    LET i == First(Named(op.name))
        n == file_list[i]
    IN /\ Closing /\ Named(op.name) # {}
       /\ IF n.ptr = "null"
          THEN fault' = "null" /\ UNCHANGED <<file_list, dirty, closed, op, out>>
          ELSE /\ file_list' = Freed(i) /\ Closed(n) /\ UNCHANGED fault
               /\ IF n.type \in Pipes
                  THEN /\ op' = [do |-> "wait", pid |-> n.pid, id |-> n.id,
                                 then |-> op, what |-> "close"]
                       /\ UNCHANGED out
                  ELSE out' = <<"close", n.id, 0>> /\ UNCHANGED op
       /\ UNCHANGED <<child_list, procs, used, last>>

\* close_error: exit 2
CloseFails ==
    LET i == First(Named(op.name))
    IN /\ Closing /\ Named(op.name) # {} /\ file_list[i].id \in dirty
       /\ file_list' = Freed(i) /\ Closed(file_list[i]) /\ Exit
       /\ UNCHANGED <<child_list, procs, used, last, out, fault>>

CloseReturns == /\ Closing /\ Named(op.name) = {} /\ op' = [do |-> "run"]
                /\ UNCHANGED <<file_list, child_list, procs, used, dirty, closed, last, out, fault>>

\* fflush(name): every output of that name; all of them for ""
Flush(S) ==
    LET outputs == {n \in S : IS_OUTPUT(n.type)}
    IN /\ Idle /\ dirty' = dirty \ {n.id : n \in outputs}
       /\ out' = Nothing
       /\ UNCHANGED <<file_list, child_list, procs, used, closed, op, last, fault>>

file_flush(name) == Flush({file_list[i] : i \in Named(name)})
flush_all_output == Flush(ToSet(file_list))

-----------------------------------------------------------------------------
(* mawk_exit: close_out_pipes walks the list and closes all output         *)

StartExit == /\ Idle /\ Exit
             /\ UNCHANGED <<file_list, child_list, procs, used, dirty, closed, last, out, fault>>

Exiting == op.do = "exit" /\ fault = "none"
Here == file_list[op.at]
Onward == [op EXCEPT !.at = @ + 1]

AfterCloseOnly(n) == Onward                      \* a variant: nobody is waited for
AfterClose(n) ==
    IF n.type = "PIPE_OUT"
    THEN [do |-> "wait", pid |-> n.pid, id |-> n.id, then |-> Onward, what |-> "exit"]
    ELSE Onward

ExitNode ==
    /\ Exiting /\ op.at <= Len(file_list)
    /\ IF ~IS_OUTPUT(Here.type) THEN op' = Onward /\ UNCHANGED <<dirty, closed, fault>>
       ELSE IF Here.id \in closed
       THEN fault' = "twice" /\ UNCHANGED <<dirty, closed, op>>
       ELSE /\ Closed(Here) /\ UNCHANGED fault
            /\ op' = AfterClose(Here)
    /\ UNCHANGED <<file_list, child_list, procs, used, last, out>>

\* the failing node leaves the list and close_error calls mawk_exit again
ExitFails ==
    /\ Exiting /\ op.at <= Len(file_list)
    /\ IS_OUTPUT(Here.type) /\ Here.id \in dirty
    /\ Closed(Here) /\ file_list' = RemoveAt(file_list, op.at) /\ Exit
    /\ UNCHANGED <<child_list, procs, used, last, out, fault>>

Exited == /\ Exiting /\ op.at > Len(file_list) /\ op' = [do |-> "gone"]
          /\ UNCHANGED <<file_list, child_list, procs, used, dirty, closed, last, out, fault>>

-----------------------------------------------------------------------------
(* The children                                                            *)

Writes(s) == \E i \in DOMAIN file_list :
                file_list[i].id = s /\ file_list[i].type = "PIPE_IN"
Filter(s) == s \notin closed /\ ~Writes(s)     \* its input is still open

ChildUnchanged == UNCHANGED <<file_list, child_list, used, dirty, closed, op, last, out, fault>>

\* a process closes its output and goes on
ChildQuiet(s) ==
    /\ procs[s].st = "run" /\ ~procs[s].quiet /\ Writes(s)
    /\ procs' = [procs EXCEPT ![s].quiet = TRUE]
    /\ ChildUnchanged

ChildExits(s) ==
    /\ procs[s].st = "run"
    /\ \E status \in Statuses :
          procs' = [procs EXCEPT ![s].st = "zombie", ![s].status = status]
    /\ ChildUnchanged

Child == \E s \in DOMAIN procs : ChildQuiet(s) \/ ChildExits(s)

Mawk == CloseNode \/ CloseReturns \/ ExitNode \/ Exited \/ Wait
Errors == CloseFails \/ ExitFails

Next == \/ \E name \in Names :
              \/ \E type \in Kinds : \/ PrintTo(name, type) \/ GetRecord(name, type)
                                     \/ GetEof(name, type) \/ OpenFails(name, type)
                                     \/ PipeFlushesClosed(name, type)
              \/ StartClose(name) \/ file_flush(name)
        \/ PrintStdout \/ FlushStdout \/ flush_all_output \/ StartExit
        \/ Mawk \/ Errors \/ Child

Spec == Init /\ [][Next]_vars

\* the interpreter goes on, and every process ends some time after it may
FairSpec ==
    /\ Spec /\ WF_vars(Mawk)
    /\ \A s \in 3..MaxOpen + 2 : WF_vars(s \in DOMAIN procs /\ ~Filter(s) /\ ChildExits(s))

-----------------------------------------------------------------------------
(* Properties                                                              *)

\* The types files.c gives its data.
TypeOK ==
    /\ \A i \in DOMAIN file_list :
          /\ file_list[i].type \in Types /\ file_list[i].id \in 0..last
          /\ file_list[i].pid \in IF file_list[i].type \in Pipes THEN Pids ELSE {NoPid}
          /\ file_list[i].ptr \in {"open", "semi", "null"}
    /\ \A i \in DOMAIN child_list : child_list[i][1] \in Pids \cup {JunkPid}
    /\ dirty \cup closed \subseteq 0..last /\ DOMAIN procs \subseteq 3..last
    /\ op.do \in {"run", "wait", "close", "exit", "gone"}
    /\ fault \in {"none", "twice", "closed", "null", "bozo"}

\* "Redirection opens file or command only once, subsequent redirections append
\* to the already open stream" (mawk(1)): no two nodes answer the same lookup,
\* and no node but those of the exit walk has a closed stream.
OneStreamPerName ==
    /\ \A i, j \in DOMAIN file_list :
          (i # j /\ file_list[i].name = file_list[j].name /\ file_list[i].ptr # "null"
                 /\ file_list[j].ptr # "null") =>
              /\ file_list[i].type # file_list[j].type
              /\ {file_list[i].type, file_list[j].type} # {"F_APPEND", "F_TRUNC"}
    /\ op.do \in {"run", "close"} => \A i \in DOMAIN file_list : file_list[i].id \notin closed
StreamsConsistent == TypeOK /\ OneStreamPerName

\* The status of every child can still be had by the close of its pipe: it is
\* running, or dead and not waited for, or once on the list of the dead; so
\* wait() by one pipe, by getline or by close, never loses the child of another,
\* and finds its own ("can't happen", files.c:570, does not).
ChildrenAccounted ==
    /\ fault # "bozo"
    /\ op.do \in {"run", "close"} =>
        \A i \in DOMAIN file_list :
            LET n == file_list[i]
                remembered == {j \in DOMAIN child_list : child_list[j][1] = n.pid}
            IN n.type \in Pipes =>
                 IF procs[n.id].st = "reaped"
                 THEN Cardinality(remembered) = 1 /\
                      \A j \in remembered : child_list[j][2] = procs[n.id].status
                 ELSE remembered = {}

\* close() of a command returns its exit status, after it has ended: "make sure
\* the other end of an output pipe is finished" (mawk(1)).
CloseGetsItsStatus ==
    (out[1] \in {"close", "exit"} /\ out[2] \in DOMAIN procs) =>
        procs[out[2]].st = "reaped" /\ procs[out[2]].status = out[3]

\* A program that leaves has written all its output, and the commands it wrote
\* to are through, except for a stream whose close failed: its node is off the list.
ExitFinishes ==
    op.do = "gone" =>
        \A i \in DOMAIN file_list :
            file_list[i].type \notin {"F_IN", "PIPE_IN"} =>
                /\ file_list[i].id \in closed \ dirty
                /\ file_list[i].type = "PIPE_OUT" => procs[file_list[i].id].st = "reaped"

CloseEnds == op.do = "close" ~> (op.do \in {"run", "exit"} \/ fault # "none")
ExitEnds  == op.do = "exit" ~> (op.do = "gone" \/ fault # "none")

OnlyFilters ==
    LET running == {s \in DOMAIN procs : procs[s].st = "run"}
    IN running # {} /\ \A s \in DOMAIN procs : procs[s].st # "zombie" /\ (s \in running => Filter(s))
GetlineReturns == (op.do = "wait" /\ op.pid = 0) ~> (op.do # "wait" \/ OnlyFilters)

\* Whatever waits comes back: close() and exit, with all the streams of a name
\* or all output to close and failures in between; and getline at the end of a
\* command, which waits for any child (bi_getline, wait_for), unless all that
\* runs are filters waiting for mawk in turn.
WaitingEnds == CloseEnds /\ ExitEnds /\ GetlineReturns
=============================================================================
