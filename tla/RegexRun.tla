------------------------------ MODULE RegexRun ------------------------------
(***************************************************************************)
(* Running a compiled regular expression over a subject string: REtest,    *)
(* rexp2.c, which says whether there is a match, and REmatch, rexp3.c,     *)
(* which finds where.  Both backtrack with a run stack of saved threads    *)
(* and keep the positions at which the rounds of loops began on a second   *)
(* stack, which the threads share: an entry is owned by the height of the  *)
(* run stack at which it was pushed.  Positions count from 0; states of    *)
(* the machine from 1.                                                     *)
(***************************************************************************)
EXTENDS RegexCompile

CONSTANTS PosCap     \* entries of the position stack in use at most (it grows)

ASSUME PosCapAssumption == PosCap \in Nat

VARIABLES call,      \* [fn, subject, no_bol]; fn is "none" before a call
          pc,        \* "switch", "refill", "returned"
          m, s, u,   \* the state, the position and u_flag
          ss, cb,    \* REmatch: start of this thread or -1; best [ss, e]
          run,       \* the run stack: saved threads
          pos, pt,   \* the position stack and pos_entry
          cnt,       \* it_cnt of the LOOP states
          loops,     \* loop_stack of REtest: the ENTER states
          result,    \* [found, at, len]
          repeated,  \* history: REmatch stopped at a match it had already
          open       \* history: this thread's own stack of round starts

runVars == <<call, pc, m, s, u, ss, cb, run, pos, pt, cnt, loops, result, repeated, open>>
regexVars == <<compileVars, runVars>>

NoPos == -1
StrEnd == Len(call.subject)
here == Machine[m]
Blank == [pos |-> NoPos, owner |-> -2, prev |-> 0]
NoResult == [found |-> FALSE, at |-> NoPos, len |-> 0]

RunInit ==
    /\ call = [fn |-> "none", subject |-> <<>>, no_bol |-> FALSE]
    /\ pc = "returned"
    /\ m = 1 /\ s = 0 /\ u = TRUE
    /\ ss = NoPos /\ cb = [ss |-> NoPos, e |-> NoPos]
    /\ run = <<>>
    /\ pos = [k \in 0..PosCap |-> IF k = 0 THEN [pos |-> NoPos, owner |-> -1, prev |-> 0] ELSE Blank]
    /\ pt = 0
    /\ cnt = <<>> /\ loops = <<>>
    /\ result = NoResult
    /\ repeated = FALSE /\ open = <<>>

-----------------------------------------------------------------------------
(* What the two functions share.                                            *)
OccursAt(cs, str, p) ==
    p + Len(cs) <= Len(str) /\ \A k \in 1..Len(cs) : str[p + k] = cs[k]
Width(st) == IF st.op = "STR" THEN Len(st.str) ELSE 1
Fits(st, p) ==
    /\ p + Width(st) <= StrEnd
    /\ CASE st.op = "STR"   -> OccursAt(st.str, call.subject, p)
         [] st.op = "CLASS" -> call.subject[p + 1] \in st.set
         [] OTHER           -> TRUE

\* Where the operand can match: here, or when u_flag is on at the first place
\* from here, or at the very end when it carries END_ON.
Places(st, p) ==
    IF ~u THEN {k \in {p} : Fits(st, k) /\ (st.end => k + Width(st) = StrEnd)}
    ELSE IF st.end THEN {k \in {StrEnd - Width(st)} : k >= p /\ Fits(st, k)}
    ELSE LET all == {k \in p..StrEnd : Fits(st, k)}
         IN  {k \in all : \A j \in all : k <= j}

\* rt_push
Thread(mx, sx, ssx, ux) == [m |-> mx, s |-> sx, ss |-> ssx, u |-> ux, pos |-> pt,
                            top |-> pos[pt].prev, open |-> open]
Owner == Len(run) - 1
Prev2 == pt - pos[pt].prev

\* The easy case of both: a single string is looked for with str_str.
SingleString == Len(Machine) = 2 /\ Machine[1].op = "STR" /\ ~Machine[1].end
Call(fn, str, bol) ==
    LET found == {k \in 0..Len(str) : OccursAt(Machine[1].str, str, k)}
        first == CHOOSE k \in found : \A j \in found : k <= j
    IN  /\ status = "done" /\ pc = "returned"
        /\ call' = [fn |-> fn, subject |-> str, no_bol |-> bol]
        /\ m' = 1 /\ s' = 0 /\ u' = TRUE
        /\ ss' = NoPos /\ cb' = [ss |-> NoPos, e |-> NoPos]
        /\ run' = <<>> /\ pt' = 0 /\ loops' = <<>> /\ open' = <<>>
        /\ cnt' = [k \in 1..Len(Machine) |-> 0]
        /\ repeated' = FALSE
        /\ IF SingleString
           THEN /\ pc' = "returned"
                /\ result' = IF found = {} THEN NoResult
                             ELSE [found |-> TRUE, at |-> first, len |-> Len(Machine[1].str)]
           ELSE pc' = "switch" /\ result' = NoResult
        /\ UNCHANGED <<compileVars, pos>>

Running(fn, ops) == pc = "switch" /\ call.fn = fn /\ here.op \in ops
Unless(refill) == pc' = IF refill THEN "refill" ELSE "switch"
Return(r) == pc' = "returned" /\ result' = r
Fixed == UNCHANGED <<compileVars, call>>

\* a variant: the entry is not owned by the present height of the run stack
SavePosUnowned ==
    /\ pc = "switch" /\ here.op = "SAVE_POS"
    /\ pt < PosCap
    /\ pos' = [pos EXCEPT ![pt].pos = s, ![pt].owner = 0, ![pt + 1].prev = 1]
    /\ pt' = pt + 1
    /\ open' = Append(open, s)
    /\ m' = m + 1
    /\ UNCHANGED <<pc, s, u, ss, cb, run, cnt, loops, result, repeated>> /\ Fixed
\* SAVE_POS, alike in both: pos_push.
SavePos ==
    /\ pc = "switch" /\ here.op = "SAVE_POS"
    /\ pt < PosCap
    /\ pos' = [pos EXCEPT ![pt].pos = s, ![pt].owner = Owner, ![pt + 1].prev = 1]
    /\ pt' = pt + 1
    /\ open' = Append(open, s)
    /\ m' = m + 1
    /\ UNCHANGED <<pc, s, u, ss, cb, run, cnt, loops, result, repeated>> /\ Fixed

\* pos_pop: the entry leaves the stack only when no thread was saved since it
\* was pushed; otherwise it is skipped from now on.
PopPos ==
    /\ IF pos[Prev2].owner = Owner
       THEN pt' = Prev2 /\ pos' = pos
       ELSE pt' = pt /\ pos' = [pos EXCEPT ![pt].prev = @ + pos[Prev2].prev]
    /\ open' = IF open = <<>> THEN open ELSE Front(open)
Unbalanced == pos[Prev2].owner # Owner /\ Prev2 = pt

\* A thread saved after pos_pop: the stacks are the popped ones.
PoppedThread(mx) ==
    [m |-> mx, s |-> s, ss |-> ss, u |-> u, pos |-> pt', top |-> pos'[pt'].prev, open |-> open']

JumpAlways ==
    /\ pc = "switch" /\ here.op = "1J"
    /\ m' = m + here.jump
    /\ UNCHANGED <<pc, s, u, ss, cb, run, pos, pt, cnt, loops, result, repeated, open>> /\ Fixed

-----------------------------------------------------------------------------
(* REmatch.                                                                 *)
\* a variant: a match that starts where the best one does is given up as well
CurrentBestEager(n) == cb.ss # NoPos /\ cb.ss <= n
\* A match that starts at n cannot be better than the best one.
CurrentBest(n) == cb.ss # NoPos /\ (cb.ss < n \/ (cb.e = StrEnd /\ cb.ss = n))

MatchOperand ==
    /\ Running("REmatch", {"STR", "CLASS", "ANY"})
    /\ LET at == Places(here, s)
           k  == CHOOSE j \in at : TRUE
           no == at = {} \/ (ss = NoPos /\ CurrentBest(k))
       IN  /\ Unless(no)
           /\ run' = IF u /\ ~here.end /\ at # {} THEN Append(run, Thread(m, k + 1, ss, TRUE)) ELSE run
           /\ m' = IF no THEN m ELSE m + 1
           /\ s' = IF no THEN s ELSE k + Width(here)
           /\ ss' = IF no \/ ss # NoPos THEN ss ELSE k
           /\ u' = (u /\ no)
    /\ UNCHANGED <<cb, pos, pt, cnt, loops, result, repeated, open>> /\ Fixed

MatchStart ==
    /\ Running("REmatch", {"START"})
    /\ LET no == s # 0 \/ call.no_bol \/ (here.end /\ s < StrEnd)
       IN  /\ Unless(no)
           /\ m' = IF no THEN m ELSE m + 1
           /\ s' = IF no THEN s ELSE IF here.end THEN 1 ELSE 0
           /\ ss' = IF no THEN ss ELSE 0
           /\ u' = (u /\ no)
    /\ UNCHANGED <<cb, run, pos, pt, cnt, loops, result, repeated, open>> /\ Fixed

MatchEnd ==
    /\ Running("REmatch", {"END"})
    /\ LET late == s >= StrEnd
           no == IF ~u THEN s # StrEnd \/ (ss = NoPos /\ cb.ss # NoPos)
                 ELSE IF late THEN CurrentBest(s) ELSE ss = NoPos /\ cb.ss # NoPos
       IN  /\ Unless(no)
           /\ m' = IF no THEN m ELSE m + 1
           /\ s' = IF no THEN s ELSE StrEnd
           /\ ss' = IF no \/ ss # NoPos \/ (u /\ late) THEN ss ELSE StrEnd
           /\ u' = (u /\ no)
    /\ UNCHANGED <<cb, run, pos, pt, cnt, loops, result, repeated, open>> /\ Fixed

MatchAnything ==
    /\ Running("REmatch", {"U"})
    /\ LET no == ss = NoPos /\ CurrentBest(s)
       IN  /\ Unless(no)
           /\ m' = IF no THEN m ELSE m + 1
           /\ ss' = IF no \/ ss # NoPos THEN ss ELSE s
           /\ u' = (u \/ ~no)
    /\ UNCHANGED <<s, cb, run, pos, pt, cnt, loops, result, repeated, open>> /\ Fixed

\* 2JA and 2JB differ in name only: the thread at the jump is saved.
MatchFork ==
    /\ Running("REmatch", {"2JA", "2JB"})
    /\ run' = Append(run, Thread(m + here.jump, s, ss, u))
    /\ m' = m + 1
    /\ UNCHANGED <<pc, s, u, ss, cb, pos, pt, cnt, loops, result, repeated, open>> /\ Fixed

MatchEnter ==
    /\ Running("REmatch", {"ENTER"})
    /\ cnt' = [cnt EXCEPT ![m + here.jump] = 0]
    /\ m' = m + 1
    /\ UNCHANGED <<pc, s, u, ss, cb, run, pos, pt, loops, result, repeated, open>> /\ Fixed

\* The end of a counted loop: at the limit it goes on without a pop, below
\* the minimum back without one, and otherwise as 2JC does.
MatchAtLimit ==
    /\ Running("REmatch", {"LOOP"})
    /\ LET n == cnt[m] + 1
           full == here.hi < MaxInt /\ n >= here.hi
       IN  /\ full \/ n < here.lo
           /\ cnt' = [cnt EXCEPT ![m] = n]
           /\ m' = IF full THEN m + 1 ELSE m + here.jump
    /\ UNCHANGED <<pc, s, u, ss, cb, run, pos, pt, loops, result, repeated, open>> /\ Fixed

MatchRound ==
    /\ Running("REmatch", {"2JC", "LOOP"})
    /\ LET n == cnt[m] + 1
       IN  /\ here.op = "LOOP" => ~(here.hi < MaxInt /\ n >= here.hi) /\ n >= here.lo
           /\ cnt' = IF here.op = "LOOP" THEN [cnt EXCEPT ![m] = n] ELSE cnt
    /\ ~Unbalanced
    /\ PopPos
    /\ IF pos[Prev2].pos = s
       THEN m' = m + 1 /\ run' = run
       ELSE m' = m + here.jump /\ run' = Append(run, PoppedThread(m + 1))
    /\ UNCHANGED <<pc, s, u, ss, cb, loops, result, repeated>> /\ Fixed

\* a variant: the thread is resumed and stays on the stack
PopThreadKept == run' = run
\* rt_pop
PopThread == run' = Front(run)

\* RE_TURN
MatchResult(best) == [found |-> best.ss # NoPos, at |-> best.ss,
                      len |-> IF best.ss = NoPos THEN 0 ELSE best.e - best.ss]

\* The end of the machine.  A thread that ends where the best match is found
\* already makes REmatch return at once.
MatchAccept ==
    /\ Running("REmatch", {"ACCEPT"})
    /\ LET a == IF ss # NoPos THEN ss ELSE IF s >= StrEnd THEN StrEnd ELSE s
           e == IF s >= StrEnd \/ (u /\ ss # NoPos) THEN StrEnd ELSE s
           better == cb.ss = NoPos \/ a < cb.ss \/ (a = cb.ss /\ e > cb.e)
           again == ~u /\ ~better /\ a = cb.ss /\ e = cb.e
       IN  /\ cb' = IF better THEN [ss |-> a, e |-> e] ELSE cb
           /\ repeated' = again
           /\ IF again THEN Return(MatchResult(cb)) ELSE pc' = "refill" /\ UNCHANGED result
    /\ UNCHANGED <<m, s, u, ss, run, pos, pt, cnt, loops, open>> /\ Fixed

MatchRefill ==
    /\ pc = "refill" /\ call.fn = "REmatch"
    /\ IF run = <<>>
       THEN /\ Return(MatchResult(cb))
            /\ UNCHANGED <<m, s, u, ss, run, pos, pt, open>>
       ELSE LET t == Last(run)
                late == CurrentBest(IF t.ss = NoPos THEN t.s ELSE t.ss)
            IN  /\ PopThread
                /\ ss' = t.ss /\ s' = t.s
                /\ Unless(late)
                /\ IF late THEN UNCHANGED <<m, u, pos, pt, open>>
                   ELSE /\ m' = t.m /\ u' = t.u /\ pt' = t.pos /\ open' = t.open
                        /\ pos' = [pos EXCEPT ![t.pos].prev = t.top]
                /\ UNCHANGED result
    /\ UNCHANGED <<cb, cnt, loops, repeated>> /\ Fixed

MatchStep == \/ MatchOperand \/ MatchStart \/ MatchEnd \/ MatchAnything \/ MatchFork
             \/ MatchEnter \/ MatchAtLimit \/ MatchRound \/ MatchAccept \/ MatchRefill

-----------------------------------------------------------------------------
(* REtest: no start to keep, and a thread that would start at ACCEPT makes  *)
(* it succeed at once.                                                      *)
Yes == [found |-> TRUE, at |-> NoPos, len |-> 0]
TestFrame == UNCHANGED <<ss, cb, repeated>> /\ Fixed

TestOperand ==
    /\ Running("REtest", {"STR", "CLASS", "ANY"})
    /\ LET at == Places(here, s)
           k  == CHOOSE j \in at : TRUE
       IN  /\ Unless(at = {})
           /\ run' = IF u /\ ~here.end /\ at # {} THEN Append(run, Thread(m, k + 1, ss, TRUE)) ELSE run
           /\ m' = IF at = {} THEN m ELSE m + 1
           /\ s' = IF at = {} THEN s ELSE k + Width(here)
           /\ u' = (u /\ at = {})
    /\ UNCHANGED <<pos, pt, cnt, loops, result, open>> /\ TestFrame

TestAnchor ==
    /\ Running("REtest", {"START", "END"})
    /\ LET no == IF here.op = "START" THEN s # 0 \/ (here.end /\ s < StrEnd)
                 ELSE ~u /\ s < StrEnd
       IN  /\ Unless(no)
           /\ m' = IF no THEN m ELSE m + 1
           /\ s' = IF here.op = "END" /\ u THEN StrEnd ELSE s
           /\ u' = (u /\ no)
    /\ UNCHANGED <<run, pos, pt, cnt, loops, result, open>> /\ TestFrame

TestAnything ==
    /\ Running("REtest", {"U"})
    /\ u' = TRUE
    /\ m' = m + 1
    /\ UNCHANGED <<pc, s, run, pos, pt, cnt, loops, result, open>> /\ TestFrame

\* 2JA saves the jump and goes on; 2JB saves what follows and jumps.
TestFork ==
    /\ Running("REtest", {"2JA", "2JB"})
    /\ LET over == IF here.op = "2JA" THEN m + here.jump ELSE m + 1
           next == IF here.op = "2JA" THEN m + 1 ELSE m + here.jump
       IN  IF Machine[over].op = "ACCEPT"
           THEN Return(Yes) /\ UNCHANGED <<m, run>>
           ELSE run' = Append(run, Thread(over, s, ss, u)) /\ m' = next /\ UNCHANGED <<pc, result>>
    /\ UNCHANGED <<s, u, pos, pt, cnt, loops, open>> /\ TestFrame

\* The level of an ENTER state, set by markup_loop_levels.
Level(k) == Cardinality({j \in 1..k : Machine[j].op = "ENTER"})
            - Cardinality({j \in 1..k : Machine[j].op = "LOOP"})

TestEnter ==
    /\ Running("REtest", {"ENTER"})
    /\ cnt' = [cnt EXCEPT ![m + here.jump] = 0]
    /\ loops' = IF Level(m) = Len(loops) THEN loops
                ELSE SubSeq(loops, 1, Level(m) - 1) \o <<m>>
    /\ m' = m + 1
    /\ UNCHANGED <<pc, s, u, run, pos, pt, result, open>> /\ TestFrame

TestRound ==
    /\ Running("REtest", {"2JC", "LOOP"})
    /\ LET n == cnt[m] + 1
       IN  /\ cnt' = IF here.op = "LOOP" THEN [cnt EXCEPT ![m] = n] ELSE cnt
           /\ IF here.op = "LOOP" /\ here.hi < MaxInt /\ n >= here.hi
              THEN m' = m + 1 /\ UNCHANGED <<pc, run, pos, pt, open, result>>
              ELSE /\ ~Unbalanced
                   /\ PopPos
                   /\ IF pos[Prev2].pos = s
                      THEN m' = m + 1 /\ UNCHANGED <<pc, run, result>>
                      ELSE IF Machine[m + 1].op = "ACCEPT"
                      THEN Return(Yes) /\ UNCHANGED <<m, run>>
                      ELSE /\ run' = Append(run, PoppedThread(m + 1))
                           /\ m' = m + here.jump
                           /\ UNCHANGED <<pc, result>>
    /\ UNCHANGED <<s, u, loops>> /\ TestFrame

TestAccept ==
    /\ Running("REtest", {"ACCEPT"})
    /\ Return(Yes)
    /\ UNCHANGED <<m, s, u, run, pos, pt, cnt, loops, open>> /\ TestFrame

\* After a mismatch in a counted loop the thread on top restarts the loop when
\* there were too few rounds, and the loop is left when it starts behind it.
TestRefill ==
    /\ pc = "refill" /\ call.fn = "REtest"
    /\ IF run = <<>>
       THEN /\ Return(NoResult)
            /\ UNCHANGED <<m, s, u, run, pos, pt, loops, open>>
       ELSE LET t     == Last(run)
                enter == IF loops = <<>> THEN 0 ELSE Last(loops)
                loop  == IF loops = <<>> THEN 0 ELSE enter + Machine[enter].jump
                few   == loops # <<>> /\ cnt[loop] < Machine[loop].lo /\ enter < t.m
            IN  /\ m' = IF few THEN enter ELSE t.m
                /\ loops' = IF loops # <<>> /\ ~few /\ t.m > loop THEN Front(loops) ELSE loops
                /\ s' = t.s /\ u' = t.u /\ pt' = t.pos /\ open' = t.open
                /\ pos' = [pos EXCEPT ![t.pos].prev = t.top]
                /\ PopThread
                /\ pc' = "switch"
                /\ UNCHANGED result
    /\ UNCHANGED cnt /\ TestFrame

TestStep == \/ TestOperand \/ TestAnchor \/ TestAnything \/ TestFork \/ TestEnter
            \/ TestRound \/ TestAccept \/ TestRefill

RunStep == SavePos \/ JumpAlways \/ MatchStep \/ TestStep
=============================================================================
