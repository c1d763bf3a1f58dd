--------------------------- MODULE MainInputProofs ---------------------------
(***************************************************************************)
(* Proofs about MainInput: its types, and that a call of FINgets, however  *)
(* many turns of its loops it takes, is one read of AwkMain.  For all      *)
(* files, operands and changes of the operands.                            *)
(***************************************************************************)
EXTENDS MainInput, Facts

-----------------------------------------------------------------------------
(* The types of the data.                                                  *)

FinNames == Names \cup {"semi", "unopened", "dead"}
FinT == [name : FinNames, at : Nat, to : Nat, eof : BOOLEAN]

\* A buffer lies in its file; the standard input is read up to the buffer's end.
FinOK(m, off) ==
    /\ m \in FinT
    /\ m.at <= m.to /\ m.to <= Records(m.name)
    /\ m.eof => m.to = Records(m.name)
    /\ m.name = "-" => m.to = off
    /\ m.name = "semi" => m = Semi
    /\ m.name = "dead" => m = dead_main
    /\ m.name = "unopened" => m = Unopened

Typed ==
    /\ DOMAIN ARGV \subseteq 1..MaxArgs /\ \A i \in DOMAIN ARGV : ARGV[i] \in Args
    /\ ARGC \in 0..MaxArgs + 1 /\ argi \in 1..MaxArgs + 1
    /\ FinOK(main_fin, offset) /\ offset \in 0..Records("-")
    /\ FNR \in Nat /\ NR \in Nat /\ FNR <= NR
    /\ part \in {"BEGIN", "main", "END"} /\ open_flag \in BOOLEAN
    /\ pc \in {"program", "FINgets", "next_main", "exit", "fault"}
    /\ out = "failed" => pc = "exit"
    /\ pc = "next_main" => main_fin = Unopened
    /\ pc = "FINgets" => main_fin # Unopened
    /\ pc = "program" => main_fin # Semi /\ (part = "main" => main_fin # Unopened)
    /\ open_flag => was.main_fin = Unopened

-----------------------------------------------------------------------------
(* What a call has done so far, in terms of the state at the call.         *)

StdinAt(m, off) == IF m.name = "-" THEN m.at ELSE off

\* The operands that the call may come to, and those it has passed.
Ahead      == {i \in was.argi..ARGC - 1 : i \in DOMAIN ARGV}
AheadFiles == {i \in Ahead : ARGV[i] \in Names}
Has(f)     == IF f = "-" THEN StdinAt(was.main_fin, was.offset) < Records("-") ELSE Records(f) > 0
Stop       == {i \in AheadFiles : ARGV[i] \in Absent \/ Has(ARGV[i])}
OnlyStdin  == was.main_fin = Unopened /\ AheadFiles = {}
Opened     == {k \in AheadFiles : k < argi /\ ARGV[k] \notin Absent}
Assigned   == {k \in Ahead : k < argi /\ ARGV[k] \notin Names \cup {null_str}}

\* The records of the file of the call, or of none.
Staying ==
    /\ pc = "FINgets" /\ was.main_fin # Unopened
    /\ main_fin.name = was.main_fin.name /\ main_fin.at = was.main_fin.at
    /\ argi = was.argi /\ v = was.v /\ FILENAME = was.FILENAME /\ FNR = was.FNR

\* Operands were passed, the last of them perhaps to read from it.
Passing ==
    /\ argi > was.argi => argi <= ARGC
    /\ v = IF Assigned = {} THEN was.v ELSE ARGV[Max(Assigned)]
    /\ FILENAME = IF Opened = {} THEN was.FILENAME ELSE ARGV[Max(Opened)]
    /\ FNR = IF Opened = {} THEN was.FNR ELSE 0
    /\ pc = "next_main" => /\ open_flag => Opened = {}
                           /\ ~open_flag => ~OnlyStdin
                           /\ \A k \in Stop : k >= argi
    /\ pc = "FINgets" => IF main_fin = dead_main
                         THEN argi >= ARGC /\ ~OnlyStdin /\ Stop = {}
                         ELSE /\ argi - 1 \in Opened /\ main_fin.name = ARGV[argi - 1]
                              /\ main_fin.name = "-" \/ main_fin.at = 0
                              /\ \A k \in Stop : k >= argi - 1

\* There was no file among them: the standard input is read.
OnStdin ==
    /\ OnlyStdin /\ argi >= ARGC /\ (argi > was.argi => argi = ARGC)
    /\ v = IF Assigned = {} THEN was.v ELSE ARGV[Max(Assigned)]
    /\ FILENAME = "-" /\ FNR = 0
    /\ pc = "next_main" => ~open_flag
    /\ main_fin.name = "-" \/ StdinAt(main_fin, offset) = Records("-")
    /\ main_fin \in {Unopened, dead_main} \/ main_fin.name = "-"

Moved == /\ was.main_fin # dead_main /\ was.main_fin.at = Records(was.main_fin.name)
         /\ \/ Passing
            \/ OnStdin

InTheCall ==
    Calling => /\ FinOK(was.main_fin, was.offset) /\ was.offset \in 0..Records("-")
               /\ was.argi \in 1..argi /\ was.NR = NR
               /\ StdinAt(main_fin, offset) = StdinAt(was.main_fin, was.offset)
               /\ \/ Staying
                  \/ Moved

MainInv == Typed /\ InTheCall

-----------------------------------------------------------------------------
(* The types are kept.                                                     *)

\* The texts of the files are sequences of records.
LEMMA Texts ==
    /\ \A f : Records(f) \in Nat
    /\ \A f \in Names : Text(f) \in Seq(STRING \ {"failed"}) /\ Records(f) = Len(Text(f))
    /\ \A f : Records(f) > 0 => f \in Names
    /\ "-" \in Names /\ Names \cap {"semi", "unopened", "dead"} = {}
  <1>1. ASSUME NEW f \in Names
        PROVE  Text(f) \in Seq(STRING \ {"failed"}) /\ Records(f) = Len(Text(f)) /\ Records(f) \in Nat
    <2>1. Text(f) \in Seq(STRING \ {"failed"})
      BY MainAssumption
    <2>2. Len(Text(f)) \in Nat
      BY <2>1
    <2> QED BY <2>1, <2>2 DEF Records
  <1>2. ASSUME NEW f, f \notin Names PROVE Records(f) = 0
    BY <1>2 DEF Records
  <1>3. "-" \in Names /\ Names \cap {"semi", "unopened", "dead"} = {}
    BY MainAssumption
  <1>4. \A f : Records(f) \in Nat
    BY <1>1, <1>2
  <1> QED BY <1>1, <1>2, <1>3, <1>4

\* The FINs of no file have nothing to read.
LEMMA NoFiles ==
    /\ Semi \in FinT /\ Unopened \in FinT /\ dead_main \in FinT
    /\ Semi # Unopened /\ Semi # dead_main /\ Unopened # dead_main
    /\ \A off : FinOK(Semi, off) /\ FinOK(Unopened, off) /\ FinOK(dead_main, off)
    /\ Records("semi") = 0 /\ Records("unopened") = 0 /\ Records("dead") = 0
  <1>1. Records("semi") = 0 /\ Records("unopened") = 0 /\ Records("dead") = 0
    BY MainAssumption DEF Records
  <1>2. Semi.name = "semi" /\ Unopened.name = "unopened" /\ dead_main.name = "dead"
    BY DEF Semi, Unopened, dead_main
  <1>3. Semi \in FinT /\ Unopened \in FinT /\ dead_main \in FinT
    BY DEF Semi, Unopened, dead_main, FinT, FinNames
  <1> QED BY <1>1, <1>2, <1>3 DEF FinOK, Semi, Unopened, dead_main

\* A FIN that was just opened, on a file or on the standard input.
LEMMA NewFin ==
    ASSUME NEW f \in Names, NEW k \in 0..Records(f), NEW off, f = "-" => k = off
    PROVE  FinOK(Fin(f, k), off) /\ Fin(f, k) \notin {Semi, Unopened, dead_main}
           /\ Fin(f, k).name = f /\ Fin(f, k).at = k /\ Fin(f, k).to = k
  <1>1. Fin(f, k) \in FinT /\ Fin(f, k).name = f /\ Fin(f, k).at = k /\ Fin(f, k).to = k
        /\ Fin(f, k).eof = FALSE
    BY Texts DEF Fin, FinT, FinNames
  <1>2. f \notin {"semi", "unopened", "dead"}
    BY Texts
  <1> HIDE DEF Fin
  <1> QED BY <1>1, <1>2, Texts DEF FinOK, Semi, Unopened, dead_main

\* A FIN with something left, in its buffer or in its file, is of a file.
LEMMA IsAFile ==
    ASSUME NEW off, NEW m, FinOK(m, off), m.at < m.to \/ (~m.eof /\ m # Unopened)
    PROVE  m.name \in Names /\ m \notin {Semi, Unopened, dead_main}
  BY NoFiles, Texts DEF FinOK, FinT, FinNames, Semi, dead_main, Unopened

\* Before the program starts nothing is open and nothing was read.
LEMMA TypedInit == ASSUME Init PROVE Typed
  <1>1. PICK k \in 0..MaxArgs : ARGV \in [1..k -> Args]
    BY DEF Init
  <1>2. DOMAIN ARGV = 1..k /\ \A i \in DOMAIN ARGV : ARGV[i] \in Args
    BY <1>1
  <1>3. ARGC = 1 + k
    BY <1>2, <1>1, MainAssumption DEF Init
  <1>4. DOMAIN ARGV \subseteq 1..MaxArgs /\ ARGC \in 0..MaxArgs + 1
    BY <1>2, <1>3, MainAssumption
  <1>5. /\ argi = 1 /\ main_fin = Unopened /\ offset = 0 /\ FNR = 0 /\ NR = 0 /\ part = "BEGIN"
        /\ pc = "program" /\ open_flag = FALSE /\ out = "none"
    BY DEF Init
  <1>6. argi \in 1..MaxArgs + 1 /\ offset \in 0..Records("-")
    BY <1>5, Texts, MainAssumption
  <1>7. FinOK(main_fin, offset) /\ main_fin # Semi /\ ~open_flag
        /\ FNR \in Nat /\ NR \in Nat /\ FNR <= NR
    BY <1>5, NoFiles
  <1> QED BY <1>2, <1>4, <1>5, <1>6, <1>7 DEF Typed

\* The program keeps the types: it calls, leaves, and changes its operands.
LEMMA TypedProgram == ASSUME Typed, Program PROVE Typed'
  <1>1. ASSUME NEW who, Call(who), UNCHANGED part \/ part' = "main" PROVE Typed'
    <2>1. /\ pc = "program" /\ UNCHANGED <<args, argi, offset, NR, v, out>>
          /\ was'.main_fin = main_fin /\ open_flag' = (main_fin = Unopened /\ ARGC # 1)
          /\ pc' = IF open_flag' THEN "next_main" ELSE "FINgets"
          /\ IF main_fin = Unopened /\ ARGC = 1
             THEN main_fin' = Fin("-", offset) /\ FNR' = 0
             ELSE UNCHANGED <<main_fin, FNR>>
      BY <1>1 DEF Call, Now, set_main_to_stdin
    <2>2. /\ FinOK(Fin("-", offset), offset) /\ Fin("-", offset) # Unopened
      BY Texts, NewFin DEF Typed
    <2>3. /\ FinOK(main_fin', offset') /\ FNR' \in Nat /\ FNR' <= NR'
          /\ pc' = "next_main" => main_fin' = Unopened
          /\ pc' = "FINgets" => main_fin' # Unopened
      <3>1. CASE main_fin = Unopened /\ ARGC = 1
        <4>1. ~open_flag' /\ pc' = "FINgets" /\ main_fin' = Fin("-", offset) /\ FNR' = 0 /\ NR' = NR /\ offset' = offset
          BY <2>1, <3>1
        <4> QED BY <2>2, <4>1 DEF Typed
      <3>2. CASE ~(main_fin = Unopened /\ ARGC = 1)
        <4>1. UNCHANGED <<main_fin, FNR, NR, offset>>
          BY <2>1, <3>2
        <4> QED BY <2>1, <3>2, <4>1 DEF Typed
      <3> QED BY <3>1, <3>2
    <2>4. open_flag' \in BOOLEAN /\ (open_flag' => was'.main_fin = Unopened) /\ pc' \in {"next_main", "FINgets"}
      BY <2>1
    <2>5. part' \in {"BEGIN", "main", "END"} /\ out' # "failed"
      BY <1>1, <2>1 DEF Typed
    <2> QED BY <2>1, <2>3, <2>4, <2>5 DEF Typed, args
  <1>2. CASE NEXTFILE
    <2>1. CASE main_fin = dead_main
      <3>1. pc' = "fault" /\ UNCHANGED <<args, argi, main_fin, offset, file, part, call, out>> /\ pc = "program"
        BY <1>2, <2>1 DEF NEXTFILE
      <3> QED BY <3>1 DEF Typed, args, file, call
    <2>2. CASE main_fin # dead_main
      <3>1. /\ main_fin' = Semi /\ pc' = "FINgets" /\ open_flag' = FALSE /\ pc = "program"
            /\ UNCHANGED <<args, argi, offset, file, part, out>>
        BY <1>2, <2>2 DEF NEXTFILE
      <3> QED BY <3>1, NoFiles DEF Typed, args, file
    <2> QED BY <2>1, <2>2
  <1>3. CASE EXIT
    BY <1>3 DEF EXIT, Typed, args, file, call
  <1>4. ASSUME NEW i \in 1..MaxArgs, NEW a \in Args, DeleteArgv(i) \/ SetArgv(i, a) PROVE Typed'
    <2>1. /\ UNCHANGED <<ARGC, argi, main_fin, offset, file, part, pc, call, out>>
          /\ DOMAIN ARGV' \subseteq DOMAIN ARGV \cup {i}
          /\ \A k \in DOMAIN ARGV' : ARGV'[k] = a \/ (k \in DOMAIN ARGV /\ ARGV'[k] = ARGV[k])
      BY <1>4 DEF DeleteArgv, SetArgv, Change
    <2> QED BY <2>1 DEF Typed, file, call
  <1>5. ASSUME NEW n \in 0..MaxArgs + 1, SetArgc(n) PROVE Typed'
    BY <1>5 DEF SetArgc, Change, Typed, file, call
  <1>6. ASSUME NEW i \in 1..MaxArgs, DeleteArgv(i) PROVE Typed'
    <2>1. /\ UNCHANGED <<ARGC, argi, main_fin, offset, file, part, pc, call, out>>
          /\ DOMAIN ARGV' \subseteq DOMAIN ARGV
          /\ \A k \in DOMAIN ARGV' : k \in DOMAIN ARGV /\ ARGV'[k] = ARGV[k]
      BY <1>6 DEF DeleteArgv, Change
    <2> QED BY <2>1 DEF Typed, file, call
  <1> QED BY <1>1, <1>2, <1>3, <1>4, <1>5, <1>6 DEF Program, bi_getline, OL_GL

\* So does every turn of the loops of a call.
LEMMA TypedCall == ASSUME Typed, InCall PROVE Typed'
  <1>0. main_fin \in FinT /\ main_fin.at \in Nat /\ main_fin.to \in Nat /\ FinOK(main_fin, offset)
    BY DEF Typed, FinOK, FinT
  <1>1. CASE GiveRecord
    <2>1. main_fin.at < main_fin.to
      BY <1>0, <1>1 DEF GiveRecord, AtLimit, FinOK
    <2>2. main_fin.name \in Names /\ main_fin.to <= Len(Text(main_fin.name))
      BY <1>0, <2>1, IsAFile, Texts DEF FinOK
    <2> DEFINE r == Text(main_fin.name)[main_fin.at + 1]
    <2>3. r # "failed"
      <3>1. main_fin.at + 1 \in 1..Len(Text(main_fin.name))
        BY <1>0, <2>1, <2>2
      <3>2. Text(main_fin.name) \in Seq(STRING \ {"failed"})
        BY <2>2, Texts
      <3> QED BY <3>1, <3>2
    <2> HIDE DEF r
    <2>4. /\ out' = r /\ pc' = "program" /\ open_flag' = FALSE /\ FNR' = FNR + 1 /\ NR' = NR + 1
          /\ main_fin' = [main_fin EXCEPT !.at = @ + 1]
          /\ UNCHANGED <<args, argi, offset, part>>
      BY <1>1 DEF GiveRecord, Return, r
    <2>5. /\ main_fin' \in FinT /\ main_fin'.name = main_fin.name /\ main_fin'.at = main_fin.at + 1
          /\ main_fin'.to = main_fin.to /\ main_fin'.eof = main_fin.eof
      BY <1>0, <2>4 DEF FinT
    <2>6. FinOK(main_fin', offset) /\ main_fin' # Semi /\ main_fin' # Unopened
      BY <1>0, <2>1, <2>2, <2>5, Texts DEF FinOK, Semi, Unopened
    <2>7. FNR' \in Nat /\ NR' \in Nat /\ FNR' <= NR'
      BY <2>4 DEF Typed
    <2> QED BY <2>3, <2>4, <2>6, <2>7 DEF Typed, args
  <1>2. CASE Refill
    <2> DEFINE left == Len(Text(main_fin.name)) - main_fin.to
    <2>1. main_fin.name \in Names /\ ~main_fin.eof /\ pc = "FINgets"
      BY <1>0, <1>2, IsAFile DEF Refill, Typed
    <2>2. left \in Nat /\ Records(main_fin.name) = Len(Text(main_fin.name)) /\ Records(main_fin.name) \in Nat
      BY <1>0, <2>1, Texts DEF FinOK
    <2>10. PICK n \in (IF left = 0 THEN {0} ELSE 1..left) : \E ended \in Ended(n, left) :
             /\ main_fin' = [main_fin EXCEPT !.to = @ + n, !.eof = ended]
             /\ offset' = IF main_fin.name = "-" THEN main_fin.to + n ELSE offset
             /\ UNCHANGED <<args, argi, file, part, pc, call, out>>
      BY <1>2 DEF Refill
    <2>3. PICK ended \in Ended(n, left) :
             /\ main_fin' = [main_fin EXCEPT !.to = @ + n, !.eof = ended]
             /\ offset' = IF main_fin.name = "-" THEN main_fin.to + n ELSE offset
             /\ UNCHANGED <<args, argi, file, part, pc, call, out>>
      BY <2>10
    <2> HIDE DEF left
    <2>4. n \in 0..left /\ ended \in BOOLEAN /\ (ended => n = left)
      <3>1. n \in 0..left /\ (n = 0 => left = 0)
        BY <2>2, <2>3
      <3>2. Ended(n, left) \subseteq BOOLEAN /\ (n # 0 /\ n # left => Ended(n, left) = {FALSE})
        BY DEF Ended
      <3> QED BY <3>1, <3>2, <2>3
    <2>5. /\ main_fin' \in FinT /\ main_fin'.name = main_fin.name /\ main_fin'.at = main_fin.at
          /\ main_fin'.to = main_fin.to + n /\ main_fin'.eof = ended
      <3>1. n \in Nat /\ main_fin.to + n \in Nat /\ ended \in BOOLEAN
        BY <1>0, <2>2, <2>4
      <3> DEFINE t == main_fin.to + n
      <3>2. main_fin' = [main_fin EXCEPT !.to = t, !.eof = ended]
        BY <2>3
      <3> HIDE DEF t
      <3>3. main_fin' = [name |-> main_fin.name, at |-> main_fin.at, to |-> t, eof |-> ended]
        BY <1>0, <3>2 DEF FinT
      <3>4. main_fin.name \in FinNames /\ t \in Nat
        BY <1>0, <3>1 DEF FinT, t
      <3> QED BY <1>0, <3>1, <3>3, <3>4 DEF FinT, t
    <2>6. main_fin.to + n <= Records(main_fin.name) /\ (ended => main_fin.to + n = Records(main_fin.name))
      BY <1>0, <2>2, <2>4 DEF left
    <2>7. FinOK(main_fin', offset') /\ main_fin' # Unopened /\ main_fin' # Semi
      <3>1. main_fin.name \notin {"semi", "unopened", "dead"} /\ main_fin.at <= main_fin.to
        BY <1>0, <2>1, Texts DEF FinOK
      <3>2. main_fin.at <= main_fin.to + n
        BY <1>0, <2>2, <2>4, <3>1
      <3> QED BY <2>3, <2>5, <2>6, <3>1, <3>2 DEF FinOK, Unopened, Semi
    <2>8. offset' \in 0..Records("-")
      BY <1>0, <2>3, <2>4, <2>6 DEF Typed
    <2> QED BY <2>1, <2>3, <2>7, <2>8 DEF Typed, args, file, call
  <1>3. CASE EndOfFile
    BY <1>3, NoFiles DEF EndOfFile, Typed, args, file, NextFlag
  <1>4. CASE EndOfInput
    BY <1>4, NoFiles DEF EndOfInput, Return, MAIN_FLAG, Typed, args, file
  <1>5. ASSUME pc = "next_main", argi < ARGC, argi' = argi + 1 PROVE argi' \in 1..MaxArgs + 1
    BY <1>5, MainAssumption DEF Typed
  <1>6. CASE SkipOperand \/ AssignOperand
    <2>1. /\ pc = "next_main" /\ argi < ARGC /\ argi' = argi + 1
          /\ UNCHANGED <<args, main_fin, offset, FNR, NR, part, pc, call, out>>
      BY <1>6 DEF SkipOperand, AssignOperand, Skipped, Operand, Passed, file
    <2> QED BY <1>5, <2>1 DEF Typed, args, call
  <1>7. CASE OpenOperand
    <2> DEFINE f == ARGV[argi]
               k == IF f = "-" THEN offset ELSE 0
    <2>1. /\ pc = "next_main" /\ argi < ARGC /\ argi' = argi + 1 /\ f \in Names
          /\ main_fin' = Fin(f, k) /\ FNR' = 0 /\ pc' = "FINgets"
          /\ UNCHANGED <<args, offset, NR, part, call, out>>
      BY <1>7 DEF OpenOperand, Operand, Passed
    <2>2. FinOK(Fin(f, k), offset) /\ Fin(f, k) # Unopened
      BY <2>1, NewFin, Texts DEF Typed
    <2> HIDE DEF f, k
    <2> QED BY <1>5, <2>1, <2>2 DEF Typed, args, call
  <1>8. CASE CannotOpen
    <2>1. /\ pc = "next_main" /\ argi < ARGC /\ argi' = argi + 1 /\ pc' = "exit"
          /\ UNCHANGED <<args, main_fin, offset, FNR, NR, part, call>>
      BY <1>8 DEF CannotOpen, Operand, Passed, file
    <2> QED BY <1>5, <2>1 DEF Typed, args, call
  <1>9. CASE NoOperand
    <2>1. /\ pc' = "FINgets" /\ UNCHANGED <<args, argi, offset, NR, part, call, out>>
          /\ \/ main_fin' = Fin("-", offset) /\ FNR' = 0
             \/ main_fin' = dead_main /\ UNCHANGED FNR
          /\ pc = "next_main"
      BY <1>9 DEF NoOperand, set_main_to_stdin
    <2>2. FinOK(Fin("-", offset), offset) /\ Fin("-", offset) # Unopened
      BY Texts, NewFin DEF Typed
    <2> QED BY <2>1, <2>2, NoFiles DEF Typed, args, call
  <1> QED BY <1>1, <1>2, <1>3, <1>4, <1>6, <1>7, <1>8, <1>9 DEF InCall

\* Every step keeps the types.
LEMMA TypedStep == ASSUME Typed, [Next]_vars PROVE Typed'
  <1>1. CASE UNCHANGED vars
    BY <1>1 DEF vars, args, file, call, Typed
  <1> QED BY <1>1, TypedProgram, TypedCall DEF Next

\* The operands stay operands, argi one of them, and the buffer inside its
\* file, whatever the program does to ARGV and ARGC and wherever nextfile and
\* getline are called (next_main, fillbuff).
THEOREM Types == Spec => []TypeOK
  <1>1. Init => Typed
    BY TypedInit
  <1>2. Typed /\ [Next]_vars => Typed'
    BY TypedStep
  <1>3. Typed => TypeOK
    BY DEF Typed, TypeOK, FinOK
  <1> QED BY <1>1, <1>2, <1>3, PTL DEF Spec

-----------------------------------------------------------------------------
(* What a call has done so far is what the invariant says.                 *)

\* A call begins with nothing passed.
LEMMA CallBegins ==
    ASSUME Typed, NEW who, Call(who) PROVE InTheCall'
  <1>1. /\ pc = "program" /\ UNCHANGED <<args, argi, offset, NR, v, out>>
        /\ was' = Now /\ was'.main_fin = main_fin /\ was'.offset = offset /\ was'.argi = argi
        /\ was'.NR = NR /\ was'.v = v /\ was'.FILENAME = FILENAME /\ was'.FNR = FNR
        /\ IF main_fin = Unopened /\ ARGC = 1
           THEN main_fin' = Fin("-", offset) /\ FILENAME' = "-" /\ FNR' = 0
           ELSE UNCHANGED <<main_fin, FILENAME, FNR>>
    BY DEF Call, Now, set_main_to_stdin
  <1>2. open_flag' = (main_fin = Unopened /\ ARGC # 1) /\ pc' = IF open_flag' THEN "next_main" ELSE "FINgets"
    BY DEF Call
  <1>3. argi \in Nat \ {0} /\ ARGC \in Nat /\ ARGC' = ARGC /\ ARGV' = ARGV
    BY <1>1, MainAssumption DEF Typed, args
  <1>4. Opened' = {} /\ Assigned' = {}
    BY <1>1, <1>3 DEF Opened, Assigned, AheadFiles, Ahead
  <1>5. /\ FinOK(was'.main_fin, was'.offset) /\ was'.offset \in 0..Records("-")
        /\ was'.argi \in 1..argi' /\ was'.NR = NR'
    BY <1>1, <1>3 DEF Typed
  <1>6. CASE main_fin = Unopened
    <2>1. was'.main_fin # dead_main /\ was'.main_fin.at = Records(was'.main_fin.name)
          /\ StdinAt(main_fin, offset) = offset
      BY <1>1, <1>6, NoFiles DEF Unopened, StdinAt
    <2>2. CASE ARGC = 1
      <3>1. ~open_flag' /\ pc' = "FINgets" /\ main_fin' = Fin("-", offset) /\ FILENAME' = "-" /\ FNR' = 0
        BY <1>1, <1>2, <1>6, <2>2
      <3>2. main_fin'.name = "-" /\ StdinAt(main_fin', offset') = offset
        BY <1>1, <3>1, NewFin, Texts DEF StdinAt, Typed
      <3>3. OnlyStdin'
        BY <1>1, <1>3, <1>6, <2>2 DEF OnlyStdin, AheadFiles, Ahead
      <3>4. OnStdin'
        BY <1>1, <1>3, <1>4, <2>2, <3>1, <3>2, <3>3 DEF OnStdin
      <3> QED BY <1>1, <1>5, <2>1, <3>2, <3>4 DEF InTheCall, Moved
    <2>3. CASE ARGC # 1
      <3>1. open_flag' /\ pc' = "next_main" /\ UNCHANGED <<main_fin, FILENAME, FNR>>
        BY <1>1, <1>2, <1>6, <2>3
      <3>2. Passing'
        BY <1>1, <1>3, <1>4, <3>1 DEF Passing, Stop, AheadFiles, Ahead
      <3> QED BY <1>1, <1>5, <2>1, <3>1, <3>2 DEF InTheCall, Moved
    <2> QED BY <2>2, <2>3
  <1>7. CASE main_fin # Unopened
    <2>1. ~open_flag' /\ pc' = "FINgets" /\ UNCHANGED <<main_fin, FILENAME, FNR>>
      BY <1>1, <1>2, <1>7
    <2>2. Staying'
      BY <1>1, <1>7, <2>1 DEF Staying
    <2> QED BY <1>1, <1>5, <2>1, <2>2 DEF InTheCall
  <1> QED BY <1>6, <1>7

\* The buffer is filled, whichever file is read.
LEMMA CallRefills == ASSUME Typed, InTheCall, Refill PROVE InTheCall'
  <1>1. /\ pc = "FINgets" /\ UNCHANGED <<args, argi, file, part, pc, call, out>>
        /\ main_fin \in FinT /\ FinOK(main_fin, offset) /\ ~main_fin.eof /\ main_fin # Unopened
        /\ \E n, e : main_fin' = [main_fin EXCEPT !.to = n, !.eof = e]
        /\ main_fin.name # "-" => offset' = offset
    BY DEF Refill, Typed, FinOK
  <1>2. main_fin'.name = main_fin.name /\ main_fin'.at = main_fin.at
    BY <1>1 DEF FinT
  <1>3. main_fin.name \in Names /\ main_fin # dead_main /\ main_fin' # dead_main
    <2>1. main_fin.name \in Names
      BY <1>1, IsAFile
    <2>2. dead_main.name = "dead" /\ "dead" \notin Names
      BY Texts DEF dead_main
    <2> QED BY <1>2, <2>1, <2>2
  <1>4. StdinAt(main_fin', offset') = StdinAt(main_fin, offset)
    BY <1>1, <1>2 DEF StdinAt
  <1>5. /\ Calling /\ ARGV' = ARGV /\ ARGC' = ARGC /\ argi' = argi /\ was' = was /\ pc' = pc /\ v' = v
        /\ FILENAME' = FILENAME /\ FNR' = FNR /\ NR' = NR /\ open_flag' = open_flag
    BY <1>1 DEF Calling, args, file, call
  <1>6. Opened' = Opened /\ Assigned' = Assigned /\ Stop' = Stop /\ OnlyStdin' = OnlyStdin
    BY <1>5 DEF Opened, Assigned, Stop, OnlyStdin, AheadFiles, Ahead, Has
  <1>7. ASSUME Staying PROVE Staying'
    BY <1>2, <1>5, <1>7 DEF Staying
  <1>8. ASSUME Passing PROVE Passing'
    BY <1>1, <1>2, <1>3, <1>5, <1>6, <1>8 DEF Passing
  <1>9. ASSUME OnStdin PROVE OnStdin'
    BY <1>1, <1>2, <1>3, <1>4, <1>5, <1>6, <1>9 DEF OnStdin
  <1> QED BY <1>4, <1>5, <1>7, <1>8, <1>9 DEF InTheCall, Moved

\* The file had no record: the operands behind it are next.
LEMMA CallEndsFile == ASSUME Typed, InTheCall, EndOfFile PROVE InTheCall'
  <1>1. /\ pc = "FINgets" /\ main_fin.eof /\ main_fin # dead_main /\ main_fin.at = main_fin.to
        /\ main_fin' = Unopened /\ pc' = "next_main" /\ open_flag' = FALSE
        /\ ARGV' = ARGV /\ ARGC' = ARGC /\ argi' = argi /\ was' = was /\ v' = v
        /\ FILENAME' = FILENAME /\ FNR' = FNR /\ NR' = NR /\ offset' = offset
    BY DEF EndOfFile, AtLimit, MAIN_FLAG, NextFlag, args, file
  <1>2. Calling /\ FinOK(main_fin, offset) /\ main_fin # Unopened /\ argi \in Nat \ {0} /\ ARGC \in Nat
        /\ Unopened.name # "-" /\ Unopened.name # "dead"
    BY <1>1, MainAssumption DEF Calling, Typed, Unopened
  <1>3. main_fin.at = Records(main_fin.name) /\ StdinAt(main_fin, offset) = offset
    BY <1>1, <1>2 DEF FinOK, StdinAt
  <1>4. StdinAt(main_fin', offset') = StdinAt(main_fin, offset)
    BY <1>1, <1>2, <1>3 DEF StdinAt
  <1>5. Opened' = Opened /\ Assigned' = Assigned /\ Stop' = Stop /\ OnlyStdin' = OnlyStdin
    BY <1>1 DEF Opened, Assigned, Stop, OnlyStdin, AheadFiles, Ahead, Has
  <1>6. ASSUME Staying PROVE Moved'
    <2>1. was.main_fin.name = main_fin.name /\ was.main_fin.at = main_fin.at /\ argi = was.argi
          /\ was.main_fin # Unopened
          /\ v = was.v /\ FILENAME = was.FILENAME /\ FNR = was.FNR
      BY <1>6 DEF Staying
    <2>2. was.main_fin # dead_main
      BY <1>1, <1>2, <2>1 DEF FinOK, dead_main
    <2>3. Opened = {} /\ Assigned = {} /\ (\A k \in Stop : k >= argi) /\ ~OnlyStdin
      BY <1>2, <2>1 DEF Opened, Assigned, Stop, AheadFiles, Ahead, OnlyStdin
    <2>4. Passing'
      BY <1>1, <1>2, <1>5, <2>1, <2>3 DEF Passing
    <2> QED BY <1>1, <1>3, <2>1, <2>2, <2>4 DEF Moved
  <1>7. ASSUME Passing PROVE Passing'
    <2>1. /\ argi - 1 \in Opened /\ main_fin.name = ARGV[argi - 1]
          /\ main_fin.name = "-" \/ main_fin.at = 0
          /\ \A k \in Stop : k >= argi - 1
      BY <1>1, <1>7 DEF Passing
    <2>2. ~OnlyStdin /\ ARGV[argi - 1] \notin Absent
      BY <2>1 DEF OnlyStdin, Opened
    <2>3. ~Has(main_fin.name)
      <3>1. CASE main_fin.name = "-"
        <4>1. StdinAt(was.main_fin, was.offset) = Records("-")
          BY <1>2, <1>3, <3>1 DEF InTheCall, StdinAt
        <4> QED BY <3>1, <4>1, Texts DEF Has
      <3>2. CASE main_fin.name # "-"
        BY <1>3, <2>1, <3>2 DEF Has
      <3> QED BY <3>1, <3>2
    <2>4. argi - 1 \notin Stop
      BY <2>1, <2>2, <2>3 DEF Stop
    <2>5. ASSUME NEW k \in Stop PROVE k >= argi
      <3>1. k \in Nat /\ k # argi - 1 /\ k >= argi - 1
        BY <2>1, <2>4, <2>5, <1>2 DEF Stop, AheadFiles, Ahead, Typed
      <3> QED BY <3>1, <1>2
    <2> QED BY <1>1, <1>5, <1>7, <2>2, <2>5 DEF Passing
  <1>8. ASSUME OnStdin PROVE OnStdin'
    <2>1. main_fin.name = "-"
      BY <1>1, <1>2, <1>8 DEF OnStdin
    <2>2. StdinAt(main_fin', offset') = Records("-")
      BY <1>3, <1>4, <2>1 DEF StdinAt
    <2>3. OnlyStdin' /\ Assigned' = Assigned /\ ~open_flag' /\ main_fin' = Unopened
      BY <1>1, <1>5, <1>8 DEF OnStdin
    <2> QED BY <1>1, <1>8, <2>2, <2>3 DEF OnStdin
  <1>9. Moved => Moved'
    BY <1>1, <1>7, <1>8 DEF Moved
  <1> QED BY <1>1, <1>2, <1>4, <1>6, <1>9 DEF InTheCall

\* Every operand that is passed was ahead, and is behind afterwards.
LEMMA OnePassed ==
    ASSUME Typed, InTheCall, pc = "next_main", argi < ARGC, argi' = argi + 1,
           ARGV' = ARGV, ARGC' = ARGC, was' = was
    PROVE  /\ Calling /\ argi \in Nat \ {0} /\ ARGC \in Nat /\ was.argi \in 1..argi
           /\ was.main_fin # dead_main /\ was.main_fin.at = Records(was.main_fin.name) /\ Passing
           /\ main_fin = Unopened
           /\ argi \in DOMAIN ARGV => argi \in Ahead
           /\ Ahead' = Ahead /\ Stop' = Stop /\ OnlyStdin' = OnlyStdin /\ AheadFiles' = AheadFiles
           /\ \A k \in Ahead : k \in Nat
           /\ Opened' = Opened \cup (IF argi \in AheadFiles /\ ARGV[argi] \notin Absent THEN {argi} ELSE {})
           /\ Assigned' = Assigned \cup (IF argi \in Ahead /\ ARGV[argi] \notin Names \cup {null_str}
                                         THEN {argi} ELSE {})
           /\ argi \in Assigned' => Max(Assigned') = argi
           /\ argi \in Opened' => Max(Opened') = argi
  <1>1. Calling /\ argi \in Nat \ {0} /\ ARGC \in Nat /\ main_fin = Unopened
    BY MainAssumption DEF Calling, Typed
  <1>2. was.argi \in 1..argi /\ Moved
    BY <1>1 DEF InTheCall, Staying
  <1>3. was.main_fin # dead_main /\ was.main_fin.at = Records(was.main_fin.name) /\ Passing
    BY <1>1, <1>2 DEF Moved, OnStdin
  <1>4. argi \in DOMAIN ARGV => argi \in Ahead
    BY <1>1, <1>2 DEF Ahead
  <1>5. /\ Ahead' = Ahead /\ Stop' = Stop /\ OnlyStdin' = OnlyStdin /\ AheadFiles' = AheadFiles
        /\ \A k \in Ahead : k \in Nat
    BY <1>1, <1>2 DEF Ahead, Stop, OnlyStdin, AheadFiles, Has
  <1>6. Opened' = Opened \cup (IF argi \in AheadFiles /\ ARGV[argi] \notin Absent THEN {argi} ELSE {})
    <2>1. Opened' = {k \in AheadFiles : k < argi + 1 /\ ARGV[k] \notin Absent}
      BY <1>5 DEF Opened
    <2>2. \A k \in AheadFiles : k \in Nat /\ (k < argi + 1 <=> k < argi \/ k = argi)
      BY <1>1, <1>5 DEF AheadFiles
    <2> QED BY <2>1, <2>2 DEF Opened
  <1>7. Assigned' = Assigned \cup (IF argi \in Ahead /\ ARGV[argi] \notin Names \cup {null_str}
                                   THEN {argi} ELSE {})
    <2>1. Assigned' = {k \in Ahead : k < argi + 1 /\ ARGV[k] \notin Names \cup {null_str}}
      BY <1>5 DEF Assigned
    <2>2. \A k \in Ahead : k \in Nat /\ (k < argi + 1 <=> k < argi \/ k = argi)
      BY <1>1, <1>5
    <2> QED BY <2>1, <2>2 DEF Assigned
  <1>8. Assigned \subseteq Nat /\ Opened \subseteq Nat /\ (\A k \in Assigned \cup Opened : k <= argi)
    BY <1>1, <1>5 DEF Assigned, Opened, AheadFiles
  <1>9. ASSUME argi \in Assigned' PROVE Max(Assigned') = argi
    <2>1. Assigned' \subseteq Nat /\ \A k \in Assigned' : k <= argi
      BY <1>1, <1>7, <1>8
    <2> HIDE DEF Assigned
    <2> QED BY <1>9, <2>1, MaxIs
  <1>10. ASSUME argi \in Opened' PROVE Max(Opened') = argi
    <2>1. Opened' \subseteq Nat /\ \A k \in Opened' : k <= argi
      BY <1>1, <1>6, <1>8
    <2> QED BY <1>10, <2>1, MaxIs
  <1> QED BY <1>1, <1>2, <1>3, <1>4, <1>5, <1>6, <1>7, <1>9, <1>10

\* An operand that is no file is passed.
LEMMA CallPasses == ASSUME Typed, InTheCall, SkipOperand \/ AssignOperand PROVE InTheCall'
  <1>1. /\ pc = "next_main" /\ argi < ARGC /\ argi' = argi + 1
        /\ ARGV' = ARGV /\ ARGC' = ARGC /\ main_fin' = main_fin /\ offset' = offset
        /\ FILENAME' = FILENAME /\ FNR' = FNR /\ NR' = NR /\ pc' = pc
        /\ open_flag' = open_flag /\ was' = was
        /\ \/ argi \notin DOMAIN ARGV /\ v' = v
           \/ argi \in DOMAIN ARGV /\ ARGV[argi] \notin Names /\ v' = IF ARGV[argi] = null_str THEN v ELSE ARGV[argi]
    BY MainAssumption DEF SkipOperand, AssignOperand, Skipped, Operand, Passed, args, file, call
  <1>2. /\ argi \in Nat \ {0} /\ ARGC \in Nat /\ was.argi \in 1..argi /\ main_fin = Unopened /\ Calling
        /\ was.main_fin # dead_main /\ was.main_fin.at = Records(was.main_fin.name) /\ Passing
        /\ Stop' = Stop /\ OnlyStdin' = OnlyStdin /\ AheadFiles' = AheadFiles
        /\ Opened' = Opened \cup (IF argi \in AheadFiles /\ ARGV[argi] \notin Absent THEN {argi} ELSE {})
    BY <1>1, OnePassed
  <1>3. /\ argi \in DOMAIN ARGV => argi \in Ahead
        /\ Assigned' = Assigned \cup (IF argi \in Ahead /\ ARGV[argi] \notin Names \cup {null_str}
                                         THEN {argi} ELSE {})
        /\ argi \in Assigned' => Max(Assigned') = argi
    BY <1>1, OnePassed
  <1>4. argi \notin AheadFiles
    BY <1>1 DEF AheadFiles, Ahead
  <1>5. Opened' = Opened
    BY <1>2, <1>4
  <1>6. v' = IF Assigned' = {} THEN was.v ELSE ARGV[Max(Assigned')]
    <2>1. CASE argi \in Ahead /\ ARGV[argi] \notin Names \cup {null_str}
      BY <1>1, <1>3, <2>1 DEF Ahead
    <2>2. CASE ~(argi \in Ahead /\ ARGV[argi] \notin Names \cup {null_str})
      <3>1. Assigned' = Assigned /\ v' = v
        BY <1>1, <1>3, <2>2
      <3> QED BY <1>2, <3>1 DEF Passing
    <2> QED BY <2>1, <2>2
  <1>7. ASSUME NEW k \in Stop PROVE k >= argi + 1
    <2>1. k >= argi /\ k \in AheadFiles /\ k \in Nat
      BY <1>1, <1>2, <1>7 DEF Passing, Stop, AheadFiles, Ahead
    <2> QED BY <1>2, <1>4, <2>1
  <1>8. Passing'
    BY <1>1, <1>2, <1>5, <1>6, <1>7 DEF Passing
  <1>9. was'.argi \in 1..argi' /\ Moved'
    BY <1>1, <1>2, <1>8 DEF Moved
  <1> QED BY <1>1, <1>2, <1>9 DEF InTheCall

\* A file is opened.
LEMMA CallOpens == ASSUME Typed, InTheCall, OpenOperand PROVE InTheCall'
  <1> DEFINE f == ARGV[argi]
             k == IF f = "-" THEN offset ELSE 0
  <1>1. /\ pc = "next_main" /\ argi < ARGC /\ argi' = argi + 1 /\ f \in Names \ Absent
        /\ argi \in DOMAIN ARGV
        /\ ARGV' = ARGV /\ ARGC' = ARGC /\ main_fin' = Fin(f, k) /\ offset' = offset
        /\ FILENAME' = f /\ FNR' = 0 /\ NR' = NR /\ pc' = "FINgets"
        /\ open_flag' = open_flag /\ was' = was /\ v' = v
    BY DEF OpenOperand, Operand, Passed, args, call
  <1>2. /\ argi \in Nat \ {0} /\ ARGC \in Nat /\ was.argi \in 1..argi /\ main_fin = Unopened /\ Calling
        /\ was.main_fin # dead_main /\ was.main_fin.at = Records(was.main_fin.name) /\ Passing
        /\ Stop' = Stop /\ OnlyStdin' = OnlyStdin /\ AheadFiles' = AheadFiles
        /\ Opened' = Opened \cup (IF argi \in AheadFiles /\ ARGV[argi] \notin Absent THEN {argi} ELSE {})
    BY <1>1, OnePassed
  <1>3. /\ argi \in Ahead
        /\ Assigned' = Assigned \cup (IF argi \in Ahead /\ ARGV[argi] \notin Names \cup {null_str}
                                         THEN {argi} ELSE {})
        /\ argi \in Opened' => Max(Opened') = argi
    BY <1>1, OnePassed
  <1>4. argi \in AheadFiles /\ argi \in Opened' /\ Max(Opened') = argi /\ Opened' # {}
    BY <1>1, <1>2, <1>3 DEF AheadFiles
  <1>5. Assigned' = Assigned
    BY <1>1, <1>3
  <1>6. /\ main_fin'.name = f /\ main_fin' # dead_main
        /\ f = "-" => main_fin'.at = offset
        /\ f # "-" => main_fin'.at = 0
    <2>1. k \in 0..Records(f) /\ (f = "-" => k = offset) /\ f \in Names
      BY <1>1, Texts DEF Typed
    <2> HIDE DEF f, k
    <2> QED BY <1>1, <2>1, NewFin DEF k
  <1>7. StdinAt(main_fin', offset') = StdinAt(main_fin, offset)
    <2>1. StdinAt(main_fin, offset) = offset
      BY <1>2 DEF StdinAt, Unopened
    <2> QED BY <1>1, <1>6, <2>1 DEF StdinAt
  <1>8. argi' - 1 = argi /\ \A i \in Stop : i >= argi
    BY <1>1, <1>2 DEF Passing
  <1>9. Passing'
    BY <1>1, <1>2, <1>4, <1>5, <1>6, <1>8 DEF Passing
  <1>10. was'.argi \in 1..argi' /\ Moved'
    BY <1>1, <1>2, <1>9 DEF Moved
  <1> QED BY <1>1, <1>2, <1>7, <1>10 DEF InTheCall

\* No operand is left: the standard input, if there was no file.
LEMMA CallRunsOut == ASSUME Typed, InTheCall, NoOperand PROVE InTheCall'
  <1>1. /\ pc = "next_main" /\ argi >= ARGC /\ pc' = "FINgets"
        /\ ARGV' = ARGV /\ ARGC' = ARGC /\ offset' = offset /\ argi' = argi
        /\ NR' = NR /\ open_flag' = open_flag /\ was' = was /\ v' = v
        /\ IF open_flag THEN main_fin' = Fin("-", offset) /\ FILENAME' = "-" /\ FNR' = 0
           ELSE main_fin' = dead_main /\ FILENAME' = FILENAME /\ FNR' = FNR
    BY DEF NoOperand, set_main_to_stdin, args, call
  <1>2. /\ Calling /\ main_fin = Unopened /\ argi \in Nat \ {0} /\ ARGC \in Nat /\ was.argi \in 1..argi
        /\ Moved /\ Unopened.name = "unopened" /\ dead_main.name = "dead" /\ dead_main # Unopened
    BY <1>1, MainAssumption, NoFiles DEF Calling, Typed, InTheCall, Staying, Unopened, dead_main
  <1>3. Opened' = Opened /\ Assigned' = Assigned /\ Stop' = Stop /\ OnlyStdin' = OnlyStdin
    BY <1>1 DEF Opened, Assigned, Stop, OnlyStdin, AheadFiles, Ahead, Has
  <1>4. \A k \in Ahead : k < argi /\ k \in Nat
    BY <1>1, <1>2 DEF Ahead
  <1>5. StdinAt(main_fin, offset) = offset
    BY <1>2 DEF StdinAt
  <1>6. CASE open_flag
    <2>1. Passing /\ Opened = {} /\ (\A k \in Stop : k >= argi)
      BY <1>1, <1>2, <1>6 DEF Moved, OnStdin, Passing
    <2>2. AheadFiles = {}
      <3> SUFFICES ASSUME NEW k \in AheadFiles PROVE FALSE
        OBVIOUS
      <3>1. k \in Ahead /\ k < argi /\ k \in Nat
        BY <1>4 DEF AheadFiles
      <3>2. ARGV[k] \in Absent
        BY <2>1, <3>1 DEF Opened
      <3>3. k \in Stop
        BY <3>2 DEF Stop
      <3> QED BY <1>2, <2>1, <3>1, <3>3
    <2>3. OnlyStdin
      BY <1>6, <2>2 DEF OnlyStdin, Typed
    <2>4. main_fin'.name = "-" /\ StdinAt(main_fin', offset') = offset /\ FILENAME' = "-" /\ FNR' = 0
      BY <1>1, <1>6, NewFin, Texts DEF StdinAt, Typed
    <2>5. argi > was.argi => argi = ARGC
      BY <1>1, <1>2, <2>1 DEF Passing
    <2>6. OnStdin'
      BY <1>1, <1>2, <1>3, <2>1, <2>3, <2>4, <2>5 DEF OnStdin, Passing
    <2> QED BY <1>1, <1>2, <1>5, <2>4, <2>6 DEF InTheCall, Moved
  <1>7. CASE ~open_flag
    <2>1. main_fin' = dead_main /\ FILENAME' = FILENAME /\ FNR' = FNR /\ StdinAt(main_fin', offset') = offset
      BY <1>1, <1>2, <1>7 DEF StdinAt
    <2>2. ASSUME Passing PROVE Passing'
      <3>1. Stop = {}
        <4> SUFFICES ASSUME NEW k \in Stop PROVE FALSE
          OBVIOUS
        <4>1. k >= argi /\ k < argi /\ k \in Nat
          BY <1>1, <1>4, <2>2 DEF Passing, Stop, AheadFiles
        <4> QED BY <1>2, <4>1
      <3> QED BY <1>1, <1>2, <1>3, <1>7, <2>1, <2>2, <3>1 DEF Passing
    <2>3. ASSUME OnStdin PROVE OnStdin'
      BY <1>1, <1>2, <1>3, <1>5, <1>7, <2>1, <2>3 DEF OnStdin
    <2> QED BY <1>1, <1>2, <1>5, <2>1, <2>2, <2>3 DEF InTheCall, Moved
  <1> QED BY <1>6, <1>7

\* What the program does between two calls, and how a call begins.
LEMMA CallByProgram == ASSUME Typed, Program PROVE InTheCall'
  <1>1. CASE NEXTFILE
    <2>1. CASE main_fin = dead_main
      BY <1>1, <2>1 DEF NEXTFILE, InTheCall, Calling
    <2>2. CASE main_fin # dead_main
      <3>1. /\ main_fin' = Semi /\ pc' = "FINgets" /\ was' = [Now EXCEPT !.main_fin = Semi]
            /\ UNCHANGED <<args, argi, offset, file, part, out>>
        BY <1>1, <2>2 DEF NEXTFILE
      <3>2. /\ was'.main_fin = Semi /\ was'.offset = offset /\ was'.argi = argi
            /\ was'.NR = NR /\ was'.v = v /\ was'.FILENAME = FILENAME /\ was'.FNR = FNR
        BY <3>1 DEF Now
      <3>3. Staying'
        BY <3>1, <3>2, NoFiles DEF Staying, file
      <3> QED BY <3>1, <3>2, <3>3, NoFiles DEF InTheCall, Typed, file
    <2> QED BY <2>1, <2>2
  <1>2. CASE EXIT
    BY <1>2 DEF EXIT, InTheCall, Calling
  <1>3. ASSUME Change PROVE InTheCall'
    BY <1>3 DEF Change, InTheCall, Calling
  <1>4. CASE bi_getline \/ OL_GL
    BY <1>4, CallBegins DEF bi_getline, OL_GL
  <1> QED BY <1>1, <1>2, <1>3, <1>4 DEF Program, DeleteArgv, SetArgv, SetArgc

\* The invariant of the calls is kept.
LEMMA MainStep == ASSUME MainInv, [Next]_vars PROVE MainInv'
  <1>1. Typed'
    BY TypedStep DEF MainInv
  <1>2. CASE GiveRecord \/ EndOfInput \/ CannotOpen
    <2>1. ~Calling'
      BY <1>2 DEF GiveRecord, EndOfInput, CannotOpen, Return, Calling
    <2> QED BY <1>1, <2>1 DEF MainInv, InTheCall
  <1>3. CASE UNCHANGED vars
    <2>1. InTheCall'
      BY <1>3 DEF MainInv, vars, args, file, call, InTheCall, Calling, Staying, Moved, Passing, OnStdin,
                  Stop, Opened, Assigned, OnlyStdin, AheadFiles, Ahead, Has
    <2> QED BY <1>1, <2>1 DEF MainInv
  <1> QED BY <1>1, <1>2, <1>3, CallRefills, CallEndsFile, CallPasses, CallOpens, CallRunsOut,
             CallByProgram DEF MainInv, Next, InCall

-----------------------------------------------------------------------------
(* A call is one read of AwkMain, taken when it returns.                   *)

Failed == pc = "exit" /\ out = "failed"

\* Turns of a loop, and what else nobody sees.
LEMMA Unseen ==
    ASSUME At' = At, ARGV' = ARGV, ARGC' = ARGC, ~Failed, ~Failed'
    PROVE  UNCHANGED Awk!vars
  BY DEF Failed, Awk!vars, Awk!operands, Source, RestOfFile, RestOfStdin

\* Both call the empty string the same.
LEMMA NullStr == Awk!null_str = null_str
  BY Zenon DEF Awk!null_str, null_str

\* And the greatest and the least of some numbers.
LEMMA MaxMin == \A S : Awk!Max(S) = Max(S) /\ Awk!Min(S) = Min(S)
  BY DEF Awk!Max, Awk!Min, Max, Min

\* What mawk(1) says is ahead of a call, and what the code finds there.
LEMMA AwkAhead ==
    ASSUME MainInv, Calling
    PROVE  /\ At = was /\ ~Failed
           /\ Awk!Coming = Ahead /\ Awk!FileArgs = AheadFiles /\ Awk!Stops = Stop
           /\ Awk!OnlyStdin <=> OnlyStdin
           /\ \A i : Awk!Opened(i) = {k \in AheadFiles : k <= i /\ ARGV[k] \notin Absent}
           /\ \A i : Awk!Assigned(i) = {k \in Ahead : k <= i /\ ARGV[k] \notin Names \cup {null_str}}
           /\ Moved => Awk!AtEnd
  <1>1. At = was /\ ~Failed
    BY DEF At, Calling, Failed
  <1>2. Awk!Coming = Ahead
    BY <1>1 DEF Awk!Coming, Ahead
  <1>3. Awk!FileArgs = AheadFiles
    BY <1>2 DEF Awk!FileArgs, AheadFiles
  <1>4. /\ was.main_fin.name = "-" => was.main_fin.at \in 0..Records("-")
        /\ was.offset \in 0..Records("-") /\ FinOK(was.main_fin, was.offset)
        /\ was.main_fin.at \in Nat
    BY Texts DEF MainInv, InTheCall, FinOK, FinT
  <1>5. ASSUME NEW f \in Names PROVE Awk!HasRecords(f) <=> Has(f)
    <2>1. CASE f = "-"
      <3> DEFINE k == StdinAt(was.main_fin, was.offset)
      <3>1. k \in 0..Len(Text("-")) /\ Records("-") = Len(Text("-"))
        BY <1>4, Texts DEF StdinAt
      <3>2. SubSeq(Text("-"), k + 1, Len(Text("-"))) = <<>> <=> k = Len(Text("-"))
        BY <3>1, Texts, RestProps
      <3>3. Awk!HasRecords(f) <=> SubSeq(Text("-"), k + 1, Records("-")) # <<>>
        BY <1>1, <2>1 DEF Awk!HasRecords, StdinAt, RestOfStdin
      <3>4. Has(f) <=> k < Len(Text("-"))
        BY <2>1, <3>1 DEF Has
      <3> QED BY <3>1, <3>2, <3>3, <3>4
    <2>2. CASE f # "-"
      <3>1. Text(f) \in Seq(STRING \ {"failed"}) /\ Records(f) = Len(Text(f))
        BY Texts
      <3>2. Text(f) # <<>> <=> Len(Text(f)) > 0
        BY <3>1, EmptySeq
      <3> QED BY <2>2, <3>1, <3>2 DEF Awk!HasRecords, Has
    <2> QED BY <2>1, <2>2
  <1>6. Awk!Stops = Stop
    BY <1>3, <1>5 DEF Awk!Stops, Stop, AheadFiles
  <1>7. Awk!OnlyStdin <=> OnlyStdin
    <2>1. Unopened # dead_main /\ Unopened.name # "-"
      BY NoFiles DEF Unopened
    <2>2. CASE was.main_fin = Unopened
      BY <1>1, <1>3, <2>1, <2>2 DEF Awk!OnlyStdin, OnlyStdin, Failed, Source
    <2>3. CASE was.main_fin # Unopened
      BY <1>1, <1>3, <2>3 DEF Awk!OnlyStdin, OnlyStdin, Failed, Source
    <2> QED BY <2>2, <2>3
  <1>8. ASSUME Moved PROVE Awk!AtEnd
    <2>1. was.main_fin # dead_main /\ was.main_fin.at = Records(was.main_fin.name)
      BY <1>8 DEF Moved
    <2> DEFINE f == was.main_fin.name
    <2>2. f \in Names => SubSeq(Text(f), was.main_fin.at + 1, Records(f)) = <<>>
      BY <1>4, <2>1, Texts, RestProps
    <2>3. "-" \in Names
      BY Texts
    <2> QED BY <1>1, <2>1, <2>2, <2>3 DEF Awk!AtEnd, Awk!Left, Failed, Source, RestOfFile, RestOfStdin
  <1>9. \A i : Awk!Opened(i) = {k \in AheadFiles : k <= i /\ ARGV[k] \notin Absent}
    BY <1>3 DEF Awk!Opened
  <1>10. \A i : Awk!Assigned(i) = {k \in Ahead : k <= i /\ ARGV[k] \notin Names \cup {null_str}}
    BY <1>2, NullStr DEF Awk!Assigned
  <1> QED BY <1>1, <1>2, <1>3, <1>6, <1>7, <1>8, <1>9, <1>10

\* The operands up to the i-th were passed when the call returns.
LEMMA AwkPassTo ==
    ASSUME MainInv, Calling, At' = Now', ARGV' = ARGV, ARGC' = ARGC, v' = v, FILENAME' = FILENAME, NEW i \in Int,
           argi' >= was.argi, argi' >= i + 1, argi' \in {was.argi, i + 1}, argi' \in Nat,
           Assigned = {k \in Ahead : k <= i /\ ARGV[k] \notin Names \cup {null_str}},
           Opened = {k \in AheadFiles : k <= i /\ ARGV[k] \notin Absent},
           v = IF Assigned = {} THEN was.v ELSE ARGV[Max(Assigned)],
           FILENAME = IF OnlyStdin THEN "-" ELSE IF Opened = {} THEN was.FILENAME ELSE ARGV[Max(Opened)]
    PROVE  Awk!PassTo(i)
  <1>1. was.argi \in Nat /\ i + 1 \in Int
    BY DEF MainInv, InTheCall
  <1>2. Max({was.argi, i + 1}) = argi'
    <2>1. \A x \in {was.argi, i + 1} : argi' >= x
      BY <1>1
    <2>2. \A x \in {was.argi, i + 1} : (\A y \in {was.argi, i + 1} : x >= y) => x = argi'
      BY <1>1
    <2> QED BY <2>1, <2>2 DEF Max
  <1>3. /\ At = was /\ (Awk!OnlyStdin <=> OnlyStdin)
        /\ Awk!Opened(i) = Opened /\ Awk!Assigned(i) = Assigned
    BY AwkAhead
  <1>4. At'.argi = argi' /\ At'.v = v /\ At'.FILENAME = FILENAME
    BY DEF Now
  <1>5. At'.v = IF Awk!Assigned(i) = {} THEN At.v ELSE ARGV[Max(Awk!Assigned(i))]
    BY <1>3, <1>4
  <1>6. At'.FILENAME = IF Awk!OnlyStdin THEN "-" ELSE IF Awk!Opened(i) = {} THEN At.FILENAME
                       ELSE ARGV[Max(Awk!Opened(i))]
    BY <1>3, <1>4
  <1>7. At'.argi = Max({At.argi, i + 1})
    BY <1>2, <1>3, <1>4
  <1> QED BY <1>5, <1>6, <1>7, MaxMin DEF Awk!PassTo, Awk!operands

\* Turns of a loop, the beginning of a call and exit are not seen.
LEMMA AwkStutters ==
    ASSUME MainInv, MainInv',
           \/ bi_getline \/ OL_GL \/ EXIT \/ (NEXTFILE /\ main_fin = dead_main)
           \/ Refill \/ EndOfFile \/ SkipOperand \/ AssignOperand \/ OpenOperand \/ NoOperand
           \/ UNCHANGED vars
    PROVE  UNCHANGED Awk!vars
  <1>0. (pc = "program" => ~Failed) /\ (Calling => ~Failed)
        /\ (pc' = "program" => ~Failed') /\ (Calling' => ~Failed')
    BY DEF Failed, Calling
  <1>1. ASSUME NEW who, Call(who) PROVE UNCHANGED Awk!vars
    <2>1. pc = "program" /\ was' = Now /\ pc' \in {"next_main", "FINgets"} /\ UNCHANGED args
      BY <1>1 DEF Call
    <2>2. At = Now /\ At' = Now /\ Calling'
      BY <2>1 DEF At, Calling
    <2> QED BY <1>0, <2>1, <2>2, Unseen DEF args
  <1>2. CASE EXIT \/ (NEXTFILE /\ main_fin = dead_main)
    <2>1. pc = "program" /\ ~Calling' /\ UNCHANGED <<args, argi, main_fin, offset, file, out>>
      BY <1>2 DEF EXIT, NEXTFILE, Calling
    <2>2. At = Now /\ At' = Now
      BY <2>1 DEF At, Calling, Now, file
    <2>3. ~Failed'
      BY <2>1 DEF Failed, MainInv, Typed
    <2> QED BY <1>0, <2>1, <2>2, <2>3, Unseen DEF args
  <1>3. CASE Refill \/ EndOfFile \/ SkipOperand \/ AssignOperand \/ OpenOperand \/ NoOperand
    <2>1. Calling /\ Calling' /\ was' = was /\ UNCHANGED args
      BY <1>3 DEF Refill, EndOfFile, SkipOperand, Skipped, Operand, AssignOperand, OpenOperand,
                  NoOperand, Calling, call
    <2>2. At = was /\ At' = was
      BY <2>1 DEF At
    <2> QED BY <1>0, <2>1, <2>2, Unseen DEF args
  <1>4. CASE UNCHANGED vars
    BY <1>4 DEF vars, args, file, call, Awk!vars, Awk!operands, Source, RestOfFile, RestOfStdin, At,
                Now, Calling
  <1> QED BY <1>1, <1>2, <1>3, <1>4 DEF bi_getline, OL_GL

\* nextfile skips the rest of the file, with what was read ahead of it.
LEMMA AwkSkips == ASSUME MainInv, NEXTFILE, main_fin # dead_main PROVE Awk!SkipFile
  <1>1. /\ pc = "program" /\ part = "main" /\ pc' = "FINgets" /\ was' = [Now EXCEPT !.main_fin = Semi]
        /\ UNCHANGED args
    BY DEF NEXTFILE
  <1>2. At = Now /\ At' = [Now EXCEPT !.main_fin = Semi] /\ ~Failed /\ ~Failed'
    BY <1>1 DEF At, Calling, Failed, MainInv, Typed
  <1>3. /\ At'.main_fin = Semi /\ At'.offset = offset /\ At.main_fin = main_fin /\ At.offset = offset
        /\ UNCHANGED <<At.argi, At.FILENAME, At.FNR, At.NR, At.v, At.out>>
    BY <1>2 DEF Now
  <1>4. Semi # Unopened /\ Semi # dead_main /\ Semi.name = "semi" /\ "semi" \notin Names /\ "-" \in Names
    BY NoFiles, Texts DEF Semi
  <1>5. Source' = "file" /\ RestOfFile' = <<>> /\ RestOfStdin' = SubSeq(Text("-"), offset + 1, Records("-"))
    BY <1>2, <1>3, <1>4 DEF Source, RestOfFile, RestOfStdin, Failed
  <1>6. main_fin # Unopened /\ FinOK(main_fin, offset) /\ offset \in 0..Records("-")
        /\ main_fin.at \in Nat /\ main_fin.to \in Nat
    BY <1>1 DEF MainInv, Typed, FinOK, FinT
  <1>7. Source = IF main_fin.name = "-" THEN "stdin" ELSE "file"
    BY <1>2, <1>3, <1>6 DEF Source, Failed
  <1> DEFINE k == StdinAt(main_fin, offset)
  <1>8. RestOfStdin = SubSeq(Text("-"), k + 1, Records("-"))
    BY <1>3 DEF RestOfStdin, StdinAt
  <1>9. k \in 0..offset /\ (k # offset => main_fin.name = "-")
    BY <1>6 DEF StdinAt, FinOK
  <1>10. Text("-") \in Seq(STRING \ {"failed"}) /\ Records("-") = Len(Text("-")) /\ Records("-") \in Nat
    BY Texts
  <1> HIDE DEF k
  <1>11. /\ offset - k \in 0..Records("-") - k /\ k \in 0..Len(Text("-"))
         /\ k + (offset - k) + 1 = offset + 1
    BY <1>6, <1>9, <1>10
  <1>12. /\ Len(RestOfStdin) = Records("-") - k
         /\ SubSeq(RestOfStdin, (offset - k) + 1, Records("-") - k) = RestOfStdin'
    <2> DEFINE s == Text("-")
               d == offset - k
    <2>1. s \in Seq(STRING \ {"failed"}) /\ Records("-") = Len(s) /\ k \in 0..Len(s)
          /\ d \in 0..Len(s) - k /\ k + d + 1 = offset + 1
      BY <1>10, <1>11
    <2>2. RestOfStdin = SubSeq(s, k + 1, Len(s)) /\ RestOfStdin' = SubSeq(s, k + d + 1, Len(s))
      BY <1>5, <1>8, <2>1
    <2> HIDE DEF s, d
    <2>3. SubSeq(SubSeq(s, k + 1, Len(s)), d + 1, Len(s) - k) = SubSeq(s, k + d + 1, Len(s))
      BY <2>1, RestProps
    <2>4. Len(SubSeq(s, k + 1, Len(s))) = Len(s) - k
      BY <2>1, RestProps
    <2>5. SubSeq(RestOfStdin, d + 1, Len(s) - k) = RestOfStdin'
      BY <2>2, <2>3
    <2> QED BY <2>1, <2>2, <2>4, <2>5 DEF d
  <1>13. \E d \in 0..Len(RestOfStdin) : /\ d > 0 => Source = "stdin"
                                       /\ RestOfStdin' = SubSeq(RestOfStdin, d + 1, Len(RestOfStdin))
    <2>1. offset - k \in 0..Len(RestOfStdin) /\ (offset - k > 0 => Source = "stdin")
      BY <1>7, <1>9, <1>11, <1>12
    <2> QED BY <1>12, <2>1
  <1> QED BY <1>1, <1>3, <1>5, <1>7, <1>13 DEF Awk!SkipFile, Awk!operands, args

\* Changes of the operands change nothing else.
LEMMA AwkChanges == ASSUME MainInv, Change PROVE Awk!SetOperands
  <1>1. pc = "program" /\ pc' = "program" /\ UNCHANGED <<argi, main_fin, offset, file, out>>
    BY DEF Change
  <1>2. At' = At
    BY <1>1 DEF At, Calling, Now, file
  <1>3. ~Failed /\ ~Failed'
    BY <1>1 DEF Failed
  <1> QED BY <1>2, <1>3 DEF Awk!SetOperands, Source, RestOfFile, RestOfStdin, Failed

\* A record that is given is the next one of the file of the call, or the
\* first one of the first operand that has any, or of the standard input.
LEMMA AwkGivesRecord == ASSUME MainInv, MainInv', GiveRecord PROVE Awk!Read
  <1>1. /\ pc = "FINgets" /\ Calling /\ ~Calling' /\ pc' = "program" /\ ~Failed'
        /\ FNR' = FNR + 1 /\ NR' = NR + 1 /\ main_fin' = [main_fin EXCEPT !.at = @ + 1]
        /\ out' = Text(main_fin.name)[main_fin.at + 1]
        /\ UNCHANGED <<args, argi, offset, FILENAME, v>>
    BY DEF GiveRecord, Return, Calling, Failed
  <1>2. FinOK(main_fin, offset) /\ FinOK(was.main_fin, was.offset) /\ was.NR = NR
        /\ was.argi \in 1..argi /\ argi \in Nat
        /\ StdinAt(main_fin, offset) = StdinAt(was.main_fin, was.offset)
        /\ (Staying \/ (Moved /\ Passing) \/ (Moved /\ OnStdin))
    BY <1>1 DEF MainInv, Typed, InTheCall, Moved
  <1>3. /\ main_fin \in FinT /\ main_fin.at < main_fin.to
        /\ main_fin.name \in Names /\ main_fin \notin {Semi, Unopened, dead_main}
    <2>1. main_fin.at < main_fin.to
      BY <1>2 DEF GiveRecord, AtLimit, FinOK, FinT
    <2> QED BY <1>2, <2>1, IsAFile DEF FinOK
  <1> DEFINE f == main_fin.name
             s == Text(main_fin.name)
             k == main_fin.at
  <1>4. /\ s \in Seq(STRING \ {"failed"}) /\ Records(f) = Len(s) /\ k \in 0..Len(s) /\ k < Len(s) /\ k \in Nat
    BY <1>2, <1>3, Texts DEF FinOK, FinT
  <1>5. /\ main_fin'.name = f /\ main_fin'.at = k + 1 /\ main_fin'.to = main_fin.to
        /\ main_fin' \notin {Unopened, dead_main}
    <2>1. main_fin'.name = f /\ main_fin'.at = k + 1 /\ main_fin'.to = main_fin.to
      BY <1>1, <1>3 DEF FinT
    <2>2. f \notin {"unopened", "dead"}
      BY <1>3, Texts
    <2> QED BY <2>1, <2>2 DEF Unopened, dead_main
  <1>6. /\ At = was /\ ~Failed /\ At' = Now'
        /\ At'.main_fin = main_fin' /\ At'.offset = offset /\ At'.argi = argi /\ At'.FILENAME = FILENAME
        /\ At'.FNR = FNR + 1 /\ At'.NR = NR + 1 /\ At'.v = v /\ At'.out = s[k + 1]
    BY <1>1 DEF At, Now, Failed, Calling
  <1>7. Source' = IF f = "-" THEN "stdin" ELSE "file"
    BY <1>1, <1>5, <1>6 DEF Source, Failed
  <1>8. RestOfFile' = IF f = "-" THEN <<>> ELSE SubSeq(s, k + 2, Len(s))
    BY <1>3, <1>4, <1>5, <1>6 DEF RestOfFile
  <1>9. RestOfStdin' = IF f = "-" THEN SubSeq(s, k + 2, Len(s))
                       ELSE SubSeq(Text("-"), offset + 1, Records("-"))
    <2>1. (k + 1) + 1 = k + 2
      BY <1>4
    <2>2. f = "-" => s = Text("-") /\ Records("-") = Len(s)
      BY <1>4
    <2> HIDE DEF k, s
    <2> QED BY <1>5, <1>6, <2>1, <2>2 DEF RestOfStdin
  <1>10. /\ SubSeq(s, k + 1, Len(s)) # <<>> /\ Head(SubSeq(s, k + 1, Len(s))) = s[k + 1]
         /\ Tail(SubSeq(s, k + 1, Len(s))) = SubSeq(s, k + 2, Len(s))
    <2> HIDE DEF s, k
    <2>1. SubSeq(s, k + 1, Len(s)) # <<>>
      BY <1>4, RestProps
    <2>2. Head(SubSeq(s, k + 1, Len(s))) = s[k + 1]
          /\ Tail(SubSeq(s, k + 1, Len(s))) = SubSeq(s, k + 2, Len(s))
      BY SMTT(30), <1>4, RestProps
    <2> QED BY <2>1, <2>2
  <1>11. ARGV' = ARGV /\ ARGC' = ARGC
    BY <1>1 DEF args
  <1>12. k = 0 => SubSeq(s, k + 1, Len(s)) = s
    BY <1>4, SubSeqFull
  <1> DEFINE r == SubSeq(s, k + 1, Len(s))
             t == SubSeq(s, k + 2, Len(s))
             o == SubSeq(Text("-"), offset + 1, Records("-"))
  <1>20. CASE Staying
    <2>1. /\ was.main_fin \notin {Unopened, dead_main} /\ was.main_fin.name = f /\ was.main_fin.at = k
          /\ argi = was.argi /\ v = was.v /\ FILENAME = was.FILENAME /\ FNR = was.FNR
      BY <1>3, <1>20, Texts DEF Staying, dead_main
    <2>2. Source = IF f = "-" THEN "stdin" ELSE "file"
      BY <1>6, <2>1 DEF Source, Failed
    <2>3. RestOfFile = IF f = "-" THEN <<>> ELSE r
      BY <1>3, <1>4, <1>6, <2>1 DEF RestOfFile
    <2>4. RestOfStdin = IF f = "-" THEN r ELSE o
      <3>1. f # "-" => was.offset = offset
        BY <1>2, <2>1 DEF StdinAt
      <3> QED BY <1>4, <1>6, <2>1, <3>1 DEF RestOfStdin
    <2>5. Awk!Left = r
      BY <2>2, <2>3, <2>4 DEF Awk!Left
    <2>6. At.argi = argi /\ At.FILENAME = FILENAME /\ At.FNR = FNR /\ At.NR = NR /\ At.v = v
      BY <1>2, <1>6, <2>1
    <2>7. r # <<>> /\ Head(r) = s[k + 1] /\ Tail(r) = t
      BY <1>10
    <2>8. RestOfFile' = IF f = "-" THEN <<>> ELSE t
      BY <1>8
    <2>9. RestOfStdin' = IF f = "-" THEN t ELSE o
      BY <1>9
    <2> HIDE DEF r, t, o, s, k, f
    <2>10. IF Source = "file" THEN RestOfFile' = Tail(RestOfFile) /\ UNCHANGED RestOfStdin
           ELSE RestOfStdin' = Tail(RestOfStdin) /\ UNCHANGED RestOfFile
      BY <2>2, <2>3, <2>4, <2>7, <2>8, <2>9
    <2>11. At'.out = Head(Awk!Left) /\ Awk!Left # <<>>
      BY <1>6, <2>5, <2>7
    <2>12. Source' = Source
      BY <1>7, <2>2
    <2> QED BY <1>6, <1>11, <2>6, <2>10, <2>11, <2>12 DEF Awk!Read, Awk!Continue, Awk!operands
  <1>21. CASE Moved /\ Passing
    <2>1. /\ argi - 1 \in Opened /\ f = ARGV[argi - 1] /\ (f = "-" \/ k = 0)
          /\ \A j \in Stop : j >= argi - 1
          /\ v = (IF Assigned = {} THEN was.v ELSE ARGV[Max(Assigned)])
          /\ FILENAME = (IF Opened = {} THEN was.FILENAME ELSE ARGV[Max(Opened)])
          /\ FNR = (IF Opened = {} THEN was.FNR ELSE 0)
      BY <1>1, <1>3, <1>21 DEF Passing
    <2>2. argi - 1 \in AheadFiles /\ f \notin Absent /\ FNR = 0 /\ ~OnlyStdin
      BY <2>1 DEF Opened, OnlyStdin
    <2>3. f = "-" => StdinAt(was.main_fin, was.offset) = k
      BY <1>2 DEF StdinAt
    <2>4. Has(f)
      BY <1>4, <2>3 DEF Has
    <2>5. argi - 1 \in Stop
      BY <2>1, <2>2, <2>4 DEF Stop
    <2>6. Min(Stop) = argi - 1
      <3>1. Stop \subseteq Int
        BY <1>2 DEF Stop, AheadFiles, Ahead
      <3>2. \A x \in Stop : (\A y \in Stop : x <= y) => x = argi - 1
        BY <1>2, <2>1, <2>5, <3>1
      <3> QED BY <2>1, <2>5, <3>1, <3>2 DEF Min
    <2>7. Awk!AtEnd /\ Awk!Stops = Stop /\ Awk!Min(Awk!Stops) = argi - 1
      BY <1>1, <1>21, <2>6, AwkAhead, MaxMin
    <2>8. Awk!PassTo(argi - 1)
      <3>1. \A j \in Ahead : j < argi <=> j <= argi - 1
        BY <1>2 DEF Ahead
      <3> HIDE DEF f, s, k, r, t, o
      <3>2. Assigned = {j \in Ahead : j <= argi - 1 /\ ARGV[j] \notin Names \cup {null_str}}
        BY <3>1 DEF Assigned
      <3>3. Opened = {j \in AheadFiles : j <= argi - 1 /\ ARGV[j] \notin Absent}
        BY <3>1 DEF Opened, AheadFiles
      <3>4. argi - 1 \in Int /\ argi' = argi /\ argi' >= was.argi /\ argi' = (argi - 1) + 1
        BY <1>1, <1>2
      <3>5. FILENAME = IF OnlyStdin THEN "-" ELSE IF Opened = {} THEN was.FILENAME ELSE ARGV[Max(Opened)]
        BY <2>1, <2>2
      <3>6. v' = v /\ FILENAME' = FILENAME /\ argi' \in Nat /\ argi' >= (argi - 1) + 1
            /\ argi' \in {was.argi, (argi - 1) + 1}
        BY <1>1, <1>2, <3>4
      <3> HIDE DEF f, s, k
      <3> QED BY <1>1, <1>6, <1>11, <2>1, <3>2, <3>3, <3>4, <3>5, <3>6, AwkPassTo
    <2>9. CASE f = "-"
      <3>1. RestOfStdin = r
        BY <1>4, <1>6, <2>3, <2>9 DEF RestOfStdin, StdinAt
      <3>2. r # <<>> /\ Head(r) = s[k + 1] /\ Tail(r) = t
        BY <1>10
      <3>3. RestOfStdin' = t /\ RestOfFile' = <<>> /\ Source' = "stdin"
        BY <1>7, <1>8, <1>9, <2>9
      <3>4. At'.out = Head(RestOfStdin) /\ At'.FNR = 1 /\ At'.NR = At.NR + 1
        <4>1. Head(RestOfStdin) = s[k + 1]
          BY <3>1, <3>2
        <4> HIDE DEF s, k, r, t, o, f
        <4> QED BY <1>2, <1>6, <2>2, <4>1
      <3>5. Tail(RestOfStdin) = t /\ ARGV[argi - 1] = "-"
        BY <2>1, <2>9, <3>1, <3>2
      <3> HIDE DEF f, s, k, r, t, o
      <3> QED BY <2>5, <2>7, <2>8, <3>3, <3>4, <3>5 DEF Awk!Read, Awk!NextFileBegins, Awk!Begin
    <2>10. CASE f # "-"
      <3>1. k = 0 /\ r = s
        BY <1>12, <2>1, <2>10
      <3>2. At'.out = Head(s) /\ RestOfFile' = Tail(s) /\ Source' = "file"
        BY <1>6, <1>7, <1>8, <1>10, <2>10, <3>1
      <3>3. RestOfStdin' = RestOfStdin
        <4>1. RestOfStdin = SubSeq(Text("-"), StdinAt(was.main_fin, was.offset) + 1, Records("-"))
          BY <1>6 DEF RestOfStdin, StdinAt
        <4>2. StdinAt(main_fin, offset) = offset
          BY <2>10 DEF StdinAt
        <4> QED BY <1>2, <1>9, <2>10, <4>1, <4>2
      <3>4. At'.FNR = 1 /\ At'.NR = At.NR + 1 /\ s = Text(ARGV[argi - 1]) /\ ARGV[argi - 1] \notin Absent \cup {"-"}
        BY <1>2, <1>6, <2>1, <2>2, <2>10
      <3>5. At'.out = Head(Text(ARGV[argi - 1])) /\ RestOfFile' = Tail(Text(ARGV[argi - 1]))
        BY <3>2, <3>4
      <3> HIDE DEF f, s, k, r, t, o
      <3> QED BY <2>5, <2>7, <2>8, <3>2, <3>3, <3>4, <3>5 DEF Awk!Read, Awk!NextFileBegins, Awk!Begin
    <2> QED BY <2>9, <2>10
  <1>22. CASE Moved /\ OnStdin
    <2>1. /\ OnlyStdin /\ argi >= ARGC /\ (argi > was.argi => argi = ARGC) /\ FILENAME = "-" /\ FNR = 0
          /\ v = (IF Assigned = {} THEN was.v ELSE ARGV[Max(Assigned)])
          /\ f = "-"
      BY <1>3, <1>22 DEF OnStdin
    <2>2. was.main_fin = Unopened /\ AheadFiles = {}
      BY <2>1 DEF OnlyStdin
    <2>3. k = StdinAt(was.main_fin, was.offset)
      BY <1>2, <2>1 DEF StdinAt
    <2>4. RestOfStdin = r
      BY <1>4, <1>6, <2>1, <2>3 DEF RestOfStdin, StdinAt
    <2>5. RestOfFile = <<>>
      <3>1. "unopened" \notin Names /\ was.main_fin.name = "unopened"
        BY <2>2, Texts DEF Unopened
      <3> QED BY <1>6, <3>1 DEF RestOfFile
    <2>6. r # <<>> /\ Head(r) = s[k + 1] /\ Tail(r) = t
      BY <1>10
    <2>7. RestOfStdin' = t /\ RestOfFile' = <<>> /\ Source' = "stdin"
      BY <1>7, <1>8, <1>9, <2>1
    <2>8. At'.out = Head(RestOfStdin) /\ At'.FNR = 1 /\ At'.NR = At.NR + 1
      <3>1. Head(RestOfStdin) = s[k + 1]
        BY <2>4, <2>6
      <3> HIDE DEF s, k, r, t, o, f
      <3> QED BY <1>2, <1>6, <2>1, <3>1
    <2>9. Awk!AtEnd /\ Awk!OnlyStdin
      BY <1>1, <1>22, <2>1, AwkAhead
    <2>10. Awk!PassTo(ARGC - 1)
      <3>1. Ahead \subseteq Int /\ AheadFiles \subseteq Int /\ ARGC \in Int
            /\ \A j \in Ahead : j <= ARGC - 1 /\ j < argi
        BY <1>2, <2>1 DEF Ahead, AheadFiles, MainInv, Typed
      <3>2. Assigned = {j \in Ahead : j <= ARGC - 1 /\ ARGV[j] \notin Names \cup {null_str}}
        BY <3>1 DEF Assigned
      <3>3. Opened = {j \in AheadFiles : j <= ARGC - 1 /\ ARGV[j] \notin Absent}
        BY <2>2 DEF Opened
      <3>4. ARGC - 1 \in Int /\ argi' = argi /\ argi' >= was.argi /\ argi' >= (ARGC - 1) + 1
            /\ argi' \in {was.argi, (ARGC - 1) + 1} /\ argi' \in Nat
        BY <1>1, <1>2, <2>1, <3>1
      <3>5. FILENAME = IF OnlyStdin THEN "-" ELSE IF Opened = {} THEN was.FILENAME ELSE ARGV[Max(Opened)]
        BY <2>1
      <3>6. v' = v /\ FILENAME' = FILENAME
        BY <1>1
      <3> HIDE DEF f, s, k
      <3> QED BY <1>1, <1>6, <1>11, <2>1, <3>2, <3>3, <3>4, <3>5, <3>6, AwkPassTo
    <2>11. RestOfStdin # <<>> /\ RestOfStdin' = Tail(RestOfStdin) /\ RestOfFile' = RestOfFile
      BY <2>4, <2>5, <2>6, <2>7
    <2> HIDE DEF f, s, k, r, t, o
    <2> QED BY <2>7, <2>8, <2>9, <2>10, <2>11 DEF Awk!Read, Awk!StdinBegins, Awk!Begin
  <1> QED BY <1>2, <1>20, <1>21, <1>22

\* At the end of the operands nothing is left to read, and at the end of the
\* input it stays so.
LEMMA AwkRunsOut == ASSUME MainInv, EndOfInput PROVE Awk!Read
  <1>1. /\ pc = "FINgets" /\ Calling /\ ~Calling' /\ ~Failed' /\ main_fin = dead_main /\ main_fin' = dead_main
        /\ out' = "over" /\ UNCHANGED <<args, argi, offset, FILENAME, FNR, NR, v>>
    BY DEF EndOfInput, Return, Calling, Failed, MAIN_FLAG, file
  <1>2. FinOK(was.main_fin, was.offset) /\ was.NR = NR /\ was.argi \in 1..argi /\ argi \in Nat
        /\ ARGC \in Int /\ StdinAt(main_fin, offset) = StdinAt(was.main_fin, was.offset)
        /\ (Staying \/ (Moved /\ Passing) \/ (Moved /\ OnStdin))
    BY <1>1 DEF MainInv, Typed, InTheCall, Moved
  <1>3. dead_main.name = "dead" /\ dead_main # Unopened /\ "dead" \notin Names /\ "-" \in Names
    BY NoFiles, Texts DEF dead_main
  <1>4. /\ At = was /\ ~Failed /\ At' = Now'
        /\ At'.main_fin = dead_main /\ At'.offset = offset /\ At'.argi = argi /\ At'.FILENAME = FILENAME
        /\ At'.FNR = FNR /\ At'.NR = NR /\ At'.v = v /\ At'.out = "over"
    BY <1>1 DEF At, Now, Failed, Calling
  <1>5. Source' = "over" /\ RestOfFile' = <<>> /\ RestOfStdin' = SubSeq(Text("-"), offset + 1, Records("-"))
    BY <1>1, <1>3, <1>4 DEF Source, RestOfFile, RestOfStdin, Failed
  <1>6. RestOfStdin' = RestOfStdin /\ RestOfStdin = SubSeq(Text("-"), StdinAt(was.main_fin, was.offset) + 1, Records("-"))
        /\ StdinAt(was.main_fin, was.offset) = offset
    <2>1. StdinAt(main_fin, offset) = offset
      BY <1>1, <1>3 DEF StdinAt
    <2>2. RestOfStdin = SubSeq(Text("-"), StdinAt(was.main_fin, was.offset) + 1, Records("-"))
      BY <1>4 DEF RestOfStdin, StdinAt
    <2> QED BY <1>2, <1>5, <2>1, <2>2
  <1>7. ARGV' = ARGV /\ ARGC' = ARGC
    BY <1>1 DEF args
  <1>8. \A j \in Ahead : j <= ARGC - 1 /\ j \in Int
    BY <1>2 DEF Ahead
  <1>9. ASSUME argi >= ARGC
        PROVE  /\ Assigned = {j \in Ahead : j <= ARGC - 1 /\ ARGV[j] \notin Names \cup {null_str}}
               /\ Opened = {j \in AheadFiles : j <= ARGC - 1 /\ ARGV[j] \notin Absent}
    <2>1. \A j \in Ahead : j <= ARGC - 1 /\ j < argi
      BY <1>2, <1>8, <1>9
    <2> QED BY <2>1 DEF Assigned, Opened, AheadFiles
  <1>20. CASE Staying
    <2>1. was.main_fin = dead_main /\ argi = was.argi /\ v = was.v /\ FILENAME = was.FILENAME /\ FNR = was.FNR
      BY <1>1, <1>2, <1>3, <1>20 DEF Staying, FinOK
    <2>2. Source = "over" /\ RestOfFile = <<>>
      BY <1>3, <1>4, <2>1 DEF Source, RestOfFile, Failed
    <2> QED BY <1>2, <1>4, <1>5, <1>6, <1>7, <2>1, <2>2 DEF Awk!Read, Awk!StaysOver, Awk!operands
  <1>21. CASE Moved /\ Passing
    <2>1. /\ argi >= ARGC /\ ~OnlyStdin /\ Stop = {} /\ (argi > was.argi => argi <= ARGC)
          /\ v = (IF Assigned = {} THEN was.v ELSE ARGV[Max(Assigned)])
          /\ FILENAME = (IF Opened = {} THEN was.FILENAME ELSE ARGV[Max(Opened)])
          /\ FNR = (IF Opened = {} THEN was.FNR ELSE 0)
      BY <1>1, <1>21 DEF Passing
    <2>2. Awk!AtEnd /\ Awk!Stops = {} /\ ~Awk!OnlyStdin /\ Awk!Opened(ARGC - 1) = Opened
      BY <1>1, <1>9, <1>21, <2>1, AwkAhead
    <2>3. Awk!PassTo(ARGC - 1)
      <3>1. ARGC - 1 \in Int /\ argi' = argi /\ argi' >= was.argi /\ argi' >= (ARGC - 1) + 1
            /\ argi' \in {was.argi, (ARGC - 1) + 1} /\ argi' \in Nat /\ v' = v /\ FILENAME' = FILENAME
        BY <1>1, <1>2, <2>1
      <3>2. FILENAME = IF OnlyStdin THEN "-" ELSE IF Opened = {} THEN was.FILENAME ELSE ARGV[Max(Opened)]
        BY <2>1
      <3> QED BY <1>1, <1>4, <1>7, <1>9, <2>1, <3>1, <3>2, AwkPassTo
    <2>4. At'.FNR = IF Awk!OnlyStdin \/ Awk!Opened(ARGC - 1) # {} THEN 0 ELSE At.FNR
      BY <1>4, <2>1, <2>2
    <2>5. At'.NR = At.NR
      BY <1>2, <1>4
    <2> QED BY <1>4, <1>5, <1>6, <2>2, <2>3, <2>4, <2>5 DEF Awk!Read, Awk!RunsOut, Awk!NoRecord
  <1>22. CASE Moved /\ OnStdin
    <2>1. /\ OnlyStdin /\ argi >= ARGC /\ (argi > was.argi => argi = ARGC) /\ FILENAME = "-" /\ FNR = 0
          /\ v = (IF Assigned = {} THEN was.v ELSE ARGV[Max(Assigned)])
          /\ offset = Records("-") /\ AheadFiles = {}
      BY <1>1, <1>2, <1>3, <1>6, <1>22 DEF OnStdin, OnlyStdin
    <2>2. RestOfStdin = <<>>
      <3> DEFINE s == Text("-")
      <3>1. s \in Seq(STRING \ {"failed"}) /\ offset = Len(s) /\ Records("-") = Len(s) /\ Len(s) \in 0..Len(s)
        BY <2>1, Texts
      <3>2. RestOfStdin = SubSeq(s, Len(s) + 1, Len(s))
        BY <1>6, <3>1
      <3> HIDE DEF s
      <3> QED BY <3>1, <3>2, RestProps
    <2>3. Awk!AtEnd /\ Awk!Stops = {} /\ Awk!OnlyStdin
      BY <1>1, <1>22, <2>1, AwkAhead DEF Stop
    <2>4. Awk!PassTo(ARGC - 1)
      <3>1. ARGC - 1 \in Int /\ argi' = argi /\ argi' >= was.argi /\ argi' >= (ARGC - 1) + 1
            /\ argi' \in {was.argi, (ARGC - 1) + 1} /\ argi' \in Nat /\ v' = v /\ FILENAME' = FILENAME
        BY <1>1, <1>2, <2>1
      <3>2. FILENAME = IF OnlyStdin THEN "-" ELSE IF Opened = {} THEN was.FILENAME ELSE ARGV[Max(Opened)]
        BY <2>1
      <3> QED BY <1>1, <1>4, <1>7, <1>9, <2>1, <3>1, <3>2, AwkPassTo
    <2>5. At'.FNR = 0 /\ At'.NR = At.NR
      BY <1>2, <1>4, <2>1
    <2> QED BY <1>4, <1>5, <1>6, <2>2, <2>3, <2>4, <2>5 DEF Awk!Read, Awk!RunsOut, Awk!NoRecord
  <1> QED BY <1>2, <1>20, <1>21, <1>22

\* The first operand that is a file with records, or no file, is not there.
LEMMA AwkFails == ASSUME MainInv, CannotOpen PROVE Awk!Read
  <1>1. /\ pc = "next_main" /\ Calling /\ ~Calling' /\ argi < ARGC /\ argi \in DOMAIN ARGV /\ ARGV[argi] \in Absent
        /\ argi' = argi + 1 /\ pc' = "exit" /\ out' = "failed" /\ main_fin = Unopened
        /\ UNCHANGED <<args, main_fin, offset, FILENAME, FNR, NR, v>>
    BY DEF CannotOpen, Operand, Passed, Calling, MainInv, Typed, file
  <1>2. was.NR = NR /\ was.argi \in 1..argi /\ argi \in Nat /\ ARGC \in Int
        /\ StdinAt(main_fin, offset) = StdinAt(was.main_fin, was.offset) /\ Moved /\ Passing
    BY <1>1 DEF MainInv, Typed, InTheCall, Moved, Staying, OnStdin
  <1>3. Unopened.name = "unopened" /\ "unopened" \notin Names /\ "-" \in Names /\ ARGV[argi] \in Names
        /\ ARGV[argi] \in Absent
    BY <1>1, Texts, MainAssumption DEF Unopened
  <1>4. /\ At = was /\ ~Failed /\ At' = Now' /\ Failed'
        /\ At'.main_fin = Unopened /\ At'.offset = offset /\ At'.argi = argi + 1 /\ At'.FILENAME = FILENAME
        /\ At'.FNR = FNR /\ At'.NR = NR /\ At'.v = v /\ At'.out = "failed"
    BY <1>1 DEF At, Now, Failed, Calling
  <1>5. Source' = "failed" /\ RestOfFile' = <<>> /\ RestOfStdin' = RestOfStdin
    <2>1. Source' = "failed" /\ RestOfFile' = <<>> /\ RestOfStdin' = SubSeq(Text("-"), offset + 1, Records("-"))
      <3>1. Source' = "failed"
        BY <1>4 DEF Source, Failed
      <3>2. At'.main_fin.name = "unopened"
        BY <1>3, <1>4
      <3> QED BY <1>3, <1>4, <3>1, <3>2 DEF RestOfFile, RestOfStdin
    <2>2. RestOfStdin = SubSeq(Text("-"), StdinAt(was.main_fin, was.offset) + 1, Records("-"))
      BY <1>4 DEF RestOfStdin, StdinAt
    <2>3. StdinAt(main_fin, offset) = offset
      BY <1>1, <1>3 DEF StdinAt
    <2> QED BY <1>2, <2>1, <2>2, <2>3
  <1>6. ARGV' = ARGV /\ ARGC' = ARGC
    BY <1>1 DEF args
  <1>7. argi \in AheadFiles /\ argi \in Stop /\ ~OnlyStdin
    <2>1. argi \in Ahead
      BY <1>1, <1>2 DEF Ahead
    <2> QED BY <1>3, <2>1 DEF AheadFiles, Stop, OnlyStdin
  <1>8. /\ \A j \in Stop : j >= argi
        /\ v = (IF Assigned = {} THEN was.v ELSE ARGV[Max(Assigned)])
        /\ FILENAME = (IF Opened = {} THEN was.FILENAME ELSE ARGV[Max(Opened)])
        /\ FNR = (IF Opened = {} THEN was.FNR ELSE 0)
    BY <1>1, <1>2 DEF Passing
  <1>9. Min(Stop) = argi
    <2>1. Stop \subseteq Int
      BY <1>2 DEF Stop, AheadFiles, Ahead
    <2>2. \A x \in Stop : (\A y \in Stop : x <= y) => x = argi
      BY <1>2, <1>7, <1>8, <2>1
    <2> QED BY <1>7, <1>8, <2>1, <2>2 DEF Min
  <1>10. \A j \in Ahead : j <= argi <=> j < argi \/ j = argi
    BY <1>2 DEF Ahead
  <1>11. Assigned = {j \in Ahead : j <= argi /\ ARGV[j] \notin Names \cup {null_str}}
    BY <1>3, <1>10 DEF Assigned
  <1>12. Opened = {j \in AheadFiles : j <= argi /\ ARGV[j] \notin Absent}
    BY <1>3, <1>10 DEF Opened, AheadFiles
  <1>13. /\ Awk!AtEnd /\ Awk!Stops = Stop /\ ~Awk!OnlyStdin /\ Awk!Opened(argi) = Opened
         /\ Awk!Min(Awk!Stops) = argi
    BY <1>1, <1>2, <1>7, <1>9, <1>12, AwkAhead, MaxMin
  <1>14. Awk!PassTo(argi)
    <2>1. argi \in Int /\ argi' >= was.argi /\ argi' >= argi + 1
          /\ argi' \in {was.argi, argi + 1} /\ argi' \in Nat /\ v' = v /\ FILENAME' = FILENAME
      BY <1>1, <1>2
    <2>2. FILENAME = IF OnlyStdin THEN "-" ELSE IF Opened = {} THEN was.FILENAME ELSE ARGV[Max(Opened)]
      BY <1>7, <1>8
    <2> QED BY <1>1, <1>4, <1>6, <1>8, <1>11, <1>12, <2>1, <2>2, AwkPassTo
  <1>15. At'.FNR = IF Awk!OnlyStdin \/ Awk!Opened(argi) # {} THEN 0 ELSE At.FNR
    BY <1>4, <1>8, <1>13
  <1>16. At'.NR = At.NR
    BY <1>2, <1>4
  <1> QED BY <1>1, <1>4, <1>5, <1>7, <1>13, <1>14, <1>15, <1>16 DEF Awk!Read, Awk!CannotOpen, Awk!NoRecord

\* Before the first read.
LEMMA AwkStarts == ASSUME Init PROVE Awk!Init
  <1>1. /\ At = Now /\ ~Failed /\ At.main_fin = Unopened /\ At.offset = 0 /\ At.argi = 1
        /\ At.FILENAME = null_str /\ At.FNR = 0 /\ At.NR = 0 /\ At.v = null_str /\ At.out = "none"
    BY DEF Init, At, Now, Calling, Failed
  <1>2. Unopened.name = "unopened" /\ "unopened" \notin Names /\ "-" \in Names
    BY Texts DEF Unopened
  <1>3. Source = "unopened" /\ RestOfFile = <<>>
    <2>1. Source = "unopened"
      BY <1>1, <1>2, NoFiles DEF Source, Failed
    <2>2. At.main_fin.name = "unopened"
      BY <1>1, <1>2
    <2> QED BY <1>2, <2>1, <2>2 DEF RestOfFile
  <1>4. RestOfStdin = Text("-")
    <2>1. RestOfStdin = SubSeq(Text("-"), 1, Records("-"))
      BY <1>1, <1>2 DEF RestOfStdin
    <2> QED BY <2>1, Texts, SubSeqFull
  <1>5. ARGV \in UNION {[1..k -> Args] : k \in 0..MaxArgs} /\ ARGC = 1 + Len(ARGV)
    BY DEF Init
  <1> QED BY <1>1, <1>3, <1>4, <1>5, NullStr DEF Awk!Init

\* The main input is what mawk(1) says: however many operands are skipped,
\* assigned, opened and found empty, a call of FINgets takes one step of
\* AwkMain when it returns, and none before.
THEOREM MainInputImplements == Spec => ReadsTheOperands
  <1>1. Init => Awk!Init
    BY AwkStarts
  <1>2. Init => MainInv
    BY TypedInit DEF MainInv, InTheCall, Init, Calling
  <1>3. ASSUME MainInv, MainInv', [Next]_vars PROVE [Awk!Next]_(Awk!vars)
    <2>1. CASE NEXTFILE
      BY <1>3, <2>1, AwkStutters, AwkSkips DEF Awk!Next
    <2>2. CASE Change
      BY <1>3, <2>2, AwkChanges DEF Awk!Next
    <2> QED BY <1>3, <2>1, <2>2, AwkStutters, AwkGivesRecord, AwkRunsOut, AwkFails
            DEF Next, InCall, Program, SetArgv, DeleteArgv, SetArgc, Awk!Next
  <1>4. Spec => []MainInv
    BY <1>2, MainStep, PTL DEF Spec
  <1> QED BY <1>1, <1>3, <1>4, PTL DEF Spec, ReadsTheOperands, Awk!Spec
=============================================================================
