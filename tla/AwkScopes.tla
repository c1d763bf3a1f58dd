----------------------------- MODULE AwkScopes -----------------------------
(***************************************************************************)
(* What mawk(1) says of names: a name is global, but the parameters of a   *)
(* function hide the globals of their names from their place in the list   *)
(* of parameters to the end of the function; then the globals are what     *)
(* they were.                                                              *)
(***************************************************************************)
CONSTANTS Ids, Keywords

VARIABLES globals, locals,    \* what each name that was met stands for
          place               \* "init", "main", "params" or "body"

vars == <<globals, locals, place>>

Put(f, s, t) == [k \in DOMAIN f \cup {s} |-> IF k = s THEN t ELSE f[k]]

Stands(s) == IF s \in DOMAIN locals THEN locals[s]
             ELSE IF s \in DOMAIN globals THEN globals[s] ELSE "ST_NONE"

Init == globals = <<>> /\ locals = <<>> /\ place = "init"

Reserve(s) == /\ place = "init" /\ s \notin DOMAIN globals
              /\ globals' = Put(globals, s, "ST_KEYWORD") /\ UNCHANGED <<locals, place>>
Start == place = "init" /\ place' = "main" /\ UNCHANGED <<globals, locals>>

\* what a name may turn out to be
Shown(t) == {t} \cup (CASE t = "ST_NONE" -> {"ST_VAR", "ST_FUNCT"}
                        [] t = "ST_LOCAL_NONE" -> {"ST_LOCAL_VAR"}
                        [] OTHER -> {})

\* a name in the text, which may show what it is
Use(s) == /\ place \in {"main", "body"}
          /\ \E t \in Shown(Stands(s)) :
               IF s \in DOMAIN locals THEN locals' = Put(locals, s, t) /\ UNCHANGED globals
               ELSE globals' = Put(globals, s, t) /\ UNCHANGED locals
          /\ UNCHANGED place

Define(s) ==
    /\ place = "main"
    /\ globals' = Put(globals, s, IF Stands(s) = "ST_NONE" THEN "ST_FUNCT" ELSE Stands(s))
    /\ place' = IF Stands(s) = "ST_KEYWORD" THEN "main" ELSE "params"
    /\ UNCHANGED locals

\* keywords and functions are no names of parameters, and a new name that looks
\* like a call becomes a function
Param(s) ==
    /\ place = "params"
    /\ \/ /\ globals' = IF s \in DOMAIN globals THEN globals ELSE Put(globals, s, "ST_NONE")
          /\ IF Stands(s) \in {"ST_KEYWORD", "ST_FUNCT"} THEN locals' = <<>> /\ place' = "main"
             ELSE /\ locals' = IF s \in DOMAIN locals THEN locals
                               ELSE Put(locals, s, "ST_LOCAL_NONE")
                  /\ UNCHANGED place
       \/ /\ Stands(s) = "ST_NONE" /\ globals' = Put(globals, s, "ST_FUNCT")
          /\ locals' = <<>> /\ place' = "main"

\* an earlier call may have shown what one parameter is
Body == /\ place = "params" /\ place' = "body" /\ UNCHANGED globals
        /\ \/ UNCHANGED locals
           \/ \E s \in DOMAIN locals : locals' = Put(locals, s, "ST_LOCAL_VAR")
Leave == /\ place \in {"params", "body"} /\ place' = "main"
         /\ locals' = <<>> /\ UNCHANGED globals

Next == \/ \E s \in Ids \cup Keywords :
              Reserve(s) \/ Define(s) \/ Param(s) \/ Use(s)
        \/ Start \/ Body \/ Leave

Spec == Init /\ [][Next]_vars
=============================================================================
