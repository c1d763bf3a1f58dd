-------------------------------- MODULE MCFin --------------------------------
EXTENDS Fin, FiniteSets

CONSTANTS MaxLen, Letters

MCFiles == UNION {[1..k -> Letters] : k \in 0..MaxLen}

\* the length of the run of c in t from p on
RunLen(t, p, c) ==
    CHOOSE k \in 0..Len(t) - p + 1 :
        /\ \A j \in p..p + k - 1 : t[j] = c
        /\ p + k <= Len(t) => t[p + k] # c

\* "char": newline; "str": "\n\n"; "mlr": \n\n+; "re": ^a+|\n+(aa)?
LengthAt(kind, t, p, bolOK) ==
    LET r == RunLen(t, p, NL)
    IN CASE kind = "char" -> IF r > 0 THEN 1 ELSE 0
         [] kind = "str"  -> IF r > 1 THEN 2 ELSE 0
         [] kind = "mlr"  -> IF r > 1 THEN r ELSE 0
         [] kind = "re"   -> IF bolOK /\ p = 1 /\ r = 0 THEN RunLen(t, p, "a")
                             ELSE IF r > 0 /\ p + r < Len(t) /\ t[p + r] = "a" /\ t[p + r + 1] = "a"
                             THEN r + 2 ELSE r

MCMatch(kind, t, bolOK) ==
    LET hits == {p \in 1..Len(t) : LengthAt(kind, t, p, bolOK) > 0}
        first == CHOOSE p \in hits : \A i \in hits : p <= i
    IN IF hits = {} THEN <<0, 0>> ELSE <<first, LengthAt(kind, t, first, bolOK)>>
=============================================================================
