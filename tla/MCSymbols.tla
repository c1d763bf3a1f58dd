----------------------------- MODULE MCSymbols -----------------------------
EXTENDS Symbols, TLC

CONSTANTS x, y, w

MCTypes == {"ST_KEYWORD", "ST_NONE", "ST_VAR", "ST_FUNCT", "ST_LOCAL_NONE", "ST_LOCAL_VAR"}

\* x, y and the keyword share a bucket; the name w is too long for a pool
MCHash(s) == IF s = w THEN 2 ELSE 1
Symmetry == Permutations({x, y})
MCLength(s) == IF s = w THEN 34 ELSE 1
=============================================================================
