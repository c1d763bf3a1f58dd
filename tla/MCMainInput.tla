---------------------------- MODULE MCMainInput ----------------------------
EXTENDS MainInput

\* a file of two records, an empty one, one that is not there
MCNames == {"f", "e", "m", "-"}
MCText(f) == CASE f = "f" -> <<"f1", "f2">> [] f = "-" -> <<"s1", "s2">> [] OTHER -> <<>>
MCArgs == MCNames \cup {"", "v=1", "v=2"}
=============================================================================
