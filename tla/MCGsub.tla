------------------------------- MODULE MCGsub -------------------------------
EXTENDS Gsub

\* every text of at most three characters, two of them
MCTexts == UNION {[1..k -> {"a", "b"}] : k \in 0..3}

\* every table of longest matches of a text of k characters; at offset 0 only
\* the search that may match ^ is ever made
MCTables(k) ==
    {m \in [at : [1..k + 1 -> -1..k], bol : -1..k] :
        /\ \A p \in 1..k + 1 : m.at[p] <= k + 1 - p
        /\ m.at[1] = -1}
MCRepls == UNION {[1..k -> {"a", "&", "\\"}] : k \in 0..3} \cup {<<"\\", "\\", "\\", "&">>}

\* what /a|aa$/ finds in aaa, with && for the replacement
CacheTexts == {<<"a", "a", "a">>}
CacheTables(k) == {[at |-> <<1, 2, 1, -1>>, bol |-> 1]}
CacheRepls == {<<"&", "&">>}
=============================================================================
