------------------------------ MODULE MCSplitter ------------------------------
EXTENDS Splitter

\* every text of at most 4 characters, two of them
MCTexts == UNION {[1..k -> {"a", " "}] : k \in 0..4}

\* every table of longest matches of a text of at most 3 characters; what matches
\* where ^ does not also matches where it does
MCTables(k) == {m \in Tables(k) : m.bol >= m.at[1]}
MCMatches == UNION {{[i \in 1..k |-> i]} \X MCTables(k) : k \in 0..3}
=============================================================================
