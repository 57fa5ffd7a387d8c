--------------------------- MODULE MCEntriesStore ---------------------------
EXTENDS EntriesStore, TLC

CONSTANTS w1, w2, w3, r1, r2

\* Workers and rows are interchangeable.
Interchangeable == Permutations(Workers) \cup Permutations(Rows)
=============================================================================
