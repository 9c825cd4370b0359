--------------------------- MODULE MC_Connection ---------------------------
EXTENDS Connection, TLC

\* Processes and slots are interchangeable; no temporal property is checked with it.
Symmetry == Permutations(Procs) \cup Permutations(Calls)
=============================================================================
