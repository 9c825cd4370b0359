---------------------------- MODULE MC_ProviderSync ----------------------------
EXTENDS ProviderSync

\* The first day is a March 31: the window begins a day earlier on the next.
MC_Overflow == [t \in FirstDay..LastDay |-> IF t = FirstDay THEN 2 ELSE 0]
=============================================================================
