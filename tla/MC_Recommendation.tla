-------------------------- MODULE MC_Recommendation --------------------------
EXTENDS Recommendation
=============================================================================
