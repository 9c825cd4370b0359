---------------------------- MODULE MC_Retention ----------------------------
EXTENDS Retention
=============================================================================
