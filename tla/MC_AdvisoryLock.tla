--------------------------- MODULE MC_AdvisoryLock ---------------------------
(* Three concurrent calls: one inside, one that took over a lost lock, and   *)
(* one that finds the lock busy.                                             *)
EXTENDS AdvisoryLock
=============================================================================
