---------------------------- MODULE MC_SyncCycle ----------------------------
(* One worker and one cron request, or two of one kind.                      *)
EXTENDS SyncCycle
=============================================================================
