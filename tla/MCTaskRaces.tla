----------------------------- MODULE MCTaskRaces -----------------------------
(* The instances of MCTaskLifecycle, with a record of the races in them.      *)
EXTENDS MCTaskLifecycle, TaskRaces
=============================================================================
