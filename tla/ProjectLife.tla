----------------------------- MODULE ProjectLife -----------------------------
(***************************************************************************)
(* What planning promises to the people of a project: its life from draft  *)
(* to archive and back, and what is kept of its execution.  The plan is    *)
(* locked once and for all, when the execution begins; permits to proceed  *)
(* past a gate are made of the locked plan and are never taken back; dates *)
(* belong to the locked work; files go only once the project was           *)
(* completed.  Requests that got in each other's way (disturbed) may leave *)
(* the project anywhere in its life, but the execution keeps its records.  *)
(***************************************************************************)
CONSTANTS Task, Gate, None

VARIABLES
  phase,      \* where the project is in its life
  baseline,   \* the locked plan, or None
  approvals,  \* the permits: functions from some gates
  schedule,   \* dates of the locked work
  evidence,   \* the files of the execution
  disturbed   \* did requests get in each other's way?

records == <<baseline, approvals, schedule>>
vars == <<phase, baseline, approvals, schedule, evidence, disturbed>>

Phase == {"none", "draft", "active", "on_hold", "completed", "archived", "deleted"}
Locked == baseline # None

Init ==
  /\ phase = "none" /\ baseline = None /\ evidence = "kept" /\ disturbed = FALSE
  /\ DOMAIN approvals = {} /\ DOMAIN schedule = {}

-----------------------------------------------------------------------------
(* The records of the execution.                                           *)

\* New permits cover locked work; those there are stay as they are.
Permit ==
  /\ baseline' # None
  /\ DOMAIN approvals \subseteq DOMAIN approvals' /\ DOMAIN approvals' \subseteq Gate
  /\ \A g \in DOMAIN approvals : approvals'[g] = approvals[g]
  /\ \A g \in DOMAIN approvals' : approvals'[g].covers \subseteq baseline'.tasks

\* The locked work, no more and no less, may have dates.
Date == baseline' # None /\ DOMAIN schedule' = baseline'.tasks

\* Locking the plan brings the first permits and dates with it.
LockPlan ==
  /\ ~Locked /\ baseline' # None /\ baseline'.tasks \subseteq Task
  /\ Permit /\ Date

Record ==
  /\ Locked /\ UNCHANGED <<phase, baseline, evidence, disturbed>>
  /\ UNCHANGED approvals \/ Permit
  /\ UNCHANGED schedule \/ Date

\* Files are collected when a completed project has been left alone, or given up on.
Collect == phase = "completed" /\ Locked /\ evidence = "kept" /\ evidence' = "listed"
Purge   == evidence = "listed" /\ evidence' = "purged"
GiveUp  == evidence = "listed" /\ evidence' = "kept"

Retain == (Collect \/ Purge \/ GiveUp) /\ UNCHANGED <<phase, records, disturbed>>

-----------------------------------------------------------------------------
(* The life of the project, as long as requests keep out of each other's   *)
(* way.                                                                    *)

Move(from, to) ==
  /\ ~disturbed /\ phase \in from /\ phase' = to
  /\ UNCHANGED <<evidence, disturbed>>

Open     == Move({"none"}, "draft") /\ ~Locked /\ UNCHANGED records
Activate == Move({"draft"}, "active") /\ LockPlan
Hold     == Move({"active"}, "on_hold") /\ UNCHANGED records
Resume   == Move({"on_hold"}, "active") /\ Locked /\ UNCHANGED records
Complete == Move({"active", "on_hold"}, "completed") /\ Locked /\ UNCHANGED records
Archive  == Move({"draft", "active", "on_hold", "completed"}, "archived") /\ UNCHANGED records
Delete   == Move({"draft"}, "deleted") /\ ~Locked /\ UNCHANGED records

\* An archived project comes back as a draft or to rest, never to execution.
Restore ==
  \/ Move({"archived"}, "draft") /\ ~Locked /\ UNCHANGED records
  \/ \E to \in {"on_hold", "completed"} : Move({"archived"}, to) /\ Locked /\ UNCHANGED records

\* Requests that raced: the project is left in any phase, its records are not.
Disturb ==
  /\ disturbed' /\ phase' \in Phase /\ UNCHANGED evidence
  /\ phase' \in {"active", "on_hold", "completed"} => baseline' # None
  /\ phase' = "deleted" => baseline' = None
  /\ \/ UNCHANGED records
     \/ LockPlan
     \/ UNCHANGED baseline /\ Permit /\ UNCHANGED schedule

Next ==
  \/ Open \/ Activate \/ Hold \/ Resume \/ Complete \/ Archive \/ Restore \/ Delete
  \/ Disturb \/ Record \/ Retain

Spec == Init /\ [][Next]_vars
=============================================================================
