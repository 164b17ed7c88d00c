------------------------------ MODULE TaskRaces ------------------------------
(***************************************************************************)
(* The task machinery with a record of its races.  verify(), approve() and *)
(* the Telegram handlers read a task without a lock and write it later,    *)
(* and a completion writes milestones that nothing locks.  Two history     *)
(* variables, which no action of TaskLifecycle reads, note who acts on a   *)
(* row that has changed in between: what the code keeps right of all the   *)
(* others is stated here, whatever requests run side by side.              *)
(***************************************************************************)
EXTENDS TaskLifecycle

VARIABLES
  overtaken,  \* <<s, t>>: t changed since s read it, and s may yet write it
  raced       \* tasks that a request has written over such a change

raceVars == <<vars, overtaken, raced>>

-----------------------------------------------------------------------------
\* The rows that a thread has read and is about to write.
Watched(s) ==
  CASE req[s].pc = "read" -> {req[s].task}
    [] req[s].pc = "held" -> req[s].cascade \cup {req[s].task}
    [] OTHER              -> {}

\* A step changes what decisions go by.
Touched(t) ==
  \/ status'[t] # status[t]
  \/ verifications'[t] # verifications[t]
  \/ approvals'[t] # approvals[t]

\* s writes t from what it read before another request changed it.
WritesOver(s, t) ==
  /\ <<s, t>> \in overtaken
  /\ FirstTransition(s) \/ CommitCompletion(s)

NoteRaces ==
  /\ overtaken' = {p \in Session \X Task :
                     /\ p[2] \in Watched(p[1]) /\ p[2] \in Watched(p[1])'
                     /\ p \in overtaken \/ Touched(p[2])}
  /\ raced' = [t \in Task |-> raced[t] \/ \E s \in Session : WritesOver(s, t)]

RaceInit ==
  /\ Init
  /\ overtaken = {}
  /\ raced = [t \in Task |-> FALSE]

\* The steps of TaskLifecycle's Next, each with its note.
RaceNext ==
  \/ \E s \in Session : \/ FirstTransition(s) /\ NoteRaces
                        \/ NextTransition(s) /\ NoteRaces
                        \/ CommitCompletion(s) /\ NoteRaces
                        \/ Refuse(s) /\ NoteRaces
                        \/ Fail(s) /\ NoteRaces
  \/ \E s \in Session, t \in Task, a \in Actor :
       \/ \E d \in {"verified", "rejected"} : ReadForVerify(s, t, a, d) /\ NoteRaces
       \/ \E d \in {"approved", "rejected"} : ReadForApprove(s, t, a, d) /\ NoteRaces
       \/ \E target \in Status : ReadForStatus(s, t, a, target) /\ NoteRaces
       \/ \E target \in Status : PortalStatus(s, t, a, target) /\ NoteRaces
  \/ \E t \in Task, a \in Actor : \E evidence \in Evidence(t) :
       SubmitProgress(t, a, evidence) /\ NoteRaces
  \/ \E t \in Task, e \in Employees :
       \/ AssignSupport(t, e) /\ NoteRaces
       \/ \E replacements \in SUBSET Employees : EndSupport(t, e, replacements) /\ NoteRaces
  \/ \E a \in Supervisors \cup {NoActor} : ChangeSupervisor(a) /\ NoteRaces

RaceSpec == RaceInit /\ [][RaceNext]_raceVars /\ Fairness

-----------------------------------------------------------------------------
(* Properties.                                                             *)

\* A status leaves BR-009's table only in the hands of a request that has been
\* overtaken on that very task: every other write, and every milestone of every
\* cascade, follows the table, also when requests interleave on the task.
TableLeftOnlyInRaces ==
  [][\A t \in Task :
       status'[t] # status[t] /\ status'[t] \notin Allowed(status[t])
         => \E s \in Session : WritesOver(s, t)]_raceVars

\* A completed task was completed by the decision its kind calls for, and no
\* later decision contradicts it: standard work by its latest verification,
\* class_a work by one approval of its latest verification, recorded by someone
\* else, an approval gate by its latest approval.
CompletionIsDecided ==
  \A t \in Task : status[t] = "completed" /\ ~raced[t] =>
    /\ Kind[t] = "work" => LatestIsVerified(t)
    /\ Kind[t] = "work" /\ Class[t] = "class_a" =>
         \E v \in Latest(verifications[t]), d \in approvals[t] :
           /\ {e \in approvals[t] : e.verification = v.at} = {d}
           /\ d.decision = "approved" /\ d.by # v.by
    /\ Kind[t] = "approval_gate" =>
         \E d \in Latest(approvals[t]) : d.decision = "approved"

\* One submission is decided once: no two verifications name the same progress
\* update, no two approvals the same verification, and a gate has no more
\* decisions than progress updates.
OneDecisionPerSubmission ==
  \A t \in Task : ~raced[t] =>
    /\ \A v, w \in verifications[t] : v.update = w.update => v = w
    /\ Kind[t] = "work" => \A d, e \in approvals[t] : d.verification = e.verification => d = e
    /\ Kind[t] = "approval_gate" => Cardinality(approvals[t]) <= Len(progress[t])
=============================================================================
