---------------------------- MODULE TaskLifecycle ----------------------------
(***************************************************************************)
(* The life of a task: the status machine of TaskLifecycleService, the     *)
(* progress updates a submission rests on, and the verification and        *)
(* approval decisions that review it.                                      *)
(*                                                                         *)
(* A request is handled by a worker thread (Session) with a database       *)
(* session of its own, at READ COMMITTED.  A decision is not one           *)
(* transaction: verify() and approve() read the task without a lock, and   *)
(* then call transition() up to three times, each call ending in a commit. *)
(* The first call locks the row but keeps the status read before the lock  *)
(* (the object is already in the identity map and the locked SELECT does   *)
(* not repopulate it); a commit expires it, so later calls read afresh.    *)
(***************************************************************************)
EXTENDS Naturals, FiniteSets, Sequences

CONSTANTS
  Task,              \* the tasks of one project
  Session,           \* worker threads, each with a database session
  Admins,            \* users with role admin or super_admin
  PMs,               \* active project managers of the project
  Supervisors,       \* users who can hold the site supervisor's seat
  Employees,         \* internal employees of the project
  NoActor,           \* the vacant supervisor's seat
  Kind,              \* task_kind of each task ("work" stands for NULL too)
  Class,             \* task_class of each task
  EvidenceRequired,  \* evidence_required of each task
  Deps,              \* the blocking TaskDependency rows
  Interference,      \* may requests disturb what another one has read?
  MaxReviews,        \* bound on the review requests of a behaviour
  MaxUpdates,        \* bound on the progress updates of a task
  MaxFailures        \* bound on the requests that die half-way

Actor == Admins \cup PMs \cup Supervisors \cup Employees

Edge == [pred : Task, succ : Task, type : {"finish_to_start", "start_to_start"}]

ASSUME DepsAssumption == Deps \subseteq Edge
ASSUME KindAssumption ==
  /\ Kind \in [Task -> {"work", "approval_gate", "milestone"}]
  /\ Class \in [Task -> {"standard", "class_a", "none"}]
  /\ EvidenceRequired \in [Task -> BOOLEAN]
ASSUME ActorAssumption ==
  /\ NoActor \notin Actor
  /\ (Admins \cup PMs) \cap (Supervisors \cup Employees) = {}
ASSUME BoundAssumption ==
  /\ Interference \in BOOLEAN
  /\ MaxReviews \in Nat /\ MaxUpdates \in Nat /\ MaxFailures \in Nat

VARIABLES
  status,         \* tasks.lifecycle_status
  actualStart,    \* tasks.actual_start_at is set
  actualFinish,   \* tasks.actual_finish_at is set
  progress,       \* task_progress_updates rows of a task, oldest first
  submission,     \* progress_update_ids in the last `submitted` outbox event
  verifications,  \* task_verifications rows of a task
  approvals,      \* task_approval_decisions rows of a task
  support,        \* employees with an active task_support_assignments row
  supervisor,     \* the active site_supervisor membership, or NoActor
  req,            \* the request each worker thread is executing
  clock,          \* review requests begun so far
  failures        \* requests that died half-way so far

taskVars   == <<status, actualStart, actualFinish, submission>>
reviewVars == <<progress, verifications, approvals>>
staffVars  == <<support, supervisor>>
vars == <<taskVars, reviewVars, staffVars, req, clock, failures>>

-----------------------------------------------------------------------------
(* The transition table and the roles.                                     *)

Status == {"planned", "ready", "in_progress", "submitted", "verified",
           "approval_pending", "rejected", "completed", "cancelled"}

Allowed(st) ==
  CASE st = "planned"          -> {"ready", "completed", "cancelled"}
    [] st = "ready"            -> {"in_progress", "cancelled"}
    [] st = "in_progress"      -> {"submitted", "cancelled"}
    [] st = "submitted"        -> {"verified", "approval_pending", "rejected", "cancelled"}
    [] st = "verified"         -> {"approval_pending", "completed", "cancelled"}
    [] st = "approval_pending" -> {"completed", "rejected", "cancelled"}
    [] st = "rejected"         -> {"in_progress", "cancelled"}
    [] OTHER                   -> {}

DecisionServiceOnly == {"verified", "approval_pending", "rejected"}
Started == {"in_progress", "submitted", "verified", "approval_pending",
            "rejected", "completed"}

\* A milestone can be steered by hand like any task until it is completed.
RoleFor(t, target, a) ==
  \/ a \in Admins
  \/ /\ target \in {"in_progress", "submitted"}
     /\ \/ a \in support[t]
        \/ /\ support[t] = {}
           /\ Kind[t] # "approval_gate"
           /\ a \in PMs \cup {supervisor}
  \/ /\ target \in {"ready", "completed"}
     /\ a \in PMs \cup {supervisor} \/ (target = "ready" /\ a \in support[t])

-----------------------------------------------------------------------------
(* Progress, decisions and dependencies as the queries see them.           *)

Unreviewed(t) == {i \in DOMAIN progress[t] : ~progress[t][i].reviewed}

FreshEnough(t) ==
  /\ Unreviewed(t) # {}
  /\ EvidenceRequired[t] => \E i \in Unreviewed(t) : progress[t][i].evidence

\* Mutant: mark_progress_reviewed() is not called.
ReviewedNot(updates) == updates

Reviewed(updates) == [i \in DOMAIN updates |-> [updates[i] EXCEPT !.reviewed = TRUE]]

\* verified_at defaults to now(), the start of the deciding transaction, so
\* "latest" is the order in which the requests began, not that of their commits.
Latest(rows) == {r \in rows : \A other \in rows : other.at <= r.at}

LatestIsVerified(t) == \E v \in Latest(verifications[t]) : v.decision = "verified"

\* Mutant: a predecessor under review counts as done.
PredecessorSubmitted(d) ==
  status[d.pred] \in {"submitted", "verified", "approval_pending", "completed", "cancelled"}

PredecessorSatisfied(d) ==
  \/ status[d.pred] = "cancelled"
  \/ d.type = "start_to_start" /\ status[d.pred] \in Started
  \/ /\ d.type = "finish_to_start"
     /\ \/ status[d.pred] = "completed"
        \/ /\ Kind[d.pred] = "work" /\ Class[d.pred] = "standard"
           /\ status[d.pred] = "verified"
           /\ LatestIsVerified(d.pred)

BlockingPredecessorsSatisfied(t) ==
  \A d \in Deps : d.succ = t => PredecessorSatisfied(d)

MilestonePredecessorsCompleted(t) ==
  \A d \in Deps : d.succ = t => status[d.pred] = "completed"

\* Mutants: the cascade forgets the other predecessors; it does not chain.
CascadeOnAnyPredecessor(t, done, m) ==
  /\ Kind[m] = "milestone" /\ status[m] = "planned" /\ m # t
  /\ \E d \in Deps : d.succ = m /\ d.pred \in done \cup {t}

CascadeUnchained(t, done, m) ==
  /\ Kind[m] = "milestone" /\ status[m] = "planned" /\ m # t
  /\ \E d \in Deps : d.succ = m /\ d.pred = t
  /\ \A d \in Deps : d.succ = m => d.pred = t \/ status[d.pred] = "completed"

\* The milestones that the completion of t brings to completion, chained ones
\* included: the smallest set closed under the cascade's rule.
CascadeReaches(t, done, m) ==
  /\ Kind[m] = "milestone" /\ status[m] = "planned" /\ m # t
  /\ \E d \in Deps : d.succ = m /\ d.pred \in done \cup {t}
  /\ \A d \in Deps : d.succ = m =>
        d.pred \in done \cup {t} \/ status[d.pred] = "completed"

CascadeClosed(t, done) == \A m \in Task : CascadeReaches(t, done, m) => m \in done

Cascade(t) ==
  {m \in Task : \A done \in SUBSET Task : CascadeClosed(t, done) => m \in done}

-----------------------------------------------------------------------------
(* Requests.                                                               *)

Idle == [pc |-> "idle"]

\* pc "read": the task was read, nothing is locked; "open": between two
\* commits; "held": the completing transaction has locked its row and computed
\* its cascade but not committed.
RequestOf(kind, decisions, targets) ==
  [pc : {"read", "open", "held"}, kind : {kind}, task : Task, actor : Actor,
   decision : decisions, target : targets, seen : Status,
   about : Nat, at : Nat, cascade : SUBSET Task]

Request ==
  RequestOf("status", Status, Status)
    \cup RequestOf("verify", {"verified", "rejected"},
                   {"verified", "rejected", "in_progress", "completed"})
    \cup RequestOf("approve", {"approved", "rejected"},
                   {"approval_pending", "rejected", "in_progress", "completed"})

FirstTarget(kind, decision) == IF kind = "approve" THEN "approval_pending" ELSE decision

\* Mutant: only standard work completes on its verification.
HasFollowUpIfClassed(r) ==
  \/ r.kind = "approve" /\ r.target \in {"approval_pending", "rejected"}
  \/ r.kind = "verify" /\ r.target = "rejected"
  \/ r.kind = "verify" /\ r.target = "verified" /\ Class[r.task] = "standard"

\* The transition() call that follows the one to r.target, if there is one.
HasFollowUp(r) ==
  \/ r.kind = "approve" /\ r.target \in {"approval_pending", "rejected"}
  \/ r.kind = "verify" /\ r.target = "rejected"
  \/ r.kind = "verify" /\ r.target = "verified" /\ Class[r.task] # "class_a"

\* Mutant: rejected work goes back to review.
FollowUpToReview(r) ==
  CASE r.target = "rejected" -> "submitted"
    [] r.target = "approval_pending" /\ r.decision = "rejected" -> "rejected"
    [] OTHER -> "completed"

FollowUp(r) ==
  CASE r.target = "rejected" -> "in_progress"
    [] r.target = "approval_pending" /\ r.decision = "rejected" -> "rejected"
    [] OTHER -> "completed"

Locked(t) == \E s \in Session : req[s].pc = "held" /\ req[s].task = t

\* Without Interference no request writes a row that another one has read and
\* is about to write: the assumption under which the unlocked reads are safe.
Undisturbed(s, t) ==
  Interference \/ \A o \in Session \ {s} :
    /\ ~(req[o].pc = "read" /\ req[o].task = t)
    /\ ~(req[o].pc = "held" /\ t \in req[o].cascade \cup {req[o].task})

\* Mutants: transition() without its table; without its predecessor check.
PermittedOffTable(r, current) ==
  /\ r.kind = "status" =>
       /\ r.target \notin DecisionServiceOnly
       /\ r.target = "completed" => Kind[r.task] = "milestone"
       /\ r.target # "cancelled" => RoleFor(r.task, r.target, r.actor)
  /\ r.target = "cancelled" => r.actor \in Admins \cup PMs

PermittedUnblocked(r, current) ==
  /\ r.target \in Allowed(current)
  /\ r.kind = "status" =>
       /\ r.target \notin DecisionServiceOnly
       /\ r.target = "completed" => Kind[r.task] = "milestone"
  /\ r.target \in {"ready", "in_progress"} => supervisor # NoActor

\* Every check of transition(), on the status the request believes in.
Permitted(r, current) ==
  /\ r.target \in Allowed(current)
  /\ r.kind = "status" =>
       /\ r.target \notin DecisionServiceOnly
       /\ r.target = "completed" => Kind[r.task] = "milestone"
       /\ r.target # "cancelled" => RoleFor(r.task, r.target, r.actor)
  /\ current = "planned" /\ r.target = "completed" =>
       Kind[r.task] = "milestone" /\ MilestonePredecessorsCompleted(r.task)
  /\ r.target = "cancelled" => r.actor \in Admins \cup PMs
  /\ r.target \in {"ready", "in_progress"} =>
       supervisor # NoActor /\ BlockingPredecessorsSatisfied(r.task)
  /\ r.target = "submitted" /\ Kind[r.task] # "milestone" => FreshEnough(r.task)

\* What the first transaction of a decision inserts besides the status change.
RecordDecision(r) ==
  LET t == r.task IN
  CASE r.kind = "verify" ->
         /\ verifications' = [verifications EXCEPT ![t] = @ \cup
              {[at |-> r.at, by |-> r.actor, decision |-> r.decision, update |-> r.about]}]
         /\ progress' = [progress EXCEPT ![t] = Reviewed(@)]
         /\ UNCHANGED approvals
    [] r.kind = "approve" ->
         /\ approvals' = [approvals EXCEPT ![t] = @ \cup
              {[at |-> r.at, by |-> r.actor, decision |-> r.decision, verification |-> r.about]}]
         /\ progress' = [progress EXCEPT ![t] = Reviewed(@)]
         /\ UNCHANGED verifications
    [] OTHER -> UNCHANGED reviewVars

\* transition() to any status but completed: one transaction.
CommitTransition(s, r) ==
  LET t == r.task IN
  /\ r.target # "completed"
  /\ status' = [status EXCEPT ![t] = r.target]
  /\ actualStart' = [actualStart EXCEPT ![t] = @ \/ r.target = "in_progress"]
  /\ submission' = [submission EXCEPT ![t] =
                      IF r.target = "submitted" THEN Unreviewed(t) ELSE @]
  /\ req' = [req EXCEPT ![s] = IF HasFollowUp(r)
                                 THEN [r EXCEPT !.pc = "open", !.target = FollowUp(r)]
                                 ELSE Idle]
  /\ UNCHANGED <<actualFinish, staffVars, clock, failures>>

\* transition() to completed, up to its commit: the cascade is computed from
\* what other transactions have committed.
HoldCompletion(s, r) ==
  /\ r.target = "completed"
  /\ \A m \in Cascade(r.task) : Undisturbed(s, m)
  /\ req' = [req EXCEPT ![s] = [r EXCEPT !.pc = "held", !.cascade = Cascade(r.task)]]
  /\ UNCHANGED <<taskVars, reviewVars, staffVars, clock, failures>>

\* The commit of that transaction: its own row and the milestones of the cascade.
CommitCompletion(s) ==
  LET done == req[s].cascade \cup {req[s].task} IN
  /\ req[s].pc = "held"
  /\ status' = [t \in Task |-> IF t \in done THEN "completed" ELSE status[t]]
  /\ actualStart' = [t \in Task |-> t \in done \/ actualStart[t]]
  /\ actualFinish' = [t \in Task |-> t \in done \/ actualFinish[t]]
  /\ req' = [req EXCEPT ![s] = Idle]
  /\ UNCHANGED <<submission, reviewVars, staffVars, clock, failures>>

-----------------------------------------------------------------------------
(* The beginnings of requests.                                             *)

NewRequest(kind, t, a, decision, about) ==
  [pc |-> "read", kind |-> kind, task |-> t, actor |-> a, decision |-> decision,
   target |-> FirstTarget(kind, decision), seen |-> status[t],
   about |-> about, at |-> clock, cascade |-> {}]

\* verify(), up to its first write.
ReadForVerify(s, t, a, decision) ==
  /\ req[s] = Idle /\ clock < MaxReviews /\ Undisturbed(s, t)
  /\ Kind[t] = "work" /\ status[t] = "submitted"
  /\ a \in Admins \cup PMs \cup {supervisor}
  /\ progress[t] # <<>>
  /\ a \in Admins \/ progress[t][Len(progress[t])].by # a
  /\ req' = [req EXCEPT ![s] = NewRequest("verify", t, a, decision, Len(progress[t]))]
  /\ clock' = clock + 1
  /\ UNCHANGED <<taskVars, reviewVars, staffVars, failures>>

\* Mutant: approve() lets the verifier approve their own verification.
ReadForApproveSelf(s, t, a, decision) ==
  /\ req[s] = Idle /\ clock < MaxReviews /\ Undisturbed(s, t)
  /\ a \in Admins \cup PMs
  /\ Kind[t] = "work" /\ Class[t] = "class_a" /\ status[t] = "verified"
  /\ \E v \in Latest(verifications[t]) :
       /\ v.decision = "verified"
       /\ req' = [req EXCEPT ![s] = NewRequest("approve", t, a, decision, v.at)]
  /\ clock' = clock + 1
  /\ UNCHANGED <<taskVars, reviewVars, staffVars, failures>>

\* approve(), up to its first write.
ReadForApprove(s, t, a, decision) ==
  /\ req[s] = Idle /\ clock < MaxReviews /\ Undisturbed(s, t)
  /\ a \in Admins \cup PMs
  /\ \/ /\ Kind[t] = "approval_gate" /\ status[t] = "submitted"
        /\ req' = [req EXCEPT ![s] = NewRequest("approve", t, a, decision, 0)]
     \/ /\ Kind[t] = "work" /\ Class[t] = "class_a" /\ status[t] = "verified"
        /\ \E v \in Latest(verifications[t]) :
             /\ v.decision = "verified" /\ v.by # a
             /\ req' = [req EXCEPT ![s] = NewRequest("approve", t, a, decision, v.at)]
  /\ clock' = clock + 1
  /\ UNCHANGED <<taskVars, reviewVars, staffVars, failures>>

\* A status change by Telegram button or typed command: the handler loads the
\* task to resolve it, then calls transition(). Cancelling is refused there.
\* A press the table would refuse leaves nothing behind and is left out.
ReadForStatus(s, t, a, target) ==
  /\ req[s] = Idle /\ Undisturbed(s, t)
  /\ target # "cancelled" /\ target \in Allowed(status[t]) \ DecisionServiceOnly
  /\ req' = [req EXCEPT ![s] = NewRequest("status", t, a, target, 0)]
  /\ UNCHANGED <<taskVars, reviewVars, staffVars, clock, failures>>

-----------------------------------------------------------------------------
(* The steps of a request.                                                 *)

\* The Web App's POST /status: transition() reads the task under the lock.
PortalStatus(s, t, a, target) ==
  LET r == NewRequest("status", t, a, target, 0) IN
  /\ req[s] = Idle /\ ~Locked(t) /\ Undisturbed(s, t)
  /\ Permitted(r, status[t])
  /\ \/ CommitTransition(s, r) /\ UNCHANGED reviewVars
     \/ HoldCompletion(s, r)

\* The first transition() call of a request that has read the task.
FirstTransition(s) ==
  LET r == req[s] IN
  /\ r.pc = "read" /\ ~Locked(r.task) /\ Undisturbed(s, r.task)
  /\ Permitted(r, r.seen)
  /\ \/ CommitTransition(s, r) /\ RecordDecision(r)
     \/ HoldCompletion(s, r)

\* A later transition() call of the same request.
NextTransition(s) ==
  LET r == req[s] IN
  /\ r.pc = "open" /\ ~Locked(r.task) /\ Undisturbed(s, r.task)
  /\ Permitted(r, status[r.task])
  /\ \/ CommitTransition(s, r) /\ UNCHANGED reviewVars
     \/ HoldCompletion(s, r)

\* transition() refuses: what was committed before it stays.
Refuse(s) ==
  LET r == req[s] IN
  /\ r.pc \in {"read", "open"} /\ ~Locked(r.task)
  /\ ~Permitted(r, IF r.pc = "read" THEN r.seen ELSE status[r.task])
  /\ req' = [req EXCEPT ![s] = Idle]
  /\ UNCHANGED <<taskVars, reviewVars, staffVars, clock, failures>>

\* The request dies (a crash, a lost connection, a deadlock abort): the open
\* transaction is rolled back, the committed ones stay.
Fail(s) ==
  /\ req[s] # Idle /\ failures < MaxFailures
  /\ failures' = failures + 1
  /\ req' = [req EXCEPT ![s] = Idle]
  /\ UNCHANGED <<taskVars, reviewVars, staffVars, clock>>

-----------------------------------------------------------------------------
(* Progress and staffing: one transaction each.                            *)

\* Evidence is told apart only where the task requires it.
Evidence(t) == IF EvidenceRequired[t] THEN BOOLEAN ELSE {FALSE}

\* Mutant: progress is still accepted while the task is under review.
SubmitProgressLate(t, a, evidence) ==
  /\ ~Locked(t)
  /\ a \in Admins \/ a \in support[t] \/ (support[t] = {} /\ a \in PMs \cup {supervisor})
  /\ status[t] \in {"in_progress", "submitted"}
  /\ Len(progress[t]) < MaxUpdates
  /\ progress' = [progress EXCEPT ![t] =
                    Append(@, [by |-> a, evidence |-> evidence, reviewed |-> FALSE])]
  /\ UNCHANGED <<taskVars, verifications, approvals, staffVars, req, clock, failures>>

\* submit_progress() locks the row and reads it again under the lock.
SubmitProgress(t, a, evidence) ==
  /\ ~Locked(t)
  /\ a \in Admins \/ a \in support[t] \/ (support[t] = {} /\ a \in PMs \cup {supervisor})
  /\ status[t] = "in_progress"
  /\ Len(progress[t]) < MaxUpdates
  /\ progress' = [progress EXCEPT ![t] =
                    Append(@, [by |-> a, evidence |-> evidence, reviewed |-> FALSE])]
  /\ UNCHANGED <<taskVars, verifications, approvals, staffVars, req, clock, failures>>

SupportController(t) ==
  Admins \cup (CASE Kind[t] = "approval_gate" -> PMs
                 [] Kind[t] = "work" -> {supervisor} \ {NoActor}
                 [] OTHER -> {})

AssignSupport(t, e) ==
  /\ SupportController(t) # {} /\ e \notin support[t]
  /\ support' = [support EXCEPT ![t] = @ \cup {e}]
  /\ UNCHANGED <<taskVars, reviewVars, supervisor, req, clock, failures>>

\* Ends one assignment, with or without a replacement in the same transaction.
EndSupport(t, e, replacements) ==
  /\ SupportController(t) # {} /\ e \in support[t]
  /\ replacements \cap (support[t] \ {e}) = {} /\ Cardinality(replacements) <= 1
  /\ support' = [support EXCEPT ![t] = (@ \ {e}) \cup replacements]
  /\ UNCHANGED <<taskVars, reviewVars, supervisor, req, clock, failures>>

\* The seat is vacated or filled (role changes, modelled by their outcome).
ChangeSupervisor(a) ==
  /\ a # supervisor
  /\ supervisor' = a
  /\ UNCHANGED <<taskVars, reviewVars, support, req, clock, failures>>

-----------------------------------------------------------------------------
Init ==
  /\ status = [t \in Task |-> "planned"]
  /\ actualStart = [t \in Task |-> FALSE]
  /\ actualFinish = [t \in Task |-> FALSE]
  /\ progress = [t \in Task |-> <<>>]
  /\ submission = [t \in Task |-> {}]
  /\ verifications = [t \in Task |-> {}]
  /\ approvals = [t \in Task |-> {}]
  /\ support = [t \in Task |-> {}]
  /\ supervisor \in Supervisors \cup {NoActor}
  /\ req = [s \in Session |-> Idle]
  /\ clock = 0
  /\ failures = 0

Handle(s) ==
  FirstTransition(s) \/ NextTransition(s) \/ CommitCompletion(s) \/ Refuse(s)

Next ==
  \/ \E s \in Session : Handle(s) \/ Fail(s)
  \/ \E s \in Session, t \in Task, a \in Actor :
       \/ \E d \in {"verified", "rejected"} : ReadForVerify(s, t, a, d)
       \/ \E d \in {"approved", "rejected"} : ReadForApprove(s, t, a, d)
       \/ \E target \in Status : ReadForStatus(s, t, a, target)
       \/ \E target \in Status : PortalStatus(s, t, a, target)
  \/ \E t \in Task, a \in Actor : \E evidence \in Evidence(t) : SubmitProgress(t, a, evidence)
  \/ \E t \in Task, e \in Employees :
       \/ AssignSupport(t, e)
       \/ \E replacements \in SUBSET Employees : EndSupport(t, e, replacements)
  \/ \E a \in Supervisors \cup {NoActor} : ChangeSupervisor(a)

\* The server finishes the requests it has begun; nobody has to begin one.
Fairness == \A s \in Session : WF_vars(Handle(s))

Spec == Init /\ [][Next]_vars /\ Fairness

-----------------------------------------------------------------------------
(* Properties.                                                             *)

Update == [by : Actor, evidence : BOOLEAN, reviewed : BOOLEAN]
Verification == [at : Nat, by : Actor, decision : {"verified", "rejected"}, update : Nat]
Approval == [at : Nat, by : Actor, decision : {"approved", "rejected"}, verification : Nat]

\* Type invariant.
TypeOK ==
  /\ status \in [Task -> Status]
  /\ actualStart \in [Task -> BOOLEAN]
  /\ actualFinish \in [Task -> BOOLEAN]
  /\ progress \in [Task -> Seq(Update)]
  /\ submission \in [Task -> SUBSET Nat]
  /\ verifications \in [Task -> SUBSET Verification]
  /\ approvals \in [Task -> SUBSET Approval]
  /\ support \in [Task -> SUBSET Employees]
  /\ supervisor \in Supervisors \cup {NoActor}
  /\ req \in [Session -> Request \cup {Idle}]
  /\ clock \in Nat
  /\ failures \in Nat

\* While a task waits for review, its unreviewed progress is exactly what the
\* submission named, and it is enough to submit on: nothing joins or leaves the
\* set between the submit and the decision, however requests interleave.
SubmissionFrozen ==
  \A t \in Task : status[t] = "submitted" /\ Kind[t] # "milestone" =>
    Unreviewed(t) = submission[t] /\ FreshEnough(t)

\* A status changes only along BR-009's table; completed and cancelled are final.
StatusFollowsTable ==
  [][\A t \in Task : status'[t] # status[t] => status'[t] \in Allowed(status[t])]_vars

\* A completed milestone rests on completed work only, and stays so.
MilestoneSound ==
  \A t \in Task : Kind[t] = "milestone" /\ status[t] = "completed" =>
    MilestonePredecessorsCompleted(t)

\* Work that was released stays justified: nothing behind a started task goes
\* back to a state that would have blocked it.
ReleasedWorkStaysJustified ==
  \A t \in Task : status[t] \in Started \cup {"ready"} => BlockingPredecessorsSatisfied(t)

\* A finish date belongs to a completed task, and to no other.
FinishMatchesStatus ==
  \A t \in Task : actualFinish[t] <=> status[t] = "completed"

\* A planned milestone whose predecessors are all completed does not remain
\* planned: the cascade of the last of them completes it.
NoMilestoneForgotten ==
  \A t \in Task :
    Kind[t] = "milestone" /\ status[t] = "planned" /\ (\E d \in Deps : d.succ = t)
      => ~MilestonePredecessorsCompleted(t)

\* Work that needs no approval does not remain at `verified`.
VerifiedWorkMovesOn ==
  \A t \in Task : Class[t] # "class_a" =>
    (status[t] = "verified" ~> status[t] # "verified")

\* The detailed machine implements the board: a status is a phase, a decision's
\* intermediate commits are invisible, a cascade is one step.
PhaseOf(st) ==
  CASE st \in {"planned", "ready"}                          -> "waiting"
    [] st \in {"in_progress", "rejected"}                   -> "working"
    [] st \in {"submitted", "verified", "approval_pending"} -> "review"
    [] st = "completed"                                     -> "done"
    [] OTHER                                                -> "dropped"

Board == INSTANCE WorkBoard WITH
           Milestones <- {t \in Task : Kind[t] = "milestone"},
           phase <- [t \in Task |-> PhaseOf(status[t])]

\* Every behaviour of the task machinery is one of the board.
ImplementsBoard == Board!Spec
=============================================================================
