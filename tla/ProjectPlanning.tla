--------------------------- MODULE ProjectPlanning ---------------------------
(***************************************************************************)
(* One project from its creation to its archive: routes/projects_v2.py and  *)
(* the planning services (project_baseline, project_gate_applicability,     *)
(* project_task_applicability, project_manual_task, project_manual_gate,    *)
(* project_task_classification, project_role_change), the replanning of its  *)
(* dates (task_reschedule, project_schedule_dates) and the retention sweep   *)
(* over its evidence (evidence_retention).                                   *)
(*                                                                          *)
(* A request loads the project without a lock, checks its status on that    *)
(* copy and writes later: beginning and committing are separate actions,    *)
(* and `fresh` records whether anything was committed in between. Only the  *)
(* manual tasks and gates, the gate rows and the task rows are locked.      *)
(***************************************************************************)
EXTENDS Naturals, FiniteSets

CONSTANTS
  Task,          \* planning tasks: those of the template and ManualTask
  ManualTask,    \* tasks an Admin may add
  Conditional,   \* template tasks whose applicability is decided
  PreActivation, \* tasks without dates
  Depends,       \* template dependencies: pairs of tasks
  Gate,          \* planning gates: those of the template and ManualGate
  ManualGate,
  Covers,        \* [Gate -> SUBSET Task] exact links of the template's gates
  RequiredBy,    \* [Gate -> {"date", "before_linked_tasks"}]
  Thread,        \* requests that run side by side
  None,
  AuditWindow,   \* audit events restore_target_status looks back (100 in the code)
  MaxWork        \* requests in a behaviour

TemplateTask == Task \ ManualTask
TemplateGate == Gate \ ManualGate
Seat == {"project_manager", "site_supervisor"}
Class == {"standard", "class_a"}

\* What a baseline locks: its tasks with their classes, and how many gates it has.
Baseline == [tasks : SUBSET Task, depends : SUBSET Depends,
             class : UNION {[s -> Class] : s \in SUBSET Task}, gate_count : Nat]

ASSUME ConstantsAssumption ==
  /\ None \notin Baseline /\ IsFiniteSet(Gate)
  /\ ManualTask \subseteq Task /\ Conditional \subseteq TemplateTask
  /\ PreActivation \subseteq TemplateTask /\ TemplateTask # {}
  /\ Depends \subseteq TemplateTask \X TemplateTask
  /\ ManualGate \subseteq Gate /\ Covers \in [Gate -> SUBSET TemplateTask]
  /\ RequiredBy \in [Gate -> {"date", "before_linked_tasks"}]
  /\ MaxWork \in Nat /\ AuditWindow \in Nat \ {0}

VARIABLES
  status,       \* V2Project.status; "none" before, "deleted" after
  activated,    \* activated_at is set
  completed,    \* completed_at is set
  archivedFrom, \* before_json.status of the last audit event that archived
  audits,       \* audit events since that one, up to AuditWindow
  seats,        \* accountable roles somebody holds
  change,       \* [Seat -> pending ProjectRoleChange or "none"]
  published,    \* the attached template version is published
  plan,         \* planning rows: tasks, classes, gates, links, decisions
  baseline,     \* ProjectBaseline with its tasks, or None
  approvals,    \* ProjectExternalApproval by gate
  request,      \* [Thread -> request in flight]
  raced,        \* some request committed on a project it had read before another's commit
  schedule,     \* planned dates of the execution tasks: "none", "derived", "revised"
  evidence,     \* its files: "kept", "listed" by the sweep, "purged"
  started,      \* an execution task has left planned
  work          \* requests so far

vars == <<status, activated, completed, archivedFrom, audits, seats, change, published, plan, baseline,
          approvals, schedule, evidence, request, raced, started, work>>

project == <<status, activated, completed, archivedFrom>>
team == <<seats, change>>
execution == <<baseline, approvals, schedule, evidence, started>>

NoPlan == [tasks |-> {}, included |-> {}, class |-> [t \in Task |-> "standard"], gates |-> {},
           links |-> Covers, verdict |-> [g \in Gate |-> "pending_review"]]
Idle == [op |-> "idle", arg |-> None, seen |-> "none", fresh |-> TRUE, read |-> None]

Exists == status \notin {"none", "deleted"}
Included == plan.included
Applicable == {g \in plan.gates : plan.verdict[g] = "applicable"}

Init ==
  /\ status = "none" /\ activated = FALSE /\ completed = FALSE
  /\ archivedFrom = "none" /\ audits = 0
  /\ seats = {} /\ change = [s \in Seat |-> "none"] /\ published = TRUE
  /\ plan = NoPlan /\ baseline = None /\ approvals = [g \in {} |-> None]
  /\ schedule = [t \in {} |-> "none"] /\ evidence = "kept"
  /\ request = [th \in Thread |-> Idle] /\ raced = FALSE /\ started = FALSE /\ work = 0

(* ------------------------------ requests -------------------------------- *)

\* A request loads the project (get_project, _require_access) and goes on
\* with the status it saw.
Begin(th, op, arg) ==
  /\ work < MaxWork /\ request[th] = Idle
  /\ request' = [request EXCEPT ![th] = [op |-> op, arg |-> arg, seen |-> status, fresh |-> TRUE, read |-> None]]
  /\ work' = work + 1
  /\ UNCHANGED <<project, audits, team, published, plan, execution, raced>>

\* Every change writes an audit event; those of an archived project push the
\* one that archived it out of the window.
Audited == audits' = IF status = "archived" /\ audits < AuditWindow THEN audits + 1 ELSE audits

\* Everybody else in flight has now read something older.
Overtaken == [th \in Thread |-> IF request[th] = Idle THEN Idle ELSE [request[th] EXCEPT !.fresh = FALSE]]

Commit(th) ==
  /\ request' = [Overtaken EXCEPT ![th] = Idle]
  /\ raced' = (raced \/ ~request[th].fresh)
  /\ IF request[th].arg = "archived" THEN audits' = 0 ELSE Audited
  /\ UNCHANGED <<published, evidence, started, work>>

\* A refusal (4xx), a conflict of a constraint or a row that is gone: rolled back.
Abandon(th) ==
  /\ request[th] # Idle
  /\ request' = [request EXCEPT ![th] = Idle]
  /\ UNCHANGED <<project, audits, team, published, plan, execution, raced, work>>

\* A request that holds the row lock from its check to its commit.
AtOnce ==
  /\ work < MaxWork /\ Exists
  /\ request' = Overtaken /\ work' = work + 1 /\ Audited
  /\ UNCHANGED <<project, published, execution, raced>>

Is(th, op) == request[th].op = op

(* ------------------------------ creation -------------------------------- *)

\* generate_task_snapshot: every template task, included until decided.
GeneratedTasks == TemplateTask
\* ProjectDependencyGenerationService.generate: among the generated tasks.
GeneratedDepends(tasks) == {d \in Depends : d[1] \in tasks /\ d[2] \in tasks}
\* ProjectGateGenerationService.generate: with the exact links, to be reviewed.
GeneratedGates == TemplateGate

BeginCreate(th) == status = "none" /\ published /\ Begin(th, "create", None)

Create(th) ==
  /\ Is(th, "create") /\ status = "none"
  /\ status' = "draft" /\ seats' = Seat
  /\ plan' = [NoPlan EXCEPT !.tasks = GeneratedTasks, !.included = GeneratedTasks, !.gates = GeneratedGates]
  /\ Commit(th)
  /\ UNCHANGED <<activated, completed, archivedFrom, change, baseline, approvals, schedule>>

(* ------------------------------ planning -------------------------------- *)

\* project_task_applicability.decide locks the task and looks at no status.
DecideTask(t, included) ==
  /\ t \in plan.tasks \cap Conditional /\ (t \in Included) # included
  /\ AtOnce
  /\ plan' = [plan EXCEPT !.included = IF included THEN @ \cup {t} ELSE @ \ {t}]
  /\ UNCHANGED team

CreateManualTask(t) ==
  /\ t \in ManualTask \ plan.tasks /\ status = "draft"
  /\ AtOnce
  /\ plan' = [plan EXCEPT !.tasks = @ \cup {t}, !.included = @ \cup {t}]
  /\ UNCHANGED team

\* A blocking gate names included tasks only; a manual gate is applicable at once.
CreateManualGate(g, affected, blocking) ==
  /\ g \in ManualGate \ plan.gates /\ status = "draft" /\ "project_manager" \in seats
  /\ affected \subseteq plan.tasks /\ (blocking => affected \subseteq Included)
  /\ AtOnce
  /\ plan' = [plan EXCEPT !.gates = @ \cup {g}, !.links[g] = affected, !.verdict[g] = "applicable"]
  /\ UNCHANGED team

BeginClassify(th, t) ==
  status = "draft" /\ t \in plan.tasks \ ManualTask /\ Begin(th, "classify", t)

Classify(th) ==
  /\ Is(th, "classify") /\ request[th].arg \in plan.tasks
  /\ plan' = [plan EXCEPT !.class[request[th].arg] = "class_a"]
  /\ Commit(th) /\ UNCHANGED <<project, team, baseline, approvals, schedule>>

(* ------------------------------ activation ------------------------------ *)

\* resolve_gate_due_at: a gate before its linked tasks is due when one of the
\* tasks it covers has a date.
Due(g, covered) == RequiredBy[g] = "before_linked_tasks" => covered \ PreActivation # {}

Approval(g, tasks) ==
  LET covered == plan.links[g] \cap tasks IN [covers |-> covered, due |-> Due(g, covered)]

\* instantiate_for_project: gates that have an approval are skipped whole.
Instantiated(gates, tasks) ==
  [g \in DOMAIN approvals \cup gates |-> IF g \in DOMAIN approvals THEN approvals[g] ELSE Approval(g, tasks)]

\* What lock_and_instantiate reads; a baseline that exists is returned as it is.
PlanRead == [tasks |-> Included, class |-> plan.class, gates |-> Applicable, locked |-> baseline # None]

LockedBaseline(read) ==
  IF read.locked THEN baseline
  ELSE [tasks |-> read.tasks, depends |-> GeneratedDepends(read.tasks), class |-> [t \in read.tasks |-> read.class[t]],
        gate_count |-> Cardinality(read.gates)]

\* POST /activate looks at the template version, POST /status does not.
BeginActivate(th, route) ==
  /\ status = "draft" /\ seats = Seat /\ (route = "activate" => published)
  /\ Begin(th, "activate", route)

\* resolve_planned_dates: work before the activation has no dates.
Derived(tasks) == [t \in tasks |-> IF t \in PreActivation THEN "none" ELSE "derived"]

ReadPlan(th) ==
  /\ Is(th, "activate") /\ request[th].read = None /\ Exists
  /\ baseline = None => Included # {}
  /\ request' = [request EXCEPT ![th].read = PlanRead]
  /\ UNCHANGED <<project, audits, team, published, plan, execution, raced, work>>

\* One baseline per project and one approval per gate are unique.
Activate(th) ==
  LET read == request[th].read IN
  /\ Is(th, "activate") /\ read # None /\ Exists
  /\ ~read.locked => baseline = None
  /\ status' = "active" /\ activated' = TRUE
  /\ baseline' = LockedBaseline(read)
  /\ approvals' = IF read.locked THEN approvals ELSE Instantiated(read.gates, read.tasks)
  /\ schedule' = IF read.locked THEN schedule ELSE Derived(read.tasks)
  /\ Commit(th) /\ UNCHANGED <<completed, archivedFrom, team, plan>>

\* Work begins under TaskLifecycleService.transition.
StartWork ==
  /\ status = "active" /\ ~started /\ started' = TRUE
  /\ UNCHANGED <<project, audits, team, published, plan, baseline, approvals, schedule, evidence, request,
                 raced, work>>

(* -------------------------- gate applicability --------------------------- *)

BeginDecideGate(th, g, decision) ==
  status \in {"draft", "active"} /\ g \in plan.gates /\ Begin(th, "gate", <<g, decision>>)

\* Mutant: the look for an existing approval is missing.
RulingAllowedAlways(g, decision) == TRUE
\* A gate that has its approval cannot be ruled out any more.
RulingAllowed(g, decision) == decision = "not_applicable" => g \notin DOMAIN approvals

\* On a project it saw active the decision brings the approval with it.
DecideGate(th) ==
  /\ Is(th, "gate") /\ request[th].arg[1] \in plan.gates
  /\ LET g == request[th].arg[1]
         decision == request[th].arg[2]
     IN /\ RulingAllowed(g, decision)
        /\ plan' = [plan EXCEPT !.verdict[g] = decision]
        /\ approvals' = IF request[th].seen = "active" /\ decision = "applicable"
                        THEN Instantiated(Applicable \cup {g}, baseline.tasks) ELSE approvals
  /\ Commit(th) /\ UNCHANGED <<project, team, baseline, schedule>>

(* -------------------------------- dates ---------------------------------- *)

\* reschedule locks the task; any status of the project or the task will do.
Reschedule(t) ==
  /\ work < MaxWork /\ t \in DOMAIN schedule
  /\ schedule' = [schedule EXCEPT ![t] = "revised"]
  /\ request' = Overtaken /\ work' = work + 1 /\ Audited
  /\ UNCHANGED <<project, team, published, plan, baseline, approvals, evidence, started, raced>>

\* ProjectScheduleDateService.backfill writes every date that is not the derived one.
DatesBackfilled == Derived(DOMAIN schedule)

\* scripts/backfill_execution_schedule.py, run by an operator, in one commit.
Backfill ==
  /\ work < MaxWork /\ baseline # None
  /\ schedule' = DatesBackfilled
  /\ approvals' = Instantiated(Applicable, baseline.tasks)
  /\ work' = work + 1
  /\ UNCHANGED <<project, audits, team, published, plan, baseline, evidence, started, request, raced>>

(* -------------------------- status and deletion --------------------------- *)

AllowedStatus ==
  [none |-> {}, deleted |-> {}, draft |-> {"archived"}, active |-> {"on_hold", "completed", "archived"},
   on_hold |-> {"active", "completed", "archived"}, completed |-> {"archived"}, archived |-> {}]

BeginStatus(th, target) == target \in AllowedStatus[status] /\ Begin(th, "status", target)

\* Restoring never resumes the execution; the audit trail says where to go.
RestoreTarget ==
  LET previous == IF audits < AuditWindow THEN archivedFrom ELSE "none" IN
  IF previous \in {"draft", "on_hold", "completed"} THEN previous
  ELSE IF (previous = "active") \/ activated THEN "on_hold" ELSE "draft"

BeginRestore(th) == status = "archived" /\ Begin(th, "restore", RestoreTarget)

\* DELETE: a draft is removed, what was activated is archived.
BeginDelete(th) ==
  /\ status \in {"draft", "active", "on_hold"}
  /\ Begin(th, IF status = "draft" THEN "remove" ELSE "delete", "archived")

ChangeStatus(th) ==
  /\ request[th].op \in {"status", "restore", "delete"} /\ Exists
  /\ status' = request[th].arg
  /\ archivedFrom' = IF request[th].arg = "archived" THEN request[th].seen ELSE archivedFrom
  /\ completed' = (completed \/ (Is(th, "status") /\ request[th].arg = "completed"))
  /\ Commit(th) /\ UNCHANGED <<activated, team, plan, baseline, approvals, schedule>>

\* PATCH: details only. The template and what follows from it stay as they are.
BeginEdit(th) == Exists /\ status \notin {"completed", "archived"} /\ Begin(th, "edit", None)
Edit(th) ==
  /\ Is(th, "edit") /\ Exists
  /\ Commit(th) /\ UNCHANGED <<project, team, plan, baseline, approvals, schedule>>

\* Mutant: the baseline goes with the project (ON DELETE CASCADE).
RemovableAlways == TRUE
\* The tables of the execution refer to the project ON DELETE RESTRICT.
Removable == baseline = None

Remove(th) ==
  /\ Is(th, "remove") /\ Exists /\ Removable
  /\ status' = "deleted" /\ seats' = {} /\ plan' = NoPlan
  /\ baseline' = None /\ approvals' = [g \in {} |-> None] /\ schedule' = [t \in {} |-> "none"]
  /\ change' = [s \in Seat |-> "none"]
  /\ Commit(th) /\ UNCHANGED <<activated, completed, archivedFrom>>

(* -------------------------------- team ----------------------------------- *)

\* Mutant: end_membership without its look at the project's status.
DirectAlways == TRUE
\* On an active project an accountable seat changes by request and approval.
Direct == status # "active"

BeginAssign(th, s) == status \in {"draft", "on_hold"} /\ s \notin seats /\ Begin(th, "assign", s)
BeginEnd(th, s) == Exists /\ Direct /\ s \in seats /\ Begin(th, "end", s)

ChangeSeat(th) ==
  /\ request[th].op \in {"assign", "end"} /\ Exists
  /\ Is(th, "end") => request[th].arg \in seats
  /\ seats' = IF Is(th, "assign") THEN seats \cup {request[th].arg} ELSE seats \ {request[th].arg}
  /\ Commit(th) /\ UNCHANGED <<project, change, plan, baseline, approvals, schedule>>

\* request_role_change asks in any status; one request per role is pending.
RequestChange(s, kind) ==
  /\ change[s] = "none" /\ (kind = "vacate" => s \in seats)
  /\ AtOnce
  /\ change' = [change EXCEPT ![s] = kind] /\ UNCHANGED <<seats, plan>>

\* approve_role_change ends whoever holds the seat now.
ApproveChange(s) ==
  /\ change[s] # "none" /\ (change[s] = "vacate" => s \in seats)
  /\ AtOnce
  /\ seats' = IF change[s] = "vacate" THEN seats \ {s} ELSE seats \cup {s}
  /\ change' = [change EXCEPT ![s] = "none"] /\ UNCHANGED plan

RejectChange(s) ==
  /\ change[s] # "none" /\ AtOnce
  /\ change' = [change EXCEPT ![s] = "none"] /\ UNCHANGED <<seats, plan>>

\* FinishArchive of TemplateLibrary, for the version attached here.
ArchiveVersion ==
  /\ published /\ published' = FALSE
  /\ UNCHANGED <<project, audits, team, plan, execution, request, raced, work>>

(* ------------------------------- retention -------------------------------- *)

Sweeping == UNCHANGED <<project, audits, team, published, plan, baseline, approvals, schedule, started,
                        request, raced, work>>

\* The sweep lists the projects whose completion is long enough ago, once.
ListEligible == evidence = "kept" /\ status = "completed" /\ completed /\ evidence' = "listed" /\ Sweeping

\* It deletes the files of one listed project after the other and marks it; a
\* file that cannot be deleted is logged. It does not look at the status again.
PurgeExpiredEvidence == evidence = "listed" /\ evidence' = "purged" /\ Sweeping

\* A sweep that fails or dies forgets its list; the next one starts over.
SweepFails == evidence = "listed" /\ evidence' = "kept" /\ Sweeping

(* -------------------------------- system --------------------------------- *)

Begins(th) ==
  \/ BeginCreate(th) \/ BeginEdit(th) \/ BeginRestore(th) \/ BeginDelete(th)
  \/ \E t \in Task : BeginClassify(th, t)
  \/ \E route \in {"activate", "status"} : BeginActivate(th, route)
  \/ \E g \in Gate, d \in {"applicable", "not_applicable"} : BeginDecideGate(th, g, d)
  \/ \E target \in {"active", "on_hold", "completed", "archived"} : BeginStatus(th, target)
  \/ \E s \in Seat : BeginAssign(th, s) \/ BeginEnd(th, s)

Finishes(th) ==
  \/ Create(th) \/ Edit(th) \/ Classify(th) \/ ReadPlan(th) \/ Activate(th) \/ DecideGate(th)
  \/ ChangeStatus(th) \/ Remove(th) \/ ChangeSeat(th) \/ Abandon(th)

\* Requests that lock what they decide about.
PlanTasks == \E t \in Task : CreateManualTask(t) \/ Reschedule(t) \/ \E i \in BOOLEAN : DecideTask(t, i)
PlanGates == \E g \in Gate, affected \in SUBSET Task, b \in BOOLEAN : CreateManualGate(g, affected, b)
RoleChanges ==
  \E s \in Seat : \/ ApproveChange(s) \/ RejectChange(s)
                  \/ \E kind \in {"vacate", "replacement"} : RequestChange(s, kind)
Retention == ListEligible \/ PurgeExpiredEvidence \/ SweepFails

Next ==
  \/ \E th \in Thread : Begins(th) \/ Finishes(th)
  \/ PlanTasks \/ PlanGates \/ RoleChanges \/ Retention \/ Backfill \/ StartWork \/ ArchiveVersion

Spec == Init /\ [][Next]_vars

(* ------------------------------ properties ------------------------------- *)

\* Types of all variables.
TypeOK ==
  /\ status \in DOMAIN AllowedStatus /\ archivedFrom \in DOMAIN AllowedStatus
  /\ activated \in BOOLEAN /\ published \in BOOLEAN /\ raced \in BOOLEAN /\ started \in BOOLEAN
  /\ seats \subseteq Seat /\ change \in [Seat -> {"none", "vacate", "replacement"}]
  /\ plan.included \subseteq plan.tasks /\ plan.tasks \subseteq Task /\ plan.gates \subseteq Gate
  /\ plan.class \in [Task -> Class] /\ plan.links \in [Gate -> SUBSET Task]
  /\ plan.verdict \in [Gate -> {"pending_review", "applicable", "not_applicable"}]
  /\ \A t \in DOMAIN schedule : schedule[t] \in {"none", "derived", "revised"}
  /\ evidence \in {"kept", "listed", "purged"}
  /\ DOMAIN approvals \subseteq Gate /\ DOMAIN request = Thread /\ work \in 0..MaxWork

\* Nothing is executed without a locked plan: approvals exist only beside a
\* baseline and cover only work that is in it, whatever raced with what; the
\* dated tasks are those of the baseline, and only what was completed under a
\* baseline can lose its evidence. One
\* request at a time, moreover, the status agrees with the baseline through
\* holding, archiving and restoring, the baseline holds all manual and all
\* mandatory tasks with the classes they still have, and exactly the applicable
\* gates have an approval, however decisions and activation alternated.
PlanningSound ==
  /\ \A g \in DOMAIN approvals : baseline # None /\ approvals[g].covers \subseteq baseline.tasks
  /\ DOMAIN schedule = IF baseline = None THEN {} ELSE baseline.tasks
  /\ evidence # "kept" => completed /\ baseline # None
  /\ ~raced =>
       /\ status = "draft" => baseline = None
       /\ status \in {"active", "on_hold", "completed"} => baseline # None
       /\ activated <=> baseline # None
       /\ baseline # None =>
            /\ plan.tasks \ Conditional \subseteq baseline.tasks
            /\ \A t \in baseline.tasks : baseline.class[t] = plan.class[t]
            /\ DOMAIN approvals = Applicable

\* A locked baseline and the approvals made of it stay as they are: through a
\* second activation, a restored archive, a decision that comes late and a
\* deletion that saw a draft, in every interleaving.
BaselineIsKept ==
  [][/\ baseline # None => baseline' = baseline
     /\ \A g \in DOMAIN approvals : g \in DOMAIN approvals' /\ approvals'[g] = approvals[g]]_vars

\* Creation, planning, activation, replanning and retention, whatever their
\* requests read before others commit, implement the life of a project.
Life == INSTANCE ProjectLife WITH phase <- status, disturbed <- raced

ImplementsLife == Life!Spec

\* The manager's or supervisor's seat of an active project falls vacant only
\* by an approved request to vacate it, unless requests raced.
SeatsLostOnlyByDecision ==
  [][status = "active" /\ ~raced' => \A s \in seats \ seats' : change[s] = "vacate" /\ change'[s] = "none"]_vars

\* The four that follow do not hold.
\* The comment in project_gate_applicability.decide: no applicable gate of an
\* active project is without its approval. (A decision may race the activation.)
ApplicableGateHasApproval == status = "active" => Applicable \subseteq DOMAIN approvals
\* The comment at V2Project.completed_at: there is no path back out of completed
\* except archived. The evidence of such a project may be purged. (Restoring
\* looks back through AuditWindow events only.)
CompletedIsOver == ~raced /\ completed => status \in {"completed", "archived"}
\* delete_project: a project whose execution has begun is not deleted. (It
\* asks for audit actions that nothing writes.)
DeletedOnlyBeforeExecution ==
  [][\A th \in Thread : Is(th, "delete") /\ ChangeStatus(th) => ~started]_vars
\* project_schedule_dates: the backfill is safe to run again, and task_reschedule
\* is the one place that rewrites dates. (A second run takes a revision back.)
RevisionsAreKept ==
  [][\A t \in DOMAIN schedule : schedule[t] = "revised" /\ baseline' # None => schedule'[t] = "revised"]_vars
=============================================================================
