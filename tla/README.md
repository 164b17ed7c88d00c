# SitePilot: a TLA+ verification project

SitePilot runs construction projects: tasks and external approvals ("gates") are
planned from templates, worked on site, reported over a web app, Telegram and
WhatsApp, reviewed, and chased when they stall. This directory models the parts
of the backend (`src/backend/app`) whose correctness depends on what several
requests, background loops and database transactions do to the same rows.

## 1. The system

### How it runs

One FastAPI process. Sync routes run in a thread pool, the routes that take
uploads and both chat webhooks run on the event loop, six background loops
started by `main.py` run their passes in threads. Every request and every pass
has a SQLAlchemy session of its own on PostgreSQL at READ COMMITTED. A rolling
deployment runs two such processes for a while, which comments in the code
foresee ("another concurrent sweep"). Three facts decide almost everything below:

- `SELECT ... FOR UPDATE` locks the row but does not refresh an object the
  session has loaded before, unless the query asks for it
  (`task_progress.py:138-144` does, `task_lifecycle.py:463-465` does not);
- an UPDATE writes the columns whose value changed since they were read, on top
  of whatever the row holds by then;
- most services end in a commit of their own, so a request that calls several
  of them is several transactions.

### Components, state, operations, what makes them correct

| Component | State | Operations | What must hold |
|---|---|---|---|
| Task lifecycle, review, staffing | `tasks`, dependencies, progress updates, verifications, approval decisions, support assignments | `transition`, `verify`, `approve`, `submit_progress`, `assign_support`, `end_support`, the cascade | the transition table; a completion has its decision; one decision per submission; milestones follow their predecessors |
| Gates and evidence sessions | `project_external_approvals`, submissions, `gate_evidence_sessions` | assign, reassign, unassign, submit, decide; GATEOPEN, texts and files, GATECLOSE, GATECANCEL; the silence sweep | an approval is final; evidence is the assignee's; one open session per employee; a closed session was submitted |
| Escalation | `escalation_tracking`, outbox events | two follow-up sweeps, two escalation sweeps, in two loops per process | one open row per stage; no escalation without an aged follow-up or of recovered work; a lasting stall is followed up and the first one reaches Admin |
| Outbox and dispatch | `outbox_events`, `message_deliveries` | `emit` in the caller's transaction, `process_pending` | every event is dispatched; nobody is left out or told twice without cause; what is recorded as sent was sent |
| Telegram bot | `telegram_pending_inputs`, `telegram_inbound_updates`, chat ids and connect codes, the buttons on the screens | buttons, typed answers, `/start`, unlinking; rendering and audiences of task messages | an answer acts for whom it was asked; buttons work; a decision reaches somebody who may take it, and is about what was shown |
| WhatsApp chat | `inbound_messages` | the typed commands | they are requests of the components above |
| Project planning | `projects`, `project_tasks`, `project_external_gates`, memberships, role changes, `project_baselines`, approvals, planned dates | create, decide applicability, classify, add manual tasks and gates, activate, hold, complete, archive, restore, delete, staff, reschedule, purge evidence | no execution without a locked plan; the plan stays; seats of active projects change by decision |
| Templates | `v2_templates`, `v2_template_versions`, their tasks, dependencies, gates and files | edit, reorder, map, publish, clone, archive, delete, list | published versions are valid, frozen and unique; an edit acts on what its editor saw |
| Web server | event loop, pool, row locks | routes and webhooks | nobody waits for ever (not modelled) |
| Vendors, visibility, reports, users, storage, frontend | | | see section 8 |

They interact through the database only: a Telegram button or a typed command
calls the same service as the portal; every service emits outbox events in its
own transaction; the dispatcher and the sweeps poll.

## 2. Modules

    WorkBoard             abstract: what the task machinery promises
    TaskLifecycle         tasks, decisions, progress, support (implements WorkBoard)
      TaskRaces           the same with a record of its races
      MCTaskLifecycle, MCTaskRaces  instances: plans, classes, symmetry
      TaskLifecycleProofs types, SubmissionFrozen          (any interference)
                          milestones, dates, refinement    (no interference)
                          nothing forgotten            (completions apart)
      TaskDecisionProofs  table, decisions, completions    (any interference)
                          releases                         (no interference)
    ApprovalDesk          abstract: what the gates promise to a project's people
    ExternalApproval      gates and evidence sessions (implements ApprovalDesk)
      MCExternalApproval, ExternalApprovalProofs
    Escalation            the four sweeps, several processes
      MCEscalation, EscalationProofs
    Mailbox               abstract: what the outbox promises to its readers
    OutboxDispatch        overlapping dispatch passes, deliveries, retries
                          (implements Mailbox)
      MCOutboxDispatch    two people, two events
      OutboxDispatchProofs  types, rows, recorded sends, what the provider
                          accepted, refinement
    TelegramChat          the bot around one task: buttons, questions, chats
      MCTelegramChat, TelegramChatProofs
    ProjectLife           abstract: the life of a project and what it keeps
    ProjectPlanning       one project from its creation to its archive
                          (implements ProjectLife)
      MCProjectPlanning, ProjectPlanningProofs
    Catalogue             abstract: what the library promises to the projects
                          planned from it
    TemplateLibrary       templates: authoring and publishing
                          (implements Catalogue)
      MCTemplateLibrary, TemplateLibraryProofs

How they fit together: a published `TemplateLibrary` version is the `plan` that
`ProjectPlanning` copies; its `Activate` makes the tasks `TaskLifecycle` starts
from and the approvals `ExternalApproval` starts from; the buttons of
`TelegramChat` call the services of those two, whose rules of who may act it
spells out for one task; all of them emit the events `OutboxDispatch` delivers,
and `Escalation` watches the same tasks and gates.

### TaskLifecycle

`status`, `actualStart`, `actualFinish` are columns of `tasks`; `progress`,
`verifications`, `approvals`, `support` the rows of the tables of these names;
`submission` the `progress_update_ids` carried by the last `submitted` event.
`req[s]` is the request a worker thread executes, with the status it believes
in (`seen`), the transition it is about to call (`target`) and, while it holds
the row lock of a completing transaction, the cascade it has computed.

| Action | Code |
|---|---|
| `ReadForVerify`, `ReadForApprove`, `ReadForStatus` | `verify()`, `approve()`, a Telegram handler up to the first write |
| `FirstTransition` | the first `transition()` call, in one transaction with the decision row and `mark_progress_reviewed` |
| `NextTransition` | the second and third call, each a transaction, on a fresh status |
| `PortalStatus` | `POST /tasks/{id}/status`, which reads under the lock |
| `CommitCompletion` | the commit of a transaction to `completed` with its cascade |
| `Refuse`, `Fail` | a failed check; a crash or a lost connection between two commits |
| `SubmitProgress`, `AssignSupport`, `EndSupport`, `ChangeSupervisor` | one transaction each |

A decision is modelled with all its commits: `verify(rejected)` is
submitted -> rejected -> in_progress, `approve(approved)` is verified (or
submitted) -> approval_pending -> completed. `Permitted` is every check of
`transition()`, on the status the request believes in. `Cascade(t)` is the least
set closed under the rule of `_auto_complete_successor_milestones`, which
recurses. A decision's time stamp is the start of its transaction
(`server_default=now()`), so `at` is taken from `clock` when the request begins.

`Interference` separates two questions. With `FALSE`, no request writes a row
that another one has read and is about to write (`Undisturbed`); requests still
overlap, die between commits, and see each other's committed steps. With `TRUE`
anything goes. The passing runs take `TRUE`, `TaskForgotten` fails even with `FALSE`;
the theorems that need the assumption name it.

`TaskRaces` says what is left when anything goes. It adds two history variables to
`TaskLifecycle`, which none of its actions reads: `overtaken` holds the pairs of a
thread and a task that changed (its status, verifications or approvals) after the
thread read it and before it wrote it, and `raced[t]` says that an overtaken thread
has written t (`WritesOver`). `TableLeftOnlyInRaces` says that such a write is the
only way out of the transition table, `CompletionIsDecided` and
`OneDecisionPerSubmission` what holds of every task that has had no such write.
Requests that merely overlap, die between their commits or wait for one another
mark nothing. `RaceNext` is `Next`, each step with its note (`RaceSteps`); the passing
runs check its behaviours.

### WorkBoard

The promise behind the machine: a piece of work waits, is worked on, is under
review, is done or dropped; it begins only when what it depends on has got far
enough; milestones finish in the same instant as the last work they stand for.
`TaskLifecycle!Board` maps statuses to phases; decisions' intermediate commits
become stutters, a completion and its cascade one `Finish`.

### ExternalApproval

`gate[g]` holds the columns the two CHECK constraints are about. A request
(`req[t]`) keeps the row it read; `CommitGate` merges column by column into
the current row (`Merge`), evaluates the constraints (`Coherent`) and, for a
rejection, performs the second write of the same transaction (`Reopened`).
GATECLOSE is `ReadClose`, `CommitGate`, `FinishClose`: two commits. The sweep is
`SweepSelect` and a `SweepExpire` per session, without another look. `silent`
are the open sessions whose silence has reached `EVIDENCE_SESSION_SILENCE_DAYS`.
`raced[g]` is a history variable: some commit on g was over a row that differed
from the one the request had read; properties that need undisturbed requests
say so through it. Two threads that both handle chat commands stand for two
server processes, since one process runs its webhooks on one loop; portal
requests and the sweep run beside them in any case.

`ImplementsDesk` puts this behind `ApprovalDesk`, where nobody reads before
writing: a gate is what `SeenOfGate` shows of its row, of the last submission and of
the number of decisions, and an employee collects in the sessions that are open. The
commit of a request whose row is still the one it read is one of `Assign`, `Release`,
`HandIn` and `Rule`; the commit of one that was overtaken is the `Late` form of it,
which marks the gate and of which the desk says what it can still do. An open
session is `Collect`, its end by GATECLOSE, GATECANCEL or the sweep `Leave`;
messages, readings, refusals and the sweep's look at ended sessions are stutters.

### Escalation

`work[e]` is what the sweeps ask of a task (not terminal; no update within its
SLA) or a gate (assigned; due); `kind` says which one e is and what each loop
sweeps, chosen once. `tracking` are the rows in order of insertion, `aged` says
that a row is at least `ESCALATION_HOURS` old, `outbox` the events emitted with
them. `sweep[w]` is the program counter of a loop: list late work
(`ListLate`), check and insert per item (`CheckFollowUp`, `CommitFollowUp`),
list the aged follow-ups (`ListFollowUps`), look again at each (`Recheck`),
resolve or escalate (`Resolve`, `CommitEscalation`). An insert refused by the
unique index leaves the sweep (`LoseFollowUp`, `LoseEscalation`): the error is
raised by the flush in `OutboxService.emit`, outside the `try` of
`_commit_new_tracking`; the scheduler goes on to its next call (`Abandon`).
`told` and `recovered` are history variables of properties. Abstractions: the
staleness test of a task is one read; a row that ages between the start of a
pass and its listing counts as the pass starting later, so `Age` only touches
rows older than the passes under way.

### OutboxDispatch

`status[e]` is an outbox event's row (`unborn` before the mutation that emits it
commits), `delivery[e][r]` the committed row of `message_deliveries`, `person[r]`
the identity row the channel and the addresses are read from, `audience[e]` whom
`_resolve_recipients` finds for e now. `pass[p]` is what a dispatch loop is
doing: its batch, the event and the recipient it is at, the row it read (`read`),
the outcome it has not flushed yet (`new`) and its uncommitted rows (`wrote`).

| Action | Code |
|---|---|
| `Select` | `_select_events`: pending first, then retries by fewest attempts |
| `Resolve` | the next event of the batch, `_resolve_recipients`; phones are read here |
| `Look` | `_dispatch_to_recipient` up to the insert: covered on Telegram, already sent, retry, or new |
| `Insert` | the INSERT: it waits for another pass's uncommitted row, and a committed one makes it roll back the whole event |
| `RefuseOffboarded`, `StillUnreachable`, `RefuseUnaddressed`, `Send` | the attempt; the provider may accept, refuse, or accept and its answer is lost |
| `Flush` | the UPDATE: only changed columns, over whatever the row holds once it is unlocked (`Merge`) |
| `CommitEvent` | one commit per event |
| `Die` | the process stops, or an exception ends the pass; the session is closed |

`Toggle`, `Connect`, `Unlink`, `SetPhone`, `ClearPhone`, `SetActive` and
`ChangeAudience` are what the rest of the system does meanwhile. History
variables say how often the provider accepted a message (`inbox`), whom a
committed pass went through (`told`), whose rows a refused insert rolled back
(`dropped`), and whose attempt was cut short or made on a stale look
(`disturbed`): `OnceUnlessDisturbed` says that these are the only ways to a
second copy.

`ImplementsMailbox` puts all of this behind `Mailbox`, which has no loops, batches,
locks or retries: an event happens, a message arrives, an attempt is excused, the
notes of a dispatch are settled, each at once. The uncommitted rows of a pass and
its position are invisible there; `Send` is `Arrive`, `CommitEvent` is `Settle`, a
crash or a refused insert is `Excuse`, everything else a stutter.

Abstractions: recipients of an event are a set and are visited in
one fixed order; the rules that resolve them are not modelled, only that the
result may change; the status `failed` of an event, set by an operator's script
only, and the files sent after a message are left out.

### TelegramChat

The Telegram bot around one task. `task` is the task with its submission, who
logged, submitted and verified it; `seat`, `members`, `assignees` and `acked` are
its people; `linked` and `codes` say who owns which chat and who holds a connect
code; `pending[c]` is the question open in a chat (`telegram_pending_inputs`),
`screen[c]` one message with buttons there; `handling` the update the webhook is
working on, since it handles one at a time.

| Definition | Code |
|---|---|
| `Allowed`, `MayVerify`, `MayApprove`, ... | the rules inside the services (`task_lifecycle`, `task_verification`, `task_approval`, ...) |
| `Render...`, `...Actions` | the renderers of `telegram_task_render` and `telegram_assignment_render`, and their own rules |
| `Recipients`, `SubmissionNeedsAdmin`, `ApprovalNeedsAdmin` | the audiences of `message_dispatch` |
| `Press`, `Text`, `ProgressItem`, `Command` | the webhook up to the commit that precedes the service |
| `Identify` | who answered a typed question, and the second look at a review's token |
| `StatusButton` ... `Acknowledge` | one per handler: ask the next question (`Puts`) or call the service (`Succeeds`), on whatever is true by then |
| `Refuse`, `Crash` | the service refuses; the process dies after the first commit |
| `Expire`, `CancelReview`, `DoneAdding`, ... | a question ends without an answer |
| `Start`, `GenerateCode`, `Unlink` | a chat changes hands |
| `WebTask`, `WebCreateBlocker`, `AssignSupport`, `EndMembership`, ... | requests of the Web App, which run between the steps of an update |

The rules of who may act exist three times in the code: in the services, in the
renderers and in the audiences. The model keeps all three apart, and the
properties compare them. `Allowed` is all that the service behind a button checks:
the person, the status, an active Supervisor and satisfied predecessors for a start
or a [Mark Ready] (`MayProceed`; `blocked` until `PredecessorSatisfied`), and new
progress, with evidence where required, for a submission (`task.logged`).
`FreshButtonsWork` names the four places where the renderers ask less:
work logged by another than its submitter, gate work nobody is assigned to,
`MayProceed`, and a [Submit] before anything is logged, which is always beside an
[Add Progress] that works. A rejection reopens the task in a second transition, which
is refused while the Supervisor's seat is vacant and leaves it at `rejected`.
`handling.fresh` records that the Web App has not
changed the task since the handler looked at it.

### ProjectPlanning

One project. `status`, `activated`, `completed` and `archivedFrom` are its row and
what restoring reads in the audit trail; `plan` are the planning rows, `baseline`
and `approvals` what activation locks and instantiates, `schedule` the dates,
`evidence` what retention does to its files, `seats` and `change` the accountable
roles and their pending changes. A request reads the project (`Begin...`), checks
the status it saw and commits later (`Create`, `Classify`, `Activate`,
`DecideGate`, `ChangeStatus`, `ChangeSeat`, `Remove`, `Edit`), or is refused
(`Abandon`); activation reads the plan in a step of its own (`ReadPlan`), the
unique constraints on baseline and approvals decide between two. Services that
lock the row they decide on are one step (`AtOnce`). `ListEligible` and
`PurgeExpiredEvidence` are the two halves of a retention sweep. `raced` is a
history variable: some request committed on a project it had read before another
one's commit; what needs undisturbed requests says so through it. The audit trail
is cut to what `restore_target_status` reads of it: how many events have followed
the one that archived, up to `AuditWindow`.

`ImplementsLife` hides requests, seats and what they read: `ProjectLife` is the
project as its people see it, planned once, its locked plan and its permits never
taken back, changing status only where the life allows it. A commit of a request
nobody overtook is one of its moves; a commit of one that was overtaken is a
`Disturb`, which may leave any status and yet keeps the records.

### TemplateLibrary

`version[v]` is a version's row with its concurrency token (`updated_at`, here a
number that every touch increases), `content[v]` its tasks, dependencies, gates
and reference files, `view[a]` what an editor has on the screen and `cmd[a]` the
command it has begun with the locks it holds. An edit is one action: lock,
compare the token, check, change, touch. `Begin...`, `Advance` and `Finish...`
are publish, archive, clone and delete, which take the version's lock first and
then the template's and another version's; two of them may wait for each other
until PostgreSQL ends one (`DeadlockVictim`). `OpenVersion` and `ReadToken` are the
editor's separate requests: an edit in between leaves it with a token newer than
its lists (`torn`). `Acyclic` states without recursion what
`_require_acyclic` finds by a search. `GateIssues` and `FilteredAsInvalid`
translate the same rule from Python and from SQL.

`ImplementsCatalogue` hides tokens, locks, waits and deadlocks: `Catalogue` has
versions that are drafted, edited, discarded, published and archived at once. The
publication and the archival, of which a command has taken the locks one by one, are
`Publish` and `Archive` in the instant of its commit, and both hand the choice over.

## 3. Runs

| Run | Instance | Shows |
|---|---|---|
| `TaskReview` | 1 class_a task, a PM, a supervisor, an employee, 2 threads, 3 reviews, 2 updates, 1 failure, interference | `TypeOK`, `CompletionIsDecided`, `OneDecisionPerSubmission`, `SubmissionFrozen`, `TableLeftOnlyInRaces` |
| `TaskPlan` | standard and unclassified work, 2 chained milestones, a gate, both edge types, 1 thread, 2 reviews | `MilestoneSound`, `ReleasedWorkStaysJustified`, `NoMilestoneForgotten`, `VerifiedWorkMovesOn`, `ImplementsBoard` |
| `TaskLostUpdate` | 1 standard task, 2 threads, interference | `StatusFollowsTable` fails |
| `TaskForgotten` | task, milestone, milestone waiting for both, 2 threads | `NoMilestoneForgotten` fails when two completions overlap |
| `GateRace` | 1 gate, 2 employees, 2 threads, 6 requests, 1 failure | the seven properties of ExternalApproval, `ImplementsDesk` among them |
| `Escalations` | 1 piece of work (task or gate), 2 processes, 3 changes, 1 failure | the six properties of Escalation; of Admin it promises the first stall only |
| `EscalatedOnce` | 1 piece of work, 1 process, 1 change | `EveryFollowUpIsAnswered` fails on the second stall |
| `Dispatch` | 2 events, 2 people, 2 loops, batch of 1, 1 change, 1 failure | the seven properties of OutboxDispatch, `ImplementsMailbox` among them |
| `Chat` | 5 staffings of a task, a supervisor, a PM, an employee and an Admin, 1 chat, 2 updates, 3 changes | `ChatSound`, `FreshButtonsWork`, `DecisionIsOffered`, `DecisionOnShownSubmission` |
| `ChatOffers` | the same | `OfferedIsAllowed` fails when somebody else than the submitter logged the progress |
| `Planning` | 2 template tasks in a row, one conditional, a manual one, 3 gates, 2 requests at a time, 5 in all | `PlanningSound`, `ImplementsLife`, `SeatsLostOnlyByDecision` |
| `Authoring` | 2 template codes, 3 versions, 2 tasks, a gate, 2 editors, work of 5 | `ImplementsCatalogue`, `FilterMatchesIssues`, `ActsOnWhatItSaw` |

The four runs that expect a violation are disagreements between the code and
what its documentation says; PROJECT.json quotes the sentence each one refutes.

### Bounds

A double decision or a lost update needs two requests on one task; a third
review lets rework follow a decision (`MaxReviews = 3`, the longest path being
verify, reject, verify). Two updates make the difference between fresh and
reviewed progress. Evidence files are required in no run: `SubmissionStaysFrozen`
covers them. The graphs contain each dependency type, a fork, a chain and
a join. At a gate, six requests are enough to assign, submit, be raced by a
decision, be rejected, and submit or open a session again. Gates interact only
through an employee's session slot, which sessions on one gate already contend
for. Work items of the sweeps do not interact at all except through an aborted
sweep, which `MaxFailures` and the lost races already provide; three changes
allow recovery, reopening and a second stall. In the dispatcher two loops at
one event give every race there is between passes, a batch of one event makes
pending events and retries compete for it, and one change and one failure each
put somebody within reach or out of it, add a second recipient, cut an attempt
short or lose an answer; at first one person has no phone, the other a chat or
only a phone. The provider, a person's account and the audience stop changing
in the end, which the liveness properties need and the bounds supply. In the chat run
one chat that may be linked to any of four people is where questions can meet the
wrong person; two updates are a question and its answer, or a button and a second
one; three changes let a submission be rejected and replaced between them. Five
planning requests are create, decide, activate and two that race it, or create,
activate, hold or archive, restore and a decision; a window of one audit event
makes the end of the audit trail reachable. Work of five in the library (an edit
counts two, a command one) is two edits and a publication, or a draft published,
cloned, edited and published again; two editors suffice, since a race is between
two transactions. Every bound sits in a guard (`MaxReviews`, `MaxUpdates`,
`MaxFailures`, `MaxRequests`, `MaxChanges`, `MaxMoves`, `MaxWork`).

`CHECK_DEADLOCK FALSE` in the task, gate, chat, planning and library runs: a
behaviour ends when the request bounds are used up, and in `Dispatch` when every event has been
delivered and nothing is left to retry. The escalation loops never stop, and
their run checks deadlock. `SYMMETRY` (worker threads; editors, versions and
template codes) is used only where safety properties are checked, of members that
are interchangeable.

### Fairness

- `TaskLifecycle`: `WF(Handle(s))` per thread: the server finishes the requests
  it has begun; it has no fairness for clients or failures.
- `ExternalApproval`: `WF(Sweep)`: `gate_reminder_loop` runs for ever and every
  failure mode short of cancellation is swallowed and logged.
- `Escalation`: `WF(Sweep(w))` per loop for the same reason, and `WF(Ageing)`,
  the passing of time. Nobody has to update or close work.
- `OutboxDispatch`: `WF(Dispatch(p))` per loop: `dispatch_loop` runs for ever and
  goes on after a failed pass; nobody has to connect, toggle or emit.

The chats, the planning and the library have safety properties only: what happens
next there is up to people.

No liveness property rests on a client acting or on a failure happening.

## 4. Proofs

Assumptions are the named ASSUMEs of the modules, evaluated by TLC in the runs:
types of the constants, the null values outside the sets, no administrator or
manager who is also a supervisor or an employee. There is no bound on tasks,
threads, users, dependencies, gates, chats or loops.

**TaskLifecycleProofs.** `TypeCorrect`; `SubmissionStaysFrozen`, from the
invariant that the unreviewed updates of a submitted task are the submitted ones
and that the first transaction of a decision leaves the status submitted.

Its second part assumes `~Interference`. `MilestoneSound` is not inductive:
the cascade is computed while other requests run and written later. `BoardInv`
adds that what a request has read is still current (`SeenIsCurrent`), that a
held completion is the only holder of the rows it will write (`HeldAlone`) and
that its cascade is still justified (`HeldSound`), that milestones are never
under review, and that dates match statuses. `StepCases` splits a step into
the few forms in which it can touch a task. `CascadeIsClosed` and
`CascadeMember` are the fixpoint lemmas: the cascade is closed under its rule,
and every member is there because of the rule. From `BoardInv` follow
`MilestonesAreSound`, `FinishDatesMatch` and, with a lemma per action,
`TasksImplementBoard`. Under interference the last is false, since a lost update
(`TaskLostUpdate`) takes back what the board has finished, which is why the
assumption is in the theorems.

Its third part is `MilestonesAreRemembered`. `NoMilestoneForgotten` fails when two
completions overlap, even on different tasks (`TaskForgotten`), so the theorem
assumes `CompletionsApart`: no two transactions are between their cascade and their
commit, which the code does not guarantee. Nothing else is assumed, any other
interference included. `CascadeInv` adds that a cascade which waits for its commit
still reaches every milestone it should; `RestKeepsCascades` shows that steps which
complete nothing keep both, and `CommitCompletesNothing` and `CompletionCases` that
all steps but the commits of completions are such steps.

**TaskDecisionProofs** is about `RaceSpec`, where requests write what others have
read. `RaceInv` says what an undisturbed thread may rely on: unless it was overtaken
on a task, what it has read is the status, and its held completion is still in the
table, milestone by milestone (`SeenUnlessOvertaken`, `HeldUnlessOvertaken`).
`ReviewCases` splits the steps into those that record a decision, follow one up, ask
for one, report, and those that *stray*: the first write of a thread that was
overtaken. `TableIsLeftOnlyInRaces` follows.

`CompletionIsDecided` speaks of the last of up to three commits, so `DecisionInv`
follows a decision from its read to its end, on tasks that no race has touched.
`RowsSound`: rows are older than now, each update has at most one verification and
each verification one approval, and a gate has an update for every decision.
`StatusSound`: what `verified` and `approval_pending` already promise about the
decisions. `ReadSound`: a decision that has read but not written, and was not
overtaken, is newer than every row of its task. `RestSound` and `DecidesAlone`: what
is left of a decision after its first commit still fits the status, and only one
approval at a time is at that point. It rests on `SubmissionFrozen` and `RaceInv`.
The hard case is the write of an overtaken thread: it marks its task, and nothing is
claimed of that task again (`StraysKeeps`). `SubmissionsAreDecidedOnce` and
`CompletionsAreDecided` follow, without any assumption on interference.

`ReleasesStayJustified` assumes `~Interference`: what has satisfied a dependency goes
on satisfying it (`SatisfiedStays`), which a lost update would undo. Then nobody is
ever overtaken (`QuietStep`), so that `BoardInv` and `DecisionInv` hold of all tasks.

**ExternalApprovalProofs.** The invariant `GateInv` says that every row
satisfies the constraints, that a request's copy is itself a legal row its guard
accepted, that on a gate no race touched decisions and submissions balance, and
that a request in `closing` has its submission. All invariants of `GateRace`
(`ReviewIsSound`, `DecisionsUseSubmissions`, ...) and both action properties follow.
Its second part is the refinement `GatesImplementDesk`. `CommitWrites` says what a
merge leaves in the row; `TimelyWrites` and `LateWrites` split it by whether the row
is still the one the request read, and `StaffingSeen`, `HandInSeen` and `RulingSeen`
say which step of the desk each kind of request is then. The desk has no stage
`rejected`, which needs one more invariant, that no committed row ever is in it
(`NeverRejected`: a rejection is reopened in its own transaction); `SessionOnDesk`
and `OpenOnDesk` need from `GateInv` that an employee has at most one open session.

**EscalationProofs.** `Inv`: types; open rows are unique per entity and stage;
and for every loop, what it has listed to visit is an aged follow-up of its own
kind of work, until it has visited it. `OneRowIsOpen` and `FollowUpComesFirst`
follow. `HistoryInv` adds what the loops know of the past: a second look is not
outdated by what happened to the work since; a row has grown old only if every pass
under way began after it; and a stall that somebody was told about has a row that
*answers* it, open, or resolved by a loop that saw the work recover. A step of one
loop that is `Careful` keeps what the others' rows answer (`CarefulKeepsHistory`), and only
two steps add rows (`OnlyCommitsInsert`). From it follow the action properties
`RecoveredWorkIsLeftAlone` and `StallsAreFollowedUpOnce`, for any number of loops
and changes and in spite of lost inserts.

**OutboxDispatchProofs.** `DispatchInv` says what a pass in the middle of an
event may rely on (`Sound`): the row it fills in is one it inserted and holds
while no other is committed, or a committed one it read as failed; what it
writes over a sent row is sent; everybody it has gone through has a row,
committed or its own, unless a rollback took it. `Exclusive` says that the
uncommitted rows of two passes never coincide. `OthersStaySound` shows that a
commit of one pass leaves the others' knowledge intact, `StepOfOne` and
`OnlyPass` reduce the other steps to the pass that takes them, and each step has
a lemma. `DispatchTypes`, `NobodyIsForgotten` and the action property
`SendsAreFinal` follow.

Its second part is about what was sent. A pass *carries* the record of an accepted message from
the answer to its commit. `ReceiptInv`: what is recorded or carried was
received, and a message that went out is recorded, carried by some pass, or
disturbed. The heart is `FirstSend`: who sends with a row of its own, or with a
failure nobody else is at, sends the first copy. `RecordsAreReceived` and
`SentOnceUnlessDisturbed` follow. Its third part is the refinement
`DispatchImplementsMailbox`: one more invariant (`EmittedOnly`, that everything in
flight is about an event that has happened) and a lemma per action that names the
step of `Mailbox` it is. No bound on events, recipients, passes,
batches, changes or failures is used.

**ProjectPlanningProofs.** `PlanningInv` has three parts. `Grounded` holds in
every interleaving: types, and that approvals and dates belong to a baseline.
`Informed` says what a request in flight knows: what it read earlier is what the
project was (`Recalls`), and as long as nothing was committed since, what it is
(`Current`). `Agreed` is the agreement of status, baseline, classes and approvals
while nothing raced. `Agreed` needs `Informed`, because activation and decisions
write what follows from a status seen earlier; `Informed` needs that every commit
marks the others as overtaken. `PlanningIsSound`, and the action properties
`BaselineStays` and `SeatsAreDecided`, follow for any sets of tasks, gates, links
and requests. `PlanningTypes` are the types of everything, requests included.
`PlanningImplementsLife` adds `Recorded` (permits are made of the locked plan, dates
of all of it) and splits the commits into `RacedIsDisturb` and `CommitIsLife`: the
first needs nothing but `Recorded`, the second that what the request read is current.

**TelegramChatProofs.** `ChatInv` adds to `ChatSound` the types of questions,
screens and updates; the action that matters is `Start`, which hands a chat over
and must drop its question (`StartKeeps`). `ButtonsWork` needs no history: it
compares, button by button, the renderers' rules with the services'
(`StartWorks`, `ReviewWorks`, ...); `SubmitWithProgress` shows that whoever is shown
a [Submit] the service would refuse for want of progress can log some there and
then. `DecisionsAreOffered` does the same with
the audiences (`SubmissionOffered`, `ApprovalOffered`), and needs from the
invariant that seats and people are disjoint groups. `DecisionsAreOnTheShown` has
an invariant of its own, `ReviewInv`: while the look of the handler is fresh, the
token it carries is the submission under review, from the button over the
question to the answer; `HandlersServe` reduces a handler to the three things it
can do. `ChatTypes` are the types of all of it.

**TemplateLibraryProofs.** `LibraryInv` has a part for each thing a command relies
on. `CommandSound`: a lock keeps what was checked when it was taken, so a command
that waits for its second lock still finds a draft whose token its editor has read.
`Exclusive`: no two commands hold one row or clone into one. `ViewSound`: a token
that is still the row's was read with the row's content, unless the view is torn.
`TemplateSound`: one current version, unique numbers, and one number that is the
greatest, from which the next one is taken. `EditsTouch` reduces all edits to one
that changes a draft and its token, `TurnKeepsInv` covers publishing and archiving,
and `GreatestNumber`, by the well-foundedness of the naturals, the deletion of the
version that had the greatest number. `LibraryIsSound`, the action property
`DraftsAreSeen` and `FiltersMatchIssues` follow; the last one, that the SQL filter
and the Python validation call the same drafts invalid, needs no history
(`FilterAgrees`). In all of these what a version contains may be any value; what it
does contain, rows of known tasks and gates, is `LibraryTypes`, whose invariant
`ContentsTyped` goes through the edits one by one (`ContentChanged`). The refinement
`LibraryImplementsCatalogue` rests on `LibraryInv` alone: `PublishTurns` and
`ArchiveTurns` show that what a command found under its locks still holds when it
commits, so that its commit is the one step of the catalogue it should be.

## 5. Only model-checked

Every safety invariant, action property and refinement of the runs that are expected
to pass is also a theorem. What is only model-checked is liveness
(`VerifiedWorkMovesOn`, `SilentSessionIsExpired`, `FirstStallReachesAdmin`,
`RecoveryIsRecorded`, `EveryEventIsDispatched`, `RetryComesUp`), which is beyond
the prover, as are ENABLED, induction over data and RECURSIVE operators; the
modules use none of the last, and a cascade and the search for a cycle are
stated over sets for that reason.

## 6. What the models taught

Besides the four findings: a crash between `verified` and `completed` strands
work that is not class_a; a rejection with a vacant supervisor's seat is
recorded and reported as an error, and the task stays at `rejected`; a cancelled predecessor blocks a milestone
for ever; a file that finishes downloading after GATECLOSE is lost; a gate
reassigned with a later due date is escalated early; a dispatch pass that loses
the race for one recipient's row also loses the records of the recipients
before it, and a failure whose recipient no longer concerns the event is
selected for retry for ever without an attempt, at the head of the queue (fifty
of them stop all retries, which `RetryComesUp` states as its exception); a
refused sync route may hold a row lock that only the event loop can release
while the loop itself waits for that lock; a member whose membership was
ended keeps the support assignment and so stays the only one who may start the
work; a WhatsApp command is executed before its message is stored, so that a
redelivery after a crash runs it again, where Telegram stores first and loses it.

Some statements of the code's own comments are defined in the modules and are not
true of the code; no run lists them, and TLC shows the behaviour when one is added
to its module's cfg:

- `SessionEndsOneWay` (ExternalApproval; execution_models.py:1211): a silence
  sweep between the two commits of a GATECLOSE leaves a session whose evidence
  was submitted and which also expired;
- `ApplicableGateHasApproval` (ProjectPlanning; project_gate_applicability.py:157):
  a gate decided on while its project is being activated stays without an approval;
- `CompletedIsOver` (ProjectPlanning; project_models.py:36): an archived completed
  project with more than a hundred audit events since is restored to on_hold,
  and can be resumed although its evidence may be purged;
- `DeletedOnlyBeforeExecution` (ProjectPlanning; projects_v2.py:1220): the refusal
  looks for audit actions that nothing writes;
- `RevisionsAreKept` (ProjectPlanning; task_reschedule.py:2,
  project_schedule_dates.py:88): the backfill script takes reschedules back;
- `DurationIsDerived` (TemplateLibrary; template_task_commands.py:150): an update
  stores the duration the client sends, or keeps the old one beside new days: the
  derived one is written into a candidate that is only compared.

## 7. Plan

Done, in this order: the tasks, the gates, the escalation sweeps, the dispatcher,
the templates, the planning, the Telegram bot; each with its proofs. What is left, by what it would add:

1. A model of the server: the event loop, the thread pool and row locks held until
   the loop closes a session; nobody waits for ever.
2. Support assignments read and committed apart, and vendors with them.
3. The WhatsApp path with its redeliveries, and daily reminders over several
   processes.
4. Abstract specifications of the sweeps (a stall is followed up, then escalated) and
   of a chat, which the detailed modules implement. `WorkBoard`, `Mailbox`,
   `ProjectLife`, `Catalogue` and `ApprovalDesk` are done.
5. What milestones and released work keep under interference, as `TaskRaces` says it
   of decisions, to narrow the assumptions of their theorems.

## 8. Not modelled, and why

- The server's event loop and locks: see the plan. The hazard is listed.
- Vendors: mapping, assignment and yes or no of a vendor gate no other state. What
  can go wrong is known from reading (a vendor removed while it is being assigned
  keeps an active assignment; two answers of one vendor race; nothing keeps the same
  vendor from being assigned twice) and has the shape of races modelled elsewhere.
- Broadcasts, meeting reminders, weekly summaries, reports, visibility and read
  models: fan-out and queries over what the modelled components keep.
- Authentication, sessions and user management: an external service and CRUD; roles
  are constants.
- Rendering apart from its buttons, provider calls apart from their outcomes, object
  storage, the frontend: no shared state.
- Scripts, migrations and seeds run outside the running system; the one whose effect
  matters, the schedule backfill, is an action of `ProjectPlanning`.

Inside the modelled components, message texts, paging, search, audit wording,
calendar arithmetic and content hashes are left out: they refuse or decorate, and
no property is about them.
