----------------------------- MODULE TelegramChat -----------------------------
(***************************************************************************)
(* The Telegram bot around one task: what its messages offer and to whom    *)
(* (message_dispatch's audiences, telegram_task_render), what a press or a   *)
(* typed answer does (telegram_webhook, telegram_task_callback,              *)
(* telegram_callback, telegram_ack_callback, telegram_pending_input) and who *)
(* a chat belongs to (telegram_connect).                                     *)
(*                                                                          *)
(* The webhook handles one update at a time; the Web App's requests run in   *)
(* worker threads, so they come between the steps of an update.              *)
(***************************************************************************)
EXTENDS Naturals, FiniteSets, TLC

CONSTANTS
  Supervisors, Managers, Employees, Admins, \* people by their user role
  Chat, None,
  Projects,    \* tasks to consider: their kind, the seats, the assignees
  MaxUpdates,  \* Telegram updates in a behaviour
  MaxChanges,  \* requests of the Web App in a behaviour
  MaxMoves     \* those among them that move people rather than work on the task

Kind == {"standard", "class_a", "approval_gate"}  \* task_kind, and task_class of work
Seat == [supervisor : Supervisors \cup {None}, manager : Managers \cup {None}]
Person == Supervisors \cup Managers \cup Employees \cup Admins

ASSUME ConstantsAssumption ==
  /\ Supervisors \cap Managers = {} /\ Employees \cap (Supervisors \cup Managers) = {}
  /\ Admins \cap (Supervisors \cup Managers \cup Employees) = {}
  /\ None \notin Person \cup Chat
  /\ \A project \in Projects : /\ project.kind \in Kind
                                /\ project.seat \in Seat
                                /\ project.assignees \subseteq Employees
  /\ {MaxUpdates, MaxChanges, MaxMoves} \subseteq Nat

VARIABLES
  kind,      \* task_kind and task_class of the task
  task,      \* its status, the submission under review, who logged, submitted and verified
  blocked,   \* whether a blocking predecessor is not satisfied yet
  seat,      \* the project's Supervisor and PM, or None
  members,   \* Internal Employees with an open membership
  assignees, \* Internal Employees with an active support assignment
  acked,     \* those of them who acknowledged it
  blocker,   \* the first blocker reported: "none", "open" or "resolved"
  linked,    \* telegram_chat_id of each person
  codes,     \* people with a connect code that still works
  pending,   \* TelegramPendingInput of each chat
  screen,    \* one message with buttons of each chat
  handling,  \* the update being handled
  updates, changes, moves

vars == <<kind, task, blocked, seat, members, assignees, acked, blocker, linked, codes, pending, screen,
          handling, updates, changes, moves>>

team == <<kind, blocked, seat, members, assignees, acked>>
identity == <<linked, codes>>
counters == <<updates, changes, moves>>

\* One of gate_reject_reason and gate_health_note, which differ in wording only.
GateQuestion == {"gate_reject_reason"}
TaskQuestion == {"task_early_start_reason", "task_verify_reject_reason", "task_approval_reject_reason",
                 "task_blocker_type", "task_blocker_description", "task_readiness_note",
                 "task_delay_days", "task_delay_reason", "task_add_progress"}

(* --------------------- what the services allow a person ------------------ *)

Accountable == {seat.supervisor, seat.manager} \ {None}
Insider == Admins \cup Accountable \cup members

AwaitsReview == kind # "approval_gate" /\ task.status = "submitted"
AwaitsApproval == \/ kind = "approval_gate" /\ task.status = "submitted"
                  \/ kind = "class_a" /\ task.status = "verified"

\* A verification by a fallback may not be approved by the same person.
IneligibleApprover(p) == kind = "class_a" /\ p = task.verifier /\ p # seat.supervisor

MayVerify(p) == AwaitsReview /\ (p \in Admins \/ p \in Accountable \ {task.logger})
MayApprove(p) == AwaitsApproval /\ p \in Admins \cup {seat.manager} /\ ~IneligibleApprover(p)

\* Work is made ready, starts and resumes under an active Supervisor and with no
\* blocking predecessor open, whoever asks.
MayProceed == seat.supervisor # None /\ ~blocked

MayExecute(p) ==
  \/ p \in Admins
  \/ assignees # {} /\ p \in assignees
  \/ assignees = {} /\ kind # "approval_gate" /\ p \in Accountable

MayLog(p) ==
  \/ p \in Admins
  \/ p \in IF assignees # {} THEN assignees ELSE Accountable

MayResolve(p) == blocker = "open" /\ p \in Admins \cup Accountable

\* Advisory services: each adds a row of its own and looks at no status.
MayReportBlocker(p) == p \in Insider
MayDeclareReadiness(p) == p \in Insider
MayRecordDelay(p) == p \in Insider

\* What the service behind a button, or behind the answer it asks for, allows.
Allowed(p, code) ==
  /\ p \in Insider
  /\ \/ code = "rb" /\ MayReportBlocker(p)
     \/ code \in {"yr", "yh"} /\ MayDeclareReadiness(p)
     \/ code = "dl" /\ MayRecordDelay(p)
     \/ /\ code = "rd" /\ task.status = "planned" /\ MayProceed
        /\ p \in Admins \cup Accountable \cup assignees
     \/ code = "st" /\ task.status \in {"ready", "rejected"} /\ MayProceed /\ MayExecute(p)
     \/ code = "ap" /\ task.status = "in_progress" /\ MayLog(p)
     \/ code = "sb" /\ task.status = "in_progress" /\ task.logged /\ MayExecute(p)
     \/ code \in {"vf", "vr"} /\ MayVerify(p)
     \/ code \in {"pa", "pr"} /\ MayApprove(p)
     \/ code = "bs" /\ MayResolve(p)

MayAcknowledge(p) == p \in assignees \ acked

\* The services' effect on the task.
Review(t) == [t EXCEPT !.logged = FALSE]
\* enough: no evidence is required, or this update has some.
Logged(t, p, enough) == [t EXCEPT !.logged = @ \/ enough, !.logger = p]
Submitted(t, p) == [t EXCEPT !.status = "submitted", !.by = p, !.submission = @ + 1]
Verified(t, p) ==
  [Review(t) EXCEPT !.status = IF kind = "class_a" THEN "verified" ELSE "completed", !.verifier = p]
\* A rejection and the reopening are two transitions; the second may be refused.
Reopened(t) == [Review(t) EXCEPT !.status = IF MayProceed THEN "in_progress" ELSE "rejected"]

\* Of several blockers the first is followed.
BlockerCreated == IF blocker = "none" THEN "open" ELSE blocker
BlockerResolved == "resolved"

\* enough is progress' own.
After(code, p, enough) ==
  CASE code = "rd" -> [task EXCEPT !.status = "ready"]
    [] code = "st" -> [task EXCEPT !.status = "in_progress"]
    [] code = "ap" -> Logged(task, p, enough)
    [] code = "sb" -> Submitted(task, p)
    [] code = "vf" -> Verified(task, p)
    [] code = "pa" -> [Review(task) EXCEPT !.status = "completed"]
    [] code \in {"vr", "pr"} -> Reopened(task)
    [] OTHER -> task

(* ----------------------- what a message offers --------------------------- *)

\* Review buttons carry the submission they are about, and so do the questions
\* they lead to.
ByReview(code) == code \in {"vf", "vr", "pa", "pr", "task_verify_reject_reason", "task_approval_reject_reason"}
Token(buttons) == IF \E code \in buttons : ByReview(code) THEN task.submission ELSE 0

When(condition, set) == IF condition THEN set ELSE {}

CanMarkReady(p) == task.status = "planned" /\ p \in Admins \cup Accountable \cup assignees

CanStart(p) ==
  /\ task.status = "ready"
  /\ \/ p \in Admins
     \/ p \in IF assignees # {} THEN assignees ELSE IF kind = "approval_gate" THEN {} ELSE Accountable

CanLogProgress(p) ==
  /\ task.status = "in_progress"
  /\ p \in Admins \/ p \in IF assignees # {} THEN assignees ELSE Accountable

StartActions(p) == When(CanMarkReady(p), {"rd"}) \cup When(CanStart(p), {"st"})

ReviewActions(p) ==
  When(AwaitsReview /\ (p \in Admins \/ p \in Accountable \ {task.by}), {"vf", "vr"})

\* Mutant: a fallback verifier is offered the approval of their own verification.
ApprovalActionsOfAny(p) == When(AwaitsApproval /\ p \in Admins \cup {seat.manager}, {"pa", "pr"})

ApprovalActions(p) ==
  When(AwaitsApproval /\ p \in Admins \cup {seat.manager} /\ ~IneligibleApprover(p), {"pa", "pr"})

ProgressActions(p) == When(CanLogProgress(p), {"ap"})
ProgressAndSubmitActions(p) == When(CanLogProgress(p), {"ap", "sb"})
ReportBlockerActions(p) == When(task.status # "completed" /\ p \in Insider, {"rb"})
ReportDelayActions(p) == When(task.status # "completed" /\ p \in Insider, {"dl"})
\* [Ready], and one of [Need help] and [Issue], which both ask for a note.
ReadinessActions(p) == When(task.status \in {"planned", "ready"} /\ p \in Insider, {"yr", "yh"})

RenderSubmitted(p) ==
  IF kind = "approval_gate" THEN ApprovalActions(p)
  ELSE IF p = task.by /\ p \notin Admins THEN {} ELSE ReviewActions(p)

RenderVerificationRecorded(p) == When(kind = "class_a", ApprovalActions(p))
RenderRework(p) == ProgressAndSubmitActions(p)
RenderSupportAssigned(p) == When(MayAcknowledge(p), {"as"}) \cup StartActions(p)
RenderBlockerCreated(p) == When(MayResolve(p), {"bs"})
RenderStarted(p) == ProgressActions(p) \cup ReportBlockerActions(p)
RenderStartCheck(p) == StartActions(p) \cup ReportBlockerActions(p)
RenderMiddayCheck(p) == ProgressAndSubmitActions(p) \cup ReportBlockerActions(p)
RenderEodCheck(p) == RenderMiddayCheck(p) \cup ReportDelayActions(p)
RenderOverdue(p) == ProgressAndSubmitActions(p) \cup ReportDelayActions(p)

Render(event, p) ==
  CASE event = "ready" -> StartActions(p)
    [] event = "started" -> RenderStarted(p)
    [] event = "submitted" -> RenderSubmitted(p)
    [] event = "verification_recorded" -> RenderVerificationRecorded(p)
    [] event = "rework" -> RenderRework(p)
    [] event = "support_assigned" -> RenderSupportAssigned(p)
    [] event = "blocker_created" -> RenderBlockerCreated(p)
    [] event = "prestart_warning" -> ReportBlockerActions(p)
    [] event = "readiness_check" -> ReadinessActions(p)
    [] event = "start_check" -> RenderStartCheck(p)
    [] event = "midday_check" -> RenderMiddayCheck(p)
    [] event = "eod_check" -> RenderEodCheck(p)
    [] event = "overdue" -> RenderOverdue(p)

(* ------------------------------ to whom ---------------------------------- *)

OnlyActiveMembers(people) == people \cap (Accountable \cup members)
PmSupervisorRecipients == Accountable
AdminRecipients == Admins
InternalEmployeeRecipients == assignees
ExecutionParticipants == InternalEmployeeRecipients \cup {task.by}

\* Nobody but the submitter holds a seat that reviews this submission.
SubmissionNeedsAdmin ==
  IF kind = "approval_gate" THEN seat.manager = None ELSE Accountable \subseteq {task.by}

\* Mutant: the PM is asked whoever verified.
ApprovalNeedsAdminIfVacant == kind = "class_a" /\ seat.manager = None

ApprovalNeedsAdmin == kind = "class_a" /\ (seat.manager = None \/ IneligibleApprover(seat.manager))

ReminderAudience(event) ==
  CASE event = "prestart_warning" -> InternalEmployeeRecipients \cup {seat.supervisor}
    [] event = "overdue" -> IF assignees # {} THEN InternalEmployeeRecipients ELSE {seat.supervisor}

Recipients(event) ==
  IF event \in {"prestart_warning", "overdue"} THEN OnlyActiveMembers(ReminderAudience(event))
  ELSE OnlyActiveMembers(
         PmSupervisorRecipients
         \cup When(event \in {"readiness_check", "start_check", "midday_check", "eod_check",
                                 "support_assigned"}, InternalEmployeeRecipients)
         \cup When(event \in {"ready", "started", "submitted", "verification_recorded", "rework"},
                      ExecutionParticipants))
       \cup When(event = "submitted" /\ SubmissionNeedsAdmin, AdminRecipients)
       \cup When(event = "verification_recorded" /\ ApprovalNeedsAdmin, AdminRecipients)

Event == {"ready", "started", "submitted", "verification_recorded", "rework", "support_assigned",
          "blocker_created", "prestart_warning", "readiness_check", "start_check", "midday_check",
          "eod_check", "overdue"}

(* ----------------------------- initial state ----------------------------- *)

NoTask == [status |-> "planned", submission |-> 0, by |-> None, logger |-> None, verifier |-> None,
           logged |-> FALSE]

\* Work somebody logged and submitted before the behaviour starts.
WorkOf(p) == Submitted(Logged(NoTask, p, TRUE), p)
InitialWorkers == IF assignees # {} THEN assignees
                  ELSE IF kind = "approval_gate" THEN Admins ELSE Admins \cup Accountable

Init ==
  /\ \E project \in Projects :
       kind = project.kind /\ seat = project.seat /\ assignees = project.assignees
  /\ members = Employees /\ acked = {} /\ blocker = "none"
  /\ \/ task = NoTask /\ blocked \in BOOLEAN
     \/ task \in {WorkOf(p) : p \in InitialWorkers} /\ blocked = FALSE
  /\ linked \in [Person -> Chat \cup {None}]
  /\ \A p, q \in Person : p # q /\ linked[p] = linked[q] => linked[p] = None
  /\ codes = {p \in Person : linked[p] = None} /\ pending = [c \in Chat |-> None] /\ screen = [c \in Chat |-> None]
  /\ handling = None /\ updates = 0 /\ changes = 0 /\ moves = 0

(* ------------------------- the Web App's requests ------------------------ *)

\* A look at the submission is out of date from here on.
Overtaken == handling' = IF handling = None THEN None ELSE [handling EXCEPT !.fresh = ~ByReview(handling.code)]

Change == changes + moves < MaxChanges /\ changes' = changes + 1 /\ Overtaken /\ UNCHANGED <<updates, moves>>
Move == moves < MaxMoves /\ changes + moves < MaxChanges /\ moves' = moves + 1 /\ UNCHANGED <<handling, updates, changes>>

\* The route's service does what it does for a button, whatever was shown.
WebTask(p, code) ==
  /\ Allowed(p, code)
  /\ \E enough \in BOOLEAN : task' = After(code, p, enough)
  /\ Change /\ UNCHANGED <<team, blocker, identity, pending, screen>>

WebStatus(p) == \E code \in {"rd", "st", "sb"} : WebTask(p, code)
WebProgress(p) == WebTask(p, "ap")
WebVerify(p) == \E code \in {"vf", "vr"} : WebTask(p, code)
WebApprove(p) == \E code \in {"pa", "pr"} : WebTask(p, code)

WebCreateBlocker(p) ==
  /\ blocker = "none" /\ MayReportBlocker(p)
  /\ blocker' = BlockerCreated
  /\ Change /\ UNCHANGED <<team, task, identity, pending, screen>>

WebResolveBlocker(p) ==
  /\ MayResolve(p)
  /\ blocker' = BlockerResolved
  /\ Change /\ UNCHANGED <<team, task, identity, pending, screen>>

\* The last open predecessor is completed, verified, started or cancelled.
PredecessorSatisfied ==
  /\ blocked
  /\ blocked' = FALSE
  /\ UNCHANGED <<kind, task, seat, members, assignees, acked, blocker, identity, pending, screen,
                 handling, counters>>

AssignSupport(e) ==
  /\ e \in members \ assignees
  /\ assignees' = assignees \cup {e}
  /\ Move /\ UNCHANGED <<kind, task, blocked, seat, members, acked, blocker, identity, pending, screen>>

\* The ended assignment's [Acknowledge] is dead from here on.
WithoutAcknowledge(e) ==
  [c \in Chat |-> IF screen[c] # None /\ screen[c].to = e THEN [screen[c] EXCEPT !.buttons = @ \ {"as"}]
                  ELSE screen[c]]

EndSupport(e) ==
  /\ e \in assignees
  /\ assignees' = assignees \ {e} /\ acked' = acked \ {e}
  /\ screen' = WithoutAcknowledge(e)
  /\ Move /\ UNCHANGED <<kind, task, blocked, seat, members, blocker, identity, pending>>

\* Ending a membership leaves the support assignment as it is.
EndMembership(e) ==
  /\ e \in members
  /\ members' = members \ {e}
  /\ Move /\ UNCHANGED <<kind, task, blocked, seat, assignees, acked, blocker, identity, pending, screen>>

\* A new code replaces the person's earlier one.
GenerateCode(p) ==
  /\ linked[p] = None /\ p \notin codes
  /\ codes' = codes \cup {p}
  /\ UNCHANGED <<team, task, blocker, linked, pending, screen, handling, counters>>

Unlink(p) ==
  /\ linked[p] # None
  /\ pending' = [pending EXCEPT ![linked[p]] = None]
  /\ linked' = [linked EXCEPT ![p] = None]
  /\ Move /\ UNCHANGED <<team, task, blocker, codes, screen>>

(* --------------------- messages and open questions ----------------------- *)

\* A dispatch pass renders and sends a message; its audience may have been
\* resolved earlier, so it may reach anybody who ever took part. (A message sent
\* while an update is handled shows the task as it is before or after it; without a further
\* update nobody presses its buttons.)
Send(event, p) ==
  LET c == linked[p]  buttons == Render(event, p) IN
  /\ handling = None /\ updates < MaxUpdates /\ c # None /\ buttons # {}
  /\ screen' = [screen EXCEPT ![c] = [to |-> p, buttons |-> buttons, token |-> Token(buttons)]]
  /\ UNCHANGED <<team, task, blocker, identity, pending, handling, counters>>

\* Asking replaces whatever question was open (set_pending).
Question(q, token, p) == [kind |-> q, token |-> token, asked |-> p, open |-> TRUE]

\* 15 minutes pass, or 10.
Expire(c) ==
  /\ pending[c] # None /\ pending[c].open
  /\ pending' = [pending EXCEPT ![c].open = FALSE]
  /\ UNCHANGED <<team, task, blocker, identity, screen, handling, counters>>

Progressing(c) == pending[c] # None /\ pending[c].kind = "task_add_progress"

\* Closes Add Progress; another question stays.
CloseAddProgress(c) == IF Progressing(c) THEN [pending EXCEPT ![c] = None] ELSE pending

(* --------------------------- handling an update -------------------------- *)

\* The person a chat is linked to.
LinkedPerson(c) == {p \in Person : linked[p] = c}

Receive == handling = None /\ updates < MaxUpdates /\ updates' = updates + 1 /\ UNCHANGED <<changes, moves>>

Update(c, p, code, token, asked) ==
  [chat |-> c, who |-> p, code |-> code, token |-> token, asked |-> asked, fresh |-> TRUE]

\* Mutant: a review is for whatever submission waits now.
ReviewRefusalByStatus(code, token) ==
  \/ code \in {"vf", "vr"} /\ task.status # "submitted"
  \/ code \in {"pa", "pr"} /\ ~AwaitsApproval

\* A review is for the submission its message, or its question, was about.
ReviewRefusal(code, token) ==
  \/ code \in {"vf", "vr"} /\ (task.status # "submitted" \/ token # task.submission)
  \/ code \in {"pa", "pr"} /\ (~AwaitsApproval \/ token # task.submission)

\* What the handlers look at before they call a service or ask a question.
Refused(p, code, to, token) ==
  \/ code = "as" /\ p # to
  \/ code # "as" /\ p \notin Insider
  \/ ReviewRefusal(code, token)
  \/ code = "ap" /\ ~Allowed(p, "ap")

Without(c) == [screen EXCEPT ![c] = None]

\* A press is checked; the reviews' refusals take the buttons away.
Press(c, code) ==
  /\ Receive /\ screen[c] # None /\ code \in screen[c].buttons
  /\ \/ /\ \E p \in LinkedPerson(c) :
             /\ ~Refused(p, code, screen[c].to, screen[c].token)
             /\ handling' = Update(c, p, code, IF ByReview(code) THEN screen[c].token ELSE 0, None)
        /\ UNCHANGED screen
     \/ /\ \A p \in LinkedPerson(c) : Refused(p, code, screen[c].to, screen[c].token)
        /\ handling' = None
        /\ screen' = IF ReviewRefusal(code, screen[c].token) THEN Without(c) ELSE screen
  /\ UNCHANGED <<team, task, blocker, identity, pending>>

\* A typed answer takes the open question, and that is committed first.
Text(c) ==
  /\ Receive /\ pending[c] # None /\ ~Progressing(c)
  /\ pending' = [pending EXCEPT ![c] = None]
  /\ handling' = IF ~pending[c].open THEN None
                 ELSE Update(c, None, pending[c].kind, pending[c].token, pending[c].asked)
  /\ UNCHANGED <<team, task, blocker, identity, screen>>

\* While Add Progress is open, text and files are progress. A command closes
\* it and goes on as a command; once expired it is dropped.
ProgressItem(c) ==
  /\ Receive /\ Progressing(c)
  /\ IF pending[c].open
     THEN handling' = Update(c, None, "task_add_progress", 0, pending[c].asked) /\ UNCHANGED pending
     ELSE handling' = None /\ pending' = CloseAddProgress(c)
  /\ UNCHANGED <<team, task, blocker, identity, screen>>

Command(c) ==
  /\ Receive /\ Progressing(c)
  /\ pending' = CloseAddProgress(c)
  /\ UNCHANGED <<team, task, blocker, identity, screen, handling>>

\* The service behind an answer.
CodeOf(q) ==
  CASE q = "task_early_start_reason" -> "st"
    [] q = "task_verify_reject_reason" -> "vr"
    [] q = "task_approval_reject_reason" -> "pr"
    [] q = "task_add_progress" -> "ap"
    [] q = "task_blocker_type" -> "rb"
    [] q = "task_blocker_description" -> "rb"
    [] q = "task_readiness_note" -> "yh"
    [] q = "task_delay_days" -> "dl"
    [] q = "task_delay_reason" -> "dl"
    [] OTHER -> "gate"

Answering == handling # None /\ handling.who = None

\* The answer's identity and its refusals; a refused item closes Add Progress.
Identify ==
  LET c == handling.chat  code == CodeOf(handling.code) IN
  /\ Answering
  /\ \/ /\ \E p \in LinkedPerson(c) :
             /\ code # "gate" => p \in Insider /\ ~ReviewRefusal(code, handling.token)
             /\ handling' = [handling EXCEPT !.who = p, !.asked = None, !.fresh = TRUE]
        /\ UNCHANGED pending
     \/ /\ \A p \in LinkedPerson(c) : code # "gate" /\ (p \notin Insider \/ ReviewRefusal(code, handling.token))
        /\ handling' = None
        /\ pending' = IF code = "ap" THEN CloseAddProgress(c) ELSE pending
  /\ UNCHANGED <<team, task, blocker, identity, screen, counters>>

Done == handling' = None /\ UNCHANGED counters

Pressed == handling # None /\ handling.who # None /\ handling.code \notin TaskQuestion \cup GateQuestion
Answered == handling # None /\ handling.who # None /\ handling.code \in TaskQuestion \cup GateQuestion

\* A handler puts its question in place of whatever question was open.
Puts(q) ==
  /\ pending' = [pending EXCEPT ![handling.chat] = Question(q, handling.token, handling.who)]
  /\ Done /\ UNCHANGED <<team, task, blocker, identity>>

PressPuts(code, q) == Pressed /\ handling.code = code /\ Puts(q)
AnswerPuts(answered, q) == Answered /\ handling.code = answered /\ Puts(q) /\ UNCHANGED screen

\* A handler calls its service, which reads everything again and commits.
\* Submitting ends Add Progress. The message of a press loses its buttons
\* afterwards, if Telegram takes the call.
Succeeds(code) ==
  /\ IF code = "as" THEN MayAcknowledge(handling.who) ELSE Allowed(handling.who, code)
  /\ \E enough \in BOOLEAN : task' = After(code, handling.who, enough)
  /\ blocker' = CASE code = "bs" -> BlockerResolved [] code = "rb" -> BlockerCreated [] OTHER -> blocker
  /\ acked' = IF code = "as" THEN acked \cup {handling.who} ELSE acked
  /\ pending' = IF code = "sb" THEN CloseAddProgress(handling.chat) ELSE pending
  /\ \/ Pressed /\ screen' = Without(handling.chat)
     \/ UNCHANGED screen
  /\ Done /\ UNCHANGED <<kind, blocked, seat, members, assignees, identity>>

ServesPress(code) == Pressed /\ handling.code = code /\ Succeeds(code)
ServesAnswer(q) == Answered /\ handling.code = q /\ Succeeds(CodeOf(q))

\* [Mark Ready], [Start], [Submit]. A start before its planned date asks why.
StatusButton ==
  \/ \E code \in {"rd", "st", "sb"} : ServesPress(code)
  \/ /\ Pressed /\ task.status = "ready" /\ Allowed(handling.who, "st")
     /\ PressPuts("st", "task_early_start_reason") /\ UNCHANGED screen

StartEarly == ServesAnswer("task_early_start_reason")

OpenAddProgress == PressPuts("ap", "task_add_progress") /\ UNCHANGED screen
StoreProgress == ServesAnswer("task_add_progress")

ReviewButton == PressPuts("vr", "task_verify_reject_reason") /\ UNCHANGED screen
DecideVerification == ServesPress("vf") \/ ServesAnswer("task_verify_reject_reason")

ApprovalButton == PressPuts("pr", "task_approval_reject_reason") /\ UNCHANGED screen
DecideApproval == ServesPress("pa") \/ ServesAnswer("task_approval_reject_reason")

ReportBlocker == PressPuts("rb", "task_blocker_type") /\ UNCHANGED screen
BlockerAnswer ==
  AnswerPuts("task_blocker_type", "task_blocker_description") \/ ServesAnswer("task_blocker_description")
ResolveBlocker == ServesPress("bs")

\* The question takes the message's buttons away.
ReadinessButton == PressPuts("yh", "task_readiness_note") /\ screen' = Without(handling.chat)
DeclareReadiness == ServesPress("yr") \/ ServesAnswer("task_readiness_note")

\* [Report Delay] and the cause chosen from the menu it opens are one press.
ReportDelay == PressPuts("dl", "task_delay_days") /\ UNCHANGED screen
DelayAnswer ==
  \/ \E q \in {"task_delay_days", "task_delay_reason"} : AnswerPuts("task_delay_days", q)
  \/ ServesAnswer("task_delay_reason")

Acknowledge == ServesPress("as")

\* A refusal of the service: a rule, missing progress, an open predecessor. A
\* refused progress item closes Add Progress. A press that was carried out
\* before, or a blocker already resolved, loses its buttons.
Refuse ==
  /\ handling # None /\ handling.who # None
  /\ pending' = IF handling.code = "task_add_progress" THEN CloseAddProgress(handling.chat) ELSE pending
  /\ \/ Pressed /\ screen' = Without(handling.chat)
     \/ UNCHANGED screen
  /\ Done /\ UNCHANGED <<team, task, blocker, identity>>

\* A gate answer runs the GATE command it stands for (ExternalApproval).
RunGateCommand == Answered /\ CodeOf(handling.code) = "gate"
                  /\ Done /\ UNCHANGED <<team, task, blocker, identity, pending, screen>>

\* The process dies: the update's row is committed, so its redelivery does nothing.
Crash ==
  /\ handling # None /\ Done
  /\ UNCHANGED <<team, task, blocker, identity, pending, screen>>

\* Reject or a health button of a gate message asks for a reason or a note.
AskGateQuestion(c, q) ==
  /\ Receive
  /\ \E p \in LinkedPerson(c) : pending' = [pending EXCEPT ![c] = Question(q, 0, p)]
  /\ UNCHANGED <<team, task, blocker, identity, screen, handling>>

\* [Cancel], [Skip note] and [Done] remove the question they belong to, expired
\* or not; opening an evidence session ends Add Progress.
Removes(c, kinds) ==
  /\ Receive /\ pending[c] # None /\ pending[c].kind \in kinds
  /\ pending' = [pending EXCEPT ![c] = None]
  /\ UNCHANGED <<team, task, blocker, identity, screen, handling>>

CancelEarlyStart(c) == Removes(c, {"task_early_start_reason"})
DoneAdding(c) == Removes(c, {"task_add_progress"})
CancelReview(c) == Removes(c, {"task_verify_reject_reason"})
CancelApproval(c) == Removes(c, {"task_approval_reject_reason"})
CancelBlocker(c) == Removes(c, {"task_blocker_type", "task_blocker_description"})
CancelQuestion(c) == Removes(c, {"task_delay_days", "task_delay_reason", "task_readiness_note"})
GateAnswerButton(c) == Removes(c, GateQuestion)

\* Mutant: a chat that is taken already is linked once more.
StartUnchecked(c, p) ==
  /\ Receive /\ p \in codes
  /\ codes' = codes \ {p}
  /\ linked' = [linked EXCEPT ![p] = c]
  /\ pending' = [pending EXCEPT ![c] = None]
  /\ UNCHANGED <<team, task, blocker, screen, handling>>

\* /start with p's code, in a private chat. Refusals leave the code usable.
Start(c, p) ==
  /\ Receive /\ p \in codes
  /\ linked[p] = c \/ (linked[p] = None /\ LinkedPerson(c) = {})
  /\ codes' = codes \ {p}
  /\ linked' = [linked EXCEPT ![p] = c]
  /\ pending' = IF linked[p] = c THEN pending ELSE [pending EXCEPT ![c] = None]
  /\ UNCHANGED <<team, task, blocker, screen, handling>>

Next ==
  \/ \E p \in Person : \/ WebStatus(p)
                       \/ WebProgress(p)
                       \/ WebVerify(p)
                       \/ WebApprove(p)
                       \/ WebCreateBlocker(p)
                       \/ WebResolveBlocker(p)
                       \/ AssignSupport(p)
                       \/ EndSupport(p)
                       \/ EndMembership(p)
                       \/ GenerateCode(p)
                       \/ Unlink(p)
                       \/ \E event \in Event : Send(event, p)
  \/ \E c \in Chat : \/ Expire(c)
                     \/ \E code \in {"rd", "st", "ap", "sb", "vf", "vr", "pa", "pr", "rb", "bs", "yr", "yh",
                                     "dl", "as"} : Press(c, code)
                     \/ Text(c)
                     \/ ProgressItem(c)
                     \/ Command(c)
                     \/ \E q \in GateQuestion : AskGateQuestion(c, q)
                     \/ CancelEarlyStart(c)
                     \/ DoneAdding(c)
                     \/ CancelReview(c)
                     \/ CancelApproval(c)
                     \/ CancelBlocker(c)
                     \/ CancelQuestion(c)
                     \/ GateAnswerButton(c)
                     \/ \E p \in Person : Start(c, p)
  \/ PredecessorSatisfied
  \/ Identify
  \/ StatusButton
  \/ StartEarly
  \/ OpenAddProgress
  \/ StoreProgress
  \/ ReviewButton
  \/ DecideVerification
  \/ ApprovalButton
  \/ DecideApproval
  \/ ReportBlocker
  \/ BlockerAnswer
  \/ ResolveBlocker
  \/ ReadinessButton
  \/ DeclareReadiness
  \/ ReportDelay
  \/ DelayAnswer
  \/ Acknowledge
  \/ Refuse
  \/ RunGateCommand
  \/ Crash

Spec == Init /\ [][Next]_vars

(* ------------------------------ properties ------------------------------- *)

Status == {"planned", "ready", "in_progress", "submitted", "verified", "completed", "rejected"}

\* Every variable holds a value of its kind.
TypeOK ==
  /\ kind \in Kind /\ blocked \in BOOLEAN /\ task.status \in Status /\ task.submission \in Nat
  /\ {task.by, task.logger, task.verifier} \subseteq Person \cup {None}
  /\ members \subseteq Employees /\ acked \subseteq assignees /\ assignees \subseteq Employees
  /\ linked \in [Person -> Chat \cup {None}] /\ codes \subseteq Person
  /\ updates \in 0..MaxUpdates /\ changes \in 0..MaxChanges /\ moves \in 0..MaxMoves

\* A chat belongs to one person at most, and a question that is open, or whose
\* answer is being handled, was put to the person the chat belongs to now: an
\* answer never acts in the name of somebody who was not asked
\* (telegram_connect.py:33-38).
ChatSound ==
  /\ \A p, q \in Person : p # q /\ linked[p] = linked[q] => linked[p] = None
  /\ \A c \in Chat : pending[c] # None => LinkedPerson(c) \subseteq {pending[c].asked}
  /\ Answering => LinkedPerson(handling.chat) \subseteq {handling.asked}

\* Where the render rules ask less of the person than the services (see
\* OfferedIsAllowed), and where they ask nothing of the task.
SubmittedByAnother == task.by # task.logger
UndelegatedGate == kind = "approval_gate" /\ assignees = {}
MissingProgress(buttons, p) == ~task.logged /\ "ap" \in buttons /\ Allowed(p, "ap")

\* A button works for a member it is shown to as long as nothing changed since
\* the message was rendered, with four exceptions.  Render and service rules
\* part over people on work whose progress another person logged and on gate
\* work nobody is assigned to; and the renderers do not look for an active
\* Supervisor, for an open blocking predecessor or for new progress
\* (telegram_task_render.py:213, 293-297, 310-312), but nobody is shown a
\* [Submit] with nothing to submit without an [Add Progress] that works.
\* (Looked at between two updates, which all states allow.)
FreshButtonsWork ==
  handling = None =>
  \A event \in Event, p \in Insider : \A code \in Render(event, p) :
    \/ code = "as" /\ MayAcknowledge(p)
    \/ Allowed(p, code) /\ ~ReviewRefusal(code, task.submission)
    \/ code \in {"rd", "st"} /\ ~MayProceed
    \/ code = "sb" /\ (UndelegatedGate \/ MissingProgress(Render(event, p), p))
    \/ code \in {"vf", "vr"} /\ SubmittedByAnother

Decider(event, codes_) == {p \in Recipients(event) : \E code \in Render(event, p) \cap codes_ : Allowed(p, code)}

\* Whenever somebody may decide on the submission or on the verified work, the
\* message about it reaches somebody who is offered the decision and may take
\* it: a fallback verifier's work goes to an Admin, a lone submitter's too.
DecisionIsOffered ==
  /\ task.status = "submitted" /\ ~SubmittedByAnother /\ (\E p \in Person : MayVerify(p) \/ MayApprove(p)) =>
       Decider("submitted", {"vf", "pa"}) # {}
  /\ task.status = "verified" /\ (\E p \in Person : MayApprove(p)) =>
       Decider("verification_recorded", {"pa"}) # {}

\* A decision taken in a chat is about the submission its message showed, even
\* when the reason was typed after that submission had been sent back and
\* replaced: unless the Web App changed the task after the handler looked.
DecisionOnShownSubmission ==
  [][handling # None /\ handling.fresh /\ changes' = changes /\ task'.status # task.status
       /\ task.status \in {"submitted", "verified"}
     => handling.token = task.submission]_vars

\* What telegram_task_render.py:213 and :245-248 say of the buttons: they are
\* shown to people the rules allow, the verification service's
\* self-verification rule included.
OfferedIsAllowed ==
  \A p \in Person : \A code \in Render("submitted", p) :
    p \in Recipients("submitted") => Allowed(p, code)
=============================================================================
