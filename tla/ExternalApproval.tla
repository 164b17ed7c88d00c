--------------------------- MODULE ExternalApproval ---------------------------
(***************************************************************************)
(* External approvals ("gates"): assignment, submission, decision, and the *)
(* chat evidence sessions an employee fills and closes into a submission.  *)
(*                                                                         *)
(* Nothing here locks a row.  A request reads the gate (and the session),  *)
(* checks what it read, and commits later: the ORM then writes only the    *)
(* columns whose new value differs from the one that was read, over        *)
(* whatever the row holds by then, and PostgreSQL evaluates the table's    *)
(* CHECK constraints on the result.  GATECLOSE takes two commits: the      *)
(* submission, then the end of the session.                                *)
(***************************************************************************)
EXTENDS Naturals, FiniteSets, Sequences

CONSTANTS
  Gate,            \* project_external_approvals rows
  Employee,        \* active internal employees of the project
  Nobody,          \* the null assignee
  NoGate,          \* the gate of an idle thread
  Thread,          \* worker threads, each with a database session
  MaxRequests,     \* bound on the requests and messages of a behaviour
  MaxFailures      \* bound on the requests and passes that die half-way

ASSUME ConstantsAssumption ==
  /\ Nobody \notin Employee
  /\ NoGate \notin Gate
  /\ MaxRequests \in Nat /\ MaxFailures \in Nat

VARIABLES
  gate,         \* status, assigned_to_user_id and "is decided" of each row
  submissions,  \* project_external_approval_submissions of a gate, in order
  decisions,    \* PROJECT_EXTERNAL_APPROVAL_DECIDED audit events of a gate
  sessions,     \* gate_evidence_sessions rows, in the order they were opened
  req,          \* the request each worker thread is executing
  silent,       \* open sessions without a message for EVIDENCE_SESSION_SILENCE_DAYS
  sweep,        \* stale sessions the running expiry pass has yet to expire
  requests,     \* requests begun so far
  failures,     \* requests and passes that died half-way so far
  raced         \* history: gates with a write over a row other than the one read

gateVars == <<gate, submissions, decisions, raced>>
sessionVars == <<sessions, silent>>
vars == <<gateVars, sessionVars, req, sweep, requests, failures>>

-----------------------------------------------------------------------------
(* The gate row and how it is written.                                     *)

GateStatus == {"unassigned", "assigned", "submitted", "rejected", "approved"}

Row == [status : GateStatus, assignee : Employee \cup {Nobody}, decided : BOOLEAN]

Unassigned == [status |-> "unassigned", assignee |-> Nobody, decided |-> FALSE]

DecisionComplete(row)   == row.decided <=> row.status \in {"approved", "rejected"}
AssignmentComplete(row) == row.assignee = Nobody <=> row.status = "unassigned"

\* Mutants: a table without one of its two CHECK constraints.
AssignmentChecked(row) == AssignmentComplete(row)
DecisionChecked(row)   == DecisionComplete(row)

Coherent(row) == DecisionComplete(row) /\ AssignmentComplete(row)

Column(current, seen, new) == IF new = seen THEN current ELSE new

\* An UPDATE of `row` by a request that read `seen` and now holds `new`.
Merge(row, seen, new) ==
  [status   |-> Column(row.status, seen.status, new.status),
   assignee |-> Column(row.assignee, seen.assignee, new.assignee),
   decided  |-> Column(row.decided, seen.decided, new.decided)]

\* The statuses each operation's guard lets through.
AcceptedFrom(kind) ==
  CASE kind = "assign"                -> {"unassigned"}
    [] kind \in {"reassign", "unassign"} -> {"assigned", "submitted"}
    [] kind \in {"approve", "reject"} -> {"submitted"}
    [] OTHER                          -> {"assigned"}

\* _require_submitter, _require_assignee: not even an Admin stands in.
AssigneeOnly == {"submit", "close", "open", "message"}

Accepts(kind, row, e) ==
  /\ row.status \in AcceptedFrom(kind)
  /\ kind \in AssigneeOnly => row.assignee = e

\* Mutant: a reassignment leaves the status of a submitted gate alone.
NewRowKeepingStatus(r) ==
  CASE r.kind = "assign"   -> [r.seen EXCEPT !.status = "assigned", !.assignee = r.who]
    [] r.kind = "reassign" -> [r.seen EXCEPT !.assignee = r.who]
    [] r.kind = "unassign" -> [r.seen EXCEPT !.status = "unassigned", !.assignee = Nobody]
    [] r.kind = "approve"  -> [r.seen EXCEPT !.status = "approved", !.decided = TRUE]
    [] r.kind = "reject"   -> [r.seen EXCEPT !.status = "rejected", !.decided = TRUE]
    [] OTHER               -> [r.seen EXCEPT !.status = "submitted"]

\* The row as the request wants it.
NewRow(r) ==
  CASE r.kind \in {"assign", "reassign"} ->
         [r.seen EXCEPT !.status = "assigned", !.assignee = r.who]
    [] r.kind = "unassign" -> [r.seen EXCEPT !.status = "unassigned", !.assignee = Nobody]
    [] r.kind = "approve"  -> [r.seen EXCEPT !.status = "approved", !.decided = TRUE]
    [] r.kind = "reject"   -> [r.seen EXCEPT !.status = "rejected", !.decided = TRUE]
    [] OTHER               -> [r.seen EXCEPT !.status = "submitted"]

\* Mutant: a rejected gate is put back where it can be decided again.
ReopenedForReview(kind, row) ==
  IF kind = "reject" THEN [row EXCEPT !.status = "submitted", !.decided = FALSE] ELSE row

\* The second write of a rejection, in the same transaction.
Reopened(kind, row) ==
  IF kind = "reject" THEN [row EXCEPT !.status = "assigned", !.decided = FALSE] ELSE row

-----------------------------------------------------------------------------
(* Requests and sessions.                                                  *)

Submitting  == {"submit", "close"}
Deciding    == {"approve", "reject"}
GateWriting == Submitting \cup Deciding \cup {"assign", "reassign", "unassign"}

\* "closing": GATECLOSE between its two commits.
Kind == GateWriting \cup {"open", "message", "cancel", "closing", "idle"}

Request == [kind : Kind, gate : Gate \cup {NoGate}, who : Employee \cup {Nobody},
            seen : Row, session : Nat, items : Nat]

Idle == [kind |-> "idle", gate |-> NoGate, who |-> Nobody, seen |-> Unassigned,
         session |-> 0, items |-> 0]

NewRequest(kind, g, e, i, n) ==
  [Idle EXCEPT !.kind = kind, !.gate = g, !.who = e, !.session = i, !.items = n,
               !.seen = IF kind \in GateWriting THEN gate[g] ELSE Unassigned]

\* items counts the texts of the session's note and its attachments.
SessionRow == [gate : Gate, by : Employee, items : Nat, closed : BOOLEAN, expired : BOOLEAN]

NewSession(g, e) ==
  [gate |-> g, by |-> e, items |-> 0, closed |-> FALSE, expired |-> FALSE]

IsOpen(i) == ~sessions[i].closed /\ ~sessions[i].expired
OpenSessions(e) == {i \in DOMAIN sessions : IsOpen(i) /\ sessions[i].by = e}

\* Mutant: no unique index behind open_session()'s own check.
SlotAssumedFree(e) == TRUE

\* uq_v2_gate_evidence_sessions_employee_open, evaluated at the commit.
SlotIsFree(e) == OpenSessions(e) = {}

\* Mutant: the sweep looks only at gates that still await evidence.
StaleAndAssigned == {i \in silent : gate[sessions[i].gate].status = "assigned"}

StaleSessions == silent

-----------------------------------------------------------------------------
(* The reads.                                                              *)

Begin(t, r) ==
  /\ req[t] = Idle /\ requests < MaxRequests
  /\ req' = [req EXCEPT ![t] = r]
  /\ requests' = requests + 1
  /\ UNCHANGED <<gateVars, sessionVars, sweep, failures>>

\* assign(), reassign(), unassign(), submit(), decide() up to their commit.
ReadGate(t, kind, g, e) ==
  /\ Accepts(kind, gate[g], e)
  /\ Begin(t, NewRequest(kind, g, e, 0, 0))

\* GATEOPEN, up to its commit.
ReadOpen(t, g, e) ==
  /\ Accepts("open", gate[g], e)
  /\ OpenSessions(e) = {}
  /\ Begin(t, NewRequest("open", g, e, 0, 0))

\* A text or a file sent while a session is open, up to its commit; a file is
\* downloaded in between.
ReadMessage(t, i) ==
  LET s == sessions[i] IN
  /\ IsOpen(i)
  /\ Accepts("message", gate[s.gate], s.by)
  /\ Begin(t, NewRequest("message", s.gate, s.by, i, 1))

\* GATECLOSE, with a trailing note or without, up to the submission's commit.
\* `items` of the request is what the close itself adds to the session.
ReadClose(t, i, note) ==
  LET s == sessions[i] IN
  /\ IsOpen(i)
  /\ Accepts("close", gate[s.gate], s.by)
  /\ s.items + note > 0
  /\ Begin(t, NewRequest("close", s.gate, s.by, i, note))

\* A refused GATECLOSE still commits the note it came with.
RefuseClose(i) ==
  /\ IsOpen(i) /\ requests < MaxRequests
  /\ ~Accepts("close", gate[sessions[i].gate], sessions[i].by)
  /\ sessions' = [sessions EXCEPT ![i].items = @ + 1]
  /\ silent' = silent \ {i}
  /\ requests' = requests + 1
  /\ UNCHANGED <<gateVars, req, sweep, failures>>

\* GATECANCEL, up to its commit.
ReadCancel(t, i) ==
  /\ IsOpen(i)
  /\ Begin(t, NewRequest("cancel", sessions[i].gate, sessions[i].by, i, 0))

-----------------------------------------------------------------------------
(* The commits.                                                            *)

CommitGate(t) ==
  LET r      == req[t]
      merged == Merge(gate[r.gate], r.seen, NewRow(r)) IN
  /\ r.kind \in GateWriting
  /\ Coherent(merged)
  /\ gate' = [gate EXCEPT ![r.gate] = Reopened(r.kind, merged)]
  /\ raced' = [raced EXCEPT ![r.gate] = @ \/ gate[r.gate] # r.seen]
  /\ decisions' = [decisions EXCEPT ![r.gate] = IF r.kind \in Deciding THEN @ + 1 ELSE @]
  /\ submissions' = [submissions EXCEPT ![r.gate] =
       IF r.kind \in Submitting
         THEN Append(@, [by |-> r.who, session |-> r.session]) ELSE @]
  /\ sessions' = IF r.items > 0 THEN [sessions EXCEPT ![r.session].items = @ + r.items]
                                ELSE sessions
  /\ silent' = IF r.items > 0 THEN silent \ {r.session} ELSE silent
  /\ req' = [req EXCEPT ![t] = IF r.kind = "close" THEN [r EXCEPT !.kind = "closing"] ELSE Idle]
  /\ UNCHANGED <<sweep, requests, failures>>

\* Mutant: GATECLOSE ends the session though its submission was rolled back.
SwallowViolation(t) ==
  LET r == req[t] IN
  /\ r.kind \in GateWriting
  /\ ~Coherent(Merge(gate[r.gate], r.seen, NewRow(r)))
  /\ req' = [req EXCEPT ![t] = IF r.kind = "close" THEN [r EXCEPT !.kind = "closing"] ELSE Idle]
  /\ UNCHANGED <<gateVars, sessionVars, sweep, requests, failures>>

\* A CHECK constraint refuses the write: the transaction is rolled back and
\* the request ends in a server error.
CheckViolation(t) ==
  LET r == req[t] IN
  /\ r.kind \in GateWriting
  /\ ~Coherent(Merge(gate[r.gate], r.seen, NewRow(r)))
  /\ req' = [req EXCEPT ![t] = Idle]
  /\ UNCHANGED <<gateVars, sessionVars, sweep, requests, failures>>

\* The second commit of GATECLOSE.
FinishClose(t) ==
  /\ req[t].kind = "closing"
  /\ sessions' = [sessions EXCEPT ![req[t].session].closed = TRUE]
  /\ silent' = silent \ {req[t].session}
  /\ req' = [req EXCEPT ![t] = Idle]
  /\ UNCHANGED <<gateVars, sweep, requests, failures>>

\* A request that lost the race for the employee's slot is refused.
CommitOpen(t) ==
  LET r == req[t] IN
  /\ r.kind = "open"
  /\ sessions' = IF SlotIsFree(r.who)
                   THEN Append(sessions, NewSession(r.gate, r.who)) ELSE sessions
  /\ req' = [req EXCEPT ![t] = Idle]
  /\ UNCHANGED <<gateVars, silent, sweep, requests, failures>>

CommitMessage(t) ==
  LET r == req[t] IN
  /\ r.kind = "message"
  /\ sessions' = [sessions EXCEPT ![r.session].items = @ + 1]
  /\ silent' = silent \ {r.session}
  /\ req' = [req EXCEPT ![t] = Idle]
  /\ UNCHANGED <<gateVars, sweep, requests, failures>>

CommitCancel(t) ==
  /\ req[t].kind = "cancel"
  /\ sessions' = [sessions EXCEPT ![req[t].session].expired = TRUE]
  /\ silent' = silent \ {req[t].session}
  /\ req' = [req EXCEPT ![t] = Idle]
  /\ UNCHANGED <<gateVars, sweep, requests, failures>>

-----------------------------------------------------------------------------
(* Time, the expiry sweep, and failures.                                   *)

\* EVIDENCE_SESSION_SILENCE_DAYS pass without a message for the session.
FallSilent(i) ==
  /\ IsOpen(i) /\ i \notin silent
  /\ silent' = silent \cup {i}
  /\ UNCHANGED <<gateVars, sessions, req, sweep, requests, failures>>

SweepSelect ==
  /\ sweep = {} /\ StaleSessions # {}
  /\ sweep' = StaleSessions
  /\ UNCHANGED <<gateVars, sessionVars, req, requests, failures>>

\* One commit per session, without a second look at it.
SweepExpire(i) ==
  /\ i \in sweep
  /\ sessions' = [sessions EXCEPT ![i].expired = TRUE]
  /\ silent' = silent \ {i}
  /\ sweep' = sweep \ {i}
  /\ UNCHANGED <<gateVars, req, requests, failures>>

\* The pass dies: what it has committed stays.
SweepFail ==
  /\ sweep # {} /\ failures < MaxFailures
  /\ sweep' = {} /\ failures' = failures + 1
  /\ UNCHANGED <<gateVars, sessionVars, req, requests>>

\* GATECLOSE dies between its commits.  A request that dies before its first
\* commit leaves nothing behind, like one that was never sent.
FailClosing(t) ==
  /\ req[t].kind = "closing" /\ failures < MaxFailures
  /\ req' = [req EXCEPT ![t] = Idle]
  /\ failures' = failures + 1
  /\ UNCHANGED <<gateVars, sessionVars, sweep, requests>>

-----------------------------------------------------------------------------
Init ==
  /\ gate = [g \in Gate |-> Unassigned]
  /\ submissions = [g \in Gate |-> <<>>]
  /\ decisions = [g \in Gate |-> 0]
  /\ sessions = <<>>
  /\ silent = {}
  /\ req = [t \in Thread |-> Idle]
  /\ sweep = {}
  /\ requests = 0 /\ failures = 0
  /\ raced = [g \in Gate |-> FALSE]

Portal(t) ==
  \E g \in Gate :
    \/ \E kind \in {"assign", "reassign", "submit"}, e \in Employee : ReadGate(t, kind, g, e)
    \/ \E kind \in {"unassign", "approve", "reject"} : ReadGate(t, kind, g, Nobody)

\* GATEDECIDE of an Admin calls the service the portal calls.
GateDecide(t) == \E g \in Gate, kind \in Deciding : ReadGate(t, kind, g, Nobody)

Chat(t) ==
  \/ GateDecide(t)
  \/ \E g \in Gate, e \in Employee : ReadOpen(t, g, e)
  \/ \E i \in DOMAIN sessions :
       \/ ReadMessage(t, i)
       \/ \E note \in {0, 1} : ReadClose(t, i, note)
       \/ ReadCancel(t, i)

Commit(t) ==
  \/ CommitGate(t) \/ CheckViolation(t) \/ FinishClose(t)
  \/ CommitOpen(t) \/ CommitMessage(t) \/ CommitCancel(t)

Sweep == SweepSelect \/ \E i \in sweep : SweepExpire(i)

Next ==
  \/ \E t \in Thread : Portal(t) \/ Chat(t) \/ Commit(t) \/ FailClosing(t)
  \/ \E i \in DOMAIN sessions : RefuseClose(i) \/ FallSilent(i)
  \/ Sweep \/ SweepFail

\* The expiry loop keeps running; nobody has to send anything.
Spec == Init /\ [][Next]_vars /\ WF_vars(Sweep)

-----------------------------------------------------------------------------
(* What must hold.                                                         *)

\* Every variable has its type, and every gate row satisfies the CHECK
\* constraints of project_external_approvals whatever races it went through.
TypeOK ==
  /\ gate \in [Gate -> Row]
  /\ \A g \in Gate : DecisionComplete(gate[g]) /\ AssignmentComplete(gate[g])
  /\ submissions \in [Gate -> Seq([by : Employee, session : Nat])]
  /\ decisions \in [Gate -> Nat]
  /\ sessions \in Seq(SessionRow)
  /\ req \in [Thread -> Request]
  /\ silent \subseteq {i \in DOMAIN sessions : IsOpen(i)}
  /\ sweep \subseteq DOMAIN sessions
  /\ requests \in Nat /\ failures \in Nat
  /\ raced \in [Gate -> BOOLEAN]

\* An employee never has two open evidence sessions, whatever GATEOPENs race
\* (uq_v2_gate_evidence_sessions_employee_open).
OneOpenSession == \A e \in Employee : Cardinality(OpenSessions(e)) <= 1

\* A session is marked closed only after its evidence was committed as a
\* submission of its gate: close_session() may die or be refused in between.
ClosedWasSubmitted ==
  \A i \in DOMAIN sessions : sessions[i].closed =>
    \E n \in DOMAIN submissions[sessions[i].gate] :
      submissions[sessions[i].gate][n].session = i

\* Even with racing requests, the only way an approved gate loses its
\* approval is a recorded decision, a rejection that had read the gate before
\* it was approved: every other late write is stopped by a CHECK constraint.
ApprovalLostOnlyToDecision ==
  [][\A g \in Gate :
       gate[g].status = "approved" /\ gate'[g].status # "approved" =>
         decisions'[g] = decisions[g] + 1 /\ gate'[g].status = "assigned"]_vars

\* "An approved approval is final": nothing changes the row again, unless a
\* request wrote over something it had not read.
ApprovalIsFinal ==
  [][\A g \in Gate :
       gate[g].status = "approved" /\ ~raced'[g] =>
         gate'[g] = gate[g] /\ decisions'[g] = decisions[g]]_vars

\* The evidence an Admin decides on was submitted by the gate's assignee,
\* through reassignments, rejections and resubmissions, unless requests raced.
ReviewIsOfTheAssignee ==
  \A g \in Gate : gate[g].status \in {"submitted", "approved"} /\ ~raced[g] =>
    LET n == Len(submissions[g]) IN
    n > 0 /\ submissions[g][n].by = gate[g].assignee

\* Every decision uses up a submission of its own, and a gate awaiting a
\* decision has one that no decision has used, unless requests raced.
OneDecisionPerSubmission ==
  \A g \in Gate : ~raced[g] =>
    decisions[g] + (IF gate[g].status = "submitted" THEN 1 ELSE 0) <= Len(submissions[g])

\* What the desk of ApprovalDesk sees of the gates and the sessions.
SeenOfGate(g) ==
  LET n == Len(submissions[g]) IN
  [stage |-> gate[g].status, holder |-> gate[g].assignee,
   evidence |-> n, author |-> IF n = 0 THEN Nobody ELSE submissions[g][n].by,
   rulings |-> decisions[g], disturbed |-> raced[g]]

Desk == INSTANCE ApprovalDesk WITH
  approval <- [g \in Gate |-> SeenOfGate(g)],
  collecting <- [e \in Employee |-> OpenSessions(e)],
  opened <- Len(sessions)

\* Requests that read and commit apart, over rows nobody locks, closes in two
\* commits and sweeps that do not look again implement the atomic desk: each
\* gate moves as its stage allows unless a request wrote over a row other than
\* the one it read, and what even such a request may do is bounded.
ImplementsDesk == Desk!Spec

\* A session that falls silent gives its employee's slot back, unless another
\* message arrives for it: also when its gate has moved on, and also when a
\* pass of the sweep dies.
SilentSessionIsExpired ==
  \A i \in 1..MaxRequests : i \in silent ~> i \notin silent

\* The model docstring: "A session ends exactly one of two ways, never both" -
\* closed with its evidence submitted, or expired and never submitted. It does
\* not hold: the sweep may expire a session between the two commits of a close.
SessionEndsOneWay ==
  \A i \in DOMAIN sessions : sessions[i].expired =>
    /\ ~sessions[i].closed
    /\ \A g \in Gate : \A n \in DOMAIN submissions[g] : submissions[g][n].session # i

=============================================================================
