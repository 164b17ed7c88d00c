----------------------------- MODULE Escalation -----------------------------
(***************************************************************************)
(* The escalation sweeps over tasks and gates: a follow-up when an         *)
(* expected update is late, an escalation to Admin when the follow-up has  *)
(* been open for ESCALATION_HOURS and the work is still awaited.           *)
(*                                                                         *)
(* A sweep lists what it will visit once, then handles one row per         *)
(* transaction, checking before it writes; the unique index over open      *)
(* tracking rows decides a race.  The loser of a race is not the benign    *)
(* skip its helper intends: the insert is flushed by OutboxService.emit,   *)
(* outside the helper's try, so the error ends the whole sweep and the     *)
(* scheduler goes on to its next call.                                     *)
(***************************************************************************)
EXTENDS Naturals, Sequences

CONSTANTS
  Work,          \* tasks with an update SLA and external approvals with a due date
  Sweeper,       \* scheduler loops, each process running one per kind of work
  MaxChanges,    \* bound on the updates and status changes of the work
  MaxFailures    \* bound on the sweeps that raise half-way

ASSUME ConstantsAssumption == MaxChanges \in Nat /\ MaxFailures \in Nat

VARIABLES
  kind,        \* "task" or "gate": what the work is, what a loop sweeps
  work,        \* open: not terminal / assigned and not archived; late: past SLA / due
  tracking,    \* escalation_tracking rows, in the order they were inserted
  outbox,      \* the events emitted with them
  sweep,       \* what each scheduler loop is doing
  changes,     \* changes of the work so far
  failures,    \* sweeps that raised so far
  told,        \* history: work with a follow-up since it last became late
  recovered    \* history: work not awaited at any time since a loop's last listing

workVars == <<kind, work, changes>>
vars == <<workVars, tracking, outbox, sweep, failures, told, recovered>>

-----------------------------------------------------------------------------
(* Tracking rows and the live conditions.                                  *)

Kind == {"task", "gate"}

Duty(w) == {e \in Work : kind[e] = kind[w]}

Stage == {"followup", "admin_escalation"}

TrackingRow ==
  [entity : Work, stage : Stage, resolved : BOOLEAN,
   aged : BOOLEAN]     \* triggered_at at least ESCALATION_HOURS ago

\* Mutant: a row whose stage is the name of its event.
EventTracking(e, stage) ==
  [entity |-> e, stage |-> "task.escalated_to_admin", resolved |-> FALSE, aged |-> FALSE]

NewTracking(e, stage) == [entity |-> e, stage |-> stage, resolved |-> FALSE, aged |-> FALSE]

IsOpenRow(row, e, stage) == row.entity = e /\ row.stage = stage /\ ~row.resolved

HasOpenTracking(e, stage) ==
  \E i \in DOMAIN tracking : IsOpenRow(tracking[i], e, stage)

\* A row was ever inserted; as a mutant of Tracked, resolved rows still count.
HasAnyTracking(e, stage) ==
  \E i \in DOMAIN tracking : tracking[i].entity = e /\ tracking[i].stage = stage

\* The look before an insert.
Tracked(e, stage) == HasOpenTracking(e, stage)

IndexRefuses(e, stage) == HasOpenTracking(e, stage)

\* _stale_tasks; the query of sweep_approval_followups.
Late(e) == work[e].open /\ work[e].late

\* Mutant: the tracking row is believed.
Believed(e) == TRUE

\* _is_task_stale; _is_approval_still_awaiting_followup, which leaves due_at out.
Awaiting(e) == work[e].open /\ (kind[e] = "task" => work[e].late)

StillAwaiting(e) == Awaiting(e)

\* Mutants: the age of a follow-up is not asked for; one already escalated is left out.
OpenFollowUpsAnyAge(w) ==
  {i \in DOMAIN tracking : /\ tracking[i].entity \in Duty(w)
                           /\ IsOpenRow(tracking[i], tracking[i].entity, "followup")}

OpenFollowUpsUnescalated(w) ==
  {i \in OpenFollowUpsAnyAge(w) :
     tracking[i].aged /\ ~HasOpenTracking(tracking[i].entity, "admin_escalation")}

OpenFollowUps(w) ==
  {i \in DOMAIN tracking : /\ tracking[i].entity \in Duty(w)
                           /\ IsOpenRow(tracking[i], tracking[i].entity, "followup")
                           /\ tracking[i].aged}

-----------------------------------------------------------------------------
(* The loop of one scheduler: list late work and follow it up, then list   *)
(* the open follow-ups and resolve or escalate them, one transaction each. *)

Idle == [step |-> "idle", todo |-> {}, visiting |-> {}, since |-> 0]

Go(w, step, todo, visiting) ==
  sweep' = [sweep EXCEPT ![w] = [step |-> step, todo |-> todo, visiting |-> visiting,
                                 since |-> sweep[w].since]]

Stop(w) == sweep' = [sweep EXCEPT ![w] = Idle]

\* A sweep that raises ends its own call, never the pass.
Abandon(w) ==
  IF sweep[w].step \in {"followups", "track"} THEN Go(w, "list", {}, {}) ELSE Stop(w)

\* Mutant: an escalation resolves the follow-up it answers.
InsertSuperseding(e, stage) ==
  /\ tracking' = [i \in 1..(Len(tracking) + 1) |->
       IF i > Len(tracking) THEN NewTracking(e, stage)
       ELSE [tracking[i] EXCEPT !.resolved = @ \/ (tracking[i].entity = e /\ stage # "followup")]]
  /\ outbox' = Append(outbox, [entity |-> e, stage |-> stage])

\* One new row and its event, in one transaction.
Insert(e, stage) ==
  /\ tracking' = Append(tracking, NewTracking(e, stage))
  /\ outbox' = Append(outbox, [entity |-> e, stage |-> stage])

ListLate(w) ==
  /\ sweep[w].step = "idle"
  /\ sweep' = [sweep EXCEPT ![w] = [step |-> "followups", todo |-> {e \in Duty(w) : Late(e)},
                                    visiting |-> {}, since |-> Len(tracking)]]
  /\ UNCHANGED <<workVars, tracking, outbox, failures, told, recovered>>

CheckFollowUp(w, e) ==
  /\ sweep[w].step = "followups" /\ e \in sweep[w].todo
  /\ IF Tracked(e, "followup")
     THEN Go(w, "followups", sweep[w].todo \ {e}, {})
     ELSE Go(w, "track", sweep[w].todo \ {e}, {e})
  /\ UNCHANGED <<workVars, tracking, outbox, failures, told, recovered>>

CommitFollowUp(w, e) ==
  /\ sweep[w].step = "track" /\ e \in sweep[w].visiting
  /\ ~IndexRefuses(e, "followup")
  /\ Insert(e, "followup")
  /\ Go(w, "followups", sweep[w].todo, {})
  /\ told' = told \cup {e}
  /\ UNCHANGED <<workVars, failures, recovered>>

\* The index error is raised by the flush in emit and leaves the sweep.
LoseFollowUp(w, e) ==
  /\ sweep[w].step = "track" /\ e \in sweep[w].visiting
  /\ IndexRefuses(e, "followup")
  /\ Abandon(w)
  /\ UNCHANGED <<workVars, tracking, outbox, failures, told, recovered>>

ListFollowUps(w) ==
  /\ \/ sweep[w].step = "list"
     \/ sweep[w].step = "followups" /\ sweep[w].todo = {}
  /\ Go(w, "escalations", OpenFollowUps(w), {})
  /\ recovered' = [recovered EXCEPT ![w] = {e \in Work : ~Awaiting(e)}]
  /\ UNCHANGED <<workVars, tracking, outbox, failures, told>>

Recheck(w, i) ==
  /\ sweep[w].step = "escalations" /\ i \in sweep[w].todo
  /\ LET e == tracking[i].entity
         todo == sweep[w].todo \ {i}
     IN  CASE ~StillAwaiting(e) -> Go(w, "resolve", todo, {i})
           [] StillAwaiting(e) /\ HasOpenTracking(e, "admin_escalation") -> Go(w, "escalations", todo, {})
           [] OTHER -> Go(w, "escalate", todo, {i})
  /\ UNCHANGED <<workVars, tracking, outbox, failures, told, recovered>>

Resolve(w, i) ==
  /\ sweep[w].step = "resolve" /\ i \in sweep[w].visiting
  /\ tracking' = [tracking EXCEPT ![i].resolved = TRUE]
  /\ Go(w, "escalations", sweep[w].todo, {})
  /\ UNCHANGED <<workVars, outbox, failures, told, recovered>>

CommitEscalation(w, i) ==
  /\ sweep[w].step = "escalate" /\ i \in sweep[w].visiting
  /\ ~IndexRefuses(tracking[i].entity, "admin_escalation")
  /\ Insert(tracking[i].entity, "admin_escalation")
  /\ Go(w, "escalations", sweep[w].todo, {})
  /\ UNCHANGED <<workVars, failures, told, recovered>>

LoseEscalation(w, i) ==
  /\ sweep[w].step = "escalate" /\ i \in sweep[w].visiting
  /\ IndexRefuses(tracking[i].entity, "admin_escalation")
  /\ Abandon(w)
  /\ UNCHANGED <<workVars, tracking, outbox, failures, told, recovered>>

EndPass(w) ==
  /\ sweep[w].step = "escalations" /\ sweep[w].todo = {}
  /\ Stop(w)
  /\ UNCHANGED <<workVars, tracking, outbox, failures, told, recovered>>

\* A database error, or a restart of the process.
FailSweep(w) ==
  /\ sweep[w].step # "idle" /\ failures < MaxFailures
  /\ Abandon(w) \/ Stop(w)
  /\ failures' = failures + 1
  /\ UNCHANGED <<workVars, tracking, outbox, told, recovered>>

-----------------------------------------------------------------------------
(* The work the sweeps watch, and time.                                    *)

\* The work is e's new state; nobody is told of a stall that begins or ends.
Set(e, state) ==
  /\ work' = [work EXCEPT ![e] = state] /\ UNCHANGED kind
  /\ told' = told \ {e}
  /\ recovered' = [w \in Sweeper |-> {d \in recovered[w] : ~Awaiting(d)'}]
  /\ UNCHANGED <<tracking, outbox, sweep, failures>>

\* The SLA of a task runs out, the due date of a gate is reached.
BecomesLate(e) ==
  /\ ~work[e].late
  /\ Set(e, [work[e] EXCEPT !.late = TRUE])
  /\ UNCHANGED changes

\* A progress update of a task, an assignment with a new due date.
Update(e) ==
  /\ changes < MaxChanges /\ Late(e)
  /\ Set(e, [work[e] EXCEPT !.late = FALSE])
  /\ changes' = changes + 1

\* Completed or cancelled; submitted, unassigned or archived.
Close(e) ==
  /\ changes < MaxChanges /\ work[e].open
  /\ Set(e, [work[e] EXCEPT !.open = FALSE])
  /\ changes' = changes + 1

\* A gate rejected or assigned again keeps its due date.
Reopen(g) ==
  /\ kind[g] = "gate"
  /\ changes < MaxChanges /\ ~work[g].open
  /\ Set(g, [work[g] EXCEPT !.open = TRUE])
  /\ changes' = changes + 1

\* ESCALATION_HOURS pass since row i was triggered; no pass lasts as long.
Age(i) ==
  /\ \A w \in Sweeper : sweep[w].step # "idle" => sweep[w].since >= i
  /\ ~tracking[i].aged /\ ~tracking[i].resolved
  /\ tracking' = [tracking EXCEPT ![i].aged = TRUE]
  /\ UNCHANGED <<workVars, outbox, sweep, failures, told, recovered>>

-----------------------------------------------------------------------------
(* The specification.                                                      *)

Init ==
  /\ kind \in [Work \cup Sweeper -> Kind]
  /\ work = [e \in Work |-> [open |-> TRUE, late |-> FALSE]]
  /\ tracking = <<>> /\ outbox = <<>>
  /\ sweep = [w \in Sweeper |-> Idle]
  /\ changes = 0 /\ failures = 0
  /\ told = {}
  /\ recovered = [w \in Sweeper |-> {}]

FollowUps(w) ==
  \/ ListLate(w)
  \/ \E e \in Duty(w) : CheckFollowUp(w, e) \/ CommitFollowUp(w, e) \/ LoseFollowUp(w, e)

Escalations(w) ==
  \/ ListFollowUps(w)
  \/ \E i \in DOMAIN tracking :
       Recheck(w, i) \/ Resolve(w, i) \/ CommitEscalation(w, i) \/ LoseEscalation(w, i)
  \/ EndPass(w)

Sweep(w) == FollowUps(w) \/ Escalations(w)

Ageing == \E i \in DOMAIN tracking : Age(i)

Next ==
  \/ \E w \in Sweeper : Sweep(w) \/ FailSweep(w)
  \/ \E e \in Work : BecomesLate(e) \/ Update(e) \/ Close(e) \/ Reopen(e)
  \/ Ageing

\* Every loop runs for ever and every call of a pass is isolated from the
\* others; time passes.  Nobody has to update the work.
Fairness == WF_vars(Ageing) /\ \A w \in Sweeper : WF_vars(Sweep(w))

Spec == Init /\ [][Next]_vars /\ Fairness

-----------------------------------------------------------------------------
(* Properties.                                                             *)

\* The variables are in their types.
TypeOK ==
  /\ kind \in [Work \cup Sweeper -> Kind]
  /\ work \in [Work -> [open : BOOLEAN, late : BOOLEAN]]
  /\ tracking \in Seq(TrackingRow)
  /\ outbox \in Seq([entity : Work, stage : Stage])
  /\ sweep \in [Sweeper ->
       [step : {"idle", "followups", "track", "list", "escalations", "resolve", "escalate"},
        todo : SUBSET (Work \cup DOMAIN tracking),
        visiting : SUBSET (Work \cup DOMAIN tracking),
        since : 0..Len(tracking)]]
  /\ changes \in 0..MaxChanges /\ failures \in 0..MaxFailures
  /\ told \subseteq Work
  /\ recovered \in [Sweeper -> SUBSET Work]

\* However the sweeps of several processes interleave, one tracking row at
\* most is open for a piece of work and a stage.
OneOpenRow ==
  \A i, j \in DOMAIN tracking :
    /\ tracking[i].entity = tracking[j].entity /\ tracking[i].stage = tracking[j].stage
    /\ ~tracking[i].resolved /\ ~tracking[j].resolved
    => i = j

\* Admin hears of a piece of work only after a follow-up for it stood for
\* ESCALATION_HOURS: the escalation row comes later than an aged follow-up row.
EscalationFollowsFollowUp ==
  \A i \in DOMAIN tracking : tracking[i].stage = "admin_escalation" =>
    \E j \in 1..(i - 1) : /\ tracking[j].entity = tracking[i].entity
                          /\ tracking[j].stage = "followup"
                          /\ tracking[j].aged

Inserted(e, stage) ==
  /\ Len(tracking') = Len(tracking) + 1
  /\ tracking'[Len(tracking')].entity = e
  /\ tracking'[Len(tracking')].stage = stage

\* Work that was not awaited at any moment since a sweep listed the open
\* follow-ups is not escalated by that sweep: the tracking row is never
\* trusted alone.
RecoveredIsNotEscalated ==
  [][\A w \in Sweeper, e \in Work :
       Inserted(e, "admin_escalation") /\ sweep'[w] # sweep[w] => e \notin recovered[w]]_vars

\* One stall brings one follow-up: none is added for work already followed
\* up since it last became late, was updated or was reopened.
OneFollowUpPerStall == [][\A e \in Work : Inserted(e, "followup") => e \notin told]_vars

IsSwept(e) == \E w \in Sweeper : e \in Duty(w)

\* Whatever races the sweeps lose and whatever error cuts one short: work that
\* stays late ends with an open follow-up (the one of the stall before, when no
\* sweep saw the recovery between them), and a stall of work Admin was never
\* told of, the first one, reaches Admin or ends.  Of a later stall Admin need
\* not hear: EveryFollowUpIsAnswered.
FirstStallReachesAdmin ==
  \A e \in Work :
    /\ <>[](Late(e) /\ IsSwept(e)) => <>[]HasOpenTracking(e, "followup")
    /\ (Late(e) /\ IsSwept(e) /\ ~HasAnyTracking(e, "admin_escalation"))
         ~> (~Late(e) \/ HasAnyTracking(e, "admin_escalation"))

\* Once the work is no longer awaited for good its follow-up is resolved for
\* good, also when it was escalated in the meantime.
RecoveryIsRecorded ==
  \A e \in Work : <>[](~Awaiting(e) /\ IsSwept(e)) => <>[]~HasOpenTracking(e, "followup")

Escalated(i) ==
  \E j \in (i + 1)..Len(tracking) :
    tracking[j].entity = tracking[i].entity /\ tracking[j].stage = "admin_escalation"

\* A follow-up is in the end resolved or escalated, the one of a second stall
\* as much as the first: work that escalates, recovers and stalls again can be
\* escalated again.
EveryFollowUpIsAnswered ==
  \A i \in 1..(2 * MaxChanges + 2) :
    (i \in DOMAIN tracking /\ tracking[i].stage = "followup")
      ~> (i \in DOMAIN tracking /\ (tracking[i].resolved \/ Escalated(i)))

=============================================================================
