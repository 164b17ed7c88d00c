--------------------------- MODULE OutboxDispatch ---------------------------
(***************************************************************************)
(* The outbox dispatcher: every event written with a mutation is resolved  *)
(* to recipients and sent to each of them, by passes that may overlap (two *)
(* server processes) and may die between any two statements.               *)
(*                                                                         *)
(* A pass commits once per event.  Until then its writes are its own, the  *)
(* rows it inserted or updated are locked, and a rollback (a death, or an  *)
(* insert that lost to another pass) discards all of them, the records of  *)
(* messages already sent included.                                         *)
(***************************************************************************)
EXTENDS Integers, FiniteSets

CONSTANTS
  Events,             \* outbox events, numbered in the order of created_at
  Recipients,         \* employees and vendor contacts, numbered in resolution order
  Passes,             \* dispatch loops, one per server process
  Limit,              \* events in one batch
  SkippedOnTelegram,  \* events another Telegram message already covers
  OffboardNotices,    \* events of type user.offboarded
  FirstPeople,        \* the channels and addresses recipients may have at first
  FirstAudience,      \* whom each event concerns at first
  MaxChanges,         \* bound on changes of people and audiences
  MaxFailures,        \* bound on refused sends, lost answers and deaths of passes
  NoEvent, NoOne      \* null values

Channel == {"telegram", "whatsapp"}

\* active_channel; the channels with a chat id or a phone; users.active
Person == [channel : Channel, addresses : SUBSET Channel, active : BOOLEAN]

ASSUME ConstantsAssumption ==
  /\ Events \subseteq Nat /\ IsFiniteSet(Events) /\ Recipients \subseteq Nat
  /\ Limit \in Nat \ {0} /\ MaxChanges \in Nat /\ MaxFailures \in Nat
  /\ SkippedOnTelegram \subseteq Events /\ OffboardNotices \subseteq Events
  /\ FirstPeople \subseteq [Recipients -> Person]
  /\ FirstAudience \in [Events -> SUBSET Recipients]
  /\ NoEvent \notin Events /\ NoOne \notin Recipients

VARIABLES
  status,     \* outbox_events.status
  audience,   \* whom _resolve_recipients finds for an event now
  person,     \* the recipients' identity rows
  delivery,   \* message_deliveries, committed: at most one per event and recipient
  pass,       \* what each dispatch loop is doing, with its uncommitted writes
  changes,    \* changes of people and audiences so far
  failures,   \* refused sends, lost answers and deaths so far
  inbox,      \* history: how often the provider accepted a message
  told,       \* history: recipients a committed pass went through for an event
  dropped,    \* history: recipients whose record a refused insert rolled back
  disturbed   \* history: recipients whose send was cut short, or sent on a stale look

history == <<inbox, told, dropped, disturbed>>
people == <<audience, person, changes>>
vars == <<status, people, delivery, pass, failures, history>>

-----------------------------------------------------------------------------
(* Deliveries.                                                             *)

NoRow == [status |-> "none", code |-> "none", attempts |-> 0]

Queued == [NoRow EXCEPT !.status = "queued"]

Row ==
  [status : {"none", "queued", "failed", "sent"},
   code : {"none", "unreachable", "refused"}, attempts : Nat]

\* Mutant: an UPDATE sets every column.
Overwrite(row, read, new) == new

\* An UPDATE sets the columns that differ from what was read.
Merge(row, read, new) ==
  [status   |-> IF new.status = read.status THEN row.status ELSE new.status,
   code     |-> IF new.code = read.code THEN row.code ELSE new.code,
   attempts |-> IF new.attempts = read.attempts THEN row.attempts ELSE new.attempts]

Address(r) == person[r].channel \in person[r].addresses

Reachable(r) == person[r].active /\ Address(r)

\* Mutant: a recipient who was unreachable is not asked for again.
RetryableAtOnce(e, r) == delivery[e][r].status = "failed" /\ delivery[e][r].code # "unreachable"

Retryable(e, r) ==
  /\ delivery[e][r].status = "failed"
  /\ delivery[e][r].code = "unreachable" => Reachable(r)

-----------------------------------------------------------------------------
(* _select_events: pending events first, then dispatched events with a     *)
(* retryable failure, by fewest attempts; oldest first; at most Limit.     *)

Candidates ==
  {e \in Events : \/ status[e] = "pending"
                  \/ status[e] = "dispatched" /\ \E r \in Recipients : Retryable(e, r)}

TriedLess(e, f) ==
  \E r \in Recipients : /\ Retryable(e, r)
                        /\ \A q \in Recipients :
                             Retryable(f, q) => delivery[e][r].attempts < delivery[f][q].attempts

\* Mutant: retries before new events.
RetriesFirst(e, f) == IF status[e] # status[f] THEN status[e] = "dispatched" ELSE e < f

Precedes(e, f) ==
  IF status[e] # status[f] THEN status[e] = "pending"
  ELSE IF status[e] = "dispatched" /\ (TriedLess(e, f) \/ TriedLess(f, e)) THEN TriedLess(e, f)
  ELSE e < f

Position(e) == Cardinality({f \in Candidates : Precedes(f, e)})

Selected == {e \in Candidates : Position(e) < Limit}

-----------------------------------------------------------------------------
(* A pass.                                                                 *)

NoWrites == [r \in Recipients |-> NoRow]

Idle == [step |-> "idle", batch |-> {}, event |-> NoEvent, todo |-> {}, covered |-> {},
         phoned |-> {}, at |-> NoOne, read |-> NoRow, new |-> NoRow, wrote |-> NoWrites]

Between(batch) ==
  IF batch = {} THEN Idle ELSE [Idle EXCEPT !.step = "event", !.batch = batch]

Go(p, new) == pass' = [pass EXCEPT ![p] = new]

\* Uncommitted writes of p to the delivery of r for e: the row is locked.
Holds(p, e, r) == pass[p].event = e /\ pass[p].wrote[r] # NoRow

\* Mutant: nothing keeps two passes from writing the same delivery.
NeverLocked(p, e, r) == FALSE

LockedForOthers(p, e, r) == \E q \in Passes \ {p} : Holds(q, e, r)

\* A pass begins: process_pending selects its batch, in order.
Select(p) ==
  /\ pass[p].step = "idle" /\ Candidates # {}
  /\ Go(p, Between({<<Position(e), e>> : e \in Selected}))
  /\ UNCHANGED <<status, people, delivery, failures, history>>

\* The next event of the batch: its recipients are resolved, phones included.
Resolve(p) ==
  /\ pass[p].step = "event"
  /\ \E next \in pass[p].batch :
       LET e == next[2] IN
       /\ \A other \in pass[p].batch : next[1] <= other[1]
       /\ Go(p, [pass[p] EXCEPT
            !.step = "recipient", !.event = e, !.batch = @ \ {next}, !.todo = audience[e],
            !.phoned = {r \in audience[e] : "whatsapp" \in person[r].addresses}])
  /\ UNCHANGED <<status, people, delivery, failures, history>>

\* The pass after a recipient is done with.
Leave(s, r) ==
  [s EXCEPT !.step = "recipient", !.todo = @ \ {r}, !.at = NoOne, !.read = NoRow, !.new = NoRow]

Skipped(e, r) == person[r].channel = "telegram" /\ e \in SkippedOnTelegram

\* _dispatch_to_recipient up to the insert: skip, already sent, retry, or new.
Look(p) ==
  /\ pass[p].step = "recipient"
  /\ \E r \in pass[p].todo :
       LET e == pass[p].event IN
       /\ \A q \in pass[p].todo : r <= q
       /\ \/ /\ Skipped(e, r) \/ delivery[e][r].status = "sent"
             /\ Go(p, Leave(pass[p], r))
          \/ /\ ~Skipped(e, r) /\ delivery[e][r].status = "failed"
             /\ Go(p, [pass[p] EXCEPT !.step = "send", !.at = r, !.read = delivery[e][r],
                                      !.covered = @ \cup {r}])
          \/ /\ ~Skipped(e, r) /\ delivery[e][r] = NoRow
             /\ Go(p, [pass[p] EXCEPT !.step = "insert", !.at = r, !.covered = @ \cup {r}])
  /\ UNCHANGED <<status, people, delivery, failures, history>>

\* The insert waits for another pass's uncommitted row, and is refused by a
\* committed one: everything this pass wrote for the event is rolled back.
Insert(p) ==
  LET s == pass[p] e == s.event r == s.at row == delivery[e][r]
      rolledBack == [s EXCEPT !.wrote = NoWrites]
  IN
  /\ s.step = "insert" /\ ~LockedForOthers(p, e, r)
  /\ \/ /\ row = NoRow
        /\ Go(p, [s EXCEPT !.step = "send", !.read = Queued, !.wrote[r] = Queued])
        /\ UNCHANGED dropped
     \/ /\ row # NoRow
        /\ Go(p, IF row.status = "sent" THEN Leave(rolledBack, r)
                 ELSE [rolledBack EXCEPT !.step = "send", !.read = row])
        /\ dropped' = [dropped EXCEPT ![e] = @ \cup {q \in Recipients : s.wrote[q] # NoRow}]
  /\ UNCHANGED <<status, people, delivery, failures, inbox, told, disturbed>>

-----------------------------------------------------------------------------
(* The attempt.  Nothing of it is written before the provider has answered *)
(* (the session does not autoflush).                                       *)

\* Another pass is at the same delivery, or was since p looked at it.
Overtaken(p) ==
  LET e == pass[p].event r == pass[p].at IN
  /\ pass[p].read.status = "failed"
  /\ \/ pass[p].read # delivery[e][r]
     \/ LockedForOthers(p, e, r)
     \/ \E q \in Passes \ {p} :
          pass[q].step \in {"send", "flush"} /\ pass[q].event = e /\ pass[q].at = r

Answer(p, new) == Go(p, [pass[p] EXCEPT !.step = "flush", !.new = new])

Offboarded(p) == ~person[pass[p].at].active /\ pass[p].event \notin OffboardNotices

RefuseOffboarded(p) ==
  /\ pass[p].step = "send" /\ Offboarded(p)
  /\ Answer(p, [pass[p].read EXCEPT !.status = "failed", !.code = "unreachable"])
  /\ UNCHANGED <<status, people, delivery, failures, history>>

\* A chat id is read for this attempt, a phone comes with the resolved recipient.
HasAddress(p) ==
  LET r == pass[p].at IN
  IF person[r].channel = "telegram" THEN "telegram" \in person[r].addresses
  ELSE r \in pass[p].phoned

\* Known to be unreachable and still so: no attempt is made.
StillUnreachable(p) ==
  /\ pass[p].step = "send" /\ ~Offboarded(p) /\ ~HasAddress(p)
  /\ pass[p].read.status = "failed" /\ pass[p].read.code = "unreachable"
  /\ Go(p, Leave(pass[p], pass[p].at))
  /\ UNCHANGED <<status, people, delivery, failures, history>>

\* Mutants: "sent" is set with the attempt; the failure code repeats the status.
AttemptedAsSent(p, outcome, code) ==
  [status |-> "sent", code |-> code, attempts |-> pass[p].read.attempts + 1]

AttemptedAsCode(p, outcome, code) ==
  [status |-> outcome, code |-> outcome, attempts |-> pass[p].read.attempts + 1]

Attempted(p, outcome, code) ==
  [status |-> outcome, code |-> code, attempts |-> pass[p].read.attempts + 1]

\* An adapter answers without sending when there is no address.
RefuseUnaddressed(p) ==
  /\ pass[p].step = "send" /\ ~Offboarded(p) /\ ~HasAddress(p)
  /\ ~(pass[p].read.status = "failed" /\ pass[p].read.code = "unreachable")
  /\ Answer(p, Attempted(p, "failed", "unreachable"))
  /\ UNCHANGED <<status, people, delivery, failures, history>>

\* The provider accepts, refuses, or accepts and its answer is lost.
Send(p) ==
  LET e == pass[p].event r == pass[p].at IN
  /\ pass[p].step = "send" /\ ~Offboarded(p) /\ HasAddress(p)
  /\ \E accepted, answered \in BOOLEAN :
       /\ accepted \/ answered
       /\ ~(accepted /\ answered) => failures < MaxFailures
       /\ failures' = IF accepted /\ answered THEN failures ELSE failures + 1
       /\ inbox' = IF accepted THEN [inbox EXCEPT ![e][r] = @ + 1] ELSE inbox
       /\ disturbed' = IF ~answered \/ Overtaken(p)
                       THEN [disturbed EXCEPT ![e] = @ \cup {r}] ELSE disturbed
       /\ Answer(p, IF accepted /\ answered THEN Attempted(p, "sent", "none")
                    ELSE Attempted(p, "failed", "refused"))
  /\ UNCHANGED <<status, people, delivery, told, dropped>>

\* Mutant: only what went out is recorded.
WrittenIfSent(p, e, r) ==
  IF pass[p].wrote[r].status = "sent" THEN pass[p].wrote[r] ELSE delivery[e][r]

Written(p, e, r) == IF pass[p].wrote[r] # NoRow THEN pass[p].wrote[r] ELSE delivery[e][r]

\* The outcome is flushed, over the row as it is once nobody else locks it.
Flush(p) ==
  LET s == pass[p] e == s.event r == s.at IN
  /\ s.step = "flush" /\ ~LockedForOthers(p, e, r)
  /\ Go(p, [Leave(s, r) EXCEPT !.wrote[r] = IF s.new = s.read THEN @
                                          ELSE Merge(Written(p, e, r), s.read, s.new)])
  /\ UNCHANGED <<status, people, delivery, failures, history>>

\* One commit per event.
CommitEvent(p) ==
  LET s == pass[p] e == s.event IN
  /\ s.step = "recipient" /\ s.todo = {}
  /\ delivery' = [delivery EXCEPT ![e] = [r \in Recipients |-> Written(p, e, r)]]
  /\ status' = [status EXCEPT ![e] = "dispatched"]
  /\ told' = [told EXCEPT ![e] = @ \cup s.covered]
  /\ Go(p, Between(s.batch))
  /\ UNCHANGED <<people, failures, inbox, dropped, disturbed>>

\* The session is closed and everything uncommitted is gone.
Abort(p) ==
  /\ Go(p, Idle)
  /\ disturbed' = IF pass[p].event = NoEvent THEN disturbed
       ELSE [disturbed EXCEPT ![pass[p].event] =
              @ \cup {r \in Recipients : \/ pass[p].wrote[r] # NoRow
                                         \/ pass[p].step = "flush" /\ pass[p].at = r}]
  /\ UNCHANGED <<status, people, delivery, inbox, told, dropped>>

\* The process stops, or an exception ends the pass: an answer of the provider
\* that is not JSON, a lost connection, a rendering that raises.
Die(p) ==
  /\ pass[p].step # "idle" /\ failures < MaxFailures
  /\ failures' = failures + 1
  /\ Abort(p)

-----------------------------------------------------------------------------
(* What the rest of the system does to the outbox and to people.           *)

\* A mutation commits with its event, possibly after a younger one.
Emit(e) ==
  /\ status[e] = "unborn"
  /\ status' = [status EXCEPT ![e] = "pending"]
  /\ UNCHANGED <<people, delivery, pass, failures, history>>

Changed == changes < MaxChanges /\ changes' = changes + 1

ChangePerson(r, new) ==
  /\ Changed /\ new # person[r]
  /\ person' = [person EXCEPT ![r] = new]
  /\ UNCHANGED <<status, audience, delivery, pass, failures, history>>

Toggle(r) ==
  \E c \in Channel : /\ c = "telegram" => "telegram" \in person[r].addresses
                     /\ ChangePerson(r, [person[r] EXCEPT !.channel = c])

\* /start with a connect code; unlink; a phone entered or cleared; an account
\* closed or restored (vendor contacts have none and count as active).
Connect(r) == /\ person[r].active
              /\ ChangePerson(r, [person[r] EXCEPT !.addresses = @ \cup {"telegram"}])

Unlink(r) == ChangePerson(r, [person[r] EXCEPT !.addresses = @ \ {"telegram"}])

SetPhone(r) == ChangePerson(r, [person[r] EXCEPT !.addresses = @ \cup {"whatsapp"}])

ClearPhone(r) == ChangePerson(r, [person[r] EXCEPT !.addresses = @ \ {"whatsapp"}])

SetActive(r) == ChangePerson(r, [person[r] EXCEPT !.active = ~@])

\* Membership, assignment or delegation: whom an event concerns is asked again.
ChangeAudience(e, r) ==
  /\ Changed
  /\ audience' = [audience EXCEPT ![e] = IF r \in @ THEN @ \ {r} ELSE @ \cup {r}]
  /\ UNCHANGED <<status, person, delivery, pass, failures, history>>

-----------------------------------------------------------------------------
Init ==
  /\ status = [e \in Events |-> "unborn"]
  /\ audience = FirstAudience /\ person \in FirstPeople
  /\ delivery = [e \in Events |-> NoWrites]
  /\ pass = [p \in Passes |-> Idle]
  /\ changes = 0 /\ failures = 0
  /\ inbox = [e \in Events |-> [r \in Recipients |-> 0]]
  /\ told = [e \in Events |-> {}] /\ dropped = [e \in Events |-> {}]
  /\ disturbed = [e \in Events |-> {}]

\* One step of a dispatch loop, its failures aside.
Dispatch(p) ==
  \/ Select(p) \/ Resolve(p) \/ Look(p) \/ Insert(p)
  \/ RefuseOffboarded(p) \/ StillUnreachable(p) \/ RefuseUnaddressed(p) \/ Send(p)
  \/ Flush(p) \/ CommitEvent(p)

Environment ==
  \/ \E e \in Events : Emit(e)
  \/ \E r \in Recipients : \/ Toggle(r) \/ Connect(r) \/ Unlink(r)
                           \/ SetPhone(r) \/ ClearPhone(r) \/ SetActive(r)
  \/ \E e \in Events, r \in Recipients : ChangeAudience(e, r)

Next == Environment \/ \E p \in Passes : Dispatch(p) \/ Die(p)

Fairness == \A p \in Passes : WF_vars(Dispatch(p))

Spec == Init /\ [][Next]_vars /\ Fairness

-----------------------------------------------------------------------------
(* Properties.                                                             *)

PassState ==
  [step : {"idle", "event", "recipient", "insert", "send", "flush"},
   batch : SUBSET (Nat \X Events), event : Events \cup {NoEvent},
   todo : SUBSET Recipients, covered : SUBSET Recipients, phoned : SUBSET Recipients,
   at : Recipients \cup {NoOne}, read : Row, new : Row, wrote : [Recipients -> Row]]

TypeOK ==
  /\ status \in [Events -> {"unborn", "pending", "dispatched"}]
  /\ audience \in [Events -> SUBSET Recipients]
  /\ person \in [Recipients -> Person]
  /\ delivery \in [Events -> [Recipients -> Row]]
  /\ pass \in [Passes -> PassState]
  /\ changes \in 0..MaxChanges /\ failures \in 0..MaxFailures
  /\ inbox \in [Events -> [Recipients -> Nat]]
  /\ told \in [Events -> SUBSET Recipients]
  /\ dropped \in [Events -> SUBSET Recipients]
  /\ disturbed \in [Events -> SUBSET Recipients]

\* A delivery recorded as sent was accepted by the provider: no crash,
\* rollback or overlap leaves a record of a message that never left.
RecordedIsReceived ==
  \A e \in Events, r \in Recipients : delivery[e][r].status = "sent" => inbox[e][r] >= 1

\* A person gets a message twice only if an attempt was cut short before its
\* commit, its answer was lost, its record was rolled back, or two passes
\* retried the same failure: passes that merely overlap send new messages once.
OnceUnlessDisturbed ==
  \A e \in Events, r \in Recipients :
    inbox[e][r] > 1 => r \in disturbed[e] \cup dropped[e]

\* When a dispatched event is at rest, everybody its passes went through has a
\* delivery row, from which a failure is retried, except those whose row
\* another pass's insert rolled back (message_dispatch.py:954-962).
NobodyForgotten ==
  \A e \in Events, r \in Recipients :
    status[e] = "dispatched" /\ r \in told[e] /\ delivery[e][r] = NoRow => r \in dropped[e]

\* What is recorded as sent stays sent, though a retry that overlapped the
\* successful one writes its own outcome later.
RecordedSendIsFinal ==
  [][\A e \in Events, r \in Recipients :
       delivery[e][r].status = "sent" => delivery'[e][r].status = "sent"]_vars

\* The dispatch loops, their batches, locks, rollbacks and retries, implement the
\* outbox as its recipients see it.
Mail == INSTANCE Mailbox WITH
  phase <- status,
  note <- [e \in Events |-> [r \in Recipients |-> delivery[e][r].status]],
  copies <- inbox,
  excused <- [e \in Events |-> disturbed[e] \cup dropped[e]]

ImplementsMailbox == Mail!Spec

\* Every emitted event is dispatched in the end, however many retries wait.
EveryEventIsDispatched ==
  \A e \in Events : status[e] = "pending" ~> status[e] = "dispatched"

Deliverable(e, r) ==
  /\ status[e] = "dispatched" /\ delivery[e][r].status = "failed"
  /\ Reachable(r) /\ r \in audience[e] /\ ~Skipped(e, r)

\* An event that is selected for retries none of which can be attempted.
Frozen(e) ==
  /\ e \in Candidates /\ status[e] = "dispatched"
  /\ \A r \in Recipients : Retryable(e, r) => r \notin audience[e] \/ Skipped(e, r)

\* A failed message to a person who can be reached is delivered in the end,
\* unless events nobody can be sent anything for fill the batch for ever.
RetryComesUp ==
  \A e \in Events, r \in Recipients :
    Deliverable(e, r) ~> (~Deliverable(e, r) \/ Cardinality({f \in Events : Frozen(f)}) >= Limit)
=============================================================================
