-------------------------- MODULE TaskDecisionProofs --------------------------
(***************************************************************************)
(* Decisions on a project's tasks, with all the races of TaskRaces: the    *)
(* transition table is left only by a request that was overtaken on the    *)
(* task, and on a task that no such request has written a submission is    *)
(* decided once and a completion has the decision its kind calls for.      *)
(***************************************************************************)
EXTENDS TaskLifecycleProofs, TaskRaces

-----------------------------------------------------------------------------
(* Requests and races: the invariant that the table rests on.              *)

\* What a request leads to: the targets of each kind of decision, and what a
\* status change by hand may hold.
Shape(r) ==
  /\ r.pc = "read" /\ r.kind = "verify" => r.target = r.decision
  /\ r.pc = "read" /\ r.kind = "approve" => r.target = "approval_pending"
  /\ r.pc \in {"read", "open", "held"} /\ r.kind = "approve" =>
       (Kind[r.task] = "work" => Class[r.task] = "class_a")
  /\ r.pc = "open" => r.kind # "status"
  /\ r.pc = "held" => r.target = "completed" /\ (r.kind = "status" => Kind[r.task] = "milestone")
  /\ r.pc \in {"open", "held"} /\ r.kind = "verify" =>
       r.target = "in_progress" \/ (r.target = "completed" /\ Class[r.task] # "class_a")
  /\ r.pc \in {"open", "held"} /\ r.kind = "approve" =>
       r.target \in {"in_progress", "rejected", "completed"}

Clean(s) == \A t \in Task : <<s, t>> \notin overtaken

SeenUnlessOvertaken(s) ==
  req[s].pc = "read" /\ Clean(s) => req[s].seen = status[req[s].task]

\* A completing transaction may complete whatever it has not been overtaken on.
HeldUnlessOvertaken(s) ==
  req[s].pc = "held" => \A t \in Covered(s) :
    /\ t # req[s].task => Kind[t] = "milestone"
    /\ <<s, t>> \notin overtaken =>
         "completed" \in Allowed(status[t]) /\ (status[t] = "planned" => Kind[t] = "milestone")

RaceInv ==
  /\ TypeOK
  /\ SubmissionFrozen
  /\ RequestsFit
  /\ overtaken \subseteq Session \X Task /\ raced \in [Task -> BOOLEAN]
  /\ \A p \in overtaken : p[2] \in Watched(p[1])
  /\ \A s \in Session : Shape(req[s]) /\ SeenUnlessOvertaken(s) /\ HeldUnlessOvertaken(s)

-----------------------------------------------------------------------------
(* What a step can do to the decisions and to those who make them.         *)

\* A transition() call whose checks pass on the status as it is.
Calls(s, r) ==
  /\ Call(s, r) /\ Shape(r) /\ Clean(s)
  /\ \/ r = req[s] /\ r.pc \in {"read", "open"}
     \/ r.pc = "read" /\ r.kind = "status"

\* A decision that commits its row together with its first transition().
Records(s, r) ==
  /\ Calls(s, r) /\ r = req[s] /\ r.pc = "read" /\ r.kind # "status"
  /\ r.seen = status[r.task]
  /\ CommitTransition(s, r) /\ RecordDecision(r)

\* A transition() call that records nothing: by hand, or a decision's later one.
Follows(s, r) ==
  /\ Calls(s, r) /\ UNCHANGED <<reviewVars, clock>>
  /\ r.kind = "status" \/ (r = req[s] /\ r.pc = "open")

\* The first transition() call of a request that was overtaken.
Strays(s, r) ==
  /\ r \in Request /\ Fits(r) /\ Shape(r) /\ r = req[s] /\ r.pc = "read"
  /\ WritesOver(s, r.task) /\ clock' = clock
  /\ \/ CommitTransition(s, r) /\ RecordDecision(r)
     \/ HoldCompletion(s, r) /\ r.kind = "status" /\ Kind[r.task] = "milestone"

\* A request that begins, and what it has read.
Asks(s, r) ==
  /\ r \in Request /\ Fits(r) /\ Shape(r) /\ r.pc = "read" /\ r.seen = status[r.task]
  /\ req' = [req EXCEPT ![s] = r]
  /\ clock' = IF r.kind = "status" THEN clock ELSE clock + 1
  /\ UNCHANGED <<status, reviewVars>>
  /\ r.kind # "status" => r.at = clock
  /\ r.kind = "verify" => r.seen = "submitted" /\ r.about = Len(progress[r.task])
  /\ r.kind = "approve" =>
       \/ Kind[r.task] = "approval_gate" /\ r.seen = "submitted" /\ r.about = 0
       \/ /\ Kind[r.task] = "work" /\ Class[r.task] = "class_a" /\ r.seen = "verified"
          /\ \E v \in Latest(verifications[r.task]) : v.at = r.about /\ v.by # r.actor

\* A progress update.
Reports(t, u) ==
  /\ status[t] = "in_progress" /\ u.reviewed = FALSE /\ u \in Update
  /\ progress' = [progress EXCEPT ![t] = Append(@, u)]
  /\ UNCHANGED <<status, verifications, approvals, req, clock>>

\* A request that has only read, if it was overtaken at all, was so on its task;
\* one between two commits has read nothing.
LEMMA OvertakenOnTask ==
  ASSUME RaceInv, NEW s \in Session, req[s].pc # "held", ~Clean(s)
  PROVE  req[s].pc = "read" /\ <<s, req[s].task>> \in overtaken
<1>1. PICK t \in Task : <<s, t>> \in overtaken
  BY DEF Clean
<1>2. t \in Watched(s)
  BY <1>1 DEF RaceInv
<1> QED
  BY <1>1, <1>2 DEF Watched

\* A step of RaceNext is one of Next, noted.
LEMMA RaceSteps == RaceNext => Next /\ NoteRaces
<1>1. RaceNext => NoteRaces
  BY Zenon DEF RaceNext
<1>2. ASSUME NEW s \in Session,
             FirstTransition(s) \/ NextTransition(s) \/ CommitCompletion(s) \/ Refuse(s) \/ Fail(s)
      PROVE  Next
  BY <1>2, Zenon DEF Next, Handle
<1>3. ASSUME NEW s \in Session, NEW t \in Task, NEW a \in Actor,
             \/ \E d \in {"verified", "rejected"} : ReadForVerify(s, t, a, d)
             \/ \E d \in {"approved", "rejected"} : ReadForApprove(s, t, a, d)
             \/ \E target \in Status : ReadForStatus(s, t, a, target)
             \/ \E target \in Status : PortalStatus(s, t, a, target)
      PROVE  Next
  BY <1>3, Zenon DEF Next
<1>4. ASSUME NEW t \in Task, NEW a \in Actor, NEW evidence \in Evidence(t),
             SubmitProgress(t, a, evidence)
      PROVE  Next
  BY <1>4, Zenon DEF Next
<1>5. ASSUME NEW t \in Task, NEW e \in Employees,
             \/ AssignSupport(t, e)
             \/ \E replacements \in SUBSET Employees : EndSupport(t, e, replacements)
      PROVE  Next
  BY <1>5, Zenon DEF Next
<1>6. ASSUME NEW a \in Supervisors \cup {NoActor}, ChangeSupervisor(a) PROVE Next
  BY <1>6, Zenon DEF Next
<1>7. RaceNext => Next
  BY <1>2, <1>3, <1>4, <1>5, <1>6, Zenon DEF RaceNext
<1> QED
  BY <1>1, <1>7

LEMMA ReviewCases ==
  ASSUME RaceInv, [Next]_vars
  PROVE  \/ \E s \in Session, r \in Request : Records(s, r)
         \/ \E s \in Session, r \in Request : Follows(s, r) /\ CommitTransition(s, r)
         \/ \E s \in Session, r \in Request : Follows(s, r) /\ HoldCompletion(s, r)
         \/ \E s \in Session, r \in Request : Strays(s, r)
         \/ \E s \in Session : CommitCompletion(s)
         \/ \E s \in Session, r \in Request : Asks(s, r)
         \/ \E s \in Session : Ends(s) /\ UNCHANGED <<reviewVars, clock>>
         \/ \E t \in Task, u \in Update : Reports(t, u)
         \/ UNCHANGED <<status, reviewVars, req, clock>>
<1> DEFINE Goal ==
         \/ \E s \in Session, r \in Request : Records(s, r)
         \/ \E s \in Session, r \in Request : Follows(s, r) /\ CommitTransition(s, r)
         \/ \E s \in Session, r \in Request : Follows(s, r) /\ HoldCompletion(s, r)
         \/ \E s \in Session, r \in Request : Strays(s, r)
         \/ \E s \in Session : CommitCompletion(s)
         \/ \E s \in Session, r \in Request : Asks(s, r)
         \/ \E s \in Session : Ends(s) /\ UNCHANGED <<reviewVars, clock>>
         \/ \E t \in Task, u \in Update : Reports(t, u)
         \/ UNCHANGED <<status, reviewVars, req, clock>>
<1>t. TypeOK
  BY DEF RaceInv
<1>i. \A s \in Session : req[s].pc \in {"read", "open", "held"} =>
        req[s] \in Request /\ Fits(req[s])
  BY RequestFields DEF RaceInv, RequestsFit, TypeOK, Idle
<1>1. ASSUME NEW s \in Session, FirstTransition(s) PROVE Goal
  <2> DEFINE r == req[s]
  <2>1. r \in Request /\ Fits(r) /\ Shape(r) /\ r.pc = "read"
    BY <1>1, <1>i DEF FirstTransition, RaceInv
  <2>2. r.kind # "status" => r.target # "completed"
    BY <2>1, RequestFields DEF Shape
  <2>3. CASE ~Clean(s)
    <3>1. WritesOver(s, r.task) /\ clock' = clock
      BY <1>1, <2>1, <2>3, OvertakenOnTask
         DEF WritesOver, FirstTransition, CommitTransition, HoldCompletion
    <3>2. HoldCompletion(s, r) => r.kind = "status" /\ Kind[r.task] = "milestone"
      BY <1>1, <2>2 DEF FirstTransition, HoldCompletion, Permitted
    <3> QED
      BY <1>1, <2>1, <3>1, <3>2 DEF FirstTransition, Strays
  <2>4. CASE Clean(s)
    <3>1. r.seen = status[r.task]
      BY <2>1, <2>4 DEF RaceInv, SeenUnlessOvertaken
    <3>2. Calls(s, r)
      BY <1>1, <2>1, <2>4, <3>1 DEF FirstTransition, Call, Calls
    <3>3. CASE r.kind = "status"
      <4>1. CommitTransition(s, r) \/ HoldCompletion(s, r)
        BY <1>1 DEF FirstTransition
      <4>2. UNCHANGED <<reviewVars, clock>>
        BY <1>1, <3>3 DEF FirstTransition, CommitTransition, HoldCompletion, RecordDecision
      <4> QED
        BY <2>1, <3>2, <3>3, <4>1, <4>2 DEF Follows
    <3>4. CASE r.kind # "status"
      <4>1. CommitTransition(s, r) /\ RecordDecision(r)
        BY <1>1, <2>2, <3>4 DEF FirstTransition, HoldCompletion
      <4> QED
        BY <2>1, <3>1, <3>2, <3>4, <4>1 DEF Records
    <3> QED
      BY <3>3, <3>4
  <2> QED
    BY <2>3, <2>4
<1>2. ASSUME NEW s \in Session, NextTransition(s) PROVE Goal
  <2> DEFINE r == req[s]
  <2>1. r \in Request /\ Fits(r) /\ Shape(r) /\ r.pc = "open"
    BY <1>2, <1>i DEF NextTransition, RaceInv
  <2>2. Clean(s)
    BY <2>1, OvertakenOnTask
  <2>3. Calls(s, r)
    BY <1>2, <2>1, <2>2 DEF NextTransition, Call, Calls
  <2>4. UNCHANGED <<reviewVars, clock>> /\ (CommitTransition(s, r) \/ HoldCompletion(s, r))
    BY <1>2 DEF NextTransition, CommitTransition, HoldCompletion
  <2> QED
    BY <2>1, <2>3, <2>4 DEF Follows
<1>3. ASSUME NEW s \in Session, CommitCompletion(s) PROVE Goal
  BY <1>3
<1>4. ASSUME NEW s \in Session, Refuse(s) \/ Fail(s) PROVE Goal
  BY <1>4 DEF Refuse, Fail, Ends, taskVars, reviewVars
<1>5. ASSUME NEW s \in Session, NEW t \in Task, NEW a \in Actor,
             NEW d \in {"verified", "rejected"}, ReadForVerify(s, t, a, d)
      PROVE  Goal
  <2> DEFINE r == NewRequest("verify", t, a, d, Len(progress[t]))
  <2>1. Len(progress[t]) \in Nat
    BY LenProperties DEF RaceInv, TypeOK
  <2>2. r \in Request
    BY <1>t, <2>1, NewRequestTyped
  <2>3. /\ r.task = t /\ r.kind = "verify" /\ r.pc = "read" /\ r.seen = status[t]
        /\ r.at = clock /\ r.target = r.decision /\ r.about = Len(progress[t])
    BY DEF NewRequest, FirstTarget
  <2>4. status[t] = "submitted" /\ req' = [req EXCEPT ![s] = r] /\ clock' = clock + 1
        /\ Kind[t] = "work" /\ UNCHANGED <<status, reviewVars>>
    BY <1>5 DEF ReadForVerify, taskVars
  <2> HIDE DEF r
  <2>5. Asks(s, r)
    BY <2>2, <2>3, <2>4 DEF Asks, Fits, Shape
  <2> QED
    BY <2>2, <2>5
<1>6. ASSUME NEW s \in Session, NEW t \in Task, NEW a \in Actor,
             NEW d \in {"approved", "rejected"}, ReadForApprove(s, t, a, d)
      PROVE  Goal
  <2>1. ASSUME NEW about \in Nat,
               req' = [req EXCEPT ![s] = NewRequest("approve", t, a, d, about)],
               \/ Kind[t] = "approval_gate" /\ status[t] = "submitted" /\ about = 0
               \/ /\ Kind[t] = "work" /\ Class[t] = "class_a" /\ status[t] = "verified"
                  /\ \E v \in Latest(verifications[t]) : v.at = about /\ v.by # a
        PROVE  Goal
    <3> DEFINE r == NewRequest("approve", t, a, d, about)
    <3>1. r \in Request
      BY <1>t, NewRequestTyped
    <3>2. /\ r.task = t /\ r.kind = "approve" /\ r.pc = "read" /\ r.seen = status[t]
          /\ r.at = clock /\ r.target = "approval_pending" /\ r.about = about /\ r.actor = a
      BY DEF NewRequest, FirstTarget
    <3>3. req' = [req EXCEPT ![s] = r] /\ clock' = clock + 1 /\ UNCHANGED <<status, reviewVars>>
      BY <1>6, <2>1 DEF ReadForApprove, taskVars
    <3> HIDE DEF r
    <3>4. Fits(r) /\ Shape(r)
      BY <2>1, <3>2 DEF Fits, Shape
    <3>5. Asks(s, r)
      BY <2>1, <3>1, <3>2, <3>3, <3>4 DEF Asks
    <3> QED
      BY <3>1, <3>5
  <2>2. CASE /\ Kind[t] = "approval_gate" /\ status[t] = "submitted"
             /\ req' = [req EXCEPT ![s] = NewRequest("approve", t, a, d, 0)]
    BY <2>1, <2>2
  <2>3. ASSUME NEW v \in Latest(verifications[t]), v.by # a,
               Kind[t] = "work", Class[t] = "class_a", status[t] = "verified",
               req' = [req EXCEPT ![s] = NewRequest("approve", t, a, d, v.at)]
        PROVE  Goal
    <3>1. v.at \in Nat
      BY DEF Latest, RaceInv, TypeOK, Verification
    <3> QED
      BY <2>1, <2>3, <3>1
  <2> QED
    BY <1>6, <2>2, <2>3 DEF ReadForApprove
<1>7. ASSUME NEW s \in Session, NEW t \in Task, NEW a \in Actor,
             NEW target \in Status, ReadForStatus(s, t, a, target)
      PROVE  Goal
  <2> DEFINE r == NewRequest("status", t, a, target, 0)
  <2>1. r \in Request
    BY <1>t, NewRequestTyped
  <2>2. r.task = t /\ r.kind = "status" /\ r.pc = "read" /\ r.seen = status[t]
    BY DEF NewRequest
  <2>3. req' = [req EXCEPT ![s] = r] /\ UNCHANGED <<status, reviewVars, clock>>
    BY <1>7 DEF ReadForStatus, taskVars
  <2> HIDE DEF r
  <2>4. Asks(s, r)
    BY <2>1, <2>2, <2>3 DEF Asks, Fits, Shape
  <2> QED
    BY <2>1, <2>4
<1>8. ASSUME NEW s \in Session, NEW t \in Task, NEW a \in Actor,
             NEW target \in Status, PortalStatus(s, t, a, target)
      PROVE  Goal
  <2> DEFINE r == NewRequest("status", t, a, target, 0)
  <2>1. r \in Request
    BY <1>t, NewRequestTyped
  <2>2. r.task = t /\ r.kind = "status" /\ r.pc = "read"
    BY DEF NewRequest
  <2>3. Call(s, r) /\ req[s].pc = "idle"
    BY <1>8, <2>1, <2>2 DEF PortalStatus, Call, Fits, Idle
  <2>4. Clean(s)
    BY <2>3, OvertakenOnTask
  <2>5. UNCHANGED <<reviewVars, clock>> /\ (CommitTransition(s, r) \/ HoldCompletion(s, r))
    BY <1>8 DEF PortalStatus, CommitTransition, HoldCompletion
  <2> HIDE DEF r
  <2>6. Calls(s, r)
    BY <2>2, <2>3, <2>4 DEF Calls, Shape
  <2> QED
    BY <2>1, <2>2, <2>5, <2>6 DEF Follows
<1>9. ASSUME NEW t \in Task, NEW a \in Actor, NEW evidence \in Evidence(t),
              SubmitProgress(t, a, evidence)
       PROVE  Goal
  <2> DEFINE u == [by |-> a, evidence |-> evidence, reviewed |-> FALSE]
  <2>1. u \in Update /\ u.reviewed = FALSE
    BY DEF Update, Evidence
  <2>2. Reports(t, u)
    BY <1>9, <2>1 DEF SubmitProgress, Reports, taskVars
  <2> QED
    BY <2>1, <2>2
<1>10. ASSUME NEW t \in Task, NEW e \in Employees,
             \/ AssignSupport(t, e)
             \/ \E replacements \in SUBSET Employees : EndSupport(t, e, replacements)
      PROVE  Goal
  BY <1>10 DEF AssignSupport, EndSupport, taskVars
<1>11. ASSUME NEW a \in Supervisors \cup {NoActor}, ChangeSupervisor(a) PROVE Goal
  BY <1>11 DEF ChangeSupervisor, taskVars
<1>12. CASE UNCHANGED vars
  BY <1>12 DEF vars, taskVars
<1> HIDE DEF Goal
<1>13. ASSUME NEW s \in Session, Handle(s) \/ Fail(s) PROVE Goal
  BY <1>1, <1>2, <1>3, <1>4, <1>13 DEF Handle
<1>14. ASSUME NEW s \in Session, NEW t \in Task, NEW a \in Actor,
              \/ \E d \in {"verified", "rejected"} : ReadForVerify(s, t, a, d)
              \/ \E d \in {"approved", "rejected"} : ReadForApprove(s, t, a, d)
              \/ \E target \in Status : ReadForStatus(s, t, a, target)
              \/ \E target \in Status : PortalStatus(s, t, a, target)
       PROVE  Goal
  BY <1>5, <1>6, <1>7, <1>8, <1>14
<1>15. ASSUME Next PROVE Goal
  BY <1>9, <1>10, <1>11, <1>13, <1>14, <1>15 DEF Next
<1> QED
  BY <1>12, <1>15 DEF Goal

-----------------------------------------------------------------------------
(* The table is left only in races.                                        *)

\* A row that a thread goes on watching, and that did not overtake it, stood.
LEMMA WatchedStands ==
  ASSUME NoteRaces, NEW s \in Session, NEW t \in Task, t \in Watched(s), t \in Watched(s)',
         <<s, t>> \notin overtaken'
  PROVE  /\ <<s, t>> \notin overtaken
         /\ status'[t] = status[t]
         /\ verifications'[t] = verifications[t] /\ approvals'[t] = approvals[t]
<1> DEFINE p == <<s, t>>
<1>1. p \in Session \X Task /\ p[1] = s /\ p[2] = t
  OBVIOUS
<1>2. p \notin overtaken'
  OBVIOUS
<1> HIDE DEF p
<1>3. ~(p \in overtaken \/ Touched(p[2]))
  BY <1>1, <1>2 DEF NoteRaces
<1> QED
  BY <1>1, <1>3 DEF Touched, p

\* Time passes for the threads that do not move.
LEMMA OthersKeep ==
  ASSUME RaceInv, NoteRaces, NEW o \in Session, req'[o] = req[o]
  PROVE  Shape(req[o])' /\ SeenUnlessOvertaken(o)' /\ HeldUnlessOvertaken(o)'
<1>1. Shape(req[o])'
  BY DEF RaceInv, Shape
<1>2. Watched(o)' = Watched(o) /\ Covered(o)' = Covered(o)
  BY DEF Watched, Covered
<1>3. req[o].pc \in {"read", "held"} => req[o] \in Request
  BY DEF RaceInv, TypeOK, Idle
<1>4. SeenUnlessOvertaken(o)'
  <2> SUFFICES ASSUME req[o].pc = "read", Clean(o)' PROVE req[o].seen = status'[req[o].task]
    BY DEF SeenUnlessOvertaken
  <2>1. req[o].task \in Task /\ req[o].task \in Watched(o)
    BY <1>3, RequestFields DEF Watched
  <2>2. <<o, req[o].task>> \notin overtaken'
    BY <2>1 DEF Clean
  <2>3. <<o, req[o].task>> \notin overtaken /\ status'[req[o].task] = status[req[o].task]
    BY <1>2, <2>1, <2>2, WatchedStands
  <2>4. Clean(o)
    BY <2>3, OvertakenOnTask
  <2> QED
    BY <2>3, <2>4 DEF RaceInv, SeenUnlessOvertaken
<1>5. HeldUnlessOvertaken(o)'
  <2> SUFFICES ASSUME req[o].pc = "held", NEW t \in Covered(o)
               PROVE  /\ t # req[o].task => Kind[t] = "milestone"
                      /\ <<o, t>> \notin overtaken' =>
                           /\ "completed" \in Allowed(status'[t])
                           /\ status'[t] = "planned" => Kind[t] = "milestone"
    BY <1>2 DEF HeldUnlessOvertaken
  <2>1. t \in Task /\ t \in Watched(o)
    BY <1>3, RequestFields DEF Watched, Covered
  <2>2. <<o, t>> \notin overtaken' => <<o, t>> \notin overtaken /\ status'[t] = status[t]
    BY <1>2, <2>1, WatchedStands
  <2> QED
    BY <2>2 DEF RaceInv, HeldUnlessOvertaken
<1> QED
  BY <1>1, <1>4, <1>5

\* A request that commits a transition goes on to its next call, or is over.
LEMMA CommitGoesOn ==
  ASSUME TypeOK, NEW s \in Session, NEW r \in Request, Fits(r), Shape(r),
         r.pc \in {"read", "open"}, CommitTransition(s, r)
  PROVE  /\ req'[s] = IF HasFollowUp(r) THEN [r EXCEPT !.pc = "open", !.target = FollowUp(r)]
                                        ELSE Idle
         /\ req'[s].pc \in {"idle", "open"}
         /\ req'[s].pc = "open" =>
              /\ req'[s].kind = r.kind /\ req'[s].task = r.task
              /\ req'[s].decision = r.decision /\ req'[s].target = FollowUp(r)
              /\ HasFollowUp(r)
         /\ Fits(req'[s]) \/ req'[s] = Idle
         /\ Shape(req'[s])
         /\ \A o \in Session \ {s} : req'[o] = req[o]
         /\ r.task \in Task
         /\ \A t \in Task : status'[t] = IF t = r.task THEN r.target ELSE status[t]
<1> DEFINE next == IF HasFollowUp(r) THEN [r EXCEPT !.pc = "open", !.target = FollowUp(r)]
                                     ELSE Idle
<1>1. /\ r.task \in Task /\ req'[s] = next /\ r.target # "completed"
      /\ \A o \in Session \ {s} : req'[o] = req[o]
      /\ \A t \in Task : status'[t] = IF t = r.task THEN r.target ELSE status[t]
  BY RequestFields DEF CommitTransition, TypeOK
<1>2. CASE ~HasFollowUp(r)
  <2>1. next = Idle /\ Idle.pc = "idle"
    BY <1>2 DEF Idle
  <2> HIDE DEF next
  <2> QED
    BY <1>1, <1>2, <2>1 DEF Shape, next
<1>3. CASE HasFollowUp(r)
  <2>1. r = [pc |-> r.pc, kind |-> r.kind, task |-> r.task, actor |-> r.actor,
             decision |-> r.decision, target |-> r.target, seen |-> r.seen,
             about |-> r.about, at |-> r.at, cascade |-> r.cascade]
    BY DEF Request, RequestOf
  <2>2. /\ next.pc = "open" /\ next.kind = r.kind /\ next.task = r.task
        /\ next.decision = r.decision /\ next.target = FollowUp(r)
    BY <1>3, <2>1
  <2>3. r.kind = "verify" =>
          FollowUp(r) = "in_progress" \/ (FollowUp(r) = "completed" /\ Class[r.task] # "class_a")
    BY <1>3, RequestFields DEF HasFollowUp, FollowUp
  <2>4. FollowUp(r) \in {"in_progress", "rejected", "completed"}
    BY DEF FollowUp
  <2>5. r.kind # "status"
    BY <1>3 DEF HasFollowUp
  <2>6. r.kind = "approve" => (Kind[r.task] = "work" => Class[r.task] = "class_a")
    BY DEF Shape
  <2> HIDE DEF next
  <2>7. Shape(next) /\ Fits(next)
    BY <2>2, <2>3, <2>4, <2>5, <2>6 DEF Shape, Fits
  <2> QED
    BY <1>1, <1>3, <2>2, <2>7 DEF next
<1> QED
  BY <1>2, <1>3

\* A request that holds its completion.
LEMMA HoldGoesOn ==
  ASSUME TypeOK, NEW s \in Session, NEW r \in Request, Fits(r), Shape(r),
         r.pc \in {"read", "open"}, HoldCompletion(s, r),
         r.kind = "status" => Kind[r.task] = "milestone"
  PROVE  /\ req'[s].pc = "held" /\ req'[s].kind = r.kind /\ req'[s].task = r.task
         /\ req'[s].target = "completed" /\ r.target = "completed"
         /\ Fits(req'[s]) /\ Shape(req'[s])
         /\ \A o \in Session \ {s} : req'[o] = req[o]
         /\ UNCHANGED <<status, reviewVars, clock>>
         /\ r.task \in Task /\ Covered(s)' = Cascade(r.task) \cup {r.task}
         /\ \A m \in Cascade(r.task) : m \in Task /\ Kind[m] = "milestone" /\ status[m] = "planned"
<1> DEFINE held == [r EXCEPT !.pc = "held", !.cascade = Cascade(r.task)]
<1>1. /\ held.pc = "held" /\ held.kind = r.kind /\ held.task = r.task
      /\ held.target = r.target /\ held.cascade = Cascade(r.task)
  <2>1. r = [pc |-> r.pc, kind |-> r.kind, task |-> r.task, actor |-> r.actor,
             decision |-> r.decision, target |-> r.target, seen |-> r.seen,
             about |-> r.about, at |-> r.at, cascade |-> r.cascade]
    BY DEF Request, RequestOf
  <2> QED
    BY <2>1
<1>2. /\ req'[s] = held /\ r.target = "completed" /\ UNCHANGED <<status, reviewVars, clock>>
      /\ \A o \in Session \ {s} : req'[o] = req[o]
  BY DEF HoldCompletion, TypeOK, taskVars
<1>3. r.task \in Task
  BY RequestFields
<1>4. \A m \in Cascade(r.task) : m \in Task /\ Kind[m] = "milestone" /\ status[m] = "planned"
  BY CascadeInTask, CascadeMember DEF CascadeReaches
<1> HIDE DEF held
<1>5. Fits(held)
  BY <1>1 DEF Fits
<1>6. Shape(held)
  <2>1. r.kind = "approve" => (Kind[r.task] = "work" => Class[r.task] = "class_a")
    BY DEF Shape
  <2>2. r.kind = "verify" => Class[r.task] # "class_a"
    BY <1>2, RequestFields DEF Shape
  <2> QED
    BY <1>1, <1>2, <2>1, <2>2 DEF Shape
<1>7. Covered(s)' = Cascade(r.task) \cup {r.task}
  BY <1>1, <1>2 DEF Covered
<1> QED
  BY <1>1, <1>2, <1>3, <1>4, <1>5, <1>6, <1>7

\* The table has no loops, and completed rows stay.
LEMMA TableSteps ==
  ASSUME NEW st \in Status
  PROVE  st \notin Allowed(st) /\ "completed" \in Allowed("planned")
BY DEF Allowed, Status

OnTableUnlessRaced ==
  \A t \in Task : status'[t] # status[t] /\ status'[t] \notin Allowed(status[t])
    => \E s \in Session : WritesOver(s, t)

\* What a step says of its thread: it keeps its shape, has seen the task as it
\* is, and may complete what it is about to.
Sound(s) ==
  /\ req[s] # Idle => Fits(req[s])
  /\ Shape(req[s]) /\ SeenUnlessOvertaken(s) /\ HeldUnlessOvertaken(s)

LEMMA ThreadKeeps ==
  ASSUME RaceInv, RaceNext
  PROVE  OnTableUnlessRaced /\ \A o \in Session : Sound(o)'
<1>t. TypeOK
  BY DEF RaceInv
<1>n. NoteRaces
  BY RaceSteps
<1>o. ASSUME NEW o \in Session, req'[o] = req[o] PROVE Sound(o)'
  BY <1>n, <1>o, OthersKeep DEF Sound, RaceInv, RequestsFit, Fits
<1>c. ASSUME NEW s \in Session, NEW r \in Request, Fits(r), Shape(r),
             r.pc \in {"read", "open"}, CommitTransition(s, r)
      PROVE  \A o \in Session : Sound(o)'
  <2>1. Sound(s)'
    <3>1. /\ req'[s].pc \in {"idle", "open"} /\ Shape(req'[s])
          /\ Fits(req'[s]) \/ req'[s] = Idle
      BY <1>t, <1>c, CommitGoesOn
    <3> QED
      BY <3>1 DEF Sound, SeenUnlessOvertaken, HeldUnlessOvertaken, Shape, Fits
  <2>2. \A o \in Session \ {s} : req'[o] = req[o]
    BY <1>t, <1>c, CommitGoesOn
  <2> QED
    BY <1>o, <2>1, <2>2
<1>h. ASSUME NEW s \in Session, NEW r \in Request, Fits(r), Shape(r),
             r.pc \in {"read", "open"}, HoldCompletion(s, r),
             r.kind = "status" => Kind[r.task] = "milestone",
             \/ <<s, r.task>> \in overtaken /\ r = req[s] /\ r.pc = "read"
             \/ Permitted(r, status[r.task])
      PROVE  OnTableUnlessRaced /\ \A o \in Session : Sound(o)'
  <2>1. /\ req'[s].pc = "held" /\ req'[s].task = r.task /\ r.task \in Task
        /\ Fits(req'[s]) /\ Shape(req'[s])
        /\ \A o \in Session \ {s} : req'[o] = req[o]
        /\ status' = status /\ r.target = "completed"
        /\ Covered(s)' = Cascade(r.task) \cup {r.task}
        /\ \A m \in Cascade(r.task) : m \in Task /\ Kind[m] = "milestone" /\ status[m] = "planned"
    BY <1>t, <1>h, HoldGoesOn
  <2>2. <<s, r.task>> \notin overtaken' =>
          /\ "completed" \in Allowed(status[r.task])
          /\ status[r.task] = "planned" => Kind[r.task] = "milestone"
    <3>1. CASE <<s, r.task>> \in overtaken /\ r = req[s] /\ r.pc = "read"
      <4>1. r.task \in Watched(s) /\ r.task \in Watched(s)'
        BY <2>1, <3>1 DEF Watched
      <4> QED
        BY <1>n, <2>1, <3>1, <4>1, WatchedStands
    <3>2. CASE Permitted(r, status[r.task])
      BY <2>1, <3>2 DEF Permitted
    <3> QED
      BY <1>h, <3>1, <3>2
  <2>3. HeldUnlessOvertaken(s)'
    BY <2>1, <2>2, TableSteps DEF HeldUnlessOvertaken, Status
  <2>4. Sound(s)'
    <3>1. SeenUnlessOvertaken(s)'
      BY <2>1 DEF SeenUnlessOvertaken
    <3> QED
      BY <2>1, <2>3, <3>1 DEF Sound, Shape, Fits
  <2> QED
    BY <1>o, <2>1, <2>4 DEF OnTableUnlessRaced
<1>1. ASSUME NEW s \in Session, NEW r \in Request, Calls(s, r), CommitTransition(s, r)
      PROVE  OnTableUnlessRaced /\ \A o \in Session : Sound(o)'
  <2>1. Fits(r) /\ Shape(r) /\ r.pc \in {"read", "open"} /\ r.target \in Allowed(status[r.task])
    BY <1>1 DEF Calls, Call, Permitted
  <2>2. \A t \in Task : status'[t] = IF t = r.task THEN r.target ELSE status[t]
    BY <1>t, <1>1, <2>1, CommitGoesOn
  <2> QED
    BY <1>1, <1>c, <2>1, <2>2 DEF OnTableUnlessRaced
<1>2. ASSUME NEW s \in Session, NEW r \in Request, Calls(s, r), HoldCompletion(s, r)
      PROVE  OnTableUnlessRaced /\ \A o \in Session : Sound(o)'
  BY <1>2, <1>h DEF Calls, Call, Permitted, HoldCompletion
<1>3. ASSUME NEW s \in Session, NEW r \in Request, Strays(s, r)
      PROVE  OnTableUnlessRaced /\ \A o \in Session : Sound(o)'
  <2>1. Fits(r) /\ Shape(r) /\ r.pc = "read" /\ r = req[s] /\ WritesOver(s, r.task)
    BY <1>3 DEF Strays
  <2>2. CASE CommitTransition(s, r)
    <3>1. \A t \in Task : status'[t] = IF t = r.task THEN r.target ELSE status[t]
      BY <1>t, <2>1, <2>2, CommitGoesOn
    <3> QED
      BY <1>c, <2>1, <2>2, <3>1 DEF OnTableUnlessRaced
  <2>3. CASE HoldCompletion(s, r) /\ r.kind = "status" /\ Kind[r.task] = "milestone"
    <3>1. <<s, r.task>> \in overtaken
      BY <2>1 DEF WritesOver
    <3> QED
      BY <1>h, <2>1, <2>3, <3>1
  <2> QED
    BY <1>3, <2>2, <2>3 DEF Strays
<1>4. ASSUME NEW s \in Session, CommitCompletion(s)
      PROVE  OnTableUnlessRaced /\ \A o \in Session : Sound(o)'
  <2>1. /\ req[s].pc = "held" /\ HeldUnlessOvertaken(s)
        /\ \A t \in Task : status'[t] = IF t \in Covered(s) THEN "completed" ELSE status[t]
        /\ \A o \in Session : req'[o] = IF o = s THEN Idle ELSE req[o]
    BY <1>4 DEF CommitCompletion, Covered, RaceInv, TypeOK
  <2>2. OnTableUnlessRaced
    <3> SUFFICES ASSUME NEW t \in Task, status'[t] # status[t],
                        status'[t] \notin Allowed(status[t])
                 PROVE  WritesOver(s, t)
      BY DEF OnTableUnlessRaced
    <3> QED
      BY <1>4, <2>1 DEF HeldUnlessOvertaken, WritesOver
  <2>3. Sound(s)'
    BY <2>1 DEF Sound, Shape, SeenUnlessOvertaken, HeldUnlessOvertaken, Idle
  <2> QED
    BY <1>o, <2>1, <2>2, <2>3
<1>5. ASSUME NEW s \in Session, NEW r \in Request, Asks(s, r)
      PROVE  OnTableUnlessRaced /\ \A o \in Session : Sound(o)'
  <2>1. \A o \in Session : req'[o] = IF o = s THEN r ELSE req[o]
    BY <1>t, <1>5 DEF Asks, TypeOK
  <2>2. Sound(s)'
    BY <1>5, <2>1 DEF Asks, Sound, SeenUnlessOvertaken, HeldUnlessOvertaken, Shape, Fits
  <2> QED
    BY <1>5, <1>o, <2>1, <2>2 DEF Asks, OnTableUnlessRaced
<1>6. ASSUME NEW s \in Session, Ends(s)
      PROVE  OnTableUnlessRaced /\ \A o \in Session : Sound(o)'
  <2>1. \A o \in Session : req'[o] = IF o = s THEN Idle ELSE req[o]
    BY <1>t, <1>6 DEF Ends, TypeOK
  <2>2. Sound(s)'
    BY <2>1 DEF Sound, Shape, SeenUnlessOvertaken, HeldUnlessOvertaken, Idle
  <2> QED
    BY <1>6, <1>o, <2>1, <2>2 DEF Ends, OnTableUnlessRaced
<1>7. ASSUME status' = status, req' = req
      PROVE  OnTableUnlessRaced /\ \A o \in Session : Sound(o)'
  BY <1>7, <1>o DEF OnTableUnlessRaced
<1>8. [Next]_vars
  BY RaceSteps
<1> QED
  BY <1>1, <1>2, <1>3, <1>4, <1>5, <1>6, <1>7, <1>8, ReviewCases DEF Records, Follows, Reports

LEMMA RaceInvInit == RaceInit => RaceInv
<1> SUFFICES ASSUME RaceInit PROVE RaceInv
  OBVIOUS
<1>1. \A s \in Session : req[s] = Idle /\ req[s].pc = "idle"
  BY DEF RaceInit, Init, Idle
<1>2. TypeOK /\ SubmissionFrozen
  BY TypeInit DEF RaceInit, Init, SubmissionFrozen
<1> QED
  BY <1>1, <1>2 DEF RaceInit, RaceInv, RequestsFit, Shape, SeenUnlessOvertaken,
     HeldUnlessOvertaken

LEMMA RaceInvStep ==
  ASSUME RaceInv, [RaceNext]_raceVars
  PROVE  RaceInv'
<1>1. CASE RaceNext
  <2>1. [Next]_vars /\ NoteRaces
    BY <1>1, RaceSteps
  <2>2. TypeOK' /\ SubmissionFrozen'
    BY <2>1, TypeStep, FrozenStep DEF RaceInv
  <2>3. /\ overtaken' \subseteq Session \X Task /\ raced' \in [Task -> BOOLEAN]
        /\ \A p \in overtaken' : p[2] \in Watched(p[1])'
    <3>1. raced' \in [Task -> BOOLEAN]
      BY <2>1 DEF NoteRaces, RaceInv
    <3>2. /\ overtaken' \subseteq Session \X Task
          /\ \A p \in overtaken' : p[2] \in Watched(p[1])'
      BY <2>1 DEF NoteRaces
    <3> QED
      BY <3>1, <3>2
  <2>4. \A s \in Session : Sound(s)'
    BY <1>1, ThreadKeeps
  <2> QED
    BY <2>2, <2>3, <2>4 DEF RaceInv, RequestsFit, Sound
<1>2. CASE UNCHANGED raceVars
  <2>1. /\ UNCHANGED <<status, actualStart, actualFinish, submission, progress,
                       verifications, approvals, support, supervisor, req, clock, failures>>
        /\ UNCHANGED <<overtaken, raced>>
    BY <1>2 DEF raceVars, vars, taskVars, reviewVars, staffVars
  <2>2. [Next]_vars
    BY <1>2 DEF raceVars
  <2>3. TypeOK' /\ SubmissionFrozen'
    BY <2>2, TypeStep, FrozenStep DEF RaceInv
  <2>4. \A s \in Session : /\ req'[s] = req[s] /\ Watched(s)' = Watched(s)
                           /\ Clean(s)' = Clean(s) /\ Covered(s)' = Covered(s)
    BY <2>1 DEF Watched, Clean, Covered
  <2>5. RequestsFit'
    BY <2>1 DEF RaceInv, RequestsFit
  <2>6. \A p \in overtaken' : p[2] \in Watched(p[1])'
    BY <2>1 DEF RaceInv, Watched
  <2>7. \A s \in Session : Shape(req[s])' /\ SeenUnlessOvertaken(s)' /\ HeldUnlessOvertaken(s)'
    <3> TAKE s \in Session
    <3>1. Shape(req[s])'
      BY <2>1 DEF RaceInv
    <3>2. SeenUnlessOvertaken(s)'
      BY <2>1, <2>4 DEF RaceInv, SeenUnlessOvertaken
    <3>3. HeldUnlessOvertaken(s)'
      BY <2>1, <2>4 DEF RaceInv, HeldUnlessOvertaken
    <3> QED
      BY <3>1, <3>2, <3>3
  <2> QED
    BY <2>1, <2>3, <2>5, <2>6, <2>7 DEF RaceInv
<1> QED
  BY <1>1, <1>2

LEMMA RaceInvariant == RaceSpec => []RaceInv
<1>1. RaceInit => RaceInv
  BY RaceInvInit
<1>2. RaceInv /\ [RaceNext]_raceVars => RaceInv'
  BY RaceInvStep
<1> QED
  BY <1>1, <1>2, PTL DEF RaceSpec

\* Whatever requests write what others have read, a status leaves the table only
\* in the hands of a request that was overtaken on that task, cascades included.
THEOREM TableIsLeftOnlyInRaces == RaceSpec => TableLeftOnlyInRaces
<1>1. RaceInv /\ [RaceNext]_raceVars => [OnTableUnlessRaced]_raceVars
  BY ThreadKeeps
<1> QED
  BY <1>1, RaceInvariant, PTL DEF RaceSpec, TableLeftOnlyInRaces, OnTableUnlessRaced

-----------------------------------------------------------------------------
(* The invariant that the decisions rest on.                               *)

\* The rows of a task: written before now, one verification per update and each
\* about an update that was reviewed then, one approval per verification, and
\* an update of a gate for each of its decisions.
RowsSound(t) ==
  /\ \A v \in verifications[t] :
       /\ v.at < clock /\ v.update <= Len(progress[t])
       /\ \A i \in Unreviewed(t) : v.update < i
  /\ \A d \in approvals[t] : d.at < clock /\ d.verification < clock
  /\ \A v, w \in verifications[t] : v.update = w.update => v = w
  /\ Kind[t] = "work" => \A d, e \in approvals[t] : d.verification = e.verification => d = e
  /\ Kind[t] = "approval_gate" =>
       /\ IsFiniteSet(approvals[t])
       /\ Cardinality(approvals[t]) <= Len(progress[t])
       /\ Unreviewed(t) # {} => Cardinality(approvals[t]) < Len(progress[t])

ApprovedOnce(t, v, d) ==
  {e \in approvals[t] : e.verification = v.at} = {d} /\ d.by # v.by

\* What a status says about the decisions: CompletionIsDecided, and what the
\* statuses on the way to `completed` already promise.
Decided(t) ==
  /\ Kind[t] = "work" => LatestIsVerified(t)
  /\ Kind[t] = "work" /\ Class[t] = "class_a" =>
       \E v \in Latest(verifications[t]), d \in approvals[t] :
         ApprovedOnce(t, v, d) /\ d.decision = "approved"
  /\ Kind[t] = "approval_gate" => \E d \in Latest(approvals[t]) : d.decision = "approved"

StatusSound(t) ==
  /\ Kind[t] = "work" /\ status[t] = "verified" =>
       \A d \in approvals[t], v \in Latest(verifications[t]) : d.verification < v.at
  /\ Kind[t] = "work" /\ status[t] \in {"verified", "approval_pending"} => LatestIsVerified(t)
  /\ Kind[t] = "work" /\ status[t] = "approval_pending" => Class[t] = "class_a"
  /\ Kind[t] # "milestone" /\ status[t] = "approval_pending" =>
       \E d \in Latest(approvals[t]) :
         Kind[t] = "work" => \E v \in Latest(verifications[t]) : ApprovedOnce(t, v, d)
  /\ status[t] = "completed" => Decided(t)

\* A decision that has read but not written, on a task that has not changed since
\* and that no race has touched: newer than every row it read.
ReadSound(s) ==
  LET r == req[s] IN
  r.pc = "read" /\ r.kind # "status" /\ Clean(s) /\ ~raced[r.task] =>
    /\ r.at < clock /\ (r.kind = "approve" => r.about < clock)
    /\ \A v \in verifications[r.task] : v.at < r.at
    /\ \A d \in approvals[r.task] : d.at < r.at /\ d.verification < r.at
    /\ r.kind = "verify" => r.seen = "submitted" /\ r.about = Len(progress[r.task])
    /\ r.kind = "approve" =>
         \/ Kind[r.task] = "approval_gate" /\ r.seen = "submitted"
         \/ /\ Kind[r.task] = "work" /\ Class[r.task] = "class_a" /\ r.seen = "verified"
            /\ \E v \in Latest(verifications[r.task]) : v.at = r.about /\ v.by # r.actor

\* An approval between the commit of its decision and what it leads to, on a
\* task that no race has touched.
Deciding(s) ==
  /\ req[s].pc \in {"open", "held"} /\ req[s].kind = "approve"
  /\ req[s].target # "in_progress" /\ ~raced[req[s].task]

RestSound(s) ==
  Deciding(s) =>
    /\ status[req[s].task] \in {"approval_pending", "cancelled"}
    /\ req[s].target = "completed" =>
         \A d \in Latest(approvals[req[s].task]) : d.decision = "approved"

DecidesAlone ==
  \A s, o \in Session : s # o /\ Deciding(s) /\ Deciding(o) => req[s].task # req[o].task

DecisionInv ==
  /\ \A t \in Task : ~raced[t] => RowsSound(t) /\ StatusSound(t)
  /\ \A s \in Session : ReadSound(s) /\ RestSound(s)
  /\ DecidesAlone

-----------------------------------------------------------------------------
(* Rows and statuses of one task.                                          *)

\* Rows that a step leaves alone stay sound, and time only passes.
LEMMA RowsUntouched ==
  ASSUME TypeOK, NEW t \in Task, RowsSound(t),
         progress'[t] = progress[t], verifications'[t] = verifications[t],
         approvals'[t] = approvals[t], clock' \in {clock, clock + 1}
  PROVE  RowsSound(t)'
<1>1. Unreviewed(t)' = Unreviewed(t)
  BY DEF Unreviewed
<1>2. \A v \in verifications[t] : v.at \in Nat
  BY DEF TypeOK, Verification
<1>3. \A d \in approvals[t] : d.at \in Nat /\ d.verification \in Nat
  BY DEF TypeOK, Approval
<1>4. clock \in Nat
  BY DEF TypeOK
<1> QED
  BY <1>1, <1>2, <1>3, <1>4 DEF RowsSound

\* A new update comes after every one that a verification is about.
LEMMA RowsReported ==
  ASSUME TypeOK, NEW t \in Task, RowsSound(t), NEW u \in Update,
         progress'[t] = Append(progress[t], u), verifications'[t] = verifications[t],
         approvals'[t] = approvals[t], clock' = clock
  PROVE  RowsSound(t)'
<1>1. progress[t] \in Seq(Update) /\ Len(progress[t]) \in Nat
  BY LenProperties DEF TypeOK
<1>2. /\ Len(progress'[t]) = Len(progress[t]) + 1
      /\ DOMAIN progress'[t] = 1 .. Len(progress[t]) + 1
      /\ \A i \in DOMAIN progress[t] : progress'[t][i] = progress[t][i]
      /\ DOMAIN progress[t] = 1 .. Len(progress[t])
  BY <1>1, AppendProperties, LenProperties
<1>3. \A i \in Unreviewed(t)' : i \in Unreviewed(t) \/ i = Len(progress[t]) + 1
  BY <1>1, <1>2 DEF Unreviewed
<1>4. \A v \in verifications[t] : v.update \in Nat
  BY DEF TypeOK, Verification
<1>5. \A v \in verifications[t] :
        v.update <= Len(progress'[t]) /\ \A i \in Unreviewed(t)' : v.update < i
  BY <1>1, <1>2, <1>3, <1>4 DEF RowsSound
<1>6. Kind[t] = "approval_gate" => Cardinality(approvals[t]) < Len(progress'[t])
                                   /\ Cardinality(approvals[t]) <= Len(progress'[t])
  BY <1>1, <1>2, FS_CardinalityType DEF RowsSound
<1> QED
  BY <1>5, <1>6 DEF RowsSound

\* A status that stays, or becomes one that promises nothing, stays sound while
\* the decisions are left alone.
LEMMA StatusUntouched ==
  ASSUME NEW t \in Task, StatusSound(t),
         verifications'[t] = verifications[t], approvals'[t] = approvals[t],
         status'[t] = status[t]
           \/ status'[t] \notin {"verified", "approval_pending", "completed"}
  PROVE  StatusSound(t)'
<1>1. Decided(t)' = Decided(t) /\ LatestIsVerified(t)' = LatestIsVerified(t)
  BY DEF Decided, LatestIsVerified, ApprovedOnce, Latest
<1>2. /\ Latest(verifications[t])' = Latest(verifications[t])
      /\ Latest(approvals[t])' = Latest(approvals[t])
  BY DEF Latest
<1>3. \A v, d : ApprovedOnce(t, v, d)' = ApprovedOnce(t, v, d)
  BY DEF ApprovedOnce
<1> QED
  BY <1>1, <1>2, <1>3 DEF StatusSound

\* The row that is newer than all the others is the latest.
LEMMA NewestIsLatest ==
  ASSUME NEW rows, NEW row, row.at \in Nat,
         \A r \in rows : r.at \in Nat /\ r.at < row.at
  PROVE  Latest(rows \cup {row}) = {row}
<1>1. \A r \in rows \cup {row} : r.at <= row.at
  OBVIOUS
<1>2. \A r \in rows : ~(row.at <= r.at)
  OBVIOUS
<1> QED
  BY <1>1, <1>2 DEF Latest

\* Reviewing marks every update of the task.
LEMMA NoneUnreviewed ==
  ASSUME TypeOK, NEW t \in Task, progress'[t] = Reviewed(progress[t])
  PROVE  Unreviewed(t)' = {} /\ Len(progress'[t]) = Len(progress[t])
<1>1. progress[t] \in Seq(Update)
  BY DEF TypeOK
<1>2. /\ Reviewed(progress[t]) \in Seq(Update)
      /\ DOMAIN Reviewed(progress[t]) = DOMAIN progress[t]
  BY <1>1, ReviewedTyped
<1>3. Len(Reviewed(progress[t])) = Len(progress[t])
  BY <1>1, <1>2, LenProperties
<1>4. \A i \in DOMAIN progress[t] : Reviewed(progress[t])[i].reviewed = TRUE
  <2> TAKE i \in DOMAIN progress[t]
  <2>1. progress[t][i] \in Update
    BY <1>1, ElementOfSeq, LenProperties
  <2> QED
    BY <2>1 DEF Reviewed, Update
<1> QED
  BY <1>2, <1>3, <1>4 DEF Unreviewed

\* What a decision's first transaction changes besides its request.
LEMMA RecordChanges ==
  ASSUME RaceInv, DecisionInv, NEW s \in Session, NEW r \in Request, Records(s, r)
  PROVE  /\ r.task \in Task /\ clock' = clock
         /\ ReadSound(s) /\ Fits(r) /\ Shape(r) /\ Clean(s)
         /\ \A t \in Task : status'[t] = IF t = r.task THEN r.target ELSE status[t]
         /\ \A o \in Session \ {s} : req'[o] = req[o]
         /\ req'[s] = IF HasFollowUp(r) THEN [r EXCEPT !.pc = "open", !.target = FollowUp(r)]
                                        ELSE Idle
         /\ \A t \in Task \ {r.task} :
              /\ progress'[t] = progress[t] /\ verifications'[t] = verifications[t]
              /\ approvals'[t] = approvals[t]
         /\ progress'[r.task] = Reviewed(progress[r.task])
         /\ r.kind = "verify" =>
              /\ approvals' = approvals
              /\ verifications'[r.task] = verifications[r.task] \cup
                   {[at |-> r.at, by |-> r.actor, decision |-> r.decision, update |-> r.about]}
         /\ r.kind = "approve" =>
              /\ verifications' = verifications
              /\ approvals'[r.task] = approvals[r.task] \cup
                   {[at |-> r.at, by |-> r.actor, decision |-> r.decision,
                     verification |-> r.about]}
<1> USE DEF RaceInv, TypeOK
<1>1. r.task \in Task /\ r.kind \in {"verify", "approve"}
  BY RequestFields DEF Records
<1>2. ReadSound(s) /\ Fits(r) /\ Shape(r) /\ Clean(s)
  BY DEF DecisionInv, Records, Calls, Call
<1>3. /\ clock' = clock
      /\ \A t \in Task : status'[t] = IF t = r.task THEN r.target ELSE status[t]
      /\ \A o \in Session \ {s} : req'[o] = req[o]
      /\ req'[s] = IF HasFollowUp(r) THEN [r EXCEPT !.pc = "open", !.target = FollowUp(r)]
                                     ELSE Idle
  BY <1>1 DEF Records, CommitTransition
<1>4. CASE r.kind = "verify"
  <2>1. /\ verifications' = [verifications EXCEPT ![r.task] = @ \cup
              {[at |-> r.at, by |-> r.actor, decision |-> r.decision, update |-> r.about]}]
        /\ progress' = [progress EXCEPT ![r.task] = Reviewed(@)]
        /\ approvals' = approvals
    BY <1>4 DEF Records, RecordDecision
  <2> QED
    BY <1>1, <1>2, <1>3, <1>4, <2>1
<1>5. CASE r.kind = "approve"
  <2>1. /\ approvals' = [approvals EXCEPT ![r.task] = @ \cup
              {[at |-> r.at, by |-> r.actor, decision |-> r.decision,
                verification |-> r.about]}]
        /\ progress' = [progress EXCEPT ![r.task] = Reviewed(@)]
        /\ verifications' = verifications
    BY <1>5 DEF Records, RecordDecision
  <2> QED
    BY <1>1, <1>2, <1>3, <1>5, <2>1
<1> QED
  BY <1>1, <1>4, <1>5

\* A verification: of the update that closed the submission, not verified yet.
LEMMA VerificationRecorded ==
  ASSUME RaceInv, DecisionInv,
         NEW s \in Session, NEW r \in Request, Records(s, r), ~raced[r.task], r.kind = "verify"
  PROVE  RowsSound(r.task)' /\ StatusSound(r.task)'
<1> DEFINE t == r.task
           new == [at |-> r.at, by |-> r.actor, decision |-> r.decision, update |-> r.about]
<1> USE DEF RaceInv
<1>1. /\ t \in Task /\ clock' = clock /\ Kind[t] = "work"
      /\ approvals'[t] = approvals[t]
      /\ verifications'[t] = verifications[t] \cup {new}
      /\ progress'[t] = Reviewed(progress[t])
      /\ status'[t] = r.target
  BY RecordChanges DEF Fits
<1>2. /\ r.at < clock /\ r.at \in Nat /\ clock \in Nat
      /\ \A v \in verifications[t] : v.at < r.at
      /\ \A d \in approvals[t] : d.at < r.at /\ d.verification < r.at
      /\ r.target = r.decision /\ r.about = Len(progress[t]) /\ status[t] = "submitted"
      /\ r.decision \in {"verified", "rejected"}
  BY RequestFields, RecordChanges DEF Records, ReadSound, Shape, TypeOK
<1>3. Unreviewed(t)' = {} /\ Len(progress'[t]) = Len(progress[t])
  BY <1>1, NoneUnreviewed
<1>4. Len(progress[t]) \in Nat /\ DOMAIN progress[t] = 1 .. Len(progress[t])
  BY <1>1, LenProperties DEF TypeOK
<1>5. RowsSound(t) /\ StatusSound(t)
  BY <1>1 DEF DecisionInv
<1>6. \A v \in verifications[t] : v.at \in Nat /\ v.update \in Nat
  BY <1>1 DEF TypeOK, Verification
<1>7. \A v \in verifications[t] : v.update < r.about
  <2>1. PICK i \in Unreviewed(t) : TRUE
    BY <1>1, <1>2 DEF SubmissionFrozen, FreshEnough
  <2>2. i \in Nat /\ i <= Len(progress[t])
    BY <1>4, <2>1 DEF Unreviewed
  <2> QED
    BY <1>2, <1>4, <1>5, <1>6, <2>1, <2>2 DEF RowsSound
<1>8. new.at = r.at /\ new.update = r.about /\ new.decision = r.decision
  OBVIOUS
<1> HIDE DEF new
<1>9. Latest(verifications'[t]) = {new}
  <2>1. \A v \in verifications[t] : v.at \in Nat /\ v.at < new.at
    BY <1>2, <1>6, <1>8
  <2>2. Latest(verifications[t] \cup {new}) = {new}
    BY <1>2, <1>8, <2>1, NewestIsLatest
  <2> QED
    BY <1>1, <2>2
<1>10. RowsSound(t)'
  <2>1. \A v \in verifications'[t] : v.at < clock' /\ v.update <= Len(progress'[t])
    BY <1>1, <1>2, <1>3, <1>4, <1>5, <1>8 DEF RowsSound
  <2>2. \A v, w \in verifications'[t] : v.update = w.update => v = w
    BY <1>1, <1>5, <1>6, <1>7, <1>2, <1>4, <1>8 DEF RowsSound
  <2> HIDE DEF t
  <2> QED
    BY <1>1, <1>3, <1>5, <2>1, <2>2 DEF RowsSound
<1>11. StatusSound(t)'
  <2>1. LatestIsVerified(t)' <=> r.decision = "verified"
    BY <1>8, <1>9 DEF LatestIsVerified
  <2>2. \A d \in approvals'[t], v \in Latest(verifications'[t]) : d.verification < v.at
    BY <1>1, <1>2, <1>8, <1>9
  <2> HIDE DEF t
  <2> QED
    BY <1>1, <1>2, <2>1, <2>2 DEF StatusSound
<1> QED
  BY <1>10, <1>11

\* An approval: of the verification that stands, or of a gate's submission.
LEMMA ApprovalRecorded ==
  ASSUME RaceInv, DecisionInv,
         NEW s \in Session, NEW r \in Request, Records(s, r), ~raced[r.task], r.kind = "approve"
  PROVE  /\ RowsSound(r.task)' /\ StatusSound(r.task)'
         /\ r.target = "approval_pending"
         /\ \A d \in Latest(approvals'[r.task]) : d.decision = r.decision
<1> DEFINE t == r.task
           new == [at |-> r.at, by |-> r.actor, decision |-> r.decision,
                   verification |-> r.about]
<1> USE DEF RaceInv
<1>1. /\ t \in Task /\ clock' = clock
      /\ verifications' = verifications
      /\ approvals'[t] = approvals[t] \cup {new}
      /\ progress'[t] = Reviewed(progress[t])
      /\ status'[t] = r.target
  BY RecordChanges
<1>2. /\ r.at < clock /\ r.at \in Nat /\ clock \in Nat
      /\ \A d \in approvals[t] : d.at < r.at /\ d.verification < r.at
      /\ r.target = "approval_pending"
      /\ \/ Kind[t] = "approval_gate" /\ status[t] = "submitted"
         \/ /\ Kind[t] = "work" /\ Class[t] = "class_a" /\ status[t] = "verified"
            /\ \E v \in Latest(verifications[t]) : v.at = r.about /\ v.by # r.actor
  BY RequestFields, RecordChanges DEF Records, ReadSound, Shape, TypeOK
<1>3. Unreviewed(t)' = {} /\ Len(progress'[t]) = Len(progress[t])
  BY <1>1, NoneUnreviewed
<1>4. Len(progress[t]) \in Nat
  BY <1>1, LenProperties DEF TypeOK
<1>5. RowsSound(t) /\ StatusSound(t)
  BY <1>1 DEF DecisionInv
<1>6. \A d \in approvals[t] : d.at \in Nat /\ d.verification \in Nat
  BY <1>1 DEF TypeOK, Approval
<1>7. /\ new.at = r.at /\ new.verification = r.about /\ new.decision = r.decision
      /\ new.by = r.actor
  OBVIOUS
<1> HIDE DEF new
<1>8. Latest(approvals'[t]) = {new}
  <2>1. \A d \in approvals[t] : d.at \in Nat /\ d.at < new.at
    BY <1>2, <1>6, <1>7
  <2>2. Latest(approvals[t] \cup {new}) = {new}
    BY <1>2, <1>7, <2>1, NewestIsLatest
  <2> QED
    BY <1>1, <2>2
<1>9. CASE Kind[t] = "work" /\ status[t] = "verified"
  <2>1. PICK v \in Latest(verifications[t]) : v.at = r.about /\ v.by # r.actor
    BY <1>2, <1>9
  <2>2. \A d \in approvals[t] : d.verification < v.at
    BY <1>5, <1>9, <2>1 DEF StatusSound
  <2>3. v.at \in Nat /\ v.at < clock
    BY <1>1, <1>5, <2>1 DEF TypeOK, Verification, Latest, RowsSound
  <2>4. \A d \in approvals[t] : d.verification # r.about
    BY <1>6, <2>1, <2>2, <2>3
  <2>5. ApprovedOnce(t, v, new)'
    BY <1>1, <1>7, <2>1, <2>4 DEF ApprovedOnce
  <2>6. LatestIsVerified(t)'
    BY <1>1, <1>5, <1>9 DEF StatusSound, LatestIsVerified, Latest
  <2>7. \A d, e \in approvals'[t] : d.verification = e.verification => d = e
    BY <1>1, <1>5, <1>7, <1>9, <2>4 DEF RowsSound
  <2>8. \A d \in approvals'[t] : d.at < clock' /\ d.verification < clock'
    BY <1>1, <1>2, <1>5, <1>7, <2>1, <2>3 DEF RowsSound
  <2>9. v \in Latest(verifications[t])' /\ new \in Latest(approvals[t])'
    BY <1>1, <1>8, <2>1 DEF Latest
  <2> HIDE DEF t
  <2>10. RowsSound(t)'
    BY <1>1, <1>3, <1>5, <1>9, <2>7, <2>8 DEF RowsSound
  <2>11. StatusSound(t)'
    BY <1>1, <1>2, <1>9, <2>5, <2>6, <2>9 DEF StatusSound
  <2> QED
    BY <1>2, <1>7, <1>8, <2>10, <2>11 DEF t
<1>10. CASE Kind[t] = "approval_gate" /\ status[t] = "submitted"
  <2>1. Unreviewed(t) # {}
    BY <1>1, <1>10 DEF SubmissionFrozen, FreshEnough
  <2>2. IsFiniteSet(approvals[t]) /\ Cardinality(approvals[t]) < Len(progress[t])
    BY <1>5, <1>10, <2>1 DEF RowsSound
  <2>3. /\ IsFiniteSet(approvals'[t])
        /\ Cardinality(approvals'[t]) <= Cardinality(approvals[t]) + 1
        /\ Cardinality(approvals[t]) \in Nat
    <3>1. /\ IsFiniteSet(approvals[t] \cup {new})
          /\ Cardinality(approvals[t] \cup {new}) =
               IF new \in approvals[t] THEN Cardinality(approvals[t])
                                      ELSE Cardinality(approvals[t]) + 1
      BY <2>2, FS_AddElement
    <3>2. Cardinality(approvals[t]) \in Nat
      BY <2>2, FS_CardinalityType
    <3> QED
      BY <1>1, <3>1, <3>2
  <2>4. Cardinality(approvals'[t]) \in Nat
    BY <2>3, FS_CardinalityType
  <2>5. Cardinality(approvals'[t]) <= Len(progress'[t])
    BY <1>3, <1>4, <2>2, <2>3, <2>4
  <2>6. r.about < clock
    BY <1>10, RecordChanges DEF Records, ReadSound, Shape
  <2>7. \A d \in approvals'[t] : d.at < clock' /\ d.verification < clock'
    BY <1>1, <1>2, <1>5, <1>7, <2>6 DEF RowsSound
  <2>9. new \in Latest(approvals[t])'
    BY <1>8 DEF Latest
  <2> HIDE DEF t
  <2>10. RowsSound(t)'
    BY <1>1, <1>3, <1>5, <1>10, <2>3, <2>5, <2>7 DEF RowsSound
  <2>11. StatusSound(t)'
    BY <1>1, <1>2, <1>10, <2>9 DEF StatusSound
  <2> QED
    BY <1>2, <1>7, <1>8, <2>10, <2>11 DEF t
<1> QED
  BY <1>2, <1>9, <1>10

-----------------------------------------------------------------------------
(* The requests of the other threads.                                      *)

LEMMA RacedStays ==
  ASSUME RaceInv, NoteRaces
  PROVE  \A t \in Task : /\ ~raced'[t] => ~raced[t]
                         /\ \A s \in Session : WritesOver(s, t) => raced'[t]
BY DEF NoteRaces, RaceInv

\* What a decision has read stands as long as nobody overtakes it.
LEMMA ReadKept ==
  ASSUME RaceInv, NoteRaces, NEW o \in Session, ReadSound(o), req'[o] = req[o],
         clock' \in {clock, clock + 1},
         \A t \in Task : \/ progress'[t] = progress[t] \/ status'[t] # status[t]
                         \/ status[t] = "in_progress" \/ raced'[t]
  PROVE  ReadSound(o)'
<1> SUFFICES ASSUME req[o].pc = "read", req[o].kind # "status", Clean(o)',
                    ~raced'[req[o].task]
             PROVE  ReadSound(o)'
  BY DEF ReadSound
<1> DEFINE t == req[o].task
<1>1. /\ req[o] \in Request /\ t \in Task /\ req[o].kind \in {"verify", "approve"}
      /\ req[o].at \in Nat /\ req[o].about \in Nat /\ clock \in Nat
  BY RequestFields DEF RaceInv, TypeOK, Idle
<1>2. t \in Watched(o) /\ t \in Watched(o)' /\ <<o, t>> \notin overtaken'
  BY <1>1 DEF Watched, Clean
<1>3. /\ <<o, t>> \notin overtaken /\ status'[t] = status[t]
      /\ verifications'[t] = verifications[t] /\ approvals'[t] = approvals[t]
  BY <1>1, <1>2, WatchedStands
<1>4. Clean(o) /\ ~raced[t]
  BY <1>1, <1>3, OvertakenOnTask, RacedStays
<1>5. req[o].seen = status[t]
  BY <1>4 DEF RaceInv, SeenUnlessOvertaken
<1>6. progress'[t] = progress[t]
  BY <1>1, <1>3, <1>4, <1>5 DEF ReadSound
<1>7. req[o].at < clock' /\ (req[o].kind = "approve" => req[o].about < clock')
  BY <1>1, <1>4 DEF ReadSound
<1>8. Latest(verifications'[t]) = Latest(verifications[t])
  BY <1>3
<1> QED
  BY <1>3, <1>4, <1>6, <1>7, <1>8 DEF ReadSound

\* A decision under way is disturbed by a cancellation at most.
LEMMA RestKept ==
  ASSUME RaceInv, NoteRaces, NEW o \in Session, RestSound(o), req'[o] = req[o],
         Deciding(o)' =>
           /\ approvals'[req[o].task] = approvals[req[o].task]
           /\ status'[req[o].task] \in {status[req[o].task], "cancelled"}
  PROVE  RestSound(o)' /\ (Deciding(o)' => Deciding(o))
<1>1. Deciding(o)' => Deciding(o)
  <2>1. req[o].pc \in {"open", "held"} => req[o].task \in Task
    BY RequestFields DEF RaceInv, TypeOK, Idle
  <2> QED
    BY <2>1, RacedStays DEF Deciding
<1>2. Deciding(o)' => Latest(approvals'[req[o].task]) = Latest(approvals[req[o].task])
  OBVIOUS
<1> QED
  BY <1>1, <1>2 DEF RestSound

\* The kinds of task a deciding request can be about.
LEMMA DecidingFacts ==
  ASSUME RaceInv, NEW o \in Session, RestSound(o), Deciding(o)
  PROVE  /\ req[o].task \in Task /\ ~raced[req[o].task]
         /\ status[req[o].task] \in {"approval_pending", "cancelled"}
         /\ Kind[req[o].task] # "milestone"
         /\ Kind[req[o].task] = "work" => Class[req[o].task] = "class_a"
<1>1. req[o] # Idle /\ req[o] \in Request
  BY RequestFields DEF Deciding, Idle, RaceInv, TypeOK
<1>2. Fits(req[o]) /\ Shape(req[o])
  BY <1>1 DEF RaceInv, RequestsFit
<1> QED
  BY <1>1, <1>2, RequestFields DEF RestSound, Deciding, Fits, Shape

\* Rows that a step leaves alone stay as sound as they were.
LEMMA RowsKept ==
  ASSUME RaceInv, NoteRaces, DecisionInv, NEW t \in Task,
         progress'[t] = progress[t], verifications'[t] = verifications[t],
         approvals'[t] = approvals[t], clock' \in {clock, clock + 1},
         status'[t] = status[t]
           \/ status'[t] \notin {"verified", "approval_pending", "completed"}
  PROVE  ~raced'[t] => RowsSound(t)' /\ StatusSound(t)'
<1>1. ~raced'[t] => RowsSound(t) /\ StatusSound(t)
  BY RacedStays DEF DecisionInv
<1>2. TypeOK
  BY DEF RaceInv
<1> QED
  BY <1>1, <1>2, RowsUntouched, StatusUntouched

-----------------------------------------------------------------------------
(* Every step keeps the invariant.                                         *)

LEMMA RecordsKeeps ==
  ASSUME RaceInv, NoteRaces, DecisionInv, NEW s \in Session, NEW r \in Request, Records(s, r)
  PROVE  DecisionInv'
<1>t. TypeOK
  BY DEF RaceInv
<1>1. /\ r.task \in Task /\ clock' = clock /\ Clean(s) /\ Fits(r) /\ Shape(r) /\ ReadSound(s)
      /\ \A t \in Task : status'[t] = IF t = r.task THEN r.target ELSE status[t]
      /\ \A o \in Session \ {s} : req'[o] = req[o]
      /\ \A t \in Task \ {r.task} :
           /\ progress'[t] = progress[t] /\ verifications'[t] = verifications[t]
           /\ approvals'[t] = approvals[t]
  BY RecordChanges
<1>2. /\ r.kind \in {"verify", "approve"} /\ r = req[s] /\ r.pc = "read"
      /\ r.target \in Allowed(status[r.task]) /\ r.seen = status[r.task]
      /\ status[r.task] \in Status
  BY <1>t, <1>1, RequestFields DEF Records, Calls, Call, Permitted, TypeOK
<1>3. status'[r.task] # status[r.task]
  BY <1>1, <1>2, TableSteps
<1>4. ~raced'[r.task] => ~raced[r.task] /\ status[r.task] \in {"submitted", "verified"}
  BY <1>1, <1>2, RacedStays DEF ReadSound
<1>5. ASSUME NEW t \in Task, ~raced'[t] PROVE RowsSound(t)' /\ StatusSound(t)'
  <2>1. CASE t = r.task
    BY <1>2, <1>4, <1>5, <2>1, VerificationRecorded, ApprovalRecorded
  <2>2. CASE t # r.task
    BY <1>1, <1>5, <2>2, RowsKept
  <2> QED
    BY <2>1, <2>2
<1>6. ASSUME NEW o \in Session, o # s
      PROVE  /\ ReadSound(o)' /\ RestSound(o)'
             /\ Deciding(o)' => Deciding(o) /\ req[o].task # r.task
             /\ req'[o] = req[o]
  <2>1. ReadSound(o) /\ RestSound(o) /\ req'[o] = req[o]
    BY <1>1, <1>6 DEF DecisionInv
  <2>2. ReadSound(o)'
    BY <1>1, <1>3, <2>1, ReadKept
  <2>3. Deciding(o)' => Deciding(o) /\ req[o].task \in Task /\ req[o].task # r.task
    <3> SUFFICES ASSUME Deciding(o)'
                 PROVE  Deciding(o) /\ req[o].task \in Task /\ req[o].task # r.task
      OBVIOUS
    <3>1. req[o].pc \in {"open", "held"} /\ ~raced'[req[o].task]
      BY <2>1 DEF Deciding
    <3>2. req[o].task \in Task
      BY <3>1, RequestFields DEF RaceInv, TypeOK, Idle
    <3>3. Deciding(o)
      BY <2>1, <3>1, <3>2, RacedStays DEF Deciding
    <3> QED
      BY <1>4, <2>1, <3>1, <3>2, <3>3, DecidingFacts
  <2>4. RestSound(o)'
    BY <1>1, <2>1, <2>3, RestKept
  <2> QED
    BY <2>1, <2>2, <2>3, <2>4
<1>7. /\ req'[s].pc \in {"idle", "open"}
      /\ req'[s].pc = "open" =>
           /\ req'[s].kind = r.kind /\ req'[s].task = r.task
           /\ req'[s].decision = r.decision /\ req'[s].target = FollowUp(r)
  BY <1>t, <1>1, <1>2, CommitGoesOn DEF Records
<1>8. ReadSound(s)' /\ RestSound(s)' /\ (Deciding(s)' => req'[s].task = r.task)
  <2>1. ReadSound(s)'
    BY <1>7 DEF ReadSound
  <2>2. ASSUME Deciding(s)'
        PROVE  /\ req'[s].task = r.task
               /\ status'[r.task] = "approval_pending"
               /\ req'[s].target = "completed" =>
                    \A d \in Latest(approvals'[r.task]) : d.decision = "approved"
    <3>1. r.kind = "approve" /\ req'[s].task = r.task /\ ~raced'[r.task]
      BY <1>7, <2>2 DEF Deciding
    <3>2. /\ r.target = "approval_pending"
          /\ \A d \in Latest(approvals'[r.task]) : d.decision = r.decision
          /\ r.decision \in {"approved", "rejected"}
      BY <1>4, <3>1, ApprovalRecorded, RequestFields
    <3>3. FollowUp(r) = "completed" => r.decision = "approved"
      BY <3>2 DEF FollowUp
    <3> QED
      BY <1>1, <1>7, <2>2, <3>1, <3>2, <3>3 DEF Deciding
  <2> QED
    BY <2>1, <2>2 DEF RestSound
<1>9. DecidesAlone'
  BY <1>6, <1>8 DEF DecisionInv, DecidesAlone
<1> QED
  BY <1>5, <1>6, <1>8, <1>9 DEF DecisionInv

LEMMA FollowsKeeps ==
  ASSUME RaceInv, NoteRaces, DecisionInv, NEW s \in Session, NEW r \in Request,
         Follows(s, r), CommitTransition(s, r)
  PROVE  DecisionInv'
<1>t. TypeOK
  BY DEF RaceInv
<1>0. Fits(r) /\ Shape(r) /\ r.pc \in {"read", "open"} /\ Permitted(r, status[r.task])
  BY DEF Follows, Calls, Call
<1>1. /\ r.task \in Task /\ UNCHANGED <<reviewVars, clock>>
      /\ r.target \in Allowed(status[r.task])
      /\ \A t \in Task : status'[t] = IF t = r.task THEN r.target ELSE status[t]
      /\ \A o \in Session \ {s} : req'[o] = req[o]
  BY <1>t, <1>0, CommitGoesOn DEF Follows, Permitted
<1>2. r.kind # "status" => r = req[s] /\ r.pc = "open"
  BY DEF Follows
<1>3. r.target \notin {"verified", "approval_pending", "completed"}
  <2>1. CASE r.kind = "status"
    BY <1>0, <2>1 DEF Permitted, CommitTransition, DecisionServiceOnly
  <2>2. CASE r.kind # "status"
    BY <1>0, <1>2, <2>2, RequestFields DEF Shape, CommitTransition
  <2> QED
    BY <2>1, <2>2
<1>4. ASSUME NEW t \in Task, ~raced'[t] PROVE RowsSound(t)' /\ StatusSound(t)'
  BY <1>1, <1>3, <1>4, RowsKept DEF reviewVars
<1>5. ASSUME NEW o \in Session, o # s
      PROVE  ReadSound(o)' /\ RestSound(o)' /\ (Deciding(o)' => Deciding(o)) /\ req'[o] = req[o]
  <2>1. ReadSound(o) /\ RestSound(o) /\ req'[o] = req[o]
    BY <1>1, <1>5 DEF DecisionInv
  <2>2. ReadSound(o)'
    BY <1>1, <2>1, ReadKept DEF reviewVars
  <2>3. ASSUME Deciding(o)' PROVE status'[req[o].task] \in {status[req[o].task], "cancelled"}
    <3>0. Deciding(o)
      <4>1. req[o].pc \in {"open", "held"} /\ ~raced'[req[o].task]
        BY <2>1, <2>3 DEF Deciding
      <4>2. req[o].task \in Task
        BY <4>1, RequestFields DEF RaceInv, TypeOK, Idle
      <4> QED
        BY <2>1, <2>3, <4>1, <4>2, RacedStays DEF Deciding
    <3>1. /\ req[o].task \in Task /\ ~raced[req[o].task]
          /\ status[req[o].task] \in {"approval_pending", "cancelled"}
      BY <2>1, <3>0, DecidingFacts
    <3>2. CASE req[o].task # r.task
      BY <1>1, <3>1, <3>2
    <3>3. CASE req[o].task = r.task
      <4>1. r.target \in {"rejected", "cancelled"}
        BY <1>1, <1>3, <3>1, <3>3 DEF Allowed
      <4>2. r.target # "rejected"
        <5>1. r.kind = "status" => r.target # "rejected"
          BY <1>0 DEF Permitted, DecisionServiceOnly
        <5>2. r.kind = "verify" => r.target # "rejected"
          BY <1>0, <1>2 DEF Shape
        <5>3. r.kind = "approve" => ~Deciding(s)
          BY <1>2, <1>5, <3>0, <3>3 DEF DecisionInv, DecidesAlone
        <5>4. r.kind = "approve" => r.target # "rejected"
          BY <1>2, <3>1, <3>3, <5>3 DEF Deciding
        <5> QED
          BY <5>1, <5>2, <5>4, RequestFields
      <4> QED
        BY <1>1, <3>1, <3>3, <4>1, <4>2
    <3> QED
      BY <3>2, <3>3
  <2>4. RestSound(o)' /\ (Deciding(o)' => Deciding(o))
    BY <1>1, <2>1, <2>3, RestKept DEF reviewVars
  <2> QED
    BY <2>1, <2>2, <2>4
<1>6. /\ req'[s].pc \in {"idle", "open"}
      /\ req'[s].pc = "open" => req'[s].target = "in_progress"
  <2>1. /\ req'[s].pc \in {"idle", "open"}
        /\ req'[s].pc = "open" => HasFollowUp(r) /\ req'[s].target = FollowUp(r)
    BY <1>t, <1>0, CommitGoesOn
  <2>2. HasFollowUp(r) => r.target = "rejected"
    BY <1>0, <1>2, <1>3 DEF HasFollowUp, Shape
  <2> QED
    BY <2>1, <2>2 DEF FollowUp
<1>7. ReadSound(s)' /\ RestSound(s)' /\ ~Deciding(s)'
  BY <1>6 DEF ReadSound, RestSound, Deciding
<1>8. DecidesAlone'
  BY <1>5, <1>7 DEF DecisionInv, DecidesAlone
<1> QED
  BY <1>4, <1>5, <1>7, <1>8 DEF DecisionInv

\* The steps of one thread that leave statuses and decisions alone.
LEMMA QuietKeeps ==
  ASSUME RaceInv, NoteRaces, DecisionInv, NEW s \in Session,
         UNCHANGED <<status, reviewVars>>, clock' \in {clock, clock + 1},
         \A o \in Session \ {s} : req'[o] = req[o],
         ReadSound(s)', RestSound(s)',
         Deciding(s)' => Deciding(s) /\ req'[s].task = req[s].task
  PROVE  DecisionInv'
<1>1. ASSUME NEW t \in Task, ~raced'[t] PROVE RowsSound(t)' /\ StatusSound(t)'
  BY <1>1, RowsKept DEF reviewVars
<1>2. ASSUME NEW o \in Session, o # s
      PROVE  /\ ReadSound(o)' /\ RestSound(o)'
             /\ (Deciding(o)' => Deciding(o)) /\ req'[o] = req[o]
  <2>1. ReadSound(o) /\ RestSound(o) /\ req'[o] = req[o]
    BY <1>2 DEF DecisionInv
  <2> QED
    BY <2>1, ReadKept, RestKept DEF reviewVars
<1>3. DecidesAlone'
  BY <1>2 DEF DecisionInv, DecidesAlone
<1> QED
  BY <1>1, <1>2, <1>3 DEF DecisionInv

LEMMA HoldsKeeps ==
  ASSUME RaceInv, NoteRaces, DecisionInv, NEW s \in Session, NEW r \in Request,
         Follows(s, r), HoldCompletion(s, r)
  PROVE  DecisionInv'
<1>0. TypeOK /\ Fits(r) /\ Shape(r) /\ r.pc \in {"read", "open"}
  BY DEF RaceInv, Follows, Calls, Call
<1>1. r.kind = "status" => Kind[r.task] = "milestone"
  BY DEF Follows, Calls, Call, Permitted, HoldCompletion
<1>2. /\ req'[s].pc = "held" /\ req'[s].kind = r.kind /\ req'[s].task = r.task
      /\ req'[s].target = "completed" /\ r.target = "completed"
      /\ \A o \in Session \ {s} : req'[o] = req[o]
      /\ UNCHANGED <<status, reviewVars, clock>> /\ r.task \in Task
  BY <1>0, <1>1, HoldGoesOn
<1>3. r.kind = "approve" => r = req[s] /\ r.pc = "open"
  BY DEF Follows
<1>4. Deciding(s)' => Deciding(s) /\ req'[s].task = req[s].task
  BY <1>2, <1>3, RacedStays DEF Deciding
<1>5. Latest(approvals'[r.task]) = Latest(approvals[r.task])
  BY <1>2 DEF reviewVars
<1>6. RestSound(s)'
  BY <1>2, <1>3, <1>4, <1>5 DEF DecisionInv, RestSound, Deciding
<1>7. ReadSound(s)'
  BY <1>2 DEF ReadSound
<1> QED
  BY <1>2, <1>4, <1>6, <1>7, QuietKeeps

\* A request that was overtaken spoils its own task only.
LEMMA StraysKeeps ==
  ASSUME RaceInv, NoteRaces, DecisionInv, NEW s \in Session, NEW r \in Request, Strays(s, r)
  PROVE  DecisionInv'
<1>0. /\ TypeOK /\ Fits(r) /\ Shape(r) /\ r = req[s] /\ r.pc = "read" /\ clock' = clock
      /\ WritesOver(s, r.task)
  BY DEF RaceInv, Strays
<1>1. r.task \in Task /\ raced'[r.task]
  BY <1>0, RequestFields, RacedStays
<1>2. CASE HoldCompletion(s, r) /\ r.kind = "status" /\ Kind[r.task] = "milestone"
  <2>1. /\ req'[s].pc = "held" /\ req'[s].kind = r.kind
        /\ \A o \in Session \ {s} : req'[o] = req[o]
        /\ UNCHANGED <<status, reviewVars, clock>>
    BY <1>0, <1>2, HoldGoesOn
  <2>2. ReadSound(s)' /\ RestSound(s)' /\ ~Deciding(s)'
    BY <1>2, <2>1 DEF ReadSound, RestSound, Deciding
  <2> QED
    BY <2>1, <2>2, QuietKeeps
<1>3. CASE CommitTransition(s, r) /\ RecordDecision(r)
  <2>1. /\ req'[s].pc \in {"idle", "open"}
        /\ req'[s].pc = "open" => req'[s].task = r.task
        /\ \A o \in Session \ {s} : req'[o] = req[o]
        /\ \A t \in Task : status'[t] = IF t = r.task THEN r.target ELSE status[t]
    BY <1>0, <1>3, CommitGoesOn
  <2>2. \A t \in Task \ {r.task} :
          /\ progress'[t] = progress[t] /\ verifications'[t] = verifications[t]
          /\ approvals'[t] = approvals[t]
    BY <1>0, <1>1, <1>3 DEF RecordDecision, reviewVars, TypeOK
  <2>3. ASSUME NEW t \in Task, ~raced'[t] PROVE RowsSound(t)' /\ StatusSound(t)'
    BY <1>0, <1>1, <2>1, <2>2, <2>3, RowsKept
  <2>4. ReadSound(s)' /\ RestSound(s)' /\ ~Deciding(s)'
    BY <1>1, <2>1 DEF ReadSound, RestSound, Deciding
  <2>5. ASSUME NEW o \in Session, o # s
        PROVE  /\ ReadSound(o)' /\ RestSound(o)'
               /\ (Deciding(o)' => Deciding(o)) /\ req'[o] = req[o]
    <3>1. ReadSound(o) /\ RestSound(o) /\ req'[o] = req[o]
      BY <2>1, <2>5 DEF DecisionInv
    <3>2. ReadSound(o)'
      BY <1>0, <1>1, <2>2, <3>1, ReadKept
    <3>3. Deciding(o)' => req[o].task \in Task \ {r.task}
      BY <1>1, <3>1, RequestFields DEF Deciding, RaceInv, TypeOK, Idle
    <3> QED
      BY <2>1, <2>2, <3>1, <3>2, <3>3, RestKept
  <2>6. DecidesAlone'
    BY <2>4, <2>5 DEF DecisionInv, DecidesAlone
  <2> QED
    BY <2>3, <2>4, <2>5, <2>6 DEF DecisionInv
<1> QED
  BY <1>2, <1>3 DEF Strays

LEMMA CommitsKeeps ==
  ASSUME RaceInv, NoteRaces, DecisionInv, NEW s \in Session, CommitCompletion(s)
  PROVE  DecisionInv'
<1> DEFINE r == req[s]
<1>t. TypeOK
  BY DEF RaceInv
<1>1. /\ UNCHANGED <<reviewVars, clock>>
      /\ \A t \in Task : status'[t] = IF t \in Covered(s) THEN "completed" ELSE status[t]
      /\ \A o \in Session : req'[o] = IF o = s THEN Idle ELSE req[o]
  BY <1>t DEF CommitCompletion, Covered, TypeOK
<1>2. /\ r.pc = "held" /\ HeldUnlessOvertaken(s) /\ RestSound(s) /\ Shape(r)
      /\ r \in Request /\ r.task \in Task /\ r.kind \in {"status", "verify", "approve"}
      /\ r.target = "completed"
  BY <1>t, RequestFields
     DEF CommitCompletion, RaceInv, DecisionInv, TypeOK, Idle, Shape
<1>3. Fits(r)
  BY <1>2 DEF RaceInv, RequestsFit, Idle
<1>4. ASSUME NEW t \in Task, t \in Covered(s), ~raced'[t]
      PROVE  "completed" \in Allowed(status[t]) /\ (status[t] = "planned" => Kind[t] = "milestone")
  <2>1. <<s, t>> \notin overtaken
    BY <1>4, RacedStays DEF WritesOver
  <2> QED
    BY <1>2, <1>4, <2>1 DEF HeldUnlessOvertaken
<1>5. ASSUME NEW t \in Task, t \in Covered(s), ~raced'[t] PROVE Decided(t)
  <2>1. CASE Kind[t] = "milestone"
    BY <2>1 DEF Decided
  <2>2. CASE Kind[t] # "milestone"
    <3>1. t = r.task
      BY <1>2, <1>5, <2>2 DEF HeldUnlessOvertaken
    <3>2. status[t] \in {"verified", "approval_pending"} /\ StatusSound(t) /\ ~raced[t]
      <4>1. ~raced[t] /\ StatusSound(t)
        BY <1>5, RacedStays DEF DecisionInv
      <4> QED
        BY <1>t, <1>4, <1>5, <2>2, <4>1, TableFacts DEF TypeOK
    <3>3. r.kind # "status"
      BY <1>2, <2>2, <3>1 DEF Shape
    <3>4. Kind[t] = "work" => LatestIsVerified(t)
      BY <3>2 DEF StatusSound
    <3>5. CASE r.kind = "verify"
      <4>1. Kind[t] = "work" /\ Class[t] # "class_a"
        BY <1>2, <1>3, <3>1, <3>5 DEF Shape, Fits
      <4> QED
        BY <3>4, <4>1 DEF Decided
    <3>6. CASE r.kind = "approve"
      <4>1. Deciding(s)
        BY <1>2, <3>1, <3>2, <3>6 DEF Deciding
      <4>2. /\ status[t] = "approval_pending"
            /\ \A d \in Latest(approvals[t]) : d.decision = "approved"
        BY <1>2, <3>1, <3>2, <4>1 DEF RestSound
      <4>3. PICK d \in Latest(approvals[t]) :
              Kind[t] = "work" => \E v \in Latest(verifications[t]) : ApprovedOnce(t, v, d)
        BY <2>2, <3>2, <4>2 DEF StatusSound
      <4>4. d \in approvals[t] /\ d.decision = "approved"
        BY <4>2 DEF Latest
      <4> QED
        BY <3>4, <4>3, <4>4 DEF Decided
    <3> QED
      BY <1>2, <3>3, <3>5, <3>6
  <2> QED
    BY <2>1, <2>2
<1>6. ASSUME NEW t \in Task, ~raced'[t] PROVE RowsSound(t)' /\ StatusSound(t)'
  <2>1. CASE t \notin Covered(s)
    BY <1>1, <1>6, <2>1, RowsKept DEF reviewVars
  <2>2. CASE t \in Covered(s)
    <3>1. Decided(t)' /\ status'[t] = "completed"
      BY <1>1, <1>5, <1>6, <2>2
         DEF Decided, LatestIsVerified, ApprovedOnce, Latest, reviewVars
    <3>2. StatusSound(t)'
      BY <3>1 DEF StatusSound
    <3>3. RowsSound(t)
      BY <1>6, RacedStays DEF DecisionInv
    <3> QED
      BY <1>t, <1>1, <3>2, <3>3, RowsUntouched DEF reviewVars
  <2> QED
    BY <2>1, <2>2
<1>7. ASSUME NEW o \in Session, o # s
      PROVE  /\ ReadSound(o)' /\ RestSound(o)'
             /\ (Deciding(o)' => Deciding(o)) /\ req'[o] = req[o]
  <2>1. ReadSound(o) /\ RestSound(o) /\ req'[o] = req[o]
    BY <1>1, <1>7 DEF DecisionInv
  <2>2. ReadSound(o)'
    BY <1>1, <2>1, ReadKept DEF reviewVars
  <2>3. ASSUME Deciding(o)' PROVE status'[req[o].task] = status[req[o].task]
    <3>0. Deciding(o)
      <4>1. req[o].pc \in {"open", "held"} /\ ~raced'[req[o].task]
        BY <2>1, <2>3 DEF Deciding
      <4>2. req[o].task \in Task
        BY <4>1, RequestFields DEF RaceInv, TypeOK, Idle
      <4> QED
        BY <2>1, <2>3, <4>1, <4>2, RacedStays DEF Deciding
    <3>1. /\ req[o].task \in Task /\ ~raced[req[o].task]
          /\ Kind[req[o].task] # "milestone"
          /\ Kind[req[o].task] = "work" => Class[req[o].task] = "class_a"
      BY <2>1, <3>0, DecidingFacts
    <3>2. ASSUME req[o].task = r.task PROVE FALSE
      <4>1. r.kind # "status"
        BY <1>2, <3>1, <3>2 DEF Shape
      <4>2. r.kind # "verify"
        BY <1>2, <1>3, <3>1, <3>2 DEF Shape, Fits
      <4>3. r.kind # "approve"
        BY <1>2, <1>7, <3>0, <3>1, <3>2 DEF Deciding, DecisionInv, DecidesAlone
      <4> QED
        BY <1>2, <4>1, <4>2, <4>3
    <3>3. req[o].task \notin Covered(s)
      BY <1>2, <3>1, <3>2 DEF HeldUnlessOvertaken
    <3> QED
      BY <1>1, <3>1, <3>3
  <2> QED
    BY <1>1, <2>1, <2>2, <2>3, RestKept DEF reviewVars
<1>8. ReadSound(s)' /\ RestSound(s)' /\ ~Deciding(s)'
  BY <1>1 DEF Idle, ReadSound, RestSound, Deciding
<1>9. DecidesAlone'
  BY <1>7, <1>8 DEF DecisionInv, DecidesAlone
<1> QED
  BY <1>6, <1>7, <1>8, <1>9 DEF DecisionInv

\* A request that begins is newer than every row there is.
LEMMA AsksKeeps ==
  ASSUME RaceInv, NoteRaces, DecisionInv, NEW s \in Session, NEW r \in Request, Asks(s, r)
  PROVE  DecisionInv'
<1>t. TypeOK
  BY DEF RaceInv
<1>1. /\ UNCHANGED <<status, reviewVars>> /\ clock' \in {clock, clock + 1}
      /\ \A o \in Session : req'[o] = IF o = s THEN r ELSE req[o]
  BY <1>t DEF Asks, TypeOK
<1>2. RestSound(s)' /\ ~Deciding(s)'
  BY <1>1 DEF Asks, RestSound, Deciding
<1>3. ASSUME r.kind # "status", ~raced'[r.task] PROVE ReadSound(s)'
  <2>1. /\ req'[s] = r /\ r.task \in Task /\ r.at = clock /\ clock' = clock + 1
        /\ clock \in Nat /\ r.about \in Nat
    BY <1>t, <1>1, <1>3, RequestFields DEF Asks, TypeOK
  <2>2. RowsSound(r.task)
    BY <1>3, <2>1, RacedStays DEF DecisionInv
  <2>3. /\ \A v \in verifications[r.task] : v.at < r.at
        /\ \A d \in approvals[r.task] : d.at < r.at /\ d.verification < r.at
    BY <2>1, <2>2 DEF RowsSound
  <2>4. r.kind = "approve" => r.about < clock'
    <3>1. \A v \in Latest(verifications[r.task]) : v.at \in Nat /\ v.at < clock
      BY <1>t, <2>1, <2>2 DEF RowsSound, Latest, TypeOK, Verification
    <3> QED
      BY <2>1, <3>1 DEF Asks
  <2>5. /\ progress' = progress /\ verifications' = verifications /\ approvals' = approvals
    BY <1>1 DEF reviewVars
  <2> QED
    BY <2>1, <2>3, <2>4, <2>5 DEF Asks, ReadSound
<1>4. ReadSound(s)'
  BY <1>1, <1>3 DEF ReadSound
<1> QED
  BY <1>1, <1>2, <1>4, QuietKeeps

\* An update is only accepted while nobody decides on the task.
LEMMA ReportsKeeps ==
  ASSUME RaceInv, NoteRaces, DecisionInv, NEW t \in Task, NEW u \in Update, Reports(t, u)
  PROVE  DecisionInv'
<1>t. TypeOK
  BY DEF RaceInv
<1>1. /\ UNCHANGED <<status, verifications, approvals, req, clock>>
      /\ status[t] = "in_progress"
      /\ progress'[t] = Append(progress[t], u)
      /\ \A x \in Task \ {t} : progress'[x] = progress[x]
  BY <1>t DEF Reports, TypeOK
<1>2. ASSUME NEW x \in Task, ~raced'[x] PROVE RowsSound(x)' /\ StatusSound(x)'
  <2>1. CASE x # t
    BY <1>1, <1>2, <2>1, RowsKept
  <2>2. CASE x = t
    <3>1. RowsSound(x) /\ StatusSound(x)
      BY <1>2, RacedStays DEF DecisionInv
    <3> QED
      BY <1>t, <1>1, <2>2, <3>1, RowsReported, StatusUntouched
  <2> QED
    BY <2>1, <2>2
<1>3. ASSUME NEW o \in Session
      PROVE  /\ ReadSound(o)' /\ RestSound(o)'
             /\ (Deciding(o)' => Deciding(o)) /\ req'[o] = req[o]
  <2>1. ReadSound(o) /\ RestSound(o) /\ req'[o] = req[o]
    BY <1>1 DEF DecisionInv
  <2> QED
    BY <1>1, <2>1, ReadKept, RestKept
<1>4. DecidesAlone'
  BY <1>3 DEF DecisionInv, DecidesAlone
<1> QED
  BY <1>2, <1>3, <1>4 DEF DecisionInv

LEMMA DecisionInit == RaceInit => DecisionInv
<1> SUFFICES ASSUME RaceInit PROVE DecisionInv
  OBVIOUS
<1>1. \A s \in Session : req[s] = Idle /\ req[s].pc = "idle"
  BY DEF RaceInit, Init, Idle
<1>2. \A t \in Task : /\ status[t] = "planned" /\ verifications[t] = {} /\ approvals[t] = {}
                      /\ progress[t] = <<>>
  BY DEF RaceInit, Init
<1>3. IsFiniteSet({}) /\ Cardinality({}) = 0 /\ Len(<<>>) = 0
  BY FS_EmptySet
<1>4. \A t \in Task : Unreviewed(t) = {}
  BY <1>2 DEF Unreviewed
<1>5. ASSUME NEW t \in Task PROVE RowsSound(t)
  <2>1. /\ verifications[t] = {} /\ approvals[t] = {} /\ Unreviewed(t) = {}
        /\ Len(progress[t]) = 0
    BY <1>2, <1>3, <1>4
  <2>2. IsFiniteSet(approvals[t]) /\ Cardinality(approvals[t]) <= Len(progress[t])
    BY <1>3, <2>1
  <2> QED
    BY <2>1, <2>2 DEF RowsSound
<1>6. \A t \in Task : StatusSound(t)
  BY <1>2 DEF StatusSound
<1> QED
  BY <1>1, <1>5, <1>6 DEF DecisionInv, ReadSound, RestSound, Deciding, DecidesAlone

LEMMA DecisionStep ==
  ASSUME RaceInv, DecisionInv, [RaceNext]_raceVars
  PROVE  DecisionInv'
<1>t. TypeOK
  BY DEF RaceInv
<1>1. CASE RaceNext
  <2>n. [Next]_vars /\ NoteRaces
    BY <1>1, RaceSteps
  <2>1. ASSUME NEW s \in Session, Ends(s), UNCHANGED <<reviewVars, clock>> PROVE DecisionInv'
    <3>1. /\ \A o \in Session : req'[o] = IF o = s THEN Idle ELSE req[o]
          /\ status' = status
      BY <1>t, <2>1 DEF Ends, TypeOK
    <3>2. ReadSound(s)' /\ RestSound(s)' /\ ~Deciding(s)'
      BY <3>1 DEF Idle, ReadSound, RestSound, Deciding
    <3> QED
      BY <2>1, <2>n, <3>1, <3>2, QuietKeeps
  <2>2. ASSUME UNCHANGED <<status, reviewVars, req, clock>> PROVE DecisionInv'
    <3>1. \A t \in Task : ~raced'[t] => RowsSound(t)' /\ StatusSound(t)'
      BY <2>2, <2>n, RowsKept DEF reviewVars
    <3>2. \A o \in Session : ReadSound(o)' /\ RestSound(o)' /\ (Deciding(o)' => Deciding(o))
      BY <2>2, <2>n, ReadKept, RestKept DEF DecisionInv, reviewVars
    <3>3. DecidesAlone'
      BY <2>2, <3>2 DEF DecisionInv, DecidesAlone
    <3> QED
      BY <3>1, <3>2, <3>3 DEF DecisionInv
  <2> QED
    BY <2>1, <2>2, <2>n, ReviewCases, RecordsKeeps, FollowsKeeps, HoldsKeeps, StraysKeeps,
       CommitsKeeps, AsksKeeps, ReportsKeeps
<1>2. CASE UNCHANGED raceVars
  <2>1. /\ UNCHANGED <<status, progress, verifications, approvals, req, clock>>
        /\ UNCHANGED <<overtaken, raced>>
    BY <1>2 DEF raceVars, vars, taskVars, reviewVars
  <2>2. \A t \in Task : RowsSound(t) /\ StatusSound(t) => RowsSound(t)' /\ StatusSound(t)'
    BY <1>t, <2>1, RowsUntouched, StatusUntouched
  <2>3. \A s \in Session : /\ ReadSound(s)' = ReadSound(s) /\ RestSound(s)' = RestSound(s)
                           /\ Deciding(s)' = Deciding(s)
    BY <2>1 DEF ReadSound, RestSound, Deciding, Clean, Latest
  <2> QED
    BY <2>1, <2>2, <2>3 DEF DecisionInv, DecidesAlone
<1> QED
  BY <1>1, <1>2

THEOREM DecisionInvariant == RaceSpec => []DecisionInv
<1>1. RaceInit => DecisionInv
  BY DecisionInit
<1>2. RaceInv /\ DecisionInv /\ [RaceNext]_raceVars => DecisionInv'
  BY DecisionStep
<1> QED
  BY <1>1, <1>2, RaceInvariant, PTL DEF RaceSpec

\* Two decisions never rest on the same submission, however many deciders, portal
\* requests and failures run side by side, on a task that nobody wrote over a
\* change that had overtaken them.
THEOREM SubmissionsAreDecidedOnce == RaceSpec => []OneDecisionPerSubmission
<1>1. DecisionInv => OneDecisionPerSubmission
  BY DEF DecisionInv, RowsSound, OneDecisionPerSubmission
<1> QED
  BY <1>1, DecisionInvariant, PTL

\* A completed task that no race has touched was completed by the decision its
\* kind calls for, and no later decision contradicts it.
THEOREM CompletionsAreDecided == RaceSpec => []CompletionIsDecided
<1>1. DecisionInv => CompletionIsDecided
  BY DEF DecisionInv, StatusSound, Decided, ApprovedOnce, CompletionIsDecided
<1> QED
  BY <1>1, DecisionInvariant, PTL

-----------------------------------------------------------------------------
(* What releases a task stays.  This is about requests that do not disturb *)
(* one another: a lost update can reject a predecessor after its successor *)
(* was released on it.                                                     *)

NothingRaced == overtaken = {} /\ \A t \in Task : ~raced[t]

\* With Interference excluded no request is ever overtaken.
LEMMA QuietStep ==
  ASSUME ~Interference, BoardInv, RaceInv, NothingRaced, [RaceNext]_raceVars
  PROVE  NothingRaced'
<1>t. TypeOK
  BY DEF RaceInv
<1>1. CASE UNCHANGED raceVars
  BY <1>1 DEF raceVars, NothingRaced
<1>2. CASE RaceNext
  <2>1. \A t \in Task : ~raced'[t]
    BY <1>2, RaceSteps DEF NoteRaces, NothingRaced, WritesOver
  <2>2. ASSUME NEW o \in Session, NEW t \in Task, t \in Watched(o), t \in Watched(o)',
               Touched(t)
        PROVE  FALSE
    <3>1. ASSUME NEW s \in Session, NEW r \in Request, Calls(s, r), CommitTransition(s, r),
                 RecordDecision(r) \/ UNCHANGED reviewVars
          PROVE  FALSE
      <4>1. t = r.task
        BY <1>t, <2>2, <3>1
           DEF Touched, CommitTransition, RecordDecision, reviewVars, TypeOK
      <4>2. o # s
        <5>1. req'[s].pc \in {"idle", "open"}
          BY <1>t, <3>1, CommitGoesOn DEF Calls, Call
        <5> QED
          BY <2>2, <5>1 DEF Watched
      <4>3. Undisturbed(s, r.task)
        BY <3>1 DEF Calls, Call
      <4> QED
        BY <2>2, <4>1, <4>2, <4>3 DEF Undisturbed, Watched
    <3>2. ASSUME NEW s \in Session, CommitCompletion(s) PROVE FALSE
      <4>1. /\ req'[s] = Idle /\ req[s].pc = "held"
            /\ verifications' = verifications /\ approvals' = approvals
            /\ \A u \in Task \ Covered(s) : status'[u] = status[u]
        BY <1>t, <3>2 DEF CommitCompletion, Covered, reviewVars, TypeOK
      <4>2. o # s
        BY <2>2, <4>1 DEF Watched, Idle
      <4>3. t \in Covered(s)
        BY <2>2, <4>1 DEF Touched
      <4>4. (req[o].pc = "read" /\ t = req[o].task) \/ (req[o].pc = "held" /\ t \in Covered(o))
        BY <2>2 DEF Watched, Covered
      <4> QED
        BY <4>1, <4>2, <4>3, <4>4 DEF BoardInv, HeldAlone
    <3>3. ASSUME NEW s \in Session, NEW r \in Request, Strays(s, r) PROVE FALSE
      BY <3>3 DEF Strays, WritesOver, NothingRaced
    <3>4. ~(status' = status /\ verifications' = verifications /\ approvals' = approvals)
      BY <2>2 DEF Touched
    <3> QED
      BY <1>2, <3>1, <3>2, <3>3, <3>4, RaceSteps, ReviewCases
         DEF Records, Follows, Asks, Ends, Reports, HoldCompletion, taskVars, reviewVars
  <2> QED
    BY <1>2, <2>1, <2>2, RaceSteps DEF NoteRaces, NothingRaced
<1> QED
  BY <1>1, <1>2

LEMMA BoardWithRaces ==
  ASSUME ~Interference PROVE RaceSpec => [](BoardInv /\ NothingRaced)
<1>1. RaceInit => BoardInv /\ NothingRaced
  BY BoardInit DEF RaceInit, NothingRaced
<1>2. [RaceNext]_raceVars => [Next]_vars
  BY RaceSteps DEF raceVars
<1>3. RaceInv /\ BoardInv /\ NothingRaced /\ [RaceNext]_raceVars => (BoardInv /\ NothingRaced)'
  BY <1>2, BoardStep, QuietStep
<1> QED
  BY <1>1, <1>3, RaceInvariant, PTL DEF RaceSpec

\* A satisfied dependency stays satisfied: along the table a status only gets
\* further, and standard work is never taken from `verified` to an approval.
LEMMA SatisfiedStays ==
  ASSUME BoardInv, DecisionInv', NothingRaced', TableStep, NEW d \in Deps, PredecessorSatisfied(d)
  PROVE  PredecessorSatisfied(d)'
<1> DEFINE p == d.pred
<1>1. p \in Task /\ d.type \in {"finish_to_start", "start_to_start"}
  BY DepsAssumption DEF Edge
<1>2. status[p] \in Status /\ (status'[p] = status[p] \/ status'[p] \in Allowed(status[p]))
  BY <1>1 DEF TableStep, BoardInv, TypeOK
<1>3. status[p] \in {"cancelled", "completed"} => status'[p] = status[p]
  BY <1>2 DEF Allowed
<1>4. status[p] \in Started => status'[p] \in Started \cup {"cancelled"}
  BY <1>2 DEF Allowed, Started
<1>5. status[p] = "verified" /\ Kind[p] = "work" /\ Class[p] = "standard" =>
        \/ status'[p] \in {"completed", "cancelled"}
        \/ status'[p] = "verified" /\ LatestIsVerified(p)'
  BY <1>1, <1>2 DEF Allowed, DecisionInv, StatusSound, NothingRaced
<1> QED
  BY <1>1, <1>3, <1>4, <1>5 DEF PredecessorSatisfied

LEMMA ReleasedStep ==
  ASSUME ~Interference, BoardInv, BoardInv', DecisionInv', NothingRaced',
         ReleasedWorkStaysJustified, [Next]_vars
  PROVE  ReleasedWorkStaysJustified'
<1> SUFFICES ASSUME NEW t \in Task, status'[t] \in Started \cup {"ready"},
                    NEW d \in Deps, d.succ = t
             PROVE  PredecessorSatisfied(d)'
  BY DEF ReleasedWorkStaysJustified, BlockingPredecessorsSatisfied
<1>1. TableStep
  BY BoardStep
<1>2. CASE status[t] \in Started \cup {"ready"}
  <2>1. PredecessorSatisfied(d)
    BY <1>2 DEF ReleasedWorkStaysJustified, BlockingPredecessorsSatisfied
  <2> QED
    BY <1>1, <2>1, SatisfiedStays
<1>3. CASE status[t] \notin Started \cup {"ready"}
  <2>1. status[t] = "planned" /\ status'[t] \in {"ready", "completed"}
    BY <1>1, <1>3 DEF TableStep, Allowed, Started, BoardInv, TypeOK, Status
  <2>2. CASE Kind[t] = "milestone" /\ status'[t] = "completed"
    <3>1. status'[d.pred] = "completed"
      BY <2>2 DEF BoardInv, MilestoneSound, MilestonePredecessorsCompleted
    <3>2. d.type \in {"finish_to_start", "start_to_start"}
      BY DepsAssumption DEF Edge
    <3> QED
      BY <3>1, <3>2 DEF PredecessorSatisfied, Started
  <2>3. ASSUME NEW s \in Session, NEW r \in Request, Call(s, r), CommitTransition(s, r)
        PROVE  PredecessorSatisfied(d)'
    <3>1. r.task = t /\ r.target = "ready"
      BY <2>1, <2>3 DEF CommitTransition, BoardInv, TypeOK
    <3>2. PredecessorSatisfied(d)
      BY <2>3, <3>1 DEF Call, Permitted, BlockingPredecessorsSatisfied
    <3> QED
      BY <1>1, <3>2, SatisfiedStays
  <2>4. ASSUME NEW s \in Session, CommitCompletion(s)
        PROVE  Kind[t] = "milestone" /\ status'[t] = "completed"
    <3>1. t \in Covered(s) /\ status'[t] = "completed" /\ HeldSound(s) /\ req[s].pc = "held"
      BY <2>1, <2>4 DEF CommitCompletion, Covered, BoardInv
    <3> QED
      BY <2>1, <3>1 DEF HeldSound, Covered
  <2>5. status' # status
    BY <2>1
  <2> QED
    BY <2>2, <2>3, <2>4, <2>5, StepCases DEF HoldCompletion, Begins, Ends, taskVars
<1> QED
  BY <1>2, <1>3

\* A task that was released is never behind something that would block it, as
\* long as no request writes a row that another one has read.
THEOREM ReleasesStayJustified ==
  ASSUME ~Interference PROVE RaceSpec => []ReleasedWorkStaysJustified
<1>1. RaceInit => ReleasedWorkStaysJustified
  BY DEF RaceInit, Init, ReleasedWorkStaysJustified, Started
<1>2. /\ BoardInv /\ BoardInv' /\ DecisionInv' /\ NothingRaced'
      /\ ReleasedWorkStaysJustified /\ [RaceNext]_raceVars
      => ReleasedWorkStaysJustified'
  BY ReleasedStep, RaceSteps DEF raceVars
<1> QED
  BY <1>1, <1>2, BoardWithRaces, DecisionInvariant, PTL DEF RaceSpec
=============================================================================
