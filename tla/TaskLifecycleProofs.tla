------------------------- MODULE TaskLifecycleProofs -------------------------
(***************************************************************************)
(* Theorems about TaskLifecycle, for every set of tasks, threads and users,*)
(* every dependency graph and every bound.                                 *)
(***************************************************************************)
EXTENDS TaskLifecycle, SequenceTheorems, FiniteSetTheorems, TLAPS

-----------------------------------------------------------------------------
(* Requests and rows have their types.                                     *)

\* What a request's record holds, whatever its kind.
LEMMA RequestFields ==
  ASSUME NEW r \in Request
  PROVE  /\ r.pc \in {"read", "open", "held"}
         /\ r.task \in Task /\ r.actor \in Actor
         /\ r.target \in Status /\ r.seen \in Status
         /\ r.about \in Nat /\ r.at \in Nat /\ r.cascade \in SUBSET Task
         /\ r # Idle
         /\ r.kind # "status" => r.target \notin {"submitted", "ready"}
         /\ r.kind = "verify" => r.decision \in {"verified", "rejected"}
         /\ r.kind = "approve" => r.decision \in {"approved", "rejected"}
         /\ r.kind \in {"status", "verify", "approve"}
BY DEF Request, RequestOf, Status, Idle

\* A request is well-formed when it begins, when it goes on to its next call,
\* and when it holds its completing transaction open.
LEMMA NewRequestTyped ==
  ASSUME TypeOK, NEW t \in Task, NEW a \in Actor, NEW about \in Nat,
         NEW kind, NEW decision,
         \/ kind = "verify" /\ decision \in {"verified", "rejected"}
         \/ kind = "approve" /\ decision \in {"approved", "rejected"}
         \/ kind = "status" /\ decision \in Status
  PROVE  NewRequest(kind, t, a, decision, about) \in Request
<1>1. status[t] \in Status /\ clock \in Nat
  BY DEF TypeOK
<1>2. {} \in SUBSET Task
  OBVIOUS
<1>3. CASE kind = "verify" /\ decision \in {"verified", "rejected"}
  BY <1>1, <1>2, <1>3 DEF NewRequest, FirstTarget, Request, RequestOf
<1>4. CASE kind = "approve" /\ decision \in {"approved", "rejected"}
  BY <1>1, <1>2, <1>4 DEF NewRequest, FirstTarget, Request, RequestOf
<1>5. CASE kind = "status" /\ decision \in Status
  BY <1>1, <1>2, <1>5 DEF NewRequest, FirstTarget, Request, RequestOf
<1> QED
  BY <1>3, <1>4, <1>5

LEMMA FollowUpTyped ==
  ASSUME NEW r \in Request, HasFollowUp(r)
  PROVE  [r EXCEPT !.pc = "open", !.target = FollowUp(r)] \in Request
<1>1. FollowUp(r) \in {"in_progress", "rejected", "completed"}
  BY DEF FollowUp
<1>2. CASE r.kind = "approve"
  <2>1. r \in RequestOf("approve", {"approved", "rejected"},
                   {"approval_pending", "rejected", "in_progress", "completed"})
    BY <1>2 DEF Request, RequestOf
  <2> QED
    BY <1>1, <2>1 DEF Request, RequestOf
<1>3. CASE r.kind = "verify"
  <2>1. r \in RequestOf("verify", {"verified", "rejected"},
                   {"verified", "rejected", "in_progress", "completed"})
    BY <1>3 DEF Request, RequestOf
  <2> QED
    BY <1>1, <2>1 DEF Request, RequestOf
<1> QED
  BY <1>2, <1>3 DEF HasFollowUp

LEMMA HeldTyped ==
  ASSUME NEW r \in Request, NEW done \in SUBSET Task
  PROVE  [r EXCEPT !.pc = "held", !.cascade = done] \in Request
BY DEF Request, RequestOf

\* A cascade consists of tasks.
LEMMA CascadeInTask == ASSUME NEW t PROVE Cascade(t) \in SUBSET Task
BY DEF Cascade

\* mark_progress_reviewed() keeps the rows and their number.
LEMMA ReviewedTyped ==
  ASSUME NEW updates \in Seq(Update)
  PROVE  /\ Reviewed(updates) \in Seq(Update)
         /\ DOMAIN Reviewed(updates) = DOMAIN updates
<1>1. DOMAIN updates = 1 .. Len(updates) /\ Len(updates) \in Nat
  OBVIOUS
<1>2. \A i \in DOMAIN updates : [updates[i] EXCEPT !.reviewed = TRUE] \in Update
  <2> TAKE i \in DOMAIN updates
  <2>1. updates[i] \in Update
    BY ElementOfSeq, <1>1
  <2> QED
    BY <2>1 DEF Update
<1>3. Reviewed(updates) \in [1 .. Len(updates) -> Update]
  BY <1>1, <1>2 DEF Reviewed
<1> QED
  BY <1>1, <1>3, SeqDef

-----------------------------------------------------------------------------
(* The pieces of a transaction keep the types.                             *)

\* The rows a decision inserts are well-formed.
LEMMA RecordDecisionTyped ==
  ASSUME TypeOK, NEW r \in Request, RecordDecision(r)
  PROVE  /\ progress' \in [Task -> Seq(Update)]
         /\ verifications' \in [Task -> SUBSET Verification]
         /\ approvals' \in [Task -> SUBSET Approval]
<1> USE RequestFields DEF TypeOK
<1>1. progress[r.task] \in Seq(Update)
  OBVIOUS
<1>2. Reviewed(progress[r.task]) \in Seq(Update)
  BY <1>1, ReviewedTyped
<1>3. CASE r.kind = "verify"
  <2> DEFINE v == [at |-> r.at, by |-> r.actor, decision |-> r.decision, update |-> r.about]
  <2>1. v \in Verification
    BY <1>3 DEF Verification
  <2>2. /\ verifications' = [verifications EXCEPT ![r.task] = @ \cup {v}]
        /\ progress' = [progress EXCEPT ![r.task] = Reviewed(@)]
        /\ approvals' = approvals
    BY <1>3 DEF RecordDecision
  <2> QED
    BY <1>2, <2>1, <2>2
<1>4. CASE r.kind = "approve"
  <2> DEFINE d == [at |-> r.at, by |-> r.actor, decision |-> r.decision,
                   verification |-> r.about]
  <2>1. d \in Approval
    BY <1>4 DEF Approval
  <2>2. /\ approvals' = [approvals EXCEPT ![r.task] = @ \cup {d}]
        /\ progress' = [progress EXCEPT ![r.task] = Reviewed(@)]
        /\ verifications' = verifications
    BY <1>4 DEF RecordDecision
  <2> QED
    BY <1>2, <2>1, <2>2
<1>5. CASE r.kind = "status"
  BY <1>5 DEF RecordDecision, reviewVars
<1> QED
  BY <1>3, <1>4, <1>5

\* A committed transition() leaves the other columns well-formed.
LEMMA CommitTransitionTyped ==
  ASSUME TypeOK, NEW s \in Session, NEW r \in Request, CommitTransition(s, r)
  PROVE  /\ status' \in [Task -> Status]
         /\ actualStart' \in [Task -> BOOLEAN]
         /\ actualFinish' \in [Task -> BOOLEAN]
         /\ submission' \in [Task -> SUBSET Nat]
         /\ support' \in [Task -> SUBSET Employees]
         /\ supervisor' \in Supervisors \cup {NoActor}
         /\ req' \in [Session -> Request \cup {Idle}]
         /\ clock' \in Nat /\ failures' \in Nat
<1> USE RequestFields DEF TypeOK
<1>1. Unreviewed(r.task) \in SUBSET Nat
  <2>1. progress[r.task] \in Seq(Update)
    OBVIOUS
  <2>2. DOMAIN progress[r.task] = 1 .. Len(progress[r.task]) /\ Len(progress[r.task]) \in Nat
    BY <2>1, LenProperties
  <2> QED
    BY <2>2 DEF Unreviewed
<1>2. (IF HasFollowUp(r) THEN [r EXCEPT !.pc = "open", !.target = FollowUp(r)]
                         ELSE Idle) \in Request \cup {Idle}
  BY FollowUpTyped
<1>3. status' \in [Task -> Status] /\ actualStart' \in [Task -> BOOLEAN]
  BY DEF CommitTransition
<1>4. submission' \in [Task -> SUBSET Nat]
  BY <1>1 DEF CommitTransition
<1>5. req' \in [Session -> Request \cup {Idle}]
  BY <1>2 DEF CommitTransition
<1> QED
  BY <1>3, <1>4, <1>5 DEF CommitTransition, staffVars

\* Computing a cascade keeps the types.
LEMMA HoldCompletionTyped ==
  ASSUME TypeOK, NEW s \in Session, NEW r \in Request, HoldCompletion(s, r)
  PROVE  TypeOK'
<1>1. [r EXCEPT !.pc = "held", !.cascade = Cascade(r.task)] \in Request
  BY CascadeInTask, HeldTyped
<1>2. req' \in [Session -> Request \cup {Idle}]
  BY <1>1 DEF TypeOK, HoldCompletion
<1> QED
  BY <1>2 DEF TypeOK, HoldCompletion, taskVars, reviewVars, staffVars

\* A request whose transition() commits, and one that only closes.
LEMMA StepTyped ==
  ASSUME TypeOK, NEW s \in Session, NEW r \in Request,
         CommitTransition(s, r), RecordDecision(r) \/ UNCHANGED reviewVars
  PROVE  TypeOK'
<1>1. /\ progress' \in [Task -> Seq(Update)]
      /\ verifications' \in [Task -> SUBSET Verification]
      /\ approvals' \in [Task -> SUBSET Approval]
  BY RecordDecisionTyped DEF TypeOK, reviewVars
<1> QED
  BY <1>1, CommitTransitionTyped DEF TypeOK

\* Steps that change nothing but a request keep the types.
LEMMA RequestOnlyTyped ==
  ASSUME TypeOK, NEW s \in Session, NEW r \in Request \cup {Idle},
         req' = [req EXCEPT ![s] = r],
         UNCHANGED <<taskVars, reviewVars, staffVars>>,
         clock' \in Nat, failures' \in Nat
  PROVE  TypeOK'
BY DEF TypeOK, taskVars, reviewVars, staffVars

-----------------------------------------------------------------------------
(* Type correctness.                                                       *)

\* A generated project has its types.
LEMMA TypeInit == Init => TypeOK
<1>1. <<>> \in Seq(Update)
  OBVIOUS
<1> QED
  BY <1>1 DEF Init, TypeOK, Status

\* Every step keeps the types.
LEMMA TypeStep == TypeOK /\ [Next]_vars => TypeOK'
<1> SUFFICES ASSUME TypeOK, [Next]_vars PROVE TypeOK'
  OBVIOUS
<1>s. \A s \in Session : req[s] # Idle => req[s] \in Request
  BY DEF TypeOK
<1>i. \A s \in Session : req[s].pc \in {"read", "open", "held"} => req[s] \in Request
  BY <1>s DEF Idle
<1>n. clock \in Nat /\ failures \in Nat /\ clock + 1 \in Nat /\ failures + 1 \in Nat
  BY DEF TypeOK
<1>1. ASSUME NEW s \in Session, FirstTransition(s) PROVE TypeOK'
  BY <1>1, <1>i, StepTyped, HoldCompletionTyped DEF FirstTransition
<1>2. ASSUME NEW s \in Session, NextTransition(s) PROVE TypeOK'
  BY <1>2, <1>i, StepTyped, HoldCompletionTyped DEF NextTransition
<1>3. ASSUME NEW s \in Session, CommitCompletion(s) PROVE TypeOK'
  <2>1. req' \in [Session -> Request \cup {Idle}]
    BY <1>3 DEF CommitCompletion, TypeOK
  <2>2. "completed" \in Status
    BY DEF Status
  <2>3. status' \in [Task -> Status] /\ actualStart' \in [Task -> BOOLEAN]
          /\ actualFinish' \in [Task -> BOOLEAN]
    BY <1>3, <2>2 DEF CommitCompletion, TypeOK
  <2> QED
    BY <1>3, <2>1, <2>3 DEF CommitCompletion, TypeOK, reviewVars, staffVars
<1>4. ASSUME NEW s \in Session, Refuse(s) PROVE TypeOK'
  BY <1>4, <1>n, RequestOnlyTyped DEF Refuse
<1>5. ASSUME NEW s \in Session, Fail(s) PROVE TypeOK'
  BY <1>5, <1>n, RequestOnlyTyped DEF Fail
<1>6. ASSUME NEW s \in Session, NEW t \in Task, NEW a \in Actor,
             NEW d \in {"verified", "rejected"}, ReadForVerify(s, t, a, d)
      PROVE  TypeOK'
  <2>1. Len(progress[t]) \in Nat
    BY LenProperties DEF TypeOK
  <2>2. NewRequest("verify", t, a, d, Len(progress[t])) \in Request
    BY <2>1, NewRequestTyped
  <2> QED
    BY <1>6, <1>n, <2>2, RequestOnlyTyped DEF ReadForVerify
<1>7. ASSUME NEW s \in Session, NEW t \in Task, NEW a \in Actor,
             NEW d \in {"approved", "rejected"}, ReadForApprove(s, t, a, d)
      PROVE  TypeOK'
  <2>1. ASSUME NEW v \in Latest(verifications[t])
        PROVE  NewRequest("approve", t, a, d, v.at) \in Request
    <3>1. v \in Verification
      BY DEF Latest, TypeOK
    <3> QED
      BY <3>1, NewRequestTyped DEF Verification
  <2>2. NewRequest("approve", t, a, d, 0) \in Request
    BY NewRequestTyped
  <2> QED
    BY <1>7, <1>n, <2>1, <2>2, RequestOnlyTyped DEF ReadForApprove
<1>8. ASSUME NEW s \in Session, NEW t \in Task, NEW a \in Actor,
             NEW target \in Status, ReadForStatus(s, t, a, target)
      PROVE  TypeOK'
  <2>1. NewRequest("status", t, a, target, 0) \in Request
    BY NewRequestTyped
  <2> QED
    BY <1>8, <1>n, <2>1, RequestOnlyTyped DEF ReadForStatus
<1>9. ASSUME NEW s \in Session, NEW t \in Task, NEW a \in Actor,
             NEW target \in Status, PortalStatus(s, t, a, target)
      PROVE  TypeOK'
  <2>1. NewRequest("status", t, a, target, 0) \in Request
    BY NewRequestTyped
  <2> QED
    BY <1>9, <2>1, StepTyped, HoldCompletionTyped DEF PortalStatus
<1>10. ASSUME NEW t \in Task, NEW a \in Actor, NEW evidence \in Evidence(t),
              SubmitProgress(t, a, evidence)
       PROVE  TypeOK'
  <2> DEFINE u == [by |-> a, evidence |-> evidence, reviewed |-> FALSE]
  <2>1. u \in Update
    BY DEF Evidence, Update
  <2>2. progress[t] \in Seq(Update)
    BY DEF TypeOK
  <2>3. Append(progress[t], u) \in Seq(Update)
    BY <2>1, <2>2, AppendProperties
  <2>4. progress' \in [Task -> Seq(Update)]
    BY <1>10, <2>3 DEF SubmitProgress, TypeOK
  <2> QED
    BY <1>10, <2>4 DEF SubmitProgress, TypeOK, taskVars, staffVars
<1>11. ASSUME NEW t \in Task, NEW e \in Employees, AssignSupport(t, e) PROVE TypeOK'
  BY <1>11 DEF AssignSupport, TypeOK, taskVars, reviewVars
<1>12. ASSUME NEW t \in Task, NEW e \in Employees, NEW replacements \in SUBSET Employees,
              EndSupport(t, e, replacements)
       PROVE  TypeOK'
  BY <1>12 DEF EndSupport, TypeOK, taskVars, reviewVars
<1>13. ASSUME NEW a \in Supervisors \cup {NoActor}, ChangeSupervisor(a) PROVE TypeOK'
  BY <1>13 DEF ChangeSupervisor, TypeOK, taskVars, reviewVars
<1>14. CASE UNCHANGED vars
  BY <1>14 DEF vars, TypeOK, taskVars, reviewVars, staffVars
<1> QED
  BY <1>1, <1>2, <1>3, <1>4, <1>5, <1>6, <1>7, <1>8, <1>9, <1>10, <1>11, <1>12,
     <1>13, <1>14 DEF Next, Handle

\* Every reachable state has its types: requests carry only the targets of
\* their own kind, and rows only users who may have written them.
THEOREM TypeCorrect == Spec => []TypeOK
<1>1. Init => TypeOK
  BY TypeInit
<1>2. TypeOK /\ [Next]_vars => TypeOK'
  BY TypeStep
<1> QED
  BY <1>1, <1>2, PTL DEF Spec

-----------------------------------------------------------------------------
(* The frozen submission.                                                  *)

Frozen(t) ==
  status[t] = "submitted" /\ Kind[t] # "milestone" =>
    Unreviewed(t) = submission[t] /\ FreshEnough(t)

\* A step that leaves the task, its updates and its submission alone, or takes
\* the task out of review, keeps the submission frozen.
LEMMA FrozenUntouched ==
  ASSUME NEW t \in Task, Frozen(t),
         \/ status'[t] # "submitted"
         \/ /\ status'[t] = status[t] /\ progress'[t] = progress[t]
            /\ submission'[t] = submission[t]
  PROVE  Frozen(t)'
BY DEF Frozen, Unreviewed, FreshEnough

\* transition() to `submitted` reads the unreviewed rows it checks and names
\* under the lock that keeps further progress out.
LEMMA FrozenCommit ==
  ASSUME TypeOK, NEW s \in Session, NEW r \in Request, NEW current,
         CommitTransition(s, r), Permitted(r, current),
         RecordDecision(r) \/ UNCHANGED reviewVars,
         NEW t \in Task, Frozen(t)
  PROVE  Frozen(t)'
<1>1. status' = [status EXCEPT ![r.task] = r.target]
  BY DEF CommitTransition
<1>2. submission' = [submission EXCEPT ![r.task] =
                       IF r.target = "submitted" THEN Unreviewed(r.task) ELSE @]
  BY DEF CommitTransition
<1>3. r.task \in Task
  BY RequestFields
<1>4. CASE t # r.task
  <2>1. progress'[t] = progress[t]
    BY <1>4, RequestFields DEF RecordDecision, reviewVars, TypeOK
  <2>2. status'[t] = status[t] /\ submission'[t] = submission[t]
    BY <1>1, <1>2, <1>4 DEF TypeOK
  <2> QED
    BY <2>1, <2>2, FrozenUntouched
<1>5. CASE t = r.task /\ r.target # "submitted"
  <2>1. status'[t] # "submitted"
    BY <1>1, <1>3, <1>5 DEF TypeOK
  <2> QED
    BY <2>1, FrozenUntouched
<1>6. CASE t = r.task /\ r.target = "submitted"
  <2>1. r.kind = "status"
    BY <1>6, RequestFields
  <2>2. progress' = progress
    BY <2>1 DEF RecordDecision, reviewVars
  <2>3. Kind[t] # "milestone" => FreshEnough(t)
    BY <1>6 DEF Permitted
  <2>4. submission'[t] = Unreviewed(t)
    BY <1>2, <1>3, <1>6 DEF TypeOK
  <2>5. Unreviewed(t)' = Unreviewed(t) /\ (FreshEnough(t)' <=> FreshEnough(t))
    BY <2>2 DEF Unreviewed, FreshEnough
  <2> QED
    BY <2>3, <2>4, <2>5 DEF Frozen
<1> QED
  BY <1>4, <1>5, <1>6

\* Every step keeps every submission frozen.
LEMMA FrozenStep ==
  ASSUME TypeOK, SubmissionFrozen, [Next]_vars
  PROVE  SubmissionFrozen'
<1> SUFFICES ASSUME NEW t \in Task PROVE Frozen(t)'
  BY DEF SubmissionFrozen, Frozen
<1>f. Frozen(t)
  BY DEF SubmissionFrozen, Frozen
<1>i. \A s \in Session : req[s].pc \in {"read", "open", "held"} => req[s] \in Request
  BY DEF TypeOK, Idle
<1>u. ASSUME status' = status, progress' = progress, submission' = submission
      PROVE  Frozen(t)'
  BY <1>u, <1>f, FrozenUntouched
<1>1. ASSUME NEW s \in Session, FirstTransition(s) PROVE Frozen(t)'
  <2>1. req[s] \in Request
    BY <1>1, <1>i DEF FirstTransition
  <2>2. CASE CommitTransition(s, req[s]) /\ RecordDecision(req[s])
    BY <1>1, <1>f, <2>1, <2>2, FrozenCommit DEF FirstTransition
  <2>3. CASE HoldCompletion(s, req[s])
    BY <2>3, <1>u DEF HoldCompletion, taskVars, reviewVars
  <2> QED
    BY <1>1, <2>2, <2>3 DEF FirstTransition
<1>2. ASSUME NEW s \in Session, NextTransition(s) PROVE Frozen(t)'
  <2>1. req[s] \in Request
    BY <1>2, <1>i DEF NextTransition
  <2>2. CASE CommitTransition(s, req[s]) /\ UNCHANGED reviewVars
    BY <1>2, <1>f, <2>1, <2>2, FrozenCommit DEF NextTransition
  <2>3. CASE HoldCompletion(s, req[s])
    BY <2>3, <1>u DEF HoldCompletion, taskVars, reviewVars
  <2> QED
    BY <1>2, <2>2, <2>3 DEF NextTransition
<1>3. ASSUME NEW s \in Session, CommitCompletion(s) PROVE Frozen(t)'
  <2>1. status'[t] \in {"completed", status[t]}
    BY <1>3 DEF CommitCompletion
  <2>2. progress' = progress /\ submission' = submission
    BY <1>3 DEF CommitCompletion, reviewVars
  <2> QED
    BY <1>f, <2>1, <2>2, FrozenUntouched
<1>4. ASSUME NEW s \in Session, Refuse(s) \/ Fail(s) PROVE Frozen(t)'
  BY <1>4, <1>u DEF Refuse, Fail, taskVars, reviewVars
<1>5. ASSUME NEW s \in Session, NEW u \in Task, NEW a \in Actor,
             \/ \E d \in {"verified", "rejected"} : ReadForVerify(s, u, a, d)
             \/ \E d \in {"approved", "rejected"} : ReadForApprove(s, u, a, d)
             \/ \E target \in Status : ReadForStatus(s, u, a, target)
      PROVE  Frozen(t)'
  BY <1>5, <1>u DEF ReadForVerify, ReadForApprove, ReadForStatus, taskVars, reviewVars
<1>6. ASSUME NEW s \in Session, NEW u \in Task, NEW a \in Actor,
             NEW target \in Status, PortalStatus(s, u, a, target)
      PROVE  Frozen(t)'
  <2> DEFINE r == NewRequest("status", u, a, target, 0)
  <2>1. r \in Request
    BY NewRequestTyped
  <2>2. CASE CommitTransition(s, r) /\ UNCHANGED reviewVars
    <3>1. Permitted(r, status[u])
      BY <1>6 DEF PortalStatus
    <3> HIDE DEF r
    <3> QED
      BY <3>1, <1>f, <2>1, <2>2, FrozenCommit
  <2>3. CASE HoldCompletion(s, r)
    BY <2>3, <1>u DEF HoldCompletion, taskVars, reviewVars
  <2> QED
    BY <1>6, <2>2, <2>3 DEF PortalStatus
<1>7. ASSUME NEW u \in Task, NEW a \in Actor, NEW evidence \in Evidence(u),
             SubmitProgress(u, a, evidence)
      PROVE  Frozen(t)'
  <2>1. status' = status /\ submission' = submission /\ status[u] = "in_progress"
    BY <1>7 DEF SubmitProgress, taskVars
  <2>2. t # u => progress'[t] = progress[t]
    BY <1>7 DEF SubmitProgress, TypeOK
  <2> QED
    BY <1>f, <2>1, <2>2, FrozenUntouched
<1>8. ASSUME NEW u \in Task, NEW e \in Employees,
             \/ AssignSupport(u, e)
             \/ \E replacements \in SUBSET Employees : EndSupport(u, e, replacements)
      PROVE  Frozen(t)'
  BY <1>8, <1>u DEF AssignSupport, EndSupport, taskVars, reviewVars
<1>9. ASSUME NEW a \in Supervisors \cup {NoActor}, ChangeSupervisor(a) PROVE Frozen(t)'
  BY <1>9, <1>u DEF ChangeSupervisor, taskVars, reviewVars
<1>10. CASE UNCHANGED vars
  BY <1>10, <1>u DEF vars, taskVars, reviewVars
<1> QED
  BY <1>1, <1>2, <1>3, <1>4, <1>5, <1>6, <1>7, <1>8, <1>9, <1>10 DEF Next, Handle

\* While a task waits for review, its unreviewed progress is what the submission
\* named and is enough to submit on, whatever requests interleave with it.
THEOREM SubmissionStaysFrozen == Spec => []SubmissionFrozen
<1>1. Init => SubmissionFrozen
  BY DEF Init, SubmissionFrozen
<1>2. TypeOK /\ SubmissionFrozen /\ [Next]_vars => SubmissionFrozen'
  BY FrozenStep
<1> QED
  BY <1>1, <1>2, TypeCorrect, PTL DEF Spec

-----------------------------------------------------------------------------
(* What follows is about a project's tasks when no request writes a row    *)
(* that another one has read: the finish dates, the milestones and the     *)
(* board.  The runs show which break with Interference; TaskDecisionProofs *)
(* says what decisions and the transition table keep in spite of it.       *)

-----------------------------------------------------------------------------
(* The cascade.                                                            *)

LEMMA CascadeMonotone ==
  ASSUME NEW t, NEW small, NEW large, small \subseteq large, NEW m,
         CascadeReaches(t, small, m)
  PROVE  CascadeReaches(t, large, m)
BY DEF CascadeReaches

\* A cascade is itself closed under its rule.
LEMMA CascadeIsClosed ==
  ASSUME NEW t PROVE CascadeClosed(t, Cascade(t))
<1> SUFFICES ASSUME NEW m \in Task, CascadeReaches(t, Cascade(t), m),
                    NEW done \in SUBSET Task, CascadeClosed(t, done)
             PROVE  m \in done
  BY DEF CascadeClosed, Cascade
<1>1. Cascade(t) \subseteq done
  BY DEF Cascade
<1>2. CascadeReaches(t, done, m)
  BY <1>1, CascadeMonotone
<1> QED
  BY <1>2 DEF CascadeClosed

\* Every milestone of a cascade is there by the rule: what it waits for is in
\* the cascade too, or completed already.
LEMMA CascadeMember ==
  ASSUME NEW t, NEW m \in Cascade(t) PROVE CascadeReaches(t, Cascade(t), m)
<1> SUFFICES ASSUME ~CascadeReaches(t, Cascade(t), m) PROVE FALSE
  OBVIOUS
<1> DEFINE rest == Cascade(t) \ {m}
<1>1. rest \in SUBSET Task
  BY CascadeInTask
<1>2. ASSUME NEW n \in Task, CascadeReaches(t, rest, n) PROVE n \in rest
  <2>1. CascadeReaches(t, Cascade(t), n)
    <3>1. rest \subseteq Cascade(t)
      OBVIOUS
    <3> HIDE DEF rest
    <3> QED
      BY <1>2, <3>1, CascadeMonotone
  <2>2. n \in Cascade(t)
    BY <2>1, CascadeIsClosed DEF CascadeClosed
  <2> QED
    BY <2>1, <2>2
<1>3. CascadeClosed(t, rest)
  BY <1>2 DEF CascadeClosed
<1>4. m \in rest
  BY <1>1, <1>3 DEF Cascade
<1> QED
  BY <1>4

-----------------------------------------------------------------------------
(* The inductive invariant.                                                *)

\* Decisions are never about milestones.
Fits(r) ==
  /\ r.kind = "verify" => Kind[r.task] = "work"
  /\ r.kind = "approve" => Kind[r.task] # "milestone"

\* The rows that the completing transaction of s will write.
Covered(s) == req[s].cascade \cup {req[s].task}

RequestsFit == \A s \in Session : req[s] # Idle => Fits(req[s])

SeenIsCurrent == \A s \in Session : req[s].pc = "read" => req[s].seen = status[req[s].task]

MilestonesUnreviewed ==
  \A t \in Task : Kind[t] = "milestone" => status[t] \notin DecisionServiceOnly

HeldAlone ==
  \A s \in Session, o \in Session : s # o /\ req[s].pc = "held" =>
    /\ req[o].pc = "read" => req[o].task \notin Covered(s)
    /\ req[o].pc = "held" => Covered(o) \cap Covered(s) = {}

HeldSound(s) ==
  req[s].pc = "held" =>
    /\ "completed" \in Allowed(status[req[s].task])
    /\ status[req[s].task] = "planned" => Kind[req[s].task] = "milestone"
    /\ Kind[req[s].task] = "milestone" => MilestonePredecessorsCompleted(req[s].task)
    /\ \A m \in req[s].cascade :
         /\ Kind[m] = "milestone" /\ status[m] = "planned"
         /\ \A d \in Deps : d.succ = m =>
              d.pred \in Covered(s) \/ status[d.pred] = "completed"

BoardInv ==
  /\ TypeOK
  /\ RequestsFit
  /\ SeenIsCurrent
  /\ MilestonesUnreviewed
  /\ HeldAlone
  /\ \A s \in Session : HeldSound(s)
  /\ MilestoneSound
  /\ FinishMatchesStatus

TableStep == \A t \in Task : status'[t] # status[t] => status'[t] \in Allowed(status[t])

-----------------------------------------------------------------------------
(* What a step can do to the statuses and the requests.                    *)

\* A transition() call whose checks pass on the status as it is.
Call(s, r) ==
  /\ r \in Request /\ Fits(r) /\ req[s].pc # "held"
  /\ Undisturbed(s, r.task)
  /\ Permitted(r, status[r.task])

Begins(s, r) ==
  /\ r \in Request /\ Fits(r) /\ r.pc = "read" /\ r.seen = status[r.task]
  /\ Undisturbed(s, r.task)
  /\ req' = [req EXCEPT ![s] = r]
  /\ UNCHANGED <<status, actualFinish>>

Ends(s) == req' = [req EXCEPT ![s] = Idle] /\ UNCHANGED <<status, actualFinish>>

\* Every step commits a transition, holds or commits a completion, begins or
\* ends a request, or concerns progress and staffing only.
LEMMA StepCases ==
  ASSUME BoardInv, [Next]_vars
  PROVE  \/ \E s \in Session, r \in Request : Call(s, r) /\ CommitTransition(s, r)
         \/ \E s \in Session, r \in Request : Call(s, r) /\ HoldCompletion(s, r)
         \/ \E s \in Session : CommitCompletion(s)
         \/ \E s \in Session, r \in Request : Begins(s, r)
         \/ \E s \in Session : Ends(s)
         \/ UNCHANGED <<status, actualFinish, req>>
<1> DEFINE Goal ==
         \/ \E s \in Session, r \in Request : Call(s, r) /\ CommitTransition(s, r)
         \/ \E s \in Session, r \in Request : Call(s, r) /\ HoldCompletion(s, r)
         \/ \E s \in Session : CommitCompletion(s)
         \/ \E s \in Session, r \in Request : Begins(s, r)
         \/ \E s \in Session : Ends(s)
         \/ UNCHANGED <<status, actualFinish, req>>
<1>i. \A s \in Session : req[s].pc \in {"read", "open", "held"} =>
        req[s] \in Request /\ Fits(req[s])
  BY RequestFields DEF BoardInv, RequestsFit, TypeOK, Idle
<1>1. ASSUME NEW s \in Session, FirstTransition(s) PROVE Goal
  <2>1. req[s].seen = status[req[s].task]
    BY <1>1 DEF FirstTransition, BoardInv, SeenIsCurrent
  <2>2. Call(s, req[s])
    BY <1>1, <1>i, <2>1 DEF FirstTransition, Call
  <2> QED
    BY <1>1, <2>2 DEF FirstTransition, Call
<1>2. ASSUME NEW s \in Session, NextTransition(s) PROVE Goal
  <2>1. Call(s, req[s])
    BY <1>2, <1>i DEF NextTransition, Call
  <2> QED
    BY <1>2, <2>1 DEF NextTransition, Call
<1>3. ASSUME NEW s \in Session, CommitCompletion(s) PROVE Goal
  BY <1>3
<1>4. ASSUME NEW s \in Session, Refuse(s) \/ Fail(s) PROVE Goal
  BY <1>4 DEF Refuse, Fail, Ends, taskVars
<1>5. ASSUME NEW s \in Session, NEW t \in Task, NEW a \in Actor,
             NEW d \in {"verified", "rejected"}, ReadForVerify(s, t, a, d)
      PROVE  Goal
  <2> DEFINE r == NewRequest("verify", t, a, d, Len(progress[t]))
  <2>1. Len(progress[t]) \in Nat
    BY LenProperties DEF BoardInv, TypeOK
  <2>2. r \in Request
    BY <2>1, NewRequestTyped DEF BoardInv
  <2>3. r.task = t /\ r.kind = "verify" /\ r.pc = "read" /\ r.seen = status[t]
    BY DEF NewRequest
  <2>4. Begins(s, r)
    BY <1>5, <2>2, <2>3 DEF ReadForVerify, Begins, Fits, taskVars
  <2> QED
    BY <2>2, <2>4
<1>6. ASSUME NEW s \in Session, NEW t \in Task, NEW a \in Actor,
             NEW d \in {"approved", "rejected"}, ReadForApprove(s, t, a, d)
      PROVE  Goal
  <2>1. ASSUME NEW about \in Nat, Kind[t] # "milestone",
               req' = [req EXCEPT ![s] = NewRequest("approve", t, a, d, about)]
        PROVE  Goal
    <3> DEFINE r == NewRequest("approve", t, a, d, about)
    <3>1. r \in Request
      BY NewRequestTyped DEF BoardInv
    <3>2. r.task = t /\ r.kind = "approve" /\ r.pc = "read" /\ r.seen = status[t]
      BY DEF NewRequest
    <3>3. Begins(s, r)
      BY <1>6, <2>1, <3>1, <3>2 DEF ReadForApprove, Begins, Fits, taskVars
    <3> QED
      BY <3>1, <3>3
  <2>2. CASE Kind[t] = "approval_gate" /\ req' = [req EXCEPT ![s] = NewRequest("approve", t, a, d, 0)]
    BY <2>1, <2>2
  <2>3. ASSUME NEW v \in Latest(verifications[t]), Kind[t] = "work",
               req' = [req EXCEPT ![s] = NewRequest("approve", t, a, d, v.at)]
        PROVE  Goal
    <3>1. v.at \in Nat
      BY DEF Latest, BoardInv, TypeOK, Verification
    <3> QED
      BY <2>1, <2>3, <3>1
  <2> QED
    BY <1>6, <2>2, <2>3 DEF ReadForApprove
<1>7. ASSUME NEW s \in Session, NEW t \in Task, NEW a \in Actor,
             NEW target \in Status, ReadForStatus(s, t, a, target)
      PROVE  Goal
  <2> DEFINE r == NewRequest("status", t, a, target, 0)
  <2>1. r \in Request
    BY NewRequestTyped DEF BoardInv
  <2>2. r.task = t /\ r.kind = "status" /\ r.pc = "read" /\ r.seen = status[t]
    BY DEF NewRequest
  <2>3. Begins(s, r)
    BY <1>7, <2>1, <2>2 DEF ReadForStatus, Begins, Fits, taskVars
  <2> QED
    BY <2>1, <2>3
<1>8. ASSUME NEW s \in Session, NEW t \in Task, NEW a \in Actor,
             NEW target \in Status, PortalStatus(s, t, a, target)
      PROVE  Goal
  <2> DEFINE r == NewRequest("status", t, a, target, 0)
  <2>1. r \in Request
    BY NewRequestTyped DEF BoardInv
  <2>2. r.task = t /\ r.kind = "status"
    BY DEF NewRequest
  <2>3. Call(s, r)
    BY <1>8, <2>1, <2>2 DEF PortalStatus, Call, Fits, Idle
  <2> QED
    BY <1>8, <2>1, <2>3 DEF PortalStatus
<1>9. ASSUME NEW t \in Task, NEW a \in Actor, NEW evidence \in Evidence(t),
              SubmitProgress(t, a, evidence)
       PROVE  Goal
  BY <1>9 DEF SubmitProgress, taskVars
<1>10. ASSUME NEW t \in Task, NEW e \in Employees,
             \/ AssignSupport(t, e)
             \/ \E replacements \in SUBSET Employees : EndSupport(t, e, replacements)
      PROVE  Goal
  BY <1>10 DEF AssignSupport, EndSupport, taskVars
<1>11. ASSUME NEW a \in Supervisors \cup {NoActor}, ChangeSupervisor(a) PROVE Goal
  BY <1>11 DEF ChangeSupervisor, taskVars
<1>12. CASE UNCHANGED vars
  BY <1>12 DEF vars, taskVars
<1> HIDE DEF Goal
<1>13. ASSUME NEW s \in Session, Handle(s) \/ Fail(s) PROVE Goal
  BY <1>1, <1>2, <1>3, <1>4, <1>13 DEF Handle
<1>14. ASSUME NEW s \in Session, NEW t \in Task, NEW a \in Actor,
              \/ \E d \in {"verified", "rejected"} : ReadForVerify(s, t, a, d)
              \/ \E d \in {"approved", "rejected"} : ReadForApprove(s, t, a, d)
              \/ \E target \in Status : ReadForStatus(s, t, a, target)
              \/ \E target \in Status : PortalStatus(s, t, a, target)
       PROVE  Goal
  BY <1>5, <1>6, <1>7, <1>8, <1>14
<1>15. ASSUME Next PROVE Goal
  BY <1>9, <1>10, <1>11, <1>13, <1>14, <1>15 DEF Next
<1> QED
  BY <1>12, <1>15 DEF Goal

-----------------------------------------------------------------------------
(* The three kinds of step that matter.                                    *)

\* What the table says of the ways into and out of `completed`.
LEMMA TableFacts ==
  ASSUME NEW st \in Status
  PROVE  /\ Allowed("completed") = {}
         /\ "completed" \in Allowed(st) => st \in {"planned", "verified", "approval_pending"}
         /\ "completed" \in Allowed("planned")
BY DEF Allowed, Status, DecisionServiceOnly

\* A commit to any other status than completed.
LEMMA CommitKeeps ==
  ASSUME ~Interference, BoardInv, TypeOK', NEW s \in Session, NEW r \in Request,
         Call(s, r), CommitTransition(s, r)
  PROVE  BoardInv' /\ TableStep
<1> USE DEF BoardInv
<1> DEFINE next == IF HasFollowUp(r) THEN [r EXCEPT !.pc = "open", !.target = FollowUp(r)]
                                     ELSE Idle
<1>1. r.task \in Task /\ r.target \in Allowed(status[r.task]) /\ r.target # "completed"
  BY RequestFields DEF Call, Permitted, CommitTransition
<1>2. \A t \in Task : status'[t] = IF t = r.task THEN r.target ELSE status[t]
  BY <1>1 DEF CommitTransition, TypeOK
<1>3. \A o \in Session : req'[o] = IF o = s THEN next ELSE req[o]
  BY DEF CommitTransition, TypeOK
<1>4. next.pc \notin {"read", "held"} /\ (next # Idle => Fits(next))
  <2>1. r = [pc |-> r.pc, kind |-> r.kind, task |-> r.task, actor |-> r.actor,
             decision |-> r.decision, target |-> r.target, seen |-> r.seen,
             about |-> r.about, at |-> r.at, cascade |-> r.cascade]
    BY DEF Request, RequestOf
  <2>2. HasFollowUp(r) => next.pc = "open" /\ next.kind = r.kind /\ next.task = r.task
    BY <2>1
  <2>3. ~HasFollowUp(r) => next = Idle /\ next.pc = "idle"
    BY DEF Idle
  <2> QED
    BY <2>2, <2>3 DEF Call, Fits
<1>5. \A o \in Session : o # s /\ req[o].pc = "read" => req[o].task # r.task
  BY DEF Call, Undisturbed
<1>6. \A o \in Session : o # s /\ req[o].pc = "held" => r.task \notin Covered(o)
  BY DEF Call, Undisturbed, Covered
<1>7. status[r.task] # "completed"
  BY <1>1 DEF Allowed
<1>8. TableStep
  BY <1>1, <1>2 DEF TableStep
<1>9. \A t \in Task : status'[t] = "completed" <=> status[t] = "completed"
  BY <1>1, <1>2, <1>7
<1>10. \A d \in Deps : d.pred \in Task
  BY DepsAssumption DEF Edge
<1>11. RequestsFit'
  BY <1>3, <1>4 DEF RequestsFit
<1>12. \A o \in Session : req[o] # Idle => req[o].task \in Task
  BY RequestFields DEF TypeOK
<1>13. SeenIsCurrent'
  <2> SUFFICES ASSUME NEW o \in Session, req'[o].pc = "read"
               PROVE  req'[o].seen = status'[req'[o].task]
    BY DEF SeenIsCurrent
  <2>1. o # s /\ req'[o] = req[o]
    BY <1>3, <1>4
  <2>2. req[o].task \in Task /\ req[o].task # r.task
    BY <1>5, <1>12, <2>1 DEF Idle
  <2> QED
    BY <1>2, <2>1, <2>2 DEF SeenIsCurrent
<1>14. MilestonesUnreviewed'
  <2>1. Kind[r.task] = "milestone" => r.kind = "status"
    BY RequestFields DEF Call, Fits
  <2>2. Kind[r.task] = "milestone" => r.target \notin DecisionServiceOnly
    BY <2>1 DEF Call, Permitted
  <2> QED
    BY <1>2, <2>2 DEF MilestonesUnreviewed
<1>15. HeldAlone'
  BY <1>3, <1>4 DEF HeldAlone, Covered
<1>16. ASSUME NEW o \in Session PROVE HeldSound(o)'
  <2> SUFFICES ASSUME req'[o].pc = "held"
               PROVE  HeldSound(o)'
    BY DEF HeldSound
  <2>1. o # s /\ req'[o] = req[o] /\ req[o].pc = "held"
    BY <1>3, <1>4
  <2>2. req[o].task \in Task /\ req[o].cascade \subseteq Task
    BY <2>1, RequestFields DEF TypeOK, Idle
  <2>3. \A t \in Covered(o) : status'[t] = status[t]
    BY <1>2, <1>6, <2>1, <2>2 DEF Covered
  <2>4. HeldSound(o)
    OBVIOUS
  <2>5. /\ "completed" \in Allowed(status'[req[o].task])
        /\ status'[req[o].task] = "planned" => Kind[req[o].task] = "milestone"
    BY <2>1, <2>3, <2>4 DEF HeldSound, Covered
  <2>6. Kind[req[o].task] = "milestone" => MilestonePredecessorsCompleted(req[o].task)'
    BY <1>9, <1>10, <2>1, <2>4 DEF HeldSound, MilestonePredecessorsCompleted
  <2>7. \A m \in req[o].cascade :
          /\ Kind[m] = "milestone" /\ status'[m] = "planned"
          /\ \A d \in Deps : d.succ = m =>
               d.pred \in Covered(o) \/ status'[d.pred] = "completed"
    BY <1>9, <1>10, <2>1, <2>3, <2>4 DEF HeldSound, Covered
  <2> QED
    BY <2>1, <2>5, <2>6, <2>7 DEF HeldSound, Covered, MilestonePredecessorsCompleted
<1>17. MilestoneSound'
  BY <1>9, <1>10 DEF MilestoneSound, MilestonePredecessorsCompleted
<1>18. FinishMatchesStatus'
  BY <1>9 DEF FinishMatchesStatus, CommitTransition
<1> QED
  BY <1>8, <1>11, <1>13, <1>14, <1>15, <1>16, <1>17, <1>18

\* A completing transaction that locks its row and computes its cascade.
LEMMA HoldKeeps ==
  ASSUME ~Interference, BoardInv, TypeOK', NEW s \in Session, NEW r \in Request,
         Call(s, r), HoldCompletion(s, r)
  PROVE  BoardInv' /\ TableStep
<1> USE DEF BoardInv
<1> DEFINE held == [r EXCEPT !.pc = "held", !.cascade = Cascade(r.task)]
<1>1. /\ held.pc = "held" /\ held.kind = r.kind /\ held.task = r.task
      /\ held.cascade = Cascade(r.task)
  <2>1. r = [pc |-> r.pc, kind |-> r.kind, task |-> r.task, actor |-> r.actor,
             decision |-> r.decision, target |-> r.target, seen |-> r.seen,
             about |-> r.about, at |-> r.at, cascade |-> r.cascade]
    BY DEF Request, RequestOf
  <2> QED
    BY <2>1
<1>2. \A o \in Session : req'[o] = IF o = s THEN held ELSE req[o]
  BY DEF HoldCompletion, TypeOK
<1>3. status' = status /\ actualFinish' = actualFinish
  BY DEF HoldCompletion, taskVars
<1>4. \A m \in Cascade(r.task) \cup {r.task} : Undisturbed(s, m)
  BY DEF Call, HoldCompletion
<1>5. ASSUME NEW o \in Session, o # s
      PROVE  /\ req[o].pc = "read" => req[o].task \notin Cascade(r.task) \cup {r.task}
             /\ req[o].pc = "held" => Covered(o) \cap (Cascade(r.task) \cup {r.task}) = {}
  BY <1>4, <1>5 DEF Undisturbed, Covered
<1>6. RequestsFit'
  BY <1>1, <1>2 DEF RequestsFit, Call, Fits
<1>7. SeenIsCurrent'
  BY <1>1, <1>2, <1>3 DEF SeenIsCurrent
<1>8. HeldAlone'
  <2> SUFFICES ASSUME NEW p \in Session, NEW o \in Session, p # o, req'[p].pc = "held"
               PROVE  /\ req'[o].pc = "read" => req'[o].task \notin Covered(p)'
                      /\ req'[o].pc = "held" => Covered(o)' \cap Covered(p)' = {}
    BY DEF HeldAlone
  <2>1. /\ req'[s] = held /\ Covered(s)' = Cascade(r.task) \cup {r.task}
        /\ \A q \in Session \ {s} : req'[q] = req[q] /\ Covered(q)' = Covered(q)
    BY <1>1, <1>2 DEF Covered
  <2> HIDE DEF held
  <2>2. CASE p = s
    BY <1>5, <2>1, <2>2
  <2>3. CASE o = s
    <3>1. req[p].pc = "held" /\ Covered(p)' = Covered(p)
      BY <2>1, <2>3
    <3>2. Covered(p) \cap (Cascade(r.task) \cup {r.task}) = {}
      BY <1>5, <2>3, <3>1
    <3>3. req'[o].pc = "held" /\ Covered(o)' = Cascade(r.task) \cup {r.task}
      BY <1>1, <2>1, <2>3
    <3> QED
      BY <3>1, <3>2, <3>3
  <2>4. CASE p # s /\ o # s
    BY <2>1, <2>4 DEF HeldAlone
  <2> QED
    BY <2>2, <2>3, <2>4
<1>9. ASSUME NEW o \in Session PROVE HeldSound(o)'
  <2>1. CASE o = s
    <3>1. req'[s] = held /\ Covered(s)' = Cascade(r.task) \cup {r.task}
      BY <1>1, <1>2 DEF Covered
    <3>2. /\ r.target = "completed" /\ r.task \in Task
          /\ "completed" \in Allowed(status[r.task])
          /\ status[r.task] = "planned" => Kind[r.task] = "milestone"
      BY RequestFields DEF HoldCompletion, Call, Permitted
    <3>3. Kind[r.task] = "milestone" => MilestonePredecessorsCompleted(r.task)
      <4>1. Kind[r.task] = "milestone" => status[r.task] = "planned"
        BY <3>2, TableFacts DEF MilestonesUnreviewed, TypeOK, DecisionServiceOnly
      <4> QED
        BY <3>2, <4>1 DEF Call, Permitted
    <3>4. \A m \in Cascade(r.task) : CascadeReaches(r.task, Cascade(r.task), m)
      BY CascadeMember
    <3>5. \A m \in Cascade(r.task) :
            /\ Kind[m] = "milestone" /\ status[m] = "planned"
            /\ \A d \in Deps : d.succ = m =>
                 d.pred \in Cascade(r.task) \cup {r.task} \/ status[d.pred] = "completed"
      BY <3>4 DEF CascadeReaches
    <3> QED
      BY <1>1, <1>3, <2>1, <3>1, <3>2, <3>3, <3>5 DEF HeldSound, MilestonePredecessorsCompleted
  <2>2. CASE o # s
    <3>1. HeldSound(o) /\ req'[o] = req[o]
      BY <1>2, <2>2
    <3> QED
      BY <1>3, <3>1 DEF HeldSound, Covered, MilestonePredecessorsCompleted
  <2> QED
    BY <2>1, <2>2
<1>10. MilestonesUnreviewed' /\ MilestoneSound' /\ FinishMatchesStatus' /\ TableStep
  BY <1>3 DEF MilestonesUnreviewed, MilestoneSound, MilestonePredecessorsCompleted,
              FinishMatchesStatus, TableStep
<1> QED
  BY <1>6, <1>7, <1>8, <1>9, <1>10

\* The commit of a completion and of its cascade.
LEMMA CompletionKeeps ==
  ASSUME BoardInv, TypeOK', NEW s \in Session, CommitCompletion(s)
  PROVE  BoardInv' /\ TableStep
<1> USE DEF BoardInv
<1>1. req[s].pc = "held" /\ HeldSound(s)
  BY DEF CommitCompletion
<1>2. \A t \in Task : status'[t] = IF t \in Covered(s) THEN "completed" ELSE status[t]
  BY DEF CommitCompletion, Covered
<1>3. \A t \in Task : actualFinish'[t] <=> t \in Covered(s) \/ actualFinish[t]
  BY DEF CommitCompletion, Covered
<1>4. \A o \in Session : req'[o] = IF o = s THEN Idle ELSE req[o]
  BY DEF CommitCompletion, TypeOK
<1>5. \A t \in Task : status[t] = "completed" => status'[t] = "completed"
  BY <1>2
<1>6. \A d \in Deps : d.pred \in Task
  BY DepsAssumption DEF Edge
<1>7. Idle.pc = "idle"
  BY DEF Idle
<1>8. TableStep
  BY <1>1, <1>2, TableFacts DEF TableStep, HeldSound, Covered, TypeOK
<1>9. RequestsFit'
  BY <1>4 DEF RequestsFit
<1>10. SeenIsCurrent'
  <2> SUFFICES ASSUME NEW o \in Session, req'[o].pc = "read"
               PROVE  req'[o].seen = status'[req'[o].task]
    BY DEF SeenIsCurrent
  <2>1. o # s /\ req'[o] = req[o]
    BY <1>4, <1>7
  <2>2. req[o].task \in Task /\ req[o].task \notin Covered(s)
    BY <1>1, <2>1, RequestFields DEF TypeOK, Idle, HeldAlone
  <2> QED
    BY <1>2, <2>1, <2>2 DEF SeenIsCurrent
<1>11. MilestonesUnreviewed'
  BY <1>2 DEF MilestonesUnreviewed, DecisionServiceOnly
<1>12. HeldAlone'
  BY <1>4, <1>7 DEF HeldAlone, Covered
<1>13. ASSUME NEW o \in Session PROVE HeldSound(o)'
  <2> SUFFICES ASSUME req'[o].pc = "held" PROVE HeldSound(o)'
    BY DEF HeldSound
  <2>1. o # s /\ req'[o] = req[o] /\ req[o].pc = "held"
    BY <1>4, <1>7
  <2>2. req[o].task \in Task /\ req[o].cascade \subseteq Task
    BY <2>1, RequestFields DEF TypeOK, Idle
  <2>3. Covered(o) \cap Covered(s) = {}
    BY <1>1, <2>1 DEF HeldAlone
  <2>4. \A t \in Covered(o) : status'[t] = status[t]
    BY <1>2, <2>2, <2>3 DEF Covered
  <2>5. HeldSound(o)
    OBVIOUS
  <2>6. /\ "completed" \in Allowed(status'[req[o].task])
        /\ status'[req[o].task] = "planned" => Kind[req[o].task] = "milestone"
    BY <2>1, <2>4, <2>5 DEF HeldSound, Covered
  <2>7. Kind[req[o].task] = "milestone" => MilestonePredecessorsCompleted(req[o].task)'
    BY <1>5, <1>6, <2>1, <2>5 DEF HeldSound, MilestonePredecessorsCompleted
  <2>8. \A m \in req[o].cascade :
          /\ Kind[m] = "milestone" /\ status'[m] = "planned"
          /\ \A d \in Deps : d.succ = m =>
               d.pred \in Covered(o) \/ status'[d.pred] = "completed"
    BY <1>5, <1>6, <2>1, <2>4, <2>5 DEF HeldSound, Covered
  <2> QED
    BY <2>1, <2>6, <2>7, <2>8 DEF HeldSound, Covered, MilestonePredecessorsCompleted
<1>14. MilestoneSound'
  <2> SUFFICES ASSUME NEW m \in Task, Kind[m] = "milestone", status'[m] = "completed",
                      NEW d \in Deps, d.succ = m
               PROVE  status'[d.pred] = "completed"
    BY DEF MilestoneSound, MilestonePredecessorsCompleted
  <2>1. CASE m \notin Covered(s)
    BY <1>2, <1>5, <1>6, <2>1 DEF MilestoneSound, MilestonePredecessorsCompleted
  <2>2. CASE m = req[s].task
    BY <1>1, <1>5, <1>6, <2>2 DEF HeldSound, MilestonePredecessorsCompleted
  <2>3. CASE m \in req[s].cascade
    BY <1>1, <1>2, <1>5, <1>6, <2>3 DEF HeldSound
  <2> QED
    BY <2>1, <2>2, <2>3 DEF Covered
<1>15. FinishMatchesStatus'
  BY <1>2, <1>3 DEF FinishMatchesStatus
<1> QED
  BY <1>8, <1>9, <1>10, <1>11, <1>12, <1>13, <1>14, <1>15

-----------------------------------------------------------------------------
(* The invariant is inductive.                                             *)

LEMMA BoardInit == Init => BoardInv
<1> SUFFICES ASSUME Init PROVE BoardInv
  OBVIOUS
<1>1. \A s \in Session : req[s] = Idle /\ req[s].pc = "idle"
  BY DEF Init, Idle
<1>2. \A t \in Task : status[t] = "planned" /\ actualFinish[t] = FALSE
  BY DEF Init
<1> QED
  BY <1>1, <1>2, TypeInit
     DEF BoardInv, RequestsFit, SeenIsCurrent, MilestonesUnreviewed, HeldAlone, HeldSound,
         MilestoneSound, FinishMatchesStatus, DecisionServiceOnly

LEMMA BoardStep ==
  ASSUME ~Interference, BoardInv, [Next]_vars
  PROVE  BoardInv' /\ TableStep
<1>t. TypeOK'
  BY TypeStep DEF BoardInv
<1>1. ASSUME NEW s \in Session, NEW r \in Request, Begins(s, r)
      PROVE  BoardInv' /\ TableStep
  <2> USE <1>1 DEF BoardInv, Begins
  <2>1. \A o \in Session : req'[o] = IF o = s THEN r ELSE req[o]
    BY DEF TypeOK
  <2>2. \A o \in Session \ {s} : req[o].pc = "held" => r.task \notin Covered(o)
    BY DEF Undisturbed, Covered
  <2>3. RequestsFit' /\ SeenIsCurrent'
    BY <2>1 DEF RequestsFit, SeenIsCurrent
  <2>4. HeldAlone'
    BY <2>1, <2>2 DEF HeldAlone, Covered
  <2>5. ASSUME NEW o \in Session PROVE HeldSound(o)'
    BY <2>1 DEF HeldSound, Covered, MilestonePredecessorsCompleted
  <2> QED
    BY <1>t, <2>3, <2>4, <2>5 DEF MilestonesUnreviewed, MilestoneSound,
       MilestonePredecessorsCompleted, FinishMatchesStatus, TableStep
<1>2. ASSUME NEW s \in Session, Ends(s)
      PROVE  BoardInv' /\ TableStep
  <2> USE <1>2 DEF BoardInv, Ends
  <2>1. \A o \in Session : req'[o] = IF o = s THEN Idle ELSE req[o]
    BY DEF TypeOK
  <2>2. Idle.pc = "idle"
    BY DEF Idle
  <2>3. RequestsFit' /\ SeenIsCurrent' /\ HeldAlone'
    BY <2>1, <2>2 DEF RequestsFit, SeenIsCurrent, HeldAlone, Covered
  <2>4. ASSUME NEW o \in Session PROVE HeldSound(o)'
    BY <2>1, <2>2 DEF HeldSound, Covered, MilestonePredecessorsCompleted
  <2> QED
    BY <1>t, <2>3, <2>4 DEF MilestonesUnreviewed, MilestoneSound,
       MilestonePredecessorsCompleted, FinishMatchesStatus, TableStep
<1>3. ASSUME UNCHANGED <<status, actualFinish, req>>
      PROVE  BoardInv' /\ TableStep
  BY <1>t, <1>3 DEF BoardInv, RequestsFit, SeenIsCurrent, MilestonesUnreviewed, HeldAlone,
     HeldSound, Covered, MilestoneSound, MilestonePredecessorsCompleted,
     FinishMatchesStatus, TableStep
<1> QED
  BY <1>t, <1>1, <1>2, <1>3, StepCases, CommitKeeps, HoldKeeps, CompletionKeeps

THEOREM BoardInvariant ==
  ASSUME ~Interference PROVE Spec => []BoardInv
<1>1. Init => BoardInv
  BY BoardInit
<1>2. BoardInv /\ [Next]_vars => BoardInv'
  BY BoardStep
<1> QED
  BY <1>1, <1>2, PTL DEF Spec

\* A completed milestone rests on completed work only, whatever cascades and
\* manual completions run side by side.
THEOREM MilestonesAreSound ==
  ASSUME ~Interference PROVE Spec => []MilestoneSound
<1>1. BoardInv => MilestoneSound
  BY DEF BoardInv
<1> QED
  BY <1>1, BoardInvariant, PTL

\* A finish date belongs to a completed task, and to no other.
THEOREM FinishDatesMatch ==
  ASSUME ~Interference PROVE Spec => []FinishMatchesStatus
<1>1. BoardInv => FinishMatchesStatus
  BY DEF BoardInv
<1> QED
  BY <1>1, BoardInvariant, PTL

-----------------------------------------------------------------------------
(* The task machinery implements the board.                                *)

Phases == [t \in Task |-> PhaseOf(status[t])]

LEMMA PhaseFacts ==
  ASSUME NEW st \in Status
  PROVE  /\ PhaseOf(st) = "waiting" <=> st \in {"planned", "ready"}
         /\ PhaseOf(st) = "working" <=> st \in {"in_progress", "rejected"}
         /\ PhaseOf(st) = "review" <=> st \in {"submitted", "verified", "approval_pending"}
         /\ PhaseOf(st) = "done" <=> st = "completed"
         /\ PhaseOf(st) = "dropped" <=> st = "cancelled"
BY DEF PhaseOf, Status

\* A task that transition() may start is released on the board.
LEMMA ReleasedOnBoard ==
  ASSUME TypeOK, NEW t \in Task, BlockingPredecessorsSatisfied(t)
  PROVE  Board!Released(t)
<1> SUFFICES ASSUME NEW d \in Deps, d.succ = t
             PROVE  Phases[d.pred] \in {"review", "done", "dropped"}
                      \cup (IF d.type = "start_to_start" THEN {"working"} ELSE {})
  BY DEF Board!Released, Phases
<1>1. d.pred \in Task /\ status[d.pred] \in Status
  BY DepsAssumption DEF Edge, TypeOK
<1>2. Phases[d.pred] = PhaseOf(status[d.pred])
  BY <1>1 DEF Phases
<1>3. PredecessorSatisfied(d)
  BY DEF BlockingPredecessorsSatisfied
<1>4. CASE status[d.pred] \in {"cancelled", "completed", "verified"}
  BY <1>1, <1>2, <1>4, PhaseFacts
<1>5. CASE d.type = "start_to_start" /\ status[d.pred] \in Started
  BY <1>1, <1>2, <1>5, PhaseFacts DEF Started
<1> QED
  BY <1>3, <1>4, <1>5 DEF PredecessorSatisfied

\* A committed transition is one move of its task on the board, or none.
LEMMA CommitOnBoard ==
  ASSUME BoardInv, NEW s \in Session, NEW r \in Request,
         Call(s, r), CommitTransition(s, r)
  PROVE  Board!Next \/ Phases' = Phases
<1> DEFINE t == r.task
           from == status[t]
           to == r.target
<1>1. t \in Task /\ from \in Status /\ to \in Status /\ to \in Allowed(from) /\ to # "completed"
  BY RequestFields DEF Call, Permitted, CommitTransition, BoardInv, TypeOK
<1>2. Phases' = [Phases EXCEPT ![t] = PhaseOf(to)]
  BY <1>1 DEF CommitTransition, Phases, BoardInv, TypeOK
<1>3. Phases[t] = PhaseOf(from)
  BY <1>1 DEF Phases
<1>4. Phases \in [Task -> {PhaseOf(st) : st \in Status}]
  BY DEF Phases, BoardInv, TypeOK
<1>5. ASSUME PhaseOf(from) = PhaseOf(to) PROVE Phases' = Phases
  BY <1>1, <1>2, <1>3, <1>4, <1>5
<1>6. CASE to \in {"ready", "verified", "approval_pending"}
  <2>1. PhaseOf(from) = PhaseOf(to)
    BY <1>1, <1>6, PhaseFacts DEF Allowed, Status
  <2> QED
    BY <1>5, <2>1
<1>7. CASE to = "in_progress"
  <2>1. CASE from = "rejected"
    BY <1>1, <1>5, <1>7, <2>1, PhaseFacts
  <2>2. CASE from = "ready"
    <3>1. Board!Released(t)
      BY <1>1, <1>7, ReleasedOnBoard DEF Call, Permitted, BoardInv
    <3>2. PhaseOf(from) = "waiting" /\ PhaseOf(to) = "working"
      BY <1>1, <1>7, <2>2, PhaseFacts
    <3>3. Board!Begin(t)
      BY <1>2, <1>3, <3>1, <3>2 DEF Board!Begin, Board!Move, Phases
    <3> QED
      BY <1>1, <3>3 DEF Board!Next
  <2> QED
    BY <1>1, <1>7, <2>1, <2>2 DEF Allowed, Status
<1>8. CASE to = "submitted"
  <2>1. PhaseOf(from) = "working" /\ PhaseOf(to) = "review"
    BY <1>1, <1>8, PhaseFacts DEF Allowed, Status
  <2>2. Board!Submit(t)
    BY <1>2, <1>3, <2>1 DEF Board!Submit, Board!Move, Phases
  <2> QED
    BY <1>1, <2>2 DEF Board!Next
<1>9. CASE to = "rejected"
  <2>1. PhaseOf(from) = "review" /\ PhaseOf(to) = "working"
    BY <1>1, <1>9, PhaseFacts DEF Allowed, Status
  <2>2. Board!Return(t)
    BY <1>2, <1>3, <2>1 DEF Board!Return, Board!Move, Phases
  <2> QED
    BY <1>1, <2>2 DEF Board!Next
<1>10. CASE to = "cancelled"
  <2>1. PhaseOf(from) \in {"waiting", "working", "review"} /\ PhaseOf(to) = "dropped"
    BY <1>1, <1>10, PhaseFacts DEF Allowed, Status
  <2>2. Board!Drop(t)
    BY <1>2, <1>3, <2>1 DEF Board!Drop, Board!Move, Phases
  <2> QED
    BY <1>1, <2>2 DEF Board!Next
<1> QED
  BY <1>1, <1>6, <1>7, <1>8, <1>9, <1>10 DEF Status, Allowed

\* A completion and its cascade are one Finish.
LEMMA CompletionOnBoard ==
  ASSUME BoardInv, NEW s \in Session, CommitCompletion(s)
  PROVE  Board!Next
<1> DEFINE done == Covered(s)
           milestones == {t \in Task : Kind[t] = "milestone"}
<1>1. req[s].pc = "held" /\ HeldSound(s)
  BY DEF CommitCompletion, BoardInv
<1>2. req[s].task \in Task /\ req[s].cascade \subseteq Task
  BY <1>1, RequestFields DEF BoardInv, TypeOK, Idle
<1>3. done \in SUBSET Task /\ done # {}
  BY <1>2 DEF Covered
<1>4. \A t \in Task : Phases[t] = PhaseOf(status[t]) /\ status[t] \in Status
  BY DEF Phases, BoardInv, TypeOK
<1>5. \A d \in Deps : d.pred \in Task
  BY DepsAssumption DEF Edge
<1>6. \A t \in done \ milestones : t = req[s].task
  BY <1>1, <1>2 DEF HeldSound, Covered
<1>7. ASSUME NEW t \in done \ milestones PROVE Phases[t] = "review"
  <2>1. status[t] \in {"verified", "approval_pending"}
    BY <1>1, <1>2, <1>4, <1>6, TableFacts DEF HeldSound
  <2> QED
    BY <1>2, <1>4, <1>6, <2>1, PhaseFacts
<1>8. ASSUME NEW m \in done \cap milestones
      PROVE  /\ Phases[m] = "waiting"
             /\ \A d \in Deps : d.succ = m => d.pred \in done \/ Phases[d.pred] = "done"
  <2>1. status[m] = "planned"
    <3>1. CASE m = req[s].task
      BY <1>1, <1>2, <1>4, <3>1, TableFacts
         DEF HeldSound, BoardInv, MilestonesUnreviewed, DecisionServiceOnly
    <3>2. CASE m \in req[s].cascade
      BY <1>1, <3>2 DEF HeldSound
    <3> QED
      BY <3>1, <3>2 DEF Covered
  <2>2. \A d \in Deps : d.succ = m => d.pred \in done \/ status[d.pred] = "completed"
    BY <1>1 DEF HeldSound, Covered, MilestonePredecessorsCompleted
  <2> QED
    BY <1>4, <1>5, <2>1, <2>2, PhaseFacts
<1>9. Phases' = [t \in Task |-> IF t \in done THEN "done" ELSE Phases[t]]
  <2>1. status' = [t \in Task |-> IF t \in done THEN "completed" ELSE status[t]]
    BY DEF CommitCompletion, Covered
  <2>2. PhaseOf("completed") = "done"
    BY PhaseFacts DEF Status
  <2>3. \A t \in Task : PhaseOf(status'[t]) = IF t \in done THEN "done" ELSE Phases[t]
    BY <1>4, <2>1, <2>2
  <2> HIDE DEF done
  <2> QED
    BY <2>3 DEF Phases
<1>10. Board!Finish(done)
  BY <1>3, <1>6, <1>7, <1>8, <1>9 DEF Board!Finish, Phases
<1> QED
  BY <1>3, <1>10 DEF Board!Next

\* The task machinery, with all its transactions, decisions, cascades and
\* failures, implements the board.
THEOREM TasksImplementBoard ==
  ASSUME ~Interference PROVE Spec => ImplementsBoard
<1>1. Init => Board!Init
  <2>1. PhaseOf("planned") = "waiting"
    BY PhaseFacts DEF Status
  <2> QED
    BY <2>1 DEF Init, Board!Init
<1>2. BoardInv /\ [Next]_vars => [Board!Next]_Phases
  <2> SUFFICES ASSUME BoardInv, [Next]_vars PROVE Board!Next \/ Phases' = Phases
    OBVIOUS
  <2>1. ASSUME status' = status PROVE Phases' = Phases
    BY <2>1 DEF Phases
  <2> QED
    BY <2>1, StepCases, CommitOnBoard, CompletionOnBoard
       DEF HoldCompletion, taskVars, Begins, Ends
<1>3. [Board!Next]_Phases <=> Board!Next \/ Phases' = Phases
  OBVIOUS
<1> QED
  BY <1>1, <1>2, BoardInvariant, PTL DEF Spec, ImplementsBoard, Board!Spec, Phases

-----------------------------------------------------------------------------
(* No milestone is forgotten while completions do not overlap, whatever    *)
(* else the requests disturb.                                              *)

\* At most one completing transaction lies between its cascade and its commit.
CompletionsApart ==
  \A s, o \in Session : req[s].pc = "held" /\ req[o].pc = "held" => s = o

\* A cascade that waits for its commit still reaches every milestone it should.
CascadeInv ==
  /\ TypeOK
  /\ NoMilestoneForgotten
  /\ \A s \in Session : req[s].pc = "held" => CascadeClosed(req[s].task, req[s].cascade)

\* Nothing returns to planned, and nothing is completed.
NothingCompletes ==
  \A t \in Task :
    /\ status'[t] = "planned" => status[t] = "planned"
    /\ status'[t] = "completed" => status[t] = "completed"

\* As long as nothing completes, no milestone joins a cascade or becomes due.
LEMMA RestKeepsCascades ==
  ASSUME NothingCompletes, NEW t, NEW done
  PROVE  /\ CascadeClosed(t, done) => CascadeClosed(t, done)'
         /\ NoMilestoneForgotten => NoMilestoneForgotten'
<1>1. DepsAssumption
  BY DepsAssumption
<1>2. ASSUME NEW m \in Task, CascadeReaches(t, done, m)' PROVE CascadeReaches(t, done, m)
  BY <1>2, DepsAssumption DEF CascadeReaches, NothingCompletes, Edge
<1>3. CascadeClosed(t, done) => CascadeClosed(t, done)'
  BY <1>2 DEF CascadeClosed
<1>4. NoMilestoneForgotten => NoMilestoneForgotten'
  BY DepsAssumption DEF NoMilestoneForgotten, MilestonePredecessorsCompleted, NothingCompletes, Edge
<1> QED
  BY <1>3, <1>4

\* A transition() call to any status but completed.
LEMMA CommitCompletesNothing ==
  ASSUME TypeOK, NEW s, NEW r \in Request, NEW current \in Status,
         Permitted(r, current), CommitTransition(s, r)
  PROVE  NothingCompletes
<1>1. r.task \in Task
  BY RequestFields
<1>2. r.target # "planned" /\ r.target # "completed"
  BY DEF Permitted, CommitTransition, Allowed, Status
<1>3. status' = [status EXCEPT ![r.task] = r.target]
  BY DEF CommitTransition
<1> QED
  BY <1>1, <1>2, <1>3 DEF NothingCompletes, TypeOK

\* A step completes nothing and leaves the held completions alone, or holds one
\* with its cascade, or commits one.
LEMMA CompletionCases ==
  ASSUME TypeOK, [Next]_vars
  PROVE  \/ /\ NothingCompletes
            /\ \A o \in Session : req'[o].pc = "held" => req'[o] = req[o]
         \/ \E s \in Session, r \in Request : HoldCompletion(s, r)
         \/ \E s \in Session : CommitCompletion(s)
<1> DEFINE Quiet == /\ NothingCompletes
                    /\ \A o \in Session : req'[o].pc = "held" => req'[o] = req[o]
           Goal == \/ Quiet
                   \/ \E s \in Session, r \in Request : HoldCompletion(s, r)
                   \/ \E s \in Session : CommitCompletion(s)
<1>0. \A s \in Session : req[s].pc \in {"read", "open", "held"} => req[s] \in Request
  BY DEF TypeOK, Idle
<1>1. ASSUME NEW s \in Session, NEW r \in Request, NEW current \in Status,
             Permitted(r, current), CommitTransition(s, r)
      PROVE  Quiet
  <2>1. NothingCompletes
    BY <1>1, CommitCompletesNothing
  <2>2. [r EXCEPT !.pc = "open", !.target = FollowUp(r)].pc # "held"
    BY RequestFields
  <2>3. PICK new : req' = [req EXCEPT ![s] = new] /\ new.pc # "held"
    BY <1>1, <2>2 DEF CommitTransition, Idle
  <2> QED
    BY <2>1, <2>3 DEF TypeOK
<1>2. ASSUME NEW s \in Session, FirstTransition(s) PROVE Goal
  <2>1. req[s] \in Request /\ req[s].seen \in Status
    BY <1>2, <1>0, RequestFields DEF FirstTransition
  <2> QED
    BY <1>1, <1>2, <2>1 DEF FirstTransition
<1>3. ASSUME NEW s \in Session, NextTransition(s) PROVE Goal
  <2>1. req[s] \in Request /\ status[req[s].task] \in Status
    BY <1>3, <1>0, RequestFields DEF NextTransition, TypeOK
  <2> QED
    BY <1>1, <1>3, <2>1 DEF NextTransition
<1>4. ASSUME NEW s \in Session, NEW t \in Task, NEW a \in Actor,
             NEW target \in Status, PortalStatus(s, t, a, target)
      PROVE  Goal
  <2>1. NewRequest("status", t, a, target, 0) \in Request
    BY NewRequestTyped
  <2>2. status[t] \in Status
    BY DEF TypeOK
  <2> QED
    BY <1>1, <1>4, <2>1, <2>2 DEF PortalStatus
<1>5. ASSUME NEW s \in Session, NEW new, new.pc # "held",
             req' = [req EXCEPT ![s] = new], UNCHANGED status
      PROVE  Goal
  BY <1>5 DEF NothingCompletes, TypeOK
<1>6. ASSUME NEW s \in Session, Refuse(s) \/ Fail(s) PROVE Goal
  BY <1>5, <1>6 DEF Refuse, Fail, Idle, taskVars
<1>7. ASSUME NEW s \in Session, NEW t \in Task, NEW a \in Actor, NEW d,
             ReadForVerify(s, t, a, d) \/ ReadForApprove(s, t, a, d) \/ ReadForStatus(s, t, a, d)
      PROVE  Goal
  <2>1. \A kind, about : NewRequest(kind, t, a, d, about).pc # "held"
    BY DEF NewRequest
  <2> QED
    BY <1>5, <1>7, <2>1 DEF ReadForVerify, ReadForApprove, ReadForStatus, taskVars
<1>8. ASSUME UNCHANGED <<status, req>> PROVE Goal
  BY <1>8 DEF NothingCompletes
<1>9. ASSUME NEW t \in Task, NEW a \in Actor, NEW evidence, SubmitProgress(t, a, evidence)
      PROVE  Goal
  BY <1>8, <1>9 DEF SubmitProgress, taskVars
<1>10. ASSUME NEW t \in Task, NEW e \in Employees,
              \/ AssignSupport(t, e)
              \/ \E replacements \in SUBSET Employees : EndSupport(t, e, replacements)
       PROVE  Goal
  BY <1>8, <1>10 DEF AssignSupport, EndSupport, taskVars
<1>11. ASSUME NEW a, ChangeSupervisor(a) PROVE Goal
  BY <1>8, <1>11 DEF ChangeSupervisor, taskVars
<1>12. CASE UNCHANGED vars
  BY <1>8, <1>12 DEF vars, taskVars
<1>13. ASSUME NEW s \in Session, CommitCompletion(s) PROVE Goal
  BY <1>13
<1> HIDE DEF Goal
<1>14. ASSUME NEW s \in Session, Handle(s) \/ Fail(s) PROVE Goal
  BY <1>2, <1>3, <1>6, <1>13, <1>14 DEF Handle
<1>15. ASSUME NEW s \in Session, NEW t \in Task, NEW a \in Actor,
              \/ \E d \in {"verified", "rejected"} : ReadForVerify(s, t, a, d)
              \/ \E d \in {"approved", "rejected"} : ReadForApprove(s, t, a, d)
              \/ \E target \in Status : ReadForStatus(s, t, a, target)
              \/ \E target \in Status : PortalStatus(s, t, a, target)
       PROVE  Goal
  BY <1>4, <1>7, <1>15
<1>16. ASSUME Next PROVE Goal
  BY <1>9, <1>10, <1>11, <1>14, <1>15, <1>16 DEF Next
<1> QED
  BY <1>12, <1>16 DEF Goal

\* One step from a state in which completions do not overlap.
LEMMA CascadeStep ==
  ASSUME CascadeInv, CompletionsApart, TypeOK', [Next]_vars PROVE CascadeInv'
<1>1. CASE /\ NothingCompletes
           /\ \A o \in Session : req'[o].pc = "held" => req'[o] = req[o]
  <2>1. NoMilestoneForgotten'
    BY <1>1, RestKeepsCascades DEF CascadeInv
  <2>2. ASSUME NEW o \in Session, req'[o].pc = "held"
        PROVE  CascadeClosed(req[o].task, req[o].cascade)'
    <3>1. req'[o] = req[o] /\ CascadeClosed(req[o].task, req[o].cascade)
      BY <1>1, <2>2 DEF CascadeInv
    <3>2. PICK t, done : t = req[o].task /\ done = req[o].cascade
      OBVIOUS
    <3>3. CascadeClosed(t, done)'
      BY <1>1, <3>1, <3>2, RestKeepsCascades
    <3> QED
      BY <3>1, <3>2, <3>3 DEF CascadeClosed, CascadeReaches
  <2> QED
    BY <2>1, <2>2 DEF CascadeInv
<1>2. ASSUME NEW s \in Session, NEW r \in Request, HoldCompletion(s, r) PROVE CascadeInv'
  <2>1. /\ UNCHANGED status
        /\ req' = [req EXCEPT ![s] = [r EXCEPT !.pc = "held", !.cascade = Cascade(r.task)]]
    BY <1>2 DEF HoldCompletion, taskVars
  <2>2. NothingCompletes
    BY <2>1 DEF NothingCompletes
  <2>3. NoMilestoneForgotten'
    BY <2>2, RestKeepsCascades DEF CascadeInv
  <2>4. r = [pc |-> r.pc, kind |-> r.kind, task |-> r.task, actor |-> r.actor,
             decision |-> r.decision, target |-> r.target, seen |-> r.seen,
             about |-> r.about, at |-> r.at, cascade |-> r.cascade]
    BY DEF Request, RequestOf
  <2> DEFINE held == [r EXCEPT !.pc = "held", !.cascade = Cascade(r.task)]
  <2>5. held.task = r.task /\ held.cascade = Cascade(r.task)
    BY <2>4
  <2> HIDE DEF held
  <2>6. PICK new : new = held /\ new.task = r.task /\ new.cascade = Cascade(r.task)
    BY <2>5
  <2>7. CascadeClosed(new.task, new.cascade)
    <3>1. CascadeClosed(r.task, Cascade(r.task))
      BY CascadeIsClosed
    <3> QED
      BY <2>6, <3>1
  <2>8. ASSUME NEW o \in Session, req'[o].pc = "held"
        PROVE  CascadeClosed(req[o].task, req[o].cascade)'
    <3>0. req' = [req EXCEPT ![s] = new]
      BY <2>1, <2>6 DEF held
    <3>1. CascadeClosed(req'[o].task, req'[o].cascade)
      BY <2>7, <2>8, <3>0 DEF CascadeInv, TypeOK
    <3>2. PICK t, done : t = req'[o].task /\ done = req'[o].cascade
      OBVIOUS
    <3>3. CascadeClosed(t, done)'
      BY <2>2, <3>1, <3>2, RestKeepsCascades
    <3> QED
      BY <3>2, <3>3 DEF CascadeClosed, CascadeReaches
  <2> QED
    BY <2>3, <2>8 DEF CascadeInv
\* The commit completes all that its cascade reaches; nobody else is about to.
<1>3. ASSUME NEW s \in Session, CommitCompletion(s) PROVE CascadeInv'
  <2> DEFINE t == req[s].task  cascade == req[s].cascade  done == cascade \cup {t}
  <2>1. /\ req[s].pc = "held" /\ CascadeClosed(t, cascade)
        /\ status' = [u \in Task |-> IF u \in done THEN "completed" ELSE status[u]]
        /\ req' = [req EXCEPT ![s] = Idle]
    BY <1>3 DEF CommitCompletion, CascadeInv
  <2>2. \A o \in Session : req'[o].pc # "held"
    BY <2>1 DEF CompletionsApart, Idle, CascadeInv, TypeOK
  <2>3. ASSUME NEW m \in Task, Kind[m] = "milestone", status'[m] = "planned",
               NEW e \in Deps, e.succ = m, MilestonePredecessorsCompleted(m)'
        PROVE  FALSE
    <3>1. m \notin done /\ status[m] = "planned"
      BY <2>1, <2>3
    <3>2. \A d \in Deps : d.pred \in Task /\ d.succ \in Task
      BY DepsAssumption DEF Edge
    <3>3. \A d \in Deps : d.succ = m => d.pred \in done \/ status[d.pred] = "completed"
      BY <2>1, <2>3, <3>2 DEF MilestonePredecessorsCompleted
    <3>4. CASE \E d \in Deps : d.succ = m /\ d.pred \in done
      <4>1. CascadeReaches(t, cascade, m)
        BY <2>3, <3>1, <3>3, <3>4 DEF CascadeReaches
      <4> QED
        BY <2>1, <3>1, <4>1 DEF CascadeClosed
    <3>5. CASE \A d \in Deps : d.succ = m => status[d.pred] = "completed"
      BY <2>3, <3>1, <3>5 DEF CascadeInv, NoMilestoneForgotten, MilestonePredecessorsCompleted
    <3> QED
      BY <3>3, <3>4, <3>5
  <2>4. NoMilestoneForgotten'
    BY <2>3 DEF NoMilestoneForgotten
  <2> QED
    BY <2>2, <2>4 DEF CascadeInv
<1> QED
  BY <1>1, <1>2, <1>3, CompletionCases DEF CascadeInv

\* As long as no two completing transactions overlap, every milestone whose
\* predecessors are all completed is completed by the cascade of the last of
\* them, however other requests disturb each other. When two overlap it may be
\* forgotten, also without any other interference (TaskForgotten).
THEOREM MilestonesAreRemembered ==
  Spec /\ []CompletionsApart => []NoMilestoneForgotten
<1>1. Init => CascadeInv
  BY TypeInit, DepsAssumption
  DEF Init, CascadeInv, NoMilestoneForgotten, MilestonePredecessorsCompleted, Idle, Edge
<1>2. CascadeInv /\ CompletionsApart /\ TypeOK' /\ [Next]_vars => CascadeInv'
  BY CascadeStep
<1>3. CascadeInv => NoMilestoneForgotten
  BY DEF CascadeInv
<1> QED
  BY <1>1, <1>2, <1>3, TypeCorrect, PTL DEF Spec
=============================================================================
