----------------------- MODULE ExternalApprovalProofs -----------------------
(***************************************************************************)
(* Theorems about ExternalApproval, for every set of gates, employees and  *)
(* threads and every bound.  Requests may race in every way the model has. *)
(***************************************************************************)
EXTENDS ExternalApproval, SequenceTheorems, FiniteSetTheorems, TLAPS

Submission == [by : Employee, session : Nat]

\* What a request carries while it runs: the guard its read has passed, and
\* the session it is about.
RequestFits(r) ==
  /\ r.kind \in GateWriting =>
       /\ r.gate \in Gate
       /\ r.seen.status \in AcceptedFrom(r.kind)
       /\ DecisionComplete(r.seen) /\ AssignmentComplete(r.seen)
  /\ r.kind \in Submitting => r.who \in Employee /\ r.seen.assignee = r.who
  /\ r.kind \in {"assign", "reassign", "open"} => r.who \in Employee
  /\ r.kind \in {"open", "closing"} => r.gate \in Gate
  /\ r.kind \in {"close", "closing", "message", "cancel"} =>
       r.session \in DOMAIN sessions /\ r.gate = sessions[r.session].gate
  /\ r.kind \notin {"close", "closing", "message"} => r.items = 0
  /\ r.kind = "closing" =>
       \E n \in DOMAIN submissions[r.gate] : submissions[r.gate][n].session = r.session

RequestsFit == \A t \in Thread : RequestFits(req[t])

SlotsAreUnique ==
  \A i, j \in DOMAIN sessions :
    IsOpen(i) /\ IsOpen(j) /\ sessions[i].by = sessions[j].by => i = j

\* The inductive invariant.
GateInv ==
  /\ TypeOK
  /\ RequestsFit
  /\ SlotsAreUnique
  /\ ClosedWasSubmitted
  /\ ReviewIsOfTheAssignee
  /\ OneDecisionPerSubmission

\* No session row is taken back, and no submission: what a step may do to them.
SessionsGrow ==
  /\ sessions' \in Seq(SessionRow)
  /\ DOMAIN sessions \subseteq DOMAIN sessions'
  /\ \A i \in DOMAIN sessions :
       sessions'[i].gate = sessions[i].gate /\ sessions'[i].by = sessions[i].by

SubmissionsGrow ==
  /\ submissions' \in [Gate -> Seq(Submission)]
  /\ \A g \in Gate :
       /\ DOMAIN submissions[g] \subseteq DOMAIN submissions'[g]
       /\ \A n \in DOMAIN submissions[g] : submissions'[g][n] = submissions[g][n]

-----------------------------------------------------------------------------
(* Facts about the pieces.                                                 *)

LEMMA TypeFacts ==
  ASSUME TypeOK
  PROVE  /\ \A t \in Thread : req[t] \in Request
         /\ \A g \in Gate : gate[g] \in Row /\ submissions[g] \in Seq(Submission)
         /\ \A g \in Gate : decisions[g] \in Nat /\ raced[g] \in BOOLEAN
         /\ \A i \in DOMAIN sessions : sessions[i] \in SessionRow
         /\ DOMAIN sessions = 1 .. Len(sessions) /\ Len(sessions) \in Nat
         /\ DOMAIN sessions \subseteq Nat
<1>1. sessions \in Seq(SessionRow)
  BY DEF TypeOK
<1>2. DOMAIN sessions = 1 .. Len(sessions) /\ Len(sessions) \in Nat
  BY <1>1
<1>3. \A i \in DOMAIN sessions : sessions[i] \in SessionRow
  BY <1>1, <1>2, ElementOfSeq
<1>4. submissions \in [Gate -> Seq(Submission)]
  BY DEF TypeOK, Submission
<1>5. /\ gate \in [Gate -> Row] /\ req \in [Thread -> Request]
      /\ decisions \in [Gate -> Nat] /\ raced \in [Gate -> BOOLEAN]
  BY DEF TypeOK
<1> QED
  BY <1>2, <1>3, <1>4, <1>5

LEMMA IdleFits == Idle \in Request /\ RequestFits(Idle)
<1>1. Unassigned \in Row
  BY DEF Unassigned, Row, GateStatus
<1> QED
  BY <1>1 DEF Idle, Request, Kind, RequestFits, GateWriting, Submitting, Deciding

\* A request that fits still fits when sessions and submissions grow.
LEMMA FitsAfterGrowth ==
  ASSUME NEW r \in Request, RequestFits(r), SessionsGrow, SubmissionsGrow
  PROVE  RequestFits(r)'
<1>1. r.kind \in {"close", "closing", "message", "cancel"} =>
        r.session \in DOMAIN sessions' /\ r.gate = sessions'[r.session].gate
  BY DEF RequestFits, SessionsGrow
<1>2. r.kind = "closing" =>
        \E n \in DOMAIN submissions'[r.gate] : submissions'[r.gate][n].session = r.session
  BY DEF RequestFits, SubmissionsGrow
<1> QED
  BY <1>1, <1>2 DEF RequestFits

\* An update of one session row.
LEMMA RowUpdated ==
  ASSUME TypeOK, NEW i \in DOMAIN sessions, NEW row \in SessionRow,
         row.gate = sessions[i].gate, row.by = sessions[i].by,
         sessions' = [sessions EXCEPT ![i] = row]
  PROVE  /\ SessionsGrow
         /\ DOMAIN sessions' = DOMAIN sessions
         /\ sessions'[i] = row
         /\ \A j \in DOMAIN sessions : j # i => sessions'[j] = sessions[j]
<1>1. sessions \in Seq(SessionRow) /\ i \in 1 .. Len(sessions)
  BY TypeFacts DEF TypeOK
<1>2. /\ sessions' \in Seq(SessionRow)
      /\ Len(sessions') = Len(sessions)
      /\ \A j \in 1 .. Len(sessions) : sessions'[j] = IF j = i THEN row ELSE sessions[j]
  <2>1. [sessions EXCEPT ![i] = row] \in Seq(SessionRow)
    BY <1>1, ExceptSeq
  <2>2. Len([sessions EXCEPT ![i] = row]) = Len(sessions)
    BY <1>1, ExceptSeq
  <2>3. \A j \in 1 .. Len(sessions) :
          [sessions EXCEPT ![i] = row][j] = IF j = i THEN row ELSE sessions[j]
    BY <1>1
  <2> QED
    BY <2>1, <2>2, <2>3
<1>3. DOMAIN sessions' = 1 .. Len(sessions') /\ DOMAIN sessions = 1 .. Len(sessions)
  BY <1>1, <1>2
<1> QED
  BY <1>1, <1>2, <1>3 DEF SessionsGrow

\* The session invariants survive an update of one row that reopens nothing
\* and closes it only when its evidence was submitted.
LEMMA RowUpdateKeeps ==
  ASSUME GateInv, NEW i \in DOMAIN sessions, NEW row \in SessionRow,
         row.gate = sessions[i].gate, row.by = sessions[i].by,
         ~row.closed /\ ~row.expired => IsOpen(i),
         row.closed => \/ sessions[i].closed
                       \/ \E n \in DOMAIN submissions[row.gate] :
                            submissions[row.gate][n].session = i,
         sessions' = [sessions EXCEPT ![i] = row],
         silent' \subseteq silent, row.closed \/ row.expired => i \notin silent',
         SubmissionsGrow
  PROVE  /\ SessionsGrow
         /\ DOMAIN sessions' = DOMAIN sessions
         /\ SlotsAreUnique'
         /\ ClosedWasSubmitted'
         /\ silent' \subseteq {j \in DOMAIN sessions' : IsOpen(j)'}
<1>1. /\ SessionsGrow
      /\ DOMAIN sessions' = DOMAIN sessions
      /\ sessions'[i] = row
      /\ \A j \in DOMAIN sessions : j # i => sessions'[j] = sessions[j]
  BY RowUpdated DEF GateInv
<1>2. SlotsAreUnique'
  BY <1>1 DEF GateInv, SlotsAreUnique, IsOpen
<1>3. ClosedWasSubmitted'
  <2> SUFFICES ASSUME NEW j \in DOMAIN sessions', sessions'[j].closed
               PROVE  \E n \in DOMAIN submissions'[sessions'[j].gate] :
                        submissions'[sessions'[j].gate][n].session = j
    BY DEF ClosedWasSubmitted
  <2>1. sessions[j].gate \in Gate /\ sessions'[j].gate = sessions[j].gate
    BY <1>1, TypeFacts DEF GateInv, SessionRow
  <2>2. \E n \in DOMAIN submissions[sessions[j].gate] :
          submissions[sessions[j].gate][n].session = j
    BY <1>1 DEF GateInv, ClosedWasSubmitted
  <2> QED
    BY <2>1, <2>2 DEF SubmissionsGrow
<1>4. silent' \subseteq {j \in DOMAIN sessions' : IsOpen(j)'}
  <2> SUFFICES ASSUME NEW j \in silent'
               PROVE  j \in DOMAIN sessions' /\ IsOpen(j)'
    OBVIOUS
  <2>1. j \in DOMAIN sessions /\ IsOpen(j)
    BY DEF GateInv, TypeOK
  <2> QED
    BY <1>1, <2>1 DEF IsOpen
<1> QED
  BY <1>1, <1>2, <1>3, <1>4

\* Requests fit after one of them moves on.
LEMMA FitsAfterMove ==
  ASSUME GateInv, SessionsGrow, SubmissionsGrow,
         NEW t \in Thread, NEW r \in Request, RequestFits(r)',
         req' = [req EXCEPT ![t] = r]
  PROVE  req' \in [Thread -> Request] /\ RequestsFit'
<1>1. req' \in [Thread -> Request]
  BY DEF GateInv, TypeOK
<1>2. ASSUME NEW u \in Thread PROVE RequestFits(req[u])'
  <2>1. CASE u = t
    <3>1. req'[u] = r
      BY <2>1 DEF GateInv, TypeOK
    <3> QED
      BY <3>1 DEF RequestFits
  <2>2. CASE u # t
    <3>1. req'[u] = req[u]
      BY <2>2 DEF GateInv, TypeOK
    <3>2. req[u] \in Request /\ RequestFits(req[u])
      BY TypeFacts DEF GateInv, RequestsFit
    <3> DEFINE old == req[u]
    <3>3. \A x \in Request : RequestFits(x) => RequestFits(x)'
      BY FitsAfterGrowth
    <3> QED
      BY <3>1, <3>2, <3>3 DEF RequestFits
  <2> QED
    BY <2>1, <2>2
<1> QED
  BY <1>1, <1>2 DEF RequestsFit

LEMMA NothingSubmitted == TypeOK /\ submissions' = submissions => SubmissionsGrow
BY TypeFacts DEF TypeOK, SubmissionsGrow, Submission

LEMMA NoSessionTouched == TypeOK /\ sessions' = sessions => SessionsGrow
BY DEF TypeOK, SessionsGrow

\* A step that leaves the gates alone keeps what is said of them.
LEMMA QuietGates ==
  ASSUME GateInv, UNCHANGED gateVars,
         SessionsGrow, SlotsAreUnique', ClosedWasSubmitted',
         silent' \subseteq {i \in DOMAIN sessions' : IsOpen(i)'},
         sweep' \subseteq DOMAIN sessions',
         req' \in [Thread -> Request], RequestsFit',
         requests' \in Nat, failures' \in Nat
  PROVE  GateInv'
<1>1. TypeOK'
  BY DEF GateInv, TypeOK, gateVars, SessionsGrow, DecisionComplete, AssignmentComplete
<1>2. ReviewIsOfTheAssignee' /\ OneDecisionPerSubmission'
  BY DEF GateInv, gateVars, ReviewIsOfTheAssignee, OneDecisionPerSubmission
<1> QED
  BY <1>1, <1>2 DEF GateInv

\* The session invariants survive a step without a session in it.
LEMMA QuietSessions ==
  ASSUME GateInv, sessions' = sessions, silent' = silent, SubmissionsGrow
  PROVE  /\ SessionsGrow
         /\ SlotsAreUnique' /\ ClosedWasSubmitted'
         /\ silent' \subseteq {i \in DOMAIN sessions' : IsOpen(i)'}
<1>1. SessionsGrow
  BY NoSessionTouched DEF GateInv
<1>2. SlotsAreUnique'
  BY DEF GateInv, SlotsAreUnique, IsOpen
<1>3. ClosedWasSubmitted'
  <2> SUFFICES ASSUME NEW i \in DOMAIN sessions, sessions[i].closed
               PROVE  \E n \in DOMAIN submissions'[sessions[i].gate] :
                        submissions'[sessions[i].gate][n].session = i
    BY DEF ClosedWasSubmitted
  <2>1. sessions[i].gate \in Gate
    BY TypeFacts DEF GateInv, SessionRow
  <2> QED
    BY <2>1 DEF GateInv, ClosedWasSubmitted, SubmissionsGrow
<1>4. silent' \subseteq {i \in DOMAIN sessions' : IsOpen(i)'}
  BY DEF GateInv, TypeOK, IsOpen
<1> QED
  BY <1>1, <1>2, <1>3, <1>4

-----------------------------------------------------------------------------
(* The invariant, action by action.                                        *)

LEMMA BeginKeeps ==
  ASSUME GateInv, NEW t \in Thread, NEW r \in Request, RequestFits(r), Begin(t, r)
  PROVE  GateInv'
<1> USE DEF Begin
<1>1. /\ req' = [req EXCEPT ![t] = r]
      /\ sessions' = sessions /\ silent' = silent /\ submissions' = submissions
      /\ sweep' = sweep /\ requests' = requests + 1 /\ failures' = failures
      /\ UNCHANGED gateVars
  BY DEF gateVars, sessionVars
<1>2. SubmissionsGrow
  BY <1>1, NothingSubmitted DEF GateInv
<1>3. /\ SessionsGrow
      /\ SlotsAreUnique' /\ ClosedWasSubmitted'
      /\ silent' \subseteq {i \in DOMAIN sessions' : IsOpen(i)'}
  BY <1>1, <1>2, QuietSessions
<1>4. RequestFits(r)'
  BY <1>2, <1>3, FitsAfterGrowth
<1>5. req' \in [Thread -> Request] /\ RequestsFit'
  BY <1>1, <1>2, <1>3, <1>4, FitsAfterMove
<1>6. sweep' \subseteq DOMAIN sessions' /\ requests' \in Nat /\ failures' \in Nat
  BY <1>1 DEF GateInv, TypeOK
<1> QED
  BY <1>1, <1>3, <1>5, <1>6, QuietGates

\* What NewRequest() builds.
LEMMA NewRequestFields ==
  ASSUME TypeOK, NEW kind \in Kind, NEW g \in Gate, NEW e \in Employee \cup {Nobody},
         NEW i \in Nat, NEW n \in Nat
  PROVE  LET r == NewRequest(kind, g, e, i, n) IN
         /\ r \in Request
         /\ r.kind = kind /\ r.gate = g /\ r.who = e /\ r.session = i /\ r.items = n
         /\ kind \in GateWriting => r.seen = gate[g]
<1>1. gate[g] \in Row /\ Unassigned \in Row
  BY TypeFacts DEF Unassigned, Row, GateStatus
<1> QED
  BY <1>1 DEF NewRequest, Idle, Request

LEMMA PortalKeeps ==
  ASSUME GateInv, NEW t \in Thread, NEW g \in Gate, NEW kind, NEW e,
         ReadGate(t, kind, g, e),
         \/ kind \in {"assign", "reassign", "submit"} /\ e \in Employee
         \/ kind \in {"unassign", "approve", "reject"} /\ e = Nobody
  PROVE  GateInv'
<1> DEFINE r == NewRequest(kind, g, e, 0, 0)
<1>1. kind \in GateWriting /\ kind \in Kind /\ e \in Employee \cup {Nobody}
  BY DEF GateWriting, Submitting, Deciding, Kind
<1>2. /\ r \in Request
      /\ r.kind = kind /\ r.gate = g /\ r.who = e /\ r.items = 0 /\ r.seen = gate[g]
  BY <1>1, NewRequestFields DEF GateInv
<1>3. /\ gate[g].status \in AcceptedFrom(kind)
      /\ kind = "submit" => gate[g].assignee = e
  BY DEF ReadGate, Accepts, AssigneeOnly
<1>4. DecisionComplete(gate[g]) /\ AssignmentComplete(gate[g])
  BY DEF GateInv, TypeOK
<1>5. RequestFits(r)
  <2> HIDE DEF r
  <2> QED
    BY <1>2, <1>3, <1>4 DEF RequestFits, Submitting
<1>6. Begin(t, r)
  BY DEF ReadGate
<1> HIDE DEF r
<1> QED
  BY <1>2, <1>5, <1>6, BeginKeeps

LEMMA ChatKeeps ==
  ASSUME GateInv, NEW t \in Thread, Chat(t)
  PROVE  GateInv'
<1>1. ASSUME NEW g \in Gate, NEW e \in Employee, ReadOpen(t, g, e)
      PROVE  GateInv'
  <2> DEFINE r == NewRequest("open", g, e, 0, 0)
  <2>1. "open" \in Kind /\ "open" \notin GateWriting
    BY DEF Kind, GateWriting, Submitting, Deciding
  <2>2. r \in Request /\ r.kind = "open" /\ r.gate = g /\ r.who = e /\ r.items = 0
    BY <2>1, NewRequestFields DEF GateInv
  <2>3. RequestFits(r)
    <3> HIDE DEF r
    <3> QED
      BY <2>1, <2>2 DEF RequestFits, Submitting
  <2>4. Begin(t, r)
    BY <1>1 DEF ReadOpen
  <2> HIDE DEF r
  <2> QED
    BY <2>2, <2>3, <2>4, BeginKeeps
<1>2. ASSUME NEW i \in DOMAIN sessions, NEW kind, NEW n \in Nat,
             kind \in {"message", "cancel"}, kind = "cancel" => n = 0,
             Begin(t, NewRequest(kind, sessions[i].gate, sessions[i].by, i, n))
      PROVE  GateInv'
  <2> DEFINE r == NewRequest(kind, sessions[i].gate, sessions[i].by, i, n)
  <2>1. kind \in Kind /\ kind \notin GateWriting
    BY <1>2 DEF Kind, GateWriting, Submitting, Deciding
  <2>2. sessions[i].gate \in Gate /\ sessions[i].by \in Employee /\ i \in Nat
    BY TypeFacts DEF GateInv, SessionRow
  <2>3. /\ r \in Request /\ r.kind = kind /\ r.gate = sessions[i].gate
        /\ r.session = i /\ r.items = n
    BY <2>1, <2>2, NewRequestFields DEF GateInv
  <2>4. RequestFits(r)
    <3> HIDE DEF r
    <3> QED
      BY <1>2, <2>1, <2>3 DEF RequestFits, Submitting
  <2>5. Begin(t, r)
    BY <1>2
  <2> HIDE DEF r
  <2> QED
    BY <2>3, <2>4, <2>5, BeginKeeps
<1>3. ASSUME NEW i \in DOMAIN sessions, NEW note \in {0, 1}, ReadClose(t, i, note)
      PROVE  GateInv'
  <2> DEFINE r == NewRequest("close", sessions[i].gate, sessions[i].by, i, note)
  <2>1. "close" \in Kind /\ "close" \in GateWriting
    BY DEF Kind, GateWriting, Submitting, Deciding
  <2>2. sessions[i].gate \in Gate /\ sessions[i].by \in Employee /\ i \in Nat
    BY TypeFacts DEF GateInv, SessionRow
  <2>3. /\ r \in Request /\ r.kind = "close" /\ r.gate = sessions[i].gate
        /\ r.who = sessions[i].by /\ r.session = i /\ r.seen = gate[sessions[i].gate]
    BY <2>1, <2>2, NewRequestFields DEF GateInv
  <2>4. /\ gate[sessions[i].gate].status \in AcceptedFrom("close")
        /\ gate[sessions[i].gate].assignee = sessions[i].by
    BY <1>3 DEF ReadClose, Accepts, AssigneeOnly
  <2>5. DecisionComplete(gate[sessions[i].gate]) /\ AssignmentComplete(gate[sessions[i].gate])
    BY <2>2 DEF GateInv, TypeOK
  <2>6. RequestFits(r)
    <3> HIDE DEF r
    <3> QED
      BY <2>1, <2>2, <2>3, <2>4, <2>5 DEF RequestFits, Submitting
  <2>7. Begin(t, r)
    BY <1>3 DEF ReadClose
  <2> HIDE DEF r
  <2> QED
    BY <2>3, <2>6, <2>7, BeginKeeps
<1>4. ASSUME GateDecide(t) PROVE GateInv'
  BY <1>4, PortalKeeps DEF GateDecide, Deciding
<1> QED
  BY <1>1, <1>2, <1>3, <1>4 DEF Chat, ReadMessage, ReadCancel

LEMMA IdleFitsLater == RequestFits(Idle)'
BY DEF Idle, RequestFits, GateWriting, Submitting, Deciding

\* A request that ends without a trace, its sessions and gates untouched.
LEMMA DropKeeps ==
  ASSUME GateInv, NEW t \in Thread, req' = [req EXCEPT ![t] = Idle],
         UNCHANGED gateVars, UNCHANGED sessionVars,
         sweep' = sweep, requests' = requests, failures' \in Nat
  PROVE  GateInv'
<1>1. sessions' = sessions /\ silent' = silent /\ submissions' = submissions
  BY DEF gateVars, sessionVars
<1>2. SubmissionsGrow
  BY <1>1, NothingSubmitted DEF GateInv
<1>3. /\ SessionsGrow
      /\ SlotsAreUnique' /\ ClosedWasSubmitted'
      /\ silent' \subseteq {i \in DOMAIN sessions' : IsOpen(i)'}
  BY <1>1, <1>2, QuietSessions
<1>4. req' \in [Thread -> Request] /\ RequestsFit'
  BY <1>2, <1>3, IdleFits, IdleFitsLater, FitsAfterMove
<1>5. sweep' \subseteq DOMAIN sessions' /\ requests' \in Nat
  BY <1>1 DEF GateInv, TypeOK
<1> QED
  BY <1>3, <1>4, <1>5, QuietGates

\* An update of one session row by a step that touches no gate.
LEMMA RowStepKeeps ==
  ASSUME GateInv, UNCHANGED gateVars,
         NEW i \in DOMAIN sessions, NEW row \in SessionRow,
         row.gate = sessions[i].gate, row.by = sessions[i].by,
         ~row.closed /\ ~row.expired => IsOpen(i),
         row.closed => \/ sessions[i].closed
                       \/ \E n \in DOMAIN submissions[row.gate] :
                            submissions[row.gate][n].session = i,
         sessions' = [sessions EXCEPT ![i] = row], silent' = silent \ {i},
         sweep' \subseteq sweep, requests' \in Nat, failures' = failures,
         \/ req' = req
         \/ \E t \in Thread : req' = [req EXCEPT ![t] = Idle]
  PROVE  GateInv'
<1>1. SubmissionsGrow
  BY NothingSubmitted DEF GateInv, gateVars
<1>2. /\ SessionsGrow
      /\ DOMAIN sessions' = DOMAIN sessions
      /\ SlotsAreUnique' /\ ClosedWasSubmitted'
      /\ silent' \subseteq {j \in DOMAIN sessions' : IsOpen(j)'}
  BY <1>1, RowUpdateKeeps
<1>3. req' \in [Thread -> Request] /\ RequestsFit'
  <2>1. CASE req' = req
    <3>1. \A r \in Request : RequestFits(r) => RequestFits(r)'
      BY <1>1, <1>2, FitsAfterGrowth
    <3> QED
      BY <2>1, <3>1, TypeFacts DEF GateInv, TypeOK, RequestsFit, RequestFits
  <2>2. CASE \E t \in Thread : req' = [req EXCEPT ![t] = Idle]
    BY <1>1, <1>2, <2>2, IdleFits, IdleFitsLater, FitsAfterMove
  <2> QED
    BY <2>1, <2>2
<1>4. sweep' \subseteq DOMAIN sessions' /\ requests' \in Nat /\ failures' \in Nat
  BY <1>2 DEF GateInv, TypeOK
<1> QED
  BY <1>2, <1>3, <1>4, QuietGates

LEMMA FinishCloseKeeps ==
  ASSUME GateInv, NEW t \in Thread, FinishClose(t)
  PROVE  GateInv'
<1> DEFINE i == req[t].session
           row == [sessions[i] EXCEPT !.closed = TRUE]
<1>1. /\ i \in DOMAIN sessions /\ req[t].gate = sessions[i].gate
      /\ \E n \in DOMAIN submissions[req[t].gate] :
           submissions[req[t].gate][n].session = i
  BY DEF FinishClose, GateInv, RequestsFit, RequestFits
<1>2. row \in SessionRow /\ row.gate = sessions[i].gate /\ row.by = sessions[i].by /\ row.closed
  BY <1>1, TypeFacts DEF GateInv, SessionRow
<1>3. /\ sessions' = [sessions EXCEPT ![i] = row] /\ silent' = silent \ {i}
      /\ req' = [req EXCEPT ![t] = Idle]
      /\ UNCHANGED gateVars /\ sweep' = sweep /\ requests' = requests /\ failures' = failures
  BY DEF FinishClose
<1>4. requests' \in Nat
  BY <1>3 DEF GateInv, TypeOK
<1> HIDE DEF i, row
<1> QED
  BY <1>1, <1>2, <1>3, <1>4, RowStepKeeps

LEMMA CommitMessageKeeps ==
  ASSUME GateInv, NEW t \in Thread, CommitMessage(t)
  PROVE  GateInv'
<1> DEFINE i == req[t].session
           row == [sessions[i] EXCEPT !.items = @ + 1]
<1>1. i \in DOMAIN sessions
  BY DEF CommitMessage, GateInv, RequestsFit, RequestFits
<1>2. /\ row \in SessionRow /\ row.gate = sessions[i].gate /\ row.by = sessions[i].by
      /\ row.closed = sessions[i].closed /\ row.expired = sessions[i].expired
  BY <1>1, TypeFacts DEF GateInv, SessionRow
<1>3. /\ sessions' = [sessions EXCEPT ![i] = row] /\ silent' = silent \ {i}
      /\ req' = [req EXCEPT ![t] = Idle]
      /\ UNCHANGED gateVars /\ sweep' = sweep /\ requests' = requests /\ failures' = failures
  BY DEF CommitMessage
<1>4. requests' \in Nat /\ (~row.closed /\ ~row.expired => IsOpen(i))
  BY <1>2, <1>3 DEF GateInv, TypeOK, IsOpen
<1> HIDE DEF i, row
<1> QED
  BY <1>1, <1>2, <1>3, <1>4, RowStepKeeps

\* GATECANCEL and the sweep: the session expires.
LEMMA ExpireKeeps ==
  ASSUME GateInv, NEW i \in DOMAIN sessions,
         sessions' = [sessions EXCEPT ![i].expired = TRUE], silent' = silent \ {i},
         UNCHANGED gateVars, sweep' \subseteq sweep,
         requests' = requests, failures' = failures,
         \/ req' = req
         \/ \E t \in Thread : req' = [req EXCEPT ![t] = Idle]
  PROVE  GateInv'
<1> DEFINE row == [sessions[i] EXCEPT !.expired = TRUE]
<1>1. /\ row \in SessionRow /\ row.gate = sessions[i].gate /\ row.by = sessions[i].by
      /\ row.closed = sessions[i].closed /\ row.expired
  BY TypeFacts DEF GateInv, SessionRow
<1>2. sessions' = [sessions EXCEPT ![i] = row] /\ requests' \in Nat
  BY DEF GateInv, TypeOK
<1> HIDE DEF row
<1> QED
  BY <1>1, <1>2, RowStepKeeps

LEMMA CommitCancelKeeps ==
  ASSUME GateInv, NEW t \in Thread, CommitCancel(t)
  PROVE  GateInv'
<1>1. req[t].session \in DOMAIN sessions
  BY DEF CommitCancel, GateInv, RequestsFit, RequestFits
<1> QED
  BY <1>1, ExpireKeeps DEF CommitCancel

LEMMA SweepExpireKeeps ==
  ASSUME GateInv, NEW i \in sweep, SweepExpire(i)
  PROVE  GateInv'
<1>1. i \in DOMAIN sessions
  BY DEF GateInv, TypeOK
<1> QED
  BY <1>1, ExpireKeeps DEF SweepExpire

LEMMA RefuseCloseKeeps ==
  ASSUME GateInv, NEW i \in DOMAIN sessions, RefuseClose(i)
  PROVE  GateInv'
<1> DEFINE row == [sessions[i] EXCEPT !.items = @ + 1]
<1>1. /\ row \in SessionRow /\ row.gate = sessions[i].gate /\ row.by = sessions[i].by
      /\ row.closed = sessions[i].closed /\ row.expired = sessions[i].expired
  BY TypeFacts DEF GateInv, SessionRow
<1>2. /\ sessions' = [sessions EXCEPT ![i] = row] /\ silent' = silent \ {i}
      /\ UNCHANGED gateVars /\ req' = req /\ sweep' = sweep
      /\ requests' = requests + 1 /\ failures' = failures
  BY DEF RefuseClose
<1>3. requests' \in Nat /\ IsOpen(i)
  BY <1>2 DEF GateInv, TypeOK, RefuseClose
<1> HIDE DEF row
<1> QED
  BY <1>1, <1>2, <1>3, RowStepKeeps

\* Steps that leave gates, sessions and requests alone.
LEMMA BackgroundKeeps ==
  ASSUME GateInv, UNCHANGED gateVars, sessions' = sessions, req' = req, requests' = requests,
         silent' \subseteq {i \in DOMAIN sessions : IsOpen(i)},
         sweep' \subseteq DOMAIN sessions, failures' \in Nat
  PROVE  GateInv'
<1>1. SessionsGrow /\ SubmissionsGrow
  BY NothingSubmitted, NoSessionTouched DEF GateInv, gateVars
<1>2. SlotsAreUnique'
  BY DEF GateInv, SlotsAreUnique, IsOpen
<1>3. ClosedWasSubmitted'
  BY DEF GateInv, ClosedWasSubmitted, gateVars
<1>4. silent' \subseteq {i \in DOMAIN sessions' : IsOpen(i)'}
  BY DEF IsOpen
<1>5. req' \in [Thread -> Request] /\ requests' \in Nat
  BY DEF GateInv, TypeOK
<1>6. RequestsFit'
  BY DEF GateInv, RequestsFit, RequestFits, gateVars
<1> QED
  BY <1>1, <1>2, <1>3, <1>4, <1>5, <1>6, QuietGates

\* GATEOPEN commits: its session is the employee's only open one.
LEMMA CommitOpenKeeps ==
  ASSUME GateInv, NEW t \in Thread, CommitOpen(t)
  PROVE  GateInv'
<1> DEFINE r == req[t]
           new == NewSession(r.gate, r.who)
<1>1. /\ r.kind = "open" /\ req' = [req EXCEPT ![t] = Idle]
      /\ UNCHANGED gateVars /\ silent' = silent /\ sweep' = sweep
      /\ requests' = requests /\ failures' = failures
      /\ sessions' = IF SlotIsFree(r.who) THEN Append(sessions, new) ELSE sessions
  BY DEF CommitOpen
<1>2. CASE ~SlotIsFree(r.who)
  <2>1. sessions' = sessions /\ UNCHANGED sessionVars /\ failures' \in Nat
    BY <1>1, <1>2 DEF sessionVars, GateInv, TypeOK
  <2> QED
    BY <1>1, <2>1, DropKeeps
<1>3. CASE SlotIsFree(r.who)
  <2>1. /\ r.gate \in Gate /\ r.who \in Employee
    BY <1>1 DEF GateInv, RequestsFit, RequestFits
  <2>2. /\ new \in SessionRow /\ new.by = r.who
        /\ ~new.closed /\ ~new.expired
    BY <2>1 DEF NewSession, SessionRow
  <2>3. sessions \in Seq(SessionRow) /\ sessions' = Append(sessions, new)
    BY <1>1, <1>3 DEF GateInv, TypeOK
  <2>a. Len(sessions) \in Nat /\ DOMAIN sessions = 1 .. Len(sessions)
    BY <2>3
  <2>4. /\ sessions' \in Seq(SessionRow)
        /\ DOMAIN sessions' = 1 .. (Len(sessions) + 1)
        /\ \A i \in DOMAIN sessions : sessions'[i] = sessions[i]
        /\ sessions'[Len(sessions) + 1] = new
    BY <2>2, <2>3, <2>a, AppendProperties
  <2>5. \A i \in DOMAIN sessions' : i \in DOMAIN sessions \/ i = Len(sessions) + 1
    BY <2>4, <2>a
  <2>6. DOMAIN sessions \subseteq DOMAIN sessions' /\ Len(sessions) + 1 \notin DOMAIN sessions
    BY <2>4, <2>a
  <2>7. SessionsGrow
    BY <2>4, <2>6 DEF SessionsGrow
  <2>8. SubmissionsGrow
    BY <1>1, NothingSubmitted DEF GateInv, gateVars
  <2>9. SlotsAreUnique'
    <3> SUFFICES ASSUME NEW i \in DOMAIN sessions', NEW j \in DOMAIN sessions',
                        IsOpen(i)', IsOpen(j)', sessions'[i].by = sessions'[j].by
                 PROVE  i = j
      BY DEF SlotsAreUnique
    <3>1. \A k \in DOMAIN sessions : IsOpen(k) => sessions[k].by # r.who
      BY <1>3 DEF SlotIsFree, OpenSessions
    <3>2. \A k \in DOMAIN sessions : IsOpen(k)' => IsOpen(k) /\ sessions'[k].by = sessions[k].by
      BY <2>4 DEF IsOpen
    <3>3. CASE i \in DOMAIN sessions /\ j \in DOMAIN sessions
      BY <3>2, <3>3 DEF GateInv, SlotsAreUnique
    <3>4. CASE i \in DOMAIN sessions /\ j = Len(sessions) + 1
      BY <2>2, <2>4, <3>1, <3>2, <3>4
    <3>5. CASE j \in DOMAIN sessions /\ i = Len(sessions) + 1
      BY <2>2, <2>4, <3>1, <3>2, <3>5
    <3> QED
      BY <2>5, <3>3, <3>4, <3>5
  <2>10. ClosedWasSubmitted'
    <3> SUFFICES ASSUME NEW i \in DOMAIN sessions', sessions'[i].closed
                 PROVE  \E n \in DOMAIN submissions'[sessions'[i].gate] :
                          submissions'[sessions'[i].gate][n].session = i
      BY DEF ClosedWasSubmitted
    <3>1. i \in DOMAIN sessions
      BY <2>2, <2>4, <2>5
    <3> QED
      BY <1>1, <2>4, <3>1 DEF GateInv, ClosedWasSubmitted, gateVars
  <2>11. silent' \subseteq {i \in DOMAIN sessions' : IsOpen(i)'}
    BY <1>1, <2>4, <2>6 DEF GateInv, TypeOK, IsOpen
  <2>12. req' \in [Thread -> Request] /\ RequestsFit'
    BY <1>1, <2>7, <2>8, IdleFits, IdleFitsLater, FitsAfterMove
  <2>13. sweep' \subseteq DOMAIN sessions' /\ requests' \in Nat /\ failures' \in Nat
    BY <1>1, <2>6 DEF GateInv, TypeOK
  <2> QED
    BY <1>1, <2>7, <2>9, <2>10, <2>11, <2>12, <2>13, QuietGates
<1> QED
  BY <1>2, <1>3

-----------------------------------------------------------------------------
(* The commit of a request that writes a gate.                             *)

\* What a request that writes a gate holds when it commits.
LEMMA WriterFacts ==
  ASSUME GateInv, NEW t \in Thread, req[t].kind \in GateWriting
  PROVE  LET r == req[t] IN
         /\ r \in Request /\ r.gate \in Gate /\ r.seen \in Row
         /\ r.kind \in {"submit", "close", "approve", "reject", "assign", "reassign", "unassign"}
         /\ r.seen.status \in AcceptedFrom(r.kind)
         /\ ~r.seen.decided /\ AssignmentComplete(r.seen)
         /\ r.kind \in Submitting => r.who \in Employee /\ r.seen.assignee = r.who
         /\ r.kind \in {"assign", "reassign"} => r.who \in Employee
         /\ r.session \in Nat /\ r.items \in Nat
         /\ gate[r.gate] \in Row
<1>1. req[t] \in Request /\ RequestFits(req[t])
  BY TypeFacts DEF GateInv, RequestsFit
<1>2. req[t].gate \in Gate
  BY <1>1 DEF RequestFits
<1>3. gate[req[t].gate] \in Row
  BY <1>2, TypeFacts DEF GateInv
<1>4. req[t].kind \in {"submit", "close", "approve", "reject", "assign", "reassign", "unassign"}
  BY DEF GateWriting, Submitting, Deciding
<1>5. req[t].seen.status \in AcceptedFrom(req[t].kind) /\ DecisionComplete(req[t].seen)
  BY <1>1 DEF RequestFits
<1>6. ~req[t].seen.decided
  BY <1>4, <1>5 DEF AcceptedFrom, DecisionComplete
<1> QED
  BY <1>1, <1>2, <1>3, <1>4, <1>5, <1>6 DEF RequestFits, Request

\* The row a request wants, and the row it leaves.
LEMMA NewRowTyped ==
  ASSUME GateInv, NEW t \in Thread, req[t].kind \in GateWriting
  PROVE  NewRow(req[t]) \in Row
<1> DEFINE r == req[t]
<1>1. /\ r.seen \in Row
      /\ r.kind \in {"submit", "close", "approve", "reject", "assign", "reassign", "unassign"}
      /\ r.kind \in {"assign", "reassign"} => r.who \in Employee
  BY WriterFacts
<1> HIDE DEF r
<1>2. NewRow(r) \in Row
  BY <1>1 DEF NewRow, Row, GateStatus
<1> QED
  BY <1>2 DEF r

LEMMA WrittenRow ==
  ASSUME NEW row \in Row, NEW seen \in Row, NEW new \in Row, NEW kind,
         Coherent(Merge(row, seen, new)),
         kind = "reject" => new.status = "rejected" /\ seen.status = "submitted"
  PROVE  LET written == Reopened(kind, Merge(row, seen, new)) IN
         /\ written \in Row
         /\ DecisionComplete(written) /\ AssignmentComplete(written)
         /\ row = seen => written = Reopened(kind, new)
<1> DEFINE merged == Merge(row, seen, new)
<1>1. /\ merged \in Row
      /\ kind = "reject" => merged.status = "rejected"
  BY DEF Merge, Column, Row
<1>2. row = seen => merged = new
  BY DEF Merge, Column, Row
<1>3. Coherent(merged)
  OBVIOUS
<1> HIDE DEF merged
<1>4. /\ Reopened(kind, merged) \in Row
      /\ DecisionComplete(Reopened(kind, merged)) /\ AssignmentComplete(Reopened(kind, merged))
  BY <1>1, <1>3 DEF Reopened, Row, GateStatus, Coherent, DecisionComplete, AssignmentComplete
<1> QED
  BY <1>2, <1>4 DEF merged

LEMMA CommitGateKeeps ==
  ASSUME GateInv, NEW t \in Thread, CommitGate(t)
  PROVE  GateInv'
<1> DEFINE r == req[t]
           g == r.gate
           row == Reopened(r.kind, Merge(gate[g], r.seen, NewRow(r)))
           inserted == [by |-> r.who, session |-> r.session]
<1>1. /\ r \in Request /\ g \in Gate /\ r.seen \in Row /\ gate[g] \in Row
      /\ r.kind \in {"submit", "close", "approve", "reject", "assign", "reassign", "unassign"}
      /\ r.seen.status \in AcceptedFrom(r.kind)
      /\ r.kind \in Submitting => r.who \in Employee /\ r.seen.assignee = r.who
      /\ r.session \in Nat /\ r.items \in Nat
  BY WriterFacts DEF CommitGate
<1>2. NewRow(r) \in Row
  BY NewRowTyped DEF CommitGate
<1>3. r.kind = "reject" => NewRow(r).status = "rejected" /\ r.seen.status = "submitted"
  BY <1>1 DEF NewRow, AcceptedFrom, Row
<1>4. /\ row \in Row
      /\ DecisionComplete(row) /\ AssignmentComplete(row)
      /\ gate[g] = r.seen => row = Reopened(r.kind, NewRow(r))
  BY <1>1, <1>2, <1>3, WrittenRow DEF CommitGate
<1>5. /\ gate' = [gate EXCEPT ![g] = row]
      /\ raced' = [raced EXCEPT ![g] = @ \/ gate[g] # r.seen]
      /\ decisions' = [decisions EXCEPT ![g] = IF r.kind \in Deciding THEN @ + 1 ELSE @]
      /\ submissions' = [submissions EXCEPT ![g] =
           IF r.kind \in Submitting THEN Append(@, inserted) ELSE @]
      /\ sessions' = IF r.items > 0
                       THEN [sessions EXCEPT ![r.session].items = @ + r.items] ELSE sessions
      /\ silent' = IF r.items > 0 THEN silent \ {r.session} ELSE silent
      /\ req' = [req EXCEPT ![t] =
                   IF r.kind = "close" THEN [r EXCEPT !.kind = "closing"] ELSE Idle]
      /\ sweep' = sweep /\ requests' = requests /\ failures' = failures
  BY DEF CommitGate
<1>6. submissions[g] \in Seq(Submission) /\ decisions[g] \in Nat /\ raced[g] \in BOOLEAN
  BY <1>1, TypeFacts DEF GateInv
<1>7. r.kind \in Submitting => inserted \in Submission
  BY <1>1 DEF Submission
<1>8. /\ r.kind \in Submitting =>
           /\ submissions'[g] \in Seq(Submission)
           /\ Len(submissions'[g]) = Len(submissions[g]) + 1
           /\ submissions'[g][Len(submissions[g]) + 1] = inserted
           /\ \A n \in DOMAIN submissions[g] : submissions'[g][n] = submissions[g][n]
      /\ r.kind \notin Submitting => submissions'[g] = submissions[g]
      /\ \A h \in Gate : h # g => submissions'[h] = submissions[h]
  <2>1. submissions \in [Gate -> Seq(Submission)]
    BY TypeFacts DEF GateInv, TypeOK, Submission
  <2>2. submissions'[g] = IF r.kind \in Submitting THEN Append(submissions[g], inserted)
                                                   ELSE submissions[g]
    BY <1>1, <1>5, <2>1
  <2>3. \A h \in Gate : h # g => submissions'[h] = submissions[h]
    BY <1>5, <2>1
  <2>4. DOMAIN submissions[g] = 1 .. Len(submissions[g])
    BY <1>6
  <2> HIDE DEF r, g, inserted
  <2> QED
    BY <1>6, <1>7, <2>2, <2>3, <2>4, AppendProperties
<1>9. SubmissionsGrow
  <2>1. submissions' \in [Gate -> Seq(Submission)]
    <3>1. DOMAIN submissions' = Gate /\ submissions' = [h \in Gate |-> submissions'[h]]
      BY <1>5 DEF GateInv, TypeOK
    <3>2. \A h \in Gate : submissions'[h] \in Seq(Submission)
      BY <1>6, <1>8, TypeFacts DEF GateInv
    <3> QED
      BY <3>1, <3>2
  <2>2. r.kind \in Submitting => DOMAIN submissions[g] \subseteq DOMAIN submissions'[g]
    <3>1. DOMAIN submissions[g] = 1 .. Len(submissions[g]) /\ Len(submissions[g]) \in Nat
      BY <1>6
    <3>2. r.kind \in Submitting => DOMAIN submissions'[g] = 1 .. (Len(submissions[g]) + 1)
      BY <1>8
    <3> QED
      BY <3>1, <3>2
  <2> HIDE DEF r, g, inserted
  <2> QED
    BY <1>8, <2>1, <2>2 DEF SubmissionsGrow
<1>10. /\ SessionsGrow
       /\ DOMAIN sessions' = DOMAIN sessions
       /\ SlotsAreUnique' /\ ClosedWasSubmitted'
       /\ silent' \subseteq {j \in DOMAIN sessions' : IsOpen(j)'}
  <2>1. CASE r.items > 0
    <3> DEFINE i == r.session
               old == [sessions[i] EXCEPT !.items = @ + r.items]
    <3>1. i \in DOMAIN sessions
      BY <1>1, <2>1 DEF GateInv, RequestsFit, RequestFits
    <3>2. /\ old \in SessionRow /\ old.gate = sessions[i].gate /\ old.by = sessions[i].by
          /\ old.closed = sessions[i].closed /\ old.expired = sessions[i].expired
      BY <1>1, <3>1, TypeFacts DEF GateInv, SessionRow
    <3>3. sessions' = [sessions EXCEPT ![i] = old] /\ silent' = silent \ {i}
      BY <1>5, <2>1
    <3>4. ~old.closed /\ ~old.expired => IsOpen(i)
      BY <3>2 DEF IsOpen
    <3> HIDE DEF i, old
    <3> QED
      BY <1>9, <3>1, <3>2, <3>3, <3>4, RowUpdateKeeps
  <2>2. CASE ~(r.items > 0)
    <3>1. sessions' = sessions /\ silent' = silent
      BY <1>5, <2>2
    <3> QED
      BY <1>9, <3>1, QuietSessions
  <2> QED
    BY <2>1, <2>2
<1>11. req' \in [Thread -> Request] /\ RequestsFit'
  <2>1. CASE r.kind = "close"
    <3>a. [r EXCEPT !.kind = "closing"] \in Request
      BY <1>1 DEF Request, Kind
    <3>b. PICK c \in Request : c = [r EXCEPT !.kind = "closing"]
      BY <3>a
    <3>1. /\ c \in Request /\ c.kind = "closing" /\ c.gate = g
          /\ c.session = r.session /\ c.items = r.items
      BY <1>1, <3>b DEF Request
    <3>2. r.session \in DOMAIN sessions /\ g = sessions[r.session].gate
      BY <2>1 DEF GateInv, RequestsFit, RequestFits
    <3>3. r.session \in DOMAIN sessions' /\ g = sessions'[r.session].gate
      BY <1>10, <3>2 DEF SessionsGrow
    <3>4. \E n \in DOMAIN submissions'[g] : submissions'[g][n].session = r.session
      <4>1. r.kind \in Submitting
        BY <2>1 DEF Submitting
      <4>2. Len(submissions[g]) + 1 \in DOMAIN submissions'[g]
        BY <1>6, <1>8, <4>1
      <4> QED
        BY <1>8, <4>1, <4>2
    <3>5. RequestFits(c)'
      <4> HIDE DEF r, g
      <4> QED
        BY <1>1, <3>1, <3>3, <3>4 DEF RequestFits, GateWriting, Submitting, Deciding
    <3>6. req' = [req EXCEPT ![t] = c]
      BY <1>5, <2>1, <3>b
    <3> QED
      BY <1>9, <1>10, <3>1, <3>5, <3>6, FitsAfterMove
  <2>2. CASE r.kind # "close"
    <3>1. req' = [req EXCEPT ![t] = Idle]
      BY <1>5, <2>2
    <3> QED
      BY <1>9, <1>10, <3>1, IdleFits, IdleFitsLater, FitsAfterMove
  <2> QED
    BY <2>1, <2>2
<1>12. /\ gate'[g] = row /\ \A h \in Gate : h # g => gate'[h] = gate[h]
       /\ raced'[g] = (raced[g] \/ gate[g] # r.seen)
       /\ \A h \in Gate : h # g => raced'[h] = raced[h]
       /\ decisions'[g] = IF r.kind \in Deciding THEN decisions[g] + 1 ELSE decisions[g]
       /\ \A h \in Gate : h # g => decisions'[h] = decisions[h]
  BY <1>1, <1>5 DEF GateInv, TypeOK
<1>13. TypeOK'
  <2>1. gate' \in [Gate -> Row]
    BY <1>1, <1>4, <1>5 DEF GateInv, TypeOK
  <2>2. \A h \in Gate : DecisionComplete(gate'[h]) /\ AssignmentComplete(gate'[h])
    <3> HIDE DEF row
    <3> QED
      BY <1>4, <1>12 DEF GateInv, TypeOK
  <2>3. decisions' \in [Gate -> Nat] /\ raced' \in [Gate -> BOOLEAN]
    BY <1>1, <1>5 DEF GateInv, TypeOK
  <2>4. submissions' \in [Gate -> Seq([by : Employee, session : Nat])]
    BY <1>9 DEF SubmissionsGrow, Submission
  <2>5. sessions' \in Seq(SessionRow)
    BY <1>10 DEF SessionsGrow
  <2>6. sweep' \subseteq DOMAIN sessions' /\ requests' \in Nat /\ failures' \in Nat
    BY <1>5, <1>10 DEF GateInv, TypeOK
  <2> QED
    BY <1>10, <1>11, <2>1, <2>2, <2>3, <2>4, <2>5, <2>6 DEF TypeOK, DecisionComplete, AssignmentComplete
<1>14. ASSUME ~raced'[g]
       PROVE  /\ gate[g] = r.seen /\ ~raced[g]
              /\ row = Reopened(r.kind, NewRow(r))
  BY <1>4, <1>12, <1>14
<1>15. /\ gate'[g].status \in {"submitted", "approved"} /\ ~raced'[g] =>
            LET n == Len(submissions'[g]) IN n > 0 /\ submissions'[g][n].by = gate'[g].assignee
       /\ ~raced'[g] => decisions'[g] + (IF gate'[g].status = "submitted" THEN 1 ELSE 0)
                          <= Len(submissions'[g])
  <2> SUFFICES ASSUME ~raced'[g]
               PROVE  /\ gate'[g].status \in {"submitted", "approved"} =>
                           LET n == Len(submissions'[g])
                           IN  n > 0 /\ submissions'[g][n].by = gate'[g].assignee
                      /\ decisions'[g] + (IF gate'[g].status = "submitted" THEN 1 ELSE 0)
                           <= Len(submissions'[g])
    OBVIOUS
  <2>1. gate[g] = r.seen /\ gate'[g] = Reopened(r.kind, NewRow(r))
    BY <1>12, <1>14
  <2>2. /\ r.seen.status \in {"submitted", "approved"} =>
             Len(submissions[g]) > 0 /\ submissions[g][Len(submissions[g])].by = r.seen.assignee
        /\ decisions[g] + (IF r.seen.status = "submitted" THEN 1 ELSE 0) <= Len(submissions[g])
    BY <1>1, <1>14, <2>1 DEF GateInv, ReviewIsOfTheAssignee, OneDecisionPerSubmission
  <2>3. Len(submissions[g]) \in Nat
    BY <1>6
  <2>4. CASE r.kind \in Submitting
    <3>1. /\ gate'[g].status = "submitted" /\ gate'[g].assignee = r.seen.assignee
          /\ decisions'[g] = decisions[g]
      BY <1>1, <1>12, <2>1, <2>4 DEF NewRow, Reopened, Submitting, Deciding, Row
    <3>2. inserted.by = r.seen.assignee
      BY <1>1, <2>4
    <3>3. decisions[g] <= Len(submissions[g])
      BY <1>6, <2>2, <2>3
    <3> HIDE DEF r, g, inserted
    <3> QED
      BY <1>6, <1>8, <2>3, <2>4, <3>1, <3>2, <3>3
  <2>5. CASE r.kind \in Deciding
    <3>1. r.seen.status = "submitted" /\ r.kind \notin Submitting
      BY <1>1, <2>5 DEF AcceptedFrom, Deciding, Submitting
    <3>a. decisions'[g] = decisions[g] + 1
      BY <1>12, <2>5
    <3>b. /\ Reopened(r.kind, NewRow(r)).status # "submitted"
          /\ Reopened(r.kind, NewRow(r)).assignee = r.seen.assignee
      <4>1. r.kind = "approve" \/ r.kind = "reject"
        BY <2>5 DEF Deciding
      <4> QED
        BY <1>1, <4>1 DEF NewRow, Reopened, Row
    <3>2. /\ gate'[g].status # "submitted" /\ gate'[g].assignee = r.seen.assignee
          /\ decisions'[g] = decisions[g] + 1
      BY <2>1, <3>a, <3>b
    <3> HIDE DEF r, g, inserted
    <3> QED
      BY <1>6, <1>8, <2>2, <2>3, <3>1, <3>2
  <2>6. CASE r.kind \in {"assign", "reassign", "unassign"}
    <3>1. gate'[g].status \in {"assigned", "unassigned"} /\ decisions'[g] = decisions[g]
          /\ r.kind \notin Submitting
      BY <1>1, <1>12, <2>1, <2>6 DEF NewRow, Reopened, Submitting, Deciding, Row
    <3> HIDE DEF r, g, inserted
    <3> QED
      BY <1>6, <1>8, <2>2, <2>3, <3>1
  <2> QED
    BY <1>1, <2>4, <2>5, <2>6 DEF Submitting, Deciding
<1>16. ReviewIsOfTheAssignee' /\ OneDecisionPerSubmission'
  <2> HIDE DEF r, g, row, inserted
  <2>1. ReviewIsOfTheAssignee'
    BY <1>8, <1>12, <1>15 DEF ReviewIsOfTheAssignee, GateInv
  <2>2. OneDecisionPerSubmission'
    BY <1>8, <1>12, <1>15 DEF OneDecisionPerSubmission, GateInv
  <2> QED
    BY <2>1, <2>2
<1> QED
  BY <1>10, <1>11, <1>13, <1>16 DEF GateInv

-----------------------------------------------------------------------------
(* The theorems.                                                           *)

LEMMA InitEstablishes == Init => GateInv
<1> SUFFICES ASSUME Init PROVE GateInv
  OBVIOUS
<1> USE DEF Init
<1>1. Unassigned \in Row /\ DecisionComplete(Unassigned) /\ AssignmentComplete(Unassigned)
  BY DEF Unassigned, Row, GateStatus, DecisionComplete, AssignmentComplete
<1>2. <<>> \in Seq(SessionRow) /\ DOMAIN sessions = {} /\ Len(<<>>) = 0
  OBVIOUS
<1>3. TypeOK
  <2>1. submissions \in [Gate -> Seq([by : Employee, session : Nat])]
    OBVIOUS
  <2>2. req \in [Thread -> Request]
    BY IdleFits
  <2> QED
    BY <1>1, <1>2, <2>1, <2>2 DEF TypeOK
<1>4. RequestsFit
  BY IdleFits DEF RequestsFit
<1>5. SlotsAreUnique /\ ClosedWasSubmitted
  BY <1>2 DEF SlotsAreUnique, ClosedWasSubmitted
<1>6. ReviewIsOfTheAssignee /\ OneDecisionPerSubmission
  BY <1>2 DEF ReviewIsOfTheAssignee, OneDecisionPerSubmission, Unassigned
<1> QED
  BY <1>3, <1>4, <1>5, <1>6 DEF GateInv

LEMMA NextKeeps == GateInv /\ [Next]_vars => GateInv'
<1> SUFFICES ASSUME GateInv, [Next]_vars PROVE GateInv'
  OBVIOUS
<1>1. ASSUME NEW t \in Thread, Portal(t) PROVE GateInv'
  BY <1>1, PortalKeeps DEF Portal
<1>2. ASSUME NEW t \in Thread, Chat(t) PROVE GateInv'
  BY <1>2, ChatKeeps
<1>3. ASSUME NEW t \in Thread, CheckViolation(t) PROVE GateInv'
  <2>1. failures' \in Nat /\ UNCHANGED <<gateVars, sessionVars>>
        /\ sweep' = sweep /\ requests' = requests /\ req' = [req EXCEPT ![t] = Idle]
    BY <1>3 DEF CheckViolation, GateInv, TypeOK
  <2> QED
    BY <2>1, DropKeeps
<1>4. ASSUME NEW t \in Thread, FailClosing(t) PROVE GateInv'
  <2>1. failures' \in Nat /\ UNCHANGED <<gateVars, sessionVars>>
        /\ sweep' = sweep /\ requests' = requests /\ req' = [req EXCEPT ![t] = Idle]
    BY <1>4 DEF FailClosing, GateInv, TypeOK
  <2> QED
    BY <2>1, DropKeeps
<1>5. ASSUME NEW t \in Thread, Commit(t) PROVE GateInv'
  BY <1>3, <1>5, CommitGateKeeps, FinishCloseKeeps, CommitOpenKeeps,
     CommitMessageKeeps, CommitCancelKeeps DEF Commit
<1>6. ASSUME NEW i \in DOMAIN sessions, RefuseClose(i) PROVE GateInv'
  BY <1>6, RefuseCloseKeeps
<1>7. ASSUME NEW i \in DOMAIN sessions, FallSilent(i) PROVE GateInv'
  BY <1>7, BackgroundKeeps DEF FallSilent, GateInv, TypeOK
<1>8. ASSUME SweepSelect PROVE GateInv'
  BY <1>8, BackgroundKeeps DEF SweepSelect, StaleSessions, sessionVars, GateInv, TypeOK
<1>9. ASSUME NEW i \in sweep, SweepExpire(i) PROVE GateInv'
  BY <1>9, SweepExpireKeeps
<1>10. ASSUME SweepFail PROVE GateInv'
  <2>1. /\ UNCHANGED gateVars /\ sessions' = sessions /\ silent' = silent
        /\ req' = req /\ requests' = requests /\ sweep' = {} /\ failures' \in Nat
    BY <1>10 DEF SweepFail, sessionVars, GateInv, TypeOK
  <2>2. silent' \subseteq {i \in DOMAIN sessions : IsOpen(i)} /\ sweep' \subseteq DOMAIN sessions
    BY <2>1 DEF GateInv, TypeOK
  <2> QED
    BY <2>1, <2>2, BackgroundKeeps
<1>11. CASE UNCHANGED vars
  BY <1>11, BackgroundKeeps DEF vars, gateVars, sessionVars, GateInv, TypeOK
<1> QED
  BY <1>1, <1>2, <1>4, <1>5, <1>6, <1>7, <1>8, <1>9, <1>10, <1>11 DEF Next, Sweep

\* The inductive invariant holds in every reachable state.
THEOREM GateInvariant == Spec => []GateInv
<1>1. Init => GateInv
  BY InitEstablishes
<1>2. GateInv /\ [Next]_vars => GateInv'
  BY NextKeeps
<1> QED
  BY <1>1, <1>2, PTL DEF Spec

\* Types and CHECK constraints: no race of requests leaves a row they forbid.
THEOREM GateTypeCorrect == Spec => []TypeOK
<1>1. GateInv => TypeOK
  BY DEF GateInv
<1> QED
  BY <1>1, GateInvariant, PTL

\* No interleaving of GATEOPENs gives an employee two open sessions.
THEOREM SessionsNeverPileUp == Spec => []OneOpenSession
<1>1. GateInv => OneOpenSession
  <2> SUFFICES ASSUME GateInv, NEW e \in Employee
               PROVE  Cardinality(OpenSessions(e)) <= 1
    BY DEF OneOpenSession
  <2>1. CASE OpenSessions(e) = {}
    BY <2>1, FS_EmptySet
  <2>2. CASE OpenSessions(e) # {}
    <3>1. PICK i : i \in OpenSessions(e)
      BY <2>2
    <3>2. OpenSessions(e) = {i}
      BY <3>1 DEF OpenSessions, GateInv, SlotsAreUnique
    <3>3. Cardinality({i}) = 1
      BY FS_Singleton
    <3> QED
      BY <3>2, <3>3
  <2> QED
    BY <2>1, <2>2
<1> QED
  BY <1>1, GateInvariant, PTL

\* A closed session's evidence was submitted, whatever was refused or died.
THEOREM ClosingSubmits == Spec => []ClosedWasSubmitted
<1>1. GateInv => ClosedWasSubmitted
  BY DEF GateInv
<1> QED
  BY <1>1, GateInvariant, PTL

\* On a gate no two requests raced over, the evidence an Admin decides on is
\* that of the assignee.
THEOREM ReviewIsSound == Spec => []ReviewIsOfTheAssignee
<1>1. GateInv => ReviewIsOfTheAssignee
  BY DEF GateInv
<1> QED
  BY <1>1, GateInvariant, PTL

\* Every decision on a gate no race touched uses up a submission of its own.
THEOREM DecisionsUseSubmissions == Spec => []OneDecisionPerSubmission
<1>1. GateInv => OneDecisionPerSubmission
  BY DEF GateInv
<1> QED
  BY <1>1, GateInvariant, PTL

LEMMA CommitSpares ==
  ASSUME GateInv, NEW t \in Thread, CommitGate(t), NEW g \in Gate,
         gate[g].status = "approved"
  PROVE  /\ gate'[g].status # "approved" =>
              decisions'[g] = decisions[g] + 1 /\ gate'[g].status = "assigned"
         /\ ~raced'[g] => gate'[g] = gate[g] /\ decisions'[g] = decisions[g]
<1> DEFINE r == req[t]
           merged == Merge(gate[g], r.seen, NewRow(r))
<1>1. CASE r.gate # g
  BY <1>1 DEF CommitGate, GateInv, TypeOK
<1>2. CASE r.gate = g
  <2>1. /\ r.seen \in Row /\ ~r.seen.decided /\ gate[g] \in Row
        /\ r.kind \in {"submit", "close", "approve", "reject", "assign", "reassign", "unassign"}
        /\ r.seen.status \in AcceptedFrom(r.kind)
    BY <1>2, WriterFacts DEF CommitGate
  <2>2. gate[g].decided
    BY DEF GateInv, TypeOK, DecisionComplete
  <2>3. r.seen.status # "approved"
    BY <2>1 DEF AcceptedFrom
  <2>4. /\ Coherent(merged)
        /\ gate'[g] = Reopened(r.kind, merged)
        /\ raced'[g] = (raced[g] \/ gate[g] # r.seen)
        /\ decisions'[g] = IF r.kind \in Deciding THEN decisions[g] + 1 ELSE decisions[g]
    BY <1>2 DEF CommitGate, GateInv, TypeOK
  <2>5. raced'[g]
    BY <2>3, <2>4
  <2>6. CASE r.kind \notin Deciding
    <3>1. NewRow(r).decided = r.seen.decided /\ NewRow(r).status \notin {"approved", "rejected"}
      BY <2>1, <2>6 DEF NewRow, Deciding, Row
    <3>2. merged.decided = gate[g].decided
          /\ merged.status \in {gate[g].status, NewRow(r).status}
      BY <3>1 DEF Merge, Column
    <3>3. merged.status = "approved"
      BY <2>2, <2>4, <3>1, <3>2 DEF Coherent, DecisionComplete
    <3>4. Reopened(r.kind, merged) = merged
      BY <2>6 DEF Reopened, Deciding
    <3> QED
      BY <2>4, <2>5, <3>3, <3>4
  <2>7. CASE r.kind = "approve"
    <3>1. merged.status = "approved" /\ Reopened(r.kind, merged) = merged
      BY <2>1, <2>3, <2>7 DEF NewRow, Merge, Column, Reopened, Row
    <3> QED
      BY <2>4, <2>5, <3>1
  <2>8. CASE r.kind = "reject"
    <3>1. Reopened(r.kind, merged).status = "assigned"
      BY <2>8 DEF Reopened, Merge
    <3>2. decisions'[g] = decisions[g] + 1
      BY <2>4, <2>8 DEF Deciding
    <3> QED
      BY <2>4, <2>5, <3>1, <3>2
  <2> QED
    BY <2>6, <2>7, <2>8 DEF Deciding
<1> QED
  BY <1>1, <1>2

LEMMA OnlyCommitGateWrites ==
  ASSUME [Next]_vars, ~(\E t \in Thread : CommitGate(t))
  PROVE  UNCHANGED gateVars
BY DEF Next, vars, gateVars, Portal, Chat, GateDecide, Commit, Sweep, ReadGate, ReadOpen, ReadMessage,
       ReadClose, ReadCancel, Begin, CheckViolation, FinishClose, CommitOpen, CommitMessage,
       CommitCancel, FailClosing, RefuseClose, FallSilent, SweepSelect, SweepExpire, SweepFail

\* An approval is lost to nothing but a recorded decision, even among racing
\* requests, and to nothing at all where none raced.
THEOREM ApprovalStands == Spec => ApprovalLostOnlyToDecision /\ ApprovalIsFinal
<1>1. ASSUME GateInv, [Next]_vars, NEW g \in Gate, gate[g].status = "approved"
      PROVE  /\ gate'[g].status # "approved" =>
                  decisions'[g] = decisions[g] + 1 /\ gate'[g].status = "assigned"
             /\ ~raced'[g] => gate'[g] = gate[g] /\ decisions'[g] = decisions[g]
  <2>1. CASE \E t \in Thread : CommitGate(t)
    BY <1>1, <2>1, CommitSpares
  <2>2. CASE ~(\E t \in Thread : CommitGate(t))
    BY <1>1, <2>2, OnlyCommitGateWrites DEF gateVars
  <2> QED
    BY <2>1, <2>2
<1>2. GateInv /\ [Next]_vars =>
        [\A g \in Gate :
           gate[g].status = "approved" /\ gate'[g].status # "approved" =>
             decisions'[g] = decisions[g] + 1 /\ gate'[g].status = "assigned"]_vars
  BY <1>1
<1>3. GateInv /\ [Next]_vars =>
        [\A g \in Gate :
           gate[g].status = "approved" /\ ~raced'[g] =>
             gate'[g] = gate[g] /\ decisions'[g] = decisions[g]]_vars
  BY <1>1
<1> QED
  BY <1>2, <1>3, GateInvariant, PTL DEF Spec, ApprovalLostOnlyToDecision, ApprovalIsFinal

-----------------------------------------------------------------------------
(* The gates and the sessions implement the desk.                          *)

\* A rejection is never what a row is left with.
NeverRejected == \A g \in Gate : gate[g].status # "rejected"

DeskInv == GateInv /\ NeverRejected

\* A commit, field by field.
LEMMA CommitWrites ==
  ASSUME GateInv, NEW t \in Thread, CommitGate(t)
  PROVE  LET r == req[t]
             g == r.gate
             merged == Merge(gate[g], r.seen, NewRow(r))
         IN  /\ Coherent(merged)
             /\ gate' = [gate EXCEPT ![g] = Reopened(r.kind, merged)]
             /\ raced'[g] = (raced[g] \/ gate[g] # r.seen)
             /\ decisions'[g] = IF r.kind \in Deciding THEN decisions[g] + 1 ELSE decisions[g]
             /\ submissions'[g] = IF r.kind \in Submitting
                                    THEN Append(submissions[g], [by |-> r.who, session |-> r.session])
                                    ELSE submissions[g]
             /\ \A h \in Gate : h # g => /\ gate'[h] = gate[h] /\ raced'[h] = raced[h]
                                         /\ decisions'[h] = decisions[h]
                                         /\ submissions'[h] = submissions[h]
  <1>1. req[t].gate \in Gate
    BY WriterFacts DEF CommitGate
  <1> QED
    BY <1>1 DEF CommitGate, GateInv, TypeOK

\* Each kind of write, given what the request read, and the row it leaves.
LEMMA LateWrites ==
  ASSUME GateInv, NEW t \in Thread, CommitGate(t), NeverRejected
  PROVE  LET r == req[t]
             old == gate[r.gate]
             row == gate'[r.gate]
         IN  /\ row \in Row /\ row.status # "rejected"
             /\ r.kind \in Submitting =>
                  old.status \in {"assigned", "submitted"} /\ row.status = "submitted"
                  /\ row.assignee = old.assignee
             /\ r.kind \in Deciding =>
                  old.status # "unassigned" /\ row.status \in {"approved", "assigned"}
                  /\ row.assignee = old.assignee
             /\ r.kind \notin Submitting \cup Deciding =>
                  /\ row.status \in {old.status, "assigned", "unassigned"}
                  /\ old.status = "approved" => row.status = "approved"
                  /\ row.assignee = Nobody <=> row.status = "unassigned"
  <1> DEFINE r == req[t]
             old == gate[r.gate]
             merged == Merge(old, r.seen, NewRow(r))
  <1>1. /\ r.gate \in Gate /\ r.seen \in Row /\ old \in Row /\ NewRow(r) \in Row
        /\ r.kind \in {"submit", "close", "approve", "reject", "assign", "reassign", "unassign"}
        /\ r.seen.status \in AcceptedFrom(r.kind)
        /\ ~r.seen.decided
    BY WriterFacts, NewRowTyped DEF CommitGate
  <1>2. Coherent(merged) /\ gate'[r.gate] = Reopened(r.kind, merged)
    BY <1>1, CommitWrites DEF GateInv, TypeOK
  <1>3. /\ old.status # "rejected" /\ (old.decided <=> old.status = "approved")
        /\ old.assignee = Nobody <=> old.status = "unassigned"
    BY <1>1 DEF NeverRejected, GateInv, TypeOK, DecisionComplete, AssignmentComplete
  <1>4. /\ merged \in Row
        /\ merged.decided <=> merged.status \in {"approved", "rejected"}
        /\ merged.assignee = Nobody <=> merged.status = "unassigned"
    <2>1. merged \in Row
      BY <1>1 DEF Merge, Column, Row
    <2> QED
      BY <1>2, <2>1 DEF Coherent, DecisionComplete, AssignmentComplete
  <1>5. CASE r.kind \in Submitting
    <2>1. /\ NewRow(r).status = "submitted" /\ NewRow(r).assignee = r.seen.assignee
          /\ NewRow(r).decided = r.seen.decided /\ r.seen.status = "assigned"
      BY <1>1, <1>5 DEF NewRow, Submitting, AcceptedFrom, Row
    <2>2. /\ merged.status = "submitted" /\ merged.assignee = old.assignee
          /\ merged.decided = old.decided
      BY <2>1 DEF Merge, Column
    <2>3. Reopened(r.kind, merged) = merged
      BY <1>5 DEF Reopened, Submitting
    <2>4. r.kind \notin Deciding
      BY <1>5 DEF Submitting, Deciding
    <2> QED
      BY <1>1, <1>2, <1>3, <1>4, <1>5, <2>2, <2>3, <2>4 DEF Row, GateStatus
  <1>6. CASE r.kind \in Deciding
    <2>1. /\ NewRow(r).status = (IF r.kind = "approve" THEN "approved" ELSE "rejected")
          /\ NewRow(r).assignee = r.seen.assignee /\ r.seen.status = "submitted"
      BY <1>1, <1>6 DEF NewRow, Deciding, AcceptedFrom, Row
    <2>2. /\ merged.status = (IF r.kind = "approve" THEN "approved" ELSE "rejected")
          /\ merged.assignee = old.assignee
      BY <2>1 DEF Merge, Column
    <2>3. r.kind \notin Submitting
      BY <1>6 DEF Submitting, Deciding
    <2>4. /\ Reopened(r.kind, merged) \in Row
          /\ Reopened(r.kind, merged).status \in {"approved", "assigned"}
          /\ Reopened(r.kind, merged).assignee = merged.assignee
      BY <1>4, <1>6, <2>2 DEF Reopened, Deciding, Row, GateStatus
    <2> QED
      BY <1>2, <1>3, <1>4, <1>6, <2>2, <2>3, <2>4
  <1>7. CASE r.kind \notin Submitting \cup Deciding
    <2>1. r.kind \in {"assign", "reassign", "unassign"}
      BY <1>1, <1>7 DEF Submitting, Deciding
    <2>2. /\ NewRow(r).status \in {"assigned", "unassigned"}
          /\ NewRow(r).decided = r.seen.decided
      BY <1>1, <2>1 DEF NewRow, Row
    <2>3. /\ merged.status \in {old.status, "assigned", "unassigned"}
          /\ merged.decided = old.decided
      BY <2>2 DEF Merge, Column
    <2>4. Reopened(r.kind, merged) = merged
      BY <2>1 DEF Reopened
    <2> QED
      BY <1>2, <1>3, <1>4, <1>7, <2>3, <2>4
  <1> QED
    BY <1>5, <1>6, <1>7

\* A write over the row that was read: the row moves as the request meant it.
LEMMA TimelyWrites ==
  ASSUME GateInv, NEW t \in Thread, CommitGate(t), gate[req[t].gate] = req[t].seen
  PROVE  LET r == req[t]
             old == gate[r.gate]
             row == gate'[r.gate]
         IN  /\ r.kind \in Submitting =>
                  old.status = "assigned" /\ row.status = "submitted"
                  /\ row.assignee = old.assignee /\ r.who = old.assignee /\ r.who \in Employee
             /\ r.kind \in Deciding =>
                  old.status = "submitted" /\ row.status \in {"approved", "assigned"}
                  /\ row.assignee = old.assignee
             /\ r.kind \notin Submitting \cup Deciding =>
                  \/ /\ old.status \in {"unassigned", "assigned", "submitted"}
                     /\ row.status = "assigned" /\ row.assignee \in Employee
                  \/ /\ old.status \in {"assigned", "submitted"}
                     /\ row.status = "unassigned" /\ row.assignee = Nobody
  <1> DEFINE r == req[t]
             old == gate[r.gate]
  <1>1. /\ r.gate \in Gate /\ r.seen \in Row /\ NewRow(r) \in Row
        /\ r.kind \in {"submit", "close", "approve", "reject", "assign", "reassign", "unassign"}
        /\ r.seen.status \in AcceptedFrom(r.kind)
        /\ r.kind \in Submitting => r.who \in Employee /\ r.seen.assignee = r.who
        /\ r.kind \in {"assign", "reassign"} => r.who \in Employee
    BY WriterFacts, NewRowTyped DEF CommitGate
  <1>2. r.kind = "reject" => NewRow(r).status = "rejected" /\ r.seen.status = "submitted"
    BY <1>1 DEF NewRow, AcceptedFrom, Row
  <1>3. gate'[r.gate] = Reopened(r.kind, NewRow(r))
    <2>1. Coherent(Merge(old, r.seen, NewRow(r)))
      BY CommitWrites
    <2>2. Reopened(r.kind, Merge(old, r.seen, NewRow(r))) = Reopened(r.kind, NewRow(r))
      BY <1>1, <1>2, <2>1, WrittenRow
    <2> QED
      BY <1>1, <2>2, CommitWrites DEF GateInv, TypeOK
  <1>4. CASE r.kind \in Submitting
    BY <1>1, <1>3, <1>4 DEF NewRow, Reopened, Submitting, Deciding, AcceptedFrom, Row
  <1>5. CASE r.kind \in Deciding
    <2>1. r.kind = "approve" \/ r.kind = "reject"
      BY <1>5 DEF Deciding
    <2> QED
      BY <1>1, <1>3, <1>5, <2>1 DEF NewRow, Reopened, Submitting, Deciding, AcceptedFrom, Row
  <1>6. CASE r.kind \notin Submitting \cup Deciding
    <2>1. r.kind \in {"assign", "reassign", "unassign"}
      BY <1>1, <1>6 DEF Submitting, Deciding
    <2> QED
      BY <1>1, <1>3, <1>6, <2>1 DEF NewRow, Reopened, AcceptedFrom, Row
  <1> QED
    BY <1>4, <1>5, <1>6

\* What the desk sees of a gate, field by field.
Seen(s, h, n, u, k, d) ==
  [stage |-> s, holder |-> h, evidence |-> n, author |-> u, rulings |-> k, disturbed |-> d]

IsSeen(a) == a = Seen(a.stage, a.holder, a.evidence, a.author, a.rulings, a.disturbed)

\* The changes the desk makes at once: of stage and holder, ...
LEMMA StaffingSeen ==
  ASSUME NEW a, NEW b, IsSeen(a), IsSeen(b),
         b.evidence = a.evidence, b.author = a.author, b.rulings = a.rulings
  PROVE  /\ b.disturbed = a.disturbed => b = [a EXCEPT !.stage = b.stage, !.holder = b.holder]
         /\ b.disturbed = TRUE =>
              b = [a EXCEPT !.stage = b.stage, !.holder = b.holder, !.disturbed = TRUE]
  <1>1. PICK s, h, n, u, k, d : /\ s = a.stage /\ h = a.holder /\ n = a.evidence
                                /\ u = a.author /\ k = a.rulings /\ d = a.disturbed
    OBVIOUS
  <1>2. PICK s2, h2, d2 : s2 = b.stage /\ h2 = b.holder /\ d2 = b.disturbed
    OBVIOUS
  <1>3. a = Seen(s, h, n, u, k, d) /\ b = Seen(s2, h2, n, u, k, d2)
    BY <1>1, <1>2 DEF IsSeen
  <1>4. /\ [Seen(s, h, n, u, k, d) EXCEPT !.stage = s2] = Seen(s2, h, n, u, k, d)
        /\ [Seen(s2, h, n, u, k, d) EXCEPT !.holder = h2] = Seen(s2, h2, n, u, k, d)
        /\ [Seen(s2, h2, n, u, k, d) EXCEPT !.disturbed = d2] = Seen(s2, h2, n, u, k, d2)
    BY DEF Seen
  <1>5. [a EXCEPT !.stage = s2, !.holder = h2] = Seen(s2, h2, n, u, k, d)
    BY <1>3, <1>4, Zenon
  <1>6. b = [a EXCEPT !.stage = s2, !.holder = h2, !.disturbed = d2]
    BY <1>3, <1>4, Zenon
  <1> QED
    BY <1>1, <1>2, <1>3, <1>5, <1>6, Zenon

\* ... of stage, evidence and author, ...
LEMMA HandInSeen ==
  ASSUME NEW a, NEW b, IsSeen(a), IsSeen(b),
         b.holder = a.holder, b.rulings = a.rulings
  PROVE  /\ b.disturbed = a.disturbed =>
              b = [a EXCEPT !.stage = b.stage, !.evidence = b.evidence, !.author = b.author]
         /\ b.disturbed = TRUE =>
              b = [a EXCEPT !.stage = b.stage, !.evidence = b.evidence, !.author = b.author,
                            !.disturbed = TRUE]
  <1>1. PICK s, h, n, u, k, d : /\ s = a.stage /\ h = a.holder /\ n = a.evidence
                                /\ u = a.author /\ k = a.rulings /\ d = a.disturbed
    OBVIOUS
  <1>2. PICK s2, n2, u2, d2 : s2 = b.stage /\ n2 = b.evidence /\ u2 = b.author /\ d2 = b.disturbed
    OBVIOUS
  <1>3. a = Seen(s, h, n, u, k, d) /\ b = Seen(s2, h, n2, u2, k, d2)
    BY <1>1, <1>2 DEF IsSeen
  <1>4. /\ [Seen(s, h, n, u, k, d) EXCEPT !.stage = s2] = Seen(s2, h, n, u, k, d)
        /\ [Seen(s2, h, n, u, k, d) EXCEPT !.evidence = n2] = Seen(s2, h, n2, u, k, d)
        /\ [Seen(s2, h, n2, u, k, d) EXCEPT !.author = u2] = Seen(s2, h, n2, u2, k, d)
        /\ [Seen(s2, h, n2, u2, k, d) EXCEPT !.disturbed = d2] = Seen(s2, h, n2, u2, k, d2)
    BY DEF Seen
  <1>5. [a EXCEPT !.stage = s2, !.evidence = n2, !.author = u2] = Seen(s2, h, n2, u2, k, d)
    BY <1>3, <1>4, Zenon
  <1>6. b = [a EXCEPT !.stage = s2, !.evidence = n2, !.author = u2, !.disturbed = d2]
    BY <1>3, <1>4, Zenon
  <1> QED
    BY <1>1, <1>2, <1>3, <1>5, <1>6, Zenon

\* ... of stage and rulings.
LEMMA RulingSeen ==
  ASSUME NEW a, NEW b, IsSeen(a), IsSeen(b),
         b.holder = a.holder, b.evidence = a.evidence, b.author = a.author
  PROVE  /\ b.disturbed = a.disturbed => b = [a EXCEPT !.stage = b.stage, !.rulings = b.rulings]
         /\ b.disturbed = TRUE =>
              b = [a EXCEPT !.stage = b.stage, !.rulings = b.rulings, !.disturbed = TRUE]
  <1>1. PICK s, h, n, u, k, d : /\ s = a.stage /\ h = a.holder /\ n = a.evidence
                                /\ u = a.author /\ k = a.rulings /\ d = a.disturbed
    OBVIOUS
  <1>2. PICK s2, k2, d2 : s2 = b.stage /\ k2 = b.rulings /\ d2 = b.disturbed
    OBVIOUS
  <1>3. a = Seen(s, h, n, u, k, d) /\ b = Seen(s2, h, n, u, k2, d2)
    BY <1>1, <1>2 DEF IsSeen
  <1>4. /\ [Seen(s, h, n, u, k, d) EXCEPT !.stage = s2] = Seen(s2, h, n, u, k, d)
        /\ [Seen(s2, h, n, u, k, d) EXCEPT !.rulings = k2] = Seen(s2, h, n, u, k2, d)
        /\ [Seen(s2, h, n, u, k2, d) EXCEPT !.disturbed = d2] = Seen(s2, h, n, u, k2, d2)
    BY DEF Seen
  <1>5. [a EXCEPT !.stage = s2, !.rulings = k2] = Seen(s2, h, n, u, k2, d)
    BY <1>3, <1>4, Zenon
  <1>6. b = [a EXCEPT !.stage = s2, !.rulings = k2, !.disturbed = d2]
    BY <1>3, <1>4, Zenon
  <1> QED
    BY <1>1, <1>2, <1>3, <1>5, <1>6, Zenon

\* A step that opens and ends no session does so on the desk as well.
LEMMA SameSessions ==
  ASSUME DOMAIN sessions' = DOMAIN sessions, Len(sessions') = Len(sessions),
         \A i \in DOMAIN sessions : /\ IsOpen(i)' <=> IsOpen(i)
                                    /\ sessions'[i].by = sessions[i].by
  PROVE  UNCHANGED <<[e \in Employee |-> OpenSessions(e)], Len(sessions)>>
  <1>1. \A e \in Employee : OpenSessions(e)' = OpenSessions(e)
    BY DEF OpenSessions
  <1> QED
    BY <1>1

\* What the desk sees of the gate a commit writes, before and after.
Author(g) ==
  IF Len(submissions[g]) = 0 THEN Nobody ELSE submissions[g][Len(submissions[g])].by

LEMMA CommitSeen ==
  ASSUME GateInv, NEW t \in Thread, CommitGate(t), NEW g \in Gate, g = req[t].gate
  PROVE  /\ SeenOfGate(g) = Seen(gate[g].status, gate[g].assignee, Len(submissions[g]), Author(g),
                                 decisions[g], raced[g])
         /\ SeenOfGate(g)' = Seen(gate'[g].status, gate'[g].assignee, Len(submissions'[g]),
                                  Author(g)', decisions'[g], raced'[g])
         /\ req[t].kind \in Submitting => /\ Len(submissions'[g]) = Len(submissions[g]) + 1
                                          /\ Author(g)' = req[t].who
         /\ req[t].kind \notin Submitting => /\ Len(submissions'[g]) = Len(submissions[g])
                                             /\ Author(g)' = Author(g)
         /\ decisions'[g] = IF req[t].kind \in Deciding THEN decisions[g] + 1 ELSE decisions[g]
         /\ gate[g] = req[t].seen => raced'[g] = raced[g]
         /\ gate[g] # req[t].seen => raced'[g] = TRUE
         /\ \A h \in Gate : h # g => SeenOfGate(h)' = SeenOfGate(h)
  <1> DEFINE r == req[t]
             inserted == [by |-> r.who, session |-> r.session]
  <1>1. r.session \in Nat /\ (r.kind \in Submitting => r.who \in Employee)
    BY WriterFacts DEF CommitGate
  <1>2. submissions[g] \in Seq(Submission) /\ decisions[g] \in Nat /\ raced[g] \in BOOLEAN
    BY TypeFacts DEF GateInv
  <1>3. /\ raced'[g] = (raced[g] \/ gate[g] # r.seen)
        /\ decisions'[g] = IF r.kind \in Deciding THEN decisions[g] + 1 ELSE decisions[g]
        /\ submissions'[g] = IF r.kind \in Submitting THEN Append(submissions[g], inserted)
                                                     ELSE submissions[g]
        /\ \A h \in Gate : h # g => /\ gate'[h] = gate[h] /\ raced'[h] = raced[h]
                                    /\ decisions'[h] = decisions[h]
                                    /\ submissions'[h] = submissions[h]
    BY CommitWrites
  <1>4. r.kind \in Submitting => /\ Len(submissions'[g]) = Len(submissions[g]) + 1
                                 /\ Author(g)' = r.who
    <2> SUFFICES ASSUME r.kind \in Submitting
                 PROVE  /\ Len(submissions'[g]) = Len(submissions[g]) + 1
                        /\ Author(g)' = r.who
      OBVIOUS
    <2>1. inserted \in Submission /\ inserted.by = r.who
      BY <1>1 DEF Submission
    <2>2. submissions'[g] = Append(submissions[g], inserted)
      BY <1>3
    <2> HIDE DEF inserted, r
    <2>3. Len(submissions[g]) \in Nat
      BY <1>2
    <2>4. /\ Len(submissions'[g]) = Len(submissions[g]) + 1
          /\ submissions'[g][Len(submissions[g]) + 1] = inserted
      BY <1>2, <2>1, <2>2, AppendProperties
    <2> QED
      BY <2>1, <2>3, <2>4 DEF Author
  <1>5. r.kind \notin Submitting => submissions'[g] = submissions[g]
    BY <1>3
  <1>6. /\ gate[g] = r.seen => raced'[g] = raced[g]
        /\ gate[g] # r.seen => raced'[g] = TRUE
    BY <1>2, <1>3
  <1>7. /\ SeenOfGate(g) = Seen(gate[g].status, gate[g].assignee, Len(submissions[g]), Author(g),
                                decisions[g], raced[g])
        /\ SeenOfGate(g)' = Seen(gate'[g].status, gate'[g].assignee, Len(submissions'[g]),
                                 Author(g)', decisions'[g], raced'[g])
    BY DEF SeenOfGate, Seen, Author
  <1>8. \A h \in Gate : h # g => SeenOfGate(h)' = SeenOfGate(h)
    BY <1>3 DEF SeenOfGate
  <1> QED
    BY <1>3, <1>4, <1>5, <1>6, <1>7, <1>8 DEF Author

\* A commit moves the gate on the desk: as its stage allows, or as a late request.
LEMMA CommitOnDesk ==
  ASSUME DeskInv, NEW t \in Thread, CommitGate(t)
  PROVE  Desk!Next
  <1> DEFINE r == req[t]
             A == [h \in Gate |-> SeenOfGate(h)]
  <1>1. PICK g \in Gate : g = req[t].gate
    BY WriterFacts DEF DeskInv, CommitGate
  <1>2. PICK a : a = SeenOfGate(g)
    OBVIOUS
  <1>3. PICK b : b = SeenOfGate(g)'
    OBVIOUS
  <1>4. /\ a = Seen(gate[g].status, gate[g].assignee, Len(submissions[g]), Author(g),
                    decisions[g], raced[g])
        /\ b = Seen(gate'[g].status, gate'[g].assignee, Len(submissions'[g]), Author(g)',
                    decisions'[g], raced'[g])
    BY <1>1, <1>2, <1>3, CommitSeen DEF DeskInv
  <1>5. /\ a.stage = gate[g].status /\ b.stage = gate'[g].status
        /\ a.holder = gate[g].assignee /\ b.holder = gate'[g].assignee
        /\ a.evidence = Len(submissions[g]) /\ b.evidence = Len(submissions'[g])
        /\ a.author = Author(g) /\ b.author = Author(g)'
        /\ a.rulings = decisions[g] /\ b.rulings = decisions'[g]
        /\ a.disturbed = raced[g] /\ b.disturbed = raced'[g]
        /\ IsSeen(a) /\ IsSeen(b)
    <2>1. ASSUME NEW s, NEW h, NEW n, NEW u, NEW k, NEW d, NEW x, x = Seen(s, h, n, u, k, d)
          PROVE  /\ x.stage = s /\ x.holder = h /\ x.evidence = n /\ x.author = u
                 /\ x.rulings = k /\ x.disturbed = d /\ IsSeen(x)
      BY <2>1 DEF Seen, IsSeen
    <2> QED
      BY <1>4, <2>1
  <1>6. UNCHANGED <<[e \in Employee |-> OpenSessions(e)], Len(sessions)>>
    <2>1. CASE r.items > 0
      <3> DEFINE i == r.session
                 old == [sessions[i] EXCEPT !.items = @ + r.items]
      <3>1. i \in DOMAIN sessions
        BY <2>1, WriterFacts DEF CommitGate, DeskInv, GateInv, RequestsFit, RequestFits
      <3>a. r.items \in Nat /\ sessions[i] \in SessionRow
        BY <3>1, WriterFacts, TypeFacts DEF CommitGate, DeskInv, GateInv
      <3>2. /\ old \in SessionRow /\ old.gate = sessions[i].gate /\ old.by = sessions[i].by
            /\ old.closed = sessions[i].closed /\ old.expired = sessions[i].expired
        BY <3>a DEF SessionRow
      <3>3. sessions' = [sessions EXCEPT ![i] = old]
        BY <2>1 DEF CommitGate
      <3> HIDE DEF i, old
      <3>4. /\ DOMAIN sessions' = DOMAIN sessions /\ sessions'[i] = old
            /\ SessionsGrow /\ \A j \in DOMAIN sessions : j # i => sessions'[j] = sessions[j]
        BY <3>1, <3>2, <3>3, RowUpdated DEF DeskInv, GateInv
      <3>5. Len(sessions') = Len(sessions)
        BY <3>1, <3>2, <3>3, ExceptSeq DEF DeskInv, GateInv, TypeOK
      <3>6. \A j \in DOMAIN sessions : /\ IsOpen(j)' <=> IsOpen(j)
                                       /\ sessions'[j].by = sessions[j].by
        BY <3>2, <3>4 DEF IsOpen
      <3> QED
        BY <3>4, <3>5, <3>6, SameSessions
    <2>2. CASE ~(r.items > 0)
      <3>1. sessions' = sessions
        BY <2>2 DEF CommitGate
      <3> QED
        BY <3>1, SameSessions DEF IsOpen
    <2> QED
      BY <2>1, <2>2
  <1>7. Desk!Becomes(g, b)
    <2>1. A' = [A EXCEPT ![g] = b]
      BY <1>1, <1>3, CommitSeen DEF DeskInv
    <2> QED
      BY <1>6, <2>1 DEF Desk!Becomes
  <1>8. A[g] = a
    BY <1>2
  <1>9. /\ r.kind \in Submitting => b.evidence = a.evidence + 1 /\ b.author = r.who
        /\ r.kind \notin Submitting => b.evidence = a.evidence /\ b.author = a.author
        /\ r.kind \in Deciding => b.rulings = a.rulings + 1
        /\ r.kind \notin Deciding => b.rulings = a.rulings
        /\ gate[g] = r.seen => b.disturbed = a.disturbed
        /\ gate[g] # r.seen => b.disturbed = TRUE
    BY <1>1, <1>5, CommitSeen DEF DeskInv
  <1>10. b.holder \in Employee \cup {Nobody} /\ (r.kind \in Submitting => r.who \in Employee)
    BY <1>1, <1>5, WriterFacts, LateWrites DEF DeskInv, CommitGate, Row
  <1>11. r.kind \notin Submitting \/ r.kind \notin Deciding
    BY DEF Submitting, Deciding
  <1>12. CASE gate[g] = r.seen
    <2>1. /\ r.kind \in Submitting =>
               a.stage = "assigned" /\ b.stage = "submitted" /\ b.holder = a.holder /\ r.who = a.holder
          /\ r.kind \in Deciding =>
               a.stage = "submitted" /\ b.stage \in {"approved", "assigned"} /\ b.holder = a.holder
          /\ r.kind \notin Submitting \cup Deciding =>
               \/ /\ a.stage \in {"unassigned", "assigned", "submitted"}
                  /\ b.stage = "assigned" /\ b.holder \in Employee
               \/ /\ a.stage \in {"assigned", "submitted"}
                  /\ b.stage = "unassigned" /\ b.holder = Nobody
      BY <1>1, <1>5, <1>12, TimelyWrites DEF DeskInv
    <2>2. CASE r.kind \in Submitting
      <3>1. b = [a EXCEPT !.stage = b.stage, !.evidence = b.evidence, !.author = b.author]
        BY <1>5, <1>9, <1>11, <1>12, <2>1, <2>2, HandInSeen
      <3>2. b.stage = "submitted" /\ b.evidence = a.evidence + 1 /\ b.author = a.holder
        BY <1>9, <2>1, <2>2
      <3>3. Desk!HandIn(g)
        BY <1>7, <1>8, <2>1, <2>2, <3>1, <3>2, Zenon DEF Desk!HandIn
      <3> QED
        BY <3>3 DEF Desk!Next
    <2>3. CASE r.kind \in Deciding
      <3>1. b = [a EXCEPT !.stage = b.stage, !.rulings = b.rulings]
        BY <1>5, <1>9, <1>11, <1>12, <2>1, <2>3, RulingSeen
      <3>2. Desk!Rule(g, b.stage)
        BY <1>7, <1>8, <1>9, <2>1, <2>3, <3>1, Zenon DEF Desk!Rule
      <3>3. b.stage \in {"unassigned", "assigned", "submitted", "approved"}
        BY <2>1, <2>3
      <3> QED
        BY <3>2, <3>3 DEF Desk!Next
    <2>4. CASE r.kind \notin Submitting \cup Deciding
      <3>1. b = [a EXCEPT !.stage = b.stage, !.holder = b.holder]
        BY <1>5, <1>9, <1>12, <2>4, StaffingSeen
      <3>2. CASE /\ a.stage \in {"unassigned", "assigned", "submitted"}
                 /\ b.stage = "assigned" /\ b.holder \in Employee
        <4>1. Desk!Assign(g, b.holder)
          BY <1>7, <1>8, <3>1, <3>2, Zenon DEF Desk!Assign
        <4> QED
          BY <3>2, <4>1 DEF Desk!Next
      <3>3. CASE a.stage \in {"assigned", "submitted"} /\ b.stage = "unassigned" /\ b.holder = Nobody
        <4>1. Desk!Release(g)
          BY <1>7, <1>8, <3>1, <3>3, Zenon DEF Desk!Release
        <4> QED
          BY <4>1 DEF Desk!Next
      <3> QED
        BY <2>1, <2>4, <3>2, <3>3
    <2> QED
      BY <2>2, <2>3, <2>4
  <1>13. CASE gate[g] # r.seen
    <2>1. /\ r.kind \in Submitting =>
               a.stage \in {"assigned", "submitted"} /\ b.stage = "submitted" /\ b.holder = a.holder
          /\ r.kind \in Deciding =>
               a.stage # "unassigned" /\ b.stage \in {"approved", "assigned"} /\ b.holder = a.holder
          /\ r.kind \notin Submitting \cup Deciding =>
               /\ b.stage \in {a.stage, "assigned", "unassigned"}
               /\ a.stage = "approved" => b.stage = "approved"
               /\ b.holder = Nobody <=> b.stage = "unassigned"
          /\ b.stage \in {"unassigned", "assigned", "submitted", "approved"}
      BY <1>1, <1>5, LateWrites DEF DeskInv, Row, GateStatus
    <2>2. CASE r.kind \in Submitting
      <3>1. b = [a EXCEPT !.stage = b.stage, !.evidence = b.evidence, !.author = b.author,
                          !.disturbed = TRUE]
        BY <1>5, <1>9, <1>11, <1>13, <2>1, <2>2, HandInSeen
      <3>2. b.stage = "submitted" /\ b.evidence = a.evidence + 1 /\ b.author = r.who
        BY <1>9, <2>1, <2>2
      <3>3. Desk!LateHandIn(g, r.who)
        BY <1>7, <1>8, <2>1, <2>2, <3>1, <3>2, Zenon DEF Desk!LateHandIn
      <3> QED
        BY <1>10, <2>2, <3>3 DEF Desk!Next
    <2>3. CASE r.kind \in Deciding
      <3>1. b = [a EXCEPT !.stage = b.stage, !.rulings = b.rulings, !.disturbed = TRUE]
        BY <1>5, <1>9, <1>11, <1>13, <2>1, <2>3, RulingSeen
      <3>2. Desk!LateRuling(g, b.stage)
        BY <1>7, <1>8, <1>9, <2>1, <2>3, <3>1, Zenon DEF Desk!LateRuling
      <3> QED
        BY <2>1, <3>2 DEF Desk!Next
    <2>4. CASE r.kind \notin Submitting \cup Deciding
      <3>1. b = [a EXCEPT !.stage = b.stage, !.holder = b.holder, !.disturbed = TRUE]
        BY <1>5, <1>9, <1>13, <2>4, StaffingSeen
      <3>2. Desk!LateStaffing(g, b.stage, b.holder)
        BY <1>7, <1>8, <2>1, <2>4, <3>1, Zenon DEF Desk!LateStaffing
      <3> QED
        BY <1>10, <2>1, <3>2 DEF Desk!Next
    <2> QED
      BY <2>2, <2>3, <2>4
  <1> QED
    BY <1>12, <1>13

\* The gates look the same when nothing is written to them.
LEMMA SameGates == UNCHANGED gateVars => UNCHANGED [g \in Gate |-> SeenOfGate(g)]
  <1> SUFFICES ASSUME UNCHANGED gateVars
               PROVE  \A g \in Gate : SeenOfGate(g)' = SeenOfGate(g)
    OBVIOUS
  <1> QED
    BY DEF gateVars, SeenOfGate

\* A message, a note or an end of a session: at most its employee leaves.
LEMMA SessionOnDesk ==
  ASSUME DeskInv, UNCHANGED gateVars, NEW i \in DOMAIN sessions, NEW row \in SessionRow,
         row.gate = sessions[i].gate, row.by = sessions[i].by,
         ~row.closed /\ ~row.expired => IsOpen(i),
         sessions' = [sessions EXCEPT ![i] = row]
  PROVE  Desk!Next \/ UNCHANGED Desk!vars
  <1>1. /\ DOMAIN sessions' = DOMAIN sessions /\ sessions'[i] = row
        /\ \A j \in DOMAIN sessions : j # i => sessions'[j] = sessions[j]
    BY RowUpdated DEF DeskInv, GateInv
  <1>2. Len(sessions') = Len(sessions)
    BY ExceptSeq DEF DeskInv, GateInv, TypeOK
  <1>3. UNCHANGED [g \in Gate |-> SeenOfGate(g)]
    BY SameGates
  <1>4. CASE (~row.closed /\ ~row.expired) <=> IsOpen(i)
    <2>1. \A j \in DOMAIN sessions : /\ IsOpen(j)' <=> IsOpen(j)
                                     /\ sessions'[j].by = sessions[j].by
      BY <1>1, <1>4 DEF IsOpen
    <2>2. UNCHANGED <<[e \in Employee |-> OpenSessions(e)], Len(sessions)>>
      BY <1>1, <1>2, <2>1, SameSessions
    <2> QED
      BY <1>3, <2>2 DEF Desk!vars
  <1>5. CASE ~((~row.closed /\ ~row.expired) <=> IsOpen(i))
    <2>1. PICK e \in Employee : e = sessions[i].by
      BY TypeFacts DEF DeskInv, GateInv, SessionRow
    <2>2. IsOpen(i) /\ (row.closed \/ row.expired)
      BY <1>5
    <2>3. OpenSessions(e) = {i}
      BY <2>1, <2>2 DEF DeskInv, GateInv, SlotsAreUnique, OpenSessions
    <2>4. \A f \in Employee : OpenSessions(f)' = IF f = e THEN {} ELSE OpenSessions(f)
      <3>1. \A j \in DOMAIN sessions : IsOpen(j)' <=> j # i /\ IsOpen(j)
        BY <1>1, <2>2 DEF IsOpen
      <3>2. \A j \in DOMAIN sessions : sessions'[j].by = sessions[j].by
        BY <1>1
      <3>3. \A f \in Employee : OpenSessions(f)' = OpenSessions(f) \ {i}
        BY <1>1, <3>1, <3>2 DEF OpenSessions
      <3>4. \A f \in Employee : f # e => i \notin OpenSessions(f)
        BY <2>1 DEF OpenSessions
      <3> QED
        BY <2>3, <3>3, <3>4
    <2> DEFINE C == [f \in Employee |-> OpenSessions(f)]
    <2>5. C[e] # {} /\ C' = [C EXCEPT ![e] = {}]
      BY <2>3, <2>4
    <2>6. UNCHANGED Len(sessions)
      BY <1>2
    <2>7. Desk!Leave(e)
      BY <1>3, <2>5, <2>6 DEF Desk!Leave
    <2> QED
      BY <2>7 DEF Desk!Next
  <1> QED
    BY <1>4, <1>5

\* GATEOPEN commits: its employee collects from now on, or was collecting already.
LEMMA OpenOnDesk ==
  ASSUME DeskInv, NEW t \in Thread, CommitOpen(t)
  PROVE  Desk!Next \/ UNCHANGED Desk!vars
  <1>1. UNCHANGED [g \in Gate |-> SeenOfGate(g)]
    BY SameGates DEF CommitOpen
  <1>2. CASE ~SlotIsFree(req[t].who)
    <2>1. sessions' = sessions
      BY <1>2 DEF CommitOpen
    <2>2. UNCHANGED <<[e \in Employee |-> OpenSessions(e)], Len(sessions)>>
      BY <2>1, SameSessions DEF IsOpen
    <2> QED
      BY <1>1, <2>2 DEF Desk!vars
  <1>3. CASE SlotIsFree(req[t].who)
    <2>1. PICK e \in Employee : e = req[t].who
      BY DEF CommitOpen, DeskInv, GateInv, RequestsFit, RequestFits
    <2>2. PICK g \in Gate : g = req[t].gate
      BY DEF CommitOpen, DeskInv, GateInv, RequestsFit, RequestFits
    <2> DEFINE new == NewSession(g, e)
    <2>3. new \in SessionRow /\ new.by = e /\ ~new.closed /\ ~new.expired
      BY DEF NewSession, SessionRow
    <2>4. sessions \in Seq(SessionRow) /\ sessions' = Append(sessions, new)
      BY <1>3, <2>1, <2>2 DEF CommitOpen, DeskInv, GateInv, TypeOK
    <2>5. Len(sessions) \in Nat /\ DOMAIN sessions = 1..Len(sessions)
      BY <2>4
    <2> HIDE DEF new
    <2>6. /\ DOMAIN sessions' = 1..(Len(sessions) + 1) /\ Len(sessions') = Len(sessions) + 1
          /\ \A i \in DOMAIN sessions : sessions'[i] = sessions[i]
          /\ sessions'[Len(sessions) + 1] = new
      BY <2>3, <2>4, <2>5, AppendProperties
    <2>7. DOMAIN sessions' = DOMAIN sessions \cup {Len(sessions) + 1}
      BY <2>5, <2>6
    <2>8. \A i \in DOMAIN sessions : /\ IsOpen(i)' <=> IsOpen(i)
                                     /\ sessions'[i].by = sessions[i].by
      BY <2>6 DEF IsOpen
    <2>9. OpenSessions(e) = {}
      BY <1>3, <2>1 DEF SlotIsFree
    <2>10. PICK m : m = Len(sessions) + 1
      OBVIOUS
    <2>11. \A f \in Employee : OpenSessions(f)' = IF f = e THEN {m} ELSE OpenSessions(f)
      <3>1. sessions'[m].by = e /\ DOMAIN sessions' = DOMAIN sessions \cup {m}
        BY <2>6, <2>7, <2>10, <2>3
      <3>2. ~sessions'[m].closed /\ ~sessions'[m].expired
        BY <2>3, <2>6, <2>10
      <3> QED
        BY <2>8, <2>9, <3>1, <3>2 DEF OpenSessions, IsOpen
    <2> DEFINE C == [f \in Employee |-> OpenSessions(f)]
    <2>12. C[e] = {} /\ C' = [C EXCEPT ![e] = {Len(sessions) + 1}]
      BY <2>9, <2>10, <2>11
    <2>13. Desk!Collect(e)
      BY <1>1, <2>6, <2>12 DEF Desk!Collect
    <2> QED
      BY <2>13 DEF Desk!Next
  <1> QED
    BY <1>2, <1>3

\* The other steps touch at most one session row.
LEMMA QuietStepOnDesk ==
  ASSUME DeskInv, [Next]_vars, ~(\E t \in Thread : CommitGate(t) \/ CommitOpen(t))
  PROVE  Desk!Next \/ UNCHANGED Desk!vars
  <1>1. UNCHANGED gateVars
    BY OnlyCommitGateWrites
  <1>2. CASE sessions' = sessions
    <2>1. UNCHANGED <<[e \in Employee |-> OpenSessions(e)], Len(sessions)>>
      BY <1>2, SameSessions DEF IsOpen
    <2> QED
      BY <1>1, <2>1, SameGates DEF Desk!vars
  <1>3. ASSUME NEW i \in DOMAIN sessions,
               \/ sessions' = [sessions EXCEPT ![i].closed = TRUE]
               \/ sessions' = [sessions EXCEPT ![i].expired = TRUE]
               \/ sessions' = [sessions EXCEPT ![i].items = @ + 1]
        PROVE  Desk!Next \/ UNCHANGED Desk!vars
    <2>1. sessions[i] \in SessionRow
      BY TypeFacts DEF DeskInv, GateInv
    <2>2. ASSUME NEW row \in SessionRow, sessions' = [sessions EXCEPT ![i] = row],
                 row.gate = sessions[i].gate, row.by = sessions[i].by,
                 ~row.closed /\ ~row.expired => IsOpen(i)
          PROVE  Desk!Next \/ UNCHANGED Desk!vars
      BY <1>1, <2>2, SessionOnDesk
    <2>3. CASE sessions' = [sessions EXCEPT ![i].closed = TRUE]
      <3> DEFINE row == [sessions[i] EXCEPT !.closed = TRUE]
      <3>1. /\ row \in SessionRow /\ row.gate = sessions[i].gate /\ row.by = sessions[i].by
            /\ row.closed
        BY <2>1 DEF SessionRow
      <3>2. sessions' = [sessions EXCEPT ![i] = row]
        BY <2>3, Zenon
      <3> HIDE DEF row
      <3> QED
        BY <2>2, <3>1, <3>2
    <2>4. CASE sessions' = [sessions EXCEPT ![i].expired = TRUE]
      <3> DEFINE row == [sessions[i] EXCEPT !.expired = TRUE]
      <3>1. /\ row \in SessionRow /\ row.gate = sessions[i].gate /\ row.by = sessions[i].by
            /\ row.expired
        BY <2>1 DEF SessionRow
      <3>2. sessions' = [sessions EXCEPT ![i] = row]
        BY <2>4, Zenon
      <3> HIDE DEF row
      <3> QED
        BY <2>2, <3>1, <3>2
    <2>5. CASE sessions' = [sessions EXCEPT ![i].items = @ + 1]
      <3> DEFINE row == [sessions[i] EXCEPT !.items = @ + 1]
      <3>1. /\ row \in SessionRow /\ row.gate = sessions[i].gate /\ row.by = sessions[i].by
            /\ row.closed = sessions[i].closed /\ row.expired = sessions[i].expired
        BY <2>1 DEF SessionRow
      <3>2. sessions' = [sessions EXCEPT ![i] = row]
        BY <2>5, Zenon
      <3>3. ~row.closed /\ ~row.expired => IsOpen(i)
        BY <3>1 DEF IsOpen
      <3> HIDE DEF row
      <3> QED
        BY <2>2, <3>1, <3>2, <3>3
    <2> QED
      BY <1>3, <2>3, <2>4, <2>5
  <1>4. ASSUME NEW t \in Thread, FinishClose(t) \/ CommitMessage(t) \/ CommitCancel(t)
        PROVE  req[t].session \in DOMAIN sessions
    BY <1>4 DEF FinishClose, CommitMessage, CommitCancel, DeskInv, GateInv, RequestsFit, RequestFits
  <1>5. ASSUME NEW t \in Thread, Commit(t) PROVE Desk!Next \/ UNCHANGED Desk!vars
    <2>1. \/ CheckViolation(t)
          \/ FinishClose(t) \/ CommitMessage(t) \/ CommitCancel(t)
      BY <1>5 DEF Commit
    <2>2. CASE CheckViolation(t)
      BY <1>2, <2>2 DEF CheckViolation, sessionVars
    <2>3. CASE FinishClose(t) \/ CommitMessage(t) \/ CommitCancel(t)
      BY <1>3, <1>4, <2>3 DEF FinishClose, CommitMessage, CommitCancel
    <2> QED
      BY <2>1, <2>2, <2>3
  <1>6. ASSUME NEW t \in Thread, Portal(t) \/ Chat(t) \/ FailClosing(t)
        PROVE  sessions' = sessions
    BY <1>6 DEF Portal, Chat, GateDecide, FailClosing, ReadGate, ReadOpen, ReadMessage, ReadClose,
               ReadCancel, Begin, sessionVars
  <1>7. ASSUME NEW i \in DOMAIN sessions, RefuseClose(i) PROVE Desk!Next \/ UNCHANGED Desk!vars
    BY <1>3, <1>7 DEF RefuseClose
  <1>8. ASSUME NEW i \in sweep, SweepExpire(i) PROVE Desk!Next \/ UNCHANGED Desk!vars
    BY <1>3, <1>8 DEF SweepExpire, DeskInv, GateInv, TypeOK
  <1>9. CASE (\E i \in DOMAIN sessions : FallSilent(i)) \/ SweepSelect \/ SweepFail \/ UNCHANGED vars
    BY <1>2, <1>9 DEF FallSilent, SweepSelect, SweepFail, vars, sessionVars
  <1> QED
    BY <1>2, <1>5, <1>6, <1>7, <1>8, <1>9 DEF Next, Sweep

\* The second write of a rejection is in its transaction.
LEMMA NeverRejectedKept == DeskInv /\ [Next]_vars => NeverRejected'
  <1> SUFFICES ASSUME DeskInv, [Next]_vars PROVE NeverRejected'
    OBVIOUS
  <1>1. ASSUME NEW t \in Thread, CommitGate(t) PROVE NeverRejected'
    <2>1. PICK g \in Gate : g = req[t].gate
      BY <1>1, WriterFacts DEF DeskInv, CommitGate
    <2>2. gate'[g].status # "rejected" /\ \A h \in Gate : h # g => gate'[h] = gate[h]
      BY <1>1, <2>1, LateWrites, CommitWrites DEF DeskInv
    <2> QED
      BY <2>2 DEF DeskInv, NeverRejected
  <1>2. CASE ~(\E t \in Thread : CommitGate(t))
    BY <1>2, OnlyCommitGateWrites DEF DeskInv, NeverRejected, gateVars
  <1> QED
    BY <1>1, <1>2

\* The gates keep the desk's promises: moved by requests that read and commit
\* apart, closes in two commits and sweeps, they step as an atomic desk would.
THEOREM GatesImplementDesk == Spec => ImplementsDesk
  <1>1. Init => DeskInv
    BY InitEstablishes DEF DeskInv, NeverRejected, Init, Unassigned
  <1>2. DeskInv /\ [Next]_vars => DeskInv'
    BY NextKeeps, NeverRejectedKept DEF DeskInv
  <1>3. Init => Desk!Init
    <2> SUFFICES ASSUME Init PROVE Desk!Init
      OBVIOUS
    <2>1. \A g \in Gate : SeenOfGate(g) = Desk!Waiting
      BY DEF Init, Unassigned, SeenOfGate, Desk!Waiting
    <2>2. \A e \in Employee : OpenSessions(e) = {}
      BY DEF Init, OpenSessions
    <2>3. Len(sessions) = 0
      BY DEF Init
    <2> QED
      BY <2>1, <2>2, <2>3 DEF Desk!Init
  <1>4. DeskInv /\ [Next]_vars => [Desk!Next]_(Desk!vars)
    <2> SUFFICES ASSUME DeskInv, [Next]_vars PROVE Desk!Next \/ UNCHANGED Desk!vars
      OBVIOUS
    <2> QED
      BY CommitOnDesk, OpenOnDesk, QuietStepOnDesk
  <1> QED
    BY <1>1, <1>2, <1>3, <1>4, PTL DEF Spec, ImplementsDesk, Desk!Spec

=============================================================================
