------------------------- MODULE ProjectPlanningProofs -------------------------
(***************************************************************************)
(* For any tasks, gates, seats' changes and number of requests side by     *)
(* side: a locked baseline and the approvals made of it stay as they are,  *)
(* the plan agrees with them, and an active project's seats are vacated by *)
(* decision only. The inductive invariant has three parts: what no race    *)
(* disturbs (Grounded), what a request in flight may still rely on: always *)
(* that an execution it saw has a baseline, and as long as it is fresh all *)
(* it has checked (Informed), and what holds while every commit was fresh  *)
(* (Agreed). From it follows that the detailed model implements            *)
(* ProjectLife, step by step.                                              *)
(***************************************************************************)
EXTENDS ProjectPlanning, FiniteSetTheorems, TLAPS

Verdict == {"pending_review", "applicable", "not_applicable"}
Later == {"draft", "active", "on_hold", "completed", "archived"}
Executed == {"active", "on_hold", "completed"}
Locked == baseline # None

Plan == [tasks : SUBSET Task, included : SUBSET Task, class : [Task -> Class], gates : SUBSET Gate,
         links : [Gate -> SUBSET Task], verdict : [Gate -> Verdict]]
ReadOf == [tasks : SUBSET Task, class : [Task -> Class], gates : SUBSET Gate, locked : BOOLEAN]
Arg == {None} \cup Task \cup (Gate \X {"applicable", "not_applicable"}) \cup Later \cup Seat \cup {"activate", "status"}
Op == {"idle", "create", "classify", "activate", "gate", "status", "restore", "remove", "delete", "edit",
       "assign", "end"}
Request == [op : Op, arg : Arg, seen : Later \cup {"none", "deleted"}, fresh : BOOLEAN,
            read : ReadOf \cup {None}]

StatusOp == {"status", "restore", "delete"}

\* What no interleaving disturbs: an execution has its baseline, approvals and
\* dates are those of the baseline, and work that must be done is included.
Typed ==
  /\ status \in Later \cup {"none", "deleted"} /\ archivedFrom \in Later \cup {"none", "deleted"}
  /\ activated \in BOOLEAN /\ completed \in BOOLEAN /\ raced \in BOOLEAN
  /\ plan \in Plan /\ plan.included \subseteq plan.tasks /\ plan.tasks \ Conditional \subseteq plan.included
  /\ baseline \in Baseline \cup {None}
  /\ seats \subseteq Seat /\ change \in [Seat -> {"none", "vacate", "replacement"}]

Executing ==
  /\ activated <=> Locked
  /\ status \in Executed \/ archivedFrom \in Executed => Locked
  /\ status = "none" => ~Locked

Records ==
  /\ DOMAIN approvals \subseteq Gate
  /\ \A x \in DOMAIN approvals : Locked /\ approvals[x].covers \subseteq baseline.tasks
  /\ DOMAIN schedule = IF baseline = None THEN {} ELSE baseline.tasks
  /\ evidence # "kept" => completed /\ Locked
  /\ completed => Locked

Grounded == Typed /\ Executing /\ Records

\* What a request has seen of an execution is still so.
Recalls(r, base) ==
  /\ r.seen \in Executed => base # None
  /\ r.op \in StatusOp => r.arg \in Later /\ (r.arg \in Executed => base # None)
  /\ r.op = "gate" => r.arg \in Gate \X {"applicable", "not_applicable"}
  /\ r.op = "assign" => r.arg \in Seat
  /\ r.read # None /\ r.read.locked => base # None

\* What a fresh request has checked: of the status, of where a restored project
\* goes, of the plan it read.
Current(r, now, target, planRead) ==
  /\ r.seen = now
  /\ r.op = "create" => now = "none"
  /\ r.op \in {"classify", "activate", "remove"} => now = "draft"
  /\ r.op = "activate" /\ r.read # None => r.read = planRead
  /\ r.op = "gate" => now \in {"draft", "active"}
  /\ r.op = "status" => r.arg \in AllowedStatus[now]
  /\ r.op = "restore" => now = "archived" /\ r.arg = target
  /\ r.op = "delete" => now \in {"active", "on_hold"} /\ r.arg = "archived"
  /\ r.op = "end" => now # "active"

Knows(r, base, now, target, planRead) ==
  Recalls(r, base) /\ (r # Idle /\ r.fresh => Current(r, now, target, planRead))

Informed ==
  /\ request \in [Thread -> Request]
  /\ \A th \in Thread : Knows(request[th], baseline, status, RestoreTarget, PlanRead)

\* What holds while nothing raced.
Agrees ==
  /\ status = "draft" => ~Locked
  /\ status = "archived" /\ archivedFrom = "draft" => ~Locked
  /\ Locked =>
       /\ plan.tasks \ Conditional \subseteq baseline.tasks
       /\ \A t \in baseline.tasks : baseline.class[t] = plan.class[t]
       /\ DOMAIN approvals = Applicable

Agreed == ~raced => Agrees

PlanningInv == Grounded /\ Informed /\ Agreed

-----------------------------------------------------------------------------
LEMMA PlanningFollows == PlanningInv => PlanningSound
  BY DEF PlanningInv, Grounded, Typed, Executing, Records, Agreed, Agrees, PlanningSound, Locked, Executed

LEMMA InitPlanning == Init => PlanningInv
  <1> SUFFICES ASSUME Init PROVE PlanningInv
    OBVIOUS
  <1>1. NoPlan \in Plan /\ NoPlan.included = {} /\ NoPlan.tasks = {}
    BY ConstantsAssumption DEF NoPlan, Plan, Verdict, Class, TemplateTask
  <1>2. Typed
    BY <1>1 DEF Init, Typed
  <1>3. Executing
    BY DEF Init, Executing, Locked, Executed
  <1>4. Records
    BY DEF Init, Records, Locked
  <1>5. Idle \in Request
    BY DEF Idle, Request, Op, Arg
  <1>6. \A base : Recalls(Idle, base)
    BY DEF Idle, Recalls, Executed, StatusOp
  <1>7. Informed
    BY <1>5, <1>6 DEF Init, Informed, Knows
  <1>8. Agreed
    BY DEF Init, Agreed, Agrees, Locked
  <1> QED
    BY <1>2, <1>3, <1>4, <1>7, <1>8 DEF PlanningInv, Grounded

-----------------------------------------------------------------------------
(* Requests. *)

LEMMA IdleIsFine == Idle \in Request /\ \A base : Recalls(Idle, base)
  BY DEF Idle, Request, Op, Arg, Recalls, Executed, StatusOp

\* A request that is overtaken keeps what it recalls and claims no more.
LEMMA StaleKnows ==
  ASSUME NEW r \in Request, NEW base, NEW after, Recalls(r, base), base # None => after # None,
         NEW s, s = [r EXCEPT !.fresh = FALSE]
  PROVE  s \in Request /\ Recalls(s, after) /\ ~s.fresh
  <1>1. s \in Request /\ s.op = r.op /\ s.arg = r.arg /\ s.seen = r.seen /\ s.read = r.read /\ ~s.fresh
    BY DEF Request
  <1>2. Recalls(s, after)
    BY <1>1 DEF Recalls
  <1> QED
    BY <1>1, <1>2

\* After somebody else's commit.
LEMMA AgedKnow ==
  ASSUME Informed, Locked => Locked',
         request' = Overtaken \/ \E th \in Thread : request' = [Overtaken EXCEPT ![th] = Idle]
  PROVE  Informed'
  <1>1. \A th \in Thread : request'[th] \in {Idle, [request[th] EXCEPT !.fresh = FALSE]}
    BY DEF Overtaken
  <1>2. request' = [th \in Thread |-> request'[th]]
    BY DEF Overtaken
  <1>3. ASSUME NEW th \in Thread
        PROVE  /\ request'[th] \in Request
               /\ Knows(request'[th], baseline', status', RestoreTarget', PlanRead')
    <2>1. CASE request'[th] = Idle
      BY <2>1, IdleIsFine DEF Knows
    <2>2. CASE request'[th] = [request[th] EXCEPT !.fresh = FALSE]
      <3>1. request[th] \in Request /\ Recalls(request[th], baseline)
        BY DEF Informed, Knows
      <3>2. request'[th] \in Request /\ Recalls(request'[th], baseline') /\ ~request'[th].fresh
        BY <2>2, <3>1, StaleKnows DEF Locked
      <3> QED
        BY <3>2 DEF Knows
    <2> QED
      BY <1>1, <2>1, <2>2
  <1>4. request' \in [Thread -> Request]
    BY <1>2, <1>3
  <1> QED
    BY <1>3, <1>4 DEF Informed

\* Beside a step that changes nothing a request looks at.
Unseen == UNCHANGED <<status, activated, archivedFrom, audits, plan, baseline>>

LEMMA UnseenStays == ASSUME Unseen PROVE UNCHANGED RestoreTarget /\ UNCHANGED PlanRead
  BY DEF Unseen, PlanRead, Included, Applicable, RestoreTarget

LEMMA UnseenInforms ==
  ASSUME Informed, Unseen, UNCHANGED request
  PROVE  Informed'
  BY UnseenStays DEF Informed, Unseen

\* One request changes and knows what it has to.
LEMMA OneInforms ==
  ASSUME Informed, Unseen, NEW th \in Thread, NEW r \in Request,
         Knows(r, baseline, status, RestoreTarget, PlanRead),
         request' = [request EXCEPT ![th] = r]
  PROVE  Informed'
  <1>1. request' \in [Thread -> Request]
    BY DEF Informed
  <1>2. \A u \in Thread : Knows(request'[u], baseline, status, RestoreTarget, PlanRead)
    BY DEF Informed
  <1>3. \A u \in Thread : Knows(request'[u], baseline', status', RestoreTarget', PlanRead')
    BY <1>2, UnseenStays DEF Unseen
  <1> QED
    BY <1>1, <1>3 DEF Informed

\* A step that changes neither plan nor execution.
StateStays ==
  UNCHANGED <<status, activated, completed, archivedFrom, seats, change, plan, baseline, approvals,
              schedule, evidence, raced>>

LEMMA StateStaysSound ==
  ASSUME Grounded, Agreed, StateStays
  PROVE  Grounded' /\ Agreed'
  <1>1. Typed' /\ Executing' /\ Records'
    BY DEF StateStays, Grounded, Typed, Executing, Records, Locked
  <1>2. Agreed'
    BY DEF StateStays, Agreed, Agrees, Locked, Applicable
  <1> QED
    BY <1>1, <1>2 DEF Grounded

-----------------------------------------------------------------------------
(* Requests begin. *)

LEMMA BeginKeeps ==
  ASSUME PlanningInv, NEW th \in Thread, NEW op \in Op, NEW arg \in Arg, Begin(th, op, arg),
         NEW r, r = [op |-> op, arg |-> arg, seen |-> status, fresh |-> TRUE, read |-> None],
         Knows(r, baseline, status, RestoreTarget, PlanRead)
  PROVE  PlanningInv'
  <1>1. Unseen /\ StateStays
    BY DEF Begin, Unseen, StateStays, project, team, execution
  <1>2. r \in Request
    BY DEF PlanningInv, Grounded, Typed, Request
  <1>3. request' = [request EXCEPT ![th] = r]
    BY DEF Begin
  <1>4. Informed'
    BY <1>1, <1>2, <1>3, OneInforms DEF PlanningInv
  <1> QED
    BY <1>1, <1>4, StateStaysSound DEF PlanningInv

\* What a beginning request has seen it knows, if its checks say what it needs.
LEMMA BeginKnows ==
  ASSUME PlanningInv, NEW op, NEW arg,
         NEW r, r = [op |-> op, arg |-> arg, seen |-> status, fresh |-> TRUE, read |-> None],
         op = "create" => status = "none",
         op \in {"classify", "activate", "remove"} => status = "draft",
         op = "gate" => status \in {"draft", "active"} /\ arg \in Gate \X {"applicable", "not_applicable"},
         op = "status" => arg \in AllowedStatus[status],
         op = "restore" => status = "archived" /\ arg = RestoreTarget,
         op = "delete" => status \in {"active", "on_hold"} /\ arg = "archived",
         op = "assign" => arg \in Seat,
         op = "end" => status # "active",
         op \in StatusOp => arg \in Later /\ (arg \in Executed => Locked)
  PROVE  Knows(r, baseline, status, RestoreTarget, PlanRead)
  <1>1. Recalls(r, baseline)
    BY DEF Recalls, PlanningInv, Grounded, Executing, Locked
  <1>2. Current(r, status, RestoreTarget, PlanRead)
    BY DEF Current
  <1> QED
    BY <1>1, <1>2 DEF Knows

\* The rows of the status table: what was not executed cannot be entered as such.
LEMMA TableIsSound ==
  ASSUME PlanningInv, NEW target \in AllowedStatus[status]
  PROVE  target \in Later /\ (target \in Executed => Locked)
  <1>1. status \in {"draft", "active", "on_hold", "completed", "archived", "none", "deleted"}
    BY DEF PlanningInv, Grounded, Typed, Later
  <1>2. CASE status \in {"none", "deleted", "archived"}
    BY <1>2 DEF AllowedStatus
  <1>3. CASE status = "draft"
    BY <1>3 DEF AllowedStatus, Later, Executed
  <1>4. CASE status \in {"active", "on_hold", "completed"}
    <2>1. Locked
      BY <1>4 DEF PlanningInv, Grounded, Executing, Executed
    <2>2. target \in Later
      BY <1>4 DEF AllowedStatus, Later
    <2> QED
      BY <2>1, <2>2
  <1> QED
    BY <1>1, <1>2, <1>3, <1>4

\* A project is only restored to an execution that had begun.
LEMMA RestoreIsSound ==
  ASSUME PlanningInv
  PROVE  RestoreTarget \in {"draft", "on_hold", "completed"} /\ (RestoreTarget \in Executed => Locked)
  <1>1. RestoreTarget \in {"draft", "on_hold", "completed"}
    BY DEF RestoreTarget
  <1>2. RestoreTarget \in Executed => archivedFrom \in Executed \/ activated
    BY DEF RestoreTarget, Executed
  <1> QED
    BY <1>1, <1>2 DEF PlanningInv, Grounded, Executing

LEMMA BeginsKeep ==
  ASSUME PlanningInv, NEW th \in Thread, Begins(th)
  PROVE  PlanningInv'
  <1> DEFINE New(op, arg) == [op |-> op, arg |-> arg, seen |-> status, fresh |-> TRUE, read |-> None]
  <1>0. ASSUME NEW op \in Op, NEW arg \in Arg, Begin(th, op, arg),
               Knows(New(op, arg), baseline, status, RestoreTarget, PlanRead)
        PROVE  PlanningInv'
    BY <1>0, BeginKeeps
  <1>1. CASE BeginCreate(th)
    <2>1. Knows(New("create", None), baseline, status, RestoreTarget, PlanRead)
      BY <1>1, BeginKnows DEF BeginCreate, StatusOp
    <2> QED
      BY <1>0, <1>1, <2>1 DEF BeginCreate, Op, Arg
  <1>2. CASE BeginEdit(th)
    <2>1. Knows(New("edit", None), baseline, status, RestoreTarget, PlanRead)
      BY <1>2, BeginKnows DEF StatusOp
    <2> QED
      BY <1>0, <1>2, <2>1 DEF BeginEdit, Op, Arg
  <1>3. CASE BeginRestore(th)
    <2>1. RestoreTarget \in Later /\ (RestoreTarget \in Executed => Locked)
      BY RestoreIsSound DEF Later
    <2>2. Knows(New("restore", RestoreTarget), baseline, status, RestoreTarget, PlanRead)
      BY <1>3, <2>1, BeginKnows DEF BeginRestore, StatusOp
    <2> QED
      BY <1>0, <1>3, <2>1, <2>2 DEF BeginRestore, Op, Arg
  <1>4. CASE BeginDelete(th)
    <2>1. CASE status = "draft" /\ Begin(th, "remove", "archived")
      <3>1. Knows(New("remove", "archived"), baseline, status, RestoreTarget, PlanRead)
        BY <2>1, BeginKnows DEF StatusOp
      <3> QED
        BY <1>0, <2>1, <3>1 DEF Op, Arg, Later
    <2>2. CASE status # "draft" /\ Begin(th, "delete", "archived")
      <3>1. Knows(New("delete", "archived"), baseline, status, RestoreTarget, PlanRead)
        BY <1>4, <2>2, BeginKnows DEF BeginDelete, StatusOp, Later, Executed
      <3> QED
        BY <1>0, <2>2, <3>1 DEF Op, Arg, Later
    <2> QED
      BY <1>4, <2>1, <2>2 DEF BeginDelete
  <1>5. ASSUME NEW t \in Task, BeginClassify(th, t) PROVE PlanningInv'
    <2>1. Knows(New("classify", t), baseline, status, RestoreTarget, PlanRead)
      BY <1>5, BeginKnows DEF BeginClassify, StatusOp
    <2> QED
      BY <1>0, <1>5, <2>1 DEF BeginClassify, Op, Arg
  <1>6. ASSUME NEW route \in {"activate", "status"}, BeginActivate(th, route) PROVE PlanningInv'
    <2>1. Knows(New("activate", route), baseline, status, RestoreTarget, PlanRead)
      BY <1>6, BeginKnows DEF BeginActivate, StatusOp
    <2> QED
      BY <1>0, <1>6, <2>1 DEF BeginActivate, Op, Arg
  <1>7. ASSUME NEW x \in Gate, NEW d \in {"applicable", "not_applicable"}, BeginDecideGate(th, x, d)
        PROVE  PlanningInv'
    <2>1. <<x, d>> \in Gate \X {"applicable", "not_applicable"}
      BY <1>7
    <2>2. Knows(New("gate", <<x, d>>), baseline, status, RestoreTarget, PlanRead)
      BY <1>7, <2>1, BeginKnows DEF BeginDecideGate, StatusOp
    <2> QED
      BY <1>0, <1>7, <2>1, <2>2 DEF BeginDecideGate, Op, Arg
  <1>8. ASSUME NEW target, BeginStatus(th, target) PROVE PlanningInv'
    <2>1. target \in Later /\ (target \in Executed => Locked)
      BY <1>8, TableIsSound DEF BeginStatus
    <2>2. Knows(New("status", target), baseline, status, RestoreTarget, PlanRead)
      BY <1>8, <2>1, BeginKnows DEF BeginStatus, StatusOp
    <2> QED
      BY <1>0, <1>8, <2>1, <2>2 DEF BeginStatus, Op, Arg
  <1>9. ASSUME NEW x \in Seat, BeginAssign(th, x) PROVE PlanningInv'
    <2>1. Knows(New("assign", x), baseline, status, RestoreTarget, PlanRead)
      BY <1>9, BeginKnows DEF StatusOp
    <2> QED
      BY <1>0, <1>9, <2>1 DEF BeginAssign, Op, Arg
  <1>10. ASSUME NEW x \in Seat, BeginEnd(th, x) PROVE PlanningInv'
    <2>1. Knows(New("end", x), baseline, status, RestoreTarget, PlanRead)
      BY <1>10, BeginKnows DEF BeginEnd, Direct, StatusOp
    <2> QED
      BY <1>0, <1>10, <2>1 DEF BeginEnd, Op, Arg
  <1> HIDE DEF New
  <1> QED
    BY <1>1, <1>2, <1>3, <1>4, <1>5, <1>6, <1>7, <1>8, <1>9, <1>10 DEF Begins

-----------------------------------------------------------------------------
(* What a commit may do. *)

\* BaselineIsKept, for one step.
Kept ==
  /\ baseline # None => baseline' = baseline
  /\ \A x \in DOMAIN approvals : x \in DOMAIN approvals' /\ approvals'[x] = approvals[x]

LEMMA CommitInforms ==
  ASSUME PlanningInv, NEW th \in Thread, Commit(th), Kept
  PROVE  Informed'
  BY AgedKnow DEF PlanningInv, Commit, Kept, Locked

LEMMA AtOnceInforms ==
  ASSUME PlanningInv, request' = Overtaken, Kept
  PROVE  Informed'
  BY AgedKnow DEF PlanningInv, Kept, Locked

\* Where nothing raced, a request still knows at its commit what it has checked.
LEMMA FreshCommit ==
  ASSUME PlanningInv, NEW th \in Thread, Commit(th), request[th].op # "idle", ~raced'
  PROVE  ~raced /\ Agrees /\ Current(request[th], status, RestoreTarget, PlanRead)
  <1>1. request[th].fresh \in BOOLEAN /\ raced \in BOOLEAN
    BY DEF PlanningInv, Informed, Request, Grounded, Typed
  <1>2. ~raced /\ request[th].fresh
    BY <1>1 DEF Commit
  <1>3. request[th] # Idle
    BY DEF Idle
  <1> QED
    BY <1>2, <1>3 DEF PlanningInv, Agreed, Informed, Knows

LEMMA RacedTyped ==
  ASSUME PlanningInv, NEW th \in Thread, Commit(th)
  PROVE  raced' \in BOOLEAN
  BY DEF PlanningInv, Informed, Request, Grounded, Typed, Commit

\* Approvals are added, for gates that have none, and cover the work given.
LEMMA InstantiatedAdds ==
  ASSUME NEW gates, NEW tasks
  PROVE  /\ DOMAIN Instantiated(gates, tasks) = DOMAIN approvals \cup gates
         /\ \A x \in DOMAIN approvals : Instantiated(gates, tasks)[x] = approvals[x]
         /\ \A x \in gates : x \notin DOMAIN approvals => Instantiated(gates, tasks)[x].covers \subseteq tasks
  <1>1. \A x : Approval(x, tasks).covers \subseteq tasks
    BY DEF Approval
  <1> QED
    BY <1>1 DEF Instantiated

-----------------------------------------------------------------------------
(* The commits. *)

LEMMA CreateKeeps ==
  ASSUME PlanningInv, NEW th \in Thread, Create(th)
  PROVE  PlanningInv' /\ Kept
  <1>1. ~Locked /\ status' = "draft"
    BY DEF Create, PlanningInv, Grounded, Executing
  <1>2. /\ plan' \in Plan /\ plan'.included = TemplateTask /\ plan'.tasks = TemplateTask
    BY ConstantsAssumption DEF Create, NoPlan, Plan, Verdict, Class, GeneratedTasks, GeneratedGates, TemplateTask,
       TemplateGate
  <1>3. UNCHANGED <<activated, completed, archivedFrom, change, baseline, approvals, schedule, evidence>>
    BY DEF Create, Commit
  <1>4. Typed'
    BY <1>1, <1>2, <1>3, RacedTyped DEF Create, PlanningInv, Grounded, Typed, Later
  <1>5. Executing'
    BY <1>1, <1>3 DEF PlanningInv, Grounded, Executing, Locked, Executed
  <1>6. Records'
    BY <1>3 DEF PlanningInv, Grounded, Records, Locked
  <1>7. Agreed'
    BY <1>1, <1>3 DEF Agreed, Agrees, Locked
  <1>8. Kept
    BY <1>3 DEF Kept
  <1>9. Informed'
    BY <1>8, CommitInforms DEF Create
  <1> QED
    BY <1>4, <1>5, <1>6, <1>7, <1>8, <1>9 DEF PlanningInv, Grounded

\* Classes change in a draft, before they are locked.
LEMMA ClassifyKeeps ==
  ASSUME PlanningInv, NEW th \in Thread, Classify(th)
  PROVE  PlanningInv' /\ Kept
  <1>1. request[th].arg \in Task
    BY DEF Classify, PlanningInv, Grounded, Typed, Plan
  <1>2. /\ plan' \in Plan /\ plan'.included = plan.included /\ plan'.tasks = plan.tasks
    BY <1>1 DEF Classify, PlanningInv, Grounded, Typed, Plan, Class
  <1>3. UNCHANGED <<status, activated, completed, archivedFrom, seats, change, baseline, approvals, schedule, evidence>>
    BY DEF Classify, Commit, project, team
  <1>4. Typed'
    BY <1>2, <1>3, RacedTyped DEF Classify, PlanningInv, Grounded, Typed
  <1>5. Executing' /\ Records'
    BY <1>3 DEF PlanningInv, Grounded, Executing, Records, Locked
  <1>6. ASSUME ~raced' PROVE ~Locked
    BY <1>6, FreshCommit DEF Classify, Is, Current, Agrees
  <1>7. Agreed'
    BY <1>3, <1>6 DEF Agreed, Agrees, Locked
  <1>8. Kept
    BY <1>3 DEF Kept
  <1>9. Informed'
    BY <1>8, CommitInforms DEF Classify
  <1> QED
    BY <1>4, <1>5, <1>7, <1>8, <1>9 DEF PlanningInv, Grounded

\* What the first activation locks is a baseline.
LEMMA LockedBaselineTyped ==
  ASSUME NEW read \in ReadOf, ~read.locked
  PROVE  LockedBaseline(read) \in Baseline /\ LockedBaseline(read).tasks = read.tasks
         /\ \A t \in read.tasks : LockedBaseline(read).class[t] = read.class[t]
  <1> DEFINE class == [t \in read.tasks |-> read.class[t]]
  <1>1. read.tasks \in SUBSET Task /\ read.class \in [Task -> Class] /\ read.gates \in SUBSET Gate
    BY DEF ReadOf
  <1>2. class \in [read.tasks -> Class]
    BY <1>1
  <1>3. class \in UNION {[s -> Class] : s \in SUBSET Task}
    BY <1>1, <1>2
  <1>4. GeneratedDepends(read.tasks) \in SUBSET Depends
    BY DEF GeneratedDepends
  <1>5. Cardinality(read.gates) \in Nat
    BY <1>1, ConstantsAssumption, FS_Subset, FS_CardinalityType
  <1>6. LockedBaseline(read) = [tasks |-> read.tasks, depends |-> GeneratedDepends(read.tasks), class |-> class,
                                gate_count |-> Cardinality(read.gates)]
    BY DEF LockedBaseline
  <1>7. \A t \in read.tasks : class[t] = read.class[t]
    OBVIOUS
  <1> HIDE DEF class
  <1> QED
    BY <1>1, <1>3, <1>4, <1>5, <1>6, <1>7 DEF Baseline

LEMMA ReadKeeps ==
  ASSUME PlanningInv, NEW th \in Thread, ReadPlan(th)
  PROVE  PlanningInv' /\ Kept
  <1>1. Unseen /\ StateStays /\ Kept
    BY DEF ReadPlan, Unseen, StateStays, Kept, project, team, execution
  <1>2. request[th] \in Request /\ Knows(request[th], baseline, status, RestoreTarget, PlanRead)
    BY DEF PlanningInv, Informed
  <1> DEFINE r == [request[th] EXCEPT !.read = PlanRead]
  <1>3. PlanRead \in ReadOf
    BY DEF PlanRead, ReadOf, Included, Applicable, PlanningInv, Grounded, Typed, Plan
  <1>4. /\ r \in Request /\ r.op = "activate" /\ r.arg = request[th].arg /\ r.seen = request[th].seen
        /\ r.fresh = request[th].fresh /\ r.read = PlanRead
    BY <1>2, <1>3 DEF Request, ReadPlan, Is
  <1>5. request' = [request EXCEPT ![th] = r]
    BY DEF ReadPlan
  <1> HIDE DEF r
  <1>6. Recalls(r, baseline)
    <2>1. PlanRead.locked => baseline # None
      BY DEF PlanRead
    <2>2. r.seen \in Executed => baseline # None
      BY <1>2, <1>4 DEF Knows, Recalls
    <2> QED
      BY <1>4, <2>1, <2>2 DEF Recalls, StatusOp
  <1>7. ASSUME r.fresh PROVE Current(r, status, RestoreTarget, PlanRead)
    <2>1. request[th] # Idle
      BY DEF ReadPlan, Is, Idle
    <2>2. Current(request[th], status, RestoreTarget, PlanRead)
      BY <1>2, <1>4, <1>7, <2>1 DEF Knows
    <2> QED
      BY <1>4, <2>2 DEF Current, ReadPlan, Is
  <1>8. Informed'
    BY <1>1, <1>4, <1>5, <1>6, <1>7, OneInforms DEF Knows, PlanningInv
  <1> QED
    BY <1>1, <1>8, StateStaysSound DEF PlanningInv

\* A second activation finds the baseline and leaves it; the first locks what
\* it read, which is the plan of now if nothing raced.
LEMMA ActivateKeeps ==
  ASSUME PlanningInv, NEW th \in Thread, Activate(th)
  PROVE  PlanningInv' /\ Kept
  <1> DEFINE read == request[th].read
  <1>1. Commit(th) /\ request[th].op = "activate" /\ read # None
    BY DEF Activate, Is
  <1>2. read \in ReadOf /\ (read.locked => Locked)
    <2>1. read \in ReadOf \cup {None}
      BY DEF PlanningInv, Informed, Request
    <2>2. Recalls(request[th], baseline)
      BY DEF PlanningInv, Informed, Knows
    <2> QED
      BY <1>1, <2>1, <2>2 DEF Recalls, Locked
  <1>3. read.locked \in BOOLEAN /\ read.tasks \subseteq Task /\ read.gates \subseteq Gate
    BY <1>2 DEF ReadOf
  <1>4. status' = "active" /\ activated' = TRUE
    BY DEF Activate
  <1>5. UNCHANGED <<completed, archivedFrom, seats, change, plan, evidence>>
    BY DEF Activate, Commit, team
  <1>6. CASE read.locked
    <2>1. UNCHANGED <<baseline, approvals, schedule>>
      BY <1>6 DEF Activate, LockedBaseline
    <2>2. Typed'
      BY <1>1, <1>4, <1>5, <2>1, RacedTyped DEF PlanningInv, Grounded, Typed, Later
    <2>3. Locked /\ Locked'
      BY <1>2, <1>6, <2>1 DEF Locked
    <2>4. Executing' /\ Records'
      BY <1>4, <1>5, <2>1, <2>3 DEF PlanningInv, Grounded, Executing, Records, Locked
    <2>5. ASSUME ~raced' PROVE FALSE
      BY <1>1, <2>3, <2>5, FreshCommit DEF Current, Agrees
    <2>6. Kept
      BY <2>1 DEF Kept
    <2>7. Informed'
      BY <1>1, <2>6, CommitInforms
    <2> QED
      BY <2>2, <2>4, <2>5, <2>6, <2>7 DEF PlanningInv, Grounded, Agreed
  <1>7. CASE ~read.locked
    <2>1. baseline = None /\ DOMAIN approvals = {}
      BY <1>7 DEF Activate, PlanningInv, Grounded, Records, Locked
    <2>2. /\ baseline' = LockedBaseline(read)
          /\ approvals' = Instantiated(read.gates, read.tasks)
          /\ schedule' = Derived(read.tasks)
      BY <1>7 DEF Activate
    <2>3. /\ baseline' \in Baseline /\ baseline'.tasks = read.tasks
          /\ \A t \in read.tasks : baseline'.class[t] = read.class[t]
      BY <1>2, <1>7, <2>2, LockedBaselineTyped
    <2>4. baseline' # None
      BY <2>3, ConstantsAssumption
    <2>5. DOMAIN approvals' = read.gates /\ \A x \in read.gates : approvals'[x].covers \subseteq read.tasks
      BY <2>1, <2>2, InstantiatedAdds
    <2>6. DOMAIN schedule' = read.tasks
      BY <2>2 DEF Derived
    <2>7. Typed'
      BY <1>1, <1>4, <1>5, <2>3, RacedTyped DEF PlanningInv, Grounded, Typed, Later
    <2>8. Executing'
      BY <1>4, <2>4 DEF Executing, Locked
    <2>9. Records'
      BY <1>3, <1>5, <2>3, <2>4, <2>5, <2>6 DEF PlanningInv, Grounded, Records, Locked
    <2>10. Agreed'
      <3> SUFFICES ASSUME ~raced' PROVE Agrees'
        BY DEF Agreed
      <3>1. read = PlanRead
        BY <1>1, FreshCommit DEF Current
      <3>2. read.tasks = plan.included /\ read.class = plan.class /\ read.gates = Applicable
        BY <3>1 DEF PlanRead, Included
      <3>3. plan'.tasks \ Conditional \subseteq baseline'.tasks
        BY <1>5, <2>3, <3>2 DEF PlanningInv, Grounded, Typed
      <3>4. \A t \in baseline'.tasks : baseline'.class[t] = plan'.class[t]
        BY <1>5, <2>3, <3>2
      <3>5. DOMAIN approvals' = Applicable'
        BY <1>5, <2>5, <3>2 DEF Applicable
      <3> QED
        BY <1>4, <3>3, <3>4, <3>5 DEF Agrees
    <2>11. Kept
      BY <2>1 DEF Kept
    <2>12. Informed'
      BY <1>1, <2>11, CommitInforms
    <2> QED
      BY <2>7, <2>8, <2>9, <2>10, <2>11, <2>12 DEF PlanningInv, Grounded
  <1> HIDE DEF read
  <1> QED
    BY <1>3, <1>6, <1>7

\* A ruling on an active project brings the approval with it, and a gate that
\* has one is not ruled out any more.
LEMMA DecideGateKeeps ==
  ASSUME PlanningInv, NEW th \in Thread, DecideGate(th)
  PROVE  PlanningInv' /\ Kept
  <1> DEFINE x == request[th].arg[1]
             d == request[th].arg[2]
  <1>1. Commit(th) /\ request[th].op = "gate" /\ x \in plan.gates /\ RulingAllowed(x, d)
    BY DEF DecideGate, Is
  <1>2. d \in {"applicable", "not_applicable"} /\ x \in Gate
    BY <1>1 DEF PlanningInv, Informed, Knows, Recalls
  <1>3. plan' = [plan EXCEPT !.verdict[x] = d]
    BY DEF DecideGate
  <1>4. /\ plan' \in Plan /\ plan'.tasks = plan.tasks /\ plan'.included = plan.included
        /\ plan'.class = plan.class /\ plan'.gates = plan.gates
        /\ plan'.verdict = [plan.verdict EXCEPT ![x] = d]
    BY <1>2, <1>3 DEF PlanningInv, Grounded, Typed, Plan, Verdict
  <1>5. UNCHANGED <<status, activated, completed, archivedFrom, seats, change, baseline, schedule, evidence>>
    BY DEF DecideGate, Commit, project, team
  <1> DEFINE made == Instantiated(Applicable \cup {x}, baseline.tasks)
  <1>6. approvals' = IF request[th].seen = "active" /\ d = "applicable" THEN made ELSE approvals
    BY DEF DecideGate
  <1> HIDE DEF x, d
  <1>7. /\ DOMAIN made = DOMAIN approvals \cup (Applicable \cup {x})
        /\ \A y \in DOMAIN approvals : made[y] = approvals[y]
        /\ \A y \in Applicable \cup {x} : y \notin DOMAIN approvals => made[y].covers \subseteq baseline.tasks
    BY InstantiatedAdds
  <1> HIDE DEF made
  <1>8. request[th].seen = "active" => Locked
    BY DEF PlanningInv, Informed, Knows, Recalls, Executed, Locked
  <1>9. plan.gates \subseteq Gate /\ plan.verdict \in [Gate -> Verdict]
    BY DEF PlanningInv, Grounded, Typed, Plan
  <1>10. Applicable \cup {x} \subseteq Gate
    BY <1>2, <1>9 DEF Applicable
  <1>11. Typed'
    BY <1>1, <1>4, <1>5, RacedTyped DEF PlanningInv, Grounded, Typed
  <1>12. Executing'
    BY <1>5 DEF PlanningInv, Grounded, Executing, Locked
  <1>13. Kept
    BY <1>5, <1>6, <1>7 DEF Kept
  <1>14. Records'
    <2>1. CASE request[th].seen = "active" /\ d = "applicable"
      <3>1. approvals' = made
        BY <1>6, <2>1
      <3>2. DOMAIN approvals' = DOMAIN approvals \cup (Applicable \cup {x})
        BY <1>7, <3>1
      <3>3. \A y \in DOMAIN approvals : approvals'[y].covers \subseteq baseline.tasks
        BY <1>7, <3>1 DEF PlanningInv, Grounded, Records
      <3>4. \A y \in Applicable \cup {x} : y \notin DOMAIN approvals => approvals'[y].covers \subseteq baseline.tasks
        BY <1>7, <3>1
      <3> QED
        BY <1>5, <1>8, <1>10, <2>1, <3>2, <3>3, <3>4 DEF PlanningInv, Grounded, Records, Locked
    <2>2. CASE ~(request[th].seen = "active" /\ d = "applicable")
      BY <1>5, <1>6, <2>2 DEF PlanningInv, Grounded, Records, Locked
    <2> QED
      BY <2>1, <2>2
  <1>15. Agreed'
    <2> SUFFICES ASSUME ~raced' PROVE Agrees'
      BY DEF Agreed
    <2>1. Agrees /\ request[th].seen = status /\ status \in {"draft", "active"}
      BY <1>1, FreshCommit DEF Current
    <2>2. CASE ~Locked
      BY <1>5, <2>1, <2>2 DEF Agrees, Locked
    <2>3. CASE Locked
      <3>1. status = "active" /\ request[th].seen = "active" /\ DOMAIN approvals = Applicable
        BY <2>1, <2>3 DEF Agrees
      <3>2. DOMAIN approvals' = Applicable'
        <4>1. CASE d = "applicable"
          <5>1. DOMAIN approvals' = Applicable \cup {x}
            BY <1>6, <1>7, <3>1, <4>1
          <5>2. Applicable' = Applicable \cup {x}
            BY <1>1, <1>2, <1>4, <1>9, <4>1 DEF Applicable
          <5> QED
            BY <5>1, <5>2
        <4>2. CASE d = "not_applicable"
          <5>1. x \notin Applicable
            BY <1>1, <3>1, <4>2 DEF RulingAllowed
          <5>2. Applicable' = Applicable
            BY <1>2, <1>4, <1>9, <4>2, <5>1 DEF Applicable
          <5> QED
            BY <1>6, <3>1, <4>2, <5>2
        <4> QED
          BY <1>2, <4>1, <4>2
      <3>3. plan'.tasks \ Conditional \subseteq baseline'.tasks
        BY <1>4, <1>5, <2>1, <2>3 DEF Agrees
      <3>4. \A t \in baseline'.tasks : baseline'.class[t] = plan'.class[t]
        BY <1>4, <1>5, <2>1, <2>3 DEF Agrees
      <3> QED
        BY <1>5, <3>1, <3>2, <3>3, <3>4 DEF Agrees
    <2> QED
      BY <2>2, <2>3
  <1>16. Informed'
    BY <1>1, <1>13, CommitInforms
  <1> QED
    BY <1>11, <1>12, <1>13, <1>14, <1>15, <1>16 DEF PlanningInv, Grounded

\* A status is entered as the table, the restore rule or a deletion says, on
\* what the request saw; who enters an executed status saw an execution.
LEMMA ChangeStatusKeeps ==
  ASSUME PlanningInv, NEW th \in Thread, ChangeStatus(th)
  PROVE  PlanningInv' /\ Kept
  <1>1. Commit(th) /\ request[th].op \in StatusOp
    BY DEF ChangeStatus, StatusOp
  <1>2. request[th].arg \in Later /\ (request[th].arg \in Executed => Locked)
    BY <1>1 DEF PlanningInv, Informed, Knows, Recalls, Locked
  <1>3. request[th].seen \in Later \cup {"none", "deleted"} /\ (request[th].seen \in Executed => Locked)
    BY DEF PlanningInv, Informed, Knows, Recalls, Request, Locked
  <1>4. /\ status' = request[th].arg
        /\ archivedFrom' = IF request[th].arg = "archived" THEN request[th].seen ELSE archivedFrom
        /\ completed' = (completed \/ (request[th].op = "status" /\ request[th].arg = "completed"))
    BY DEF ChangeStatus, Is
  <1>5. UNCHANGED <<activated, seats, change, plan, baseline, approvals, schedule, evidence>>
    BY DEF ChangeStatus, Commit, team
  <1>6. Typed'
    BY <1>1, <1>2, <1>3, <1>4, <1>5, RacedTyped DEF PlanningInv, Grounded, Typed
  <1>7. status' # "none" /\ (status' \in Executed => Locked) /\ (archivedFrom' \in Executed => Locked)
    BY <1>2, <1>3, <1>4 DEF Later, PlanningInv, Grounded, Executing
  <1>8. Executing'
    BY <1>5, <1>7 DEF PlanningInv, Grounded, Executing, Locked
  <1>9. completed' => Locked
    BY <1>2, <1>4 DEF PlanningInv, Grounded, Records, Executed
  <1>10. completed => completed'
    BY <1>4
  <1>11. Records'
    BY <1>5, <1>9, <1>10 DEF PlanningInv, Grounded, Records, Locked
  <1>12. Agreed'
    <2> SUFFICES ASSUME ~raced' PROVE Agrees'
      BY DEF Agreed
    <2>1. Agrees /\ Current(request[th], status, RestoreTarget, PlanRead)
      BY <1>1, FreshCommit DEF StatusOp
    <2>2. ASSUME status' = "draft" PROVE ~Locked
      <3>1. CASE request[th].op = "status"
        <4>1. "draft" \in AllowedStatus[status]
          BY <1>4, <2>1, <2>2, <3>1 DEF Current
        <4>2. "draft" \notin AllowedStatus[status]
          BY DEF AllowedStatus, PlanningInv, Grounded, Typed, Later
        <4> QED
          BY <4>1, <4>2
      <3>2. CASE request[th].op = "restore"
        <4>1. status = "archived" /\ RestoreTarget = "draft"
          BY <1>4, <2>1, <2>2, <3>2 DEF Current
        <4>2. archivedFrom = "draft" \/ ~activated
          BY <4>1 DEF RestoreTarget
        <4> QED
          BY <2>1, <4>1, <4>2 DEF Agrees, PlanningInv, Grounded, Executing
      <3>3. CASE request[th].op = "delete"
        BY <1>4, <2>1, <2>2, <3>3 DEF Current
      <3> QED
        BY <1>1, <3>1, <3>2, <3>3 DEF StatusOp
    <2>3. ASSUME status' = "archived", archivedFrom' = "draft" PROVE ~Locked
      BY <1>4, <2>1, <2>3 DEF Agrees, Current
    <2>4. Locked => /\ plan.tasks \ Conditional \subseteq baseline.tasks
                    /\ \A t \in baseline.tasks : baseline.class[t] = plan.class[t]
                    /\ DOMAIN approvals = Applicable
      BY <2>1 DEF Agrees
    <2>5. Applicable' = Applicable
      BY <1>5 DEF Applicable
    <2> QED
      BY <1>5, <2>2, <2>3, <2>4, <2>5 DEF Agrees, Locked
  <1>13. Kept
    BY <1>5 DEF Kept
  <1>14. Informed'
    BY <1>1, <1>13, CommitInforms
  <1> QED
    BY <1>6, <1>8, <1>11, <1>12, <1>13, <1>14 DEF PlanningInv, Grounded

\* Nothing of a project without a baseline refers to an execution.
LEMMA RemoveKeeps ==
  ASSUME PlanningInv, NEW th \in Thread, Remove(th)
  PROVE  PlanningInv' /\ Kept
  <1>1. Commit(th) /\ baseline = None /\ baseline' = None
    BY DEF Remove, Removable
  <1>2. /\ status' = "deleted" /\ seats' = {} /\ plan' = NoPlan /\ change' = [s \in Seat |-> "none"]
        /\ approvals' = [x \in {} |-> None] /\ schedule' = [t \in {} |-> "none"]
    BY DEF Remove
  <1>3. UNCHANGED <<activated, completed, archivedFrom, evidence>>
    BY DEF Remove, Commit
  <1>4. NoPlan \in Plan /\ NoPlan.included = {} /\ NoPlan.tasks = {}
    BY ConstantsAssumption DEF NoPlan, Plan, Verdict, Class, TemplateTask
  <1>5. Typed'
    BY <1>1, <1>2, <1>3, <1>4, RacedTyped DEF PlanningInv, Grounded, Typed
  <1>6. Executing'
    BY <1>1, <1>2, <1>3 DEF PlanningInv, Grounded, Executing, Locked, Executed
  <1>7. Records'
    BY <1>1, <1>2, <1>3 DEF PlanningInv, Grounded, Records, Locked
  <1>8. Agreed'
    BY <1>1, <1>2 DEF Agreed, Agrees, Locked
  <1>9. DOMAIN approvals = {}
    BY <1>1 DEF PlanningInv, Grounded, Records, Locked
  <1>10. Kept
    BY <1>1, <1>9 DEF Kept
  <1>11. Informed'
    BY <1>1, <1>10, CommitInforms
  <1> QED
    BY <1>5, <1>6, <1>7, <1>8, <1>10, <1>11 DEF PlanningInv, Grounded

LEMMA TeamStays ==
  ASSUME PlanningInv, NEW th \in Thread, Edit(th) \/ ChangeSeat(th)
  PROVE  PlanningInv' /\ Kept
  <1>1. Commit(th) /\ request[th].op # "idle"
    BY DEF Edit, ChangeSeat, Is
  <1>2. UNCHANGED <<status, activated, completed, archivedFrom, change, plan, baseline, approvals, schedule, evidence>>
    BY DEF Edit, ChangeSeat, Commit, project, team
  <1>3. seats' \subseteq Seat
    <2>1. CASE Edit(th)
      BY <2>1 DEF Edit, team, PlanningInv, Grounded, Typed
    <2>2. CASE ChangeSeat(th) /\ request[th].op = "end"
      BY <2>2 DEF ChangeSeat, Is, PlanningInv, Grounded, Typed
    <2>3. CASE ChangeSeat(th) /\ request[th].op = "assign"
      <3>1. request[th].arg \in Seat
        BY <2>3 DEF PlanningInv, Informed, Knows, Recalls
      <3> QED
        BY <2>3, <3>1 DEF ChangeSeat, Is, PlanningInv, Grounded, Typed
    <2> QED
      BY <2>1, <2>2, <2>3 DEF ChangeSeat
  <1>4. Typed'
    BY <1>1, <1>2, <1>3, RacedTyped DEF PlanningInv, Grounded, Typed
  <1>5. Executing' /\ Records'
    BY <1>2 DEF PlanningInv, Grounded, Executing, Records, Locked
  <1>6. Agreed'
    <2> SUFFICES ASSUME ~raced' PROVE Agrees'
      BY DEF Agreed
    <2>1. Agrees
      BY <1>1, FreshCommit
    <2> QED
      BY <1>2, <2>1 DEF Agrees, Locked, Applicable
  <1>7. Kept
    BY <1>2 DEF Kept
  <1>8. Informed'
    BY <1>1, <1>7, CommitInforms
  <1> QED
    BY <1>4, <1>5, <1>6, <1>7, <1>8 DEF PlanningInv, Grounded

LEMMA AbandonKeeps ==
  ASSUME PlanningInv, NEW th \in Thread, Abandon(th)
  PROVE  PlanningInv' /\ Kept
  <1>1. Unseen /\ StateStays /\ Kept
    BY DEF Abandon, Unseen, StateStays, Kept, project, team, execution
  <1>2. Knows(Idle, baseline, status, RestoreTarget, PlanRead) /\ Idle \in Request
    BY IdleIsFine DEF Knows
  <1>3. Informed'
    BY <1>1, <1>2, OneInforms DEF Abandon, PlanningInv
  <1> QED
    BY <1>1, <1>3, StateStaysSound DEF PlanningInv

-----------------------------------------------------------------------------
(* Requests that lock what they decide about, and everybody else. *)

\* The plan may change in what its tasks, links and verdicts say, as long as a
\* locked one keeps its mandatory tasks, its classes and its applicable gates.
LEMMA AtOnceKeeps ==
  ASSUME PlanningInv, AtOnce,
         plan' \in Plan, plan'.included \subseteq plan'.tasks, plan'.tasks \ Conditional \subseteq plan'.included,
         seats' \subseteq Seat, change' \in [Seat -> {"none", "vacate", "replacement"}],
         ~raced /\ Locked => plan'.tasks = plan.tasks /\ plan'.class = plan.class /\ Applicable' = Applicable
  PROVE  PlanningInv' /\ Kept
  <1>1. UNCHANGED <<status, activated, completed, archivedFrom, baseline, approvals, schedule, evidence, raced>>
    BY DEF AtOnce, project, execution
  <1>2. Typed'
    BY <1>1 DEF PlanningInv, Grounded, Typed
  <1>3. Executing' /\ Records'
    BY <1>1 DEF PlanningInv, Grounded, Executing, Records, Locked
  <1>4. Agreed'
    BY <1>1 DEF PlanningInv, Agreed, Agrees, Locked
  <1>5. Kept
    BY <1>1 DEF Kept
  <1>6. Informed'
    BY <1>5, AtOnceInforms DEF AtOnce
  <1> QED
    BY <1>2, <1>3, <1>4, <1>5, <1>6 DEF PlanningInv, Grounded

LEMMA DecideTaskKeeps ==
  ASSUME PlanningInv, NEW t \in Task, NEW i \in BOOLEAN, DecideTask(t, i)
  PROVE  PlanningInv' /\ Kept
  <1>1. t \in plan.tasks /\ t \in Conditional /\ plan \in Plan
    BY DEF DecideTask, PlanningInv, Grounded, Typed
  <1>2. PICK included \in {plan.included \cup {t}, plan.included \ {t}} :
          plan' = [plan EXCEPT !.included = included]
    BY DEF DecideTask
  <1>3. /\ plan' \in Plan /\ plan'.included = included /\ plan'.tasks = plan.tasks /\ plan'.class = plan.class
        /\ plan'.gates = plan.gates /\ plan'.verdict = plan.verdict
    BY <1>1, <1>2 DEF Plan
  <1>4. plan'.included \subseteq plan'.tasks /\ plan'.tasks \ Conditional \subseteq plan'.included
    BY <1>1, <1>2, <1>3 DEF PlanningInv, Grounded, Typed
  <1>5. Applicable' = Applicable
    BY <1>3 DEF Applicable
  <1>6. seats' \subseteq Seat /\ change' \in [Seat -> {"none", "vacate", "replacement"}]
    BY DEF DecideTask, team, PlanningInv, Grounded, Typed
  <1> QED
    BY <1>3, <1>4, <1>5, <1>6, AtOnceKeeps DEF DecideTask

LEMMA ManualTaskKeeps ==
  ASSUME PlanningInv, NEW t \in Task, CreateManualTask(t)
  PROVE  PlanningInv' /\ Kept
  <1>1. plan \in Plan
    BY DEF PlanningInv, Grounded, Typed
  <1>2. plan' = [plan EXCEPT !.tasks = @ \cup {t}, !.included = @ \cup {t}]
    BY DEF CreateManualTask
  <1>3. plan' \in Plan /\ plan'.tasks = plan.tasks \cup {t} /\ plan'.included = plan.included \cup {t}
    BY <1>1, <1>2 DEF Plan
  <1>4. plan'.included \subseteq plan'.tasks /\ plan'.tasks \ Conditional \subseteq plan'.included
    BY <1>3 DEF PlanningInv, Grounded, Typed
  <1>5. ~raced => ~Locked
    BY DEF CreateManualTask, PlanningInv, Agreed, Agrees
  <1>6. seats' \subseteq Seat /\ change' \in [Seat -> {"none", "vacate", "replacement"}]
    BY DEF CreateManualTask, team, PlanningInv, Grounded, Typed
  <1> QED
    BY <1>3, <1>4, <1>5, <1>6, AtOnceKeeps DEF CreateManualTask

LEMMA ManualGateKeeps ==
  ASSUME PlanningInv, NEW x \in Gate, NEW affected \in SUBSET Task, NEW b \in BOOLEAN,
         CreateManualGate(x, affected, b)
  PROVE  PlanningInv' /\ Kept
  <1>1. plan \in Plan
    BY DEF PlanningInv, Grounded, Typed
  <1>2. plan' = [plan EXCEPT !.gates = @ \cup {x}, !.links[x] = affected, !.verdict[x] = "applicable"]
    BY DEF CreateManualGate
  <1>3. plan' \in Plan /\ plan'.tasks = plan.tasks /\ plan'.included = plan.included
    BY <1>1, <1>2 DEF Plan, Verdict
  <1>4. plan'.included \subseteq plan'.tasks /\ plan'.tasks \ Conditional \subseteq plan'.included
    BY <1>3 DEF PlanningInv, Grounded, Typed
  <1>5. ~raced => ~Locked
    BY DEF CreateManualGate, PlanningInv, Agreed, Agrees
  <1>6. seats' \subseteq Seat /\ change' \in [Seat -> {"none", "vacate", "replacement"}]
    BY DEF CreateManualGate, team, PlanningInv, Grounded, Typed
  <1> QED
    BY <1>3, <1>4, <1>5, <1>6, AtOnceKeeps DEF CreateManualGate

LEMMA RolesKeep ==
  ASSUME PlanningInv, NEW x \in Seat,
         ApproveChange(x) \/ RejectChange(x) \/ \E kind \in {"vacate", "replacement"} : RequestChange(x, kind)
  PROVE  PlanningInv' /\ Kept
  <1>1. AtOnce /\ plan' = plan
    BY DEF ApproveChange, RejectChange, RequestChange
  <1>2. seats' \subseteq Seat
    BY DEF ApproveChange, RejectChange, RequestChange, PlanningInv, Grounded, Typed
  <1>3. change' \in [Seat -> {"none", "vacate", "replacement"}]
    BY DEF ApproveChange, RejectChange, RequestChange, PlanningInv, Grounded, Typed
  <1>4. plan' \in Plan /\ plan'.included \subseteq plan'.tasks /\ plan'.tasks \ Conditional \subseteq plan'.included
    BY <1>1 DEF PlanningInv, Grounded, Typed
  <1>5. Applicable' = Applicable
    BY <1>1 DEF Applicable
  <1> QED
    BY <1>1, <1>2, <1>3, <1>4, <1>5, AtOnceKeeps

\* Steps beside the requests: work, dates and evidence, and a run of the script.
LEMMA OthersKeep ==
  ASSUME PlanningInv, StartWork \/ ArchiveVersion \/ Retention
  PROVE  PlanningInv' /\ Kept
  <1>1. Unseen /\ Kept /\ UNCHANGED request
    BY DEF StartWork, ArchiveVersion, Retention, ListEligible, PurgeExpiredEvidence, SweepFails, Sweeping,
           Unseen, Kept, project, team, execution
  <1>2. UNCHANGED <<completed, seats, change, approvals, schedule, raced>>
    BY DEF StartWork, ArchiveVersion, Retention, ListEligible, PurgeExpiredEvidence, SweepFails, Sweeping,
           project, team, execution
  <1>3. evidence' # "kept" => completed /\ Locked
    BY DEF StartWork, ArchiveVersion, Retention, ListEligible, PurgeExpiredEvidence, SweepFails, execution,
           PlanningInv, Grounded, Records
  <1>4. Typed' /\ Executing'
    BY <1>1, <1>2 DEF Unseen, PlanningInv, Grounded, Typed, Executing, Locked
  <1>5. Records'
    BY <1>1, <1>2, <1>3 DEF Unseen, PlanningInv, Grounded, Records, Locked
  <1>6. Agreed'
    BY <1>1, <1>2 DEF Unseen, PlanningInv, Agreed, Agrees, Locked, Applicable
  <1>7. Informed'
    BY <1>1, UnseenInforms DEF PlanningInv
  <1> QED
    BY <1>1, <1>4, <1>5, <1>6, <1>7 DEF PlanningInv, Grounded

LEMMA RescheduleKeeps ==
  ASSUME PlanningInv, NEW t \in Task, Reschedule(t)
  PROVE  PlanningInv' /\ Kept
  <1>1. /\ UNCHANGED <<status, activated, completed, archivedFrom, seats, change, plan, baseline, approvals,
                       evidence, raced>>
        /\ request' = Overtaken /\ DOMAIN schedule' = DOMAIN schedule
    BY DEF Reschedule, project, team
  <1>2. Typed' /\ Executing'
    BY <1>1 DEF PlanningInv, Grounded, Typed, Executing, Locked
  <1>3. Records'
    BY <1>1 DEF PlanningInv, Grounded, Records, Locked
  <1>4. Agreed'
    BY <1>1 DEF PlanningInv, Agreed, Agrees, Locked, Applicable
  <1>5. Kept
    BY <1>1 DEF Kept
  <1>6. Informed'
    BY <1>1, <1>5, AtOnceInforms
  <1> QED
    BY <1>2, <1>3, <1>4, <1>5, <1>6 DEF PlanningInv, Grounded

LEMMA BackfillKeeps ==
  ASSUME PlanningInv, Backfill
  PROVE  PlanningInv' /\ Kept
  <1> DEFINE made == Instantiated(Applicable, baseline.tasks)
  <1>1. /\ UNCHANGED <<status, activated, completed, archivedFrom, seats, change, plan, baseline, evidence, raced>>
        /\ Unseen /\ UNCHANGED request /\ Locked
        /\ approvals' = made /\ DOMAIN schedule' = DOMAIN schedule
    BY DEF Backfill, DatesBackfilled, Derived, Unseen, Locked, project, team
  <1>2. /\ DOMAIN made = DOMAIN approvals \cup Applicable
        /\ \A y \in DOMAIN approvals : made[y] = approvals[y]
        /\ \A y \in Applicable : y \notin DOMAIN approvals => made[y].covers \subseteq baseline.tasks
    BY InstantiatedAdds
  <1> HIDE DEF made
  <1>3. Typed' /\ Executing'
    BY <1>1 DEF PlanningInv, Grounded, Typed, Executing, Locked
  <1>4. Applicable \subseteq Gate
    BY DEF Applicable, PlanningInv, Grounded, Typed, Plan
  <1>5. \A y \in DOMAIN approvals' : approvals'[y].covers \subseteq baseline.tasks
    BY <1>1, <1>2 DEF PlanningInv, Grounded, Records
  <1>6. Records'
    BY <1>1, <1>2, <1>4, <1>5 DEF PlanningInv, Grounded, Records, Locked
  <1>7. Agreed'
    BY <1>1, <1>2 DEF PlanningInv, Agreed, Agrees, Locked, Applicable
  <1>8. Kept
    BY <1>1, <1>2 DEF Kept
  <1>9. Informed'
    BY <1>1, UnseenInforms DEF PlanningInv
  <1> QED
    BY <1>3, <1>6, <1>7, <1>8, <1>9 DEF PlanningInv, Grounded

-----------------------------------------------------------------------------
(* The theorems. *)

LEMMA StutterKeeps == PlanningInv /\ UNCHANGED vars => PlanningInv' /\ Kept
  <1> SUFFICES ASSUME PlanningInv, UNCHANGED vars PROVE PlanningInv' /\ Kept
    OBVIOUS
  <1>1. Unseen /\ StateStays /\ Kept /\ UNCHANGED request
    BY DEF vars, Unseen, StateStays, Kept
  <1> QED
    BY <1>1, UnseenInforms, StateStaysSound DEF PlanningInv

\* Beginning a request changes nothing that is kept.
LEMMA BeginsKept ==
  ASSUME NEW th \in Thread, Begins(th)
  PROVE  Kept
  <1>1. UNCHANGED <<baseline, approvals>>
    BY DEF Begins, BeginCreate, BeginEdit, BeginRestore, BeginDelete, BeginClassify, BeginActivate, BeginDecideGate,
           BeginStatus, BeginAssign, BeginEnd, Begin, execution
  <1> QED
    BY <1>1 DEF Kept

LEMMA StepKeeps == PlanningInv /\ [Next]_vars => PlanningInv' /\ Kept
  <1> SUFFICES ASSUME PlanningInv, Next PROVE PlanningInv' /\ Kept
    BY StutterKeeps
  <1>1. ASSUME NEW th \in Thread, Begins(th) PROVE PlanningInv' /\ Kept
    BY <1>1, BeginsKeep, BeginsKept
  <1>2. ASSUME NEW th \in Thread, Finishes(th) PROVE PlanningInv' /\ Kept
    BY <1>2, CreateKeeps, TeamStays, ClassifyKeeps, ReadKeeps, ActivateKeeps, DecideGateKeeps, ChangeStatusKeeps,
       RemoveKeeps, AbandonKeeps DEF Finishes
  <1>3. CASE PlanTasks
    BY <1>3, ManualTaskKeeps, RescheduleKeeps, DecideTaskKeeps DEF PlanTasks
  <1>4. CASE PlanGates
    BY <1>4, ManualGateKeeps DEF PlanGates
  <1>5. CASE RoleChanges
    BY <1>5, RolesKeep DEF RoleChanges
  <1>6. CASE Retention \/ Backfill \/ StartWork \/ ArchiveVersion
    BY <1>6, OthersKeep, BackfillKeeps
  <1> QED
    BY <1>1, <1>2, <1>3, <1>4, <1>5, <1>6 DEF Next

\* No interleaving separates an execution from its baseline, its approvals from
\* the plan they were made of, or, one request at a time, status and plan.
THEOREM PlanningIsSound == Spec => []PlanningSound
  <1>1. PlanningInv /\ [Next]_vars => PlanningInv'
    BY StepKeeps
  <1> QED
    BY InitPlanning, <1>1, PlanningFollows, PTL DEF Spec

\* A locked baseline and its approvals survive every interleaving of requests,
\* a second activation and a late deletion included.
THEOREM BaselineStays == Spec => BaselineIsKept
  <1>1. PlanningInv /\ [Next]_vars => PlanningInv'
    BY StepKeeps
  <1>2. PlanningInv /\ [Next]_vars =>
          [/\ baseline # None => baseline' = baseline
           /\ \A g \in DOMAIN approvals : g \in DOMAIN approvals' /\ approvals'[g] = approvals[g]]_vars
    BY StepKeeps DEF Kept
  <1> QED
    BY InitPlanning, <1>1, <1>2, PTL DEF Spec, BaselineIsKept

\* SeatsLostOnlyByDecision, for one step.
SeatsLostRightly ==
  status = "active" /\ ~raced' => \A s \in seats \ seats' : change[s] = "vacate" /\ change'[s] = "none"

LEMMA StepDecides == PlanningInv /\ [Next]_vars => SeatsLostRightly
  <1> SUFFICES ASSUME PlanningInv, [Next]_vars, status = "active", ~raced', NEW s \in seats, s \notin seats'
               PROVE  change[s] = "vacate" /\ change'[s] = "none"
    BY DEF SeatsLostRightly
  <1>1. ASSUME NEW th \in Thread, Begins(th) PROVE seats' = seats
    BY <1>1 DEF Begins, BeginCreate, BeginEdit, BeginRestore, BeginDelete, BeginClassify, BeginActivate,
                BeginDecideGate, BeginStatus, BeginAssign, BeginEnd, Begin, team
  <1>2. ASSUME NEW th \in Thread, Finishes(th), ~ChangeSeat(th), ~Remove(th), ~Create(th) PROVE seats' = seats
    BY <1>2 DEF Finishes, Edit, Classify, ReadPlan, Activate, DecideGate, ChangeStatus, Abandon, team
  <1>3. ASSUME NEW th \in Thread, ChangeSeat(th) PROVE FALSE
    <2>1. Commit(th) /\ request[th].op = "end"
      BY <1>3 DEF ChangeSeat, Is
    <2>2. Current(request[th], status, RestoreTarget, PlanRead)
      BY <2>1, FreshCommit
    <2> QED
      BY <2>1, <2>2 DEF Current
  <1>4. ASSUME NEW th \in Thread, Remove(th) PROVE FALSE
    <2>1. Commit(th) /\ request[th].op = "remove"
      BY <1>4 DEF Remove, Is
    <2>2. Current(request[th], status, RestoreTarget, PlanRead)
      BY <2>1, FreshCommit
    <2> QED
      BY <2>1, <2>2 DEF Current
  <1>5. ASSUME NEW th \in Thread, Create(th) PROVE FALSE
    BY <1>5 DEF Create
  <1>6. CASE PlanTasks \/ PlanGates
    BY <1>6 DEF PlanTasks, PlanGates, CreateManualTask, Reschedule, DecideTask, CreateManualGate, team
  <1>7. CASE RoleChanges
    <2>1. PICK x \in Seat : \/ ApproveChange(x) \/ RejectChange(x)
                            \/ \E kind \in {"vacate", "replacement"} : RequestChange(x, kind)
      BY <1>7 DEF RoleChanges
    <2>2. ApproveChange(x) /\ x = s /\ change[s] = "vacate"
      BY <2>1 DEF ApproveChange, RejectChange, RequestChange
    <2> QED
      BY <2>2 DEF ApproveChange, PlanningInv, Grounded, Typed
  <1>8. CASE Retention \/ Backfill \/ StartWork \/ ArchiveVersion
    BY <1>8 DEF Retention, ListEligible, PurgeExpiredEvidence, SweepFails, Sweeping, Backfill, StartWork,
                ArchiveVersion, team
  <1>9. CASE UNCHANGED vars
    BY <1>9 DEF vars
  <1> QED
    BY <1>1, <1>2, <1>3, <1>4, <1>5, <1>6, <1>7, <1>8, <1>9 DEF Next

\* Unless requests raced, an active project's manager or supervisor leaves by
\* an approved request only.
THEOREM SeatsAreDecided == Spec => SeatsLostOnlyByDecision
  <1>1. PlanningInv /\ [Next]_vars => PlanningInv'
    BY StepKeeps
  <1>2. PlanningInv /\ [Next]_vars =>
          [status = "active" /\ ~raced' => \A s \in seats \ seats' : change[s] = "vacate" /\ change'[s] = "none"]_vars
    BY StepDecides DEF SeatsLostRightly
  <1> QED
    BY InitPlanning, <1>1, <1>2, PTL DEF Spec, SeatsLostOnlyByDecision

-----------------------------------------------------------------------------
(* The life of a project. *)

\* What the mapping needs besides: a deleted project has no execution, and the
\* records are functions, so that those without entries are the same.
Recorded ==
  /\ status = "deleted" => ~Locked
  /\ approvals = [x \in DOMAIN approvals |-> approvals[x]]
  /\ schedule = [t \in DOMAIN schedule |-> schedule[t]]

Shown == <<status, baseline, approvals, schedule, evidence, raced>>

LifeStep == Life!Next \/ UNCHANGED Shown

Quiet ==
  \/ \E th \in Thread : Begins(th) \/ ReadPlan(th) \/ Abandon(th)
  \/ RoleChanges \/ PlanGates \/ StartWork \/ ArchiveVersion
  \/ \E t \in Task : CreateManualTask(t) \/ \E i \in BOOLEAN : DecideTask(t, i)
  \/ UNCHANGED vars

LEMMA QuietSteps == ASSUME Quiet PROVE UNCHANGED Shown
  <1>1. ASSUME NEW th \in Thread, Begins(th) PROVE UNCHANGED Shown
    BY <1>1 DEF Shown, Begins, BeginCreate, BeginEdit, BeginRestore, BeginDelete, BeginClassify, BeginActivate,
                BeginDecideGate, BeginStatus, BeginAssign, BeginEnd, Begin, project, execution
  <1>2. ASSUME NEW th \in Thread, ReadPlan(th) \/ Abandon(th) PROVE UNCHANGED Shown
    BY <1>2 DEF Shown, ReadPlan, Abandon, project, execution
  <1>3. CASE StartWork \/ ArchiveVersion
    BY <1>3 DEF Shown, StartWork, ArchiveVersion, project, execution
  <1>4. CASE AtOnce
    BY <1>4 DEF Shown, AtOnce, project, execution
  <1>5. CASE RoleChanges \/ PlanGates \/ \E t \in Task : CreateManualTask(t) \/ \E i \in BOOLEAN : DecideTask(t, i)
    BY <1>4, <1>5 DEF RoleChanges, ApproveChange, RejectChange, RequestChange, PlanGates, CreateManualGate,
                      CreateManualTask, DecideTask
  <1>6. CASE UNCHANGED vars
    BY <1>6 DEF Shown, vars
  <1> QED
    BY <1>1, <1>2, <1>3, <1>5, <1>6 DEF Quiet

\* Every step is quiet or one of these.
LEMMA LoudSteps ==
  ASSUME [Next]_vars
  PROVE  \/ Quiet
         \/ \E th \in Thread :
              \/ Create(th) \/ Edit(th) \/ Classify(th) \/ Activate(th) \/ DecideGate(th)
              \/ ChangeStatus(th) \/ Remove(th) \/ ChangeSeat(th)
         \/ \E t \in Task : Reschedule(t)
         \/ Retention \/ Backfill
  BY DEF Next, Finishes, PlanTasks, Quiet

LEMMA RecordedKeeps ==
  ASSUME PlanningInv, Recorded, [Next]_vars
  PROVE  Recorded'
  <1>1. CASE UNCHANGED <<status, baseline, approvals, schedule>>
    BY <1>1 DEF Recorded, Locked
  <1>2. \A gates, tasks : Instantiated(gates, tasks) = [x \in DOMAIN Instantiated(gates, tasks) |->
                                                         Instantiated(gates, tasks)[x]]
    BY DEF Instantiated
  <1>3. \A tasks : Derived(tasks) = [t \in DOMAIN Derived(tasks) |-> Derived(tasks)[t]]
    BY DEF Derived
  <1>4. ASSUME NEW th \in Thread, Create(th) \/ Edit(th) \/ Classify(th) \/ ChangeSeat(th) PROVE Recorded'
    <2>1. UNCHANGED <<baseline, approvals, schedule>> /\ (status' = status \/ status' = "draft")
      BY <1>4 DEF Create, Edit, Classify, ChangeSeat, project
    <2> QED
      BY <2>1 DEF Recorded, Locked
  <1>5. ASSUME NEW th \in Thread, Activate(th) PROVE Recorded'
    <2>1. status' = "active" /\ approvals' \in {approvals, Instantiated(request[th].read.gates, request[th].read.tasks)}
          /\ schedule' \in {schedule, Derived(request[th].read.tasks)}
      BY <1>5 DEF Activate
    <2> QED
      BY <1>2, <1>3, <2>1 DEF Recorded
  <1>6. ASSUME NEW th \in Thread, DecideGate(th) PROVE Recorded'
    <2>1. UNCHANGED <<status, baseline, schedule>>
          /\ \E gates : approvals' \in {approvals, Instantiated(gates, baseline.tasks)}
      BY <1>6 DEF DecideGate, project
    <2> QED
      BY <1>2, <2>1 DEF Recorded, Locked
  <1>7. ASSUME NEW th \in Thread, ChangeStatus(th) PROVE Recorded'
    <2>1. request[th].arg \in Later
      BY <1>7 DEF ChangeStatus, PlanningInv, Informed, Knows, Recalls, StatusOp
    <2>2. status' # "deleted"
      BY <1>7, <2>1 DEF ChangeStatus, Later
    <2>3. UNCHANGED <<approvals, schedule>>
      BY <1>7 DEF ChangeStatus
    <2> QED
      BY <2>2, <2>3 DEF Recorded
  <1>8. ASSUME NEW th \in Thread, Remove(th) PROVE Recorded'
    BY <1>8 DEF Remove, Recorded, Locked
  <1>9. ASSUME NEW t \in Task, Reschedule(t) PROVE Recorded'
    <2>1. UNCHANGED <<status, baseline, approvals>> /\ schedule' = [schedule EXCEPT ![t] = "revised"]
      BY <1>9 DEF Reschedule, project
    <2> QED
      BY <2>1 DEF Recorded, Locked
  <1>10. CASE Backfill
    <2>1. /\ UNCHANGED <<status, baseline>> /\ schedule' = Derived(DOMAIN schedule)
          /\ approvals' = Instantiated(Applicable, baseline.tasks)
      BY <1>10 DEF Backfill, DatesBackfilled, project
    <2> QED
      BY <1>2, <1>3, <2>1 DEF Recorded, Locked
  <1>11. CASE Retention
    BY <1>1, <1>11 DEF Retention, ListEligible, PurgeExpiredEvidence, SweepFails, Sweeping, project
  <1>12. CASE Quiet
    BY <1>1, <1>12, QuietSteps DEF Shown
  <1> QED
    BY <1>4, <1>5, <1>6, <1>7, <1>8, <1>9, <1>10, <1>11, <1>12, LoudSteps

\* What a step that keeps the records sound looks like to the life of a project.
LEMMA RecordsPermit ==
  ASSUME PlanningInv', Kept, Locked'
  PROVE  Life!Permit /\ Life!Date
  <1>1. DOMAIN approvals' \subseteq Gate /\ \A x \in DOMAIN approvals' : approvals'[x].covers \subseteq baseline'.tasks
    BY DEF PlanningInv, Grounded, Records
  <1>2. DOMAIN schedule' = baseline'.tasks
    BY DEF PlanningInv, Grounded, Records, Locked
  <1> QED
    BY <1>1, <1>2 DEF Kept, Locked, Life!Permit, Life!Date

\* A commit that raced disturbs the project, and spares its records.
LEMMA RacedIsDisturb ==
  ASSUME PlanningInv, PlanningInv', Recorded', Kept, raced', UNCHANGED evidence,
         \/ UNCHANGED <<baseline, approvals, schedule>>
         \/ ~Locked /\ Locked'
         \/ Locked' /\ UNCHANGED <<baseline, schedule>>
  PROVE  LifeStep
  <1>1. status' \in Life!Phase
    BY DEF PlanningInv, Grounded, Typed, Later, Life!Phase
  <1>2. (status' \in Executed => Locked') /\ (status' = "deleted" => ~Locked')
    BY DEF PlanningInv, Grounded, Executing, Recorded
  <1>3. ASSUME ~Locked, Locked' PROVE Life!LockPlan
    <2>1. baseline'.tasks \subseteq Task
      BY <1>3 DEF PlanningInv, Grounded, Typed, Baseline, Locked
    <2> QED
      BY <1>3, <2>1, RecordsPermit DEF Life!LockPlan, Life!Locked, Locked
  <1>4. \/ UNCHANGED <<baseline, approvals, schedule>>
        \/ Life!LockPlan
        \/ UNCHANGED baseline /\ Life!Permit /\ UNCHANGED schedule
    BY <1>3, RecordsPermit
  <1> QED
    BY <1>1, <1>2, <1>4 DEF LifeStep, Life!Next, Life!Disturb, Life!records, Locked, Executed

\* A commit that raced with nothing does what its request was begun for.
LEMMA CommitIsLife ==
  ASSUME PlanningInv, PlanningInv', Recorded, Recorded', Kept, NEW th \in Thread,
         \/ Create(th) \/ Edit(th) \/ Classify(th) \/ Activate(th) \/ DecideGate(th)
         \/ ChangeStatus(th) \/ Remove(th) \/ ChangeSeat(th)
  PROVE  LifeStep
  <1> DEFINE r == request[th]
  <1>0. Commit(th) /\ r.op # "idle" /\ UNCHANGED evidence
    BY DEF Create, Edit, Classify, Activate, DecideGate, ChangeStatus, Remove, ChangeSeat, Is, Commit
  <1>1. raced \in BOOLEAN /\ raced' \in BOOLEAN /\ status \in Later \cup {"none", "deleted"}
    BY DEF PlanningInv, Grounded, Typed
  <1>2. r \in Request /\ Recalls(r, baseline)
    BY DEF PlanningInv, Informed, Knows
  <1>3. ASSUME ~raced' PROVE /\ UNCHANGED raced /\ ~raced /\ Agrees
                             /\ Current(r, status, RestoreTarget, PlanRead)
    BY <1>0, <1>1, <1>3, FreshCommit
  <1>4. CASE Create(th)
    <2>1. status = "none" /\ status' = "draft" /\ ~Locked /\ UNCHANGED <<baseline, approvals, schedule>>
      BY <1>4 DEF Create, PlanningInv, Grounded, Executing
    <2>2. ASSUME ~raced' PROVE Life!Open
      BY <1>0, <1>3, <2>1, <2>2 DEF Life!Open, Life!Move, Life!Locked, Life!records, Locked
    <2> QED
      BY <1>0, <2>1, <2>2, RacedIsDisturb DEF LifeStep, Life!Next
  <1>5. CASE Edit(th) \/ Classify(th) \/ ChangeSeat(th)
    <2>1. UNCHANGED <<status, baseline, approvals, schedule>>
      BY <1>5 DEF Edit, Classify, ChangeSeat, project
    <2> QED
      BY <1>0, <1>3, <2>1, RacedIsDisturb DEF LifeStep, Shown
  <1>6. CASE Activate(th)
    <2>1. /\ r.op = "activate" /\ r.read # None /\ status' = "active"
          /\ r.read.locked => UNCHANGED <<baseline, approvals, schedule>>
          /\ ~r.read.locked => ~Locked
      BY <1>6 DEF Activate, Is, Locked, LockedBaseline
    <2>2. Locked'
      BY <2>1 DEF PlanningInv, Grounded, Executing, Executed
    <2>3. r.read.locked \in BOOLEAN
      BY <1>2, <2>1 DEF Request, ReadOf
    <2>4. ASSUME ~raced' PROVE Life!Activate
      <3>1. status = "draft" /\ ~Locked
        BY <1>3, <2>1, <2>4 DEF Current, Agrees
      <3>2. baseline'.tasks \subseteq Task
        BY <2>2 DEF PlanningInv, Grounded, Typed, Baseline, Locked
      <3>3. Life!LockPlan
        BY <2>2, <3>1, <3>2, RecordsPermit DEF Life!LockPlan, Life!Locked, Locked
      <3> QED
        BY <1>0, <1>3, <2>1, <2>4, <3>1, <3>3 DEF Life!Activate, Life!Move
    <2> QED
      BY <1>0, <2>1, <2>2, <2>3, <2>4, RacedIsDisturb DEF LifeStep, Life!Next
  <1>7. CASE DecideGate(th)
    <2>1. /\ r.op = "gate" /\ UNCHANGED <<status, baseline, schedule>>
          /\ r.seen = "active" \/ UNCHANGED approvals
      BY <1>7 DEF DecideGate, Is, project
    <2>2. r.seen = "active" => Locked /\ Locked'
      BY <1>2, <2>1 DEF Recalls, Executed, Locked
    <2>3. ASSUME ~raced', r.seen = "active" PROVE Life!Record
      BY <1>0, <1>3, <2>1, <2>2, <2>3, RecordsPermit DEF Life!Record, Life!Locked, Locked
    <2>4. ASSUME ~raced', UNCHANGED approvals PROVE UNCHANGED Shown
      BY <1>0, <1>3, <2>1, <2>4 DEF Shown
    <2> QED
      BY <1>0, <2>1, <2>2, <2>3, <2>4, RacedIsDisturb DEF LifeStep, Life!Next
  <1>8. CASE ChangeStatus(th)
    <2>1. r.op \in {"status", "restore", "delete"} /\ status' = r.arg /\ UNCHANGED <<baseline, approvals, schedule>>
      BY <1>8 DEF ChangeStatus
    <2>2. ASSUME ~raced' PROVE Life!Next
      <3>0. UNCHANGED <<evidence, raced, baseline, approvals, schedule>> /\ ~raced
        BY <1>0, <1>3, <2>1, <2>2
      <3>1. status \in Executed => Locked
        BY DEF PlanningInv, Grounded, Executing
      <3>2. CASE r.op = "status"
        <4>1. status' \in AllowedStatus[status]
          BY <1>3, <2>1, <2>2, <3>2 DEF Current
        <4>2. \/ status \in {"draft", "active", "on_hold", "completed"} /\ status' = "archived"
              \/ status = "active" /\ status' = "on_hold"
              \/ status = "on_hold" /\ status' = "active"
              \/ status \in {"active", "on_hold"} /\ status' = "completed"
          BY <1>1, <4>1 DEF AllowedStatus, Later
        <4> QED
          BY <3>0, <3>1, <4>2 DEF Life!Next, Life!Archive, Life!Hold, Life!Resume, Life!Complete, Life!Move,
                                  Life!Locked, Life!records, Locked, Executed
      <3>3. CASE r.op = "restore"
        <4>1. status = "archived" /\ status' = RestoreTarget
          BY <1>3, <2>1, <2>2, <3>3 DEF Current
        <4>2. RestoreTarget \in {"draft", "on_hold", "completed"} /\ (RestoreTarget \in Executed => Locked)
          BY RestoreIsSound
        <4>3. RestoreTarget = "draft" => archivedFrom = "draft" \/ ~activated
          BY DEF RestoreTarget
        <4>4. RestoreTarget = "draft" => ~Locked
          BY <1>3, <2>2, <4>1, <4>3 DEF Agrees, PlanningInv, Grounded, Executing
        <4> QED
          BY <3>0, <4>1, <4>2, <4>4 DEF Life!Next, Life!Restore, Life!Move, Life!Locked, Life!records, Locked,
                                        Executed
      <3>4. CASE r.op = "delete"
        <4>1. status \in {"active", "on_hold"} /\ status' = "archived"
          BY <1>3, <2>1, <2>2, <3>4 DEF Current
        <4> QED
          BY <3>0, <4>1 DEF Life!Next, Life!Archive, Life!Move, Life!records
      <3> QED
        BY <2>1, <3>2, <3>3, <3>4
    <2> QED
      BY <1>0, <2>1, <2>2, RacedIsDisturb DEF LifeStep
  <1>9. CASE Remove(th)
    <2>1. /\ r.op = "remove" /\ ~Locked /\ ~Locked' /\ status' = "deleted" /\ UNCHANGED baseline
          /\ approvals' = [x \in {} |-> None] /\ schedule' = [t \in {} |-> "none"]
      BY <1>9 DEF Remove, Is, Removable, Locked
    <2>2. DOMAIN approvals = {} /\ DOMAIN schedule = {}
      BY <2>1 DEF PlanningInv, Grounded, Records, Locked
    <2>3. UNCHANGED <<approvals, schedule>>
      BY <2>1, <2>2 DEF Recorded
    <2>4. ASSUME ~raced' PROVE Life!Delete
      <3>1. status = "draft"
        BY <1>3, <2>1, <2>4 DEF Current
      <3> QED
        BY <1>0, <1>3, <2>1, <2>3, <2>4, <3>1 DEF Life!Delete, Life!Move, Life!Locked, Life!records, Locked
    <2> QED
      BY <1>0, <2>1, <2>3, <2>4, RacedIsDisturb DEF LifeStep, Life!Next
  <1> QED
    BY <1>4, <1>5, <1>6, <1>7, <1>8, <1>9

LEMMA StepIsLifeStep ==
  ASSUME PlanningInv, PlanningInv', Recorded, Recorded', Kept, [Next]_vars
  PROVE  LifeStep
  <1>1. CASE Quiet
    BY <1>1, QuietSteps DEF LifeStep
  <1>2. ASSUME NEW th \in Thread,
               \/ Create(th) \/ Edit(th) \/ Classify(th) \/ Activate(th) \/ DecideGate(th)
               \/ ChangeStatus(th) \/ Remove(th) \/ ChangeSeat(th)
        PROVE  LifeStep
    BY <1>2, CommitIsLife
  <1>3. ASSUME NEW t \in Task, Reschedule(t) PROVE LifeStep
    <2>1. t \in DOMAIN schedule /\ UNCHANGED <<status, baseline, approvals, evidence, raced>>
      BY <1>3 DEF Reschedule, project
    <2>2. Locked /\ Locked'
      BY <2>1 DEF PlanningInv, Grounded, Records, Locked
    <2>3. Life!Record
      BY <2>1, <2>2, RecordsPermit DEF Life!Record, Life!Locked, Locked
    <2> QED
      BY <2>3 DEF LifeStep, Life!Next
  <1>4. CASE Backfill
    <2>1. Locked /\ UNCHANGED <<status, baseline, evidence, raced>>
      BY <1>4 DEF Backfill, Locked, project
    <2>2. Locked'
      BY <2>1 DEF Locked
    <2>3. Life!Record
      BY <2>1, <2>2, RecordsPermit DEF Life!Record, Life!Locked, Locked
    <2> QED
      BY <2>3 DEF LifeStep, Life!Next
  <1>5. CASE Retention
    <2>1. UNCHANGED <<status, baseline, approvals, schedule, raced>>
      BY <1>5 DEF Retention, ListEligible, PurgeExpiredEvidence, SweepFails, Sweeping, project
    <2>2. Life!Retain
      BY <1>5, <2>1 DEF Retention, ListEligible, PurgeExpiredEvidence, SweepFails, PlanningInv, Grounded, Records,
                        Locked, Life!Retain, Life!Collect, Life!Purge, Life!GiveUp, Life!Locked, Life!records
    <2> QED
      BY <2>2 DEF LifeStep, Life!Next
  <1> QED
    BY <1>1, <1>2, <1>3, <1>4, <1>5, LoudSteps

\* Whatever requests read before others commit, planning and execution are the
\* life of a project: one lock of the plan, permits of locked work that nothing
\* takes back, dates of exactly that work, and, as long as no requests raced,
\* every move of the status as its phase allows (project_baseline.py:55-226,
\* routes/projects_v2.py:996-1138).
THEOREM PlanningImplementsLife == Spec => ImplementsLife
  <1>1. Init => Life!Init /\ Recorded
    BY DEF Init, Life!Init, Recorded, Locked
  <1>2. LifeStep => [Life!Next]_(Life!vars)
    BY DEF LifeStep, Shown, Life!vars
  <1>3. PlanningInv /\ Recorded /\ [Next]_vars => PlanningInv' /\ Recorded'
    BY StepKeeps, RecordedKeeps
  <1>4. PlanningInv /\ Recorded /\ [Next]_vars => [Life!Next]_(Life!vars)
    BY <1>2, <1>3, StepKeeps, StepIsLifeStep
  <1> QED
    BY InitPlanning, <1>1, <1>3, <1>4, PTL DEF Spec, ImplementsLife, Life!Spec

-----------------------------------------------------------------------------
(* Types. *)

Dated == \A t \in DOMAIN schedule : schedule[t] \in {"none", "derived", "revised"}

\* Of the variables the other invariants say nothing about.
RestTyped ==
  /\ published \in BOOLEAN /\ started \in BOOLEAN
  /\ Dated /\ evidence \in {"kept", "listed", "purged"} /\ work \in 0..MaxWork

\* Dates are derived, or revised one by one.
LEMMA DatedKeeps ==
  ASSUME Dated, [Next]_vars
  PROVE  Dated'
  <1>1. CASE UNCHANGED schedule
    BY <1>1 DEF Dated
  <1>2. ASSUME NEW tasks, schedule' = Derived(tasks) PROVE Dated'
    BY <1>2 DEF Derived, Dated
  <1>3. ASSUME NEW th \in Thread, Activate(th) PROVE Dated'
    BY <1>1, <1>2, <1>3 DEF Activate
  <1>4. CASE Backfill
    BY <1>2, <1>4 DEF Backfill, DatesBackfilled
  <1>5. ASSUME NEW t \in Task, Reschedule(t) PROVE Dated'
    BY <1>5 DEF Reschedule, Dated
  <1>6. ASSUME NEW th \in Thread, Remove(th) PROVE Dated'
    BY <1>6 DEF Remove, Dated
  <1>7. ASSUME NEW th \in Thread,
               Create(th) \/ Edit(th) \/ Classify(th) \/ DecideGate(th) \/ ChangeStatus(th) \/ ChangeSeat(th)
        PROVE  Dated'
    BY <1>1, <1>7 DEF Create, Edit, Classify, DecideGate, ChangeStatus, ChangeSeat
  <1>8. CASE Retention
    BY <1>1, <1>8 DEF Retention, ListEligible, PurgeExpiredEvidence, SweepFails, Sweeping
  <1>9. CASE Quiet
    BY <1>1, <1>9, QuietSteps DEF Shown
  <1> QED
    BY <1>3, <1>4, <1>5, <1>6, <1>7, <1>8, <1>9, LoudSteps

\* Requests are counted one by one, up to the bound.
LEMMA WorkKeeps ==
  ASSUME work \in 0..MaxWork, [Next]_vars
  PROVE  work' \in 0..MaxWork
  <1>0. MaxWork \in Nat
    BY ConstantsAssumption
  <1>1. CASE UNCHANGED work
    BY <1>1
  <1>2. CASE work < MaxWork /\ work' = work + 1
    BY <1>0, <1>2
  <1>3. ASSUME NEW th \in Thread, Begins(th) PROVE work' \in 0..MaxWork
    BY <1>2, <1>3 DEF Begins, BeginCreate, BeginEdit, BeginRestore, BeginDelete, BeginClassify, BeginActivate,
                      BeginDecideGate, BeginStatus, BeginAssign, BeginEnd, Begin
  <1>4. ASSUME NEW th \in Thread, Finishes(th) PROVE work' \in 0..MaxWork
    BY <1>1, <1>4 DEF Finishes, Create, Edit, Classify, ReadPlan, Activate, DecideGate, ChangeStatus, Remove,
                      ChangeSeat, Abandon, Commit
  <1>5. CASE PlanTasks \/ PlanGates \/ RoleChanges
    BY <1>2, <1>5 DEF PlanTasks, PlanGates, RoleChanges, CreateManualTask, Reschedule, DecideTask, CreateManualGate,
                      ApproveChange, RejectChange, RequestChange, AtOnce
  <1>6. CASE Retention \/ StartWork \/ ArchiveVersion \/ Backfill
    BY <1>1, <1>2, <1>6 DEF Retention, ListEligible, PurgeExpiredEvidence, SweepFails, Sweeping, StartWork,
                            ArchiveVersion, Backfill
  <1>7. CASE UNCHANGED vars
    BY <1>1, <1>7 DEF vars
  <1> QED
    BY <1>3, <1>4, <1>5, <1>6, <1>7 DEF Next

\* The template version, the beginning of the work and its files.
LEMMA FlagsKeep ==
  ASSUME published \in BOOLEAN, started \in BOOLEAN, evidence \in {"kept", "listed", "purged"}, [Next]_vars
  PROVE  published' \in BOOLEAN /\ started' \in BOOLEAN /\ evidence' \in {"kept", "listed", "purged"}
  <1>1. CASE UNCHANGED <<published, started, evidence>>
    BY <1>1
  <1>2. ASSUME NEW th \in Thread, Begins(th) \/ Finishes(th) PROVE UNCHANGED <<published, started, evidence>>
    BY <1>2 DEF Begins, BeginCreate, BeginEdit, BeginRestore, BeginDelete, BeginClassify, BeginActivate,
                BeginDecideGate, BeginStatus, BeginAssign, BeginEnd, Begin, Finishes, Create, Edit, Classify,
                ReadPlan, Activate, DecideGate, ChangeStatus, Remove, ChangeSeat, Abandon, Commit, execution
  <1>3. CASE PlanTasks \/ PlanGates \/ RoleChanges
    BY <1>3 DEF PlanTasks, PlanGates, RoleChanges, CreateManualTask, Reschedule, DecideTask, CreateManualGate,
                ApproveChange, RejectChange, RequestChange, AtOnce, execution
  <1>4. CASE Retention \/ Backfill \/ StartWork \/ ArchiveVersion
    BY <1>4 DEF Retention, ListEligible, PurgeExpiredEvidence, SweepFails, Sweeping, StartWork, ArchiveVersion,
                Backfill, execution
  <1>5. CASE UNCHANGED vars
    BY <1>5 DEF vars
  <1> QED
    BY <1>1, <1>2, <1>3, <1>4, <1>5 DEF Next

\* The project keeps its types.
THEOREM PlanningTypes == Spec => []TypeOK
  <1>1. Init => RestTyped
    <2>1. 0 \in 0..MaxWork
      BY ConstantsAssumption
    <2> QED
      BY <2>1 DEF Init, RestTyped, Dated
  <1>2. RestTyped /\ [Next]_vars => RestTyped'
    BY DatedKeeps, WorkKeeps, FlagsKeep DEF RestTyped
  <1>3. PlanningInv /\ RestTyped => TypeOK
    <2> SUFFICES ASSUME PlanningInv, RestTyped PROVE TypeOK
      OBVIOUS
    <2>1. DOMAIN AllowedStatus = Later \cup {"none", "deleted"}
      BY DEF AllowedStatus, Later
    <2>2. DOMAIN approvals \subseteq Gate /\ DOMAIN request = Thread
      BY DEF PlanningInv, Grounded, Records, Informed
    <2>3. /\ status \in DOMAIN AllowedStatus /\ archivedFrom \in DOMAIN AllowedStatus
          /\ activated \in BOOLEAN /\ raced \in BOOLEAN
          /\ seats \subseteq Seat /\ change \in [Seat -> {"none", "vacate", "replacement"}]
          /\ plan \in Plan /\ plan.included \subseteq plan.tasks
      BY <2>1 DEF PlanningInv, Grounded, Typed
    <2>4. /\ plan.tasks \subseteq Task /\ plan.gates \subseteq Gate
          /\ plan.class \in [Task -> Class] /\ plan.links \in [Gate -> SUBSET Task]
          /\ plan.verdict \in [Gate -> Verdict]
      BY <2>3 DEF Plan
    <2> QED
      BY <2>2, <2>3, <2>4 DEF RestTyped, Dated, TypeOK, Verdict
  <1>4. PlanningInv /\ [Next]_vars => PlanningInv'
    BY StepKeeps
  <1> QED
    BY InitPlanning, <1>1, <1>2, <1>3, <1>4, PTL DEF Spec
=============================================================================
