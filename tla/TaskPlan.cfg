\* Standard and unclassified work, two chained milestones and a gate, one request
\* at a time, each carried to its end: what dependencies release, what cascades
\* complete, and that all of it implements the abstract board.
SPECIFICATION RaceSpec
CONSTANTS
  t1 = t1  t2 = t2  m1 = m1  m2 = m2  g1 = g1
  adm = adm  pm = pm  sup = sup  emp = emp  s1 = s1  s2 = s2
  NoActor = NoActor
  Task = {t1, t2, m1, m2, g1}
  Session = {s1}
  Admins = {}
  PMs = {pm}
  Supervisors = {sup}
  Employees = {}
  Kind <- Plan
  Class <- PlanClass
  EvidenceRequired <- NoEvidence
  Deps <- PlanDeps
  Interference = TRUE
  MaxReviews = 2
  MaxUpdates = 1
  MaxFailures = 0
INVARIANTS
  MilestoneSound
  ReleasedWorkStaysJustified
  NoMilestoneForgotten
PROPERTIES
  VerifiedWorkMovesOn
  ImplementsBoard
\* Behaviours end when the bounds are used up or every task is closed.
CHECK_DEADLOCK FALSE
