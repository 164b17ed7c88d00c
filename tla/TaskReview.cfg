\* One class_a task; two requests at a time, which may write what the other has
\* read, and one request that may die between its commits.
SPECIFICATION RaceSpec
CONSTANTS
  t1 = t1  t2 = t2  m1 = m1  m2 = m2  g1 = g1
  adm = adm  pm = pm  sup = sup  emp = emp  s1 = s1  s2 = s2
  NoActor = NoActor
  Task = {t1}
  Session = {s1, s2}
  Admins = {}
  PMs = {pm}
  Supervisors = {sup}
  Employees = {emp}
  Kind <- AllWork
  Class <- AllClassA
  EvidenceRequired <- NoEvidence
  Deps <- NoDeps
  Interference = TRUE
  MaxReviews = 3
  MaxUpdates = 2
  MaxFailures = 1
INVARIANTS
  TypeOK
  CompletionIsDecided
  OneDecisionPerSubmission
  SubmissionFrozen
PROPERTY
  TableLeftOnlyInRaces
SYMMETRY Threads
\* Behaviours end when the bounds are used up or every task is closed.
CHECK_DEADLOCK FALSE
