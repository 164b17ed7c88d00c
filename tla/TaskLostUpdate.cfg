\* Two requests write what the other has read, on one standard task.
SPECIFICATION Spec
CONSTANTS
  t1 = t1  t2 = t2  m1 = m1  m2 = m2  g1 = g1
  adm = adm  pm = pm  sup = sup  emp = emp  s1 = s1  s2 = s2
  NoActor = NoActor
  Task = {t1}
  Session = {s1, s2}
  Admins = {adm}
  PMs = {}
  Supervisors = {sup}
  Employees = {}
  Kind <- AllWork
  Class <- AllStandard
  EvidenceRequired <- NoEvidence
  Deps <- NoDeps
  Interference = TRUE
  MaxReviews = 2
  MaxUpdates = 1
  MaxFailures = 0
PROPERTY
  StatusFollowsTable
\* Behaviours end when the bounds are used up or every task is closed.
CHECK_DEADLOCK FALSE
