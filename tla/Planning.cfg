\* Two requests side by side over one project.
SPECIFICATION Spec
CONSTANTS
  t1 = t1  t2 = t2  m1 = m1  g1 = g1  g2 = g2  g3 = g3
  Task = {t1, t2, m1}
  ManualTask = {m1}
  Conditional = {t2}
  PreActivation = {t1}
  Depends <- InARow
  Gate = {g1, g2, g3}
  ManualGate = {g3}
  Covers <- Exact
  RequiredBy <- Rule
  Thread = {x, y}
  None = None
  AuditWindow = 1
  MaxWork = 5
INVARIANTS
  PlanningSound
PROPERTIES
  ImplementsLife
  SeatsLostOnlyByDecision
SYMMETRY Interchangeable
\* Behaviours end when the bounds are used up.
CHECK_DEADLOCK FALSE
