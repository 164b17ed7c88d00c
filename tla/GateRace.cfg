SPECIFICATION Spec
CONSTANTS
  Gate = {g1}
  Employee = {e1, e2}
  g1 = g1
  e1 = e1
  e2 = e2
  t1 = t1
  t2 = t2
  Nobody = Nobody
  NoGate = NoGate
  Thread = {t1, t2}
  MaxRequests = 6
  MaxFailures = 1
INVARIANTS TypeOK ClosedWasSubmitted ReviewIsOfTheAssignee OneDecisionPerSubmission
PROPERTIES ImplementsDesk ApprovalLostOnlyToDecision SilentSessionIsExpired
CHECK_DEADLOCK FALSE
