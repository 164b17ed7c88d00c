SPECIFICATION Spec
CONSTANTS
  x = x
  y = y
  w1 = w1
  w2 = w2
  Work = {x}
  Sweeper = {w1, w2}
  MaxChanges = 3
  MaxFailures = 1
INVARIANTS TypeOK EscalationFollowsFollowUp
PROPERTIES RecoveredIsNotEscalated OneFollowUpPerStall FirstStallReachesAdmin RecoveryIsRecorded
