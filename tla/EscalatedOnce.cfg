SPECIFICATION Spec
CONSTANTS
  x = x
  y = y
  w1 = w1
  w2 = w2
  Work = {x}
  Sweeper = {w1}
  MaxChanges = 1
  MaxFailures = 0
PROPERTIES EveryFollowUpIsAnswered
