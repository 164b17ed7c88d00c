CONSTANTS
  NoEvent = NoEvent
  NoOne = NoOne
  Events = {1, 2}
  Recipients = {1, 2}
  Passes = {p1, p2}
  Limit = 1
  SkippedOnTelegram = {1}
  OffboardNotices = {2}
  FirstPeople <- MCPeople
  FirstAudience <- MCAudience
  MaxChanges = 1
  MaxFailures = 1
SPECIFICATION Spec
INVARIANTS TypeOK RecordedIsReceived OnceUnlessDisturbed NobodyForgotten
PROPERTIES ImplementsMailbox EveryEventIsDispatched RetryComesUp
CHECK_DEADLOCK FALSE
