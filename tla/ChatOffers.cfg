SPECIFICATION Spec
CONSTANTS
  s1 = s1
  m1 = m1
  e1 = e1
  a1 = a1
  c1 = c1
  None = None
  Supervisors <- MCSupervisors
  Managers <- MCManagers
  Employees <- MCEmployees
  Admins <- MCAdmins
  Chat <- MCChat
  Projects <- MCProjects
  MaxUpdates = 2
  MaxChanges = 3
  MaxMoves = 1
INVARIANT
  OfferedIsAllowed
CHECK_DEADLOCK FALSE
