\* Two template codes, three versions, two editors.
SPECIFICATION Spec
CONSTANTS
  Template = {p1, p2}
  Version = {v1, v2, v3}
  a = a  b = b  g = g
  Task = {a, b}
  Gate = {g}
  Admin = {x, y}
  Nothing = Nothing
  Seed <- TwoTasks
  Duration = 1
  MaxWork = 5
INVARIANT
  FilterMatchesIssues
PROPERTIES
  ImplementsCatalogue
  ActsOnWhatItSaw
SYMMETRY Interchangeable
\* Behaviours end when the bounds are used up.
CHECK_DEADLOCK FALSE
