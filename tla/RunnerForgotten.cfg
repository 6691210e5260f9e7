SPECIFICATION Spec
CONSTANTS
  Requests = {r1}
  Projects = {p1}
  MaxJobs = 1
CHECK_DEADLOCK FALSE
INVARIANTS
  OnlyTheDirectoryForgets
