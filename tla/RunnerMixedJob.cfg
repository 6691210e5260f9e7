SPECIFICATION Spec
CONSTANTS
  Requests = {r1, r2}
  Projects = {p1, p2}
  MaxJobs = 2
SYMMETRY Symmetry
CHECK_DEADLOCK FALSE
PROPERTIES
  VolumesNeedTheirName
