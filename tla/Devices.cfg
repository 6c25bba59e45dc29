SPECIFICATION Spec
CONSTANTS
  Proc = {p1, p2}
  Asked = {"open", "release", "modeset", "mmap", "poll", "read",
           "lookup", "mkdir", "flush"}
INVARIANTS
  StuckByAKill
  OnlyCardAborts
PROPERTIES
  KilledGoes
  EndIsNoticed
CHECK_DEADLOCK FALSE
