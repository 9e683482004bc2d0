\* Three commands, two instances, one kill and one edit at any point.
CONSTANTS
  p1 = p1
  p2 = p2
  p3 = p3
  g1 = g1
  g2 = g2
  Commands = {p1, p2, p3}
  Instances = {g1, g2}
  None = None
  MaxEdits = 1
  MaxKills = 1
SYMMETRY Symmetry
SPECIFICATION Spec
CHECK_DEADLOCK FALSE
INVARIANTS
  LockExclusive
  GatewayKnown
  StoppedIsGone
  SettingsKept
