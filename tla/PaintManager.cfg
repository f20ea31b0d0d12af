SPECIFICATION Spec
CONSTANTS
  r = r
  a = a
  s = s
  b = b
  Controls = {r, a, s, b}
  Parent <- MCParent
  FirstRoot = r
  First = {r, a}
  AtOnce = {a}
  Busy = {a}
  MaxDepth = 2
  MaxNotify = 1
  MaxCalls = 2
INVARIANTS KeptTargetsLive DelayProtects CaptureIsReleased
CHECK_DEADLOCK FALSE
