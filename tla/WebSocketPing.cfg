SPECIFICATION Spec
CONSTANTS
  Senders = {s1, s2}
  s1 = s1
  s2 = s2
  Nobody = Nobody
  XorByte <- MCXor
  Scripts <- MCPing
  Keys <- MCKeys
  Segments = {1, 4, 60}
CHECK_DEADLOCK FALSE
INVARIANTS ControlApart
