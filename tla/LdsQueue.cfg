CONSTANTS
  NumLidars = 2
  Size = 2
  IndexModulus = 4
  Alike = p1
  Packets = {p1, blank}
  Blank = blank
  Torn = torn
  Nothing = nothing
SPECIFICATION MCSpec
INVARIANTS SlotExclusive AtMostOneStranded
PROPERTIES IsChannel PacketsArePopped ExitIsJoined
