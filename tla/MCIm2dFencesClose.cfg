CONSTANTS
  Fds = {3, 4, 5, 6, 7, 8, 9, 10}
  Kinds = {"array"}
  BorderTypes = {"CONSTANT"}
  Borders <- AllBorders
  ArraySize = 2
  MaxCalls = 1
SPECIFICATION Spec
INVARIANTS FencesClosed
