CONSTANTS
  Fds = {3, 4, 5, 6, 7, 8, 9, 10}
  Kinds = {"improcess", "RgaBlit", "array", "immakeBorder"}
  BorderTypes = {"CONSTANT", "REFLECT", "UNKNOWN"}
  Borders <- AllBorders
  ArraySize = 2
  MaxCalls = 2
SPECIFICATION Spec
INVARIANTS ResultCovers AcquireConsumed
PROPERTIES BorderOrder NoForeignClose
