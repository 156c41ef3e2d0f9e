SPECIFICATION QuerySpec
CONSTANTS
  Devices <- OlderDevices
  Calls <- Strideless
  ApiCalls <- Bordering
  Askers = {a1}
INVARIANT BorderDrawn
