SPECIFICATION QuerySpec
CONSTANTS
  Devices <- MCDevices
  Calls <- MCCalls
  ApiCalls <- MCApiCalls
  Askers = {a1, a2}
INVARIANT UnsupportedIsRefused
