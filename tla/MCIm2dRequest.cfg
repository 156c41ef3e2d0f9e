SPECIFICATION QuerySpec
CONSTANTS
  Devices <- MCDevices
  Calls <- MCCalls
  ApiCalls <- MCApiCalls
  Askers = {a1, a2}
INVARIANTS
  AcceptedIsChecked
  MergeSound
  WindowsFit
  OperandsReached
  FeaturesCarried
  InterpFitsScale
  ConversionExact
  LegacyAgrees
  TwinsAgree
  DrawsWhatItSays
  ReportTrue
  DrmSourceKept
