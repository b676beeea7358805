\* Confirmation after two points, a pause looked for in the two points before.
SPECIFICATION FairSpec
CONSTANTS
  Rates <- MCRates
  NoLevel = NoLevel
  Deadband = 0
  RealHigh = 0
  RealLow = 0
  Triggered = 2
  Lookback = 2
  Disabled = {}
  InitialState = 1
INVARIANTS TypeOK TiesAreMixed
PROPERTIES FlapsOnlyWhileHiking Settles
