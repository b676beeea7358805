\* Every sync with itself, the others, the user and a kill.
SPECIFICATION Spec
CONSTANTS
  Codes = {"AAPL", "MSFT"}
  Pairs = {"EURUSD"}
  Series = {"us_10y"}
  PriceThreads = {"prices_cron", "prices_route"}
  RateThreads = {"rates_cron"}
  MacroThreads = {"macro_cron", "macro_cli"}
  OwnProcess = {"macro_cli"}
  LastDay = 2
  MaxStarts = 2
  MaxEvents = 1
INVARIANTS TypeOK OneFlight FreshIsStored NoLockOnNetwork
PROPERTIES FlightsLand
CHECK_DEADLOCK FALSE
