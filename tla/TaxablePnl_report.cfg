SPECIFICATION Spec
CONSTANTS
  Entities = {1, 2}
  Times = {0, 1, 2, 3}
  Entries <- MCEntries
  MaxRows = 5
  RuleAt <- MCRuleAt
  Ruleset = "spain"
  Rate <- MCRate
  Exemption <- MCExemption
  Bases <- MCBases
  YearLength = 2
  NoRule = NoRule
  NoSale = NoSale
  NoTotal = NoTotal
  NoLimit = NoLimit
INVARIANTS TypeOK FirstInFirstOut HoldingsMatchLots TaxWithinBounds
