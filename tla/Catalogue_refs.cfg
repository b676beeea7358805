CONSTANTS
  Names <- MCNames
  EntityTypes = {bank, broker}
  Codes = {1}
  MaxDay = 2
  MaxId = 2
  MaxRows = 5
SPECIFICATION Spec
SYMMETRY MCSymmetry
INVARIANTS
  TypeOK
  RefsResolve
  DeletedIsEmpty
  NamesDistinct
  PeriodsDisjoint
CHECK_DEADLOCK FALSE
