SPECIFICATION GeoSpec
CONSTANTS
  Null = Null
  Databases <- MCDatabases
  Addresses = {1, 3, 4, 6, 8, 9}
  Public = {1, 3, 4, 6, 8}
  MaxInstalls = 3
  MaxLookups = 2
  MaxFaults = 2
INVARIANTS
  OneDirectoryIsRight
PROPERTY
  SomethingIsLeft
CHECK_DEADLOCK FALSE
