SPECIFICATION FullSpec
CONSTANTS
  Data = {x, y}
  Positions = {0, 1, 2, 3}
  Addresses = {a1, a2, a3, a4}
  NULL = NULL
PROPERTY
  InsertPushesBack
