SPECIFICATION Spec
CONSTANTS
  Items = {i1, i2, i3}
  Lists = {"list"}
  Data = {d1, d2, d3, d4}
  NULL = NULL
  list = "list"
PROPERTY
  RemovedIsDestroyed
