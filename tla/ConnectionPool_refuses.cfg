SPECIFICATION Spec
CONSTANTS
  Targets = {matrix, conduit}
  Checks = {c1, c2, c3}
  PerKey = 1
  Factor = 1
  Width = 4
PROPERTY RefusedOnlyAtLimit
