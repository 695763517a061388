SPECIFICATION Spec
CONSTANTS
  Nobody = Nobody
  ann = ann
  bob = bob
  matrix = matrix
  example = example
  Backends = {"sqlite", "postgres"}
  Emails = {ann, bob}
  Servers = {matrix, example}
  MaxRows = 2
  MaxCrashes = 1
SYMMETRY Symm
INVARIANTS
  TypeOK
  AlertsSurvive
  ServedSchemaIsComplete
PROPERTY CommandsFailOnlyAsKnown
