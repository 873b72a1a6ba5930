SPECIFICATION Spec
CONSTANTS
  Space = 4
  Byte = {b0, b1}
  Val = {v0, v1}
  Inputs <- MCInputs
  Null = Null
  Malformed = Malformed
  Capacity = 3
  None = None
SYMMETRY Symmetry
INVARIANTS TypeOK GathersLayout
PROPERTIES UpdatesDesired SaveReturnsState SaveAdvances RoundTrip
