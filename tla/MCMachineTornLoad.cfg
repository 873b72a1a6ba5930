SPECIFICATION PySpec
CHECK_DEADLOCK FALSE
CONSTANTS
  Bindings = {"none"}
  Val = {v0, v1}
  RamSize = 2
  MemoryControllers <- MCMemoryControllers
  Anonymous <- MCAnonymous
  Misfit = {"rom", "cpu"}
  OptionValue = {"on", "off"}
  MemoryFaults = TRUE
  IoFaults = FALSE
  AlienFaults = FALSE
  None = None
  Thrown = Thrown
  Unused = Unused
PROPERTY LoadAllOrNothing
