SPECIFICATION PySpec
\* The deadlock shows as a property that never comes true.
CHECK_DEADLOCK FALSE
CONSTANTS
  Bindings = {"main"}
  Val = {v0}
  RamSize = 1
  MemoryControllers <- MCMemoryControllers
  Anonymous <- MCAnonymous
  Misfit = {"rom"}
  OptionValue = {"on", "off"}
  MemoryFaults = FALSE
  IoFaults = FALSE
  AlienFaults = FALSE
  None = None
  Thrown = Thrown
  Unused = Unused
PROPERTY EndReachesClient
