SPECIFICATION PySpec
\* A run that failed leaves running_ set with no loop: no call has an effect.
CHECK_DEADLOCK FALSE
CONSTANTS
  Bindings = {"none"}
  Val = {v0, v1}
  RamSize = 1
  MemoryControllers <- MCMemoryControllers
  Anonymous <- MCAnonymous
  Misfit = {"rom", "cpu"}
  OptionValue = {"on", "off"}
  MemoryFaults = FALSE
  IoFaults = TRUE
  AlienFaults = FALSE
  None = None
  Thrown = Thrown
  Unused = Unused
INVARIANT RunningOnlyDuringRun
