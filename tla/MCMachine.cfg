SPECIFICATION PySpec
\* A run that failed leaves running_ set with no loop: no call has an effect.
CHECK_DEADLOCK FALSE
CONSTANTS
  Bindings = {"none", "main"}
  Val = {v0, v1}
  RamSize = 1
  MemoryControllers <- MCMemoryControllers
  Anonymous <- MCAnonymous
  Misfit = {"rom", "cpu"}
  OptionValue = {"on", "off", "illegal"}
  MemoryFaults = TRUE
  IoFaults = TRUE
  AlienFaults = TRUE
  None = None
  Thrown = Thrown
  Unused = Unused
INVARIANTS TypeOK HandlersExclusive RunningWhileLoop HandlersWithinLoop SignalsConsumed DeferredRunsAtOnce LockDiscipline
PROPERTIES ConfigFrozen EndingBounded EndReachesCaller SavesDelivered ImplementsContract
