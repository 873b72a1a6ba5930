SPECIFICATION Spec
CONSTANTS
  Input = {0}
  None = None
  MaxInterrupts = 2
INVARIANTS InterruptsTransparent SectionsAtomic
PROPERTY ProgramEnds
