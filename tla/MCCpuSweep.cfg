SPECIFICATION Spec
CONSTANTS
  Input = {0, 129}
  None = None
INVARIANT TypeOK
PROPERTIES FollowsProgram TakesPeriods FlagsPreserved StackKept OthersSpared
