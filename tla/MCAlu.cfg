SPECIFICATION Spec
CONSTANTS
  Statuses <- MCStatuses
  Words <- MCWords
INVARIANTS SumsRight CountersRight DecimalRight RotationsRight LogicRight PairsRight
