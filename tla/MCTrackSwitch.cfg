CONSTANTS
  NoItem = NoItem
  ItemIds = {}
  Positions = {0}
  ScalarProps = {"Speed"}
  ScalarValues = {0}
  MaxLoads = 2
  MaxPresses = 2
SPECIFICATION SwitchSpec
INVARIANTS
  PlaysOwnSelection
  MachineAgreesWithMpv
PROPERTY ReplacedEndIsEaten
CHECK_DEADLOCK FALSE
