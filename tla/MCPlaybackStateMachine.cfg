CONSTANTS
  a = a
  b = b
  NoItem = NoItem
  ItemIds = {a, b}
  Positions = {0, 1}
  ScalarProps = {"Speed"}
  ScalarValues = {0, 1}
SPECIFICATION Spec
INVARIANTS
  TypeOK
  StoppedIsQuiet
  VariantSwitchIsBounded
  SpinnerHasCause
  PhaseFollowsRequest
  EventsTellTheState
PROPERTY PromotedWhenReady
