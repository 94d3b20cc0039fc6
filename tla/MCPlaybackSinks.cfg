SPECIFICATION Spec
CONSTANTS
  a = a
  NoItem = NoItem
  ItemIds = {a}
  Positions = {0}
  ScalarProps = {"Speed"}
  ScalarValues = {0}
  Inputs <- MCInputs
  MaxBatch <- MCBatch
  QueueCap = 2
INVARIANTS InhibitFollowsPlayback BrowserFollowsPlayback DesktopShowsPlayer PresenceShowsPlayer
