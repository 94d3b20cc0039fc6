SPECIFICATION Spec
CONSTANTS
  Regions = {r1, r2}
  Sizes = {1, 2}
  MaxChanges = 2
  MaxPublishes = 0
  MaxDeferrals = 0
  MayDisconnect = TRUE
  PromptDisplay = FALSE
INVARIANTS WholeFrames
