SPECIFICATION Spec
CONSTANTS
  Regions = {r1, r2}
  Sizes = {1, 2}
  MaxChanges = 1
  MaxPublishes = 0
  MaxDeferrals = 0
  MayDisconnect = TRUE
  PromptDisplay = TRUE
INVARIANTS NoLostAnswer
