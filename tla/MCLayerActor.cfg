SPECIFICATION FairSpec
CONSTANTS
  Regions = {r1, r2}
  Sizes = {1, 2}
  MaxChanges = 1
  MaxPublishes = 1
  MaxDeferrals = 1
  MayDisconnect = TRUE
  PromptDisplay = FALSE
INVARIANTS PatchesHaveABase HiddenStaysEmpty
PROPERTIES ScreenSettles UiThreadReturns
