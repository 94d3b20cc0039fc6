SPECIFICATION FairSpec
CONSTANTS
  user = user
  main_thread = main_thread
  Requesters = {user}
  Main = main_thread
  MaxReports = 2
  MaxLogs = 1
  MaxRecreated = 1
INVARIANTS TypeOK NothingOutlivesMain NoLostWake OverlayFollowsWindow
PROPERTIES ShutdownEnds
CHECK_DEADLOCK FALSE
