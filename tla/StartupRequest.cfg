CONSTANTS
  user = user
  main_thread = main_thread
  Requesters = {user}
  Main = main_thread
  MaxReports = 0
  MaxLogs = 1
  MaxRecreated = 0
SPECIFICATION ThreadSpec
PROPERTIES
  RequestEndsStartup
CHECK_DEADLOCK FALSE
