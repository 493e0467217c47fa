SPECIFICATION Spec
CONSTANTS
  Panel <- MCPanel
  Credentials <- MCCredentials
  MessageHelp <- MCMessageHelp
  Logons <- MCLogons
  Options <- MCOptions
  Tables <- MCTables
  Keys <- MCKeys
  TableRows = 2
  Members = 3
  Lines = 3
  Page = 2
INVARIANTS
  TypeOK
  LoggedOn
  OnlyVisible
  RepliesToShown
  RefusedFirst
PROPERTIES
  Progress
CHECK_DEADLOCK FALSE
