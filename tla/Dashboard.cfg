SPECIFICATION Spec
CONSTANTS
  FirstHosts <- TwoHosts
  MaxHostOps = 2
  MaxHostUpsets = 1
  FirstUsers <- OneUser
  Filters = {"all", "active"}
  Orders = {TRUE}
  PageNumbers = {0, 1}
  Limit = 1
  MaxUserSteps = 2
  LogNodes = {1, 2}
  RAW_LOG_BUFFER_MAX = 2
  MaxLines = 4
  MaxNodeChanges = 2
  Tabs = {1, 2}
  Admins = {"a", "b"}
  NoAdmin = "none"
  MaxLogins = 2
  MaxRefetches = 1
INVARIANTS
  PagesTypeOK
  
  
  OnlySelectedNode
  LogsComplete
  ShowsItsAccount
PROPERTIES
  
  
  SessionKept
CHECK_DEADLOCK FALSE
