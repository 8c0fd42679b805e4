SPECIFICATION ServicesSpec
CONSTANTS
  a1 = a1
  a2 = a2
  b1 = b1
  c1 = c1
  n1 = n1
  n2 = n2
  n3 = n3
  Calls = {a1, a2, b1, c1}
  Notices = {n1, n2, n3}
  NoticeOf <- MCNoticeOf
  MaxRecords = 2
  LogLines = 4
  StreamHistory = 2
  QueueSize = 2
  FlowNodes = 3
  FlowTries = 2
  NodeTries = 2
  FailureLimit = 2
  Fallback = {1}
  Tolerant = {2}
  MarkedLate = {}
  Nested = {3}
  ReplyEvents = 3
  HistorySize = 2
  ReplyQueueSize = 1
  ReplyRetries = 1
  Assisted = TRUE
  LastActions = {"send", "click"}
  HostCalls = {"c1", "c2"}
  Plugins = {"p"}
  MaxVersion = 4
  Probes = {1, 2, 3}
  Processes = {"p", "q"}
  ProcessOf <- MCProcessOf
  MaxJobs = 2
  MaxCrashes = 1
  Accounts = 2
  MaxHistory = 1
  ClientUsers = {"u", "v"}
  MaxClients = 3
  MaxCloses = 1
  SessionFiles = {"s"}
  OwnTasks = {"t1", "t2"}
  SharedTasks = {"c"}
  Histories = {"h"}
  Owners = {"a", "b"}
  Deletes = {"d"}
  Updates = {"u"}
  Toggles = {"t"}
  StarOnly = FALSE
  DataNames = {"db", "sessions"}
  ArchiveNames = {"db", "plugins"}
  MaxRequests = 2
  MaxMessage = 4
  WindowLimit = 3
  WindowKeep = 2
  RunFiles = {"f", "g"}
  HistoryPool = {"p"}
  MaxHistoryRuns = 2
  HistoryLimit = 1
  IndexLimit = 1
  RecentLimit = 1
  RecentReads = {1}
  Script <- MCScript
  Enders = {1}
  Lenient = {2}
  FlowAttempts = 2
  Backoff = 0
  Buttons = 2
  ChatLength = 2
SYMMETRY Symmetry
INVARIANT ServicesTyped
INVARIANT DeliveryIsSafe
PROPERTY LedgerSpec
INVARIANT ReaderSeesAll
INVARIANT NoSilentReplay
INVARIANT SuccessIsAnAnswer
INVARIANT CountedOnce
PROPERTY QuietAfterEnd
INVARIANT OldVersionKept
PROPERTY FailsClosed
INVARIANT JobsTruthful
INVARIANT SharedSafely
INVARIANT ChangeIsSafe
INVARIANT SyncSettlesJobs
INVARIANT RestoreIsSafe
INVARIANT TakenOnce
INVARIANT HistoryIsKept
INVARIANT ConversationIsSafe
\* Flows, uploads, plugin calls and log streams end, and so do their behaviours.
CHECK_DEADLOCK FALSE
