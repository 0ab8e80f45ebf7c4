SPECIFICATION FairSpec
CONSTANTS
  Pid = {1, 2}
  kthread = kthread
  server = server
  Program = {kthread, server}
  None = None
  threads <- MCThreads
  rss <- MCRss
  blanks = {server}
  half = 4
  AtStart <- MCAtStart
  StartTicks = 3
  Garbage = {6}
  Jiffies = {0, 2}
  Scale = 1
  OutOfRange <- MCOutOfRange
  Kept = 2
  Shown = 1
  MaxChanges = 2
INVARIANTS
  TablesAgree
PROPERTIES
  ScanIsRight
  RatesAreRight
  TopShown
  TotalsSettle
CHECK_DEADLOCK FALSE
