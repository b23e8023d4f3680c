CONSTANTS
  Nil = Nil
  Pages = {p1, p2}
  Sheets = {s1}
  Machines = {m1}
  MaxCommits = 2
  MaxDeploys = 2
  Wallets = {w1}
  Coins = {xmr, rvn}
  Builtins = {xmrig}
  Custom = hiveCustom
  MaxTasks = 2
  MaxChanges = 4
  Windows = {w}
  Rigs = {r1, r2}
  Values = {0, 1}
  Fresh = 0
  MaxWrites = 2
  h1 = h1
  k1 = k1
  Hosts = {h1, h2}
  HostKeys = {k1, k2}
  Machine <- MCMachine
  MaxOpenings = 2
  MaxTargets = 2
  MaxBatches = 2
  Interval = 2
  Deadline = 3
  Grace = 3
  FreshFor = 7
  Limit = 15
  Settling = 8
  Old = 16
  Contents = {c1, c2}
  ReadOnly = ReadOnly
  MaxDialogs = 2
  MaxVersions = 2
  MaxSends = 2
  Tabs = {t1, t2}
  Ids = {i1}
  Configs = {c1, c2}
  MaxSaves = 2
  MaxJobs = 2
  MaxSockets = 4
  PageSizes = {1, 2}
  MaxPopups = 1
  MaxPage = 2
  MaxAlerts = 3
SPECIFICATION ConsoleSpec
CHECK_DEADLOCK FALSE
INVARIANTS
  ConsoleTypeOK
  NoLostEdit
  VersionNamesContent
  
  MinerMatchesChoice
  InstancesDiffer
  UntouchedAsCopied
  HostKeyIsTrusted
  SecretIsOfThisDialog
  RowsTellTruth
  ShownOnlineIsRecent
  OneJobPerDecision
  ReportedAsSubmitted
  NameTellsFields
  NoAlertPassedOver
PROPERTIES
  SaveReachesUsers
  
  LateIsNotOffline
  NoTemplateLost
  InputReachesTicked
  
