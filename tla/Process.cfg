CONSTANTS
  api1 = api1
  api2 = api2
  r1 = r1
  r2 = r2
  task = task
  Apis = {api1, api2}
  Workers = {w1, w2}
  Requests = {r1, r2}
  Tasks = {task}
  None = None
  Crews <- MCCrews
  Settings <- MCSettings
  InitialSettings <- MCInitialSettings
  ServerNames <- MCServerNames
  Offers <- MCOffers
  MaxRetries = 1
  MaxDeaths = 1
  MaxRedeliveries = 1
  Names <- MCNames
  Up = ".."
  Links <- MCLinks
  SandboxArgument <- MCSandbox
  WorkingDirectory <- MCWorkingDirectory
  MaxParts = 4
SPECIFICATION MCSpec
INVARIANTS TypeOK NothingOutdated NoRequestMeetsClash RequestsFindTables RunsAreBounded MovedIntoSandboxOrLeft
PROPERTIES EveryRunEnds TwiceIsOnce
CHECK_DEADLOCK FALSE
