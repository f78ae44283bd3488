SPECIFICATION TimedSpec
CONSTANTS
  j1 = j1  j2 = j2  p1 = p1  t1 = t1  t2 = t2  h1 = h1  h2 = h2  w1 = w1
  None = None
  Jobs = {j1}
  Projects = {p1}
  ProjectOf <- OneProject
  Handlers = {h1}
  WebTasks = {t1, t2}
  WorkerTasks = {w1}
  CommitsEarly = {}
  UseQueue = TRUE
  SyncFallback = TRUE
  KickGrace = 1
  WatchdogDelay = 1
  StalePending = 1
  StaleRunning = 1
  WorkerTimeout = 1
  MaxFaults = 2
PROPERTIES PolledJobEnds WatchdogStarts
