CONSTANTS
  la = la
  lb = lb
  run = run
  ta = ta
  tb = tb
  c1 = c1
  c2 = c2
  c3 = c3
  Undecodable = Undecodable
  Ignored = Ignored
  Logs = {la, lb}
  Certs <- MCCerts
  Entries <- MCEntries
  NotBefore <- MCNotBefore
  Cutoff = 2
  Invocations = {run}
  Run = run
  Tasks = {ta, tb}
  RunOf <- MCRunOf
  TaskLog <- MCTaskLog
  TimeOf <- MCTimeOf
  Since = 2
  Concurrency = 1
  BatchSize = 2
  MaxJobs = 2
  ChannelCapacity = 1
  BatchMax = 2
  Names = {}
  NamesOf <- MCNoNames
  Domains = {}
  DomainsOf <- MCNoNames
  WatchLists <- MCEmptyList
  StartLists <- MCEmptyList
  Faults = {"insert", "crash"}
SPECIFICATION LiveSpec
PROPERTIES
  LossBounded
  EveryRunEnds
CHECK_DEADLOCK FALSE
