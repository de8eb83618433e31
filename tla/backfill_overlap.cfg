CONSTANTS
  lg = lg
  r1 = r1
  r2 = r2
  t1 = t1
  t2 = t2
  c1 = c1
  c2 = c2
  c3 = c3
  Undecodable = Undecodable
  Ignored = Ignored
  Logs = {lg}
  Certs <- MCCerts
  Entries <- MCEntries
  NotBefore <- MCNotBefore
  Cutoff = 1
  Invocations = {r1, r2}
  Tasks = {t1, t2}
  RunOf <- MCRunOf
  TaskLog <- MCTaskLog
  TimeOf <- MCTimeOf
  Since = 2
  Concurrency = 1
  BatchSize = 2
  MaxJobs = 2
  Faults = {"db", "crash", "http", "empty"}
SPECIFICATION TasksSpec
SYMMETRY MCSymmetry
INVARIANTS
  TasksTypeOK
  StartsAtSince
  ProgressCovered
  CompletionCost
