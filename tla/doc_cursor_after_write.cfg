CONSTANTS
  lg = lg
  w1 = w1
  w2 = w2
  c1 = c1
  c2 = c2
  c3 = c3
  n1 = n1
  n2 = n2
  d1 = d1
  d2 = d2
  Undecodable = Undecodable
  Ignored = Ignored
  Logs = {lg}
  Certs <- MCCerts
  NotBefore <- MCNotBefore
  Cutoff = 3
  Names = {n1, n2}
  Domains = {d1, d2}
  DomainsOf <- MCDomainsOf
  NamesOf <- MCNamesOf
  WatchLists <- MCOneWatchList
  StartLists <- MCOneWatchList
  Entries <- MCServe
  Workers = {w1}
  LogOf <- MCOneWorker
  BatchSize = 2
  ChannelCapacity = 2
  BatchMax = 2
  Faults = {"crash"}
SPECIFICATION Spec
INVARIANTS
  CursorAfterWrite
CHECK_DEADLOCK FALSE
