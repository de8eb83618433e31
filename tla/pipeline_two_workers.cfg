CONSTANTS
  lg = lg
  w1 = w1
  w2 = w2
  c1 = c1
  c2 = c2
  c3 = c3
  n1 = n1
  n2 = n2
  d1 = d1
  d2 = d2
  Undecodable = Undecodable
  Ignored = Ignored
  Logs = {lg}
  Certs <- MCCerts
  NotBefore <- MCNotBefore
  Cutoff = 3
  Names = {n1, n2}
  Domains = {d1, d2}
  DomainsOf <- MCDomainsOf
  NamesOf <- MCNoNamesOf
  WatchLists <- MCOneWatchList
  StartLists <- MCOneWatchList
  Entries <- MCSparse
  Workers = {w1, w2}
  LogOf <- MCTwoWorkers
  BatchSize = 2
  ChannelCapacity = 1
  BatchMax = 2
  Faults = {"tick", "crash", "insert"}
SPECIFICATION Spec
INVARIANTS
  NoGap
PROPERTIES
  LossBounded
  CursorNeverRegresses
