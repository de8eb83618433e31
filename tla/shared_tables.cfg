CONSTANTS
  serve = serve
  backfill = backfill
  c1 = c1
  c2 = c2
  n1 = n1
  Nobody = Nobody
  Writers = {serve, backfill}
  Watching = {serve}
  Certs = {c1, c2}
  Batches <- MCBatches
  Names = {n1}
  NamesOf <- MCNamesOf
  NotBefore <- MCNotBefore
  HotDays = 0
  ColdDays = 1
  MaxDay = 2
  Faults = {"insert", "names", "lost"}
SPECIFICATION LiveSpec
INVARIANTS
  CountedOnce
  FirstInserterAlerts
  NobodyStuck
PROPERTIES
  PrunedLate
  InsertsAtomically
  FlushEnds
