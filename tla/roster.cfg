CONSTANTS
  l1 = l1
  l2 = l2
  l3 = l3
  Logs = {l1, l2, l3}
  MaxWorkers = 2
  Faults = {"upsert", "db", "crash"}
SPECIFICATION StableSpec
INVARIANTS
  TypeOK
PROPERTIES
  OnlyBlindDoubles
  UsablePickedUp
