CONSTANTS
  a = a
  b = b
  d = d
  f = f
  Clients = {a, b}
  Domains = {d, f}
  DomainsOf <- MCDomainsOf
  Asked <- MCAsked
  Filtered = {b}
  MaxEvents = 4
  Capacity = 2
  MaxSubscribers = 2
  Enabled = TRUE
SPECIFICATION Spec
INVARIANTS
  TypeOK
  NoSilentGap
CHECK_DEADLOCK FALSE
