CONSTANTS
  upper = upper
  lower = lower
  host = host
  NoDomain = NoDomain
  Texts = {upper, lower, host}
  Lower <- MCLower
  Reg <- MCReg
  Contents <- MCContents
  Faults = {"list", "crash"}
SPECIFICATION StableSpec
INVARIANTS
  MatcherIsOneList
PROPERTIES
  EventuallyCurrent
