CONSTANTS
  stockholm = stockholm
  here = here
  TTL = 2
  Geo = {stockholm}
  Weather = {here}
  Answers = {"data", "zero", "error", "junk", "none"}
  MaxKills = 1
  MaxFaults = 1
SPECIFICATION Spec
PROPERTIES
  EveryQueryRecovers
  OneCallPerTTL
INVARIANTS
  StoresAgree
  CacheNeverKills
