\* Lists of up to five distinct nexthops, hashes of six bits; consistent hashing of up to four.
SPECIFICATION ChFairSpec
CONSTANTS
  HashBits = 6
  Nexthops = {1, 2, 3, 4, 5}
  MinBuckets = 2
  MaxHashed = 4
INVARIANTS MaskIsRemainder EveryNexthopReached FairShares NoStarvation
PROPERTY Populates
CHECK_DEADLOCK FALSE
