SPECIFICATION FairSpec
CONSTANTS
  r1 = r1
  r2 = r2
  r3 = r3
  cohen = cohen
  f1 = f1
  f2 = f2
  Reads = {r1, r2, r3}
  Accounts = {cohen}
  Findings = {f1, f2}
  AccountOf <- MCAccountOf
  Spines <- MCSpines
  Cap = 1
  RequestThreads = 2
  PoolSize = 1
  Plays <- MCPlays
INVARIANT ReadsAreSound
PROPERTIES EvidenceIsFrozen EveryReadSettles
CHECK_DEADLOCK FALSE
