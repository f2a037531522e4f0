SPECIFICATION FairSpec
CONSTANTS
  j1 = j1
  j2 = j2
  j3 = j3
  alice = alice
  bob = bob
  w1 = w1
  w2 = w2
  NoJob = NoJob
  Jobs = {j1, j2, j3}
  Tenants = {alice, bob}
  Workers = {w1, w2}
  TenantOf <- MCTenantOf
  Retries <- MCRetries
INVARIANTS EachJobInOnePlace NoWakeUpIsLost PassedOverAtMostOnce
PROPERTIES EveryJobSettles ImplementsPool
CHECK_DEADLOCK FALSE
