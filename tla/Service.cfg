CONSTANTS
  w1 = w1
  w2 = w2
  r1 = r1
  r2 = r2
  r3 = r3
  ann = ann
  long = long
  short = short
  Workers = {w1, w2}
  LastStatement = 2
  MaxStarts = 2
  Requests = {r1, r2, r3}
  WorkerOf <- ServedBy
  Kinds <- KindsOf
  Subject <- SubjectOf
  Claim <- ClaimIn
  Dev = dev
  Modes = {"unverified", "verified", "bypass"}
  PoolMax = 1
  Nobody = nobody
SPECIFICATION Spec
INVARIANTS IdentityTypeOK OneBuilder SchemaBeforeService FailsOnlyAtFirst
PROPERTIES ImplementsWriteOnce StartsUp RequestsAnswered
\* Every worker may have been started as often as the bound allows.
CHECK_DEADLOCK FALSE
