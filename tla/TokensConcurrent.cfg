\* Mints one at a time, operators, requests and lagging replicas beside them.
SPECIFICATION SerialSpec
CONSTANTS
  Accounts = {a1}
  Names = {n1}
  TokenIds = {t1, t2, t3}
  Legacy = {t2}
  Callers = {c1, c2}
  HourlyCap = 1
  Window = 1
  MaxTime = 1
  LaggingScans = TRUE
  None = None
SYMMETRY Symmetry
INVARIANT DenialHonoured
INVARIANT NamesUnique
INVARIANT MintWithinCap
