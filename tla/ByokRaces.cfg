\* Two callers of one key vault: puts, hosted turns, revocations, descriptions.
SPECIFICATION Spec
CONSTANTS
  None = None
  Handles = {h1, h2}
  Owners = {ann}
  Providers = {"anthropic", "openai-compatible"}
  Secrets = {k1, k2}
  Callers = {c1, c2}
  LaggingReads = TRUE
  u1 = u1
  hold = hold
  advance = advance
  Units = {u1}
  Actions = {hold, advance}
  Strangers = {u9}
  LegalActions <- MCLegalActions
  MaxOrders = 2
  BaseUrls = {None, proxy}
SYMMETRY Symmetry
INVARIANT RevokedKeyUnused
INVARIANT DecisionSplitsReply
PROPERTY KeepsVaultContract
