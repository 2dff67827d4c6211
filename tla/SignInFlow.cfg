\* One browser with requests that overlap, two providers, an operator and the clock.
SPECIFICATION Spec
CONSTANTS
  None = None
  ann = ann
  mine = mine
  other = other
  Providers = {"github", "google"}
  Browsers = {b1}
  Subjects = {ann}
  Addresses = {mine, other}
  Own <- MCOwn
  StateTTL = 1
  SessionTTL = 2
  RequestLimit = 1
  MaxTime = 4
  MaxListed = 2
INVARIANT SessionsHaveAccount
INVARIANT ServedRecently
INVARIANT EmailIsOwn
PROPERTY KeepsTokensContract
