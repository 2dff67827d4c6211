\* Every rating difference, past both clamps at -400 and 400; then three
\* identities, in every season of three matches of two or three participants.
CONSTANTS
  MaxDiff = 430
  Identities = {ann, bot, cai}
  Scores = {0, 1}
  MaxParticipants = 3
  MaxMatches = 3
SPECIFICATION MCSpec
INVARIANT ExpectationMonotone
INVARIANT WinnerGainsLoserPays
INVARIANT DriftAtMostOnePerMatch
PROPERTY KeepsLedgerContract
\* The season ends after MaxMatches.
CHECK_DEADLOCK FALSE
