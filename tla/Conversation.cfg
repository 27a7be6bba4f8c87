\* A system prompt, four more texts and calls, and the results of the calls; two
\* rounds and a digest pass, with and without a protected opening.
CONSTANTS
  MaxMessages = 4
  MaxCalls = 2
  MaxRounds = 2
  MaxDigests = 1
  ExchangeCounts = {1, 2}
  TokenBudgets <- MCBudgets
  Protections <- MCProtections
  LongTexts = {1, 3}
  Contents = {"short", "long"}
  Chars <- MCChars
  DigestOptions <- MCDigestOptions
SPECIFICATION Spec
INVARIANTS TypeOK NothingIsForgotten
PROPERTIES PairsStay RecentStays DigestKeepsNewest
CHECK_DEADLOCK FALSE
