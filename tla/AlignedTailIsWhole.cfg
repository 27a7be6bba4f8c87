\* As Conversation.cfg.
CONSTANTS
  MaxMessages = 4
  MaxCalls = 2
  MaxRounds = 2
  MaxDigests = 1
  ExchangeCounts = {1, 2}
  TokenBudgets <- MCBudgets
  Protections <- MCProtections
  LongTexts = {1, 3}
  Contents = {"short", "long"}
  Chars <- MCChars
  DigestOptions <- MCDigestOptions
SPECIFICATION Spec
INVARIANT AlignedTailIsWhole
CHECK_DEADLOCK FALSE
