SPECIFICATION TokensSpec
CONSTANTS
  Callers = {t1, t2}
  TokenTtl = 2
  TokenLife = 4
  MaxExchange = 1
  MaxUse = 1
  MaxTokens = 2
CHECK_DEADLOCK FALSE
INVARIANT RejectedIsForgotten
