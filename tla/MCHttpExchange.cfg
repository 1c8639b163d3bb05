SPECIFICATION Spec
CONSTANTS
  Exchanges <- SomeExchanges
  MaxHeaders = 2
  MaxDigits = 2
  Digits <- DecimalDigits
INVARIANTS AcceptsTheGrammar DecodesTheChunks ResponseIsAsAsked
CHECK_DEADLOCK FALSE
