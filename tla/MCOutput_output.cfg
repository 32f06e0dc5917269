SPECIFICATION MCSpec
CONSTANTS
  Cap = 12
  OutSizes = {0, 2, 34}
  ErrSizes = {0, 2, 34}
  MaxChunk = 8
  MaxUsize = 65535
  MinLearned = 3
  MinKeyValue = 3
  MaxOutput = 14
  TailCap = 9
  Operator <- McOperator
  SessionPolicy <- McSessionPolicy
  Symbols <- McSymbols
  Commands <- McCommands
  Streams <- McStreams
  Requests <- McRequests
INVARIANTS TypeOK FoundInTime ResultExact Bounded Counted PartialExact
INVARIANTS LearnedHidden BudgetExact WholeUnlessTruncated
CHECK_DEADLOCK FALSE
