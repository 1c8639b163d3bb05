SPECIFICATION FairSpec
CONSTANTS
  c1 = c1  c2 = c2  None = None
  Conns = {c1, c2}
  Kinds <- AnyBesideGood
  BufferSize = 3  MaxRequest = 4  MaxRetries = 2  ResponseLength = 2
  Failures <- OneBreaks
INVARIANTS TypeOK OwnBodyIfRead BatchIsCurrent WholeResponse
PROPERTIES AnsweredOnce ServedDespiteOthers
CHECK_DEADLOCK FALSE
