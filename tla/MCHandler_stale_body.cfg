SPECIFICATION Spec
CONSTANTS
  c1 = c1  c2 = c2  None = None
  Conns = {c1, c2}
  Kinds <- AllGood
  BufferSize = 3  MaxRequest = 4  MaxRetries = 2  ResponseLength = 1
  Failures <- NoneBreaks
INVARIANT FullRequestInBuffer
CHECK_DEADLOCK FALSE
