SPECIFICATION WebSpec
CONSTANTS
  Clients = {1, 2}
  MAXLINE = 3
  Window = 3
  EchoInputs <- LongAndShort
  HttpInputs <- OneRequest
  WebFaults = 1
  Advices <- TwoAdvices
  Pages <- OnePage
  Chunk = 2
  AdviceFaults = 2
  WikiFaults = 1
INVARIANT RightAnswers
PROPERTIES
  ClientsEnd
  ConnectionsEnd
CHECK_DEADLOCK FALSE
