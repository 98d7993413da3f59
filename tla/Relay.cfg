SPECIFICATION FairRelaySpec
CONSTANTS
  Total = 7
  Hello = 3
  Buffers = {1, 2, 4}
  Answer = 2
INVARIANTS
  RelayTypeOK
  CountedIsDelivered
PROPERTIES
  PipePromise
  RequestDelivered
  AnswerDelivered
