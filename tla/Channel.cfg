SPECIFICATION FairSpec
CONSTANTS
  Flows <- OneFlow
  MaxConns = 2
  MaxSent = 4
  MaxEchos = 1
  Window = 1
  ReadBuffer = 2
INVARIANTS TypeOK HeadPresent FIFO HelloFirst
PROPERTIES ImplementsChannel EverySendArrives RunKeepsReceiving
CHECK_DEADLOCK FALSE
