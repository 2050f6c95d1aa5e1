CONSTANTS
  MSG_HDR_SIZE = 2
  Align = 2
  MSG_MAX_PAY_SIZE = 4
  Msgs <- Both
  Noise = {0, 3}
  Up <- Both
  Down <- Empty
  QueueMax = 2
  Room = 2
SPECIFICATION FairSpec
INVARIANTS TypeOK
PROPERTIES MessagesArriveWhole BytesMove
