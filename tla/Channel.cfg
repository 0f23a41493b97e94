SPECIFICATION Spec
CONSTANTS
  a = a
  b = b
  End <- MCEnd
  Base = 2
  HEADER = 2
  PACKET_BYTES = 2
  WINDOW_BYTES = 4
  Message <- MCMessage
  MessageLimit <- TwiceOneWay
INVARIANTS
  OffsetsOrdered
  AcceptedIsPrefix
  AcknowledgementsValid
  MessagesInOrder
  BuffersBounded
PROPERTIES
  Implements
CHECK_DEADLOCK FALSE
