SPECIFICATION LossySpec
CONSTANTS
  a = a
  b = b
  End <- MCEnd
  Base = 2
  HEADER = 2
  PACKET_BYTES = 1
  WINDOW_BYTES = 2
  Message <- OneMessage
  MessageLimit <- OnceOneWay
PROPERTIES
  ImplementsFairly
  EventuallyAcknowledged
CHECK_DEADLOCK FALSE
