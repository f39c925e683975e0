SPECIFICATION FairSpec
CONSTANTS
  a = a
  b = b
  m1 = m1
  m2 = m2
  m3 = m3
  End = {a, b}
  Message <- Messages
  From <- Sender
  To <- Receiver
  Data <- Datum
  Closable = {a}
  Tries = 2
  MaxDict = 1
  UniqueMsgs = TRUE
  MaxIds = 2
  MaxQueue = 1
INVARIANTS AckedArrived RoutedOnce ClosedTells
PROPERTIES SendEnds
CHECK_DEADLOCK FALSE
