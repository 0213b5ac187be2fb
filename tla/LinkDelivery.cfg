SPECIFICATION FairSpec
CONSTANTS
  Host = Host
  Joiner = Joiner
  Payloads = {a, b}
  MaxRetries = 1
  RecvWindow = 1
  MaxSent = 3
  Senders = {Host}
INVARIANTS
  AckMeansKept
PROPERTIES
  InOrderDelivery
  SendResolved
CHECK_DEADLOCK FALSE
