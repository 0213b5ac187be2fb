SPECIFICATION FairSessionSpec
CONSTANTS
  Host = Host
  Joiner = Joiner
  Payloads = {1, 2}
  MaxRetries = 1
  RecvWindow = 1
  MaxSent = 2
  Senders = {Joiner}
  MaxAttempts = 2
  PeerTimeout = 1
  Hazards = {}
INVARIANTS
  SessionClean
  SessionInOrder
  PlayersAnnounced
PROPERTIES
  HalfOpenEnds
CHECK_DEADLOCK FALSE
