SPECIFICATION FairSpec
CONSTANTS
  Conns = {c1, c2, c3}
  Channels = {t1, t2}
  NoChannel = NoChannel
  MaxUser = 2
  DefaultChats = {"main"}
  MainChat = "main"
  ChatNames = {}
  ChatObjs = {}
  NoChat = NoChat
  Passwords = {"open"}
  NoPassword = "open"
  MaxChat = 1
  GameNames = {}
  EmptyName = ""
  NoName = NoName
  NoConn = NoConn
  NoGame = NoGame
  NoEntry = NoEntry
  MaxPlayers = {}
  HeroBlobs = {TRUE, FALSE}
  MovingConns = {c1}
  Talkers = {}
  CreateNpj = {}
  CreateStatus = {}
  Retries = {}
INVARIANTS
  WhereaboutsAgree
  TownCapacity
  HeroesMatch
PROPERTIES
  PositionsAnnounced
CHECK_DEADLOCK FALSE
