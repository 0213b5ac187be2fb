SPECIFICATION Spec
CONSTANTS
  Conns = {c1, c2, c3}
  Channels = {t1}
  NoChannel = NoChannel
  MaxUser = 3
  DefaultChats = {"main"}
  MainChat = "main"
  ChatNames = {}
  ChatObjs = {}
  NoChat = NoChat
  Passwords = {"open"}
  NoPassword = "open"
  MaxChat = 1
  GameNames = {"g"}
  EmptyName = ""
  NoName = NoName
  NoConn = NoConn
  NoGame = NoGame
  NoEntry = NoEntry
  MaxPlayers = {2}
  HeroBlobs = {TRUE}
  MovingConns = {}
  Talkers = {}
  CreateNpj = {TRUE, FALSE}
  CreateStatus = {TRUE, FALSE}
  Retries = {}
SYMMETRY Symmetry
INVARIANTS
  NoGhostPlayers
  ClientsSurvive
  RostersMatch
  BrowsersMatch
CHECK_DEADLOCK FALSE
