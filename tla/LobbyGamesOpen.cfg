SPECIFICATION Spec
CONSTANTS
  Conns = {c1, c2}
  Channels = {t1}
  NoChannel = NoChannel
  MaxUser = 3
  DefaultChats = {"main"}
  MainChat = "main"
  ChatNames = {}
  ChatObjs = {}
  NoChat = NoChat
  Passwords = {"open"}
  NoPassword = "open"
  MaxChat = 1
  GameNames = {"g", ""}
  EmptyName = ""
  NoName = NoName
  NoConn = NoConn
  NoGame = NoGame
  NoEntry = NoEntry
  MaxPlayers = {2}
  HeroBlobs = {}
  MovingConns = {}
  Talkers = {}
  CreateNpj = {TRUE}
  CreateStatus = {FALSE}
  Retries = {"game"}
SYMMETRY Symmetry
INVARIANTS
  GameMembership
  ReservationsOwned
CHECK_DEADLOCK FALSE
