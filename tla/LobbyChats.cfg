SPECIFICATION Spec
CONSTANTS
  Conns = {c1, c2, c3}
  Channels = {t1, t2}
  NoChannel = NoChannel
  MaxUser = 3
  DefaultChats = {"main"}
  MainChat = "main"
  ChatNames = {"x", "y", "z"}
  ChatObjs = {o1, o2, o3, o4}
  NoChat = NoChat
  Passwords = {"open", "pw"}
  NoPassword = "open"
  MaxChat = 3
  GameNames = {}
  EmptyName = ""
  NoName = NoName
  NoConn = NoConn
  NoGame = NoGame
  NoEntry = NoEntry
  MaxPlayers = {}
  HeroBlobs = {}
  MovingConns = {}
  Talkers = {c1, c2, c3}
  CreateNpj = {}
  CreateStatus = {}
  Retries = {}
SYMMETRY Symmetry
INVARIANTS
  ChatMembership
  ChattersMatch
  ChatListExact
  ChatRegistry
CHECK_DEADLOCK FALSE
