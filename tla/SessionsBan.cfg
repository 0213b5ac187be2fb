SPECIFICATION Spec
CONSTANTS
  Conns = {c1, c2}
  Names = {n1, n2}
  Serials = {s1, s2}
  NoConn = NoConn
  NoName = NoName
  NoSerial = NoSerial
  MaxUserId = 1
  AutoRegister = TRUE
  AllowAnyLogin = FALSE
  BindSerial = TRUE
  AllowRegistration = TRUE
  MaxOps = 1
  AdminOps = {"ban"}
PROPERTY BanDisconnects
CHECK_DEADLOCK FALSE
