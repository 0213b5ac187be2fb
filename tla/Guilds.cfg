\* Two players and two guilds.
SPECIFICATION Spec
CONSTANTS
  a = a
  b = b
  g = g
  h = h
  Names = {a, b}
  GuildNames = {g, h}
  NoGuild = NoGuild
SYMMETRY Symmetric
INVARIANTS
  MembersHaveGuild
  MembersKnow
CHECK_DEADLOCK FALSE
