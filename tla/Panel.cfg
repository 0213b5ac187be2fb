SPECIFICATION Spec
CONSTANTS
  Players = {p1}
  Towns = {a, b}
  NoTown = NoTown
  FirstTown = a
  MaxUser = 2
  MaxPipe = 0
  MaxKicks = 1
  MaxCalls = 1
PROPERTIES
  StopEnds
  BotEnds
  BotFollows
