------------------------------- MODULE Lobby -------------------------------
(***************************************************************************)
(* The lobby of the TW1MP server: the command handlers of                  *)
(* tw1mp/commands.py on the towns, chats and games of tw1mp/lobby.py.      *)
(*                                                                         *)
(* Every handler runs on the thread of its connection but under            *)
(* GameState.lock from its first read to its last write, so a handler is   *)
(* one step and the steps of all connections interleave.  Messages to      *)
(* other clients go through one FIFO queue (MessageDistributor); here a    *)
(* message takes effect at its receiver in the step that sends it.         *)
(***************************************************************************)
EXTENDS Games

CONSTANTS
  HeroBlobs,     \* inputs of /setuserherodata: is the blob non-empty?
  MovingConns,   \* connections whose player walks about
  Talkers,       \* connections whose player picks, creates and leaves chats
  CreateNpj,     \* inputs npj and status of /creategame
  CreateStatus,
  Retries        \* what a client may send although it is already in force:
                 \* "start", "game" (join one), "chat" (pick its own)

ASSUME LobbyAssumption ==
  /\ MovingConns \cup Talkers \subseteq Conns
  /\ HeroBlobs \subseteq BOOLEAN
  /\ CreateNpj \subseteq BOOLEAN
  /\ CreateStatus \subseteq BOOLEAN

vars == << townVars, chatVars, gameVars >>

TypeOK == TownsTypeOK /\ ChatsTypeOK /\ GamesTypeOK

Init == TownsInit /\ ChatsInit /\ GamesInit

-----------------------------------------------------------------------------
(* User.__init__, after the credentials were accepted.                     *)
Login(c) ==
  /\ status[c] = "new"
  /\ status' = [status EXCEPT ![c] = "online"]
  /\ UNCHANGED << gamechannel, requestedChannel, herodata, poschanged,
                  userlist, requested, dirty, heroes, departed,
                  chatVars, gameVars >>

(***************************************************************************)
(* GameChannel.leaveChannel: stop the game, leave the chat, leave the      *)
(* town.  A client outside every town keeps no lists.                      *)
(***************************************************************************)
LeaveTown(c) ==
  \/ /\ ~InTown(c)
     /\ UNCHANGED << gamechannel, userlist, heroes, departed, chatVars, gameVars >>
  \/ LET ch == gamechannel[c] IN
     /\ InTown(c)
     /\ games' = GamesWithout(c)
     /\ game' = [game EXCEPT ![c] = NoGame]
     /\ gameRequests' = RequestsWithout(c)
     /\ requestedGame' = [requestedGame EXCEPT ![c] = WishWithout(c)]
     /\ nameless' = nameless
     /\ listing' = [ListingWithout(c) EXCEPT ![c] = [n \in GameNames |->
                      IF @[n] = "crashed" THEN "crashed" ELSE "none"]]
     /\ roster' = [Offered(RosterWithout(c), listing') EXCEPT ![c] = [n \in GameNames |-> {}]]
     /\ LeaveChat(c)
     /\ chatters' = [ChattersWithout(c) EXCEPT ![c] = {}]
     /\ chatList' = [ChatListWithout(chatList, c) EXCEPT ![c] = {}]
     /\ chatMade' = [ChatListWithout(chatMade, c) EXCEPT ![c] = {}]
     /\ userlist' = [userlist EXCEPT ![ch] = @ \ {c}]
     /\ gamechannel' = [gamechannel EXCEPT ![c] = NoChannel]
     /\ heroes' = [HiddenFrom(heroes, {c}, userlist[ch]) EXCEPT ![c] = {}]
     /\ departed' = [departed EXCEPT ![c] = {}]

(* ConnectionHandler.finish and User.disconnect.  Any exception in a       *)
(* handler, a closed socket or a kick ends here.                           *)
Disconnect(c) ==
  /\ status[c] \in {"online", "failed"}
  /\ LeaveTown(c)
  /\ requested' = RequestedWithout(c)
  /\ requestedChannel' = [requestedChannel EXCEPT ![c] = NoChannel]
  /\ status' = [status EXCEPT ![c] = "gone"]
  /\ UNCHANGED << herodata, poschanged, dirty >>

(* /leavegamechannel *)
LeaveGameChannel(c) ==
  /\ Busy(c)
  /\ LeaveTown(c)
  /\ UNCHANGED << status, requestedChannel, herodata, poschanged, requested, dirty >>

(***************************************************************************)
(* /requestjoingamechannel: the old town and the old request are given up  *)
(* before it is known whether the new town has room.                       *)
(***************************************************************************)
RequestJoin(c, ch) ==
  LET queue == RequestedWithout(c)
      room  == HasRoom(userlist'[ch], queue[ch])
  IN  /\ Online(c)
      /\ LeaveTown(c)
      /\ requested' = [queue EXCEPT ![ch] = IF room THEN @ \cup {c} ELSE @]
      /\ requestedChannel' =
           [requestedChannel EXCEPT ![c] = IF room THEN ch ELSE NoChannel]
      /\ UNCHANGED << status, herodata, poschanged, dirty >>

(***************************************************************************)
(* /joingamechannel: from the queue into the town and its main chat.  The  *)
(* reply enumerates heroes, chats and games; the others see the newcomer.  *)
(***************************************************************************)
JoinGameChannel(c, ch) ==
  LET others == userlist[ch] IN
  /\ Online(c)
  /\ c \in requested[ch]
  /\ requested' = [requested EXCEPT ![ch] = @ \ {c}]
  /\ requestedChannel' = [requestedChannel EXCEPT ![c] = NoChannel]
  /\ userlist' = [userlist EXCEPT ![ch] = others \cup {c}]
  /\ gamechannel' = [gamechannel EXCEPT ![c] = ch]
  /\ heroes' = [ShownTo(heroes, c, IF herodata[c] THEN others ELSE {})
                  EXCEPT ![c] = {d \in others : herodata[d]}]
  /\ EnterChat(c, chatChannels[ch][MainChat], chatChannels, chatInfo,
               [chatList EXCEPT ![c] = Registered(chatChannels, ch)], chatMade)
  /\ listing' = [listing EXCEPT ![c] = [n \in GameNames |->
                   IF @[n] = "crashed" THEN "crashed" ELSE Enumerated(ch)[n]]]
  /\ roster' = Offered([roster EXCEPT ![c] = [n \in GameNames |->
                   IF games[ch][n] = NoEntry THEN {} ELSE Playing(games[ch][n])]], listing')
  /\ UNCHANGED << status, herodata, poschanged, dirty, departed,
                  requestedGame, game, gameRequests, games, nameless >>

-----------------------------------------------------------------------------
(* /joinchatchannel for a chat that exists: it is open or the password     *)
(* fits.                                                                   *)
JoinChat(c, n, pw) ==
  LET ch == gamechannel[c]
      o  == chatChannels[ch][n]
  IN  /\ Busy(c)
      /\ o # NoChat
      /\ chatInfo[o].password \in {NoPassword, pw}
      /\ chatchannel[c] = o => "chat" \in Retries
      /\ EnterChat(c, o, chatChannels, chatInfo, chatList, chatMade)
      /\ UNCHANGED << townVars, gameVars >>

(* /joinchatchannel with the create flag for a name that does not exist:   *)
(* everybody else in the town is sent the new chat.                        *)
CreateChat(c, n, pw) ==
  LET ch == gamechannel[c] IN
  /\ Busy(c)
  /\ chatChannels[ch][n] = NoChat
  /\ ChatRoom(ch)
  /\ \E o \in FreeObjs :
       EnterChat(c, o,
                 [chatChannels EXCEPT ![ch][n] = o],
                 [chatInfo EXCEPT ![o] = [parent |-> ch, name |-> n, password |-> pw]],
                 ShownTo(chatList, n, userlist[ch] \ {c}),
                 ShownTo(chatMade, n, {c}))
  /\ UNCHANGED << townVars, gameVars >>

(* /leavechatchannel *)
LeaveChatChannel(c) ==
  /\ Online(c)
  /\ chatchannel[c] # NoChat
  /\ LeaveChat(c)
  /\ chatters' = [ChattersWithout(c) EXCEPT ![c] = {}]
  /\ chatList' = ChatListWithout(chatList, c)
  /\ chatMade' = ChatListWithout(chatMade, c)
  /\ UNCHANGED << townVars, gameVars >>

-----------------------------------------------------------------------------
(* /setuserherodata: a non-empty blob is shown to the rest of the town.    *)
SetUserHeroData(c, blob) ==
  /\ Online(c)
  /\ herodata' = [herodata EXCEPT ![c] = blob]
  /\ heroes' = IF InTown(c) /\ blob
               THEN ShownTo(heroes, c, userlist[gamechannel[c]] \ {c})
               ELSE heroes
  /\ UNCHANGED << status, gamechannel, requestedChannel, poschanged, userlist,
                  requested, dirty, departed, chatVars, gameVars >>

(* /updheropos *)
UpdateHeroPos(c) ==
  /\ Busy(c)
  /\ dirty' = [dirty EXCEPT ![gamechannel[c]] = TRUE]
  /\ poschanged' = [poschanged EXCEPT ![c] = TRUE]
  /\ UNCHANGED << status, gamechannel, requestedChannel, herodata, userlist,
                  requested, heroes, departed, chatVars, gameVars >>

(* GameState.updatePos, called from service_actions every second.          *)
UpdatePos ==
  /\ \E ch \in Channels : dirty[ch]
  /\ dirty' = [ch \in Channels |-> FALSE]
  /\ poschanged' = [c \in Conns |->
       poschanged[c] /\ ~\E ch \in Channels : c \in Movers(ch)]
  /\ UNCHANGED << status, gamechannel, requestedChannel, herodata, userlist,
                  requested, heroes, departed, chatVars, gameVars >>

-----------------------------------------------------------------------------
(***************************************************************************)
(* /requestcreategame: whatever c had requested or was playing is given    *)
(* up first, also when the new name is then declined.                      *)
(***************************************************************************)
RequestCreateGame(c, n) ==
  LET ch   == gamechannel[c]
      reqs == RequestsWithout(c)
      free == reqs[ch][n] \in {NoConn, c} /\ games'[ch][n] = NoEntry
  IN  /\ Busy(c)
      /\ games' = GamesWithout(c)
      /\ listing' = ListingWithout(c)
      /\ game' = [game EXCEPT ![c] = NoGame]
      /\ gameRequests' = IF free THEN [reqs EXCEPT ![ch][n] = c] ELSE reqs
      /\ requestedGame' = [requestedGame EXCEPT ![c] = IF free THEN n ELSE WishWithout(c)]
      /\ roster' = Offered(RosterWithout(c), listing')
      /\ nameless' = IF free /\ n = EmptyName THEN nameless \cup {c} ELSE nameless
      /\ UNCHANGED << townVars, chatVars >>

(* GameChannel.createGame acts for the player who reserved the name.       *)
MayCreate(c, n) == Busy(c) /\ gameRequests[gamechannel[c]][n] = c

(* /creategame: GameEntry.__init__ leaves the current game, registers the  *)
(* new one and tells the town unless the game is closed from the start.    *)
CreateGame(c, n, pw, npj, st, mx) ==
  LET ch  == gamechannel[c]
      new == [host |-> c, password |-> pw, npj |-> npj, status |-> st,
              maxplayers |-> mx, players |-> [d \in Conns |-> IF d = c THEN 1 ELSE 0]]
      to  == IF Closed(new) THEN {} ELSE userlist[ch] \ {c}
  IN  /\ MayCreate(c, n)
      /\ games' = [GamesWithout(c) EXCEPT ![ch][n] = new]
      /\ game' = [game EXCEPT ![c] = << ch, n >>]
      /\ gameRequests' = [gameRequests EXCEPT ![ch][n] = NoConn]
      /\ requestedGame' = [requestedGame EXCEPT ![c] = NoName]
      /\ listing' = Browsers(Browsers(ListingWithout(c), n, to, Announced),
                             n, {c}, Owned)
      /\ roster' = Offered([d \in Conns |->
                             IF d \in to THEN [RosterWithout(c)[d] EXCEPT ![n] = {c}]
                             ELSE RosterWithout(c)[d]], listing')
      /\ UNCHANGED << nameless, townVars, chatVars >>

(* A number in /creategame that int() refuses: the old game is left, the   *)
(* exception ends the connection's thread, which has yet to clean up.      *)
CreateGameFails(c, n) ==
  /\ MayCreate(c, n)
  /\ games' = GamesWithout(c)
  /\ listing' = ListingWithout(c)
  /\ game' = [game EXCEPT ![c] = NoGame]
  /\ roster' = Offered(RosterWithout(c), listing')
  /\ status' = [status EXCEPT ![c] = "failed"]
  /\ UNCHANGED << requestedGame, nameless, gameRequests, gamechannel,
                  requestedChannel, herodata, poschanged, userlist, requested,
                  dirty, heroes, departed, chatVars >>

(* Mutant: only the players of the game are told of a new one.             *)
TellsPlayers(g, ch) == IF g.npj THEN Playing(g) ELSE {}

(* $gameuser goes to the town if the game takes players while it runs.     *)
JoinTold(g, ch) == IF g.npj THEN userlist[ch] ELSE {}

(* /joingame: the game c may already be in is not left.                    *)
JoinGame(c, n, pw) ==
  LET ch == gamechannel[c]
      g  == games[ch][n]
  IN  /\ Busy(c)
      /\ g # NoEntry
      /\ ~Full(g)
      /\ ~Closed(g)
      /\ g.password = pw
      /\ game[c] # NoGame => "game" \in Retries
      /\ games' = [games EXCEPT ![ch][n] = EntryWith(g, c)]
      /\ game' = [game EXCEPT ![c] = << ch, n >>]
      /\ listing' = Browsers(listing, n, {c}, Owned)
      /\ roster' = Offered([d \in Conns |->
                             IF d \in JoinTold(g, ch) \ {c}
                             THEN [roster[d] EXCEPT ![n] = @ \cup {c}]
                             ELSE roster[d]], listing')
      /\ UNCHANGED << requestedGame, gameRequests, nameless, townVars, chatVars >>

(* /stopgame and /leavegame *)
StopGame(c) ==
  /\ Online(c)
  /\ game[c] # NoGame
  /\ games' = GamesWithout(c)
  /\ listing' = ListingWithout(c)
  /\ game' = [game EXCEPT ![c] = NoGame]
  /\ roster' = Offered(RosterWithout(c), listing')
  /\ UNCHANGED << requestedGame, gameRequests, nameless, townVars, chatVars >>

(***************************************************************************)
(* /startinggame, effective for the host only: the players, and a game     *)
(* that takes no more of them, leave the lists of everybody outside it.    *)
(***************************************************************************)
StartingGame(c) ==
  LET ch == game[c][1]
      n  == game[c][2]
      g  == games[ch][n]
      to == Outsiders(g, ch)
  IN  /\ Online(c)
      /\ game[c] # NoGame
      /\ g.host = c
      /\ g.status => "start" \in Retries
      /\ games' = [games EXCEPT ![ch][n].status = TRUE]
      /\ heroes' = HiddenFrom(heroes, Playing(g), to)
      /\ chatters' = HiddenFrom(chatters, Playing(g), to)
      /\ departed' = [d \in Conns |-> IF d \in to THEN departed[d] \cup Playing(g)
                                      ELSE departed[d]]
      /\ listing' = IF g.npj THEN listing ELSE Browsers(listing, n, to, Withdrawn)
      /\ roster' = Offered(roster, listing')
      /\ UNCHANGED << status, gamechannel, requestedChannel, herodata, poschanged,
                      userlist, requested, dirty, chatchannel, chatUsers, chatInfo,
                      chatChannels, chatList, chatMade, requestedGame, game, gameRequests,
                      nameless >>

-----------------------------------------------------------------------------
TownStep(c) ==
  \/ Login(c)
  \/ Disconnect(c)
  \/ LeaveGameChannel(c)
  \/ \E ch \in Channels : RequestJoin(c, ch) \/ JoinGameChannel(c, ch)
  \/ \E blob \in HeroBlobs : SetUserHeroData(c, blob)
  \/ c \in MovingConns /\ UpdateHeroPos(c)

ChatStep(c) ==
  \/ \E n \in Names, pw \in Passwords : JoinChat(c, n, pw)
  \/ \E n \in ChatNames, pw \in Passwords : CreateChat(c, n, pw)
  \/ LeaveChatChannel(c)

GameStep(c) ==
  \/ \E n \in GameNames :
       \/ RequestCreateGame(c, n)
       \/ \E pw \in Passwords, npj \in CreateNpj, st \in CreateStatus, mx \in MaxPlayers :
            CreateGame(c, n, pw, npj, st, mx)
       \/ CreateGameFails(c, n)
       \/ \E pw \in Passwords : JoinGame(c, n, pw)
  \/ StopGame(c)
  \/ StartingGame(c)

Next ==
  \/ \E c \in Conns : TownStep(c) \/ (c \in Talkers /\ ChatStep(c)) \/ GameStep(c)
  \/ UpdatePos

Spec == Init /\ [][Next]_vars

-----------------------------------------------------------------------------
(***************************************************************************)
(* Towns                                                                   *)
(***************************************************************************)

(* The town's two lists and the two fields of the player's record agree    *)
(* after any sequence of requests, joins, declines and disconnects; nobody *)
(* waits for one town while in another, and a connection that is gone is   *)
(* on no list (lobby.py requestJoin, joinChannel, leaveChannel).           *)
WhereaboutsAgree ==
  /\ \A c \in Conns, ch \in Channels :
       /\ c \in userlist[ch] <=> gamechannel[c] = ch
       /\ c \in requested[ch] <=> requestedChannel[c] = ch
  /\ \A c \in Conns :
       /\ InTown(c) => requestedChannel[c] = NoChannel
       /\ status[c] \in {"new", "gone"} =>
            gamechannel[c] = NoChannel /\ requestedChannel[c] = NoChannel

(* A place promised by requestJoin counts: members and promised places     *)
(* together never exceed max_channel_users, so a promised join succeeds.   *)
TownCapacity ==
  \A ch \in Channels : Cardinality(userlist[ch]) + Cardinality(requested[ch]) <= MaxUser

(* A client draws figures of players in its town only, and of all of them  *)
(* who have hero data, except those it saw leave into a running game: the  *)
(* enumeration for a newcomer and the announcements of others that join,   *)
(* leave and disconnect leave neither a gap nor a ghost.                   *)
HeroesMatch ==
  /\ \A c \in Conns :
       heroes[c] \subseteq IF InTown(c) THEN userlist[gamechannel[c]] \ {c} ELSE {}
  /\ \A c, d \in Conns :
       (InTown(c) /\ d # c /\ gamechannel[d] = gamechannel[c] /\ herodata[d])
         => d \in heroes[c] \cup departed[c]

(* A player who has moved in a town is announced there by a later service  *)
(* tick, or leaves: the tick may not swallow a mover (dirty, poschanged).  *)
PositionsAnnounced ==
  \A c \in Conns, ch \in Channels :
    (gamechannel[c] = ch /\ poschanged[c] /\ dirty[ch])
      ~> (~poschanged[c] \/ gamechannel[c] # ch)

(***************************************************************************)
(* Chats                                                                   *)
(***************************************************************************)

(* A player is on the member list of exactly the chat the player's record  *)
(* names, and that chat is in the player's town.                           *)
ChatMembership ==
  \A c \in Conns :
    /\ \A o \in Chats : c \in chatUsers[o] <=> chatchannel[c] = o
    /\ chatchannel[c] # NoChat =>
         InTown(c) /\ chatInfo[chatchannel[c]].parent = gamechannel[c]

(* A chat with members is the one its name stands for, a player-made chat  *)
(* disappears once the last member leaves, and not before, and the chats   *)
(* of DEFAULT_CHATS stay, whatever objects of one name are made, left and  *)
(* made again (lobby.py:140-143).                                          *)
ChatRegistry ==
  /\ \A o \in Chats :
       chatUsers[o] # {} => chatChannels[chatInfo[o].parent][chatInfo[o].name] = o
  /\ \A ch \in Channels, n \in ChatNames :
       chatChannels[ch][n] # NoChat => chatUsers[chatChannels[ch][n]] # {}
  /\ \A ch \in Channels, n \in DefaultChats : chatChannels[ch][n] = << ch, n >>

(* The member list a client shows for its chat names members only, and all *)
(* of them but the players it saw leave into a running game.               *)
ChattersMatch ==
  \A c \in Conns :
    LET members == IF chatchannel[c] = NoChat THEN {} ELSE chatUsers[chatchannel[c]] \ {c}
    IN  chatters[c] \subseteq members /\ members \subseteq chatters[c] \cup departed[c]

(* What a client was sent of chats is the registry of its town: enumerated *)
(* on arrival, announced or withdrawn since; the one exception is a chat   *)
(* the client made itself, named to it by the answer only                  *)
(* (lobby.py:365-369) until the chat is withdrawn or the client leaves.    *)
ChatListExact ==
  \A c \in Conns :
    chatList[c] = (IF InTown(c) THEN Registered(chatChannels, gamechannel[c]) ELSE {})
                    \ chatMade[c]

(***************************************************************************)
(* Games                                                                   *)
(***************************************************************************)

(* The game a player's record names exists, is in the player's town and    *)
(* counts the player among its own; a game without players is gone.        *)
GameMembership ==
  /\ \A c \in Conns : game[c] # NoGame =>
       /\ gamechannel[c] = game[c][1]
       /\ Entry(game[c]) # NoEntry
       /\ Entry(game[c]).players[c] > 0
  /\ \A ch \in Channels, n \in GameNames :
       games[ch][n] # NoEntry => Playing(games[ch][n]) # {}

(* A game lists only players whose record names it, once each: otherwise   *)
(* the last one to leave does not empty it and it is advertised for ever   *)
(* (tests/test_integration.py:348 test_leave_game_removes_it).             *)
NoGhostPlayers ==
  \A ch \in Channels, n \in GameNames, c \in Conns :
    games[ch][n] # NoEntry =>
      games[ch][n].players[c] = IF game[c] = << ch, n >> THEN 1 ELSE 0

(* A reserved name is not the name of a game, and who wants a name has it  *)
(* reserved.  No name stays locked after its owner stopped, changed town   *)
(* or disconnected, unless the owner has ever reserved the empty name,     *)
(* which lobby.py:78 takes for no reservation: then it, and a name wished  *)
(* for beside it, may stay (NoNameLocked).                                 *)
ReservationsOwned ==
  \A ch \in Channels, n \in GameNames :
    /\ gameRequests[ch][n] # NoConn =>
         LET c == gameRequests[ch][n]
         IN  /\ games[ch][n] = NoEntry
             /\ (requestedGame[c] = n /\ gamechannel[c] = ch) \/ c \in nameless
    /\ \A c \in Conns :
         (requestedGame[c] = n /\ gamechannel[c] = ch /\ n # EmptyName)
           => gameRequests[ch][n] = c

(* Not so once the empty name is reserved: a reservation is given up with  *)
(* the stay of its owner (lobby.py:77-80, called by leaveChannel, 321-323).*)
NoNameLocked ==
  \A ch \in Channels, n \in GameNames :
    gameRequests[ch][n] # NoConn => gamechannel[gameRequests[ch][n]] = ch

(* No browser offers a game that is over or no longer takes players, and   *)
(* every game of the town that takes players is offered to every client    *)
(* there that is not and was not in it.                                    *)
BrowsersMatch ==
  \A c \in Conns, n \in GameNames :
    LET g == games[gamechannel[c]][n]
    IN  /\ listing[c][n] = "listed" =>
             InTown(c) /\ g # NoEntry /\ (Closed(g) => c \in Playing(g))
        /\ (InTown(c) /\ g # NoEntry) =>
             Closed(g) \/ c \in Playing(g) \/ listing[c][n] \in {"listed", "own", "crashed"}

(* No client is told to remove a game it does not list, which crashed the  *)
(* real client (lobby.py:212-214).                                         *)
ClientsSurvive ==
  \A c \in Conns, n \in GameNames : listing[c][n] # "crashed"

(* The players a browser shows for an offered game are in it, and for a    *)
(* game that takes players while it runs they are all there, although      *)
(* joins, leaves and games that end are told to three different sets of    *)
(* clients (lobby.py:192-195, 204-217) and a newcomer is told at once.     *)
RostersMatch ==
  \A c \in Conns, n \in GameNames :
    listing[c][n] = "listed" =>
      LET g == games[gamechannel[c]][n]
      IN  /\ roster[c][n] \subseteq Playing(g)
          /\ g.npj => roster[c][n] = Playing(g)

=============================================================================
