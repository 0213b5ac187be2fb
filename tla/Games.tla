------------------------------- MODULE Games -------------------------------
(***************************************************************************)
(* Hosted games (class GameEntry, and requestCreateGame and createGame of  *)
(* GameChannel, tw1mp/lobby.py).  A name is reserved first and the game    *)
(* registered under it afterwards.  userlist is a list the same connection *)
(* may be on more than once, so it is kept as a bag: players[c] counts.    *)
(*                                                                         *)
(* `listing` is the client side: what the game browser of a client holds   *)
(* for a name.  The real client crashed on a removal of an entry it does   *)
(* not have, and manages the entry of a game it is in by itself.  `roster` *)
(* is whom the browser shows as the players of a listed game.              *)
(***************************************************************************)
EXTENDS Chats, Functions

CONSTANTS
  GameNames,   \* names a client may give to games
  EmptyName,   \* the empty name, false in Python like None
  NoName, NoConn, NoGame, NoEntry,   \* None
  MaxPlayers   \* values of maxplayers a client may ask for

ASSUME GamesAssumption ==
  /\ NoConn \notin Conns
  /\ NoName \notin GameNames \cup {EmptyName}
  /\ NoGame \notin Channels \X GameNames
  /\ MaxPlayers \subseteq Nat

VARIABLES
  requestedGame,  \* user.requestedGame
  game,           \* user.game, as << town, name >>
  gameRequests,   \* channel.gameRequests: name -> connection
  games,          \* channel.games: name -> entry
  listing,        \* client side: state of each name in the game browser
  roster,         \* client side: players shown for each listed game
  nameless        \* history: who has reserved the empty name

gameVars == << requestedGame, game, gameRequests, games, listing, roster, nameless >>

GameEntry ==
  [host : Conns, password : Passwords, npj : BOOLEAN, status : BOOLEAN,
   maxplayers : Nat, players : [Conns -> Nat]]

ASSUME NoEntryAssumption == NoEntry \notin GameEntry

Listings == {"none", "listed", "own", "removed", "crashed"}

GamesTypeOK ==
  /\ requestedGame \in [Conns -> GameNames \cup {NoName}]
  /\ game \in [Conns -> (Channels \X GameNames) \cup {NoGame}]
  /\ gameRequests \in [Channels -> [GameNames -> Conns \cup {NoConn}]]
  /\ games \in [Channels -> [GameNames -> GameEntry \cup {NoEntry}]]
  /\ listing \in [Conns -> [GameNames -> Listings]]
  /\ roster \in [Conns -> [GameNames -> SUBSET Conns]]
  /\ nameless \subseteq Conns

GamesInit ==
  /\ requestedGame = [c \in Conns |-> NoName]
  /\ game = [c \in Conns |-> NoGame]
  /\ gameRequests = [ch \in Channels |-> [n \in GameNames |-> NoConn]]
  /\ games = [ch \in Channels |-> [n \in GameNames |-> NoEntry]]
  /\ listing = [c \in Conns |-> [n \in GameNames |-> "none"]]
  /\ roster = [c \in Conns |-> [n \in GameNames |-> {}]]
  /\ nameless = {}

Entry(id) == games[id[1]][id[2]]

Playing(g) == {c \in Conns : g.players[c] > 0}

PlayerCount(g) == SumFunction(g.players)

Full(g) == PlayerCount(g) >= g.maxplayers

EntryWith(g, c) == [g EXCEPT !.players[c] = @ + 1]

(* getGameString returns None for a game that is running and closed.       *)
Closed(g) == g.status /\ ~g.npj

(***************************************************************************)
(* What a client makes of a $game and of a &game message.                  *)
(***************************************************************************)
Announced == [l \in Listings |-> IF l = "crashed" THEN l ELSE "listed"]
Withdrawn == [l \in Listings |->
                IF l \in {"none", "removed", "crashed"} THEN "crashed" ELSE "removed"]
Owned     == [l \in Listings |-> IF l = "crashed" THEN l ELSE "own"]

(* The browsers of the clients in `to` after a message about the name n.   *)
Browsers(lists, n, to, effect) ==
  [d \in Conns |-> IF d \in to THEN [lists[d] EXCEPT ![n] = effect[@]]
                   ELSE lists[d]]

(***************************************************************************)
(* Mutants of GameEntry.remove and stopGame: the player stays listed; a    *)
(* closed running game is withdrawn again; the game ends with its host;    *)
(* nobody is told; the reserved name is kept.                              *)
(***************************************************************************)
EntryKept(c) == Entry(game[c])

ToldAgain(left, c) == userlist[game[c][1]] \ (Playing(left) \cup {c})

GamesWithoutHost(c) ==
  IF game[c] = NoGame THEN games
  ELSE [games EXCEPT ![game[c][1]][game[c][2]] =
          IF @.host = c THEN NoEntry ELSE [@ EXCEPT !.players[c] = @ - 1]]

ToldNobody(left, c) == {}

RequestsKept(c) == gameRequests

(***************************************************************************)
(* GameEntry.remove for c's game, as a change of each variable.  Only      *)
(* members of the town outside the game are told, and nobody is told of a  *)
(* closed running game, which left every list when it started.             *)
(***************************************************************************)
EntryWithout(c) == [Entry(game[c]) EXCEPT !.players[c] = @ - 1]

Outsiders(g, ch) == userlist[ch] \ Playing(g)

Told(left, c) == IF Closed(left) THEN {} ELSE Outsiders(left, game[c][1]) \ {c}

GamesWithout(c) ==
  IF game[c] = NoGame THEN games
  ELSE LET left == EntryWithout(c)
       IN  [games EXCEPT ![game[c][1]][game[c][2]] =
              IF Playing(left) = {} THEN NoEntry ELSE left]

ListingWithout(c) ==
  IF game[c] = NoGame THEN listing
  ELSE LET left == EntryWithout(c)
       IN  IF Playing(left) # {} THEN listing
           ELSE Browsers(listing, game[c][2], Told(left, c), Withdrawn)

(* &gameuser names the player who left, and no game.                       *)
RosterWithout(c) ==
  IF game[c] = NoGame THEN roster
  ELSE LET left == EntryWithout(c)
       IN  IF Playing(left) = {} THEN roster
           ELSE [d \in Conns |-> IF d \in Told(left, c)
                                 THEN [n \in GameNames |-> roster[d][n] \ {c}]
                                 ELSE roster[d]]

(* The rosters of the entries that the browsers in `lists` offer.          *)
Offered(rosters, lists) ==
  [d \in Conns |-> [n \in GameNames |->
     IF lists[d][n] = "listed" THEN rosters[d][n] ELSE {}]]

(* User.stopGame also gives up a name reserved but not yet used, unless    *)
(* the name is empty: the test is for truth, not for None.                 *)
GivesUpName(c) == requestedGame[c] \notin {NoName, EmptyName} /\ InTown(c)

RequestsWithout(c) ==
  IF ~GivesUpName(c) THEN gameRequests
  ELSE [gameRequests EXCEPT ![gamechannel[c]][requestedGame[c]] = NoConn]

WishWithout(c) == IF GivesUpName(c) THEN NoName ELSE requestedGame[c]

(* enumGames: the browser of a client that enters the town ch.             *)
Enumerated(ch) ==
  [n \in GameNames |->
     IF games[ch][n] # NoEntry /\ ~Closed(games[ch][n]) THEN "listed" ELSE "none"]
=============================================================================
