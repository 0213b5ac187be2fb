# TLA+ models of TW1MP

TW1MP is a multiplayer server for the game Two Worlds: a TCP lobby server
(`tw1mp/`), a web and a desktop administration panel, an admin bot, and a
replacement of Microsoft's DirectPlay library (`directplay-replace/`) over which
the games themselves run.  This directory holds the specifications of the parts
whose correctness depends on the order of events, the TLC configurations that
check them on small instances and the proofs TLAPS checks for instances of any
size.

## The system

| Part | State | Operations | Hard because |
|---|---|---|---|
| Towns (`lobby.py` `GameChannel`, `User`) | members, request queue, dirty flag; per player: town, requested town, hero data, position flag | request, join, leave, hero data, position, disconnect, service tick | requests and members share a limit; a step may give something up and then be declined |
| Chats (`ChatChannel`) | objects with members, a registry by name per town | join, create, leave | players hold objects, the town holds names |
| Games (`GameEntry`) | reserved names, games with host, players, status | reserve, create, join, start, stop | lists may hold a player twice; who is told what |
| Sessions (`server.py`) | `activeUsers`, reservations, kick flags, user ids, bans | login, register, kick, ban, disconnect, shutdown | slow credential checks outside the lock |
| Message distribution (`MessageDistributor`) | one queue, one more per connection, direct replies | add, fan out, flush | two ways to a client, not ordered with each other |
| Player data, accounts, slots (`database.py`, `commands.py`, `web.py`, `gui.py`, `savegame.py`) | original and modified files, save slots, a flag per connection, rows | fetch, save, edit, import, activate, delete | several writers, decisions used later, row ids used again |
| Guilds (`database.py`, `commands.py`, `web.py`) | guilds, memberships, founding dialogs | found, join, leave, delete | several database steps per command |
| Admin bot (`adminbot.py`) | a client of its own in a thread | follow, greet, answer | its view of the lobby is always late |
| Panel, tray, downloads (`gui.py`, `tray.py`, `savegame.py`) | the server object, its thread, the tray's icon, a queue of calls for the window's thread | start, stop, restart, quit, download a character | one thread waits for another that waits for a third; results of other threads arrive meanwhile |
| Peer-to-peer link (`dpnetreplace.cpp` `ReplPeer`) | sequence numbers, unacknowledged and reordered packets, peer flag and address | connect, accept, send, acknowledge, retransmit, keep-alive, drop, close | loss, duplication, reordering, packets of an earlier session |
| Worker and network threads (`dpnetreplace.cpp`) | job queue, stop flags, payloads lent to the game | enqueue, dispatch, stop, release | a handler may close the object whose thread it runs on |

How they interact.  Every connection has a thread; its handler runs a command
under `GameState.lock` from the first read to the last write, so for the lobby
state one command is one atomic step, and the steps of all connections
interleave.  Only blobs are read, and the database is asked, outside that lock:
each hold of the database lock is a step of its own.  What other clients
must learn is put into the distributor's queue inside the locked section and
delivered by another thread; the answer to the client itself is written to its
socket directly.  The service thread announces positions every second.  The web
panel, the desktop panel and the bot call the same methods from their own
threads.  The games talk peer to peer and meet the lobby only through the
address in `/creategame`.

## Modules

| Module | Models | State and actions in the code |
|---|---|---|
| `Towns`, `Chats`, `Games` | `GameChannel`, `ChatChannel`, `GameEntry` | lists and the player's record under the names of the attributes; `heroes`, `listing`, `roster`, `departed` are what a client draws and lists |
| `Lobby` | the command handlers, on all three | one action per command, `Disconnect` for the end of a connection, `UpdatePos` for the service tick |
| `NameRegistry` | abstract: a name is played by one connection and passes on only when free | |
| `Sessions` | `ConnectionHandler`, `CoreServer.kick/broadcast/handle_signal`, the distributor, `login`, `register` and bans of the database | `at[c]` is where the thread of a connection is; `activeUsers`, `usedUids`, `sQueue`, `cQueue` have the code's names, `attempt` is `_reserved`, `kicked` is `_kick` |
| `PlayerData` | `database.py` files, slots and accounts; their use by the game's commands, the dashboard and the panel | `original`, `modded`, `snapshots` are the files of a row, `hero` the characters a game has by form, `asking` a `/getplayerdata` between its three steps and the form last fetched, `editing` an edit that has read and not yet stored, `activating` and `deleting` an open dialog of the panel |
| `Guilds` | the guild tables, commands and dashboard actions | `cmd[n]` is the guild command of a player between two database steps or before its answer is sent, `told` the last answer |
| `AdminBot` | `adminbot.py` and its session in the server | `at` is where the thread is, `pipe` what it sent and the server has not taken |
| `Panel` | `ServerController`, the window's thread, the tray, downloads, the server's thread, around `AdminBot` | `ui` is where the window's thread is, `calls` is `callq`, `label` is the tray's `_running`, `hasTray` is `has_tray`, `fetching` counts the threads of `fetch_character` |
| `GuaranteedDelivery` | abstract: what a guaranteed send promises | `sent` by a game, `got` by the other one, in order, once |
| `ReliableLink` | one session of the link | `hasPeer`, `rSeqOut`, `unacked`, `rSeqInExpected`, `reorder` are the members `m_...` of those names; `wire` is UDP |
| `PeerSession` | host and joiner objects over several sessions, on `ReliableLink` | `opened`, `peerAddr`, `silence` (age of `m_lastRecvMs`), `sending` (a `SendTo` that has read `m_hasPeer`), `remote` (players the game was told of) |
| `PeerThreads` | the threads of one `ReplPeer` object | `queue`, `stop`, `netStop`, `hasPeer` are the members of those names, `worker` and `net` where the threads are, `call` the call each thread of the game is in, `buffer` where each payload is |
| `MC...` | instances for TLC: symmetry, fairness of the tick | |
| `LobbyProofs` (towns and games), `LobbyChatProofs`, `ReliableLinkProofs`, `PeerSessionProofs`, `SessionsProofs`, `GuildsProofs`, `PlayerDataProofs`, `PeerThreadsProofs` | | theorems |

Lobby.  A message to other clients takes effect at its receivers in the step that
sends it: the distributor is one first-in-first-out queue filled under the lock,
so this is the state each client reaches when it has read what was sent.
`JoinChat` and `CreateChat` are the two branches of `joinChat`;
`CreateGameFails` is `/creategame` with a number `int()` refuses: the exception
ends the connection's thread after the old game was left, and the connection is
`failed` until `finish` has run.  The game client is not in this repository.  The
models assume only what the code says of it: it keeps lists as it is told; it
manages the entry of a game it is or was in by itself (the server never echoes
such a message, `lobby.py:170-173`); it crashes on the removal of a game it does
not list (`lobby.py:212-214`).  Handlers check little, and a client may send any
command at any time; `Retries` names the commands sent although they are in force
already: `"start"`, `"game"` (joining while in a game), `"chat"` (picking one's own
chat).

A new chat is announced to everybody in the town but its creator
(`lobby.py:365-369`), who is told of it by the answer only; `chatMade` is the chats a
client knows of that way, kept apart because it depends on the game client whether they
are on its list.  `roster` is the players a browser shows for a listed game: `$gameuser`
adds one, for the whole town, `&gameuser` takes one off, for those outside the game
(`lobby.py:192-195`, `202-205`).  Names of games may be empty.  `stopGame` tests a
reservation for truth (`lobby.py:78`), so the empty one is not given up; `nameless` is
who has ever reserved it.

Sessions.  A locked section is one step.  `db.login` and `db.register` look at the
bans under one hold of the database lock and at the account under another, and
are two; an exception in either ends the thread with the name still reserved
(`Lost`, then `Finish`).  Passwords are right or wrong by choice.  The commands of a
player inside are those of `Lobby`; here they only make the loop of `_lobbyHandle` go
round, wait for a blob, or wait for the client to read their answer: `_lobbyHandle`
takes the timeout off the socket (`server.py:258`), so `sendall` of an answer (270), of
a queued message (248) and of the welcome packet (186) lasts as long as the client
likes (`AtClient`).  A connection object lives once; `gone` is final.

Player data.  A file is abstracted to whose it is (of the account that has the row
now, or of an earlier one) and whether the administrator edited it.  The panel is
one thread with modal dialogs (`PanelIdle`), except for the timer that imports a
finished download.  Each database call is one step; decisions that are made in one
and used in another are the point of the model.  The game has a character of each form
(`hero`) and saves any of them, wherever the last fetch, of whatever form, decided
(`use_modded`); `strayed` is the forms some session saved while another was the one
fetched last.

Guilds.  A command holds the database lock several times, and each hold is a step: what
is known, the founding, the membership, and for `/joinguild` the reading of the table
(`JoinReads`).  `/userguild` is sent afterwards without the lock (`Answer`), and the
dashboard may act between any two of them; `overruled` is the players whose membership
it changed after the answer to them was decided, none of whom is told.

Bot and panel.  The players are as far as the bot sees them: online, in a town.
Times are choices: a cool-down is over some time, a second of reading returns.
`Waits` is a session that does not come to a timeout of its socket.  `Drop` ends
the instance of the server; what a session that is left does afterwards belongs to
nobody.  The icon of the tray is there when the window is built, or comes too late, or
never (`TrayStarts`, with `TrayMenu` possible in each case): only in the first the
window tells it of the server, and hides on closing.  A download is one step
(`FetchThread`): it talks to another server and shares nothing until its result is
queued; which of its requests fails is a choice.  The import itself is in `PlayerData`.

Link.  `m_relLock` covers each read and change of the maps, and one net thread
handles packets and timers, so `SendDataToPeer`, `RetransmitTick` and each branch
of `HandlePacket` are single steps.  UDP is a set of packets: receiving leaves the
packet there (it may come again), losing takes it out.  Time is in the guards:
which unacknowledged messages are overdue is any non-empty set, and `silence`
counts keep-alive periods.  `SendTo` is two steps in `PeerSession`.  Best-effort
sends hold no state.  In `PeerThreads` a call is a step for each thing it does
under a lock or waits for; the event `m_wake` only shortens a wait.

`Hazards` names what an environment may do that breaks a property: packets that
outlive their session (`"delay"`) and sends that straddle two (`"straddle"`) in
`PeerSession`; a handler that goes on sending during a close (`"chain"`) in
`PeerThreads`; the slots of a deleted account (`"leftover"`) and a deletion during
an edit of the dashboard (`"overtaken"`) in `PlayerData`.  The runs leave them out;
what happens with them is under Findings.

## Runs

| Run | Instance | Shows |
|---|---|---|
| `LobbyTowns` | 3 connections, 2 towns of 2 places, one player who walks, fair tick | lists and records agree (`WhereaboutsAgree`), promised places count (`TownCapacity`), clients draw exactly who is there (`HeroesMatch`), a move is announced or its player leaves (`PositionsAnnounced`) |
| `LobbyChats` | 3 connections, 2 towns of at most 3 chats, three player-made names, 4 objects, password or none | `ChatMembership`, `ChattersMatch`, `ChatListExact`; the default chats stay and a chat is registered exactly while it has members (`ChatRegistry`) |
| `LobbyGamesOpen` | 2 connections, two game names, one of them empty, 2 places, games that take players while they run, players who join twice | lists and records agree, running or not (`GameMembership`); a reserved name is let go with its player, the empty one apart (`ReservationsOwned`) |
| `LobbyGamesClosed` | 3 connections, one name, games that take players while they run or do not, waiting or running from the start | `NoGhostPlayers`, `ClientsSurvive`; browsers of host, player and outsider at once show the right games (`BrowsersMatch`) and the right players of them (`RostersMatch`) |
| `Sessions` | 2 connections, 2 names, 2 keys, one user id in the range, one operation of the admin, automatic registration | `NamesOwned` and `NamesPassedOn` (the refinement of `NameRegistry`): a name has one player and does not stay locked; `UidsOwned` also above the range; `BannedStayOut`; a kick ends the session (`KickEnds`) and a broadcast arrives (`BroadcastArrives`), unless the client keeps its thread waiting |
| `SessionsBan` | the same with bans only | ends with a counterexample of `BanDisconnects`: finding 1 |
| `PlayerData` | 2 accounts, 2 rows, 2 slots of which one is in use at a time, one form that is saved and edited and one that is only fetched; one account is played and administered, the other comes and goes | every file, slot and session keeps its type while rows change hands (`TypeOK`); an edited character never becomes an original or a slot while forms are saved before another is fetched (`OriginalUntouched`); no account has a file of an earlier one (`NothingInherited`) |
| `Guilds` | 2 players, 2 guilds, commands step by step beside the dashboard | `MembersHaveGuild`; a player's last answer is what the table says unless the dashboard interfered (`MembersKnow`) |
| `Panel` | one player, 2 towns of 2 places, one kick of the bot, one call queued or to be queued by a download, icon in the tray or not | stopping ends although the threads wait for each other (`StopEnds`); the bot ends with it (`BotEnds`) and otherwise comes to the players' town and stays (`BotFollows`) |
| `LinkDelivery` | one sender, 3 messages of 2 values, window 1, 1 retry, fair timer | what is acknowledged is kept (`AckMeansKept`); every step is one of `GuaranteedDelivery` or invisible to it (`InOrderDelivery`); a message arrives or a peer is lost (`SendResolved`) |
| `SessionReconnect` | host, two joiner objects, 2 messages, any number of refused knocks, fair timers | the second session starts from nothing (`SessionClean`, `SessionInOrder`), players are announced once (`PlayersAnnounced`), a half-open session ends unless somebody knocks for ever (`HalfOpenEnds`) |
| `PeerThreads` | a queue of 3, 2 payloads, host or joiner, closed by the game's thread, the handler or both | players are created and destroyed in order (`PlayersTold`), no thread outlives a close or the object (`ThreadsEnd`), each payload is freed once (`BuffersFreed`), every close returns (`CloseReturns`) |

Every module has a type invariant (`TypeOK`, `SessionTypeOK`), which states the range of
its variables.  `PlayerData` checks it in its run, because rows there change hands with
things under way; the proofs use those of the link, the guilds and the sessions as part of
their invariants.  `InOrder`, `WindowBound` and `OneAccountPerSerial` are proved for every
size and checked by no run.

Bounds.  In the lobby a connection logs in once; the next login of the same player
is another member of `Conns`.  Two towns suffice for every order of leaving one and
entering another, one default chat stands for the three of `DEFAULT_CHATS`, which
differ by name only.  Four chat objects for three players never block a creation:
the cap of the town does.  Sets of inputs that a run leaves empty switch a feature
off.  Two connections in `Sessions` are two rivals for a name, or a player and the
next session of the player; with one id in the range the second player is above
it.  One operation of the admin is enough for each to happen at any point of any
session; a ban is three steps of that one operation.  In `PlayerData` two names and two
rows give deletion, the use of a row by another account, and company for the
player who is alone; forms share nothing but `use_modded`, so beside the form that is
saved and edited (`Kept`) one that is only fetched is enough to change the flag under
it; one slot in use (`MaxSlots`) is enough, since slots meet only in `SgRename`, which
needs the other one free.  `Panel` with one player has every way a place in a town is
taken by a player or the bot, and one call is enough for each kind to come in at any
point of a stop, a restart or a question.  `PeerThreads`:
three places in the queue hold an arrival with what was sent before it; two
payloads let one be returned while the next is handed over.  For the link,
`RELIABLE_MAX_RETRIES` is 1 instead of 40 and `RECV_WINDOW` 1 instead of 256: the
code only compares with them, and both are reached and exceeded.  Sequence numbers
are naturals: 2^32 guaranteed messages in one session are out of a game's reach.

Deadlock is checked in `Panel` and `PeerThreads`, where something can always go on.
In the other runs the instance is over when every connection has come and gone or
all messages are sent.

Fairness.  `LobbyTowns`: only `UpdatePos`, which `serve_forever` calls every second.
`Sessions`: each connection's own steps and the distributor, which are loops of
threads; nothing is assumed of clients, admins and the network.  A client need not even
read: sends and blobs are steps of the client, without fairness, since after
`server.py:258` neither has a timeout, so `KickEnds` and `BroadcastArrives` except a
session that waits for its client from some time on (`[]AtClient(c)`).  `Panel`: the loops of the threads, the
timeouts in them, the server's reading of what the bot sent, and the socket timeout
of a session that is idle; nothing of the user and the players.  `LinkDelivery` and
`SessionReconnect`: the timers of the net thread, which runs at least every 200 ms; the
network may lose every packet, and a joiner whose connection is refused may try again
without end (`Knock`): `HalfOpenEnds` excepts the host that hears such knocks for ever,
each of which it takes for a sign of life.  `PeerThreads`: the two threads, the return of the
game's handler, and calls that can go on.

## Findings

1. `SessionsBan`: a ban by the panel stores name and key and then calls
   `ServerController.kick` with a reason, which takes none (`gui.py:604`, `375`).
   The call raises; the banned player stays connected, against "banned (username +
   serial key) and disconnected" (`gui.py:606`).  A ban by the dashboard works.

The modules also state properties a document or comment promises and the code does
not keep.  No run checks them; each ends with a counterexample when its
configuration names it (and sets the constant mentioned).

Sessions and lobby
- `ShutdownNotified` (`Sessions`): the closing flag is set before the notice is
  queued (`server.py:460`), so sessions drop their players without the
  "player notification" of the README (`README.md:39`).
- `KickNoticed`: notice and flag can both be set between the flush and the look at
  the flag; the player is dropped unnoticed (`server.py:246` says it is flushed).
- `ChatRegistry` (`LobbyChats` with `"chat"` in `Retries`): picking the
  player-made chat one is alone in removes it from the town with its member inside
  (`lobby.py:114`, against `lobby.py:140-141`).
- `NoGhostPlayers` (`LobbyGamesClosed`, `"game"` in `Retries`): joining a game while
  in one leaves a ghost on the first list (`lobby.py:189`).
- `ClientsSurvive` (`"start"` in `Retries`): a second `/startinggame` removes the
  game from the clients' lists a second time (`lobby.py:222`, against `212-214`).
- `NoNameLocked` (`LobbyGamesOpen`): `/requestcreategame` takes the empty name
  (`commands.py:329`) and `stopGame` does not give it up (`lobby.py:78`); it stays
  locked when its owner leaves the town, against the purpose of `lobby.py:77-80`.  A
  name the player then wishes for beside it can stay locked in the same way.
- `KickAlwaysEnds` (`Sessions`): a player whose client reads nothing, or sends no
  blob, stays although kicked (`server.py:248`, `270`, `117`, against "Drop a connected
  player", `server.py:382`).
- Seen while modelling, not stated as a property: `$gameuser` goes to the players of a
  game that takes players while it runs too (`lobby.py:193`, against `202-203`).

Player data and guilds
- `OriginalAlwaysUntouched` (`PlayerData`): a game alone on the server fetches an edited
  form, then another form without a variant, and saves the first: the edited character
  is stored as the original (`commands.py:289`, `295-302`), against "a later save can
  never overwrite the original" (`commands.py:281-282`).
- `SlotsGoToo` (`PlayerData`): `delete_user` leaves `snapshots/<rowid>/`, though the
  dialog says "ALL its saves" (`gui.py:1545`); the next account with the row lists the
  slots, and with `"leftover"` in `Hazards` activates one (`NothingInherited`).
- `NothingInherited` with `"overtaken"`: the dashboard reads a character, the panel
  deletes the account, the name registers again, and the edit is stored in the new
  account.
- `FoundedAsTold` (`Guilds`): a guild deleted between the two steps of
  `/createguild` is promised to its founder ("founding implies membership",
  `commands.py:163`).
- Seen while modelling, not stated as a property: the choice of the variant is made
  when the character is fetched, so a player who was alone then keeps the modified one
  after others join, where the item editor says the original is used "as soon as
  another player is online" (`gui.py:1933`); a variant reverted between
  `has_modded_playerdata` and `get_playerdata` serves an empty answer; guild
  memberships and bans are by name and stay when the account is deleted;
  `delete_account` asks whether the player is offline before its dialog, not after.

Bot and panel
- `DbOutlivesPlayers` (`Panel`): a session that waits for a blob is still there when
  the database is closed (against `gui.py:333-335`).
- `MenuObeyed`: while the window's thread stops the server, the tray still offers
  "Stop server"; the queued choice starts it again (`tray.py:305`, `gui.py:1199`).
- `OneDownload` (`MaxCalls = 2`): `_set_busy(False)` after a kick, a broadcast or an
  edit (`gui.py:585`, `560`, `1755`) also ends the lock of a download under way, and
  `fetch_character` starts a second one (`gui.py:1584`).
- `ArrivalGreeted`: a player the bot knows from the last town and finds in the next
  one is not greeted "on arrival" (`adminbot.py:303-312`) when the server takes the
  bot there before it has looked around.

DirectPlay replacement
- `SessionClean` (`PeerSession`, `"delay"`): packets carry no session and
  `HandlePacket` does not look at the sender's address; a message of the joiner before
  is message 0 of the next session (`dpnetreplace.cpp:840`, against `727-728`).  With
  `"straddle"` and `Senders = {Host}`: a `SendTo` that found a peer sends to the next
  one (`dpnetreplace.cpp:477`).
- `HalfOpenAlwaysEnds` (`PeerSession`): a host whose peer is gone without a BYE turns
  each new joiner away and counts the attempt as a sign of life of the old peer
  (`dpnetreplace.cpp:778`, `789`, against `883-885`), so joiners that go on trying keep it.
- `ConnectEnds`: `PKT_CONNECT` is sent once and no timer watches the attempt
  (`dpnetreplace.cpp:545`, against `571-572`).
- `FarewellGiven` (`PeerThreads`): the DESTROY_PLAYER that `Close` enqueues is never
  dispatched when the worker has just found the queue empty (`dpnetreplace.cpp:507`).
- `ReturnedFreed`: a payload returned before the worker has put it into `m_kept` is
  kept until `Close` (`dpnetreplace.cpp:1044-1047`).
- `CloseReturns` with `"chain"`: the worker looks at `m_stop` only when the queue is
  empty, so a handler that answers each message with a send keeps `Close` waiting
  (`dpnetreplace.cpp:941-945`).

## Proofs

All theorems hold for sets of any size and every value of the other constants, under
the named assumptions of the modules (`TownsAssumption`, `ChatsAssumption`,
`GamesAssumption`, `NoEntryAssumption`, `LobbyAssumption`,
`LinkAssumption`, `SessionsAssumption`, `GuildsAssumption`, `PlayerDataAssumption`,
`ThreadsAssumption`),
which only say that the null values are not members and limits are numbers.

`LobbyProofs`, towns: `WhereaboutsTheorem`, `CapacityTheorem` and `HeroesTheorem`.  `WhereaboutsAgree` is
inductive together with the types of the town variables; the key lemma,
`LeaveTownEffect`, says that `leaveChannel` removes the player from every list: from
its own town's by the code, from the others because the record said it is on none.
The capacity needs it to know that a join moves a player from one list to the other.
`HeroesMatch` is proved for one client and one other player at a time (`FigureRight`):
with `WhereaboutsAgree`, whom an announcement reaches is a matter of two records.

`LobbyChatProofs`: `ChatMembershipTheorem`, `ChatListTheorem`, `ChattersTheorem` and,
for clients that pick no chat they are in (`"chat" \notin Retries`),
`ChatRegistryTheorem`.  `ChatInv` adds to the membership
that a chat found in the registry carries that name and town and, when player-made, has
members (`Registers`); it speaks of the objects before and after a handler has made one
(`Prepared`) and moved the player (`Moves`), so that arriving, picking, creating and
leaving are one lemma, `MoveKeeps`.  `ChatsNamed`, a chat with members is found under
its name, needs the restriction: who enters the chat they are alone in unregisters it
first (`lobby.py:140-143`) and then stands in a chat nobody can find.  What the clients
show needs no restriction: `ListInv`, each client's list is the registry of its town
without the chats it made itself, is kept because a chat is unregistered and taken off
the lists of the town in one handler (`WithoutKeepsLists`); `CompanyInv` says of each pair of players that one lists
the other when their records name one chat.

`LobbyProofs`, games: `GameMembershipTheorem`, `ReservationsTheorem` and, for clients that
join no second game (`"game" \notin Retries`), `NoGhostTheorem`.  `GameInv` says that a
reserved name is not the name of a game, that the wish of a player and the reservation
of a name say the same in both directions, that nobody outside a town wishes or plays,
and that the player a record puts in a game is counted there; leaving a game
(`GamesWithout`) then empties it exactly when nobody else is counted.  The empty name
weakens it where the code does: a wish that outlives its stay is for the empty name
(`WishKnown`), and the direction from reservation to wish holds for owners who have
never reserved it (`nameless`).

`BrowsersTheorem` and `ClientsSurviveTheorem` share the invariant `BrowsersInv`: the two
above, `NoGhostPlayers`, and `BrowsersRight`: for each client and name the browser lists
only games of the client's town that take players (`OpenGames`), it lists or manages by
itself all of them, and manages the one the client plays.  All four are needed: a game
that empties is taken off the browsers of its town, so it must be known that nobody else
plays, and that nobody outside the town lists it.  They assume clients that join only
while in no game and start a closed game once (`"game"`, `"start"` not in `Retries`);
either repetition breaks them (see Findings), since `startingGame` withdraws the game
again.  `RostersTheorem` adds `RostersRight`, the players shown for each listed entry
against the records of all players: whom `GameEntry.remove` tells (`Told`) are, of a
game that is offered, exactly the clients that list it, and a listed game is open, of
the client's town and not the client's own (`BrowserShows`).

`SessionsProofs`:
- `NamesAreOwned`, `Spec => []NamesOwned`.  The invariant `NameInv` follows the
  reservation through the stages of a login: who waits for a decision holds the name
  and has no user (`Reservations`), who has a user holds it until `finish` (`Users`), and
  who holds a name is on the way in, inside or about to finish (`Holders`).
- `LobbyKeepsRegistry`, `Spec => NamesPassedOn`: `Enter` for `User.__init__`, `Leave`
  for a `finish` with a user, a stutter for everything else, by the same invariant.
- `BannedAreKeptOut`: bans are never taken back while the server runs, so a login
  barred at its start is refused at the ban check; `BarInv` says that one past the
  check was not barred.
- `KeysStayApart`: `register` compares and inserts under one hold of the lock.
- `UidsAreOwned`: the ids in use are bounded (`UidsBounded`), so the free id
  `acquire_uid` takes exists and is fresh (`FreshUid`) in the range and above it;
  least and greatest members are by well-founded induction on the numbers.

`GuildsProofs`: `MembersAlwaysHaveGuild` and `MembersKnowTheirGuild`.  `MembersHaveGuild`
is inductive with the types and with `CommandsKnown` (a command under way is about a
guild, not about none).  For `MembersKnow` the invariant follows a command from the
decision of its answer to its sending: an answer that is decided is what the table
says, a founded guild is there until it is joined, and every exception is in `overruled`.

`PlayerDataProofs`: `TypesHold` and `OriginalsStayUntouched`.  That no edited character
becomes an original is not inductive: the character travels.  The invariant adds that
of the form fetched last a game that does not play the variant has an unedited
character (`HeroesClean`; of the other forms it may have an edited one, and a save of
those is what `strayed` records), that
slots are unedited and so is a slot that is being activated (`ActivatingClean`); one
lemma per group of operations, `StoreClean` for the one way a file is written.

`NothingInheritedTheorem` (without `Hazards`): nor is what a game plays, an editor holds or
the panel activates of an earlier account (`HeroesOwn`, `EditsOwn`, `ActivatingOwn`).  A
session that outlives its account still plays the old character, but has no account to
save into, and the name plays for a new one only after a login, which starts with
nothing (`SessionsBegin`).
`RowsTheorem` is the fact the abstraction rests on, hazards or not: two accounts never
share a row, and a free row has no files; the new row is fresh because it is one above
the greatest in use, which exists by well-founded induction.

`PeerThreadsProofs`: `ThreadsEndTheorem`, `PlayersToldTheorem` and
`BuffersFreedTheorem`.  `ThreadInv` says that a thread that was
waited for has ended, that the handler runs on the worker only and never destroys the
object, and what a close has done by each of its stages (`StagesDone`).  `CallInv` says
which call may be at which stage.  For `PlayersTold`, `ToldInv` follows the course of each player: what the
game has seen, then what the job under way says, then the jobs of the queue in order,
is always create before destroy, once each (`Course`).  For `BuffersFreed`, `BufferInv`
counts: payloads are used in order, only the handler has one lent, the messages in the
queue are no more than the payloads not yet used (`EnoughLeft`), and with the object all
are freed.

`ReliableLinkProofs`: `InOrderTheorem`, `AckTheorem`, `WindowTheorem` and
`DeliveryTheorem`, the refinement of `GuaranteedDelivery`.  The invariant adds that
every copy of a message, on the wire, in `unacked` or in `reorder`, is the message the
sender's game sent under that number, that `rSeqOut` and `rSeqInExpected` are the
lengths of `sent` and `got` while the peer is there, and that an acknowledgement on the
wire stands for a message delivered or buffered.

`PeerSessionProofs`: `PlayersAnnouncedTheorem` holds with every hazard: the event and the
flag change in one step (`Announced`).  `SessionCleanTheorem` and
`SessionInOrderTheorem` assume `NoHazards`, that no packet outlives its session and no
session ends within a `SendTo`; the code guards against neither, and both break the two
properties (see Findings).  `SessionInv` says that while both are in one session, or the
joiner has yet to hear of it (`Linked`), the invariant of `ReliableLink` holds; that a
joiner that has not heard has nothing from before (`Waiting`), so a session starts clean
on both sides although they start it at different times; that what a peer keeps was sent in
its session (`Own`); and that nothing the host has sent is acknowledged before the
joiner has heard (`Unheard`).

What is left to TLC: liveness (`PositionsAnnounced`, `SendResolved`, `HalfOpenEnds`,
`KickEnds`, `BroadcastArrives`, `StopEnds`, `BotEnds`, `BotFollows`, `CloseReturns`),
which needs fairness and ENABLED and is beyond the installed provers; `Panel` has no
other property.  Every invariant, action property and refinement of a run is a theorem.

## Not modelled

- Byte formats (`protocol.py`, `chardata.py`, `gamelang.py`, the file layout in
  `savegame.py`), HTTP and widgets, installation scripts, the capture shim, the tools
  and the web site: they convert data or do I/O without state that others depend on.
- The order of lobby broadcasts against direct replies: which of the client's views a
  late message spoils depends on the game client.
- Lifting a ban, profile fields and new passwords: single writes.
- What the bot answers to chat, and the hero data it replays.  A bot thread that is late
  when its server is started again is replaced by the new one.  In `Panel` a server
  thread ends only when it is stopped (not by a port in use).
- `PeerThreads`: `Release` inside the handler, the use of an object after `Close`, and a
  second `Close`, which announces the player's end again.

## Plan

A model of the two ways to a client once the client's handling of late messages is
documented; two players in `Panel`; the lifting of bans in `Sessions`, under which
`BannedStayOut` has to speak of the bans at the end of a login.
