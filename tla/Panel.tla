-------------------------------- MODULE Panel --------------------------------
(***************************************************************************)
(* The server panel around the server and its admin bot: ServerController  *)
(* (tw1mp/gui.py) starts and stops the server, whose thread starts and     *)
(* stops the bot (server.py); the tray icon (tray.py) queues what its menu *)
(* was asked for until the thread of the window has time, and so do the    *)
(* threads that download a character from another server (savegame.py).    *)
(*                                                                         *)
(* Stopping blocks that thread: it waits for the server's thread, then for *)
(* the players' sessions, which nobody joins, and closes the database.     *)
(***************************************************************************)
EXTENDS AdminBot

CONSTANT MaxCalls   \* bound: calls that are queued, and those downloads will queue

ASSUME PanelAssumption == MaxCalls \in Nat

VARIABLES
  closing,   \* server._is_closing
  waiting,   \* players in activeUsers whose session waits for a blob
  db,        \* the server's database is open
  ui,        \* where the window's thread is
  back,      \* where it returns to when the server has stopped
  calls,     \* callq: what the tray asked for, with the label it was asked by,
             \* and what downloads came to
  label,     \* what the tray believes of the server (_running)
  hasTray,   \* the icon was there when the window was built
  busy,      \* the window believes that a download is under way
  fetching   \* threads that download

trayVars == << label, hasTray >>
fetchVars == << busy, fetching >>
uiVars == << ui, back, calls, trayVars, fetchVars >>
serverVars == << server, closing, db >>
playerVars == << lobbyVars, waiting >>
vars == << playerVars, serverVars, uiVars, botVars >>

Running == server \notin {"none", "ended", "closed"}
Stopping == ui \in {"join", "drain", "close", "closeDb", "drop"}

TypeOK ==
  /\ BotTypeOK
  /\ closing \in BOOLEAN /\ db \in BOOLEAN
  /\ label \in BOOLEAN /\ hasTray \in BOOLEAN
  /\ busy \in BOOLEAN /\ fetching \in 0 .. MaxCalls
  /\ waiting \subseteq Range(online)
  /\ ui \in {"idle", "asks", "asksQueued", "asksImport", "restart", "gone",
             "join", "drain", "close", "closeDb", "drop"}
  /\ back \in {"idle", "asks", "restart", "gone"}
  /\ calls \in Seq({"start", "stop", "quit", "failed", "character"})

Init ==
  /\ BotInit
  /\ server = "none" /\ closing = FALSE /\ db = FALSE
  /\ online = << >> /\ town = [p \in Players |-> NoTown]
  /\ waiting = {}
  /\ ui = "idle" /\ back = "idle" /\ calls = << >>
  /\ label = FALSE /\ hasTray \in BOOLEAN
  /\ busy = FALSE /\ fetching = 0

-----------------------------------------------------------------------------
(* Starting and stopping: ServerController and the window's thread.        *)

(* The icon shows at once what it is told; one that came after its start   *)
(* was given up is told nothing.                                           *)
TrayUpdate(running) == label' = running

Refresh(running) ==
  /\ IF hasTray THEN TrayUpdate(running) ELSE UNCHANGED label
  /\ UNCHANGED hasTray

(* CoreServer binds and opens the database, its thread starts the bot.     *)
Start ==
  /\ server = "none"
  /\ server' = "serving" /\ closing' = FALSE /\ db' = TRUE
  /\ StartBot
  /\ Refresh(TRUE)
  /\ UNCHANGED << playerVars, sessionVars, kicks >>

Stop(then) ==
  /\ server # "none"
  /\ closing' = TRUE
  /\ ui' = "join" /\ back' = then
  /\ UNCHANGED << playerVars, server, db, trayVars, botVars >>

Toggle(here) ==
  \/ Running /\ Stop(here)
  \/ ~Running /\ Start /\ UNCHANGED << ui, back >>

ToggleServer == ui = "idle" /\ Toggle("idle") /\ UNCHANGED << calls, fetchVars >>

(* save_settings with a restart.                                           *)
Restart == ui = "idle" /\ Running /\ Stop("restart") /\ UNCHANGED << calls, fetchVars >>
Restarted ==
  ui = "restart" /\ Start /\ ui' = "idle" /\ UNCHANGED << back, calls, fetchVars >>

(* shutdown waits for the end of the serve loop, join for the thread's.    *)
UiWaits(stage, next) ==
  /\ ui = stage /\ ui' = next
  /\ UNCHANGED << playerVars, serverVars, back, calls, trayVars, fetchVars, botVars >>

Joined == server = "ended" /\ UiWaits("join", "drain")

(* Two seconds for the sessions: whoever comes to a recv timeout is gone.  *)
DrainedOfAll == online = << >> /\ botIn = "out" /\ UiWaits("drain", "close")  \* without a deadline
Drained == Range(online) \subseteq waiting /\ botIn = "out" /\ UiWaits("drain", "close")

ServerClose ==
  /\ ui = "close" /\ ui' = "closeDb" /\ server' = "closed"
  /\ UNCHANGED << playerVars, closing, db, back, calls, trayVars, fetchVars, botVars >>

DbClose ==
  /\ ui = "closeDb" /\ ui' = "drop" /\ db' = FALSE
  /\ UNCHANGED << playerVars, server, closing, back, calls, trayVars, fetchVars, botVars >>

(* The server object is dropped; sessions that are left belong to it.      *)
Drop ==
  /\ ui = "drop" /\ ui' = back /\ back' = "idle"
  /\ server' = "none" /\ Refresh(FALSE)
  /\ online' = << >> /\ town' = [p \in Players |-> NoTown]
  /\ waiting' = {}
  /\ UNCHANGED << closing, db, calls, fetchVars, botVars >>

UiThread ==
  Restarted \/ Joined \/ Drained \/ ServerClose \/ DbClose \/ Drop

-----------------------------------------------------------------------------
(* The server's thread: serve_forever, and what it does when that ends.    *)

ServeEnds ==
  /\ server = "serving" /\ ui = "join"
  /\ server' = "ending"
  /\ UNCHANGED << playerVars, closing, db, uiVars, botVars >>

BotStops ==
  /\ server = "ending" /\ server' = "joinBot"
  /\ StopBot
  /\ UNCHANGED << playerVars, closing, db, uiVars, kicks >>

(* bot.stop waits three seconds; a login without an answer takes longer.   *)
BotJoined ==
  /\ server = "joinBot"
  /\ at = "ended" \/ (at = "login" /\ sock)
  /\ server' = "ended"
  /\ UNCHANGED << playerVars, closing, db, uiVars, botVars >>

ServerThread == ServeEnds \/ BotStops \/ BotJoined

-----------------------------------------------------------------------------
(* Quitting, and callq: what other threads want done waits there for the   *)
(* window's thread.  While that asks whether to quit, it still runs them,  *)
(* unless it is one of them that asks.                                     *)

Elsewhere == UNCHANGED << playerVars, serverVars, botVars >>

RoomForCall == Len(calls) + fetching < MaxCalls

QuitApp(asking) ==
  /\ IF Running THEN ui' = asking /\ back' = ui ELSE ui' = "gone" /\ UNCHANGED back
  /\ UNCHANGED << trayVars, fetchVars >> /\ Elsewhere

(* on_close: with an icon in the tray, a server that runs is only hidden.  *)
Quit == ui = "idle" /\ ~(hasTray /\ Running) /\ QuitApp("asks") /\ UNCHANGED calls

Returns == ui' = back /\ back' = "idle"

Cancel == Returns /\ UNCHANGED << calls, trayVars, fetchVars >> /\ Elsewhere

Confirm ==
  /\ UNCHANGED << calls, fetchVars >>
  /\ \/ Stop("gone")
     \/ /\ server = "none" /\ ui' = "gone"
        /\ UNCHANGED << back, trayVars >> /\ Elsewhere

Answer == ui \in {"asks", "asksQueued"} /\ (Cancel \/ Confirm)

(* An icon may also come after start gave up its wait for it.              *)
TrayMenu ==
  /\ ui # "gone" /\ RoomForCall
  /\ \E c \in {IF label THEN "stop" ELSE "start", "quit"} : calls' = Append(calls, c)
  /\ UNCHANGED << ui, back, trayVars, fetchVars >> /\ Elsewhere

(* A download that brought a character is imported (see PlayerData), after *)
(* a question if a player of its name is online.                           *)
Fetched ==
  /\ \/ busy' = FALSE /\ UNCHANGED << ui, back >>
     \/ /\ Running /\ (online # << >> \/ botIn # "out")
        /\ ui' = "asksImport" /\ back' = ui /\ UNCHANGED busy
  /\ UNCHANGED << trayVars, fetching >> /\ Elsewhere

FetchFailed ==
  /\ busy' = FALSE
  /\ UNCHANGED << ui, back, trayVars, fetching >> /\ Elsewhere

AnswerImport ==
  /\ ui = "asksImport" /\ Returns /\ busy' = FALSE
  /\ UNCHANGED << calls, trayVars, fetching >> /\ Elsewhere

DrainCalls ==
  /\ ui \in {"idle", "asks"} /\ calls # << >>
  /\ calls' = Tail(calls)
  /\ \/ Head(calls) = "quit" /\ QuitApp("asksQueued")
     \/ Head(calls) \in {"start", "stop"} /\ Toggle(ui) /\ UNCHANGED fetchVars
     \/ Head(calls) = "character" /\ Fetched
     \/ Head(calls) = "failed" /\ FetchFailed

(* The thread of the icon makes its window and the icon, or fails; start   *)
(* waits five seconds to see which.                                        *)
TrayStarts == hasTray' \in BOOLEAN

(* The panel is started again; with the process its threads have ended.    *)
Launch ==
  /\ ui = "gone"
  /\ ui' = "idle" /\ back' = "idle" /\ calls' = << >>
  /\ label' = FALSE /\ TrayStarts
  /\ busy' = FALSE /\ fetching' = 0
  /\ at' = "ended" /\ stopBot' = TRUE /\ sock' = FALSE
  /\ UNCHANGED << playerVars, serverVars, sessionVars, target, known, cooled, kicks >>

-----------------------------------------------------------------------------
(* Downloads: fetch_character and the thread it starts.                    *)

FetchCharacter ==
  /\ ui = "idle" /\ ~busy /\ RoomForCall
  /\ busy' = TRUE /\ fetching' = fetching + 1
  /\ UNCHANGED << ui, back, calls, trayVars >> /\ Elsewhere

(* Whatever else the window does resets the flag when it is done, with the *)
(* download still under way.                                               *)
SetIdle ==
  /\ ui = "idle" /\ busy
  /\ busy' = FALSE
  /\ UNCHANGED << ui, back, calls, trayVars, fetching >> /\ Elsewhere

(* The key of the local install makes a hash for the handshake, if it is   *)
(* one; the game has stored a login there, if there ever was one.          *)
SerialKeys == {"missing", "wrong", "valid"}
StoredLogins == {"missing", "stored"}

(* What the other server is asked, one after the other.  It is not there,  *)
(* refuses, closes or falls silent: every read has a timeout.  To have no  *)
(* character for the account ends as a failure does.                       *)
Requests == << "connection", "clientInfo", "login", "getplayerdata" >>

Download(key, login, answered) ==
  IF key = "valid" /\ login = "stored" /\ answered = Len(Requests)
  THEN {"character", "failed"} ELSE {"failed"}

FetchThread ==
  /\ fetching > 0
  /\ fetching' = fetching - 1
  /\ \E key \in SerialKeys, login \in StoredLogins, answered \in 0 .. Len(Requests) :
       \E result \in Download(key, login, answered) : calls' = Append(calls, result)
  /\ UNCHANGED << ui, back, trayVars, busy >> /\ Elsewhere

-----------------------------------------------------------------------------
(* The players' sessions.                                                  *)

NoPanel == UNCHANGED << serverVars, uiVars, botVars >>

LogsIn(p) ==
  /\ server = "serving" /\ p \notin Range(online)
  /\ online' = Append(online, p)
  /\ UNCHANGED << town, waiting >> /\ NoPanel

Moves(p) ==
  /\ p \notin waiting
  /\ \E t \in Towns \cup {NoTown} : Move(p, t)
  /\ UNCHANGED << waiting, serverVars, uiVars >>

(* A session that does not come to a recv timeout: readBlob has none, and  *)
(* a client may send without a pause.  It matters from the stop on.        *)
Waits(p) ==
  /\ closing /\ p \in Range(online) \ waiting
  /\ waiting' = waiting \cup {p}
  /\ UNCHANGED lobbyVars /\ NoPanel

Disconnects(p) ==
  /\ p \in Range(online)
  /\ Departed(p) /\ waiting' = waiting \ {p}
  /\ NoPanel

(* The recv timeout at which the flag is seen.                             *)
SeesClosing(p) == closing /\ p \notin waiting /\ Disconnects(p)

-----------------------------------------------------------------------------
NotBot == UNCHANGED << waiting, serverVars, uiVars >>

Bot == BotThread /\ NotBot
BotSession == (TakeCommand \/ BotGone) /\ NotBot

Next ==
  \/ ToggleServer \/ Restart \/ UiThread \/ ServerThread
  \/ Quit \/ Answer \/ AnswerImport \/ TrayMenu \/ DrainCalls \/ Launch
  \/ FetchCharacter \/ SetIdle \/ FetchThread
  \/ \E p \in Players :
       \/ LogsIn(p) \/ Moves(p) \/ Waits(p) \/ Disconnects(p)
  \/ Bot \/ BotSession
  \/ (Cool \/ KickBot) /\ NotBot

(* The threads run, waits time out, the server takes what the bot sends,   *)
(* and an idle session comes to its next recv timeout.  Nothing is assumed *)
(* of the user, the players and sessions that wait.                        *)
Fairness ==
  /\ WF_vars(UiThread) /\ WF_vars(ServerThread)
  /\ WF_vars(Bot) /\ WF_vars(BotSession) /\ WF_vars(Cool /\ NotBot)
  /\ \A p \in Players : WF_vars(SeesClosing(p))

Spec == Init /\ [][Next]_vars /\ Fairness

-----------------------------------------------------------------------------
(* Stopping the server ends: neither a session that waits for ever nor a   *)
(* bot that is just connecting blocks the window.                          *)
StopEnds == Stopping ~> ~Stopping

(* A bot that was stopped ends, wherever it was, unless it is replaced.    *)
BotEnds == stopBot ~> at = "ended" \/ ~stopBot

(* While the server runs, the bot comes to the town most players are in,   *)
(* when it has room, and stays: after lost connections and commands that   *)
(* were overtaken by what the players did.                                 *)
BotFollows ==
  \A t \in Towns :
    <>[](server = "serving" /\ Target = t /\ Crowd(t) < MaxUser) => <>[](botTown = t)

(* Not so: players the bot comes to in a town are new to it, and greeted.  *)
(* One it knows from the town before, and who is there first, is not, when *)
(* the server takes the bot there before it has looked around again.       *)
ArrivalGreeted ==
  [][botTown' \notin {botTown, NoTown} => Here(botTown)' \cap known = {}]_vars

(* Not so: a download keeps others from starting.  What the window does    *)
(* meanwhile takes the flag back (fetch_character, _set_busy).             *)
OneDownload == fetching <= 1

(* Not so: the database is closed after the last session.  A session that  *)
(* waits is not waited for.                                                *)
DbOutlivesPlayers == server = "closed" /\ ~db => online = << >>

(* Not so: a choice of "Stop server" in the tray's menu starts no server.  *)
(* While the window's thread stops it, the menu offers to stop it again.   *)
MenuObeyed ==
  [][calls # << >> /\ Head(calls) = "stop" /\ calls' = Tail(calls)
       => ~(server = "none" /\ server' = "serving")]_vars
=============================================================================
