------------------------------ MODULE AdminBot ------------------------------
(***************************************************************************)
(* The admin bot (tw1mp/adminbot.py): a thread beside the server that logs *)
(* in like a player over a socket, follows the players from town to town   *)
(* and greets those it meets.  It reads where everybody is from the server *)
(* itself and acts through commands, which the server takes later, in      *)
(* order: what it read may be old by then.                                 *)
(*                                                                         *)
(* Towns, places in them and chat are those of Lobby, as far as the bot    *)
(* sees them.  What it answers to chat commands changes nothing.           *)
(***************************************************************************)
EXTENDS Naturals, Sequences, FiniteSets, SequencesExt

CONSTANTS
  Players, Towns, NoTown,
  FirstTown,   \* the town of config.maps[0]
  MaxUser,     \* places in a town, the bot's included
  MaxPipe,     \* bound: commands not taken yet when the bot begins a new round
  MaxKicks     \* bound: how often the bot is kicked

ASSUME BotAssumption ==
  /\ NoTown \notin Towns /\ FirstTown \in Towns
  /\ MaxUser \in Nat /\ MaxPipe \in Nat /\ MaxKicks \in Nat

VARIABLES
  server,      \* what the server's thread does (see Panel)
  online,      \* players in activeUsers, in the order of their logins
  town,        \* the town of each
  botIn,       \* the bot's session: out, in activeUsers, or there but cut off
  botTown,     \* its gamechannel
  at,          \* where the bot's thread is
  stopBot,     \* _stop
  sock,        \* the bot's socket is open
  pipe,        \* commands of the bot the server has not taken yet
  target,      \* where the bot is about to go
  known,       \* players it need not greet in its town
  cooled,      \* _JOIN_COOLDOWN_S have passed since _last_join
  kicks        \* how often it was kicked

lobbyVars == << online, town >>
sessionVars == << botIn, botTown, pipe >>
threadVars == << at, stopBot, sock, target, known, cooled >>
botVars == << sessionVars, threadVars, kicks >>

Leave == [do |-> "leave"]
Join(t) == [do |-> "join", town |-> t]
Commands == {Leave} \cup {Join(t) : t \in Towns}

BotTypeOK ==
  /\ server \in {"none", "serving", "ending", "joinBot", "ended", "closed"}
  /\ online \in Seq(Players) /\ IsInjective(online)
  /\ town \in [Players -> Towns \cup {NoTown}]
  /\ botIn \in {"out", "in", "cut"} /\ botTown \in Towns \cup {NoTown}
  /\ at \in {"top", "connect", "login", "recv", "go", "greet", "ended"}
  /\ stopBot \in BOOLEAN /\ sock \in BOOLEAN
  /\ pipe \in Seq(Commands)
  /\ target \in Towns \cup {NoTown}
  /\ known \subseteq Players /\ cooled \in BOOLEAN
  /\ kicks \in 0 .. MaxKicks

(* Before the first start there is no thread.                              *)
BotInit ==
  /\ botIn = "out" /\ botTown = NoTown /\ pipe = << >>
  /\ at = "ended" /\ stopBot = TRUE /\ sock = FALSE
  /\ target = NoTown /\ known = {} /\ cooled = TRUE
  /\ kicks = 0

-----------------------------------------------------------------------------
(* What the server knows.                                                  *)

Here(t) == {p \in Range(online) : town[p] = t}
Crowd(t) == Cardinality(Here(t))
Full(t) == Crowd(t) + (IF botTown = t THEN 1 ELSE 0) >= MaxUser

(* Counter.most_common(1): of towns with as many players, the one of the   *)
(* player who logged in first; without a player in a town, the first map.  *)
Target ==
  LET settled == SelectSeq(online, LAMBDA p : town[p] # NoTown)
      most(p) == \A t \in Towns : Crowd(t) <= Crowd(town[p])
  IN IF settled = << >> THEN FirstTown ELSE town[SelectSeq(settled, most)[1]]

-----------------------------------------------------------------------------
(* The players, as far as the bot sees them.                               *)

Move(p, t) ==
  /\ p \in Range(online) /\ t # town[p]
  /\ t # NoTown => ~Full(t)
  /\ town' = [town EXCEPT ![p] = t]
  /\ UNCHANGED << online, botVars >>

(* A session ends: disconnect takes the player out of its town.            *)
Departed(p) ==
  /\ online' = Remove(online, p)
  /\ town' = [town EXCEPT ![p] = NoTown]

-----------------------------------------------------------------------------
(* The server's session of the bot.                                        *)

TakeCommand ==
  /\ botIn # "out" /\ pipe # << >>
  /\ pipe' = Tail(pipe)
  /\ LET c == Head(pipe) IN
       \/ c.do = "leave" /\ botTown' = NoTown
       \/ /\ c.do = "join"
          /\ botTown' = IF Full(c.town) THEN NoTown ELSE c.town
  /\ UNCHANGED << lobbyVars, botIn, threadVars, kicks >>

(* The session ends: the socket was closed, or the admin kicks the bot.    *)
SessionOver ==
  /\ botIn' = "out" /\ botTown' = NoTown /\ pipe' = << >>

BotGone ==
  /\ botIn = "cut"
  /\ SessionOver
  /\ UNCHANGED << lobbyVars, threadVars, kicks >>

KickBot ==
  /\ botIn = "in" /\ kicks < MaxKicks
  /\ kicks' = kicks + 1
  /\ SessionOver
  /\ UNCHANGED << lobbyVars, threadVars >>

-----------------------------------------------------------------------------
(* The bot's thread.                                                       *)

(* _close_socket: what was sent may still arrive before the end does.      *)
CloseSocket ==
  /\ sock' = FALSE
  /\ botIn' = IF sock /\ botIn = "in" THEN "cut" ELSE botIn

Goes(place) == at' = place
Same == UNCHANGED << lobbyVars, stopBot, kicks >>

RunOn ==                                             \* only a session looks at _stop
  /\ at = "top"
  /\ Goes("connect")
  /\ UNCHANGED << sessionVars, sock, target, known, cooled >> /\ Same

(* _run: first the account is made sure of, later ten seconds pass; without *)
(* _stop, a session begins, with a socket of its own.  A server that does  *)
(* not listen refuses it.                                                  *)
Run ==
  /\ at = "top"
  /\ Goes(IF stopBot THEN "ended" ELSE "connect")
  /\ UNCHANGED << sessionVars, sock, target, known, cooled >> /\ Same

Connect ==
  /\ at = "connect"
  /\ IF server \in {"none", "closed"} THEN Goes("top") /\ UNCHANGED sock
                                      ELSE Goes("login") /\ sock' = TRUE
  /\ UNCHANGED << sessionVars, target, known, cooled >> /\ Same

(* _handshake and _login: the name may still be taken by the session of    *)
(* before.  A server that no longer accepts does not answer at all.        *)
Login ==
  /\ at = "login" /\ sock /\ server = "serving" /\ botIn = "out"
  /\ Goes("recv")
  /\ botIn' = "in" /\ botTown' = NoTown /\ pipe' = << >>
  /\ UNCHANGED << sock, target, known, cooled >> /\ Same

(* An exception anywhere in _session, or the end of its loop; the next one *)
(* begins with nobody known.                                               *)
SessionFails ==
  /\ \/ at = "login" /\ (~sock \/ botIn # "out" \/ server # "serving")
     \/ at \in {"recv", "go", "greet"} /\ (~sock \/ botIn # "in")
     \/ at = "recv" /\ stopBot
  /\ Goes("top") /\ CloseSocket
  /\ target' = NoTown /\ known' = {}
  /\ UNCHANGED << botTown, pipe, cooled >> /\ Same

Cool ==
  /\ ~cooled /\ cooled' = TRUE
  /\ UNCHANGED << lobbyVars, sessionVars, at, stopBot, sock, target, known, kicks >>

ShouldFollowOnce == botTown = NoTown /\ cooled         \* only out of no town
ShouldFollow == Target # botTown /\ cooled

(* A second of reading.  Chat commands among it are answered at once, over *)
(* the same socket: nothing changes, but the write fails with the session. *)
Consume == at = "recv" /\ sock /\ botIn = "in"

(* The loop of _lobby_loop: after _consume comes _follow_players, and then *)
(* _greet_arrivals.                                                        *)
Follow ==
  /\ Consume /\ ~stopBot
  /\ Len(pipe) <= MaxPipe
  /\ IF ShouldFollow THEN Goes("go") /\ target' = Target
                     ELSE Goes("greet") /\ UNCHANGED target
  /\ UNCHANGED << sessionVars, sock, known, cooled >> /\ Same

Go ==
  /\ at = "go" /\ sock /\ botIn = "in"
  /\ pipe' = pipe \o << Leave, Join(target) >>
  /\ cooled' = FALSE
  /\ Goes("greet") /\ target' = NoTown
  /\ UNCHANGED << botIn, botTown, sock, known >> /\ Same

(* Those here and not known are greeted, over the same socket: chat, which *)
(* the server passes on and does not keep.                                 *)
Greet ==
  /\ at = "greet" /\ sock /\ botIn = "in"
  /\ Goes("recv")
  /\ known' = IF botTown = NoTown THEN known ELSE Here(botTown)
  /\ UNCHANGED << sessionVars, sock, target, cooled >> /\ Same

(* start, on a new AdminBot, and stop, up to its wait for the thread.      *)
StartBot ==
  /\ at' = "top" /\ stopBot' = FALSE /\ sock' = FALSE
  /\ target' = NoTown /\ known' = {} /\ cooled' = TRUE

StopBot ==
  /\ stopBot' = TRUE
  /\ CloseSocket
  /\ UNCHANGED << botTown, pipe, at, target, known, cooled >>

BotThread == Run \/ Connect \/ Login \/ SessionFails \/ Follow \/ Go \/ Greet
=============================================================================
