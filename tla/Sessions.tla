------------------------------ MODULE Sessions ------------------------------
(***************************************************************************)
(* Connections of the lobby server from the first packet to the end        *)
(* (ConnectionHandler and CoreServer, tw1mp/server.py; login, register and *)
(* bans of tw1mp/database.py): the reservation of a name before the slow   *)
(* credential check, automatic registration, kick, ban, user ids, admin    *)
(* messages through the distributor, the closing of the server.            *)
(*                                                                         *)
(* Each connection has a thread; at[c] is where it is.  A locked section   *)
(* is one step; so are db.is_banned and the rest of a database operation,  *)
(* which take the database lock one after the other.                       *)
(***************************************************************************)
EXTENDS Naturals, Sequences, FiniteSets, FiniteSetsExt

CONSTANTS
  Conns, Names, Serials,
  NoConn, NoName, NoSerial,   \* None
  MaxUserId,                  \* MAX_USER_ID
  AutoRegister, AllowAnyLogin, BindSerial, AllowRegistration,   \* Config.ini
  MaxOps,                     \* bound: operations of the admin
  AdminOps                    \* which of "kick", "ban", "broadcast", "close" happen

ASSUME SessionsAssumption ==
  /\ NoConn \notin Conns /\ NoName \notin Names /\ NoSerial \notin Serials
  /\ MaxUserId \in Nat \ {0} /\ MaxOps \in Nat 
  /\ AdminOps \subseteq {"kick", "ban", "broadcast", "close"}
  /\ {AutoRegister, AllowAnyLogin, BindSerial, AllowRegistration} \subseteq BOOLEAN

VARIABLES
  at,           \* where the thread of a connection is
  serial,       \* con.SK
  attempt,      \* the name of the login under way, con._reserved once reserved
  user,         \* con.user.name
  uid,          \* con.user.idnum
  kicked,       \* con._kick
  sQueue,       \* con._sQueue
  activeUsers,  \* state.activeUsers: name -> connection
  usedUids,     \* state._usedUids
  accounts,     \* userTable: name -> serial
  bans,         \* bannedTable: names and serials
  banning,      \* an add_ban sequence of the panel: step and account
  cQueue,       \* the distributor's queue
  closing,      \* how far handle_signal is
  ops,          \* operations of the admin so far
  told,         \* client side: admin messages received
  barred        \* for the properties: banned when the login under way began

dbVars == << accounts, bans >>
adminVars == << banning, closing, ops >>
vars == << at, serial, attempt, user, uid, kicked, sQueue, activeUsers, usedUids,
           dbVars, adminVars, cQueue, told, barred >>

Places == {"off", "packet", "login", "verify", "register", "create", "accepted",
           "retry", "welcome", "flush", "check", "poll", "send", "blob",
           "dropped", "closed", "lost", "gone"}

(* At these places a name is reserved and the outcome is open.             *)
Reserving == {"login", "verify", "register", "create", "accepted"}

(* At these places the connection has a user.                              *)
Inside == {"welcome", "flush", "check", "poll", "send", "blob", "dropped", "closed"}

(* The thread waits for its client, and without a timeout: in sendall for  *)
(* one that reads nothing, in readBlob for one that sends nothing.         *)
AtClient(c) ==
  at[c] \in {"welcome", "send", "blob"} \/ (at[c] = "flush" /\ sQueue[c] # << >>)

(* What a client is told; broadcasts of the panel are numbered.            *)
Messages == [kind : {"broadcast", "kick", "closing"}, no : 0 .. MaxOps]

KickNotice == [kind |-> "kick", no |-> 0]
ClosingNotice == [kind |-> "closing", no |-> 0]
Notice(k) == [kind |-> "broadcast", no |-> k]

NoBan == [step |-> "idle", name |-> NoName, by |-> "panel"]

TypeOK ==
  /\ at \in [Conns -> Places]
  /\ serial \in [Conns -> Serials \cup {NoSerial}]
  /\ attempt \in [Conns -> Names \cup {NoName}]
  /\ user \in [Conns -> Names \cup {NoName}]
  /\ uid \in [Conns -> Nat]
  /\ kicked \in [Conns -> BOOLEAN]
  /\ sQueue \in [Conns -> Seq(Messages)]
  /\ activeUsers \in [Names -> Conns \cup {NoConn}]
  /\ usedUids \subseteq Nat
  /\ accounts \in [Names -> Serials \cup {NoSerial}]
  /\ bans \subseteq Names \cup Serials
  /\ banning \in [step : {"idle", "serial", "kick"}, name : Names \cup {NoName},
                  by : {"panel", "dashboard"}]
  /\ cQueue \in Seq([message : Messages, target : SUBSET Conns])
  /\ closing \in {"no", "flag", "said"}
  /\ ops \in 0 .. MaxOps
  /\ told \in [Conns -> Seq(Messages)]
  /\ barred \in [Conns -> BOOLEAN]

Init ==
  /\ at = [c \in Conns |-> "off"]
  /\ serial = [c \in Conns |-> NoSerial]
  /\ attempt = [c \in Conns |-> NoName]
  /\ user = [c \in Conns |-> NoName]
  /\ uid = [c \in Conns |-> 0]
  /\ kicked = [c \in Conns |-> FALSE]
  /\ sQueue = [c \in Conns |-> << >>]
  /\ activeUsers = [n \in Names |-> NoConn]
  /\ usedUids = {}
  /\ accounts = [n \in Names |-> NoSerial]
  /\ bans = {}
  /\ banning = NoBan
  /\ cQueue = << >>
  /\ closing = "no"
  /\ ops = 0
  /\ told = [c \in Conns |-> << >>]
  /\ barred = [c \in Conns |-> FALSE]

-----------------------------------------------------------------------------
(* server._is_closing                                                      *)
isClosing == closing # "no"

Goto(c, place) == at' = [at EXCEPT ![c] = place]

(* Mutants: a name in use is reserved again; only keys are compared with   *)
(* the bans; a failed login keeps its name.                                *)
NameFreeForAll(n) == TRUE

KeyBanned(c) == serial[c] \in bans

ReleasedKept(c) == activeUsers

(* db.is_banned                                                            *)
IsBanned(c) == {attempt[c], serial[c]} \cap bans # {}

(* The error codes of db.login that depend on the account; a wrong         *)
(* password is the choice of the client.                                   *)
CredentialsFit(c) ==
  \/ AllowAnyLogin
  \/ accounts[attempt[c]] # NoSerial /\ (BindSerial => accounts[attempt[c]] = serial[c])

MayRegister(c) ==
  /\ accounts[attempt[c]] = NoSerial
  /\ BindSerial => \A n \in Names : accounts[n] # serial[c]

NameFree(n) == activeUsers[n] = NoConn

(* con._releaseName                                                        *)
Released(c) ==
  [n \in Names |-> IF n = attempt[c] /\ activeUsers[n] = c THEN NoConn ELSE activeUsers[n]]

(* User.disconnect: the entry is removed if it is this connection's.       *)
Freed(c) ==
  [n \in Names |-> IF n = user[c] /\ activeUsers[n] = c THEN NoConn ELSE activeUsers[n]]

(* state.acquire_uid: the smallest free id, above the range when it is     *)
(* used up.  Mutant: the last id of the range again.                       *)
UidInRange ==
  LET free == 1 .. MaxUserId \ usedUids
  IN  IF free # {} THEN Min(free) ELSE MaxUserId

FreeUid ==
  LET free == 1 .. MaxUserId \ usedUids
  IN  IF free # {} THEN Min(free) ELSE Max(usedUids) + 1

(* state.release_uid                                                       *)
UidsWithout(c) == usedUids \ {uid[c]}

-----------------------------------------------------------------------------
(* A client connects: setup, then its info packet with the key.            *)
Connect(c, s) ==
  /\ at[c] = "off"
  /\ ~isClosing
  /\ Goto(c, "packet")
  /\ serial' = [serial EXCEPT ![c] = s]
  /\ UNCHANGED << attempt, user, uid, kicked, sQueue, activeUsers, usedUids, dbVars,
                  adminVars, cQueue, told, barred >>

(* A login or register packet with a name and a password: _attemptLogin    *)
(* and _attemptRegister begin with _reserveName; a name in use is refused. *)
Reserve(c, n, place) ==
  /\ IF NameFree(n)
     THEN /\ activeUsers' = [activeUsers EXCEPT ![n] = c]
          /\ attempt' = [attempt EXCEPT ![c] = n]
          /\ barred' = [barred EXCEPT ![c] = {n, serial[c]} \cap bans # {}]
          /\ Goto(c, place)
     ELSE /\ attempt' = [attempt EXCEPT ![c] = NoName]
          /\ Goto(c, "packet")
          /\ UNCHANGED << activeUsers, barred >>
  /\ UNCHANGED << serial, user, uid, kicked, sQueue, usedUids, dbVars, adminVars,
                  cQueue, told >>

LoginPacket(c, n) == at[c] = "packet" /\ Reserve(c, n, "login")

RegisterPacket(c, n) == at[c] = "packet" /\ Reserve(c, n, "register")

(* auto_register: the failed login has given the name up already.          *)
AutoRegisters(c) == at[c] = "retry" /\ Reserve(c, attempt[c], "register")

(* An attempt failed: the name is given up, the client is told.            *)
Refuse(c, place) ==
  /\ activeUsers' = Released(c)
  /\ Goto(c, place)
  /\ attempt' = IF place = "retry" THEN attempt ELSE [attempt EXCEPT ![c] = NoName]
  /\ UNCHANGED << serial, user, uid, kicked, sQueue, usedUids, dbVars, adminVars,
                  cQueue, told, barred >>

Proceed(c, place) ==
  /\ Goto(c, place)
  /\ UNCHANGED << serial, attempt, user, uid, kicked, sQueue, activeUsers, usedUids,
                  bans, adminVars, cQueue, told, barred >>

(* db.login and db.register look at the bans first, register then at the   *)
(* registration lock,                                                      *)
BanCheck(c) ==
  /\ at[c] \in {"login", "register"}
  /\ IF IsBanned(c) \/ (at[c] = "register" /\ ~AllowRegistration)
     THEN Refuse(c, "packet")
     ELSE /\ Proceed(c, IF at[c] = "login" THEN "verify" ELSE "create")
          /\ UNCHANGED accounts

(* then at the account under another hold of the database lock.            *)
Verify(c) ==
  /\ at[c] = "verify"
  /\ \/ CredentialsFit(c) /\ Proceed(c, "accepted") /\ UNCHANGED accounts
     \/ ~AllowAnyLogin /\ Refuse(c, IF AutoRegister THEN "retry" ELSE "packet")

Create(c) ==
  /\ at[c] = "create"
  /\ IF MayRegister(c)
     THEN /\ Proceed(c, "accepted")
          /\ accounts' = [accounts EXCEPT ![attempt[c]] = serial[c]]
     ELSE Refuse(c, "packet")

(* User.__init__                                                           *)
Enter(c) ==
  /\ at[c] = "accepted"
  /\ user' = [user EXCEPT ![c] = attempt[c]]
  /\ uid' = [uid EXCEPT ![c] = FreeUid]
  /\ usedUids' = usedUids \cup {FreeUid}
  /\ Goto(c, "welcome")
  /\ UNCHANGED << serial, attempt, kicked, sQueue, activeUsers, dbVars, adminVars,
                  cQueue, told, barred >>

(* The client takes the welcome packet; _lobbyHandle registers the         *)
(* connection once more.                                                   *)
StartLobby(c) ==
  /\ at[c] = "welcome"
  /\ activeUsers' = [activeUsers EXCEPT ![user[c]] = c]
  /\ Goto(c, "flush")
  /\ UNCHANGED << serial, attempt, user, uid, kicked, sQueue, usedUids, dbVars,
                  adminVars, cQueue, told, barred >>

-----------------------------------------------------------------------------
(* The loop of _lobbyHandle: send what is queued, if the client reads it,  *)
Flush(c) ==
  /\ at[c] = "flush" /\ sQueue[c] # << >>
  /\ told' = [told EXCEPT ![c] = Append(@, Head(sQueue[c]))]
  /\ sQueue' = [sQueue EXCEPT ![c] = Tail(@)]
  /\ UNCHANGED << at, serial, attempt, user, uid, kicked, activeUsers, usedUids, dbVars,
                  adminVars, cQueue, barred >>

Flushed(c) ==
  /\ at[c] = "flush" /\ sQueue[c] = << >>
  /\ Proceed(c, "check")
  /\ UNCHANGED accounts

(* look at the flag; mutant: for ever on.                                  *)
CheckNothing(c) == at[c] = "check" /\ Proceed(c, "poll") /\ UNCHANGED accounts

CheckKick(c) ==
  /\ at[c] = "check"
  /\ Proceed(c, IF kicked[c] THEN "dropped" ELSE "poll")
  /\ UNCHANGED accounts

(* and wait a tenth of a second for commands.  Their effects are in the    *)
(* modules of the lobby; a command may need a blob, and its answer a       *)
(* client that reads: neither has a timeout.                               *)
Poll(c) ==
  /\ at[c] = "poll"
  /\ \/ isClosing /\ Proceed(c, "closed")
     \/ \E place \in {"flush", "send", "blob"} : Proceed(c, place)
  /\ UNCHANGED accounts

(* The client reads, or sends the blob, and more commands may be waiting.  *)
Resume(c) ==
  /\ at[c] \in {"send", "blob"}
  /\ \E place \in {"flush", "send", "blob"} : Proceed(c, place)
  /\ UNCHANGED accounts

(* The socket fails or is closed wherever the thread reads or writes, or   *)
(* db.login or db.register raises while the name is reserved.              *)
Lost(c) ==
  /\ at[c] \in {"packet", "login", "verify", "register", "create", "welcome", "flush",
                "poll", "send", "blob"}
  /\ Proceed(c, "lost")
  /\ UNCHANGED accounts

(* finish; the fields of a handler that is gone are read by nobody.        *)
Finish(c) ==
  /\ at[c] \in {"dropped", "closed", "lost"}
  /\ IF user[c] # NoName
     THEN activeUsers' = Freed(c) /\ usedUids' = UidsWithout(c)
     ELSE activeUsers' = Released(c) /\ UNCHANGED usedUids
  /\ Goto(c, "gone")
  /\ user' = [user EXCEPT ![c] = NoName]
  /\ attempt' = [attempt EXCEPT ![c] = NoName]
  /\ serial' = [serial EXCEPT ![c] = NoSerial]
  /\ uid' = [uid EXCEPT ![c] = 0]
  /\ kicked' = [kicked EXCEPT ![c] = FALSE]
  /\ sQueue' = [sQueue EXCEPT ![c] = << >>]
  /\ told' = [told EXCEPT ![c] = << >>]
  /\ barred' = [barred EXCEPT ![c] = FALSE]
  /\ UNCHANGED << dbVars, adminVars, cQueue >>

-----------------------------------------------------------------------------
SessionOf(n) ==
  {c \in Conns : activeUsers[n] = c /\ user[c] # NoName}

(* CoreServer.kick; the notice goes past the distributor.                  *)
Kicked(n) ==
  /\ kicked' = [c \in Conns |-> kicked[c] \/ c \in SessionOf(n)]
  /\ sQueue' = [c \in Conns |-> IF c \in SessionOf(n) THEN Append(sQueue[c], KickNotice)
                                ELSE sQueue[c]]

Kick(n) ==
  /\ "kick" \in AdminOps
  /\ \E c \in SessionOf(n) : ~kicked[c]
  /\ Kicked(n)
  /\ UNCHANGED << at, serial, attempt, user, uid, activeUsers, usedUids, dbVars,
                  banning, closing, cQueue, told, barred >>

(* A ban by the panel or the dashboard: the name, the serial, the kick.    *)
BanName(n, by) ==
  /\ "ban" \in AdminOps
  /\ banning.step = "idle"
  /\ n \notin bans
  /\ bans' = bans \cup {n}
  /\ banning' = [step |-> "serial", name |-> n, by |-> by]
  /\ UNCHANGED << at, serial, attempt, user, uid, kicked, sQueue, activeUsers, usedUids,
                  accounts, closing, cQueue, told, barred >>

BanSerial ==
  /\ banning.step = "serial"
  /\ bans' = bans \cup ({accounts[banning.name]} \ {NoSerial})
  /\ banning' = [banning EXCEPT !.step = "kick"]
  /\ UNCHANGED << at, serial, attempt, user, uid, kicked, sQueue, activeUsers, usedUids,
                  accounts, closing, ops, cQueue, told, barred >>

(* The panel calls ServerController.kick, which takes no reason, with one: *)
(* the call fails and nobody is kicked.                                    *)
BanKick ==
  /\ banning.step = "kick"
  /\ IF banning.by = "panel" THEN UNCHANGED << kicked, sQueue >> ELSE Kicked(banning.name)
  /\ banning' = NoBan
  /\ UNCHANGED << at, serial, attempt, user, uid, activeUsers, usedUids, dbVars,
                  closing, ops, cQueue, told, barred >>

(* CoreServer.broadcast to those with a user.                              *)
Broadcast ==
  /\ "broadcast" \in AdminOps
  /\ cQueue' = Append(cQueue, [message |-> Notice(ops),
                               target |-> {c \in Conns : user[c] # NoName /\
                                             activeUsers[user[c]] = c}])
  /\ UNCHANGED << at, serial, attempt, user, uid, kicked, sQueue, activeUsers, usedUids,
                  dbVars, banning, closing, told, barred >>

(* What the distributor does with an item; mutant: an item for more than   *)
(* one client is lost.                                                     *)
DeliveredToOne(item) ==
  [c \in Conns |-> IF item.target = {c} /\ at[c] # "gone"
                   THEN Append(sQueue[c], item.message) ELSE sQueue[c]]

Delivered(item) ==
  [c \in Conns |-> IF c \in item.target /\ at[c] # "gone"
                   THEN Append(sQueue[c], item.message) ELSE sQueue[c]]

(* MessageDistributor.serve_forever                                        *)
Distribute ==
  /\ cQueue # << >>
  /\ sQueue' = Delivered(Head(cQueue))
  /\ cQueue' = Tail(cQueue)
  /\ UNCHANGED << at, serial, attempt, user, uid, kicked, activeUsers, usedUids, dbVars,
                  adminVars, told, barred >>

(* CoreServer.handle_signal: first the flag, then the notice to everybody. *)
Signal ==
  /\ "close" \in AdminOps
  /\ closing = "no"
  /\ closing' = "flag"
  /\ UNCHANGED << at, serial, attempt, user, uid, kicked, sQueue, activeUsers, usedUids,
                  dbVars, banning, cQueue, told, barred >>

SignalNotice ==
  /\ closing = "flag"
  /\ closing' = "said"
  /\ cQueue' = Append(cQueue, [message |-> ClosingNotice,
                               target |-> {activeUsers[n] : n \in Names} \ {NoConn}])
  /\ UNCHANGED << at, serial, attempt, user, uid, kicked, sQueue, activeUsers, usedUids,
                  dbVars, banning, ops, told, barred >>

-----------------------------------------------------------------------------
(* What the thread of a connection does by itself.                         *)
ThreadStep(c) ==
  \/ AutoRegisters(c) \/ BanCheck(c) \/ Verify(c) \/ Create(c) \/ Enter(c)
  \/ Flushed(c) \/ CheckKick(c) \/ Poll(c) \/ Finish(c)

(* What its client and the network do.                                     *)
ClientStep(c) ==
  \/ \E s \in Serials : Connect(c, s)
  \/ \E n \in Names : LoginPacket(c, n) \/ RegisterPacket(c, n)
  \/ StartLobby(c) \/ Flush(c) \/ Resume(c)
  \/ Lost(c)

AdminStep ==
  \/ /\ ops < MaxOps
     /\ ops' = ops + 1
     /\ \/ Signal \/ Broadcast
        \/ \E n \in Names : Kick(n) \/ BanName(n, "panel") \/ BanName(n, "dashboard")
  \/ BanSerial \/ BanKick
  \/ SignalNotice

Next ==
  \/ \E c \in Conns : ThreadStep(c) \/ ClientStep(c)
  \/ AdminStep
  \/ Distribute

Spec == Init /\ [][Next]_vars

(* Every thread that can run does.  Clients and admins do as they like: a  *)
(* client need not even read, so no step waits for one here.               *)
Fairness == WF_vars(Distribute) /\ \A c \in Conns : WF_vars(ThreadStep(c))

FairSpec == Spec /\ Fairness

-----------------------------------------------------------------------------
(* Everybody inside is the connection activeUsers holds for the name, and  *)
(* a held name has a live connection behind it: two logins of one name,    *)
(* a failed login, an automatic registration, a kick and a lost socket in  *)
(* any order neither admit two players nor lock a name (server.py:87-104). *)
NamesOwned ==
  /\ \A c \in Conns : user[c] # NoName => activeUsers[user[c]] = c
  /\ \A n \in Names : activeUsers[n] # NoConn =>
       LET c == activeUsers[n] IN
         /\ at[c] \notin {"off", "packet", "retry", "gone"}
         /\ n = IF user[c] # NoName THEN user[c] ELSE attempt[c]

(* Players online have different ids and no id stays taken without its     *)
(* player, also above the range (lobby.py:431-445).                        *)
UidsOwned ==
  /\ \A c, d \in Conns : (c # d /\ user[c] # NoName /\ user[d] # NoName) => uid[c] # uid[d]
  /\ usedUids = {uid[c] : c \in {d \in Conns : user[d] # NoName}}

(* Nobody enters who was banned, by name or by key, when the login began.  *)
BannedStayOut ==
  [][\A c \in Conns : (user[c] = NoName /\ user'[c] # NoName) => ~barred[c]]_vars

(* With bind_serial no two accounts share a key, whatever registrations    *)
(* run at the same time (database.py:560-563).                             *)
OneAccountPerSerial ==
  BindSerial => \A n, m \in Names :
    (n # m /\ accounts[n] # NoSerial) => accounts[n] # accounts[m]

(* A broadcast reaches every player who was online, or the player leaves   *)
(* or keeps its thread waiting from some time on: the distributor and the  *)
(* session loop together forget no message.                                *)
BroadcastArrives ==
  \A c \in Conns, k \in 0 .. MaxOps :
    (\E i \in DOMAIN cQueue : cQueue[i].message = Notice(k) /\ c \in cQueue[i].target)
      ~> \/ \E i \in DOMAIN told[c] : told[c][i] = Notice(k)
         \/ at[c] \notin Inside
         \/ []AtClient(c)

(* A kicked player is dropped, unless the client keeps its thread waiting: *)
(* it sends no blob (server.py:117) or reads nothing (server.py:186, 248,  *)
(* 270), and the flag is not looked at.                                    *)
KickEnds ==
  \A c \in Conns : kicked[c] ~> (at[c] = "gone" \/ []AtClient(c))

(* Not so: every kicked player is dropped, "Drop a connected player"       *)
(* (server.py:382).                                                        *)
KickAlwaysEnds ==
  \A c \in Conns : kicked[c] ~> at[c] = "gone"

(* The lobby keeps the promise of NameRegistry: names change hands only    *)
(* after they were free.                                                   *)
Registry == INSTANCE NameRegistry WITH
  session <- [n \in Names |->
    IF activeUsers[n] # NoConn /\ user[activeUsers[n]] = n THEN activeUsers[n] ELSE NoConn]

NamesPassedOn == Registry!Spec

(* "graceful shutdown with player notification" (README.md:39): a player   *)
(* the closing server drops was told before.                               *)
ShutdownNotified ==
  \A c \in Conns : at[c] = "closed" => \E i \in DOMAIN told[c] : told[c][i] = ClosingNotice

(* A kicked player is told before being dropped: the flush includes the    *)
(* notice (server.py:246).                                                 *)
KickNoticed ==
  \A c \in Conns : at[c] = "dropped" => \E i \in DOMAIN told[c] : told[c][i] = KickNotice

(* "banned (username + serial key) and disconnected" (gui.py:606): when a  *)
(* ban is through, the player who is inside under the name is on the way   *)
(* out.                                                                    *)
BanDisconnects ==
  [][(banning.step = "kick" /\ banning' = NoBan)
       => \A c \in SessionOf(banning.name) : kicked'[c]]_vars
=============================================================================
