--------------------------- MODULE SessionsProofs ---------------------------
(***************************************************************************)
(* Proofs about Sessions, for any connections, names, keys and settings of *)
(* the configuration: names and bans hold in every interleaving.           *)
(***************************************************************************)
EXTENDS Sessions, WellFoundedInduction, TLAPS

(* The part of the type invariant the proofs need.                         *)
Types ==
  /\ at \in [Conns -> Places]
  /\ attempt \in [Conns -> Names \cup {NoName}]
  /\ user \in [Conns -> Names \cup {NoName}]
  /\ activeUsers \in [Names -> Conns \cup {NoConn}]

(* Whoever waits for the outcome of a login holds the name and has no user *)
(* yet; a connection that tries again knows the name.                      *)
Reservations ==
  \A c \in Conns :
    /\ at[c] \in Reserving \cup {"retry"} => attempt[c] \in Names /\ user[c] = NoName
    /\ at[c] \in Reserving => activeUsers[attempt[c]] = c

(* A connection has a user from its entry to its end, and holds the name.  *)
Users ==
  \A c \in Conns :
    /\ at[c] \in Inside => user[c] # NoName
    /\ user[c] # NoName => at[c] \in Inside \cup {"lost"} /\ activeUsers[user[c]] = c

(* Whoever holds a name is on the way in, inside, or about to finish.      *)
Holders ==
  \A n \in Names : activeUsers[n] # NoConn =>
    LET c == activeUsers[n] IN
      /\ at[c] \notin {"off", "packet", "retry", "gone"}
      /\ n = IF user[c] # NoName THEN user[c] ELSE attempt[c]

NameInv == Types /\ Reservations /\ Users /\ Holders

-----------------------------------------------------------------------------
LEMMA InitNames == Init => NameInv
BY SessionsAssumption DEF Init, NameInv, Types, Reservations, Users, Holders, Places, Reserving, Inside

(* Moves that leave users, names and attempts alone.                       *)
LEMMA ProceedNames ==
  ASSUME NameInv, NEW c \in Conns, NEW place \in Places, Goto(c, place),
         UNCHANGED << attempt, user, activeUsers >>,
         at[c] \in Reserving => place \in Reserving \cup {"lost"},
         place \in Reserving => at[c] \in Reserving,
         place \in Inside => at[c] \in Inside,
         at[c] \in Inside => place \in Inside \cup {"lost"},
         place \notin {"retry", "gone"},
         at[c] # "lost",
         place \in {"off", "packet"} => at[c] \in {"off", "packet"}
  PROVE  NameInv'
<1> USE DEF NameInv, Goto
<1>1. Types' BY DEF Types
<1>2. Reservations' BY DEF Types, Reservations, Reserving, Places
<1>3. Users' BY DEF Types, Users, Inside, Places
<1>4. Holders' BY SessionsAssumption DEF Types, Holders, Inside, Places
<1> QED BY <1>1, <1>2, <1>3, <1>4

(* _reserveName: a free name is taken, one in use is not.                  *)
LEMMA ReserveNames ==
  ASSUME NameInv, NEW c \in Conns, NEW n \in Names, NEW place \in {"login", "register"},
         at[c] \in {"packet", "retry"}, Reserve(c, n, place)
  PROVE  NameInv'
<1> USE DEF NameInv, Goto
<1>0. user[c] = NoName /\ user' = user
  BY DEF Reserve, Users, Types, Inside
<1>a. CASE NameFree(n)
  <2>0. /\ activeUsers' = [activeUsers EXCEPT ![n] = c]
        /\ attempt' = [attempt EXCEPT ![c] = n]
        /\ at' = [at EXCEPT ![c] = place]
        /\ activeUsers[n] = NoConn
    BY <1>a DEF Reserve, NameFree
  <2>1. Types' BY <1>0, <2>0 DEF Types, Places
  <2>2. Reservations' BY <1>0, <2>0, SessionsAssumption DEF Types, Reservations, Reserving
  <2>3. Users' BY <1>0, <2>0, SessionsAssumption DEF Types, Users, Inside
  <2>4. Holders' BY <1>0, <2>0, SessionsAssumption DEF Types, Holders
  <2> QED BY <2>1, <2>2, <2>3, <2>4
<1>b. CASE ~NameFree(n)
  <2>0. /\ activeUsers' = activeUsers
        /\ attempt' = [attempt EXCEPT ![c] = NoName]
        /\ at' = [at EXCEPT ![c] = "packet"]
    BY <1>b DEF Reserve
  <2>1. Types' BY <1>0, <2>0 DEF Types, Places
  <2>2. Reservations' BY <1>0, <2>0 DEF Types, Reservations, Reserving
  <2>3. Users' BY <1>0, <2>0 DEF Types, Users, Inside
  <2>4. Holders' BY <1>0, <2>0, SessionsAssumption DEF Types, Holders
  <2> QED BY <2>1, <2>2, <2>3, <2>4
<1> QED BY <1>a, <1>b

(* A refused attempt gives up the name it held.                            *)
LEMMA RefuseNames ==
  ASSUME NameInv, NEW c \in Conns, NEW place \in {"packet", "retry"},
         at[c] \in {"login", "verify", "register", "create"}, Refuse(c, place)
  PROVE  NameInv'
<1> USE DEF NameInv, Goto
<1>0. /\ user[c] = NoName /\ user' = user
      /\ attempt[c] \in Names /\ activeUsers[attempt[c]] = c
      /\ at' = [at EXCEPT ![c] = place]
      /\ attempt' = IF place = "retry" THEN attempt ELSE [attempt EXCEPT ![c] = NoName]
      /\ \A n \in Names : activeUsers'[n] = IF n = attempt[c] THEN NoConn ELSE activeUsers[n]
  BY DEF Refuse, Released, Reservations, Reserving, Types
<1>1. Types' BY <1>0 DEF Types, Places, Refuse, Released
<1>2. Reservations' BY <1>0, SessionsAssumption DEF Types, Reservations, Reserving
<1>3. Users' BY <1>0, SessionsAssumption DEF Types, Users, Inside
<1>4. Holders'
  <2> SUFFICES ASSUME NEW n \in Names, activeUsers'[n] # NoConn
               PROVE  LET d == activeUsers'[n] IN
                        /\ at'[d] \notin {"off", "packet", "retry", "gone"}
                        /\ n = IF user'[d] # NoName THEN user'[d] ELSE attempt'[d]
    BY DEF Holders
  <2>1. n # attempt[c] /\ activeUsers'[n] = activeUsers[n]
    BY <1>0
  <2>2. activeUsers[n] # c
    BY <1>0, <2>1 DEF Holders
  <2> QED BY <1>0, <2>1, <2>2 DEF Holders, Types
<1> QED BY <1>1, <1>2, <1>3, <1>4

(* User.__init__: the name of the attempt becomes the name of the user.    *)
LEMMA EnterNames ==
  ASSUME NameInv, NEW c \in Conns, Enter(c)
  PROVE  NameInv'
<1> USE DEF NameInv, Goto
<1>0. /\ at[c] = "accepted"
      /\ user[c] = NoName /\ attempt[c] \in Names /\ activeUsers[attempt[c]] = c
      /\ at' = [at EXCEPT ![c] = "welcome"]
      /\ user' = [user EXCEPT ![c] = attempt[c]]
      /\ UNCHANGED << attempt, activeUsers >>
  BY DEF Enter, Reservations, Reserving
<1>1. Types' BY <1>0 DEF Types, Places
<1>2. Reservations' BY <1>0 DEF Types, Reservations, Reserving
<1>3. Users' BY <1>0, SessionsAssumption DEF Types, Users, Inside
<1>4. Holders' BY <1>0, SessionsAssumption DEF Types, Holders
<1> QED BY <1>1, <1>2, <1>3, <1>4

(* The lobby registers again what is registered.                           *)
LEMMA StartLobbyNames ==
  ASSUME NameInv, NEW c \in Conns, StartLobby(c)
  PROVE  NameInv'
<1> USE DEF NameInv
<1>1. at[c] = "welcome" /\ user[c] \in Names /\ activeUsers[user[c]] = c
  BY DEF StartLobby, Users, Types, Inside
<1>2. UNCHANGED << attempt, user, activeUsers >> /\ Goto(c, "flush")
  BY <1>1 DEF StartLobby, Types
<1> QED
  BY <1>1, <1>2, ProceedNames DEF Places, Reserving, Inside

(* finish gives up the name of the user, or of the attempt.                *)
LEMMA FinishNames ==
  ASSUME NameInv, NEW c \in Conns, Finish(c)
  PROVE  NameInv'
<1> USE DEF NameInv, Goto
<1> DEFINE mine == IF user[c] # NoName THEN user[c] ELSE attempt[c]
<1>0. /\ at[c] \in {"dropped", "closed", "lost"}
      /\ at' = [at EXCEPT ![c] = "gone"]
      /\ user' = [user EXCEPT ![c] = NoName]
      /\ attempt' = [attempt EXCEPT ![c] = NoName]
  BY DEF Finish
<1>a. /\ activeUsers' \in [Names -> Conns \cup {NoConn}]
      /\ \A n \in Names : activeUsers'[n] = IF n = mine /\ activeUsers[n] = c
                                           THEN NoConn ELSE activeUsers[n]
  BY DEF Finish, Freed, Released, Types
<1>b. \A n \in Names : activeUsers'[n] # NoConn =>
        activeUsers'[n] = activeUsers[n] /\ activeUsers[n] # c
  BY <1>a, SessionsAssumption DEF Holders
<1>1. Types' BY <1>0, <1>a DEF Types, Places
<1>2. Reservations'
  <2> SUFFICES ASSUME NEW d \in Conns
               PROVE /\ at'[d] \in Reserving \cup {"retry"} => attempt'[d] \in Names /\ user'[d] = NoName
                     /\ at'[d] \in Reserving => activeUsers'[attempt'[d]] = d
    BY DEF Reservations
  <2>1. CASE d = c BY <1>0, <2>1 DEF Types, Reserving
  <2>2. CASE d # c
    <3>1. /\ at'[d] = at[d] /\ attempt'[d] = attempt[d] /\ user'[d] = user[d]
      BY <1>0, <2>2 DEF Types
    <3>2. at[d] \in Reserving => attempt[d] \in Names /\ activeUsers[attempt[d]] = d
      BY DEF Reservations
    <3>3. at[d] \in Reserving => activeUsers'[attempt[d]] = d
      BY <1>a, <2>2, <3>2
    <3> QED BY <3>1, <3>3 DEF Reservations
  <2> QED BY <2>1, <2>2
<1>3. Users'
  <2> SUFFICES ASSUME NEW d \in Conns
               PROVE /\ at'[d] \in Inside => user'[d] # NoName
                     /\ user'[d] # NoName => at'[d] \in Inside \cup {"lost"} /\ activeUsers'[user'[d]] = d
    BY DEF Users
  <2>1. CASE d = c BY <1>0, <2>1 DEF Types, Inside
  <2>2. CASE d # c
    <3>1. /\ at'[d] = at[d] /\ user'[d] = user[d]
      BY <1>0, <2>2 DEF Types
    <3>2. user[d] # NoName => user[d] \in Names /\ activeUsers[user[d]] = d
      BY DEF Users, Types
    <3>3. user[d] # NoName => activeUsers'[user[d]] = d
      BY <1>a, <2>2, <3>2
    <3> QED BY <3>1, <3>3 DEF Users
  <2> QED BY <2>1, <2>2
<1>4. Holders'
  <2> SUFFICES ASSUME NEW n \in Names, activeUsers'[n] # NoConn
               PROVE  LET d == activeUsers'[n] IN
                        /\ at'[d] \notin {"off", "packet", "retry", "gone"}
                        /\ n = IF user'[d] # NoName THEN user'[d] ELSE attempt'[d]
    BY DEF Holders
  <2>1. activeUsers'[n] = activeUsers[n] /\ activeUsers[n] # c /\ activeUsers[n] # NoConn
    BY <1>b
  <2>2. activeUsers[n] \in Conns
    BY <2>1 DEF Types
  <2> QED BY <1>0, <2>1, <2>2 DEF Holders, Types
<1> QED BY <1>1, <1>2, <1>3, <1>4

(* Nothing of it changes.                                                  *)
LEMMA StutterNames ==
  ASSUME NameInv, UNCHANGED << at, attempt, user, activeUsers >>
  PROVE  NameInv'
BY DEF NameInv, Types, Reservations, Users, Holders

-----------------------------------------------------------------------------
(* Each kind of step, once for the invariant.                              *)
LEMMA ThreadNames ==
  ASSUME NameInv, NEW c \in Conns, ThreadStep(c)
  PROVE  NameInv'
<1>1. CASE AutoRegisters(c)
  <2>1. at[c] = "retry" /\ attempt[c] \in Names
    BY <1>1 DEF AutoRegisters, NameInv, Reservations
  <2> QED BY <1>1, <2>1, ReserveNames DEF AutoRegisters
<1>2. CASE BanCheck(c)
  <2>1. at[c] \in {"login", "register"}
    BY <1>2 DEF BanCheck
  <2>2. CASE Refuse(c, "packet")
    BY <2>1, <2>2, RefuseNames
  <2>3. CASE Proceed(c, IF at[c] = "login" THEN "verify" ELSE "create")
    BY <2>1, <2>3, ProceedNames DEF Proceed, Places, Reserving, Inside
  <2> QED BY <1>2, <2>2, <2>3 DEF BanCheck
<1>3. CASE Verify(c)
  <2>1. at[c] = "verify"
    BY <1>3 DEF Verify
  <2>2. CASE Proceed(c, "accepted")
    BY <2>1, <2>2, ProceedNames DEF Proceed, Places, Reserving, Inside
  <2>3. CASE Refuse(c, IF AutoRegister THEN "retry" ELSE "packet")
    BY <2>1, <2>3, RefuseNames
  <2> QED BY <1>3, <2>2, <2>3 DEF Verify
<1>4. CASE Create(c)
  <2>1. at[c] = "create"
    BY <1>4 DEF Create
  <2>2. CASE Proceed(c, "accepted")
    BY <2>1, <2>2, ProceedNames DEF Proceed, Places, Reserving, Inside
  <2>3. CASE Refuse(c, "packet")
    BY <2>1, <2>3, RefuseNames
  <2> QED BY <1>4, <2>2, <2>3 DEF Create
<1>5. CASE Enter(c)
  BY <1>5, EnterNames
<1>7. CASE Flushed(c)
  BY <1>7, ProceedNames DEF Flushed, Proceed, Places, Reserving, Inside
<1>8. CASE CheckKick(c)
  BY <1>8, ProceedNames DEF CheckKick, Proceed, Places, Reserving, Inside
<1>9. CASE Poll(c)
  BY <1>9, ProceedNames DEF Poll, Proceed, Places, Reserving, Inside
<1>10. CASE Finish(c)
  BY <1>10, FinishNames
<1> QED
  BY <1>1, <1>2, <1>3, <1>4, <1>5, <1>7, <1>8, <1>9, <1>10 DEF ThreadStep

LEMMA ClientNames ==
  ASSUME NameInv, NEW c \in Conns, ClientStep(c)
  PROVE  NameInv'
<1>1. ASSUME NEW s \in Serials, Connect(c, s) PROVE NameInv'
  BY <1>1, ProceedNames DEF Connect, Places, Reserving, Inside
<1>2. ASSUME NEW n \in Names, LoginPacket(c, n) \/ RegisterPacket(c, n) PROVE NameInv'
  BY <1>2, ReserveNames DEF LoginPacket, RegisterPacket
<1>3. CASE Resume(c)
  BY <1>3, ProceedNames DEF Resume, Proceed, Places, Reserving, Inside
<1>4. CASE Lost(c)
  BY <1>4, ProceedNames DEF Lost, Proceed, Places, Reserving, Inside
<1>5. CASE StartLobby(c)
  BY <1>5, StartLobbyNames
<1>6. CASE Flush(c)
  <2>1. /\ at[c] = "flush" /\ at' = [at EXCEPT ![c] = "flush"]
        /\ UNCHANGED << attempt, user, activeUsers >>
    BY <1>6 DEF Flush, NameInv, Types
  <2> QED BY <2>1, ProceedNames DEF Goto, Places, Reserving, Inside
<1> QED
  BY <1>1, <1>2, <1>3, <1>4, <1>5, <1>6 DEF ClientStep

LEMMA OthersNames ==
  ASSUME AdminStep \/ Distribute
  PROVE  UNCHANGED << at, attempt, user, activeUsers, serial, accounts, barred, usedUids >>
BY DEF AdminStep, Signal, Broadcast, Kick, BanName, BanSerial, BanKick, SignalNotice, Distribute, dbVars

LEMMA NextNames == NameInv /\ [Next]_vars => NameInv'
<1> SUFFICES ASSUME NameInv, [Next]_vars PROVE NameInv'
  OBVIOUS
<1>1. ASSUME NEW c \in Conns, ThreadStep(c) PROVE NameInv'
  BY <1>1, ThreadNames
<1>2. ASSUME NEW c \in Conns, ClientStep(c) PROVE NameInv'
  BY <1>2, ClientNames
<1>3. CASE AdminStep \/ Distribute
  BY <1>3, OthersNames, StutterNames
<1>4. CASE UNCHANGED vars
  BY <1>4, StutterNames DEF vars
<1> QED BY <1>1, <1>2, <1>3, <1>4 DEF Next

LEMMA NameInvHolds == Spec => []NameInv
BY InitNames, NextNames, PTL DEF Spec

(* Two logins of one name, failed logins, automatic registrations, kicks   *)
(* and lost sockets in any order leave a name with at most one connection, *)
(* and no name taken that nobody holds (server.py:87-104).                 *)
THEOREM NamesAreOwned == Spec => []NamesOwned
<1>1. NameInv => NamesOwned
  BY DEF NameInv, Users, Holders, NamesOwned
<1> QED BY <1>1, NameInvHolds, PTL

-----------------------------------------------------------------------------
(* The refinement: who plays under a name.                                 *)
Played == [n \in Names |->
  IF activeUsers[n] # NoConn /\ user[activeUsers[n]] = n THEN activeUsers[n] ELSE NoConn]

LEMMA SameUsersSamePlayed ==
  ASSUME UNCHANGED << user, activeUsers >>
  PROVE  Played' = Played
BY DEF Played

(* Who has no user yet may take and give up names: nobody plays more.      *)
LEMMA ReserveSamePlayed ==
  ASSUME Types, NEW c \in Conns, user[c] = NoName, UNCHANGED user,
         activeUsers' \in [Names -> Conns \cup {NoConn}],
         \A n \in Names : activeUsers'[n] = activeUsers[n]
                           \/ (activeUsers[n] \in {NoConn, c} /\ activeUsers'[n] \in {NoConn, c})
  PROVE  Played' = Played
<1>1. \A n \in Names : user[c] # n
  BY SessionsAssumption
<1>2. \A n \in Names : Played'[n] = Played[n]
  BY <1>1 DEF Played
<1> QED BY <1>2 DEF Played

(* An entry is the step Enter of the registry, an end its step Leave.      *)
LEMMA EnterPlayed ==
  ASSUME NameInv, NEW c \in Conns, Enter(c)
  PROVE  \E n \in Names : Registry!Enter(c, n)
<1>0. /\ user[c] = NoName /\ attempt[c] \in Names /\ activeUsers[attempt[c]] = c
      /\ user' = [user EXCEPT ![c] = attempt[c]]
      /\ activeUsers' = activeUsers
  BY DEF Enter, NameInv, Reservations, Reserving
<1>1. \A n \in Names : Played[n] # c
  BY <1>0, SessionsAssumption DEF Played
<1>2. Played[attempt[c]] = NoConn
  BY <1>0, SessionsAssumption DEF Played
<1>3. Played' = [Played EXCEPT ![attempt[c]] = c]
  <2>1. ASSUME NEW n \in Names PROVE Played'[n] = IF n = attempt[c] THEN c ELSE Played[n]
    <3>1. CASE n = attempt[c]
      BY <1>0, <3>1, SessionsAssumption DEF Played, NameInv, Types
    <3>2. CASE n # attempt[c]
      <4>1. activeUsers[n] # c
        BY <1>0, <3>2, SessionsAssumption DEF NameInv, Holders
      <4> QED BY <1>0, <3>2, <4>1 DEF Played, NameInv, Types
    <3> QED BY <3>1, <3>2
  <2> QED BY <2>1 DEF Played
<1> QED BY <1>0, <1>1, <1>2, <1>3 DEF Played, Registry!Enter

LEMMA FinishPlayed ==
  ASSUME NameInv, NEW c \in Conns, Finish(c)
  PROVE  Played' = Played \/ \E n \in Names : Registry!Leave(n)
<1>1. CASE user[c] = NoName
  <2>1. \A n \in Names : user[c] # n /\ user'[c] # n
    BY <1>1, SessionsAssumption DEF Finish, NameInv, Types
  <2>2. \A n \in Names : activeUsers'[n] = activeUsers[n]
                          \/ (activeUsers[n] = c /\ activeUsers'[n] = NoConn)
    BY <1>1 DEF Finish, Released
  <2>3. user' = user
    BY <1>1 DEF Finish, NameInv, Types
  <2>4. activeUsers' \in [Names -> Conns \cup {NoConn}]
    BY <1>1 DEF Finish, Released, NameInv, Types
  <2> QED BY <1>1, <2>2, <2>3, <2>4, ReserveSamePlayed DEF NameInv
<1>2. CASE user[c] # NoName
  <2>0. /\ user[c] \in Names /\ activeUsers[user[c]] = c
        /\ user' = [user EXCEPT ![c] = NoName]
        /\ \A n \in Names : activeUsers'[n] = IF n = user[c] THEN NoConn ELSE activeUsers[n]
    BY <1>2 DEF Finish, Freed, NameInv, Types, Users
  <2>1. Played[user[c]] # NoConn
    BY <2>0, SessionsAssumption DEF Played
  <2>2. Played' = [Played EXCEPT ![user[c]] = NoConn]
    <3>1. ASSUME NEW n \in Names PROVE Played'[n] = IF n = user[c] THEN NoConn ELSE Played[n]
      <4>1. CASE n = user[c]
        BY <2>0, <4>1 DEF Played
      <4>2. CASE n # user[c]
        <5>1. activeUsers[n] # c
          BY <1>2, <2>0, <4>2, SessionsAssumption DEF NameInv, Holders
        <5> QED BY <2>0, <4>2, <5>1 DEF Played, NameInv, Types
      <4> QED BY <4>1, <4>2
    <3> QED BY <3>1 DEF Played
  <2> QED BY <2>0, <2>1, <2>2 DEF Played, Registry!Leave
<1> QED BY <1>1, <1>2

LEMMA ThreadPlayed ==
  ASSUME NameInv, NEW c \in Conns, ThreadStep(c) \/ ClientStep(c)
  PROVE  Played' = Played \/ Registry!Next
<1> USE DEF NameInv
<1>a. ASSUME NEW n \in Names, NEW place, Reserve(c, n, place), at[c] \in {"packet", "retry"}
      PROVE  Played' = Played
  <2>1. user[c] = NoName
    BY <1>a DEF Users, Types, Inside
  <2>2. activeUsers' = activeUsers \/ (activeUsers[n] = NoConn /\ activeUsers' = [activeUsers EXCEPT ![n] = c])
    BY <1>a DEF Reserve, NameFree
  <2> QED BY <1>a, <2>1, <2>2, ReserveSamePlayed DEF Reserve, Types
<1>b. ASSUME NEW place, Refuse(c, place), at[c] \in Reserving
      PROVE  Played' = Played
  <2>1. \A n \in Names : activeUsers'[n] = activeUsers[n]
                          \/ (activeUsers[n] = c /\ activeUsers'[n] = NoConn)
    BY <1>b DEF Refuse, Released
  <2>2. activeUsers' \in [Names -> Conns \cup {NoConn}]
    BY <1>b DEF Refuse, Released, Types
  <2>3. user[c] = NoName /\ user' = user
    BY <1>b DEF Refuse, Reservations
  <2> QED BY <2>1, <2>2, <2>3, ReserveSamePlayed
<1>c. ASSUME NEW place, Proceed(c, place) PROVE Played' = Played
  BY <1>c, SameUsersSamePlayed DEF Proceed
<1>1. CASE AutoRegisters(c)
  <2>1. at[c] = "retry" /\ attempt[c] \in Names
    BY <1>1 DEF AutoRegisters, Reservations
  <2> QED BY <1>1, <1>a, <2>1 DEF AutoRegisters
<1>2. CASE BanCheck(c) \/ Verify(c) \/ Create(c)
  BY <1>2, <1>b, <1>c DEF BanCheck, Verify, Create, Reserving
<1>3. CASE Enter(c)
  BY <1>3, EnterPlayed DEF Registry!Next
<1>4. CASE StartLobby(c)
  <2>1. activeUsers' = activeUsers /\ user' = user
    BY <1>4 DEF StartLobby, Users, Types, Inside
  <2> QED BY <2>1, SameUsersSamePlayed
<1>5. CASE Flush(c) \/ \E s \in Serials : Connect(c, s)
  BY <1>5, SameUsersSamePlayed DEF Flush, Connect
<1>6. CASE Flushed(c) \/ CheckKick(c) \/ Poll(c) \/ Resume(c) \/ Lost(c)
  BY <1>6, <1>c DEF Flushed, CheckKick, Poll, Resume, Lost
<1>7. CASE Finish(c)
  BY <1>7, FinishPlayed DEF Registry!Next
<1>8. CASE \E n \in Names : LoginPacket(c, n) \/ RegisterPacket(c, n)
  BY <1>8, <1>a DEF LoginPacket, RegisterPacket
<1> QED
  BY <1>1, <1>2, <1>3, <1>4, <1>5, <1>6, <1>7, <1>8 DEF ThreadStep, ClientStep

(* The lobby implements NameRegistry: a name passes from one connection to *)
(* another only after it was free.                                         *)
THEOREM LobbyKeepsRegistry == Spec => NamesPassedOn
<1>1. Init => Registry!Init
  BY SessionsAssumption DEF Init, Registry!Init
<1>2. NameInv /\ [Next]_vars => [Registry!Next]_Played
  <2> SUFFICES ASSUME NameInv, [Next]_vars PROVE Registry!Next \/ Played' = Played
    OBVIOUS
  <2>1. ASSUME NEW c \in Conns, ThreadStep(c) \/ ClientStep(c)
        PROVE Played' = Played \/ Registry!Next
    BY <2>1, ThreadPlayed
  <2>2. CASE AdminStep \/ Distribute
    BY <2>2, OthersNames, SameUsersSamePlayed
  <2>3. CASE UNCHANGED vars
    BY <2>3, SameUsersSamePlayed DEF vars
  <2> QED BY <2>1, <2>2, <2>3 DEF Next
<1> QED
  BY <1>1, <1>2, NameInvHolds, PTL DEF Spec, NamesPassedOn, Registry!Spec, Played

-----------------------------------------------------------------------------
(* A login of somebody who was banned when it began stays before the look  *)
(* at the bans, which still hold then.                                     *)
BarInv ==
  \A c \in Conns : (barred[c] /\ at[c] \in Reserving) => at[c] \in {"login", "register"} /\ IsBanned(c)

BarTypes ==
  /\ at \in [Conns -> Places]
  /\ attempt \in [Conns -> Names \cup {NoName}]
  /\ serial \in [Conns -> Serials \cup {NoSerial}]
  /\ barred \in [Conns -> BOOLEAN]

LEMMA NextBar == NameInv /\ BarTypes /\ BarInv /\ [Next]_vars => BarTypes' /\ BarInv'
<1> SUFFICES ASSUME NameInv, BarTypes, BarInv, [Next]_vars PROVE BarTypes' /\ BarInv'
  OBVIOUS
<1> USE DEF BarTypes, BarInv, IsBanned, Goto, Reserving
<1>a. ASSUME NEW c \in Conns, NEW place \in Places, Proceed(c, place),
             place \in {"verify", "create"} => at[c] \in {"login", "register"} /\ ~IsBanned(c),
             place \in {"login", "register"} => FALSE,
             place = "accepted" => at[c] \in {"verify", "create"}
      PROVE  BarTypes' /\ BarInv'
  BY <1>a DEF Proceed
<1>b. ASSUME NEW c \in Conns, NEW n \in Names, NEW place \in {"login", "register"}, Reserve(c, n, place)
      PROVE  BarTypes' /\ BarInv'
  <2>1. CASE NameFree(n)
    <3>1. /\ attempt' = [attempt EXCEPT ![c] = n]
          /\ barred' = [barred EXCEPT ![c] = {n, serial[c]} \cap bans # {}]
          /\ at' = [at EXCEPT ![c] = place]
          /\ UNCHANGED << serial, bans >>
      BY <1>b, <2>1 DEF Reserve, dbVars
    <3> QED BY <1>b, <3>1 DEF Places
  <2>2. CASE ~NameFree(n)
    BY <1>b, <2>2 DEF Reserve, Places, adminVars, dbVars
  <2> QED BY <2>1, <2>2
<1>c. ASSUME NEW c \in Conns, NEW place \in {"packet", "retry"}, Refuse(c, place)
      PROVE  BarTypes' /\ BarInv'
  BY <1>c DEF Refuse, Places, dbVars
<1>1. ASSUME NEW c \in Conns, ThreadStep(c) PROVE BarTypes' /\ BarInv'
  <2>1. CASE AutoRegisters(c)
    <3>1. attempt[c] \in Names
      BY <2>1 DEF AutoRegisters, NameInv, Reservations
    <3> QED BY <2>1, <3>1, <1>b DEF AutoRegisters
  <2>2. CASE BanCheck(c)
    <3>1. CASE IsBanned(c) \/ (at[c] = "register" /\ ~AllowRegistration)
      BY <2>2, <3>1, <1>c DEF BanCheck
    <3>2. CASE ~(IsBanned(c) \/ (at[c] = "register" /\ ~AllowRegistration))
      BY <2>2, <3>2, <1>a DEF BanCheck, Places
    <3> QED BY <3>1, <3>2
  <2>3. CASE Verify(c)
    BY <2>3, <1>a, <1>c DEF Verify, Places
  <2>4. CASE Create(c)
    BY <2>4, <1>a, <1>c DEF Create, Places
  <2>5. CASE Enter(c)
    BY <2>5 DEF Enter, Places, dbVars
  <2>6. CASE Flushed(c) \/ CheckKick(c) \/ Poll(c)
    BY <2>6, <1>a DEF Flushed, CheckKick, Poll, Places
  <2>7. CASE Finish(c)
    BY <2>7 DEF Finish, Places, dbVars
  <2> QED BY <1>1, <2>1, <2>2, <2>3, <2>4, <2>5, <2>6, <2>7 DEF ThreadStep
<1>2. ASSUME NEW c \in Conns, ClientStep(c) PROVE BarTypes' /\ BarInv'
  <2>1. ASSUME NEW s \in Serials, Connect(c, s) PROVE BarTypes' /\ BarInv'
    BY <2>1 DEF Connect, Places, dbVars
  <2>2. CASE \E n \in Names : LoginPacket(c, n) \/ RegisterPacket(c, n)
    BY <2>2, <1>b DEF LoginPacket, RegisterPacket
  <2>3. CASE Resume(c) \/ Lost(c)
    BY <2>3, <1>a DEF Resume, Lost, Places
  <2>4. CASE StartLobby(c) \/ Flush(c)
    BY <2>4 DEF StartLobby, Flush, Places, dbVars
  <2> QED BY <1>2, <2>1, <2>2, <2>3, <2>4 DEF ClientStep
<1>3. CASE AdminStep \/ Distribute
  <2>1. UNCHANGED << at, attempt, user, activeUsers, serial, accounts, barred, usedUids >>
    BY <1>3, OthersNames
  <2>2. bans \subseteq bans'
    BY <1>3 DEF AdminStep, Signal, Broadcast, Kick, BanName, BanSerial, BanKick, SignalNotice,
                Distribute, dbVars
  <2> QED BY <2>1, <2>2
<1>4. CASE UNCHANGED vars
  BY <1>4 DEF vars, dbVars
<1> QED BY <1>1, <1>2, <1>3, <1>4 DEF Next

LEMMA BarInvHolds == Spec => [](NameInv /\ BarTypes /\ BarInv)
<1>1. Init => BarTypes /\ BarInv
  BY DEF Init, BarTypes, BarInv, Places, Reserving
<1> QED BY <1>1, InitNames, NextNames, NextBar, PTL DEF Spec

(* Nobody enters who was banned when the login began, whatever happens     *)
(* between the packet, the look at the bans and the entry.                 *)
THEOREM BannedAreKeptOut == Spec => BannedStayOut
<1>1. NameInv /\ BarInv /\ [Next]_vars =>
        \A c \in Conns : (user[c] = NoName /\ user'[c] # NoName) => ~barred[c]
  <2> SUFFICES ASSUME NameInv, BarInv, [Next]_vars, NEW c \in Conns,
                      user[c] = NoName, user'[c] # NoName
               PROVE  ~barred[c]
    OBVIOUS
  <2>1. ASSUME NEW d \in Conns, ThreadStep(d) PROVE ~barred[c]
    <3>1. CASE Enter(d)
      BY <2>1, <3>1 DEF Enter, NameInv, Types, BarInv, Reserving
    <3>2. CASE Finish(d)
      BY <2>1, <3>2 DEF Finish, NameInv, Types
    <3>3. CASE ~Enter(d) /\ ~Finish(d)
      BY <2>1, <3>3 DEF ThreadStep, AutoRegisters, Reserve, BanCheck, Verify, Create,
                        Flushed, CheckKick, Poll, Proceed, Refuse
    <3> QED BY <3>1, <3>2, <3>3
  <2>2. ASSUME NEW d \in Conns, ClientStep(d) PROVE FALSE
    BY <2>2 DEF ClientStep, Connect, LoginPacket, RegisterPacket, Reserve, StartLobby, Flush,
                Resume, Lost, Proceed
  <2>3. CASE AdminStep \/ Distribute \/ UNCHANGED vars
    BY <2>3, OthersNames DEF vars
  <2> QED BY <2>1, <2>2, <2>3 DEF Next
<1> QED BY <1>1, BarInvHolds, PTL DEF Spec, BannedStayOut

-----------------------------------------------------------------------------
(* Keys stay apart: the look for the key and the new row are one hold of   *)
(* the database lock.                                                      *)
KeyInv == accounts \in [Names -> Serials \cup {NoSerial}] /\ OneAccountPerSerial

LEMMA NextKeys == NameInv /\ BarTypes /\ KeyInv /\ [Next]_vars => KeyInv'
<1> SUFFICES ASSUME NameInv, BarTypes, KeyInv, [Next]_vars PROVE KeyInv'
  OBVIOUS
<1>1. ASSUME NEW c \in Conns, Create(c) PROVE KeyInv'
  <2>1. CASE MayRegister(c)
    <3>1. attempt[c] \in Names /\ serial[c] \in Serials \cup {NoSerial}
      BY <1>1 DEF Create, NameInv, Reservations, Reserving, BarTypes
    <3>2. accounts' = [accounts EXCEPT ![attempt[c]] = serial[c]]
      BY <1>1, <2>1 DEF Create
    <3> QED BY <2>1, <3>1, <3>2 DEF KeyInv, OneAccountPerSerial, MayRegister
  <2>2. CASE ~MayRegister(c)
    BY <1>1, <2>2 DEF Create, Refuse, dbVars, KeyInv, OneAccountPerSerial
  <2> QED BY <2>1, <2>2
<1>2. ASSUME accounts' = accounts PROVE KeyInv'
  BY <1>2 DEF KeyInv, OneAccountPerSerial
<1>3. ASSUME NEW c \in Conns, ThreadStep(c), ~Create(c) PROVE accounts' = accounts
  BY <1>3 DEF ThreadStep, AutoRegisters, Reserve, BanCheck, Verify, Enter, Flushed,
              CheckKick, Poll, Finish, Refuse, dbVars
<1>4. ASSUME NEW c \in Conns, ClientStep(c) PROVE accounts' = accounts
  BY <1>4 DEF ClientStep, Connect, LoginPacket, RegisterPacket, Reserve, StartLobby, Flush,
              Resume, Lost, dbVars
<1>5. CASE AdminStep \/ Distribute \/ UNCHANGED vars
  BY <1>2, <1>5, OthersNames DEF vars, dbVars
<1> QED BY <1>1, <1>2, <1>3, <1>4, <1>5 DEF Next

(* With bind_serial no two accounts share a key, whatever registrations    *)
(* run at the same time (database.py:560-563).                             *)
THEOREM KeysStayApart == Spec => []OneAccountPerSerial
<1>1. Init => KeyInv
  BY DEF Init, KeyInv, OneAccountPerSerial
<1>2. KeyInv => OneAccountPerSerial
  BY DEF KeyInv
<1> QED BY <1>1, <1>2, NextKeys, BarInvHolds, PTL DEF Spec

-----------------------------------------------------------------------------
(***************************************************************************)
(* Ids.  A free id always exists: the smallest free one of the range, or   *)
(* the one above the largest in use, which is there because the ids in     *)
(* use are bounded.                                                        *)
(***************************************************************************)
LEMMA LeastExists ==
  ASSUME NEW T, T \subseteq Nat, T # {}
  PROVE  \E x \in T : \A y \in T : x <= y
<1>1. PICK x \in T : \A y \in T : << y, x >> \notin OpToRel(<, Nat)
  BY NatLessThanWellFounded, WFMin, Zenon
<1>2. \A y \in T : ~(y < x)
  BY <1>1 DEF OpToRel
<1> QED BY <1>2

LEMMA GreatestExists ==
  ASSUME NEW T, T \subseteq Nat, T # {}, NEW m \in Nat, \A x \in T : x <= m
  PROVE  \E x \in T : \A y \in T : x >= y
<1> DEFINE above == {k \in Nat : \A x \in T : x <= k}
<1>1. PICK k \in above : \A j \in above : k <= j
  <2>1. above \subseteq Nat /\ above # {}
    OBVIOUS
  <2> HIDE DEF above
  <2> QED BY <2>1, LeastExists
<1>2. k \in T
  <2> SUFFICES ASSUME k \notin T PROVE FALSE
    OBVIOUS
  <2>1. \A x \in T : x <= k - 1
    OBVIOUS
  <2>2. PICK x \in T : x < k
    <3>1. PICK x \in T : TRUE
      OBVIOUS
    <3>2. x \in Nat /\ x <= k /\ x # k
      OBVIOUS
    <3> QED BY <3>1, <3>2
  <2>3. k - 1 \in above
    BY <2>1, <2>2
  <2> QED BY <1>1, <2>3
<1> QED BY <1>1, <1>2

UidsBounded == \E m \in Nat : \A u \in usedUids : u <= m

UidInv == uid \in [Conns -> Nat] /\ UidsBounded /\ UidsOwned

LEMMA FreshUid ==
  ASSUME UidInv
  PROVE  FreeUid \in Nat /\ FreeUid \notin usedUids
<1> DEFINE free == 1 .. MaxUserId \ usedUids
<1>1. usedUids \subseteq Nat
  BY DEF UidInv, UidsOwned
<1>2. CASE free # {}
  <2>1. free \subseteq Nat
    BY SessionsAssumption
  <2>2. \E x \in free : \A y \in free : x <= y
    BY <1>2, <2>1, LeastExists
  <2>3. Min(free) \in free
    BY <2>2 DEF Min
  <2>4. FreeUid = Min(free)
    BY <1>2 DEF FreeUid
  <2> QED BY <2>1, <2>3, <2>4
<1>3. CASE free = {}
  <2>1. usedUids # {}
    BY <1>3, SessionsAssumption
  <2>2. \E x \in usedUids : \A y \in usedUids : x >= y
    BY <1>1, <2>1, GreatestExists DEF UidInv, UidsBounded
  <2>3. Max(usedUids) \in usedUids /\ \A y \in usedUids : Max(usedUids) >= y
    BY <2>2 DEF Max
  <2>4. FreeUid = Max(usedUids) + 1
    BY <1>3 DEF FreeUid
  <2>5. \A u \in Nat : (\A y \in usedUids : u >= y) => u + 1 \in Nat /\ u + 1 \notin usedUids
    BY <1>1
  <2> QED BY <1>1, <2>3, <2>4, <2>5
<1> QED BY <1>2, <1>3

LEMMA EnterUids ==
  ASSUME NameInv, UidInv, NEW c \in Conns, Enter(c)
  PROVE  UidInv'
<1> DEFINE new == FreeUid
<1>1. /\ user[c] = NoName /\ attempt[c] # NoName
      /\ user' = [user EXCEPT ![c] = attempt[c]]
      /\ uid' = [uid EXCEPT ![c] = new]
      /\ usedUids' = usedUids \cup {new}
  BY SessionsAssumption DEF Enter, NameInv, Reservations, Reserving
<1>2. new \in Nat /\ new \notin usedUids
  BY FreshUid
<1> HIDE DEF new
<1>3. /\ user \in [Conns -> Names \cup {NoName}]
      /\ uid \in [Conns -> Nat]
  BY DEF NameInv, Types, UidInv
<1>4. ASSUME NEW d \in Conns
      PROVE  /\ user'[d] # NoName <=> d = c \/ user[d] # NoName
             /\ uid'[d] = IF d = c THEN new ELSE uid[d]
  BY <1>1, <1>3
<1>5. uid' \in [Conns -> Nat]
  BY <1>1, <1>2, <1>3
<1>6. UidsBounded'
  <2>1. PICK m \in Nat : \A u \in usedUids : u <= m
    BY DEF UidInv, UidsBounded
  <2>2. \A u \in usedUids : u \in Nat
    BY DEF UidInv, UidsOwned
  <2>3. \A u \in usedUids' : u <= m + new
    BY <1>1, <1>2, <2>1, <2>2
  <2> QED BY <1>2, <2>3 DEF UidsBounded
<1>7. \A d \in Conns : user[d] # NoName => uid[d] \in usedUids
  BY DEF UidInv, UidsOwned
<1>8. usedUids' = {uid'[d] : d \in {e \in Conns : user'[e] # NoName}}
  <2>1. \A u \in usedUids' : \E d \in Conns : user'[d] # NoName /\ u = uid'[d]
    <3> SUFFICES ASSUME NEW u \in usedUids'
                 PROVE  \E d \in Conns : user'[d] # NoName /\ u = uid'[d]
      OBVIOUS
    <3>1. CASE u = new
      BY <1>4, <3>1
    <3>2. CASE u \in usedUids
      <4>1. PICK d \in Conns : user[d] # NoName /\ u = uid[d]
        BY <3>2 DEF UidInv, UidsOwned
      <4> QED BY <1>1, <1>4, <4>1
    <3> QED BY <1>1, <3>1, <3>2
  <2>2. \A d \in Conns : user'[d] # NoName => uid'[d] \in usedUids'
    BY <1>1, <1>4, <1>7
  <2> QED BY <2>1, <2>2
<1>9. \A d, e \in Conns :
        (d # e /\ user'[d] # NoName /\ user'[e] # NoName) => uid'[d] # uid'[e]
  BY <1>2, <1>4, <1>7 DEF UidInv, UidsOwned
<1> QED BY <1>5, <1>6, <1>8, <1>9 DEF UidInv, UidsOwned

LEMMA FinishUids ==
  ASSUME NameInv, UidInv, NEW c \in Conns, Finish(c)
  PROVE  UidInv'
<1>1. /\ user' = [user EXCEPT ![c] = NoName]
      /\ uid' = [uid EXCEPT ![c] = 0]
      /\ usedUids' = IF user[c] # NoName THEN usedUids \ {uid[c]} ELSE usedUids
  BY DEF Finish, UidsWithout
<1>2. /\ user \in [Conns -> Names \cup {NoName}]
      /\ uid \in [Conns -> Nat]
  BY DEF NameInv, Types, UidInv
<1>3. ASSUME NEW d \in Conns
      PROVE  /\ user'[d] # NoName <=> d # c /\ user[d] # NoName
             /\ d # c => uid'[d] = uid[d]
  BY <1>1, <1>2
<1>4. uid' \in [Conns -> Nat]
  BY <1>1, <1>2
<1>5. UidsBounded'
  BY <1>1 DEF UidInv, UidsBounded
<1>6. usedUids' = {uid'[d] : d \in {e \in Conns : user'[e] # NoName}}
  <2>1. \A u \in usedUids' : \E d \in Conns : user'[d] # NoName /\ u = uid'[d]
    <3> SUFFICES ASSUME NEW u \in usedUids'
                 PROVE  \E d \in Conns : user'[d] # NoName /\ u = uid'[d]
      OBVIOUS
    <3>1. PICK d \in Conns : user[d] # NoName /\ u = uid[d]
      BY <1>1 DEF UidInv, UidsOwned
    <3>2. d # c
      BY <1>1, <3>1
    <3> QED BY <1>3, <3>1, <3>2
  <2>2. ASSUME NEW d \in Conns, user'[d] # NoName
        PROVE  uid'[d] \in usedUids'
    <3>1. d # c /\ user[d] # NoName /\ uid'[d] = uid[d] /\ uid[d] \in usedUids
      BY <1>3, <2>2 DEF UidInv, UidsOwned
    <3>2. user[c] # NoName => uid[d] # uid[c]
      BY <3>1 DEF UidInv, UidsOwned
    <3> QED BY <1>1, <3>1, <3>2
  <2> QED BY <2>1, <2>2
<1>7. \A d, e \in Conns :
        (d # e /\ user'[d] # NoName /\ user'[e] # NoName) => uid'[d] # uid'[e]
  BY <1>3 DEF UidInv, UidsOwned
<1> QED BY <1>4, <1>5, <1>6, <1>7 DEF UidInv, UidsOwned

LEMMA NextUids == NameInv /\ UidInv /\ [Next]_vars => UidInv'
<1> SUFFICES ASSUME NameInv, UidInv, [Next]_vars PROVE UidInv'
  OBVIOUS
<1>1. UNCHANGED << user, uid, usedUids >> => UidInv'
  BY DEF UidInv, UidsBounded, UidsOwned
<1>2. ASSUME NEW c \in Conns, ThreadStep(c)
      PROVE  UidInv'
  <2>1. CASE AutoRegisters(c)
    BY <1>1, <2>1 DEF AutoRegisters, Reserve
  <2>2. CASE BanCheck(c) \/ Verify(c) \/ Create(c)
    BY <1>1, <2>2 DEF BanCheck, Verify, Create, Refuse, Proceed
  <2>3. CASE Flushed(c) \/ CheckKick(c) \/ Poll(c)
    BY <1>1, <2>3 DEF Flushed, CheckKick, Poll, Proceed
  <2> QED BY <1>2, <2>1, <2>2, <2>3, EnterUids, FinishUids DEF ThreadStep
<1>3. ASSUME NEW c \in Conns, ClientStep(c)
      PROVE  UidInv'
  BY <1>1, <1>3 DEF ClientStep, Connect, LoginPacket, RegisterPacket, Reserve, StartLobby,
                    Flush, Resume, Lost, Proceed
<1>4. CASE AdminStep \/ Distribute
  BY <1>1, <1>4 DEF AdminStep, Signal, Broadcast, Kick, BanName, BanSerial, BanKick,
                    SignalNotice, Distribute
<1>5. CASE UNCHANGED vars
  BY <1>1, <1>5 DEF vars
<1> QED BY <1>2, <1>3, <1>4, <1>5 DEF Next

(* However many players come and go, and above the range of ids too: two   *)
(* players online have different ids, and an id is in use exactly while    *)
(* its player is online (acquire_uid, release_uid, User.disconnect).       *)
THEOREM UidsAreOwned == Spec => []UidsOwned
<1>1. Init => UidInv
  BY DEF Init, UidInv, UidsBounded, UidsOwned
<1>2. UidInv => UidsOwned
  BY DEF UidInv
<1> QED BY <1>1, <1>2, NameInvHolds, NextUids, PTL DEF Spec
=============================================================================
