---------------------------- MODULE LobbyProofs ----------------------------
(***************************************************************************)
(* Proofs about the towns and the games of Lobby, for every number of      *)
(* connections, towns and game names and every max_channel_users.          *)
(*                                                                         *)
(* Towns: the lists of the towns and the records of the players agree, and *)
(* no town ever promises more places than it has.                          *)
(* Games: the game a player's record names exists and counts the player,   *)
(* and a reserved name belongs to somebody who still wants it; with        *)
(* clients that send no command already in force, games list their players *)
(* once, the browsers of all clients are right and none of them crashes.   *)
(***************************************************************************)
EXTENDS Lobby, FiniteSetTheorems, TLAPS

(* The part of the state the argument is about.                            *)
TownInv == TownsTypeOK /\ WhereaboutsAgree

(* Everything a step may do to the lists and records of a town apart from  *)
(* the steps that take a player out or in.                                 *)
SamePlaces ==
  UNCHANGED << gamechannel, requestedChannel, userlist, requested >>

-----------------------------------------------------------------------------
(* Leaving a town takes the player off its list and out of the record.     *)
LEMMA LeaveTownEffect ==
  ASSUME TownInv, NEW c \in Conns, LeaveTown(c)
  PROVE  /\ userlist' = [ch \in Channels |-> userlist[ch] \ {c}]
         /\ gamechannel' = [gamechannel EXCEPT ![c] = NoChannel]
         /\ heroes' \in [Conns -> SUBSET Conns]
         /\ departed' \in [Conns -> SUBSET Conns]
<1> USE DEF TownInv, TownsTypeOK, WhereaboutsAgree, InTown
<1>1. CASE ~InTown(c)
  <2>1. UNCHANGED << gamechannel, userlist, heroes, departed >>
    BY <1>1 DEF LeaveTown
  <2>2. gamechannel' = [gamechannel EXCEPT ![c] = NoChannel]
    BY <1>1, <2>1
  <2>3. \A ch \in Channels : c \notin userlist[ch]
    BY <1>1, TownsAssumption
  <2>4. userlist' = [ch \in Channels |-> userlist[ch] \ {c}]
    BY <2>1, <2>3
  <2> QED BY <2>1, <2>2, <2>4
<1>2. CASE InTown(c)
  <2> DEFINE ch == gamechannel[c]
  <2>1. ch \in Channels
    BY <1>2
  <2>2. /\ userlist' = [userlist EXCEPT ![ch] = @ \ {c}]
        /\ gamechannel' = [gamechannel EXCEPT ![c] = NoChannel]
        /\ heroes' = [HiddenFrom(heroes, {c}, userlist[ch]) EXCEPT ![c] = {}]
        /\ departed' = [departed EXCEPT ![c] = {}]
    BY <1>2 DEF LeaveTown
  <2>3. \A t \in Channels : t # ch => userlist[t] \ {c} = userlist[t]
    OBVIOUS
  <2>4. userlist' = [t \in Channels |-> userlist[t] \ {c}]
    <3>1. userlist \in [Channels -> SUBSET Conns]
      OBVIOUS
    <3> HIDE DEF TownInv, TownsTypeOK, WhereaboutsAgree, InTown, ch
    <3> QED BY <2>1, <2>2, <2>3, <3>1
  <2>5. HiddenFrom(heroes, {c}, userlist[ch]) \in [Conns -> SUBSET Conns]
    BY DEF HiddenFrom
  <2> QED BY <2>2, <2>4, <2>5
<1> QED BY <1>1, <1>2

(* Dropping a request takes the player out of every queue.                 *)
LEMMA RequestedWithoutEffect ==
  ASSUME TownInv, NEW c \in Conns
  PROVE  RequestedWithout(c) = [ch \in Channels |-> requested[ch] \ {c}]
<1>1. requested \in [Channels -> SUBSET Conns]
  BY DEF TownInv, TownsTypeOK
<1>2. \A ch \in Channels : requestedChannel[c] # ch => requested[ch] \ {c} = requested[ch]
  BY DEF TownInv, WhereaboutsAgree
<1>3. CASE requestedChannel[c] = NoChannel
  BY <1>1, <1>2, <1>3, TownsAssumption DEF RequestedWithout
<1>4. CASE requestedChannel[c] # NoChannel
  <2> DEFINE ch == requestedChannel[c]
  <2>1. ch \in Channels
    BY <1>4 DEF TownInv, TownsTypeOK
  <2>2. RequestedWithout(c) = [requested EXCEPT ![ch] = @ \ {c}]
    BY <1>4 DEF RequestedWithout
  <2> HIDE DEF ch
  <2> QED BY <1>1, <1>2, <2>1, <2>2 DEF ch
<1> QED BY <1>3, <1>4

(* Where nothing about towns changes, nothing can break.                   *)
LEMMA UnchangedTowns ==
  ASSUME TownInv, UNCHANGED townVars
  PROVE  TownInv'
BY DEF TownInv, TownsTypeOK, WhereaboutsAgree, townVars, InTown

-----------------------------------------------------------------------------
LEMMA InitTownInv == Init => TownInv
BY TownsAssumption
   DEF Init, TownsInit, TownInv, TownsTypeOK, WhereaboutsAgree, InTown

LEMMA LoginKeeps ==
  ASSUME TownInv, NEW c \in Conns, Login(c)
  PROVE  TownInv' /\ SamePlaces
BY DEF TownInv, TownsTypeOK, WhereaboutsAgree, Login, SamePlaces, InTown

LEMMA DisconnectKeeps ==
  ASSUME TownInv, NEW c \in Conns, Disconnect(c)
  PROVE  TownInv'
<1> USE DEF TownInv, TownsTypeOK, WhereaboutsAgree, InTown
<1>1. LeaveTown(c)
  BY DEF Disconnect
<1>2. requested' = [ch \in Channels |-> requested[ch] \ {c}]
  BY RequestedWithoutEffect DEF Disconnect
<1>3. /\ requestedChannel' = [requestedChannel EXCEPT ![c] = NoChannel]
      /\ status' = [status EXCEPT ![c] = "gone"]
      /\ UNCHANGED << herodata, poschanged, dirty >>
  BY DEF Disconnect
<1> QED BY <1>1, <1>2, <1>3, LeaveTownEffect, TownsAssumption

LEMMA LeaveGameChannelKeeps ==
  ASSUME TownInv, NEW c \in Conns, LeaveGameChannel(c)
  PROVE  TownInv'
<1> USE DEF TownInv, TownsTypeOK, WhereaboutsAgree, InTown
<1>1. LeaveTown(c) /\ UNCHANGED << status, requestedChannel, herodata,
                                   poschanged, requested, dirty >>
  BY DEF LeaveGameChannel
<1> QED BY <1>1, LeaveTownEffect, TownsAssumption

LEMMA RequestJoinKeeps ==
  ASSUME TownInv, NEW c \in Conns, NEW ch \in Channels, RequestJoin(c, ch)
  PROVE  TownInv'
<1> USE DEF TownInv, TownsTypeOK, WhereaboutsAgree, InTown
<1>1. LeaveTown(c) /\ status[c] = "online"
  BY DEF RequestJoin, Online
<1>2. PICK room \in BOOLEAN :
        /\ requested' = [t \in Channels |->
             IF t = ch /\ room THEN requested[t] \cup {c} ELSE requested[t] \ {c}]
        /\ requestedChannel' =
             [requestedChannel EXCEPT ![c] = IF room THEN ch ELSE NoChannel]
  <2> DEFINE queue == [t \in Channels |-> requested[t] \ {c}]
             room  == HasRoom(userlist'[ch], queue[ch])
  <2>1. RequestedWithout(c) = queue
    BY RequestedWithoutEffect
  <2>2. /\ requested' = [queue EXCEPT ![ch] = IF room THEN @ \cup {c} ELSE @]
        /\ requestedChannel' =
             [requestedChannel EXCEPT ![c] = IF room THEN ch ELSE NoChannel]
    BY <2>1 DEF RequestJoin
  <2>3. room \in BOOLEAN
    BY DEF HasRoom
  <2> HIDE DEF room
  <2>4. requested' = [t \in Channels |->
             IF t = ch /\ room THEN requested[t] \cup {c} ELSE requested[t] \ {c}]
    <3>1. (requested[ch] \ {c}) \cup {c} = requested[ch] \cup {c}
      OBVIOUS
    <3> HIDE DEF TownInv, TownsTypeOK, WhereaboutsAgree, InTown
    <3> QED BY <2>2, <3>1
  <2> QED BY <2>2, <2>3, <2>4
<1>3. UNCHANGED << status, herodata, poschanged, dirty >>
  BY DEF RequestJoin
<1> QED BY <1>1, <1>2, <1>3, LeaveTownEffect, TownsAssumption

LEMMA JoinGameChannelKeeps ==
  ASSUME TownInv, NEW c \in Conns, NEW ch \in Channels, JoinGameChannel(c, ch)
  PROVE  TownInv'
<1> USE DEF TownInv, TownsTypeOK, WhereaboutsAgree, InTown
<1>1. /\ status[c] = "online"
      /\ c \in requested[ch]
      /\ requested' = [requested EXCEPT ![ch] = @ \ {c}]
      /\ requestedChannel' = [requestedChannel EXCEPT ![c] = NoChannel]
      /\ userlist' = [userlist EXCEPT ![ch] = userlist[ch] \cup {c}]
      /\ gamechannel' = [gamechannel EXCEPT ![c] = ch]
      /\ UNCHANGED << status, herodata, poschanged, dirty, departed >>
  BY DEF JoinGameChannel, Online
<1>2. heroes' \in [Conns -> SUBSET Conns]
  BY DEF JoinGameChannel, ShownTo
<1>3. requestedChannel[c] = ch /\ gamechannel[c] = NoChannel
  BY <1>1, TownsAssumption
<1>4. TownsTypeOK'
  <2> HIDE DEF WhereaboutsAgree, InTown
  <2>1. userlist' \in [Channels -> SUBSET Conns]
    BY <1>1
  <2>2. requested' \in [Channels -> SUBSET Conns]
    BY <1>1
  <2>3. /\ gamechannel' \in [Conns -> Channels \cup {NoChannel}]
        /\ requestedChannel' \in [Conns -> Channels \cup {NoChannel}]
    BY <1>1
  <2> QED BY <1>1, <1>2, <2>1, <2>2, <2>3
<1>5. \A d \in Conns, t \in Channels :
        /\ (d \in userlist[t])' <=> (gamechannel[d] = t)'
        /\ (d \in requested[t])' <=> (requestedChannel[d] = t)'
  BY <1>1, <1>3, TownsAssumption
<1>6. \A d \in Conns :
        /\ InTown(d)' => (requestedChannel[d] = NoChannel)'
        /\ (status[d] \in {"new", "gone"})' =>
             (gamechannel[d] = NoChannel /\ requestedChannel[d] = NoChannel)'
  BY <1>1, <1>3, TownsAssumption
<1> QED BY <1>4, <1>5, <1>6

(* The remaining handlers move nobody.                                     *)
LEMMA OthersKeep ==
  ASSUME TownInv, NEW c \in Conns,
         \/ \E blob \in HeroBlobs : SetUserHeroData(c, blob)
         \/ UpdateHeroPos(c)
         \/ UpdatePos
         \/ ChatStep(c)
         \/ GameStep(c)
  PROVE  TownInv' /\ SamePlaces
<1> USE DEF TownInv, TownsTypeOK, WhereaboutsAgree, InTown, SamePlaces, townVars
<1>1. CASE \E blob \in HeroBlobs : SetUserHeroData(c, blob)
  BY <1>1, LobbyAssumption DEF SetUserHeroData, ShownTo
<1>2. CASE UpdateHeroPos(c)
  BY <1>2 DEF UpdateHeroPos, Busy
<1>3. CASE UpdatePos
  BY <1>3 DEF UpdatePos
<1>4. CASE ChatStep(c)
  BY <1>4 DEF ChatStep, JoinChat, CreateChat, LeaveChatChannel
<1>5. CASE GameStep(c)
  <2>1. CASE StartingGame(c)
    BY <2>1 DEF StartingGame, HiddenFrom, Playing
  <2>2. CASE \E n \in GameNames : CreateGameFails(c, n)
    BY <2>2 DEF CreateGameFails, Busy, Online
  <2>3. CASE ~StartingGame(c) /\ ~\E n \in GameNames : CreateGameFails(c, n)
    <3> HIDE DEF TownInv, TownsTypeOK, WhereaboutsAgree, InTown, townVars
    <3>1. (\E n \in GameNames : RequestCreateGame(c, n)) => UNCHANGED townVars
      BY DEF RequestCreateGame
    <3>2. (\E n \in GameNames, pw \in Passwords, npj \in CreateNpj,
              st \in CreateStatus, mx \in MaxPlayers : CreateGame(c, n, pw, npj, st, mx))
            => UNCHANGED townVars
      BY DEF CreateGame
    <3>3. (\E n \in GameNames, pw \in Passwords : JoinGame(c, n, pw))
            => UNCHANGED townVars
      BY DEF JoinGame
    <3>4. StopGame(c) => UNCHANGED townVars
      BY DEF StopGame
    <3>5. UNCHANGED townVars
      BY <1>5, <2>3, <3>1, <3>2, <3>3, <3>4 DEF GameStep
    <3> QED BY <3>5, UnchangedTowns DEF townVars
  <2> QED BY <2>1, <2>2, <2>3
<1> QED BY <1>1, <1>2, <1>3, <1>4, <1>5

LEMMA NextTownInv == TownInv /\ [Next]_vars => TownInv'
<1> SUFFICES ASSUME TownInv, [Next]_vars PROVE TownInv'
  OBVIOUS
<1>1. CASE UNCHANGED vars
  BY <1>1, UnchangedTowns DEF vars
<1>2. CASE UpdatePos
  <2>1. CASE Conns = {}
    BY <1>2, <2>1 DEF UpdatePos, TownInv, TownsTypeOK, WhereaboutsAgree, InTown
  <2>2. CASE Conns # {}
    BY <1>2, <2>2, OthersKeep
  <2> QED BY <2>1, <2>2
<1>3. ASSUME NEW c \in Conns, TownStep(c) \/ (c \in Talkers /\ ChatStep(c)) \/ GameStep(c)
      PROVE  TownInv'
  BY <1>3, LoginKeeps, DisconnectKeeps, LeaveGameChannelKeeps, RequestJoinKeeps,
     JoinGameChannelKeeps, OthersKeep DEF TownStep
<1> QED BY <1>1, <1>2, <1>3 DEF Next

-----------------------------------------------------------------------------
(***************************************************************************)
(* Capacity.  Every list is a set of connections, hence finite; only       *)
(* requestJoin adds to the sum of a town's lists, and it looked first.     *)
(***************************************************************************)
Occupied(ch) == Cardinality(userlist[ch]) + Cardinality(requested[ch])

LEMMA ListsFinite ==
  ASSUME TownInv, NEW ch \in Channels
  PROVE  /\ IsFiniteSet(userlist[ch]) /\ Cardinality(userlist[ch]) \in Nat
         /\ IsFiniteSet(requested[ch]) /\ Cardinality(requested[ch]) \in Nat
BY TownsAssumption, FS_Subset, FS_CardinalityType DEF TownInv, TownsTypeOK

LEMMA RemovalShrinks ==
  ASSUME NEW S, IsFiniteSet(S), NEW x
  PROVE  /\ Cardinality(S \ {x}) \in Nat
         /\ Cardinality(S \ {x}) <= Cardinality(S)
BY FS_RemoveElement, FS_Subset, FS_CardinalityType

(* Taking a player off lists never makes a town fuller.                    *)
LEMMA LeavingKeepsCapacity ==
  ASSUME TownInv, TownCapacity, NEW c \in Conns,
         userlist' = [ch \in Channels |-> userlist[ch] \ {c}],
         \/ requested' = requested
         \/ requested' = [ch \in Channels |-> requested[ch] \ {c}]
  PROVE  TownCapacity'
<1> SUFFICES ASSUME NEW ch \in Channels
             PROVE  Occupied(ch)' <= MaxUser
  BY DEF TownCapacity, Occupied
<1>1. Occupied(ch) <= MaxUser
  BY DEF TownCapacity, Occupied
<1>2. Cardinality(userlist[ch] \ {c}) <= Cardinality(userlist[ch])
  BY ListsFinite, RemovalShrinks
<1>3. Cardinality(requested[ch] \ {c}) <= Cardinality(requested[ch])
  BY ListsFinite, RemovalShrinks
<1>4. /\ Cardinality(userlist[ch] \ {c}) \in Nat
      /\ Cardinality(requested[ch] \ {c}) \in Nat
  BY ListsFinite, RemovalShrinks
<1>5. /\ userlist'[ch] = userlist[ch] \ {c}
      /\ requested'[ch] \in {requested[ch], requested[ch] \ {c}}
  OBVIOUS
<1>6. Cardinality(userlist[ch]) \in Nat /\ Cardinality(requested[ch]) \in Nat
  BY ListsFinite
<1>7. Cardinality(userlist[ch]) + Cardinality(requested[ch]) <= MaxUser
  BY <1>1 DEF Occupied
<1>8. Cardinality(userlist'[ch]) + Cardinality(requested'[ch]) <= MaxUser
  BY <1>2, <1>3, <1>4, <1>5, <1>6, <1>7, TownsAssumption
<1> QED BY <1>8 DEF Occupied

LEMMA RequestJoinKeepsCapacity ==
  ASSUME TownInv, TownCapacity, NEW c \in Conns, NEW ch \in Channels, RequestJoin(c, ch)
  PROVE  TownCapacity'
<1> DEFINE queue == [t \in Channels |-> requested[t] \ {c}]
           room  == HasRoom(userlist'[ch], queue[ch])
<1>1. userlist' = [t \in Channels |-> userlist[t] \ {c}]
  BY LeaveTownEffect DEF RequestJoin
<1>2. requested' = [queue EXCEPT ![ch] = IF room THEN @ \cup {c} ELSE @]
  BY RequestedWithoutEffect DEF RequestJoin
<1>3. CASE ~room
  <2>1. requested' = queue
    BY <1>2, <1>3
  <2> QED BY <1>1, <2>1, LeavingKeepsCapacity
<1>4. CASE room
  <2>1. SUFFICES ASSUME NEW t \in Channels
                 PROVE  Occupied(t)' <= MaxUser
    BY DEF TownCapacity, Occupied
  <2>2. /\ Cardinality(userlist[t] \ {c}) \in Nat
        /\ Cardinality(userlist[t] \ {c}) <= Cardinality(userlist[t])
        /\ Cardinality(requested[t] \ {c}) \in Nat
        /\ Cardinality(requested[t] \ {c}) <= Cardinality(requested[t])
        /\ IsFiniteSet(requested[t] \ {c})
    BY ListsFinite, RemovalShrinks, FS_RemoveElement
  <2>3. CASE t # ch
    <3>1. Occupied(t) <= MaxUser
      BY DEF TownCapacity, Occupied
    <3>2. requested'[t] = requested[t] \ {c}
      BY <1>2, <2>3
    <3> QED BY <1>1, <2>2, <3>1, <3>2, ListsFinite, TownsAssumption DEF Occupied
  <2>4. CASE t = ch
    <3>1. Cardinality(userlist[t] \ {c}) + Cardinality(requested[t] \ {c}) < MaxUser
      BY <1>1, <1>4, <2>4 DEF HasRoom
    <3>2. requested'[t] = (requested[t] \ {c}) \cup {c}
      BY <1>2, <1>4, <2>4
    <3>3. Cardinality((requested[t] \ {c}) \cup {c}) = Cardinality(requested[t] \ {c}) + 1
      BY <2>2, FS_AddElement
    <3> QED BY <1>1, <2>2, <3>1, <3>2, <3>3, TownsAssumption DEF Occupied
  <2> QED BY <2>3, <2>4
<1> QED BY <1>3, <1>4

(* A promised place becomes a taken one: the sum stays the same.           *)
LEMMA JoinKeepsCapacity ==
  ASSUME TownInv, TownCapacity, NEW c \in Conns, NEW ch \in Channels,
         JoinGameChannel(c, ch)
  PROVE  TownCapacity'
<1>1. /\ c \in requested[ch]
      /\ requested' = [requested EXCEPT ![ch] = @ \ {c}]
      /\ userlist' = [userlist EXCEPT ![ch] = userlist[ch] \cup {c}]
  BY DEF JoinGameChannel
<1>2. c \notin userlist[ch]
  BY <1>1, TownsAssumption DEF TownInv, TownsTypeOK, WhereaboutsAgree, InTown
<1>3. Cardinality(userlist[ch] \cup {c}) = Cardinality(userlist[ch]) + 1
  BY <1>2, ListsFinite, FS_AddElement
<1>4. Cardinality(requested[ch] \ {c}) = Cardinality(requested[ch]) - 1
  BY <1>1, ListsFinite, FS_RemoveElement
<1>5. SUFFICES ASSUME NEW t \in Channels
               PROVE  Occupied(t)' <= MaxUser
  BY DEF TownCapacity, Occupied
<1>6. Occupied(t) <= MaxUser
  BY DEF TownCapacity, Occupied
<1>7. CASE t = ch
  <2>1. /\ userlist'[t] = userlist[ch] \cup {c}
        /\ requested'[t] = requested[ch] \ {c}
    BY <1>1, <1>7 DEF TownInv, TownsTypeOK
  <2>2. /\ Cardinality(userlist[ch]) \in Nat
        /\ Cardinality(requested[ch]) \in Nat
    BY ListsFinite
  <2>3. Cardinality(userlist[ch]) + Cardinality(requested[ch]) <= MaxUser
    BY <1>6, <1>7 DEF Occupied
  <2>4. Cardinality(userlist'[t]) + Cardinality(requested'[t]) <= MaxUser
    BY <1>3, <1>4, <2>1, <2>2, <2>3, TownsAssumption
  <2> QED BY <2>4 DEF Occupied
<1>8. CASE t # ch
  <2>1. userlist'[t] = userlist[t] /\ requested'[t] = requested[t]
    BY <1>1, <1>8 DEF TownInv, TownsTypeOK
  <2> QED BY <1>6, <2>1 DEF Occupied
<1> QED BY <1>7, <1>8

LEMMA NextTownCapacity == TownInv /\ TownCapacity /\ [Next]_vars => TownCapacity'
<1> SUFFICES ASSUME TownInv, TownCapacity, [Next]_vars PROVE TownCapacity'
  OBVIOUS
<1>1. SamePlaces => TownCapacity'
  BY DEF SamePlaces, TownCapacity
<1>2. CASE UNCHANGED vars
  BY <1>1, <1>2 DEF vars, townVars, SamePlaces
<1>3. CASE UpdatePos
  BY <1>1, <1>3 DEF UpdatePos, SamePlaces
<1>4. ASSUME NEW c \in Conns, Disconnect(c) PROVE TownCapacity'
  BY <1>4, LeaveTownEffect, RequestedWithoutEffect, LeavingKeepsCapacity DEF Disconnect
<1>5. ASSUME NEW c \in Conns, LeaveGameChannel(c) PROVE TownCapacity'
  BY <1>5, LeaveTownEffect, LeavingKeepsCapacity DEF LeaveGameChannel
<1>6. ASSUME NEW c \in Conns, TownStep(c) \/ (c \in Talkers /\ ChatStep(c)) \/ GameStep(c)
      PROVE  TownCapacity'
  BY <1>1, <1>4, <1>5, <1>6, LoginKeeps, RequestJoinKeepsCapacity, JoinKeepsCapacity,
     OthersKeep DEF TownStep
<1> QED BY <1>2, <1>3, <1>6 DEF Next

LEMMA InitTownCapacity == Init => TownCapacity
BY FS_EmptySet, TownsAssumption DEF Init, TownsInit, TownCapacity

-----------------------------------------------------------------------------
(* At every moment the town's member list and request queue are exactly    *)
(* the players whose records say so, and nobody is in two places.          *)
THEOREM WhereaboutsTheorem == Spec => []WhereaboutsAgree
<1>1. Init => TownInv
  BY InitTownInv
<1>2. TownInv /\ [Next]_vars => TownInv'
  BY NextTownInv
<1>3. TownInv => WhereaboutsAgree
  BY DEF TownInv
<1> QED BY <1>1, <1>2, <1>3, PTL DEF Spec

(* Members and promised places never exceed max_channel_users, so a        *)
(* player who was promised a place finds one.                              *)
THEOREM CapacityTheorem == Spec => []TownCapacity
<1>1. Init => TownInv /\ TownCapacity
  BY InitTownInv, InitTownCapacity
<1>2. TownInv /\ TownCapacity /\ [Next]_vars => (TownInv /\ TownCapacity)'
  BY NextTownInv, NextTownCapacity
<1> QED BY <1>1, <1>2, PTL DEF Spec

-----------------------------------------------------------------------------
(***************************************************************************)
(* Figures, for one client c and one other player d at a time.             *)
(***************************************************************************)
Neighbours(c, d) == InTown(c) /\ d # c /\ gamechannel[d] = gamechannel[c]

FigureRight(c, d) ==
  /\ d \in heroes[c] => Neighbours(c, d)
  /\ Neighbours(c, d) /\ herodata[d] => d \in heroes[c] \cup departed[c]

FiguresRight == \A c, d \in Conns : FigureRight(c, d)

LEMMA FiguresGiveMatch == TownInv /\ FiguresRight => HeroesMatch
<1> SUFFICES ASSUME TownInv, FiguresRight PROVE HeroesMatch
  OBVIOUS
<1>1. ASSUME NEW c \in Conns, NEW d \in heroes[c]
      PROVE  InTown(c) /\ d \in userlist[gamechannel[c]] \ {c}
  <2>1. d \in Conns
    BY <1>1 DEF TownInv, TownsTypeOK
  <2>2. Neighbours(c, d)
    BY <1>1, <2>1 DEF FiguresRight, FigureRight
  <2>3. gamechannel[c] \in Channels
    BY <2>2 DEF Neighbours, InTown, TownInv, TownsTypeOK
  <2> QED BY <2>1, <2>2, <2>3 DEF Neighbours, TownInv, WhereaboutsAgree
<1>2. \A c, d \in Conns : Neighbours(c, d) /\ herodata[d] => d \in heroes[c] \cup departed[c]
  BY DEF FiguresRight, FigureRight
<1> QED BY <1>1, <1>2 DEF HeroesMatch, Neighbours

(* The leaver's figure goes from every screen of the town, and the leaver  *)
(* draws nobody any more.                                                  *)
LEMMA LeavingKeepsFigures ==
  ASSUME TownInv, FiguresRight, NEW c \in Conns, LeaveTown(c), herodata' = herodata
  PROVE  FiguresRight'
<1>1. CASE ~InTown(c)
  BY <1>1 DEF LeaveTown, FiguresRight, FigureRight, Neighbours, InTown
<1>2. CASE InTown(c)
  <2> DEFINE ch == gamechannel[c]
  <2>1. /\ heroes' = [HiddenFrom(heroes, {c}, userlist[ch]) EXCEPT ![c] = {}]
        /\ departed' = [departed EXCEPT ![c] = {}]
        /\ gamechannel' = [gamechannel EXCEPT ![c] = NoChannel]
    BY <1>2 DEF LeaveTown
  <2>2. \A d \in Conns : d \in userlist[ch] <=> gamechannel[d] = ch
    BY <1>2 DEF TownInv, TownsTypeOK, WhereaboutsAgree, InTown
  <2>3. ASSUME NEW d \in Conns
        PROVE  heroes'[d] = IF d = c THEN {}
                            ELSE IF gamechannel[d] = ch THEN heroes[d] \ {c} ELSE heroes[d]
    BY <2>1, <2>2 DEF HiddenFrom
  <2>4. ASSUME NEW d \in Conns
        PROVE  /\ departed'[d] = IF d = c THEN {} ELSE departed[d]
               /\ gamechannel'[d] = IF d = c THEN NoChannel ELSE gamechannel[d]
    BY <2>1 DEF TownInv, TownsTypeOK
  <2>5. ch # NoChannel
    BY <1>2 DEF InTown
  <2> HIDE DEF ch
  <2>6. ASSUME NEW a \in Conns, NEW d \in Conns
        PROVE  FigureRight(a, d)'
    <3>1. FigureRight(a, d)
      BY DEF FiguresRight
    <3>2. gamechannel[c] = ch
      BY DEF ch
    <3> QED BY <2>3, <2>4, <2>5, <3>1, <3>2 DEF FigureRight, Neighbours, InTown
  <2> QED BY <2>6 DEF FiguresRight
<1> QED BY <1>1, <1>2

(* The newcomer is enumerated the figures of the town and shown to it.     *)
LEMMA JoiningKeepsFigures ==
  ASSUME TownInv, FiguresRight, NEW c \in Conns, NEW ch \in Channels,
         JoinGameChannel(c, ch)
  PROVE  FiguresRight'
<1>1. /\ heroes' = [ShownTo(heroes, c, IF herodata[c] THEN userlist[ch] ELSE {})
                      EXCEPT ![c] = {d \in userlist[ch] : herodata[d]}]
      /\ gamechannel' = [gamechannel EXCEPT ![c] = ch]
      /\ UNCHANGED << herodata, departed >>
      /\ c \in requested[ch]
  BY DEF JoinGameChannel
<1>2. gamechannel[c] = NoChannel
  BY <1>1, TownsAssumption DEF TownInv, WhereaboutsAgree, InTown
<1>3. \A d \in Conns : d \in userlist[ch] <=> gamechannel[d] = ch
  BY DEF TownInv, WhereaboutsAgree
<1>4. ch # NoChannel
  BY TownsAssumption
<1>5. ASSUME NEW d \in Conns
      PROVE  /\ heroes'[d] = IF d = c THEN {e \in userlist[ch] : herodata[e]}
                             ELSE IF herodata[c] /\ gamechannel[d] = ch
                                  THEN heroes[d] \cup {c} ELSE heroes[d]
             /\ gamechannel'[d] = IF d = c THEN ch ELSE gamechannel[d]
  BY <1>1, <1>3 DEF ShownTo, TownInv, TownsTypeOK
<1>6. ASSUME NEW a \in Conns, NEW d \in Conns
      PROVE  FigureRight(a, d)'
  <2>1. FigureRight(a, d) /\ FigureRight(a, c)
    BY DEF FiguresRight
  <2>2. Neighbours(a, d)' <=> \/ a # c /\ d # c /\ Neighbours(a, d)
                              \/ a = c /\ d # c /\ gamechannel[d] = ch
                              \/ a # c /\ d = c /\ gamechannel[a] = ch
    BY <1>4, <1>5 DEF Neighbours, InTown
  <2>3. CASE a = c
    <3>1. d \in heroes'[a] <=> gamechannel[d] = ch /\ herodata[d]
      BY <1>3, <1>5, <2>3
    <3>2. gamechannel[d] = ch => d # c
      BY <1>2, <1>4
    <3> QED BY <1>1, <2>2, <2>3, <3>1, <3>2 DEF FigureRight
  <2>4. CASE a # c /\ d = c
    <3>1. c \notin heroes[a]
      BY <1>2, <2>1, <2>4 DEF FigureRight, Neighbours, InTown
    <3>2. c \in heroes'[a] <=> herodata[c] /\ gamechannel[a] = ch
      BY <1>5, <2>4, <3>1
    <3> QED BY <1>1, <2>2, <2>4, <3>2 DEF FigureRight
  <2>5. CASE a # c /\ d # c
    <3>1. d \in heroes'[a] <=> d \in heroes[a]
      BY <1>5, <2>5
    <3> QED BY <1>1, <2>1, <2>2, <2>5, <3>1 DEF FigureRight
  <2> QED BY <2>3, <2>4, <2>5
<1> QED BY <1>6 DEF FiguresRight

LEMMA HeroDataKeepsFigures ==
  ASSUME TownInv, FiguresRight, NEW c \in Conns, NEW blob \in HeroBlobs,
         SetUserHeroData(c, blob)
  PROVE  FiguresRight'
<1>1. /\ herodata' = [herodata EXCEPT ![c] = blob]
      /\ UNCHANGED << gamechannel, departed >>
  BY DEF SetUserHeroData
<1>2. ASSUME NEW d \in Conns
      PROVE  heroes'[d] = IF blob /\ Neighbours(d, c) THEN heroes[d] \cup {c} ELSE heroes[d]
  <2>1. CASE InTown(c) /\ blob
    <3>1. heroes' = ShownTo(heroes, c, userlist[gamechannel[c]] \ {c})
      BY <2>1 DEF SetUserHeroData
    <3>2. d \in userlist[gamechannel[c]] \ {c} <=> Neighbours(d, c)
      BY <2>1 DEF TownInv, TownsTypeOK, WhereaboutsAgree, InTown, Neighbours
    <3> QED BY <2>1, <3>1, <3>2 DEF ShownTo
  <2>2. CASE ~(InTown(c) /\ blob)
    BY <2>2 DEF SetUserHeroData, Neighbours, InTown
  <2> QED BY <2>1, <2>2
<1>3. ASSUME NEW d \in Conns
      PROVE  herodata'[d] = IF d = c THEN blob ELSE herodata[d]
  BY <1>1 DEF TownInv, TownsTypeOK
<1>4. ASSUME NEW a \in Conns, NEW d \in Conns
      PROVE  FigureRight(a, d)'
  <2>1. FigureRight(a, d)
    BY DEF FiguresRight
  <2>2. Neighbours(a, d)' <=> Neighbours(a, d)
    BY <1>1 DEF Neighbours, InTown
  <2> QED BY <1>1, <1>2, <1>3, <2>1, <2>2 DEF FigureRight
<1> QED BY <1>4 DEF FiguresRight

(* Who starts a game leaves the figures of the others and is known to      *)
(* have departed.                                                          *)
LEMMA StartingKeepsFigures ==
  ASSUME TownInv, FiguresRight, NEW c \in Conns, StartingGame(c)
  PROVE  FiguresRight'
<1> DEFINE g  == games[game[c][1]][game[c][2]]
           to == Outsiders(g, game[c][1])
           P  == Playing(g)
<1>1. /\ heroes' = HiddenFrom(heroes, P, to)
      /\ departed' = [d \in Conns |-> IF d \in to THEN departed[d] \cup P ELSE departed[d]]
      /\ UNCHANGED << gamechannel, herodata >>
  BY DEF StartingGame
<1> HIDE DEF g, to, P
<1>2. ASSUME NEW a \in Conns, NEW d \in Conns
      PROVE  FigureRight(a, d)'
  <2>1. FigureRight(a, d)
    BY DEF FiguresRight
  <2>2. Neighbours(a, d)' <=> Neighbours(a, d)
    BY <1>1 DEF Neighbours, InTown
  <2> QED BY <1>1, <2>1, <2>2 DEF FigureRight, HiddenFrom
<1> QED BY <1>2 DEF FiguresRight

(* Every other command of a chat or game leaves the figures alone.         *)
LEMMA ChatStepKeepsTowns ==
  ASSUME NEW c \in Conns, ChatStep(c)
  PROVE  UNCHANGED townVars
BY DEF ChatStep, JoinChat, CreateChat, LeaveChatChannel

LEMMA GameStepKeepsFigures ==
  ASSUME NEW c \in Conns, GameStep(c), ~StartingGame(c)
  PROVE  UNCHANGED << gamechannel, herodata, heroes, departed >>
<1>1. \A n \in GameNames : RequestCreateGame(c, n) => UNCHANGED townVars
  BY DEF RequestCreateGame
<1>2. \A n \in GameNames, pw \in Passwords, npj \in CreateNpj, st \in CreateStatus,
         mx \in MaxPlayers : CreateGame(c, n, pw, npj, st, mx) => UNCHANGED townVars
  BY DEF CreateGame
<1>3. \A n \in GameNames : CreateGameFails(c, n)
        => UNCHANGED << gamechannel, herodata, heroes, departed >>
  BY DEF CreateGameFails
<1>4. \A n \in GameNames, pw \in Passwords : JoinGame(c, n, pw) => UNCHANGED townVars
  BY DEF JoinGame
<1>5. StopGame(c) => UNCHANGED townVars
  BY DEF StopGame
<1>6. UNCHANGED townVars => UNCHANGED << gamechannel, herodata, heroes, departed >>
  BY DEF townVars
<1> QED BY <1>1, <1>2, <1>3, <1>4, <1>5, <1>6 DEF GameStep

LEMMA NextFigures == TownInv /\ FiguresRight /\ [Next]_vars => FiguresRight'
<1> SUFFICES ASSUME TownInv, FiguresRight, [Next]_vars PROVE FiguresRight'
  OBVIOUS
<1>1. UNCHANGED << gamechannel, herodata, heroes, departed >> => FiguresRight'
  BY DEF FiguresRight, FigureRight, Neighbours, InTown
<1>2. CASE UNCHANGED vars \/ UpdatePos
  BY <1>1, <1>2 DEF vars, townVars, UpdatePos
<1>3. ASSUME NEW c \in Conns, TownStep(c)
      PROVE  FiguresRight'
  <2>1. CASE Disconnect(c) \/ LeaveGameChannel(c) \/ \E ch \in Channels : RequestJoin(c, ch)
    BY <2>1, LeavingKeepsFigures DEF Disconnect, LeaveGameChannel, RequestJoin
  <2>2. CASE Login(c) \/ UpdateHeroPos(c)
    BY <1>1, <2>2 DEF Login, UpdateHeroPos
  <2> QED BY <1>3, <2>1, <2>2, JoiningKeepsFigures, HeroDataKeepsFigures DEF TownStep
<1>4. ASSUME NEW c \in Conns, ChatStep(c)
      PROVE  FiguresRight'
  BY <1>1, <1>4, ChatStepKeepsTowns DEF townVars
<1>5. ASSUME NEW c \in Conns, GameStep(c)
      PROVE  FiguresRight'
  BY <1>1, <1>5, GameStepKeepsFigures, StartingKeepsFigures
<1> QED BY <1>2, <1>3, <1>4, <1>5 DEF Next

(* Whoever comes, goes, changes the hero or starts a game: a client draws  *)
(* players of its own town only, and of all of them who have hero data,    *)
(* except those it saw leave into a running game (joinChannel,             *)
(* leaveChannel, _setuserherodata, startingGame).                          *)
THEOREM HeroesTheorem == Spec => []HeroesMatch
<1>1. Init => FiguresRight
  BY DEF Init, TownsInit, FiguresRight, FigureRight, Neighbours, InTown
<1>2. TownInv /\ FiguresRight /\ [Next]_vars => FiguresRight'
  BY NextFigures
<1> QED BY <1>1, <1>2, InitTownInv, NextTownInv, FiguresGiveMatch, PTL DEF Spec

-----------------------------------------------------------------------------
(***************************************************************************)
(* Games.                                                                  *)
(***************************************************************************)
GameTypes ==
  /\ gamechannel \in [Conns -> Channels \cup {NoChannel}]
  /\ requestedGame \in [Conns -> GameNames \cup {NoName}]
  /\ game \in [Conns -> (Channels \X GameNames) \cup {NoGame}]
  /\ gameRequests \in [Channels -> [GameNames -> Conns \cup {NoConn}]]
  /\ games \in [Channels -> [GameNames -> GameEntry \cup {NoEntry}]]

(* The two properties for one game and one player at a time.               *)
PlayerCounted(c) ==
  game[c] # NoGame =>
    /\ gamechannel[c] = game[c][1]
    /\ Entry(game[c]) # NoEntry
    /\ Entry(game[c]).players[c] > 0

GameNotEmpty(ch, n) == games[ch][n] # NoEntry => Playing(games[ch][n]) # {}

ReservationWanted(ch, n) ==
  \A c \in Conns : gameRequests[ch][n] = c =>
    /\ games[ch][n] = NoEntry
    /\ (requestedGame[c] = n /\ gamechannel[c] = ch) \/ c \in nameless

WishReserved(c, ch, n) ==
  (requestedGame[c] = n /\ gamechannel[c] = ch /\ n # EmptyName)
    => gameRequests[ch][n] = c

(* A wish that outlives a stay in a town is for the empty name.            *)
WishKnown(c) ==
  /\ InTown(c) \/ requestedGame[c] \in {NoName, EmptyName}
  /\ requestedGame[c] = EmptyName => c \in nameless

GameInv ==
  /\ GameTypes
  /\ \A c \in Conns : PlayerCounted(c) /\ WishKnown(c)
  /\ \A ch \in Channels, n \in GameNames :
       GameNotEmpty(ch, n) /\ ReservationWanted(ch, n)
  /\ \A c \in Conns, ch \in Channels, n \in GameNames : WishReserved(c, ch, n)

LEMMA GameInvImplies == GameInv => GameMembership /\ ReservationsOwned
<1> SUFFICES ASSUME GameInv PROVE GameMembership /\ ReservationsOwned
  OBVIOUS
<1>1. GameMembership
  BY DEF GameInv, GameMembership, PlayerCounted, GameNotEmpty
<1>2. ReservationsOwned
  BY DEF GameInv, GameTypes, ReservationsOwned, ReservationWanted, WishReserved
<1> QED BY <1>1, <1>2

-----------------------------------------------------------------------------
(***************************************************************************)
(* What GameEntry.remove and stopGame do for one player.                   *)
(***************************************************************************)
LEMMA EntryWithoutEffect ==
  ASSUME GameInv, NEW c \in Conns, game[c] # NoGame
  PROVE  /\ game[c][1] \in Channels /\ game[c][2] \in GameNames
         /\ game[c] = << game[c][1], game[c][2] >>
         /\ EntryWithout(c) \in GameEntry
         /\ \A d \in Conns \ {c} : EntryWithout(c).players[d] = Entry(game[c]).players[d]
         /\ EntryWithout(c).players[c] = Entry(game[c]).players[c] - 1
<1>1. game[c] \in Channels \X GameNames
  BY DEF GameInv, GameTypes
<1>2. Entry(game[c]) \in GameEntry /\ Entry(game[c]).players[c] > 0
  BY <1>1 DEF GameInv, GameTypes, PlayerCounted, Entry
<1>3. Entry(game[c]).players \in [Conns -> Nat]
  BY <1>2 DEF GameEntry
<1> DEFINE left == [Entry(game[c]).players EXCEPT ![c] = @ - 1]
<1>4. left \in [Conns -> Nat]
  BY <1>2, <1>3
<1>5. EntryWithout(c) = [Entry(game[c]) EXCEPT !.players = left]
  BY <1>2, <1>3 DEF EntryWithout, GameEntry
<1> HIDE DEF left
<1>6. EntryWithout(c) \in GameEntry /\ EntryWithout(c).players = left
  BY <1>2, <1>4, <1>5 DEF GameEntry
<1> QED BY <1>1, <1>3, <1>6 DEF left

LEMMA PlayerIsCounted ==
  ASSUME GameInv, NEW c \in Conns, NEW ch \in Channels, NEW n \in GameNames,
         game[c] = << ch, n >>
  PROVE  /\ gamechannel[c] = ch
         /\ games[ch][n] # NoEntry
         /\ games[ch][n].players[c] > 0
<1>1. game[c] # NoGame /\ game[c][1] = ch /\ game[c][2] = n
  BY GamesAssumption
<1>2. /\ gamechannel[c] = game[c][1]
      /\ Entry(game[c]) # NoEntry
      /\ Entry(game[c]).players[c] > 0
  BY <1>1 DEF GameInv, PlayerCounted
<1> QED BY <1>1, <1>2 DEF Entry

LEMMA GamesWithoutEffect ==
  ASSUME GameInv, NEW c \in Conns
  PROVE  /\ GamesWithout(c) \in [Channels -> [GameNames -> GameEntry \cup {NoEntry}]]
         /\ \A ch \in Channels, n \in GameNames :
              /\ game[c] # << ch, n >> => GamesWithout(c)[ch][n] = games[ch][n]
              /\ games[ch][n] = NoEntry => GamesWithout(c)[ch][n] = NoEntry
              /\ GamesWithout(c)[ch][n] # NoEntry => Playing(GamesWithout(c)[ch][n]) # {}
         /\ \A d \in Conns \ {c}, ch \in Channels, n \in GameNames :
              game[d] = << ch, n >> =>
                /\ GamesWithout(c)[ch][n] # NoEntry
                /\ GamesWithout(c)[ch][n].players[d] > 0
<1>1. games \in [Channels -> [GameNames -> GameEntry \cup {NoEntry}]]
  BY DEF GameInv, GameTypes
<1>2. \A d \in Conns, ch \in Channels, n \in GameNames :
        game[d] = << ch, n >> => games[ch][n] # NoEntry /\ games[ch][n].players[d] > 0
  BY PlayerIsCounted
<1>3. \A ch \in Channels, n \in GameNames :
        games[ch][n] # NoEntry => Playing(games[ch][n]) # {}
  BY DEF GameInv, GameNotEmpty
<1>4. CASE game[c] = NoGame
  BY <1>1, <1>2, <1>3, <1>4, GamesAssumption DEF GamesWithout
<1>5. CASE game[c] # NoGame
  <2> DEFINE ch0 == game[c][1]
             n0 == game[c][2]
             left == EntryWithout(c)
             new == IF Playing(left) = {} THEN NoEntry ELSE left
  <2>1. /\ ch0 \in Channels /\ n0 \in GameNames /\ game[c] = << ch0, n0 >>
        /\ left \in GameEntry
        /\ \A d \in Conns \ {c} : left.players[d] = games[ch0][n0].players[d]
    BY <1>5, EntryWithoutEffect DEF Entry
  <2>2. GamesWithout(c) = [games EXCEPT ![ch0][n0] = new]
    BY <1>5 DEF GamesWithout
  <2>3. \A d \in Conns \ {c} : game[d] = << ch0, n0 >> => d \in Playing(left)
    BY <1>2, <2>1 DEF Playing
  <2>4. new \in GameEntry \cup {NoEntry}
    BY <2>1
  <2>5. new # NoEntry => new = left /\ Playing(new) # {}
    BY <2>1, NoEntryAssumption
  <2>6. games[ch0][n0] # NoEntry
    BY <1>2, <2>1
  <2> HIDE DEF ch0, n0, new
  <2>7. GamesWithout(c) \in [Channels -> [GameNames -> GameEntry \cup {NoEntry}]]
    BY <1>1, <2>1, <2>2, <2>4
  <2>8. \A ch \in Channels, n \in GameNames :
          GamesWithout(c)[ch][n] = IF ch = ch0 /\ n = n0 THEN new ELSE games[ch][n]
    BY <1>1, <2>1, <2>2
  <2>9. \A d \in Conns \ {c} :
          game[d] = << ch0, n0 >> => new # NoEntry /\ new.players[d] > 0
    BY <1>2, <2>1, <2>3, NoEntryAssumption DEF new
  <2> HIDE DEF left
  <2>10. \A ch \in Channels, n \in GameNames :
           /\ game[c] # << ch, n >> => GamesWithout(c)[ch][n] = games[ch][n]
           /\ games[ch][n] = NoEntry => GamesWithout(c)[ch][n] = NoEntry
           /\ GamesWithout(c)[ch][n] # NoEntry => Playing(GamesWithout(c)[ch][n]) # {}
    BY <1>3, <2>1, <2>5, <2>6, <2>8
  <2>11. \A d \in Conns \ {c}, ch \in Channels, n \in GameNames :
           game[d] = << ch, n >> =>
             GamesWithout(c)[ch][n] # NoEntry /\ GamesWithout(c)[ch][n].players[d] > 0
    BY <1>2, <2>1, <2>8, <2>9
  <2> QED BY <2>7, <2>10, <2>11
<1> QED BY <1>4, <1>5

LEMMA GamesWithoutNotEmpty ==
  ASSUME GameInv, NEW c \in Conns, NEW ch \in Channels, NEW n \in GameNames
  PROVE  GamesWithout(c)[ch][n] # NoEntry => Playing(GamesWithout(c)[ch][n]) # {}
BY GamesWithoutEffect

LEMMA RequestsWithoutEffect ==
  ASSUME GameInv, NEW c \in Conns
  PROVE  /\ RequestsWithout(c) \in [Channels -> [GameNames -> Conns \cup {NoConn}]]
         /\ \A ch \in Channels, n \in GameNames :
              /\ gameRequests[ch][n] # c => RequestsWithout(c)[ch][n] = gameRequests[ch][n]
              /\ RequestsWithout(c)[ch][n] = c => gameRequests[ch][n] = c /\ c \in nameless
              /\ gameRequests[ch][n] = c => RequestsWithout(c)[ch][n] \in {NoConn, c}
         /\ WishWithout(c) \in {NoName, EmptyName}
         /\ WishWithout(c) = EmptyName => c \in nameless
         /\ WishWithout(c) \in GameNames \cup {NoName}
<1>1. gameRequests \in [Channels -> [GameNames -> Conns \cup {NoConn}]]
  BY DEF GameInv, GameTypes
<1>2. \A ch \in Channels, n \in GameNames :
        gameRequests[ch][n] = c => (requestedGame[c] = n /\ gamechannel[c] = ch) \/ c \in nameless
  BY DEF GameInv, ReservationWanted
<1>3. WishKnown(c) /\ requestedGame[c] \in GameNames \cup {NoName}
  BY DEF GameInv, GameTypes
<1>4. /\ WishWithout(c) \in {NoName, EmptyName}
      /\ WishWithout(c) = EmptyName => c \in nameless
      /\ WishWithout(c) \in GameNames \cup {NoName}
  BY <1>3, GamesAssumption DEF WishWithout, GivesUpName, WishKnown
<1>5. CASE ~GivesUpName(c)
  <2>1. RequestsWithout(c) = gameRequests
    BY <1>5 DEF RequestsWithout
  <2>2. ASSUME NEW ch \in Channels, NEW n \in GameNames, gameRequests[ch][n] = c,
               c \notin nameless
        PROVE  FALSE
    <3>1. requestedGame[c] = n /\ gamechannel[c] = ch
      BY <1>2, <2>2
    <3>2. InTown(c) /\ n # NoName
      BY <3>1, GamesAssumption, TownsAssumption DEF InTown
    <3>3. n # EmptyName
      BY <1>3, <2>2, <3>1 DEF WishKnown
    <3> QED BY <1>5, <3>1, <3>2, <3>3 DEF GivesUpName
  <2> QED BY <1>1, <1>4, <2>1, <2>2
<1>6. CASE GivesUpName(c)
  <2> DEFINE ch0 == gamechannel[c]
             n0 == requestedGame[c]
  <2>1. ch0 \in Channels /\ n0 \in GameNames /\ n0 # EmptyName
    BY <1>3, <1>6 DEF GameInv, GameTypes, InTown, GivesUpName
  <2>2. gameRequests[ch0][n0] = c
    BY <2>1 DEF GameInv, WishReserved
  <2>3. RequestsWithout(c) = [gameRequests EXCEPT ![ch0][n0] = NoConn]
    BY <1>6 DEF RequestsWithout
  <2> HIDE DEF ch0, n0
  <2>4. \A ch \in Channels, n \in GameNames :
          gameRequests[ch][n] = c => (ch = ch0 /\ n = n0) \/ c \in nameless
    BY <1>2 DEF ch0, n0
  <2>5. \A ch \in Channels, n \in GameNames :
          RequestsWithout(c)[ch][n] = IF ch = ch0 /\ n = n0 THEN NoConn ELSE gameRequests[ch][n]
    BY <1>1, <2>1, <2>3
  <2>6. RequestsWithout(c) \in [Channels -> [GameNames -> Conns \cup {NoConn}]]
    BY <1>1, <2>1, <2>3
  <2> QED BY <1>4, <2>2, <2>4, <2>5, <2>6, GamesAssumption
<1> QED BY <1>5, <1>6

LEMMA SameGames ==
  ASSUME GameInv,
         UNCHANGED << gamechannel, requestedGame, game, gameRequests, games, nameless >>
  PROVE  GameInv'
BY DEF GameInv, GameTypes, PlayerCounted, GameNotEmpty, ReservationWanted, WishReserved,
       WishKnown, InTown, Entry, Playing

(* A player gives the game up, and the reserved name with it or not, and   *)
(* stays in the town or leaves it with both.                               *)
LEMMA GivingUpKeeps ==
  ASSUME GameInv, NEW c \in Conns,
         games' = GamesWithout(c),
         game' = [game EXCEPT ![c] = NoGame],
         nameless' = nameless,
         \/ UNCHANGED << gameRequests, requestedGame, gamechannel >>
         \/ /\ gameRequests' = RequestsWithout(c)
            /\ requestedGame' = [requestedGame EXCEPT ![c] = WishWithout(c)]
            /\ gamechannel' \in {gamechannel, [gamechannel EXCEPT ![c] = NoChannel]}
  PROVE  GameInv'
<1>1. GameTypes
  BY DEF GameInv
<1>2. GameTypes'
  <2>1. gamechannel' \in [Conns -> Channels \cup {NoChannel}]
    BY <1>1 DEF GameTypes
  <2>2. /\ requestedGame' \in [Conns -> GameNames \cup {NoName}]
        /\ game' \in [Conns -> (Channels \X GameNames) \cup {NoGame}]
    BY <1>1, RequestsWithoutEffect DEF GameTypes
  <2>3. gameRequests' \in [Channels -> [GameNames -> Conns \cup {NoConn}]]
    BY <1>1, RequestsWithoutEffect DEF GameTypes
  <2> QED BY <2>1, <2>2, <2>3, GamesWithoutEffect DEF GameTypes
<1>3. ASSUME NEW d \in Conns
      PROVE  PlayerCounted(d)' /\ WishKnown(d)'
  <2>1. WishKnown(d)'
    BY <1>1, RequestsWithoutEffect DEF GameInv, GameTypes, WishKnown, InTown
  <2>2. CASE d = c
    BY <1>1, <2>1, <2>2 DEF GameTypes, PlayerCounted
  <2>3. CASE d # c
    <3>1. game'[d] = game[d] /\ gamechannel'[d] = gamechannel[d]
      BY <1>1, <2>3 DEF GameTypes
    <3>2. CASE game[d] = NoGame
      BY <2>1, <3>1, <3>2 DEF PlayerCounted
    <3>3. CASE game[d] # NoGame
      <4>1. PICK ch \in Channels, n \in GameNames : game[d] = << ch, n >>
        BY <1>1, <3>3 DEF GameTypes
      <4>2. games'[ch][n] # NoEntry /\ games'[ch][n].players[d] > 0
        BY <2>3, <4>1, GamesWithoutEffect
      <4>3. gamechannel[d] = ch
        <5>1. gamechannel[d] = game[d][1]
          BY <3>3 DEF GameInv, PlayerCounted
        <5>2. game[d][1] = ch
          BY <4>1
        <5> QED BY <5>1, <5>2
      <4> QED BY <2>1, <3>1, <4>1, <4>2, <4>3 DEF PlayerCounted, Entry
    <3> QED BY <3>2, <3>3
  <2> QED BY <2>2, <2>3
<1>4. ASSUME NEW ch \in Channels, NEW n \in GameNames
      PROVE  GameNotEmpty(ch, n)' /\ ReservationWanted(ch, n)'
  <2>1. GameNotEmpty(ch, n)'
    <3>1. GamesWithout(c)[ch][n] # NoEntry => Playing(GamesWithout(c)[ch][n]) # {}
      BY GamesWithoutNotEmpty
    <3>2. games'[ch][n] # NoEntry => Playing(games'[ch][n]) # {}
      BY <3>1
    <3> QED BY <3>2 DEF GameNotEmpty, Playing
  <2>2. ASSUME NEW d \in Conns, gameRequests'[ch][n] = d
        PROVE  /\ games'[ch][n] = NoEntry
               /\ (requestedGame'[d] = n /\ gamechannel'[d] = ch) \/ d \in nameless
    <3>1. gameRequests[ch][n] = d
      BY <2>2, RequestsWithoutEffect, GamesAssumption
    <3>2. /\ games[ch][n] = NoEntry
          /\ (requestedGame[d] = n /\ gamechannel[d] = ch) \/ d \in nameless
      BY <3>1 DEF GameInv, ReservationWanted
    <3>3. games'[ch][n] = NoEntry
      BY <3>2, GamesWithoutEffect
    <3>4. d = c => UNCHANGED << gameRequests, requestedGame, gamechannel >> \/ d \in nameless
      BY <2>2, RequestsWithoutEffect
    <3> QED BY <1>1, <3>2, <3>3, <3>4 DEF GameTypes
  <2> QED BY <2>1, <2>2 DEF ReservationWanted
<1>5. ASSUME NEW d \in Conns, NEW ch \in Channels, NEW n \in GameNames
      PROVE  WishReserved(d, ch, n)'
  <2>1. CASE UNCHANGED << gameRequests, requestedGame, gamechannel >>
    BY <2>1 DEF GameInv, WishReserved
  <2>2. CASE requestedGame' = [requestedGame EXCEPT ![c] = WishWithout(c)]
             /\ gameRequests' = RequestsWithout(c)
             /\ gamechannel' \in {gamechannel, [gamechannel EXCEPT ![c] = NoChannel]}
    <3>1. CASE d = c
      BY <1>1, <2>2, <3>1, RequestsWithoutEffect, GamesAssumption DEF WishReserved, GameTypes
    <3>2. CASE d # c
      BY <1>1, <2>2, <3>2, RequestsWithoutEffect DEF GameInv, WishReserved, GameTypes
    <3> QED BY <3>1, <3>2
  <2> QED BY <2>1, <2>2
<1> QED BY <1>2, <1>3, <1>4, <1>5 DEF GameInv

LEMMA LeaveTownKeepsGames ==
  ASSUME GameInv, NEW c \in Conns, LeaveTown(c)
  PROVE  GameInv'
<1>1. CASE ~InTown(c)
  <2>1. UNCHANGED << gamechannel, requestedGame, game, gameRequests, games, nameless >>
    BY <1>1 DEF LeaveTown, gameVars
  <2> QED BY <2>1, SameGames
<1>2. CASE InTown(c)
  <2>1. /\ games' = GamesWithout(c)
        /\ game' = [game EXCEPT ![c] = NoGame]
        /\ gameRequests' = RequestsWithout(c)
        /\ requestedGame' = [requestedGame EXCEPT ![c] = WishWithout(c)]
        /\ nameless' = nameless
        /\ gamechannel' = [gamechannel EXCEPT ![c] = NoChannel]
    BY <1>2 DEF LeaveTown
  <2> QED BY <2>1, GivingUpKeeps
<1> QED BY <1>1, <1>2

(* Nobody outside a town has a game or a wish to bring along, but for the  *)
(* empty name.                                                             *)
LEMMA ArrivalKeepsGames ==
  ASSUME GameInv, TownInv, NEW c \in Conns, NEW ch \in Channels, JoinGameChannel(c, ch)
  PROVE  GameInv'
<1>1. /\ gamechannel' = [gamechannel EXCEPT ![c] = ch]
      /\ UNCHANGED << requestedGame, game, gameRequests, games, nameless >>
      /\ c \in requested[ch]
  BY DEF JoinGameChannel
<1>2. gamechannel[c] = NoChannel
  BY <1>1, TownsAssumption DEF TownInv, WhereaboutsAgree, InTown
<1>3. requestedGame[c] \in {NoName, EmptyName}
  BY <1>2 DEF GameInv, WishKnown, InTown
<1>4. game[c] = NoGame
  BY <1>2, TownsAssumption DEF GameInv, GameTypes, PlayerCounted
<1>5. GameTypes'
  BY <1>1 DEF GameInv, GameTypes
<1>6. ASSUME NEW d \in Conns
      PROVE  PlayerCounted(d)' /\ WishKnown(d)'
  BY <1>1, <1>3, <1>4 DEF GameInv, GameTypes, PlayerCounted, WishKnown, InTown, Entry
<1>7. ASSUME NEW t \in Channels, NEW n \in GameNames
      PROVE  GameNotEmpty(t, n)' /\ ReservationWanted(t, n)'
  BY <1>1, <1>2, TownsAssumption
     DEF GameInv, GameTypes, GameNotEmpty, ReservationWanted, Playing
<1>8. ASSUME NEW d \in Conns, NEW t \in Channels, NEW n \in GameNames
      PROVE  WishReserved(d, t, n)'
  BY <1>1, <1>3, GamesAssumption DEF GameInv, GameTypes, WishReserved
<1> QED BY <1>5, <1>6, <1>7, <1>8 DEF GameInv

(***************************************************************************)
(* Reserving a name, and using it.  The name's owner is the only player    *)
(* who wants it, and no player is in a game of that name.                  *)
(***************************************************************************)
LEMMA ReservingKeeps ==
  ASSUME GameInv, NEW c \in Conns, NEW n \in GameNames, RequestCreateGame(c, n)
  PROVE  GameInv'
<1> DEFINE ch == gamechannel[c]
           reqs == RequestsWithout(c)
           free == reqs[ch][n] \in {NoConn, c} /\ games'[ch][n] = NoEntry
<1>1. /\ InTown(c)
      /\ games' = GamesWithout(c)
      /\ game' = [game EXCEPT ![c] = NoGame]
      /\ gameRequests' = IF free THEN [reqs EXCEPT ![ch][n] = c] ELSE reqs
      /\ requestedGame' = [requestedGame EXCEPT ![c] = IF free THEN n ELSE WishWithout(c)]
      /\ gamechannel' = gamechannel
      /\ nameless' = IF free /\ n = EmptyName THEN nameless \cup {c} ELSE nameless
  BY DEF RequestCreateGame, Busy, townVars
<1>2. CASE ~free
  BY <1>1, <1>2, GivingUpKeeps
<1>3. CASE free
  <2>1. ch \in Channels /\ GameTypes
    BY <1>1 DEF GameInv, GameTypes, InTown
  <2>2. /\ reqs \in [Channels -> [GameNames -> Conns \cup {NoConn}]]
        /\ \A t \in Channels, m \in GameNames :
             /\ gameRequests[t][m] # c => reqs[t][m] = gameRequests[t][m]
             /\ reqs[t][m] = c => gameRequests[t][m] = c /\ c \in nameless
             /\ gameRequests[t][m] = c => reqs[t][m] \in {NoConn, c}
    BY RequestsWithoutEffect
  <2>3. gameRequests' = [reqs EXCEPT ![ch][n] = c] /\ games'[ch][n] = NoEntry
        /\ requestedGame' = [requestedGame EXCEPT ![c] = n]
        /\ reqs[ch][n] \in {NoConn, c}
        /\ nameless' = IF n = EmptyName THEN nameless \cup {c} ELSE nameless
    BY <1>1, <1>3
  <2> HIDE DEF ch, reqs, free
  <2>4. \A t \in Channels, m \in GameNames :
          gameRequests'[t][m] = IF t = ch /\ m = n THEN c ELSE reqs[t][m]
    BY <2>1, <2>2, <2>3
  <2>5. GameTypes'
    <3>1. gameRequests' \in [Channels -> [GameNames -> Conns \cup {NoConn}]]
      BY <2>1, <2>2, <2>3
    <3>2. /\ requestedGame' \in [Conns -> GameNames \cup {NoName}]
          /\ game' \in [Conns -> (Channels \X GameNames) \cup {NoGame}]
      BY <1>1, <2>1, <2>3 DEF GameTypes
    <3> QED BY <1>1, <2>1, <3>1, <3>2, GamesWithoutEffect DEF GameTypes
  <2>6. ASSUME NEW d \in Conns
        PROVE  PlayerCounted(d)' /\ WishKnown(d)'
    <3>1. WishKnown(d)'
      BY <1>1, <2>1, <2>3 DEF GameInv, GameTypes, WishKnown, InTown
    <3>2. CASE game'[d] = NoGame
      BY <3>1, <3>2 DEF PlayerCounted
    <3>3. CASE game'[d] # NoGame
      <4>1. d # c /\ game'[d] = game[d]
        BY <1>1, <2>1, <3>3 DEF GameTypes
      <4>2. PICK t \in Channels, m \in GameNames : game[d] = << t, m >>
        BY <2>1, <3>3, <4>1 DEF GameTypes
      <4>3. games'[t][m] # NoEntry /\ games'[t][m].players[d] > 0
        BY <1>1, <4>1, <4>2, GamesWithoutEffect
      <4>4. gamechannel[d] = game[d][1]
        BY <3>3, <4>1 DEF GameInv, PlayerCounted
      <4> QED BY <1>1, <3>1, <4>1, <4>2, <4>3, <4>4 DEF PlayerCounted, Entry
    <3> QED BY <3>2, <3>3
  <2>7. ASSUME NEW t \in Channels, NEW m \in GameNames
        PROVE  GameNotEmpty(t, m)' /\ ReservationWanted(t, m)'
    <3>1. games'[t][m] # NoEntry => Playing(games'[t][m]) # {}
      BY <1>1, GamesWithoutEffect
    <3>2. GameNotEmpty(t, m)'
      BY <3>1 DEF GameNotEmpty, Playing
    <3>3. CASE t = ch /\ m = n
      <4>1. requestedGame'[c] = n /\ gamechannel'[c] = ch
        BY <1>1, <2>1, <2>3 DEF GameTypes, ch
      <4> QED BY <2>3, <2>4, <3>2, <3>3, <4>1 DEF ReservationWanted
    <3>4. CASE ~(t = ch /\ m = n)
      <4> SUFFICES ASSUME NEW d \in Conns, gameRequests'[t][m] = d
                   PROVE  /\ games'[t][m] = NoEntry
                          /\ (requestedGame'[d] = m /\ gamechannel'[d] = t) \/ d \in nameless'
        BY <3>2 DEF ReservationWanted
      <4>1. gameRequests[t][m] = d /\ (d = c => c \in nameless)
        BY <2>2, <2>4, <3>4, GamesAssumption
      <4>2. /\ games[t][m] = NoEntry
            /\ (requestedGame[d] = m /\ gamechannel[d] = t) \/ d \in nameless
        BY <4>1 DEF GameInv, ReservationWanted
      <4>3. games'[t][m] = NoEntry
        BY <1>1, <4>2, GamesWithoutEffect
      <4> QED BY <1>1, <2>1, <2>3, <4>1, <4>2, <4>3 DEF GameTypes
    <3> QED BY <3>3, <3>4
  <2>8. ASSUME NEW d \in Conns, NEW t \in Channels, NEW m \in GameNames
        PROVE  WishReserved(d, t, m)'
    <3>1. CASE d = c
      BY <1>1, <2>1, <2>3, <2>4, <3>1 DEF GameTypes, WishReserved, ch
    <3>2. CASE d # c
      <4> SUFFICES ASSUME requestedGame[d] = m, gamechannel[d] = t, m # EmptyName
                   PROVE  gameRequests'[t][m] = d
        BY <1>1, <2>1, <2>3, <3>2 DEF GameTypes, WishReserved
      <4>1. gameRequests[t][m] = d
        BY DEF GameInv, WishReserved
      <4> QED BY <2>2, <2>3, <2>4, <3>2, <4>1, GamesAssumption
    <3> QED BY <3>1, <3>2
  <2> QED BY <2>5, <2>6, <2>7, <2>8 DEF GameInv
<1> QED BY <1>2, <1>3

LEMMA CreatingKeeps ==
  ASSUME GameInv, NEW c \in Conns, NEW n \in GameNames, NEW pw \in Passwords,
         NEW npj \in BOOLEAN, NEW st \in BOOLEAN, NEW mx \in Nat,
         CreateGame(c, n, pw, npj, st, mx)
  PROVE  GameInv'
<1> DEFINE ch == gamechannel[c]
           one == [d \in Conns |-> IF d = c THEN 1 ELSE 0]
           new == [host |-> c, password |-> pw, npj |-> npj, status |-> st,
                   maxplayers |-> mx, players |-> one]
<1>1. /\ InTown(c) /\ gameRequests[ch][n] = c
      /\ games' = [GamesWithout(c) EXCEPT ![ch][n] = new]
      /\ game' = [game EXCEPT ![c] = << ch, n >>]
      /\ gameRequests' = [gameRequests EXCEPT ![ch][n] = NoConn]
      /\ requestedGame' = [requestedGame EXCEPT ![c] = NoName]
      /\ gamechannel' = gamechannel
      /\ nameless' = nameless
  BY DEF CreateGame, MayCreate, Busy, townVars
<1>2. ch \in Channels /\ GameTypes
  BY <1>1 DEF GameInv, GameTypes, InTown
<1>3. /\ games[ch][n] = NoEntry
      /\ (requestedGame[c] = n /\ gamechannel[c] = ch) \/ c \in nameless
  BY <1>1, <1>2 DEF GameInv, ReservationWanted
<1>4. new \in GameEntry /\ new.players = one /\ one \in [Conns -> Nat]
  BY DEF GameEntry
<1>5. new # NoEntry /\ Playing(new) # {} /\ new.players[c] > 0
  BY <1>4, NoEntryAssumption DEF Playing
<1> HIDE DEF new, one
<1>6. \A t \in Channels, m \in GameNames :
        games'[t][m] = IF t = ch /\ m = n THEN new ELSE GamesWithout(c)[t][m]
  BY <1>1, <1>2, GamesWithoutEffect
<1>7. \A t \in Channels, m \in GameNames :
        gameRequests'[t][m] = IF t = ch /\ m = n THEN NoConn ELSE gameRequests[t][m]
  BY <1>1, <1>2 DEF GameTypes
<1>8. GameTypes'
  <2>1. games' \in [Channels -> [GameNames -> GameEntry \cup {NoEntry}]]
    BY <1>1, <1>2, <1>4, GamesWithoutEffect
  <2>2. gameRequests' \in [Channels -> [GameNames -> Conns \cup {NoConn}]]
    BY <1>1, <1>2 DEF GameTypes
  <2>3. /\ requestedGame' \in [Conns -> GameNames \cup {NoName}]
        /\ game' \in [Conns -> (Channels \X GameNames) \cup {NoGame}]
    BY <1>1, <1>2 DEF GameTypes
  <2> QED BY <1>1, <1>2, <2>1, <2>2, <2>3 DEF GameTypes
<1> HIDE DEF ch
<1>9. ASSUME NEW d \in Conns
      PROVE  PlayerCounted(d)' /\ WishKnown(d)'
  <2>1. WishKnown(d)'
    BY <1>1, <1>2, GamesAssumption DEF GameInv, GameTypes, WishKnown, InTown
  <2>2. CASE d = c
    <3>1. game'[c] = << ch, n >> /\ gamechannel'[c] = ch
      BY <1>1, <1>2 DEF GameTypes, ch
    <3>2. games'[ch][n] = new
      BY <1>2, <1>6
    <3> QED BY <1>5, <2>1, <2>2, <3>1, <3>2 DEF PlayerCounted, Entry
  <2>3. CASE d # c /\ game[d] = NoGame
    BY <1>1, <1>2, <2>1, <2>3 DEF PlayerCounted, GameTypes
  <2>4. CASE d # c /\ game[d] # NoGame
    <3>1. game'[d] = game[d] /\ gamechannel'[d] = gamechannel[d]
      BY <1>1, <1>2, <2>4 DEF GameTypes
    <3>2. PICK t \in Channels, m \in GameNames : game[d] = << t, m >>
      BY <1>2, <2>4 DEF GameTypes
    <3>3. GamesWithout(c)[t][m] # NoEntry /\ GamesWithout(c)[t][m].players[d] > 0
      BY <2>4, <3>2, GamesWithoutEffect
    <3>4. ~(t = ch /\ m = n)
      BY <1>3, <3>3, GamesWithoutEffect
    <3>5. games'[t][m] = GamesWithout(c)[t][m]
      BY <1>6, <3>4
    <3>6. gamechannel[d] = game[d][1]
      BY <2>4 DEF GameInv, PlayerCounted
    <3> QED BY <2>1, <3>1, <3>2, <3>3, <3>5, <3>6 DEF PlayerCounted, Entry
  <2> QED BY <2>2, <2>3, <2>4
<1>10. ASSUME NEW t \in Channels, NEW m \in GameNames
       PROVE  GameNotEmpty(t, m)' /\ ReservationWanted(t, m)'
  <2>1. games'[t][m] # NoEntry => Playing(games'[t][m]) # {}
    BY <1>5, <1>6, GamesWithoutNotEmpty
  <2>2. GameNotEmpty(t, m)'
    BY <2>1 DEF GameNotEmpty, Playing
  <2>3. ASSUME NEW d \in Conns, gameRequests'[t][m] = d
        PROVE  /\ games'[t][m] = NoEntry
               /\ (requestedGame'[d] = m /\ gamechannel'[d] = t) \/ d \in nameless'
    <3>1. gameRequests[t][m] = d /\ ~(t = ch /\ m = n)
      BY <1>7, <2>3, GamesAssumption
    <3>2. /\ games[t][m] = NoEntry
          /\ (requestedGame[d] = m /\ gamechannel[d] = t) \/ d \in nameless
      BY <3>1 DEF GameInv, ReservationWanted
    <3>3. d # c \/ d \in nameless
      BY <1>3, <3>1, <3>2
    <3>4. GamesWithout(c)[t][m] = NoEntry
      BY <3>2, GamesWithoutEffect
    <3> QED BY <1>1, <1>2, <1>6, <3>1, <3>2, <3>3, <3>4 DEF GameTypes
  <2> QED BY <2>2, <2>3 DEF ReservationWanted
<1>11. ASSUME NEW d \in Conns, NEW t \in Channels, NEW m \in GameNames
       PROVE  WishReserved(d, t, m)'
  <2>1. CASE d = c
    BY <1>1, <1>2, <2>1, GamesAssumption DEF GameTypes, WishReserved
  <2>2. CASE d # c
    <3> SUFFICES ASSUME requestedGame[d] = m, gamechannel[d] = t, m # EmptyName
                 PROVE  gameRequests'[t][m] = d
      BY <1>1, <1>2, <2>2 DEF GameTypes, WishReserved
    <3>1. gameRequests[t][m] = d
      BY DEF GameInv, WishReserved
    <3> QED BY <1>1, <1>7, <2>2, <3>1
  <2> QED BY <2>1, <2>2
<1> QED BY <1>8, <1>9, <1>10, <1>11 DEF GameInv

(* An entry changes and keeps its players, or gains one: `entry` is what   *)
(* joinGame and startingGame make of the game << ch, n >>.                 *)
LEMMA EntryChangeKeeps ==
  ASSUME GameInv, NEW c \in Conns, NEW ch \in Channels, NEW n \in GameNames,
         NEW entry \in GameEntry,
         games[ch][n] # NoEntry,
         Playing(games[ch][n]) \subseteq Playing(entry),
         games' = [games EXCEPT ![ch][n] = entry],
         game' = game \/ (/\ game' = [game EXCEPT ![c] = << ch, n >>]
                          /\ gamechannel[c] = ch /\ c \in Playing(entry)),
         UNCHANGED << gamechannel, requestedGame, gameRequests, nameless >>
  PROVE  GameInv'
<1>1. GameTypes
  BY DEF GameInv
<1>2. games[ch][n] \in GameEntry
  BY <1>1 DEF GameTypes
<1>3. \A t \in Channels, m \in GameNames :
        games'[t][m] = IF t = ch /\ m = n THEN entry ELSE games[t][m]
  BY <1>1 DEF GameTypes
<1>4. GameTypes'
  <2>1. games' \in [Channels -> [GameNames -> GameEntry \cup {NoEntry}]]
    BY <1>1 DEF GameTypes
  <2>2. game' \in [Conns -> (Channels \X GameNames) \cup {NoGame}]
    BY <1>1 DEF GameTypes
  <2> QED BY <1>1, <2>1, <2>2 DEF GameTypes
<1>5. ASSUME NEW d \in Conns
      PROVE  PlayerCounted(d)' /\ WishKnown(d)'
  <2>1. WishKnown(d)'
    BY DEF GameInv, WishKnown, InTown
  <2>2. CASE game'[d] = game[d] /\ game[d] # NoGame
    <3>1. PICK t \in Channels, m \in GameNames : game[d] = << t, m >>
      BY <1>1, <2>2 DEF GameTypes
    <3>2. gamechannel[d] = t /\ games[t][m] # NoEntry /\ games[t][m].players[d] > 0
      BY <3>1, PlayerIsCounted
    <3>3. games'[t][m] # NoEntry /\ games'[t][m].players[d] > 0
      <4>1. CASE t = ch /\ m = n
        BY <1>3, <3>2, <4>1, NoEntryAssumption DEF Playing
      <4>2. CASE ~(t = ch /\ m = n)
        BY <1>3, <3>2, <4>2
      <4> QED BY <4>1, <4>2
    <3> QED BY <2>1, <2>2, <3>1, <3>2, <3>3 DEF PlayerCounted, Entry
  <2>3. CASE game'[d] = game[d] /\ game[d] = NoGame
    BY <2>1, <2>3 DEF PlayerCounted
  <2>4. CASE game'[d] # game[d]
    <3>1. /\ d = c /\ game'[d] = << ch, n >> /\ gamechannel[d] = ch
          /\ d \in Playing(entry)
      BY <1>1, <2>4 DEF GameTypes
    <3>2. games'[ch][n] = entry /\ entry # NoEntry /\ entry.players[d] > 0
      BY <1>3, <3>1, NoEntryAssumption DEF Playing
    <3> QED BY <2>1, <3>1, <3>2 DEF PlayerCounted, Entry
  <2> QED BY <2>2, <2>3, <2>4
<1>6. ASSUME NEW t \in Channels, NEW m \in GameNames
      PROVE  GameNotEmpty(t, m)' /\ ReservationWanted(t, m)'
  <2>1. games[t][m] # NoEntry => Playing(games[t][m]) # {}
    BY DEF GameInv, GameNotEmpty
  <2>2. games'[t][m] # NoEntry => Playing(games'[t][m]) # {}
    BY <1>3, <2>1
  <2>3. GameNotEmpty(t, m)'
    BY <2>2 DEF GameNotEmpty, Playing
  <2>4. games[t][m] = NoEntry => games'[t][m] = NoEntry
    BY <1>3
  <2> QED BY <2>3, <2>4 DEF GameInv, ReservationWanted
<1>7. ASSUME NEW d \in Conns, NEW t \in Channels, NEW m \in GameNames
      PROVE  WishReserved(d, t, m)'
  BY DEF GameInv, WishReserved
<1> QED BY <1>4, <1>5, <1>6, <1>7 DEF GameInv

(* A player counts for one more, nobody for less.                          *)
LEMMA EntryWithEffect ==
  ASSUME NEW g \in GameEntry, NEW c \in Conns
  PROVE  /\ EntryWith(g, c) \in GameEntry
         /\ EntryWith(g, c).players = [g.players EXCEPT ![c] = @ + 1]
         /\ Playing(EntryWith(g, c)) = Playing(g) \cup {c}
<1> DEFINE more == [g.players EXCEPT ![c] = @ + 1]
<1>1. g.players \in [Conns -> Nat]
  BY DEF GameEntry
<1>2. more \in [Conns -> Nat] /\ more[c] > 0
      /\ \A d \in Conns \ {c} : more[d] = g.players[d]
  BY <1>1
<1>3. EntryWith(g, c) = [g EXCEPT !.players = more]
  BY <1>1 DEF EntryWith, GameEntry
<1> HIDE DEF more
<1>4. EntryWith(g, c) \in GameEntry /\ EntryWith(g, c).players = more
  BY <1>2, <1>3 DEF GameEntry
<1>5. Playing(EntryWith(g, c)) = Playing(g) \cup {c}
  BY <1>2, <1>4 DEF Playing
<1> QED BY <1>4, <1>5 DEF more

LEMMA JoiningKeeps ==
  ASSUME GameInv, NEW c \in Conns, NEW n \in GameNames, NEW pw, JoinGame(c, n, pw)
  PROVE  GameInv'
<1> DEFINE ch == gamechannel[c]
           g == games[ch][n]
<1>1. /\ InTown(c) /\ g # NoEntry
      /\ games' = [games EXCEPT ![ch][n] = EntryWith(g, c)]
      /\ game' = [game EXCEPT ![c] = << ch, n >>]
      /\ UNCHANGED << gamechannel, requestedGame, gameRequests, nameless >>
  BY DEF JoinGame, Busy, townVars
<1>2. ch \in Channels /\ g \in GameEntry
  BY <1>1 DEF GameInv, GameTypes, InTown
<1> HIDE DEF g
<1>3. /\ EntryWith(g, c) \in GameEntry
      /\ Playing(g) \subseteq Playing(EntryWith(g, c)) /\ c \in Playing(EntryWith(g, c))
  BY <1>2, EntryWithEffect
<1> QED BY <1>1, <1>2, <1>3, EntryChangeKeeps DEF g

LEMMA StartingKeeps ==
  ASSUME GameInv, NEW c \in Conns, StartingGame(c)
  PROVE  GameInv'
<1>0. game[c] # NoGame
  BY DEF StartingGame
<1>1. PICK ch \in Channels, n \in GameNames : game[c] = << ch, n >>
  BY <1>0 DEF GameInv, GameTypes
<1> DEFINE g == games[ch][n]
           started == [g EXCEPT !.status = TRUE]
<1>2. /\ games' = [games EXCEPT ![ch][n].status = TRUE]
      /\ UNCHANGED << gamechannel, requestedGame, game, gameRequests, nameless >>
  BY <1>1 DEF StartingGame
<1>3. g \in GameEntry /\ g # NoEntry
  BY <1>1, PlayerIsCounted DEF GameInv, GameTypes
<1>4. started \in GameEntry /\ started.players = g.players
  BY <1>3 DEF GameEntry
<1>5. games' = [games EXCEPT ![ch][n] = started]
  BY <1>2
<1>6. Playing(g) \subseteq Playing(started)
  BY <1>4 DEF Playing
<1> HIDE DEF started
<1> QED BY <1>2, <1>3, <1>4, <1>5, <1>6, EntryChangeKeeps

-----------------------------------------------------------------------------
LEMMA InitGameInv == Init => GameInv
BY GamesAssumption
   DEF Init, TownsInit, GamesInit, GameInv, GameTypes, PlayerCounted, GameNotEmpty,
       ReservationWanted, WishReserved, WishKnown, InTown

LEMMA NextGameInv == TownInv /\ GameInv /\ [Next]_vars => GameInv'
<1> SUFFICES ASSUME TownInv, GameInv, [Next]_vars PROVE GameInv'
  OBVIOUS
<1>1. CASE UNCHANGED vars
  BY <1>1, SameGames DEF vars, townVars, gameVars
<1>2. CASE UpdatePos
  BY <1>2, SameGames DEF UpdatePos, gameVars
<1>3. ASSUME NEW c \in Conns, TownStep(c)
      PROVE  GameInv'
  <2>1. CASE Login(c)
    BY <2>1, SameGames DEF Login, gameVars
  <2>2. CASE Disconnect(c) \/ LeaveGameChannel(c)
    BY <2>2, LeaveTownKeepsGames DEF Disconnect, LeaveGameChannel
  <2>3. CASE \E ch \in Channels : RequestJoin(c, ch)
    BY <2>3, LeaveTownKeepsGames DEF RequestJoin
  <2>4. CASE \E ch \in Channels : JoinGameChannel(c, ch)
    BY <2>4, ArrivalKeepsGames
  <2>5. CASE \E blob \in HeroBlobs : SetUserHeroData(c, blob)
    BY <2>5, SameGames DEF SetUserHeroData, gameVars
  <2>6. CASE UpdateHeroPos(c)
    BY <2>6, SameGames DEF UpdateHeroPos, gameVars
  <2> QED BY <1>3, <2>1, <2>2, <2>3, <2>4, <2>5, <2>6 DEF TownStep
<1>4. ASSUME NEW c \in Conns, ChatStep(c)
      PROVE  GameInv'
  BY <1>4, SameGames DEF ChatStep, JoinChat, CreateChat, LeaveChatChannel, townVars, gameVars
<1>5. ASSUME NEW c \in Conns, GameStep(c)
      PROVE  GameInv'
  <2>1. ASSUME NEW n \in GameNames, RequestCreateGame(c, n)
        PROVE  GameInv'
    BY <2>1, ReservingKeeps
  <2>2. ASSUME NEW n \in GameNames, NEW pw \in Passwords, NEW npj \in CreateNpj,
               NEW st \in CreateStatus, NEW mx \in MaxPlayers,
               CreateGame(c, n, pw, npj, st, mx)
        PROVE  GameInv'
    <3>1. npj \in BOOLEAN /\ st \in BOOLEAN /\ mx \in Nat
      BY LobbyAssumption, GamesAssumption
    <3> QED BY <2>2, <3>1, CreatingKeeps
  <2>3. ASSUME NEW n \in GameNames, CreateGameFails(c, n)
        PROVE  GameInv'
    BY <2>3, GivingUpKeeps DEF CreateGameFails
  <2>4. ASSUME NEW n \in GameNames, NEW pw \in Passwords, JoinGame(c, n, pw)
        PROVE  GameInv'
    BY <2>4, JoiningKeeps
  <2>5. CASE StopGame(c)
    BY <2>5, GivingUpKeeps DEF StopGame, townVars
  <2>6. CASE StartingGame(c)
    BY <2>6, StartingKeeps
  <2> QED BY <1>5, <2>1, <2>2, <2>3, <2>4, <2>5, <2>6 DEF GameStep
<1> QED BY <1>1, <1>2, <1>3, <1>4, <1>5 DEF Next

LEMMA GameInvHolds == Spec => []GameInv
<1>1. Init => TownInv /\ GameInv
  BY InitTownInv, InitGameInv
<1>2. TownInv /\ GameInv /\ [Next]_vars => TownInv' /\ GameInv'
  BY NextTownInv, NextGameInv
<1> QED BY <1>1, <1>2, PTL DEF Spec

(* The record of a player and the game it names agree after any sequence   *)
(* of commands, failures and disconnects, and no empty game is left: the   *)
(* game is left wherever the player leaves the town (User.leaveChannel).   *)
THEOREM GameMembershipTheorem == Spec => []GameMembership
BY GameInvHolds, GameInvImplies, PTL

(* No name reserved by a player who never reserved the empty one stays     *)
(* locked: its owner is in the town and still wants it; and no reserved    *)
(* name is the name of a game (requestCreateGame, User.stopGame).          *)
THEOREM ReservationsTheorem == Spec => []ReservationsOwned
BY GameInvHolds, GameInvImplies, PTL

-----------------------------------------------------------------------------
(***************************************************************************)
(* No ghosts: a player who joins only while in no game counts once in the  *)
(* game the player is in and nowhere else.                                 *)
(***************************************************************************)
LEMMA GamesWithoutGhosts ==
  ASSUME GameInv, NoGhostPlayers, NEW c \in Conns, NEW ch \in Channels, NEW n \in GameNames,
         GamesWithout(c)[ch][n] # NoEntry, NEW d \in Conns
  PROVE  GamesWithout(c)[ch][n].players[d]
           = IF d # c /\ game[d] = << ch, n >> THEN 1 ELSE 0
<1>1. games[ch][n] # NoEntry
  BY GamesWithoutEffect
<1>2. games[ch][n].players[d] = IF game[d] = << ch, n >> THEN 1 ELSE 0
  BY <1>1 DEF NoGhostPlayers
<1>3. CASE game[c] # << ch, n >>
  <2>1. GamesWithout(c)[ch][n] = games[ch][n]
    BY <1>3, GamesWithoutEffect
  <2> QED BY <1>2, <1>3, <2>1
<1>4. CASE game[c] = << ch, n >>
  <2>1. game[c] # NoGame /\ game[c][1] = ch /\ game[c][2] = n
    BY <1>4, GamesAssumption
  <2>2. GamesWithout(c)[ch][n] = EntryWithout(c)
    <3>1. games \in [Channels -> [GameNames -> GameEntry \cup {NoEntry}]]
      BY DEF GameInv, GameTypes
    <3> QED BY <2>1, <3>1 DEF GamesWithout
  <2>3. /\ \A e \in Conns \ {c} : EntryWithout(c).players[e] = games[ch][n].players[e]
        /\ EntryWithout(c).players[c] = games[ch][n].players[c] - 1
    BY <2>1, EntryWithoutEffect DEF Entry
  <2> QED BY <1>2, <1>4, <2>2, <2>3
<1> QED BY <1>3, <1>4

LEMMA GivingUpLeavesNoGhost ==
  ASSUME GameInv, NoGhostPlayers, NEW c \in Conns,
         games' = GamesWithout(c), game' = [game EXCEPT ![c] = NoGame]
  PROVE  NoGhostPlayers'
<1> SUFFICES ASSUME NEW ch \in Channels, NEW n \in GameNames, NEW d \in Conns,
                    games'[ch][n] # NoEntry
             PROVE  games'[ch][n].players[d] = IF game'[d] = << ch, n >> THEN 1 ELSE 0
  BY DEF NoGhostPlayers
<1>1. games'[ch][n].players[d] = IF d # c /\ game[d] = << ch, n >> THEN 1 ELSE 0
  BY GamesWithoutGhosts
<1>2. game'[d] = IF d = c THEN NoGame ELSE game[d]
  BY DEF GameInv, GameTypes
<1>3. NoGame # << ch, n >>
  BY GamesAssumption
<1> QED BY <1>1, <1>2, <1>3

LEMMA LeaveTownLeavesNoGhost ==
  ASSUME GameInv, NoGhostPlayers, NEW c \in Conns, LeaveTown(c)
  PROVE  NoGhostPlayers'
<1>1. CASE ~InTown(c)
  BY <1>1 DEF LeaveTown, gameVars, NoGhostPlayers
<1>2. CASE InTown(c)
  BY <1>2, GivingUpLeavesNoGhost DEF LeaveTown
<1> QED BY <1>1, <1>2

LEMMA CreatingLeavesNoGhost ==
  ASSUME GameInv, NoGhostPlayers, NEW c \in Conns, NEW n \in GameNames, NEW pw, NEW npj,
         NEW st, NEW mx, CreateGame(c, n, pw, npj, st, mx)
  PROVE  NoGhostPlayers'
<1> DEFINE ch == gamechannel[c]
           new == [host |-> c, password |-> pw, npj |-> npj, status |-> st,
                   maxplayers |-> mx, players |-> [d \in Conns |-> IF d = c THEN 1 ELSE 0]]
<1>1. /\ InTown(c) /\ gameRequests[ch][n] = c
      /\ games' = [GamesWithout(c) EXCEPT ![ch][n] = new]
      /\ game' = [game EXCEPT ![c] = << ch, n >>]
  BY DEF CreateGame, MayCreate, Busy
<1>2. ch \in Channels /\ GameTypes
  BY <1>1 DEF GameInv, GameTypes, InTown
<1>3. games[ch][n] = NoEntry
  BY <1>1, <1>2 DEF GameInv, ReservationWanted
<1>4. \A d \in Conns : new.players[d] = IF d = c THEN 1 ELSE 0
  OBVIOUS
<1> HIDE DEF new
<1>5. \A t \in Channels, m \in GameNames :
        games'[t][m] = IF t = ch /\ m = n THEN new ELSE GamesWithout(c)[t][m]
  BY <1>1, <1>2, GamesWithoutEffect
<1>6. \A d \in Conns : game[d] # << ch, n >>
  BY <1>2, <1>3, PlayerIsCounted
<1>7. \A d \in Conns : game'[d] = IF d = c THEN << ch, n >> ELSE game[d]
  BY <1>1, <1>2 DEF GameTypes
<1> HIDE DEF ch
<1> SUFFICES ASSUME NEW t \in Channels, NEW m \in GameNames, NEW d \in Conns,
                    games'[t][m] # NoEntry
             PROVE  games'[t][m].players[d] = IF game'[d] = << t, m >> THEN 1 ELSE 0
  BY DEF NoGhostPlayers
<1>8. CASE t = ch /\ m = n
  BY <1>4, <1>5, <1>6, <1>7, <1>8
<1>9. CASE ~(t = ch /\ m = n)
  <2>1. games'[t][m].players[d] = IF d # c /\ game[d] = << t, m >> THEN 1 ELSE 0
    BY <1>5, <1>9, GamesWithoutGhosts
  <2> QED BY <1>7, <1>9, <2>1
<1> QED BY <1>8, <1>9

LEMMA JoiningLeavesNoGhost ==
  ASSUME GameInv, NoGhostPlayers, "game" \notin Retries,
         NEW c \in Conns, NEW n \in GameNames, NEW pw, JoinGame(c, n, pw)
  PROVE  NoGhostPlayers'
<1> DEFINE ch == gamechannel[c]
           g == games[ch][n]
<1>1. /\ InTown(c) /\ g # NoEntry /\ game[c] = NoGame
      /\ games' = [games EXCEPT ![ch][n] = EntryWith(g, c)]
      /\ game' = [game EXCEPT ![c] = << ch, n >>]
  BY DEF JoinGame, Busy
<1>2. ch \in Channels /\ g \in GameEntry /\ GameTypes
  BY <1>1 DEF GameInv, GameTypes, InTown
<1>3. \A d \in Conns : g.players[d] = IF game[d] = << ch, n >> THEN 1 ELSE 0
  BY <1>1, <1>2 DEF NoGhostPlayers
<1>4. g.players \in [Conns -> Nat]
  BY <1>2 DEF GameEntry
<1> HIDE DEF g
<1>5. \A d \in Conns : EntryWith(g, c).players[d]
                          = IF d = c THEN g.players[d] + 1 ELSE g.players[d]
  <2>1. EntryWith(g, c).players = [g.players EXCEPT ![c] = @ + 1]
    BY <1>2, EntryWithEffect
  <2> QED BY <1>4, <2>1
<1>6. \A t \in Channels, m \in GameNames :
        games'[t][m] = IF t = ch /\ m = n THEN EntryWith(g, c) ELSE games[t][m]
  BY <1>1, <1>2 DEF GameTypes
<1>7. \A d \in Conns : game'[d] = IF d = c THEN << ch, n >> ELSE game[d]
  BY <1>1, <1>2 DEF GameTypes
<1>8. game[c] # << ch, n >>
  BY <1>1, <1>2, GamesAssumption
<1> HIDE DEF ch
<1> SUFFICES ASSUME NEW t \in Channels, NEW m \in GameNames, NEW d \in Conns,
                    games'[t][m] # NoEntry
             PROVE  games'[t][m].players[d] = IF game'[d] = << t, m >> THEN 1 ELSE 0
  BY DEF NoGhostPlayers
<1>9. CASE t = ch /\ m = n
  <2>1. games'[t][m].players[d] = IF d = c THEN g.players[d] + 1 ELSE g.players[d]
    BY <1>5, <1>6, <1>9
  <2>2. g.players[c] = 0
    BY <1>3, <1>8
  <2> QED BY <1>3, <1>7, <1>9, <2>1, <2>2
<1>10. CASE ~(t = ch /\ m = n)
  <2>1. games[t][m] # NoEntry /\ games'[t][m] = games[t][m]
    BY <1>6, <1>10
  <2>2. games[t][m].players[d] = IF game[d] = << t, m >> THEN 1 ELSE 0
    BY <2>1 DEF NoGhostPlayers
  <2>3. d = c => game[d] # << t, m >> /\ game'[d] # << t, m >>
    BY <1>1, <1>7, <1>10, GamesAssumption
  <2> QED BY <1>7, <2>1, <2>2, <2>3
<1> QED BY <1>9, <1>10

LEMMA StartingLeavesNoGhost ==
  ASSUME GameInv, NoGhostPlayers, NEW c \in Conns, StartingGame(c)
  PROVE  NoGhostPlayers'
<1>0. game[c] # NoGame
  BY DEF StartingGame
<1>1. PICK ch \in Channels, n \in GameNames : game[c] = << ch, n >>
  BY <1>0 DEF GameInv, GameTypes
<1>2. games' = [games EXCEPT ![ch][n].status = TRUE] /\ game' = game
  BY <1>1 DEF StartingGame
<1>3. games \in [Channels -> [GameNames -> GameEntry \cup {NoEntry}]]
      /\ games[ch][n] \in GameEntry /\ games[ch][n] # NoEntry
  BY <1>1, PlayerIsCounted DEF GameInv, GameTypes
<1>4. games'[ch][n].players = games[ch][n].players
  BY <1>2, <1>3 DEF GameEntry
<1>5. \A t \in Channels, m \in GameNames : ~(t = ch /\ m = n) => games'[t][m] = games[t][m]
  BY <1>2, <1>3
<1> SUFFICES ASSUME NEW t \in Channels, NEW m \in GameNames, NEW d \in Conns,
                    games'[t][m] # NoEntry
             PROVE  games'[t][m].players[d] = IF game'[d] = << t, m >> THEN 1 ELSE 0
  BY DEF NoGhostPlayers
<1>6. games[t][m] # NoEntry /\ games'[t][m].players = games[t][m].players
  BY <1>3, <1>4, <1>5
<1> QED BY <1>2, <1>6 DEF NoGhostPlayers

LEMMA NextLeavesNoGhost ==
  ASSUME GameInv, NoGhostPlayers, "game" \notin Retries, [Next]_vars
  PROVE  NoGhostPlayers'
<1>1. CASE UNCHANGED << games, game >>
  BY <1>1 DEF NoGhostPlayers
<1>2. CASE UNCHANGED vars \/ UpdatePos
  BY <1>1, <1>2 DEF vars, gameVars, UpdatePos
<1>3. ASSUME NEW c \in Conns, TownStep(c) \/ ChatStep(c)
      PROVE  NoGhostPlayers'
  <2>1. CASE Disconnect(c) \/ LeaveGameChannel(c) \/ \E ch \in Channels : RequestJoin(c, ch)
    BY <2>1, LeaveTownLeavesNoGhost DEF Disconnect, LeaveGameChannel, RequestJoin
  <2>2. CASE \/ Login(c)
             \/ \E ch \in Channels : JoinGameChannel(c, ch)
             \/ \E blob \in HeroBlobs : SetUserHeroData(c, blob)
             \/ UpdateHeroPos(c)
    BY <1>1, <2>2 DEF Login, JoinGameChannel, SetUserHeroData, UpdateHeroPos, gameVars
  <2>3. CASE ChatStep(c)
    BY <1>1, <2>3 DEF ChatStep, JoinChat, CreateChat, LeaveChatChannel, gameVars
  <2> QED BY <1>3, <2>1, <2>2, <2>3 DEF TownStep
<1>4. ASSUME NEW c \in Conns, GameStep(c)
      PROVE  NoGhostPlayers'
  <2>1. CASE \E n \in GameNames : RequestCreateGame(c, n) \/ CreateGameFails(c, n)
    BY <2>1, GivingUpLeavesNoGhost DEF RequestCreateGame, CreateGameFails
  <2>2. CASE \E n \in GameNames, pw \in Passwords, npj \in CreateNpj, st \in CreateStatus,
               mx \in MaxPlayers : CreateGame(c, n, pw, npj, st, mx)
    BY <2>2, CreatingLeavesNoGhost
  <2>3. CASE \E n \in GameNames, pw \in Passwords : JoinGame(c, n, pw)
    BY <2>3, JoiningLeavesNoGhost
  <2>4. CASE StopGame(c)
    BY <2>4, GivingUpLeavesNoGhost DEF StopGame
  <2>5. CASE StartingGame(c)
    BY <2>5, StartingLeavesNoGhost
  <2> QED BY <1>4, <2>1, <2>2, <2>3, <2>4, <2>5 DEF GameStep
<1> QED BY <1>2, <1>3, <1>4 DEF Next

(* With clients that join only while in no game, every game lists exactly  *)
(* the players whose records name it, once each: whoever is last to leave  *)
(* empties it (GameEntry.addUser, GameEntry.remove).                       *)
THEOREM NoGhostTheorem ==
  ASSUME "game" \notin Retries
  PROVE  Spec => []NoGhostPlayers
<1>1. Init => NoGhostPlayers
  BY DEF Init, GamesInit, NoGhostPlayers
<1>2. GameInv /\ NoGhostPlayers /\ [Next]_vars => NoGhostPlayers'
  BY NextLeavesNoGhost
<1> QED BY <1>1, <1>2, GameInvHolds, PTL DEF Spec

-----------------------------------------------------------------------------
(***************************************************************************)
(* The browsers.  A game that takes players is on the list of every client *)
(* of its town outside it, and on no other: so nobody is told to remove an *)
(* entry it does not have.                                                 *)
(***************************************************************************)
OpenGames(gs) ==
  {id \in Channels \X GameNames :
     gs[id[1]][id[2]] # NoEntry /\ ~Closed(gs[id[1]][id[2]])}

BrowserShows(l, id, open, mine) ==
  /\ l \in Listings \ {"crashed"}
  /\ l = "listed" => id \in open /\ id # mine
  /\ id \in open /\ id # mine => l \in {"listed", "own"}
  /\ id \in Channels \X GameNames /\ id = mine => l = "own"

BrowsersRight ==
  /\ listing \in [Conns -> [GameNames -> Listings]]
  /\ \A c \in Conns, n \in GameNames :
       BrowserShows(listing[c][n], << gamechannel[c], n >>, OpenGames(games), game[c])

BrowsersInv == TownInv /\ GameInv /\ NoGhostPlayers /\ BrowsersRight

LEMMA OpenGamesAt ==
  ASSUME NEW gs, NEW ch, NEW n
  PROVE  << ch, n >> \in OpenGames(gs) <=>
           /\ ch \in Channels /\ n \in GameNames
           /\ gs[ch][n] # NoEntry /\ ~Closed(gs[ch][n])
BY DEF OpenGames

LEMMA BrowsersGiveProperties == BrowsersInv => BrowsersMatch /\ ClientsSurvive
<1> SUFFICES ASSUME BrowsersInv PROVE BrowsersMatch /\ ClientsSurvive
  OBVIOUS
<1> USE DEF BrowsersInv, BrowsersRight
<1>1. ClientsSurvive
  BY DEF ClientsSurvive, BrowserShows
<1>2. ASSUME NEW c \in Conns, NEW n \in GameNames
      PROVE  LET g == games[gamechannel[c]][n]
             IN  /\ listing[c][n] = "listed" =>
                      InTown(c) /\ g # NoEntry /\ (Closed(g) => c \in Playing(g))
                 /\ (InTown(c) /\ g # NoEntry) =>
                      Closed(g) \/ c \in Playing(g)
                        \/ listing[c][n] \in {"listed", "own", "crashed"}
  <2> DEFINE ch == gamechannel[c]
             g == games[ch][n]
  <2>1. BrowserShows(listing[c][n], << ch, n >>, OpenGames(games), game[c])
    OBVIOUS
  <2>2. listing[c][n] = "listed" => InTown(c) /\ g # NoEntry /\ ~Closed(g)
    <3>1. listing[c][n] = "listed" => << ch, n >> \in OpenGames(games)
      BY <2>1 DEF BrowserShows
    <3> QED BY <3>1, OpenGamesAt, TownsAssumption DEF InTown
  <2>3. ASSUME InTown(c), g # NoEntry, ~Closed(g), c \notin Playing(g)
        PROVE  listing[c][n] \in {"listed", "own"}
    <3>1. ch \in Channels
      BY <2>3 DEF GameInv, GameTypes, InTown
    <3>2. game[c] # << ch, n >>
      BY <2>3, <3>1, PlayerIsCounted DEF Playing
    <3>3. << ch, n >> \in OpenGames(games)
      BY <2>3, <3>1, OpenGamesAt
    <3> QED BY <2>1, <3>2, <3>3 DEF BrowserShows
  <2> QED BY <2>2, <2>3
<1> QED BY <1>1, <1>2 DEF BrowsersMatch

-----------------------------------------------------------------------------
(* With the last player the game goes, and with it its place on the lists. *)
LEMMA OpenWithout ==
  ASSUME GameInv, NEW c \in Conns
  PROVE  OpenGames(GamesWithout(c))
           = IF game[c] # NoGame /\ Playing(EntryWithout(c)) = {}
             THEN OpenGames(games) \ {game[c]} ELSE OpenGames(games)
<1>1. CASE game[c] = NoGame
  BY <1>1 DEF GamesWithout
<1>2. CASE game[c] # NoGame
  <2> DEFINE ch0 == game[c][1]
             n0 == game[c][2]
             left == EntryWithout(c)
             new == IF Playing(left) = {} THEN NoEntry ELSE left
  <2>1. ch0 \in Channels /\ n0 \in GameNames /\ game[c] = << ch0, n0 >> /\ left \in GameEntry
    BY <1>2, EntryWithoutEffect
  <2>2. games[ch0][n0] # NoEntry /\ games[ch0][n0] \in GameEntry
    BY <2>1, PlayerIsCounted DEF GameInv, GameTypes
  <2>3. left.status = games[ch0][n0].status /\ left.npj = games[ch0][n0].npj
    BY <2>2 DEF EntryWithout, Entry, GameEntry
  <2>4. Closed(left) <=> Closed(games[ch0][n0])
    BY <2>3 DEF Closed
  <2>5. left # NoEntry
    BY <2>1, NoEntryAssumption
  <2>6. \A ch \in Channels, n \in GameNames :
          GamesWithout(c)[ch][n] = IF ch = ch0 /\ n = n0 THEN new ELSE games[ch][n]
    <3>1. GamesWithout(c) = [games EXCEPT ![ch0][n0] = new]
      BY <1>2 DEF GamesWithout
    <3>2. games \in [Channels -> [GameNames -> GameEntry \cup {NoEntry}]]
      BY DEF GameInv, GameTypes
    <3> HIDE DEF new, ch0, n0
    <3> QED BY <2>1, <3>1, <3>2
  <2> HIDE DEF left, ch0, n0
  <2>7. ASSUME NEW ch \in Channels, NEW n \in GameNames
        PROVE  << ch, n >> \in OpenGames(GamesWithout(c)) <=>
                 /\ << ch, n >> \in OpenGames(games)
                 /\ Playing(left) = {} => << ch, n >> # << ch0, n0 >>
    <3>1. CASE ch = ch0 /\ n = n0
      BY <2>2, <2>4, <2>5, <2>6, <3>1, OpenGamesAt
    <3>2. CASE ~(ch = ch0 /\ n = n0)
      <4>1. GamesWithout(c)[ch][n] = games[ch][n]
        BY <2>6, <3>2
      <4> QED BY <3>2, <4>1, OpenGamesAt
    <3> QED BY <3>1, <3>2
  <2>8. /\ OpenGames(GamesWithout(c)) \subseteq Channels \X GameNames
        /\ OpenGames(games) \subseteq Channels \X GameNames
    BY DEF OpenGames
  <2>9. \A id \in Channels \X GameNames :
          id \in OpenGames(GamesWithout(c)) <=>
            id \in OpenGames(games) /\ (Playing(left) = {} => id # << ch0, n0 >>)
    BY <2>7
  <2> QED BY <1>2, <2>1, <2>8, <2>9 DEF left
<1> QED BY <1>1, <1>2

(* GameEntry.remove tells exactly the clients that list the game.          *)
LEMMA ListingWithoutEffect ==
  ASSUME BrowsersInv, NEW c \in Conns
  PROVE  /\ ListingWithout(c) \in [Conns -> [GameNames -> Listings]]
         /\ \A d \in Conns, n \in GameNames :
              BrowserShows(ListingWithout(c)[d][n], << gamechannel[d], n >>,
                           OpenGames(GamesWithout(c)), game[d])
<1> DEFINE open == OpenGames(games)
           rest == OpenGames(GamesWithout(c))
<1>1. /\ listing \in [Conns -> [GameNames -> Listings]]
      /\ \A d \in Conns, n \in GameNames :
           BrowserShows(listing[d][n], << gamechannel[d], n >>, open, game[d])
  BY DEF BrowsersInv, BrowsersRight
<1>2. CASE game[c] = NoGame
  <2>1. ListingWithout(c) = listing /\ rest = open
    BY <1>2, OpenWithout DEF ListingWithout, BrowsersInv
  <2> QED BY <1>1, <2>1
<1>3. CASE game[c] # NoGame /\ Playing(EntryWithout(c)) # {}
  <2>1. ListingWithout(c) = listing /\ rest = open
    BY <1>3, OpenWithout DEF ListingWithout, BrowsersInv
  <2> QED BY <1>1, <2>1
<1>4. CASE game[c] # NoGame /\ Playing(EntryWithout(c)) = {}
  <2> DEFINE t == game[c][1]
             m == game[c][2]
             left == EntryWithout(c)
             to == Told(left, c)
  <2>1. t \in Channels /\ m \in GameNames /\ game[c] = << t, m >> /\ left \in GameEntry
    BY <1>4, EntryWithoutEffect DEF BrowsersInv
  <2>2. rest = open \ {<< t, m >>}
    BY <1>4, <2>1, OpenWithout DEF BrowsersInv
  <2>3. games[t][m] # NoEntry /\ games[t][m] \in GameEntry
    BY <2>1, PlayerIsCounted DEF BrowsersInv, GameInv, GameTypes
  <2>4. Closed(left) <=> Closed(games[t][m])
    <3>1. left.status = games[t][m].status /\ left.npj = games[t][m].npj
      BY <2>3 DEF EntryWithout, Entry, GameEntry
    <3> QED BY <3>1 DEF Closed
  <2>5. Closed(left) <=> << t, m >> \notin open
    BY <2>1, <2>3, <2>4, OpenGamesAt
  <2>6. ListingWithout(c) = Browsers(listing, m, to, Withdrawn)
    BY <1>4 DEF ListingWithout
  <2>7. \A d \in Conns \ {c} : game[d] # << t, m >>
    <3>1. ASSUME NEW d \in Conns \ {c}, game[d] = << t, m >> PROVE FALSE
      <4>1. games[t][m].players[d] > 0
        BY <2>1, <3>1, PlayerIsCounted DEF BrowsersInv
      <4>2. left.players[d] = games[t][m].players[d]
        BY <1>4, <2>1, EntryWithoutEffect DEF Entry, BrowsersInv
      <4>3. d \in Playing(left)
        BY <4>1, <4>2 DEF Playing
      <4> QED BY <1>4, <4>3
    <3> QED BY <3>1
  <2>8. \A d \in Conns : d \in to <=> gamechannel[d] = t /\ d # c /\ ~Closed(left)
    <3>1. Playing(left) = {} /\ c \in Conns
      BY <1>4
    <3>2. \A d \in Conns : d \in userlist[t] <=> gamechannel[d] = t
      BY <2>1 DEF BrowsersInv, TownInv, WhereaboutsAgree
    <3>3. to = IF Closed(left) THEN {} ELSE userlist[t] \ {c}
      BY <3>1 DEF Told, Outsiders
    <3> QED BY <3>2, <3>3
  <2> HIDE DEF t, m, left, to, open, rest
  <2>9. \A d \in Conns, n \in GameNames :
          Browsers(listing, m, to, Withdrawn)[d][n]
            = IF d \in to /\ n = m THEN Withdrawn[listing[d][n]] ELSE listing[d][n]
    BY <1>1, <2>1 DEF Browsers
  <2>10. \A l \in Listings : Withdrawn[l] \in Listings
    BY DEF Withdrawn, Listings
  <2>11. Browsers(listing, m, to, Withdrawn) \in [Conns -> [GameNames -> Listings]]
    BY <1>1, <2>1, <2>10 DEF Browsers
  <2>12. ASSUME NEW d \in Conns, NEW n \in GameNames
         PROVE  BrowserShows(ListingWithout(c)[d][n], << gamechannel[d], n >>, rest, game[d])
    <3>1. BrowserShows(listing[d][n], << gamechannel[d], n >>, open, game[d])
      BY <1>1
    <3>2. CASE << gamechannel[d], n >> # << t, m >>
      <4>1. ListingWithout(c)[d][n] = listing[d][n]
        BY <2>6, <2>8, <2>9, <3>2
      <4> QED BY <2>2, <3>1, <3>2, <4>1 DEF BrowserShows
    <3>3. CASE << gamechannel[d], n >> = << t, m >> /\ d \in to
      <4>1. d # c /\ << t, m >> \in open /\ game[d] # << t, m >>
        BY <2>5, <2>7, <2>8, <3>3
      <4>2. listing[d][n] \in {"listed", "own"}
        BY <3>1, <3>3, <4>1 DEF BrowserShows
      <4>3. n = m
        BY <3>3
      <4>4. ListingWithout(c)[d][n] = "removed"
        BY <2>6, <2>9, <3>3, <4>2, <4>3 DEF Withdrawn, Listings
      <4> QED BY <2>2, <3>3, <4>1, <4>4 DEF BrowserShows, Listings
    <3>4. CASE << gamechannel[d], n >> = << t, m >> /\ d \notin to
      <4>1. ListingWithout(c)[d][n] = listing[d][n]
        BY <2>6, <2>9, <3>4
      <4>2. CASE d = c
        <5>1. listing[d][n] = "own"
          BY <2>1, <3>1, <3>4, <4>2 DEF BrowserShows
        <5> QED BY <2>2, <3>4, <4>1, <5>1 DEF BrowserShows, Listings
      <4>3. CASE d # c
        <5>1. << t, m >> \notin open
          BY <2>5, <2>8, <3>4, <4>3
        <5> QED BY <2>2, <3>1, <3>4, <4>1, <5>1 DEF BrowserShows
      <4> QED BY <4>2, <4>3
    <3> QED BY <3>2, <3>3, <3>4
  <2> QED BY <2>6, <2>11, <2>12 DEF rest
<1> QED BY <1>2, <1>3, <1>4

LEMMA SameBrowsers ==
  ASSUME BrowsersRight, UNCHANGED << gamechannel, games, game, listing >>
  PROVE  BrowsersRight'
BY DEF BrowsersRight, BrowserShows, OpenGames, Closed

LEMMA GivingUpKeepsBrowsers ==
  ASSUME BrowsersInv, NEW c \in Conns,
         games' = GamesWithout(c), game' = [game EXCEPT ![c] = NoGame],
         listing' = ListingWithout(c), gamechannel' = gamechannel
  PROVE  BrowsersRight'
<1>1. OpenGames(games)' = OpenGames(GamesWithout(c))
  BY DEF OpenGames, Closed
<1>2. \A d \in Conns : game'[d] = IF d = c THEN NoGame ELSE game[d]
  BY DEF BrowsersInv, GameInv, GameTypes
<1>3. OpenGames(GamesWithout(c)) \subseteq Channels \X GameNames
  BY DEF OpenGames
<1> DEFINE rest == OpenGames(GamesWithout(c))
<1>4. ASSUME NEW d \in Conns, NEW n \in GameNames
      PROVE  BrowserShows(ListingWithout(c)[d][n], << gamechannel[d], n >>, rest, game'[d])
  <2>1. BrowserShows(ListingWithout(c)[d][n], << gamechannel[d], n >>, rest, game[d])
    BY ListingWithoutEffect
  <2> HIDE DEF rest
  <2>2. CASE d # c
    BY <1>2, <2>1, <2>2
  <2>3. CASE d = c
    <3>1. game'[d] = NoGame
      BY <1>2, <2>3
    <3> QED BY <1>3, <2>1, <2>3, <3>1, GamesAssumption DEF BrowserShows, rest
  <2> QED BY <2>2, <2>3
<1>5. ListingWithout(c) \in [Conns -> [GameNames -> Listings]]
  BY ListingWithoutEffect
<1> HIDE DEF rest
<1>6. \A d \in Conns, n \in GameNames :
        BrowserShows(listing'[d][n], << gamechannel'[d], n >>, OpenGames(games)', game'[d])
  BY <1>1, <1>4 DEF rest
<1> QED BY <1>5, <1>6 DEF BrowsersRight, BrowserShows

LEMMA LeaveTownKeepsBrowsers ==
  ASSUME BrowsersInv, NEW c \in Conns, LeaveTown(c)
  PROVE  BrowsersRight'
<1>1. CASE ~InTown(c)
  BY <1>1, SameBrowsers DEF LeaveTown, gameVars, BrowsersInv
<1>2. CASE InTown(c)
  <2> DEFINE rest == OpenGames(GamesWithout(c))
             lists == ListingWithout(c)
  <2>1. /\ games' = GamesWithout(c)
        /\ game' = [game EXCEPT ![c] = NoGame]
        /\ listing' = [lists EXCEPT ![c] = [n \in GameNames |->
                         IF @[n] = "crashed" THEN "crashed" ELSE "none"]]
        /\ gamechannel' = [gamechannel EXCEPT ![c] = NoChannel]
    BY <1>2 DEF LeaveTown
  <2>2. OpenGames(games)' = rest
    BY <2>1 DEF OpenGames, Closed
  <2>3. /\ lists \in [Conns -> [GameNames -> Listings]]
        /\ \A d \in Conns, n \in GameNames :
             BrowserShows(lists[d][n], << gamechannel[d], n >>, rest, game[d])
    BY ListingWithoutEffect
  <2>4. rest \subseteq Channels \X GameNames
    BY DEF OpenGames
  <2>5. \A d \in Conns : /\ game'[d] = IF d = c THEN NoGame ELSE game[d]
                         /\ gamechannel'[d] = IF d = c THEN NoChannel ELSE gamechannel[d]
    BY <2>1 DEF BrowsersInv, GameInv, GameTypes
  <2> HIDE DEF rest, lists
  <2>6. \A n \in GameNames : lists[c][n] # "crashed"
    BY <2>3 DEF BrowserShows
  <2>7. /\ listing' \in [Conns -> [GameNames -> Listings]]
        /\ \A d \in Conns, n \in GameNames :
             listing'[d][n] = IF d = c THEN "none" ELSE lists[d][n]
    BY <2>1, <2>3, <2>6 DEF Listings
  <2>8. ASSUME NEW d \in Conns, NEW n \in GameNames
        PROVE  BrowserShows(listing'[d][n], << gamechannel'[d], n >>, rest, game'[d])
    <3>1. CASE d # c
      BY <2>3, <2>5, <2>7, <3>1
    <3>2. CASE d = c
      <4>1. listing'[d][n] = "none" /\ gamechannel'[d] = NoChannel /\ game'[d] = NoGame
        BY <2>5, <2>7, <3>2
      <4>2. << NoChannel, n >> \notin Channels \X GameNames
        BY TownsAssumption
      <4> QED BY <2>4, <4>1, <4>2 DEF BrowserShows, Listings
    <3> QED BY <3>1, <3>2
  <2> QED BY <2>2, <2>7, <2>8 DEF BrowsersRight, BrowserShows
<1> QED BY <1>1, <1>2

(* enumGames shows a newcomer the games that take players.                 *)
LEMMA ArrivalKeepsBrowsers ==
  ASSUME BrowsersInv, NEW c \in Conns, NEW ch \in Channels, JoinGameChannel(c, ch)
  PROVE  BrowsersRight'
<1>1. /\ games' = games /\ game' = game
      /\ gamechannel' = [gamechannel EXCEPT ![c] = ch]
      /\ listing' = [listing EXCEPT ![c] = [n \in GameNames |->
                       IF @[n] = "crashed" THEN "crashed" ELSE Enumerated(ch)[n]]]
      /\ c \in requested[ch]
  BY DEF JoinGameChannel
<1>2. gamechannel[c] = NoChannel
  BY <1>1, TownsAssumption DEF BrowsersInv, TownInv, TownsTypeOK, WhereaboutsAgree, InTown
<1>3. game[c] = NoGame
  BY <1>2, TownsAssumption DEF BrowsersInv, GameInv, GameTypes, PlayerCounted
<1>4. /\ listing \in [Conns -> [GameNames -> Listings]]
      /\ \A d \in Conns, n \in GameNames :
           BrowserShows(listing[d][n], << gamechannel[d], n >>, OpenGames(games), game[d])
  BY DEF BrowsersInv, BrowsersRight
<1>5. \A n \in GameNames :
        Enumerated(ch)[n] = IF << ch, n >> \in OpenGames(games) THEN "listed" ELSE "none"
  BY OpenGamesAt DEF Enumerated
<1>6. /\ listing' \in [Conns -> [GameNames -> Listings]]
      /\ \A d \in Conns, n \in GameNames :
           listing'[d][n] = IF d = c THEN Enumerated(ch)[n] ELSE listing[d][n]
  <2>1. \A n \in GameNames : listing[c][n] # "crashed" /\ Enumerated(ch)[n] \in Listings
    BY <1>4, <1>5 DEF BrowserShows, Listings
  <2> QED BY <1>1, <1>4, <2>1
<1>7. \A d \in Conns : gamechannel'[d] = IF d = c THEN ch ELSE gamechannel[d]
  BY <1>1 DEF BrowsersInv, GameInv, GameTypes
<1>8. ASSUME NEW d \in Conns, NEW n \in GameNames
      PROVE  BrowserShows(listing'[d][n], << gamechannel'[d], n >>, OpenGames(games), game[d])
  <2>1. CASE d # c
    BY <1>4, <1>6, <1>7, <2>1
  <2>2. CASE d = c
    <3>1. << ch, n >> # NoGame
      BY GamesAssumption
    <3> QED BY <1>3, <1>5, <1>6, <1>7, <2>2, <3>1 DEF BrowserShows, Listings
  <2> QED BY <2>1, <2>2
<1>9. OpenGames(games)' = OpenGames(games)
  BY <1>1 DEF OpenGames, Closed
<1> QED BY <1>1, <1>6, <1>8, <1>9 DEF BrowsersRight, BrowserShows

(* A new game is announced to the town unless it is closed.                *)
LEMMA CreatingKeepsBrowsers ==
  ASSUME BrowsersInv, NEW c \in Conns, NEW n \in GameNames, NEW pw \in Passwords,
         NEW npj \in BOOLEAN, NEW st \in BOOLEAN, NEW mx \in Nat,
         CreateGame(c, n, pw, npj, st, mx)
  PROVE  BrowsersRight'
<1> DEFINE ch == gamechannel[c]
           new == [host |-> c, password |-> pw, npj |-> npj, status |-> st,
                   maxplayers |-> mx, players |-> [d \in Conns |-> IF d = c THEN 1 ELSE 0]]
           to == IF Closed(new) THEN {} ELSE userlist[ch] \ {c}
           lists == ListingWithout(c)
           told == Browsers(lists, n, to, Announced)
           rest == OpenGames(GamesWithout(c))
           now == OpenGames(games')
<1>1. /\ InTown(c) /\ gameRequests[ch][n] = c
      /\ games' = [GamesWithout(c) EXCEPT ![ch][n] = new]
      /\ game' = [game EXCEPT ![c] = << ch, n >>]
      /\ listing' = Browsers(told, n, {c}, Owned)
      /\ gamechannel' = gamechannel
  BY DEF CreateGame, MayCreate, Busy, townVars
<1>2. ch \in Channels
  BY <1>1 DEF BrowsersInv, GameInv, GameTypes, InTown
<1>3. games[ch][n] = NoEntry
  BY <1>1, <1>2 DEF BrowsersInv, GameInv, ReservationWanted
<1>4. \A d \in Conns : game[d] # << ch, n >>
  BY <1>2, <1>3, PlayerIsCounted DEF BrowsersInv
<1>5. /\ lists \in [Conns -> [GameNames -> Listings]]
      /\ \A d \in Conns, m \in GameNames :
           BrowserShows(lists[d][m], << gamechannel[d], m >>, rest, game[d])
  BY ListingWithoutEffect
<1>6. \A d \in Conns : d \in to <=> d # c /\ gamechannel[d] = ch /\ ~Closed(new)
  <2>1. \A d \in Conns : d \in userlist[ch] <=> gamechannel[d] = ch
    BY <1>2 DEF BrowsersInv, TownInv, WhereaboutsAgree
  <2> HIDE DEF new, ch
  <2> QED BY <2>1
<1>7. \A d \in Conns : game'[d] = IF d = c THEN << ch, n >> ELSE game[d]
  BY <1>1 DEF BrowsersInv, GameInv, GameTypes
<1>8. new # NoEntry
  <2>1. new \in GameEntry
    BY DEF GameEntry
  <2> QED BY <2>1, NoEntryAssumption
<1> HIDE DEF new, to, lists, told, ch
<1>9. /\ << ch, n >> \in now <=> ~Closed(new)
      /\ \A t \in Channels, m \in GameNames :
           << t, m >> # << ch, n >> => (<< t, m >> \in now <=> << t, m >> \in rest)
  <2>1. \A t \in Channels, m \in GameNames :
          games'[t][m] = IF t = ch /\ m = n THEN new ELSE GamesWithout(c)[t][m]
    <3>1. GamesWithout(c) \in [Channels -> [GameNames -> GameEntry \cup {NoEntry}]]
      BY GamesWithoutEffect DEF BrowsersInv
    <3> QED BY <1>1, <1>2, <3>1
  <2>2. << ch, n >> \in now <=> ~Closed(new)
    BY <1>2, <1>8, <2>1, OpenGamesAt
  <2>3. ASSUME NEW t \in Channels, NEW m \in GameNames, << t, m >> # << ch, n >>
        PROVE  << t, m >> \in now <=> << t, m >> \in rest
    <3>1. games'[t][m] = GamesWithout(c)[t][m]
      BY <2>1, <2>3
    <3> QED BY <3>1, OpenGamesAt
  <2> QED BY <2>2, <2>3
<1>10. now \subseteq Channels \X GameNames /\ rest \subseteq Channels \X GameNames
  BY DEF OpenGames
<1>11. << ch, n >> \notin rest
  <2>1. GamesWithout(c)[ch][n] = NoEntry
    BY <1>2, <1>3, GamesWithoutEffect DEF BrowsersInv
  <2> QED BY <2>1, OpenGamesAt
<1>12. /\ listing' \in [Conns -> [GameNames -> Listings]]
       /\ \A d \in Conns, m \in GameNames :
            listing'[d][m] = IF m = n /\ d = c THEN Owned[told[d][m]]
                             ELSE IF m = n /\ d \in to THEN Announced[lists[d][m]]
                             ELSE lists[d][m]
  <2>1. \A l \in Listings : Announced[l] \in Listings /\ Owned[l] \in Listings
    BY DEF Announced, Owned, Listings
  <2>2. /\ told \in [Conns -> [GameNames -> Listings]]
        /\ \A d \in Conns, m \in GameNames :
             told[d][m] = IF m = n /\ d \in to THEN Announced[lists[d][m]] ELSE lists[d][m]
    BY <1>5, <2>1 DEF told, Browsers
  <2>3. /\ Browsers(told, n, {c}, Owned) \in [Conns -> [GameNames -> Listings]]
        /\ \A d \in Conns, m \in GameNames :
             Browsers(told, n, {c}, Owned)[d][m]
               = IF m = n /\ d = c THEN Owned[told[d][m]] ELSE told[d][m]
    BY <2>1, <2>2 DEF Browsers
  <2>4. \A d \in Conns, m \in GameNames :
          listing'[d][m] = IF m = n /\ d = c THEN Owned[told[d][m]] ELSE told[d][m]
    BY <1>1, <2>3
  <2>5. listing' \in [Conns -> [GameNames -> Listings]]
    BY <1>1, <2>3
  <2>6. \A d \in Conns, m \in GameNames :
          ~(m = n /\ d = c) =>
            listing'[d][m] = IF m = n /\ d \in to THEN Announced[lists[d][m]] ELSE lists[d][m]
    BY <2>2, <2>4
  <2>7. listing'[c][n] = Owned[told[c][n]]
    BY <2>4
  <2> QED BY <2>5, <2>6, <2>7
<1>13. \A d \in Conns, m \in GameNames : lists[d][m] # "crashed"
  BY <1>5 DEF BrowserShows
<1> HIDE DEF now, rest
<1>14. ASSUME NEW d \in Conns, NEW m \in GameNames
       PROVE  BrowserShows(listing'[d][m], << gamechannel[d], m >>, now, game'[d])
  <2>1. BrowserShows(lists[d][m], << gamechannel[d], m >>, rest, game[d])
    BY <1>5
  <2>2. CASE m # n
    <3>1. listing'[d][m] = lists[d][m]
      BY <1>12, <2>2
    <3>2. << gamechannel[d], m >> \in now <=> << gamechannel[d], m >> \in rest
      BY <1>9, <1>10, <2>2
    <3>3. d # c => game'[d] = game[d]
      BY <1>7
    <3>4. CASE d # c
      BY <2>1, <3>1, <3>2, <3>3, <3>4 DEF BrowserShows, Listings
    <3>5. CASE d = c
      <4>1. << ch, m >> # game'[d]
        BY <1>7, <2>2, <3>5
      <4> QED BY <1>10, <2>1, <3>1, <3>2, <3>5, <4>1 DEF BrowserShows, ch, Listings
    <3> QED BY <3>4, <3>5
  <2>3. CASE m = n /\ d = c
    <3>1. told[c][n] # "crashed" /\ told[c][n] \in Listings
      <4>1. c \notin to
        BY <1>6
      <4> QED BY <1>5, <1>13, <4>1 DEF told, Browsers
    <3>2. listing'[d][m] = "own"
      BY <1>12, <2>3, <3>1 DEF Owned
    <3>3. << gamechannel[d], m >> = game'[d]
      BY <1>7, <2>3 DEF ch
    <3> QED BY <3>2, <3>3 DEF BrowserShows, Listings
  <2>4. CASE m = n /\ d # c /\ d \in to
    <3>1. listing'[d][m] = "listed"
      <4>1. lists[d][m] \in Listings /\ lists[d][m] # "crashed"
        BY <1>5, <1>13
      <4> QED BY <1>12, <2>4, <4>1 DEF Announced
    <3>2. game'[d] # << ch, n >> /\ gamechannel[d] = ch /\ << ch, n >> \in now
      BY <1>4, <1>6, <1>7, <1>9, <2>4
    <3> QED BY <2>4, <3>1, <3>2 DEF BrowserShows, Listings
  <2>5. CASE m = n /\ d # c /\ d \notin to
    <3>1. listing'[d][m] = lists[d][m] /\ game'[d] = game[d]
      BY <1>7, <1>12, <2>5
    <3>2. << gamechannel[d], m >> \in now <=> << gamechannel[d], m >> \in rest
      BY <1>6, <1>9, <1>10, <1>11, <2>5
    <3> QED BY <2>1, <3>1, <3>2 DEF BrowserShows, Listings
  <2> QED BY <2>2, <2>3, <2>4, <2>5
<1>15. OpenGames(games)' = now
  BY DEF OpenGames, Closed, now
<1> QED BY <1>1, <1>12, <1>14, <1>15 DEF BrowsersRight, BrowserShows

LEMMA JoiningKeepsBrowsers ==
  ASSUME BrowsersInv, NEW c \in Conns, NEW n \in GameNames, NEW pw,
         JoinGame(c, n, pw), game[c] = NoGame
  PROVE  BrowsersRight'
<1> DEFINE ch == gamechannel[c]
           g == games[ch][n]
           now == OpenGames(games')
<1>1. /\ InTown(c) /\ g # NoEntry /\ ~Closed(g)
      /\ games' = [games EXCEPT ![ch][n] = EntryWith(g, c)]
      /\ game' = [game EXCEPT ![c] = << ch, n >>]
      /\ listing' = Browsers(listing, n, {c}, Owned)
      /\ gamechannel' = gamechannel
  BY DEF JoinGame, Busy, townVars
<1>2. ch \in Channels /\ g \in GameEntry
  BY <1>1 DEF BrowsersInv, GameInv, GameTypes, InTown
<1>3. /\ listing \in [Conns -> [GameNames -> Listings]]
      /\ \A d \in Conns, m \in GameNames :
           BrowserShows(listing[d][m], << gamechannel[d], m >>, OpenGames(games), game[d])
  BY DEF BrowsersInv, BrowsersRight
<1>4. EntryWith(g, c) # NoEntry /\ ~Closed(EntryWith(g, c))
  <2>1. EntryWith(g, c) \in GameEntry
    BY <1>2, EntryWithEffect
  <2>2. EntryWith(g, c).status = g.status /\ EntryWith(g, c).npj = g.npj
    BY <1>2 DEF EntryWith, GameEntry
  <2> QED BY <1>1, <2>1, <2>2, NoEntryAssumption DEF Closed
<1>5. now = OpenGames(games)
  <2>1. games \in [Channels -> [GameNames -> GameEntry \cup {NoEntry}]]
    BY DEF BrowsersInv, GameInv, GameTypes
  <2>2. \A t \in Channels, m \in GameNames :
          games'[t][m] = IF t = ch /\ m = n THEN EntryWith(g, c) ELSE games[t][m]
    <3> HIDE DEF g, ch
    <3> QED BY <1>1, <1>2, <2>1
  <2> HIDE DEF ch
  <2>3. ASSUME NEW t \in Channels, NEW m \in GameNames
        PROVE  << t, m >> \in now <=> << t, m >> \in OpenGames(games)
    <3>1. CASE t = ch /\ m = n
      <4>1. games'[t][m] = EntryWith(g, c) /\ games[t][m] = g
        BY <2>2, <3>1
      <4>2. << t, m >> \in now <=> games'[t][m] # NoEntry /\ ~Closed(games'[t][m])
        BY OpenGamesAt
      <4>3. << t, m >> \in OpenGames(games) <=> games[t][m] # NoEntry /\ ~Closed(games[t][m])
        BY OpenGamesAt
      <4> QED BY <1>1, <1>4, <4>1, <4>2, <4>3
    <3>2. CASE ~(t = ch /\ m = n)
      <4>1. games'[t][m] = games[t][m]
        BY <2>2, <3>2
      <4> QED BY <4>1, OpenGamesAt
    <3> QED BY <3>1, <3>2
  <2>4. now \subseteq Channels \X GameNames /\ OpenGames(games) \subseteq Channels \X GameNames
    BY DEF OpenGames
  <2> HIDE DEF now
  <2> QED BY <2>3, <2>4
<1>6. \A d \in Conns : game'[d] = IF d = c THEN << ch, n >> ELSE game[d]
  BY <1>1 DEF BrowsersInv, GameInv, GameTypes
<1>7. /\ listing' \in [Conns -> [GameNames -> Listings]]
      /\ \A d \in Conns, m \in GameNames :
           listing'[d][m] = IF m = n /\ d = c THEN "own" ELSE listing[d][m]
  <2>1. \A l \in Listings : Owned[l] \in Listings /\ (l # "crashed" => Owned[l] = "own")
    BY DEF Owned, Listings
  <2>2. listing[c][n] \in Listings /\ listing[c][n] # "crashed"
    BY <1>3 DEF BrowserShows
  <2>3. \A d \in Conns, m \in GameNames :
          Browsers(listing, n, {c}, Owned)[d][m]
            = IF m = n /\ d = c THEN Owned[listing[d][m]] ELSE listing[d][m]
    BY <1>3 DEF Browsers
  <2>4. Browsers(listing, n, {c}, Owned) \in [Conns -> [GameNames -> Listings]]
    BY <1>3, <2>1 DEF Browsers
  <2> QED BY <1>1, <2>1, <2>2, <2>3, <2>4
<1> HIDE DEF now, g
<1>8. ASSUME NEW d \in Conns, NEW m \in GameNames
      PROVE  BrowserShows(listing'[d][m], << gamechannel[d], m >>, OpenGames(games), game'[d])
  <2>1. BrowserShows(listing[d][m], << gamechannel[d], m >>, OpenGames(games), game[d])
    BY <1>3
  <2>2. CASE d # c
    BY <1>6, <1>7, <2>1, <2>2
  <2>3. CASE d = c /\ m # n
    <3>1. listing'[d][m] = listing[d][m] /\ game[d] = NoGame
      BY <1>7, <2>3
    <3>2. game'[d] # << gamechannel[d], m >>
      BY <1>6, <2>3
    <3>3. << gamechannel[d], m >> \in OpenGames(games) => NoGame # << gamechannel[d], m >>
      BY GamesAssumption DEF OpenGames
    <3> QED BY <2>1, <3>1, <3>2, <3>3 DEF BrowserShows
  <2>4. CASE d = c /\ m = n
    <3>1. listing'[d][m] = "own" /\ game'[d] = << gamechannel[d], m >>
      BY <1>6, <1>7, <2>4
    <3> QED BY <3>1 DEF BrowserShows, Listings
  <2> QED BY <2>2, <2>3, <2>4
<1>9. OpenGames(games)' = OpenGames(games)
  BY <1>5 DEF OpenGames, Closed, now
<1> QED BY <1>1, <1>7, <1>8, <1>9 DEF BrowsersRight, BrowserShows

(* A game that takes no more players leaves every list it is on.           *)
LEMMA StartingKeepsBrowsers ==
  ASSUME BrowsersInv, NEW c \in Conns, StartingGame(c), "start" \notin Retries
  PROVE  BrowsersRight'
<1>0. game[c] # NoGame
  BY DEF StartingGame
<1>1. PICK ch \in Channels, n \in GameNames : game[c] = << ch, n >>
  BY <1>0 DEF BrowsersInv, GameInv, GameTypes
<1> DEFINE g == games[ch][n]
           started == [g EXCEPT !.status = TRUE]
           to == Outsiders(g, ch)
           now == OpenGames(games')
<1>2. /\ games' = [games EXCEPT ![ch][n].status = TRUE]
      /\ ~g.status
      /\ listing' = IF g.npj THEN listing ELSE Browsers(listing, n, to, Withdrawn)
      /\ game' = game /\ gamechannel' = gamechannel
  BY <1>1 DEF StartingGame
<1>3. g \in GameEntry /\ g # NoEntry
  BY <1>1, PlayerIsCounted DEF BrowsersInv, GameInv, GameTypes
<1>4. started \in GameEntry /\ started.npj = g.npj /\ started.status
  BY <1>3 DEF GameEntry
<1>5. /\ listing \in [Conns -> [GameNames -> Listings]]
      /\ \A d \in Conns, m \in GameNames :
           BrowserShows(listing[d][m], << gamechannel[d], m >>, OpenGames(games), game[d])
  BY DEF BrowsersInv, BrowsersRight
<1>6. games \in [Channels -> [GameNames -> GameEntry \cup {NoEntry}]]
  BY DEF BrowsersInv, GameInv, GameTypes
<1>7. \A t \in Channels, m \in GameNames :
        games'[t][m] = IF t = ch /\ m = n THEN started ELSE games[t][m]
  BY <1>2, <1>6
<1>8. started # NoEntry /\ ~Closed(g) /\ (Closed(started) <=> ~g.npj)
  BY <1>2, <1>4, NoEntryAssumption DEF Closed
<1>9. \A d \in Conns : d \in to <=> gamechannel[d] = ch /\ game[d] # << ch, n >>
  <2>1. \A d \in Conns : d \in userlist[ch] <=> gamechannel[d] = ch
    BY DEF BrowsersInv, TownInv, WhereaboutsAgree
  <2>2. \A d \in Conns : d \in Playing(g) <=> game[d] = << ch, n >>
    BY <1>3 DEF Playing, BrowsersInv, NoGhostPlayers
  <2> QED BY <2>1, <2>2 DEF Outsiders
<1> HIDE DEF g, started, to
<1>10. << ch, n >> \in OpenGames(games) /\ (<< ch, n >> \in now <=> g.npj)
  BY <1>3, <1>7, <1>8, OpenGamesAt DEF g
<1>11. ASSUME NEW t \in Channels, NEW m \in GameNames, << t, m >> # << ch, n >>
       PROVE  << t, m >> \in now <=> << t, m >> \in OpenGames(games)
  <2>1. games'[t][m] = games[t][m]
    BY <1>7, <1>11
  <2> QED BY <2>1, OpenGamesAt
<1>12. now \subseteq Channels \X GameNames /\ OpenGames(games) \subseteq Channels \X GameNames
  BY DEF OpenGames
<1>13. OpenGames(games)' = now
  BY DEF OpenGames, Closed
<1> HIDE DEF now
<1>14. CASE g.npj
  <2>1. now = OpenGames(games)
    BY <1>10, <1>11, <1>12, <1>14
  <2> QED BY <1>2, <1>5, <1>13, <1>14, <2>1 DEF BrowsersRight, BrowserShows
<1>15. CASE ~g.npj
  <2>1. /\ listing' \in [Conns -> [GameNames -> Listings]]
        /\ \A d \in Conns, m \in GameNames :
             listing'[d][m] = IF m = n /\ d \in to THEN Withdrawn[listing[d][m]]
                              ELSE listing[d][m]
    <3>1. \A l \in Listings : Withdrawn[l] \in Listings
      BY DEF Withdrawn, Listings
    <3> QED BY <1>2, <1>5, <1>15, <3>1 DEF Browsers
  <2>2. ASSUME NEW d \in Conns, NEW m \in GameNames
        PROVE  BrowserShows(listing'[d][m], << gamechannel[d], m >>, now, game[d])
    <3>1. BrowserShows(listing[d][m], << gamechannel[d], m >>, OpenGames(games), game[d])
      BY <1>5
    <3>2. CASE << gamechannel[d], m >> # << ch, n >>
      <4>1. listing'[d][m] = listing[d][m]
        BY <1>9, <2>1, <3>2
      <4>2. << gamechannel[d], m >> \in now <=> << gamechannel[d], m >> \in OpenGames(games)
        BY <1>11, <1>12, <3>2
      <4> QED BY <3>1, <4>1, <4>2 DEF BrowserShows, Listings
    <3>3. CASE << gamechannel[d], m >> = << ch, n >> /\ d \in to
      <4>1. listing[d][m] \in {"listed", "own"}
        BY <1>9, <1>10, <3>1, <3>3 DEF BrowserShows
      <4>2. listing'[d][m] = "removed"
        BY <2>1, <3>3, <4>1 DEF Withdrawn, Listings
      <4> QED BY <1>9, <1>10, <1>15, <3>3, <4>2 DEF BrowserShows, Listings
    <3>4. CASE << gamechannel[d], m >> = << ch, n >> /\ d \notin to
      <4>1. game[d] = << ch, n >> /\ listing'[d][m] = listing[d][m]
        BY <1>9, <2>1, <3>4
      <4>2. listing[d][m] = "own"
        BY <3>1, <3>4, <4>1 DEF BrowserShows
      <4> QED BY <3>4, <4>1, <4>2 DEF BrowserShows, Listings
    <3> QED BY <3>2, <3>3, <3>4
  <2> QED BY <1>2, <1>13, <2>1, <2>2 DEF BrowsersRight, BrowserShows
<1> QED BY <1>14, <1>15

LEMMA NextKeepsBrowsers ==
  ASSUME BrowsersInv, "game" \notin Retries, "start" \notin Retries, [Next]_vars
  PROVE  BrowsersRight'
<1>1. CASE UNCHANGED << gamechannel, games, game, listing >>
  BY <1>1, SameBrowsers DEF BrowsersInv
<1>2. CASE UNCHANGED vars \/ UpdatePos
  BY <1>1, <1>2 DEF vars, townVars, gameVars, UpdatePos
<1>3. ASSUME NEW c \in Conns, TownStep(c) \/ ChatStep(c)
      PROVE  BrowsersRight'
  <2>1. CASE Disconnect(c) \/ LeaveGameChannel(c) \/ \E ch \in Channels : RequestJoin(c, ch)
    BY <2>1, LeaveTownKeepsBrowsers DEF Disconnect, LeaveGameChannel, RequestJoin
  <2>2. CASE \E ch \in Channels : JoinGameChannel(c, ch)
    BY <2>2, ArrivalKeepsBrowsers
  <2>3. CASE \/ Login(c)
             \/ \E blob \in HeroBlobs : SetUserHeroData(c, blob)
             \/ UpdateHeroPos(c)
    BY <1>1, <2>3 DEF Login, SetUserHeroData, UpdateHeroPos, gameVars
  <2>4. CASE ChatStep(c)
    BY <1>1, <2>4 DEF ChatStep, JoinChat, CreateChat, LeaveChatChannel, townVars, gameVars
  <2> QED BY <1>3, <2>1, <2>2, <2>3, <2>4 DEF TownStep
<1>4. ASSUME NEW c \in Conns, GameStep(c)
      PROVE  BrowsersRight'
  <2>1. CASE \E n \in GameNames : RequestCreateGame(c, n)
    BY <2>1, GivingUpKeepsBrowsers DEF RequestCreateGame, townVars
  <2>2. ASSUME NEW n \in GameNames, NEW pw \in Passwords, NEW npj \in CreateNpj,
               NEW st \in CreateStatus, NEW mx \in MaxPlayers,
               CreateGame(c, n, pw, npj, st, mx)
        PROVE  BrowsersRight'
    <3>1. npj \in BOOLEAN /\ st \in BOOLEAN /\ mx \in Nat
      BY LobbyAssumption, GamesAssumption
    <3> QED BY <2>2, <3>1, CreatingKeepsBrowsers
  <2>3. CASE \E n \in GameNames : CreateGameFails(c, n)
    BY <2>3, GivingUpKeepsBrowsers DEF CreateGameFails
  <2>4. CASE \E n \in GameNames, pw \in Passwords : JoinGame(c, n, pw)
    BY <2>4, JoiningKeepsBrowsers DEF JoinGame
  <2>5. CASE StopGame(c)
    BY <2>5, GivingUpKeepsBrowsers DEF StopGame, townVars
  <2>6. CASE StartingGame(c)
    BY <2>6, StartingKeepsBrowsers
  <2> QED BY <1>4, <2>1, <2>2, <2>3, <2>4, <2>5, <2>6 DEF GameStep
<1> QED BY <1>2, <1>3, <1>4 DEF Next

LEMMA BrowsersInvHolds ==
  ASSUME "game" \notin Retries, "start" \notin Retries
  PROVE  Spec => []BrowsersInv
<1>1. Init => BrowsersInv
  <2> SUFFICES ASSUME Init PROVE NoGhostPlayers /\ BrowsersRight
    BY InitTownInv, InitGameInv DEF BrowsersInv
  <2>1. NoGhostPlayers
    BY DEF Init, GamesInit, NoGhostPlayers
  <2>2. /\ listing = [c \in Conns |-> [n \in GameNames |-> "none"]]
        /\ game = [c \in Conns |-> NoGame]
    BY DEF Init, GamesInit
  <2>3. OpenGames(games) = {}
    BY DEF Init, GamesInit, OpenGames
  <2> QED BY <2>1, <2>2, <2>3, GamesAssumption DEF BrowsersRight, BrowserShows, Listings
<1>2. BrowsersInv /\ [Next]_vars => BrowsersInv'
  BY NextTownInv, NextGameInv, NextLeavesNoGhost, NextKeepsBrowsers DEF BrowsersInv
<1> QED BY <1>1, <1>2, PTL DEF Spec

(* With clients that join only while in no game and start a closed game    *)
(* once, the game browser of every client is right after any sequence of   *)
(* commands, failures and disconnects (GameEntry.remove, enumGames).       *)
THEOREM BrowsersTheorem ==
  ASSUME "game" \notin Retries, "start" \notin Retries
  PROVE  Spec => []BrowsersMatch
BY BrowsersInvHolds, BrowsersGiveProperties, PTL

(* ... and nobody is told to remove a game it does not list, which crashed *)
(* the client (GameEntry.remove, GameEntry.startingGame).                  *)
THEOREM ClientsSurviveTheorem ==
  ASSUME "game" \notin Retries, "start" \notin Retries
  PROVE  Spec => []ClientsSurvive
BY BrowsersInvHolds, BrowsersGiveProperties, PTL

-----------------------------------------------------------------------------
(***************************************************************************)
(* The players a browser shows for a listed game are those whose records   *)
(* name it, all of them if the game takes players while it runs.           *)
(***************************************************************************)
RosterShows(l, shown, ch, n, gs, plays) ==
  l = "listed" =>
    /\ \A e \in shown : plays[e] = << ch, n >>
    /\ gs[ch][n].npj => \A e \in Conns : plays[e] = << ch, n >> => e \in shown

RostersRight ==
  /\ roster \in [Conns -> [GameNames -> SUBSET Conns]]
  /\ \A d \in Conns, n \in GameNames :
       RosterShows(listing[d][n], roster[d][n], gamechannel[d], n, games, game)

RostersInv == BrowsersInv /\ RostersRight

LEMMA RostersGiveMatch == RostersInv => RostersMatch
<1> SUFFICES ASSUME RostersInv, NEW c \in Conns, NEW n \in GameNames,
                    listing[c][n] = "listed"
             PROVE  LET g == games[gamechannel[c]][n]
                    IN  /\ roster[c][n] \subseteq Playing(g)
                        /\ g.npj => roster[c][n] = Playing(g)
  BY DEF RostersMatch
<1> DEFINE ch == gamechannel[c]
<1>1. BrowserShows(listing[c][n], << ch, n >>, OpenGames(games), game[c])
  BY DEF RostersInv, BrowsersInv, BrowsersRight
<1>2. ch \in Channels /\ games[ch][n] # NoEntry
  <2>1. << ch, n >> \in OpenGames(games)
    BY <1>1 DEF BrowserShows
  <2> QED BY <2>1, OpenGamesAt
<1>3. Playing(games[ch][n]) = {e \in Conns : game[e] = << ch, n >>}
  BY <1>2 DEF RostersInv, BrowsersInv, NoGhostPlayers, Playing
<1>4. RosterShows("listed", roster[c][n], ch, n, games, game) /\ roster[c][n] \subseteq Conns
  BY DEF RostersInv, RostersRight
<1> HIDE DEF ch
<1> QED BY <1>3, <1>4 DEF RosterShows, ch

LEMMA OfferedKeepsRosters ==
  ASSUME NEW rosters,
         \A d \in Conns, n \in GameNames :
           /\ rosters[d][n] \subseteq Conns
           /\ RosterShows(listing'[d][n], rosters[d][n], gamechannel'[d], n, games', game'),
         roster' = Offered(rosters, listing')
  PROVE  RostersRight'
<1>1. roster' \in [Conns -> [GameNames -> SUBSET Conns]]
  BY DEF Offered
<1>2. \A d \in Conns, n \in GameNames :
        listing'[d][n] = "listed" => roster'[d][n] = rosters[d][n]
  BY DEF Offered
<1>3. \A d \in Conns, n \in GameNames :
        RosterShows(listing'[d][n], roster'[d][n], gamechannel'[d], n, games', game')
  BY <1>2 DEF RosterShows
<1> QED BY <1>1, <1>3 DEF RostersRight, RosterShows

(* Who leaves a game that goes on is taken off the rosters of all who list *)
(* the game; a game that ends leaves the lists.                            *)
LEMMA RosterWithoutEffect ==
  ASSUME RostersInv, NEW c \in Conns, NEW d \in Conns, NEW n \in GameNames
  PROVE  /\ RosterWithout(c)[d][n] \subseteq Conns
         /\ RosterShows(ListingWithout(c)[d][n], RosterWithout(c)[d][n], gamechannel[d], n,
                        GamesWithout(c), [game EXCEPT ![c] = NoGame])
<1> DEFINE left == EntryWithout(c)
           ch == gamechannel[d]
           now == [game EXCEPT ![c] = NoGame]
<1>1. /\ roster \in [Conns -> [GameNames -> SUBSET Conns]]
      /\ RosterShows(listing[d][n], roster[d][n], ch, n, games, game)
  BY DEF RostersInv, RostersRight
<1>2. /\ RosterWithout(c)[d][n] \subseteq roster[d][n]
      /\ roster[d][n] \ {c} \subseteq RosterWithout(c)[d][n]
      /\ game[c] = NoGame \/ Playing(left) = {} => RosterWithout(c)[d][n] = roster[d][n]
      /\ (game[c] # NoGame /\ Playing(left) # {} /\ d \in Told(left, c)) =>
           c \notin RosterWithout(c)[d][n]
  BY <1>1 DEF RosterWithout
<1>3. RosterWithout(c)[d][n] \subseteq Conns
  BY <1>1, <1>2
<1> SUFFICES ASSUME ListingWithout(c)[d][n] = "listed"
             PROVE  /\ \A e \in RosterWithout(c)[d][n] : now[e] = << ch, n >>
                    /\ GamesWithout(c)[ch][n].npj =>
                         \A e \in Conns : now[e] = << ch, n >> => e \in RosterWithout(c)[d][n]
  BY <1>3 DEF RosterShows
<1>4. /\ << ch, n >> \in OpenGames(GamesWithout(c)) /\ << ch, n >> # game[d]
  BY ListingWithoutEffect DEF RostersInv, BrowserShows
<1>5. ch \in Channels /\ << ch, n >> # NoGame
  BY <1>4, OpenGamesAt, GamesAssumption
<1>6. listing[d][n] = "listed"
  <2>1. \A l \in Listings : Withdrawn[l] # "listed"
    BY DEF Withdrawn
  <2>2. listing \in [Conns -> [GameNames -> Listings]]
    BY DEF RostersInv, BrowsersInv, BrowsersRight
  <2> QED BY <2>1, <2>2 DEF ListingWithout, Browsers
<1>7. /\ \A e \in roster[d][n] : game[e] = << ch, n >>
      /\ games[ch][n].npj => \A e \in Conns : game[e] = << ch, n >> => e \in roster[d][n]
  BY <1>1, <1>6 DEF RosterShows
<1>8. \A e \in Conns : now[e] = IF e = c THEN NoGame ELSE game[e]
  BY DEF RostersInv, BrowsersInv, GameInv, GameTypes
<1>9. CASE game[c] # << ch, n >>
  <2>1. GamesWithout(c)[ch][n] = games[ch][n]
    BY <1>5, <1>9, GamesWithoutEffect DEF RostersInv, BrowsersInv
  <2>2. c \notin roster[d][n]
    BY <1>7, <1>9
  <2>3. RosterWithout(c)[d][n] = roster[d][n]
    BY <1>2, <2>2
  <2> HIDE DEF now, ch
  <2> QED BY <1>1, <1>5, <1>7, <1>8, <1>9, <2>1, <2>2, <2>3
<1>10. CASE game[c] = << ch, n >>
  <2>1. game[c] # NoGame /\ game[c][1] = ch /\ game[c][2] = n
    BY <1>5, <1>10
  <2>2. games \in [Channels -> [GameNames -> GameEntry \cup {NoEntry}]]
    BY DEF RostersInv, BrowsersInv, GameInv, GameTypes
  <2>3. Playing(left) # {} /\ GamesWithout(c)[ch][n] = left
    <3>1. GamesWithout(c)[ch][n] # NoEntry
      BY <1>4, OpenGamesAt
    <3> QED BY <1>5, <2>1, <2>2, <3>1 DEF GamesWithout
  <2>4. games[ch][n] # NoEntry /\ games[ch][n] \in GameEntry
    BY <1>5, <1>10, <2>2, PlayerIsCounted DEF RostersInv, BrowsersInv
  <2>5. left.npj = games[ch][n].npj
    BY <2>1, <2>4 DEF EntryWithout, Entry, GameEntry
  <2>6. d \in Told(left, c)
    <3>1. ~Closed(left)
      BY <1>4, <2>3, OpenGamesAt
    <3>2. d \in userlist[ch]
      BY <1>5 DEF RostersInv, BrowsersInv, TownInv, WhereaboutsAgree
    <3>3. games[ch][n].players[d] = 0
      BY <1>4, <1>5, <2>4 DEF RostersInv, BrowsersInv, NoGhostPlayers
    <3>4. d # c
      BY <1>4, <1>10
    <3>5. left.players[d] = 0
      BY <2>1, <3>3, <3>4, EntryWithoutEffect DEF Entry, RostersInv, BrowsersInv
    <3> QED BY <2>1, <3>1, <3>2, <3>4, <3>5 DEF Told, Outsiders, Playing
  <2>7. RosterWithout(c)[d][n] = roster[d][n] \ {c}
    BY <1>2, <2>1, <2>3, <2>6
  <2>8. RosterWithout(c)[d][n] \subseteq Conns \ {c}
    BY <1>3, <2>7
  <2>9. GamesWithout(c)[ch][n].npj = games[ch][n].npj
    BY <2>3, <2>5
  <2> HIDE DEF now, ch, left
  <2>10. \A e \in RosterWithout(c)[d][n] : now[e] = << ch, n >>
    BY <1>7, <1>8, <2>7, <2>8
  <2>11. \A e \in Conns : now[e] = << ch, n >> => e # c /\ game[e] = << ch, n >>
    BY <1>5, <1>8
  <2> QED BY <1>7, <2>7, <2>9, <2>10, <2>11
<1> QED BY <1>9, <1>10

LEMMA GivingUpKeepsRosters ==
  ASSUME RostersInv, NEW c \in Conns,
         games' = GamesWithout(c), game' = [game EXCEPT ![c] = NoGame],
         listing' = ListingWithout(c), gamechannel' = gamechannel,
         roster' = Offered(RosterWithout(c), listing')
  PROVE  RostersRight'
<1>1. \A d \in Conns, n \in GameNames :
        /\ RosterWithout(c)[d][n] \subseteq Conns
        /\ RosterShows(listing'[d][n], RosterWithout(c)[d][n], gamechannel'[d], n, games', game')
  BY RosterWithoutEffect
<1> QED BY <1>1, OfferedKeepsRosters

LEMMA LeaveTownKeepsRosters ==
  ASSUME RostersInv, NEW c \in Conns, LeaveTown(c)
  PROVE  RostersRight'
<1>1. CASE ~InTown(c)
  BY <1>1 DEF LeaveTown, gameVars, RostersInv, RostersRight, RosterShows
<1>2. CASE InTown(c)
  <2>1. /\ games' = GamesWithout(c)
        /\ game' = [game EXCEPT ![c] = NoGame]
        /\ listing' = [ListingWithout(c) EXCEPT ![c] = [n \in GameNames |->
                         IF @[n] = "crashed" THEN "crashed" ELSE "none"]]
        /\ roster' = [Offered(RosterWithout(c), listing') EXCEPT ![c] = [n \in GameNames |-> {}]]
        /\ gamechannel' = [gamechannel EXCEPT ![c] = NoChannel]
    BY <1>2 DEF LeaveTown
  <2>2. \A d \in Conns, n \in GameNames :
          /\ RosterWithout(c)[d][n] \subseteq Conns
          /\ RosterShows(ListingWithout(c)[d][n], RosterWithout(c)[d][n], gamechannel[d], n,
                         games', game')
    BY <2>1, RosterWithoutEffect
  <2>3. ListingWithout(c) \in [Conns -> [GameNames -> Listings]]
    BY ListingWithoutEffect DEF RostersInv
  <2>4. \A d \in Conns, n \in GameNames :
          /\ d = c => listing'[d][n] # "listed"
          /\ d # c => listing'[d][n] = ListingWithout(c)[d][n]
    BY <2>1, <2>3
  <2>5. \A d \in Conns : d # c => gamechannel'[d] = gamechannel[d]
    BY <2>1 DEF RostersInv, BrowsersInv, GameInv, GameTypes
  <2>6. /\ roster' \in [Conns -> [GameNames -> SUBSET Conns]]
        /\ \A d \in Conns, n \in GameNames :
             d # c /\ listing'[d][n] = "listed" => roster'[d][n] = RosterWithout(c)[d][n]
    <3>1. /\ Offered(RosterWithout(c), listing') \in [Conns -> [GameNames -> SUBSET Conns]]
          /\ \A d \in Conns, n \in GameNames :
               listing'[d][n] = "listed" =>
                 Offered(RosterWithout(c), listing')[d][n] = RosterWithout(c)[d][n]
      BY <2>2 DEF Offered
    <3> QED BY <2>1, <3>1
  <2>7. ASSUME NEW d \in Conns, NEW n \in GameNames
        PROVE  RosterShows(listing'[d][n], roster'[d][n], gamechannel'[d], n, games', game')
    <3>1. CASE d = c
      BY <2>4, <3>1 DEF RosterShows
    <3>2. CASE d # c
      BY <2>2, <2>4, <2>5, <2>6, <3>2 DEF RosterShows
    <3> QED BY <3>1, <3>2
  <2> QED BY <2>6, <2>7 DEF RostersRight, RosterShows
<1> QED BY <1>1, <1>2

(* enumGames shows a newcomer the players of each game.                    *)
LEMMA ArrivalKeepsRosters ==
  ASSUME RostersInv, NEW c \in Conns, NEW ch \in Channels, JoinGameChannel(c, ch)
  PROVE  RostersRight'
<1> DEFINE met == [n \in GameNames |->
                    IF games[ch][n] = NoEntry THEN {} ELSE Playing(games[ch][n])]
           rosters == [roster EXCEPT ![c] = met]
<1>1. /\ games' = games /\ game' = game
      /\ gamechannel' = [gamechannel EXCEPT ![c] = ch]
      /\ listing' = [listing EXCEPT ![c] = [n \in GameNames |->
                       IF @[n] = "crashed" THEN "crashed" ELSE Enumerated(ch)[n]]]
      /\ roster' = Offered(rosters, listing')
  BY DEF JoinGameChannel
<1>2. /\ roster \in [Conns -> [GameNames -> SUBSET Conns]]
      /\ listing \in [Conns -> [GameNames -> Listings]]
      /\ gamechannel \in [Conns -> Channels \cup {NoChannel}]
      /\ \A d \in Conns, n \in GameNames :
           RosterShows(listing[d][n], roster[d][n], gamechannel[d], n, games, game)
  BY DEF RostersInv, RostersRight, BrowsersInv, BrowsersRight, GameInv, GameTypes
<1>3. \A n \in GameNames :
        /\ met[n] \subseteq Conns
        /\ games[ch][n] # NoEntry => met[n] = {e \in Conns : game[e] = << ch, n >>}
  BY DEF Playing, RostersInv, BrowsersInv, NoGhostPlayers
<1>4. \A d \in Conns, n \in GameNames :
        /\ rosters[d][n] = IF d = c THEN met[n] ELSE roster[d][n]
        /\ d = c /\ listing'[d][n] = "listed" => games[ch][n] # NoEntry
        /\ d # c => listing'[d][n] = listing[d][n]
        /\ gamechannel'[d] = IF d = c THEN ch ELSE gamechannel[d]
  BY <1>1, <1>2 DEF Enumerated
<1> HIDE DEF met, rosters
<1>5. \A d \in Conns, n \in GameNames : rosters[d][n] \subseteq Conns
  BY <1>2, <1>3, <1>4
<1>6. ASSUME NEW d \in Conns, NEW n \in GameNames
      PROVE  RosterShows(listing'[d][n], rosters[d][n], gamechannel'[d], n, games', game')
  <2>1. CASE d = c
    BY <1>1, <1>3, <1>4, <2>1 DEF RosterShows
  <2>2. CASE d # c
    BY <1>1, <1>2, <1>4, <2>2
  <2> QED BY <2>1, <2>2
<1> QED BY <1>1, <1>5, <1>6, OfferedKeepsRosters

(* A new game is shown with its host.                                      *)
LEMMA CreatingKeepsRosters ==
  ASSUME RostersInv, NEW c \in Conns, NEW n \in GameNames, NEW pw \in Passwords,
         NEW npj \in BOOLEAN, NEW st \in BOOLEAN, NEW mx \in Nat,
         CreateGame(c, n, pw, npj, st, mx)
  PROVE  RostersRight'
<1> DEFINE ch == gamechannel[c]
           new == [host |-> c, password |-> pw, npj |-> npj, status |-> st,
                   maxplayers |-> mx, players |-> [d \in Conns |-> IF d = c THEN 1 ELSE 0]]
           to == IF Closed(new) THEN {} ELSE userlist[ch] \ {c}
           told == Browsers(ListingWithout(c), n, to, Announced)
           rosters == [d \in Conns |->
                         IF d \in to THEN [RosterWithout(c)[d] EXCEPT ![n] = {c}]
                         ELSE RosterWithout(c)[d]]
<1>1. /\ InTown(c) /\ gameRequests[ch][n] = c
      /\ games' = [GamesWithout(c) EXCEPT ![ch][n] = new]
      /\ game' = [game EXCEPT ![c] = << ch, n >>]
      /\ listing' = Browsers(told, n, {c}, Owned)
      /\ roster' = Offered(rosters, listing')
      /\ gamechannel' = gamechannel
  BY DEF CreateGame, MayCreate, Busy, townVars
<1>2. ch \in Channels
  BY <1>1 DEF RostersInv, BrowsersInv, GameInv, GameTypes, InTown
<1>3. \A d \in Conns : game[d] # << ch, n >>
  <2>1. games[ch][n] = NoEntry
    BY <1>1, <1>2 DEF RostersInv, BrowsersInv, GameInv, ReservationWanted
  <2> QED BY <1>2, <2>1, PlayerIsCounted DEF RostersInv, BrowsersInv
<1>4. /\ \A t \in Channels, m \in GameNames :
           << t, m >> # << ch, n >> => games'[t][m] = GamesWithout(c)[t][m]
      /\ \A e \in Conns : game'[e] = IF e = c THEN << ch, n >> ELSE game[e]
  <2>1. GamesWithout(c) \in [Channels -> [GameNames -> GameEntry \cup {NoEntry}]]
    BY GamesWithoutEffect DEF RostersInv, BrowsersInv
  <2> HIDE DEF new
  <2> QED BY <1>1, <1>2, <2>1 DEF RostersInv, BrowsersInv, GameInv, GameTypes
<1>5. \A d \in Conns, m \in GameNames :
        /\ RosterWithout(c)[d][m] \subseteq Conns
        /\ RosterShows(ListingWithout(c)[d][m], RosterWithout(c)[d][m], gamechannel[d], m,
                       GamesWithout(c), [game EXCEPT ![c] = NoGame])
  BY RosterWithoutEffect
<1>6. \A d \in Conns, m \in GameNames :
        BrowserShows(listing'[d][m], << gamechannel[d], m >>, OpenGames(games'), game'[d])
  <2>1. BrowsersRight'
    BY CreatingKeepsBrowsers DEF RostersInv
  <2>2. OpenGames(games') = OpenGames(games)'
    BY DEF OpenGames, Closed
  <2> QED BY <1>1, <2>1, <2>2 DEF BrowsersRight, BrowserShows
<1>7. \A d \in Conns, m \in GameNames :
        /\ rosters[d][m] = IF d \in to /\ m = n THEN {c} ELSE RosterWithout(c)[d][m]
        /\ m # n => listing'[d][m] = ListingWithout(c)[d][m]
        /\ d \notin to /\ d # c => listing'[d][m] = ListingWithout(c)[d][m]
  <2>1. ListingWithout(c) \in [Conns -> [GameNames -> Listings]]
    BY ListingWithoutEffect DEF RostersInv
  <2>2. \A d \in Conns, m \in GameNames :
          /\ m # n => told[d][m] = ListingWithout(c)[d][m]
          /\ d \notin to => told[d][m] = ListingWithout(c)[d][m]
    BY <2>1 DEF Browsers
  <2>3. told \in [Conns -> [GameNames -> Listings]]
    BY <2>1 DEF Browsers, Announced, Listings
  <2> HIDE DEF told, to
  <2>4. \A d \in Conns, m \in GameNames :
          m # n \/ d # c => listing'[d][m] = told[d][m]
    BY <1>1, <2>3 DEF Browsers
  <2>5. \A d \in Conns, m \in GameNames :
          rosters[d][m] = IF d \in to /\ m = n THEN {c} ELSE RosterWithout(c)[d][m]
    <3>1. \A d \in Conns : DOMAIN RosterWithout(c)[d] = GameNames
      BY DEF RosterWithout, RostersInv, RostersRight
    <3> QED BY <3>1
  <2> QED BY <2>2, <2>4, <2>5
<1>8. \A d \in Conns : d \in to => gamechannel[d] = ch /\ d # c
  BY <1>2 DEF RostersInv, BrowsersInv, TownInv, WhereaboutsAgree
<1> HIDE DEF ch, new, to, told, rosters
<1>9. \A d \in Conns, m \in GameNames : rosters[d][m] \subseteq Conns
  BY <1>5, <1>7
<1>10. ASSUME NEW d \in Conns, NEW m \in GameNames, listing'[d][m] = "listed"
       PROVE  RosterShows(listing'[d][m], rosters[d][m], gamechannel'[d], m, games', game')
  <2>1. /\ << gamechannel[d], m >> \in OpenGames(games')
        /\ << gamechannel[d], m >> # game'[d]
    BY <1>6, <1>10 DEF BrowserShows
  <2>2. gamechannel[d] \in Channels /\ games'[gamechannel[d]][m] # NoEntry
        /\ ~Closed(games'[gamechannel[d]][m])
    BY <2>1, OpenGamesAt
  <2>3. CASE << gamechannel[d], m >> = << ch, n >>
    <3>1. d \in to
      <4>1. d # c
        BY <1>4, <2>1, <2>3
      <4>2. d \in userlist[ch]
        BY <1>2, <2>3 DEF RostersInv, BrowsersInv, TownInv, WhereaboutsAgree
      <4>3. ~Closed(new)
        <5>1. games'[ch][n] = new
          <6>1. GamesWithout(c) \in [Channels -> [GameNames -> GameEntry \cup {NoEntry}]]
            BY GamesWithoutEffect DEF RostersInv, BrowsersInv
          <6> QED BY <1>1, <1>2, <6>1
        <5> QED BY <2>2, <2>3, <5>1
      <4> QED BY <4>1, <4>2, <4>3 DEF to
    <3>2. rosters[d][m] = {c}
      BY <1>7, <2>3, <3>1
    <3> QED BY <1>1, <1>3, <1>4, <2>3, <3>2 DEF RosterShows
  <2>4. CASE << gamechannel[d], m >> # << ch, n >>
    <3>1. RosterShows(ListingWithout(c)[d][m], RosterWithout(c)[d][m], gamechannel[d], m,
                      GamesWithout(c), [game EXCEPT ![c] = NoGame])
      BY <1>5
    <3>2. rosters[d][m] = RosterWithout(c)[d][m] /\ ListingWithout(c)[d][m] = "listed"
      <4>1. d \in to => m # n
        BY <1>8, <2>4
      <4>2. d = c => m # n
        BY <2>4 DEF ch
      <4> QED BY <1>7, <1>10, <4>1, <4>2
    <3>3. games'[gamechannel[d]][m] = GamesWithout(c)[gamechannel[d]][m]
      BY <1>4, <2>2, <2>4
    <3>4. \A e \in Conns : game'[e] = << gamechannel[d], m >>
                             <=> [game EXCEPT ![c] = NoGame][e] = << gamechannel[d], m >>
      <4>1. NoGame # << gamechannel[d], m >>
        BY <2>2, GamesAssumption
      <4>2. \A e \in Conns : [game EXCEPT ![c] = NoGame][e] = IF e = c THEN NoGame ELSE game[e]
        BY DEF RostersInv, BrowsersInv, GameInv, GameTypes
      <4> QED BY <1>4, <2>4, <4>1, <4>2
    <3>5. rosters[d][m] \subseteq Conns
      BY <1>5, <3>2
    <3> QED BY <1>1, <3>1, <3>2, <3>3, <3>4, <3>5 DEF RosterShows
  <2> QED BY <2>3, <2>4
<1>11. \A d \in Conns, m \in GameNames :
         RosterShows(listing'[d][m], rosters[d][m], gamechannel'[d], m, games', game')
  BY <1>10 DEF RosterShows
<1> QED BY <1>1, <1>9, <1>11, OfferedKeepsRosters

(* $gameuser reaches all who list a game that takes players as it runs.    *)
LEMMA JoiningKeepsRosters ==
  ASSUME RostersInv, NEW c \in Conns, NEW n \in GameNames, NEW pw,
         JoinGame(c, n, pw), game[c] = NoGame
  PROVE  RostersRight'
<1> DEFINE ch == gamechannel[c]
           g == games[ch][n]
           to == JoinTold(g, ch) \ {c}
           rosters == [d \in Conns |->
                         IF d \in to THEN [roster[d] EXCEPT ![n] = @ \cup {c}] ELSE roster[d]]
<1>1. /\ InTown(c) /\ g # NoEntry
      /\ games' = [games EXCEPT ![ch][n] = EntryWith(g, c)]
      /\ game' = [game EXCEPT ![c] = << ch, n >>]
      /\ listing' = Browsers(listing, n, {c}, Owned)
      /\ roster' = Offered(rosters, listing')
      /\ gamechannel' = gamechannel
  BY DEF JoinGame, Busy, townVars
<1>2. /\ ch \in Channels /\ g \in GameEntry
      /\ games \in [Channels -> [GameNames -> GameEntry \cup {NoEntry}]]
  BY <1>1 DEF RostersInv, BrowsersInv, GameInv, GameTypes, InTown
<1>3. /\ roster \in [Conns -> [GameNames -> SUBSET Conns]]
      /\ \A d \in Conns, m \in GameNames :
           RosterShows(listing[d][m], roster[d][m], gamechannel[d], m, games, game)
  BY DEF RostersInv, RostersRight
<1>4. \A d \in Conns, m \in GameNames :
        BrowserShows(listing'[d][m], << gamechannel[d], m >>, OpenGames(games'), game'[d])
  <2>1. BrowsersRight'
    BY JoiningKeepsBrowsers DEF RostersInv
  <2>2. OpenGames(games') = OpenGames(games)'
    BY DEF OpenGames, Closed
  <2> QED BY <1>1, <2>1, <2>2 DEF BrowsersRight, BrowserShows
<1>5. \A t \in Channels, m \in GameNames : games'[t][m].npj = games[t][m].npj
  <2>1. EntryWith(g, c).npj = g.npj
    BY <1>2 DEF EntryWith, GameEntry
  <2> HIDE DEF g
  <2>2. \A t \in Channels, m \in GameNames :
          games'[t][m] = IF t = ch /\ m = n THEN EntryWith(g, c) ELSE games[t][m]
    BY <1>1, <1>2
  <2> QED BY <2>1, <2>2 DEF g
<1>6. \A e \in Conns : game'[e] = IF e = c THEN << ch, n >> ELSE game[e]
  BY <1>1 DEF RostersInv, BrowsersInv, GameInv, GameTypes
<1>7. \A d \in Conns, m \in GameNames :
        /\ rosters[d][m] = IF d \in to /\ m = n THEN roster[d][m] \cup {c} ELSE roster[d][m]
        /\ d # c \/ m # n => listing'[d][m] = listing[d][m]
  <2>1. listing \in [Conns -> [GameNames -> Listings]]
    BY DEF RostersInv, BrowsersInv, BrowsersRight
  <2> HIDE DEF to
  <2> QED BY <1>1, <1>3, <2>1 DEF Browsers
<1>8. \A d \in Conns : /\ d \in to => gamechannel[d] = ch /\ d # c
                       /\ g.npj /\ gamechannel[d] = ch /\ d # c => d \in to
  <2> HIDE DEF g
  <2> QED BY <1>2 DEF RostersInv, BrowsersInv, TownInv, WhereaboutsAgree, JoinTold
<1> HIDE DEF to, rosters
<1>9. \A d \in Conns, m \in GameNames : rosters[d][m] \subseteq Conns
  <2>1. \A d \in Conns, m \in GameNames :
          roster[d][m] \subseteq Conns /\ roster[d][m] \cup {c} \subseteq Conns
    BY <1>3
  <2> QED BY <1>7, <2>1
<1>10. ASSUME NEW d \in Conns, NEW m \in GameNames, listing'[d][m] = "listed"
       PROVE  RosterShows(listing'[d][m], rosters[d][m], gamechannel'[d], m, games', game')
  <2>1. /\ << gamechannel[d], m >> \in OpenGames(games')
        /\ << gamechannel[d], m >> # game'[d]
    BY <1>4, <1>10 DEF BrowserShows
  <2>2. gamechannel[d] \in Channels /\ << gamechannel[d], m >> # NoGame
    BY <2>1, OpenGamesAt, GamesAssumption
  <2>3. d # c \/ m # n
    BY <1>6, <2>1
  <2>4. /\ \A e \in roster[d][m] : game[e] = << gamechannel[d], m >>
        /\ games[gamechannel[d]][m].npj =>
             \A e \in Conns : game[e] = << gamechannel[d], m >> => e \in roster[d][m]
    BY <1>3, <1>7, <1>10, <2>3 DEF RosterShows
  <2>5. roster[d][m] \subseteq Conns /\ c \notin roster[d][m]
    BY <1>3, <2>2, <2>4
  <2>6. games'[gamechannel[d]][m].npj = games[gamechannel[d]][m].npj
    BY <1>5, <2>2
  <2>7. CASE gamechannel[d] = ch /\ m = n
    <3>1. d # c
      BY <2>3, <2>7
    <3>2. IF d \in to THEN rosters[d][m] = roster[d][m] \cup {c}
          ELSE rosters[d][m] = roster[d][m] /\ ~g.npj
      BY <1>7, <1>8, <2>7, <3>1
    <3>3. \A e \in rosters[d][m] : game'[e] = << ch, n >>
      BY <1>6, <2>4, <2>5, <2>7, <3>2
    <3>4. g.npj => \A e \in Conns : game'[e] = << ch, n >> => e \in rosters[d][m]
      BY <1>6, <2>4, <2>7, <3>2
    <3> QED BY <1>1, <2>6, <2>7, <3>3, <3>4 DEF RosterShows
  <2>8. CASE ~(gamechannel[d] = ch /\ m = n)
    <3>1. rosters[d][m] = roster[d][m]
      BY <1>7, <1>8, <2>8
    <3>2. \A e \in Conns : game'[e] = << gamechannel[d], m >> <=> game[e] = << gamechannel[d], m >>
      BY <1>6, <2>2, <2>8
    <3> QED BY <1>1, <2>4, <2>5, <2>6, <3>1, <3>2 DEF RosterShows
  <2> QED BY <2>7, <2>8
<1>11. \A d \in Conns, m \in GameNames :
         RosterShows(listing'[d][m], rosters[d][m], gamechannel'[d], m, games', game')
  BY <1>10 DEF RosterShows
<1> QED BY <1>1, <1>9, <1>11, OfferedKeepsRosters

LEMMA StartingKeepsRosters ==
  ASSUME RostersInv, NEW c \in Conns, StartingGame(c)
  PROVE  RostersRight'
<1>0. game[c] # NoGame
  BY DEF StartingGame
<1>1. PICK ch \in Channels, n \in GameNames : game[c] = << ch, n >>
  BY <1>0 DEF RostersInv, BrowsersInv, GameInv, GameTypes
<1> DEFINE to == Outsiders(games[ch][n], ch)
<1>2. /\ games' = [games EXCEPT ![ch][n].status = TRUE]
      /\ listing' \in {listing, Browsers(listing, n, to, Withdrawn)}
      /\ roster' = Offered(roster, listing')
      /\ game' = game /\ gamechannel' = gamechannel
  BY <1>1 DEF StartingGame
<1>3. /\ roster \in [Conns -> [GameNames -> SUBSET Conns]]
      /\ \A d \in Conns, m \in GameNames :
           RosterShows(listing[d][m], roster[d][m], gamechannel[d], m, games, game)
  BY DEF RostersInv, RostersRight
<1>4. \A t \in Channels, m \in GameNames : games'[t][m].npj = games[t][m].npj
  <2>1. games \in [Channels -> [GameNames -> GameEntry \cup {NoEntry}]]
    BY DEF RostersInv, BrowsersInv, GameInv, GameTypes
  <2>2. games[ch][n] \in GameEntry
    BY <1>1, <2>1, PlayerIsCounted DEF RostersInv, BrowsersInv
  <2> DEFINE started == [games[ch][n] EXCEPT !.status = TRUE]
  <2>3. started.npj = games[ch][n].npj
    BY <2>2 DEF GameEntry
  <2> HIDE DEF started
  <2>4. \A t \in Channels, m \in GameNames :
          games'[t][m] = IF t = ch /\ m = n THEN started ELSE games[t][m]
    BY <1>2, <2>1 DEF started
  <2> QED BY <2>3, <2>4
<1>5. \A d \in Conns, m \in GameNames :
        listing'[d][m] = "listed" => listing[d][m] = "listed"
  <2>1. \A l \in Listings : Withdrawn[l] # "listed"
    BY DEF Withdrawn
  <2>2. listing \in [Conns -> [GameNames -> Listings]]
    BY DEF RostersInv, BrowsersInv, BrowsersRight
  <2> QED BY <1>2, <2>1, <2>2 DEF Browsers
<1> HIDE DEF to
<1>6. ASSUME NEW d \in Conns, NEW m \in GameNames, listing[d][m] = "listed"
      PROVE  gamechannel[d] \in Channels
  <2>1. << gamechannel[d], m >> \in OpenGames(games)
    BY <1>6 DEF RostersInv, BrowsersInv, BrowsersRight, BrowserShows
  <2> QED BY <2>1, OpenGamesAt
<1>7. \A d \in Conns, m \in GameNames :
        RosterShows(listing'[d][m], roster[d][m], gamechannel'[d], m, games', game')
  BY <1>2, <1>3, <1>4, <1>5, <1>6 DEF RosterShows
<1> QED BY <1>2, <1>3, <1>7, OfferedKeepsRosters

LEMMA NextKeepsRosters ==
  ASSUME RostersInv, "game" \notin Retries, [Next]_vars
  PROVE  RostersRight'
<1>1. CASE UNCHANGED << gamechannel, games, game, listing, roster >>
  BY <1>1 DEF RostersInv, RostersRight, RosterShows
<1>2. CASE UNCHANGED vars \/ UpdatePos
  BY <1>1, <1>2 DEF vars, townVars, gameVars, UpdatePos
<1>3. ASSUME NEW c \in Conns, TownStep(c) \/ ChatStep(c)
      PROVE  RostersRight'
  <2>1. CASE Disconnect(c) \/ LeaveGameChannel(c) \/ \E ch \in Channels : RequestJoin(c, ch)
    BY <2>1, LeaveTownKeepsRosters DEF Disconnect, LeaveGameChannel, RequestJoin
  <2>2. CASE \E ch \in Channels : JoinGameChannel(c, ch)
    BY <2>2, ArrivalKeepsRosters
  <2>3. CASE \/ Login(c)
             \/ \E blob \in HeroBlobs : SetUserHeroData(c, blob)
             \/ UpdateHeroPos(c)
    BY <1>1, <2>3 DEF Login, SetUserHeroData, UpdateHeroPos, gameVars
  <2>4. CASE ChatStep(c)
    BY <1>1, <2>4 DEF ChatStep, JoinChat, CreateChat, LeaveChatChannel, townVars, gameVars
  <2> QED BY <1>3, <2>1, <2>2, <2>3, <2>4 DEF TownStep
<1>4. ASSUME NEW c \in Conns, GameStep(c)
      PROVE  RostersRight'
  <2>1. CASE \E n \in GameNames : RequestCreateGame(c, n)
    BY <2>1, GivingUpKeepsRosters DEF RequestCreateGame, townVars
  <2>2. ASSUME NEW n \in GameNames, NEW pw \in Passwords, NEW npj \in CreateNpj,
               NEW st \in CreateStatus, NEW mx \in MaxPlayers,
               CreateGame(c, n, pw, npj, st, mx)
        PROVE  RostersRight'
    <3>1. npj \in BOOLEAN /\ st \in BOOLEAN /\ mx \in Nat
      BY LobbyAssumption, GamesAssumption
    <3> QED BY <2>2, <3>1, CreatingKeepsRosters
  <2>3. CASE \E n \in GameNames : CreateGameFails(c, n)
    BY <2>3, GivingUpKeepsRosters DEF CreateGameFails
  <2>4. CASE \E n \in GameNames, pw \in Passwords : JoinGame(c, n, pw)
    BY <2>4, JoiningKeepsRosters DEF JoinGame
  <2>5. CASE StopGame(c)
    BY <2>5, GivingUpKeepsRosters DEF StopGame, townVars
  <2>6. CASE StartingGame(c)
    BY <2>6, StartingKeepsRosters
  <2> QED BY <1>4, <2>1, <2>2, <2>3, <2>4, <2>5, <2>6 DEF GameStep
<1> QED BY <1>2, <1>3, <1>4 DEF Next

(* With the same clients, whom a browser shows as the players of an        *)
(* offered game are its players, all of them if it takes players while it  *)
(* runs (GameEntry.addUser, GameEntry.remove, enumGames).                  *)
THEOREM RostersTheorem ==
  ASSUME "game" \notin Retries, "start" \notin Retries
  PROVE  Spec => []RostersMatch
<1>1. Init => RostersRight
  BY DEF Init, GamesInit, RostersRight, RosterShows
<1>2. RostersInv /\ [Next]_vars => RostersRight'
  BY NextKeepsRosters
<1> QED BY <1>1, <1>2, BrowsersInvHolds, RostersGiveMatch, PTL DEF Spec, RostersInv

=============================================================================
