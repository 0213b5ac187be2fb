-------------------------- MODULE LobbyChatProofs --------------------------
(***************************************************************************)
(* For every number of connections, towns, chats and names: players are on *)
(* the list of the chat their record names, in their own town, and while   *)
(* nobody picks the chat they are in, a name stands for the chat its       *)
(* members are in.                                                         *)
(***************************************************************************)
EXTENDS LobbyProofs

ChatTypes ==
  /\ gamechannel \in [Conns -> Channels \cup {NoChannel}]
  /\ chatchannel \in [Conns -> Chats \cup {NoChat}]
  /\ chatUsers \in [Chats -> SUBSET Conns]
  /\ chatInfo \in [Chats -> ChatInfo]
  /\ chatChannels \in [Channels -> [Names -> Chats \cup {NoChat}]]

Member(c) ==
  /\ \A o \in Chats : c \in chatUsers[o] <=> chatchannel[c] = o
  /\ chatchannel[c] # NoChat =>
       gamechannel[c] \in Channels /\ chatInfo[chatchannel[c]].parent = gamechannel[c]

(* What a registry holds under a name is a chat of that name and town; it  *)
(* is `newcomer` or has members, or comes with the town.                   *)
Registers(registry, info, newcomer, ch, n) ==
  LET o == registry[ch][n] IN
  /\ o # NoChat =>
       /\ info[o].parent = ch /\ info[o].name = n
       /\ o \in ChatObjs => o = newcomer \/ chatUsers[o] # {}
  /\ n \in DefaultChats => o = << ch, n >>

ChatInv ==
  /\ ChatTypes
  /\ \A c \in Conns : Member(c)
  /\ \A ch \in Channels, n \in Names : Registers(chatChannels, chatInfo, NoChat, ch, n)

LEMMA ChatInvImplies == ChatInv => ChatMembership
BY TownsAssumption DEF ChatInv, ChatMembership, Member, InTown

LEMMA DefaultObjects ==
  ASSUME NEW ch \in Channels, NEW n \in DefaultChats
  PROVE  n \in Names /\ << ch, n >> \in Chats /\ << ch, n >> \notin ChatObjs
         /\ << ch, n >> # NoChat
BY ChatsAssumption DEF Names, Chats

(***************************************************************************)
(* A player moves from the chat named by the record to `into`, or to none; *)
(* `registry` and `info` are as joinChat leaves them.                      *)
(***************************************************************************)
Moves(c, into, registry, info) ==
  /\ chatUsers' = [o \in Chats |-> IF o = into THEN chatUsers[o] \cup {c}
                                   ELSE chatUsers[o] \ {c}]
  /\ chatchannel' = [chatchannel EXCEPT ![c] = into]
  /\ chatChannels' = ChatChannelsWithout(registry, c)
  /\ chatInfo' = Collected(info, chatUsers')

LEMMA UsersWithout ==
  ASSUME ChatInv, NEW c \in Conns
  PROVE  ChatUsersWithout(c) = [o \in Chats |-> chatUsers[o] \ {c}]
<1>1. chatUsers \in [Chats -> SUBSET Conns]
  BY DEF ChatInv, ChatTypes
<1>2. \A o \in Chats : chatchannel[c] # o => chatUsers[o] \ {c} = chatUsers[o]
  BY DEF ChatInv, Member
<1>3. CASE chatchannel[c] = NoChat
  <2>1. \A o \in Chats : chatUsers[o] \ {c} = chatUsers[o]
    BY <1>2, <1>3, ChatsAssumption
  <2> QED BY <1>1, <1>3, <2>1 DEF ChatUsersWithout
<1>4. CASE chatchannel[c] # NoChat
  <2> DEFINE p == chatchannel[c]
  <2>1. p \in Chats
    BY <1>4 DEF ChatInv, ChatTypes
  <2>2. ChatUsersWithout(c) = [chatUsers EXCEPT ![p] = @ \ {c}]
    BY <1>4 DEF ChatUsersWithout
  <2> HIDE DEF p
  <2>3. \A o \in Chats : o # p => chatUsers[o] \ {c} = chatUsers[o]
    BY <1>2 DEF p
  <2> QED BY <1>1, <2>1, <2>2, <2>3
<1> QED BY <1>3, <1>4

LEMMA EnterChatMoves ==
  ASSUME ChatInv, NEW c \in Conns, NEW o \in Chats, NEW registry, NEW info, NEW lists,
         NEW made, EnterChat(c, o, registry, info, lists, made)
  PROVE  Moves(c, o, registry, info)
<1>1. chatUsers \in [Chats -> SUBSET Conns]
  BY DEF ChatInv, ChatTypes
<1>2. chatUsers' = [ChatUsersWithout(c) EXCEPT ![o] = ChatUsersWithout(c)[o] \cup {c}]
  BY DEF EnterChat
<1>3. chatUsers' = [p \in Chats |-> IF p = o THEN chatUsers[p] \cup {c} ELSE chatUsers[p] \ {c}]
  <2>1. (chatUsers[o] \ {c}) \cup {c} = chatUsers[o] \cup {c}
    OBVIOUS
  <2>2. chatUsers' = [[p \in Chats |-> chatUsers[p] \ {c}]
                        EXCEPT ![o] = (chatUsers[o] \ {c}) \cup {c}]
    BY <1>2, UsersWithout
  <2> QED BY <2>1, <2>2
<1> QED BY <1>3 DEF EnterChat, Moves

LEMMA LeaveChatMoves ==
  ASSUME ChatInv, NEW c \in Conns, LeaveChat(c)
  PROVE  Moves(c, NoChat, chatChannels, chatInfo)
<1>1. chatUsers' = [p \in Chats |-> IF p = NoChat THEN chatUsers[p] \cup {c}
                                    ELSE chatUsers[p] \ {c}]
  BY UsersWithout, ChatsAssumption DEF LeaveChat
<1> QED BY <1>1 DEF LeaveChat, Moves

(* What the last member of a chat does to the names.                       *)
LEMMA ChannelsWithout ==
  ASSUME ChatInv, NEW c \in Conns,
         NEW registry \in [Channels -> [Names -> Chats \cup {NoChat}]]
  PROVE  /\ ChatChannelsWithout(registry, c) \in [Channels -> [Names -> Chats \cup {NoChat}]]
         /\ \A ch \in Channels, n \in Names :
              ChatChannelsWithout(registry, c)[ch][n]
                = IF /\ Empties(c)
                     /\ ch = chatInfo[chatchannel[c]].parent
                     /\ n = chatInfo[chatchannel[c]].name
                  THEN NoChat ELSE registry[ch][n]
<1>1. CASE ~Empties(c)
  BY <1>1 DEF ChatChannelsWithout
<1>2. CASE Empties(c)
  <2> DEFINE old == chatInfo[chatchannel[c]]
  <2>1. old.parent \in Channels /\ old.name \in Names
    BY <1>2 DEF Empties, ChatInv, ChatTypes, Member, ChatInfo
  <2>2. ChatChannelsWithout(registry, c) = [registry EXCEPT ![old.parent][old.name] = NoChat]
    BY <1>2 DEF ChatChannelsWithout
  <2> HIDE DEF old
  <2> QED BY <1>2, <2>1, <2>2 DEF old
<1> QED BY <1>1, <1>2

(* Conditions under which a move keeps the lists and records in agreement. *)
Prepared(into, registry, info) ==
  /\ registry \in [Channels -> [Names -> Chats \cup {NoChat}]]
  /\ info \in [Chats -> ChatInfo]
  /\ \A o \in Chats : chatUsers[o] # {} => info[o] = chatInfo[o]
  /\ \A ch \in Channels, n \in Names : Registers(registry, info, into, ch, n)

LEMMA MoveKeeps ==
  ASSUME ChatInv, NEW c \in Conns, NEW into \in Chats \cup {NoChat}, NEW registry, NEW info,
         Prepared(into, registry, info), Moves(c, into, registry, info),
         gamechannel' \in [Conns -> Channels \cup {NoChannel}],
         \A d \in Conns \ {c} : gamechannel'[d] = gamechannel[d],
         into # NoChat => gamechannel'[c] \in Channels /\ info[into].parent = gamechannel'[c]
  PROVE  ChatInv'
<1>1. ChatTypes
  BY DEF ChatInv
<1>2. /\ registry \in [Channels -> [Names -> Chats \cup {NoChat}]]
      /\ info \in [Chats -> ChatInfo]
  BY DEF Prepared
<1>3. \A o \in Chats :
        chatUsers'[o] = IF o = into THEN chatUsers[o] \cup {c} ELSE chatUsers[o] \ {c}
  BY DEF Moves
<1>4. \A d \in Conns : chatchannel'[d] = IF d = c THEN into ELSE chatchannel[d]
  BY <1>1 DEF Moves, ChatTypes
<1>5. \A o \in Chats : chatInfo'[o] = IF o \in ChatObjs /\ chatUsers'[o] = {} THEN Unused
                                      ELSE info[o]
  BY DEF Moves, Collected
<1>6. /\ chatChannels' \in [Channels -> [Names -> Chats \cup {NoChat}]]
      /\ \A ch \in Channels, n \in Names :
           chatChannels'[ch][n] = IF /\ Empties(c)
                                     /\ ch = chatInfo[chatchannel[c]].parent
                                     /\ n = chatInfo[chatchannel[c]].name
                                  THEN NoChat ELSE registry[ch][n]
  BY <1>2, ChannelsWithout DEF Moves
<1>7. ChatTypes'
  <2>1. chatchannel' \in [Conns -> Chats \cup {NoChat}]
    BY <1>1 DEF Moves, ChatTypes
  <2>2. chatUsers' \in [Chats -> SUBSET Conns]
    BY <1>1 DEF Moves, ChatTypes
  <2>3. Unused \in ChatInfo
    BY ChatsAssumption DEF Unused, ChatInfo, Names
  <2>4. chatInfo' \in [Chats -> ChatInfo]
    BY <1>2, <2>3 DEF Moves, Collected
  <2> QED BY <1>6, <2>1, <2>2, <2>4 DEF ChatTypes
<1>8. ASSUME NEW d \in Conns
      PROVE  Member(d)'
  <2>1. \A o \in Chats : d \in chatUsers'[o] <=> chatchannel'[d] = o
    <3>1. \A o \in Chats : d \in chatUsers[o] <=> chatchannel[d] = o
      BY DEF ChatInv, Member
    <3>2. CASE d = c
      <4>1. chatchannel'[d] = into
        BY <1>4, <3>2
      <4>2. \A o \in Chats : d \in chatUsers'[o] <=> o = into
        BY <1>3, <3>2
      <4> QED BY <4>1, <4>2
    <3>3. CASE d # c
      <4>1. chatchannel'[d] = chatchannel[d]
        BY <1>4, <3>3
      <4>2. \A o \in Chats : d \in chatUsers'[o] <=> d \in chatUsers[o]
        BY <1>3, <3>3
      <4> QED BY <3>1, <4>1, <4>2
    <3> QED BY <3>2, <3>3
  <2>2. ASSUME chatchannel'[d] # NoChat
        PROVE  gamechannel'[d] \in Channels
               /\ chatInfo'[chatchannel'[d]].parent = gamechannel'[d]
    <3>1. chatchannel'[d] \in Chats
      BY <1>7, <2>2 DEF ChatTypes
    <3>2. chatInfo'[chatchannel'[d]] = info[chatchannel'[d]]
      BY <1>5, <2>1, <3>1
    <3>3. CASE d = c
      BY <1>4, <2>2, <3>2, <3>3
    <3>4. CASE d # c
      <4>1. /\ chatchannel'[d] = chatchannel[d] /\ d \in chatUsers[chatchannel[d]]
            /\ gamechannel[d] \in Channels
            /\ chatInfo[chatchannel[d]].parent = gamechannel[d]
        BY <1>4, <2>2, <3>1, <3>4 DEF ChatInv, Member
      <4>2. info[chatchannel[d]] = chatInfo[chatchannel[d]]
        BY <3>1, <4>1 DEF Prepared
      <4> QED BY <3>2, <3>4, <4>1, <4>2
    <3> QED BY <3>3, <3>4
  <2> QED BY <2>1, <2>2 DEF Member
<1>9. ASSUME NEW ch \in Channels, NEW n \in Names
      PROVE  Registers(chatChannels, chatInfo, NoChat, ch, n)'
  <2>1. Registers(registry, info, into, ch, n)
    BY DEF Prepared
  <2>2. CASE /\ Empties(c)
             /\ ch = chatInfo[chatchannel[c]].parent
             /\ n = chatInfo[chatchannel[c]].name
    BY <1>6, <2>2 DEF Registers, Empties
  <2>3. CASE ~(/\ Empties(c)
               /\ ch = chatInfo[chatchannel[c]].parent
               /\ n = chatInfo[chatchannel[c]].name)
    <3> DEFINE o == registry[ch][n]
    <3>1. chatChannels'[ch][n] = o
      BY <1>6, <2>3
    <3>2. n \in DefaultChats => o = << ch, n >>
      BY <2>1 DEF Registers
    <3>3. ASSUME o # NoChat
          PROVE  /\ chatInfo'[o].parent = ch /\ chatInfo'[o].name = n
                 /\ o \in ChatObjs => chatUsers'[o] # {}
      <4>1. o \in Chats
        BY <1>2, <3>3
      <4>2. info[o].parent = ch /\ info[o].name = n
        BY <2>1, <3>3 DEF Registers
      <4>3. ASSUME o \in ChatObjs
            PROVE  chatUsers'[o] # {}
        <5>1. CASE o = into
          BY <1>3, <4>1, <5>1
        <5>2. CASE o # into
          <6>1. chatUsers[o] # {}
            BY <2>1, <3>3, <4>3, <5>2 DEF Registers
          <6>2. chatInfo[o] = info[o]
            BY <4>1, <6>1 DEF Prepared
          <6>3. n \notin DefaultChats
            BY <3>2, <4>3, DefaultObjects
          <6>4. ASSUME chatUsers[o] \subseteq {c}
                PROVE  FALSE
            <7>1. chatchannel[c] = o
              BY <4>1, <6>1, <6>4 DEF ChatInv, Member
            <7> QED BY <2>3, <3>3, <4>2, <6>2, <6>3, <6>4, <7>1 DEF Empties
          <6> QED BY <1>3, <4>1, <5>2, <6>4
        <5> QED BY <5>1, <5>2
      <4>4. chatInfo'[o] = info[o]
        BY <1>5, <4>1, <4>3
      <4> QED BY <4>2, <4>3, <4>4
    <3> QED BY <3>1, <3>2, <3>3 DEF Registers
  <2> QED BY <2>2, <2>3
<1> QED BY <1>7, <1>8, <1>9 DEF ChatInv

-----------------------------------------------------------------------------
LEMMA SameChats ==
  ASSUME ChatInv, UNCHANGED << gamechannel, chatchannel, chatUsers, chatInfo, chatChannels >>
  PROVE  ChatInv'
BY DEF ChatInv, ChatTypes, Member, Registers

(* Moves between chats that are registered already.                        *)
LEMMA RegisteredPrepared ==
  ASSUME ChatInv, NEW into
  PROVE  Prepared(into, chatChannels, chatInfo)
<1>1. \A ch \in Channels, n \in Names : Registers(chatChannels, chatInfo, into, ch, n)
  BY ChatsAssumption DEF ChatInv, Registers, Chats
<1> QED BY <1>1 DEF ChatInv, ChatTypes, Prepared

LEMMA LeavingKeepsChats ==
  ASSUME ChatInv, NEW c \in Conns, LeaveChat(c),
         gamechannel' \in {gamechannel, [gamechannel EXCEPT ![c] = NoChannel]}
  PROVE  ChatInv'
<1>1. Prepared(NoChat, chatChannels, chatInfo)
  BY RegisteredPrepared
<1>2. Moves(c, NoChat, chatChannels, chatInfo)
  BY LeaveChatMoves
<1>3. /\ gamechannel' \in [Conns -> Channels \cup {NoChannel}]
      /\ \A d \in Conns \ {c} : gamechannel'[d] = gamechannel[d]
  BY DEF ChatInv, ChatTypes
<1> QED BY <1>1, <1>2, <1>3, MoveKeeps

LEMMA LeaveTownKeepsChats ==
  ASSUME ChatInv, NEW c \in Conns, LeaveTown(c)
  PROVE  ChatInv'
<1>1. CASE ~InTown(c)
  BY <1>1, SameChats DEF LeaveTown, chatVars
<1>2. CASE InTown(c)
  BY <1>2, LeavingKeepsChats DEF LeaveTown
<1> QED BY <1>1, <1>2

LEMMA ArrivalKeepsChats ==
  ASSUME ChatInv, NEW c \in Conns, NEW ch \in Channels, JoinGameChannel(c, ch)
  PROVE  ChatInv'
<1> DEFINE o == chatChannels[ch][MainChat]
           lists == [chatList EXCEPT ![c] = Registered(chatChannels, ch)]
<1>1. EnterChat(c, o, chatChannels, chatInfo, lists, chatMade)
      /\ gamechannel' = [gamechannel EXCEPT ![c] = ch]
  BY DEF JoinGameChannel
<1>2. o \in Chats /\ chatInfo[o].parent = ch
  <2>1. Registers(chatChannels, chatInfo, NoChat, ch, MainChat)
    BY ChatsAssumption DEF ChatInv, Names
  <2> QED BY <2>1, ChatsAssumption, DefaultObjects DEF Registers
<1> HIDE DEF lists, o
<1>3. Prepared(o, chatChannels, chatInfo)
  BY RegisteredPrepared
<1>4. Moves(c, o, chatChannels, chatInfo)
  BY <1>1, <1>2, EnterChatMoves
<1>5. /\ gamechannel' \in [Conns -> Channels \cup {NoChannel}]
      /\ \A d \in Conns \ {c} : gamechannel'[d] = gamechannel[d]
      /\ gamechannel'[c] = ch
  BY <1>1 DEF ChatInv, ChatTypes
<1> QED BY <1>2, <1>3, <1>4, <1>5, MoveKeeps

LEMMA JoinChatKeeps ==
  ASSUME ChatInv, NEW c \in Conns, NEW n \in Names, NEW pw, JoinChat(c, n, pw)
  PROVE  ChatInv'
<1> DEFINE ch == gamechannel[c]
           o == chatChannels[ch][n]
<1>1. /\ InTown(c) /\ o # NoChat /\ gamechannel' = gamechannel
      /\ EnterChat(c, o, chatChannels, chatInfo, chatList, chatMade)
  BY DEF JoinChat, Busy, townVars
<1>2. ch \in Channels
  BY <1>1 DEF ChatInv, ChatTypes, InTown
<1>3. o \in Chats /\ chatInfo[o].parent = ch
  BY <1>1, <1>2 DEF ChatInv, ChatTypes, Registers
<1> HIDE DEF o
<1>4. Prepared(o, chatChannels, chatInfo)
  BY RegisteredPrepared
<1>5. Moves(c, o, chatChannels, chatInfo)
  BY <1>1, <1>3, EnterChatMoves
<1> QED BY <1>1, <1>2, <1>3, <1>4, <1>5, MoveKeeps DEF ChatInv, ChatTypes

(* A chat object nobody can reach has neither members nor a name.          *)
LEMMA FreeObject ==
  ASSUME ChatInv, NEW o \in FreeObjs
  PROVE  /\ o \in Chats /\ o \in ChatObjs /\ chatUsers[o] = {}
         /\ \A ch \in Channels, n \in Names : chatChannels[ch][n] # o
<1>1. o \in ChatObjs /\ o \in Chats /\ chatInfo[o].parent = NoChannel
  BY DEF FreeObjs, Chats, Unused
<1>2. ASSUME NEW c \in Conns, c \in chatUsers[o]
      PROVE  FALSE
  <2>1. chatchannel[c] = o
    BY <1>1, <1>2 DEF ChatInv, Member
  <2>2. o # NoChat
    BY <1>1, ChatsAssumption
  <2>3. chatInfo[o].parent \in Channels
    BY <2>1, <2>2 DEF ChatInv, Member
  <2> QED BY <1>1, <2>3, TownsAssumption
<1>3. chatUsers[o] = {}
  BY <1>1, <1>2 DEF ChatInv, ChatTypes
<1>4. ASSUME NEW ch \in Channels, NEW n \in Names, chatChannels[ch][n] = o
      PROVE  FALSE
  <2>1. Registers(chatChannels, chatInfo, NoChat, ch, n)
    BY DEF ChatInv
  <2>2. o # NoChat
    BY <1>1, ChatsAssumption
  <2> QED BY <1>1, <1>4, <2>1, <2>2, TownsAssumption DEF Registers
<1> QED BY <1>1, <1>3, <1>4

(* The registry and the objects once joinChat has made a chat.             *)
Made(o, ch, n, pw, registry, info) ==
  /\ registry = [chatChannels EXCEPT ![ch][n] = o]
  /\ info = [chatInfo EXCEPT ![o] = [parent |-> ch, name |-> n, password |-> pw]]

LEMMA MadePrepared ==
  ASSUME ChatInv, NEW o \in FreeObjs, NEW ch \in Channels, NEW n \in ChatNames,
         NEW pw \in Passwords, NEW registry, NEW info, Made(o, ch, n, pw, registry, info)
  PROVE  Prepared(o, registry, info) /\ info[o].parent = ch /\ info[o].name = n
<1>1. o \in Chats /\ chatUsers[o] = {} /\ n \in Names /\ n \notin DefaultChats
      /\ \A t \in Channels, m \in Names : chatChannels[t][m] # o
  BY FreeObject, ChatsAssumption DEF Names
<1>2. ChatTypes
  BY DEF ChatInv
<1> DEFINE new == [parent |-> ch, name |-> n, password |-> pw]
<1>3. new \in ChatInfo /\ new.parent = ch /\ new.name = n
  BY <1>1 DEF ChatInfo
<1> HIDE DEF new
<1>4. info = [chatInfo EXCEPT ![o] = new]
  BY DEF Made, new
<1>5. /\ info \in [Chats -> ChatInfo] /\ info[o] = new
      /\ \A p \in Chats \ {o} : info[p] = chatInfo[p]
  BY <1>1, <1>2, <1>3, <1>4 DEF ChatTypes
<1>6. /\ registry \in [Channels -> [Names -> Chats \cup {NoChat}]]
      /\ \A t \in Channels, m \in Names :
           registry[t][m] = IF t = ch /\ m = n THEN o ELSE chatChannels[t][m]
  BY <1>1, <1>2 DEF ChatTypes, Made
<1>7. ASSUME NEW t \in Channels, NEW m \in Names
      PROVE  Registers(registry, info, o, t, m)
  <2>1. Registers(chatChannels, chatInfo, NoChat, t, m)
    BY DEF ChatInv
  <2>2. CASE t = ch /\ m = n
    BY <1>1, <1>3, <1>5, <1>6, <2>2 DEF Registers
  <2>3. CASE ~(t = ch /\ m = n)
    <3>1. registry[t][m] = chatChannels[t][m]
      BY <1>6, <2>3
    <3>2. chatChannels[t][m] # NoChat => info[chatChannels[t][m]] = chatInfo[chatChannels[t][m]]
      BY <1>1, <1>2, <1>5 DEF ChatTypes
    <3>3. chatChannels[t][m] \in ChatObjs => chatChannels[t][m] # NoChat
      BY ChatsAssumption DEF Chats
    <3> QED BY <2>1, <3>1, <3>2, <3>3 DEF Registers
  <2> QED BY <2>2, <2>3
<1>8. \A p \in Chats : chatUsers[p] # {} => info[p] = chatInfo[p]
  BY <1>1, <1>5
<1> QED BY <1>3, <1>5, <1>6, <1>7, <1>8 DEF Prepared

LEMMA CreateChatKeeps ==
  ASSUME ChatInv, NEW c \in Conns, NEW n \in ChatNames, NEW pw \in Passwords,
         CreateChat(c, n, pw)
  PROVE  ChatInv'
<1> DEFINE ch == gamechannel[c]
<1>1. /\ InTown(c) /\ gamechannel' = gamechannel
  BY DEF CreateChat, Busy, townVars
<1>2. ch \in Channels
  BY <1>1 DEF ChatInv, ChatTypes, InTown
<1>3. PICK o \in FreeObjs :
        EnterChat(c, o, [chatChannels EXCEPT ![ch][n] = o],
                  [chatInfo EXCEPT ![o] = [parent |-> ch, name |-> n, password |-> pw]],
                  ShownTo(chatList, n, userlist[ch] \ {c}), ShownTo(chatMade, n, {c}))
  BY DEF CreateChat
<1> DEFINE registry == [chatChannels EXCEPT ![ch][n] = o]
           info == [chatInfo EXCEPT ![o] = [parent |-> ch, name |-> n, password |-> pw]]
           lists == ShownTo(chatList, n, userlist[ch] \ {c})
           made == ShownTo(chatMade, n, {c})
<1>4. Made(o, ch, n, pw, registry, info)
  BY DEF Made
<1>5. o \in Chats
  BY FreeObject
<1> HIDE DEF registry, info, lists, made
<1>6. EnterChat(c, o, registry, info, lists, made)
  BY <1>3 DEF registry, info, lists, made
<1>7. Moves(c, o, registry, info)
  BY <1>5, <1>6, EnterChatMoves
<1>8. Prepared(o, registry, info) /\ info[o].parent = ch
  BY <1>2, <1>4, MadePrepared
<1> QED BY <1>1, <1>2, <1>5, <1>7, <1>8, MoveKeeps DEF ChatInv, ChatTypes

LEMMA InitChatInv == Init => ChatInv
<1> SUFFICES ASSUME Init PROVE ChatInv
  OBVIOUS
<1> USE DEF Init, TownsInit, ChatsInit
<1>1. ChatTypes
  <2>1. Unused \in ChatInfo
    BY ChatsAssumption DEF Unused, ChatInfo, Names
  <2>2. ASSUME NEW o \in Chats, o \notin ChatObjs
        PROVE  [parent |-> o[1], name |-> o[2], password |-> NoPassword] \in ChatInfo
    BY <2>2, ChatsAssumption DEF ChatInfo, Names, Chats
  <2>3. chatInfo \in [Chats -> ChatInfo]
    BY <2>1, <2>2
  <2>4. chatChannels \in [Channels -> [Names -> Chats \cup {NoChat}]]
    BY DefaultObjects
  <2> QED BY <2>3, <2>4 DEF ChatTypes
<1>2. \A c \in Conns : Member(c)
  BY ChatsAssumption DEF Member
<1>3. ASSUME NEW ch \in Channels, NEW n \in Names
      PROVE  Registers(chatChannels, chatInfo, NoChat, ch, n)
  <2>1. CASE n \in DefaultChats
    <3>1. chatChannels[ch][n] = << ch, n >>
      BY <2>1
    <3>2. chatInfo[<< ch, n >>] = [parent |-> ch, name |-> n, password |-> NoPassword]
      BY <2>1, DefaultObjects
    <3> QED BY <2>1, <3>1, <3>2, DefaultObjects DEF Registers
  <2>2. CASE n \notin DefaultChats
    <3>1. chatChannels[ch][n] = NoChat
      BY <2>2
    <3> QED BY <2>2, <3>1, ChatsAssumption DEF Registers, Chats
  <2> QED BY <2>1, <2>2
<1> QED BY <1>1, <1>2, <1>3 DEF ChatInv

(* The game handlers touch no chat; a start shortens client-side lists.    *)
LEMMA GameStepKeepsChats ==
  ASSUME NEW c \in Conns, GameStep(c)
  PROVE  UNCHANGED << gamechannel, chatchannel, chatUsers, chatInfo, chatChannels, chatList,
                       chatMade >>
<1>1. ASSUME NEW n \in GameNames, RequestCreateGame(c, n)
      PROVE  UNCHANGED << gamechannel, chatchannel, chatUsers, chatInfo, chatChannels, chatList,
                       chatMade >>
  BY <1>1 DEF RequestCreateGame, townVars, chatVars
<1>2. ASSUME NEW n \in GameNames, NEW pw \in Passwords, NEW npj \in CreateNpj,
             NEW st \in CreateStatus, NEW mx \in MaxPlayers,
             CreateGame(c, n, pw, npj, st, mx)
      PROVE  UNCHANGED << gamechannel, chatchannel, chatUsers, chatInfo, chatChannels, chatList,
                       chatMade >>
  BY <1>2 DEF CreateGame, townVars, chatVars
<1>3. ASSUME NEW n \in GameNames, CreateGameFails(c, n)
      PROVE  UNCHANGED << gamechannel, chatchannel, chatUsers, chatInfo, chatChannels, chatList,
                       chatMade >>
  BY <1>3 DEF CreateGameFails, chatVars
<1>4. ASSUME NEW n \in GameNames, NEW pw \in Passwords, JoinGame(c, n, pw)
      PROVE  UNCHANGED << gamechannel, chatchannel, chatUsers, chatInfo, chatChannels, chatList,
                       chatMade >>
  BY <1>4 DEF JoinGame, townVars, chatVars
<1>5. StopGame(c) =>
        UNCHANGED << gamechannel, chatchannel, chatUsers, chatInfo, chatChannels, chatList,
                       chatMade >>
  BY DEF StopGame, townVars, chatVars
<1>6. StartingGame(c) =>
        UNCHANGED << gamechannel, chatchannel, chatUsers, chatInfo, chatChannels, chatList,
                       chatMade >>
  BY DEF StartingGame
<1> QED BY <1>1, <1>2, <1>3, <1>4, <1>5, <1>6 DEF GameStep

LEMMA NextChatInv == ChatInv /\ [Next]_vars => ChatInv'
<1> SUFFICES ASSUME ChatInv, [Next]_vars PROVE ChatInv'
  OBVIOUS
<1>1. CASE UNCHANGED vars
  BY <1>1, SameChats DEF vars, townVars, chatVars
<1>2. CASE UpdatePos
  BY <1>2, SameChats DEF UpdatePos, chatVars
<1>3. ASSUME NEW c \in Conns, TownStep(c)
      PROVE  ChatInv'
  <2>1. CASE Disconnect(c) \/ LeaveGameChannel(c) \/ \E ch \in Channels : RequestJoin(c, ch)
    BY <2>1, LeaveTownKeepsChats DEF Disconnect, LeaveGameChannel, RequestJoin
  <2>2. CASE \E ch \in Channels : JoinGameChannel(c, ch)
    BY <2>2, ArrivalKeepsChats
  <2>3. CASE \/ Login(c)
             \/ \E blob \in HeroBlobs : SetUserHeroData(c, blob)
             \/ UpdateHeroPos(c)
    BY <2>3, SameChats DEF Login, SetUserHeroData, UpdateHeroPos, chatVars
  <2> QED BY <1>3, <2>1, <2>2, <2>3 DEF TownStep
<1>4. ASSUME NEW c \in Conns, ChatStep(c)
      PROVE  ChatInv'
  <2>1. CASE \E n \in Names, pw \in Passwords : JoinChat(c, n, pw)
    BY <2>1, JoinChatKeeps
  <2>2. CASE \E n \in ChatNames, pw \in Passwords : CreateChat(c, n, pw)
    BY <2>2, CreateChatKeeps
  <2>3. CASE LeaveChatChannel(c)
    BY <2>3, LeavingKeepsChats DEF LeaveChatChannel, townVars
  <2> QED BY <1>4, <2>1, <2>2, <2>3 DEF ChatStep
<1>5. ASSUME NEW c \in Conns, GameStep(c)
      PROVE  ChatInv'
  BY <1>5, SameChats, GameStepKeepsChats
<1> QED BY <1>1, <1>2, <1>3, <1>4, <1>5 DEF Next

LEMMA ChatInvHolds == Spec => []ChatInv
BY InitChatInv, NextChatInv, PTL DEF Spec

(* Whatever chats are created, picked, left and created again, with one's  *)
(* own chat picked again too: a player is on the list of exactly the chat  *)
(* of the record, in the own town (ChatChannel.join, ChatChannel.remove).  *)
THEOREM ChatMembershipTheorem == Spec => []ChatMembership
BY ChatInvHolds, ChatInvImplies, PTL

-----------------------------------------------------------------------------
(***************************************************************************)
(* Names.  A chat with members is the one its name stands for, as long as  *)
(* no chat is entered by somebody inside.                                  *)
(***************************************************************************)
Named(o) == chatUsers[o] # {} => chatChannels[chatInfo[o].parent][chatInfo[o].name] = o

ChatsNamed == \A o \in Chats : Named(o)

LEMMA NamesGiveRegistry == ChatInv /\ ChatsNamed => ChatRegistry
<1> SUFFICES ASSUME ChatInv, ChatsNamed PROVE ChatRegistry
  OBVIOUS
<1>1. ASSUME NEW ch \in Channels, NEW n \in ChatNames, chatChannels[ch][n] # NoChat
      PROVE  chatUsers[chatChannels[ch][n]] # {}
  <2> DEFINE o == chatChannels[ch][n]
  <2>1. n \in Names /\ n \notin DefaultChats
    BY ChatsAssumption DEF Names
  <2>2. o \in Chats /\ chatInfo[o].name = n /\ (o \in ChatObjs => chatUsers[o] # {})
    BY <1>1, <2>1, ChatsAssumption DEF ChatInv, ChatTypes, Registers, Chats
  <2> HIDE DEF o
  <2>3. ASSUME o \notin ChatObjs
        PROVE  FALSE
    <3>1. PICK t \in Channels, m \in DefaultChats : o = << t, m >>
      BY <2>2, <2>3 DEF Chats
    <3>2. chatChannels[t][m] = o /\ m \in Names /\ o # NoChat
      BY <3>1, DefaultObjects DEF ChatInv, Registers
    <3>3. chatInfo[o].name = m
      BY <3>2 DEF ChatInv, Registers
    <3> QED BY <2>1, <2>2, <3>3
  <2> QED BY <2>2, <2>3 DEF o
<1>2. \A ch \in Channels, n \in DefaultChats : chatChannels[ch][n] = << ch, n >>
  BY DEF ChatInv, Registers, Names
<1> QED BY <1>1, <1>2 DEF ChatsNamed, Named, ChatRegistry

LEMMA MoveKeepsNames ==
  ASSUME ChatInv, ChatsNamed, NEW c \in Conns, NEW into \in Chats \cup {NoChat},
         NEW registry, NEW info,
         Prepared(into, registry, info), Moves(c, into, registry, info),
         into # NoChat =>
           /\ into # chatchannel[c]
           /\ info[into].parent \in Channels
           /\ registry[info[into].parent][info[into].name] = into,
         \A ch \in Channels, n \in Names :
           chatChannels[ch][n] # NoChat => registry[ch][n] = chatChannels[ch][n]
  PROVE  ChatsNamed'
<1>1. /\ registry \in [Channels -> [Names -> Chats \cup {NoChat}]]
      /\ info \in [Chats -> ChatInfo]
      /\ \A o \in Chats : chatUsers[o] # {} => info[o] = chatInfo[o]
  BY DEF Prepared
<1>2. \A o \in Chats :
        chatUsers'[o] = IF o = into THEN chatUsers[o] \cup {c} ELSE chatUsers[o] \ {c}
  BY DEF Moves
<1>3. \A o \in Chats : chatUsers'[o] # {} => chatInfo'[o] = info[o]
  BY DEF Moves, Collected
<1>4. \A ch \in Channels, n \in Names :
        chatChannels'[ch][n] = IF /\ Empties(c)
                                  /\ ch = chatInfo[chatchannel[c]].parent
                                  /\ n = chatInfo[chatchannel[c]].name
                               THEN NoChat ELSE registry[ch][n]
  BY <1>1, ChannelsWithout DEF Moves
<1> SUFFICES ASSUME NEW o \in Chats, chatUsers'[o] # {}
             PROVE  chatChannels'[chatInfo'[o].parent][chatInfo'[o].name] = o
  BY DEF ChatsNamed, Named
<1> DEFINE ch == info[o].parent
           n  == info[o].name
<1>5. n \in Names
  BY <1>1 DEF ChatInfo
<1>6. ch \in Channels /\ registry[ch][n] = o
  <2>1. CASE o = into
    BY <2>1, ChatsAssumption
  <2>2. CASE o # into
    <3>1. PICK d \in Conns : d \in chatUsers[o]
      BY <1>2, <2>2 DEF ChatInv, ChatTypes
    <3>2. chatchannel[d] = o /\ o # NoChat /\ info[o] = chatInfo[o]
      BY <1>1, <3>1, ChatsAssumption DEF ChatInv, Member
    <3>3. ch \in Channels
      BY <3>2 DEF ChatInv, Member
    <3>4. chatChannels[ch][n] = o
      BY <3>1, <3>2 DEF ChatsNamed, Named
    <3> QED BY <1>5, <3>2, <3>3, <3>4
  <2> QED BY <2>1, <2>2
<1>7. chatInfo'[o].parent = ch /\ chatInfo'[o].name = n
  BY <1>3
<1> HIDE DEF ch, n
<1>8. ASSUME Empties(c), ch = chatInfo[chatchannel[c]].parent,
             n = chatInfo[chatchannel[c]].name
      PROVE  FALSE
  <2> DEFINE p == chatchannel[c]
  <2>1. p \in Chats /\ p # NoChat /\ c \in chatUsers[p] /\ chatUsers[p] \subseteq {c}
    BY <1>8 DEF Empties, ChatInv, ChatTypes, Member
  <2>2. chatChannels[ch][n] = p
    BY <1>8, <2>1 DEF ChatsNamed, Named
  <2>3. registry[ch][n] = p
    BY <1>5, <1>6, <2>1, <2>2
  <2>4. o = p
    BY <1>6, <2>3
  <2>5. p # into
    BY <2>1
  <2> QED BY <1>2, <2>1, <2>4, <2>5
<1> QED BY <1>4, <1>5, <1>6, <1>7, <1>8

LEMMA LeaveChatKeepsNames ==
  ASSUME ChatInv, ChatsNamed, NEW c \in Conns, LeaveChat(c)
  PROVE  ChatsNamed'
BY RegisteredPrepared, LeaveChatMoves, MoveKeepsNames

LEMMA LeaveTownKeepsNames ==
  ASSUME ChatInv, ChatsNamed, NEW c \in Conns, LeaveTown(c)
  PROVE  ChatsNamed'
<1>1. CASE ~InTown(c)
  BY <1>1 DEF LeaveTown, chatVars, ChatsNamed, Named
<1>2. CASE InTown(c)
  BY <1>2, LeaveChatKeepsNames DEF LeaveTown
<1> QED BY <1>1, <1>2

(* Entering a registered chat that is not one's own.                       *)
LEMMA EnterKeepsNames ==
  ASSUME ChatInv, ChatsNamed, NEW c \in Conns, NEW ch \in Channels, NEW n \in Names,
         chatChannels[ch][n] # NoChat, chatChannels[ch][n] # chatchannel[c],
         NEW lists, NEW made,
         EnterChat(c, chatChannels[ch][n], chatChannels, chatInfo, lists, made)
  PROVE  ChatsNamed'
<1> DEFINE o == chatChannels[ch][n]
<1>1. o \in Chats /\ chatInfo[o].parent = ch /\ chatInfo[o].name = n
  BY DEF ChatInv, ChatTypes, Registers
<1>2. chatChannels[chatInfo[o].parent][chatInfo[o].name] = o
  BY <1>1
<1>3. EnterChat(c, o, chatChannels, chatInfo, lists, made) /\ o # chatchannel[c]
  OBVIOUS
<1> HIDE DEF o
<1>4. Moves(c, o, chatChannels, chatInfo) /\ Prepared(o, chatChannels, chatInfo)
  BY <1>1, <1>3, EnterChatMoves, RegisteredPrepared
<1> QED BY <1>1, <1>2, <1>3, <1>4, MoveKeepsNames

LEMMA CreateKeepsNames ==
  ASSUME ChatInv, ChatsNamed, NEW c \in Conns, NEW n \in ChatNames, NEW pw \in Passwords,
         CreateChat(c, n, pw)
  PROVE  ChatsNamed'
<1> DEFINE ch == gamechannel[c]
<1>1. InTown(c) /\ chatChannels[ch][n] = NoChat
  BY DEF CreateChat, Busy
<1>2. ch \in Channels /\ n \in Names /\ ChatTypes
  BY <1>1 DEF ChatInv, ChatTypes, InTown, Names
<1>3. PICK o \in FreeObjs :
        EnterChat(c, o, [chatChannels EXCEPT ![ch][n] = o],
                  [chatInfo EXCEPT ![o] = [parent |-> ch, name |-> n, password |-> pw]],
                  ShownTo(chatList, n, userlist[ch] \ {c}), ShownTo(chatMade, n, {c}))
  BY DEF CreateChat
<1> DEFINE registry == [chatChannels EXCEPT ![ch][n] = o]
           info == [chatInfo EXCEPT ![o] = [parent |-> ch, name |-> n, password |-> pw]]
           lists == ShownTo(chatList, n, userlist[ch] \ {c})
           made == ShownTo(chatMade, n, {c})
<1>4. Made(o, ch, n, pw, registry, info)
  BY DEF Made
<1>5. o \in Chats /\ chatUsers[o] = {}
  BY FreeObject
<1>6. \A t \in Channels, m \in Names :
        registry[t][m] = IF t = ch /\ m = n THEN o ELSE chatChannels[t][m]
  BY <1>2 DEF ChatTypes
<1> HIDE DEF registry, info, lists, made, ch
<1>7. EnterChat(c, o, registry, info, lists, made)
  BY <1>3 DEF registry, info, lists, made, ch
<1>8. Moves(c, o, registry, info)
  BY <1>5, <1>7, EnterChatMoves
<1>9. Prepared(o, registry, info) /\ info[o].parent = ch /\ info[o].name = n
  BY <1>2, <1>4, MadePrepared
<1>10. o # chatchannel[c]
  BY <1>5 DEF ChatInv, Member
<1> QED BY <1>1, <1>2, <1>5, <1>6, <1>8, <1>9, <1>10, MoveKeepsNames

LEMMA JoinKeepsNames ==
  ASSUME ChatInv, ChatsNamed, "chat" \notin Retries,
         NEW c \in Conns, NEW n \in Names, NEW pw \in Passwords, JoinChat(c, n, pw)
  PROVE  ChatsNamed'
<1> DEFINE ch == gamechannel[c]
<1>1. InTown(c)
  BY DEF JoinChat, Busy
<1>2. ch \in Channels
  BY <1>1 DEF InTown, ChatInv, ChatTypes
<1>3. chatChannels[ch][n] # NoChat /\ chatChannels[ch][n] # chatchannel[c]
  BY DEF JoinChat
<1>4. EnterChat(c, chatChannels[ch][n], chatChannels, chatInfo, chatList, chatMade)
  BY DEF JoinChat
<1> HIDE DEF ch
<1> QED BY <1>2, <1>3, <1>4, EnterKeepsNames

LEMMA NextNames ==
  ASSUME TownInv, ChatInv, ChatsNamed, "chat" \notin Retries, [Next]_vars
  PROVE  ChatsNamed'
<1>1. UNCHANGED chatVars => ChatsNamed'
  BY DEF chatVars, ChatsNamed, Named
<1>2. CASE UNCHANGED vars \/ UpdatePos
  BY <1>1, <1>2 DEF vars, UpdatePos
<1>3. ASSUME NEW c \in Conns, TownStep(c)
      PROVE  ChatsNamed'
  <2>1. CASE Disconnect(c) \/ LeaveGameChannel(c) \/ \E ch \in Channels : RequestJoin(c, ch)
    BY <2>1, LeaveTownKeepsNames DEF Disconnect, LeaveGameChannel, RequestJoin
  <2>2. ASSUME NEW ch \in Channels, JoinGameChannel(c, ch)
        PROVE  ChatsNamed'
    <3>1. gamechannel[c] = NoChannel
      BY <2>2, TownsAssumption DEF JoinGameChannel, TownInv, WhereaboutsAgree, InTown
    <3>2. chatchannel[c] = NoChat
      BY <3>1, TownsAssumption DEF ChatInv, Member
    <3>3. MainChat \in Names /\ chatChannels[ch][MainChat] # NoChat
      <4>1. MainChat \in Names /\ MainChat \in DefaultChats
        BY ChatsAssumption DEF Names
      <4>2. chatChannels[ch][MainChat] = << ch, MainChat >>
        BY <4>1 DEF ChatInv, Registers
      <4>3. << ch, MainChat >> # NoChat
        BY <4>1, DefaultObjects
      <4> QED BY <4>1, <4>2, <4>3
    <3> DEFINE lists == [chatList EXCEPT ![c] = Registered(chatChannels, ch)]
    <3>4. EnterChat(c, chatChannels[ch][MainChat], chatChannels, chatInfo, lists, chatMade)
      BY <2>2 DEF JoinGameChannel
    <3>5. chatChannels[ch][MainChat] # chatchannel[c]
      BY <3>2, <3>3
    <3> HIDE DEF lists
    <3> QED BY <3>3, <3>4, <3>5, EnterKeepsNames
  <2>3. CASE \/ Login(c)
             \/ \E blob \in HeroBlobs : SetUserHeroData(c, blob)
             \/ UpdateHeroPos(c)
    BY <1>1, <2>3 DEF Login, SetUserHeroData, UpdateHeroPos
  <2> QED BY <1>3, <2>1, <2>2, <2>3 DEF TownStep
<1>4. ASSUME NEW c \in Conns, ChatStep(c)
      PROVE  ChatsNamed'
  <2>1. ASSUME NEW n \in Names, NEW pw \in Passwords, JoinChat(c, n, pw)
        PROVE  ChatsNamed'
    BY <2>1, JoinKeepsNames
  <2>2. CASE \E n \in ChatNames, pw \in Passwords : CreateChat(c, n, pw)
    BY <2>2, CreateKeepsNames
  <2>3. CASE LeaveChatChannel(c)
    BY <2>3, LeaveChatKeepsNames DEF LeaveChatChannel
  <2> QED BY <1>4, <2>1, <2>2, <2>3 DEF ChatStep
<1>5. ASSUME NEW c \in Conns, GameStep(c)
      PROVE  ChatsNamed'
  BY <1>5, GameStepKeepsChats DEF ChatsNamed, Named
<1> QED BY <1>2, <1>3, <1>4, <1>5 DEF Next

(* With clients that pick no chat they are in: a chat with members is the  *)
(* one its name stands for, a chat without members has no name, and the    *)
(* default chats stay, however objects of one name follow each other       *)
(* (ChatChannel.remove, GameChannel.joinChat).                             *)
THEOREM ChatRegistryTheorem ==
  ASSUME "chat" \notin Retries
  PROVE  Spec => []ChatRegistry
<1>1. Init => ChatsNamed
  BY DEF Init, ChatsInit, ChatsNamed, Named
<1>2. TownInv /\ ChatInv /\ ChatsNamed /\ [Next]_vars => ChatsNamed'
  BY NextNames
<1> QED BY <1>1, <1>2, InitTownInv, NextTownInv, ChatInvHolds, NamesGiveRegistry, PTL DEF Spec

-----------------------------------------------------------------------------
(***************************************************************************)
(* What the clients list.  The chats of the town first: the client was     *)
(* sent all of them but those it knows of only because it made them.       *)
(***************************************************************************)
Known(registry, ch) == IF ch = NoChannel THEN {} ELSE Registered(registry, ch)

Right(list, made, registry, ch) ==
  list = Known(registry, ch) \ made /\ made \subseteq Known(registry, ch)

ListInv ==
  /\ chatList \in [Conns -> SUBSET Names]
  /\ chatMade \in [Conns -> SUBSET Names]
  /\ \A c \in Conns : Right(chatList[c], chatMade[c], chatChannels, gamechannel[c])

LEMMA ListInvImplies == ListInv => ChatListExact
BY DEF ListInv, Right, Known, ChatListExact, InTown

(* A chat that goes is taken off the lists of its town as off the          *)
(* registry.                                                               *)
LEMMA WithoutHides ==
  ASSUME TownInv, ChatInv, NEW c \in Conns, Empties(c),
         NEW lists \in [Conns -> SUBSET Names]
  PROVE  /\ ChatListWithout(lists, c) \in [Conns -> SUBSET Names]
         /\ \A d \in Conns : ChatListWithout(lists, c)[d] =
              IF gamechannel[d] = chatInfo[chatchannel[c]].parent
              THEN lists[d] \ {chatInfo[chatchannel[c]].name} ELSE lists[d]
<1> DEFINE old == chatInfo[chatchannel[c]]
<1>1. old.parent \in Channels
  BY DEF Empties, ChatInv, ChatTypes, Member, ChatInfo
<1>2. ChatListWithout(lists, c) = HiddenFrom(lists, {old.name}, userlist[old.parent])
  BY DEF ChatListWithout
<1> HIDE DEF old
<1>3. \A d \in Conns : d \in userlist[old.parent] <=> gamechannel[d] = old.parent
  BY <1>1 DEF TownInv, WhereaboutsAgree
<1> QED BY <1>2, <1>3 DEF HiddenFrom, old

LEMMA WithoutKeepsLists ==
  ASSUME TownInv, ChatInv, NEW c \in Conns,
         NEW registry \in [Channels -> [Names -> Chats \cup {NoChat}]],
         NEW lists \in [Conns -> SUBSET Names], NEW made \in [Conns -> SUBSET Names]
  PROVE  /\ ChatListWithout(lists, c) \in [Conns -> SUBSET Names]
         /\ ChatListWithout(made, c) \in [Conns -> SUBSET Names]
         /\ \A d \in Conns :
              Right(lists[d], made[d], registry, gamechannel[d])
                => Right(ChatListWithout(lists, c)[d], ChatListWithout(made, c)[d],
                         ChatChannelsWithout(registry, c), gamechannel[d])
<1>1. CASE ~Empties(c)
  BY <1>1 DEF ChatListWithout, ChatChannelsWithout
<1>2. CASE Empties(c)
  <2> DEFINE old == chatInfo[chatchannel[c]]
             l == ChatListWithout(lists, c)
             m == ChatListWithout(made, c)
             r == ChatChannelsWithout(registry, c)
  <2>1. old.parent \in Channels /\ old.name \in Names
    BY <1>2 DEF Empties, ChatInv, ChatTypes, Member, ChatInfo
  <2>2. ASSUME NEW ch \in Channels
        PROVE  Registered(r, ch) = IF ch = old.parent THEN Registered(registry, ch) \ {old.name}
                                   ELSE Registered(registry, ch)
    BY <1>2, ChannelsWithout DEF Registered
  <2>3. /\ l \in [Conns -> SUBSET Names] /\ m \in [Conns -> SUBSET Names]
        /\ \A d \in Conns :
             /\ l[d] = IF gamechannel[d] = old.parent THEN lists[d] \ {old.name} ELSE lists[d]
             /\ m[d] = IF gamechannel[d] = old.parent THEN made[d] \ {old.name} ELSE made[d]
    BY <1>2, WithoutHides
  <2> HIDE DEF old, l, m, r
  <2>4. ASSUME NEW d \in Conns, Right(lists[d], made[d], registry, gamechannel[d])
        PROVE  Right(l[d], m[d], r, gamechannel[d])
    <3>1. gamechannel[d] \in Channels \cup {NoChannel}
      BY DEF ChatInv, ChatTypes
    <3>2. CASE gamechannel[d] = old.parent
      <4>1. /\ Known(registry, gamechannel[d]) = Registered(registry, old.parent)
            /\ Known(r, gamechannel[d]) = Registered(registry, old.parent) \ {old.name}
        BY <2>1, <2>2, <3>2, TownsAssumption DEF Known
      <4>2. l[d] = lists[d] \ {old.name} /\ m[d] = made[d] \ {old.name}
        BY <2>3, <3>2
      <4> QED BY <2>4, <4>1, <4>2 DEF Right
    <3>3. CASE gamechannel[d] # old.parent
      <4>1. Known(r, gamechannel[d]) = Known(registry, gamechannel[d])
        BY <2>2, <3>1, <3>3 DEF Known
      <4> QED BY <2>3, <2>4, <3>3, <4>1 DEF Right
    <3> QED BY <3>2, <3>3
  <2> QED BY <2>3, <2>4 DEF l, m, r
<1> QED BY <1>1, <1>2

(* A player moves within the town, or leaves its chat.                     *)
LEMMA StayingKeepsLists ==
  ASSUME TownInv, ChatInv, NEW c \in Conns,
         NEW registry \in [Channels -> [Names -> Chats \cup {NoChat}]],
         NEW lists \in [Conns -> SUBSET Names], NEW made \in [Conns -> SUBSET Names],
         \A d \in Conns : Right(lists[d], made[d], registry, gamechannel[d]),
         gamechannel' = gamechannel,
         chatList' = ChatListWithout(lists, c),
         chatMade' = ChatListWithout(made, c),
         chatChannels' = ChatChannelsWithout(registry, c)
  PROVE  ListInv'
BY WithoutKeepsLists DEF ListInv

LEMMA LeavingTownKeepsLists ==
  ASSUME TownInv, ChatInv, ListInv, NEW c \in Conns, LeaveTown(c)
  PROVE  ListInv'
<1>1. CASE ~InTown(c)
  BY <1>1 DEF LeaveTown, chatVars, ListInv
<1>2. CASE InTown(c)
  <2> DEFINE lists == ChatListWithout(chatList, c)
             made == ChatListWithout(chatMade, c)
             registry == ChatChannelsWithout(chatChannels, c)
  <2>1. /\ chatList' = [lists EXCEPT ![c] = {}]
        /\ chatMade' = [made EXCEPT ![c] = {}]
        /\ chatChannels' = registry
        /\ gamechannel' = [gamechannel EXCEPT ![c] = NoChannel]
    BY <1>2 DEF LeaveTown, LeaveChat
  <2>2. /\ lists \in [Conns -> SUBSET Names] /\ made \in [Conns -> SUBSET Names]
        /\ \A d \in Conns : Right(lists[d], made[d], registry, gamechannel[d])
    BY WithoutKeepsLists DEF ListInv, ChatInv, ChatTypes
  <2>3. gamechannel \in [Conns -> Channels \cup {NoChannel}]
    BY DEF ChatInv, ChatTypes
  <2> HIDE DEF lists, made, registry
  <2>4. ASSUME NEW d \in Conns
        PROVE  Right(chatList'[d], chatMade'[d], chatChannels', gamechannel'[d])
    <3>1. CASE d = c
      BY <2>1, <2>2, <2>3, <3>1 DEF Right, Known
    <3>2. CASE d # c
      <4>1. /\ chatList'[d] = lists[d] /\ chatMade'[d] = made[d]
            /\ gamechannel'[d] = gamechannel[d]
        BY <2>1, <2>2, <2>3, <3>2
      <4> QED BY <2>1, <2>2, <4>1
    <3> QED BY <3>1, <3>2
  <2>5. chatList' \in [Conns -> SUBSET Names] /\ chatMade' \in [Conns -> SUBSET Names]
    BY <2>1, <2>2
  <2> QED BY <2>4, <2>5 DEF ListInv
<1> QED BY <1>1, <1>2

(* A newcomer has no chat to leave and is told the chats of the town.      *)
LEMMA JoiningTownKeepsLists ==
  ASSUME TownInv, ChatInv, ListInv, NEW c \in Conns, NEW ch \in Channels,
         JoinGameChannel(c, ch)
  PROVE  ListInv'
<1> DEFINE lists == [chatList EXCEPT ![c] = Registered(chatChannels, ch)]
<1>1. gamechannel[c] = NoChannel
  BY TownsAssumption DEF JoinGameChannel, TownInv, WhereaboutsAgree, InTown
<1>2. ~Empties(c)
  BY <1>1, TownsAssumption DEF ChatInv, Member, Empties
<1>3. /\ chatList' = lists
      /\ chatMade' = chatMade
      /\ chatChannels' = chatChannels
      /\ gamechannel' = [gamechannel EXCEPT ![c] = ch]
  BY <1>2 DEF JoinGameChannel, EnterChat, ChatListWithout, ChatChannelsWithout
<1>4. gamechannel \in [Conns -> Channels \cup {NoChannel}]
  BY DEF ChatInv, ChatTypes
<1>5. chatList' \in [Conns -> SUBSET Names] /\ chatMade' \in [Conns -> SUBSET Names]
  BY <1>3 DEF ListInv, Registered
<1>6. ASSUME NEW d \in Conns
      PROVE  Right(chatList'[d], chatMade'[d], chatChannels', gamechannel'[d])
  <2>1. Right(chatList[d], chatMade[d], chatChannels, gamechannel[d])
    BY DEF ListInv
  <2>2. /\ chatList'[d] = IF d = c THEN Registered(chatChannels, ch) ELSE chatList[d]
        /\ gamechannel'[d] = IF d = c THEN ch ELSE gamechannel[d]
    BY <1>3, <1>4 DEF ListInv
  <2>3. CASE d = c
    <3>1. chatMade[d] = {}
      BY <1>1, <2>1, <2>3 DEF Right, Known
    <3> QED BY <1>3, <2>2, <2>3, <3>1, TownsAssumption DEF Right, Known
  <2>4. CASE d # c
    BY <1>3, <2>1, <2>2, <2>4
  <2> QED BY <2>3, <2>4
<1> QED BY <1>5, <1>6 DEF ListInv

(* A new chat is registered in the town, sent to everybody else there, and *)
(* its creator knows that it made it.                                      *)
LEMMA CreatingKeepsLists ==
  ASSUME TownInv, ChatInv, ListInv, NEW c \in Conns, NEW n \in ChatNames,
         NEW pw \in Passwords, CreateChat(c, n, pw)
  PROVE  ListInv'
<1> DEFINE ch == gamechannel[c]
<1>1. InTown(c) /\ gamechannel' = gamechannel /\ chatChannels[ch][n] = NoChat
  BY DEF CreateChat, Busy, townVars
<1>2. ch \in Channels /\ n \in Names
  BY <1>1 DEF ChatInv, ChatTypes, InTown, Names
<1>3. PICK o \in FreeObjs :
        EnterChat(c, o, [chatChannels EXCEPT ![ch][n] = o],
                  [chatInfo EXCEPT ![o] = [parent |-> ch, name |-> n, password |-> pw]],
                  ShownTo(chatList, n, userlist[ch] \ {c}), ShownTo(chatMade, n, {c}))
  BY DEF CreateChat
<1> DEFINE registry == [chatChannels EXCEPT ![ch][n] = o]
           lists == ShownTo(chatList, n, userlist[ch] \ {c})
           made == ShownTo(chatMade, n, {c})
<1>4. /\ chatList' = ChatListWithout(lists, c)
      /\ chatMade' = ChatListWithout(made, c)
      /\ chatChannels' = ChatChannelsWithout(registry, c)
  BY <1>3 DEF EnterChat
<1>5. o \in Chats /\ o # NoChat
  BY FreeObject, ChatsAssumption
<1>6. /\ registry \in [Channels -> [Names -> Chats \cup {NoChat}]]
      /\ \A t \in Channels : Registered(registry, t) =
           IF t = ch THEN Registered(chatChannels, t) \cup {n} ELSE Registered(chatChannels, t)
  <2>1. chatChannels \in [Channels -> [Names -> Chats \cup {NoChat}]]
    BY DEF ChatInv, ChatTypes
  <2>2. \A t \in Channels, m \in Names :
          registry[t][m] = IF t = ch /\ m = n THEN o ELSE chatChannels[t][m]
    BY <1>2, <2>1
  <2>3. registry \in [Channels -> [Names -> Chats \cup {NoChat}]]
    BY <1>2, <1>5, <2>1
  <2> HIDE DEF registry, ch
  <2> QED BY <1>2, <1>5, <2>2, <2>3 DEF Registered
<1>7. ASSUME NEW d \in Conns
      PROVE  /\ lists[d] = IF gamechannel[d] = ch /\ d # c THEN chatList[d] \cup {n}
                           ELSE chatList[d]
             /\ made[d] = IF d = c THEN chatMade[d] \cup {n} ELSE chatMade[d]
  BY <1>2 DEF ShownTo, TownInv, WhereaboutsAgree
<1>8. lists \in [Conns -> SUBSET Names] /\ made \in [Conns -> SUBSET Names]
  BY <1>2 DEF ShownTo, ListInv
<1>9. n \notin Registered(chatChannels, ch)
  BY <1>1 DEF Registered
<1> HIDE DEF registry, lists, made
<1>10. ASSUME NEW d \in Conns
      PROVE  Right(lists[d], made[d], registry, gamechannel[d])
  <2>1. Right(chatList[d], chatMade[d], chatChannels, gamechannel[d])
    BY DEF ListInv
  <2>2. gamechannel[d] \in Channels \cup {NoChannel}
    BY DEF ChatInv, ChatTypes
  <2> HIDE DEF ch
  <2>3. CASE gamechannel[d] = ch
    <3>1. /\ Known(chatChannels, gamechannel[d]) = Registered(chatChannels, ch)
          /\ Known(registry, gamechannel[d]) = Registered(chatChannels, ch) \cup {n}
      BY <1>2, <1>6, <2>3, TownsAssumption DEF Known
    <3>2. /\ chatList[d] = Registered(chatChannels, ch) \ chatMade[d]
          /\ chatMade[d] \subseteq Registered(chatChannels, ch)
      BY <2>1, <3>1 DEF Right
    <3>3. CASE d = c
      BY <1>7, <1>9, <2>3, <3>1, <3>2, <3>3 DEF Right
    <3>4. CASE d # c
      BY <1>7, <1>9, <2>3, <3>1, <3>2, <3>4 DEF Right
    <3> QED BY <3>3, <3>4
  <2>4. CASE gamechannel[d] # ch
    <3>1. d # c
      BY <2>4 DEF ch
    <3>2. Known(registry, gamechannel[d]) = Known(chatChannels, gamechannel[d])
      BY <1>6, <2>2, <2>4 DEF Known
    <3> QED BY <1>7, <2>1, <2>4, <3>1, <3>2 DEF Right
  <2> QED BY <2>3, <2>4
<1> QED BY <1>1, <1>4, <1>6, <1>8, <1>10, StayingKeepsLists

LEMMA NextLists == TownInv /\ ChatInv /\ ListInv /\ [Next]_vars => ListInv'
<1> SUFFICES ASSUME TownInv, ChatInv, ListInv, [Next]_vars PROVE ListInv'
  OBVIOUS
<1>1. UNCHANGED << gamechannel, chatChannels, chatList, chatMade >> => ListInv'
  BY DEF ListInv
<1>2. CASE UNCHANGED vars \/ UpdatePos
  BY <1>1, <1>2 DEF vars, townVars, chatVars, UpdatePos
<1>3. ASSUME NEW c \in Conns, TownStep(c)
      PROVE  ListInv'
  <2>1. CASE Disconnect(c) \/ LeaveGameChannel(c) \/ \E ch \in Channels : RequestJoin(c, ch)
    BY <2>1, LeavingTownKeepsLists DEF Disconnect, LeaveGameChannel, RequestJoin
  <2>2. CASE \/ Login(c)
             \/ \E blob \in HeroBlobs : SetUserHeroData(c, blob)
             \/ UpdateHeroPos(c)
    BY <1>1, <2>2 DEF Login, SetUserHeroData, UpdateHeroPos, chatVars
  <2> QED BY <1>3, <2>1, <2>2, JoiningTownKeepsLists DEF TownStep
<1>4. ASSUME NEW c \in Conns, ChatStep(c)
      PROVE  ListInv'
  <2>1. /\ chatChannels \in [Channels -> [Names -> Chats \cup {NoChat}]]
        /\ chatList \in [Conns -> SUBSET Names] /\ chatMade \in [Conns -> SUBSET Names]
        /\ \A d \in Conns : Right(chatList[d], chatMade[d], chatChannels, gamechannel[d])
    BY DEF ChatInv, ChatTypes, ListInv
  <2>2. ASSUME NEW n \in Names, NEW pw \in Passwords, JoinChat(c, n, pw)
        PROVE  ListInv'
    <3>1. /\ gamechannel' = gamechannel
          /\ chatList' = ChatListWithout(chatList, c)
          /\ chatMade' = ChatListWithout(chatMade, c)
          /\ chatChannels' = ChatChannelsWithout(chatChannels, c)
      BY <2>2 DEF JoinChat, EnterChat, townVars
    <3> QED BY <2>1, <3>1, StayingKeepsLists
  <2>3. CASE LeaveChatChannel(c)
    <3>1. /\ gamechannel' = gamechannel
          /\ chatList' = ChatListWithout(chatList, c)
          /\ chatMade' = ChatListWithout(chatMade, c)
          /\ chatChannels' = ChatChannelsWithout(chatChannels, c)
      BY <2>3 DEF LeaveChatChannel, LeaveChat, townVars
    <3> QED BY <2>1, <3>1, StayingKeepsLists
  <2> QED BY <1>4, <2>2, <2>3, CreatingKeepsLists DEF ChatStep
<1>5. ASSUME NEW c \in Conns, GameStep(c)
      PROVE  ListInv'
  BY <1>1, <1>5, GameStepKeepsChats
<1> QED BY <1>2, <1>3, <1>4, <1>5 DEF Next

LEMMA ListInvHolds == Spec => []ListInv
<1>1. Init => ListInv
  BY DEF Init, TownsInit, ChatsInit, ListInv, Right, Known
<1> QED BY <1>1, InitTownInv, NextTownInv, ChatInvHolds, NextLists, PTL DEF Spec

(* Whatever chats appear and disappear while players come and go: what     *)
(* every client was sent of chats is the registry of its town, except the  *)
(* chats it made itself, of which joinChat tells everybody else            *)
(* (enumChats, joinChat, ChatChannel.remove).                              *)
THEOREM ChatListTheorem == Spec => []ChatListExact
BY ListInvHolds, ListInvImplies, PTL

-----------------------------------------------------------------------------
(***************************************************************************)
(* The members of the own chat, for one client a and one player d.         *)
(***************************************************************************)
Company(a, d) == a # d /\ chatchannel[a] # NoChat /\ chatchannel[d] = chatchannel[a]

Listed(a, d) ==
  /\ d \in chatters[a] => Company(a, d)
  /\ Company(a, d) => d \in chatters[a] \cup departed[a]

CompanyInv ==
  /\ chatters \in [Conns -> SUBSET Conns]
  /\ \A a, d \in Conns : Listed(a, d)

LEMMA CompanyInvImplies == ChatInv /\ CompanyInv => ChattersMatch
<1> SUFFICES ASSUME ChatInv, CompanyInv, NEW a \in Conns
             PROVE  LET members == IF chatchannel[a] = NoChat THEN {}
                                   ELSE chatUsers[chatchannel[a]] \ {a}
                    IN  chatters[a] \subseteq members
                        /\ members \subseteq chatters[a] \cup departed[a]
  BY DEF ChattersMatch
<1>1. CASE chatchannel[a] = NoChat
  BY <1>1 DEF CompanyInv, Listed, Company
<1>2. CASE chatchannel[a] # NoChat
  <2> DEFINE o == chatchannel[a]
  <2>1. o \in Chats /\ chatUsers[o] \subseteq Conns
    BY <1>2 DEF ChatInv, ChatTypes
  <2>2. \A d \in Conns : d \in chatUsers[o] <=> chatchannel[d] = o
    BY <2>1 DEF ChatInv, Member
  <2>3. chatters[a] \subseteq Conns
    BY DEF CompanyInv
  <2> QED BY <1>2, <2>1, <2>2, <2>3 DEF CompanyInv, Listed, Company
<1> QED BY <1>1, <1>2

LEMMA ChattersWithoutEffect ==
  ASSUME ChatInv, CompanyInv, NEW c \in Conns
  PROVE  /\ ChattersWithout(c) \in [Conns -> SUBSET Conns]
         /\ \A d \in Conns : ChattersWithout(c)[d] =
              IF chatchannel[c] # NoChat /\ chatchannel[d] = chatchannel[c]
              THEN chatters[d] \ {c} ELSE chatters[d]
<1>1. CASE chatchannel[c] = NoChat
  BY <1>1 DEF ChattersWithout, CompanyInv
<1>2. CASE chatchannel[c] # NoChat
  <2>1. ChattersWithout(c) = HiddenFrom(chatters, {c}, chatUsers[chatchannel[c]])
    BY <1>2 DEF ChattersWithout
  <2>2. \A d \in Conns : d \in chatUsers[chatchannel[c]] <=> chatchannel[d] = chatchannel[c]
    BY <1>2 DEF ChatInv, ChatTypes, Member
  <2> QED BY <1>2, <2>1, <2>2 DEF HiddenFrom, CompanyInv
<1> QED BY <1>1, <1>2

LEMMA EnteringKeepsCompany ==
  ASSUME ChatInv, CompanyInv, NEW c \in Conns, NEW o \in Chats, NEW registry, NEW info,
         NEW lists, NEW made, EnterChat(c, o, registry, info, lists, made),
         departed' = departed
  PROVE  CompanyInv'
<1> DEFINE others == ChatUsersWithout(c)[o]
           left == ChattersWithout(c)
<1>1. /\ chatchannel' = [chatchannel EXCEPT ![c] = o]
      /\ chatters' = [ShownTo(left, c, others) EXCEPT ![c] = others]
  BY DEF EnterChat
<1>2. others \subseteq Conns /\ \A d \in Conns : d \in others <=> d # c /\ chatchannel[d] = o
  <2>1. others = chatUsers[o] \ {c}
    BY UsersWithout
  <2> QED BY <2>1 DEF ChatInv, ChatTypes, Member
<1>3. /\ left \in [Conns -> SUBSET Conns]
      /\ \A d \in Conns : left[d] = IF chatchannel[c] # NoChat /\ chatchannel[d] = chatchannel[c]
                                    THEN chatters[d] \ {c} ELSE chatters[d]
  BY ChattersWithoutEffect
<1> HIDE DEF others, left
<1>4. chatters' \in [Conns -> SUBSET Conns]
  BY <1>1, <1>2, <1>3 DEF ShownTo
<1>5. ASSUME NEW d \in Conns
      PROVE  /\ chatters'[d] = IF d = c THEN others
                               ELSE IF d \in others THEN left[d] \cup {c} ELSE left[d]
             /\ chatchannel'[d] = IF d = c THEN o ELSE chatchannel[d]
  BY <1>1, <1>3 DEF ShownTo, ChatInv, ChatTypes
<1>6. o # NoChat
  BY ChatsAssumption
<1>7. ASSUME NEW a \in Conns, NEW d \in Conns
      PROVE  Listed(a, d)'
  <2>1. Listed(a, d)
    BY DEF CompanyInv
  <2>2. CASE a = c
    BY <1>2, <1>5, <1>6, <2>2 DEF Listed, Company
  <2>3. CASE a # c /\ d = c
    <3>1. c \in chatters[a] => chatchannel[c] # NoChat /\ chatchannel[a] = chatchannel[c]
      BY <2>1, <2>3 DEF Listed, Company
    <3>2. c \notin left[a]
      BY <1>3, <3>1
    <3> QED BY <1>2, <1>5, <1>6, <2>3, <3>2 DEF Listed, Company
  <2>4. CASE a # c /\ d # c
    <3>1. d \in chatters'[a] <=> d \in chatters[a]
      BY <1>3, <1>5, <2>4
    <3>2. Company(a, d)' <=> Company(a, d)
      BY <1>5, <2>4 DEF Company
    <3> QED BY <2>1, <3>1, <3>2 DEF Listed
  <2> QED BY <2>2, <2>3, <2>4
<1> QED BY <1>4, <1>7 DEF CompanyInv

LEMMA LeavingKeepsCompany ==
  ASSUME ChatInv, CompanyInv, NEW c \in Conns, LeaveChat(c),
         chatters' = [ChattersWithout(c) EXCEPT ![c] = {}],
         \A d \in Conns \ {c} : departed'[d] = departed[d]
  PROVE  CompanyInv'
<1> DEFINE left == ChattersWithout(c)
<1>1. chatchannel' = [chatchannel EXCEPT ![c] = NoChat] /\ chatters' = [left EXCEPT ![c] = {}]
  BY DEF LeaveChat
<1>2. /\ left \in [Conns -> SUBSET Conns]
      /\ \A d \in Conns : left[d] = IF chatchannel[c] # NoChat /\ chatchannel[d] = chatchannel[c]
                                    THEN chatters[d] \ {c} ELSE chatters[d]
  BY ChattersWithoutEffect
<1> HIDE DEF left
<1>3. chatters' \in [Conns -> SUBSET Conns]
  BY <1>1, <1>2
<1>4. ASSUME NEW d \in Conns
      PROVE  /\ chatters'[d] = IF d = c THEN {} ELSE left[d]
             /\ chatchannel'[d] = IF d = c THEN NoChat ELSE chatchannel[d]
  BY <1>1, <1>2 DEF ChatInv, ChatTypes
<1>5. ASSUME NEW a \in Conns, NEW d \in Conns
      PROVE  Listed(a, d)'
  <2>1. Listed(a, d)
    BY DEF CompanyInv
  <2>2. CASE a = c
    BY <1>4, <2>2 DEF Listed, Company
  <2>3. CASE a # c /\ d = c
    <3>1. c \in chatters[a] => chatchannel[c] # NoChat /\ chatchannel[a] = chatchannel[c]
      BY <2>1, <2>3 DEF Listed, Company
    <3>2. c \notin left[a]
      BY <1>2, <3>1
    <3> QED BY <1>4, <2>3, <3>2 DEF Listed, Company
  <2>4. CASE a # c /\ d # c
    <3>1. d \in chatters'[a] <=> d \in chatters[a]
      BY <1>2, <1>4, <2>4
    <3>2. Company(a, d)' <=> Company(a, d)
      BY <1>4, <2>4 DEF Company
    <3>3. departed'[a] = departed[a]
      BY <2>4
    <3> QED BY <2>1, <3>1, <3>2, <3>3 DEF Listed
  <2> QED BY <2>2, <2>3, <2>4
<1> QED BY <1>3, <1>5 DEF CompanyInv

LEMMA LeavingTownKeepsCompany ==
  ASSUME TownInv, ChatInv, CompanyInv, NEW c \in Conns, LeaveTown(c)
  PROVE  CompanyInv'
<1>1. CASE ~InTown(c)
  BY <1>1 DEF LeaveTown, chatVars, CompanyInv, Listed, Company
<1>2. CASE InTown(c)
  <2>1. /\ LeaveChat(c)
        /\ chatters' = [ChattersWithout(c) EXCEPT ![c] = {}]
        /\ departed' = [departed EXCEPT ![c] = {}]
    BY <1>2 DEF LeaveTown
  <2>2. \A d \in Conns \ {c} : departed'[d] = departed[d]
    BY <2>1 DEF TownInv, TownsTypeOK
  <2> QED BY <2>1, <2>2, LeavingKeepsCompany
<1> QED BY <1>1, <1>2

LEMMA JoiningTownKeepsCompany ==
  ASSUME ChatInv, CompanyInv, NEW c \in Conns, NEW ch \in Channels, JoinGameChannel(c, ch)
  PROVE  CompanyInv'
<1> DEFINE o == chatChannels[ch][MainChat]
           lists == [chatList EXCEPT ![c] = Registered(chatChannels, ch)]
<1>1. EnterChat(c, o, chatChannels, chatInfo, lists, chatMade) /\ departed' = departed
  BY DEF JoinGameChannel
<1>2. o \in Chats
  <2>1. MainChat \in Names /\ MainChat \in DefaultChats
    BY ChatsAssumption DEF Names
  <2>2. o = << ch, MainChat >>
    BY <2>1 DEF ChatInv, Registers
  <2> QED BY <2>1, <2>2, DefaultObjects
<1> HIDE DEF o, lists
<1> QED BY <1>1, <1>2, EnteringKeepsCompany

LEMMA PickingKeepsCompany ==
  ASSUME ChatInv, CompanyInv, NEW c \in Conns, NEW n \in Names, NEW pw \in Passwords,
         JoinChat(c, n, pw)
  PROVE  CompanyInv'
<1> DEFINE o == chatChannels[gamechannel[c]][n]
<1>1. InTown(c) /\ o # NoChat /\ departed' = departed
  BY DEF JoinChat, Busy, townVars
<1>2. EnterChat(c, o, chatChannels, chatInfo, chatList, chatMade)
  BY DEF JoinChat
<1>3. o \in Chats
  BY <1>1 DEF InTown, ChatInv, ChatTypes
<1> HIDE DEF o
<1> QED BY <1>1, <1>2, <1>3, EnteringKeepsCompany

LEMMA CreatingKeepsCompany ==
  ASSUME ChatInv, CompanyInv, NEW c \in Conns, NEW n \in ChatNames, NEW pw \in Passwords,
         CreateChat(c, n, pw)
  PROVE  CompanyInv'
<1> DEFINE ch == gamechannel[c]
<1>1. departed' = departed
  BY DEF CreateChat, townVars
<1>2. PICK o \in FreeObjs :
        EnterChat(c, o, [chatChannels EXCEPT ![ch][n] = o],
                  [chatInfo EXCEPT ![o] = [parent |-> ch, name |-> n, password |-> pw]],
                  ShownTo(chatList, n, userlist[ch] \ {c}), ShownTo(chatMade, n, {c}))
  BY DEF CreateChat
<1> DEFINE registry == [chatChannels EXCEPT ![ch][n] = o]
           info == [chatInfo EXCEPT ![o] = [parent |-> ch, name |-> n, password |-> pw]]
           lists == ShownTo(chatList, n, userlist[ch] \ {c})
           made == ShownTo(chatMade, n, {c})
<1>3. EnterChat(c, o, registry, info, lists, made) /\ o \in Chats
  BY <1>2, FreeObject
<1> HIDE DEF registry, info, lists, made
<1> QED BY <1>1, <1>3, EnteringKeepsCompany

(* The players of a starting game leave the member lists of the others and *)
(* are known to have departed.                                             *)
LEMMA StartingKeepsCompany ==
  ASSUME TownInv, CompanyInv, NEW c \in Conns, StartingGame(c)
  PROVE  CompanyInv'
<1> DEFINE g  == games[game[c][1]][game[c][2]]
           to == Outsiders(g, game[c][1])
           P  == Playing(g)
<1>1. /\ chatters' = HiddenFrom(chatters, P, to)
      /\ departed' = [d \in Conns |-> IF d \in to THEN departed[d] \cup P ELSE departed[d]]
      /\ chatchannel' = chatchannel
  BY DEF StartingGame
<1> HIDE DEF g, to, P
<1>2. ASSUME NEW a \in Conns, NEW d \in Conns
      PROVE  Listed(a, d)'
  <2>1. Listed(a, d)
    BY DEF CompanyInv
  <2>2. Company(a, d)' <=> Company(a, d)
    BY <1>1 DEF Company
  <2> QED BY <1>1, <2>1, <2>2 DEF Listed, HiddenFrom
<1>3. chatters' \in [Conns -> SUBSET Conns]
  BY <1>1 DEF HiddenFrom, CompanyInv
<1> QED BY <1>2, <1>3 DEF CompanyInv

LEMMA GameStepKeepsChatters ==
  ASSUME NEW c \in Conns, GameStep(c), ~StartingGame(c)
  PROVE  UNCHANGED chatters
<1>1. \A n \in GameNames : RequestCreateGame(c, n) => UNCHANGED chatVars
  BY DEF RequestCreateGame
<1>2. \A n \in GameNames, pw \in Passwords, npj \in CreateNpj, st \in CreateStatus,
         mx \in MaxPlayers : CreateGame(c, n, pw, npj, st, mx) => UNCHANGED chatVars
  BY DEF CreateGame
<1>3. \A n \in GameNames : CreateGameFails(c, n) => UNCHANGED chatVars
  BY DEF CreateGameFails
<1>4. \A n \in GameNames, pw \in Passwords : JoinGame(c, n, pw) => UNCHANGED chatVars
  BY DEF JoinGame
<1>5. StopGame(c) => UNCHANGED chatVars
  BY DEF StopGame
<1> QED BY <1>1, <1>2, <1>3, <1>4, <1>5 DEF GameStep, chatVars

LEMMA NextCompany == TownInv /\ ChatInv /\ CompanyInv /\ [Next]_vars => CompanyInv'
<1> SUFFICES ASSUME TownInv, ChatInv, CompanyInv, [Next]_vars PROVE CompanyInv'
  OBVIOUS
<1>1. UNCHANGED << chatchannel, chatters, departed >> => CompanyInv'
  BY DEF CompanyInv, Listed, Company
<1>2. CASE UNCHANGED vars \/ UpdatePos
  BY <1>1, <1>2 DEF vars, townVars, chatVars, UpdatePos
<1>3. ASSUME NEW c \in Conns, TownStep(c)
      PROVE  CompanyInv'
  <2>1. CASE Disconnect(c) \/ LeaveGameChannel(c) \/ \E ch \in Channels : RequestJoin(c, ch)
    BY <2>1, LeavingTownKeepsCompany DEF Disconnect, LeaveGameChannel, RequestJoin
  <2>2. CASE \/ Login(c)
             \/ \E blob \in HeroBlobs : SetUserHeroData(c, blob)
             \/ UpdateHeroPos(c)
    BY <1>1, <2>2 DEF Login, SetUserHeroData, UpdateHeroPos, chatVars
  <2> QED BY <1>3, <2>1, <2>2, JoiningTownKeepsCompany DEF TownStep
<1>4. ASSUME NEW c \in Conns, ChatStep(c)
      PROVE  CompanyInv'
  <2>1. CASE LeaveChatChannel(c)
    <3>1. /\ LeaveChat(c) /\ departed' = departed
          /\ chatters' = [ChattersWithout(c) EXCEPT ![c] = {}]
      BY <2>1 DEF LeaveChatChannel, townVars
    <3> QED BY <3>1, LeavingKeepsCompany
  <2> QED BY <1>4, <2>1, PickingKeepsCompany, CreatingKeepsCompany DEF ChatStep
<1>5. ASSUME NEW c \in Conns, GameStep(c)
      PROVE  CompanyInv'
  <2>1. CASE StartingGame(c)
    BY <2>1, StartingKeepsCompany
  <2>2. CASE ~StartingGame(c)
    BY <1>1, <1>5, <2>2, GameStepKeepsChats, GameStepKeepsChatters, GameStepKeepsFigures
  <2> QED BY <2>1, <2>2
<1> QED BY <1>2, <1>3, <1>4, <1>5 DEF Next

LEMMA CompanyInvHolds == Spec => []CompanyInv
<1>1. Init => CompanyInv
  BY DEF Init, ChatsInit, CompanyInv, Listed, Company
<1> QED BY <1>1, InitTownInv, NextTownInv, ChatInvHolds, NextCompany, PTL DEF Spec

(* Whoever enters, changes, creates or leaves a chat or the town: a client *)
(* lists members of its chat only, and all of them but the players it saw  *)
(* leave into a running game (ChatChannel.join and remove, startingGame).  *)
THEOREM ChattersTheorem == Spec => []ChattersMatch
BY ChatInvHolds, CompanyInvHolds, CompanyInvImplies, PTL
=============================================================================
