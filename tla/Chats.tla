------------------------------- MODULE Chats -------------------------------
(***************************************************************************)
(* The chat channels of the towns (class ChatChannel, and the joinChat     *)
(* method of GameChannel, tw1mp/lobby.py).  A town registers chats by      *)
(* name; a chat is an object of its own, and members hold the object, not  *)
(* the name.  The two can disagree: that is what the properties are about. *)
(***************************************************************************)
EXTENDS Towns

CONSTANTS
  DefaultChats,  \* DEFAULT_CHATS
  MainChat,      \* DEFAULT_CHATS[0], joined on arrival in a town
  ChatNames,     \* names players may give to chats of their own
  ChatObjs,      \* the player-made ChatChannel objects alive at one time
  NoChat,        \* None
  Passwords,     \* chat and game passwords
  NoPassword,    \* the empty password
  MaxChat        \* MAX_CHAT_CHANNELS

Names == DefaultChats \cup ChatNames
Chats == (Channels \X DefaultChats) \cup ChatObjs

ASSUME ChatsAssumption ==
  /\ MainChat \in DefaultChats
  /\ DefaultChats \cap ChatNames = {}
  /\ NoChat \notin Chats
  /\ (Channels \X DefaultChats) \cap ChatObjs = {}
  /\ NoPassword \in Passwords
  /\ MaxChat \in Nat

VARIABLES
  chatchannel,   \* user.chatchannel
  chatUsers,     \* chat.userlist
  chatInfo,      \* chat.parent, chat.name, chat.password
  chatChannels,  \* channel.chatChannels: name -> object
  chatters,      \* client side: the members listed for the client's own chat
  chatList,      \* client side: the chats listed for the client's town
  chatMade       \* client side: the chats of the town that the client knows of
                 \* only from the answer to its own creation

chatVars == << chatchannel, chatUsers, chatInfo, chatChannels, chatters,
               chatList, chatMade >>

(* A ChatChannel not in use; objects no one can reach return to this.      *)
Unused == [parent |-> NoChannel, name |-> MainChat, password |-> NoPassword]

ChatInfo == [parent : Channels \cup {NoChannel}, name : Names, password : Passwords]

ChatsTypeOK ==
  /\ chatchannel \in [Conns -> Chats \cup {NoChat}]
  /\ chatUsers \in [Chats -> SUBSET Conns]
  /\ chatInfo \in [Chats -> ChatInfo]
  /\ chatChannels \in [Channels -> [Names -> Chats \cup {NoChat}]]
  /\ chatters \in [Conns -> SUBSET Conns]
  /\ chatList \in [Conns -> SUBSET Names]
  /\ chatMade \in [Conns -> SUBSET Names]

ChatsInit ==
  /\ chatchannel = [c \in Conns |-> NoChat]
  /\ chatUsers = [o \in Chats |-> {}]
  /\ chatInfo = [o \in Chats |->
       IF o \in ChatObjs THEN Unused
       ELSE [parent |-> o[1], name |-> o[2], password |-> NoPassword]]
  /\ chatChannels = [ch \in Channels |->
       [n \in Names |-> IF n \in DefaultChats THEN << ch, n >> ELSE NoChat]]
  /\ chatters = [c \in Conns |-> {}]
  /\ chatList = [c \in Conns |-> {}]
  /\ chatMade = [c \in Conns |-> {}]

Registered(registry, ch) == {n \in Names : registry[ch][n] # NoChat}

ChatRoom(ch) == Cardinality(Registered(chatChannels, ch)) < MaxChat

FreeObjs == {o \in ChatObjs : chatInfo[o] = Unused}

(* Mutants of leaving a chat: the member stays on the list; a chat goes    *)
(* with any member; the town's clients or the chat's members are not told. *)
ChatUsersKept(c) == chatUsers

EmptiesAlways(c) ==
  chatchannel[c] # NoChat /\ chatInfo[chatchannel[c]].name \notin DefaultChats

ChatListKept(lists, c) == lists

ChattersKept(c) == chatters

(***************************************************************************)
(* ChatChannel.remove for c's chat, as a change of each variable.  The     *)
(* last member of a player-made chat unregisters its NAME, whichever       *)
(* object the name stands for by then.  `registry` is chatChannels, and    *)
(* `lists` chatList or chatMade, as the handler has left them so far.      *)
(***************************************************************************)
ChatUsersWithout(c) ==
  IF chatchannel[c] = NoChat THEN chatUsers
  ELSE [chatUsers EXCEPT ![chatchannel[c]] = @ \ {c}]

Empties(c) ==
  /\ chatchannel[c] # NoChat
  /\ chatUsers[chatchannel[c]] \subseteq {c}
  /\ chatInfo[chatchannel[c]].name \notin DefaultChats

ChatChannelsWithout(registry, c) ==
  IF ~Empties(c) THEN registry
  ELSE LET old == chatInfo[chatchannel[c]]
       IN  [registry EXCEPT ![old.parent][old.name] = NoChat]

ChatListWithout(lists, c) ==
  IF ~Empties(c) THEN lists
  ELSE LET old == chatInfo[chatchannel[c]]
       IN  HiddenFrom(lists, {old.name}, userlist[old.parent])

ChattersWithout(c) ==
  IF chatchannel[c] = NoChat THEN chatters
  ELSE HiddenFrom(chatters, {c}, chatUsers[chatchannel[c]])

(* An object without members is unreachable once its name is gone.         *)
Collected(info, users) ==
  [o \in Chats |-> IF o \in ChatObjs /\ users[o] = {} THEN Unused ELSE info[o]]

(***************************************************************************)
(* ChatChannel.join: c leaves its chat, is announced to the members of o,  *)
(* becomes one and is told who they are.  `registry`, `info`, `lists` and  *)
(* `made` carry a chat that joinChat has just created.                     *)
(***************************************************************************)
EnterChat(c, o, registry, info, lists, made) ==
  LET left == ChatUsersWithout(c)
      others == left[o]
  IN  /\ chatUsers' = [left EXCEPT ![o] = others \cup {c}]
      /\ chatchannel' = [chatchannel EXCEPT ![c] = o]
      /\ chatChannels' = ChatChannelsWithout(registry, c)
      /\ chatInfo' = Collected(info, chatUsers')
      /\ chatters' = [ShownTo(ChattersWithout(c), c, others) EXCEPT ![c] = others]
      /\ chatList' = ChatListWithout(lists, c)
      /\ chatMade' = ChatListWithout(made, c)

(* User.leaveChat as a handler of its own or as part of leaving the town.  *)
LeaveChat(c) ==
  /\ chatUsers' = ChatUsersWithout(c)
  /\ chatchannel' = [chatchannel EXCEPT ![c] = NoChat]
  /\ chatChannels' = ChatChannelsWithout(chatChannels, c)
  /\ chatInfo' = Collected(chatInfo, chatUsers')
=============================================================================
