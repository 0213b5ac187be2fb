------------------------------- MODULE Towns -------------------------------
(***************************************************************************)
(* The towns of the lobby (class GameChannel of tw1mp/lobby.py) and the    *)
(* part of every login's User record that says where the player is: the    *)
(* request queue of a town, its members, the heroes drawn at each client   *)
(* and the positions waiting for the next service tick.                    *)
(*                                                                         *)
(* This module holds the state and the operators on it; module Lobby puts  *)
(* towns, chats and games together and has the command handlers.           *)
(***************************************************************************)
EXTENDS Naturals, FiniteSets

CONSTANTS
  Conns,       \* ConnectionHandler objects; a login that ended is never reused
  Channels,    \* the towns, one GameChannel each
  NoChannel,   \* None
  MaxUser      \* config.max_channel_users

ASSUME TownsAssumption ==
  /\ IsFiniteSet(Conns)
  /\ NoChannel \notin Channels
  /\ MaxUser \in Nat \ {0}

VARIABLES
  status,           \* life of each connection: new, online, failed, gone
  gamechannel,      \* user.gamechannel: the town the player is in
  requestedChannel, \* user.requestedChannel: the town asked for
  herodata,         \* user.herodata is non-empty
  poschanged,       \* user.poschanged
  userlist,         \* channel.userlist
  requested,        \* channel.requested
  dirty,            \* channel.dirty
  heroes,           \* client side: the figures drawn at each client
  departed          \* client side: players taken off the lists by a game start

townVars == << status, gamechannel, requestedChannel, herodata, poschanged,
               userlist, requested, dirty, heroes, departed >>

TownsTypeOK ==
  /\ status \in [Conns -> {"new", "online", "failed", "gone"}]
  /\ gamechannel \in [Conns -> Channels \cup {NoChannel}]
  /\ requestedChannel \in [Conns -> Channels \cup {NoChannel}]
  /\ herodata \in [Conns -> BOOLEAN]
  /\ poschanged \in [Conns -> BOOLEAN]
  /\ userlist \in [Channels -> SUBSET Conns]
  /\ requested \in [Channels -> SUBSET Conns]
  /\ dirty \in [Channels -> BOOLEAN]
  /\ heroes \in [Conns -> SUBSET Conns]
  /\ departed \in [Conns -> SUBSET Conns]

TownsInit ==
  /\ status = [c \in Conns |-> "new"]
  /\ gamechannel = [c \in Conns |-> NoChannel]
  /\ requestedChannel = [c \in Conns |-> NoChannel]
  /\ herodata = [c \in Conns |-> FALSE]
  /\ poschanged = [c \in Conns |-> FALSE]
  /\ userlist = [ch \in Channels |-> {}]
  /\ requested = [ch \in Channels |-> {}]
  /\ dirty = [ch \in Channels |-> FALSE]
  /\ heroes = [c \in Conns |-> {}]
  /\ departed = [c \in Conns |-> {}]

InTown(c) == gamechannel[c] # NoChannel

(* The handler of a logged-in connection runs; it is in a town in most.    *)
Online(c) == status[c] = "online"

Busy(c) == Online(c) /\ InTown(c)

(* Mutant: the queue of the town asked for is never left.                  *)
RequestedKept(c) == requested

(* GameChannel.dropRequest, called for the town c has asked for.           *)
RequestedWithout(c) ==
  IF requestedChannel[c] = NoChannel THEN requested
  ELSE [requested EXCEPT ![requestedChannel[c]] = @ \ {c}]

(* Mutant: promised places are not counted.                                *)
HasRoomForMembers(members, queue) == Cardinality(members) < MaxUser

(* The "len(userlist) + len(requested) < maxuser" test of requestJoin, on  *)
(* the lists as they are once c has left its town and its queue.           *)
HasRoom(members, queue) == Cardinality(members) + Cardinality(queue) < MaxUser

(* Mutant: the message is not sent.                                        *)
HiddenFromNobody(lists, gone, to) == lists

(* Figures: lists[d] gains c at every client of `to` ($gamechanneluser).   *)
ShownTo(lists, c, to) ==
  [d \in Conns |-> IF d \in to THEN lists[d] \cup {c} ELSE lists[d]]

(* ... and loses the players of `gone` (&gamechanneluser).                 *)
HiddenFrom(lists, gone, to) ==
  [d \in Conns |-> IF d \in to THEN lists[d] \ gone ELSE lists[d]]

(* Mutant: dirty is reset and nobody announced.                            *)
NoMovers(ch) == {}

(* GameChannel.updatePos: who is announced when the tick finds ch dirty.   *)
Movers(ch) == {c \in userlist[ch] : dirty[ch] /\ poschanged[c]}
=============================================================================
