------------------------- MODULE PeerThreadsProofs -------------------------
(***************************************************************************)
(* For every length of the queue and every number of payloads: no thread   *)
(* of an object outlives a close by the game's thread or the destructor,   *)
(* also when the handler has closed the object before or is closing it.    *)
(***************************************************************************)
EXTENDS PeerThreads, TLAPS, SequenceTheorems, FiniteSetTheorems,
        WellFoundedInduction

(* A thread that was waited for has ended; the handler runs on the worker  *)
(* only and never destroys the object.                                     *)
ThreadsKnown ==
  /\ ~thread => worker \in {"none", "ended"}
  /\ ~netThread => net \in {"none", "ended"}
  /\ worker # "handler" => call["handler"] = Idle
  /\ call["handler"].op # "Release"

(* What a close has done by each of its stages.                            *)
StagesDone ==
  /\ call["game"].at \in {"farewell", "stopWorker", "join", "free"} => ~netThread
  /\ call["game"].at = "free" => ~thread
  /\ life = "new" => call["game"] = Idle
  /\ life \in {"quiet", "gone"} => ~thread /\ ~netThread

CallShape == call = [c \in Callers |-> call[c]]

ThreadInv == CallShape /\ ThreadsKnown /\ StagesDone

LEMMA ThreadInvImplies == ThreadInv => ThreadsEnd
BY DEF ThreadInv, ThreadsKnown, StagesDone, ThreadsEnd

(* The two callers, and how a call moves on.                               *)
LEMMA GoEffect ==
  ASSUME CallShape, NEW c \in Callers, NEW op, NEW stage,
         Go(c, op, stage)
  PROVE  /\ CallShape'
         /\ call'[c] = [op |-> op, at |-> stage]
         /\ \A d \in Callers \ {c} : call'[d] = call[d]
BY DEF Go, CallShape

LEMMA ReturnEffect ==
  ASSUME CallShape, NEW c \in Callers, Return(c)
  PROVE  /\ CallShape'
         /\ call'[c] = Idle
         /\ \A d \in Callers \ {c} : call'[d] = call[d]
BY DEF Return, CallShape, Idle

LEMMA InitThreadInv == Init => ThreadInv
BY DEF Init, ThreadInv, CallShape, ThreadsKnown, StagesDone, Idle, Callers

-----------------------------------------------------------------------------
LEMMA OpeningKeeps ==
  ASSUME ThreadInv, Initialize \/ HostGame \/ EnumHosts \/ Connect
  PROVE  ThreadInv'
<1> USE DEF ThreadInv, CallShape, ThreadsKnown, StagesDone, netVars, workerVars, Idle
<1>1. CASE Initialize
  BY <1>1 DEF Initialize, StartWorker
<1>2. CASE HostGame
  BY <1>2 DEF HostGame, StartNet
<1>3. CASE EnumHosts
  BY <1>3 DEF EnumHosts
<1>4. CASE Connect
  BY <1>4 DEF Connect, StartNet
<1> QED BY <1>1, <1>2, <1>3, <1>4

(* A thread that has ended does nothing more.                              *)
LEMMA NetLoopKeeps ==
  ASSUME ThreadInv, NetLoop
  PROVE  ThreadInv'
<1>1. UNCHANGED << life, worker, thread, netThread, call >>
  BY DEF NetLoop, workerVars
<1>2. net \in {"top", "maintain", "packet"}
  BY DEF NetLoop, NetTop, Maintain, HandlePacket
<1>3. netThread
  BY <1>2 DEF ThreadInv, ThreadsKnown
<1> QED BY <1>1, <1>3 DEF ThreadInv, CallShape, ThreadsKnown, StagesDone

LEMMA WorkerLoopKeeps ==
  ASSUME ThreadInv, WorkerLoop
  PROVE  ThreadInv'
<1>1. UNCHANGED << life, thread, net, netThread, call >>
  BY DEF WorkerLoop, netVars
<1>2. /\ worker \in {"wait", "drain", "check", "handler", "keep"}
      /\ worker = "handler" => call["handler"] = Idle
  BY DEF WorkerLoop, WorkerWakes, QueueEmpty, LooksAtStop, Dispatch,
         HandlerKeeps, HandlerDone, Keep
<1>3. thread /\ call["handler"] = Idle
  BY <1>2 DEF ThreadInv, ThreadsKnown
<1> QED BY <1>1, <1>3 DEF ThreadInv, CallShape, ThreadsKnown, StagesDone

(* What the game does in a call of another kind, or to begin a close.      *)
LEMMA CallingKeeps ==
  ASSUME ThreadInv, NEW c \in Callers,
         \/ \E async \in BOOLEAN : SendTo(c, async)
         \/ Loopback(c) \/ Close(c)
         \/ \E h \in Handles : ReturnBuffer(c, h)
  PROVE  ThreadInv'
<1>1. UNCHANGED << life, worker, thread, net, netThread >>
  BY DEF SendTo, Loopback, Close, ReturnBuffer, workerVars, netVars
<1>2. \/ UNCHANGED call
      \/ /\ life \notin {"new", "quiet", "gone"}
         /\ c = "handler" => worker = "handler"
         /\ Go(c, "SendTo", "loopback") \/ Go(c, "Close", "stopNet")
      \/ Return(c)
  BY DEF SendTo, Loopback, Close, ReturnBuffer, MayCall
<1>3. CASE UNCHANGED call
  BY <1>1, <1>3 DEF ThreadInv, CallShape, ThreadsKnown, StagesDone
<1>4. CASE /\ life \notin {"new", "quiet", "gone"}
           /\ c = "handler" => worker = "handler"
           /\ Go(c, "SendTo", "loopback") \/ Go(c, "Close", "stopNet")
  <2>1. PICK op \in {"SendTo", "Close"}, stage \in {"loopback", "stopNet"} : Go(c, op, stage)
    BY <1>4
  <2>2. /\ CallShape'
        /\ call'[c] = [op |-> op, at |-> stage]
        /\ \A d \in Callers \ {c} : call'[d] = call[d]
    BY <2>1, GoEffect DEF ThreadInv
  <2> QED BY <1>1, <1>4, <2>2 DEF ThreadInv, ThreadsKnown, StagesDone, Callers
<1>5. CASE Return(c)
  <2>1. /\ CallShape'
        /\ call'[c] = Idle
        /\ \A d \in Callers \ {c} : call'[d] = call[d]
    BY <1>5, ReturnEffect DEF ThreadInv
  <2> QED BY <1>1, <2>1 DEF ThreadInv, ThreadsKnown, StagesDone, Callers, Idle
<1> QED BY <1>2, <1>3, <1>4, <1>5

LEMMA ReleaseKeeps ==
  ASSUME ThreadInv, Release
  PROVE  ThreadInv'
<1>1. /\ life \in {"ready", "open", "closed", "quiet"}
      /\ Go("game", "Release", "stopNet")
      /\ UNCHANGED << life, worker, thread, net, netThread >>
  BY DEF Release, workerVars, netVars
<1>2. /\ CallShape'
      /\ call'["game"] = [op |-> "Release", at |-> "stopNet"]
      /\ call'["handler"] = call["handler"]
  BY <1>1, GoEffect DEF ThreadInv, Callers
<1> QED BY <1>1, <1>2 DEF ThreadInv, ThreadsKnown, StagesDone

-----------------------------------------------------------------------------
(* A call under way goes on to its next stage; a thread it waited for may  *)
(* have ended, none begins.                                                *)
LEMMA GoKeeps ==
  ASSUME ThreadInv, NEW c \in Callers, NEW stage,
         call[c] # Idle, Go(c, call[c].op, stage),
         UNCHANGED << life, worker, net >>,
         thread' => thread, netThread' => netThread,
         ~thread' => worker \in {"none", "ended"},
         ~netThread' => net \in {"none", "ended"},
         c = "game" /\ stage \in {"farewell", "stopWorker", "join", "free"} => ~netThread',
         c = "game" /\ stage = "free" => ~thread'
  PROVE  ThreadInv'
<1>1. /\ CallShape'
      /\ call'[c] = [op |-> call[c].op, at |-> stage]
      /\ \A d \in Callers \ {c} : call'[d] = call[d]
  BY GoEffect DEF ThreadInv
<1>2. ThreadsKnown'
  <2>1. CASE c = "handler"
    BY <1>1, <2>1 DEF ThreadInv, ThreadsKnown
  <2>2. CASE c = "game"
    BY <1>1, <2>2 DEF ThreadInv, ThreadsKnown, Callers
  <2> QED BY <2>1, <2>2 DEF Callers
<1>3. StagesDone'
  <2>1. CASE c = "handler"
    BY <1>1, <2>1 DEF ThreadInv, StagesDone, Callers
  <2>2. CASE c = "game"
    BY <1>1, <2>2 DEF ThreadInv, StagesDone
  <2> QED BY <2>1, <2>2 DEF Callers
<1> QED BY <1>1, <1>2, <1>3 DEF ThreadInv

(* The stages of Close and of the destructor.                              *)
LEMMA StageKeeps ==
  ASSUME ThreadInv, NEW c \in Callers,
         StopNet(c) \/ WaitNet(c) \/ Farewell(c) \/ StopWorker(c) \/ Join(c)
  PROVE  ThreadInv'
<1>1. call[c] # Idle
  BY DEF Idle, StopNet, WaitNet, Farewell, StopWorker, Join
<1>2. /\ ~thread => worker \in {"none", "ended"}
      /\ ~netThread => net \in {"none", "ended"}
  BY DEF ThreadInv, ThreadsKnown
<1>3. c = "game" /\ call[c].at \in {"farewell", "stopWorker", "join"} => ~netThread
  BY DEF ThreadInv, StagesDone
<1>4. AfterNet(call[c].op) \in {"farewell", "stopWorker"}
  BY DEF AfterNet
<1>5. CASE StopNet(c)
  <2>1. UNCHANGED << life, worker, thread, net, netThread >>
    BY <1>5 DEF StopNet, workerVars
  <2>2. PICK stage \in {"waitNet", "farewell", "stopWorker"} :
          Go(c, call[c].op, stage) /\ (netThread => stage = "waitNet")
    BY <1>4, <1>5 DEF StopNet
  <2> QED BY <1>1, <1>2, <2>1, <2>2, GoKeeps
<1>6. CASE WaitNet(c)
  <2>1. UNCHANGED << life, worker, thread, net >> /\ net = "ended" /\ ~netThread'
    BY <1>6 DEF WaitNet, workerVars
  <2>2. PICK stage \in {"farewell", "stopWorker"} : Go(c, call[c].op, stage)
    BY <1>4, <1>6 DEF WaitNet
  <2> QED BY <1>1, <1>2, <2>1, <2>2, GoKeeps
<1>7. CASE Farewell(c)
  <2>1. /\ UNCHANGED << life, worker, thread, net, netThread >>
        /\ call[c].at = "farewell" /\ Go(c, call[c].op, "stopWorker")
    BY <1>7 DEF Farewell, workerVars, netVars
  <2> QED BY <1>1, <1>2, <1>3, <2>1, GoKeeps
<1>8. CASE StopWorker(c)
  <2>1. /\ UNCHANGED << life, worker, thread, net, netThread >>
        /\ call[c].at = "stopWorker"
    BY <1>8 DEF StopWorker, netVars
  <2>2. PICK stage \in {"join", "free"} :
          Go(c, call[c].op, stage) /\ (c = "game" /\ stage = "free" => ~thread)
    BY <1>8 DEF StopWorker, Joins
  <2> QED BY <1>1, <1>2, <1>3, <2>1, <2>2, GoKeeps
<1>9. CASE Join(c)
  <2>1. /\ UNCHANGED << life, worker, net, netThread >> /\ worker = "ended" /\ ~thread'
        /\ call[c].at = "join" /\ Go(c, call[c].op, "free")
    BY <1>9 DEF Join, netVars
  <2> QED BY <1>1, <1>2, <1>3, <2>1, GoKeeps
<1> QED BY <1>5, <1>6, <1>7, <1>8, <1>9

(* The call returns; from the game's thread both threads have ended.       *)
LEMMA CallEndsKeeps ==
  ASSUME ThreadInv, NEW c \in Callers, CallEnds(c)
  PROVE  ThreadInv'
<1>1. /\ call[c].at = "free" /\ Return(c)
      /\ life' = IF call[c].op = "Release" THEN "gone"
                 ELSE IF c = "game" THEN "quiet"
                 ELSE IF life = "open" THEN "closed" ELSE life
      /\ UNCHANGED << worker, thread, net, netThread >>
  BY DEF CallEnds, workerVars, netVars
<1>2. /\ CallShape'
      /\ call'[c] = Idle
      /\ \A d \in Callers \ {c} : call'[d] = call[d]
  BY <1>1, ReturnEffect DEF ThreadInv
<1>3. CASE c = "game"
  BY <1>1, <1>2, <1>3 DEF ThreadInv, ThreadsKnown, StagesDone, Callers, Idle
<1>4. CASE c = "handler"
  BY <1>1, <1>2, <1>4 DEF ThreadInv, ThreadsKnown, StagesDone, Callers, Idle
<1> QED BY <1>3, <1>4 DEF Callers

LEMMA CreateObjectKeeps ==
  ASSUME ThreadInv, CreateObject
  PROVE  ThreadInv'
BY DEF CreateObject, ThreadInv, CallShape, ThreadsKnown, StagesDone, Idle, Callers

LEMMA NextThreadInv == ThreadInv /\ [Next]_vars => ThreadInv'
<1> SUFFICES ASSUME ThreadInv, [Next]_vars PROVE ThreadInv'
  OBVIOUS
<1>1. CASE UNCHANGED vars
  BY <1>1 DEF vars, netVars, workerVars, ThreadInv, CallShape, ThreadsKnown, StagesDone
<1>2. ASSUME NEW c \in Callers, Closes(c)
      PROVE  ThreadInv'
  BY <1>2, StageKeeps, CallEndsKeeps DEF Closes
<1>3. ASSUME Next
      PROVE  ThreadInv'
  BY <1>2, <1>3, OpeningKeeps, NetLoopKeeps, WorkerLoopKeeps, CallingKeeps, ReleaseKeeps,
     CreateObjectKeeps DEF Next
<1> QED BY <1>1, <1>3

(* When Close has returned to the game's thread, or the object is gone,    *)
(* no thread of it runs and no handler is called, in whichever order the   *)
(* handler and the game's thread close and destroy (StopNet, StopWorker).  *)
THEOREM ThreadsEndTheorem == Spec => []ThreadsEnd
BY InitThreadInv, NextThreadInv, ThreadInvImplies, PTL DEF Spec

-----------------------------------------------------------------------------
(***************************************************************************)
(* What the game is told of the players.  First, how far a close has got   *)
(* and what that means for the net thread, which makes the announcements.  *)
(***************************************************************************)
Stages == {"stopNet", "waitNet", "farewell", "stopWorker", "join", "free"}
NetIsOver(c) == call[c].at \in {"farewell", "stopWorker", "join", "free"}

CallKnown(c) ==
  /\ call[c].at \in Stages => call[c].op \in {"Close", "Release"}
  /\ call[c].at = "farewell" => call[c].op = "Close"
  /\ call[c].op = "Close" => life = "open"
  /\ NetIsOver(c) => ~netThread

LifeKnown ==
  /\ ~(call["game"].op = "Close" /\ call["handler"].op = "Close")
  /\ life \in {"new", "ready"} => ~netThread /\ ~hasPeer /\ localDpnid = 0 /\ ~isHost
  /\ life \in {"closed", "quiet", "gone"} => ~netThread

(* A host is player 1, a joiner that found its host player 2.              *)
PlayersKnown ==
  IF isHost THEN localDpnid = 1
            ELSE localDpnid \in {0, 2} /\ (hasPeer => localDpnid = 2)

CallInv == (\A c \in Callers : CallKnown(c)) /\ LifeKnown /\ PlayersKnown

LEMMA InitCallInv == Init => CallInv
BY DEF Init, CallInv, CallKnown, LifeKnown, PlayersKnown, NetIsOver, Stages, Idle, Callers

LEMMA OpeningCalls ==
  ASSUME ThreadInv, CallInv, Initialize \/ HostGame \/ EnumHosts \/ Connect
  PROVE  CallInv'
<1> USE DEF CallInv, CallKnown, LifeKnown, PlayersKnown, NetIsOver
<1>1. CASE Initialize
  BY <1>1 DEF Initialize, netVars
<1>2. \A c \in Callers : life # "open" => call[c].op # "Close"
  OBVIOUS
<1>3. life = "ready" /\ call["game"] = Idle => \A c \in Callers : ~NetIsOver(c)
  BY DEF Idle, Callers, Stages, ThreadInv, ThreadsKnown
<1>4. CASE HostGame \/ Connect
  <2>1. /\ life = "ready" /\ call["game"] = Idle /\ life' = "open"
        /\ UNCHANGED << hasPeer, call >>
        /\ \/ isHost' = TRUE /\ localDpnid' = 1
           \/ UNCHANGED << isHost, localDpnid >>
    BY <1>4 DEF HostGame, Connect
  <2> QED BY <2>1, <1>2, <1>3 DEF Idle
<1>5. CASE EnumHosts
  BY <1>5 DEF EnumHosts, netVars
<1> QED BY <1>1, <1>4, <1>5

LEMMA LoopsCalls ==
  ASSUME ThreadInv, CallInv, NetLoop \/ WorkerLoop
  PROVE  CallInv'
<1> USE DEF CallInv, CallKnown, LifeKnown, PlayersKnown, NetIsOver
<1>1. CASE WorkerLoop
  BY <1>1 DEF WorkerLoop, netVars
<1>2. CASE NetLoop
  <2>1. UNCHANGED << life, isHost, netThread, call >> /\ netThread
    <3>1. net \in {"top", "maintain", "packet"}
      BY <1>2 DEF NetLoop, NetTop, Maintain, HandlePacket
    <3> QED BY <1>2, <3>1 DEF NetLoop, ThreadInv, ThreadsKnown
  <2>2. life \notin {"new", "ready"}
    BY <2>1
  <2>3. \/ hasPeer' = FALSE /\ UNCHANGED localDpnid
        \/ UNCHANGED << hasPeer, localDpnid >>
        \/ hasPeer' = TRUE /\ localDpnid' = IF isHost THEN localDpnid ELSE 2
    BY <1>2 DEF NetLoop, NetTop, Maintain, HandlePacket, DropPeer, PeerArrives
  <2> QED BY <2>1, <2>2, <2>3
<1> QED BY <1>1, <1>2

LEMMA CallingCalls ==
  ASSUME ThreadInv, CallInv, NEW c \in Callers,
         \/ \E async \in BOOLEAN : SendTo(c, async)
         \/ Loopback(c) \/ Close(c) \/ (c = "game" /\ Release)
         \/ \E h \in Handles : ReturnBuffer(c, h)
  PROVE  CallInv'
<1>1. UNCHANGED << life, isHost, localDpnid, hasPeer, netThread >>
  BY DEF SendTo, Loopback, Close, ReturnBuffer, Release, netVars
<1>2. \/ UNCHANGED call
      \/ Go(c, "SendTo", "loopback")
      \/ life = "open" /\ ~Closing /\ Go(c, "Close", "stopNet")
      \/ Go(c, "Release", "stopNet")
      \/ Return(c)
  BY DEF SendTo, Loopback, Close, ReturnBuffer, Release
<1>3. CASE UNCHANGED call
  BY <1>1, <1>3 DEF CallInv, CallKnown, LifeKnown, PlayersKnown, NetIsOver
<1>4. CASE Return(c)
  <2>1. call'[c] = Idle /\ \A d \in Callers \ {c} : call'[d] = call[d]
    BY <1>4, ReturnEffect DEF ThreadInv
  <2> QED BY <1>1, <2>1 DEF CallInv, CallKnown, LifeKnown, PlayersKnown, NetIsOver,
                            Idle, Stages, Callers
<1>5. ASSUME NEW op \in {"SendTo", "Close", "Release"}, NEW stage \in {"loopback", "stopNet"},
             op = "SendTo" => stage = "loopback",
             op = "Close" => life = "open" /\ ~Closing,
             Go(c, op, stage)
      PROVE  CallInv'
  <2>1. call'[c] = [op |-> op, at |-> stage] /\ \A d \in Callers \ {c} : call'[d] = call[d]
    BY <1>5, GoEffect DEF ThreadInv
  <2>2. op = "Close" => \A d \in Callers : call[d].op # "Close"
    BY <1>5 DEF Closing
  <2> QED BY <1>1, <1>5, <2>1, <2>2 DEF CallInv, CallKnown, LifeKnown, PlayersKnown, NetIsOver,
                            Stages, Callers
<1> QED BY <1>2, <1>3, <1>4, <1>5

LEMMA StageCalls ==
  ASSUME ThreadInv, CallInv, NEW c \in Callers,
         StopNet(c) \/ WaitNet(c) \/ Farewell(c) \/ StopWorker(c) \/ Join(c),
         UNCHANGED << isHost, localDpnid, hasPeer >>
  PROVE  /\ CallInv'
         /\ UNCHANGED life
         /\ call[c].at \in Stages \ {"free"}
         /\ call'[c].op = call[c].op /\ call'[c].at \in Stages
         /\ \A d \in Callers \ {c} : call'[d] = call[d]
         /\ Farewell(c) <=> call[c].at = "farewell"
         /\ Farewell(c) => call'[c].at = "stopWorker"
         /\ call[c].at \in {"stopNet", "waitNet"} /\ call[c].op = "Close"
              => call'[c].at \in {"waitNet", "farewell"}
         /\ call[c].at \in {"stopWorker", "join"} => call'[c].at \in {"join", "free"}
         /\ ~Farewell(c) => UNCHANGED queue
<1>1. PICK stage \in Stages :
        /\ Go(c, call[c].op, stage)
        /\ call[c].at \in Stages \ {"free"}
        /\ UNCHANGED life
        /\ netThread' => netThread
        /\ Farewell(c) <=> call[c].at = "farewell"
        /\ stage = "farewell" => call[c].op = "Close"
        /\ stage \in {"farewell", "stopWorker", "join", "free"} => ~netThread'
        /\ Farewell(c) => stage = "stopWorker"
        /\ call[c].at \in {"stopNet", "waitNet"} /\ call[c].op = "Close"
              => stage \in {"waitNet", "farewell"}
        /\ call[c].at \in {"stopWorker", "join"} => stage \in {"join", "free"}
        /\ ~Farewell(c) => UNCHANGED queue
  <2> USE DEF Stages
  <2>1. CASE StopNet(c)
    <3>1. CASE netThread
      BY <2>1, <3>1 DEF StopNet, Farewell
    <3>2. CASE ~netThread
      BY <2>1, <3>2 DEF StopNet, Farewell, AfterNet
    <3> QED BY <3>1, <3>2
  <2>2. CASE WaitNet(c)
    BY <2>2 DEF WaitNet, Farewell, AfterNet
  <2>3. CASE Farewell(c)
    BY <2>3 DEF Farewell, CallInv, CallKnown, NetIsOver, netVars
  <2>4. CASE StopWorker(c)
    BY <2>4 DEF StopWorker, Farewell, CallInv, CallKnown, NetIsOver, netVars
  <2>5. CASE Join(c)
    BY <2>5 DEF Join, Farewell, CallInv, CallKnown, NetIsOver, netVars
  <2> QED BY <2>1, <2>2, <2>3, <2>4, <2>5
<1>2. /\ call'[c] = [op |-> call[c].op, at |-> stage]
      /\ \A d \in Callers \ {c} : call'[d] = call[d]
  BY <1>1, GoEffect DEF ThreadInv
<1>3. CallInv'
  <2>1. \A d \in Callers : CallKnown(d)'
    BY <1>1, <1>2 DEF CallInv, CallKnown, NetIsOver
  <2>2. LifeKnown' /\ PlayersKnown'
    BY <1>1, <1>2 DEF CallInv, LifeKnown, PlayersKnown, Callers
  <2> QED BY <2>1, <2>2 DEF CallInv
<1> QED BY <1>1, <1>2, <1>3

(* The end of a call: the handler's is a Close.                            *)
LEMMA EndCalls ==
  ASSUME ThreadInv, CallInv, NEW c \in Callers, CallEnds(c),
         UNCHANGED << isHost, localDpnid, hasPeer >>
  PROVE  /\ CallInv'
         /\ call[c].at = "free" /\ call[c].op \in {"Close", "Release"}
         /\ call'[c] = Idle /\ \A d \in Callers \ {c} : call'[d] = call[d]
         /\ call[c].op = "Close" => life = "open" /\ life' \in {"closed", "quiet"}
         /\ call[c].op = "Release" => life' = "gone"
         /\ UNCHANGED queue
<1>1. /\ call[c].at = "free" /\ Return(c) /\ UNCHANGED << netThread, queue >>
      /\ life' = IF call[c].op = "Release" THEN "gone"
                 ELSE IF c = "game" THEN "quiet"
                 ELSE IF life = "open" THEN "closed" ELSE life
  BY DEF CallEnds, netVars
<1>2. call'[c] = Idle /\ \A d \in Callers \ {c} : call'[d] = call[d]
  BY <1>1, ReturnEffect DEF ThreadInv
<1>3. /\ call[c].op \in {"Close", "Release"} /\ ~netThread
      /\ call[c].op = "Close" => life = "open"
  BY <1>1 DEF CallInv, CallKnown, NetIsOver, Stages
<1>4. life' \in {"closed", "quiet", "gone"}
  BY <1>1, <1>3
<1>5. \A d \in Callers : d # c => call[d].op # "Close"
  <2>1. CASE call[c].op = "Close"
    BY <2>1 DEF CallInv, LifeKnown, Callers
  <2>2. CASE call[c].op = "Release"
    <3>1. c = "game" /\ ~thread
      BY <1>1, <2>2 DEF ThreadInv, ThreadsKnown, StagesDone, Callers
    <3>2. call["handler"] = Idle
      BY <3>1 DEF ThreadInv, ThreadsKnown
    <3> QED BY <3>1, <3>2 DEF Callers, Idle
  <2> QED BY <1>3, <2>1, <2>2
<1>6. \A d \in Callers : CallKnown(d)'
  BY <1>1, <1>2, <1>3, <1>5 DEF CallInv, CallKnown, NetIsOver, Idle, Stages
<1>7. LifeKnown' /\ PlayersKnown'
  BY <1>1, <1>2, <1>3, <1>4, <1>5 DEF CallInv, LifeKnown, PlayersKnown, Idle, Callers
<1> QED BY <1>1, <1>2, <1>3, <1>6, <1>7, <1>4 DEF CallInv

-----------------------------------------------------------------------------
(***************************************************************************)
(* A course of player p through the jobs q: what the game believes of p    *)
(* before each of them, from v to e, never creating a player it has and    *)
(* never destroying one it has not.                                        *)
(***************************************************************************)
Views == {"none", "present"}

Turns(j, p, a, b) ==
  IF j = Job("CREATE_PLAYER", p) THEN a = "none" /\ b = "present"
  ELSE IF j = Job("DESTROY_PLAYER", p) THEN a = "present" /\ b = "none"
  ELSE b = a

Course(p, q, v, e) ==
  \E f \in [1 .. Len(q) + 1 -> Views] :
    /\ f[1] = v /\ f[Len(q) + 1] = e
    /\ \A i \in 1 .. Len(q) : Turns(q[i], p, f[i], f[i + 1])

LEMMA CourseEmpty ==
  ASSUME NEW p, NEW v \in Views
  PROVE  Course(p, << >>, v, v)
<1> DEFINE f == [i \in 1 .. 1 |-> v]
<1>1. Len(<< >>) = 0
  OBVIOUS
<1>2. f \in [1 .. Len(<< >>) + 1 -> Views] /\ f[1] = v /\ f[Len(<< >>) + 1] = v
  BY <1>1
<1>3. \A i \in 1 .. Len(<< >>) : FALSE
  BY <1>1
<1> HIDE DEF f
<1> QED BY <1>2, <1>3 DEF Course

LEMMA CourseAppend ==
  ASSUME NEW p, NEW q \in Seq(Jobs), NEW j \in Jobs, NEW v, NEW e, NEW d \in Views,
         Course(p, q, v, e), Turns(j, p, e, d)
  PROVE  Course(p, Append(q, j), v, d)
<1> DEFINE n == Len(q)
<1>1. PICK f \in [1 .. n + 1 -> Views] :
        /\ f[1] = v /\ f[n + 1] = e
        /\ \A i \in 1 .. n : Turns(q[i], p, f[i], f[i + 1])
  BY DEF Course
<1>2. n \in Nat /\ Len(Append(q, j)) = n + 1
      /\ (\A i \in 1 .. n : Append(q, j)[i] = q[i]) /\ Append(q, j)[n + 1] = j
  OBVIOUS
<1> HIDE DEF n
<1> DEFINE g == [i \in 1 .. n + 2 |-> IF i = n + 2 THEN d ELSE f[i]]
<1>3. g \in [1 .. n + 2 -> Views] /\ g[1] = v /\ g[n + 2] = d
  BY <1>1, <1>2
<1>4. ASSUME NEW i \in 1 .. n + 1
      PROVE  Turns(Append(q, j)[i], p, g[i], g[i + 1])
  <2>1. CASE i = n + 1
    <3>1. g[i] = e /\ g[i + 1] = d /\ Append(q, j)[i] = j
      BY <2>1, <1>1, <1>2
    <3> QED BY <3>1
  <2>2. CASE i # n + 1
    <3>1. i \in 1 .. n
      BY <2>2, <1>2
    <3>2. g[i] = f[i] /\ g[i + 1] = f[i + 1] /\ Append(q, j)[i] = q[i]
      BY <3>1, <1>2
    <3> QED BY <3>1, <3>2, <1>1
  <2> QED BY <2>1, <2>2
<1> HIDE DEF g
<1>5. n + 1 + 1 = n + 2
  BY <1>2
<1>6. Len(Append(q, j)) = n + 1 /\ n + 1 \in Nat
  BY <1>2
<1> QED BY <1>3, <1>4, <1>5, <1>6 DEF Course

LEMMA CourseTail ==
  ASSUME NEW p, NEW q \in Seq(Jobs), q # << >>, NEW v, NEW e, Course(p, q, v, e)
  PROVE  \E d \in Views : Turns(Head(q), p, v, d) /\ Course(p, Tail(q), d, e)
<1> DEFINE n == Len(q)
<1>1. PICK f \in [1 .. n + 1 -> Views] :
        /\ f[1] = v /\ f[n + 1] = e
        /\ \A i \in 1 .. n : Turns(q[i], p, f[i], f[i + 1])
  BY DEF Course
<1>2. /\ n \in Nat \ {0} /\ Len(Tail(q)) = n - 1 /\ Head(q) = q[1]
      /\ \A i \in 1 .. n - 1 : Tail(q)[i] = q[i + 1]
  OBVIOUS
<1> HIDE DEF n
<1> DEFINE g == [i \in 1 .. n |-> f[i + 1]]
<1>3. g \in [1 .. n -> Views] /\ g[1] = f[2] /\ g[n] = e /\ f[2] \in Views
  BY <1>1, <1>2
<1>4. Turns(Head(q), p, v, f[2])
  <2>1. 1 \in 1 .. n /\ 1 + 1 = 2
    BY <1>2
  <2> QED BY <2>1, <1>1, <1>2
<1>5. ASSUME NEW i \in 1 .. n - 1
      PROVE  Turns(Tail(q)[i], p, g[i], g[i + 1])
  <2>1. i + 1 \in 1 .. n /\ g[i] = f[i + 1] /\ g[i + 1] = f[i + 1 + 1] /\ Tail(q)[i] = q[i + 1]
    BY <1>2
  <2> QED BY <2>1, <1>1
<1> HIDE DEF g
<1>6. n - 1 + 1 = n
  BY <1>2
<1>7. Course(p, Tail(q), f[2], e)
  BY <1>2, <1>3, <1>5, <1>6 DEF Course
<1> QED BY <1>3, <1>4, <1>7

-----------------------------------------------------------------------------
(* What the game will believe when it has handled all jobs: the players    *)
(* that were announced and not taken back.                                 *)
Farewelled ==
  \/ life \in {"closed", "quiet"}
  \/ \E c \in Callers : call[c].op = "Close" /\ call[c].at \in {"stopWorker", "join", "free"}

Remote == IF isHost THEN 2 ELSE 1

Announced(p) ==
  IF (p = localDpnid /\ ~Farewelled) \/ (p = Remote /\ hasPeer) THEN "present" ELSE "none"

ToldInOrder(p) ==
  \E e \in Views : Course(p, queue, view[p], e) /\ (life # "gone" => e = Announced(p))

ToldInv ==
  /\ queue \in Seq(Jobs) /\ view \in [Players -> Views]
  /\ \A p \in Players : ToldInOrder(p)

LEMMA ToldInvImplies == ToldInv => PlayersTold
BY DEF ToldInv, PlayersTold, Views

LEMMA InitToldInv == Init => ToldInv
<1> SUFFICES ASSUME Init PROVE ToldInv
  OBVIOUS
<1>1. queue = << >> /\ queue \in Seq(Jobs) /\ view = [p \in Players |-> "none"]
  BY DEF Init
<1>2. \A p \in Players : Announced(p) = "none" /\ view[p] = "none"
  BY <1>1 DEF Init, Announced, Farewelled, Remote, Idle, Callers, Players
<1>3. \A p \in Players : Course(p, << >>, "none", "none")
  BY CourseEmpty DEF Views
<1> QED BY <1>1, <1>2, <1>3 DEF ToldInv, ToldInOrder, Views

(* Jobs that are not about players, and none at all.                       *)
LEMMA OtherJobKeeps ==
  ASSUME ToldInv, UNCHANGED view,
         \/ UNCHANGED queue
         \/ \E j \in Jobs : /\ j.type \notin {"CREATE_PLAYER", "DESTROY_PLAYER"}
                            /\ queue' = Append(queue, j),
         \/ life' = "gone"
         \/ life # "gone" /\ \A p \in Players : Announced(p)' = Announced(p)
         \/ UNCHANGED life /\ \A p \in Players : Announced(p)' = Announced(p)
  PROVE  ToldInv'
<1>1. queue' \in Seq(Jobs) /\ view' \in [Players -> Views]
  BY DEF ToldInv
<1>2. ASSUME NEW p \in Players
      PROVE  ToldInOrder(p)'
  <2>1. PICK e \in Views : Course(p, queue, view[p], e) /\ (life # "gone" => e = Announced(p))
    BY DEF ToldInv, ToldInOrder
  <2>2. Course(p, queue', view[p], e)
    <3>1. CASE UNCHANGED queue
      BY <2>1, <3>1
    <3>2. ASSUME NEW j \in Jobs, j.type \notin {"CREATE_PLAYER", "DESTROY_PLAYER"},
                 queue' = Append(queue, j)
          PROVE  Course(p, queue', view[p], e)
      <4>1. Turns(j, p, e, e)
        BY <3>2 DEF Turns, Job
      <4>2. queue \in Seq(Jobs)
        BY DEF ToldInv
      <4> QED BY <2>1, <3>2, <4>1, <4>2, CourseAppend
    <3> QED BY <3>1, <3>2
  <2>3. life' # "gone" => e = Announced(p)'
    BY <2>1
  <2> QED BY <2>2, <2>3 DEF ToldInOrder
<1> QED BY <1>1, <1>2 DEF ToldInv

(* A job that tells of a player, in the step that makes it so.             *)
LEMMA PlayerJobKeeps ==
  ASSUME ToldInv, UNCHANGED view, life # "gone", NEW j \in Jobs, queue' = Append(queue, j),
         \A p \in Players : Turns(j, p, Announced(p), Announced(p)')
  PROVE  ToldInv'
<1>1. queue \in Seq(Jobs) /\ queue' \in Seq(Jobs) /\ view' \in [Players -> Views]
  BY DEF ToldInv
<1>2. ASSUME NEW p \in Players
      PROVE  ToldInOrder(p)'
  <2>1. Course(p, queue, view[p], Announced(p)) /\ Announced(p) \in Views
    BY DEF ToldInv, ToldInOrder
  <2>2. Announced(p)' \in Views
    BY DEF Announced, Views
  <2>3. Course(p, queue', view[p], Announced(p)')
    <3> DEFINE a == Announced(p)
               b == Announced(p)'
    <3>1. Turns(j, p, a, b) /\ Course(p, queue, view[p], a) /\ b \in Views
      BY <2>1, <2>2
    <3> HIDE DEF a, b
    <3>2. Course(p, Append(queue, j), view[p], b)
      BY <3>1, <1>1, CourseAppend
    <3> QED BY <3>2 DEF b
  <2> QED BY <2>2, <2>3 DEF ToldInOrder
<1> QED BY <1>1, <1>2 DEF ToldInv

(* What is not a close leaves the farewell as it is.                       *)
LEMMA FarewelledStays ==
  ASSUME UNCHANGED << life, isHost, localDpnid, hasPeer, call >>
  PROVE  \A p \in Players : Announced(p)' = Announced(p)
BY DEF Announced, Farewelled, Remote

LEMMA OneMore ==
  ASSUME NEW q \in Seq(Jobs), NEW j \in Jobs
  PROVE  q \o << j >> = Append(q, j) /\ q \o << >> = q /\ Append(q, j) \in Seq(Jobs)
OBVIOUS

-----------------------------------------------------------------------------
LEMMA OpeningTells ==
  ASSUME CallInv, CallInv', ToldInv, Initialize \/ HostGame \/ EnumHosts \/ Connect
  PROVE  ToldInv'
<1> USE DEF Callers
<1>1. CASE Initialize
  BY <1>1, OtherJobKeeps DEF Initialize, Announced, Farewelled, Remote
<1>2. CASE Connect
  BY <1>2, OtherJobKeeps DEF Connect, Announced, Farewelled, Remote
<1>3. CASE EnumHosts
  <2>1. Job("ENUM_RESPONSE", 0) \in Jobs
    BY DEF Job, Jobs, Types
  <2>2. queue' = Append(queue, Job("ENUM_RESPONSE", 0))
    BY <1>3, <2>1, OneMore DEF EnumHosts, Enqueue, ToldInv
  <2>3. UNCHANGED << life, isHost, localDpnid, hasPeer, call, view >> /\ life # "gone"
    BY <1>3 DEF EnumHosts
  <2>4. Job("ENUM_RESPONSE", 0).type = "ENUM_RESPONSE"
    BY DEF Job
  <2> QED BY <2>1, <2>2, <2>3, <2>4, FarewelledStays, OtherJobKeeps
<1>4. CASE HostGame
  <2>1. Job("CREATE_PLAYER", 1) \in Jobs
    BY DEF Job, Jobs, Types, Players
  <2>2. queue' = Append(queue, Job("CREATE_PLAYER", 1))
    BY <1>4, <2>1, OneMore DEF HostGame, Enqueue, ToldInv
  <2>3. /\ life = "ready" /\ life' = "open" /\ isHost' /\ localDpnid' = 1
        /\ UNCHANGED << hasPeer, call, view >>
    BY <1>4 DEF HostGame
  <2>4. ~hasPeer /\ localDpnid = 0 /\ \A c \in Callers : call[c].op # "Close"
    BY <2>3 DEF CallInv, CallKnown, LifeKnown
  <2>5. \A p \in Players : Announced(p) = "none"
    BY <2>4 DEF Announced, Players
  <2>6. Announced(1)' = "present" /\ Announced(2)' = "none"
    BY <2>3, <2>4 DEF Announced, Farewelled, Remote
  <2>7. \A p \in Players : Turns(Job("CREATE_PLAYER", 1), p, Announced(p), Announced(p)')
    BY <2>5, <2>6 DEF Turns, Job, Players
  <2> QED BY <2>1, <2>2, <2>3, <2>7, PlayerJobKeeps
<1> QED BY <1>1, <1>2, <1>3, <1>4

(* The net thread runs only while no farewell has been given.              *)
LEMMA DropTells ==
  ASSUME CallInv, ToldInv, netThread, DropPeer,
         UNCHANGED << life, isHost, localDpnid, call, view >>
  PROVE  ToldInv'
<1>1. CASE ~hasPeer
  <2>1. UNCHANGED << hasPeer, queue >>
    BY <1>1 DEF DropPeer
  <2> QED BY <2>1, FarewelledStays, OtherJobKeeps
<1>2. CASE hasPeer
  <2> DEFINE j == Job("DESTROY_PLAYER", Remote)
  <2>1. j \in Jobs /\ Remote \in Players
    BY DEF Job, Jobs, Types, Players, Remote
  <2>2. ~hasPeer' /\ queue' = Append(queue, j)
    BY <1>2, <2>1, OneMore DEF DropPeer, Enqueue, ToldInv, Remote
  <2>3. life # "gone" /\ Remote # localDpnid /\ Remote' = Remote
    BY <1>2 DEF CallInv, LifeKnown, PlayersKnown, Remote
  <2>4. \A p \in Players :
          /\ p = Remote => Announced(p) = "present" /\ Announced(p)' = "none"
          /\ p # Remote => Announced(p)' = Announced(p)
    BY <1>2, <2>2, <2>3 DEF Announced, Farewelled
  <2>5. \A p \in Players : Turns(j, p, Announced(p), Announced(p)')
    BY <2>4 DEF Turns, Job
  <2> QED BY <2>1, <2>2, <2>3, <2>5, PlayerJobKeeps
<1> QED BY <1>1, <1>2

LEMMA ArrivalTells ==
  ASSUME CallInv, ToldInv, netThread, PeerArrives, isHost \/ localDpnid = 0,
         UNCHANGED << life, isHost, call, view >>
  PROVE  ToldInv'
<1>1. life \notin {"closed", "quiet", "gone"} /\ ~Farewelled /\ ~Farewelled'
  BY DEF CallInv, CallKnown, LifeKnown, NetIsOver, Farewelled
<1>2. ~hasPeer /\ hasPeer' /\ localDpnid' = IF isHost THEN localDpnid ELSE 2
  BY DEF PeerArrives
<1>3. queue \in Seq(Jobs) /\ view' \in [Players -> Views]
  BY DEF ToldInv
<1>4. /\ Job("INDICATE_CONNECT", 0) \in Jobs /\ Job("CONNECT_COMPLETE", 0) \in Jobs
      /\ Job("CREATE_PLAYER", 1) \in Jobs /\ Job("CREATE_PLAYER", 2) \in Jobs
  BY DEF Job, Jobs, Types, Players
<1>5. \A p \in Players : Course(p, queue, view[p], Announced(p)) /\ Announced(p) \in Views
  BY <1>1 DEF ToldInv, ToldInOrder
<1>6. "none" \in Views /\ "present" \in Views
  BY DEF Views
<1>7. CASE isHost
  <2> DEFINE q1 == Append(queue, Job("INDICATE_CONNECT", 0))
             q2 == Append(q1, Job("CREATE_PLAYER", 2))
  <2>1. q1 \in Seq(Jobs) /\ q2 \in Seq(Jobs) /\ queue' = q2
    BY <1>3, <1>4, <1>7 DEF PeerArrives, Enqueue
  <2>2. /\ Announced(1) = "present" /\ Announced(1)' = "present"
        /\ Announced(2) = "none" /\ Announced(2)' = "present"
    BY <1>1, <1>2, <1>7 DEF CallInv, PlayersKnown, Announced, Remote
  <2>3. \A p \in Players : Course(p, q1, view[p], Announced(p))
    <3> SUFFICES ASSUME NEW p \in Players PROVE Course(p, q1, view[p], Announced(p))
      OBVIOUS
    <3>1. Turns(Job("INDICATE_CONNECT", 0), p, Announced(p), Announced(p))
      BY DEF Turns, Job
    <3> QED BY <3>1, <1>3, <1>4, <1>5, CourseAppend
  <2> HIDE DEF q1
  <2>4. Course(1, q2, view[1], "present")
    <3>1. Turns(Job("CREATE_PLAYER", 2), 1, "present", "present")
      BY DEF Turns, Job
    <3> QED BY <3>1, <2>1, <2>2, <2>3, <1>4, <1>6, CourseAppend DEF Players
  <2>5. Course(2, q2, view[2], "present")
    <3>1. Turns(Job("CREATE_PLAYER", 2), 2, "none", "present")
      BY DEF Turns, Job
    <3> QED BY <3>1, <2>1, <2>2, <2>3, <1>4, <1>6, CourseAppend DEF Players
  <2>6. \A p \in Players : ToldInOrder(p)'
    BY <1>6, <2>1, <2>2, <2>4, <2>5 DEF ToldInOrder, Players
  <2> QED BY <1>3, <2>1, <2>6 DEF ToldInv
<1>8. CASE ~isHost
  <2> DEFINE q1 == Append(queue, Job("CONNECT_COMPLETE", 0))
             q2 == Append(q1, Job("CREATE_PLAYER", 1))
             q3 == Append(q2, Job("CREATE_PLAYER", 2))
  <2>1. q1 \in Seq(Jobs) /\ q2 \in Seq(Jobs) /\ q3 \in Seq(Jobs) /\ queue' = q3
    BY <1>3, <1>4, <1>8 DEF PeerArrives, Enqueue
  <2>2. /\ Announced(1) = "none" /\ Announced(1)' = "present"
        /\ Announced(2) = "none" /\ Announced(2)' = "present"
    BY <1>1, <1>2, <1>8 DEF CallInv, PlayersKnown, Announced, Remote
  <2>3. \A p \in Players : Course(p, q1, view[p], "none")
    <3> SUFFICES ASSUME NEW p \in Players PROVE Course(p, q1, view[p], "none")
      OBVIOUS
    <3>1. Turns(Job("CONNECT_COMPLETE", 0), p, "none", "none") /\ Announced(p) = "none"
      BY <2>2 DEF Turns, Job, Players
    <3> QED BY <3>1, <1>3, <1>4, <1>5, <1>6, CourseAppend
  <2> HIDE DEF q1
  <2>4. Course(1, q2, view[1], "present") /\ Course(2, q2, view[2], "none")
    <3>1. /\ Turns(Job("CREATE_PLAYER", 1), 1, "none", "present")
          /\ Turns(Job("CREATE_PLAYER", 1), 2, "none", "none")
      BY DEF Turns, Job
    <3> QED BY <3>1, <2>1, <2>3, <1>4, <1>6, CourseAppend DEF Players
  <2> HIDE DEF q2
  <2>5. Course(1, q3, view[1], "present") /\ Course(2, q3, view[2], "present")
    <3>1. /\ Turns(Job("CREATE_PLAYER", 2), 1, "present", "present")
          /\ Turns(Job("CREATE_PLAYER", 2), 2, "none", "present")
      BY DEF Turns, Job
    <3> QED BY <3>1, <2>1, <2>4, <1>4, <1>6, CourseAppend
  <2>6. \A p \in Players : ToldInOrder(p)'
    BY <1>6, <2>1, <2>2, <2>5 DEF ToldInOrder, Players
  <2> QED BY <1>3, <2>1, <2>6 DEF ToldInv
<1> QED BY <1>7, <1>8

LEMMA NetLoopTells ==
  ASSUME ThreadInv, CallInv, ToldInv, NetLoop
  PROVE  ToldInv'
<1>1. UNCHANGED << life, isHost, call, view >> /\ netThread
  <2>1. net \in {"top", "maintain", "packet"}
    BY DEF NetLoop, NetTop, Maintain, HandlePacket
  <2> QED BY <2>1 DEF NetLoop, ThreadInv, ThreadsKnown
<1>2. \/ UNCHANGED << queue, hasPeer, localDpnid >>
      \/ DropPeer /\ UNCHANGED localDpnid
      \/ (isHost \/ localDpnid = 0) /\ PeerArrives
      \/ Enqueue(<< Job("RECEIVE", 0) >>) /\ UNCHANGED << hasPeer, localDpnid >>
  BY DEF NetLoop, NetTop, Maintain, HandlePacket
<1>3. CASE Enqueue(<< Job("RECEIVE", 0) >>) /\ UNCHANGED << hasPeer, localDpnid >>
  <2>1. Job("RECEIVE", 0) \in Jobs /\ Job("RECEIVE", 0).type = "RECEIVE"
    BY DEF Job, Jobs, Types
  <2>2. queue' = Append(queue, Job("RECEIVE", 0))
    BY <1>3, <2>1, OneMore DEF Enqueue, ToldInv
  <2> QED BY <1>1, <1>3, <2>1, <2>2, FarewelledStays, OtherJobKeeps
<1>4. CASE UNCHANGED << queue, hasPeer, localDpnid >>
  BY <1>1, <1>4, FarewelledStays, OtherJobKeeps
<1> QED BY <1>1, <1>2, <1>3, <1>4, DropTells, ArrivalTells

(* The worker tells the game what the job at the head of the queue says.   *)
LEMMA WorkerLoopTells ==
  ASSUME ToldInv, WorkerLoop
  PROVE  ToldInv'
<1>1. UNCHANGED << life, isHost, localDpnid, hasPeer, call >>
  BY DEF WorkerLoop
<1>2. CASE UNCHANGED << queue, view >>
  BY <1>1, <1>2, FarewelledStays, OtherJobKeeps
<1>3. CASE Dispatch
  <2> DEFINE j == Head(queue)
  <2>1. queue \in Seq(Jobs) /\ queue # << >> /\ queue' = Tail(queue) /\ view' = Told(j)
    BY <1>3 DEF Dispatch, ToldInv
  <2>2. j \in Jobs /\ queue' \in Seq(Jobs)
    BY <2>1
  <2>3. view \in [Players -> Views]
    BY DEF ToldInv
  <2>4. ASSUME NEW p \in Players
        PROVE  view'[p] \in Views /\ ToldInOrder(p)'
    <3>1. PICK e \in Views : Course(p, queue, view[p], e) /\ (life # "gone" => e = Announced(p))
      BY DEF ToldInv, ToldInOrder
    <3>2. PICK d \in Views : Turns(j, p, view[p], d) /\ Course(p, Tail(queue), d, e)
      BY <2>1, <3>1, CourseTail
    <3> HIDE DEF j
    <3>3. view'[p] = d
      <4>1. j = Job("CREATE_PLAYER", p) <=> j.type = "CREATE_PLAYER" /\ j.dpnid = p
        BY <2>2 DEF Job, Jobs
      <4>2. j = Job("DESTROY_PLAYER", p) <=> j.type = "DESTROY_PLAYER" /\ j.dpnid = p
        BY <2>2 DEF Job, Jobs
      <4> QED BY <2>1, <3>2, <4>1, <4>2 DEF Told, Turns
    <3>4. life' # "gone" => e = Announced(p)'
      BY <1>1, <3>1, FarewelledStays
    <3> QED BY <2>1, <3>1, <3>2, <3>3, <3>4 DEF ToldInOrder
  <2>5. view' \in [Players -> Views]
    BY <2>1, <2>4 DEF Told
  <2> QED BY <2>2, <2>4, <2>5 DEF ToldInv
<1> QED BY <1>2, <1>3 DEF WorkerLoop, WorkerWakes, QueueEmpty, LooksAtStop,
                         HandlerKeeps, HandlerDone, Keep

LEMMA CallingTells ==
  ASSUME ThreadInv, ToldInv, NEW c \in Callers,
         \/ \E async \in BOOLEAN : SendTo(c, async)
         \/ Loopback(c) \/ Close(c) \/ (c = "game" /\ Release)
         \/ \E h \in Handles : ReturnBuffer(c, h)
  PROVE  ToldInv'
<1>1. UNCHANGED << life, isHost, localDpnid, hasPeer, view >>
  BY DEF SendTo, Loopback, Close, ReturnBuffer, Release
<1>2. \/ UNCHANGED call
      \/ /\ call[c].at \in {"none", "loopback"}
         /\ \/ Go(c, "SendTo", "loopback") \/ Go(c, "Close", "stopNet")
            \/ Go(c, "Release", "stopNet") \/ Return(c)
  <2>1. call[c] = Idle => call[c].at = "none"
    BY DEF Idle
  <2>2. ASSUME NEW async \in BOOLEAN, SendTo(c, async)
        PROVE  UNCHANGED call \/ (call[c] = Idle /\ Go(c, "SendTo", "loopback"))
    BY <2>2 DEF SendTo, MayCall
  <2>3. Loopback(c) => call[c].at = "loopback" /\ Return(c)
    BY DEF Loopback, At
  <2>4. Close(c) => call[c] = Idle /\ Go(c, "Close", "stopNet")
    BY DEF Close, MayCall
  <2>5. c = "game" /\ Release => call[c] = Idle /\ Go(c, "Release", "stopNet")
    BY DEF Release
  <2>6. ASSUME NEW h \in Handles, ReturnBuffer(c, h)
        PROVE  UNCHANGED call
    BY <2>6 DEF ReturnBuffer
  <2> QED BY <2>1, <2>2, <2>3, <2>4, <2>5, <2>6
<1>3. \A p \in Players : Announced(p)' = Announced(p)
  <2>1. CASE UNCHANGED call
    BY <1>1, <2>1, FarewelledStays
  <2>2. CASE ~UNCHANGED call
    <3>0. ASSUME NEW op, NEW stage \in {"loopback", "stopNet"}, Go(c, op, stage)
          PROVE  call'[c].at = stage /\ \A d \in Callers \ {c} : call'[d] = call[d]
      <4>1. call'[c] = [op |-> op, at |-> stage] /\ \A d \in Callers \ {c} : call'[d] = call[d]
        BY <3>0, GoEffect DEF ThreadInv
      <4> QED BY <4>1
    <3>00. ASSUME Return(c)
           PROVE  call'[c].at = "none" /\ \A d \in Callers \ {c} : call'[d] = call[d]
      BY <3>00, ReturnEffect DEF ThreadInv, Idle
    <3>1. /\ call[c].at \notin {"stopWorker", "join", "free"}
          /\ call'[c].at \notin {"stopWorker", "join", "free"}
          /\ \A d \in Callers \ {c} : call'[d] = call[d]
      BY <1>2, <2>2, <3>0, <3>00
    <3>2. Farewelled' <=> Farewelled
      BY <1>1, <3>1 DEF Farewelled
    <3> QED BY <1>1, <3>2 DEF Announced, Remote
  <2> QED BY <2>1, <2>2
<1>4. \/ UNCHANGED queue
      \/ \E t \in {"SEND_COMPLETE", "RECEIVE"} : Enqueue(<< Job(t, 0) >>)
  <2>1. Enqueue(<< >>) => UNCHANGED queue
    BY DEF Enqueue, ToldInv
  <2> QED BY <2>1 DEF SendTo, Loopback, Close, ReturnBuffer, Release
<1>5. ASSUME NEW t \in {"SEND_COMPLETE", "RECEIVE"}, Enqueue(<< Job(t, 0) >>)
      PROVE  \E j \in Jobs : /\ j.type \notin {"CREATE_PLAYER", "DESTROY_PLAYER"}
                             /\ queue' = Append(queue, j)
  <2>1. Job(t, 0) \in Jobs /\ Job(t, 0).type = t
    BY DEF Job, Jobs, Types
  <2>2. queue' = Append(queue, Job(t, 0))
    BY <1>5, <2>1, OneMore DEF Enqueue, ToldInv
  <2> QED BY <2>1, <2>2
<1> QED BY <1>1, <1>3, <1>4, <1>5, OtherJobKeeps

(* Close takes back the own player, once, when the net thread has ended.   *)
LEMMA StageTells ==
  ASSUME ThreadInv, CallInv, ToldInv, NEW c \in Callers,
         StopNet(c) \/ WaitNet(c) \/ Farewell(c) \/ StopWorker(c) \/ Join(c),
         UNCHANGED << isHost, localDpnid, hasPeer, view >>
  PROVE  ToldInv'
<1>1. /\ UNCHANGED life
      /\ call[c].at \in Stages \ {"free"}
      /\ call'[c].op = call[c].op /\ call'[c].at \in Stages
      /\ \A d \in Callers \ {c} : call'[d] = call[d]
      /\ Farewell(c) <=> call[c].at = "farewell"
      /\ Farewell(c) => call'[c].at = "stopWorker"
      /\ call[c].at \in {"stopNet", "waitNet"} /\ call[c].op = "Close"
           => call'[c].at \in {"waitNet", "farewell"}
      /\ call[c].at \in {"stopWorker", "join"} => call'[c].at \in {"join", "free"}
      /\ ~Farewell(c) => UNCHANGED queue
  BY StageCalls
<1>2. CASE ~Farewell(c)
  <2>1. call[c].at \in {"stopNet", "waitNet", "stopWorker", "join"}
    BY <1>1, <1>2 DEF Stages
  <2>2. Farewelled' <=> Farewelled
    <3>1. CASE call[c].at \in {"stopNet", "waitNet"}
      BY <1>1, <3>1 DEF Farewelled
    <3>2. CASE call[c].at \in {"stopWorker", "join"}
      BY <1>1, <3>2 DEF Farewelled
    <3> QED BY <2>1, <3>1, <3>2
  <2>3. \A p \in Players : Announced(p)' = Announced(p)
    BY <1>1, <2>2 DEF Announced, Remote
  <2> QED BY <1>1, <1>2, <2>3, OtherJobKeeps
<1>3. CASE Farewell(c)
  <2>1. call[c].op = "Close" /\ life = "open" /\ life' = "open"
    BY <1>1, <1>3 DEF CallInv, CallKnown
  <2>2. ~Farewelled /\ Farewelled'
    <3>1. \A d \in Callers : d # c => call[d].op # "Close"
      BY <2>1 DEF CallInv, LifeKnown, Callers
    <3>2. ~Farewelled
      BY <1>1, <1>3, <2>1, <3>1 DEF Farewelled
    <3>3. Farewelled'
      BY <1>1, <1>3, <2>1 DEF Farewelled
    <3> QED BY <3>2, <3>3
  <2>3. CASE localDpnid = 0
    <3>1. UNCHANGED queue
      BY <1>3, <2>3 DEF Farewell
    <3>2. \A p \in Players : Announced(p)' = Announced(p)
      BY <2>3 DEF Announced, Remote, Players
    <3> QED BY <1>1, <3>1, <3>2, OtherJobKeeps
  <2>4. CASE localDpnid # 0
    <3> DEFINE j == Job("DESTROY_PLAYER", localDpnid)
    <3>1. localDpnid \in Players /\ (hasPeer => Remote # localDpnid)
      BY <2>4 DEF CallInv, PlayersKnown, Players, Remote
    <3>2. j \in Jobs
      BY <3>1 DEF Job, Jobs, Types
    <3>3. queue' = Append(queue, j)
      BY <1>3, <2>4, <3>2, OneMore DEF Farewell, Enqueue, ToldInv
    <3>4. \A p \in Players :
            /\ p = localDpnid => Announced(p) = "present" /\ Announced(p)' = "none"
            /\ p # localDpnid => Announced(p)' = Announced(p)
      BY <2>2, <3>1 DEF Announced, Remote
    <3>5. \A p \in Players : Turns(j, p, Announced(p), Announced(p)')
      BY <3>4 DEF Turns, Job
    <3> QED BY <2>1, <3>2, <3>3, <3>5, PlayerJobKeeps
  <2> QED BY <2>3, <2>4
<1> QED BY <1>2, <1>3

LEMMA EndTells ==
  ASSUME ThreadInv, CallInv, ToldInv, NEW c \in Callers, CallEnds(c),
         UNCHANGED << isHost, localDpnid, hasPeer, view >>
  PROVE  ToldInv'
<1>1. /\ call[c].at = "free" /\ call[c].op \in {"Close", "Release"}
      /\ call[c].op = "Close" => life = "open" /\ life' \in {"closed", "quiet"}
      /\ call[c].op = "Release" => life' = "gone"
      /\ UNCHANGED queue
  BY EndCalls
<1>2. CASE call[c].op = "Release"
  BY <1>1, <1>2, OtherJobKeeps
<1>3. CASE call[c].op = "Close"
  <2>1. Farewelled /\ Farewelled'
    BY <1>1, <1>3 DEF Farewelled
  <2>2. \A p \in Players : Announced(p)' = Announced(p)
    BY <2>1 DEF Announced, Remote
  <2> QED BY <1>1, <1>3, <2>2, OtherJobKeeps
<1> QED BY <1>1, <1>2, <1>3

-----------------------------------------------------------------------------
LEMMA CreateObjectTells ==
  ASSUME CreateObject
  PROVE  CallInv' /\ ToldInv'
<1>1. CallInv'
  BY DEF CreateObject, CallInv, CallKnown, LifeKnown, PlayersKnown, NetIsOver, Stages,
         Idle, Callers
<1>2. queue' = << >> /\ queue' \in Seq(Jobs) /\ view' = [p \in Players |-> "none"]
  BY DEF CreateObject
<1>3. \A p \in Players : Announced(p)' = "none" /\ view'[p] = "none"
  BY <1>2 DEF CreateObject, Announced, Farewelled, Remote, Idle, Callers, Players
<1>4. \A p \in Players : Course(p, << >>, "none", "none")
  BY CourseEmpty DEF Views
<1> QED BY <1>1, <1>2, <1>3, <1>4 DEF ToldInv, ToldInOrder, Views

LEMMA NextToldInv ==
  ThreadInv /\ CallInv /\ ToldInv /\ [Next]_vars => (CallInv /\ ToldInv)'
<1> SUFFICES ASSUME ThreadInv, CallInv, ToldInv, [Next]_vars PROVE CallInv' /\ ToldInv'
  OBVIOUS
<1>1. CASE UNCHANGED vars
  <2>1. UNCHANGED << life, isHost, localDpnid, hasPeer, queue, netThread, call, view >>
    BY <1>1 DEF vars, netVars, workerVars
  <2>2. CallInv'
    BY <2>1 DEF CallInv, CallKnown, LifeKnown, PlayersKnown, NetIsOver
  <2>3. ToldInv'
    BY <2>1, FarewelledStays, OtherJobKeeps
  <2> QED BY <2>2, <2>3
<1>2. ASSUME NEW c \in Callers, Closes(c)
      PROVE  CallInv' /\ ToldInv'
  BY <1>2, StageCalls, EndCalls, StageTells, EndTells DEF Closes
<1>3. CASE Initialize \/ HostGame \/ EnumHosts \/ Connect
  BY <1>3, OpeningCalls, OpeningTells
<1>4. CASE NetLoop \/ WorkerLoop
  BY <1>4, LoopsCalls, NetLoopTells, WorkerLoopTells
<1>5. ASSUME NEW c \in Callers,
             \/ \E async \in BOOLEAN : SendTo(c, async)
             \/ Loopback(c) \/ Close(c) \/ (c = "game" /\ Release)
             \/ \E h \in Handles : ReturnBuffer(c, h)
      PROVE  CallInv' /\ ToldInv'
  BY <1>5, CallingCalls, CallingTells
<1>6. "game" \in Callers
  BY DEF Callers
<1> QED BY <1>1, <1>2, <1>3, <1>4, <1>5, <1>6, CreateObjectTells DEF Next

(* The game is told of each player once that it comes and once that it     *)
(* goes, in this order, whatever the net thread, the worker and a close    *)
(* do at the same time (DropPeer, Close, HandlePacket).                    *)
THEOREM PlayersToldTheorem == Spec => []PlayersTold
<1>1. Init => ThreadInv /\ CallInv /\ ToldInv
  BY InitThreadInv, InitCallInv, InitToldInv
<1>2. ThreadInv /\ CallInv /\ ToldInv /\ [Next]_vars => (ThreadInv /\ CallInv /\ ToldInv)'
  BY NextThreadInv, NextToldInv
<1> QED BY <1>1, <1>2, ToldInvImplies, PTL DEF Spec

-----------------------------------------------------------------------------
(***************************************************************************)
(* The payloads.  Received jobs in the queue are counted, because each     *)
(* will take a payload that was not handed over before.                    *)
(***************************************************************************)
Arrived(q) == {i \in DOMAIN q : q[i].type = "RECEIVE"}

LEMMA ArrivedFinite ==
  ASSUME NEW q \in Seq(Jobs)
  PROVE  IsFiniteSet(Arrived(q)) /\ Cardinality(Arrived(q)) \in Nat
<1>1. IsFiniteSet(1 .. Len(q)) /\ Arrived(q) \in SUBSET (1 .. Len(q))
  BY FS_Interval DEF Arrived
<1> QED BY <1>1, FS_Subset, FS_CardinalityType

LEMMA ArrivedAppend ==
  ASSUME NEW q \in Seq(Jobs), NEW j \in Jobs
  PROVE  Cardinality(Arrived(Append(q, j))) =
           IF j.type = "RECEIVE" THEN Cardinality(Arrived(q)) + 1 ELSE Cardinality(Arrived(q))
<1> DEFINE n == Len(q)
           r == Append(q, j)
<1>1. /\ n \in Nat /\ DOMAIN q = 1 .. n /\ DOMAIN r = 1 .. n + 1
      /\ (\A i \in 1 .. n : r[i] = q[i]) /\ r[n + 1] = j
  OBVIOUS
<1> HIDE DEF n, r
<1>2. Arrived(r) = IF j.type = "RECEIVE" THEN Arrived(q) \cup {n + 1} ELSE Arrived(q)
  BY <1>1 DEF Arrived
<1>3. n + 1 \notin Arrived(q)
  BY <1>1 DEF Arrived
<1>4. Cardinality(Arrived(r)) =
        IF j.type = "RECEIVE" THEN Cardinality(Arrived(q)) + 1 ELSE Cardinality(Arrived(q))
  BY <1>2, <1>3, ArrivedFinite, FS_AddElement
<1> QED BY <1>4 DEF r

LEMMA ArrivedTail ==
  ASSUME NEW q \in Seq(Jobs), q # << >>
  PROVE  Cardinality(Arrived(Tail(q))) =
           IF Head(q).type = "RECEIVE" THEN Cardinality(Arrived(q)) - 1
           ELSE Cardinality(Arrived(q))
<1> DEFINE n == Len(q)
           r == Tail(q)
<1>1. /\ n \in Nat \ {0} /\ DOMAIN q = 1 .. n /\ DOMAIN r = 1 .. n - 1 /\ Head(q) = q[1]
      /\ (\A i \in 1 .. n - 1 : r[i] = q[i + 1]) /\ r \in Seq(Jobs)
  OBVIOUS
<1> HIDE DEF n, r
<1> DEFINE later == Arrived(q) \ {1}
           f == [i \in Arrived(r) |-> i + 1]
<1>2. /\ Arrived(r) \subseteq 1 .. n - 1 /\ later \subseteq 2 .. n
      /\ \A i \in 1 .. n - 1 : i \in Arrived(r) <=> i + 1 \in later
  BY <1>1 DEF Arrived
<1>3. \A k \in later : k - 1 \in 1 .. n - 1 /\ (k - 1) + 1 = k
  BY <1>1, <1>2
<1> HIDE DEF later
<1>4. f \in [Arrived(r) -> later]
  BY <1>2
<1>5. \A a, b \in Arrived(r) : f[a] = f[b] => a = b
  BY <1>2
<1>6. \A k \in later : \E i \in Arrived(r) : f[i] = k
  <2> TAKE k \in later
  <2>1. k - 1 \in Arrived(r) /\ f[k - 1] = k
    BY <1>2, <1>3
  <2> QED BY <2>1
<1>7. ExistsBijection(Arrived(r), later)
  BY <1>4, <1>5, <1>6 DEF ExistsBijection, Bijection, Injection, Surjection, IsInjective
<1>8. Cardinality(later) = Cardinality(Arrived(r))
  BY <1>1, <1>7, ArrivedFinite, FS_Bijection
<1>9. 1 \in Arrived(q) <=> Head(q).type = "RECEIVE"
  BY <1>1 DEF Arrived
<1>10. Cardinality(later) = IF 1 \in Arrived(q) THEN Cardinality(Arrived(q)) - 1
                            ELSE Cardinality(Arrived(q))
  BY ArrivedFinite, FS_RemoveElement DEF later
<1> QED BY <1>8, <1>9, <1>10 DEF r

-----------------------------------------------------------------------------
Places == {"none", "lent", "early", "kept", "stuck", "freed"}
Lent == {h \in Handles : buffer[h] \in {"lent", "early"}}

(* The payload in the handler's hands is the one that was handed over last,*)
(* and those not handed over are enough for the jobs that will need one.   *)
BuffersKnown ==
  /\ buffer \in [Handles -> Places]
  /\ \A g, h \in Handles : g < h /\ buffer[h] # "none" => buffer[g] # "none"
  /\ Lent = IF worker \in {"handler", "keep"} THEN Current ELSE {}
  /\ life = "gone" => \A h \in Handles : buffer[h] \in {"none", "freed"}

EnoughLeft == Cardinality(Arrived(queue)) <= Cardinality(Unused)

BufferInv == BuffersKnown /\ EnoughLeft

LEMMA BufferInvImplies == BufferInv => BuffersFreed
BY DEF BufferInv, BuffersKnown, BuffersFreed, Places

LEMMA UnusedFinite ==
  /\ IsFiniteSet(Handles) /\ IsFiniteSet(Unused) /\ Cardinality(Unused) \in Nat
  /\ Handles \subseteq Nat /\ Unused \subseteq Handles
<1>1. IsFiniteSet(Handles) /\ Handles \subseteq Nat
  BY ThreadsAssumption, FS_Interval DEF Handles
<1>2. Unused \subseteq Handles
  BY DEF Unused
<1> QED BY <1>1, <1>2, FS_Subset, FS_CardinalityType

(* Steps that hand over no payload and take none back from the handler.    *)
LEMMA KnownKeeps ==
  ASSUME BuffersKnown, buffer' \in [Handles -> Places],
         Unused' = Unused, Lent' = Lent, job' = job,
         worker' \in {"handler", "keep"} <=> worker \in {"handler", "keep"},
         life' = "gone" => \A h \in Handles : buffer'[h] \in {"none", "freed"}
  PROVE  BuffersKnown'
<1>1. \A h \in Handles : buffer'[h] = "none" <=> buffer[h] = "none"
  BY DEF Unused
<1>2. Current' = Current
  BY <1>1 DEF Current
<1>3. \A g, h \in Handles : g < h /\ buffer'[h] # "none" => buffer'[g] # "none"
  BY <1>1 DEF BuffersKnown
<1> QED BY <1>2, <1>3 DEF BuffersKnown

LEMMA InitBufferInv == Init => BufferInv
<1> SUFFICES ASSUME Init PROVE BufferInv
  OBVIOUS
<1>1. BuffersKnown
  BY DEF Init, BuffersKnown, Places, Lent
<1>2. Arrived(queue) = {}
  BY DEF Init, Arrived
<1>3. EnoughLeft
  BY <1>2, UnusedFinite, FS_EmptySet DEF EnoughLeft
<1> QED BY <1>1, <1>3 DEF BufferInv

(* The lowest payload not handed over follows all that were.               *)
LEMMA NextIsFree ==
  ASSUME BufferInv, ToldInv, queue # << >>, Head(queue).type = "RECEIVE"
  PROVE  /\ NextBuffer \in Unused
         /\ \A g \in Unused : NextBuffer <= g
<1>1. queue \in Seq(Jobs)
  BY DEF ToldInv
<1>2. 1 \in Arrived(queue)
  BY <1>1 DEF Arrived
<1>3. Cardinality(Arrived(queue)) # 0
  BY <1>1, <1>2, ArrivedFinite, FS_EmptySet
<1>4. Unused # {}
  BY <1>1, <1>3, ArrivedFinite, UnusedFinite, FS_EmptySet DEF BufferInv, EnoughLeft
<1>5. \E x \in Unused : \A y \in Unused : x <= y
  <2>1. PICK x \in Unused : \A y \in Unused : << y, x >> \notin OpToRel(<, Nat)
    BY <1>4, UnusedFinite, NatLessThanWellFounded, WFMin, Zenon
  <2>2. \A y \in Unused : ~(y < x)
    BY <2>1, UnusedFinite DEF OpToRel
  <2> QED BY <2>2, UnusedFinite
<1> QED BY <1>5 DEF NextBuffer

LEMMA RoomMeansRoom ==
  ASSUME BufferInv, ToldInv, RoomToReceive
  PROVE  Cardinality(Arrived(queue)) + 1 <= Cardinality(Unused)
<1>1. PICK h \in Unused : Cardinality(Arrived(queue)) < MaxBuffers - h + 1
  BY DEF RoomToReceive, Pending, Arrived
<1>2. h \in Nat /\ h <= MaxBuffers /\ h >= 1 /\ MaxBuffers \in Nat
  BY <1>1, ThreadsAssumption DEF Unused, Handles
<1>3. h .. MaxBuffers \subseteq Unused
  <2> SUFFICES ASSUME NEW g \in h .. MaxBuffers PROVE g \in Unused
    OBVIOUS
  <2>1. g \in Handles /\ h \in Handles /\ buffer[h] = "none"
    BY <1>1, <1>2 DEF Unused, Handles
  <2>2. h < g /\ buffer[g] # "none" => buffer[h] # "none"
    BY <2>1 DEF BufferInv, BuffersKnown
  <2> QED BY <1>2, <2>1, <2>2 DEF Unused
<1>4. Cardinality(h .. MaxBuffers) = MaxBuffers - h + 1
  BY <1>2, FS_Interval
<1>5. Cardinality(h .. MaxBuffers) <= Cardinality(Unused)
  BY <1>3, UnusedFinite, FS_Subset
<1>6. Cardinality(Arrived(queue)) \in Nat
  BY ArrivedFinite DEF ToldInv
<1> QED BY <1>1, <1>2, <1>4, <1>5, <1>6, UnusedFinite

(* Steps that hand over no payload: one that is returned, kept or freed    *)
(* was handed over before.                                                 *)
Quiet(j) == j \in Jobs /\ j.type # "RECEIVE"

LEMMA QuietJobs ==
  ASSUME NEW q \in Seq(Jobs), NEW j, Quiet(j)
  PROVE  /\ q \o << j >> = Append(q, j) /\ Append(q, j) \in Seq(Jobs)
         /\ Cardinality(Arrived(Append(q, j))) = Cardinality(Arrived(q))
BY OneMore, ArrivedAppend DEF Quiet

LEMMA PlayerJobsQuiet ==
  /\ \A p \in Players : Quiet(Job("CREATE_PLAYER", p)) /\ Quiet(Job("DESTROY_PLAYER", p))
  /\ \A t \in {"INDICATE_CONNECT", "CONNECT_COMPLETE", "ENUM_RESPONSE", "SEND_COMPLETE"} :
       Quiet(Job(t, 0))
BY DEF Quiet, Job, Jobs, Types, Players

(* What an action does to the queue, apart from the worker's.              *)
Grows ==
  \/ UNCHANGED queue
  \/ \E j : Quiet(j) /\ queue' = queue \o << j >>
  \/ \E j, k : Quiet(j) /\ Quiet(k) /\ queue' = queue \o << j, k >>
  \/ \E j, k, l : Quiet(j) /\ Quiet(k) /\ Quiet(l) /\ queue' = queue \o << j, k, l >>
  \/ RoomToReceive /\ queue' = queue \o << Job("RECEIVE", 0) >>

LEMMA GrowsKeeps ==
  ASSUME BufferInv, ToldInv, Grows, Unused' = Unused
  PROVE  EnoughLeft'
<1>1. queue \in Seq(Jobs) /\ Cardinality(Arrived(queue)) <= Cardinality(Unused)
  BY DEF ToldInv, BufferInv, EnoughLeft
<1>2. CASE UNCHANGED queue
  BY <1>1, <1>2 DEF EnoughLeft
<1>3. ASSUME NEW j, Quiet(j), queue' = queue \o << j >>
      PROVE  EnoughLeft'
  BY <1>1, <1>3, QuietJobs DEF EnoughLeft
<1>4. ASSUME NEW j, NEW k, Quiet(j), Quiet(k), queue' = queue \o << j, k >>
      PROVE  EnoughLeft'
  <2>1. queue' = Append(Append(queue, j), k)
    BY <1>1, <1>4 DEF Quiet
  <2>2. Cardinality(Arrived(queue')) = Cardinality(Arrived(queue))
    BY <1>1, <1>4, <2>1, QuietJobs
  <2> QED BY <1>1, <2>2 DEF EnoughLeft
<1>5. ASSUME NEW j, NEW k, NEW l, Quiet(j), Quiet(k), Quiet(l),
             queue' = queue \o << j, k, l >>
      PROVE  EnoughLeft'
  <2>1. queue' = Append(Append(Append(queue, j), k), l)
    BY <1>1, <1>5 DEF Quiet
  <2>2. /\ Append(queue, j) \in Seq(Jobs)
        /\ Cardinality(Arrived(Append(queue, j))) = Cardinality(Arrived(queue))
    BY <1>1, <1>5, QuietJobs
  <2>3. /\ Append(Append(queue, j), k) \in Seq(Jobs)
        /\ Cardinality(Arrived(Append(Append(queue, j), k))) = Cardinality(Arrived(queue))
    BY <1>5, <2>2, QuietJobs
  <2>4. Cardinality(Arrived(Append(Append(Append(queue, j), k), l)))
          = Cardinality(Arrived(queue))
    BY <1>5, <2>3, QuietJobs
  <2> QED BY <1>1, <2>1, <2>4 DEF EnoughLeft
<1>6. CASE RoomToReceive /\ queue' = queue \o << Job("RECEIVE", 0) >>
  <2>1. Job("RECEIVE", 0) \in Jobs /\ Job("RECEIVE", 0).type = "RECEIVE"
    BY DEF Job, Jobs, Types
  <2>2. Cardinality(Arrived(queue')) = Cardinality(Arrived(queue)) + 1
    BY <1>1, <1>6, <2>1, OneMore, ArrivedAppend
  <2>3. Cardinality(Arrived(queue)) + 1 <= Cardinality(Unused)
    BY <1>6, RoomMeansRoom
  <2> QED BY <2>2, <2>3 DEF EnoughLeft
<1> QED BY <1>2, <1>3, <1>4, <1>5, <1>6 DEF Grows

LEMMA OthersGrow ==
  ASSUME CallInv, ToldInv,
         \/ Initialize \/ HostGame \/ EnumHosts \/ Connect \/ NetLoop \/ Release
         \/ \E c \in Callers :
              \/ \E async \in BOOLEAN : SendTo(c, async)
              \/ Loopback(c) \/ Close(c)
              \/ \E h \in Handles : ReturnBuffer(c, h)
              \/ Closes(c)
  PROVE  Grows
<1> USE PlayerJobsQuiet DEF Grows
<1>1. CASE Initialize \/ Connect \/ Release
  BY <1>1 DEF Initialize, Connect, Release
<1>2. CASE HostGame \/ EnumHosts
  BY <1>2 DEF HostGame, EnumHosts, Enqueue, Players
<1>3. CASE NetLoop
  <2>1. DropPeer => Grows
    BY DEF DropPeer, Enqueue, Players
  <2>2. PeerArrives => Grows
    BY DEF PeerArrives, Enqueue, Players
  <2>3. RoomToReceive /\ Enqueue(<< Job("RECEIVE", 0) >>) => Grows
    BY DEF Enqueue
  <2>4. UNCHANGED queue => Grows
    OBVIOUS
  <2> HIDE DEF Grows
  <2> QED BY <1>3, <2>1, <2>2, <2>3, <2>4 DEF NetLoop, NetTop, Maintain, HandlePacket
<1>4. ASSUME NEW c \in Callers, Closes(c)
      PROVE  Grows
  <2>1. Farewell(c) => Grows
    <3>1. localDpnid # 0 => localDpnid \in Players
      BY DEF CallInv, PlayersKnown, Players
    <3> QED BY <3>1 DEF Farewell, Enqueue
  <2> HIDE DEF Grows
  <2>2. UNCHANGED queue => Grows
    BY DEF Grows
  <2> QED BY <1>4, <2>1, <2>2 DEF Closes, StopNet, WaitNet, StopWorker, Join, CallEnds
<1>5. ASSUME NEW c \in Callers, NEW async \in BOOLEAN, SendTo(c, async)
      PROVE  Grows
  <2>1. queue \o << >> = queue
    BY DEF ToldInv
  <2> QED BY <1>5, <2>1 DEF SendTo, Enqueue
<1>6. ASSUME NEW c \in Callers, Loopback(c) \/ Close(c)
      PROVE  Grows
  BY <1>6 DEF Loopback, Close, Enqueue
<1>7. ASSUME NEW c \in Callers, NEW h \in Handles, ReturnBuffer(c, h)
      PROVE  Grows
  BY <1>7 DEF ReturnBuffer
<1> HIDE DEF Grows
<1> QED BY <1>1, <1>2, <1>3, <1>4, <1>5, <1>6, <1>7

(* Steps that leave the payloads alone.                                    *)
LEMMA UntouchedKeeps ==
  ASSUME BufferInv, ToldInv, Grows, UNCHANGED << buffer, worker, job >>,
         life' = "gone" => life = "gone"
  PROVE  BufferInv'
<1>1. Unused' = Unused /\ Lent' = Lent
  BY DEF Unused, Lent
<1>2. BuffersKnown'
  BY <1>1, KnownKeeps DEF BufferInv, BuffersKnown
<1> QED BY <1>1, <1>2, GrowsKeeps DEF BufferInv

LEMMA ReturnBufferKeeps ==
  ASSUME ToldInv, BufferInv, NEW c \in Callers, NEW h \in Handles, ReturnBuffer(c, h)
  PROVE  BufferInv'
<1>1. /\ UNCHANGED << life, queue, worker, job >> /\ life # "gone"
      /\ \/ buffer[h] = "kept" /\ buffer' = [buffer EXCEPT ![h] = "freed"]
         \/ buffer[h] = "lent" /\ buffer' = [buffer EXCEPT ![h] = "early"]
  <2>1. buffer[h] = "kept" /\ FreeBuffers({h}) => buffer' = [buffer EXCEPT ![h] = "freed"]
    BY DEF FreeBuffers, BufferInv, BuffersKnown
  <2> QED BY <2>1 DEF ReturnBuffer, workerVars
<1>2. /\ buffer' \in [Handles -> Places]
      /\ \A g \in Handles : /\ buffer'[g] = "none" <=> buffer[g] = "none"
                            /\ buffer'[g] \in {"lent", "early"}
                                 <=> buffer[g] \in {"lent", "early"}
  BY <1>1 DEF BufferInv, BuffersKnown, Places
<1>3. Lent' = Lent /\ Unused' = Unused
  BY <1>2 DEF Lent, Unused
<1>4. BuffersKnown'
  BY <1>1, <1>2, <1>3, KnownKeeps DEF BufferInv
<1>5. EnoughLeft'
  BY <1>1, <1>3, GrowsKeeps DEF Grows
<1> QED BY <1>4, <1>5 DEF BufferInv

(* The end of a close frees what was kept; after the destructor's the      *)
(* worker has ended and holds none.                                        *)
LEMMA FreeingKeeps ==
  ASSUME ThreadInv, CallInv, ToldInv, BufferInv, NEW c \in Callers, CallEnds(c)
  PROVE  BufferInv'
<1>1. /\ UNCHANGED << queue, worker, job >>
      /\ FreeBuffers(Kept)
      /\ call[c].at = "free"
      /\ life' = "gone" => call[c].op = "Release" \/ life = "gone"
  BY DEF CallEnds, workerVars
<1>2. /\ buffer' \in [Handles -> Places]
      /\ \A g \in Handles : /\ buffer'[g] = "none" <=> buffer[g] = "none"
                            /\ buffer'[g] \in {"lent", "early"}
                                 <=> buffer[g] \in {"lent", "early"}
                            /\ g \notin Lent => buffer'[g] \in {"none", "freed"}
  BY <1>1 DEF FreeBuffers, Kept, BufferInv, BuffersKnown, Places, Lent
<1>3. Lent' = Lent /\ Unused' = Unused
  BY <1>2 DEF Lent, Unused
<1>4. call[c].op = "Release" => Lent = {}
  <2> SUFFICES ASSUME call[c].op = "Release" PROVE Lent = {}
    OBVIOUS
  <2>1. c = "game"
    BY DEF ThreadInv, ThreadsKnown, Callers
  <2>2. worker \in {"none", "ended"}
    BY <1>1, <2>1 DEF ThreadInv, ThreadsKnown, StagesDone
  <2> QED BY <2>2 DEF BufferInv, BuffersKnown
<1>5. life = "gone" => Lent = {}
  BY DEF BufferInv, BuffersKnown, Lent
<1>6. BuffersKnown'
  BY <1>1, <1>2, <1>3, <1>4, <1>5, KnownKeeps DEF BufferInv
<1>7. EnoughLeft'
  BY <1>1, <1>3, GrowsKeeps DEF Grows
<1> QED BY <1>6, <1>7 DEF BufferInv

-----------------------------------------------------------------------------
(* The worker: a payload is handed over, and freed or kept afterwards.     *)
LEMMA DispatchKeeps ==
  ASSUME ThreadInv, ToldInv, BufferInv, WorkerLoop, Dispatch
  PROVE  BufferInv'
<1>1. /\ queue # << >> /\ queue' = Tail(queue) /\ job' = Head(queue)
      /\ worker = "drain" /\ worker' = "handler" /\ UNCHANGED life
  BY DEF WorkerLoop, Dispatch
<1>2. queue \in Seq(Jobs)
  BY DEF ToldInv
<1>3. Lent = {}
  BY <1>1 DEF BufferInv, BuffersKnown
<1>4. life # "gone"
  BY <1>1 DEF ThreadInv, ThreadsKnown, StagesDone
<1>5. CASE Head(queue).type # "RECEIVE"
  <2>1. UNCHANGED buffer
    BY <1>5 DEF Dispatch
  <2>2. Current' = {} /\ Unused' = Unused
    BY <1>1, <1>5, <2>1 DEF Current, Unused
  <2>3. Lent' = Lent
    BY <2>1 DEF Lent
  <2>4. BuffersKnown'
    BY <1>1, <1>3, <1>4, <2>1, <2>2, <2>3 DEF BufferInv, BuffersKnown
  <2>5. EnoughLeft'
    BY <1>1, <1>2, <1>5, <2>2, ArrivedTail DEF BufferInv, EnoughLeft
  <2> QED BY <2>4, <2>5 DEF BufferInv
<1>6. CASE Head(queue).type = "RECEIVE"
  <2> DEFINE n == NextBuffer
  <2>1. n \in Unused /\ \A g \in Unused : n <= g
    BY <1>1, <1>6, NextIsFree
  <2>2. buffer' = [buffer EXCEPT ![n] = "lent"]
    BY <1>6 DEF Dispatch
  <2> HIDE DEF n
  <2>3. n \in Handles /\ buffer[n] = "none"
    BY <2>1 DEF Unused
  <2>4. /\ buffer' \in [Handles -> Places] /\ buffer'[n] = "lent"
        /\ \A g \in Handles : g # n => buffer'[g] = buffer[g]
    BY <2>2, <2>3 DEF BufferInv, BuffersKnown, Places
  <2>5. Unused' = Unused \ {n}
    BY <2>3, <2>4 DEF Unused
  <2>6. \A g \in Handles : g < n <=> buffer[g] # "none"
    <3> TAKE g \in Handles
    <3>1. g \in Nat /\ n \in Nat
      BY <2>3, UnusedFinite
    <3>2. buffer[g] = "none" => n <= g
      BY <2>1 DEF Unused
    <3>3. n < g /\ buffer[g] # "none" => buffer[n] # "none"
      BY <2>3 DEF BufferInv, BuffersKnown
    <3>4. g # n => (g < n \/ n < g)
      BY <3>1
    <3> QED BY <2>3, <3>1, <3>2, <3>3, <3>4
  <2>7. Current' = {n}
    <3>1. \A g \in Handles : g > n <=> buffer'[g] = "none"
      <4> TAKE g \in Handles
      <4>1. g \in Nat /\ n \in Nat
        BY <2>3, UnusedFinite
      <4> QED BY <4>1, <2>4, <2>6
    <3>2. \A g \in Handles : g \in Nat /\ n \in Nat
      BY <2>3, UnusedFinite
    <3>3. job'.type = "RECEIVE"
      BY <1>1, <1>6
    <3>4. n \in Current'
      BY <2>3, <2>4, <3>1, <3>2, <3>3 DEF Current
    <3>5. \A h \in Current' : h = n
      <4> SUFFICES ASSUME NEW h \in Handles, buffer'[h] # "none",
                          \A g \in Handles : g > h => buffer'[g] = "none"
                   PROVE  h = n
        BY DEF Current
      <4>1. ~(h > n)
        BY <3>1
      <4>2. ~(n > h)
        BY <2>3, <2>4
      <4> QED BY <4>1, <4>2, <3>2
    <3> QED BY <3>4, <3>5
  <2>8. BuffersKnown'
    <3>1. \A g, h \in Handles : g < h /\ buffer'[h] # "none" => buffer'[g] # "none"
      <4> SUFFICES ASSUME NEW g \in Handles, NEW h \in Handles, g < h, buffer'[h] # "none",
                          g # n
                   PROVE  buffer'[g] # "none"
        BY <2>4
      <4>1. g \in Nat /\ h \in Nat /\ n \in Nat
        BY <2>3, UnusedFinite
      <4>2. h = n \/ h < n
        BY <2>4, <2>6
      <4>3. g < n
        BY <4>1, <4>2
      <4> QED BY <2>4, <2>6, <4>3
    <3>2. Lent' = {n}
      BY <1>3, <2>3, <2>4 DEF Lent
    <3> QED BY <1>1, <1>4, <2>4, <2>7, <3>1, <3>2 DEF BuffersKnown
  <2>9. EnoughLeft'
    <3>1. Cardinality(Unused') = Cardinality(Unused) - 1
      BY <2>1, <2>5, UnusedFinite, FS_RemoveElement
    <3>2. Cardinality(Arrived(queue')) = Cardinality(Arrived(queue)) - 1
      BY <1>1, <1>2, <1>6, ArrivedTail
    <3>3. Cardinality(Arrived(queue)) \in Nat
      BY <1>2, ArrivedFinite
    <3> QED BY <3>1, <3>2, <3>3, UnusedFinite DEF BufferInv, EnoughLeft
  <2> QED BY <2>8, <2>9 DEF BufferInv
<1> QED BY <1>5, <1>6

LEMMA HandedBackKeeps ==
  ASSUME ThreadInv, ToldInv, BufferInv, WorkerLoop, HandlerDone \/ Keep
  PROVE  BufferInv'
<1>1. /\ worker \in {"handler", "keep"} /\ worker' = "drain"
      /\ UNCHANGED << life, queue >>
  BY DEF WorkerLoop, HandlerDone, Keep
<1>2. Lent = Current
  BY <1>1 DEF BufferInv, BuffersKnown
<1>3. life # "gone"
  BY <1>1 DEF ThreadInv, ThreadsKnown, StagesDone
<1>4. /\ buffer' \in [Handles -> Places]
      /\ \A g \in Handles : /\ buffer'[g] \notin {"lent", "early"}
                            /\ buffer'[g] = "none" <=> buffer[g] = "none"
  <2>1. CASE HandlerDone
    <3>1. \A h \in Current : buffer[h] = "lent"
      BY <1>1, <2>1 DEF HandlerDone, BufferInv, BuffersKnown, Lent
    <3>2. \A h \in Handles : buffer'[h] = IF h \in Current THEN "freed" ELSE buffer[h]
      BY <2>1, <3>1 DEF HandlerDone, FreeBuffers
    <3> QED BY <2>1, <3>1, <3>2, <1>2 DEF HandlerDone, FreeBuffers, BufferInv, BuffersKnown, Places, Lent
  <2>2. CASE Keep
    <3>1. \A h \in Handles : buffer'[h] = IF h \in Current THEN Stored(h) ELSE buffer[h]
      BY <2>2 DEF Keep
    <3>2. \A h \in Handles : Stored(h) \in {"kept", "stuck"}
      BY DEF Stored
    <3> QED BY <2>2, <3>1, <3>2, <1>2 DEF Keep, BufferInv, BuffersKnown, Places, Lent
  <2> QED BY <2>1, <2>2
<1>5. Unused' = Unused /\ Lent' = {}
  BY <1>4 DEF Unused, Lent
<1>6. BuffersKnown'
  BY <1>1, <1>3, <1>4, <1>5 DEF BufferInv, BuffersKnown
<1>7. EnoughLeft'
  BY <1>1, <1>5, GrowsKeeps DEF Grows
<1> QED BY <1>6, <1>7 DEF BufferInv

LEMMA WaitingKeeps ==
  ASSUME ThreadInv, ToldInv, BufferInv, WorkerLoop,
         WorkerWakes \/ QueueEmpty \/ LooksAtStop \/ HandlerKeeps
  PROVE  BufferInv'
<1>1. /\ UNCHANGED << life, queue, job, buffer >>
      /\ worker' \in {"handler", "keep"} <=> worker \in {"handler", "keep"}
  BY DEF WorkerLoop, WorkerWakes, QueueEmpty, LooksAtStop, HandlerKeeps
<1>2. Lent' = Lent /\ Unused' = Unused
  BY <1>1 DEF Unused, Lent
<1>3. BuffersKnown'
  BY <1>1, <1>2, KnownKeeps DEF BufferInv, BuffersKnown
<1>4. EnoughLeft'
  BY <1>1, <1>2, GrowsKeeps DEF Grows
<1> QED BY <1>3, <1>4 DEF BufferInv

-----------------------------------------------------------------------------
LEMMA NextBufferInv ==
  ThreadInv /\ CallInv /\ ToldInv /\ BufferInv /\ [Next]_vars => BufferInv'
<1> SUFFICES ASSUME ThreadInv, CallInv, ToldInv, BufferInv, [Next]_vars PROVE BufferInv'
  OBVIOUS
<1>1. CASE UNCHANGED vars
  <2>1. UNCHANGED << life, queue, buffer, worker, job >>
    BY <1>1 DEF vars, workerVars
  <2> QED BY <2>1, UntouchedKeeps DEF Grows
<1>2. CASE WorkerLoop
  BY <1>2, DispatchKeeps, HandedBackKeeps, WaitingKeeps DEF WorkerLoop
<1>3. CASE Initialize
  <2>1. /\ UNCHANGED << buffer, queue, job >> /\ life' # "gone"
        /\ worker' \in {"handler", "keep"} <=> worker \in {"handler", "keep"}
    BY <1>3 DEF Initialize, StartWorker, ThreadInv, ThreadsKnown
  <2>2. Lent' = Lent /\ Unused' = Unused
    BY <2>1 DEF Unused, Lent
  <2>3. BuffersKnown'
    BY <2>1, <2>2, KnownKeeps DEF BufferInv, BuffersKnown
  <2>4. EnoughLeft'
    BY <2>1, <2>2, GrowsKeeps DEF Grows
  <2> QED BY <2>3, <2>4 DEF BufferInv
<1>4. CASE HostGame \/ EnumHosts \/ Connect \/ NetLoop \/ Release
  <2>1. UNCHANGED << buffer, worker, job >> /\ (life' = "gone" => life = "gone")
    BY <1>4 DEF HostGame, EnumHosts, Connect, NetLoop, Release, workerVars
  <2>2. Grows
    BY <1>4, OthersGrow
  <2> QED BY <2>1, <2>2, UntouchedKeeps
<1>5. ASSUME NEW c \in Callers,
             (\E async \in BOOLEAN : SendTo(c, async)) \/ Loopback(c) \/ Close(c)
      PROVE  BufferInv'
  <2>1. UNCHANGED << buffer, worker, job, life >>
    BY <1>5 DEF SendTo, Loopback, Close, workerVars
  <2>2. Grows
    BY <1>5, OthersGrow
  <2> QED BY <2>1, <2>2, UntouchedKeeps
<1>6. ASSUME NEW c \in Callers, Closes(c), ~CallEnds(c)
      PROVE  BufferInv'
  <2>1. UNCHANGED << buffer, worker, job, life >>
    BY <1>6 DEF Closes, StopNet, WaitNet, Farewell, StopWorker, Join, workerVars
  <2>2. Grows
    BY <1>6, OthersGrow
  <2> QED BY <2>1, <2>2, UntouchedKeeps
<1>7. CASE CreateObject
  <2>1. /\ buffer' = [h \in Handles |-> "none"] /\ queue' = << >> /\ life' = "new"
        /\ worker' = "none"
    BY <1>7 DEF CreateObject
  <2>2. BuffersKnown'
    BY <2>1 DEF BuffersKnown, Places, Lent
  <2>3. Arrived(queue') = {} /\ Unused' = Handles
    BY <2>1 DEF Arrived, Unused
  <2>4. EnoughLeft'
    BY <2>3, UnusedFinite, FS_EmptySet, FS_CardinalityType DEF EnoughLeft
  <2> QED BY <2>2, <2>4 DEF BufferInv
<1> QED BY <1>1, <1>2, <1>3, <1>4, <1>5, <1>6, <1>7, ReturnBufferKeeps, FreeingKeeps
        DEF Next

(* Each payload lent to the game is freed at most once, whether the        *)
(* handler, ReturnBuffer or Close frees it, and with the object all are    *)
(* (WorkerLoop, ReturnBuffer, FreeKept).                                   *)
THEOREM BuffersFreedTheorem == Spec => []BuffersFreed
<1>1. Init => ThreadInv /\ CallInv /\ ToldInv /\ BufferInv
  BY InitThreadInv, InitCallInv, InitToldInv, InitBufferInv
<1>2. /\ ThreadInv /\ CallInv /\ ToldInv /\ BufferInv /\ [Next]_vars
      => (ThreadInv /\ CallInv /\ ToldInv /\ BufferInv)'
  BY NextThreadInv, NextToldInv, NextBufferInv
<1> QED BY <1>1, <1>2, BufferInvImplies, PTL DEF Spec
=============================================================================
