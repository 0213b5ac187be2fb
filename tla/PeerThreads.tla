----------------------------- MODULE PeerThreads -----------------------------
(***************************************************************************)
(* The threads of one ReplPeer object (directplay-replace/                 *)
(* dpnetreplace.cpp): the game's thread, the net thread, and the worker,   *)
(* which calls the game's message handler.  The handler runs on the worker *)
(* and may itself call SendTo, ReturnBuffer and Close.                     *)
(*                                                                         *)
(* A call is one step for each thing it does under a lock or waits for.    *)
(* The event m_wake only shortens a wait of 100 ms and is left out; what   *)
(* the packets carry is the subject of ReliableLink and PeerSession.       *)
(***************************************************************************)
EXTENDS Naturals, Sequences, FiniteSets

CONSTANTS
  MaxQueue,    \* bound: jobs that SendTo, EnumHosts and the net thread put in the queue
  MaxBuffers,  \* bound: payloads one object receives
  Hazards      \* "chain": the handler goes on sending while the game closes

ASSUME ThreadsAssumption == MaxQueue \in Nat /\ MaxBuffers \in Nat

VARIABLES
  life,       \* what the game did with the object
  isHost,     \* m_isHost
  localDpnid, \* m_localDpnid, 0 when not known
  hasPeer,    \* m_hasPeer
  queue,      \* m_queue
  worker,     \* where the worker is; thread is m_thread, stop is m_stop
  thread, stop,
  job,        \* the job in the worker's hands
  net,        \* where the net thread is; netThread is m_netThread, netStop m_netStop
  netThread, netStop,
  call,       \* the call each thread of the game is in
  buffer,     \* where each payload handed to the game is
  view        \* what the handler was told of each player

netVars == << net, netThread, netStop >>
workerVars == << worker, thread, stop, job >>
vars == << life, isHost, localDpnid, hasPeer, queue, workerVars, netVars, call, buffer, view >>

Callers == {"game", "handler"}
Players == {1, 2}
Handles == 1 .. MaxBuffers

Job(t, d) == [type |-> t, dpnid |-> d]
NoJob == Job("NONE", 0)
Types == {"CREATE_PLAYER", "DESTROY_PLAYER", "RECEIVE", "SEND_COMPLETE",
          "CONNECT_COMPLETE", "INDICATE_CONNECT", "ENUM_RESPONSE", "NONE"}
Jobs == [type : Types, dpnid : {0} \cup Players]

Idle == [op |-> "none", at |-> "none"]
Calls == [op : {"none", "SendTo", "Close", "Release"},
          at : {"none", "loopback", "stopNet", "waitNet", "farewell",
                "stopWorker", "join", "free"}]

TypeOK ==
  /\ life \in {"new", "ready", "open", "closed", "quiet", "gone"}
  /\ isHost \in BOOLEAN /\ hasPeer \in BOOLEAN
  /\ localDpnid \in {0} \cup Players
  /\ queue \in Seq(Jobs) /\ job \in Jobs
  /\ worker \in {"none", "wait", "drain", "check", "handler", "keep", "ended"}
  /\ thread \in BOOLEAN /\ stop \in BOOLEAN
  /\ net \in {"none", "top", "maintain", "packet", "ended"}
  /\ netThread \in BOOLEAN /\ netStop \in BOOLEAN
  /\ call \in [Callers -> Calls]
  /\ buffer \in [Handles -> {"none", "lent", "early", "kept", "stuck", "freed", "twice"}]
  /\ view \in [Players -> {"none", "present", "confused"}]

Init ==
  /\ life = "new" /\ isHost = FALSE /\ localDpnid = 0 /\ hasPeer = FALSE
  /\ queue = << >> /\ job = NoJob
  /\ worker = "none" /\ thread = FALSE /\ stop = FALSE
  /\ net = "none" /\ netThread = FALSE /\ netStop = FALSE
  /\ call = [c \in Callers |-> Idle]
  /\ buffer = [h \in Handles |-> "none"]
  /\ view = [p \in Players |-> "none"]

-----------------------------------------------------------------------------
Enqueue(jobs) == queue' = queue \o jobs

(* The bounds on what is put in the queue.                                 *)
Pending(t) == Cardinality({i \in DOMAIN queue : queue[i].type = t})
Unused == {h \in Handles : buffer[h] = "none"}
RoomFor(n) == Len(queue) + n <= MaxQueue
RoomToReceive ==
  /\ RoomFor(1)
  /\ \E h \in Unused : Pending("RECEIVE") < MaxBuffers - h + 1

(* The payloads are numbered in the order in which they are handed over.   *)
NextBuffer == CHOOSE h \in Unused : \A g \in Unused : h <= g

(* free, of a buffer that should still be there.                           *)
FreeBuffers(B) ==
  buffer' = [h \in Handles |->
    IF h \notin B THEN buffer[h] ELSE IF buffer[h] = "freed" THEN "twice" ELSE "freed"]
KeptLater == {h \in Handles : buffer[h] = "kept"}     \* one returned early is forgotten
Kept == {h \in Handles : buffer[h] \in {"kept", "stuck"}}

-----------------------------------------------------------------------------
(* The game opens the object.                                              *)

StartWorker == IF thread THEN UNCHANGED << thread, stop, worker >>
               ELSE thread' = TRUE /\ stop' = FALSE /\ worker' = "wait"
StartNet == IF netThread THEN UNCHANGED netVars
            ELSE netThread' = TRUE /\ netStop' = FALSE /\ net' = "top"

Initialize ==
  /\ life = "new"
  /\ life' = "ready"
  /\ StartWorker
  /\ UNCHANGED << isHost, localDpnid, hasPeer, queue, job, netVars, call, buffer, view >>

HostGame ==
  /\ life = "ready" /\ call["game"] = Idle
  /\ life' = "open" /\ isHost' = TRUE /\ localDpnid' = 1
  /\ StartNet
  /\ Enqueue(<< Job("CREATE_PLAYER", 1) >>)
  /\ UNCHANGED << hasPeer, workerVars, call, buffer, view >>

EnumHosts ==
  /\ life = "ready" /\ call["game"] = Idle /\ RoomFor(1)
  /\ Enqueue(<< Job("ENUM_RESPONSE", 0) >>)
  /\ UNCHANGED << life, isHost, localDpnid, hasPeer, workerVars, netVars, call, buffer, view >>

Connect ==
  /\ life = "ready" /\ call["game"] = Idle
  /\ life' = "open"
  /\ StartNet
  /\ UNCHANGED << isHost, localDpnid, hasPeer, queue, workerVars, call, buffer, view >>

-----------------------------------------------------------------------------
(* The net thread: at the top of its loop it looks at m_netStop, then      *)
(* RetransmitTick and ConnMaintain may drop the peer, then a packet may    *)
(* have come.                                                              *)

NetTop ==
  /\ net = "top"
  /\ net' = IF netStop THEN "ended" ELSE "maintain"
  /\ UNCHANGED << queue, hasPeer, localDpnid >>

DropPeerUnchecked ==                                 \* the flag is set, not exchanged
  /\ hasPeer' = FALSE
  /\ Enqueue(<< Job("DESTROY_PLAYER", IF isHost THEN 2 ELSE 1) >>)

(* InterlockedExchange tells the one that cleared the flag.                *)
DropPeer ==
  IF hasPeer THEN /\ hasPeer' = FALSE
                  /\ Enqueue(<< Job("DESTROY_PLAYER", IF isHost THEN 2 ELSE 1) >>)
             ELSE UNCHANGED << hasPeer, queue >>

Maintain ==
  /\ net = "maintain"
  /\ net' = "packet"
  /\ \/ RoomFor(1) /\ DropPeer
     \/ UNCHANGED << queue, hasPeer >>
  /\ UNCHANGED localDpnid

(* PKT_CONNECT at a host, PKT_ACK at a joiner.                             *)
PeerArrives ==
  /\ ~hasPeer /\ RoomFor(3)
  /\ hasPeer' = TRUE
  /\ localDpnid' = IF isHost THEN localDpnid ELSE 2
  /\ Enqueue(IF isHost
       THEN << Job("INDICATE_CONNECT", 0), Job("CREATE_PLAYER", 2) >>
       ELSE << Job("CONNECT_COMPLETE", 0), Job("CREATE_PLAYER", 1), Job("CREATE_PLAYER", 2) >>)

(* A joiner whose host is gone does not connect again: its CONNECT is sent *)
(* once (PeerSession has the packets that are late).                       *)
HandlePacket ==
  /\ net = "packet"
  /\ net' = "top"
  /\ \/ (isHost \/ localDpnid = 0) /\ PeerArrives
     \/ hasPeer /\ RoomToReceive /\ Enqueue(<< Job("RECEIVE", 0) >>)
                /\ UNCHANGED << hasPeer, localDpnid >>
     \/ RoomFor(1) /\ DropPeer /\ UNCHANGED localDpnid
     \/ UNCHANGED << queue, hasPeer, localDpnid >>

NetLoop ==
  /\ NetTop \/ Maintain \/ HandlePacket
  /\ UNCHANGED << life, isHost, workerVars, netThread, netStop, call, buffer, view >>

-----------------------------------------------------------------------------
(* The worker.                                                             *)

WorkerWakes ==
  /\ worker = "wait"
  /\ worker' = "drain"
  /\ UNCHANGED << queue, job, buffer, view >>

(* The queue is found empty under the lock; m_stop is looked at after it.  *)
QueueEmpty ==
  /\ worker = "drain" /\ queue = << >>
  /\ worker' = "check"
  /\ UNCHANGED << queue, job, buffer, view >>

LooksAtStop ==
  /\ worker = "check"
  /\ worker' = IF stop THEN "ended" ELSE "wait"
  /\ UNCHANGED << queue, job, buffer, view >>

Told(j) ==
  [p \in Players |->
    CASE j.type = "CREATE_PLAYER" /\ j.dpnid = p -> IF view[p] = "none" THEN "present" ELSE "confused"
      [] j.type = "DESTROY_PLAYER" /\ j.dpnid = p -> IF view[p] = "present" THEN "none" ELSE "confused"
      [] OTHER -> view[p]]

(* The next job; the game's handler begins.                                *)
Dispatch ==
  /\ worker = "drain" /\ queue # << >>
  /\ job' = Head(queue) /\ queue' = Tail(queue)
  /\ worker' = "handler"
  /\ view' = Told(Head(queue))
  /\ buffer' = IF Head(queue).type = "RECEIVE"
                 THEN [buffer EXCEPT ![NextBuffer] = "lent"] ELSE buffer

(* The payload of the job: the one handed over last.                       *)
Current == {h \in Handles : /\ job.type = "RECEIVE" /\ buffer[h] # "none"
                            /\ \A g \in Handles : g > h => buffer[g] = "none"}

(* The handler returns: with a payload it keeps (DPNSUCCESS_PENDING), or   *)
(* else with one that is freed at once.                                    *)
HandlerKeeps ==
  /\ worker = "handler" /\ call["handler"] = Idle
  /\ job.type = "RECEIVE"
  /\ worker' = "keep"
  /\ UNCHANGED << queue, job, buffer, view >>

HandlerDone ==
  /\ worker = "handler" /\ call["handler"] = Idle
  /\ \A h \in Current : buffer[h] # "early"
  /\ worker' = "drain" /\ job' = NoJob
  /\ FreeBuffers(Current)
  /\ UNCHANGED << queue, view >>

(* m_kept[h] = buf, after the handler returned: the game may have asked    *)
(* for it to be freed before it is there.                                  *)
Stored(h) == IF buffer[h] = "early" THEN "stuck" ELSE "kept"

Keep ==
  /\ worker = "keep"
  /\ worker' = "drain" /\ job' = NoJob
  /\ buffer' = [h \in Handles |-> IF h \in Current THEN Stored(h) ELSE buffer[h]]
  /\ UNCHANGED << queue, view >>

WorkerLoop ==
  /\ \/ WorkerWakes \/ QueueEmpty \/ LooksAtStop \/ Dispatch
     \/ HandlerKeeps \/ HandlerDone \/ Keep
  /\ UNCHANGED << life, isHost, localDpnid, hasPeer, thread, stop, netVars, call >>

-----------------------------------------------------------------------------
(* Calls of the game, from its own thread or in the handler.               *)

MayCall(c) ==
  /\ call[c] = Idle /\ life \in {"open", "closed"}
  /\ c = "handler" => worker = "handler"

At(c, op, stage) == call[c].op = op /\ call[c].at = stage
Go(c, op, stage) == call' = [call EXCEPT ![c] = [op |-> op, at |-> stage]]
Return(c) == call' = [call EXCEPT ![c] = Idle]

(* SendTo: the peer state is read once; a send that is not to a peer comes *)
(* back as a RECEIVE, and one with a handle is completed by a job.         *)
Closing == \E c \in Callers : call[c].op \in {"Close", "Release"}

SendTo(c, async) ==
  /\ MayCall(c) /\ RoomFor(2)
  /\ c = "handler" /\ Closing => "chain" \in Hazards
  /\ Enqueue(IF async THEN << Job("SEND_COMPLETE", 0) >> ELSE << >>)
  /\ IF hasPeer THEN async /\ UNCHANGED call ELSE Go(c, "SendTo", "loopback")
  /\ UNCHANGED << life, isHost, localDpnid, hasPeer, workerVars, netVars, buffer, view >>

Loopback(c) ==
  /\ At(c, "SendTo", "loopback")
  /\ IF RoomToReceive THEN Enqueue(<< Job("RECEIVE", 0) >>) ELSE UNCHANGED queue
  /\ Return(c)
  /\ UNCHANGED << life, isHost, localDpnid, hasPeer, workerVars, netVars, buffer, view >>

(* The game may return a payload as soon as its handler has seen it.       *)
ReturnBuffer(c, h) ==
  /\ call[c] = Idle /\ life \notin {"new", "gone"}
  /\ c = "handler" => worker = "handler"
  /\ \/ buffer[h] = "kept" /\ FreeBuffers({h})
     \/ buffer[h] = "lent" /\ buffer' = [buffer EXCEPT ![h] = "early"]
  /\ UNCHANGED << life, isHost, localDpnid, hasPeer, queue, workerVars, netVars, call, view >>

(* Close, once, from either thread.                                        *)
Close(c) ==
  /\ MayCall(c) /\ life = "open" /\ ~Closing
  /\ Go(c, "Close", "stopNet")
  /\ UNCHANGED << life, isHost, localDpnid, hasPeer, queue, workerVars, netVars, buffer, view >>

(* The last Release, after Close or without it: the destructor.            *)
Release ==
  /\ call["game"] = Idle /\ life \in {"ready", "open", "closed", "quiet"}
  /\ Go("game", "Release", "stopNet")
  /\ UNCHANGED << life, isHost, localDpnid, hasPeer, queue, workerVars, netVars, buffer, view >>

AfterNet(op) == IF op = "Close" THEN "farewell" ELSE "stopWorker"

StopNet(c) ==
  /\ call[c].at = "stopNet"
  /\ netStop' = (netStop \/ netThread)
  /\ Go(c, call[c].op, IF netThread THEN "waitNet" ELSE AfterNet(call[c].op))
  /\ UNCHANGED << queue, workerVars, net, netThread, buffer, life >>

WaitNet(c) ==
  /\ call[c].at = "waitNet" /\ net = "ended"
  /\ netThread' = FALSE
  /\ Go(c, call[c].op, AfterNet(call[c].op))
  /\ UNCHANGED << queue, workerVars, net, netStop, buffer, life >>

Farewell(c) ==
  /\ call[c].at = "farewell"
  /\ IF localDpnid # 0 THEN Enqueue(<< Job("DESTROY_PLAYER", localDpnid) >>)
                       ELSE UNCHANGED queue
  /\ Go(c, call[c].op, "stopWorker")
  /\ UNCHANGED << workerVars, netVars, buffer, life >>

JoinsAlways(c) == TRUE                               \* the worker waits for itself
JoinsNever(c) == FALSE                               \* stop is set, nobody waits

(* The worker does not wait for itself.                                    *)
Joins(c) == c # "handler"

StopWorker(c) ==
  /\ call[c].at = "stopWorker"
  /\ stop' = (stop \/ thread)
  /\ Go(c, call[c].op, IF thread /\ Joins(c) THEN "join" ELSE "free")
  /\ UNCHANGED << queue, worker, thread, job, netVars, buffer, life >>

Join(c) ==
  /\ call[c].at = "join" /\ worker = "ended"
  /\ thread' = FALSE
  /\ Go(c, call[c].op, "free")
  /\ UNCHANGED << queue, worker, stop, job, netVars, buffer, life >>

CallEnds(c) ==
  /\ call[c].at = "free"
  /\ FreeBuffers(Kept)
  /\ life' = IF call[c].op = "Release" THEN "gone"
             ELSE IF c = "game" THEN "quiet"
             ELSE IF life = "open" THEN "closed" ELSE life
  /\ Return(c)
  /\ UNCHANGED << queue, workerVars, netVars >>

Closes(c) ==
  /\ \/ StopNet(c) \/ WaitNet(c) \/ Farewell(c)
     \/ StopWorker(c) \/ Join(c) \/ CallEnds(c)
  /\ UNCHANGED << isHost, localDpnid, hasPeer, view >>

(* The game makes another object.                                          *)
CreateObject ==
  /\ life = "gone"
  /\ life' = "new" /\ isHost' = FALSE /\ localDpnid' = 0 /\ hasPeer' = FALSE
  /\ queue' = << >> /\ job' = NoJob
  /\ worker' = "none" /\ thread' = FALSE /\ stop' = FALSE
  /\ net' = "none" /\ netThread' = FALSE /\ netStop' = FALSE
  /\ call' = [c \in Callers |-> Idle]
  /\ buffer' = [h \in Handles |-> "none"]
  /\ view' = [p \in Players |-> "none"]

Next ==
  \/ Initialize \/ HostGame \/ EnumHosts \/ Connect
  \/ NetLoop \/ WorkerLoop
  \/ \E c \in Callers :
       \/ \E async \in BOOLEAN : SendTo(c, async)
       \/ Loopback(c) \/ Close(c) \/ Closes(c)
       \/ \E h \in Handles : ReturnBuffer(c, h)
  \/ Release \/ CreateObject

(* The threads run, the handler returns, and a call that can go on does.   *)
Fairness ==
  /\ WF_vars(NetLoop) /\ WF_vars(WorkerLoop)
  /\ \A c \in Callers : WF_vars(Loopback(c)) /\ WF_vars(Closes(c))

Spec == Init /\ [][Next]_vars /\ Fairness

-----------------------------------------------------------------------------
(* The game's view of the players is never told something impossible: each *)
(* player is created once, then destroyed once (DropPeer, Close).          *)
PlayersTold == \A p \in Players : view[p] # "confused"

(* When Close has returned to the game's thread, or the object is gone, no *)
(* thread of it runs and no handler is called.                             *)
ThreadsEnd ==
  life \in {"quiet", "gone"} =>
    /\ worker \in {"none", "ended"} /\ net \in {"none", "ended"}
    /\ call["handler"] = Idle

(* No payload is freed twice, and with the object the last one is freed.   *)
BuffersFreed ==
  /\ \A h \in Handles : buffer[h] # "twice"
  /\ life = "gone" => \A h \in Handles : buffer[h] \in {"none", "freed"}

(* Close and Release return, whichever thread calls them and whatever the  *)
(* others are doing.                                                       *)
CloseReturns ==
  \A c \in Callers : call[c].op \in {"Close", "Release"} ~> call[c] = Idle

(* Not so: a payload the game returned is freed.  The game may be faster   *)
(* than the line after its handler, which then keeps it until Close.       *)
ReturnedFreed == \A h \in Handles : buffer[h] # "stuck"

(* Not so: a Close of the game's thread takes away the player it had       *)
(* announced.  The worker may have found the queue empty just before.      *)
FarewellGiven == life = "quiet" /\ localDpnid # 0 => view[localDpnid] = "none"
=============================================================================
