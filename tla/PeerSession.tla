---------------------------- MODULE PeerSession ----------------------------
(***************************************************************************)
(* Sessions of the peer-to-peer link (class ReplPeer,                      *)
(* directplay-replace/dpnetreplace.cpp): a host object that lives through  *)
(* several joiners, and the joiner objects that come one after the other,  *)
(* each with a socket of its own.  Within a session the guaranteed sends   *)
(* are those of ReliableLink.                                              *)
(*                                                                         *)
(* The game's thread sends and closes; the net thread handles packets and  *)
(* timers.  SendTo reads m_hasPeer under one lock and sends under another, *)
(* so it is two steps here.  A message carries the number of the session   *)
(* its sender was in when the game called SendTo.                          *)
(***************************************************************************)
EXTENDS ReliableLink

CONSTANTS
  MaxAttempts,   \* bound: joiner objects, hence calls of Connect
  PeerTimeout,   \* g_peerTimeoutMs, in keep-alive periods
  Hazards        \* "delay": packets outlive the session they were sent in;
                 \* "straddle": a session may end between the two steps of SendTo

ASSUME SessionAssumption ==
  /\ MaxAttempts \in Nat /\ PeerTimeout \in Nat
  /\ Payloads = 1 .. MaxAttempts

VARIABLES
  opened,     \* m_sock and the net thread are there
  attempt,    \* which joiner object there is, or was last
  peerAddr,   \* the host's m_peerAddr: the joiner object it answers to, or 0
  silence,    \* keep-alive periods since m_lastRecvMs
  sending,    \* SendTo between its two steps: the message, or 0
  remote      \* the game's view of the remote player

sessionVars == << opened, attempt, peerAddr, silence, sending, remote >>
allVars == << vars, sessionVars >>

ConnectPacket(a) == [type |-> "CONNECT", to |-> Host, joiner |-> a]
AcceptPacket     == [type |-> "ACK", to |-> Joiner]
ByePacket(p)     == [type |-> "BYE", to |-> Other(p)]

SessionPackets == Packets \cup {ConnectPacket(a) : a \in 1 .. MaxAttempts}
                          \cup {AcceptPacket} \cup {ByePacket(p) : p \in Peers}

(* What the host sends reaches the joiner object it was addressed to.      *)
Addressed == peerAddr = attempt

(* The session a peer is in, and whether both are in the same one.         *)
SessionOf(p) == IF p = Host THEN peerAddr ELSE attempt
Together == hasPeer[Host] /\ hasPeer[Joiner] /\ Addressed

SessionTypeOK ==
  /\ hasPeer \in [Peers -> BOOLEAN]
  /\ \A p \in Peers : IsMap(unacked[p], Unacked) /\ IsMap(reorder[p], Payloads)
  /\ rSeqOut \in [Peers -> 0 .. MaxSent] /\ rSeqInExpected \in [Peers -> 0 .. MaxSent]
  /\ wire \subseteq SessionPackets
  /\ opened \in [Peers -> BOOLEAN]
  /\ attempt \in 0 .. MaxAttempts /\ peerAddr \in 0 .. MaxAttempts
  /\ silence \in [Peers -> 0 .. PeerTimeout]
  /\ sending \in [Peers -> 0 .. MaxAttempts]
  /\ remote \in [Peers -> {"awaited", "none", "present", "confused"}]

SessionInit ==
  /\ hasPeer = [p \in Peers |-> FALSE]
  /\ rSeqOut = [p \in Peers |-> 0]
  /\ unacked = [p \in Peers |-> EmptyMap]
  /\ rSeqInExpected = [p \in Peers |-> 0]
  /\ reorder = [p \in Peers |-> EmptyMap]
  /\ wire = {}
  /\ sent = [p \in Peers |-> << >>]
  /\ got = [p \in Peers |-> << >>]
  /\ opened = [p \in Peers |-> p = Host]
  /\ attempt = 0
  /\ peerAddr = 0
  /\ silence = [p \in Peers |-> 0]
  /\ sending = [p \in Peers |-> 0]
  /\ remote = [p \in Peers |-> "none"]

-----------------------------------------------------------------------------
(* CREATE_PLAYER and DESTROY_PLAYER jobs for the remote player.            *)
PlayerCreated(p) ==
  remote' = [remote EXCEPT ![p] =
    IF @ \in {"awaited", "none"} THEN "present" ELSE "confused"]
PlayerDestroyed(p) ==
  remote' = [remote EXCEPT ![p] = IF @ = "present" THEN "none" ELSE "confused"]

(* A session begins at p: everything of the last one is reset.             *)
SessionBegins(p) ==
  /\ ResetReliable(p)
  /\ hasPeer' = [hasPeer EXCEPT ![p] = TRUE]
  /\ silence' = [silence EXCEPT ![p] = 0]
  /\ PlayerCreated(p)
  /\ sent' = [sent EXCEPT ![p] = << >>]
  /\ got' = [got EXCEPT ![p] = << >>]

(* A new joiner object: a socket of its own, and one CONNECT, sent once.   *)
Connect ==
  /\ ~opened[Joiner]
  /\ attempt < MaxAttempts
  /\ attempt' = attempt + 1
  /\ opened' = [opened EXCEPT ![Joiner] = TRUE]
  /\ ResetReliable(Joiner)
  /\ remote' = [remote EXCEPT ![Joiner] = "awaited"]
  /\ silence' = [silence EXCEPT ![Joiner] = 0]
  /\ sending' = [sending EXCEPT ![Joiner] = 0]
  /\ sent' = [sent EXCEPT ![Joiner] = << >>]
  /\ got' = [got EXCEPT ![Joiner] = << >>]
  /\ wire' = {pkt \in wire : pkt.to # Joiner} \cup {ConnectPacket(attempt + 1)}
  /\ UNCHANGED << hasPeer, peerAddr >>

(* PKT_CONNECT at a host without a peer; at one with a peer see Ignore.    *)
(* Packets to the joiner object of before are sent to a socket of before.  *)
ReceiveConnect(pkt) ==
  /\ pkt \in wire /\ pkt.type = "CONNECT"
  /\ opened[Host] /\ ~hasPeer[Host]
  /\ SessionBegins(Host)
  /\ peerAddr' = pkt.joiner
  /\ wire' = {w \in wire : /\ "delay" \in Hazards
                           /\ w.to = Joiner => peerAddr = pkt.joiner} \cup {AcceptPacket}
  /\ UNCHANGED << opened, attempt, sending >>

(* PKT_ACK at a joiner that is not connected.                              *)
ReceiveAccept(pkt) ==
  /\ pkt \in wire /\ pkt.type = "ACK" /\ Addressed
  /\ opened[Joiner] /\ ~hasPeer[Joiner]
  /\ SessionBegins(Joiner)
  /\ wire' = IF "delay" \in Hazards THEN wire ELSE wire \ {pkt}
  /\ UNCHANGED << opened, attempt, peerAddr, sending >>

(* Packets a handler does nothing with; they count against the silence.    *)
Ignore(p, pkt) ==
  /\ pkt \in wire /\ pkt.to = p /\ opened[p] /\ hasPeer[p]
  /\ p = Joiner => Addressed
  /\ \/ pkt.type \in {"CONNECT", "ACK"}
     \/ pkt.type = "DATA" /\ pkt.seq > rSeqInExpected[p] + RecvWindow
  /\ silence' = [silence EXCEPT ![p] = 0]
  /\ UNCHANGED << vars, opened, attempt, peerAddr, sending, remote >>

ReceivePayload(p, pkt) ==
  /\ opened[p]
  /\ p = Joiner => Addressed
  /\ ReceiveData(p, pkt) \/ ReceiveAck(p, pkt)
  /\ silence' = [silence EXCEPT ![p] = 0]
  /\ UNCHANGED << opened, attempt, peerAddr, sending, remote >>

(* DropPeer, and the job that tells the game.                              *)
LosePeer(p) ==
  /\ DropPeer(p)
  /\ silence' = [silence EXCEPT ![p] = 0]
  /\ PlayerDestroyed(p)
  /\ UNCHANGED << opened, attempt, peerAddr, sending >>

ReceiveBye(p, pkt) ==
  /\ pkt \in wire /\ pkt.type = "BYE" /\ pkt.to = p
  /\ opened[p]
  /\ p = Joiner => Addressed
  /\ LosePeer(p)

(* The net thread's timers: RetransmitTick, and ConnMaintain once for each *)
(* keep-alive period.                                                      *)
Retransmission(p, due) ==
  /\ opened[p] /\ due # {}
  /\ \/ /\ Resend(p, due)
        /\ UNCHANGED sessionVars
     \/ Exhausted(p, due) /\ LosePeer(p)

(* Mutant: keep-alives only, the peer is never given up.                   *)
ConnMaintainPings(p) ==
  /\ opened[p] /\ hasPeer[p]
  /\ silence[p] < PeerTimeout
  /\ silence' = [silence EXCEPT ![p] = @ + 1]
  /\ UNCHANGED << vars, opened, attempt, peerAddr, sending, remote >>

ConnMaintain(p) ==
  /\ opened[p] /\ hasPeer[p]
  /\ \/ silence[p] >= PeerTimeout /\ LosePeer(p)
     \/ /\ silence[p] < PeerTimeout
        /\ silence' = [silence EXCEPT ![p] = @ + 1]
        /\ UNCHANGED << vars, opened, attempt, peerAddr, sending, remote >>

(* A keep-alive of the other peer is received; one that is lost is no step.*)
ReceivePing(p) ==
  /\ Together /\ opened[Host] /\ opened[Joiner]
  /\ silence[p] > 0
  /\ silence' = [silence EXCEPT ![p] = 0]
  /\ UNCHANGED << vars, opened, attempt, peerAddr, sending, remote >>

(***************************************************************************)
(* The CONNECT of yet another joiner, whom a host with a peer turns away.  *)
(* NetLoop takes the time of every packet before HandlePacket looks at it, *)
(* whoever sent it, so the refused one counts as a sign of the peer.  Such *)
(* joiners are not among the MaxAttempts: they may come without end.       *)
(***************************************************************************)
Knock ==
  /\ opened[Host] /\ hasPeer[Host] /\ ~Together
  /\ silence[Host] > 0
  /\ silence' = [silence EXCEPT ![Host] = 0]
  /\ UNCHANGED << vars, opened, attempt, peerAddr, sending, remote >>

-----------------------------------------------------------------------------
(* The game's thread.  SendTo decides whether there is a peer, then sends. *)
SendToBegins(p) ==
  /\ p \in Senders
  /\ opened[p] /\ hasPeer[p]
  /\ sending[p] = 0
  /\ Len(sent[p]) < MaxSent
  /\ sending' = [sending EXCEPT ![p] = SessionOf(p)]
  /\ UNCHANGED << vars, opened, attempt, peerAddr, silence, remote >>

SendToEnds(p) ==
  /\ sending[p] # 0 /\ opened[p]
  /\ "straddle" \in Hazards \/ (hasPeer[p] /\ sending[p] = SessionOf(p))
  /\ SendDataToPeer(p, sending[p])
  /\ sending' = [sending EXCEPT ![p] = 0]
  /\ UNCHANGED << opened, attempt, peerAddr, silence, remote >>

(* Close, or with `bye` FALSE the end of the process.  Close stops the net *)
(* thread and joins it; a game releases a closed object, so its memory is  *)
(* gone with it.  A host does not come back.                               *)
Close(p, bye) ==
  /\ opened[p]
  /\ opened' = [opened EXCEPT ![p] = FALSE]
  /\ hasPeer' = [hasPeer EXCEPT ![p] = FALSE]
  /\ wire' = IF bye /\ hasPeer[p] THEN wire \cup {ByePacket(p)} ELSE wire
  /\ ResetReliable(p)
  /\ silence' = [silence EXCEPT ![p] = 0]
  /\ sending' = [sending EXCEPT ![p] = 0]
  /\ remote' = [remote EXCEPT ![p] = "none"]
  /\ UNCHANGED << sent, got, attempt, peerAddr >>

LosePacket(pkt) == Lose(pkt) /\ UNCHANGED sessionVars

SessionNext ==
  \/ Connect
  \/ Knock
  \/ \E p \in Peers :
       \/ SendToBegins(p) \/ SendToEnds(p)
       \/ \E bye \in BOOLEAN : Close(p, bye)
       \/ ConnMaintain(p) \/ ReceivePing(p)
       \/ \E due \in SUBSET DOMAIN unacked[p] : Retransmission(p, due)
       \/ \E pkt \in wire : Ignore(p, pkt) \/ ReceivePayload(p, pkt) \/ ReceiveBye(p, pkt)
  \/ \E pkt \in wire : ReceiveConnect(pkt) \/ ReceiveAccept(pkt) \/ LosePacket(pkt)

SessionSpec == SessionInit /\ [][SessionNext]_allVars

(* The net threads run their timers, and a packet is not under way for     *)
(* ever.                                                                   *)
SessionFairness ==
  \A p \in Peers :
    /\ WF_allVars(ConnMaintain(p))
    /\ WF_allVars(\E pkt \in wire : pkt.to = p /\ LosePacket(pkt))

FairSessionSpec == SessionSpec /\ SessionFairness

-----------------------------------------------------------------------------
(* The game is handed only messages the other game sent in this session:   *)
(* "a later reconnect starts clean" (dpnetreplace.cpp:728).                *)
SessionClean ==
  \A p \in Peers : hasPeer[p] =>
    \A i \in 1 .. Len(got[p]) : got[p][i] = SessionOf(p)

(* Delivery in order and what an acknowledgement means survive the end of  *)
(* one session and the start of the next on the same host object.          *)
SessionInOrder == Together => InOrder /\ AckMeansKept

(* The game is told of a player who comes once, of one who goes once, and  *)
(* of none it does not know: "fires DESTROY_PLAYER exactly once"           *)
(* (dpnetreplace.cpp:726-733).                                             *)
PlayersAnnounced ==
  \A p \in Peers :
    /\ remote[p] # "confused"
    /\ opened[p] => (hasPeer[p] <=> remote[p] = "present")

(* A peer that the other side no longer knows is given up, unless they     *)
(* find each other again: no game hangs on a dead connection               *)
(* (dpnetreplace.cpp:883-885).  A host's game may hang on one only while   *)
(* others knock again and again.                                           *)
HalfOpenEnds ==
  /\ (hasPeer[Joiner] /\ ~Together) ~> (~hasPeer[Joiner] \/ Together)
  /\ \/ []<><<Knock>>_allVars
     \/ (hasPeer[Host] /\ ~Together) ~> (~hasPeer[Host] \/ Together)

(* Not so: without the exception.  A host turns the new joiner of its own  *)
(* peer away, and each attempt keeps the peer of before (cpp:778, 789).    *)
HalfOpenAlwaysEnds ==
  \A p \in Peers : (hasPeer[p] /\ ~Together) ~> (~hasPeer[p] \/ Together)

(* "a host that is gone simply makes the following Connect time out"       *)
(* (dpnetreplace.cpp:571-572): a joiner does not wait for ever.            *)
ConnectEnds ==
  (remote[Joiner] = "awaited") ~> (remote[Joiner] # "awaited")
=============================================================================
