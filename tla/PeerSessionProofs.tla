------------------------- MODULE PeerSessionProofs -------------------------
(***************************************************************************)
(* Proofs about PeerSession.  What the game is told of the other player is *)
(* right whatever the network and the two threads do.  Sessions stay apart *)
(* and deliver in order, for any number of them and any window, when none  *)
(* of the two Hazards comes true; with either of them both claims fail.    *)
(***************************************************************************)
EXTENDS PeerSession, ReliableLinkProofs

-----------------------------------------------------------------------------
(* The remote player.  A peer that is there was announced, and one that is *)
(* gone was taken back, so no job contradicts the last one.                *)
Announced ==
  /\ hasPeer \in [Peers -> BOOLEAN]
  /\ opened \in [Peers -> BOOLEAN]
  /\ remote \in [Peers -> {"awaited", "none", "present"}]
  /\ \A p \in Peers : /\ hasPeer[p] => opened[p]
                      /\ opened[p] => (hasPeer[p] <=> remote[p] = "present")

LEMMA AnnouncedImplies == Announced => PlayersAnnounced
BY DEF Announced, PlayersAnnounced

LEMMA InitAnnounced == SessionInit => Announced
BY LinkAssumption DEF SessionInit, Announced, Peers

LEMMA BeginsAnnounced ==
  ASSUME Announced, NEW p \in Peers, opened[p], ~hasPeer[p], SessionBegins(p),
         UNCHANGED opened
  PROVE  Announced'
<1>1. /\ hasPeer' = [hasPeer EXCEPT ![p] = TRUE]
      /\ remote' = [remote EXCEPT ![p] = "present"]
  BY DEF SessionBegins, PlayerCreated, Announced
<1> QED BY <1>1 DEF Announced

LEMMA LoseAnnounced ==
  ASSUME Announced, NEW p \in Peers, LosePeer(p)
  PROVE  Announced'
<1>1. hasPeer[p] /\ UNCHANGED opened
  BY DEF LosePeer, DropPeer
<1>2. /\ hasPeer' = [hasPeer EXCEPT ![p] = FALSE]
      /\ remote' = [remote EXCEPT ![p] = "none"]
  BY <1>1 DEF LosePeer, DropPeer, PlayerDestroyed, Announced
<1> QED BY <1>1, <1>2 DEF Announced

LEMMA SameAnnounced ==
  ASSUME Announced, UNCHANGED << hasPeer, opened, remote >>
  PROVE  Announced'
BY DEF Announced

LEMMA NextAnnounced == Announced /\ [SessionNext]_allVars => Announced'
<1> SUFFICES ASSUME Announced, [SessionNext]_allVars PROVE Announced'
  OBVIOUS
<1>1. CASE UNCHANGED allVars
  BY <1>1, SameAnnounced DEF allVars, vars, sessionVars
<1>2. CASE Connect
  <2>1. /\ UNCHANGED hasPeer /\ ~opened[Joiner]
        /\ opened' = [opened EXCEPT ![Joiner] = TRUE]
        /\ remote' = [remote EXCEPT ![Joiner] = "awaited"]
    BY <1>2 DEF Connect
  <2> QED BY <2>1 DEF Announced, Peers
<1>3. ASSUME NEW pkt \in wire, ReceiveConnect(pkt) PROVE Announced'
  BY <1>3, BeginsAnnounced DEF ReceiveConnect, Peers
<1>4. ASSUME NEW pkt \in wire, ReceiveAccept(pkt) PROVE Announced'
  BY <1>4, BeginsAnnounced DEF ReceiveAccept, Peers
<1>5. ASSUME NEW pkt \in wire, LosePacket(pkt) PROVE Announced'
  BY <1>5, SameAnnounced DEF LosePacket, Lose, sessionVars
<1>6. ASSUME NEW p \in Peers, SendToBegins(p) \/ SendToEnds(p) \/ ReceivePing(p)
      PROVE  Announced'
  BY <1>6, SameAnnounced DEF SendToBegins, SendToEnds, ReceivePing, SendDataToPeer, vars
<1>7. ASSUME NEW p \in Peers, ConnMaintain(p) PROVE Announced'
  BY <1>7, SameAnnounced, LoseAnnounced DEF ConnMaintain, vars
<1>8. ASSUME NEW p \in Peers, NEW bye \in BOOLEAN, Close(p, bye) PROVE Announced'
  <2>1. /\ hasPeer' = [hasPeer EXCEPT ![p] = FALSE]
        /\ opened' = [opened EXCEPT ![p] = FALSE]
        /\ remote' = [remote EXCEPT ![p] = "none"]
    BY <1>8 DEF Close
  <2> QED BY <2>1 DEF Announced
<1>9. ASSUME NEW p \in Peers, NEW due \in SUBSET DOMAIN unacked[p], Retransmission(p, due)
      PROVE  Announced'
  BY <1>9, SameAnnounced, LoseAnnounced DEF Retransmission, Resend, sessionVars
<1>10. ASSUME NEW p \in Peers, NEW pkt \in wire, ReceiveBye(p, pkt) PROVE Announced'
  BY <1>10, LoseAnnounced DEF ReceiveBye
<1>11. ASSUME NEW p \in Peers, NEW pkt \in wire, Ignore(p, pkt) \/ ReceivePayload(p, pkt)
       PROVE  Announced'
  BY <1>11, SameAnnounced DEF Ignore, ReceivePayload, ReceiveData, ReceiveAck, vars
<1>12. CASE Knock
  BY <1>12, SameAnnounced DEF Knock, vars
<1> QED BY <1>1, <1>2, <1>3, <1>4, <1>5, <1>6, <1>7, <1>8, <1>9, <1>10, <1>11, <1>12
        DEF SessionNext

(* Whatever the network and the threads do, no game is told of a player it *)
(* knows already or of the end of one it does not know, and what it knows  *)
(* is whether there is a peer (DropPeer, HandlePacket, Close).             *)
THEOREM PlayersAnnouncedTheorem == SessionSpec => []PlayersAnnounced
BY InitAnnounced, NextAnnounced, AnnouncedImplies, PTL DEF SessionSpec

-----------------------------------------------------------------------------
(***************************************************************************)
(* Sessions stay apart.  The two hazards that end this are the subject of  *)
(* the properties themselves: a message that outlives the session it was   *)
(* sent in, and a session that ends in the middle of SendTo.               *)
(***************************************************************************)
NoHazards == "delay" \notin Hazards /\ "straddle" \notin Hazards

Accepting == AcceptPacket \in wire

(* Both peers are in one session, or the joiner has yet to hear of it.     *)
Linked == hasPeer[Host] /\ Addressed /\ (hasPeer[Joiner] \/ Accepting)

Shape ==
  /\ hasPeer \in [Peers -> BOOLEAN] /\ opened \in [Peers -> BOOLEAN]
  /\ rSeqOut \in [Peers -> Nat] /\ rSeqInExpected \in [Peers -> Nat]
  /\ unacked = [p \in Peers |-> unacked[p]] /\ reorder = [p \in Peers |-> reorder[p]]
  /\ sent = [p \in Peers |-> sent[p]] /\ got = [p \in Peers |-> got[p]]
  /\ sending \in [Peers -> 0 .. MaxAttempts]
  /\ attempt \in 0 .. MaxAttempts /\ peerAddr \in 0 .. attempt

Wires ==
  /\ KnownPackets
  /\ \A pkt \in wire : /\ pkt.type = "ACK" => pkt = AcceptPacket
                       /\ pkt.type = "CONNECT" => pkt.joiner \in 1 .. attempt /\ ~Addressed
                       /\ pkt.type = "DATA" => pkt.msg = peerAddr

(* A joiner's session is the one the host is in, once it has heard of it.  *)
Course ==
  /\ \A p \in Peers : hasPeer[p] => opened[p] /\ SessionOf(p) # 0
  /\ opened[Joiner] => attempt # 0
  /\ hasPeer[Joiner] => Addressed /\ ~Accepting

Blank(p) ==
  /\ ~hasPeer[p] /\ rSeqOut[p] = 0 /\ unacked[p] = EmptyMap /\ rSeqInExpected[p] = 0
  /\ reorder[p] = EmptyMap /\ sent[p] = << >> /\ got[p] = << >>

Waiting == (~Addressed \/ Accepting) => Blank(Joiner)

(* What a peer keeps belongs to its session.                               *)
Messages(S) == [msg : S, retries : 0 .. MaxRetries]

Own ==
  \A p \in Peers :
    /\ ~hasPeer[p] => unacked[p] = EmptyMap
    /\ hasPeer[p] => /\ IsMap(unacked[p], Messages({SessionOf(p)}))
                     /\ IsMap(reorder[p], {SessionOf(p)})
                     /\ sent[p] \in Seq({SessionOf(p)}) /\ got[p] \in Seq({SessionOf(p)})

(* Nothing the host has sent is acknowledged before the joiner has heard.  *)
Unheard ==
  Linked /\ Accepting =>
    /\ \A s \in 0 .. rSeqOut[Host] - 1 : s \in DOMAIN unacked[Host]
    /\ \A pkt \in wire : pkt.type = "DATA_ACK" => pkt.to # Host

SessionInv ==
  /\ Shape /\ Wires /\ Course /\ Waiting /\ Own /\ Unheard
  /\ Linked => IInv

LEMMA TwoPeers ==
  /\ Host \in Peers /\ Joiner \in Peers /\ Host # Joiner
  /\ Other(Host) = Joiner /\ Other(Joiner) = Host
  /\ \A p \in Peers : p = Host \/ p = Joiner
  /\ SessionOf(Host) = peerAddr /\ SessionOf(Joiner) = attempt
  /\ Payloads = 1 .. MaxAttempts /\ MaxAttempts \in Nat
BY LinkAssumption, SessionAssumption DEF Peers, Other, SessionOf

LEMMA EmptyIsMap == \A S : IsMap(EmptyMap, S) /\ DOMAIN EmptyMap = {}
BY DEF IsMap, EmptyMap

LEMMA SessionInvImplies == SessionInv => SessionClean /\ SessionInOrder
<1> SUFFICES ASSUME SessionInv PROVE SessionClean /\ SessionInOrder
  OBVIOUS
<1>1. SessionClean
  <2>1. \A m : \A q \in Seq({m}) : \A i \in 1 .. Len(q) : q[i] = m
    OBVIOUS
  <2> QED BY <2>1 DEF SessionInv, Own, SessionClean
<1>2. SessionInOrder
  BY DEF SessionInv, Linked, Together, SessionInOrder, IInv
<1> QED BY <1>1, <1>2

LEMMA InitSessionInv == SessionInit => SessionInv
<1> SUFFICES ASSUME SessionInit PROVE SessionInv
  OBVIOUS
<1> USE TwoPeers
<1>1. \A p \in Peers : ~hasPeer[p] /\ unacked[p] = EmptyMap
  BY DEF SessionInit
<1>2. wire = {} /\ Addressed /\ ~Accepting /\ ~Linked
  BY <1>1 DEF SessionInit, Addressed, Accepting, Linked
<1>3. Shape
  BY DEF SessionInit, Shape
<1>4. Wires /\ Waiting /\ Unheard
  BY <1>2 DEF Wires, KnownPackets, Waiting, Unheard
<1>5. Course
  BY <1>1, <1>2 DEF SessionInit, Course
<1>6. Own
  BY <1>1 DEF Own
<1> QED BY <1>2, <1>3, <1>4, <1>5, <1>6 DEF SessionInv

-----------------------------------------------------------------------------
(* Steps of the link in a session.                                         *)
SamePlace == UNCHANGED << opened, attempt, peerAddr >>

LEMMA SamePlaceEffect ==
  ASSUME SamePlace
  PROVE  Addressed' = Addressed /\ \A p : SessionOf(p)' = SessionOf(p)
BY DEF SamePlace, Addressed, SessionOf

(* Only the timer of the silence or the message in hand changes.           *)
LEMMA QuietSession ==
  ASSUME SessionInv, UNCHANGED vars, SamePlace, sending' \in [Peers -> 0 .. MaxAttempts]
  PROVE  SessionInv'
<1>1. UNCHANGED << hasPeer, rSeqOut, unacked, rSeqInExpected, reorder, wire, sent, got,
                   opened, attempt, peerAddr >>
  BY DEF vars, relVars, SamePlace
<1>2. /\ Linked' = Linked /\ Accepting' = Accepting /\ Addressed' = Addressed
      /\ \A p : SessionOf(p)' = SessionOf(p) /\ Blank(p)' = Blank(p)
  BY <1>1 DEF Linked, Accepting, Addressed, SessionOf, Blank
<1>3. Shape'
  BY <1>1 DEF SessionInv, Shape
<1>4. Wires'
  BY <1>1, <1>2 DEF SessionInv, Wires, KnownPackets
<1>5. Course' /\ Waiting'
  BY <1>1, <1>2 DEF SessionInv, Course, Waiting
<1>6. Own'
  BY <1>1, <1>2 DEF SessionInv, Own
<1>7. Unheard'
  BY <1>1, <1>2 DEF SessionInv, Unheard
<1>8. (Linked => IInv)'
  BY <1>2, StepIInv DEF SessionInv
<1> QED BY <1>3, <1>4, <1>5, <1>6, <1>7, <1>8 DEF SessionInv

LEMMA ConnectSession ==
  ASSUME SessionInv, Connect
  PROVE  SessionInv'
<1> USE TwoPeers, EmptyIsMap
<1>1. /\ ~opened[Joiner] /\ attempt < MaxAttempts
      /\ attempt' = attempt + 1 /\ UNCHANGED << hasPeer, peerAddr >>
      /\ opened' = [opened EXCEPT ![Joiner] = TRUE]
      /\ rSeqOut' = [rSeqOut EXCEPT ![Joiner] = 0]
      /\ unacked' = [unacked EXCEPT ![Joiner] = EmptyMap]
      /\ rSeqInExpected' = [rSeqInExpected EXCEPT ![Joiner] = 0]
      /\ reorder' = [reorder EXCEPT ![Joiner] = EmptyMap]
      /\ sending' = [sending EXCEPT ![Joiner] = 0]
      /\ sent' = [sent EXCEPT ![Joiner] = << >>]
      /\ got' = [got EXCEPT ![Joiner] = << >>]
      /\ wire' = {pkt \in wire : pkt.to # Joiner} \cup {ConnectPacket(attempt + 1)}
  BY DEF Connect, ResetReliable
<1>2. ~hasPeer[Joiner]
  BY <1>1 DEF SessionInv, Course
<1>3. ~Addressed' /\ ~Linked'
  BY <1>1 DEF SessionInv, Shape, Addressed, Linked
<1>4. Shape'
  <2>1. attempt' \in 0 .. MaxAttempts /\ peerAddr' \in 0 .. attempt'
    BY <1>1 DEF SessionInv, Shape
  <2>2. opened' \in [Peers -> BOOLEAN] /\ sending' \in [Peers -> 0 .. MaxAttempts]
    BY <1>1 DEF SessionInv, Shape
  <2> QED BY <1>1, <2>1, <2>2 DEF SessionInv, Shape
<1>5. Wires'
  <2>1. \A pkt \in wire' : pkt \in wire \/ pkt = ConnectPacket(attempt + 1)
    BY <1>1
  <2>2. KnownPackets'
    BY <2>1 DEF SessionInv, Wires, KnownPackets, ConnectPacket
  <2>3. attempt + 1 \in 1 .. attempt' /\ \A a \in 1 .. attempt : a \in 1 .. attempt'
    BY <1>1 DEF SessionInv, Shape
  <2> QED BY <1>1, <1>3, <2>1, <2>2, <2>3 DEF SessionInv, Wires, ConnectPacket
<1>6. ~Accepting'
  BY <1>1 DEF Accepting, AcceptPacket, ConnectPacket
<1>7. Course'
  <2>1. opened'[Host] = opened[Host] /\ attempt' # 0 /\ SessionOf(Host)' = SessionOf(Host)
    BY <1>1 DEF SessionInv, Shape, SessionOf
  <2> QED BY <1>1, <1>2, <2>1 DEF SessionInv, Course
<1>8. Waiting'
  BY <1>1, <1>2 DEF SessionInv, Shape, Waiting, Blank
<1>9. Own'
  <2>1. /\ ~hasPeer'[Joiner] /\ unacked'[Joiner] = EmptyMap
        /\ hasPeer'[Host] = hasPeer[Host] /\ unacked'[Host] = unacked[Host]
        /\ reorder'[Host] = reorder[Host] /\ sent'[Host] = sent[Host] /\ got'[Host] = got[Host]
        /\ SessionOf(Host)' = SessionOf(Host)
    BY <1>1, <1>2 DEF SessionInv, Shape, SessionOf
  <2> QED BY <2>1 DEF SessionInv, Own
<1> QED BY <1>3, <1>4, <1>5, <1>7, <1>8, <1>9 DEF SessionInv, Unheard

(* The host begins: nothing is under way but its answer, and the joiner it *)
(* answers to has done nothing yet.                                        *)
LEMMA ReceiveConnectSession ==
  ASSUME SessionInv, NoHazards, NEW pkt \in wire, ReceiveConnect(pkt)
  PROVE  SessionInv'
<1> USE TwoPeers, EmptyIsMap
<1>1. /\ opened[Host] /\ ~hasPeer[Host] /\ pkt.type = "CONNECT"
      /\ peerAddr' = pkt.joiner /\ UNCHANGED << opened, attempt, sending >>
      /\ hasPeer' = [hasPeer EXCEPT ![Host] = TRUE]
      /\ rSeqOut' = [rSeqOut EXCEPT ![Host] = 0]
      /\ unacked' = [unacked EXCEPT ![Host] = EmptyMap]
      /\ rSeqInExpected' = [rSeqInExpected EXCEPT ![Host] = 0]
      /\ reorder' = [reorder EXCEPT ![Host] = EmptyMap]
      /\ sent' = [sent EXCEPT ![Host] = << >>]
      /\ got' = [got EXCEPT ![Host] = << >>]
      /\ wire' = {AcceptPacket}
  BY DEF ReceiveConnect, SessionBegins, ResetReliable, NoHazards
<1>2. Blank(Joiner) /\ pkt.joiner \in 1 .. attempt
  BY <1>1 DEF SessionInv, Wires, Waiting
<1>3. /\ Blank(Joiner)' /\ hasPeer'[Host]
      /\ rSeqOut'[Host] = 0 /\ unacked'[Host] = EmptyMap /\ rSeqInExpected'[Host] = 0
      /\ reorder'[Host] = EmptyMap /\ sent'[Host] = << >> /\ got'[Host] = << >>
  BY <1>1, <1>2 DEF SessionInv, Shape, Blank
<1>4. Shape'
  <2>1. attempt' \in 0 .. MaxAttempts /\ peerAddr' \in 0 .. attempt'
    BY <1>1, <1>2 DEF SessionInv, Shape
  <2>2. hasPeer' \in [Peers -> BOOLEAN]
    BY <1>1 DEF SessionInv, Shape
  <2> QED BY <1>1, <2>1, <2>2 DEF SessionInv, Shape
<1>5. Wires' /\ \A w \in wire' : w.type = "ACK"
  BY <1>1 DEF Wires, KnownPackets, AcceptPacket
<1>6. Course' /\ Waiting'
  BY <1>1, <1>2, <1>3 DEF SessionInv, Shape, Course, Waiting, Blank, SessionOf
<1>7. Own'
  <2>1. \A S : << >> \in Seq(S)
    OBVIOUS
  <2> QED BY <1>3, <2>1 DEF Own, Blank
<1>8. Unheard'
  BY <1>3, <1>5 DEF Unheard
<1>9. (Linked => IInv)'
  <2>1. \A p \in Peers : /\ rSeqOut'[p] = 0 /\ unacked'[p] = EmptyMap
                         /\ rSeqInExpected'[p] = 0 /\ reorder'[p] = EmptyMap
                         /\ sent'[p] = << >> /\ got'[p] = << >> /\ Other(p) \in Peers
    BY <1>3 DEF Blank
  <2>2. LinkTypes'
    <3>1. sent' \in [Peers -> Seq(Payloads)] /\ got' \in [Peers -> Seq(Payloads)]
      <4>1. << >> \in Seq(Payloads)
        OBVIOUS
      <4> QED BY <1>4, <2>1, <4>1 DEF Shape
    <3> QED BY <1>4, <1>5, <2>1, <3>1 DEF Shape, Wires, LinkTypes
  <2>3. Counters'
    BY <2>1 DEF Counters
  <2>4. OnWire' /\ InUnacked' /\ InReorder' /\ AcksTrue'
    BY <1>5, <2>1 DEF OnWire, InUnacked, InReorder, AcksTrue
  <2>5. InOrder'
    <3> SUFFICES ASSUME NEW p \in Peers
                 PROVE  /\ Len(got'[p]) <= Len(sent'[Other(p)])
                        /\ got'[p] = SubSeq(sent'[Other(p)], 1, Len(got'[p]))
      BY DEF InOrder
    <3>1. sent'[Other(p)] = << >> /\ got'[p] = << >>
      BY <2>1
    <3> QED BY <3>1
  <2>6. AckMeansKept' /\ WindowBound'
    BY <2>1 DEF AckMeansKept, WindowBound
  <2> QED BY <2>2, <2>3, <2>4, <2>5, <2>6 DEF IInv
<1> QED BY <1>4, <1>5, <1>6, <1>7, <1>8, <1>9 DEF SessionInv

LEMMA ReceiveAcceptSession ==
  ASSUME SessionInv, NoHazards, NEW pkt \in wire, ReceiveAccept(pkt)
  PROVE  SessionInv'
<1> USE TwoPeers, EmptyIsMap
<1>1. /\ opened[Joiner] /\ ~hasPeer[Joiner] /\ pkt.type = "ACK" /\ Addressed
      /\ SamePlace /\ UNCHANGED sending
      /\ hasPeer' = [hasPeer EXCEPT ![Joiner] = TRUE]
      /\ rSeqOut' = [rSeqOut EXCEPT ![Joiner] = 0]
      /\ unacked' = [unacked EXCEPT ![Joiner] = EmptyMap]
      /\ rSeqInExpected' = [rSeqInExpected EXCEPT ![Joiner] = 0]
      /\ reorder' = [reorder EXCEPT ![Joiner] = EmptyMap]
      /\ sent' = [sent EXCEPT ![Joiner] = << >>]
      /\ got' = [got EXCEPT ![Joiner] = << >>]
      /\ wire' = wire \ {pkt}
  BY DEF ReceiveAccept, SessionBegins, ResetReliable, NoHazards, SamePlace
<1>2. pkt = AcceptPacket /\ Accepting /\ Blank(Joiner)
  BY <1>1 DEF SessionInv, Wires, Waiting, Accepting
<1>3. /\ UNCHANGED << rSeqOut, unacked, rSeqInExpected, reorder, sent, got >>
      /\ hasPeer'[Joiner] /\ hasPeer'[Host] = hasPeer[Host]
  BY <1>1, <1>2 DEF SessionInv, Shape, Blank
<1>4. /\ ~Accepting' /\ wire' \subseteq wire
      /\ Addressed' = Addressed /\ \A p : SessionOf(p)' = SessionOf(p)
  BY <1>1, <1>2, SamePlaceEffect DEF Accepting
<1>5. Shape'
  BY <1>1, <1>3 DEF SessionInv, Shape, SamePlace
<1>6. Wires'
  BY <1>1, <1>4 DEF SessionInv, Wires, KnownPackets, SamePlace
<1>7. Course' /\ Waiting'
  BY <1>1, <1>3, <1>4 DEF SessionInv, Course, Waiting, SamePlace
<1>8. Own'
  <2>1. \A S : << >> \in Seq(S)
    OBVIOUS
  <2> QED BY <1>2, <1>3, <1>4, <2>1 DEF SessionInv, Own, Blank
<1>9. ASSUME Linked'
      PROVE  IInv'
  <2>1. Linked
    BY <1>2, <1>3, <1>4, <1>9 DEF Linked
  <2>2. IInv
    BY <2>1 DEF SessionInv
  <2>3. LinkTypes'
    BY <1>3, <1>5, <1>6, <2>2 DEF Shape, Wires, IInv, LinkTypes
  <2>4. Counters'
    BY <1>2, <1>3, <2>2 DEF IInv, Counters, Blank
  <2>5. OnWire' /\ InUnacked' /\ InReorder' /\ InOrder' /\ WindowBound'
    BY <1>3, <1>4, <2>2 DEF IInv, OnWire, InUnacked, InReorder, InOrder, WindowBound
  <2>6. AcksTrue'
    <3> SUFFICES ASSUME NEW ack \in wire', ack.type = "DATA_ACK", hasPeer'[Other(ack.to)]
                 PROVE  \/ ack.seq < rSeqInExpected'[Other(ack.to)]
                        \/ ack.seq \in DOMAIN reorder'[Other(ack.to)]
      BY DEF AcksTrue
    <3>1. ack \in wire /\ ack \in Packets
      BY <1>4 DEF SessionInv, Wires, KnownPackets
    <3>2. ack.to # Host
      BY <1>2, <2>1, <3>1 DEF SessionInv, Unheard
    <3>3. ack.to = Joiner
      BY <3>1, <3>2 DEF Packets
    <3> QED BY <1>3, <2>2, <3>1, <3>3 DEF IInv, AcksTrue
  <2>7. AckMeansKept'
    <3>1. rSeqOut'[Joiner] = 0
      BY <1>2, <1>3 DEF Blank
    <3>2. \A s \in 0 .. rSeqOut'[Host] - 1 : s \in DOMAIN unacked'[Host]
      BY <1>2, <1>3, <2>1 DEF SessionInv, Unheard
    <3> QED BY <3>1, <3>2 DEF AckMeansKept
  <2> QED BY <2>3, <2>4, <2>5, <2>6, <2>7 DEF IInv
<1> QED BY <1>4, <1>5, <1>6, <1>7, <1>8, <1>9 DEF SessionInv, Unheard

(* A session that one side gives up is no longer shared, and cannot begin  *)
(* again: its CONNECT and its answer are gone.                             *)
LEMMA LosePeerSession ==
  ASSUME SessionInv, NEW p \in Peers, LosePeer(p)
  PROVE  SessionInv'
<1> USE TwoPeers, EmptyIsMap
<1>1. /\ hasPeer[p] /\ SamePlace /\ UNCHANGED << wire, sent, got, sending >>
      /\ hasPeer' = [hasPeer EXCEPT ![p] = FALSE]
      /\ rSeqOut' = [rSeqOut EXCEPT ![p] = 0]
      /\ unacked' = [unacked EXCEPT ![p] = EmptyMap]
      /\ rSeqInExpected' = [rSeqInExpected EXCEPT ![p] = 0]
      /\ reorder' = [reorder EXCEPT ![p] = EmptyMap]
  BY DEF LosePeer, DropPeer, ResetReliable, SamePlace
<1>2. /\ ~hasPeer'[p] /\ unacked'[p] = EmptyMap
      /\ \A q \in Peers : q # p =>
           /\ hasPeer'[q] = hasPeer[q] /\ rSeqOut'[q] = rSeqOut[q]
           /\ unacked'[q] = unacked[q] /\ rSeqInExpected'[q] = rSeqInExpected[q]
           /\ reorder'[q] = reorder[q]
  BY <1>1 DEF SessionInv, Shape
<1>3. /\ Accepting' = Accepting /\ Addressed' = Addressed
      /\ \A q : SessionOf(q)' = SessionOf(q)
  BY <1>1, SamePlaceEffect DEF Accepting
<1>4. ~Linked'
  BY <1>1, <1>2, <1>3 DEF SessionInv, Course, Linked
<1>5. Shape'
  BY <1>1 DEF SessionInv, Shape, SamePlace
<1>6. Wires'
  BY <1>1, <1>3 DEF SessionInv, Wires, KnownPackets, SamePlace
<1>7. Course'
  BY <1>1, <1>2, <1>3 DEF SessionInv, Course, SamePlace
<1>8. Waiting'
  BY <1>1, <1>2, <1>3 DEF SessionInv, Course, Waiting, Blank
<1>9. Own'
  BY <1>1, <1>2, <1>3 DEF SessionInv, Own
<1> QED BY <1>4, <1>5, <1>6, <1>7, <1>8, <1>9 DEF SessionInv, Unheard

LEMMA LosePacketSession ==
  ASSUME SessionInv, NEW pkt \in wire, LosePacket(pkt)
  PROVE  SessionInv'
<1>1. /\ UNCHANGED << hasPeer, rSeqOut, unacked, rSeqInExpected, reorder, sent, got,
                      opened, attempt, peerAddr, sending >>
      /\ wire' \subseteq wire /\ Lose(pkt)
  BY DEF LosePacket, Lose, relVars, sessionVars
<1>2. /\ Addressed' = Addressed /\ (Accepting' => Accepting) /\ (Linked' => Linked)
      /\ \A p : SessionOf(p)' = SessionOf(p) /\ Blank(p)' = Blank(p)
  BY <1>1 DEF Addressed, Accepting, Linked, SessionOf, Blank
<1>3. Shape'
  BY <1>1 DEF SessionInv, Shape
<1>4. Wires'
  BY <1>1, <1>2 DEF SessionInv, Wires, KnownPackets
<1>5. Course' /\ Waiting'
  BY <1>1, <1>2 DEF SessionInv, Course, Waiting
<1>6. Own' /\ Unheard'
  BY <1>1, <1>2 DEF SessionInv, Own, Unheard
<1>7. (Linked => IInv)'
  BY <1>1, <1>2, LoseIInv DEF SessionInv
<1> QED BY <1>3, <1>4, <1>5, <1>6, <1>7 DEF SessionInv

(* A peer that sends or receives in its session: everything but the        *)
(* contents of what it keeps.                                              *)
LEMMA InSession ==
  ASSUME SessionInv, NEW p \in Peers, hasPeer[p]
  PROVE  /\ SessionOf(p) = peerAddr /\ SessionOf(p) \in Payloads
         /\ p = Joiner => ~Accepting /\ Addressed
<1> USE TwoPeers
<1>1. SessionOf(p) = peerAddr /\ SessionOf(p) # 0 /\ (p = Joiner => Addressed /\ ~Accepting)
  BY DEF SessionInv, Course, Addressed
<1>2. peerAddr \in 0 .. MaxAttempts
  BY DEF SessionInv, Shape
<1> QED BY <1>1, <1>2

LEMMA SendToEndsSession ==
  ASSUME SessionInv, NoHazards, NEW p \in Peers, SendToEnds(p)
  PROVE  SessionInv'
<1> USE TwoPeers
<1> DEFINE m == SessionOf(p)
           seq == rSeqOut[p]
<1>1. /\ hasPeer[p] /\ SendDataToPeer(p, m) /\ SamePlace
      /\ sending' = [sending EXCEPT ![p] = 0]
  BY DEF SendToEnds, NoHazards, SamePlace
<1>2. m = peerAddr /\ m \in Payloads /\ (p = Joiner => ~Accepting /\ Addressed)
  BY <1>1, InSession
<1> HIDE DEF m
<1>3. /\ UNCHANGED << hasPeer, rSeqInExpected, reorder, got >>
      /\ rSeqOut' = [rSeqOut EXCEPT ![p] = @ + 1]
      /\ unacked' = [unacked EXCEPT ![p] = With(@, seq, [msg |-> m, retries |-> 0])]
      /\ wire' = wire \cup {DataPacket(p, seq, m)}
      /\ sent' = [sent EXCEPT ![p] = Append(@, m)]
  BY <1>1 DEF SendDataToPeer
<1>4. /\ seq \in Nat /\ rSeqOut'[p] = seq + 1
      /\ unacked'[p] = With(unacked[p], seq, [msg |-> m, retries |-> 0])
      /\ sent'[p] = Append(sent[p], m)
      /\ \A q \in Peers : q # p => /\ rSeqOut'[q] = rSeqOut[q] /\ unacked'[q] = unacked[q]
                                   /\ sent'[q] = sent[q]
  BY <1>3 DEF SessionInv, Shape
<1> HIDE DEF seq
<1>5. /\ DataPacket(p, seq, m).type = "DATA" /\ DataPacket(p, seq, m).msg = m
      /\ DataPacket(p, seq, m) \in Packets
  BY <1>2, <1>4, OtherPeer DEF DataPacket, Packets
<1>6. /\ Addressed' = Addressed /\ Accepting' = Accepting /\ Linked' = Linked
      /\ \A q : SessionOf(q)' = SessionOf(q)
  <2>1. Accepting' = Accepting
    BY <1>3 DEF Accepting, AcceptPacket, DataPacket
  <2> QED BY <1>1, <1>3, <2>1, SamePlaceEffect DEF Linked
<1>7. Shape'
  <2>1. sending' \in [Peers -> 0 .. MaxAttempts]
    BY <1>1 DEF SessionInv, Shape
  <2>2. rSeqOut' \in [Peers -> Nat]
    BY <1>3 DEF SessionInv, Shape
  <2> QED BY <1>1, <1>3, <2>1, <2>2 DEF SessionInv, Shape, SamePlace
<1>8. Wires'
  <2>1. KnownPackets'
    BY <1>3, <1>5, PacketsStay DEF SessionInv, Wires
  <2> QED BY <1>1, <1>2, <1>3, <1>5, <1>6, <2>1 DEF SessionInv, Wires, SamePlace
<1>9. Course' /\ Waiting'
  BY <1>1, <1>2, <1>3, <1>4, <1>6 DEF SessionInv, Course, Waiting, Blank, SamePlace
<1>10. Own'
  <2>1. IsMap(unacked'[p], Messages({m}))
    <3> DEFINE old == unacked[p]
               new == [msg |-> m, retries |-> 0]
    <3>1. IsMap(old, Messages({m}))
      BY <1>1 DEF SessionInv, Own, m
    <3>2. new \in Messages({m})
      BY LinkAssumption DEF Messages
    <3>3. unacked'[p] = With(old, seq, new)
      BY <1>4
    <3> DEFINE S == Messages({m})
    <3> HIDE DEF old, new, S
    <3>4. IsMap(With(old, seq, new), S)
      BY <1>4, <3>1, <3>2, WithIsMap DEF S
    <3> QED BY <3>3, <3>4 DEF S
  <2>2. sent'[p] \in Seq({m})
    BY <1>1, <1>4 DEF SessionInv, Own, m
  <2> QED BY <1>1, <1>3, <1>4, <1>6, <2>1, <2>2 DEF SessionInv, Own, m
<1>11. Unheard'
  <2> SUFFICES ASSUME Linked, Accepting
               PROVE  /\ \A s \in 0 .. rSeqOut'[Host] - 1 : s \in DOMAIN unacked'[Host]
                      /\ \A pkt \in wire' : pkt.type = "DATA_ACK" => pkt.to # Host
    BY <1>6 DEF Unheard
  <2>1. p = Host
    BY <1>2
  <2>2. DOMAIN unacked'[Host] = DOMAIN unacked[Host] \cup {seq}
    BY <1>4, <2>1 DEF With
  <2>3. \A s \in 0 .. seq - 1 : s \in DOMAIN unacked[Host]
    BY <2>1 DEF SessionInv, Unheard, seq
  <2>4. \A s \in 0 .. rSeqOut'[Host] - 1 : s \in DOMAIN unacked'[Host]
    BY <1>4, <2>1, <2>2, <2>3
  <2> QED BY <1>3, <1>5, <2>4 DEF SessionInv, Unheard
<1>12. (Linked => IInv)'
  BY <1>1, <1>2, <1>6, SendIInv DEF SessionInv
<1> QED BY <1>7, <1>8, <1>9, <1>10, <1>11, <1>12 DEF SessionInv

LEMMA ResendSession ==
  ASSUME SessionInv, NEW p \in Peers, NEW due \in SUBSET DOMAIN unacked[p], due # {},
         Resend(p, due), UNCHANGED sessionVars
  PROVE  SessionInv'
<1> USE TwoPeers, EmptyIsMap
<1> DEFINE m == SessionOf(p)
           again == {DataPacket(p, s, unacked[p][s].msg) : s \in due}
<1>1. /\ SamePlace
      /\ UNCHANGED << hasPeer, rSeqOut, rSeqInExpected, reorder, sent, got, sending >>
      /\ wire' = wire \cup again
      /\ unacked' = [unacked EXCEPT ![p] =
           [s \in DOMAIN @ |-> IF s \in due THEN Retried(@[s]) ELSE @[s]]]
  BY DEF Resend, SamePlace, sessionVars
<1>2. hasPeer[p]
  BY DEF SessionInv, Own
<1>3. m = peerAddr /\ m \in Payloads /\ (p = Joiner => ~Accepting /\ Addressed)
  BY <1>2, InSession
<1>4. IsMap(unacked[p], Messages({m}))
  BY <1>2 DEF SessionInv, Own
<1> HIDE DEF m
<1>5. /\ DOMAIN unacked'[p] = DOMAIN unacked[p]
      /\ \A s \in DOMAIN unacked[p] :
           unacked'[p][s] = IF s \in due THEN Retried(unacked[p][s]) ELSE unacked[p][s]
      /\ unacked'[p] = [s \in DOMAIN unacked'[p] |-> unacked'[p][s]]
      /\ \A q \in Peers : q # p => unacked'[q] = unacked[q]
  BY <1>1 DEF SessionInv, Shape
<1>6. \A pkt \in again : pkt.type = "DATA" /\ pkt.msg = m /\ pkt \in Packets
  <2> SUFFICES ASSUME NEW s \in due
               PROVE  LET pkt == DataPacket(p, s, unacked[p][s].msg)
                      IN  pkt.type = "DATA" /\ pkt.msg = m /\ pkt \in Packets
    OBVIOUS
  <2>1. s \in Nat /\ unacked[p][s].msg = m
    BY <1>4 DEF IsMap, Messages
  <2> QED BY <1>3, <2>1, OtherPeer DEF DataPacket, Packets
<1> HIDE DEF again
<1>7. /\ Addressed' = Addressed /\ Accepting' = Accepting /\ Linked' = Linked
      /\ \A q : SessionOf(q)' = SessionOf(q)
  <2>1. Accepting' = Accepting
    BY <1>1, <1>6 DEF Accepting, AcceptPacket
  <2> QED BY <1>1, <2>1, SamePlaceEffect DEF Linked
<1>8. Shape'
  BY <1>1 DEF SessionInv, Shape, SamePlace
<1>9. Wires'
  <2>1. KnownPackets'
    BY <1>1, <1>6, PacketsStay DEF SessionInv, Wires
  <2> QED BY <1>1, <1>3, <1>6, <1>7, <2>1 DEF SessionInv, Wires, SamePlace
<1>10. Course' /\ Waiting'
  BY <1>1, <1>3, <1>5, <1>7 DEF SessionInv, Course, Waiting, Blank, SamePlace
<1>11. Own'
  <2>1. \A s \in DOMAIN unacked[p] : unacked'[p][s] \in Messages({m})
    <3> TAKE s \in DOMAIN unacked[p]
    <3> DEFINE kept == unacked[p][s]
    <3>1. kept \in Messages({m}) /\ unacked'[p][s] = IF s \in due THEN Retried(kept) ELSE kept
      BY <1>4, <1>5 DEF IsMap
    <3>2. s \in due => ~(kept.retries >= MaxRetries)
      BY DEF Resend, Exhausted
    <3> HIDE DEF kept
    <3>3. s \in due => Retried(kept) \in Messages({m})
      BY <3>1, <3>2, LinkAssumption DEF Messages, Retried
    <3> QED BY <3>1, <3>3
  <2>2. IsMap(unacked'[p], Messages({m}))
    BY <1>4, <1>5, <2>1 DEF IsMap
  <2> QED BY <1>1, <1>2, <1>5, <1>7, <2>2 DEF SessionInv, Own, m
<1>12. Unheard'
  BY <1>1, <1>5, <1>6, <1>7 DEF SessionInv, Unheard
<1>13. (Linked => IInv)'
  BY <1>7, ResendIInv DEF SessionInv
<1> QED BY <1>8, <1>9, <1>10, <1>11, <1>12, <1>13 DEF SessionInv

(* What a received packet adds to the buffer and to what the game is       *)
(* handed has the values of before and the packet's.                       *)
LEMMA ReceivedValues ==
  ASSUME NEW V, Shape, NEW p \in Peers, NEW seq \in Nat, NEW m \in V,
         IsMap(reorder[p], V), got[p] \in Seq(V),
         ReceiveInOrder(p, seq, m) \/ ReceiveDuplicate(p, seq) \/ ReceiveAhead(p, seq, m)
  PROVE  /\ IsMap(reorder'[p], V) /\ got'[p] \in Seq(V)
         /\ rSeqInExpected' \in [Peers -> Nat]
         /\ reorder' = [q \in Peers |-> reorder'[q]] /\ got' = [q \in Peers |-> got'[q]]
         /\ \A q \in Peers : q # p => /\ rSeqInExpected'[q] = rSeqInExpected[q]
                                      /\ reorder'[q] = reorder[q] /\ got'[q] = got[q]
<1> DEFINE old == reorder[p]
<1>1. CASE ReceiveDuplicate(p, seq)
  BY <1>1 DEF ReceiveDuplicate, Shape
<1>2. CASE ReceiveAhead(p, seq, m)
  <2>1. /\ reorder' = [reorder EXCEPT ![p] = IF seq \in DOMAIN old THEN old ELSE With(old, seq, m)]
        /\ UNCHANGED << rSeqInExpected, got >>
    BY <1>2 DEF ReceiveAhead
  <2>2. reorder'[p] = IF seq \in DOMAIN old THEN old ELSE With(old, seq, m)
    BY <2>1 DEF Shape
  <2> HIDE DEF old
  <2>3. IsMap(With(old, seq, m), V)
    BY WithIsMap DEF old
  <2>4. IsMap(reorder'[p], V)
    BY <2>2, <2>3 DEF old
  <2> QED BY <2>1, <2>4 DEF Shape
<1>3. CASE ReceiveInOrder(p, seq, m)
  <2>1. PICK e \in seq + 1 .. seq + RecvWindow + 1 :
          /\ seq + 1 .. e - 1 \subseteq DOMAIN reorder[p]
          /\ rSeqInExpected' = [rSeqInExpected EXCEPT ![p] = e]
          /\ reorder' = [reorder EXCEPT ![p] = Without(@, seq + 1 .. e - 1)]
          /\ got' = [got EXCEPT ![p] = @ \o
               [i \in 1 .. e - seq |-> IF i = 1 THEN m ELSE reorder[p][seq + i - 1]]]
    BY <1>3 DEF ReceiveInOrder
  <2> DEFINE run == seq + 1 .. e - 1
             n == e - seq
             tail == [i \in 1 .. n |-> IF i = 1 THEN m ELSE old[seq + i - 1]]
  <2>2. e \in Nat /\ n \in Nat
    BY <2>1, LinkAssumption
  <2>3. \A i \in 1 .. n : i # 1 => seq + i - 1 \in run
    BY <2>2
  <2>4. \A i \in 1 .. n : tail[i] \in V
    BY <2>1, <2>3 DEF IsMap
  <2>5. tail \in Seq(V)
    BY <2>2, <2>4, SeqDef
  <2>6. got'[p] = got[p] \o tail
    BY <2>1 DEF Shape
  <2> HIDE DEF tail, n
  <2>7. got'[p] \in Seq(V)
    BY <2>5, <2>6
  <2>8. reorder'[p] = Without(old, run)
    BY <2>1 DEF Shape
  <2> HIDE DEF old, run
  <2>9. IsMap(old, V)
    BY DEF old
  <2>10. IsMap(Without(old, run), V)
    BY <2>9, WithoutIsMap
  <2>11. IsMap(reorder'[p], V)
    BY <2>8, <2>10
  <2>12. rSeqInExpected' \in [Peers -> Nat]
    BY <2>1, <2>2 DEF Shape
  <2> QED BY <2>1, <2>7, <2>11, <2>12 DEF Shape
<1> QED BY <1>1, <1>2, <1>3

LEMMA ReceiveDataSession ==
  ASSUME SessionInv, NEW p \in Peers, NEW pkt \in wire, ReceiveData(p, pkt),
         SamePlace, UNCHANGED sending
  PROVE  SessionInv'
<1> USE TwoPeers
<1> DEFINE m == SessionOf(p)
           ack == AckPacket(p, pkt.seq)
<1>1. /\ hasPeer[p] /\ pkt.type = "DATA" /\ pkt.to = p /\ wire' = wire \cup {ack}
      /\ UNCHANGED << hasPeer, rSeqOut, unacked, sent >>
      /\ \/ ReceiveInOrder(p, pkt.seq, pkt.msg) \/ ReceiveDuplicate(p, pkt.seq)
         \/ ReceiveAhead(p, pkt.seq, pkt.msg)
  BY DEF ReceiveData
<1>2. m = peerAddr /\ (p = Joiner => ~Accepting /\ Addressed)
  BY <1>1, InSession
<1>3. pkt.seq \in Nat /\ pkt.msg = m
  BY <1>1, <1>2 DEF SessionInv, Wires, KnownPackets, Packets
<1>4. /\ ack.type = "DATA_ACK" /\ ack.to = Other(p) /\ ack \in Packets
  BY <1>3, OtherPeer DEF AckPacket, Packets
<1> HIDE DEF ack
<1>5. /\ IsMap(reorder'[p], {m}) /\ got'[p] \in Seq({m})
      /\ rSeqInExpected' \in [Peers -> Nat]
      /\ reorder' = [q \in Peers |-> reorder'[q]] /\ got' = [q \in Peers |-> got'[q]]
      /\ \A q \in Peers : q # p => /\ rSeqInExpected'[q] = rSeqInExpected[q]
                                   /\ reorder'[q] = reorder[q] /\ got'[q] = got[q]
  <2>1. Shape /\ IsMap(reorder[p], {m}) /\ got[p] \in Seq({m})
    BY <1>1 DEF SessionInv, Own
  <2> HIDE DEF m
  <2> QED BY <1>1, <1>3, <2>1, ReceivedValues
<1> HIDE DEF m
<1>6. /\ Addressed' = Addressed /\ Accepting' = Accepting /\ Linked' = Linked
      /\ \A q : SessionOf(q)' = SessionOf(q)
  <2>1. Accepting' = Accepting
    BY <1>1, <1>4 DEF Accepting, AcceptPacket
  <2> QED BY <1>1, <2>1, SamePlaceEffect DEF Linked
<1>7. Shape'
  BY <1>1, <1>5 DEF SessionInv, Shape, SamePlace
<1>8. Wires'
  <2>1. KnownPackets'
    BY <1>1, <1>4, PacketsStay DEF SessionInv, Wires
  <2> QED BY <1>1, <1>4, <1>6, <2>1 DEF SessionInv, Wires, SamePlace
<1>9. Course' /\ Waiting'
  BY <1>1, <1>2, <1>5, <1>6 DEF SessionInv, Course, Waiting, Blank, SamePlace
<1>10. Own'
  BY <1>1, <1>5, <1>6 DEF SessionInv, Own, m
<1>11. Unheard'
  BY <1>1, <1>2, <1>4, <1>6 DEF SessionInv, Unheard
<1>12. (Linked => IInv)'
  BY <1>1, <1>6, InOrderIInv, DuplicateIInv, AheadIInv DEF SessionInv
<1> QED BY <1>7, <1>8, <1>9, <1>10, <1>11, <1>12 DEF SessionInv

LEMMA ReceiveAckSession ==
  ASSUME SessionInv, NEW p \in Peers, NEW pkt \in wire, ReceiveAck(p, pkt),
         SamePlace, UNCHANGED sending
  PROVE  SessionInv'
<1> USE TwoPeers
<1>1. /\ pkt.type = "DATA_ACK" /\ pkt.to = p
      /\ UNCHANGED << hasPeer, rSeqOut, rSeqInExpected, reorder, wire, sent, got >>
      /\ unacked' = [unacked EXCEPT ![p] = Without(@, {pkt.seq})]
  BY DEF ReceiveAck
<1>2. /\ unacked'[p] = Without(unacked[p], {pkt.seq})
      /\ unacked' = [q \in Peers |-> unacked'[q]]
      /\ \A q \in Peers : q # p => unacked'[q] = unacked[q]
  BY <1>1 DEF SessionInv, Shape
<1>3. unacked[p] = EmptyMap => unacked'[p] = EmptyMap
  BY <1>2 DEF Without, EmptyMap
<1>4. /\ Addressed' = Addressed /\ Accepting' = Accepting /\ Linked' = Linked
      /\ \A q : SessionOf(q)' = SessionOf(q)
  BY <1>1, SamePlaceEffect DEF Accepting, Linked
<1>5. Shape'
  BY <1>1, <1>2 DEF SessionInv, Shape, SamePlace
<1>6. Wires'
  BY <1>1, <1>4 DEF SessionInv, Wires, KnownPackets, SamePlace
<1>7. Course' /\ Waiting'
  BY <1>1, <1>2, <1>3, <1>4 DEF SessionInv, Course, Waiting, Blank, SamePlace
<1>8. Own'
  <2>1. hasPeer[p] => IsMap(unacked'[p], Messages({SessionOf(p)}))
    <3> DEFINE old == unacked[p]
    <3>1. hasPeer[p] => IsMap(old, Messages({SessionOf(p)}))
      BY DEF SessionInv, Own
    <3>2. unacked'[p] = Without(old, {pkt.seq})
      BY <1>2
    <3> HIDE DEF old
    <3>3. ASSUME NEW V, IsMap(old, V) PROVE IsMap(Without(old, {pkt.seq}), V)
      BY <3>3, WithoutIsMap
    <3> QED BY <3>1, <3>2, <3>3
  <2> QED BY <1>1, <1>2, <1>3, <1>4, <2>1 DEF SessionInv, Own
<1>9. Unheard'
  BY <1>1, <1>2, <1>4 DEF SessionInv, Unheard
<1>10. (Linked => IInv)'
  BY <1>4, ReceiveAckIInv DEF SessionInv
<1> QED BY <1>5, <1>6, <1>7, <1>8, <1>9, <1>10 DEF SessionInv

LEMMA CloseSession ==
  ASSUME SessionInv, NEW p \in Peers, NEW bye \in BOOLEAN, Close(p, bye)
  PROVE  SessionInv'
<1> USE TwoPeers, EmptyIsMap
<1>1. /\ UNCHANGED << sent, got, attempt, peerAddr >>
      /\ opened' = [opened EXCEPT ![p] = FALSE]
      /\ hasPeer' = [hasPeer EXCEPT ![p] = FALSE]
      /\ wire' = IF bye /\ hasPeer[p] THEN wire \cup {ByePacket(p)} ELSE wire
      /\ sending' = [sending EXCEPT ![p] = 0]
      /\ rSeqOut' = [rSeqOut EXCEPT ![p] = 0]
      /\ unacked' = [unacked EXCEPT ![p] = EmptyMap]
      /\ rSeqInExpected' = [rSeqInExpected EXCEPT ![p] = 0]
      /\ reorder' = [reorder EXCEPT ![p] = EmptyMap]
  BY DEF Close, ResetReliable
<1>2. /\ ~hasPeer'[p] /\ ~opened'[p] /\ unacked'[p] = EmptyMap
      /\ rSeqOut'[p] = 0 /\ rSeqInExpected'[p] = 0 /\ reorder'[p] = EmptyMap
      /\ \A q \in Peers : q # p =>
           /\ hasPeer'[q] = hasPeer[q] /\ opened'[q] = opened[q] /\ rSeqOut'[q] = rSeqOut[q]
           /\ unacked'[q] = unacked[q] /\ rSeqInExpected'[q] = rSeqInExpected[q]
           /\ reorder'[q] = reorder[q]
  BY <1>1 DEF SessionInv, Shape
<1>3. /\ Accepting' = Accepting /\ Addressed' = Addressed
      /\ \A q : SessionOf(q)' = SessionOf(q)
      /\ \A pkt \in wire' : pkt \in wire \/ pkt.type = "BYE"
  BY <1>1 DEF Accepting, Addressed, SessionOf, AcceptPacket, ByePacket
<1>4. Shape'
  <2>1. sending' \in [Peers -> 0 .. MaxAttempts]
    BY <1>1 DEF SessionInv, Shape
  <2> QED BY <1>1, <2>1 DEF SessionInv, Shape
<1>5. Wires'
  BY <1>1, <1>3 DEF SessionInv, Wires, KnownPackets
<1>6. Course' /\ Waiting'
  BY <1>1, <1>2, <1>3 DEF SessionInv, Course, Waiting, Blank
<1>7. Own'
  BY <1>1, <1>2, <1>3 DEF SessionInv, Own
<1>8. ASSUME Linked'
      PROVE  UNCHANGED vars /\ Linked
  <2>1. p = Joiner /\ ~hasPeer[Joiner] /\ Accepting
    BY <1>2, <1>3, <1>8 DEF SessionInv, Course, Linked
  <2>2. Blank(Joiner)
    BY <2>1 DEF SessionInv, Waiting
  <2>3. UNCHANGED << rSeqOut, unacked, rSeqInExpected, reorder >>
    BY <1>1, <2>1, <2>2 DEF SessionInv, Shape, Blank
  <2>4. UNCHANGED << hasPeer, wire >>
    BY <1>1, <2>1 DEF SessionInv, Shape
  <2> QED BY <1>1, <1>3, <1>8, <2>3, <2>4 DEF vars, relVars, Linked
<1>9. Unheard' /\ (Linked => IInv)'
  <2> SUFFICES ASSUME Linked' PROVE Unheard' /\ IInv'
    BY DEF Unheard
  <2>1. UNCHANGED vars /\ Linked
    BY <1>8
  <2>2. IInv'
    BY <2>1, StepIInv DEF SessionInv
  <2>3. UNCHANGED << rSeqOut, unacked, wire >>
    BY <2>1 DEF vars, relVars
  <2> QED BY <1>3, <2>1, <2>2, <2>3 DEF SessionInv, Unheard
<1> QED BY <1>4, <1>5, <1>6, <1>7, <1>9 DEF SessionInv

-----------------------------------------------------------------------------
LEMMA NextSessionInv == NoHazards /\ SessionInv /\ [SessionNext]_allVars => SessionInv'
<1> SUFFICES ASSUME NoHazards, SessionInv, [SessionNext]_allVars PROVE SessionInv'
  OBVIOUS
<1>1. CASE UNCHANGED allVars
  BY <1>1, QuietSession DEF allVars, sessionVars, SamePlace, SessionInv, Shape
<1>2. CASE Connect
  BY <1>2, ConnectSession
<1>3. ASSUME NEW pkt \in wire, ReceiveConnect(pkt) \/ ReceiveAccept(pkt) \/ LosePacket(pkt)
      PROVE  SessionInv'
  BY <1>3, ReceiveConnectSession, ReceiveAcceptSession, LosePacketSession
<1>4. ASSUME NEW p \in Peers, SendToBegins(p) PROVE SessionInv'
  <2>1. SessionOf(p) \in 0 .. MaxAttempts
    <3>1. attempt \in 0 .. MaxAttempts /\ peerAddr \in 0 .. MaxAttempts
      BY TwoPeers DEF SessionInv, Shape
    <3> QED BY <3>1 DEF SessionOf
  <2>2. sending' \in [Peers -> 0 .. MaxAttempts]
    BY <1>4, <2>1 DEF SendToBegins, SessionInv, Shape
  <2> QED BY <1>4, <2>2, QuietSession DEF SendToBegins, SamePlace
<1>5. ASSUME NEW p \in Peers, SendToEnds(p) PROVE SessionInv'
  BY <1>5, SendToEndsSession
<1>6. ASSUME NEW p \in Peers, ReceivePing(p) PROVE SessionInv'
  BY <1>6, QuietSession DEF ReceivePing, SamePlace, SessionInv, Shape
<1>7. ASSUME NEW p \in Peers, ConnMaintain(p) PROVE SessionInv'
  BY <1>7, QuietSession, LosePeerSession DEF ConnMaintain, SamePlace, SessionInv, Shape
<1>8. ASSUME NEW p \in Peers, NEW bye \in BOOLEAN, Close(p, bye) PROVE SessionInv'
  BY <1>8, CloseSession
<1>9. ASSUME NEW p \in Peers, NEW due \in SUBSET DOMAIN unacked[p], Retransmission(p, due)
      PROVE  SessionInv'
  BY <1>9, ResendSession, LosePeerSession DEF Retransmission
<1>10. ASSUME NEW p \in Peers, NEW pkt \in wire, ReceiveBye(p, pkt) PROVE SessionInv'
  BY <1>10, LosePeerSession DEF ReceiveBye
<1>11. ASSUME NEW p \in Peers, NEW pkt \in wire, Ignore(p, pkt) PROVE SessionInv'
  BY <1>11, QuietSession DEF Ignore, SamePlace, SessionInv, Shape
<1>12. ASSUME NEW p \in Peers, NEW pkt \in wire, ReceivePayload(p, pkt) PROVE SessionInv'
  BY <1>12, ReceiveDataSession, ReceiveAckSession DEF ReceivePayload, SamePlace
<1>13. CASE Knock
  BY <1>13, QuietSession DEF Knock, SamePlace, SessionInv, Shape
<1> QED BY <1>1, <1>2, <1>3, <1>4, <1>5, <1>6, <1>7, <1>8, <1>9, <1>10, <1>11, <1>12,
           <1>13 DEF SessionNext

(* If no packet outlives its session and no session ends within SendTo,    *)
(* the game is handed only messages of the session it is in: both ends are *)
(* reset where a session begins (ResetReliable, HandlePacket).             *)
THEOREM SessionCleanTheorem == NoHazards /\ SessionSpec => []SessionClean
<1> SUFFICES ASSUME NoHazards PROVE SessionSpec => []SessionClean
  OBVIOUS
<1>1. SessionInv /\ [SessionNext]_allVars => SessionInv'
  BY NextSessionInv
<1> QED BY <1>1, InitSessionInv, SessionInvImplies, PTL DEF SessionSpec

(* Under the same condition delivery in order and what an acknowledgement  *)
(* means hold in every session, not only in the first (ReliableLink's      *)
(* invariant is the one of each session).                                  *)
THEOREM SessionInOrderTheorem == NoHazards /\ SessionSpec => []SessionInOrder
<1> SUFFICES ASSUME NoHazards PROVE SessionSpec => []SessionInOrder
  OBVIOUS
<1>1. SessionInv /\ [SessionNext]_allVars => SessionInv'
  BY NextSessionInv
<1> QED BY <1>1, InitSessionInv, SessionInvImplies, PTL DEF SessionSpec
=============================================================================
