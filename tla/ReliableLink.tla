---------------------------- MODULE ReliableLink ----------------------------
(***************************************************************************)
(* Guaranteed sends between two peers that have found each other (class    *)
(* ReplPeer, directplay-replace/dpnetreplace.cpp): sequence numbers,       *)
(* acknowledgements, retransmission, the reorder buffer, the loss of the   *)
(* peer.  Finding each other and starting over is module PeerSession's.    *)
(*                                                                         *)
(* The game's thread sends and the net thread does the rest; m_relLock     *)
(* covers each step on the maps, so the steps below are atomic.  UDP is a  *)
(* set of packets: a packet may be received in any order, more than once   *)
(* or, after Lose, no more.                                                *)
(***************************************************************************)
EXTENDS Naturals, Sequences, FiniteSets

CONSTANTS
  Host, Joiner,   \* the two peers
  Payloads,       \* what the game sends
  MaxRetries,     \* RELIABLE_MAX_RETRIES
  RecvWindow,     \* RECV_WINDOW
  MaxSent,        \* bound: guaranteed messages a peer sends
  Senders         \* peers whose game sends any

ASSUME LinkAssumption ==
  /\ Host # Joiner
  /\ MaxRetries \in Nat /\ RecvWindow \in Nat /\ MaxSent \in Nat
  /\ Senders \subseteq {Host, Joiner}

VARIABLES
  hasPeer,          \* m_hasPeer
  rSeqOut,          \* m_rSeqOut
  unacked,          \* m_unacked: seq -> packet and number of retries
  rSeqInExpected,   \* m_rSeqInExpected
  reorder,          \* m_reorder: seq -> payload
  wire,             \* packets under way
  sent,             \* all guaranteed messages the game has sent
  got               \* all RECEIVE jobs queued for the game, guaranteed ones

relVars == << rSeqOut, unacked, rSeqInExpected, reorder >>
vars == << hasPeer, relVars, wire, sent, got >>

Peers == {Host, Joiner}
Other(p) == IF p = Host THEN Joiner ELSE Host

DataPacket(p, seq, m) == [type |-> "DATA", to |-> Other(p), seq |-> seq, msg |-> m]
AckPacket(p, seq)     == [type |-> "DATA_ACK", to |-> Other(p), seq |-> seq]

Packets ==
  [type : {"DATA"}, to : Peers, seq : Nat, msg : Payloads] \cup
  [type : {"DATA_ACK"}, to : Peers, seq : Nat]

(* What m_unacked keeps: the packet and how often it was sent again.       *)
Unacked == [msg : Payloads, retries : 0 .. MaxRetries]

(* std::map: the empty one, insertion and removal.                         *)
EmptyMap == [s \in {} |-> 0]
With(map, key, value) ==
  [s \in DOMAIN map \cup {key} |-> IF s = key THEN value ELSE map[s]]
Without(map, keys) == [s \in DOMAIN map \ keys |-> map[s]]

IsMap(map, Values) ==
  /\ map = [s \in DOMAIN map |-> map[s]]
  /\ DOMAIN map \subseteq Nat
  /\ \A s \in DOMAIN map : map[s] \in Values

TypeOK ==
  /\ hasPeer \in [Peers -> BOOLEAN]
  /\ rSeqOut \in [Peers -> Nat]
  /\ unacked = [p \in Peers |-> unacked[p]]
  /\ \A p \in Peers : IsMap(unacked[p], Unacked)
  /\ rSeqInExpected \in [Peers -> Nat]
  /\ reorder = [p \in Peers |-> reorder[p]]
  /\ \A p \in Peers : IsMap(reorder[p], Payloads)
  /\ wire \subseteq Packets
  /\ sent \in [Peers -> Seq(Payloads)]
  /\ got \in [Peers -> Seq(Payloads)]

Init ==
  /\ hasPeer = [p \in Peers |-> TRUE]
  /\ rSeqOut = [p \in Peers |-> 0]
  /\ unacked = [p \in Peers |-> EmptyMap]
  /\ rSeqInExpected = [p \in Peers |-> 0]
  /\ reorder = [p \in Peers |-> EmptyMap]
  /\ wire = {}
  /\ sent = [p \in Peers |-> << >>]
  /\ got = [p \in Peers |-> << >>]

-----------------------------------------------------------------------------
(* The guaranteed part of SendDataToPeer: number the message, keep it,     *)
(* send it.                                                                *)
SendDataToPeer(p, m) ==
  /\ Len(sent[p]) < MaxSent
  /\ rSeqOut' = [rSeqOut EXCEPT ![p] = @ + 1]
  /\ unacked' = [unacked EXCEPT ![p] = With(@, rSeqOut[p], [msg |-> m, retries |-> 0])]
  /\ wire' = wire \cup {DataPacket(p, rSeqOut[p], m)}
  /\ sent' = [sent EXCEPT ![p] = Append(@, m)]
  /\ UNCHANGED << hasPeer, rSeqInExpected, reorder, got >>

(* SendTo the peer or everybody, while there is a peer.                    *)
SendTo(p, m) == p \in Senders /\ hasPeer[p] /\ SendDataToPeer(p, m)

(* Mutants of ResetReliable: one side of the connection is not reset.      *)
ResetSending(p) ==
  /\ rSeqOut' = [rSeqOut EXCEPT ![p] = 0]
  /\ unacked' = [unacked EXCEPT ![p] = EmptyMap]
  /\ UNCHANGED << rSeqInExpected, reorder >>

ResetReceiving(p) ==
  /\ rSeqInExpected' = [rSeqInExpected EXCEPT ![p] = 0]
  /\ reorder' = [reorder EXCEPT ![p] = EmptyMap]
  /\ UNCHANGED << rSeqOut, unacked >>

ResetReliable(p) ==
  /\ rSeqOut' = [rSeqOut EXCEPT ![p] = 0]
  /\ unacked' = [unacked EXCEPT ![p] = EmptyMap]
  /\ rSeqInExpected' = [rSeqInExpected EXCEPT ![p] = 0]
  /\ reorder' = [reorder EXCEPT ![p] = EmptyMap]

(* Mutant: a peer that was dropped is dropped again.                       *)
DropAgain(p) ==
  /\ hasPeer' = [hasPeer EXCEPT ![p] = FALSE]
  /\ ResetReliable(p)
  /\ UNCHANGED << wire, sent, got >>

(* DropPeer: effective once, by the test-and-clear of m_hasPeer.           *)
DropPeer(p) ==
  /\ hasPeer[p]
  /\ hasPeer' = [hasPeer EXCEPT ![p] = FALSE]
  /\ ResetReliable(p)
  /\ UNCHANGED << wire, sent, got >>

(* RetransmitTick when the messages `due` are overdue and none of them has *)
(* used up its retries; otherwise the link counts as dead.                 *)
Exhausted(p, due) == \E s \in due : unacked[p][s].retries >= MaxRetries

Retried(u) == [u EXCEPT !.retries = @ + 1]

Resend(p, due) ==
  /\ ~Exhausted(p, due)
  /\ unacked' = [unacked EXCEPT ![p] =
       [s \in DOMAIN @ |-> IF s \in due THEN Retried(@[s]) ELSE @[s]]]
  /\ wire' = wire \cup {DataPacket(p, s, unacked[p][s].msg) : s \in due}
  /\ UNCHANGED << hasPeer, rSeqOut, rSeqInExpected, reorder, sent, got >>

(* Mutant: a message that used up its retries is silently forgotten.       *)
ForgetExhausted(p, due) ==
  /\ due # {}
  /\ \/ Resend(p, due)
     \/ /\ Exhausted(p, due)
        /\ unacked' = [unacked EXCEPT ![p] = Without(@, due)]
        /\ UNCHANGED << hasPeer, rSeqOut, rSeqInExpected, reorder, wire, sent, got >>

RetransmitTick(p, due) ==
  /\ due # {}
  /\ Resend(p, due) \/ (Exhausted(p, due) /\ DropPeer(p))

(* Mutants of receiving: a duplicate is delivered again; what lies beyond  *)
(* the window is acknowledged but not kept.                                *)
DeliverDuplicate(p, seq) ==
  /\ seq < rSeqInExpected[p]
  /\ got' = [got EXCEPT ![p] = Append(@, got[p][seq + 1])]
  /\ UNCHANGED << rSeqInExpected, reorder >>

AckBeyondWindow(p, seq, m) ==
  /\ seq > rSeqInExpected[p]
  /\ reorder' = [reorder EXCEPT ![p] =
       IF seq \in DOMAIN @ \/ seq - rSeqInExpected[p] > RecvWindow THEN @
       ELSE With(@, seq, m)]
  /\ UNCHANGED << rSeqInExpected, got >>

(***************************************************************************)
(* HandlePacket, PKT_DATA with the reliable flag.  A packet in order goes  *)
(* to the game with the buffered ones that directly follow it, up to the   *)
(* first gap e; one from the past is acknowledged again; one ahead of its  *)
(* turn is buffered; one beyond the window is ignored (no step).           *)
(***************************************************************************)
ReceiveInOrder(p, seq, m) ==
  /\ seq = rSeqInExpected[p]
  /\ \E e \in seq + 1 .. seq + RecvWindow + 1 :
       /\ seq + 1 .. e - 1 \subseteq DOMAIN reorder[p]
       /\ e \notin DOMAIN reorder[p]
       /\ rSeqInExpected' = [rSeqInExpected EXCEPT ![p] = e]
       /\ reorder' = [reorder EXCEPT ![p] = Without(@, seq + 1 .. e - 1)]
       /\ got' = [got EXCEPT ![p] = @ \o
            [i \in 1 .. e - seq |-> IF i = 1 THEN m ELSE reorder[p][seq + i - 1]]]

ReceiveDuplicate(p, seq) ==
  /\ seq < rSeqInExpected[p]
  /\ UNCHANGED << rSeqInExpected, reorder, got >>

ReceiveAhead(p, seq, m) ==
  /\ seq > rSeqInExpected[p]
  /\ seq - rSeqInExpected[p] <= RecvWindow
  /\ reorder' = [reorder EXCEPT ![p] = IF seq \in DOMAIN @ THEN @ ELSE With(@, seq, m)]
  /\ UNCHANGED << rSeqInExpected, got >>

ReceiveData(p, pkt) ==
  /\ pkt \in wire /\ pkt.type = "DATA" /\ pkt.to = p
  /\ hasPeer[p]
  /\ \/ ReceiveInOrder(p, pkt.seq, pkt.msg)
     \/ ReceiveDuplicate(p, pkt.seq)
     \/ ReceiveAhead(p, pkt.seq, pkt.msg)
  /\ wire' = wire \cup {AckPacket(p, pkt.seq)}
  /\ UNCHANGED << hasPeer, rSeqOut, unacked, sent >>

(* PKT_DATA_ACK: not tied to a live peer.                                  *)
ReceiveAck(p, pkt) ==
  /\ pkt \in wire /\ pkt.type = "DATA_ACK" /\ pkt.to = p
  /\ unacked' = [unacked EXCEPT ![p] = Without(@, {pkt.seq})]
  /\ UNCHANGED << hasPeer, rSeqOut, rSeqInExpected, reorder, wire, sent, got >>

(* The network loses what is left of a packet.                             *)
Lose(pkt) ==
  /\ wire' = wire \ {pkt}
  /\ UNCHANGED << hasPeer, relVars, sent, got >>

Next ==
  \/ \E p \in Peers :
       \/ \E m \in Payloads : SendTo(p, m)
       \/ \E due \in SUBSET DOMAIN unacked[p] : RetransmitTick(p, due)
       \/ DropPeer(p)   \* a BYE or a silence that lasts too long
       \/ \E pkt \in wire : ReceiveData(p, pkt) \/ ReceiveAck(p, pkt)
  \/ \E pkt \in wire : Lose(pkt)

Spec == Init /\ [][Next]_vars

(***************************************************************************)
(* The net thread runs RetransmitTick at least every 200 ms, and a message *)
(* is overdue 150 ms after it was last sent: each message is due again and *)
(* again while it is unacknowledged.                                       *)
(***************************************************************************)
Fairness ==
  \A p \in Peers : \A s \in 0 .. MaxSent :
    WF_vars(\E due \in SUBSET DOMAIN unacked[p] : s \in due /\ RetransmitTick(p, due))

FairSpec == Spec /\ Fairness

-----------------------------------------------------------------------------
Delivery == INSTANCE GuaranteedDelivery

(* Guaranteed sends keep their promise whatever the network loses, repeats *)
(* or reorders: what the receiver's game is handed is what the sender's    *)
(* game sent, in order, once each (the PKT_DATA branch of HandlePacket).   *)
InOrderDelivery == Delivery!Spec

(* The same as an invariant of the states.                                 *)
InOrder ==
  \A p \in Peers :
    /\ Len(got[p]) <= Len(sent[Other(p)])
    /\ got[p] = SubSeq(sent[Other(p)], 1, Len(got[p]))

(* A message the sender no longer keeps has reached its receiver or waits  *)
(* in the reorder buffer: an acknowledgement never covers what the window  *)
(* refused, so nothing can be lost for good while both peers are there.    *)
AckMeansKept ==
  \A p \in Peers : hasPeer[p] /\ hasPeer[Other(p)] =>
    \A s \in 0 .. rSeqOut[p] - 1 :
      \/ s \in DOMAIN unacked[p]
      \/ s < rSeqInExpected[Other(p)]
      \/ s \in DOMAIN reorder[Other(p)]

(* The reorder buffer stays within the window ahead of the next expected   *)
(* number and never holds that number itself (dpnetreplace.cpp:49-51).     *)
WindowBound ==
  \A p \in Peers : \A s \in DOMAIN reorder[p] :
    rSeqInExpected[p] < s /\ s <= rSeqInExpected[p] + RecvWindow

(* "A guaranteed message that can't be delivered ... surface it as a lost  *)
(* peer": it reaches the other game or one side loses its peer             *)
(* (dpnetreplace.cpp:716-719).                                             *)
SendResolved ==
  \A p \in Senders : \A k \in 1 .. MaxSent :
    (hasPeer[p] /\ Len(sent[p]) >= k)
      ~> (Len(got[Other(p)]) >= k \/ ~hasPeer[p] \/ ~hasPeer[Other(p)])
=============================================================================
