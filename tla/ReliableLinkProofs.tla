------------------------- MODULE ReliableLinkProofs -------------------------
(***************************************************************************)
(* Proofs about ReliableLink for any payloads, window, number of retries   *)
(* and number of messages: delivery in order without loss or duplicate,    *)
(* acknowledgements that mean what they say, the bound of the reorder      *)
(* buffer, and the implementation of GuaranteedDelivery.                   *)
(***************************************************************************)
EXTENDS ReliableLink, TLAPS, SequenceTheorems

(* While a peer is there, the counters are the lengths of the histories.   *)
Counters ==
  \A p \in Peers : hasPeer[p] =>
    rSeqOut[p] = Len(sent[p]) /\ rSeqInExpected[p] = Len(got[p])

(* Every copy of a message, wherever it is, is the message of its number.  *)
OnWire ==
  \A pkt \in wire : pkt.type = "DATA" =>
    /\ pkt.seq < Len(sent[Other(pkt.to)])
    /\ pkt.msg = sent[Other(pkt.to)][pkt.seq + 1]

InUnacked ==
  \A p \in Peers : \A s \in DOMAIN unacked[p] :
    s < Len(sent[p]) /\ unacked[p][s].msg = sent[p][s + 1]

InReorder ==
  \A p \in Peers : \A s \in DOMAIN reorder[p] :
    s < Len(sent[Other(p)]) /\ reorder[p][s] = sent[Other(p)][s + 1]

(* An acknowledgement under way is for something its sender has kept.      *)
AcksTrue ==
  \A pkt \in wire : (pkt.type = "DATA_ACK" /\ hasPeer[Other(pkt.to)]) =>
    \/ pkt.seq < rSeqInExpected[Other(pkt.to)]
    \/ pkt.seq \in DOMAIN reorder[Other(pkt.to)]

(* The types of the link, whatever other packets are under way: PeerSession *)
(* has some of its own.                                                    *)
KnownPackets ==
  \A pkt \in wire : pkt.type \in {"DATA", "DATA_ACK"} => pkt \in Packets

LinkTypes ==
  /\ hasPeer \in [Peers -> BOOLEAN]
  /\ rSeqOut \in [Peers -> Nat]
  /\ unacked = [p \in Peers |-> unacked[p]]
  /\ \A p \in Peers : IsMap(unacked[p], Unacked)
  /\ rSeqInExpected \in [Peers -> Nat]
  /\ reorder = [p \in Peers |-> reorder[p]]
  /\ \A p \in Peers : IsMap(reorder[p], Payloads)
  /\ KnownPackets
  /\ sent \in [Peers -> Seq(Payloads)]
  /\ got \in [Peers -> Seq(Payloads)]

IInv ==
  /\ LinkTypes /\ Counters /\ OnWire /\ InUnacked /\ InReorder /\ AcksTrue
  /\ InOrder /\ AckMeansKept /\ WindowBound

-----------------------------------------------------------------------------
(* There are two peers, and each is the other's other.                     *)
LEMMA OtherPeer ==
  \A p \in Peers : /\ Other(p) \in Peers /\ Other(p) # p /\ Other(Other(p)) = p
                   /\ \A q \in Peers : q = p \/ q = Other(p)
BY LinkAssumption DEF Peers, Other

(* A prefix continued by the elements that follow it is a longer prefix.   *)
LEMMA LongerPrefix ==
  ASSUME NEW S, NEW s \in Seq(S), NEW k \in Nat, NEW n \in Nat, k + n <= Len(s),
         NEW t \in [1 .. n -> S], \A i \in 1 .. n : t[i] = s[k + i]
  PROVE  SubSeq(s, 1, k) \o t = SubSeq(s, 1, k + n)
<1>1. t \in Seq(S) /\ Len(t) = n
  <2>1. t \in Seq(S) BY SeqDef
  <2>2. DOMAIN t = 1 .. n /\ DOMAIN t = 1 .. Len(t) /\ Len(t) \in Nat
    BY <2>1, LenProperties
  <2> QED BY <2>1, <2>2
<1>2. \A j \in Nat : j <= Len(s) =>
        /\ SubSeq(s, 1, j) \in Seq(S) /\ Len(SubSeq(s, 1, j)) = j
        /\ \A i \in 1 .. j : SubSeq(s, 1, j)[i] = s[i]
  <2> TAKE j \in Nat
  <2> HAVE j <= Len(s)
  <2>1. Len(s) \in Nat /\ \A i \in 1 .. j : s[i] \in S
    BY LenProperties, ElementOfSeq
  <2> QED BY <2>1, SubSeqProperties
<1>3. k <= Len(s) /\ k + n \in Nat BY LenProperties
<1> DEFINE u == SubSeq(s, 1, k)
           v == SubSeq(s, 1, k + n)
<1>4. /\ u \in Seq(S) /\ Len(u) = k /\ \A i \in 1 .. k : u[i] = s[i]
      /\ v \in Seq(S) /\ Len(v) = k + n /\ \A i \in 1 .. k + n : v[i] = s[i]
  BY <1>2, <1>3
<1> HIDE DEF u, v
<1>5. /\ u \o t \in Seq(S) /\ Len(u \o t) = k + n
      /\ \A i \in 1 .. k + n : (u \o t)[i] = IF i <= k THEN u[i] ELSE t[i - k]
  BY <1>1, <1>4, ConcatProperties
<1>6. \A i \in 1 .. k + n : (u \o t)[i] = v[i]
  <2> TAKE i \in 1 .. k + n
  <2>0. i \in Int /\ v[i] = s[i] BY <1>4
  <2>1. CASE i <= k
    <3>1. i \in 1 .. k BY <2>0, <2>1
    <3> QED BY <2>0, <2>1, <3>1, <1>4, <1>5
  <2>2. CASE ~(i <= k)
    <3>1. i - k \in 1 .. n /\ k + (i - k) = i BY <2>0, <2>2
    <3>2. t[i - k] = s[i] BY <3>1
    <3> QED BY <2>0, <2>2, <3>2, <1>5
  <2> QED BY <2>1, <2>2
<1>7. u \o t = v BY <1>4, <1>5, <1>6, SeqEqual
<1> QED BY <1>7 DEF u, v

(* Maps stay maps.                                                         *)
LEMMA WithIsMap ==
  ASSUME NEW V, NEW map, IsMap(map, V), NEW k \in Nat, NEW v \in V
  PROVE  /\ IsMap(With(map, k, v), V)
         /\ DOMAIN With(map, k, v) = DOMAIN map \cup {k}
         /\ With(map, k, v)[k] = v
         /\ \A s \in DOMAIN map : s # k => With(map, k, v)[s] = map[s]
BY DEF With, IsMap

LEMMA WithoutIsMap ==
  ASSUME NEW V, NEW map, IsMap(map, V), NEW keys
  PROVE  /\ IsMap(Without(map, keys), V)
         /\ DOMAIN Without(map, keys) = DOMAIN map \ keys
         /\ \A s \in DOMAIN map \ keys : Without(map, keys)[s] = map[s]
BY DEF Without, IsMap

(* A step adds packets of the link to those under way, or none.            *)
LEMMA PacketsStay ==
  ASSUME KnownPackets, NEW S, S \subseteq Packets, wire' \subseteq wire \cup S
  PROVE  KnownPackets'
BY DEF KnownPackets

LEMMA InitIInv == Init => IInv
<1> SUFFICES ASSUME Init PROVE IInv OBVIOUS
<1> USE DEF Init
<1>1. LinkTypes BY DEF LinkTypes, KnownPackets, IsMap, EmptyMap
<1>2. \A p \in Peers : sent[p] = << >> /\ got[p] = << >> /\ Other(p) \in Peers
  BY OtherPeer
<1>3. Counters BY <1>2 DEF Counters
<1>4. OnWire /\ InUnacked /\ InReorder /\ AcksTrue
  BY DEF OnWire, InUnacked, InReorder, AcksTrue, EmptyMap
<1>5. InOrder
  <2> SUFFICES ASSUME NEW p \in Peers
               PROVE  /\ Len(got[p]) <= Len(sent[Other(p)])
                      /\ got[p] = SubSeq(sent[Other(p)], 1, Len(got[p]))
    BY DEF InOrder
  <2> QED BY <1>2
<1>6. AckMeansKept /\ WindowBound BY DEF AckMeansKept, WindowBound, EmptyMap
<1> QED BY <1>1, <1>3, <1>4, <1>5, <1>6 DEF IInv

(* A guaranteed send numbers the new message with the length of the        *)
(* history, so all that was in order stays so.                             *)
LEMMA SendIInv ==
  ASSUME IInv, NEW p \in Peers, NEW m \in Payloads, hasPeer[p], SendDataToPeer(p, m)
  PROVE  IInv'
<1> USE OtherPeer
<1> DEFINE seq == rSeqOut[p]
<1>0. /\ hasPeer[p] /\ seq = Len(sent[p]) /\ seq \in Nat
      /\ UNCHANGED << hasPeer, rSeqInExpected, reorder, got >>
  BY DEF IInv, LinkTypes, Counters, SendDataToPeer
<1>1. /\ sent' = [sent EXCEPT ![p] = Append(@, m)]
      /\ rSeqOut' = [rSeqOut EXCEPT ![p] = @ + 1]
      /\ wire' = wire \cup {DataPacket(p, seq, m)}
      /\ unacked' = [unacked EXCEPT ![p] = With(@, seq, [msg |-> m, retries |-> 0])]
  BY DEF SendDataToPeer
<1>2. \A q \in Peers :
        /\ sent[q] \in Seq(Payloads) /\ sent'[q] \in Seq(Payloads)
        /\ Len(sent'[q]) >= Len(sent[q])
        /\ \A i \in 1 .. Len(sent[q]) : sent'[q][i] = sent[q][i]
        /\ \A s \in Nat : s < Len(sent[q]) =>
             s < Len(sent'[q]) /\ sent'[q][s + 1] = sent[q][s + 1]
  BY <1>1 DEF IInv, LinkTypes
<1>3. Len(sent'[p]) = seq + 1 /\ sent'[p][seq + 1] = m
  BY <1>0, <1>1 DEF IInv, LinkTypes
<1>4. \A q \in Peers : q # p => unacked'[q] = unacked[q] /\ sent'[q] = sent[q]
  BY <1>1 DEF IInv, LinkTypes
<1>5. unacked'[p] = With(unacked[p], seq, [msg |-> m, retries |-> 0])
  BY <1>1 DEF IInv, LinkTypes
<1>6. LinkTypes'
  <2>1. \A q \in Peers : IsMap(unacked'[q], Unacked)
    <3>1. \A q \in Peers : IsMap(unacked[q], Unacked)
      BY DEF IInv, LinkTypes
    <3>2. [msg |-> m, retries |-> 0] \in Unacked
      BY LinkAssumption DEF Unacked
    <3>3. IsMap(unacked'[p], Unacked)
      <4>1. IsMap(unacked[p], Unacked) /\ seq \in Nat BY <3>1, <1>0
      <4> HIDE DEF seq
      <4>2. IsMap(With(unacked[p], seq, [msg |-> m, retries |-> 0]), Unacked)
        BY <4>1, <3>2, WithIsMap
      <4> QED BY <1>5, <4>2
    <3> QED BY <1>4, <3>1, <3>3
  <2>2. unacked' = [q \in Peers |-> unacked'[q]]
    BY <1>1 DEF IInv, LinkTypes
  <2>3. KnownPackets'
    BY <1>0, <1>1 DEF IInv, LinkTypes, KnownPackets, Packets, DataPacket
  <2>4. rSeqOut' \in [Peers -> Nat] /\ sent' \in [Peers -> Seq(Payloads)]
    BY <1>1 DEF IInv, LinkTypes
  <2> QED BY <1>0, <2>1, <2>2, <2>3, <2>4 DEF IInv, LinkTypes
<1>7. Counters' BY <1>0, <1>1, <1>3 DEF IInv, Counters, LinkTypes
<1>8. OnWire'
  <2> SUFFICES ASSUME NEW pkt \in wire', pkt.type = "DATA"
               PROVE  /\ pkt.seq < Len(sent'[Other(pkt.to)])
                      /\ pkt.msg = sent'[Other(pkt.to)][pkt.seq + 1]
    BY DEF OnWire
  <2>1. CASE pkt = DataPacket(p, seq, m) BY <2>1, <1>0, <1>3 DEF DataPacket
  <2>2. CASE pkt \in wire
    <3>1. /\ pkt.seq \in Nat /\ Other(pkt.to) \in Peers
          /\ pkt.seq < Len(sent[Other(pkt.to)])
          /\ pkt.msg = sent[Other(pkt.to)][pkt.seq + 1]
      BY <2>2 DEF IInv, LinkTypes, OnWire, KnownPackets, Packets
    <3> QED BY <1>2, <3>1
  <2> QED BY <2>1, <2>2, <1>1
<1>9. InUnacked'
  <2> SUFFICES ASSUME NEW q \in Peers, NEW s \in DOMAIN unacked'[q]
               PROVE  s < Len(sent'[q]) /\ unacked'[q][s].msg = sent'[q][s + 1]
    BY DEF InUnacked
  <2>1. CASE q = p
    <3>1. CASE s = seq BY <2>1, <3>1, <1>0, <1>3, <1>5 DEF With
    <3>2. CASE s # seq
      <4>1. s \in DOMAIN unacked[p] /\ unacked'[p][s] = unacked[p][s]
        BY <2>1, <3>2, <1>5 DEF With
      <4>2. s \in Nat /\ s < Len(sent[p]) /\ unacked[p][s].msg = sent[p][s + 1]
        BY <4>1 DEF IInv, LinkTypes, InUnacked, IsMap
      <4> QED BY <2>1, <4>1, <4>2, <1>2
    <3> QED BY <3>1, <3>2
  <2>2. CASE q # p BY <2>2, <1>4 DEF IInv, InUnacked
  <2> QED BY <2>1, <2>2
<1>10. InReorder'
  <2> SUFFICES ASSUME NEW q \in Peers, NEW s \in DOMAIN reorder[q]
               PROVE  s < Len(sent'[Other(q)]) /\ reorder[q][s] = sent'[Other(q)][s + 1]
    BY <1>0 DEF InReorder
  <2>1. s \in Nat /\ s < Len(sent[Other(q)]) /\ reorder[q][s] = sent[Other(q)][s + 1]
    BY DEF IInv, LinkTypes, InReorder, IsMap
  <2> QED BY <2>1, <1>2
<1>11. AcksTrue'
  BY <1>0, <1>1 DEF IInv, AcksTrue, DataPacket
<1>12. InOrder'
  <2> SUFFICES ASSUME NEW q \in Peers
               PROVE  /\ Len(got[q]) <= Len(sent'[Other(q)])
                      /\ got[q] = SubSeq(sent'[Other(q)], 1, Len(got[q]))
    BY <1>0 DEF InOrder
  <2>1. /\ got[q] \in Seq(Payloads) /\ Len(got[q]) <= Len(sent[Other(q)])
        /\ got[q] = SubSeq(sent[Other(q)], 1, Len(got[q]))
    BY DEF IInv, InOrder, LinkTypes
  <2> QED BY <2>1, <1>2
<1>13. AckMeansKept'
  <2> SUFFICES ASSUME NEW q \in Peers, hasPeer[q], hasPeer[Other(q)],
                      NEW s \in 0 .. rSeqOut'[q] - 1
               PROVE  \/ s \in DOMAIN unacked'[q]
                      \/ s < rSeqInExpected[Other(q)]
                      \/ s \in DOMAIN reorder[Other(q)]
    BY <1>0 DEF AckMeansKept
  <2>1. CASE q = p
    <3>1. rSeqOut'[p] = seq + 1 BY <1>1 DEF IInv, LinkTypes
    <3>2. CASE s = seq BY <2>1, <3>2, <1>5 DEF With
    <3>3. CASE s # seq
      <4>1. s \in 0 .. rSeqOut[p] - 1 BY <2>1, <3>1, <3>3, <1>0
      <4>2. s \in DOMAIN unacked[p] => s \in DOMAIN unacked'[p] BY <1>5 DEF With
      <4>3. AckMeansKept BY DEF IInv
      <4> QED BY <2>1, <4>1, <4>2, <4>3 DEF AckMeansKept
    <3> QED BY <3>2, <3>3
  <2>2. CASE q # p
    <3>1. rSeqOut'[q] = rSeqOut[q] BY <2>2, <1>1 DEF IInv, LinkTypes
    <3>2. AckMeansKept BY DEF IInv
    <3> QED BY <2>2, <3>1, <3>2, <1>4 DEF AckMeansKept
  <2> QED BY <2>1, <2>2
<1>14. WindowBound' BY <1>0 DEF IInv, WindowBound
<1> QED BY <1>6, <1>7, <1>8, <1>9, <1>10, <1>11, <1>12, <1>13, <1>14 DEF IInv

(* Losing the peer empties one side, and every claim about it goes.        *)
LEMMA DropPeerIInv ==
  ASSUME IInv, NEW p \in Peers, DropPeer(p)
  PROVE  IInv'
<1> USE OtherPeer
<1>1. /\ UNCHANGED << wire, sent, got >> /\ ~hasPeer'[p]
      /\ unacked'[p] = EmptyMap /\ reorder'[p] = EmptyMap /\ rSeqInExpected'[p] = 0
      /\ \A q \in Peers : q # p =>
           /\ hasPeer'[q] = hasPeer[q] /\ unacked'[q] = unacked[q]
           /\ reorder'[q] = reorder[q] /\ rSeqOut'[q] = rSeqOut[q]
           /\ rSeqInExpected'[q] = rSeqInExpected[q]
  BY DEF IInv, LinkTypes, DropPeer, ResetReliable
<1>2. LinkTypes'
  <2>1. /\ hasPeer' \in [Peers -> BOOLEAN] /\ rSeqOut' \in [Peers -> Nat]
        /\ rSeqInExpected' \in [Peers -> Nat]
        /\ unacked' = [q \in Peers |-> unacked'[q]]
        /\ reorder' = [q \in Peers |-> reorder'[q]]
    BY DEF IInv, LinkTypes, DropPeer, ResetReliable
  <2>2. IsMap(EmptyMap, Unacked) /\ IsMap(EmptyMap, Payloads)
    BY DEF IsMap, EmptyMap
  <2>3. \A q \in Peers : IsMap(unacked'[q], Unacked) /\ IsMap(reorder'[q], Payloads)
    BY <1>1, <2>2 DEF IInv, LinkTypes
  <2> QED BY <1>1, <2>1, <2>3 DEF IInv, LinkTypes, KnownPackets
<1>3. Counters' BY <1>1 DEF IInv, Counters
<1>4. OnWire' /\ InOrder' BY <1>1 DEF IInv, OnWire, InOrder
<1>5. InUnacked' BY <1>1 DEF IInv, InUnacked, EmptyMap
<1>6. InReorder' BY <1>1 DEF IInv, InReorder, EmptyMap
<1>7. AcksTrue'
  <2> SUFFICES ASSUME NEW pkt \in wire, pkt.type = "DATA_ACK", hasPeer'[Other(pkt.to)]
               PROVE  \/ pkt.seq < rSeqInExpected'[Other(pkt.to)]
                      \/ pkt.seq \in DOMAIN reorder'[Other(pkt.to)]
    BY <1>1 DEF AcksTrue
  <2>1. Other(pkt.to) \in Peers BY DEF IInv, LinkTypes, KnownPackets, Packets
  <2> QED BY <1>1, <2>1 DEF IInv, AcksTrue
<1>8. AckMeansKept' BY <1>1 DEF AckMeansKept
<1>9. WindowBound' BY <1>1 DEF IInv, WindowBound, EmptyMap
<1> QED BY <1>2, <1>3, <1>4, <1>5, <1>6, <1>7, <1>8, <1>9 DEF IInv

(* Retransmission repeats what was sent under the same numbers.            *)
LEMMA ResendIInv ==
  ASSUME IInv, NEW p \in Peers, NEW due \in SUBSET DOMAIN unacked[p], Resend(p, due)
  PROVE  IInv'
<1> USE OtherPeer
<1> DEFINE again == {DataPacket(p, s, unacked[p][s].msg) : s \in due}
<1>1. /\ UNCHANGED << hasPeer, rSeqOut, rSeqInExpected, reorder, sent, got >>
      /\ wire' = wire \cup again
      /\ \A q \in Peers : q # p => unacked'[q] = unacked[q]
      /\ unacked'[p] = [s \in DOMAIN unacked[p] |->
           IF s \in due THEN Retried(unacked[p][s]) ELSE unacked[p][s]]
      /\ unacked' = [q \in Peers |-> unacked'[q]]
  <2>1. /\ UNCHANGED << hasPeer, rSeqOut, rSeqInExpected, reorder, sent, got >>
        /\ wire' = wire \cup again
    BY DEF Resend
  <2>2. unacked' = [unacked EXCEPT ![p] =
          [s \in DOMAIN unacked[p] |->
            IF s \in due THEN Retried(unacked[p][s])
            ELSE unacked[p][s]]]
    BY DEF Resend
  <2>3. unacked = [q \in Peers |-> unacked[q]] BY DEF IInv, LinkTypes
  <2> QED BY <2>1, <2>2, <2>3
<1>2. \A s \in DOMAIN unacked[p] :
        /\ s \in Nat /\ unacked[p][s] \in Unacked
        /\ s \in due => unacked[p][s].retries < MaxRetries
        /\ s < Len(sent[p]) /\ unacked[p][s].msg = sent[p][s + 1]
  <2>1. \A s \in DOMAIN unacked[p] : s \in Nat /\ unacked[p][s] \in Unacked
    BY DEF IInv, LinkTypes, IsMap
  <2>2. \A s \in due : unacked[p][s].retries < MaxRetries
    BY <2>1, LinkAssumption DEF Resend, Exhausted, Unacked
  <2> QED BY <2>1, <2>2 DEF IInv, InUnacked
<1>3. \A s \in DOMAIN unacked[p] :
        unacked'[p][s] \in Unacked /\ unacked'[p][s].msg = unacked[p][s].msg
  <2> TAKE s \in DOMAIN unacked[p]
  <2> DEFINE kept == unacked[p][s]
  <2>1. kept \in Unacked /\ (s \in due => kept.retries < MaxRetries) BY <1>2
  <2>2. unacked'[p][s] = IF s \in due THEN Retried(kept) ELSE kept
    BY <1>1
  <2> HIDE DEF kept
  <2>3. s \in due => Retried(kept) \in Unacked
    BY <2>1, LinkAssumption DEF Unacked, Retried
  <2>4. Retried(kept).msg = kept.msg BY <2>1 DEF Unacked, Retried
  <2>5. unacked'[p][s] \in Unacked /\ unacked'[p][s].msg = kept.msg
    BY <2>1, <2>2, <2>3, <2>4
  <2> QED BY <2>5 DEF kept
<1>4. DOMAIN unacked'[p] = DOMAIN unacked[p] BY <1>1
<1>5. \A pkt \in again : /\ pkt \in Packets /\ pkt.type = "DATA"
                         /\ pkt.seq < Len(sent[Other(pkt.to)])
                         /\ pkt.msg = sent[Other(pkt.to)][pkt.seq + 1]
  <2> SUFFICES ASSUME NEW s \in due
               PROVE  LET pkt == DataPacket(p, s, unacked[p][s].msg)
                      IN  /\ pkt \in Packets /\ pkt.type = "DATA"
                          /\ pkt.seq < Len(sent[Other(pkt.to)])
                          /\ pkt.msg = sent[Other(pkt.to)][pkt.seq + 1]
    OBVIOUS
  <2>1. unacked[p][s].msg \in Payloads BY <1>2 DEF Unacked
  <2> QED BY <1>2, <2>1 DEF DataPacket, Packets
<1> HIDE DEF again
<1>6. LinkTypes'
  <2>1. IsMap(unacked'[p], Unacked) BY <1>1, <1>2, <1>3, <1>4 DEF IsMap
  <2>2. \A q \in Peers : IsMap(unacked'[q], Unacked)
    BY <1>1, <2>1 DEF IInv, LinkTypes
  <2>3. KnownPackets' BY <1>1, <1>5, PacketsStay DEF IInv, LinkTypes
  <2> QED BY <1>1, <2>2, <2>3 DEF IInv, LinkTypes
<1>7. Counters' /\ InReorder' /\ InOrder' /\ WindowBound'
  <2>1. Counters' BY <1>1 DEF IInv, Counters
  <2>2. InReorder' BY <1>1 DEF IInv, InReorder
  <2>3. InOrder' BY <1>1 DEF IInv, InOrder
  <2>4. WindowBound' BY <1>1 DEF IInv, WindowBound
  <2> QED BY <2>1, <2>2, <2>3, <2>4
<1>8. OnWire' BY <1>1, <1>5 DEF IInv, OnWire
<1>9. InUnacked'
  <2>1. \A s \in DOMAIN unacked'[p] :
          s < Len(sent[p]) /\ unacked'[p][s].msg = sent[p][s + 1]
    BY <1>2, <1>3, <1>4
  <2>2. InUnacked BY DEF IInv
  <2> SUFFICES ASSUME NEW q \in Peers, NEW s \in DOMAIN unacked'[q]
               PROVE  s < Len(sent[q]) /\ unacked'[q][s].msg = sent[q][s + 1]
    BY <1>1 DEF InUnacked
  <2>3. CASE q = p BY <2>3, <2>1
  <2>4. CASE q # p BY <2>4, <2>2, <1>1 DEF InUnacked
  <2> QED BY <2>3, <2>4
<1>10. AcksTrue'
  <2>1. \A pkt \in wire' : pkt.type = "DATA_ACK" => pkt \in wire BY <1>1, <1>5
  <2> QED BY <1>1, <2>1 DEF IInv, AcksTrue
<1>11. AckMeansKept' BY <1>1, <1>4 DEF IInv, AckMeansKept
<1> QED BY <1>6, <1>7, <1>8, <1>9, <1>10, <1>11 DEF IInv

(* An acknowledgement that arrives, and a packet that does not.            *)
LEMMA ReceiveAckIInv ==
  ASSUME IInv, NEW p \in Peers, NEW pkt \in wire, ReceiveAck(p, pkt)
  PROVE  IInv'
<1> USE OtherPeer
<1>1. /\ UNCHANGED << hasPeer, rSeqOut, rSeqInExpected, reorder, wire, sent, got >>
      /\ pkt.type = "DATA_ACK" /\ pkt.to = p
      /\ \A q \in Peers : q # p => unacked'[q] = unacked[q]
      /\ unacked'[p] = Without(unacked[p], {pkt.seq})
      /\ unacked' = [q \in Peers |-> unacked'[q]]
  BY DEF IInv, LinkTypes, ReceiveAck
<1>2. /\ IsMap(unacked'[p], Unacked)
      /\ DOMAIN unacked'[p] = DOMAIN unacked[p] \ {pkt.seq}
      /\ \A s \in DOMAIN unacked'[p] : unacked'[p][s] = unacked[p][s]
  <2>1. IsMap(unacked[p], Unacked) BY DEF IInv, LinkTypes
  <2> QED BY <1>1, <2>1, WithoutIsMap
<1>3. LinkTypes' BY <1>1, <1>2 DEF IInv, LinkTypes, KnownPackets
<1>4. Counters' /\ OnWire' /\ InReorder' /\ AcksTrue' /\ InOrder' /\ WindowBound'
  <2>1. Counters' BY <1>1 DEF IInv, Counters
  <2>2. OnWire' BY <1>1 DEF IInv, OnWire
  <2>3. InReorder' BY <1>1 DEF IInv, InReorder
  <2>4. AcksTrue' BY <1>1 DEF IInv, AcksTrue
  <2>5. InOrder' BY <1>1 DEF IInv, InOrder
  <2>6. WindowBound' BY <1>1 DEF IInv, WindowBound
  <2> QED BY <2>1, <2>2, <2>3, <2>4, <2>5, <2>6
<1>5. InUnacked'
  <2>1. InUnacked BY DEF IInv
  <2>2. \A s \in DOMAIN unacked'[p] :
          s < Len(sent[p]) /\ unacked'[p][s].msg = sent[p][s + 1]
    BY <1>2, <2>1 DEF InUnacked
  <2> SUFFICES ASSUME NEW q \in Peers, NEW s \in DOMAIN unacked'[q]
               PROVE  s < Len(sent[q]) /\ unacked'[q][s].msg = sent[q][s + 1]
    BY <1>1 DEF InUnacked
  <2>3. CASE q = p BY <2>3, <2>2
  <2>4. CASE q # p BY <2>4, <2>1, <1>1 DEF InUnacked
  <2> QED BY <2>3, <2>4
<1>6. AckMeansKept'
  <2>1. hasPeer[Other(p)] => \/ pkt.seq < rSeqInExpected[Other(p)]
                             \/ pkt.seq \in DOMAIN reorder[Other(p)]
    BY <1>1 DEF IInv, AcksTrue
  <2>2. AckMeansKept BY DEF IInv
  <2> QED BY <1>1, <1>2, <2>1, <2>2 DEF AckMeansKept
<1> QED BY <1>3, <1>4, <1>5, <1>6 DEF IInv

LEMMA LoseIInv ==
  ASSUME IInv, NEW pkt \in wire, Lose(pkt)
  PROVE  IInv'
<1>1. UNCHANGED << hasPeer, relVars, sent, got >> /\ wire' \subseteq wire
  BY DEF Lose
<1>2. UNCHANGED << rSeqOut, unacked, rSeqInExpected, reorder >> BY <1>1 DEF relVars
<1>3. LinkTypes' BY <1>1, <1>2 DEF IInv, LinkTypes, KnownPackets
<1> QED BY <1>1, <1>2, <1>3 DEF IInv, Counters, OnWire, InUnacked, InReorder,
           AcksTrue, InOrder, AckMeansKept, WindowBound

(***************************************************************************)
(* A guaranteed packet.  All three branches acknowledge; what they need to *)
(* show for that is the same.                                              *)
(***************************************************************************)
LEMMA ReceiveFrame ==
  ASSUME IInv, NEW p \in Peers, NEW pkt \in wire, ReceiveData(p, pkt)
  PROVE  /\ UNCHANGED << hasPeer, rSeqOut, unacked, sent >>
         /\ hasPeer[p] /\ wire' = wire \cup {AckPacket(p, pkt.seq)}
         /\ pkt.seq \in Nat /\ pkt.msg \in Payloads
         /\ pkt.seq < Len(sent[Other(p)]) /\ pkt.msg = sent[Other(p)][pkt.seq + 1]
         /\ AckPacket(p, pkt.seq) \in Packets
         /\ KnownPackets' /\ OnWire' /\ InUnacked'
<1> USE OtherPeer
<1>1. /\ UNCHANGED << hasPeer, rSeqOut, unacked, sent >>
      /\ hasPeer[p] /\ wire' = wire \cup {AckPacket(p, pkt.seq)}
      /\ pkt.type = "DATA" /\ pkt.to = p
  BY DEF ReceiveData
<1>2. /\ pkt.seq \in Nat /\ pkt.msg \in Payloads
      /\ pkt.seq < Len(sent[Other(p)]) /\ pkt.msg = sent[Other(p)][pkt.seq + 1]
  BY <1>1 DEF IInv, LinkTypes, OnWire, KnownPackets, Packets
<1>3. AckPacket(p, pkt.seq) \in Packets BY <1>2 DEF AckPacket, Packets
<1>4. OnWire' BY <1>1 DEF IInv, OnWire, AckPacket
<1>5. InUnacked' BY <1>1 DEF IInv, InUnacked
<1>6. KnownPackets' BY <1>1, <1>3, PacketsStay DEF IInv, LinkTypes
<1> QED BY <1>1, <1>2, <1>3, <1>4, <1>5, <1>6

(* If the receiver only gains, an acknowledgement stays true, and the new  *)
(* one is if its number is kept.                                           *)
LEMMA ReceiveKeeps ==
  ASSUME IInv, NEW p \in Peers, NEW pkt \in wire, ReceiveData(p, pkt),
         \A q \in Peers : q # p => rSeqInExpected'[q] = rSeqInExpected[q]
                                   /\ reorder'[q] = reorder[q],
         \A s \in Nat : (\/ s < rSeqInExpected[p] \/ s \in DOMAIN reorder[p]
                         \/ s = pkt.seq)
            => (s < rSeqInExpected'[p] \/ s \in DOMAIN reorder'[p])
  PROVE  AcksTrue' /\ AckMeansKept'
<1> USE OtherPeer, ReceiveFrame
<1>1. /\ UNCHANGED << hasPeer, rSeqOut, unacked >>
      /\ wire' = wire \cup {AckPacket(p, pkt.seq)}
  OBVIOUS
<1>2. AcksTrue'
  <2> SUFFICES ASSUME NEW ack \in wire', ack.type = "DATA_ACK", hasPeer[Other(ack.to)]
               PROVE  \/ ack.seq < rSeqInExpected'[Other(ack.to)]
                      \/ ack.seq \in DOMAIN reorder'[Other(ack.to)]
    BY <1>1 DEF AcksTrue
  <2>1. CASE ack = AckPacket(p, pkt.seq) BY <2>1 DEF AckPacket
  <2>2. CASE ack \in wire
    <3>1. /\ ack.seq \in Nat /\ Other(ack.to) \in Peers
          /\ \/ ack.seq < rSeqInExpected[Other(ack.to)]
             \/ ack.seq \in DOMAIN reorder[Other(ack.to)]
      BY <2>2 DEF IInv, LinkTypes, AcksTrue, KnownPackets, Packets
    <3> QED BY <3>1
  <2> QED BY <1>1, <2>1, <2>2
<1>3. AckMeansKept'
  <2> SUFFICES ASSUME NEW q \in Peers, hasPeer[q], hasPeer[Other(q)],
                      NEW s \in 0 .. rSeqOut[q] - 1, s \notin DOMAIN unacked[q]
               PROVE  \/ s < rSeqInExpected'[Other(q)]
                      \/ s \in DOMAIN reorder'[Other(q)]
    BY <1>1 DEF AckMeansKept
  <2>1. s < rSeqInExpected[Other(q)] \/ s \in DOMAIN reorder[Other(q)]
    BY DEF IInv, AckMeansKept
  <2>2. s \in Nat BY DEF IInv, LinkTypes
  <2> QED BY <2>1, <2>2
<1> QED BY <1>2, <1>3

(* In order: the run of messages handed over continues the prefix.         *)
LEMMA InOrderIInv ==
  ASSUME IInv, NEW p \in Peers, NEW pkt \in wire, ReceiveData(p, pkt),
         ReceiveInOrder(p, pkt.seq, pkt.msg)
  PROVE  IInv'
<1> USE OtherPeer
<1> DEFINE seq == pkt.seq
           q == Other(p)
<1>1. PICK e \in seq + 1 .. seq + RecvWindow + 1 :
        /\ seq + 1 .. e - 1 \subseteq DOMAIN reorder[p]
        /\ e \notin DOMAIN reorder[p]
        /\ rSeqInExpected' = [rSeqInExpected EXCEPT ![p] = e]
        /\ reorder' = [reorder EXCEPT ![p] = Without(@, seq + 1 .. e - 1)]
        /\ got' = [got EXCEPT ![p] = @ \o
             [i \in 1 .. e - seq |-> IF i = 1 THEN pkt.msg ELSE reorder[p][seq + i - 1]]]
  BY DEF ReceiveInOrder
<1>0. /\ UNCHANGED << hasPeer, rSeqOut, unacked, sent >>
      /\ hasPeer[p] /\ wire' = wire \cup {AckPacket(p, pkt.seq)}
      /\ pkt.seq \in Nat /\ pkt.msg \in Payloads
      /\ pkt.seq < Len(sent[q]) /\ pkt.msg = sent[q][pkt.seq + 1]
      /\ AckPacket(p, pkt.seq) \in Packets
      /\ KnownPackets' /\ OnWire' /\ InUnacked'
  BY ReceiveFrame
<1>2. /\ seq \in Nat /\ e \in Nat /\ e > seq /\ RecvWindow \in Nat
      /\ seq = rSeqInExpected[p] /\ hasPeer[p] /\ q \in Peers
      /\ UNCHANGED << hasPeer, rSeqOut, unacked, sent >>
      /\ wire' = wire \cup {AckPacket(p, seq)}
  BY <1>0, LinkAssumption DEF ReceiveInOrder
<1>3. /\ rSeqInExpected'[p] = e
      /\ reorder'[p] = Without(reorder[p], seq + 1 .. e - 1)
      /\ \A r \in Peers : r # p => /\ rSeqInExpected'[r] = rSeqInExpected[r]
                                   /\ reorder'[r] = reorder[r] /\ got'[r] = got[r]
      /\ reorder' = [r \in Peers |-> reorder'[r]]
      /\ rSeqInExpected' \in [Peers -> Nat]
  <2>1. /\ rSeqInExpected \in [Peers -> Nat] /\ got \in [Peers -> Seq(Payloads)]
        /\ reorder = [r \in Peers |-> reorder[r]]
    BY DEF IInv, LinkTypes
  <2>2. rSeqInExpected'[p] = e /\ rSeqInExpected' \in [Peers -> Nat]
    BY <1>1, <1>2, <2>1
  <2>3. /\ reorder'[p] = Without(reorder[p], seq + 1 .. e - 1)
        /\ reorder' = [r \in Peers |-> reorder'[r]]
    BY <1>1, <2>1
  <2>4. \A r \in Peers : r # p => /\ rSeqInExpected'[r] = rSeqInExpected[r]
                                  /\ reorder'[r] = reorder[r] /\ got'[r] = got[r]
    BY <1>1, <2>1
  <2> QED BY <2>2, <2>3, <2>4
<1>4. /\ IsMap(reorder[p], Payloads) /\ IsMap(reorder'[p], Payloads)
      /\ DOMAIN reorder'[p] = DOMAIN reorder[p] \ (seq + 1 .. e - 1)
      /\ \A s \in DOMAIN reorder'[p] : reorder'[p][s] = reorder[p][s]
  <2> DEFINE run == seq + 1 .. e - 1
  <2>1. IsMap(reorder[p], Payloads) BY DEF IInv, LinkTypes
  <2>2. reorder'[p] = Without(reorder[p], run) BY <1>3
  <2> HIDE DEF run
  <2> DEFINE old == reorder[p]
  <2>3. IsMap(old, Payloads) BY <2>1
  <2> HIDE DEF old
  <2>4. IsMap(Without(old, run), Payloads) BY <2>3, WithoutIsMap
  <2>5. DOMAIN Without(old, run) = DOMAIN old \ run BY <2>3, WithoutIsMap
  <2>6. \A s \in DOMAIN old \ run : Without(old, run)[s] = old[s]
    BY DEF Without
  <2> QED BY <2>1, <2>2, <2>4, <2>5, <2>6 DEF run, old
<1> DEFINE n == e - seq
           tail == [i \in 1 .. n |-> IF i = 1 THEN pkt.msg ELSE reorder[p][seq + i - 1]]
<1>5. \A i \in 1 .. n : /\ seq + i <= Len(sent[q])
                        /\ tail[i] = sent[q][seq + i] /\ tail[i] \in Payloads
  <2> TAKE i \in 1 .. n
  <2>0. /\ sent[q] \in Seq(Payloads) /\ seq < Len(sent[q])
        /\ pkt.msg = sent[q][seq + 1] /\ pkt.msg \in Payloads
    BY <1>0, <1>2 DEF IInv, LinkTypes
  <2>1. CASE i = 1 BY <2>0, <2>1, <1>2
  <2>2. CASE i # 1
    <3>1. seq + i - 1 \in seq + 1 .. e - 1 BY <2>2, <1>2
    <3>2. /\ seq + i - 1 \in DOMAIN reorder[p]
          /\ reorder[p][seq + i - 1] \in Payloads
      BY <3>1, <1>1, <1>4 DEF IsMap
    <3>3. seq + i - 1 < Len(sent[q]) /\ reorder[p][seq + i - 1] = sent[q][seq + i - 1 + 1]
      BY <3>2 DEF IInv, InReorder
    <3>4. seq + i - 1 + 1 = seq + i BY <1>2
    <3> QED BY <2>0, <2>2, <3>2, <3>3, <3>4, <1>2
  <2> QED BY <2>1, <2>2
<1>6. tail \in [1 .. n -> Payloads] BY <1>5
<1>7. /\ Len(got[p]) = seq /\ sent[q] \in Seq(Payloads)
      /\ got[p] = SubSeq(sent[q], 1, seq)
  <2>1. Len(got[p]) = seq /\ sent[q] \in Seq(Payloads)
    BY <1>2 DEF IInv, LinkTypes, Counters
  <2> QED BY <2>1 DEF IInv, InOrder
<1>8. got'[p] = got[p] \o tail
  <2>1. got \in [Peers -> Seq(Payloads)] BY DEF IInv, LinkTypes
  <2> QED BY <1>1, <2>1
<1>9. n \in Nat /\ n \in 1 .. n /\ seq + n = e /\ e <= Len(sent[q])
  <2>1. n \in Nat /\ n \in 1 .. n /\ seq + n = e BY <1>2
  <2> QED BY <2>1, <1>5
<1> HIDE DEF tail, n
<1>10. got'[p] = SubSeq(sent[q], 1, e)
  <2>1. \A i \in 1 .. n : tail[i] = sent[q][seq + i] BY <1>5
  <2>2. SubSeq(sent[q], 1, seq) \o tail = SubSeq(sent[q], 1, seq + n)
    <3> DEFINE s == sent[q]
               k == seq
    <3>1. /\ s \in Seq(Payloads) /\ k \in Nat /\ n \in Nat /\ k + n <= Len(s)
          /\ tail \in [1 .. n -> Payloads] /\ \A i \in 1 .. n : tail[i] = s[k + i]
      BY <1>2, <1>6, <1>7, <1>9, <2>1
    <3> HIDE DEF s, k
    <3>2. SubSeq(s, 1, k) \o tail = SubSeq(s, 1, k + n) BY <3>1, LongerPrefix
    <3> QED BY <3>2 DEF s, k
  <2> QED BY <1>7, <1>8, <1>9, <2>2
<1>10a. got'[p] \in Seq(Payloads) /\ Len(got'[p]) = e
  BY <1>2, <1>7, <1>9, <1>10
<1>11. LinkTypes'
  <2>1. got' \in [Peers -> Seq(Payloads)]
    BY <1>1, <1>3, <1>10a DEF IInv, LinkTypes
  <2>2. \A r \in Peers : IsMap(reorder'[r], Payloads)
    BY <1>3, <1>4 DEF IInv, LinkTypes
  <2>3. KnownPackets' BY <1>0 DEF IInv, LinkTypes
  <2> QED BY <1>2, <1>3, <2>1, <2>2, <2>3 DEF IInv, LinkTypes
<1>12. Counters' BY <1>2, <1>3, <1>10a DEF IInv, Counters
<1>13. InReorder' BY <1>2, <1>3, <1>4 DEF IInv, InReorder
<1>14. AcksTrue' /\ AckMeansKept'
  <2>1. \A s \in Nat : (s < rSeqInExpected[p] \/ s \in DOMAIN reorder[p] \/ s = seq)
                         => (s < rSeqInExpected'[p] \/ s \in DOMAIN reorder'[p])
    BY <1>2, <1>3, <1>4
  <2> QED BY <1>3, <2>1, ReceiveKeeps
<1>15. InOrder'
  <2>1. \A r \in Peers : r # p => /\ Len(got'[r]) <= Len(sent'[Other(r)])
                                  /\ got'[r] = SubSeq(sent'[Other(r)], 1, Len(got'[r]))
    BY <1>2, <1>3 DEF IInv, InOrder
  <2> QED BY <2>1, <1>2, <1>9, <1>10, <1>10a DEF InOrder
<1>16. WindowBound'
  <2>1. \A s \in DOMAIN reorder'[p] : e < s /\ s <= e + RecvWindow
    <3> TAKE s \in DOMAIN reorder'[p]
    <3>1. s \in DOMAIN reorder[p] /\ s \notin seq + 1 .. e - 1 /\ s # e /\ s \in Nat
      BY <1>1, <1>4 DEF IsMap
    <3>2. seq < s /\ s <= seq + RecvWindow BY <3>1, <1>2 DEF IInv, WindowBound
    <3> QED BY <3>1, <3>2, <1>2
  <2> QED BY <2>1, <1>3 DEF IInv, WindowBound
<1> QED BY <1>0, <1>11, <1>12, <1>13, <1>14, <1>15, <1>16 DEF IInv

(* From the past: nothing but the acknowledgement, which was due before.   *)
LEMMA DuplicateIInv ==
  ASSUME IInv, NEW p \in Peers, NEW pkt \in wire, ReceiveData(p, pkt),
         ReceiveDuplicate(p, pkt.seq)
  PROVE  IInv'
<1> USE OtherPeer
<1>1. /\ UNCHANGED << hasPeer, rSeqOut, unacked, sent, rSeqInExpected, reorder, got >>
      /\ wire' = wire \cup {AckPacket(p, pkt.seq)} /\ AckPacket(p, pkt.seq) \in Packets
      /\ pkt.seq < rSeqInExpected[p] /\ KnownPackets' /\ OnWire' /\ InUnacked'
  BY ReceiveFrame DEF ReceiveDuplicate
<1>2. AcksTrue' /\ AckMeansKept'
  <2>1. \A s \in Nat : (s < rSeqInExpected[p] \/ s \in DOMAIN reorder[p] \/ s = pkt.seq)
                         => (s < rSeqInExpected'[p] \/ s \in DOMAIN reorder'[p])
    BY <1>1
  <2> QED BY <1>1, <2>1, ReceiveKeeps
<1>3. LinkTypes' BY <1>1 DEF IInv, LinkTypes
<1>4. Counters' BY <1>1 DEF IInv, Counters
<1>5. InReorder' BY <1>1 DEF IInv, InReorder
<1>6. InOrder' BY <1>1 DEF IInv, InOrder
<1>7. WindowBound' BY <1>1 DEF IInv, WindowBound
<1> QED BY <1>1, <1>2, <1>3, <1>4, <1>5, <1>6, <1>7 DEF IInv

(* Ahead of its turn: the buffer gains the message under its number.       *)
LEMMA AheadIInv ==
  ASSUME IInv, NEW p \in Peers, NEW pkt \in wire, ReceiveData(p, pkt),
         ReceiveAhead(p, pkt.seq, pkt.msg)
  PROVE  IInv'
<1> USE OtherPeer
<1> DEFINE seq == pkt.seq
           q == Other(p)
           old == reorder[p]
           new == reorder'[p]
<1>1. /\ UNCHANGED << hasPeer, rSeqOut, unacked, sent, rSeqInExpected, got >>
      /\ wire' = wire \cup {AckPacket(p, seq)} /\ AckPacket(p, seq) \in Packets
      /\ seq \in Nat /\ pkt.msg \in Payloads
      /\ seq < Len(sent[q]) /\ pkt.msg = sent[q][seq + 1]
      /\ seq > rSeqInExpected[p] /\ seq - rSeqInExpected[p] <= RecvWindow
      /\ KnownPackets' /\ OnWire' /\ InUnacked'
  BY ReceiveFrame DEF ReceiveAhead
<1>2. /\ new = IF seq \in DOMAIN old THEN old ELSE With(old, seq, pkt.msg)
      /\ \A r \in Peers : r # p => reorder'[r] = reorder[r]
      /\ reorder' = [r \in Peers |-> reorder'[r]]
  <2>1. reorder = [r \in Peers |-> reorder[r]] BY DEF IInv, LinkTypes
  <2>2. reorder' = [reorder EXCEPT ![p] =
          IF seq \in DOMAIN @ THEN @ ELSE With(@, seq, pkt.msg)]
    BY DEF ReceiveAhead
  <2> QED BY <2>1, <2>2
<1>3. /\ IsMap(old, Payloads) /\ rSeqInExpected[p] \in Nat /\ RecvWindow \in Nat
      /\ \A s \in DOMAIN old : s < Len(sent[q]) /\ old[s] = sent[q][s + 1]
      /\ \A s \in DOMAIN old : rSeqInExpected[p] < s
                               /\ s <= rSeqInExpected[p] + RecvWindow
  BY LinkAssumption DEF IInv, LinkTypes, InReorder, WindowBound
<1> HIDE DEF seq, old, new
<1>4. /\ IsMap(new, Payloads) /\ DOMAIN new = DOMAIN old \cup {seq}
      /\ \A s \in DOMAIN new : new[s] = IF s \in DOMAIN old THEN old[s] ELSE pkt.msg
  BY <1>1, <1>2, <1>3 DEF IsMap, With
<1>5. \A s \in DOMAIN new : /\ s < Len(sent[q]) /\ new[s] = sent[q][s + 1]
                            /\ rSeqInExpected[p] < s
                            /\ s <= rSeqInExpected[p] + RecvWindow
  <2> TAKE s \in DOMAIN new
  <2>1. CASE s \in DOMAIN old BY <2>1, <1>3, <1>4
  <2>2. CASE s \notin DOMAIN old
    <3>1. s = seq /\ new[s] = pkt.msg BY <2>2, <1>4
    <3> QED BY <3>1, <1>1, <1>3
  <2> QED BY <2>1, <2>2
<1>6. AcksTrue' /\ AckMeansKept'
  <2>1. \A s \in Nat : (s < rSeqInExpected[p] \/ s \in DOMAIN reorder[p] \/ s = pkt.seq)
                         => (s < rSeqInExpected'[p] \/ s \in DOMAIN reorder'[p])
    BY <1>1, <1>4 DEF old, new, seq
  <2> QED BY <1>1, <1>2, <2>1, ReceiveKeeps
<1>7. LinkTypes'
  <2>1. \A r \in Peers : IsMap(reorder'[r], Payloads)
    BY <1>2, <1>4 DEF IInv, LinkTypes, new
  <2> QED BY <1>1, <1>2, <2>1 DEF IInv, LinkTypes
<1>8. Counters' BY <1>1 DEF IInv, Counters
<1>9. InReorder'
  <2> SUFFICES ASSUME NEW r \in Peers, NEW s \in DOMAIN reorder'[r]
               PROVE  s < Len(sent[Other(r)]) /\ reorder'[r][s] = sent[Other(r)][s + 1]
    BY <1>1 DEF InReorder
  <2>1. CASE r = p BY <2>1, <1>5 DEF new
  <2>2. CASE r # p BY <2>2, <1>2 DEF IInv, InReorder
  <2> QED BY <2>1, <2>2
<1>10. InOrder' BY <1>1 DEF IInv, InOrder
<1>11. WindowBound'
  <2> SUFFICES ASSUME NEW r \in Peers, NEW s \in DOMAIN reorder'[r]
               PROVE  /\ rSeqInExpected[r] < s
                      /\ s <= rSeqInExpected[r] + RecvWindow
    BY <1>1 DEF WindowBound
  <2>1. CASE r = p BY <2>1, <1>5 DEF new
  <2>2. CASE r # p BY <2>2, <1>2 DEF IInv, WindowBound
  <2> QED BY <2>1, <2>2
<1> QED BY <1>1, <1>6, <1>7, <1>8, <1>9, <1>10, <1>11 DEF IInv

-----------------------------------------------------------------------------
LEMMA StepIInv == IInv /\ [Next]_vars => IInv'
<1> SUFFICES ASSUME IInv, [Next]_vars PROVE IInv' OBVIOUS
<1>1. ASSUME NEW p \in Peers, NEW m \in Payloads, SendTo(p, m) PROVE IInv'
  BY <1>1, SendIInv DEF SendTo
<1>2. ASSUME NEW p \in Peers, NEW due \in SUBSET DOMAIN unacked[p],
             RetransmitTick(p, due)
      PROVE  IInv'
  BY <1>2, ResendIInv, DropPeerIInv DEF RetransmitTick
<1>3. ASSUME NEW p \in Peers, DropPeer(p) PROVE IInv'
  BY <1>3, DropPeerIInv
<1>4. ASSUME NEW p \in Peers, NEW pkt \in wire, ReceiveData(p, pkt) PROVE IInv'
  <2>1. \/ ReceiveInOrder(p, pkt.seq, pkt.msg)
        \/ ReceiveDuplicate(p, pkt.seq)
        \/ ReceiveAhead(p, pkt.seq, pkt.msg)
    BY <1>4 DEF ReceiveData
  <2> QED BY <1>4, <2>1, InOrderIInv, DuplicateIInv, AheadIInv
<1>5. ASSUME NEW p \in Peers, NEW pkt \in wire, ReceiveAck(p, pkt) PROVE IInv'
  BY <1>5, ReceiveAckIInv
<1>6. ASSUME NEW pkt \in wire, Lose(pkt) PROVE IInv'
  BY <1>6, LoseIInv
<1>7. CASE UNCHANGED vars
  <2>1. UNCHANGED << hasPeer, rSeqOut, unacked, rSeqInExpected, reorder, wire, sent, got >>
    BY <1>7 DEF vars, relVars
  <2>2. LinkTypes' BY <2>1 DEF IInv, LinkTypes, KnownPackets
  <2>3. Counters' /\ OnWire' /\ InUnacked'
    BY <2>1 DEF IInv, Counters, OnWire, InUnacked
  <2>4. InReorder' /\ AcksTrue' /\ InOrder'
    BY <2>1 DEF IInv, InReorder, AcksTrue, InOrder
  <2>5. AckMeansKept' /\ WindowBound'
    BY <2>1 DEF IInv, AckMeansKept, WindowBound
  <2> QED BY <2>2, <2>3, <2>4, <2>5 DEF IInv
<1> QED BY <1>1, <1>2, <1>3, <1>4, <1>5, <1>6, <1>7 DEF Next

LEMMA Invariance == Spec => []IInv
BY InitIInv, StepIInv, PTL DEF Spec

(* There are no other packets but the ones of the link.                    *)
LEMMA StepWire ==
  IInv /\ wire \subseteq Packets /\ [Next]_vars => (wire \subseteq Packets)'
<1> SUFFICES ASSUME IInv, wire \subseteq Packets, [Next]_vars
             PROVE  wire' \subseteq Packets
  OBVIOUS
<1>1. ASSUME NEW p \in Peers, NEW m \in Payloads, SendTo(p, m)
      PROVE  wire' \subseteq Packets
  <2>1. rSeqOut[p] \in Nat /\ Other(p) \in Peers
    BY OtherPeer DEF IInv, LinkTypes
  <2>2. DataPacket(p, rSeqOut[p], m) \in Packets
    BY <2>1 DEF DataPacket, Packets
  <2> QED BY <1>1, <2>2 DEF SendTo, SendDataToPeer
<1>2. ASSUME NEW p \in Peers, NEW due \in SUBSET DOMAIN unacked[p],
             RetransmitTick(p, due)
      PROVE  wire' \subseteq Packets
  <2>1. CASE Resend(p, due)
    <3>1. \A s \in due : s \in Nat /\ unacked[p][s].msg \in Payloads
      BY DEF IInv, LinkTypes, IsMap, Unacked
    <3>2. \A s \in due : DataPacket(p, s, unacked[p][s].msg) \in Packets
      BY <3>1, OtherPeer DEF DataPacket, Packets
    <3> QED BY <2>1, <3>2 DEF Resend
  <2>2. CASE DropPeer(p)
    BY <2>2 DEF DropPeer
  <2> QED BY <1>2, <2>1, <2>2 DEF RetransmitTick
<1>3. ASSUME NEW p \in Peers, NEW pkt \in wire, ReceiveData(p, pkt)
      PROVE  wire' \subseteq Packets
  BY <1>3, ReceiveFrame
<1>4. CASE UNCHANGED vars
  BY <1>4 DEF vars
<1> QED BY <1>1, <1>2, <1>3, <1>4 DEF Next, DropPeer, ReceiveAck, Lose

(* What the game is handed is a prefix of what the other game sent, for    *)
(* every window, number of retries and behaviour of the network.           *)
THEOREM InOrderTheorem == Spec => [](TypeOK /\ InOrder)
<1>1. IInv /\ wire \subseteq Packets => TypeOK /\ InOrder
  BY DEF IInv, LinkTypes, TypeOK
<1>2. Init => wire \subseteq Packets BY DEF Init
<1> QED BY <1>1, <1>2, InitIInv, StepIInv, StepWire, PTL DEF Spec

(* A message no longer kept for retransmission has arrived or is buffered, *)
(* so nothing is lost for good while both peers are there.                 *)
THEOREM AckTheorem == Spec => []AckMeansKept
<1>1. IInv => AckMeansKept BY DEF IInv
<1> QED BY <1>1, Invariance, PTL

(* The reorder buffer never holds more than the window.                    *)
THEOREM WindowTheorem == Spec => []WindowBound
<1>1. IInv => WindowBound BY DEF IInv
<1> QED BY <1>1, Invariance, PTL

-----------------------------------------------------------------------------
(***************************************************************************)
(* The implementation of GuaranteedDelivery.  A step that leaves `got`     *)
(* alone is a send or a stutter; one that changes it hands over a longer   *)
(* prefix, because InOrder holds before and after it.                      *)
(***************************************************************************)
LEMMA InitDelivery == Init => Delivery!Init
BY DEF Init, Delivery!Init, Delivery!Peers, Peers

LEMMA StepDelivery ==
  IInv /\ IInv' /\ [Next]_vars => [Delivery!Next]_<< sent, got >>
<1> SUFFICES ASSUME IInv, IInv', [Next]_vars
             PROVE  Delivery!Next \/ UNCHANGED << sent, got >>
  OBVIOUS
<1> USE OtherPeer
<1>0. \A p \in Peers : Delivery!Other(p) = Other(p) BY DEF Delivery!Other, Other
<1>1. ASSUME NEW p \in Peers, NEW m \in Payloads, SendTo(p, m)
      PROVE  Delivery!Next
  <2>1. Delivery!Send(p, m)
    BY <1>1 DEF SendTo, SendDataToPeer, Delivery!Send
  <2> QED BY <2>1 DEF Delivery!Next, Delivery!Peers, Peers
<1>2. ASSUME NEW p \in Peers, NEW pkt \in wire, ReceiveData(p, pkt)
      PROVE  Delivery!Next \/ UNCHANGED << sent, got >>
  <2>1. CASE ReceiveInOrder(p, pkt.seq, pkt.msg)
    <3> DEFINE q == Other(p)
               n == Len(got'[p])
    <3>1. PICK e \in pkt.seq + 1 .. pkt.seq + RecvWindow + 1 :
            /\ rSeqInExpected' = [rSeqInExpected EXCEPT ![p] = e]
            /\ \E tail : got' = [got EXCEPT ![p] = @ \o tail]
      BY <2>1 DEF ReceiveInOrder
    <3>2. /\ hasPeer[p] /\ hasPeer'[p] /\ UNCHANGED sent
          /\ pkt.seq = rSeqInExpected[p] /\ pkt.seq \in Nat
      BY <1>2, <2>1, ReceiveFrame DEF ReceiveInOrder
    <3>3. Len(got[p]) = pkt.seq /\ n = e
      <4>1. rSeqInExpected'[p] = e BY <3>1 DEF IInv, LinkTypes
      <4> QED BY <3>2, <4>1 DEF IInv, Counters
    <3>4. n \in Len(got[p]) + 1 .. Len(sent[q])
      <4>1. n <= Len(sent[q]) BY <3>2 DEF IInv, InOrder
      <4>2. Len(sent[q]) \in Nat BY DEF IInv, LinkTypes
      <4> QED BY <3>2, <3>3, <4>1, <4>2, LinkAssumption
    <3>5. got' = [got EXCEPT ![p] = SubSeq(sent[q], 1, n)]
      <4>1. got'[p] = SubSeq(sent[q], 1, n) BY <3>2 DEF IInv, InOrder
      <4>2. got \in [Peers -> Seq(Payloads)] /\ got' \in [Peers -> Seq(Payloads)]
        BY DEF IInv, LinkTypes
      <4>3. \A r \in Peers : r # p => got'[r] = got[r] BY <3>1, <4>2
      <4> HIDE DEF n
      <4> QED BY <4>1, <4>2, <4>3
    <3> HIDE DEF n
    <3>6. Delivery!Deliver(p) BY <1>0, <3>2, <3>4, <3>5 DEF Delivery!Deliver
    <3> QED BY <3>6 DEF Delivery!Next, Delivery!Peers, Peers
  <2>2. CASE ReceiveDuplicate(p, pkt.seq) \/ ReceiveAhead(p, pkt.seq, pkt.msg)
    BY <1>2, <2>2, ReceiveFrame DEF ReceiveDuplicate, ReceiveAhead
  <2> QED BY <1>2, <2>1, <2>2 DEF ReceiveData
<1>3. ASSUME NEW p \in Peers, NEW due \in SUBSET DOMAIN unacked[p],
             RetransmitTick(p, due)
      PROVE  UNCHANGED << sent, got >>
  BY <1>3 DEF RetransmitTick, Resend, DropPeer
<1>4. ASSUME NEW p \in Peers, DropPeer(p) PROVE UNCHANGED << sent, got >>
  BY <1>4 DEF DropPeer
<1>5. ASSUME NEW p \in Peers, NEW pkt \in wire, ReceiveAck(p, pkt)
      PROVE  UNCHANGED << sent, got >>
  BY <1>5 DEF ReceiveAck
<1>6. ASSUME NEW pkt \in wire, Lose(pkt) PROVE UNCHANGED << sent, got >>
  BY <1>6 DEF Lose
<1>7. CASE UNCHANGED vars BY <1>7 DEF vars
<1> QED BY <1>1, <1>2, <1>3, <1>4, <1>5, <1>6, <1>7 DEF Next

(* The protocol implements delivery in order, once each.                   *)
THEOREM DeliveryTheorem == Spec => InOrderDelivery
<1>1. Spec => []IInv BY Invariance
<1> QED BY <1>1, InitDelivery, StepDelivery, PTL
      DEF Spec, InOrderDelivery, Delivery!Spec
=============================================================================
