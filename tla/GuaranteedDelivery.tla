------------------------- MODULE GuaranteedDelivery -------------------------
(***************************************************************************)
(* What a guaranteed send promises the game: the messages one peer sends   *)
(* reach the other's receive handler in order, each once, with no gap.     *)
(* Nothing is said of sequence numbers, acknowledgements or packets.       *)
(***************************************************************************)
EXTENDS Naturals, Sequences

CONSTANTS Host, Joiner, Payloads

VARIABLES
  sent,   \* messages each peer has sent with the guaranteed flag
  got     \* messages each peer's game has been handed

Peers == {Host, Joiner}

Other(p) == IF p = Host THEN Joiner ELSE Host

Init == /\ sent = [p \in Peers |-> << >>]
        /\ got = [p \in Peers |-> << >>]

Send(p, m) == /\ sent' = [sent EXCEPT ![p] = Append(@, m)]
              /\ UNCHANGED got

(* A step may hand over several messages that were waiting for an earlier. *)
Deliver(p) ==
  \E n \in Len(got[p]) + 1 .. Len(sent[Other(p)]) :
    /\ got' = [got EXCEPT ![p] = SubSeq(sent[Other(p)], 1, n)]
    /\ UNCHANGED sent

Next == \E p \in Peers : Deliver(p) \/ \E m \in Payloads : Send(p, m)

Spec == Init /\ [][Next]_<< sent, got >>
=============================================================================
