-------------------------- MODULE MCPacketPipeline --------------------------
(* Small instances of PacketPipeline for TLC. *)
EXTENDS PacketPipeline

Synthetic(id, ok, fwd) ==
    [lifecycle_id |-> id, ok |-> ok, fwd |-> fwd, src |-> "control"]

\* A send-packet burst whose first id collides with the second datagram's
\* (as 999 does with the 999th), and a replayed packet the worker refuses.
MCBursts == {<<Synthetic(2, TRUE, TRUE), Synthetic(8, TRUE, TRUE)>>,
             <<Synthetic(9, FALSE, FALSE)>>}

\* Two rules for the same lifecycle: the first one wins.
MCRules == <<[lifecycle_id |-> 3, type |-> "ProcessingRejection"],
             [lifecycle_id |-> 3, type |-> "None"],
             [lifecycle_id |-> 9, type |-> "ArtificialDelay"]>>

NoRules == <<>>

\* The daemon's send-packet:broadcast, repeated.
BroadcastOnly == {<<Synthetic(9, TRUE, TRUE)>>}
=============================================================================
