---------------------------- MODULE MCSwitching ----------------------------
(* A small instance of Switching for TLC. *)
EXTENDS Switching

\* Timestamps that allow ties and a step back.
MCTicks == 0..1

\* Three stations, 3 being the broadcast address, on the two registered ports,
\* a station behind the unregistered port 3, and a packet without a source.
MCTraffic ==
    [src : {1, 2, 3}, dst : {1, 3}, ingress : {1, 2}, tick : MCTicks]
        \cup {[src |-> 1, dst |-> 2, ingress |-> 3, tick |-> 1],
              [src |-> None, dst |-> 1, ingress |-> 1, tick |-> 0]}
=============================================================================
