-------------------------- MODULE PacketLifecycle --------------------------
(***************************************************************************)
(* What the packet path promises: a lifecycle id that enters the system    *)
(* leaves it through exactly one counted terminal outcome.  The counters   *)
(* are the ones PacketStats reports as processed_packets and as the sum of *)
(* drops_by_reason; both count lifecycles, never events.                   *)
(***************************************************************************)
EXTENDS Naturals

CONSTANT Ids        \* every lifecycle id that can occur

VARIABLES
    status,         \* status[id]: where lifecycle id stands
    processed,      \* lifecycles that ended as processed
    dropped         \* lifecycles that ended as dropped

vars == <<status, processed, dropped>>

Stages == {"fresh", "inflight", "done"}

Init ==
    /\ status = [id \in Ids |-> "fresh"]
    /\ processed = 0
    /\ dropped = 0

Enter(id) ==
    /\ status[id] = "fresh"
    /\ status' = [status EXCEPT ![id] = "inflight"]
    /\ UNCHANGED <<processed, dropped>>

\* The lifecycle ends once: one of the two counters moves, by one.
Finish(id) ==
    /\ status[id] = "inflight"
    /\ status' = [status EXCEPT ![id] = "done"]
    /\ \/ processed' = processed + 1 /\ dropped' = dropped
       \/ dropped' = dropped + 1 /\ processed' = processed

\* A datagram the receiver rejects enters and ends in separate steps of the
\* receiver, so no step both enters and finishes a lifecycle.
Next == \E id \in Ids : Enter(id) \/ Finish(id)

Fairness == \A id \in Ids : WF_vars(Finish(id))

SafetySpec == Init /\ [][Next]_vars

Spec == SafetySpec /\ Fairness
============================================================================
