------------------------------- MODULE Outbox -------------------------------
(***************************************************************************)
(* What statistics sync promises of the event table in runtime.db: an      *)
(* at-least-once outbox. An event is queued once, may be delivered several *)
(* times, and leaves the queue only when it has been delivered; nothing    *)
(* that left the queue comes back to it.                                   *)
(***************************************************************************)
CONSTANT Events

VARIABLES queued, acked, delivered

OutboxInit == queued = {} /\ acked = {} /\ delivered = {}

Enqueue(S) ==
    /\ S \cap (queued \cup acked) = {}
    /\ queued' = queued \cup S
    /\ UNCHANGED <<acked, delivered>>

Deliver(S) ==
    /\ delivered' = delivered \cup S
    /\ UNCHANGED <<queued, acked>>

Acknowledge(S) ==
    /\ S \subseteq queued \cap delivered
    /\ queued' = queued \ S
    /\ acked' = acked \cup S
    /\ UNCHANGED delivered

OutboxNext == \E S \in SUBSET Events : Enqueue(S) \/ Deliver(S) \/ Acknowledge(S)

OutboxSpec == OutboxInit /\ [][OutboxNext]_<<queued, acked, delivered>>
=============================================================================
