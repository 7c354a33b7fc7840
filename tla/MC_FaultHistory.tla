-------------------------- MODULE MC_FaultHistory --------------------------
(***************************************************************************)
(* Two drives with a poller each, two error codes, a ring of two slots and *)
(* four faults: the ring fills, wraps more than once, is cleared, saved by *)
(* both pollers at the same time, and reloaded at any point.               *)
(***************************************************************************)
EXTENDS FaultHistory

Drives == {"A", "B"}
PollerOf == [d \in Drives |-> d]
=============================================================================
