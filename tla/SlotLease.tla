----------------------------- MODULE SlotLease -----------------------------
(***************************************************************************)
(* What the GPU broker promises its clients, without how it keeps it: the  *)
(* GPU has at most one owning slot, every lease is a lease on the owner,   *)
(* and ownership passes from one slot to another only through a moment in  *)
(* which nobody owns the GPU and nobody holds a lease                      *)
(* (gpu_broker.py, module docstring: "Slots are mutually exclusive on a    *)
(* single GPU; the broker enforces that exactly ONE slot is active at any  *)
(* time").  GpuBroker implements this specification.                       *)
(***************************************************************************)
CONSTANTS Slots,      \* the services that take turns on the GPU
          Requests,   \* lease identities
          NoSlot      \* nobody owns the GPU; not a slot

VARIABLES owner,      \* the slot that owns the GPU, or NoSlot
          tenants     \* the live leases, as <<lease, slot>> pairs

vars == <<owner, tenants>>

-----------------------------------------------------------------------------

Init == owner = NoSlot /\ tenants = {}

\* A slot takes the idle GPU and serves everybody who was waiting for it.
Open == /\ owner = NoSlot
        /\ owner' \in Slots
        /\ tenants' \in SUBSET (Requests \X {owner'})

\* The owner admits and loses tenants; nobody else's tenants are admitted.
Serve == /\ owner # NoSlot
         /\ owner' = owner
         /\ tenants' \in SUBSET (Requests \X {owner})

\* The owner gives the GPU up, and with it every lease.
Close == /\ owner # NoSlot
         /\ owner' = NoSlot
         /\ tenants' = {}

Next == Open \/ Serve \/ Close

Spec == Init /\ [][Next]_vars

=============================================================================
