SPECIFICATION Spec
CONSTANTS
    LlmSlot = llm
    comfy = comfy
    tts = tts
    NoSlot = none
    LlmRequests = {l1, l2}
    ComfyRequests = {c1}
    TtsRequests = {}
    Slots <- MCSlots
    Requests <- MCRequests
    SlotOf <- MCSlotOf
    FailureThreshold = 2
    KeepaliveOn = TRUE
    Events = {"crash", "autorestart", "user", "notReady", "stopFails", "timeout", "lostGrant", "stale"}
SYMMETRY Symmetry
INVARIANTS
    TypeOK
    OneOwner
    NobodyWaitsInVain
    CoolingSlotIsQuiet
    KeepaliveUndisturbed
PROPERTIES
    LeaseEndsForAReason
    ImplementsSlotLease
