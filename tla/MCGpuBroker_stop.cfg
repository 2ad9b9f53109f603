SPECIFICATION FairSpec
CONSTANTS
    LlmSlot = llm
    comfy = comfy
    tts = tts
    NoSlot = none
    LlmRequests = {l1}
    ComfyRequests = {c1}
    TtsRequests = {}
    Slots <- MCSlots
    Requests <- MCRequests
    SlotOf <- MCSlotOf
    FailureThreshold = 2
    KeepaliveOn = FALSE
    Events = {"crash", "stale", "timeout", "notReady", "shutdown"}
CHECK_DEADLOCK FALSE
INVARIANTS
    ShutdownIsFinal
    NoOrphanLease
PROPERTIES
    ShutdownCompletes
