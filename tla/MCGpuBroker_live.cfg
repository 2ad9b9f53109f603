SPECIFICATION FairSpec
CONSTANTS
    LlmSlot = llm
    comfy = comfy
    tts = tts
    NoSlot = none
    LlmRequests = {l1}
    ComfyRequests = {c1}
    TtsRequests = {t1}
    Slots <- MCSlots
    Requests <- MCRequests
    SlotOf <- MCSlotOf
    FailureThreshold = 1
    KeepaliveOn = TRUE
    Events = {"crash", "stale"}
INVARIANTS
    QueueIsAttended
    OneManaged
PROPERTIES
    StartsForTheOldest
    QueueIsServed
    UnusedServiceStops
