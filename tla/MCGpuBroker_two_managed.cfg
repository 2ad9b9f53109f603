SPECIFICATION Spec
CONSTANTS
    LlmSlot = llm
    comfy = comfy
    tts = tts
    NoSlot = none
    LlmRequests = {l1}
    ComfyRequests = {c1}
    TtsRequests = {}
    Slots <- MCSlots
    Requests <- MCRequests
    SlotOf <- MCSlotOf
    FailureThreshold = 2
    KeepaliveOn = TRUE
    Events = {"notReady"}
INVARIANTS
    OneManaged
