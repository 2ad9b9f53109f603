---------------------------- MODULE MCGpuBroker ----------------------------
(***************************************************************************)
(* Instances of GpuBroker for TLC: the three slots of ALL_SLOTS, and a few *)
(* requests for each.                                                      *)
(***************************************************************************)
EXTENDS GpuBroker, TLC

CONSTANTS comfy, tts, LlmRequests, ComfyRequests, TtsRequests

MCSlots == {LlmSlot, comfy, tts}
MCRequests == LlmRequests \union ComfyRequests \union TtsRequests
MCSlotOf == [r \in MCRequests |-> IF r \in LlmRequests THEN LlmSlot
                                  ELSE IF r \in ComfyRequests THEN comfy ELSE tts]

\* Requests for the same slot are interchangeable.
Symmetry == Permutations(LlmRequests) \union Permutations(ComfyRequests)

=============================================================================
