------------------------------- MODULE Guides -------------------------------
(***************************************************************************)
(* The guide to the current build: start_guide() and _generate_guide() of  *)
(* src/backend/lld/features.py.  Its text is left out.                     *)
(***************************************************************************)
EXTENDS Naturals

CONSTANTS Guides   \* identities of rows of the table guides

VARIABLES
    guide,         \* where the request or the task of each guide is
    guideRow,      \* guides.status
    guideRunning   \* _guide_running

guideVars == <<guide, guideRow, guideRunning>>

\* asked: start_guide() awaits the version, and then the new row.
GuidePlaces == {"unused", "asked", "writing", "over", "lost"}

GuideInit ==
    /\ guide = [g \in Guides |-> "unused"]
    /\ guideRow = [g \in Guides |-> "none"]
    /\ guideRunning = FALSE

\* A provider is configured; the flag is set only when the row is there.
StartGuide(g) ==
    /\ guide[g] = "unused" /\ ~guideRunning
    /\ guide' = [guide EXCEPT ![g] = "asked"]
    /\ UNCHANGED <<guideRow, guideRunning>>

GuideStarts(g) ==
    /\ guide[g] = "asked"
    /\ guide' = [guide EXCEPT ![g] = "writing"]
    /\ guideRow' = [guideRow EXCEPT ![g] = "running"]
    /\ guideRunning' = TRUE

\* Mutant: the flag is not reset after an error.
ResetIfGood(status) == status = "failed" /\ guideRunning
Reset(status) == FALSE

\* A text that is short, or none, is a failure; both store the outcome.
GuideEnds(g, status) ==
    /\ guide[g] = "writing"
    /\ guide' = [guide EXCEPT ![g] = "over"]
    /\ guideRow' = [guideRow EXCEPT ![g] = status]
    /\ guideRunning' = Reset(status)

GuidesLost ==
    /\ \E g \in Guides : guide[g] \in {"asked", "writing"}
    /\ guide' = [g \in Guides |-> IF guide[g] \in {"unused", "over"} THEN guide[g] ELSE "lost"]
    /\ guideRunning' = FALSE
    /\ UNCHANGED guideRow

GuideProceeds(g) ==
    GuideStarts(g) \/ \E status \in {"success", "failed"} : GuideEnds(g, status)

GuideNext ==
    \/ \E g \in Guides : StartGuide(g) \/ GuideProceeds(g)
    \/ GuidesLost

GuideSpec == GuideInit /\ [][GuideNext]_guideVars

GuideFairness == \A g \in Guides : WF_guideVars(GuideProceeds(g))

-----------------------------------------------------------------------------
(* Properties *)

GuideTypeOK ==
    /\ guide \in [Guides -> GuidePlaces]
    /\ guideRow \in [Guides -> {"none", "running", "success", "failed"}]
    /\ guideRunning \in BOOLEAN

\* A row that says "running" is written again, unless the backend ends first,
\* and a new guide can be asked for again.
GuideRowsSettle ==
    \A g \in Guides :
        guideRow[g] = "running" ~> (guideRow[g] # "running" \/ guide[g] = "lost") /\ ~guideRunning

=============================================================================
