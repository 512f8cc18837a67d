------------------------- MODULE ExtractionLifecycle --------------------------
(***************************************************************************)
(* What a caller of the asynchronous API may rely on, without workers,     *)
(* buses, leases or retries: the main status of an extraction moves along  *)
(* ExtractionStatus, the post-processing status along                      *)
(* PostProcessingStatus, and the stored result follows the two.            *)
(* AsyncExtraction implements it.                                          *)
(***************************************************************************)
CONSTANTS
    Ids,            \* extraction ids that may be submitted
    WantsBbox       \* ids submitted with stages.bbox_refine

ASSUME LifecycleAssumption == WantsBbox \subseteq Ids

VARIABLES
    status,     \* main status; "absent" before the submit
    leg,        \* status of the bbox-refinement leg; "null" without one
    result      \* the stored result: none, ungrounded or grounded

lifecycleVars == <<status, leg, result>>

LifecycleInit ==
    /\ status = [i \in Ids |-> "absent"]
    /\ leg    = [i \in Ids |-> "null"]
    /\ result = [i \in Ids |-> "none"]

MoveTo(i, s) ==
    /\ status' = [status EXCEPT ![i] = s]
    /\ UNCHANGED <<leg, result>>

Accepted(i)  == status[i] = "absent" /\ MoveTo(i, "queued")

Cancelled(i) == status[i] = "queued" /\ MoveTo(i, "cancelled")

Started(i)   == status[i] = "queued" /\ MoveTo(i, "running")

Retried(i)   == status[i] = "running" /\ MoveTo(i, "queued")

Failed(i)    == status[i] = "running" /\ MoveTo(i, "failed")

\* The result is readable, and the leg it will get is visible, in one step.
Succeeded(i) ==
    /\ status[i] = "running"
    /\ status' = [status EXCEPT ![i] = "succeeded"]
    /\ leg'    = [leg EXCEPT ![i] = IF i \in WantsBbox THEN "pending" ELSE @]
    /\ result' = [result EXCEPT ![i] = "llm"]

MoveLegTo(i, s) ==
    /\ status[i] = "succeeded"
    /\ leg' = [leg EXCEPT ![i] = s]
    /\ UNCHANGED <<status, result>>

LegStarted(i) == leg[i] = "pending" /\ MoveLegTo(i, "running")

LegRetried(i) == leg[i] = "running" /\ MoveLegTo(i, "pending")

LegFailed(i)  == leg[i] = "running" /\ MoveLegTo(i, "failed")

\* The refined result replaces the stored one as the leg succeeds.
LegSucceeded(i) ==
    /\ status[i] = "succeeded" /\ leg[i] = "running"
    /\ leg'    = [leg EXCEPT ![i] = "succeeded"]
    /\ result' = [result EXCEPT ![i] = "grounded"]
    /\ UNCHANGED status

LifecycleStep(i) ==
    \/ Accepted(i) \/ Cancelled(i) \/ Started(i) \/ Retried(i) \/ Failed(i) \/ Succeeded(i)
    \/ LegStarted(i) \/ LegRetried(i) \/ LegFailed(i) \/ LegSucceeded(i)

LifecycleNext == \E i \in Ids : LifecycleStep(i)

Lifecycle == LifecycleInit /\ [][LifecycleNext]_lifecycleVars
=============================================================================
