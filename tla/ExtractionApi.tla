----------------------------- MODULE ExtractionApi ----------------------------
(***************************************************************************)
(* The handlers behind ExtractionsController together: submits insert the  *)
(* rows that result requests read, while the workers behind the API move   *)
(* each extraction along ExtractionLifecycle. The id of an extraction is   *)
(* the request that inserted it.                                           *)
(***************************************************************************)
EXTENDS SubmitExtraction, ResultReader

ASSUME ApiAssumption == Ids = Request

apiVars == <<submitVars, readerVars>>

ApiInit == SubmitInit /\ ReaderInit

\* A step of a submit handler; the row it commits enters the lifecycle.
SubmitStep(q) ==
    /\ HandlerStep(q)
    /\ IF rows' = rows THEN UNCHANGED lifecycleVars ELSE Accepted(q)
    /\ UNCHANGED reader

ReadStep(r) == ReaderStep(r) /\ UNCHANGED submitVars

\* A step of a worker, or of the cancel handler, on a row that exists
BehindStep(i) ==
    /\ status[i] # "absent"
    /\ LifecycleStep(i)
    /\ UNCHANGED <<submitVars, reader>>

ApiNext ==
    \/ \E q \in Request : SubmitStep(q)
    \/ \E r \in Reader : ReadStep(r)
    \/ \E i \in Ids : BehindStep(i)

\* A handler that can move moves; nothing is asked of the workers.
ApiSpec ==
    /\ ApiInit /\ [][ApiNext]_apiVars
    /\ \A r \in Reader : WF_apiVars(ReadStep(r))
=============================================================================
