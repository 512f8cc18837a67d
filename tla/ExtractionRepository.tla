------------------------- MODULE ExtractionRepository -------------------------
(***************************************************************************)
(* A row of the extractions table and the conditional UPDATEs of           *)
(* ExtractionRepository. Each update is one SQL statement, so it is a pair *)
(* of operators: CanX(r) is its WHERE clause and X(r) the row it returns.  *)
(* The caller gets None when the WHERE clause does not match.              *)
(*                                                                         *)
(* A timestamp column is kept as its age: setting it to now() makes the    *)
(* age 0, and "column < now() - n" is "age > n". Ages saturate at MaxAge,  *)
(* above every threshold the service compares them with.                   *)
(***************************************************************************)
EXTENDS Naturals

CONSTANT MaxAge         \* ages are not told apart from here on

ASSUME MaxAgeAssumption == MaxAge \in Nat

Statuses     == {"absent", "queued", "running", "succeeded", "failed", "cancelled"}
Terminal     == {"succeeded", "failed", "cancelled"}
LegStatuses  == {"null", "pending", "running", "succeeded", "failed"}
LegTerminal  == {"succeeded", "failed"}
Results      == {"none", "llm", "grounded"}
Errors       == {"none", "permanent_error", "extraction_failed"}
LegErrors    == {"none", "permanent_error", "bbox_refine_failed"}
Ages         == 0 .. MaxAge

Row == [ status       : Statuses,       \* "absent": no such row
         attempts     : Nat,
         age          : Ages,           \* of coalesce(started_at, submitted_at)
         finishedAge  : Ages,           \* of finished_at
         result       : Results,
         error        : Errors,
         bbox         : LegStatuses,    \* post_processing_bbox_status
         bboxAttempts : Nat,
         bboxStarted  : BOOLEAN,        \* post_processing_bbox_started_at IS NOT NULL
         bboxAge      : Ages,           \* of post_processing_bbox_started_at
         bboxError    : LegErrors ]

AbsentRow ==
    [ status |-> "absent", attempts |-> 0, age |-> 0, finishedAge |-> 0,
      result |-> "none", error |-> "none", bbox |-> "null", bboxAttempts |-> 0,
      bboxStarted |-> FALSE, bboxAge |-> 0, bboxError |-> "none" ]

\* add(): the row the submit handler inserts
NewRow == [AbsentRow EXCEPT !.status = "queued"]

\* One time unit passes.
Older(age)  == IF age < MaxAge THEN age + 1 ELSE age
AgedRow(r)  == [r EXCEPT !.age = Older(@), !.finishedAge = Older(@), !.bboxAge = Older(@)]

-----------------------------------------------------------------------------
(* Queries of the reapers and of the queued-backlog poll *)

IsStaleRunning(r, lease) == r.status = "running" /\ r.age > lease

IsStaleQueued(r, threshold) == r.status = "queued" /\ r.age > threshold

IsStaleBboxRefining(r, lease) == r.bbox = "running" /\ r.bboxAge > lease

IsPendingBboxRevive(r, threshold, lease) ==
    /\ r.status = "succeeded"
    /\ r.bbox = "pending"
    /\ \/ ~r.bboxStarted /\ r.finishedAge > threshold
       \/ r.bboxStarted /\ r.bboxAge > lease

-----------------------------------------------------------------------------
(* Main lifecycle *)

\* Mutant: a running row is claimed without looking at its lease.
CanMarkRunningNoLease(r, lease) == r.status \in {"queued", "running"}

CanMarkRunning(r, lease) == r.status = "queued" \/ IsStaleRunning(r, lease)

MarkRunning(r) == [r EXCEPT !.status = "running", !.age = 0, !.attempts = @ + 1]

CanMarkSucceeded(r) == r.status = "running"

MarkSucceeded(r, requestBbox) ==
    [r EXCEPT !.status = "succeeded", !.finishedAge = 0, !.result = "llm",
              !.error = "none", !.bbox = IF requestBbox THEN "pending" ELSE @]

\* Mutant: the UPDATE has no status precondition.
CanMarkFailedUnguarded(r) == r.status # "absent"

CanMarkFailed(r) == r.status = "running"

MarkFailed(r, code) == [r EXCEPT !.status = "failed", !.finishedAge = 0, !.error = code]

\* Mutant: a running extraction may be cancelled too.
CanMarkCancelledRunning(r) == r.status \in {"queued", "running"}

CanMarkCancelled(r) == r.status = "queued"

MarkCancelled(r) == [r EXCEPT !.status = "cancelled", !.finishedAge = 0]

CanRequeueForRetry(r) == r.status = "running"

RequeueForRetry(r) == [r EXCEPT !.status = "queued"]

-----------------------------------------------------------------------------
(* Bbox-refinement leg *)

\* Mutant: a running leg is claimed without looking at its lease.
CanClaimBboxRefinementNoLease(r, lease) ==
    r.status = "succeeded" /\ r.bbox \in {"pending", "running"}

CanClaimBboxRefinement(r, lease) ==
    /\ r.status = "succeeded"
    /\ r.bbox = "pending" \/ IsStaleBboxRefining(r, lease)

ClaimBboxRefinement(r) ==
    [r EXCEPT !.bbox = "running", !.bboxStarted = TRUE, !.bboxAge = 0, !.bboxAttempts = @ + 1]

BboxLegRunning(r) == r.status = "succeeded" /\ r.bbox = "running"

CanRequeueBboxRefinement(r) == BboxLegRunning(r)

RequeueBboxRefinement(r) == [r EXCEPT !.bbox = "pending"]

CanCompleteBboxRefinement(r) == BboxLegRunning(r)

CompleteBboxRefinement(r) ==
    [r EXCEPT !.result = "grounded", !.bbox = "succeeded", !.bboxError = "none"]

\* Mutant: the UPDATE does not test the leg's status.
CanFailBboxRefinementUnguarded(r) == r.status = "succeeded"

CanFailBboxRefinement(r) == BboxLegRunning(r)

FailBboxRefinement(r, code) == [r EXCEPT !.bbox = "failed", !.bboxError = code]
=============================================================================
