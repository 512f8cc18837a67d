--------------------------- MODULE BboxRefineWorker ---------------------------
(***************************************************************************)
(* The bbox-refinement leg of an asynchronous extraction: what the main    *)
(* worker does to start it (mark_succeeded with request_bbox_refinement,   *)
(* then the post-processing event), the BboxRefineWorker processes and the *)
(* BboxReaper each of them runs. There is no database poll on this leg:    *)
(* only the bus brings an extraction to a worker, and the bus may lose or  *)
(* repeat a message.                                                       *)
(*                                                                         *)
(* Time and RunBudget are as in ExtractionWorker, for bbox_refine_timeout_s*)
(* and bbox_refine_lease_s. The timeout is on the refinement only: a reply *)
(* that is late before it, the UPDATE after it or a blocked event loop may *)
(* still take a run past its lease.                                        *)
(***************************************************************************)
EXTENDS ExtractionRepository, RetryPolicy, FiniteSets

CONSTANTS
    Ids,            \* extractions submitted with stages.bbox_refine
    None,           \* no id
    Worker,         \* bbox-worker processes
    HasCallback,    \* ids submitted with a callback_url
    Lease,          \* bbox_refine_lease_s
    RunBudget,      \* longest time between a claim and its final UPDATE
    PendingOrphan,  \* partial_succeeded_orphan_threshold_s
    MaxAttempts,    \* bbox_refine_max_attempts
    MaxFaults       \* bound on crashes and database faults

ASSUME BboxAssumption ==
    /\ None \notin Ids
    /\ HasCallback \subseteq Ids
    /\ Lease \in Nat /\ RunBudget \in Nat /\ PendingOrphan \in Nat
    /\ MaxAttempts \in Nat \ {0} /\ MaxFaults \in Nat
    /\ RunBudget <= MaxAge
    /\ Lease < MaxAge /\ PendingOrphan < MaxAge

VARIABLES
    row,        \* the extractions table
    announce,   \* main workers between mark_succeeded and the publish
    refineBus,  \* post-processing events in flight
    task,       \* the _process task of each worker
    delayed,    \* pending _delayed_publish tasks
    up,         \* the worker process is alive
    hooks,      \* post_processing.completed deliveries started
    faults,     \* crashes and database faults so far
    overran     \* history: some run has outlived its lease

vars == <<row, announce, refineBus, task, delayed, up, hooks, faults, overran>>

PCs == {"idle", "claim", "refine", "webhook", "except"}

Task == [ pc        : PCs,
          id        : Ids \cup {None},
          attempts  : Nat,              \* attempt number of the claim held
          elapsed   : 0 .. RunBudget,   \* time since the claim, while it is owned
          permanent : BOOLEAN,          \* _is_permanent(exc)
          finalised : BOOLEAN ]         \* complete_bbox_refinement has committed

IdleTask == [ pc |-> "idle", id |-> None, attempts |-> 0, elapsed |-> 0,
              permanent |-> FALSE, finalised |-> FALSE ]

Delayed == [ worker : Worker, id : Ids, left : 0 .. (2 * RetryCeiling) ]

Init ==
    /\ row       = [i \in Ids |-> AbsentRow]
    /\ announce  = {}
    /\ refineBus = {}
    /\ task      = [w \in Worker |-> IdleTask]
    /\ delayed   = {}
    /\ up        = [w \in Worker |-> TRUE]
    /\ hooks     = [i \in Ids |-> 0]
    /\ faults    = 0
    /\ overran   = FALSE

\* The task holds a claim that it has not finalised yet.
Owns(w) == task[w].pc \in {"refine", "except"} /\ ~task[w].finalised

-----------------------------------------------------------------------------
(* The main worker starts the leg *)

MainSucceeds(i) ==
    /\ row[i].status = "absent"
    /\ row' = [row EXCEPT ![i] = MarkSucceeded(MarkRunning(NewRow), TRUE)]
    /\ announce' = announce \cup {i}
    /\ UNCHANGED <<refineBus, task, delayed, up, hooks, faults, overran>>

Announce(i) ==
    /\ i \in announce
    /\ announce' = announce \ {i}
    /\ refineBus' = refineBus \cup {i}
    /\ UNCHANGED <<row, task, delayed, up, hooks, faults, overran>>

\* The main worker dies, its webhook raises or its publish raises.
AnnounceFails(i) ==
    /\ i \in announce
    /\ announce' = announce \ {i}
    /\ UNCHANGED <<row, refineBus, task, delayed, up, hooks, faults, overran>>

Lose(i) ==
    /\ i \in refineBus
    /\ refineBus' = refineBus \ {i}
    /\ UNCHANGED <<row, announce, task, delayed, up, hooks, faults, overran>>

-----------------------------------------------------------------------------
(* _process *)

\* A message is acknowledged, or stays and is delivered again later.
Deliver(w, i) ==
    /\ up[w]
    /\ i \in refineBus
    /\ task[w].pc = "idle"
    /\ task' = [task EXCEPT ![w] = [IdleTask EXCEPT !.pc = "claim", !.id = i]]
    /\ refineBus' \in {refineBus, refineBus \ {i}}
    /\ UNCHANGED <<row, announce, delayed, up, hooks, faults, overran>>

ClaimWins(w) ==
    LET i == task[w].id IN
    /\ task[w].pc = "claim"
    /\ CanClaimBboxRefinement(row[i], Lease)
    /\ row' = [row EXCEPT ![i] = ClaimBboxRefinement(@)]
    /\ task' = [task EXCEPT ![w].pc = "refine", ![w].attempts = row[i].bboxAttempts + 1]
    /\ UNCHANGED <<announce, refineBus, delayed, up, hooks, faults, overran>>

ClaimLoses(w) ==
    /\ task[w].pc = "claim"
    /\ ~CanClaimBboxRefinement(row[task[w].id], Lease)
    /\ task' = [task EXCEPT ![w] = IdleTask]
    /\ UNCHANGED <<row, announce, refineBus, delayed, up, hooks, faults, overran>>

\* The refiner, its timeout, a document's failure or the final UPDATE raises.
RefineRaises(w) ==
    /\ task[w].pc = "refine"
    /\ \E permanent \in BOOLEAN :
         task' = [task EXCEPT ![w].pc = "except", ![w].permanent = permanent]
    /\ UNCHANGED <<row, announce, refineBus, delayed, up, hooks, faults, overran>>

CompleteWins(w) ==
    LET i == task[w].id IN
    /\ task[w].pc = "refine"
    /\ CanCompleteBboxRefinement(row[i])
    /\ row' = [row EXCEPT ![i] = CompleteBboxRefinement(@)]
    /\ task' = [task EXCEPT ![w].pc = "webhook", ![w].finalised = TRUE, ![w].elapsed = 0]
    /\ UNCHANGED <<announce, refineBus, delayed, up, hooks, faults, overran>>

\* complete_bbox_refinement commits, but its reply is lost and the call raises.
CompleteReplyLost(w) ==
    LET i == task[w].id IN
    /\ task[w].pc = "refine"
    /\ CanCompleteBboxRefinement(row[i])
    /\ faults < MaxFaults
    /\ row' = [row EXCEPT ![i] = CompleteBboxRefinement(@)]
    /\ \E permanent \in BOOLEAN :
         task' = [task EXCEPT ![w].pc = "except", ![w].permanent = permanent,
                              ![w].finalised = TRUE, ![w].elapsed = 0]
    /\ faults' = faults + 1
    /\ UNCHANGED <<announce, refineBus, delayed, up, hooks, overran>>

CompleteLoses(w) ==
    /\ task[w].pc = "refine"
    /\ ~CanCompleteBboxRefinement(row[task[w].id])
    /\ task' = [task EXCEPT ![w] = IdleTask]
    /\ UNCHANGED <<row, announce, refineBus, delayed, up, hooks, faults, overran>>

\* _fire_webhook returns at once when the caller gave no callback_url.
Notified(i) == IF i \in HasCallback THEN [hooks EXCEPT ![i] = @ + 1] ELSE hooks

\* deliver returned True or False
Notify(w) ==
    /\ task[w].pc = "webhook"
    /\ hooks' = Notified(task[w].id)
    /\ task' = [task EXCEPT ![w] = IdleTask]
    /\ UNCHANGED <<row, announce, refineBus, delayed, up, faults, overran>>

\* deliver raises when the receiver answers 5xx/429 to the last attempt
NotifyRaises(w) ==
    /\ task[w].pc = "webhook"
    /\ task[w].id \in HasCallback
    /\ hooks' = Notified(task[w].id)
    /\ \E permanent \in BOOLEAN :
         task' = [task EXCEPT ![w].pc = "except", ![w].permanent = permanent]
    /\ UNCHANGED <<row, announce, refineBus, delayed, up, faults, overran>>

\* Mutant: one attempt too many.
GivesUpLate(w) == task[w].permanent \/ task[w].attempts > MaxAttempts

GivesUp(w) == task[w].permanent \/ task[w].attempts >= MaxAttempts

ErrorCode(w) == IF task[w].permanent THEN "permanent_error" ELSE "bbox_refine_failed"

\* No webhook follows a failed leg.
FailWins(w) ==
    LET i == task[w].id IN
    /\ task[w].pc = "except" /\ GivesUp(w)
    /\ CanFailBboxRefinement(row[i])
    /\ row' = [row EXCEPT ![i] = FailBboxRefinement(@, ErrorCode(w))]
    /\ task' = [task EXCEPT ![w] = IdleTask]
    /\ UNCHANGED <<announce, refineBus, delayed, up, hooks, faults, overran>>

FailLoses(w) ==
    /\ task[w].pc = "except" /\ GivesUp(w)
    /\ ~CanFailBboxRefinement(row[task[w].id])
    /\ task' = [task EXCEPT ![w] = IdleTask]
    /\ UNCHANGED <<row, announce, refineBus, delayed, up, hooks, faults, overran>>

RequeueWins(w) ==
    LET i == task[w].id IN
    /\ task[w].pc = "except" /\ ~GivesUp(w)
    /\ CanRequeueBboxRefinement(row[i])
    /\ row' = [row EXCEPT ![i] = RequeueBboxRefinement(@)]
    /\ \E d \in BackoffDelays(task[w].attempts) :
         delayed' = delayed \cup {[worker |-> w, id |-> i, left |-> d]}
    /\ task' = [task EXCEPT ![w] = IdleTask]
    /\ UNCHANGED <<announce, refineBus, up, hooks, faults, overran>>

RequeueLoses(w) ==
    /\ task[w].pc = "except" /\ ~GivesUp(w)
    /\ ~CanRequeueBboxRefinement(row[task[w].id])
    /\ task' = [task EXCEPT ![w] = IdleTask]
    /\ UNCHANGED <<row, announce, refineBus, delayed, up, hooks, faults, overran>>

\* The claim or an UPDATE of the except block raises: nothing is written and
\* the exception escapes _process.
Escapes(w) ==
    /\ task[w].pc \in {"claim", "except"}
    /\ faults < MaxFaults
    /\ task' = [task EXCEPT ![w] = IdleTask]
    /\ faults' = faults + 1
    /\ UNCHANGED <<row, announce, refineBus, delayed, up, hooks, overran>>

-----------------------------------------------------------------------------
(* Timers, the reaper, crashes and time *)

\* _delayed_publish after its sleep
DelayedPublish(d) ==
    /\ d \in delayed /\ d.left = 0
    /\ delayed' = delayed \ {d}
    /\ refineBus' = refineBus \cup {d.id}
    /\ UNCHANGED <<row, announce, task, up, hooks, faults, overran>>

\* Mutant: a leg whose first event was lost is never revived.
OrphansStartedOnly ==
    {i \in Ids : \/ IsStaleBboxRefining(row[i], Lease)
                 \/ /\ IsPendingBboxRevive(row[i], PendingOrphan, Lease)
                    /\ row[i].bboxStarted}

\* BboxReaper._sweep republishes the legs it finds.
Orphans == {i \in Ids : \/ IsStaleBboxRefining(row[i], Lease)
                        \/ IsPendingBboxRevive(row[i], PendingOrphan, Lease)}

ReaperSweep(w) ==
    /\ up[w]
    /\ Orphans # {}
    /\ refineBus' = refineBus \cup Orphans
    /\ UNCHANGED <<row, announce, task, delayed, up, hooks, faults, overran>>

\* The process is killed or told to stop: its task and timers are gone.
Crash(w) ==
    /\ up[w]
    /\ faults < MaxFaults
    /\ up' = [up EXCEPT ![w] = FALSE]
    /\ task' = [task EXCEPT ![w] = IdleTask]
    /\ delayed' = {d \in delayed : d.worker # w}
    /\ faults' = faults + 1
    /\ UNCHANGED <<row, announce, refineBus, hooks, overran>>

Restart(w) ==
    /\ ~up[w]
    /\ up' = [up EXCEPT ![w] = TRUE]
    /\ UNCHANGED <<row, announce, refineBus, task, delayed, hooks, faults, overran>>

\* A live owner finalises before its budget is spent, so time waits for it.
Tick ==
    /\ \A w \in Worker : Owns(w) => task[w].elapsed < RunBudget
    /\ row' = [i \in Ids |-> AgedRow(row[i])]
    /\ task' = [w \in Worker |-> IF Owns(w) THEN [task[w] EXCEPT !.elapsed = @ + 1]
                                            ELSE task[w]]
    /\ delayed' = {[d EXCEPT !.left = IF @ = 0 THEN 0 ELSE @ - 1] : d \in delayed}
    /\ overran' = (overran \/ \E w \in Worker : Owns(w) /\ task[w].elapsed >= Lease)
    /\ UNCHANGED <<announce, refineBus, up, hooks, faults>>

-----------------------------------------------------------------------------
ProcessStep(w) ==
    \/ ClaimWins(w) \/ ClaimLoses(w)
    \/ RefineRaises(w) \/ CompleteWins(w)
    \/ CompleteReplyLost(w) \/ CompleteLoses(w)
    \/ Notify(w) \/ NotifyRaises(w)
    \/ FailWins(w) \/ FailLoses(w) \/ RequeueWins(w) \/ RequeueLoses(w)
    \/ Escapes(w)

MainStep(i) == MainSucceeds(i) \/ Announce(i) \/ AnnounceFails(i)

Next ==
    \/ \E i \in Ids : MainStep(i) \/ Lose(i)
    \/ \E w \in Worker :
         \/ \E i \in Ids : Deliver(w, i)
         \/ ProcessStep(w) \/ ReaperSweep(w) \/ Crash(w) \/ Restart(w)
    \/ \E d \in delayed : DelayedPublish(d)
    \/ Tick

Spec == Init /\ [][Next]_vars

\* A task that can move moves, the reaper and a crashed process come back,
\* time passes, and the bus does not lose every copy of a message.
Fairness ==
    /\ \A w \in Worker : /\ WF_vars(ProcessStep(w))
                         /\ WF_vars(ReaperSweep(w)) /\ WF_vars(Restart(w))
    /\ \A i \in Ids : WF_vars(Announce(i) \/ AnnounceFails(i))
    /\ WF_vars(\E d \in delayed : DelayedPublish(d))
    /\ WF_vars(Tick)
    /\ \A w \in Worker, i \in Ids : SF_vars(Deliver(w, i))

LiveSpec == Spec /\ Fairness

-----------------------------------------------------------------------------
(* Properties *)

\* extraction.post_processing.completed is started at most once per extraction
\* over all workers, stalls, redeliveries and crashes, and only for a leg that
\* has succeeded.
PostProcessingWebhookOnce ==
    \A i \in Ids : /\ hooks[i] <= 1
                   /\ hooks[i] > 0 => row[i].bbox = "succeeded"

\* The stored result is the grounded one exactly when the leg says succeeded:
\* a failed or retried leg leaves the LLM result the caller already received.
GroundedIffLegSucceeded ==
    \A i \in Ids : row[i].result = "grounded" <=> row[i].bbox = "succeeded"

\* As long as no run has outlived its lease, a worker that refines a leg is the only
\* one to do so, and the leg is running on that worker's attempt.
RefinerHoldsLeg ==
    ~overran =>
        \A v, w \in Worker :
            /\ Owns(w) => /\ row[task[w].id].bbox = "running"
                          /\ row[task[w].id].bboxAttempts = task[w].attempts
            /\ Owns(v) /\ Owns(w) /\ task[v].id = task[w].id => v = w

\* As long as no run has outlived its lease, only crashes and database faults can
\* take a leg past bbox_refine_max_attempts, one attempt each.
LegRetryBudget ==
    ~overran => \A i \in Ids : row[i].bboxAttempts <= MaxAttempts + faults

\* Whatever crashes and whatever the bus loses, a leg that was asked for
\* reaches a terminal status.
LegEventuallySettled ==
    \A i \in Ids : (row[i].bbox = "pending") ~> (row[i].bbox \in LegTerminal)
=============================================================================
