---------------------------- MODULE AsyncExtraction ---------------------------
(***************************************************************************)
(* The two legs together, over one table and one post-processing topic:    *)
(* the main leg of ExtractionWorker publishes on refineBus what the bbox   *)
(* workers of BboxRefineWorker consume. That module's stand-ins for the    *)
(* main worker (MainSucceeds, Announce) are not used here. Time passes for *)
(* both legs at once.                                                      *)
(***************************************************************************)
EXTENDS ExtractionWorker

CONSTANTS
    Refiner,        \* bbox-worker processes
    RefineLease,    \* bbox_refine_lease_s
    RefineBudget,   \* longest time between a refine claim and its final UPDATE
    PendingOrphan,  \* partial_succeeded_orphan_threshold_s
    RefineAttempts, \* bbox_refine_max_attempts
    RefineFaults    \* bound on crashes and faults of the bbox workers

VARIABLES
    refineTask,     \* the _process task of each bbox worker
    refineDelayed,  \* pending _delayed_publish tasks of the bbox workers
    refinerUp,      \* the bbox worker is alive
    refineHooks,    \* post_processing.completed deliveries started
    refineFaults,   \* crashes and faults of the bbox workers so far
    refineOverran   \* history: some refinement has outlived its lease

Bbox == INSTANCE BboxRefineWorker WITH
            Worker <- Refiner, Lease <- RefineLease, RunBudget <- RefineBudget,
            MaxAttempts <- RefineAttempts, MaxFaults <- RefineFaults,
            announce <- {}, task <- refineTask, delayed <- refineDelayed,
            up <- refinerUp, hooks <- refineHooks, faults <- refineFaults,
            overran <- refineOverran

refineVars == <<refineTask, refineDelayed, refinerUp, refineHooks, refineFaults,
                refineOverran>>
mainVars   == <<api, jobsBus, task, delayed, up, hooks, faults>>
asyncVars  == <<vars, refineVars>>

AsyncInit == Init /\ Bbox!Init

\* A step of the main leg, its API handlers or its bus
MainStep ==
    /\ \/ \E i \in Ids : ApiStep(i) \/ Lose(i)
       \/ \E w \in Worker :
            \/ \E i \in Ids : Deliver(w, i)
            \/ PollSweep(w) \/ PollNext(w) \/ ReaperSweep(w) \/ Crash(w) \/ Restart(w)
       \/ \E t \in Tid : ProcessStep(t)
       \/ \E d \in delayed : DelayedPublish(d)
    /\ UNCHANGED refineVars

\* A step of a bbox worker, its reaper or its bus
RefineStep ==
    /\ \/ \E i \in Ids : Bbox!Lose(i)
       \/ \E w \in Refiner :
            \/ \E i \in Ids : Bbox!Deliver(w, i)
            \/ Bbox!ProcessStep(w) \/ Bbox!ReaperSweep(w) \/ Bbox!Crash(w) \/ Bbox!Restart(w)
       \/ \E d \in refineDelayed : Bbox!DelayedPublish(d)
    /\ UNCHANGED mainVars

AsyncNext == MainStep \/ RefineStep \/ (Tick /\ Bbox!Tick)

AsyncSpec == AsyncInit /\ [][AsyncNext]_asyncVars

-----------------------------------------------------------------------------
(* Properties *)

Caller == INSTANCE ExtractionLifecycle WITH
            status <- [i \in Ids |-> row[i].status],
            leg    <- [i \in Ids |-> row[i].bbox],
            result <- [i \in Ids |-> row[i].result]

\* Through claims, stalls, take-overs, retries, redeliveries and crashes of
\* both legs, a caller sees nothing but the documented lifecycle: the status,
\* the leg and the stored result move together, one transition at a time, and
\* never back. A claim that takes an expired lease over is not visible.
ImplementsLifecycle == Caller!Lifecycle

\* Whichever worker of whichever leg has stalled, an extraction has at most one
\* post_processing.completed webhook; it speaks of a leg that succeeded and of a
\* stored result that is grounded, and no extraction is reported both failed
\* and refined.
WebhooksAgree ==
    /\ Bbox!PostProcessingWebhookOnce
    /\ \A i \in Ids : refineHooks[i] > 0 =>
        /\ row[i].status = "succeeded" /\ row[i].result = "grounded"
        /\ hooks[i].failed = 0
=============================================================================
