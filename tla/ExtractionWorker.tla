--------------------------- MODULE ExtractionWorker ---------------------------
(***************************************************************************)
(* The main leg of an asynchronous extraction: the submit and cancel       *)
(* handlers of the API, the EDA bus that carries IDPExtractionSubmitted    *)
(* events, the worker processes and the reaper each of them runs.          *)
(*                                                                         *)
(* A worker process has two asyncio tasks that may be inside _process at   *)
(* the same time: the bus consumer ("bus") and _poll_queued_backlog        *)
(* ("poll"). Between two steps of a task the handler awaits, so any other  *)
(* task, process or the database may move. The bus may lose a message and  *)
(* may deliver it again.                                                   *)
(*                                                                         *)
(* Time is counted in units. RunBudget bounds how long a live worker holds *)
(* a claim before its finalising UPDATE commits. The code's sizing         *)
(* (async_timeout_s below job_run_lease_s) is RunBudget <= Lease; a larger *)
(* RunBudget is a worker whose event loop or database call stalls past its *)
(* own lease.                                                              *)
(***************************************************************************)
EXTENDS ExtractionRepository, RetryPolicy, FiniteSets

CONSTANTS
    Ids,            \* extraction ids that may be submitted
    None,           \* no id
    Worker,         \* worker processes
    WantsBbox,      \* ids submitted with stages.bbox_refine
    HasCallback,    \* ids submitted with a callback_url
    Lease,          \* job_run_lease_s
    RunBudget,      \* longest time between a claim and its final UPDATE
    PollGrace,      \* job_poll_grace_s
    PollBatch,      \* job_poll_batch
    QueuedOrphan,   \* queued_orphan_threshold_s
    MaxAttempts,    \* job_max_attempts
    MaxFaults       \* bound on crashes and database faults

ASSUME WorkerAssumption ==
    /\ None \notin Ids
    /\ WantsBbox \subseteq Ids /\ HasCallback \subseteq Ids
    /\ Lease \in Nat /\ RunBudget \in Nat
    /\ PollGrace \in Nat /\ PollBatch \in Nat \ {0} /\ QueuedOrphan \in Nat
    /\ MaxAttempts \in Nat \ {0} /\ MaxFaults \in Nat
    /\ RunBudget <= MaxAge
    /\ Lease < MaxAge /\ PollGrace < MaxAge /\ QueuedOrphan < MaxAge

VARIABLES
    row,        \* the extractions table
    api,        \* submit handlers between the INSERT and the publish
    jobsBus,    \* IDPExtractionSubmitted events in flight
    refineBus,  \* post-processing events published for the bbox worker
    task,       \* the two _process tasks of each worker
    delayed,    \* pending _delayed_publish tasks
    up,         \* the worker process is alive
    hooks,      \* extraction.completed deliveries started, per outcome
    faults      \* crashes and database faults so far

vars == <<row, api, jobsBus, refineBus, task, delayed, up, hooks, faults>>

Kind == {"bus", "poll"}
Tid  == Worker \X Kind

Elapsed == 0 .. RunBudget

PCs == {"idle", "claim", "run", "webhook", "publish", "except", "failhook"}

Task == [ pc        : PCs,
          id        : Ids \cup {None},
          attempts  : Nat,              \* attempt number of the claim held
          elapsed   : Elapsed,          \* time since the claim, while it is owned
          permanent : BOOLEAN,          \* _is_permanent(exc)
          finalised : BOOLEAN,          \* mark_succeeded has already committed
          batch     : SUBSET Ids ]      \* ids left in the poll's for loop

IdleTask == [ pc |-> "idle", id |-> None, attempts |-> 0, elapsed |-> 0,
              permanent |-> FALSE, finalised |-> FALSE, batch |-> {} ]

Delayed == [ worker : Worker, id : Ids, left : 0 .. (2 * RetryCeiling) ]

Init ==
    /\ row       = [i \in Ids |-> AbsentRow]
    /\ api       = {}
    /\ jobsBus   = {}
    /\ refineBus = {}
    /\ task      = [t \in Tid |-> IdleTask]
    /\ delayed   = {}
    /\ up        = [w \in Worker |-> TRUE]
    /\ hooks     = [i \in Ids |-> [succeeded |-> 0, failed |-> 0]]
    /\ faults    = 0

\* The task holds a claim that it has not finalised yet.
Owns(t) == task[t].pc \in {"run", "except"} /\ ~task[t].finalised

\* _process returns; the poll goes on with the rest of its batch.
Returned(t) == [IdleTask EXCEPT !.batch = task[t].batch]

\* An exception leaves _process: the poll's sweep is abandoned.
Escaped == IdleTask

-----------------------------------------------------------------------------
(* API handlers and the bus *)

Submit(i) ==
    /\ row[i].status = "absent"
    /\ row' = [row EXCEPT ![i] = NewRow]
    /\ api' = api \cup {i}
    /\ UNCHANGED <<jobsBus, refineBus, task, delayed, up, hooks, faults>>

ApiPublish(i) ==
    /\ i \in api
    /\ api' = api \ {i}
    /\ jobsBus' = jobsBus \cup {i}
    /\ UNCHANGED <<row, refineBus, task, delayed, up, hooks, faults>>

\* The publish raises, or the API process dies: the row stays queued.
ApiFails(i) ==
    /\ i \in api
    /\ api' = api \ {i}
    /\ UNCHANGED <<row, jobsBus, refineBus, task, delayed, up, hooks, faults>>

Cancel(i) ==
    /\ CanMarkCancelled(row[i])
    /\ row' = [row EXCEPT ![i] = MarkCancelled(@)]
    /\ UNCHANGED <<api, jobsBus, refineBus, task, delayed, up, hooks, faults>>

Lose(i) ==
    /\ i \in jobsBus
    /\ jobsBus' = jobsBus \ {i}
    /\ UNCHANGED <<row, api, refineBus, task, delayed, up, hooks, faults>>

-----------------------------------------------------------------------------
(* How _process is entered: get the row, skip a terminal one *)

\* The state of task t once _process(i) has read the row; rest is what
\* remains of the poll's batch.
Entered(i, rest) ==
    IF row[i].status \in Terminal \cup {"absent"}
    THEN [IdleTask EXCEPT !.batch = rest]
    ELSE [IdleTask EXCEPT !.pc = "claim", !.id = i, !.batch = rest]

\* A message is acknowledged, or stays and is delivered again later.
Deliver(w, i) ==
    /\ up[w]
    /\ i \in jobsBus
    /\ task[<<w, "bus">>].pc = "idle"
    /\ task' = [task EXCEPT ![<<w, "bus">>] = Entered(i, {})]
    /\ jobsBus' \in {jobsBus, jobsBus \ {i}}
    /\ UNCHANGED <<row, api, refineBus, delayed, up, hooks, faults>>

\* find_stale_queued(job_poll_grace_s) LIMIT job_poll_batch, in any order
Backlog == {i \in Ids : IsStaleQueued(row[i], PollGrace)}

PollSweep(w) ==
    LET t == <<w, "poll">> IN
    /\ up[w]
    /\ task[t].pc = "idle" /\ task[t].batch = {}
    /\ \E ids \in SUBSET Backlog :
         /\ ids # {}
         /\ Cardinality(ids) <= PollBatch
         /\ ids = Backlog \/ Cardinality(ids) = PollBatch
         /\ task' = [task EXCEPT ![t].batch = ids]
    /\ UNCHANGED <<row, api, jobsBus, refineBus, delayed, up, hooks, faults>>

PollNext(w) ==
    LET t == <<w, "poll">> IN
    /\ task[t].pc = "idle"
    /\ \E i \in task[t].batch :
         task' = [task EXCEPT ![t] = Entered(i, task[t].batch \ {i})]
    /\ UNCHANGED <<row, api, jobsBus, refineBus, delayed, up, hooks, faults>>

-----------------------------------------------------------------------------
(* _process: the claim and the pipeline run *)

ClaimWins(t) ==
    LET i == task[t].id IN
    /\ task[t].pc = "claim"
    /\ CanMarkRunning(row[i], Lease)
    /\ row' = [row EXCEPT ![i] = MarkRunning(@)]
    /\ task' = [task EXCEPT ![t].pc = "run", ![t].attempts = row[i].attempts + 1]
    /\ UNCHANGED <<api, jobsBus, refineBus, delayed, up, hooks, faults>>

ClaimLoses(t) ==
    /\ task[t].pc = "claim"
    /\ ~CanMarkRunning(row[task[t].id], Lease)
    /\ task' = [task EXCEPT ![t] = Returned(t)]
    /\ UNCHANGED <<row, api, jobsBus, refineBus, delayed, up, hooks, faults>>

\* The claiming UPDATE raises before it commits.
ClaimRaises(t) ==
    /\ task[t].pc = "claim"
    /\ faults < MaxFaults
    /\ task' = [task EXCEPT ![t] = Escaped]
    /\ faults' = faults + 1
    /\ UNCHANGED <<row, api, jobsBus, refineBus, delayed, up, hooks>>

\* _build_request, the orchestrator, its timeout or the mark_succeeded UPDATE raises.
RunRaises(t) ==
    /\ task[t].pc = "run"
    /\ \E permanent \in BOOLEAN :
         task' = [task EXCEPT ![t].pc = "except", ![t].permanent = permanent]
    /\ UNCHANGED <<row, api, jobsBus, refineBus, delayed, up, hooks, faults>>

SucceedWins(t) ==
    LET i == task[t].id IN
    /\ task[t].pc = "run"
    /\ CanMarkSucceeded(row[i])
    /\ row' = [row EXCEPT ![i] = MarkSucceeded(@, i \in WantsBbox)]
    /\ task' = [task EXCEPT ![t].pc = "webhook", ![t].finalised = TRUE, ![t].elapsed = 0]
    /\ UNCHANGED <<api, jobsBus, refineBus, delayed, up, hooks, faults>>

\* mark_succeeded commits, but its reply is lost and the call raises.
SucceedReplyLost(t) ==
    LET i == task[t].id IN
    /\ task[t].pc = "run"
    /\ CanMarkSucceeded(row[i])
    /\ faults < MaxFaults
    /\ row' = [row EXCEPT ![i] = MarkSucceeded(@, i \in WantsBbox)]
    /\ \E permanent \in BOOLEAN :
         task' = [task EXCEPT ![t].pc = "except", ![t].permanent = permanent,
                              ![t].finalised = TRUE, ![t].elapsed = 0]
    /\ faults' = faults + 1
    /\ UNCHANGED <<api, jobsBus, refineBus, delayed, up, hooks>>

SucceedLoses(t) ==
    /\ task[t].pc = "run"
    /\ ~CanMarkSucceeded(row[task[t].id])
    /\ task' = [task EXCEPT ![t] = Returned(t)]
    /\ UNCHANGED <<row, api, jobsBus, refineBus, delayed, up, hooks, faults>>

-----------------------------------------------------------------------------
(* _process: after mark_succeeded has committed *)

\* _fire_webhook returns at once when the caller gave no callback_url.
Notified(i, outcome) ==
    IF i \in HasCallback THEN [hooks EXCEPT ![i][outcome] = @ + 1] ELSE hooks

\* deliver returned True or False
NotifySucceeded(t) ==
    LET i == task[t].id IN
    /\ task[t].pc = "webhook"
    /\ hooks' = Notified(i, "succeeded")
    /\ task' = [task EXCEPT ![t] = IF i \in WantsBbox THEN [@ EXCEPT !.pc = "publish"]
                                                      ELSE Returned(t)]
    /\ UNCHANGED <<row, api, jobsBus, refineBus, delayed, up, faults>>

\* deliver raises when the receiver answers 5xx/429 to the last attempt
NotifyRaises(t) ==
    LET i == task[t].id IN
    /\ task[t].pc = "webhook"
    /\ i \in HasCallback
    /\ hooks' = Notified(i, "succeeded")
    /\ \E permanent \in BOOLEAN :
         task' = [task EXCEPT ![t].pc = "except", ![t].permanent = permanent]
    /\ UNCHANGED <<row, api, jobsBus, refineBus, delayed, up, faults>>

PublishRefine(t) ==
    /\ task[t].pc = "publish"
    /\ refineBus' = refineBus \cup {task[t].id}
    /\ task' = [task EXCEPT ![t] = Returned(t)]
    /\ UNCHANGED <<row, api, jobsBus, delayed, up, hooks, faults>>

PublishRefineRaises(t) ==
    /\ task[t].pc = "publish"
    /\ \E permanent \in BOOLEAN :
         task' = [task EXCEPT ![t].pc = "except", ![t].permanent = permanent]
    /\ UNCHANGED <<row, api, jobsBus, refineBus, delayed, up, hooks, faults>>

-----------------------------------------------------------------------------
(* _process: the except block *)

\* Mutant: one attempt too many.
GivesUpLate(t) == task[t].permanent \/ task[t].attempts > MaxAttempts

GivesUp(t) == task[t].permanent \/ task[t].attempts >= MaxAttempts

ErrorCode(t) == IF task[t].permanent THEN "permanent_error" ELSE "extraction_failed"

FailWins(t) ==
    LET i == task[t].id IN
    /\ task[t].pc = "except" /\ GivesUp(t)
    /\ CanMarkFailed(row[i])
    /\ row' = [row EXCEPT ![i] = MarkFailed(@, ErrorCode(t))]
    /\ task' = [task EXCEPT ![t].pc = "failhook", ![t].finalised = TRUE, ![t].elapsed = 0]
    /\ UNCHANGED <<api, jobsBus, refineBus, delayed, up, hooks, faults>>

FailLoses(t) ==
    /\ task[t].pc = "except" /\ GivesUp(t)
    /\ ~CanMarkFailed(row[task[t].id])
    /\ task' = [task EXCEPT ![t] = Returned(t)]
    /\ UNCHANGED <<row, api, jobsBus, refineBus, delayed, up, hooks, faults>>

\* The terminal-failure webhook; when deliver raises, the exception escapes.
NotifyFailed(t) ==
    LET i == task[t].id IN
    /\ task[t].pc = "failhook"
    /\ hooks' = Notified(i, "failed")
    /\ \/ task' = [task EXCEPT ![t] = Returned(t)]
       \/ i \in HasCallback /\ task' = [task EXCEPT ![t] = Escaped]
    /\ UNCHANGED <<row, api, jobsBus, refineBus, delayed, up, faults>>

RequeueWins(t) ==
    LET i == task[t].id IN
    /\ task[t].pc = "except" /\ ~GivesUp(t)
    /\ CanRequeueForRetry(row[i])
    /\ row' = [row EXCEPT ![i] = RequeueForRetry(@)]
    /\ \E d \in BackoffDelays(task[t].attempts) :
         delayed' = delayed \cup {[worker |-> t[1], id |-> i, left |-> d]}
    /\ task' = [task EXCEPT ![t] = Returned(t)]
    /\ UNCHANGED <<api, jobsBus, refineBus, up, hooks, faults>>

RequeueLoses(t) ==
    /\ task[t].pc = "except" /\ ~GivesUp(t)
    /\ ~CanRequeueForRetry(row[task[t].id])
    /\ task' = [task EXCEPT ![t] = Returned(t)]
    /\ UNCHANGED <<row, api, jobsBus, refineBus, delayed, up, hooks, faults>>

\* mark_failed or requeue_for_retry itself raises: nothing is written and
\* the exception escapes _process.
ExceptRaises(t) ==
    /\ task[t].pc = "except"
    /\ faults < MaxFaults
    /\ task' = [task EXCEPT ![t] = Escaped]
    /\ faults' = faults + 1
    /\ UNCHANGED <<row, api, jobsBus, refineBus, delayed, up, hooks>>

-----------------------------------------------------------------------------
(* Timers, the reaper, crashes and time *)

\* _delayed_publish after its sleep
DelayedPublish(d) ==
    /\ d \in delayed /\ d.left = 0
    /\ delayed' = delayed \ {d}
    /\ jobsBus' = jobsBus \cup {d.id}
    /\ UNCHANGED <<row, api, refineBus, task, up, hooks, faults>>

\* Mutant: the sweep only looks for queued orphans.
OrphansQueuedOnly == {i \in Ids : IsStaleQueued(row[i], QueuedOrphan)}

\* _sweep republishes the orphans it finds.
Orphans == {i \in Ids : \/ IsStaleRunning(row[i], Lease)
                        \/ IsStaleQueued(row[i], QueuedOrphan)}

ReaperSweep(w) ==
    /\ up[w]
    /\ Orphans # {}
    /\ jobsBus' = jobsBus \cup Orphans
    /\ UNCHANGED <<row, api, refineBus, task, delayed, up, hooks, faults>>

\* The process is killed or told to stop: its tasks and timers are gone.
Crash(w) ==
    /\ up[w]
    /\ faults < MaxFaults
    /\ up' = [up EXCEPT ![w] = FALSE]
    /\ task' = [t \in Tid |-> IF t[1] = w THEN IdleTask ELSE task[t]]
    /\ delayed' = {d \in delayed : d.worker # w}
    /\ faults' = faults + 1
    /\ UNCHANGED <<row, api, jobsBus, refineBus, hooks>>

Restart(w) ==
    /\ ~up[w]
    /\ up' = [up EXCEPT ![w] = TRUE]
    /\ UNCHANGED <<row, api, jobsBus, refineBus, task, delayed, hooks, faults>>

\* Mutant: nothing bounds a run (no asyncio.wait_for around the pipeline).
TickUnbounded ==
    /\ row' = [i \in Ids |-> AgedRow(row[i])]
    /\ task' = [t \in Tid |-> IF Owns(t) THEN [task[t] EXCEPT !.elapsed = @ + 1] ELSE task[t]]
    /\ delayed' = {[d EXCEPT !.left = IF @ = 0 THEN 0 ELSE @ - 1] : d \in delayed}
    /\ UNCHANGED <<api, jobsBus, refineBus, up, hooks, faults>>

\* A live owner finalises before its budget is spent, so time waits for it.
Tick ==
    /\ \A t \in Tid : Owns(t) => task[t].elapsed < RunBudget
    /\ row' = [i \in Ids |-> AgedRow(row[i])]
    /\ task' = [t \in Tid |-> IF Owns(t) THEN [task[t] EXCEPT !.elapsed = @ + 1] ELSE task[t]]
    /\ delayed' = {[d EXCEPT !.left = IF @ = 0 THEN 0 ELSE @ - 1] : d \in delayed}
    /\ UNCHANGED <<api, jobsBus, refineBus, up, hooks, faults>>

-----------------------------------------------------------------------------
\* One step of a task inside _process
ProcessStep(t) ==
    \/ ClaimWins(t) \/ ClaimLoses(t) \/ ClaimRaises(t)
    \/ RunRaises(t) \/ SucceedWins(t) \/ SucceedReplyLost(t) \/ SucceedLoses(t)
    \/ NotifySucceeded(t) \/ NotifyRaises(t)
    \/ PublishRefine(t) \/ PublishRefineRaises(t)
    \/ FailWins(t) \/ FailLoses(t) \/ NotifyFailed(t)
    \/ RequeueWins(t) \/ RequeueLoses(t) \/ ExceptRaises(t)

ApiStep(i) == Submit(i) \/ ApiPublish(i) \/ ApiFails(i) \/ Cancel(i)

Next ==
    \/ \E i \in Ids : ApiStep(i) \/ Lose(i)
    \/ \E w \in Worker :
         \/ \E i \in Ids : Deliver(w, i)
         \/ PollSweep(w) \/ PollNext(w) \/ ReaperSweep(w) \/ Crash(w) \/ Restart(w)
    \/ \E t \in Tid : ProcessStep(t)
    \/ \E d \in delayed : DelayedPublish(d)
    \/ Tick

Spec == Init /\ [][Next]_vars

\* What the event loops and the supervisor guarantee: a task that can move
\* moves, the poll, the reaper and a crashed process come back, time passes.
\* Nothing is said of the bus.
Fairness ==
    /\ \A t \in Tid : WF_vars(ProcessStep(t))
    /\ \A w \in Worker : /\ WF_vars(PollSweep(w)) /\ WF_vars(PollNext(w))
                         /\ WF_vars(ReaperSweep(w)) /\ WF_vars(Restart(w))
    /\ \A i \in Ids : WF_vars(ApiPublish(i) \/ ApiFails(i))
    /\ WF_vars(\E d \in delayed : DelayedPublish(d))
    /\ WF_vars(Tick)

\* The bus does not lose every copy of a message that is published for ever.
BusFairness == \A w \in Worker, i \in Ids : SF_vars(Deliver(w, i))

LiveSpec == Spec /\ Fairness /\ BusFairness

-----------------------------------------------------------------------------
(* Properties *)

\* Every variable holds a value of its type.
TypeOK ==
    /\ row \in [Ids -> Row]
    /\ api \subseteq Ids
    /\ jobsBus \subseteq Ids
    /\ refineBus \subseteq Ids
    /\ task \in [Tid -> Task]
    /\ delayed \subseteq Delayed
    /\ up \in [Worker -> BOOLEAN]
    /\ hooks \in [Ids -> [succeeded : Nat, failed : Nat]]
    /\ faults \in 0 .. MaxFaults

\* The extraction.completed webhook of an extraction is started at most once
\* over all workers, retries, redeliveries and crashes, and what it reports is
\* what the row says (mark_succeeded and mark_failed as compare-and-swap).
CompletedWebhookOnce ==
    \A i \in Ids :
        /\ hooks[i].succeeded + hooks[i].failed <= 1
        /\ hooks[i].succeeded > 0 => row[i].status = "succeeded"
        /\ hooks[i].failed > 0 => row[i].status = "failed"

\* A terminal row is never moved again, by a stale worker, a redelivery, the
\* except block of its own run or a late cancel.
TerminalIsFinal ==
    [][\A i \in Ids : row[i].status \in Terminal =>
          /\ row'[i].status = row[i].status
          /\ row'[i].result = row[i].result
          /\ row'[i].error = row[i].error
          /\ row'[i].attempts = row[i].attempts]_vars

\* While no worker outlives its lease, a task that is running a claim holds it:
\* the row is running, on that very attempt. So two workers never run the
\* same attempt and no one runs a cancelled extraction.
OwnerHoldsRow ==
    \A t \in Tid : Owns(t) =>
        /\ row[task[t].id].status = "running"
        /\ row[task[t].id].attempts = task[t].attempts

\* While no worker outlives its lease, an extraction never has two executors.
SingleExecutor ==
    \A s, t \in Tid : Owns(s) /\ Owns(t) /\ task[s].id = task[t].id => s = t

\* While no worker outlives its lease, only crashes and database faults can
\* take an extraction past job_max_attempts, one attempt each.
RetryBudget == \A i \in Ids : row[i].attempts <= MaxAttempts + faults

\* Whatever crashes and whatever the bus loses, an extraction that was
\* accepted reaches a terminal status.
EventuallySettled ==
    \A i \in Ids : (row[i].status # "absent") ~> (row[i].status \in Terminal)

-----------------------------------------------------------------------------
(* A statement of the source that the code does not keep *)

\* job_worker.py, except block: when another worker took the row over after
\* our lease expired, the requeue is skipped. A row goes back to queued only
\* by the hand of the task that holds its current attempt.
RequeueOnlyOwnRun ==
    [][\A i \in Ids :
          row[i].status = "running" /\ row'[i].status = "queued" =>
             \E t \in Tid : /\ Owns(t) /\ task[t].id = i
                            /\ task[t].attempts = row[i].attempts
                            /\ task'[t].pc = "idle"]_vars
=============================================================================
