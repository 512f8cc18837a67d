----------------------------- MODULE WorkerProcess ----------------------------
(***************************************************************************)
(* One worker process (cmd_worker and cmd_bbox_worker): the worker, the    *)
(* reaper and the health server run as asyncio tasks; the process stops    *)
(* when the first of them ends or SIGTERM arrives. The main coroutine is   *)
(* _run: it waits, flips the stop flags, drains, cancels the stragglers,   *)
(* and shuts the framework down.                                           *)
(*                                                                         *)
(* A task is at one of its awaits. "running" is all of them before it has  *)
(* seen the stop flag (publisher.start, the stop event, a sweep), "poll"   *)
(* is the main worker's await of its poll task, under                      *)
(* suppress(CancelledError), and "closing" the last one of every task:     *)
(* publisher.stop(), the closing of a session or of the server's sockets.  *)
(* Any of these may take longer than the grace period; the ones in hung    *)
(* never end unless they are cancelled.                                    *)
(***************************************************************************)
CONSTANTS
    Tasks,          \* the tasks that were started
    Pollers,        \* the ones with a poll task of their own
    MayHang         \* the awaits that may hang, as <<task, await>>

Awaits == {"running", "poll", "closing"}

ASSUME ProcessAssumption ==
    Tasks # {} /\ Pollers \subseteq Tasks /\ MayHang \subseteq Tasks \X Awaits

VARIABLES
    state,      \* of each task: the await it is at, or how it has ended
    hung,       \* the awaits that hang in this process
    cancelling, \* tasks with a cancel on its way
    failedFirst,\* tasks that raised before anything had asked them to stop
    stopFlag,   \* the stop flags have been flipped
    observed,   \* tasks whose result _run_until_first_exit will look at
    main        \* where _run is

procVars == <<state, hung, cancelling, failedFirst, stopFlag, observed, main>>

Ended      == {"returned", "raised", "cancelled"}
TaskStates == Awaits \cup Ended
MainPCs    == {"wait", "drain", "gather", "inspect", "shutdown", "exit_ok", "exit_error"}

HasEnded(t) == state[t] \in Ended

ProcInit ==
    /\ state       = [t \in Tasks |-> "running"]
    /\ hung       \in SUBSET MayHang
    /\ cancelling  = {}
    /\ failedFirst = {}
    /\ stopFlag    = FALSE
    /\ observed    = {}
    /\ main        = "wait"

-----------------------------------------------------------------------------
(* The tasks *)

Moves(t, s) == state' = [state EXCEPT ![t] = s]

\* publisher.start, the health server's bind or anything else raises.
TaskRaises(t) ==
    /\ state[t] = "running" /\ t \notin cancelling
    /\ Moves(t, "raised")
    /\ failedFirst' = IF stopFlag THEN failedFirst ELSE failedFirst \cup {t}
    /\ UNCHANGED <<hung, cancelling, stopFlag, observed, main>>

\* The stop flag is seen, which takes the end of what the task was awaiting.
TaskStops(t) ==
    /\ state[t] = "running" /\ <<t, "running">> \notin hung /\ t \notin cancelling
    /\ stopFlag
    /\ Moves(t, IF t \in Pollers THEN "poll" ELSE "closing")
    /\ UNCHANGED <<hung, cancelling, failedFirst, stopFlag, observed, main>>

\* An await of the finally block ends by itself. Nothing but CancelledError
\* leaves the poll task.
TaskEnds(t) ==
    /\ state[t] \in {"poll", "closing"} /\ <<t, state[t]>> \notin hung
    /\ t \notin cancelling
    /\ \E s \in IF state[t] = "poll" THEN {"closing"} ELSE {"returned", "raised"} : Moves(t, s)
    /\ UNCHANGED <<hung, cancelling, failedFirst, stopFlag, observed, main>>

\* The one CancelledError is delivered, and ends the await the task is at. The
\* main worker suppresses it around its poll task and goes on to close the
\* publisher; elsewhere it ends the task, which may raise on the way. (A task
\* that waited for its stop event has left that wait before the grace period
\* is over: a cancel in "running" meets publisher.start() or a sweep.)
TaskCancelled(t) ==
    /\ t \in cancelling
    /\ cancelling' = cancelling \ {t}
    /\ \E s \in IF state[t] = "poll" THEN {"closing"} ELSE {"cancelled", "raised"} : Moves(t, s)
    /\ UNCHANGED <<hung, failedFirst, stopFlag, observed, main>>

Sigterm ==
    /\ main \in {"wait", "drain", "gather", "inspect"}
    /\ ~stopFlag
    /\ stopFlag' = TRUE
    /\ UNCHANGED <<state, hung, cancelling, failedFirst, observed, main>>

-----------------------------------------------------------------------------
(* _run_until_first_exit and the finally block of _run *)

\* Mutant: only the tasks that end later are inspected.
FirstExitForgets ==
    /\ main = "wait"
    /\ \E t \in Tasks : HasEnded(t)
    /\ stopFlag' = TRUE
    /\ observed' = {}
    /\ main' = IF \A t \in Tasks : HasEnded(t) THEN "inspect" ELSE "drain"
    /\ UNCHANGED <<state, hung, cancelling, failedFirst>>

FirstExit ==
    /\ main = "wait"
    /\ \E t \in Tasks : HasEnded(t)
    /\ stopFlag' = TRUE
    /\ observed' = {t \in Tasks : HasEnded(t)}
    /\ main' = IF \A t \in Tasks : HasEnded(t) THEN "inspect" ELSE "drain"
    /\ UNCHANGED <<state, hung, cancelling, failedFirst>>

\* Every sibling ended within the grace period.
Drained ==
    /\ main = "drain"
    /\ \A t \in Tasks : HasEnded(t)
    /\ observed' = Tasks
    /\ main' = "inspect"
    /\ UNCHANGED <<state, hung, cancelling, failedFirst, stopFlag>>

\* Mutant: the tasks that ended in the grace period are not inspected and
\* the stragglers are not waited for.
GraceOverNoGather ==
    /\ main = "drain"
    /\ \E t \in Tasks : ~HasEnded(t)
    /\ cancelling' = {t \in Tasks : ~HasEnded(t)}
    /\ main' = "inspect"
    /\ UNCHANGED <<state, hung, failedFirst, stopFlag, observed>>

\* Mutant: the stragglers are gathered without being cancelled.
GraceOverPatient ==
    /\ main = "drain"
    /\ \E t \in Tasks : ~HasEnded(t)
    /\ observed' = observed \cup {t \in Tasks : HasEnded(t)}
    /\ main' = "gather"
    /\ UNCHANGED <<state, hung, cancelling, failedFirst, stopFlag>>

\* The grace period is over: stragglers are cancelled, and not inspected.
GraceOver ==
    /\ main = "drain"
    /\ \E t \in Tasks : ~HasEnded(t)
    /\ observed' = observed \cup {t \in Tasks : HasEnded(t)}
    /\ cancelling' = {t \in Tasks : ~HasEnded(t)}
    /\ main' = "gather"
    /\ UNCHANGED <<state, hung, failedFirst, stopFlag>>

Gathered ==
    /\ main = "gather"
    /\ \A t \in Tasks : HasEnded(t)
    /\ main' = "inspect"
    /\ UNCHANGED <<state, hung, cancelling, failedFirst, stopFlag, observed>>

\* The exception of an inspected task leaves _run after the finally block.
Inspect ==
    /\ main = "inspect"
    /\ main' = "shutdown"
    /\ observed' = {t \in observed : state[t] = "raised"}
    /\ stopFlag' = TRUE
    /\ UNCHANGED <<state, hung, cancelling, failedFirst>>

Shutdown ==
    /\ main = "shutdown"
    /\ main' = IF observed = {} THEN "exit_ok" ELSE "exit_error"
    /\ UNCHANGED <<state, hung, cancelling, failedFirst, stopFlag, observed>>

ProcNext ==
    \/ \E t \in Tasks : TaskRaises(t) \/ TaskStops(t) \/ TaskEnds(t) \/ TaskCancelled(t)
    \/ Sigterm \/ FirstExit \/ Drained \/ GraceOver \/ Gathered \/ Inspect \/ Shutdown

ProcSpec == ProcInit /\ [][ProcNext]_procVars

\* The event loop runs what is ready: an await that does not hang ends, a
\* cancel is delivered (once), and the timeout of asyncio.wait fires. The gather
\* after it and pyfly_app.shutdown have no timeout: the gather waits for the
\* tasks, and nothing is asked of the shutdown of the framework.
ProcLive ==
    /\ ProcSpec
    /\ \A t \in Tasks : /\ WF_procVars(TaskStops(t)) /\ WF_procVars(TaskEnds(t))
                        /\ WF_procVars(TaskCancelled(t))
    /\ WF_procVars(FirstExit) /\ WF_procVars(Drained) /\ WF_procVars(GraceOver)
    /\ WF_procVars(Gathered) /\ WF_procVars(Inspect)

-----------------------------------------------------------------------------
(* Properties *)

\* The framework is not shut down under a running task: when the container
\* closes its database and bus, every task has been awaited.
ShutdownAfterTasks ==
    main \in {"shutdown", "exit_ok", "exit_error"} => \A t \in Tasks : HasEnded(t)

\* A worker, reaper or health server that dies takes the process with it as an
\* error, whatever SIGTERM, its siblings or the grace period do meanwhile.
DeathIsReported == main = "exit_ok" => failedFirst = {}

\* The main worker has used up its cancel at its poll task, and its publisher
\* hangs in stop(): nothing is left that would end it.
PublisherStuck ==
    \E t \in Pollers : /\ state[t] = "closing" /\ <<t, "closing">> \in hung
                      /\ main = "gather" /\ t \notin cancelling

\* The grace period bounds what the tasks may take, with that one exception: once
\* a task has ended or SIGTERM has arrived, _run reaches the shutdown of the
\* framework, whichever awaits of MayHang hang.
ShutdownIsReached ==
    (stopFlag \/ \E t \in Tasks : HasEnded(t))
        ~> (main \in {"shutdown", "exit_ok", "exit_error"} \/ PublisherStuck)
=============================================================================
