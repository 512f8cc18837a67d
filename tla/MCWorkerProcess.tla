---------------------------- MODULE MCWorkerProcess ---------------------------
(* A worker process with its three tasks, for TLC. *)
EXTENDS WorkerProcess

CONSTANTS worker, reaper, health

\* Whatever a task awaits may hang, except for one task (here the health server)
\* that always ends: the wait for the first exit has no timeout.
MCMayHang == { <<worker, "running">>, <<worker, "poll">>, <<worker, "closing">>,
               <<reaper, "running">>, <<reaper, "closing">> }
=============================================================================
