----------------------------- MODULE ResultReader -----------------------------
(***************************************************************************)
(* GetExtractionResultHandler: requests for the result of an extraction,   *)
(* with and without the wait for post-processing, while the extraction     *)
(* moves along its lifecycle. Every get() of the row is one step; between  *)
(* two of them the extraction may move any number of times.                *)
(*                                                                         *)
(* A deadline is a number of polls: at each poll it may already have       *)
(* passed, and after MaxPolls it has.                                      *)
(***************************************************************************)
EXTENDS ExtractionLifecycle, Integers

CONSTANTS
    Reader,         \* requests
    MaxPolls        \* bound on the polls that timeout_s leaves room for

ASSUME ReaderAssumption == MaxPolls \in Nat

VARIABLE reader

readerVars == <<status, leg, result, reader>>

ResultReplies == {"none", "200", "404", "409", "500"}

ResultRequest == [ pc      : {"new", "poll", "done"},
             id      : Ids,
             wait    : BOOLEAN,             \* wait_for_post_processing
             left    : 0 .. MaxPolls,
             expired : BOOLEAN,             \* answered because the deadline passed
             reply   : ResultReplies,
             got     : {"none", "llm", "grounded"} ]

ReaderInit ==
    /\ LifecycleInit
    /\ reader \in [Reader -> {q \in ResultRequest : /\ q.pc = "new" /\ q.left = MaxPolls
                                              /\ ~q.expired /\ q.reply = "none"
                                              /\ q.got = "none"}]

\* What do_handle makes of the row it ends up with.
Reply(i) ==
    CASE status[i] = "absent" -> "404"
      [] status[i] \notin {"absent", "succeeded"} -> "409"
      [] status[i] = "succeeded" /\ result[i] = "none" -> "500"
      [] OTHER -> "200"

Answer(r, expired) ==
    LET i == reader[r].id IN
    reader' = [reader EXCEPT ![r].pc = "done", ![r].expired = expired, ![r].reply = Reply(i),
                             ![r].got = IF Reply(i) = "200" THEN result[i] ELSE "none"]

\* The first get(): unknown ids and requests that do not wait are answered.
FirstGet(r) ==
    /\ reader[r].pc = "new"
    /\ IF reader[r].wait /\ status[reader[r].id] # "absent"
       THEN reader' = [reader EXCEPT ![r].pc = "poll"]
       ELSE Answer(r, FALSE)
    /\ UNCHANGED lifecycleVars

\* Mutant: a leg is only waited for while it is pending.
StableWhenStarted(i) == status[i] \in {"failed", "cancelled"} \/ leg[i] # "pending"

\* _poll_for_terminal stops at these states.
Stable(i) == \/ status[i] \in {"failed", "cancelled"}
             \/ leg[i] = "null"
             \/ leg[i] \in {"succeeded", "failed"}

PollStable(r) ==
    /\ reader[r].pc = "poll"
    /\ Stable(reader[r].id)
    /\ Answer(r, FALSE)
    /\ UNCHANGED lifecycleVars

PollExpired(r) ==
    /\ reader[r].pc = "poll"
    /\ ~Stable(reader[r].id)
    /\ Answer(r, TRUE)
    /\ UNCHANGED lifecycleVars

\* Mutant: the deadline is not looked at.
PollSleepsForEver(r) ==
    /\ reader[r].pc = "poll"
    /\ ~Stable(reader[r].id)
    /\ reader' = [reader EXCEPT ![r].left = IF @ = 0 THEN MaxPolls ELSE @ - 1]
    /\ UNCHANGED lifecycleVars

PollSleeps(r) ==
    /\ reader[r].pc = "poll"
    /\ ~Stable(reader[r].id)
    /\ reader[r].left > 0
    /\ reader' = [reader EXCEPT ![r].left = @ - 1]
    /\ UNCHANGED lifecycleVars

ReaderStep(r) == FirstGet(r) \/ PollStable(r) \/ PollExpired(r) \/ PollSleeps(r)

-----------------------------------------------------------------------------
(* Properties *)

\* A caller that waited and was answered before its deadline has the final
\* result: no later refinement changes what the row stores.
WaitedResultIsFinal ==
    \A r \in Reader :
        reader[r].wait /\ reader[r].reply = "200" /\ ~reader[r].expired =>
            reader[r].got = result[reader[r].id]

\* Every request is answered, also when the leg never settles.
EveryRequestAnswered == \A r \in Reader : <>(reader[r].pc = "done")
=============================================================================
