------------------------ MODULE ExtractionWorkerProofs ------------------------
(***************************************************************************)
(* Proofs about ExtractionWorker for any number of extractions, workers,   *)
(* attempts and faults, and, at the end, about the process such a worker   *)
(* runs in, for any set of tasks.                                          *)
(***************************************************************************)
EXTENDS ExtractionWorker, WorkerProcess, TLAPS

LEMMA ZeroAge == 0 \in Ages
BY MaxAgeAssumption DEF Ages

LEMMA NewRowTypes == AbsentRow \in Row /\ NewRow \in Row
BY ZeroAge DEF AbsentRow, NewRow, Row, Statuses, LegStatuses, Results, Errors, LegErrors

LEMMA AgedRowType == ASSUME NEW r \in Row PROVE AgedRow(r) \in Row
<1>1. \A a \in Ages : Older(a) \in Ages
    BY MaxAgeAssumption DEF Older, Ages
<1> QED BY <1>1 DEF AgedRow, Row

LEMMA MarkRunningType == ASSUME NEW r \in Row PROVE MarkRunning(r) \in Row
<1> DEFINE n == r.attempts + 1
<1>1. n \in Nat
    BY DEF Row
<1>2. MarkRunning(r) = [r EXCEPT !.status = "running", !.age = 0, !.attempts = n]
    BY DEF MarkRunning, Row
<1> HIDE DEF n
<1> QED BY ZeroAge, <1>1, <1>2 DEF Row, Statuses

LEMMA MarkSucceededType == ASSUME NEW r \in Row, NEW b PROVE MarkSucceeded(r, b) \in Row
BY ZeroAge DEF MarkSucceeded, Row, Statuses, LegStatuses, Results, Errors

\* The other updates of the main lifecycle return rows.
LEMMA MarkTypes ==
    ASSUME NEW r \in Row, NEW c \in Errors
    PROVE  /\ MarkFailed(r, c) \in Row
           /\ MarkCancelled(r) \in Row
           /\ RequeueForRetry(r) \in Row
<1>2. MarkFailed(r, c) \in Row
    BY ZeroAge DEF MarkFailed, Row, Statuses, Errors
<1>3. MarkCancelled(r) \in Row
    BY ZeroAge DEF MarkCancelled, Row, Statuses
<1>4. RequeueForRetry(r) \in Row
    BY DEF RequeueForRetry, Row, Statuses
<1> QED BY <1>2, <1>3, <1>4

LEMMA ZeroElapsed == 0 \in Elapsed
BY WorkerAssumption DEF Elapsed

LEMMA IdleTaskType == IdleTask \in Task /\ IdleTask.pc = "idle"
BY ZeroElapsed DEF IdleTask, Task, PCs

-----------------------------------------------------------------------------
(* Type correctness *)

\* A task inside _process works on an extraction.
BusyHasId == \A t \in Tid : task[t].pc # "idle" => task[t].id \in Ids

TypeInv == TypeOK /\ BusyHasId

LEMMA TypeInit == Init => TypeInv
<1> SUFFICES ASSUME Init PROVE TypeInv
    OBVIOUS
<1>1. TypeOK
    BY NewRowTypes, IdleTaskType, WorkerAssumption DEF Init, TypeOK
<1>2. BusyHasId
    BY DEF BusyHasId, IdleTask, Init
<1> QED BY <1>1, <1>2 DEF TypeInv

\* A row that is replaced by a row keeps the table typed.
LEMMA RowUpdate ==
    ASSUME TypeInv, NEW i \in Ids, NEW r \in Row, row' = [row EXCEPT ![i] = r]
    PROVE  row' \in [Ids -> Row]
BY DEF TypeInv, TypeOK

\* A task that is replaced by a well-formed task keeps the tasks well-formed.
LEMMA TaskUpdate ==
    ASSUME TypeInv, NEW t \in Tid, NEW k \in Task,
           k.pc # "idle" => k.id \in Ids,
           task' = [task EXCEPT ![t] = k]
    PROVE  task' \in [Tid -> Task] /\ BusyHasId'
BY DEF TypeInv, TypeOK, BusyHasId

\* The task records the actions build are well-formed.
LEMMA TaskTypes ==
    ASSUME TypeInv, NEW t \in Tid
    PROVE  /\ Returned(t) \in Task /\ Returned(t).pc = "idle"
           /\ Escaped \in Task /\ Escaped.pc = "idle"
           /\ task[t].pc # "idle" => task[t].id \in Ids
           /\ task[t] \in Task
<1>1. task[t] \in Task
    BY DEF TypeInv, TypeOK
<1>2. Returned(t) \in Task /\ Returned(t).pc = "idle"
    BY <1>1, ZeroElapsed DEF Returned, IdleTask, Task, PCs
<1> QED BY <1>1, <1>2, IdleTaskType DEF Escaped, TypeInv, BusyHasId

LEMMA EnteredType ==
    ASSUME NEW i \in Ids, NEW rest \in SUBSET Ids
    PROVE  /\ Entered(i, rest) \in Task
           /\ Entered(i, rest).pc # "idle" => Entered(i, rest).id \in Ids
BY ZeroElapsed DEF Entered, IdleTask, Task, PCs

\* Every step of a task keeps the types.
LEMMA ProcessTypes ==
    ASSUME TypeInv, NEW t \in Tid, ProcessStep(t)
    PROVE  TypeInv'
<1> USE TaskTypes
<1> DEFINE i == task[t].id
<1>0. /\ row \in [Ids -> Row] /\ task \in [Tid -> Task]
      /\ faults \in 0 .. MaxFaults /\ hooks \in [Ids -> [succeeded : Nat, failed : Nat]]
    BY DEF TypeInv, TypeOK
<1>1. CASE ClaimWins(t)
    <2>1. i \in Ids
        BY <1>1 DEF ClaimWins
    <2>2. row' \in [Ids -> Row]
        BY <1>0, <1>1, <2>1, MarkRunningType, RowUpdate DEF ClaimWins
    <2> DEFINE n == row[i].attempts + 1
               k == [task[t] EXCEPT !.pc = "run", !.attempts = n]
    <2>3. n \in Nat
        BY <1>0, <2>1 DEF Row
    <2>4. task' = [task EXCEPT ![t] = k]
        BY <1>1, <1>0 DEF ClaimWins
    <2> HIDE DEF n
    <2>5. k \in Task /\ k.id = i
        BY <2>3 DEF Task, PCs
    <2> QED BY <1>1, <2>1, <2>2, <2>4, <2>5, TaskUpdate DEF ClaimWins, TypeInv, TypeOK
<1>2. CASE \/ ClaimLoses(t) \/ SucceedLoses(t) \/ FailLoses(t) \/ RequeueLoses(t)
    BY <1>2, TaskUpdate
       DEF ClaimLoses, SucceedLoses, FailLoses, RequeueLoses, TypeInv, TypeOK
<1>3. CASE ClaimRaises(t) \/ ExceptRaises(t)
    <2>1. task' = [task EXCEPT ![t] = Escaped] /\ faults' = faults + 1 /\ faults < MaxFaults
        BY <1>3 DEF ClaimRaises, ExceptRaises
    <2>2. faults' \in 0 .. MaxFaults
        BY <2>1, <1>0, WorkerAssumption
    <2> QED BY <1>3, <2>1, <2>2, TaskUpdate DEF ClaimRaises, ExceptRaises, TypeInv, TypeOK
<1>4. CASE RunRaises(t) \/ PublishRefineRaises(t)
    <2>1. PICK p \in BOOLEAN : task' = [task EXCEPT ![t].pc = "except", ![t].permanent = p]
        BY <1>4 DEF RunRaises, PublishRefineRaises
    <2> DEFINE k == [task[t] EXCEPT !.pc = "except", !.permanent = p]
    <2>2. task' = [task EXCEPT ![t] = k] /\ i \in Ids
        BY <1>0, <1>4, <2>1 DEF RunRaises, PublishRefineRaises
    <2>3. k \in Task /\ k.id = i
        BY DEF Task, PCs
    <2> QED BY <1>4, <2>2, <2>3, TaskUpdate DEF RunRaises, PublishRefineRaises, TypeInv, TypeOK
<1>5. CASE SucceedWins(t)
    <2>1. i \in Ids
        BY <1>5 DEF SucceedWins
    <2>2. row' \in [Ids -> Row]
        BY <1>0, <1>5, <2>1, MarkSucceededType, RowUpdate DEF SucceedWins
    <2> DEFINE k == [task[t] EXCEPT !.pc = "webhook", !.finalised = TRUE, !.elapsed = 0]
    <2>3. task' = [task EXCEPT ![t] = k]
        BY <1>5, <1>0 DEF SucceedWins
    <2>4. k \in Task /\ k.id = i
        BY ZeroElapsed DEF Task, PCs
    <2> QED BY <1>5, <2>1, <2>2, <2>3, <2>4, TaskUpdate DEF SucceedWins, TypeInv, TypeOK
<1>6. CASE SucceedReplyLost(t)
    <2>1. i \in Ids
        BY <1>6 DEF SucceedReplyLost
    <2>2. row' \in [Ids -> Row]
        BY <1>0, <1>6, <2>1, MarkSucceededType, RowUpdate DEF SucceedReplyLost
    <2>3. PICK p \in BOOLEAN :
             task' = [task EXCEPT ![t].pc = "except", ![t].permanent = p,
                                  ![t].finalised = TRUE, ![t].elapsed = 0]
        BY <1>6 DEF SucceedReplyLost
    <2> DEFINE k == [task[t] EXCEPT !.pc = "except", !.permanent = p,
                                    !.finalised = TRUE, !.elapsed = 0]
    <2>4. task' = [task EXCEPT ![t] = k]
        BY <1>0, <2>3
    <2>5. k \in Task /\ k.id = i
        BY ZeroElapsed DEF Task, PCs
    <2>6. faults' \in 0 .. MaxFaults
        BY <1>6, <1>0, WorkerAssumption DEF SucceedReplyLost
    <2> QED BY <1>6, <2>1, <2>2, <2>4, <2>5, <2>6, TaskUpdate DEF SucceedReplyLost, TypeInv, TypeOK
<1>7. ASSUME i \in Ids, NEW o \in {"succeeded", "failed"}, hooks' = Notified(i, o)
      PROVE  hooks' \in [Ids -> [succeeded : Nat, failed : Nat]]
    BY <1>0, <1>7 DEF Notified
<1>8. CASE NotifySucceeded(t)
    <2>1. i \in Ids
        BY <1>8 DEF NotifySucceeded
    <2> DEFINE k == IF i \in WantsBbox THEN [task[t] EXCEPT !.pc = "publish"] ELSE Returned(t)
    <2>2. task' = [task EXCEPT ![t] = k]
        BY <1>0, <1>8 DEF NotifySucceeded
    <2>3. k \in Task /\ (k.pc # "idle" => k.id \in Ids)
        BY <2>1 DEF Task, PCs
    <2>4. task' \in [Tid -> Task] /\ BusyHasId'
        BY <2>2, <2>3, TaskUpdate
    <2>5. hooks' \in [Ids -> [succeeded : Nat, failed : Nat]]
        BY <1>7, <1>8, <2>1 DEF NotifySucceeded
    <2> QED BY <1>8, <2>4, <2>5 DEF NotifySucceeded, TypeInv, TypeOK
<1>9. CASE NotifyRaises(t)
    <2>1. i \in Ids
        BY <1>9 DEF NotifyRaises
    <2>2. PICK p \in BOOLEAN : task' = [task EXCEPT ![t].pc = "except", ![t].permanent = p]
        BY <1>9 DEF NotifyRaises
    <2> DEFINE k == [task[t] EXCEPT !.pc = "except", !.permanent = p]
    <2>3. task' = [task EXCEPT ![t] = k]
        BY <1>0, <2>2
    <2>4. k \in Task /\ k.id = i
        BY DEF Task, PCs
    <2>5. hooks' \in [Ids -> [succeeded : Nat, failed : Nat]]
        BY <1>7, <1>9, <2>1 DEF NotifyRaises
    <2> QED BY <1>9, <2>1, <2>3, <2>4, <2>5, TaskUpdate DEF NotifyRaises, TypeInv, TypeOK
<1>10. CASE PublishRefine(t)
    BY <1>10, TaskUpdate DEF PublishRefine, TypeInv, TypeOK
<1>11. CASE FailWins(t)
    <2>1. i \in Ids /\ ErrorCode(t) \in Errors
        BY <1>11 DEF FailWins, ErrorCode, Errors
    <2>2. row' \in [Ids -> Row]
        BY <1>0, <1>11, <2>1, MarkTypes, RowUpdate DEF FailWins
    <2> DEFINE k == [task[t] EXCEPT !.pc = "failhook", !.finalised = TRUE, !.elapsed = 0]
    <2>3. task' = [task EXCEPT ![t] = k]
        BY <1>11, <1>0 DEF FailWins
    <2>4. k \in Task /\ k.id = i
        BY ZeroElapsed DEF Task, PCs
    <2> QED BY <1>11, <2>1, <2>2, <2>3, <2>4, TaskUpdate DEF FailWins, TypeInv, TypeOK
<1>12. CASE NotifyFailed(t)
    <2>1. i \in Ids
        BY <1>12 DEF NotifyFailed
    <2>2. task' \in [Tid -> Task] /\ BusyHasId'
        BY <1>12, TaskUpdate DEF NotifyFailed
    <2>3. hooks' \in [Ids -> [succeeded : Nat, failed : Nat]]
        BY <1>7, <1>12, <2>1 DEF NotifyFailed
    <2> QED BY <1>12, <2>2, <2>3 DEF NotifyFailed, TypeInv, TypeOK
<1>13. CASE RequeueWins(t)
    <2>1. i \in Ids /\ t[1] \in Worker
        BY <1>13 DEF RequeueWins, Tid
    <2>2. row' \in [Ids -> Row]
        BY <1>0, <1>13, <2>1, MarkTypes, RowUpdate DEF RequeueWins, Errors
    <2>3. task' \in [Tid -> Task] /\ BusyHasId'
        BY <1>13, TaskUpdate DEF RequeueWins
    <2>4. delayed' \subseteq Delayed
        BY <1>13, <2>1 DEF RequeueWins, BackoffDelays, Delayed, TypeInv, TypeOK
    <2> QED BY <1>13, <2>2, <2>3, <2>4 DEF RequeueWins, TypeInv, TypeOK
<1> QED BY <1>1, <1>2, <1>3, <1>4, <1>5, <1>6, <1>8, <1>9, <1>10, <1>11, <1>12, <1>13
        DEF ProcessStep

\* Every step of the API, the bus, the poll, the timers, the reaper, a crash
\* or time keeps the types.
LEMMA EnvironmentTypes ==
    ASSUME TypeInv, Next, \A t \in Tid : ~ProcessStep(t)
    PROVE  TypeInv'
<1>0. /\ row \in [Ids -> Row] /\ task \in [Tid -> Task] /\ delayed \subseteq Delayed
      /\ faults \in 0 .. MaxFaults /\ up \in [Worker -> BOOLEAN]
      /\ jobsBus \subseteq Ids /\ api \subseteq Ids
    BY DEF TypeInv, TypeOK
<1>1. UNCHANGED task => BusyHasId'
    BY DEF TypeInv, BusyHasId
<1>2. ASSUME NEW i \in Ids, Submit(i) \/ Cancel(i) PROVE TypeInv'
    <2>1. row' \in [Ids -> Row]
        BY <1>0, <1>2, NewRowTypes, MarkTypes, RowUpdate DEF Submit, Cancel, Errors
    <2> QED BY <1>1, <1>2, <2>1 DEF Submit, Cancel, TypeInv, TypeOK
<1>3. ASSUME NEW i \in Ids, ApiPublish(i) \/ ApiFails(i) \/ Lose(i) PROVE TypeInv'
    BY <1>1, <1>3 DEF ApiPublish, ApiFails, Lose, TypeInv, TypeOK
<1>4. ASSUME NEW w \in Worker, ReaperSweep(w) \/ Restart(w) PROVE TypeInv'
    BY <1>1, <1>4 DEF ReaperSweep, Restart, Orphans, TypeInv, TypeOK
<1>5. ASSUME NEW d \in delayed, DelayedPublish(d) PROVE TypeInv'
    BY <1>1, <1>5 DEF DelayedPublish, Delayed, TypeInv, TypeOK
<1>6. ASSUME NEW w \in Worker, NEW i \in Ids, Deliver(w, i) PROVE TypeInv'
    <2>1. <<w, "bus">> \in Tid
        BY DEF Tid, Kind
    <2>2. task' \in [Tid -> Task] /\ BusyHasId'
        BY <1>6, <2>1, EnteredType, TaskUpdate DEF Deliver
    <2> QED BY <1>0, <1>6, <2>2 DEF Deliver, TypeInv, TypeOK
<1>7. ASSUME NEW w \in Worker, PollSweep(w) PROVE TypeInv'
    <2> DEFINE t == <<w, "poll">>
    <2>1. t \in Tid
        BY DEF Tid, Kind
    <2>2. PICK ids \in SUBSET Backlog : task' = [task EXCEPT ![t].batch = ids]
        BY <1>7 DEF PollSweep
    <2> DEFINE k == [task[t] EXCEPT !.batch = ids]
    <2> HIDE DEF t
    <2>3. task' = [task EXCEPT ![t] = k]
        BY <1>0, <2>1, <2>2
    <2>4. k \in Task /\ k.pc = task[t].pc /\ k.id = task[t].id
        BY <1>0, <2>1, <2>2 DEF Task, Backlog
    <2>5. task' \in [Tid -> Task] /\ BusyHasId'
        BY <2>1, <2>3, <2>4, TaskTypes, TaskUpdate
    <2> QED BY <1>7, <2>5 DEF PollSweep, TypeInv, TypeOK
<1>8. ASSUME NEW w \in Worker, PollNext(w) PROVE TypeInv'
    <2> DEFINE t == <<w, "poll">>
    <2>1. t \in Tid
        BY DEF Tid, Kind
    <2>2. PICK i \in task[t].batch : task' = [task EXCEPT ![t] = Entered(i, task[t].batch \ {i})]
        BY <1>8 DEF PollNext
    <2>3. i \in Ids /\ task[t].batch \ {i} \in SUBSET Ids
        BY <1>0, <2>1, <2>2 DEF Task
    <2>4. task' \in [Tid -> Task] /\ BusyHasId'
        BY <2>1, <2>2, <2>3, EnteredType, TaskUpdate
    <2> QED BY <1>8, <2>4 DEF PollNext, TypeInv, TypeOK
<1>9. ASSUME NEW w \in Worker, Crash(w) PROVE TypeInv'
    <2>1. task' \in [Tid -> Task] /\ BusyHasId'
        BY <1>0, <1>9, IdleTaskType DEF Crash, TypeInv, BusyHasId
    <2>2. faults' \in 0 .. MaxFaults
        BY <1>0, <1>9, WorkerAssumption DEF Crash
    <2> QED BY <1>0, <1>9, <2>1, <2>2 DEF Crash, TypeInv, TypeOK
<1>10. CASE Tick
    <2>1. row' \in [Ids -> Row]
        BY <1>0, <1>10, AgedRowType DEF Tick
    <2>2. \A d \in delayed : [d EXCEPT !.left = IF @ = 0 THEN 0 ELSE @ - 1] \in Delayed
        BY <1>0, RetryAssumption DEF Delayed
    <2>3. delayed' \subseteq Delayed
        BY <2>2, <1>10 DEF Tick
    <2>4. \A t \in Tid : Owns(t) => task[t].elapsed + 1 \in Elapsed
        BY <1>0, <1>10, WorkerAssumption DEF Tick, Task, Elapsed
    <2>5. ASSUME NEW t \in Tid
          PROVE  task'[t] \in Task /\ task'[t].pc = task[t].pc /\ task'[t].id = task[t].id
        <3>1. CASE ~Owns(t)
            BY <1>0, <1>10, <3>1 DEF Tick
        <3>2. CASE Owns(t)
            <4> DEFINE n == task[t].elapsed + 1
            <4>1. task'[t] = [task[t] EXCEPT !.elapsed = n]
                BY <1>0, <1>10, <3>2 DEF Tick, Task
            <4>2. n \in Elapsed
                BY <2>4, <3>2
            <4> HIDE DEF n
            <4> QED BY <1>0, <4>1, <4>2 DEF Task
        <3> QED BY <3>1, <3>2
    <2>6. task' \in [Tid -> Task]
        BY <1>10, <2>5 DEF Tick
    <2>7. BusyHasId'
        BY <2>5 DEF TypeInv, BusyHasId
    <2> QED BY <1>10, <2>1, <2>3, <2>6, <2>7 DEF Tick, TypeInv, TypeOK
<1> QED BY <1>2, <1>3, <1>4, <1>5, <1>6, <1>7, <1>8, <1>9, <1>10 DEF Next, ApiStep

LEMMA TypeStep == TypeInv /\ [Next]_vars => TypeInv'
<1> SUFFICES ASSUME TypeInv, [Next]_vars PROVE TypeInv'
    OBVIOUS
<1>1. CASE UNCHANGED vars
    BY <1>1 DEF vars, TypeInv, TypeOK, BusyHasId
<1>2. CASE Next
    BY <1>2, ProcessTypes, EnvironmentTypes
<1> QED BY <1>1, <1>2

\* The variables of the main leg keep their types, and a task inside _process
\* always works on an extraction.
THEOREM TypeCorrect == Spec => [](TypeOK /\ BusyHasId)
<1>1. Init => TypeInv
    BY TypeInit
<1>2. TypeInv /\ [Next]_vars => TypeInv'
    BY TypeStep
<1> QED BY <1>1, <1>2, PTL DEF Spec, TypeInv

-----------------------------------------------------------------------------
(* Terminal rows are final *)

\* What TerminalIsFinal says of one step.
KeepsTerminal ==
    \A i \in Ids : row[i].status \in Terminal =>
        /\ row'[i].status = row[i].status
        /\ row'[i].result = row[i].result
        /\ row'[i].error = row[i].error
        /\ row'[i].attempts = row[i].attempts

\* An update of one row that is not terminal.
LEMMA UpdateKeepsTerminal ==
    ASSUME TypeInv, NEW i, NEW r, row[i].status \notin Terminal,
           row' = [row EXCEPT ![i] = r]
    PROVE  KeepsTerminal
BY DEF TypeInv, TypeOK, KeepsTerminal

LEMMA StepKeepsTerminal ==
    ASSUME TypeInv, [Next]_vars
    PROVE  KeepsTerminal
<1>1. CASE UNCHANGED row
    BY <1>1 DEF KeepsTerminal
<1>2. ASSUME NEW t \in Tid, ClaimWins(t) PROVE KeepsTerminal
    BY <1>2, UpdateKeepsTerminal DEF ClaimWins, CanMarkRunning, IsStaleRunning, Terminal
<1>3. ASSUME NEW t \in Tid, SucceedWins(t) \/ SucceedReplyLost(t) PROVE KeepsTerminal
    BY <1>3, UpdateKeepsTerminal DEF SucceedWins, SucceedReplyLost, CanMarkSucceeded, Terminal
<1>4. ASSUME NEW t \in Tid, FailWins(t) \/ RequeueWins(t) PROVE KeepsTerminal
    BY <1>4, UpdateKeepsTerminal
       DEF FailWins, RequeueWins, CanMarkFailed, CanRequeueForRetry, Terminal
<1>5. ASSUME NEW i \in Ids, Submit(i) \/ Cancel(i) PROVE KeepsTerminal
    BY <1>5, UpdateKeepsTerminal DEF Submit, Cancel, CanMarkCancelled, Terminal
<1>6. CASE Tick
    BY <1>6 DEF Tick, AgedRow, KeepsTerminal, TypeInv, TypeOK, Row
<1>7. ASSUME NEW t \in Tid, ProcessStep(t),
             ~ClaimWins(t), ~SucceedWins(t), ~SucceedReplyLost(t), ~FailWins(t), ~RequeueWins(t)
      PROVE  UNCHANGED row
    BY <1>7 DEF ProcessStep, ClaimLoses, ClaimRaises, RunRaises, SucceedLoses, NotifySucceeded,
       NotifyRaises, PublishRefine, PublishRefineRaises, FailLoses, NotifyFailed, RequeueLoses,
       ExceptRaises
<1>8. ASSUME NEW t \in Tid, ProcessStep(t) PROVE KeepsTerminal
    BY <1>1, <1>2, <1>3, <1>4, <1>7, <1>8
<1>9. ASSUME NEW i \in Ids, ApiPublish(i) \/ ApiFails(i) \/ Lose(i) PROVE UNCHANGED row
    BY <1>9 DEF ApiPublish, ApiFails, Lose
<1>10. ASSUME NEW w \in Worker, NEW i \in Ids, Deliver(w, i) PROVE UNCHANGED row
    BY <1>10 DEF Deliver
<1>11. ASSUME NEW w \in Worker,
              PollSweep(w) \/ PollNext(w) \/ ReaperSweep(w) \/ Crash(w) \/ Restart(w)
       PROVE  UNCHANGED row
    BY <1>11 DEF PollSweep, PollNext, ReaperSweep, Crash, Restart
<1>12. ASSUME NEW d \in delayed, DelayedPublish(d) PROVE UNCHANGED row
    BY <1>12 DEF DelayedPublish
<1>13. CASE UNCHANGED vars
    BY <1>1, <1>13 DEF vars
<1> QED BY <1>1, <1>5, <1>6, <1>8, <1>9, <1>10, <1>11, <1>12, <1>13 DEF Next, ApiStep

\* No worker, redelivery, retry or cancel ever moves an extraction out of a
\* terminal status, or changes its result, error or attempts afterwards,
\* however long a worker stalls.
THEOREM TerminalRowsAreFinal == Spec => TerminalIsFinal
<1>1. TypeInv /\ [Next]_vars => [KeepsTerminal]_vars
    BY StepKeepsTerminal
<1>2. Spec => []TypeInv
    BY TypeInit, TypeStep, PTL DEF Spec
<1> QED BY <1>1, <1>2, PTL DEF Spec, TerminalIsFinal, KeepsTerminal

-----------------------------------------------------------------------------
(* The completed webhook is started at most once *)

\* A task that has finalised the row and is about to call _fire_webhook.
Notifying(t) == task[t].pc \in {"webhook", "failhook"}

\* Such a task is the only one for its extraction, nothing has been sent yet
\* and the row has the status that will be reported.
NotifierInv ==
    /\ \A t \in Tid : task[t].pc = "webhook" => row[task[t].id].status = "succeeded"
    /\ \A t \in Tid : task[t].pc = "failhook" => row[task[t].id].status = "failed"
    /\ \A t \in Tid : Notifying(t) => /\ hooks[task[t].id].succeeded = 0
                                      /\ hooks[task[t].id].failed = 0
    /\ \A s, t \in Tid : Notifying(s) /\ Notifying(t) /\ task[s].id = task[t].id => s = t

HookInv == NotifierInv /\ CompletedWebhookOnce

LEMMA HookInit == Init => HookInv
BY DEF Init, HookInv, NotifierInv, Notifying, IdleTask, CompletedWebhookOnce

\* A step that starts no webhook and makes no task a notifier.
LEMMA QuietHooks ==
    ASSUME TypeInv, HookInv, KeepsTerminal, UNCHANGED hooks,
           \A t \in Tid : Notifying(t)' => task'[t] = task[t]
    PROVE  HookInv'
<1>1. \A t \in Tid : Notifying(t)' => Notifying(t) /\ task'[t] = task[t] /\ task[t].id \in Ids
    BY DEF Notifying, TypeInv, BusyHasId
<1>2. NotifierInv'
    BY <1>1 DEF NotifierInv, HookInv, Notifying, KeepsTerminal, Terminal
<1>3. CompletedWebhookOnce'
    BY DEF CompletedWebhookOnce, HookInv, KeepsTerminal, Terminal
<1> QED BY <1>2, <1>3 DEF HookInv

\* The step in which a task finalises the row and becomes its notifier.
LEMMA FinalisingHooks ==
    ASSUME TypeInv, HookInv, UNCHANGED hooks, NEW t \in Tid,
           NEW i \in Ids, i = task[t].id, row[i].status = "running",
           NEW r, row' = [row EXCEPT ![i] = r],
           NEW k, task' = [task EXCEPT ![t] = k], k.id = i,
           \/ k.pc = "webhook" /\ r.status = "succeeded"
           \/ k.pc = "failhook" /\ r.status = "failed"
    PROVE  HookInv'
<1>0. row \in [Ids -> Row] /\ task \in [Tid -> Task] /\ hooks \in [Ids -> [succeeded : Nat, failed : Nat]]
    BY DEF TypeInv, TypeOK
<1>1. row'[i] = r /\ task'[t] = k /\ \A s \in Tid \ {t} : task'[s] = task[s]
    BY <1>0
<1>2. hooks[i].succeeded = 0 /\ hooks[i].failed = 0
    BY <1>0 DEF HookInv, CompletedWebhookOnce
<1>3. \A s \in Tid \ {t} : Notifying(s) => task[s].id # i /\ task[s].id \in Ids
    BY DEF HookInv, NotifierInv, Notifying, TypeInv, BusyHasId
<1>4. \A s \in Tid \ {t} : Notifying(s) => row'[task[s].id] = row[task[s].id]
    BY <1>0, <1>3
<1>5. NotifierInv'
    BY <1>0, <1>1, <1>2, <1>3, <1>4 DEF NotifierInv, HookInv, Notifying
<1>6. CompletedWebhookOnce'
    BY <1>0, <1>2 DEF HookInv, CompletedWebhookOnce
<1> QED BY <1>5, <1>6 DEF HookInv

\* The step in which a notifier sends its webhook and stops being one.
LEMMA SendingHooks ==
    ASSUME TypeInv, HookInv, UNCHANGED row, NEW t \in Tid,
           NEW o \in {"succeeded", "failed"}, task[t].pc = IF o = "succeeded" THEN "webhook" ELSE "failhook",
           hooks' = Notified(task[t].id, o),
           NEW k, task' = [task EXCEPT ![t] = k], k.pc \notin {"webhook", "failhook"}
    PROVE  HookInv'
<1> DEFINE i == task[t].id
<1>0. row \in [Ids -> Row] /\ task \in [Tid -> Task] /\ hooks \in [Ids -> [succeeded : Nat, failed : Nat]]
    BY DEF TypeInv, TypeOK
<1>1. /\ i \in Ids /\ hooks[i].succeeded = 0 /\ hooks[i].failed = 0 /\ row[i].status = o
      /\ \A s \in Tid \ {t} : Notifying(s) => task[s].id # i /\ task[s].id \in Ids
    BY DEF HookInv, NotifierInv, Notifying, TypeInv, BusyHasId
<1>2. task'[t] = k /\ \A s \in Tid \ {t} : task'[s] = task[s]
    BY <1>0
<1>3. /\ \A j \in Ids \ {i} : hooks'[j] = hooks[j]
      /\ hooks'[i] = hooks[i] \/ hooks'[i] = [hooks[i] EXCEPT ![o] = @ + 1]
    BY <1>0, <1>1 DEF Notified
<1>4. NotifierInv'
    BY <1>0, <1>1, <1>2, <1>3 DEF NotifierInv, HookInv, Notifying
<1>5. /\ hooks'[i].succeeded + hooks'[i].failed <= 1
      /\ hooks'[i].succeeded > 0 => o = "succeeded"
      /\ hooks'[i].failed > 0 => o = "failed"
    BY <1>0, <1>1, <1>3
<1>6. CompletedWebhookOnce'
    BY <1>0, <1>1, <1>3, <1>5 DEF HookInv, CompletedWebhookOnce
<1> QED BY <1>4, <1>6 DEF HookInv

LEMMA HookStep ==
    ASSUME TypeInv, HookInv, [Next]_vars
    PROVE  HookInv'
<1>0. task \in [Tid -> Task] /\ row \in [Ids -> Row] /\ KeepsTerminal
    BY StepKeepsTerminal DEF TypeInv, TypeOK
<1>1. ASSUME NEW t \in Tid, SucceedWins(t) PROVE HookInv'
    <2> DEFINE i == task[t].id
               r == MarkSucceeded(row[i], i \in WantsBbox)
               k == [task[t] EXCEPT !.pc = "webhook", !.finalised = TRUE, !.elapsed = 0]
    <2>1. i \in Ids /\ row[i].status = "running"
        BY <1>1, TaskTypes DEF SucceedWins, CanMarkSucceeded
    <2>2. row' = [row EXCEPT ![i] = r] /\ r.status = "succeeded"
        BY <1>0, <1>1, <2>1 DEF SucceedWins, MarkSucceeded, Row
    <2>3. task' = [task EXCEPT ![t] = k] /\ k.pc = "webhook" /\ k.id = i
        BY <1>0, <1>1 DEF SucceedWins, Task
    <2>4. UNCHANGED hooks
        BY <1>1 DEF SucceedWins
    <2> HIDE DEF r, k
    <2> QED BY <2>1, <2>2, <2>3, <2>4, FinalisingHooks
<1>2. ASSUME NEW t \in Tid, FailWins(t) PROVE HookInv'
    <2> DEFINE i == task[t].id
               r == MarkFailed(row[i], ErrorCode(t))
               k == [task[t] EXCEPT !.pc = "failhook", !.finalised = TRUE, !.elapsed = 0]
    <2>1. i \in Ids /\ row[i].status = "running"
        BY <1>2, TaskTypes DEF FailWins, CanMarkFailed
    <2>2. row' = [row EXCEPT ![i] = r] /\ r.status = "failed"
        BY <1>0, <1>2, <2>1 DEF FailWins, MarkFailed, Row
    <2>3. task' = [task EXCEPT ![t] = k] /\ k.pc = "failhook" /\ k.id = i
        BY <1>0, <1>2 DEF FailWins, Task
    <2>4. UNCHANGED hooks
        BY <1>2 DEF FailWins
    <2> HIDE DEF r, k
    <2> QED BY <2>1, <2>2, <2>3, <2>4, FinalisingHooks
<1>3. ASSUME NEW t \in Tid, NotifySucceeded(t) PROVE HookInv'
    <2> DEFINE k == IF task[t].id \in WantsBbox THEN [task[t] EXCEPT !.pc = "publish"]
                                                ELSE Returned(t)
    <2>1. task' = [task EXCEPT ![t] = k] /\ k.pc \notin {"webhook", "failhook"}
        BY <1>0, <1>3, TaskTypes DEF NotifySucceeded, Task
    <2> HIDE DEF k
    <2> QED BY <1>3, <2>1, SendingHooks DEF NotifySucceeded
<1>4. ASSUME NEW t \in Tid, NotifyRaises(t) PROVE HookInv'
    <2>1. PICK p \in BOOLEAN : task' = [task EXCEPT ![t].pc = "except", ![t].permanent = p]
        BY <1>4 DEF NotifyRaises
    <2> DEFINE k == [task[t] EXCEPT !.pc = "except", !.permanent = p]
    <2>2. task' = [task EXCEPT ![t] = k] /\ k.pc \notin {"webhook", "failhook"}
        BY <1>0, <2>1 DEF Task
    <2> HIDE DEF k
    <2> QED BY <1>4, <2>2, SendingHooks DEF NotifyRaises
<1>5. ASSUME NEW t \in Tid, NotifyFailed(t) PROVE HookInv'
    BY <1>5, TaskTypes, SendingHooks DEF NotifyFailed
<1>6. ASSUME NEW t \in Tid, ProcessStep(t), ~SucceedWins(t), ~FailWins(t),
             ~NotifySucceeded(t), ~NotifyRaises(t), ~NotifyFailed(t)
      PROVE  UNCHANGED hooks /\ \A s \in Tid : Notifying(s)' => task'[s] = task[s]
    <2>1. CASE ClaimLoses(t) \/ SucceedLoses(t) \/ FailLoses(t) \/ RequeueLoses(t)
               \/ RequeueWins(t) \/ PublishRefine(t) \/ ClaimRaises(t) \/ ExceptRaises(t)
        BY <1>0, <2>1, TaskTypes DEF ClaimLoses, SucceedLoses, FailLoses, RequeueLoses, RequeueWins,
           PublishRefine, ClaimRaises, ExceptRaises, Notifying
    <2>2. CASE ClaimWins(t) \/ RunRaises(t) \/ SucceedReplyLost(t) \/ PublishRefineRaises(t)
        <3>1. task'[t].pc \in {"run", "except"} /\ \A s \in Tid \ {t} : task'[s] = task[s]
            <4>1. CASE ClaimWins(t)
                BY <1>0, <4>1 DEF ClaimWins, Task
            <4>2. CASE RunRaises(t) \/ PublishRefineRaises(t)
                <5>1. PICK p \in BOOLEAN :
                         task' = [task EXCEPT ![t].pc = "except", ![t].permanent = p]
                    BY <4>2 DEF RunRaises, PublishRefineRaises
                <5> QED BY <1>0, <5>1 DEF Task
            <4>3. CASE SucceedReplyLost(t)
                <5>1. PICK p \in BOOLEAN :
                         task' = [task EXCEPT ![t].pc = "except", ![t].permanent = p,
                                              ![t].finalised = TRUE, ![t].elapsed = 0]
                    BY <4>3 DEF SucceedReplyLost
                <5> QED BY <1>0, <5>1 DEF Task
            <4> QED BY <2>2, <4>1, <4>2, <4>3
        <3>2. UNCHANGED hooks
            BY <2>2 DEF ClaimWins, RunRaises, SucceedReplyLost, PublishRefineRaises
        <3> QED BY <1>0, <3>1, <3>2 DEF Notifying
    <2> QED BY <1>6, <2>1, <2>2 DEF ProcessStep
<1>7. ASSUME NEW w \in Worker, PollSweep(w) \/ PollNext(w) \/ \E i \in Ids : Deliver(w, i)
      PROVE  UNCHANGED hooks /\ \A s \in Tid : Notifying(s)' => task'[s] = task[s]
    <2>1. \A i, rest : Entered(i, rest).pc \in {"idle", "claim"}
        BY DEF Entered, IdleTask
    <2>2. CASE PollSweep(w)
        <3>1. PICK ids \in SUBSET Backlog : task' = [task EXCEPT ![<<w, "poll">>].batch = ids]
            BY <2>2 DEF PollSweep
        <3>2. \A s \in Tid \ {<<w, "poll">>} : task'[s] = task[s]
            BY <1>0, <3>1
        <3>3. <<w, "poll">> \in Tid /\ task[<<w, "poll">>].pc = "idle"
            BY <2>2 DEF PollSweep, Tid, Kind
        <3>4. task'[<<w, "poll">>].pc = "idle"
            BY <1>0, <3>1, <3>3 DEF Task
        <3> QED BY <2>2, <3>2, <3>4 DEF PollSweep, Notifying
    <2>3. CASE PollNext(w)
        BY <1>0, <2>1, <2>3 DEF PollNext, Notifying
    <2>4. CASE \E i \in Ids : Deliver(w, i)
        BY <1>0, <2>1, <2>4 DEF Deliver, Notifying
    <2> QED BY <1>7, <2>2, <2>3, <2>4
<1>8. ASSUME NEW w \in Worker, Crash(w) \/ ReaperSweep(w) \/ Restart(w)
      PROVE  UNCHANGED hooks /\ \A s \in Tid : Notifying(s)' => task'[s] = task[s]
    BY <1>0, <1>8, IdleTaskType DEF Crash, ReaperSweep, Restart, Notifying
<1>9. CASE Tick
    BY <1>0, <1>9, QuietHooks DEF Tick, Notifying, Owns, Task
<1>10. ASSUME NEW i \in Ids, ApiStep(i) \/ Lose(i)
       PROVE  UNCHANGED <<hooks, task>>
    BY <1>10 DEF ApiStep, Submit, ApiPublish, ApiFails, Cancel, Lose
<1>11. ASSUME NEW d \in delayed, DelayedPublish(d) PROVE UNCHANGED <<hooks, task>>
    BY <1>11 DEF DelayedPublish
<1>12. UNCHANGED <<hooks, task>> => HookInv'
    BY <1>0, QuietHooks
<1>13. ASSUME NEW t \in Tid, ProcessStep(t) PROVE HookInv'
    BY <1>0, <1>1, <1>2, <1>3, <1>4, <1>5, <1>6, <1>13, QuietHooks
<1>14. ASSUME NEW w \in Worker, PollSweep(w) \/ PollNext(w) \/ (\E i \in Ids : Deliver(w, i))
                                \/ Crash(w) \/ ReaperSweep(w) \/ Restart(w)
       PROVE  HookInv'
    BY <1>0, <1>7, <1>8, <1>14, QuietHooks
<1>15. CASE UNCHANGED vars
    BY <1>12, <1>15 DEF vars
<1> QED BY <1>9, <1>10, <1>11, <1>12, <1>13, <1>14, <1>15 DEF Next

\* Over every interleaving of workers, polls, redeliveries, retries, stalls
\* and crashes, extraction.completed is started at most once per extraction
\* and reports the status the row has.
THEOREM WebhookOnce == Spec => []CompletedWebhookOnce
<1>1. Init => TypeInv /\ HookInv
    BY TypeInit, HookInit
<1>2. TypeInv /\ HookInv /\ [Next]_vars => TypeInv' /\ HookInv'
    BY TypeStep, HookStep
<1> QED BY <1>1, <1>2, PTL DEF Spec, HookInv

-----------------------------------------------------------------------------
(***************************************************************************)
(* What the lease buys: when every run ends within the lease of its claim  *)
(* (RunBudget <= Lease, the sizing job_run_lease_s = async_timeout_s + 60s *)
(* is meant to give), an extraction has one executor at a time and its     *)
(* attempts exceed job_max_attempts only by the faults that happened.      *)
(***************************************************************************)

\* A task outside the try block holds nothing; one past its final UPDATE works
\* on a row that is terminal.
ShapeInv ==
    \A t \in Tid :
        /\ task[t].pc \in {"idle", "claim"} => ~task[t].finalised /\ task[t].elapsed = 0
        /\ task[t].pc \in {"webhook", "publish", "failhook"} => task[t].finalised
        /\ task[t].finalised => /\ task[t].id \in Ids
                                /\ row[task[t].id].status \in Terminal

\* A task that owns a claim has the row running on its attempt, and the age of
\* the claim is the time the task has held it.
OwnerInv ==
    \A t \in Tid : Owns(t) =>
        /\ row[task[t].id].status = "running"
        /\ row[task[t].id].attempts = task[t].attempts
        /\ row[task[t].id].age = task[t].elapsed

LeaseInv == ShapeInv /\ OwnerInv /\ SingleExecutor

LEMMA LeaseInit == Init => LeaseInv
BY DEF Init, LeaseInv, ShapeInv, OwnerInv, SingleExecutor, Owns, IdleTask

\* The task record k is one that owns nothing.
Unowning(k) ==
    /\ k.pc \in {"run", "except"} => k.finalised
    /\ k.pc \in {"idle", "claim"} => ~k.finalised /\ k.elapsed = 0
    /\ k.pc \in {"webhook", "publish", "failhook"} => k.finalised

\* A step after which task t owns nothing, and which changes no row but the
\* one t owned.
LEMMA ReleaseStep ==
    ASSUME TypeInv, LeaseInv, KeepsTerminal, NEW t \in Tid,
           NEW k, task' = [task EXCEPT ![t] = k], Unowning(k),
           k.finalised => k.id \in Ids /\ row'[k.id].status \in Terminal,
           \A i \in Ids : row'[i] = row[i] \/ (Owns(t) /\ task[t].id = i)
    PROVE  LeaseInv'
<1>0. task \in [Tid -> Task] /\ \A s \in Tid : Owns(s) => task[s].id \in Ids
    BY DEF TypeInv, TypeOK, BusyHasId, Owns
<1>1. task'[t] = k /\ \A s \in Tid \ {t} : task'[s] = task[s]
    BY <1>0
<1>2. ~Owns(t)' /\ \A s \in Tid \ {t} : Owns(s)' <=> Owns(s)
    BY <1>1 DEF Owns, Unowning
<1>3. \A s \in Tid \ {t} : Owns(s) => row'[task[s].id] = row[task[s].id]
    BY <1>0 DEF LeaseInv, SingleExecutor
<1>4. ShapeInv'
    BY <1>1 DEF LeaseInv, ShapeInv, Unowning, KeepsTerminal
<1>5. OwnerInv'
    BY <1>1, <1>2, <1>3 DEF LeaseInv, OwnerInv
<1>6. SingleExecutor'
    BY <1>1, <1>2 DEF LeaseInv, SingleExecutor
<1> QED BY <1>4, <1>5, <1>6 DEF LeaseInv

\* A step that moves no task and changes only rows that are not running.
LEMMA QuietLease ==
    ASSUME TypeInv, LeaseInv, KeepsTerminal, UNCHANGED task,
           \A i \in Ids : row'[i] = row[i] \/ row[i].status # "running"
    PROVE  LeaseInv'
<1>0. \A s \in Tid : Owns(s) => task[s].id \in Ids
    BY DEF TypeInv, TypeOK, BusyHasId, Owns
<1>1. \A s \in Tid : Owns(s)' <=> Owns(s)
    BY DEF Owns
<1>2. \A s \in Tid : Owns(s) => row'[task[s].id] = row[task[s].id]
    BY <1>0 DEF LeaseInv, OwnerInv
<1>3. ShapeInv'
    BY DEF LeaseInv, ShapeInv, KeepsTerminal
<1>4. OwnerInv'
    BY <1>1, <1>2 DEF LeaseInv, OwnerInv
<1>5. SingleExecutor'
    BY <1>1 DEF LeaseInv, SingleExecutor
<1> QED BY <1>3, <1>4, <1>5 DEF LeaseInv

\* The claim: nobody owns a row that mark_running matches.
LEMMA ClaimLease ==
    ASSUME TypeInv, LeaseInv, KeepsTerminal, RunBudget <= Lease, NEW t \in Tid, ClaimWins(t)
    PROVE  LeaseInv'
<1> DEFINE i == task[t].id
           k == [task[t] EXCEPT !.pc = "run", !.attempts = row[i].attempts + 1]
<1>0. /\ task \in [Tid -> Task] /\ row \in [Ids -> Row] /\ i \in Ids
      /\ \A s \in Tid : Owns(s) => task[s].id \in Ids
    BY TaskTypes DEF TypeInv, TypeOK, BusyHasId, Owns, ClaimWins
<1>1. \A s \in Tid : Owns(s) => task[s].id # i
    BY <1>0, WorkerAssumption
       DEF ClaimWins, CanMarkRunning, IsStaleRunning, LeaseInv, OwnerInv, Task, Elapsed
<1>2. /\ task' = [task EXCEPT ![t] = k]
      /\ k.pc = "run" /\ k.id = i /\ k.attempts = row[i].attempts + 1
      /\ k.elapsed = 0 /\ ~k.finalised
    BY <1>0 DEF ClaimWins, Task, LeaseInv, ShapeInv
<1> HIDE DEF k
<1>3. task'[t] = k /\ \A s \in Tid \ {t} : task'[s] = task[s]
    BY <1>0, <1>2
<1>4. /\ row'[i].status = "running" /\ row'[i].attempts = row[i].attempts + 1 /\ row'[i].age = 0
      /\ \A j \in Ids \ {i} : row'[j] = row[j]
    BY <1>0 DEF ClaimWins, MarkRunning, Row
<1>5. \A s \in Tid \ {t} : Owns(s)' <=> Owns(s)
    BY <1>3 DEF Owns
<1>6. ShapeInv'
    BY <1>2, <1>3 DEF LeaseInv, ShapeInv, KeepsTerminal
<1>7. OwnerInv'
    BY <1>0, <1>1, <1>2, <1>3, <1>4, <1>5 DEF LeaseInv, OwnerInv
<1>8. SingleExecutor'
    BY <1>0, <1>1, <1>2, <1>3, <1>5 DEF LeaseInv, SingleExecutor
<1> QED BY <1>6, <1>7, <1>8 DEF LeaseInv

\* The pipeline raises: the claim is kept into the except block.
LEMMA RaiseLease ==
    ASSUME TypeInv, LeaseInv, KeepsTerminal, NEW t \in Tid, RunRaises(t)
    PROVE  LeaseInv'
<1>0. task \in [Tid -> Task]
    BY DEF TypeInv, TypeOK
<1>1. PICK p \in BOOLEAN : task' = [task EXCEPT ![t].pc = "except", ![t].permanent = p]
    BY DEF RunRaises
<1>2. /\ task'[t].pc = "except" /\ task'[t].id = task[t].id
      /\ task'[t].attempts = task[t].attempts /\ task'[t].elapsed = task[t].elapsed
      /\ task'[t].finalised = task[t].finalised
      /\ \A s \in Tid \ {t} : task'[s] = task[s]
    BY <1>0, <1>1 DEF Task
<1>3. task[t].pc = "run" /\ UNCHANGED row
    BY DEF RunRaises
<1>4. \A s \in Tid : Owns(s)' <=> Owns(s)
    BY <1>2, <1>3 DEF Owns
<1>5. ShapeInv'
    BY <1>2, <1>3 DEF LeaseInv, ShapeInv
<1>6. OwnerInv'
    BY <1>2, <1>3, <1>4 DEF LeaseInv, OwnerInv
<1>7. SingleExecutor'
    BY <1>2, <1>4 DEF LeaseInv, SingleExecutor
<1> QED BY <1>5, <1>6, <1>7 DEF LeaseInv

\* Time: an owner's row grows old exactly as fast as the owner.
LEMMA TickLease ==
    ASSUME TypeInv, LeaseInv, KeepsTerminal, RunBudget <= Lease, Tick
    PROVE  LeaseInv'
<1>0. /\ task \in [Tid -> Task] /\ row \in [Ids -> Row]
      /\ \A s \in Tid : Owns(s) => task[s].id \in Ids
    BY DEF TypeInv, TypeOK, BusyHasId, Owns
<1>1. ASSUME NEW t \in Tid
      PROVE  /\ task'[t].pc = task[t].pc /\ task'[t].id = task[t].id
             /\ task'[t].attempts = task[t].attempts
             /\ task'[t].finalised = task[t].finalised
             /\ task'[t].elapsed = IF Owns(t) THEN task[t].elapsed + 1 ELSE task[t].elapsed
    BY <1>0 DEF Tick, Task
<1>2. ASSUME NEW i \in Ids
      PROVE  /\ row'[i].status = row[i].status /\ row'[i].attempts = row[i].attempts
             /\ row'[i].age = Older(row[i].age)
    BY <1>0 DEF Tick, AgedRow, Row
<1>3. \A s \in Tid : Owns(s)' <=> Owns(s)
    BY <1>1 DEF Owns
<1>4. ASSUME NEW t \in Tid, Owns(t)
      PROVE  Older(task[t].elapsed) = task[t].elapsed + 1
    BY <1>0, <1>4, WorkerAssumption, MaxAgeAssumption DEF Tick, Older, Task, Elapsed
<1>5. ShapeInv'
    BY <1>1, <1>2 DEF LeaseInv, ShapeInv, KeepsTerminal, Owns
<1>6. OwnerInv'
    BY <1>0, <1>1, <1>2, <1>3, <1>4 DEF LeaseInv, OwnerInv
<1>7. SingleExecutor'
    BY <1>1, <1>3 DEF LeaseInv, SingleExecutor
<1> QED BY <1>5, <1>6, <1>7 DEF LeaseInv

\* A crash takes the tasks of one worker away and touches no row.
LEMMA CrashLease ==
    ASSUME TypeInv, LeaseInv, NEW w \in Worker, Crash(w)
    PROVE  LeaseInv'
<1>0. task \in [Tid -> Task]
    BY DEF TypeInv, TypeOK
<1>1. \A s \in Tid : task'[s] = task[s] \/ task'[s] = IdleTask
    BY DEF Crash
<1>2. \A s \in Tid : Owns(s)' => Owns(s) /\ task'[s] = task[s]
    BY <1>1, IdleTaskType DEF Owns
<1>3. UNCHANGED row /\ IdleTask.finalised = FALSE /\ IdleTask.elapsed = 0
    BY DEF Crash, IdleTask
<1>4. ShapeInv'
    BY <1>1, <1>3, IdleTaskType DEF LeaseInv, ShapeInv
<1>5. OwnerInv'
    BY <1>2, <1>3 DEF LeaseInv, OwnerInv
<1>6. SingleExecutor'
    BY <1>2 DEF LeaseInv, SingleExecutor
<1> QED BY <1>4, <1>5, <1>6 DEF LeaseInv

LEMMA UnowningRecords ==
    ASSUME TypeInv, NEW t \in Tid
    PROVE  /\ Unowning(IdleTask) /\ ~IdleTask.finalised
           /\ Unowning(Returned(t)) /\ ~Returned(t).finalised
           /\ Unowning(Escaped) /\ ~Escaped.finalised
           /\ \A i, rest : Unowning(Entered(i, rest)) /\ ~Entered(i, rest).finalised
BY DEF Unowning, IdleTask, Returned, Escaped, Entered

\* The steps of _process after which the task owns nothing.
LEMMA ProcessLease ==
    ASSUME TypeInv, LeaseInv, KeepsTerminal, RunBudget <= Lease, NEW t \in Tid, ProcessStep(t)
    PROVE  LeaseInv'
<1> DEFINE i == task[t].id
<1>0. /\ task \in [Tid -> Task] /\ row \in [Ids -> Row]
      /\ task[t].pc # "idle" => i \in Ids
    BY DEF TypeInv, TypeOK, BusyHasId
<1>1. CASE ClaimWins(t)
    BY <1>1, ClaimLease
<1>2. CASE RunRaises(t)
    BY <1>2, RaiseLease
<1>3. CASE \/ ClaimLoses(t) \/ ClaimRaises(t) \/ SucceedLoses(t) \/ PublishRefine(t)
           \/ FailLoses(t) \/ NotifyFailed(t) \/ RequeueLoses(t) \/ ExceptRaises(t)
    <2>1. UNCHANGED row
        BY <1>3 DEF ClaimLoses, ClaimRaises, SucceedLoses, PublishRefine, FailLoses, NotifyFailed,
           RequeueLoses, ExceptRaises
    <2>2. task' = [task EXCEPT ![t] = Returned(t)] \/ task' = [task EXCEPT ![t] = Escaped]
        BY <1>3 DEF ClaimLoses, ClaimRaises, SucceedLoses, PublishRefine, FailLoses, NotifyFailed,
           RequeueLoses, ExceptRaises
    <2> QED BY <2>1, <2>2, UnowningRecords, ReleaseStep
<1>4. ASSUME row[i].status = "running", task[t].pc \in {"run", "except"} PROVE Owns(t)
    BY <1>4 DEF Owns, LeaseInv, ShapeInv, Terminal
<1>5. CASE SucceedWins(t)
    <2> DEFINE k == [task[t] EXCEPT !.pc = "webhook", !.finalised = TRUE, !.elapsed = 0]
    <2>1. Owns(t) /\ i \in Ids
        BY <1>0, <1>4, <1>5 DEF SucceedWins, CanMarkSucceeded
    <2>2. /\ row'[i].status = "succeeded"
          /\ \A j \in Ids \ {i} : row'[j] = row[j]
        BY <1>0, <1>5, <2>1 DEF SucceedWins, MarkSucceeded, Row
    <2>3. task' = [task EXCEPT ![t] = k] /\ k.id = i /\ Unowning(k)
        BY <1>0, <1>5 DEF SucceedWins, Task, Unowning
    <2> HIDE DEF k
    <2> QED BY <2>1, <2>2, <2>3, ReleaseStep DEF Terminal
<1>6. CASE SucceedReplyLost(t)
    <2>1. PICK p \in BOOLEAN :
             task' = [task EXCEPT ![t].pc = "except", ![t].permanent = p,
                                  ![t].finalised = TRUE, ![t].elapsed = 0]
        BY <1>6 DEF SucceedReplyLost
    <2> DEFINE k == [task[t] EXCEPT !.pc = "except", !.permanent = p,
                                    !.finalised = TRUE, !.elapsed = 0]
    <2>2. Owns(t) /\ i \in Ids
        BY <1>0, <1>4, <1>6 DEF SucceedReplyLost, CanMarkSucceeded
    <2>3. /\ row'[i].status = "succeeded"
          /\ \A j \in Ids \ {i} : row'[j] = row[j]
        BY <1>0, <1>6, <2>2 DEF SucceedReplyLost, MarkSucceeded, Row
    <2>4. task' = [task EXCEPT ![t] = k] /\ k.id = i /\ Unowning(k)
        BY <1>0, <2>1 DEF Task, Unowning
    <2> HIDE DEF k
    <2> QED BY <2>2, <2>3, <2>4, ReleaseStep DEF Terminal
<1>7. CASE NotifySucceeded(t)
    <2> DEFINE k == IF i \in WantsBbox THEN [task[t] EXCEPT !.pc = "publish"] ELSE Returned(t)
    <2>1. UNCHANGED row /\ task' = [task EXCEPT ![t] = k]
        BY <1>0, <1>7 DEF NotifySucceeded
    <2>2. task[t].finalised /\ i \in Ids /\ row[i].status \in Terminal
        BY <1>7 DEF NotifySucceeded, LeaseInv, ShapeInv
    <2>3. Unowning(k) /\ (k.finalised => k.id = i)
        BY <1>0, <2>2, UnowningRecords DEF Unowning, Task
    <2> HIDE DEF k
    <2> QED BY <2>1, <2>2, <2>3, ReleaseStep
<1>8. CASE NotifyRaises(t) \/ PublishRefineRaises(t)
    <2>1. PICK p \in BOOLEAN : task' = [task EXCEPT ![t].pc = "except", ![t].permanent = p]
        BY <1>8 DEF NotifyRaises, PublishRefineRaises
    <2> DEFINE k == [task[t] EXCEPT !.pc = "except", !.permanent = p]
    <2>2. task[t].finalised /\ i \in Ids /\ row[i].status \in Terminal
        BY <1>8 DEF NotifyRaises, PublishRefineRaises, LeaseInv, ShapeInv
    <2>3. task' = [task EXCEPT ![t] = k] /\ k.id = i /\ Unowning(k)
        BY <1>0, <2>1, <2>2 DEF Task, Unowning
    <2>4. UNCHANGED row
        BY <1>8 DEF NotifyRaises, PublishRefineRaises
    <2> HIDE DEF k
    <2> QED BY <2>2, <2>3, <2>4, ReleaseStep
<1>9. CASE FailWins(t)
    <2> DEFINE k == [task[t] EXCEPT !.pc = "failhook", !.finalised = TRUE, !.elapsed = 0]
    <2>1. Owns(t) /\ i \in Ids
        BY <1>0, <1>4, <1>9 DEF FailWins, CanMarkFailed
    <2>2. /\ row'[i].status = "failed"
          /\ \A j \in Ids \ {i} : row'[j] = row[j]
        BY <1>0, <1>9, <2>1 DEF FailWins, MarkFailed, Row
    <2>3. task' = [task EXCEPT ![t] = k] /\ k.id = i /\ Unowning(k)
        BY <1>0, <1>9 DEF FailWins, Task, Unowning
    <2> HIDE DEF k
    <2> QED BY <2>1, <2>2, <2>3, ReleaseStep DEF Terminal
<1>10. CASE RequeueWins(t)
    <2>1. Owns(t) /\ i \in Ids
        BY <1>0, <1>4, <1>10 DEF RequeueWins, CanRequeueForRetry
    <2>2. \A j \in Ids \ {i} : row'[j] = row[j]
        BY <1>0, <1>10, <2>1 DEF RequeueWins
    <2> DEFINE k == Returned(t)
    <2>3. task' = [task EXCEPT ![t] = k] /\ Unowning(k) /\ ~k.finalised
        BY <1>10, UnowningRecords DEF RequeueWins
    <2>4. \A j \in Ids : row'[j] = row[j] \/ (Owns(t) /\ task[t].id = j)
        BY <2>1, <2>2
    <2> HIDE DEF k
    <2> QED BY <2>3, <2>4, ReleaseStep
<1> QED BY <1>1, <1>2, <1>3, <1>5, <1>6, <1>7, <1>8, <1>9, <1>10 DEF ProcessStep

LEMMA LeaseStep ==
    ASSUME TypeInv, LeaseInv, RunBudget <= Lease, [Next]_vars
    PROVE  LeaseInv'
<1>0. task \in [Tid -> Task] /\ row \in [Ids -> Row] /\ KeepsTerminal
    BY StepKeepsTerminal DEF TypeInv, TypeOK
<1>1. ASSUME NEW t \in Tid, ProcessStep(t) PROVE LeaseInv'
    BY <1>0, <1>1, ProcessLease
<1>2. ASSUME NEW i \in Ids, ApiStep(i) \/ Lose(i) PROVE LeaseInv'
    <2>1. UNCHANGED task /\ \A j \in Ids : row'[j] = row[j] \/ row[j].status # "running"
        BY <1>0, <1>2 DEF ApiStep, Submit, ApiPublish, ApiFails, Cancel, CanMarkCancelled, Lose
    <2> QED BY <1>0, <2>1, QuietLease
<1>3. ASSUME NEW w \in Worker, NEW i \in Ids, Deliver(w, i) PROVE LeaseInv'
    <2> DEFINE t == <<w, "bus">>
               k == Entered(i, {})
    <2>1. t \in Tid
        BY DEF Tid, Kind
    <2>2. Unowning(k) /\ ~k.finalised
        BY <2>1, UnowningRecords
    <2>3. UNCHANGED row /\ task' = [task EXCEPT ![t] = k]
        BY <1>3 DEF Deliver
    <2> HIDE DEF t, k
    <2> QED BY <1>0, <2>1, <2>2, <2>3, ReleaseStep
<1>4. ASSUME NEW w \in Worker, PollSweep(w) PROVE LeaseInv'
    <2> DEFINE t == <<w, "poll">>
    <2>1. t \in Tid
        BY DEF Tid, Kind
    <2>2. PICK ids \in SUBSET Backlog : task' = [task EXCEPT ![t].batch = ids]
        BY <1>4 DEF PollSweep
    <2>3. task[t].pc = "idle" /\ UNCHANGED row
        BY <1>4 DEF PollSweep
    <2> DEFINE k == [task[t] EXCEPT !.batch = ids]
    <2> HIDE DEF t
    <2>4. task' = [task EXCEPT ![t] = k] /\ Unowning(k) /\ ~k.finalised
        BY <1>0, <2>1, <2>2, <2>3 DEF Task, Unowning, LeaseInv, ShapeInv
    <2> HIDE DEF k
    <2> QED BY <1>0, <2>1, <2>3, <2>4, ReleaseStep
<1>5. ASSUME NEW w \in Worker, PollNext(w) PROVE LeaseInv'
    <2>1. <<w, "poll">> \in Tid
        BY DEF Tid, Kind
    <2> QED BY <1>0, <1>5, <2>1, UnowningRecords, ReleaseStep DEF PollNext
<1>6. ASSUME NEW w \in Worker, Crash(w) PROVE LeaseInv'
    BY <1>6, CrashLease
<1>7. ASSUME NEW w \in Worker, ReaperSweep(w) \/ Restart(w) PROVE UNCHANGED <<row, task>>
    BY <1>7 DEF ReaperSweep, Restart
<1>8. ASSUME NEW d \in delayed, DelayedPublish(d) PROVE UNCHANGED <<row, task>>
    BY <1>8 DEF DelayedPublish
<1>9. UNCHANGED vars => UNCHANGED <<row, task>>
    BY DEF vars
<1>10. UNCHANGED <<row, task>> => LeaseInv'
    BY <1>0, QuietLease
<1>11. Tick => LeaseInv'
    BY <1>0, TickLease
<1> QED BY <1>1, <1>2, <1>3, <1>4, <1>5, <1>6, <1>7, <1>8, <1>9, <1>10, <1>11 DEF Next

\* If every run ends within the lease of its claim, an extraction never has
\* two executors.
THEOREM LeaseGivesSingleExecutor ==
    ASSUME RunBudget <= Lease
    PROVE  Spec => []SingleExecutor
<1>1. Init => TypeInv /\ LeaseInv
    BY TypeInit, LeaseInit
<1>2. TypeInv /\ LeaseInv /\ [Next]_vars => TypeInv' /\ LeaseInv'
    BY TypeStep, LeaseStep
<1>3. LeaseInv => SingleExecutor
    BY DEF LeaseInv
<1> QED BY <1>1, <1>2, <1>3, PTL DEF Spec

\* If every run ends within the lease of its claim, a task that is running a
\* claim has the row running on its own attempt: nothing it does is stale.
THEOREM LeaseKeepsOwnership ==
    ASSUME RunBudget <= Lease
    PROVE  Spec => []OwnerHoldsRow
<1>1. Init => TypeInv /\ LeaseInv
    BY TypeInit, LeaseInit
<1>2. TypeInv /\ LeaseInv /\ [Next]_vars => TypeInv' /\ LeaseInv'
    BY TypeStep, LeaseStep
<1>3. LeaseInv => OwnerHoldsRow
    BY DEF LeaseInv, OwnerInv, OwnerHoldsRow
<1> QED BY <1>1, <1>2, <1>3, PTL DEF Spec

-----------------------------------------------------------------------------
(* The retry budget *)

Held(i) == \E t \in Tid : Owns(t) /\ task[t].id = i

\* An extraction that waits for a claim, or that a crashed worker has left
\* running, has room for one more attempt.
BudgetInv ==
    \A i \in Ids :
        /\ row[i].attempts <= MaxAttempts + faults
        /\ \/ row[i].status = "queued"
           \/ row[i].status = "running" /\ ~Held(i)
           => row[i].attempts < MaxAttempts + faults

LEMMA BudgetInit == Init => BudgetInv
BY WorkerAssumption DEF Init, BudgetInv, AbsentRow

\* A step that leaves the rows' attempts and statuses alone, and either leaves
\* the owners alone too or spends a fault.
LEMMA QuietBudget ==
    ASSUME TypeInv, BudgetInv, faults' \in Nat,
           \A i \in Ids : row'[i].status = row[i].status /\ row'[i].attempts = row[i].attempts,
           \/ faults' > faults
           \/ faults' = faults /\ \A i \in Ids : row[i].status = "running" /\ Held(i) => Held(i)'
    PROVE  BudgetInv'
<1>0. /\ row \in [Ids -> Row] /\ \A i \in Ids : row[i].attempts \in Nat
      /\ faults \in Nat /\ MaxAttempts \in Nat
    BY WorkerAssumption DEF TypeInv, TypeOK, Row
<1>1. CASE faults' > faults
    BY <1>0, <1>1 DEF BudgetInv
<1>2. CASE faults' = faults /\ \A i \in Ids : row[i].status = "running" /\ Held(i) => Held(i)'
    BY <1>0, <1>2 DEF BudgetInv
<1> QED BY <1>1, <1>2

\* A step in which a row goes to a status that is neither queued nor running,
\* or back to queued below the budget, and the owners of other rows stay.
LEMMA RowBudget ==
    ASSUME TypeInv, BudgetInv, faults' \in Nat, faults' >= faults, NEW i \in Ids,
           row'[i].attempts <= row[i].attempts,
           row'[i].attempts \in Nat,
           row'[i].status # "running",
           row'[i].status = "queued" => row'[i].attempts < MaxAttempts + faults,
           \A j \in Ids \ {i} : row'[j] = row[j] /\ (Held(j) => Held(j)')
    PROVE  BudgetInv'
<1>0. /\ \A j \in Ids : row[j].attempts \in Nat
      /\ faults \in Nat /\ MaxAttempts \in Nat
    BY WorkerAssumption DEF TypeInv, TypeOK, Row
<1> QED BY <1>0 DEF BudgetInv

\* A task that owned nothing, or goes on owning the same row, moves.
LEMMA HeldFrame ==
    ASSUME TypeInv, NEW t \in Tid, NEW k, task' = [task EXCEPT ![t] = k], NEW j,
           Owns(t) /\ task[t].id = j => k.pc \in {"run", "except"} /\ ~k.finalised /\ k.id = j,
           Held(j)
    PROVE  Held(j)'
<1>0. task \in [Tid -> Task]
    BY DEF TypeInv, TypeOK
<1>1. PICK s \in Tid : Owns(s) /\ task[s].id = j
    BY DEF Held
<1>2. task'[t] = k /\ \A u \in Tid \ {t} : task'[u] = task[u]
    BY <1>0
<1>3. Owns(s)' /\ task'[s].id = j
    BY <1>1, <1>2 DEF Owns
<1> QED BY <1>3 DEF Held

LEMMA ProcessBudget ==
    ASSUME TypeInv, LeaseInv, BudgetInv, RunBudget <= Lease, NEW t \in Tid, ProcessStep(t)
    PROVE  BudgetInv'
<1> DEFINE i == task[t].id
<1>0. /\ task \in [Tid -> Task] /\ row \in [Ids -> Row]
      /\ task[t].pc # "idle" => i \in Ids
      /\ \A j \in Ids : row[j].attempts \in Nat
      /\ faults \in Nat /\ MaxAttempts \in Nat
    BY WorkerAssumption DEF TypeInv, TypeOK, BusyHasId, Row
<1>1. CASE ClaimWins(t)
    <2> DEFINE k == [task[t] EXCEPT !.pc = "run", !.attempts = row[i].attempts + 1]
    <2>1. ~Owns(t) /\ i \in Ids /\ UNCHANGED faults
        BY <1>0, <1>1 DEF ClaimWins, Owns
    <2>2. row[i].status = "queued" \/ (row[i].status = "running" /\ ~Held(i))
        BY <1>0, <1>1, WorkerAssumption
           DEF ClaimWins, CanMarkRunning, IsStaleRunning, LeaseInv, OwnerInv, Held, Task, Elapsed
    <2>3. row[i].attempts < MaxAttempts + faults
        BY <2>1, <2>2 DEF BudgetInv
    <2>4. /\ task' = [task EXCEPT ![t] = k] /\ k.pc = "run" /\ ~k.finalised /\ k.id = i
          /\ task'[t] = k
        BY <1>0, <1>1 DEF ClaimWins, Task, LeaseInv, ShapeInv
    <2> HIDE DEF k
    <2>5. ASSUME NEW n \in Ids, n = i PROVE Held(n)'
        BY <2>4, <2>5 DEF Held, Owns
    <2>6. \A j \in Ids : Held(j) => Held(j)'
        BY <2>1, <2>4, HeldFrame
    <2>7. /\ row'[i].status = "running" /\ row'[i].attempts = row[i].attempts + 1
          /\ \A j \in Ids \ {i} : row'[j] = row[j]
        BY <1>0, <1>1, <2>1 DEF ClaimWins, MarkRunning, Row
    <2>8. row'[i].attempts <= MaxAttempts + faults
        BY <1>0, <2>1, <2>3, <2>7
    <2>9. ASSUME NEW n \in Ids, n = i
          PROVE  Held(n)' /\ row'[n].attempts <= MaxAttempts + faults' /\ row'[n].status = "running"
        BY <2>1, <2>5, <2>7, <2>8, <2>9
    <2>10. ASSUME NEW n \in Ids, n # i
           PROVE  row'[n] = row[n] /\ faults' = faults /\ (Held(n) => Held(n)')
        BY <2>1, <2>6, <2>7, <2>10
    <2> HIDE DEF i
    <2> QED BY <2>9, <2>10 DEF BudgetInv
<1>2. CASE ClaimRaises(t) \/ ExceptRaises(t)
    <2>1. UNCHANGED row /\ faults' = faults + 1
        BY <1>2 DEF ClaimRaises, ExceptRaises
    <2> QED BY <1>0, <2>1, QuietBudget
<1>3. CASE \/ ClaimLoses(t) \/ SucceedLoses(t) \/ PublishRefine(t)
           \/ FailLoses(t) \/ NotifyFailed(t) \/ RequeueLoses(t)
    <2>1. UNCHANGED <<row, faults>>
        BY <1>3 DEF ClaimLoses, SucceedLoses, PublishRefine, FailLoses, NotifyFailed, RequeueLoses
    <2>2. ~Owns(t)
        BY <1>3 DEF ClaimLoses, SucceedLoses, PublishRefine, FailLoses, NotifyFailed, RequeueLoses,
           CanMarkSucceeded, CanMarkFailed, CanRequeueForRetry, Owns, LeaseInv, OwnerInv
    <2>3. task' = [task EXCEPT ![t] = Returned(t)] \/ task' = [task EXCEPT ![t] = Escaped]
        BY <1>3 DEF ClaimLoses, SucceedLoses, PublishRefine, FailLoses, NotifyFailed, RequeueLoses
    <2>4. \A j \in Ids : Held(j) => Held(j)'
        BY <2>2, <2>3, HeldFrame
    <2> QED BY <1>0, <2>1, <2>4, QuietBudget
<1>4. CASE RunRaises(t) \/ NotifyRaises(t) \/ PublishRefineRaises(t)
    <2>1. UNCHANGED <<row, faults>>
        BY <1>4 DEF RunRaises, NotifyRaises, PublishRefineRaises
    <2>2. PICK p \in BOOLEAN : task' = [task EXCEPT ![t].pc = "except", ![t].permanent = p]
        BY <1>4 DEF RunRaises, NotifyRaises, PublishRefineRaises
    <2> DEFINE k == [task[t] EXCEPT !.pc = "except", !.permanent = p]
    <2>3. task' = [task EXCEPT ![t] = k] /\ k.id = i /\ k.pc = "except"
          /\ k.finalised = task[t].finalised
        BY <1>0, <2>2 DEF Task
    <2> HIDE DEF k
    <2>4. \A j \in Ids : Held(j) => Held(j)'
        BY <2>3, HeldFrame DEF Owns
    <2> QED BY <1>0, <2>1, <2>4, QuietBudget
<1>5. CASE NotifySucceeded(t)
    <2> DEFINE k == IF i \in WantsBbox THEN [task[t] EXCEPT !.pc = "publish"] ELSE Returned(t)
    <2>1. UNCHANGED <<row, faults>> /\ task' = [task EXCEPT ![t] = k] /\ ~Owns(t)
        BY <1>0, <1>5 DEF NotifySucceeded, Owns
    <2> HIDE DEF k
    <2>2. \A j \in Ids : Held(j) => Held(j)'
        BY <2>1, HeldFrame
    <2> QED BY <1>0, <2>1, <2>2, QuietBudget
<1>6. ASSUME row[i].status = "running", task[t].pc \in {"run", "except"}
      PROVE  Owns(t) /\ row[i].attempts = task[t].attempts
    BY <1>6 DEF Owns, LeaseInv, ShapeInv, OwnerInv, Terminal
<1>7. ASSUME NEW j \in Ids \ {i}, Held(j), NEW k, task' = [task EXCEPT ![t] = k]
      PROVE  Held(j)'
    BY <1>7, HeldFrame
<1>8. CASE SucceedWins(t) \/ SucceedReplyLost(t) \/ FailWins(t)
    <2>1. i \in Ids /\ (UNCHANGED faults \/ faults' = faults + 1)
        <3>1. CASE SucceedWins(t)
            BY <1>0, <3>1 DEF SucceedWins
        <3>2. CASE SucceedReplyLost(t)
            BY <1>0, <3>2 DEF SucceedReplyLost
        <3>3. CASE FailWins(t)
            BY <1>0, <3>3 DEF FailWins
        <3> QED BY <1>8, <3>1, <3>2, <3>3
    <2>2. faults' \in Nat /\ faults' >= faults
        BY <1>0, <2>1
    <2>3. /\ row'[i].status \in {"succeeded", "failed"} /\ row'[i].attempts = row[i].attempts
           /\ \A j \in Ids \ {i} : row'[j] = row[j]
        <3>1. CASE SucceedWins(t) \/ SucceedReplyLost(t)
            <4>1. row' = [row EXCEPT ![i] = MarkSucceeded(@, i \in WantsBbox)]
                BY <3>1 DEF SucceedWins, SucceedReplyLost
            <4> QED BY <1>0, <2>1, <4>1 DEF MarkSucceeded, Row
        <3>2. CASE FailWins(t)
            <4>1. row' = [row EXCEPT ![i] = MarkFailed(@, ErrorCode(t))]
                BY <3>2 DEF FailWins
            <4> QED BY <1>0, <2>1, <4>1 DEF MarkFailed, Row
        <3> QED BY <1>8, <3>1, <3>2
    <2>4. \E k : task' = [task EXCEPT ![t] = k]
        <3>1. CASE SucceedWins(t) \/ FailWins(t)
            BY <1>0, <3>1 DEF SucceedWins, FailWins
        <3>2. CASE SucceedReplyLost(t)
            <4>1. PICK p \in BOOLEAN :
                     task' = [task EXCEPT ![t].pc = "except", ![t].permanent = p,
                                          ![t].finalised = TRUE, ![t].elapsed = 0]
                BY <3>2 DEF SucceedReplyLost
            <4> QED BY <1>0, <4>1
        <3> QED BY <1>8, <3>1, <3>2
    <2>5. \A j \in Ids \ {i} : Held(j) => Held(j)'
        BY <1>7, <2>4
    <2> QED BY <1>0, <2>1, <2>2, <2>3, <2>5, RowBudget
<1>9. CASE RequeueWins(t)
    <2>1. i \in Ids /\ UNCHANGED faults
        BY <1>0, <1>9 DEF RequeueWins
    <2>2. row[i].attempts = task[t].attempts /\ ~(task[t].attempts >= MaxAttempts)
        BY <1>6, <1>9 DEF RequeueWins, CanRequeueForRetry, GivesUp
    <2>3. row[i].attempts < MaxAttempts + faults
        BY <1>0, <2>1, <2>2
    <2>4. /\ row'[i].status = "queued" /\ row'[i].attempts = row[i].attempts
          /\ \A j \in Ids \ {i} : row'[j] = row[j]
        BY <1>0, <1>9, <2>1 DEF RequeueWins, RequeueForRetry, Row
    <2>5. \A j \in Ids \ {i} : Held(j) => Held(j)'
        BY <1>7, <1>9 DEF RequeueWins
    <2> QED BY <1>0, <2>1, <2>3, <2>4, <2>5, RowBudget
<1> QED BY <1>1, <1>2, <1>3, <1>4, <1>5, <1>8, <1>9 DEF ProcessStep

LEMMA BudgetStep ==
    ASSUME TypeInv, LeaseInv, BudgetInv, RunBudget <= Lease, [Next]_vars
    PROVE  BudgetInv'
<1>0. /\ task \in [Tid -> Task] /\ row \in [Ids -> Row]
      /\ \A j \in Ids : row[j].attempts \in Nat
      /\ faults \in Nat /\ MaxAttempts \in Nat /\ MaxAttempts > 0
    BY WorkerAssumption DEF TypeInv, TypeOK, Row
<1>1. ASSUME NEW t \in Tid, ProcessStep(t) PROVE BudgetInv'
    BY <1>1, ProcessBudget
<1>2. UNCHANGED task => \A j \in Ids : Held(j) => Held(j)'
    BY DEF Held, Owns
<1>3. ASSUME NEW i \in Ids, Submit(i) PROVE BudgetInv'
    <2>1. row'[i].attempts = 0 /\ row'[i].status = "queued" /\ \A j \in Ids \ {i} : row'[j] = row[j]
        BY <1>0, <1>3 DEF Submit, NewRow, AbsentRow
    <2>2. UNCHANGED <<task, faults>>
        BY <1>3 DEF Submit
    <2> QED BY <1>0, <1>2, <2>1, <2>2, RowBudget
<1>4. ASSUME NEW i \in Ids, Cancel(i) PROVE BudgetInv'
    <2>1. /\ row'[i].attempts = row[i].attempts /\ row'[i].status = "cancelled"
          /\ \A j \in Ids \ {i} : row'[j] = row[j]
        BY <1>0, <1>4 DEF Cancel, MarkCancelled, Row
    <2>2. UNCHANGED <<task, faults>>
        BY <1>4 DEF Cancel
    <2> QED BY <1>0, <1>2, <2>1, <2>2, RowBudget
<1>5. UNCHANGED <<row, task, faults>> => BudgetInv'
    BY <1>0, <1>2, QuietBudget
<1>6. ASSUME NEW i \in Ids, ApiPublish(i) \/ ApiFails(i) \/ Lose(i)
      PROVE  UNCHANGED <<row, task, faults>>
    BY <1>6 DEF ApiPublish, ApiFails, Lose
<1>7. ASSUME NEW w \in Worker, ReaperSweep(w) \/ Restart(w) PROVE UNCHANGED <<row, task, faults>>
    BY <1>7 DEF ReaperSweep, Restart
<1>8. ASSUME NEW d \in delayed, DelayedPublish(d) PROVE UNCHANGED <<row, task, faults>>
    BY <1>8 DEF DelayedPublish
<1>9. ASSUME NEW w \in Worker, (\E i \in Ids : Deliver(w, i)) \/ PollSweep(w) \/ PollNext(w)
      PROVE  BudgetInv'
    <2>1. UNCHANGED <<row, faults>>
        BY <1>9 DEF Deliver, PollSweep, PollNext
    <2>2. PICK t \in Tid : task[t].pc = "idle" /\ \E k : task' = [task EXCEPT ![t] = k]
        <3>1. <<w, "bus">> \in Tid /\ <<w, "poll">> \in Tid
            BY DEF Tid, Kind
        <3> QED BY <1>0, <1>9, <3>1 DEF Deliver, PollSweep, PollNext
    <2>3. \A j \in Ids : Held(j) => Held(j)'
        BY <2>2, HeldFrame DEF Owns
    <2> QED BY <1>0, <2>1, <2>3, QuietBudget
<1>10. ASSUME NEW w \in Worker, Crash(w) PROVE BudgetInv'
    <2>1. UNCHANGED row /\ faults' = faults + 1
        BY <1>10 DEF Crash
    <2> QED BY <1>0, <2>1, QuietBudget
<1>11. CASE Tick
    <2>1. \A i \in Ids : row'[i].status = row[i].status /\ row'[i].attempts = row[i].attempts
        BY <1>0, <1>11 DEF Tick, AgedRow, Row
    <2>2. \A t \in Tid : Owns(t) => Owns(t)' /\ task'[t].id = task[t].id
        BY <1>0, <1>11 DEF Tick, Owns, Task
    <2>3. \A i \in Ids : Held(i) => Held(i)'
        BY <2>2 DEF Held
    <2>4. UNCHANGED faults
        BY <1>11 DEF Tick
    <2> QED BY <1>0, <2>1, <2>3, <2>4, QuietBudget
<1>12. CASE UNCHANGED vars
    BY <1>5, <1>12 DEF vars
<1> QED BY <1>1, <1>3, <1>4, <1>5, <1>6, <1>7, <1>8, <1>9, <1>10, <1>11, <1>12 DEF Next, ApiStep

\* If every run ends within the lease of its claim, an extraction is run at
\* most job_max_attempts times plus once per crash or database fault.
THEOREM LeaseKeepsBudget ==
    ASSUME RunBudget <= Lease
    PROVE  Spec => []RetryBudget
<1>1. Init => TypeInv /\ LeaseInv /\ BudgetInv
    BY TypeInit, LeaseInit, BudgetInit
<1>2. TypeInv /\ LeaseInv /\ BudgetInv /\ [Next]_vars => TypeInv' /\ LeaseInv' /\ BudgetInv'
    BY TypeStep, LeaseStep, BudgetStep
<1>3. BudgetInv => RetryBudget
    BY DEF BudgetInv, RetryBudget
<1> QED BY <1>1, <1>2, <1>3, PTL DEF Spec

-----------------------------------------------------------------------------
(* The shutdown of the process: in whatever order its tasks die, stop, hang *)
(* and are cancelled, and whenever SIGTERM comes.                           *)

ProcTypeOK ==
    /\ state \in [Tasks -> TaskStates]
    /\ cancelling \subseteq Tasks
    /\ failedFirst \subseteq Tasks
    /\ stopFlag \in BOOLEAN
    /\ observed \subseteq Tasks
    /\ main \in MainPCs

\* From the inspection on, every task has been awaited.
AwaitedInv == main \in {"inspect", "shutdown", "exit_ok", "exit_error"} => \A t \in Tasks : HasEnded(t)

\* A task that raised before anything had asked it to stop stays raised, and it
\* is among the tasks _run looks at once the stop flags are flipped; after that
\* no such task is added.
ReportInv ==
    /\ \A t \in failedFirst : state[t] = "raised"
    /\ main # "wait" => stopFlag /\ failedFirst \subseteq observed
    /\ main = "exit_ok" => observed = {}

\* A cancel finds its task at an await: a task with one on its way does nothing else.
CancelInv == \A t \in cancelling : ~HasEnded(t)

ProcInv == ProcTypeOK /\ AwaitedInv /\ ReportInv /\ CancelInv

LEMMA ProcInvInit == ProcInit => ProcInv
BY DEF ProcInit, ProcInv, ProcTypeOK, AwaitedInv, ReportInv, CancelInv, TaskStates, Awaits, Ended, MainPCs

\* A task that has not ended moves.
LEMMA TaskMoves ==
    ASSUME ProcInv, NEW t \in Tasks, ~HasEnded(t),
           NEW s \in TaskStates, Moves(t, s), cancelling' = cancelling \ {t},
           UNCHANGED <<stopFlag, observed, main>>,
           \/ UNCHANGED failedFirst
           \/ s = "raised" /\ ~stopFlag /\ failedFirst' = failedFirst \cup {t}
    PROVE  ProcInv'
<1>1. state'[t] = s /\ \A u \in Tasks \ {t} : state'[u] = state[u]
    BY DEF ProcInv, ProcTypeOK, Moves
<1>2. ProcTypeOK'
    BY DEF ProcInv, ProcTypeOK, Moves
<1>3. AwaitedInv'
    BY DEF ProcInv, AwaitedInv
<1>4. t \notin failedFirst
    BY DEF ProcInv, ReportInv, HasEnded, Ended
<1>5. ReportInv'
    BY <1>1, <1>4 DEF ProcInv, ReportInv, ProcTypeOK
<1>6. CancelInv'
    BY <1>1 DEF ProcInv, CancelInv, ProcTypeOK, HasEnded
<1> QED BY <1>2, <1>3, <1>5, <1>6 DEF ProcInv

LEMMA ProcInvStep == ProcInv /\ [ProcNext]_procVars => ProcInv'
<1> SUFFICES ASSUME ProcInv, [ProcNext]_procVars PROVE ProcInv'
    OBVIOUS
<1> USE DEF ProcInv
<1>1. ASSUME NEW t \in Tasks, TaskRaises(t) PROVE ProcInv'
    <2>1. ~HasEnded(t) /\ cancelling' = cancelling \ {t} /\ "raised" \in TaskStates
        BY <1>1 DEF TaskRaises, HasEnded, Ended, TaskStates
    <2> QED BY <1>1, <2>1, TaskMoves DEF TaskRaises
<1>2. ASSUME NEW t \in Tasks, TaskStops(t) \/ TaskEnds(t) \/ TaskCancelled(t) PROVE ProcInv'
    <2>1. ~HasEnded(t) /\ cancelling' = cancelling \ {t}
        BY <1>2 DEF TaskStops, TaskEnds, TaskCancelled, HasEnded, Ended, CancelInv
    <2>2. \E s \in TaskStates : Moves(t, s)
        BY <1>2 DEF TaskStops, TaskEnds, TaskCancelled, TaskStates, Awaits, Ended
    <2>3. UNCHANGED <<stopFlag, observed, main, failedFirst>>
        BY <1>2 DEF TaskStops, TaskEnds, TaskCancelled
    <2> QED BY <2>1, <2>2, <2>3, TaskMoves
<1>3. CASE Sigterm
    BY <1>3 DEF Sigterm, ProcTypeOK, AwaitedInv, ReportInv, CancelInv, HasEnded
<1>4. CASE FirstExit
    <2>1. failedFirst \subseteq observed'
        BY <1>4 DEF FirstExit, ProcTypeOK, ReportInv, HasEnded, Ended
    <2> QED BY <1>4, <2>1 DEF FirstExit, ProcTypeOK, AwaitedInv, ReportInv, CancelInv, HasEnded, MainPCs
<1>5. CASE Drained
    BY <1>5 DEF Drained, ProcTypeOK, AwaitedInv, ReportInv, CancelInv, HasEnded, MainPCs
<1>6. CASE GraceOver
    BY <1>6 DEF GraceOver, ProcTypeOK, AwaitedInv, ReportInv, CancelInv, HasEnded, MainPCs
<1>7. CASE Gathered
    BY <1>7 DEF Gathered, ProcTypeOK, AwaitedInv, ReportInv, CancelInv, HasEnded, MainPCs
<1>8. CASE Inspect
    BY <1>8 DEF Inspect, ProcTypeOK, AwaitedInv, ReportInv, CancelInv, HasEnded, MainPCs
<1>9. CASE Shutdown
    BY <1>9 DEF Shutdown, ProcTypeOK, AwaitedInv, ReportInv, CancelInv, HasEnded, MainPCs
<1>10. CASE UNCHANGED procVars
    BY <1>10 DEF procVars, ProcTypeOK, AwaitedInv, ReportInv, CancelInv, HasEnded
<1> QED BY <1>1, <1>2, <1>3, <1>4, <1>5, <1>6, <1>7, <1>8, <1>9, <1>10 DEF ProcNext

LEMMA ProcInvHolds == ProcSpec => []ProcInv
BY ProcInvInit, ProcInvStep, PTL DEF ProcSpec

\* The framework is shut down only when every task of the process has been
\* awaited: also a task that outlived the grace period and was cancelled.
THEOREM FrameworkOutlivesTasks == ProcSpec => []ShutdownAfterTasks
<1>1. ProcInv => ShutdownAfterTasks
    BY DEF ProcInv, AwaitedInv, ShutdownAfterTasks
<1> QED BY <1>1, ProcInvHolds, PTL

\* A process one of whose tasks died before anything had asked it to stop
\* never exits with success, whatever SIGTERM and its siblings do.
THEOREM DeathNeverExitsClean == ProcSpec => []DeathIsReported
<1>1. ProcInv => DeathIsReported
    BY DEF ProcInv, ReportInv, DeathIsReported
<1> QED BY <1>1, ProcInvHolds, PTL
=============================================================================
