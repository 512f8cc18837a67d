---------------------------- MODULE BboxLegProofs -----------------------------
(***************************************************************************)
(* Proofs about the out-of-band grounding leg.                             *)
(*                                                                         *)
(* The worker (BboxRefineWorker), for any number of extractions, workers,  *)
(* attempts and faults, and for any lease: what may happen to a row, and   *)
(* who holds it.                                                           *)
(*                                                                         *)
(* The refiner (BboxRefiner), for any documents, leaves, engines, answers  *)
(* of the model and number of runs: the best answer of any page wins, what *)
(* a run has grounded no later run touches, and the place of a grounded    *)
(* leaf is one that was really read.                                       *)
(***************************************************************************)
EXTENDS BboxRefineWorker, BboxRefiner, PositionLemmas, SequenceTheorems

-----------------------------------------------------------------------------
(* What may happen to a row *)

\* The row mark_succeeded leaves when the refinement was asked for.
AskedRow == MarkSucceeded(MarkRunning(NewRow), TRUE)

\* One UPDATE of a bbox worker turns r into s.
LegMove(r, s) ==
    \/ CanClaimBboxRefinement(r, Lease) /\ s = ClaimBboxRefinement(r)
    \/ /\ BboxLegRunning(r)
       /\ \/ s = CompleteBboxRefinement(r)
          \/ s = RequeueBboxRefinement(r)
          \/ \E c \in LegErrors : s = FailBboxRefinement(r, c)

\* One step of the system turns r into s.
RowMove(r, s) ==
    \/ s = r
    \/ s = AgedRow(r)
    \/ r.status = "absent" /\ s = AskedRow
    \/ LegMove(r, s)

LEMMA ZeroAge == 0 \in Ages
BY MaxAgeAssumption DEF Ages

LEMMA AskedRowType ==
    /\ AskedRow \in Row
    /\ AskedRow.status = "succeeded" /\ AskedRow.bbox = "pending"
    /\ AskedRow.result = "llm" /\ AskedRow.bboxAttempts = 0
<1>1. /\ NewRow \in Row /\ NewRow.bboxAttempts = 0
      /\ NewRow.attempts = 0
    BY ZeroAge DEF NewRow, AbsentRow, Row, Statuses, LegStatuses, Results, Errors, LegErrors
<1> DEFINE n == NewRow.attempts + 1
           q == MarkRunning(NewRow)
<1>2. n \in Nat
    BY <1>1
<1>3. q = [NewRow EXCEPT !.status = "running", !.age = 0, !.attempts = n]
    BY <1>1 DEF MarkRunning, Row
<1> HIDE DEF n
<1>4. q \in Row /\ q.bboxAttempts = 0
    BY ZeroAge, <1>1, <1>2, <1>3 DEF Row, Statuses
<1>5. AskedRow = [q EXCEPT !.status = "succeeded", !.finishedAge = 0, !.result = "llm",
                           !.error = "none", !.bbox = "pending"]
    BY DEF AskedRow, MarkSucceeded
<1> HIDE DEF q
<1> QED BY ZeroAge, <1>4, <1>5 DEF Row, Statuses, LegStatuses, Results, Errors

LEMMA AgedRowFacts ==
    ASSUME NEW r \in Row
    PROVE  /\ AgedRow(r) \in Row
           /\ AgedRow(r).status = r.status /\ AgedRow(r).bbox = r.bbox
           /\ AgedRow(r).result = r.result /\ AgedRow(r).bboxAttempts = r.bboxAttempts
           /\ AgedRow(r).bboxAge = Older(r.bboxAge)
<1>1. \A a \in Ages : Older(a) \in Ages
    BY MaxAgeAssumption DEF Older, Ages
<1> QED BY <1>1 DEF AgedRow, Row

LEMMA ClaimedRowFacts ==
    ASSUME NEW r \in Row
    PROVE  LET s == ClaimBboxRefinement(r) IN
           /\ s \in Row
           /\ s.status = r.status /\ s.bbox = "running" /\ s.result = r.result
           /\ s.bboxAttempts = r.bboxAttempts + 1 /\ s.bboxAge = 0
<1> DEFINE n == r.bboxAttempts + 1
<1>1. n \in Nat
    BY DEF Row
<1>2. ClaimBboxRefinement(r)
        = [r EXCEPT !.bbox = "running", !.bboxStarted = TRUE, !.bboxAge = 0, !.bboxAttempts = n]
    BY DEF ClaimBboxRefinement, Row
<1> HIDE DEF n
<1>3. LET s == ClaimBboxRefinement(r) IN
      /\ s \in Row
      /\ s.status = r.status /\ s.bbox = "running" /\ s.result = r.result
      /\ s.bboxAttempts = n /\ s.bboxAge = 0
    BY ZeroAge, <1>1, <1>2 DEF Row, LegStatuses
<1> QED BY <1>3 DEF n

\* The three updates that end a run of the leg.
LEMMA EndedRowFacts ==
    ASSUME NEW r \in Row, NEW c \in LegErrors
    PROVE  /\ CompleteBboxRefinement(r) \in Row
           /\ CompleteBboxRefinement(r).status = r.status
           /\ CompleteBboxRefinement(r).bbox = "succeeded"
           /\ CompleteBboxRefinement(r).result = "grounded"
           /\ CompleteBboxRefinement(r).bboxAttempts = r.bboxAttempts
           /\ RequeueBboxRefinement(r) \in Row
           /\ RequeueBboxRefinement(r).status = r.status
           /\ RequeueBboxRefinement(r).bbox = "pending"
           /\ RequeueBboxRefinement(r).result = r.result
           /\ RequeueBboxRefinement(r).bboxAttempts = r.bboxAttempts
           /\ FailBboxRefinement(r, c) \in Row
           /\ FailBboxRefinement(r, c).status = r.status
           /\ FailBboxRefinement(r, c).bbox = "failed"
           /\ FailBboxRefinement(r, c).result = r.result
           /\ FailBboxRefinement(r, c).bboxAttempts = r.bboxAttempts
BY DEF CompleteBboxRefinement, RequeueBboxRefinement, FailBboxRefinement, Row, LegStatuses,
   Results, LegErrors

\* A leg exists only for a succeeded extraction, and its result is grounded
\* exactly when it has succeeded.
SoundRow(r) ==
    /\ r.bbox # "null" => r.status = "succeeded"
    /\ r.result = "grounded" <=> r.bbox = "succeeded"

LEMMA RowMoves ==
    ASSUME NEW r \in Row, SoundRow(r), NEW s, RowMove(r, s)
    PROVE  /\ s \in Row /\ SoundRow(s)
           /\ r.bbox \in LegTerminal => s.bbox = r.bbox
<1>1. CASE s = r
    BY <1>1
<1>2. CASE s = AgedRow(r)
    BY <1>2, AgedRowFacts DEF SoundRow
<1>3. CASE r.status = "absent" /\ s = AskedRow
    BY <1>3, AskedRowType DEF SoundRow, LegTerminal
<1>4. CASE CanClaimBboxRefinement(r, Lease) /\ s = ClaimBboxRefinement(r)
    BY <1>4, ClaimedRowFacts
       DEF SoundRow, CanClaimBboxRefinement, IsStaleBboxRefining, LegTerminal
<1>5. ASSUME BboxLegRunning(r), NEW c \in LegErrors,
             \/ s = CompleteBboxRefinement(r)
             \/ s = RequeueBboxRefinement(r)
             \/ s = FailBboxRefinement(r, c)
      PROVE  /\ s \in Row /\ SoundRow(s)
             /\ r.bbox \in LegTerminal => s.bbox = r.bbox
    BY <1>5, EndedRowFacts DEF SoundRow, BboxLegRunning, LegTerminal
<1>6. "none" \in LegErrors
    BY DEF LegErrors
<1> QED BY <1>1, <1>2, <1>3, <1>4, <1>5, <1>6 DEF RowMove, LegMove

-----------------------------------------------------------------------------
(* Type correctness *)

TypeOK ==
    /\ row \in [Ids -> Row]
    /\ announce \subseteq Ids /\ refineBus \subseteq Ids
    /\ task \in [Worker -> Task]
    /\ delayed \subseteq Delayed
    /\ up \in [Worker -> BOOLEAN]
    /\ hooks \in [Ids -> Nat]
    /\ faults \in 0 .. MaxFaults
    /\ overran \in BOOLEAN

\* A task inside _process works on an extraction.
BusyHasId == \A w \in Worker : task[w].pc # "idle" => task[w].id \in Ids

TypeInv == TypeOK /\ BusyHasId /\ \A i \in Ids : SoundRow(row[i])

LEMMA ZeroElapsed == 0 \in 0 .. RunBudget
BY BboxAssumption

LEMMA IdleTaskType == IdleTask \in Task /\ IdleTask.pc = "idle"
BY ZeroElapsed DEF IdleTask, Task, PCs

LEMMA TypeInit == Init => TypeInv
<1> SUFFICES ASSUME Init PROVE TypeInv
    OBVIOUS
<1>1. AbsentRow \in Row
    BY ZeroAge DEF AbsentRow, Row, Statuses, LegStatuses, Results, Errors, LegErrors
<1>2. TypeOK
    <2>1. 0 \in 0 .. MaxFaults
        BY BboxAssumption
    <2> QED BY <1>1, <2>1, IdleTaskType DEF Init, TypeOK
<1>3. BusyHasId
    BY IdleTaskType DEF Init, BusyHasId
<1>4. \A i \in Ids : SoundRow(row[i])
    BY DEF Init, SoundRow, AbsentRow
<1> QED BY <1>2, <1>3, <1>4 DEF TypeInv

\* One step of the whole table.
RowsMove ==
    /\ row' = [i \in Ids |-> row'[i]]
    /\ \A i \in Ids : RowMove(row[i], row'[i])

\* A task that is replaced by a well-formed task keeps the tasks well-formed.
LEMMA TaskUpdate ==
    ASSUME TypeInv, NEW w \in Worker, NEW k \in Task,
           k.pc # "idle" => k.id \in Ids,
           task' = [task EXCEPT ![w] = k]
    PROVE  task' \in [Worker -> Task] /\ BusyHasId'
BY DEF TypeInv, TypeOK, BusyHasId

\* What a step of a worker's task does to the table: nothing, or one UPDATE of
\* the row it works on.
LEMMA ProcessRow ==
    ASSUME TypeInv, NEW w \in Worker, ProcessStep(w)
    PROVE  \/ UNCHANGED row
           \/ /\ task[w].id \in Ids
              /\ \E s : LegMove(row[task[w].id], s) /\ row' = [row EXCEPT ![task[w].id] = s]
<1> DEFINE i == task[w].id
<1>0. row \in [Ids -> Row] /\ (task[w].pc # "idle" => i \in Ids)
    BY DEF TypeInv, TypeOK, BusyHasId
<1>1. CASE ClaimWins(w)
    BY <1>0, <1>1 DEF ClaimWins, LegMove
<1>2. CASE CompleteWins(w) \/ CompleteReplyLost(w)
    BY <1>0, <1>2 DEF CompleteWins, CompleteReplyLost, CanCompleteBboxRefinement, LegMove
<1>3. CASE FailWins(w)
    <2>1. ErrorCode(w) \in LegErrors
        BY DEF ErrorCode, LegErrors
    <2> QED BY <1>0, <1>3, <2>1 DEF FailWins, CanFailBboxRefinement, LegMove
<1>4. CASE RequeueWins(w)
    BY <1>0, <1>4 DEF RequeueWins, CanRequeueBboxRefinement, LegMove
<1>5. CASE \/ ClaimLoses(w) \/ RefineRaises(w) \/ CompleteLoses(w) \/ Notify(w) \/ NotifyRaises(w)
           \/ FailLoses(w) \/ RequeueLoses(w) \/ Escapes(w)
    BY <1>5 DEF ClaimLoses, RefineRaises, CompleteLoses, Notify, NotifyRaises, FailLoses,
       RequeueLoses, Escapes
<1> QED BY <1>1, <1>2, <1>3, <1>4, <1>5 DEF ProcessStep

\* What a step of a worker's task does to that task.
LEMMA ProcessTask ==
    ASSUME TypeInv, NEW w \in Worker, ProcessStep(w)
    PROVE  \E k \in Task : /\ task' = [task EXCEPT ![w] = k]
                           /\ k.pc # "idle" => k.id = task[w].id /\ k.id \in Ids
<1> DEFINE i == task[w].id
<1>0. /\ row \in [Ids -> Row] /\ task \in [Worker -> Task] /\ task[w] \in Task
      /\ task[w].pc # "idle" => i \in Ids
    BY DEF TypeInv, TypeOK, BusyHasId
<1>1. CASE ClaimWins(w)
    <2> DEFINE n == row[i].bboxAttempts + 1
               k == [task[w] EXCEPT !.pc = "refine", !.attempts = n]
    <2>1. i \in Ids /\ n \in Nat
        BY <1>0, <1>1 DEF ClaimWins, Row
    <2>2. task' = [task EXCEPT ![w] = k]
        BY <1>0, <1>1 DEF ClaimWins
    <2> HIDE DEF n
    <2>3. k \in Task /\ k.id = i
        BY <1>0, <2>1 DEF Task, PCs
    <2> QED BY <2>1, <2>2, <2>3
<1>2. CASE RefineRaises(w) \/ NotifyRaises(w)
    <2>1. PICK p \in BOOLEAN : task' = [task EXCEPT ![w].pc = "except", ![w].permanent = p]
        BY <1>2 DEF RefineRaises, NotifyRaises
    <2> DEFINE k == [task[w] EXCEPT !.pc = "except", !.permanent = p]
    <2>2. task' = [task EXCEPT ![w] = k] /\ i \in Ids
        BY <1>0, <1>2, <2>1 DEF RefineRaises, NotifyRaises
    <2>3. k \in Task /\ k.id = i
        BY <1>0 DEF Task, PCs
    <2> QED BY <2>2, <2>3
<1>3. CASE CompleteWins(w)
    <2> DEFINE k == [task[w] EXCEPT !.pc = "webhook", !.finalised = TRUE, !.elapsed = 0]
    <2>1. task' = [task EXCEPT ![w] = k] /\ i \in Ids
        BY <1>0, <1>3 DEF CompleteWins
    <2>2. k \in Task /\ k.id = i
        BY <1>0, ZeroElapsed DEF Task, PCs
    <2> QED BY <2>1, <2>2
<1>4. CASE CompleteReplyLost(w)
    <2>1. PICK p \in BOOLEAN :
             task' = [task EXCEPT ![w].pc = "except", ![w].permanent = p,
                                  ![w].finalised = TRUE, ![w].elapsed = 0]
        BY <1>4 DEF CompleteReplyLost
    <2> DEFINE k == [task[w] EXCEPT !.pc = "except", !.permanent = p,
                                    !.finalised = TRUE, !.elapsed = 0]
    <2>2. task' = [task EXCEPT ![w] = k] /\ i \in Ids
        BY <1>0, <1>4, <2>1 DEF CompleteReplyLost
    <2>3. k \in Task /\ k.id = i
        BY <1>0, ZeroElapsed DEF Task, PCs
    <2> QED BY <2>2, <2>3
<1>5. CASE \/ ClaimLoses(w) \/ CompleteLoses(w) \/ Notify(w) \/ FailWins(w) \/ FailLoses(w)
           \/ RequeueWins(w) \/ RequeueLoses(w) \/ Escapes(w)
    <2>1. task' = [task EXCEPT ![w] = IdleTask]
        BY <1>5 DEF ClaimLoses, CompleteLoses, Notify, FailWins, FailLoses, RequeueWins,
           RequeueLoses, Escapes
    <2> QED BY <2>1, IdleTaskType
<1> QED BY <1>1, <1>2, <1>3, <1>4, <1>5 DEF ProcessStep

\* Every step moves every row by one of the moves.
LEMMA StepRows ==
    ASSUME TypeInv, [Next]_vars
    PROVE  RowsMove
<1>0. row \in [Ids -> Row]
    BY DEF TypeInv, TypeOK
<1>1. ASSUME UNCHANGED row PROVE RowsMove
    BY <1>0, <1>1 DEF RowsMove, RowMove
<1>2. ASSUME NEW w \in Worker, ProcessStep(w) PROVE RowsMove
    BY <1>0, <1>1, <1>2, ProcessRow DEF RowsMove, RowMove
<1>3. ASSUME NEW i \in Ids, MainSucceeds(i) PROVE RowsMove
    BY <1>0, <1>3 DEF MainSucceeds, AskedRow, RowsMove, RowMove
<1>4. CASE Tick
    BY <1>0, <1>4 DEF Tick, RowsMove, RowMove
<1>5. ASSUME NEW i \in Ids, Announce(i) \/ AnnounceFails(i) \/ Lose(i) PROVE UNCHANGED row
    BY <1>5 DEF Announce, AnnounceFails, Lose
<1>6. ASSUME NEW w \in Worker,
             (\E i \in Ids : Deliver(w, i)) \/ ReaperSweep(w) \/ Crash(w) \/ Restart(w)
      PROVE  UNCHANGED row
    BY <1>6 DEF Deliver, ReaperSweep, Crash, Restart
<1>7. ASSUME NEW d \in delayed, DelayedPublish(d) PROVE UNCHANGED row
    BY <1>7 DEF DelayedPublish
<1>8. UNCHANGED vars => UNCHANGED row
    BY DEF vars
<1> QED BY <1>1, <1>2, <1>3, <1>4, <1>5, <1>6, <1>7, <1>8 DEF Next, MainStep

LEMMA RowsStep ==
    ASSUME TypeInv, RowsMove
    PROVE  /\ row' \in [Ids -> Row]
           /\ \A i \in Ids : SoundRow(row'[i])
           /\ \A i \in Ids : row[i].bbox \in LegTerminal => row'[i].bbox = row[i].bbox
BY RowMoves DEF TypeInv, TypeOK, RowsMove

LEMMA TypeStep == TypeInv /\ [Next]_vars => TypeInv'
<1> SUFFICES ASSUME TypeInv, [Next]_vars PROVE TypeInv'
    OBVIOUS
<1>0. /\ row \in [Ids -> Row] /\ announce \subseteq Ids /\ refineBus \subseteq Ids
      /\ task \in [Worker -> Task] /\ delayed \subseteq Delayed /\ up \in [Worker -> BOOLEAN]
      /\ hooks \in [Ids -> Nat] /\ faults \in 0 .. MaxFaults /\ overran \in BOOLEAN
      /\ BusyHasId
    BY DEF TypeInv, TypeOK
<1>1. row' \in [Ids -> Row] /\ \A i \in Ids : SoundRow(row'[i])
    BY StepRows, RowsStep
<1> SUFFICES /\ announce' \subseteq Ids /\ refineBus' \subseteq Ids
             /\ task' \in [Worker -> Task] /\ BusyHasId'
             /\ delayed' \subseteq Delayed /\ up' \in [Worker -> BOOLEAN]
             /\ hooks' \in [Ids -> Nat] /\ faults' \in 0 .. MaxFaults /\ overran' \in BOOLEAN
    BY <1>1 DEF TypeInv, TypeOK
<1>2. UNCHANGED task => BusyHasId'
    BY <1>0 DEF BusyHasId
<1>3. ASSUME NEW i \in Ids, MainStep(i) \/ Lose(i)
      PROVE  UNCHANGED <<task, delayed, up, hooks, faults, overran>>
             /\ announce' \subseteq Ids /\ refineBus' \subseteq Ids
    BY <1>0, <1>3 DEF MainStep, MainSucceeds, Announce, AnnounceFails, Lose
<1>4. ASSUME NEW w \in Worker, NEW i \in Ids, Deliver(w, i)
      PROVE  /\ UNCHANGED <<announce, delayed, up, hooks, faults, overran>>
             /\ refineBus' \subseteq Ids
             /\ task' \in [Worker -> Task] /\ BusyHasId'
    <2> DEFINE k == [IdleTask EXCEPT !.pc = "claim", !.id = i]
    <2>1. k \in Task /\ k.id = i
        BY IdleTaskType DEF Task, PCs
    <2>2. task' = [task EXCEPT ![w] = k]
        BY <1>4 DEF Deliver
    <2> HIDE DEF k
    <2>3. task' \in [Worker -> Task] /\ BusyHasId'
        BY <2>1, <2>2, TaskUpdate
    <2> QED BY <1>0, <1>4, <2>3 DEF Deliver
<1>5. ASSUME NEW w \in Worker, ProcessStep(w)
      PROVE  /\ UNCHANGED <<announce, refineBus, up, overran>>
             /\ task' \in [Worker -> Task] /\ BusyHasId'
             /\ delayed' \subseteq Delayed
             /\ hooks' \in [Ids -> Nat] /\ faults' \in 0 .. MaxFaults
    <2>1. task' \in [Worker -> Task] /\ BusyHasId'
        <3>1. PICK k \in Task : /\ task' = [task EXCEPT ![w] = k]
                                /\ k.pc # "idle" => k.id = task[w].id /\ k.id \in Ids
            BY <1>5, ProcessTask
        <3> QED BY <3>1, TaskUpdate
    <2>2. CASE RequeueWins(w)
        <3>1. task[w].id \in Ids
            BY <1>0, <2>2 DEF RequeueWins, BusyHasId
        <3>2. delayed' \subseteq Delayed
            BY <1>0, <2>2, <3>1 DEF RequeueWins, BackoffDelays, Delayed
        <3> QED BY <1>0, <2>1, <2>2, <3>2 DEF RequeueWins
    <2>3. CASE Notify(w) \/ NotifyRaises(w)
        <3>1. task[w].id \in Ids
            BY <1>0, <2>3 DEF Notify, NotifyRaises, BusyHasId
        <3>2. hooks' \in [Ids -> Nat]
            BY <1>0, <2>3, <3>1 DEF Notify, NotifyRaises, Notified
        <3> QED BY <1>0, <2>1, <2>3, <3>2 DEF Notify, NotifyRaises
    <2>4. CASE CompleteReplyLost(w) \/ Escapes(w)
        <3>1. faults' = faults + 1 /\ faults < MaxFaults
            BY <2>4 DEF CompleteReplyLost, Escapes
        <3>2. faults' \in 0 .. MaxFaults
            BY <1>0, <3>1, BboxAssumption
        <3> QED BY <1>0, <2>1, <2>4, <3>2 DEF CompleteReplyLost, Escapes
    <2>5. CASE \/ ClaimWins(w) \/ ClaimLoses(w) \/ RefineRaises(w) \/ CompleteWins(w)
               \/ CompleteLoses(w) \/ FailWins(w) \/ FailLoses(w) \/ RequeueLoses(w)
        BY <1>0, <2>1, <2>5 DEF ClaimWins, ClaimLoses, RefineRaises, CompleteWins, CompleteLoses,
           FailWins, FailLoses, RequeueLoses
    <2> QED BY <1>5, <2>2, <2>3, <2>4, <2>5 DEF ProcessStep
<1>6. ASSUME NEW w \in Worker, ReaperSweep(w) \/ Restart(w)
      PROVE  /\ UNCHANGED <<announce, task, delayed, hooks, faults, overran>>
             /\ refineBus' \subseteq Ids /\ up' \in [Worker -> BOOLEAN]
    BY <1>0, <1>6 DEF ReaperSweep, Orphans, Restart
<1>7. ASSUME NEW w \in Worker, Crash(w)
      PROVE  /\ UNCHANGED <<announce, refineBus, hooks, overran>>
             /\ task' \in [Worker -> Task] /\ BusyHasId'
             /\ delayed' \subseteq Delayed
             /\ up' \in [Worker -> BOOLEAN] /\ faults' \in 0 .. MaxFaults
    <2>1. task' \in [Worker -> Task] /\ BusyHasId'
        BY <1>7, IdleTaskType, TaskUpdate DEF Crash
    <2> QED BY <1>0, <1>7, <2>1, BboxAssumption DEF Crash
<1>8. ASSUME NEW d \in delayed, DelayedPublish(d)
      PROVE  /\ UNCHANGED <<announce, task, up, hooks, faults, overran>>
             /\ delayed' \subseteq Delayed /\ refineBus' \subseteq Ids
    BY <1>0, <1>8 DEF DelayedPublish, Delayed
<1>9. CASE Tick
    <2>1. delayed' \subseteq Delayed
        <3>1. \A d \in delayed : [d EXCEPT !.left = IF @ = 0 THEN 0 ELSE @ - 1] \in Delayed
            BY <1>0, RetryAssumption DEF Delayed
        <3> QED BY <1>9, <3>1 DEF Tick
    <2>2. ASSUME NEW w \in Worker
          PROVE  task'[w] \in Task /\ task'[w].pc = task[w].pc /\ task'[w].id = task[w].id
        <3>1. CASE ~Owns(w)
            BY <1>0, <1>9, <3>1 DEF Tick
        <3>2. CASE Owns(w)
            <4> DEFINE n == task[w].elapsed + 1
            <4>1. task'[w] = [task[w] EXCEPT !.elapsed = n]
                BY <1>0, <1>9, <3>2 DEF Tick, Task
            <4>2. n \in 0 .. RunBudget
                BY <1>0, <1>9, <3>2, BboxAssumption DEF Tick, Task
            <4> HIDE DEF n
            <4> QED BY <1>0, <4>1, <4>2 DEF Task
        <3> QED BY <3>1, <3>2
    <2>3. task' \in [Worker -> Task] /\ BusyHasId'
        BY <1>0, <1>9, <2>2 DEF Tick, BusyHasId
    <2> QED BY <1>0, <1>9, <2>1, <2>3 DEF Tick
<1>10. CASE UNCHANGED vars
    BY <1>0, <1>2, <1>10 DEF vars
<1> QED BY <1>0, <1>2, <1>3, <1>4, <1>5, <1>6, <1>7, <1>8, <1>9, <1>10 DEF Next

\* Whatever is lost, repeated, retried, stalled or killed, the stored result
\* of an extraction is the grounded one exactly when its leg says succeeded.
THEOREM GroundedExactlyWhenSucceeded == Spec => []GroundedIffLegSucceeded
<1>1. Init => TypeInv
    BY TypeInit
<1>2. TypeInv /\ [Next]_vars => TypeInv'
    BY TypeStep
<1>3. TypeInv => GroundedIffLegSucceeded
    BY DEF TypeInv, SoundRow, GroundedIffLegSucceeded
<1> QED BY <1>1, <1>2, <1>3, PTL DEF Spec

-----------------------------------------------------------------------------
(* The post-processing webhook is started at most once *)

\* A task that has completed the leg and is about to call _fire_webhook is the
\* only one for its extraction, and nothing has been sent yet.
NotifierInv ==
    /\ \A w \in Worker : task[w].pc = "webhook" =>
          row[task[w].id].bbox = "succeeded" /\ hooks[task[w].id] = 0
    /\ \A v, w \in Worker :
          task[v].pc = "webhook" /\ task[w].pc = "webhook" /\ task[v].id = task[w].id => v = w

HookInv == NotifierInv /\ PostProcessingWebhookOnce

LEMMA HookInit == Init => HookInv
BY IdleTaskType DEF Init, HookInv, NotifierInv, PostProcessingWebhookOnce

\* A step that starts no webhook and makes no task a notifier.
LEMMA QuietHooks ==
    ASSUME TypeInv, HookInv, RowsMove, UNCHANGED hooks,
           \A w \in Worker : task'[w].pc = "webhook" => task[w].pc = "webhook"
                                                        /\ task'[w].id = task[w].id
    PROVE  HookInv'
<1>1. \A i \in Ids : row[i].bbox = "succeeded" => row'[i].bbox = "succeeded"
    BY RowsStep DEF LegTerminal
<1>2. \A w \in Worker : task[w].pc = "webhook" => task[w].id \in Ids
    BY DEF TypeInv, BusyHasId
<1>3. NotifierInv'
    BY <1>1, <1>2 DEF HookInv, NotifierInv
<1>4. PostProcessingWebhookOnce'
    BY <1>1 DEF HookInv, PostProcessingWebhookOnce
<1> QED BY <1>3, <1>4 DEF HookInv

\* Notify and NotifyRaises: the notifier sends its webhook and stops being one.
LEMMA SendingHooks ==
    ASSUME TypeInv, HookInv, UNCHANGED row, NEW w \in Worker, task[w].pc = "webhook",
           hooks' = Notified(task[w].id),
           NEW k, task' = [task EXCEPT ![w] = k], k.pc # "webhook"
    PROVE  HookInv'
<1> DEFINE i == task[w].id
<1>0. task \in [Worker -> Task] /\ hooks \in [Ids -> Nat]
    BY DEF TypeInv, TypeOK
<1>1. i \in Ids /\ hooks[i] = 0 /\ row[i].bbox = "succeeded"
    BY DEF TypeInv, BusyHasId, HookInv, NotifierInv
<1>2. task'[w] = k /\ \A v \in Worker \ {w} : task'[v] = task[v]
    BY <1>0
<1>3. \A v \in Worker \ {w} : task[v].pc = "webhook" => task[v].id # i /\ task[v].id \in Ids
    BY DEF HookInv, NotifierInv, TypeInv, BusyHasId
<1>4. (\A j \in Ids \ {i} : hooks'[j] = hooks[j]) /\ hooks'[i] \in {0, 1}
    BY <1>0, <1>1 DEF Notified
<1>5. NotifierInv'
    BY <1>2, <1>3, <1>4 DEF HookInv, NotifierInv
<1>6. PostProcessingWebhookOnce'
    BY <1>1, <1>4 DEF HookInv, PostProcessingWebhookOnce
<1> QED BY <1>5, <1>6 DEF HookInv

\* CompleteWins: only one worker can end a leg that is running.
LEMMA CompletingHooks ==
    ASSUME TypeInv, HookInv, NEW w \in Worker, CompleteWins(w)
    PROVE  HookInv'
<1> DEFINE i == task[w].id
           k == [task[w] EXCEPT !.pc = "webhook", !.finalised = TRUE, !.elapsed = 0]
<1>0. task \in [Worker -> Task] /\ task[w] \in Task /\ row \in [Ids -> Row] /\ hooks \in [Ids -> Nat]
    BY DEF TypeInv, TypeOK
<1>1. i \in Ids /\ row[i].bbox = "running" /\ UNCHANGED hooks
    BY DEF CompleteWins, CanCompleteBboxRefinement, BboxLegRunning, TypeInv, BusyHasId
<1>2. hooks[i] = 0
    BY <1>0, <1>1 DEF HookInv, PostProcessingWebhookOnce
<1>3. task' = [task EXCEPT ![w] = k] /\ k.pc = "webhook" /\ k.id = i
    BY <1>0 DEF CompleteWins, Task
<1> HIDE DEF k
<1>4. task'[w] = k /\ \A v \in Worker \ {w} : task'[v] = task[v]
    BY <1>0, <1>3
<1>5. row'[i].bbox = "succeeded" /\ \A j \in Ids \ {i} : row'[j] = row[j]
    BY <1>0, <1>1, EndedRowFacts DEF CompleteWins, LegErrors
<1>6. \A v \in Worker \ {w} : task[v].pc = "webhook" => task[v].id # i /\ task[v].id \in Ids
    BY <1>1 DEF HookInv, NotifierInv, TypeInv, BusyHasId
<1>7. NotifierInv'
    BY <1>1, <1>2, <1>3, <1>4, <1>5, <1>6 DEF HookInv, NotifierInv
<1>8. PostProcessingWebhookOnce'
    BY <1>1, <1>5 DEF HookInv, PostProcessingWebhookOnce
<1> QED BY <1>7, <1>8 DEF HookInv

LEMMA HookStep ==
    ASSUME TypeInv, HookInv, [Next]_vars
    PROVE  HookInv'
<1>0. task \in [Worker -> Task] /\ RowsMove
    BY StepRows DEF TypeInv, TypeOK
<1>1. ASSUME NEW w \in Worker, CompleteWins(w) PROVE HookInv'
    BY <1>1, CompletingHooks
<1>2. ASSUME NEW w \in Worker, Notify(w) PROVE HookInv'
    BY <1>2, IdleTaskType, SendingHooks DEF Notify
<1>3. ASSUME NEW w \in Worker, NotifyRaises(w) PROVE HookInv'
    <2>1. PICK p \in BOOLEAN : task' = [task EXCEPT ![w].pc = "except", ![w].permanent = p]
        BY <1>3 DEF NotifyRaises
    <2> DEFINE k == [task[w] EXCEPT !.pc = "except", !.permanent = p]
    <2>2. task' = [task EXCEPT ![w] = k] /\ k.pc # "webhook"
        BY <1>0, <2>1 DEF Task
    <2> HIDE DEF k
    <2> QED BY <1>3, <2>2, SendingHooks DEF NotifyRaises
<1>4. ASSUME NEW w \in Worker, ProcessStep(w), ~CompleteWins(w), ~Notify(w), ~NotifyRaises(w)
      PROVE  HookInv'
    <2>1. UNCHANGED hooks
        BY <1>4 DEF ProcessStep, ClaimWins, ClaimLoses, RefineRaises, CompleteReplyLost,
           CompleteLoses, FailWins, FailLoses, RequeueWins, RequeueLoses, Escapes
    <2>2. \A v \in Worker \ {w} : task'[v] = task[v]
        BY <1>0, <1>4, ProcessTask
    <2>3. task'[w].pc # "webhook"
        <3>1. CASE ClaimWins(w)
            BY <1>0, <3>1 DEF ClaimWins, Task
        <3>2. CASE RefineRaises(w)
            <4>1. PICK p \in BOOLEAN : task' = [task EXCEPT ![w].pc = "except", ![w].permanent = p]
                BY <3>2 DEF RefineRaises
            <4> QED BY <1>0, <4>1 DEF Task
        <3>3. CASE CompleteReplyLost(w)
            <4>1. PICK p \in BOOLEAN :
                     task' = [task EXCEPT ![w].pc = "except", ![w].permanent = p,
                                          ![w].finalised = TRUE, ![w].elapsed = 0]
                BY <3>3 DEF CompleteReplyLost
            <4> QED BY <1>0, <4>1 DEF Task
        <3>4. CASE \/ ClaimLoses(w) \/ CompleteLoses(w) \/ FailWins(w) \/ FailLoses(w)
                   \/ RequeueWins(w) \/ RequeueLoses(w) \/ Escapes(w)
            BY <1>0, <3>4, IdleTaskType DEF ClaimLoses, CompleteLoses, FailWins, FailLoses,
               RequeueWins, RequeueLoses, Escapes
        <3> QED BY <1>4, <3>1, <3>2, <3>3, <3>4 DEF ProcessStep
    <2> QED BY <1>0, <2>1, <2>2, <2>3, QuietHooks
<1>5. ASSUME NEW w \in Worker, NEW i \in Ids, Deliver(w, i) PROVE HookInv'
    <2>1. UNCHANGED hooks /\ \A v \in Worker : task'[v] = task[v] \/ task'[v].pc = "claim"
        BY <1>0, <1>5 DEF Deliver, IdleTask
    <2> QED BY <1>0, <2>1, QuietHooks
<1>6. ASSUME NEW w \in Worker, Crash(w) PROVE HookInv'
    <2>1. UNCHANGED hooks /\ \A v \in Worker : task'[v] = task[v] \/ task'[v].pc = "idle"
        BY <1>0, <1>6, IdleTaskType DEF Crash
    <2> QED BY <1>0, <2>1, QuietHooks
<1>7. CASE Tick
    <2>1. UNCHANGED hooks /\ \A v \in Worker : task'[v].pc = task[v].pc /\ task'[v].id = task[v].id
        BY <1>0, <1>7 DEF Tick, Task
    <2> QED BY <1>0, <2>1, QuietHooks
<1>8. UNCHANGED <<hooks, task>> => HookInv'
    BY <1>0, QuietHooks
<1>9. ASSUME NEW i \in Ids, MainStep(i) \/ Lose(i) PROVE UNCHANGED <<hooks, task>>
    BY <1>9 DEF MainStep, MainSucceeds, Announce, AnnounceFails, Lose
<1>10. ASSUME NEW w \in Worker, ReaperSweep(w) \/ Restart(w) PROVE UNCHANGED <<hooks, task>>
    BY <1>10 DEF ReaperSweep, Restart
<1>11. ASSUME NEW d \in delayed, DelayedPublish(d) PROVE UNCHANGED <<hooks, task>>
    BY <1>11 DEF DelayedPublish
<1>12. UNCHANGED vars => UNCHANGED <<hooks, task>>
    BY DEF vars
<1> QED BY <1>1, <1>2, <1>3, <1>4, <1>5, <1>6, <1>7, <1>8, <1>9, <1>10, <1>11, <1>12 DEF Next

\* Over every redelivery, stall, take-over, retry and crash, one extraction
\* has at most one post_processing.completed webhook, for a leg that succeeded.
THEOREM LegWebhookOnce == Spec => []PostProcessingWebhookOnce
<1>1. Init => TypeInv /\ HookInv
    BY TypeInit, HookInit
<1>2. TypeInv /\ HookInv /\ [Next]_vars => TypeInv' /\ HookInv'
    BY TypeStep, HookStep
<1> QED BY <1>1, <1>2, PTL DEF Spec, HookInv

-----------------------------------------------------------------------------
(* The lease *)

\* A task outside the try block holds nothing; one past its final UPDATE works
\* on a leg that is settled.
ShapeInv ==
    \A w \in Worker :
        /\ task[w].pc \in {"idle", "claim"} => ~task[w].finalised /\ task[w].elapsed = 0
        /\ task[w].pc = "webhook" => task[w].finalised
        /\ task[w].finalised => /\ task[w].id \in Ids
                                /\ row[task[w].id].bbox \in LegTerminal

\* As long as no run has outlived its lease, the leg of an owner is running on
\* the owner's attempt, the age of the claim is the time the owner has held it,
\* and that time is within the lease.
OwnerInv ==
    \A w \in Worker : Owns(w) =>
        /\ row[task[w].id].bbox = "running"
        /\ row[task[w].id].bboxAttempts = task[w].attempts
        /\ row[task[w].id].bboxAge = task[w].elapsed
        /\ task[w].elapsed <= Lease

OneOwner == \A v, w \in Worker : Owns(v) /\ Owns(w) /\ task[v].id = task[w].id => v = w

LeaseInv == ShapeInv /\ (~overran => OwnerInv /\ OneOwner)
LEMMA LeaseInit == Init => LeaseInv
BY DEF Init, LeaseInv, ShapeInv, OwnerInv, OneOwner, Owns, IdleTask

\* The task record k is one that owns nothing.
Unowning(k) ==
    /\ k.pc \in {"refine", "except"} => k.finalised
    /\ k.pc \in {"idle", "claim"} => ~k.finalised /\ k.elapsed = 0
    /\ k.pc = "webhook" => k.finalised

LEMMA IdleUnowning == Unowning(IdleTask) /\ ~IdleTask.finalised
BY DEF Unowning, IdleTask

\* A step after which task w owns nothing, and which changes no row but the
\* one w owned.
LEMMA ReleaseStep ==
    ASSUME TypeInv, LeaseInv, RowsMove, UNCHANGED overran, NEW w \in Worker,
           NEW k, task' = [task EXCEPT ![w] = k], Unowning(k),
           k.finalised => k.id \in Ids /\ row'[k.id].bbox \in LegTerminal,
           \A i \in Ids : row'[i] = row[i] \/ (Owns(w) /\ task[w].id = i)
    PROVE  LeaseInv'
<1>0. task \in [Worker -> Task] /\ \A v \in Worker : Owns(v) => task[v].id \in Ids
    BY DEF TypeInv, TypeOK, BusyHasId, Owns
<1>1. task'[w] = k /\ \A v \in Worker \ {w} : task'[v] = task[v]
    BY <1>0
<1>2. ~Owns(w)' /\ \A v \in Worker \ {w} : Owns(v)' <=> Owns(v)
    BY <1>1 DEF Owns, Unowning
<1>3. ShapeInv'
    BY <1>1, RowsStep DEF LeaseInv, ShapeInv, Unowning
<1>4. ASSUME ~overran PROVE OwnerInv' /\ OneOwner'
    <2>1. OwnerInv /\ OneOwner
        BY <1>4 DEF LeaseInv
    <2>2. \A v \in Worker \ {w} : Owns(v) => row'[task[v].id] = row[task[v].id]
        BY <1>0, <2>1 DEF OneOwner
    <2>3. OwnerInv'
        BY <1>1, <1>2, <2>1, <2>2 DEF OwnerInv
    <2>4. OneOwner'
        BY <1>1, <1>2, <2>1 DEF OneOwner
    <2> QED BY <2>3, <2>4
<1> QED BY <1>3, <1>4 DEF LeaseInv

\* A step that moves no task and changes no row of a leg that is running.
LEMMA QuietLease ==
    ASSUME TypeInv, LeaseInv, RowsMove, UNCHANGED <<task, overran>>,
           \A i \in Ids : row'[i] = row[i] \/ row[i].bbox # "running"
    PROVE  LeaseInv'
<1>0. \A v \in Worker : (Owns(v) => task[v].id \in Ids) /\ (Owns(v)' <=> Owns(v))
    BY DEF TypeInv, TypeOK, BusyHasId, Owns
<1>1. ShapeInv'
    BY RowsStep DEF LeaseInv, ShapeInv
<1>2. ASSUME ~overran PROVE OwnerInv' /\ OneOwner'
    <2>1. OwnerInv /\ OneOwner
        BY <1>2 DEF LeaseInv
    <2>2. \A v \in Worker : Owns(v) => row'[task[v].id] = row[task[v].id]
        BY <1>0, <2>1 DEF OwnerInv
    <2> QED BY <1>0, <2>1, <2>2 DEF OwnerInv, OneOwner
<1> QED BY <1>1, <1>2 DEF LeaseInv

\* The claim: within the lease, nobody owns a leg that the claim matches.
LEMMA ClaimLease ==
    ASSUME TypeInv, LeaseInv, RowsMove, NEW w \in Worker, ClaimWins(w)
    PROVE  LeaseInv'
<1> DEFINE i == task[w].id
           k == [task[w] EXCEPT !.pc = "refine", !.attempts = row[i].bboxAttempts + 1]
<1>0. /\ task \in [Worker -> Task] /\ task[w] \in Task /\ row \in [Ids -> Row] /\ i \in Ids
      /\ \A v \in Worker : Owns(v) => task[v].id \in Ids
    BY DEF TypeInv, TypeOK, BusyHasId, Owns, ClaimWins
<1>1. /\ task' = [task EXCEPT ![w] = k]
      /\ k.pc = "refine" /\ k.id = i /\ k.attempts = row[i].bboxAttempts + 1
      /\ k.elapsed = 0 /\ ~k.finalised
    BY <1>0 DEF ClaimWins, Task, LeaseInv, ShapeInv
<1> HIDE DEF k
<1>2. task'[w] = k /\ \A v \in Worker \ {w} : task'[v] = task[v]
    BY <1>0, <1>1
<1>3. /\ row'[i].bbox = "running" /\ row'[i].bboxAttempts = row[i].bboxAttempts + 1
      /\ row'[i].bboxAge = 0
      /\ \A j \in Ids \ {i} : row'[j] = row[j]
    BY <1>0, ClaimedRowFacts DEF ClaimWins
<1>4. \A v \in Worker \ {w} : Owns(v)' <=> Owns(v)
    BY <1>2 DEF Owns
<1>5. ShapeInv'
    BY <1>1, <1>2, RowsStep DEF LeaseInv, ShapeInv
<1>6. ASSUME ~overran PROVE OwnerInv' /\ OneOwner'
    <2>1. OwnerInv /\ OneOwner
        BY <1>6 DEF LeaseInv
    <2>2. \A v \in Worker : Owns(v) => task[v].id # i
        BY <1>0, <2>1, BboxAssumption
           DEF ClaimWins, CanClaimBboxRefinement, IsStaleBboxRefining, OwnerInv, Task
    <2>3. OwnerInv'
        BY <1>0, <1>1, <1>2, <1>3, <1>4, <2>1, <2>2, BboxAssumption DEF OwnerInv
    <2>4. OneOwner'
        BY <1>0, <1>1, <1>2, <1>4, <2>1, <2>2 DEF OneOwner
    <2> QED BY <2>3, <2>4
<1>7. UNCHANGED overran
    BY DEF ClaimWins
<1> QED BY <1>5, <1>6, <1>7 DEF LeaseInv

\* The refinement raises: the claim is kept into the except block.
LEMMA RaiseLease ==
    ASSUME TypeInv, LeaseInv, NEW w \in Worker, RefineRaises(w)
    PROVE  LeaseInv'
<1>0. task \in [Worker -> Task]
    BY DEF TypeInv, TypeOK
<1>1. PICK p \in BOOLEAN : task' = [task EXCEPT ![w].pc = "except", ![w].permanent = p]
    BY DEF RefineRaises
<1>2. /\ task'[w].pc = "except" /\ task'[w].id = task[w].id
      /\ task'[w].attempts = task[w].attempts /\ task'[w].elapsed = task[w].elapsed
      /\ task'[w].finalised = task[w].finalised
      /\ \A v \in Worker \ {w} : task'[v] = task[v]
    BY <1>0, <1>1 DEF Task
<1>3. task[w].pc = "refine" /\ UNCHANGED <<row, overran>>
    BY DEF RefineRaises
<1>4. \A v \in Worker : Owns(v)' <=> Owns(v)
    BY <1>2, <1>3 DEF Owns
<1>5. ShapeInv'
    BY <1>2, <1>3 DEF LeaseInv, ShapeInv
<1>6. OwnerInv => OwnerInv'
    BY <1>2, <1>3, <1>4 DEF OwnerInv
<1>7. OneOwner => OneOwner'
    BY <1>2, <1>4 DEF OneOwner
<1> QED BY <1>3, <1>5, <1>6, <1>7 DEF LeaseInv

\* Time: the leg of an owner grows old exactly as fast as the owner, and the
\* tick that takes an owner past its lease is the one overran records.
LEMMA TickLease ==
    ASSUME TypeInv, LeaseInv, RowsMove, Tick
    PROVE  LeaseInv'
<1>0. /\ task \in [Worker -> Task] /\ row \in [Ids -> Row]
      /\ \A v \in Worker : Owns(v) => task[v].id \in Ids
    BY DEF TypeInv, TypeOK, BusyHasId, Owns
<1>1. ASSUME NEW w \in Worker
      PROVE  /\ task'[w].pc = task[w].pc /\ task'[w].id = task[w].id
             /\ task'[w].attempts = task[w].attempts
             /\ task'[w].finalised = task[w].finalised
             /\ task'[w].elapsed = IF Owns(w) THEN task[w].elapsed + 1 ELSE task[w].elapsed
    BY <1>0 DEF Tick, Task
<1>2. ASSUME NEW i \in Ids
      PROVE  /\ row'[i].bbox = row[i].bbox /\ row'[i].bboxAttempts = row[i].bboxAttempts
             /\ row'[i].bboxAge = Older(row[i].bboxAge)
    BY <1>0, AgedRowFacts DEF Tick
<1>3. \A v \in Worker : Owns(v)' <=> Owns(v)
    BY <1>1 DEF Owns
<1>4. ShapeInv'
    BY <1>1, <1>2 DEF LeaseInv, ShapeInv, Owns
<1>5. ASSUME ~overran' PROVE OwnerInv' /\ OneOwner'
    <2>1. /\ OwnerInv /\ OneOwner
          /\ \A v \in Worker : Owns(v) => ~(task[v].elapsed >= Lease)
        BY <1>5 DEF LeaseInv, Tick
    <2>2. ASSUME NEW v \in Worker, Owns(v)
          PROVE  /\ task[v].elapsed + 1 <= Lease
                 /\ Older(task[v].elapsed) = task[v].elapsed + 1
        <3>1. task[v].elapsed \in Nat /\ task[v].elapsed < Lease
            BY <1>0, <2>1, <2>2, BboxAssumption DEF Task
        <3> QED BY <3>1, BboxAssumption, MaxAgeAssumption DEF Older
    <2>3. OwnerInv'
        BY <1>0, <1>1, <1>2, <1>3, <2>1, <2>2 DEF OwnerInv
    <2>4. OneOwner'
        BY <1>1, <1>3, <2>1 DEF OneOwner
    <2> QED BY <2>3, <2>4
<1> QED BY <1>4, <1>5 DEF LeaseInv

LEMMA ProcessLease ==
    ASSUME TypeInv, LeaseInv, RowsMove, NEW w \in Worker, ProcessStep(w)
    PROVE  LeaseInv'
<1> DEFINE i == task[w].id
<1>0. /\ task \in [Worker -> Task] /\ task[w] \in Task /\ row \in [Ids -> Row]
      /\ task[w].pc # "idle" => i \in Ids
    BY DEF TypeInv, TypeOK, BusyHasId
<1>1. CASE ClaimWins(w)
    BY <1>1, ClaimLease
<1>2. CASE RefineRaises(w)
    BY <1>2, RaiseLease
<1>3. CASE \/ ClaimLoses(w) \/ CompleteLoses(w) \/ Notify(w) \/ FailLoses(w)
           \/ RequeueLoses(w) \/ Escapes(w)
    <2>1. UNCHANGED <<row, overran>> /\ task' = [task EXCEPT ![w] = IdleTask]
        BY <1>3 DEF ClaimLoses, CompleteLoses, Notify, FailLoses, RequeueLoses, Escapes
    <2> QED BY <2>1, IdleUnowning, ReleaseStep
<1>4. ASSUME row[i].bbox = "running", task[w].pc \in {"refine", "except"} PROVE Owns(w)
    BY <1>4 DEF Owns, LeaseInv, ShapeInv, LegTerminal
<1>5. CASE CompleteWins(w)
    <2> DEFINE k == [task[w] EXCEPT !.pc = "webhook", !.finalised = TRUE, !.elapsed = 0]
    <2>1. Owns(w) /\ i \in Ids
        BY <1>0, <1>4, <1>5 DEF CompleteWins, CanCompleteBboxRefinement, BboxLegRunning
    <2>2. row'[i].bbox = "succeeded" /\ \A j \in Ids \ {i} : row'[j] = row[j]
        BY <1>0, <1>5, <2>1, EndedRowFacts DEF CompleteWins, LegErrors
    <2>3. task' = [task EXCEPT ![w] = k] /\ k.id = i /\ Unowning(k) /\ UNCHANGED overran
        BY <1>0, <1>5 DEF CompleteWins, Task, Unowning
    <2> HIDE DEF k
    <2> QED BY <2>1, <2>2, <2>3, ReleaseStep DEF LegTerminal
<1>6. CASE CompleteReplyLost(w)
    <2>1. PICK p \in BOOLEAN :
             task' = [task EXCEPT ![w].pc = "except", ![w].permanent = p,
                                  ![w].finalised = TRUE, ![w].elapsed = 0]
        BY <1>6 DEF CompleteReplyLost
    <2> DEFINE k == [task[w] EXCEPT !.pc = "except", !.permanent = p,
                                    !.finalised = TRUE, !.elapsed = 0]
    <2>2. Owns(w) /\ i \in Ids /\ UNCHANGED overran
        BY <1>0, <1>4, <1>6 DEF CompleteReplyLost, CanCompleteBboxRefinement, BboxLegRunning
    <2>3. row'[i].bbox = "succeeded" /\ \A j \in Ids \ {i} : row'[j] = row[j]
        BY <1>0, <1>6, <2>2, EndedRowFacts DEF CompleteReplyLost, LegErrors
    <2>4. task' = [task EXCEPT ![w] = k] /\ k.id = i /\ Unowning(k)
        BY <1>0, <2>1 DEF Task, Unowning
    <2> HIDE DEF k
    <2> QED BY <2>2, <2>3, <2>4, ReleaseStep DEF LegTerminal
<1>7. CASE NotifyRaises(w)
    <2>1. PICK p \in BOOLEAN : task' = [task EXCEPT ![w].pc = "except", ![w].permanent = p]
        BY <1>7 DEF NotifyRaises
    <2> DEFINE k == [task[w] EXCEPT !.pc = "except", !.permanent = p]
    <2>2. task[w].finalised /\ i \in Ids /\ row[i].bbox \in LegTerminal /\ UNCHANGED <<row, overran>>
        BY <1>7 DEF NotifyRaises, LeaseInv, ShapeInv
    <2>3. task' = [task EXCEPT ![w] = k] /\ k.id = i /\ Unowning(k)
        BY <1>0, <2>1, <2>2 DEF Task, Unowning
    <2> HIDE DEF k
    <2> QED BY <2>2, <2>3, ReleaseStep
<1>8. CASE FailWins(w) \/ RequeueWins(w)
    <2>1. Owns(w) /\ i \in Ids
        BY <1>0, <1>4, <1>8
           DEF FailWins, RequeueWins, CanFailBboxRefinement, CanRequeueBboxRefinement, BboxLegRunning
    <2>2. \A j \in Ids \ {i} : row'[j] = row[j]
        BY <1>0, <1>8, <2>1 DEF FailWins, RequeueWins
    <2>3. task' = [task EXCEPT ![w] = IdleTask] /\ UNCHANGED overran
        BY <1>8 DEF FailWins, RequeueWins
    <2> QED BY <2>1, <2>2, <2>3, IdleUnowning, ReleaseStep
<1> QED BY <1>1, <1>2, <1>3, <1>5, <1>6, <1>7, <1>8 DEF ProcessStep

LEMMA LeaseStep ==
    ASSUME TypeInv, LeaseInv, [Next]_vars
    PROVE  LeaseInv'
<1>0. task \in [Worker -> Task] /\ row \in [Ids -> Row] /\ RowsMove
    BY StepRows DEF TypeInv, TypeOK
<1>1. ASSUME NEW w \in Worker, ProcessStep(w) PROVE LeaseInv'
    BY <1>0, <1>1, ProcessLease
<1>2. ASSUME NEW i \in Ids, MainSucceeds(i) PROVE LeaseInv'
    <2>1. /\ UNCHANGED <<task, overran>> /\ row[i].bbox # "running"
          /\ \A j \in Ids \ {i} : row'[j] = row[j]
        BY <1>0, <1>2 DEF MainSucceeds, TypeInv, SoundRow
    <2> QED BY <1>0, <2>1, QuietLease
<1>3. ASSUME NEW w \in Worker, NEW i \in Ids, Deliver(w, i) PROVE LeaseInv'
    <2> DEFINE k == [IdleTask EXCEPT !.pc = "claim", !.id = i]
    <2>1. Unowning(k) /\ ~k.finalised
        BY DEF Unowning, IdleTask
    <2>2. UNCHANGED <<row, overran>> /\ task' = [task EXCEPT ![w] = k]
        BY <1>3 DEF Deliver
    <2> HIDE DEF k
    <2> QED BY <1>0, <2>1, <2>2, ReleaseStep
<1>4. ASSUME NEW w \in Worker, Crash(w) PROVE LeaseInv'
    BY <1>0, <1>4, IdleUnowning, ReleaseStep DEF Crash
<1>5. Tick => LeaseInv'
    BY <1>0, TickLease
<1>6. UNCHANGED <<row, task, overran>> => LeaseInv'
    BY <1>0, QuietLease
<1>7. ASSUME NEW i \in Ids, Announce(i) \/ AnnounceFails(i) \/ Lose(i)
      PROVE  UNCHANGED <<row, task, overran>>
    BY <1>7 DEF Announce, AnnounceFails, Lose
<1>8. ASSUME NEW w \in Worker, ReaperSweep(w) \/ Restart(w) PROVE UNCHANGED <<row, task, overran>>
    BY <1>8 DEF ReaperSweep, Restart
<1>9. ASSUME NEW d \in delayed, DelayedPublish(d) PROVE UNCHANGED <<row, task, overran>>
    BY <1>9 DEF DelayedPublish
<1>10. UNCHANGED vars => UNCHANGED <<row, task, overran>>
    BY DEF vars
<1> QED BY <1>1, <1>2, <1>3, <1>4, <1>5, <1>6, <1>7, <1>8, <1>9, <1>10 DEF Next, MainStep

\* Until the first run outlives its lease, a leg has one refiner at a time,
\* and the leg is running on that refiner's attempt: nothing it writes is stale.
THEOREM LeaseGivesSingleRefiner == Spec => []RefinerHoldsLeg
<1>1. Init => TypeInv /\ LeaseInv
    BY TypeInit, LeaseInit
<1>2. TypeInv /\ LeaseInv /\ [Next]_vars => TypeInv' /\ LeaseInv'
    BY TypeStep, LeaseStep
<1>3. LeaseInv => RefinerHoldsLeg
    BY DEF LeaseInv, OwnerInv, OneOwner, RefinerHoldsLeg
<1> QED BY <1>1, <1>2, <1>3, PTL DEF Spec

-----------------------------------------------------------------------------
(* The retry budget of the leg *)

Held(i) == \E w \in Worker : Owns(w) /\ task[w].id = i

\* A leg that waits for a claim, or that a crashed worker has left running, has
\* room for one more attempt.
BudgetInv ==
    ~overran => \A i \in Ids :
        /\ row[i].bboxAttempts <= MaxAttempts + faults
        /\ \/ row[i].bbox = "pending"
           \/ row[i].bbox = "running" /\ ~Held(i)
           => row[i].bboxAttempts < MaxAttempts + faults

LEMMA BudgetInit == Init => BudgetInv
BY BboxAssumption DEF Init, BudgetInv, AbsentRow

\* The numbers a budget is about.
LEMMA BudgetTypes ==
    ASSUME TypeInv
    PROVE  /\ \A i \in Ids : row[i].bboxAttempts \in Nat
           /\ faults \in Nat /\ MaxAttempts \in Nat /\ MaxAttempts > 0
BY BboxAssumption DEF TypeInv, TypeOK, Row

\* A step that leaves the legs and their attempts alone, and either keeps the
\* owners of running legs or spends a fault.
LEMMA QuietBudget ==
    ASSUME TypeInv, BudgetInv, overran => overran', faults' \in Nat,
           \A i \in Ids : row'[i].bbox = row[i].bbox /\ row'[i].bboxAttempts = row[i].bboxAttempts,
           \/ faults' > faults
           \/ /\ faults' = faults
              /\ ~overran => \A i \in Ids : row[i].bbox = "running" /\ Held(i) => Held(i)'
    PROVE  BudgetInv'
<1>1. CASE faults' > faults
    BY <1>1, BudgetTypes DEF BudgetInv
<1>2. CASE /\ faults' = faults
           /\ ~overran => \A i \in Ids : row[i].bbox = "running" /\ Held(i) => Held(i)'
    BY <1>2, BudgetTypes DEF BudgetInv
<1> QED BY <1>1, <1>2

\* A step in which one leg settles, or goes back to pending below the budget,
\* and the owners of other legs stay.
LEMMA LegBudget ==
    ASSUME TypeInv, BudgetInv, UNCHANGED overran, faults' \in Nat, faults' >= faults, NEW i \in Ids,
           row'[i].bboxAttempts = row[i].bboxAttempts,
           row'[i].bbox \in LegTerminal \cup {"pending"},
           row'[i].bbox = "pending" /\ ~overran => row[i].bboxAttempts < MaxAttempts + faults,
           \A j \in Ids \ {i} : row'[j] = row[j] /\ (Held(j) => Held(j)')
    PROVE  BudgetInv'
BY BudgetTypes DEF BudgetInv, LegTerminal

\* A task that owned nothing, or goes on owning the same leg, moves.
LEMMA HeldFrame ==
    ASSUME TypeInv, NEW w \in Worker, NEW k, task' = [task EXCEPT ![w] = k], NEW j,
           Owns(w) /\ task[w].id = j => k.pc \in {"refine", "except"} /\ ~k.finalised /\ k.id = j,
           Held(j)
    PROVE  Held(j)'
<1>0. task \in [Worker -> Task]
    BY DEF TypeInv, TypeOK
<1>1. PICK v \in Worker : Owns(v) /\ task[v].id = j
    BY DEF Held
<1>2. task'[w] = k /\ \A u \in Worker \ {w} : task'[u] = task[u]
    BY <1>0
<1>3. Owns(v)' /\ task'[v].id = j
    BY <1>1, <1>2 DEF Owns
<1> QED BY <1>3 DEF Held

\* Within the lease, the claim takes a leg that has room for one more attempt.
LEMMA ClaimBudget ==
    ASSUME TypeInv, LeaseInv, BudgetInv, NEW w \in Worker, ClaimWins(w)
    PROVE  BudgetInv'
<1> DEFINE i == task[w].id
           k == [task[w] EXCEPT !.pc = "refine", !.attempts = row[i].bboxAttempts + 1]
<1>0. /\ task \in [Worker -> Task] /\ task[w] \in Task /\ row \in [Ids -> Row] /\ i \in Ids
      /\ ~Owns(w) /\ UNCHANGED <<faults, overran>>
    BY DEF TypeInv, TypeOK, BusyHasId, ClaimWins, Owns
<1>1. /\ task' = [task EXCEPT ![w] = k] /\ task'[w] = k
      /\ k.pc = "refine" /\ ~k.finalised /\ k.id = i
    BY <1>0 DEF ClaimWins, Task, LeaseInv, ShapeInv
<1> HIDE DEF k
<1>2. /\ row'[i].bbox = "running" /\ row'[i].bboxAttempts = row[i].bboxAttempts + 1
      /\ \A j \in Ids \ {i} : row'[j] = row[j]
    BY <1>0, ClaimedRowFacts DEF ClaimWins
<1>3. ASSUME NEW n \in Ids, n = i PROVE Held(n)'
    BY <1>1, <1>3 DEF Held, Owns
<1>4. \A j \in Ids : Held(j) => Held(j)'
    BY <1>0, <1>1, HeldFrame
<1> SUFFICES ASSUME ~overran PROVE BudgetInv'
    BY <1>0 DEF BudgetInv
<1>5. row[i].bbox = "pending" \/ (row[i].bbox = "running" /\ ~Held(i))
    BY <1>0, BboxAssumption
       DEF ClaimWins, CanClaimBboxRefinement, IsStaleBboxRefining, LeaseInv, OwnerInv, Held, Task
<1>6. row[i].bboxAttempts < MaxAttempts + faults
    BY <1>0, <1>5 DEF BudgetInv
<1>7. row'[i].bboxAttempts <= MaxAttempts + faults
    BY <1>0, <1>2, <1>6, BudgetTypes
<1>8. ASSUME NEW n \in Ids, n = i
      PROVE  /\ Held(n)' /\ row'[n].bbox = "running"
             /\ row'[n].bboxAttempts <= MaxAttempts + faults'
    BY <1>0, <1>2, <1>3, <1>7, <1>8
<1>9. ASSUME NEW n \in Ids, n # i
      PROVE  row'[n] = row[n] /\ faults' = faults /\ (Held(n) => Held(n)')
    BY <1>0, <1>2, <1>4, <1>9
<1> HIDE DEF i
<1> QED BY <1>8, <1>9 DEF BudgetInv

LEMMA ProcessBudget ==
    ASSUME TypeInv, LeaseInv, BudgetInv, NEW w \in Worker, ProcessStep(w)
    PROVE  BudgetInv'
<1> DEFINE i == task[w].id
<1>0. /\ task \in [Worker -> Task] /\ task[w] \in Task /\ row \in [Ids -> Row]
      /\ task[w].pc # "idle" => i \in Ids
      /\ faults \in Nat
    BY BudgetTypes DEF TypeInv, TypeOK, BusyHasId
<1>1. CASE ClaimWins(w)
    BY <1>1, ClaimBudget
<1>2. CASE Escapes(w)
    <2>1. UNCHANGED <<row, overran>> /\ faults' = faults + 1
        BY <1>2 DEF Escapes
    <2> QED BY <1>0, <2>1, QuietBudget
<1>3. CASE ClaimLoses(w) \/ CompleteLoses(w) \/ Notify(w) \/ FailLoses(w) \/ RequeueLoses(w)
    <2>1. UNCHANGED <<row, faults, overran>> /\ task' = [task EXCEPT ![w] = IdleTask]
        BY <1>3 DEF ClaimLoses, CompleteLoses, Notify, FailLoses, RequeueLoses
    <2>2. ASSUME ~overran, NEW j \in Ids, row[j].bbox = "running", Owns(w), i = j PROVE FALSE
        <3>1. row[i].status = "succeeded"
            BY <2>2 DEF TypeInv, SoundRow
        <3> QED BY <1>3, <2>2, <3>1 DEF ClaimLoses, CompleteLoses, Notify, FailLoses, RequeueLoses,
                CanCompleteBboxRefinement, CanFailBboxRefinement, CanRequeueBboxRefinement,
                BboxLegRunning, Owns
    <2>3. ~overran => \A j \in Ids : row[j].bbox = "running" /\ Held(j) => Held(j)'
        BY <2>1, <2>2, HeldFrame
    <2> QED BY <1>0, <2>1, <2>3, QuietBudget
<1>4. CASE RefineRaises(w) \/ NotifyRaises(w)
    <2>1. UNCHANGED <<row, faults, overran>>
        BY <1>4 DEF RefineRaises, NotifyRaises
    <2>2. PICK p \in BOOLEAN : task' = [task EXCEPT ![w].pc = "except", ![w].permanent = p]
        BY <1>4 DEF RefineRaises, NotifyRaises
    <2> DEFINE k == [task[w] EXCEPT !.pc = "except", !.permanent = p]
    <2>3. task' = [task EXCEPT ![w] = k] /\ k.id = i /\ k.pc = "except"
          /\ k.finalised = task[w].finalised
        BY <1>0, <2>2 DEF Task
    <2> HIDE DEF k
    <2>4. \A j \in Ids : Held(j) => Held(j)'
        BY <2>3, HeldFrame DEF Owns
    <2> QED BY <1>0, <2>1, <2>4, QuietBudget
<1>5. CASE CompleteWins(w) \/ CompleteReplyLost(w) \/ FailWins(w)
    <2>1. /\ i \in Ids /\ UNCHANGED overran
          /\ UNCHANGED faults \/ faults' = faults + 1
        BY <1>0, <1>5 DEF CompleteWins, CompleteReplyLost, FailWins
    <2>2. faults' \in Nat /\ faults' >= faults
        BY <1>0, <2>1
    <2>3. /\ row'[i].bbox \in LegTerminal /\ row'[i].bboxAttempts = row[i].bboxAttempts
          /\ \A j \in Ids \ {i} : row'[j] = row[j]
        <3>1. CASE CompleteWins(w) \/ CompleteReplyLost(w)
            <4>1. row' = [row EXCEPT ![i] = CompleteBboxRefinement(@)]
                BY <3>1 DEF CompleteWins, CompleteReplyLost
            <4> QED BY <1>0, <2>1, <4>1, EndedRowFacts DEF LegErrors, LegTerminal
        <3>2. CASE FailWins(w)
            <4>1. row' = [row EXCEPT ![i] = FailBboxRefinement(@, ErrorCode(w))]
                BY <3>2 DEF FailWins
            <4>2. ErrorCode(w) \in LegErrors
                BY DEF ErrorCode, LegErrors
            <4> QED BY <1>0, <2>1, <4>1, <4>2, EndedRowFacts DEF LegTerminal
        <3> QED BY <1>5, <3>1, <3>2
    <2>4. PICK k \in Task : task' = [task EXCEPT ![w] = k]
        BY <1>5, ProcessTask DEF ProcessStep
    <2>5. \A j \in Ids \ {i} : Held(j) => Held(j)'
        BY <2>4, HeldFrame
    <2>6. row'[i].bbox # "pending"
        BY <2>3 DEF LegTerminal
    <2> QED BY <1>0, <2>1, <2>2, <2>3, <2>5, <2>6, LegBudget
<1>6. CASE RequeueWins(w)
    <2>1. i \in Ids /\ UNCHANGED <<faults, overran>>
        BY <1>0, <1>6 DEF RequeueWins
    <2>2. Owns(w)
        BY <1>6, <2>1 DEF RequeueWins, CanRequeueBboxRefinement, BboxLegRunning, Owns, LeaseInv,
           ShapeInv, LegTerminal
    <2>3. ~overran => row[i].bboxAttempts < MaxAttempts + faults
        <3>1. ~(task[w].attempts >= MaxAttempts) /\ task[w].attempts \in Nat
            BY <1>0, <1>6 DEF RequeueWins, GivesUp, Task
        <3>2. ~overran => row[i].bboxAttempts = task[w].attempts
            BY <2>2 DEF LeaseInv, OwnerInv
        <3> QED BY <1>0, <3>1, <3>2, BudgetTypes
    <2>4. /\ row'[i].bbox = "pending" /\ row'[i].bboxAttempts = row[i].bboxAttempts
          /\ \A j \in Ids \ {i} : row'[j] = row[j]
        BY <1>0, <1>6, <2>1, EndedRowFacts DEF RequeueWins, LegErrors
    <2>5. \A j \in Ids \ {i} : Held(j) => Held(j)'
        BY <1>6, HeldFrame DEF RequeueWins
    <2> QED BY <1>0, <2>1, <2>3, <2>4, <2>5, LegBudget
<1> QED BY <1>1, <1>2, <1>3, <1>4, <1>5, <1>6 DEF ProcessStep

LEMMA BudgetStep ==
    ASSUME TypeInv, LeaseInv, BudgetInv, [Next]_vars
    PROVE  BudgetInv'
<1>0. /\ task \in [Worker -> Task] /\ row \in [Ids -> Row]
      /\ faults \in Nat /\ MaxAttempts \in Nat /\ MaxAttempts > 0
    BY BudgetTypes DEF TypeInv, TypeOK
<1>1. ASSUME NEW w \in Worker, ProcessStep(w) PROVE BudgetInv'
    BY <1>1, ProcessBudget
<1>2. UNCHANGED task => \A j \in Ids : Held(j) => Held(j)'
    BY DEF Held, Owns
<1>3. ASSUME NEW i \in Ids, MainSucceeds(i) PROVE BudgetInv'
    <2>1. /\ row'[i].bbox = "pending" /\ row'[i].bboxAttempts = 0
          /\ \A j \in Ids \ {i} : row'[j] = row[j]
        BY <1>0, <1>3, AskedRowType DEF MainSucceeds, AskedRow
    <2>2. UNCHANGED <<task, faults, overran>>
        BY <1>3 DEF MainSucceeds
    <2>3. 0 < MaxAttempts + faults
        BY <1>0
    <2>4. ASSUME NEW n \in Ids, n = i
          PROVE  row'[n].bboxAttempts < MaxAttempts + faults'
                 /\ row'[n].bboxAttempts <= MaxAttempts + faults'
        BY <1>0, <2>1, <2>2, <2>3, <2>4
    <2>5. ASSUME NEW n \in Ids, n # i
          PROVE  row'[n] = row[n] /\ faults' = faults /\ (Held(n) => Held(n)')
        BY <1>2, <2>1, <2>2, <2>5
    <2> QED BY <2>2, <2>4, <2>5 DEF BudgetInv
<1>4. UNCHANGED <<row, task, faults, overran>> => BudgetInv'
    BY <1>0, <1>2, QuietBudget
<1>5. ASSUME NEW i \in Ids, Announce(i) \/ AnnounceFails(i) \/ Lose(i)
      PROVE  UNCHANGED <<row, task, faults, overran>>
    BY <1>5 DEF Announce, AnnounceFails, Lose
<1>6. ASSUME NEW w \in Worker, ReaperSweep(w) \/ Restart(w)
      PROVE  UNCHANGED <<row, task, faults, overran>>
    BY <1>6 DEF ReaperSweep, Restart
<1>7. ASSUME NEW d \in delayed, DelayedPublish(d) PROVE UNCHANGED <<row, task, faults, overran>>
    BY <1>7 DEF DelayedPublish
<1>8. ASSUME NEW w \in Worker, NEW i \in Ids, Deliver(w, i) PROVE BudgetInv'
    <2>1. UNCHANGED <<row, faults, overran>> /\ ~Owns(w)
        BY <1>8 DEF Deliver, Owns
    <2>2. \A j \in Ids : Held(j) => Held(j)'
        BY <1>8, <2>1, HeldFrame DEF Deliver
    <2> QED BY <1>0, <2>1, <2>2, QuietBudget
<1>9. ASSUME NEW w \in Worker, Crash(w) PROVE BudgetInv'
    <2>1. UNCHANGED <<row, overran>> /\ faults' = faults + 1
        BY <1>9 DEF Crash
    <2> QED BY <1>0, <2>1, QuietBudget
<1>10. CASE Tick
    <2>1. \A i \in Ids : row'[i].bbox = row[i].bbox /\ row'[i].bboxAttempts = row[i].bboxAttempts
        BY <1>0, <1>10, AgedRowFacts DEF Tick
    <2>2. \A w \in Worker : Owns(w) => Owns(w)' /\ task'[w].id = task[w].id
        BY <1>0, <1>10 DEF Tick, Owns, Task
    <2>3. \A i \in Ids : Held(i) => Held(i)'
        BY <2>2 DEF Held
    <2>4. UNCHANGED faults /\ (overran => overran')
        BY <1>10 DEF Tick
    <2> QED BY <1>0, <2>1, <2>3, <2>4, QuietBudget
<1>11. UNCHANGED vars => UNCHANGED <<row, task, faults, overran>>
    BY DEF vars
<1> QED BY <1>1, <1>3, <1>4, <1>5, <1>6, <1>7, <1>8, <1>9, <1>10, <1>11 DEF Next, MainStep

\* Until the first run outlives its lease, a leg is attempted at most
\* bbox_refine_max_attempts times plus once per crash or database fault.
THEOREM LeaseKeepsLegBudget == Spec => []LegRetryBudget
<1>1. Init => TypeInv /\ LeaseInv /\ BudgetInv
    BY TypeInit, LeaseInit, BudgetInit
<1>2. TypeInv /\ LeaseInv /\ BudgetInv /\ [Next]_vars => TypeInv' /\ LeaseInv' /\ BudgetInv'
    BY TypeStep, LeaseStep, BudgetStep
<1>3. BudgetInv => LegRetryBudget
    BY DEF BudgetInv, LegRetryBudget
<1> QED BY <1>1, <1>2, <1>3, PTL DEF Spec

-----------------------------------------------------------------------------
(* The answers of the pages *)

BestOf(entry, best) ==
    IF entry \in {NoMatch, Absent} THEN best = -1 ELSE best \in 0 .. 100 /\ entry.score = best

\* The dict holds, for every field, the best match that was offered for it.
BestInv ==
    /\ DOMAIN llm = Field /\ DOMAIN offered = Field
    /\ \A f \in Field :
         BestOf(llm[f], offered[f])

LEMMA MatchIsAnEntry ==
    ASSUME NEW words, NEW page, NEW score, NEW m, m = UnionBox(words, page, score)
    PROVE  m \notin {NoMatch, Absent} /\ m.score = score
<1>1. PICK lo, hi : m = [page |-> page, lo |-> lo, hi |-> hi, score |-> score]
    BY DEF UnionBox, Found
<1>2. DOMAIN m = {"page", "lo", "hi", "score"} /\ m.score = score
    BY <1>1
<1>3. DOMAIN NoMatch = {"page"} /\ DOMAIN Absent = {"page"}
    BY DEF NoMatch, Absent
<1> QED BY <1>2, <1>3

LEMMA MaxOfTwo ==
    ASSUME NEW x \in Int, NEW y \in Int
    PROVE  Max({x, y}) = IF x > y THEN x ELSE y
BY DEF Max

\* A better match replaces what is there, and the score of the entry is the
\* best that was offered.
LEMMA AnswerKeepsBest ==
    ASSUME NEW old, NEW best, BestOf(old, best),
           NEW new, new \notin {NoMatch, Absent}, NEW score \in 0 .. 100, new.score = score,
           NEW kept, kept = KeepBest(old, new), NEW top, top = Max({best, score})
    PROVE  BestOf(kept, top)
<1>1. CASE old \in {NoMatch, Absent}
    <2>1. best = -1 /\ kept = new
        BY <1>1 DEF BestOf, KeepBest
    <2>2. top = score
        BY <2>1, MaxOfTwo
    <2> QED BY <2>1, <2>2 DEF BestOf
<1>2. CASE old \notin {NoMatch, Absent}
    <2>1. best \in 0 .. 100 /\ old.score = best
        BY <1>2 DEF BestOf
    <2>2. kept = IF score > best THEN new ELSE old
        BY <1>2, <2>1 DEF KeepBest
    <2>3. top = IF best > score THEN best ELSE score
        BY <2>1, MaxOfTwo
    <2> QED BY <1>2, <2>1, <2>2, <2>3 DEF BestOf
<1> QED BY <1>1, <1>2

LEMMA BestInit == RefinerInit => BestInv
BY DEF RefinerInit, MatcherIdle, NoOffers, BestInv, BestOf

LEMMA NothingOfferedKeepsBest ==
    ASSUME offered' = NoOffers, DOMAIN llm' = Field, \A f \in Field : llm'[f] \in {NoMatch, Absent}
    PROVE  BestInv'
BY DEF BestInv, BestOf, NoOffers

LEMMA BestStep == BestInv /\ [RefinerNext]_groundingVars => BestInv'
<1> SUFFICES ASSUME BestInv, [RefinerNext]_groundingVars PROVE BestInv'
    OBVIOUS
<1>1. CASE UNCHANGED <<llm, offered>>
    BY <1>1 DEF BestInv
<1>2. CASE StartMatching
    BY <1>2, NothingOfferedKeepsBest DEF StartMatching, LocateAll
<1>3. CASE RunAgain
    BY <1>3, NothingOfferedKeepsBest DEF RunAgain
<1>4. ASSUME NEW k \in flight, PageAnswers(k) PROVE BestInv'
    <2>1. PICK named \in SUBSET Named : \E a \in [named -> [pick : Picks, confidence : Confidence]] :
             LET good == {f \in named : Acceptable(k, a[f])} IN
             /\ llm' = [f \in Field |-> IF f \notin good THEN llm[f] ELSE
                          KeepBest(llm[f], UnionBox(PickedWords(k, a[f].pick), pages[k].page,
                                                    a[f].confidence))]
             /\ offered' = [f \in Field |-> IF f \notin good THEN offered[f]
                                            ELSE Max({offered[f], a[f].confidence})]
        BY <1>4 DEF PageAnswers
    <2>2. PICK a \in [named -> [pick : Picks, confidence : Confidence]] :
             LET good == {f \in named : Acceptable(k, a[f])} IN
             /\ llm' = [f \in Field |-> IF f \notin good THEN llm[f] ELSE
                          KeepBest(llm[f], UnionBox(PickedWords(k, a[f].pick), pages[k].page,
                                                    a[f].confidence))]
             /\ offered' = [f \in Field |-> IF f \notin good THEN offered[f]
                                            ELSE Max({offered[f], a[f].confidence})]
        BY <2>1
    <2> DEFINE good == {f \in named : Acceptable(k, a[f])}
               match(f) == UnionBox(PickedWords(k, a[f].pick), pages[k].page, a[f].confidence)
    <2>3. \A f \in good : a[f].confidence \in 0 .. 100
        BY NamedAssumption
    <2>4. /\ llm' = [f \in Field |-> IF f \notin good THEN llm[f] ELSE KeepBest(llm[f], match(f))]
          /\ offered' = [f \in Field |-> IF f \notin good THEN offered[f]
                                         ELSE Max({offered[f], a[f].confidence})]
        BY <2>2
    <2>5. \A f : match(f) \notin {NoMatch, Absent} /\ match(f).score = a[f].confidence
        BY MatchIsAnEntry
    <2> HIDE DEF good, match
    <2>6. ASSUME NEW f \in Field PROVE BestOf(llm'[f], offered'[f])
        <3>1. BestOf(llm[f], offered[f])
            BY DEF BestInv
        <3>2. CASE f \notin good
            BY <2>4, <3>1, <3>2
        <3>3. CASE f \in good
            <4> DEFINE m == match(f)
                       c == a[f].confidence
            <4>1. llm'[f] = KeepBest(llm[f], m) /\ offered'[f] = Max({offered[f], c})
                BY <2>4, <3>3
            <4>2. c \in 0 .. 100 /\ m \notin {NoMatch, Absent} /\ m.score = c
                BY <2>3, <2>5, <3>3
            <4> HIDE DEF m, c
            <4> QED BY <3>1, <4>1, <4>2, AnswerKeepsBest
        <3> QED BY <3>2, <3>3
    <2> QED BY <2>4, <2>6 DEF BestInv
<1> QED BY <1>1, <1>2, <1>3, <1>4
        DEF RefinerNext, LlmStep, CollectWords, ApplyMatches, Finished, PageFails, SecondPass,
            SecondPassEnds, groundingVars, matcherVars

-----------------------------------------------------------------------------
(* The best page wins; what is grounded stays *)

\* However the answers of the pages of a pass interleave and whichever calls
\* fail, a field ends with the best acceptable match of all of them, and with
\* none when there was none (LlmValueMatcher._run_one_page).
THEOREM BestPageAlwaysWins == RefinerSpec => []BestPageWins
<1>1. BestInv => BestPageWins
    BY DEF BestInv, BestOf, BestPageWins
<1> QED BY <1>1, BestInit, BestStep, PTL DEF RefinerSpec

\* A leaf that is grounded is no target of a later run, whatever that run
\* reads and the model answers in it (BboxRefiner.refine).
THEOREM GroundingIsKept == RefinerSpec => GroundedOnce
<1> DEFINE Kept == \A f \in Field : Grounded(leaf[f]) => leaf'[f] = leaf[f]
<1>1. [RefinerNext]_groundingVars => [Kept]_groundingVars
    <2> SUFFICES ASSUME RefinerNext PROVE Kept
        OBVIOUS
    <2>1. CASE ApplyMatches
        BY <2>1 DEF ApplyMatches, ResidualTargets
    <2>2. CASE ~ApplyMatches
        <3>1. UNCHANGED leaf
            BY <2>2 DEF RefinerNext, CollectWords, StartMatching, RunAgain, Finished,
                        groundingVars, refinerVars
        <3> QED BY <3>1
    <2> QED BY <2>1, <2>2
<1> HIDE DEF Kept
<1>2. RefinerSpec => [][Kept]_groundingVars
    BY <1>1, PTL DEF RefinerSpec
<1> QED BY <1>2 DEF Kept, GroundedOnce

-----------------------------------------------------------------------------
(* The words of the pages *)

TypedWord == [text : Texts, lo : 0 .. PageWidth, hi : 0 .. PageWidth, order : Nat]
TypedPage == [page : Nat, words : Seq(TypedWord), textLayer : BOOLEAN, source : {"pdf_text", "ocr"}]
TypedPages(ps) == ps \in Seq(TypedPage) /\ \A k \in DOMAIN ps : ps[k].page = k

LEMMA WordIsTyped ==
    ASSUME NEW text \in Texts, NEW lo \in Int, NEW hi \in Int, NEW order \in Nat
    PROVE  Word(text, lo, hi, order) \in TypedWord
<1>1. \A x \in Int : Clamp(x) \in 0 .. PageWidth
    BY WordAssumption DEF Clamp
<1> QED BY <1>1 DEF Word, TypedWord

LEMMA UsableAreTyped ==
    ASSUME NEW n \in Nat, NEW words, DOMAIN words = 1 .. n, \A k \in 1 .. n : words[k] \in TypedWord
    PROVE  Usable(words) \in Seq(TypedWord)
<1> DEFINE usable == {k \in DOMAIN words : words[k].text # <<>> /\ words[k].lo < words[k].hi}
<1>1. usable \in SUBSET (1 .. n) /\ \A k \in usable : words[k] \in TypedWord
    OBVIOUS
<1>2. Usable(words) = At(words, usable)
    BY DEF Usable
<1> HIDE DEF usable
<1>3. At(words, usable) \in Seq(TypedWord)
    BY <1>1, ItemsInSet
<1> QED BY <1>2, <1>3

LEMMA TypedPageOf ==
    ASSUME NEW p \in Nat, NEW words \in Seq(TypedWord), NEW textLayer \in BOOLEAN,
           NEW source \in {"pdf_text", "ocr"}
    PROVE  /\ PageWords(p, words, textLayer, source) \in TypedPage
           /\ PageWords(p, words, textLayer, source).page = p
BY DEF PageWords, TypedPage

LEMMA PageByPage ==
    ASSUME NEW n \in Nat, NEW f, DOMAIN f = 1 .. n, f = [p \in 1 .. n |-> f[p]],
           \A p \in 1 .. n : f[p] \in TypedPage /\ f[p].page = p
    PROVE  TypedPages(f)
<1>1. f \in [1 .. n -> TypedPage]
    OBVIOUS
<1>2. f \in Seq(TypedPage)
    BY <1>1
<1> QED BY <1>2 DEF TypedPages

LEMMA PagesOfDoc ==
    ASSUME NEW d \in Docs
    PROVE  /\ Len(d.pages) \in Nat /\ DOMAIN d.pages = 1 .. Len(d.pages)
           /\ \A p \in 1 .. Len(d.pages) : Readable(d.pages[p])
<1>1. d.pages \in Seq(ToSet(d.pages)) /\ \A page \in ToSet(d.pages) : Readable(page)
    BY DocAssumption
<1>2. Len(d.pages) \in Nat /\ DOMAIN d.pages = 1 .. Len(d.pages)
    BY <1>1
<1>3. \A p \in DOMAIN d.pages : d.pages[p] \in ToSet(d.pages)
    BY DEF ToSet
<1> QED BY <1>1, <1>2, <1>3

LEMMA TextLayerIsTyped ==
    ASSUME NEW d \in Docs
    PROVE  TypedPages(TextLayer(d))
<1> DEFINE n == IF Len(d.pages) < MaxTextPages THEN Len(d.pages) ELSE MaxTextPages
           raw(p) == [k \in DOMAIN d.pages[p].layer |->
                        Word(d.pages[p].layer[k].text, d.pages[p].layer[k].lo,
                             d.pages[p].layer[k].hi, NoOrder)]
           f == [p \in 1 .. n |->
                   PageWords(p, Usable(raw(p)), Len(Usable(raw(p))) >= MinTextWords, "pdf_text")]
<1>1. n \in Nat /\ \A p \in 1 .. n : p \in Nat /\ p \in 1 .. Len(d.pages)
    BY PagesOfDoc, WordAssumption
<1>2. TextLayer(d) = IF d.media # "pdf" \/ ~d.opens THEN <<>> ELSE f
    BY DEF TextLayer
<1>3. ASSUME NEW p \in 1 .. n PROVE Usable(raw(p)) \in Seq(TypedWord)
    <2> DEFINE layer == d.pages[p].layer
    <2>1. layer \in Seq(Token)
        BY <1>1, PagesOfDoc DEF Readable
    <2>2. Len(layer) \in Nat /\ DOMAIN layer = 1 .. Len(layer)
        BY <2>1
    <2>3. \A k \in 1 .. Len(layer) : layer[k].text \in Texts /\ layer[k].lo \in Int /\ layer[k].hi \in Int
        <3> HIDE DEF layer
        <3>1. \A k \in 1 .. Len(layer) : layer[k] \in Token
            BY <2>1, <2>2
        <3> QED BY <3>1 DEF Token
    <2>4. NoOrder \in Nat
        BY DEF NoOrder
    <2>5. DOMAIN raw(p) = 1 .. Len(layer) /\ \A k \in 1 .. Len(layer) : raw(p)[k] \in TypedWord
        BY <2>2, <2>3, <2>4, WordIsTyped
    <2> HIDE DEF raw
    <2> QED BY <2>2, <2>5, UsableAreTyped
<1> HIDE DEF n, raw
<1>4. \A p \in 1 .. n : f[p] \in TypedPage /\ f[p].page = p
    <2>1. \A p \in 1 .. n : (Len(Usable(raw(p))) >= MinTextWords) \in BOOLEAN
        OBVIOUS
    <2> QED BY <1>1, <1>3, <2>1, TypedPageOf
<1>5. DOMAIN f = 1 .. n /\ f = [p \in 1 .. n |-> f[p]]
    OBVIOUS
<1> HIDE DEF f
<1>6. TypedPages(f)
    BY <1>1, <1>4, <1>5, PageByPage
<1>7. TypedPages(<<>>)
    BY DEF TypedPages
<1> QED BY <1>2, <1>6, <1>7

LEMMA ScannedPhrases ==
    ASSUME NEW page, Readable(page)
    PROVE  /\ Len(page.scan) \in Nat /\ DOMAIN page.scan = 1 .. Len(page.scan)
           /\ \A k \in 1 .. Len(page.scan) :
                page.scan[k].lo \in Int /\ page.scan[k].hi \in Int /\ page.scan[k].tokens \in Seq(Token)
<1> DEFINE Phrase == [kind : STRING, lo : Int, hi : Int, tokens : Seq(Token)]
           scan == page.scan
<1>1. scan \in Seq(Phrase)
    BY DEF Readable
<1>2. \A x \in Phrase : x.lo \in Int /\ x.hi \in Int /\ x.tokens \in Seq(Token)
    OBVIOUS
<1> HIDE DEF Phrase, scan
<1>3. Len(scan) \in Nat /\ DOMAIN scan = 1 .. Len(scan) /\ \A k \in 1 .. Len(scan) : scan[k] \in Phrase
    BY <1>1
<1> QED BY <1>2, <1>3 DEF scan

LEMMA OcrImageIsTyped ==
    ASSUME NEW page, Readable(page), NEW p \in Nat
    PROVE  OcrImage(page, p) \in TypedPage /\ OcrImage(page, p).page = p
<1> DEFINE n == Len(page.scan)
           lists == [k \in DOMAIN page.scan |-> page.scan[k].tokens]
           read == FlattenSeq(lists)
           raw == [k \in DOMAIN read |-> Word(IF read[k].legible THEN read[k].text ELSE <<>>,
                                              read[k].lo, read[k].hi, NoOrder)]
<1>1. OcrImage(page, p) = PageWords(p, Usable(raw), Usable(raw) # <<>>, "ocr")
    BY DEF OcrImage
<1>2. lists \in Seq(Seq(Token))
    <2>1. n \in Nat /\ lists = [k \in 1 .. n |-> lists[k]] /\ \A k \in 1 .. n : lists[k] \in Seq(Token)
        BY ScannedPhrases
    <2> HIDE DEF lists, n
    <2>2. lists \in [1 .. n -> Seq(Token)]
        BY <2>1
    <2> QED BY <2>1, <2>2
<1> HIDE DEF lists
<1>3. read \in Seq(Token)
    BY <1>2, FlattenedSeq
<1> HIDE DEF read
<1>4. Len(read) \in Nat /\ DOMAIN read = 1 .. Len(read) /\ \A k \in 1 .. Len(read) : read[k] \in Token
    BY <1>3
<1>5. <<>> \in Texts /\ NoOrder \in Nat
    BY DEF Texts, NoOrder
<1>6. \A k \in 1 .. Len(read) : /\ read[k].lo \in Int /\ read[k].hi \in Int
                                /\ (IF read[k].legible THEN read[k].text ELSE <<>>) \in Texts
    BY <1>4, <1>5 DEF Token
<1>7. DOMAIN raw = 1 .. Len(read) /\ \A k \in 1 .. Len(read) : raw[k] \in TypedWord
    BY <1>4, <1>5, <1>6, WordIsTyped
<1> HIDE DEF raw
<1>8. Usable(raw) \in Seq(TypedWord)
    BY <1>4, <1>7, UsableAreTyped
<1> QED BY <1>1, <1>8, TypedPageOf

\* The letters before a token are counted by recursion over the tokens.
LEMMA LettersAreCounted ==
    ASSUME NEW N \in Nat, NEW size, \A k \in 1 .. N : size[k] \in Nat,
           NEW letters, letters = [k \in 0 .. N |-> IF k = 0 THEN 0 ELSE letters[k - 1] + size[k]]
    PROVE  \A k \in 0 .. N : letters[k] \in Nat
<1> DEFINE Good == {k \in 0 .. N : letters[k] \in Nat}
<1>1. 0 \in Good
    <2>1. 0 \in 0 .. N
        OBVIOUS
    <2> QED BY <2>1
<1>2. ASSUME NEW k \in (0 + 1) .. N, k - 1 \in Good PROVE k \in Good
    <2>1. k \in 0 .. N /\ k # 0 /\ k \in 1 .. N
        OBVIOUS
    <2>2. letters[k] = letters[k - 1] + size[k]
        BY <2>1
    <2> QED BY <1>2, <2>1, <2>2
<1> HIDE DEF Good
<1>3. 0 .. N \subseteq Good
    BY <1>1, <1>2, RangeInduction
<1> QED BY <1>3 DEF Good

LEMMA LettersExist ==
    ASSUME NEW N \in Nat, NEW size, \A k \in 1 .. N : size[k] \in Nat
    PROVE  \E f : f = [k \in 0 .. N |-> IF k = 0 THEN 0 ELSE f[k - 1] + size[k]]
<1> DEFINE next == [p \in (0 .. N) \X Nat |-> IF p[1] = 0 THEN 0 ELSE p[2] + size[p[1]]]
<1>1. 0 \in Nat /\ next \in [(0 .. N) \X Nat -> Nat]
    <2>1. \A n \in 0 .. N : n = 0 \/ n \in 1 .. N
        OBVIOUS
    <2>2. \A p \in (0 .. N) \X Nat : p[1] \in 0 .. N /\ p[2] \in Nat
        OBVIOUS
    <2> QED BY <2>1, <2>2
<1>2. PICK f \in [0 .. N -> Nat] : Follows(f, 0, N, 0, next)
    <2> HIDE DEF next
    <2>1. 0 \in Nat /\ 0 <= N
        OBVIOUS
    <2> QED BY <1>1, <2>1, RecursionOverRange
<1>3. \A n \in 0 .. N : n # 0 => n \in (0 + 1) .. N /\ n - 1 \in 0 .. N
    OBVIOUS
<1>4. \A n \in 0 .. N : n # 0 => next[<<n, f[n - 1]>>] = f[n - 1] + size[n]
    BY <1>3
<1> HIDE DEF next
<1>5. f = [n \in 0 .. N |-> f[n]] /\ f[0] = 0
    BY <1>2 DEF Follows
<1>6. \A n \in (0 + 1) .. N : f[n] = next[<<n, f[n - 1]>>]
    BY <1>2 DEF Follows
<1>7. \A n \in 0 .. N : n # 0 => f[n] = f[n - 1] + size[n]
    BY <1>3, <1>4, <1>6
<1> QED BY <1>5, <1>7

LEMMA TokensAreTyped ==
    ASSUME NEW tokens \in Seq(Token), NEW lo \in Int, NEW hi \in Int, NEW order \in Nat
    PROVE  Tokenize(tokens, lo, hi, order) \in Seq(TypedWord)
<1> DEFINE N == Len(tokens)
           size == [k \in 1 .. N |-> Len(tokens[k].text)]
           body(f) == [k \in 0 .. N |-> IF k = 0 THEN 0 ELSE f[k - 1] + Len(tokens[k].text)]
           letters == CHOOSE f : f = body(f)
           total == letters[N]
           cut(k) == IF k = N THEN hi ELSE lo + ((hi - lo) * letters[k]) \div total
           raw == [k \in DOMAIN tokens |-> Word(tokens[k].text, cut(k - 1), cut(k), order)]
<1>1. Tokenize(tokens, lo, hi, order) = IF total = 0 THEN <<>> ELSE Usable(raw)
    BY DEF Tokenize
<1>2. N \in Nat /\ DOMAIN tokens = 1 .. N /\ \A k \in 1 .. N : tokens[k] \in Token
    OBVIOUS
<1>3. \A k \in 1 .. N : tokens[k].text \in Texts /\ Len(tokens[k].text) \in Nat
    BY <1>2 DEF Token, Texts
<1>4. letters = body(letters)
    <2>1. \A k \in 1 .. N : size[k] \in Nat
        BY <1>3
    <2> HIDE DEF N
    <2>2. \A k \in 0 .. N : k # 0 => k \in 1 .. N
        OBVIOUS
    <2>3. \A f : body(f) = [k \in 0 .. N |-> IF k = 0 THEN 0 ELSE f[k - 1] + size[k]]
        BY <2>2
    <2> HIDE DEF size
    <2>4. \E f : f = body(f)
        <3> HIDE DEF body
        <3>1. \E f : f = [k \in 0 .. N |-> IF k = 0 THEN 0 ELSE f[k - 1] + size[k]]
            BY <1>2, <2>1, LettersExist
        <3> QED BY <2>3, <3>1
    <2> HIDE DEF body
    <2> QED BY <2>4
<1> HIDE DEF letters
<1>5. \A k \in 0 .. N : letters[k] \in Nat
    <2>1. \A k \in 1 .. N : size[k] \in Nat
        BY <1>3
    <2>2. letters = [k \in 0 .. N |-> IF k = 0 THEN 0 ELSE letters[k - 1] + size[k]]
        <3> HIDE DEF N
        <3>1. \A k \in 0 .. N : k # 0 => k \in 1 .. N
            OBVIOUS
        <3> QED BY <1>4, <3>1
    <2> HIDE DEF N, size, body
    <2> QED BY <1>2, <2>1, <2>2, LettersAreCounted
<1>6. CASE total = 0
    BY <1>1, <1>6
<1>7. CASE total # 0
    <2> HIDE DEF N, body, size
    <2>1. total \in Nat \ {0}
        BY <1>2, <1>5, <1>7
    <2>2. \A k \in 0 .. N : (hi - lo) * letters[k] \in Int
        BY <1>5
    <2> HIDE DEF total
    <2>3. \A x \in Int : x \div total \in Int
        BY <2>1
    <2>4. \A k \in 0 .. N : cut(k) \in Int
        BY <2>2, <2>3
    <2> HIDE DEF cut
    <2>5. \A k \in 1 .. N : k \in 0 .. N /\ k - 1 \in 0 .. N
        BY <1>2
    <2>6. DOMAIN raw = 1 .. N /\ \A k \in 1 .. N : raw[k] \in TypedWord
        BY <1>2, <1>3, <2>4, <2>5, WordIsTyped
    <2> HIDE DEF raw
    <2>7. Usable(raw) \in Seq(TypedWord)
        BY <1>2, <2>6, UsableAreTyped
    <2> QED BY <1>1, <1>7, <2>7
<1> QED BY <1>6, <1>7

LEMMA BoxOfItem ==
    ASSUME NEW page, Readable(page), NEW item, item.lo \in Int, item.hi \in Int,
           NEW box, box = ItemBox(page, item)
    PROVE  box = <<>> \/ (box[1] \in Int /\ box[2] \in Int)
<1>1. box = <<item.lo, item.hi>> \/ box = page.table \/ box = <<>>
    BY DEF ItemBox
<1>2. page.table = <<>> \/ (page.table[1] \in Int /\ page.table[2] \in Int)
    BY DEF Readable
<1> QED BY <1>1, <1>2

LEMMA LayoutPageIsTyped ==
    ASSUME NEW page, Readable(page), NEW p \in Nat
    PROVE  LayoutPage(page, p) \in TypedPage /\ LayoutPage(page, p).page = p
<1> DEFINE box(item) == ItemBox(page, item)
           usable == {k \in DOMAIN page.scan : LET b == box(page.scan[k]) IN
                        b # <<>> /\ Clamp(b[1]) < Clamp(b[2])}
           placed == At(page.scan, usable)
           lists == [k \in DOMAIN placed |-> LET b == box(placed[k]) IN
                       Tokenize(placed[k].tokens, Clamp(b[1]), Clamp(b[2]), k - 1)]
           words == FlattenSeq(lists)
           Placed == {x \in {page.scan[k] : k \in 1 .. Len(page.scan)} :
                        /\ x.tokens \in Seq(Token)
                        /\ box(x)[1] \in Int /\ box(x)[2] \in Int}
<1>1. LayoutPage(page, p) = PageWords(p, words, words # <<>>, "ocr")
    BY DEF LayoutPage
<1>2. placed \in Seq(Placed)
    <2>1. usable \in SUBSET (1 .. Len(page.scan)) /\ Len(page.scan) \in Nat
        BY ScannedPhrases
    <2>2. ASSUME NEW k \in usable PROVE page.scan[k] \in Placed
        <3>1. /\ page.scan[k].lo \in Int /\ page.scan[k].hi \in Int
              /\ page.scan[k].tokens \in Seq(Token)
            BY <2>1, ScannedPhrases
        <3>2. box(page.scan[k]) # <<>>
            OBVIOUS
        <3>3. box(page.scan[k])[1] \in Int /\ box(page.scan[k])[2] \in Int
            BY <3>1, <3>2, BoxOfItem
        <3> HIDE DEF box
        <3> QED BY <2>1, <3>1, <3>3
    <2> HIDE DEF usable, Placed
    <2> QED BY <2>1, <2>2, ItemsInSet
<1> HIDE DEF usable, placed
<1>3. lists \in Seq(Seq(TypedWord))
    <2> DEFINE n == Len(placed)
    <2>1. n \in Nat /\ DOMAIN placed = 1 .. n /\ \A k \in 1 .. n : placed[k] \in Placed
        <3> HIDE DEF Placed
        <3> QED BY <1>2
    <2> HIDE DEF n
    <2>2. ASSUME NEW k \in 1 .. n PROVE lists[k] \in Seq(TypedWord)
        <3> DEFINE b == box(placed[k])
        <3>1. placed[k].tokens \in Seq(Token) /\ b[1] \in Int /\ b[2] \in Int
            BY <2>1
        <3> HIDE DEF b
        <3>2. Clamp(b[1]) \in Int /\ Clamp(b[2]) \in Int /\ k - 1 \in Nat
            BY <2>1, <3>1, WordAssumption DEF Clamp
        <3>3. Tokenize(placed[k].tokens, Clamp(b[1]), Clamp(b[2]), k - 1) \in Seq(TypedWord)
            BY <3>1, <3>2, TokensAreTyped
        <3> QED BY <2>1, <3>3 DEF b
    <2>3. lists = [k \in 1 .. n |-> lists[k]]
        BY <2>1
    <2> HIDE DEF lists
    <2>4. lists \in [1 .. n -> Seq(TypedWord)]
        BY <2>2, <2>3
    <2> QED BY <2>1, <2>4
<1> HIDE DEF lists
<1>4. words \in Seq(TypedWord)
    BY <1>3, FlattenedSeq
<1> HIDE DEF words
<1> QED BY <1>1, <1>4, TypedPageOf

LEMMA RecognisedIsTyped ==
    ASSUME NEW d \in Docs, NEW e, NEW works
    PROVE  Recognise(e, d, works) = Raised \/ TypedPages(Recognise(e, d, works))
<1> DEFINE n == Len(d.pages)
           image == [p \in DOMAIN d.pages |-> OcrImage(d.pages[p], p)]
           layout == [p \in DOMAIN d.pages |-> LayoutPage(d.pages[p], p)]
<1>1. n \in Nat /\ DOMAIN d.pages = 1 .. n /\ \A p \in 1 .. n : p \in Nat /\ Readable(d.pages[p])
    BY PagesOfDoc
<1> HIDE DEF n
<1>2. TypedPages(image)
    <2>1. DOMAIN image = 1 .. n /\ image = [p \in 1 .. n |-> image[p]]
        BY <1>1
    <2>2. \A p \in 1 .. n : image[p] \in TypedPage /\ image[p].page = p
        BY <1>1, OcrImageIsTyped
    <2> HIDE DEF image
    <2> QED BY <1>1, <2>1, <2>2, PageByPage
<1>3. TypedPages(layout)
    <2>1. DOMAIN layout = 1 .. n /\ layout = [p \in 1 .. n |-> layout[p]]
        BY <1>1
    <2>2. \A p \in 1 .. n : layout[p] \in TypedPage /\ layout[p].page = p
        BY <1>1, LayoutPageIsTyped
    <2> HIDE DEF layout
    <2> QED BY <1>1, <2>1, <2>2, PageByPage
<1>4. TypedPages(<<>>)
    BY DEF TypedPages
<1>5. Tesseract(d, works) = Raised \/ Tesseract(d, works) = image
    BY DEF Tesseract
<1>6. Docling(d, works) \in {Raised, <<>>, layout}
    BY DEF Docling
<1> HIDE DEF image, layout
<1>7. \/ Recognise(e, d, works) = Tesseract(d, works) \/ Recognise(e, d, works) = Docling(d, works)
      \/ Recognise(e, d, works) = <<>>
    BY DEF Recognise
<1> QED BY <1>2, <1>3, <1>4, <1>5, <1>6, <1>7

LEMMA CollectedIsTyped ==
    ASSUME NEW d \in Docs, NEW e, NEW works
    PROVE  Collect(e, d, works) = Raised \/ TypedPages(Collect(e, d, works))
<1> DEFINE text == TextLayer(d)
           ocr == Recognise(e, d, works)
           both == [p \in DOMAIN text |-> IF ~text[p].textLayer /\ p \in DOMAIN ocr THEN ocr[p] ELSE text[p]]
<1>1. TypedPages(text) /\ TypedPages(<<>>)
    BY TextLayerIsTyped DEF TypedPages
<1>2. ocr = Raised \/ TypedPages(ocr)
    BY RecognisedIsTyped
<1>3. \/ Collect(e, d, works) = ocr \/ Collect(e, d, works) = <<>> \/ Collect(e, d, works) = text
      \/ Collect(e, d, works) = Raised \/ (ocr # Raised /\ Collect(e, d, works) = both)
    BY DEF Collect
<1> HIDE DEF text, ocr
<1>4. ASSUME ocr # Raised PROVE TypedPages(both)
    <2> DEFINE n == Len(text)
    <2>1. n \in Nat /\ DOMAIN text = 1 .. n /\ \A p \in 1 .. n : text[p] \in TypedPage /\ text[p].page = p
        BY <1>1 DEF TypedPages
    <2>2. \A p \in DOMAIN ocr : ocr[p] \in TypedPage /\ ocr[p].page = p
        BY <1>2, <1>4 DEF TypedPages
    <2> HIDE DEF n
    <2>3. DOMAIN both = 1 .. n /\ both = [p \in 1 .. n |-> both[p]]
        BY <2>1
    <2>4. \A p \in 1 .. n : both[p] \in TypedPage /\ both[p].page = p
        BY <2>1, <2>2
    <2> HIDE DEF both
    <2> QED BY <2>1, <2>3, <2>4, PageByPage
<1> HIDE DEF both
<1> QED BY <1>1, <1>2, <1>3, <1>4

-----------------------------------------------------------------------------
(* The similarity of two strings *)

LEMMA GreaterOfTwo ==
    ASSUME NEW x \in Int, NEW y \in Int
    PROVE  Max({x, y}) \in Int /\ (Max({x, y}) = x \/ Max({x, y}) = y) /\ Max({x, y}) >= x /\ Max({x, y}) >= y
BY DEF Max

\* One line of the table of common subsequences, from the line before it.
NextLine(a, b, i, prev, line) ==
    /\ line[0] = 0
    /\ \A j \in 1 .. Len(b) :
         line[j] = IF a[i] = b[j] THEN prev[j - 1] + 1 ELSE Max({prev[j], line[j - 1]})

LEMMA LineExists ==
    ASSUME NEW a \in Texts, NEW b \in Texts, NEW i, NEW prev \in [0 .. Len(b) -> Int]
    PROVE  \E line \in [0 .. Len(b) -> Int] : NextLine(a, b, i, prev, line)
<1> DEFINE B == Len(b)
           next == [p \in (0 .. B) \X Int |->
                      IF p[1] = 0 THEN 0
                      ELSE IF a[i] = b[p[1]] THEN prev[p[1] - 1] + 1 ELSE Max({prev[p[1]], p[2]})]
<1>1. B \in Nat /\ 0 \in Int
    BY DEF Texts
<1> HIDE DEF B
<1>2. next \in [(0 .. B) \X Int -> Int]
    <2>1. ASSUME NEW p \in (0 .. B) \X Int PROVE next[p] \in Int
        <3>1. p[1] \in 0 .. B /\ p[2] \in Int
            OBVIOUS
        <3>2. CASE p[1] = 0
            BY <3>2
        <3>3. CASE p[1] # 0
            <4>1. p[1] - 1 \in 0 .. B
                BY <1>1, <3>1, <3>3
            <4>2. prev[p[1] - 1] \in Int /\ prev[p[1]] \in Int
                BY <3>1, <4>1 DEF B
            <4>3. Max({prev[p[1]], p[2]}) \in Int
                BY <3>1, <4>2, GreaterOfTwo
            <4> QED BY <3>3, <4>2, <4>3
        <3> QED BY <3>2, <3>3
    <2> QED BY <2>1
<1>3. \A j \in 1 .. B : \A x \in Int :
        next[<<j, x>>] = IF a[i] = b[j] THEN prev[j - 1] + 1 ELSE Max({prev[j], x})
    <2>1. \A j \in 1 .. B : j \in 0 .. B /\ j # 0
        BY <1>1
    <2> QED BY <2>1
<1> HIDE DEF next
<1>4. PICK line \in [0 .. B -> Int] : Follows(line, 0, B, 0, next)
    <2>1. 0 \in Nat /\ 0 <= B
        BY <1>1
    <2> QED BY <1>1, <1>2, <2>1, RecursionOverRange
<1>5. line[0] = 0 /\ \A j \in (0 + 1) .. B : line[j] = next[<<j, line[j - 1]>>]
    BY <1>4 DEF Follows
<1>6. \A j \in 1 .. B : j \in (0 + 1) .. B /\ line[j - 1] \in Int
    BY <1>1, <1>4
<1>7. \A j \in 1 .. B : line[j] = IF a[i] = b[j] THEN prev[j - 1] + 1 ELSE Max({prev[j], line[j - 1]})
    BY <1>3, <1>5, <1>6
<1>8. NextLine(a, b, i, prev, line)
    BY <1>5, <1>7 DEF NextLine, B
<1> QED BY <1>4, <1>8 DEF B

LEMMA RatioIsNumber ==
    ASSUME NEW a \in Texts, NEW b \in Texts, a # <<>>
    PROVE  Ratio(a, b) \in Int
<1> DEFINE A == Len(a)
           B == Len(b)
           V == [0 .. B -> Int]
           body(f) == [p \in (0 .. A) \X (0 .. B) |->
                         IF p[1] = 0 \/ p[2] = 0 THEN 0
                         ELSE IF a[p[1]] = b[p[2]] THEN f[<<p[1] - 1, p[2] - 1>>] + 1
                         ELSE Max({f[<<p[1] - 1, p[2]>>], f[<<p[1], p[2] - 1>>]})]
           L == CHOOSE f : f = body(f)
           zeros == [j \in 0 .. B |-> 0]
           next == [p \in (0 .. A) \X V |-> CHOOSE line \in V : NextLine(a, b, p[1], p[2], line)]
<1>1. A \in Nat /\ A > 0 /\ B \in Nat
    BY DEF Texts
<1>2. Ratio(a, b) = (200 * L[<<A, B>>]) \div (A + B)
    BY DEF Ratio
<1>3. PICK lines \in [0 .. A -> V] : Follows(lines, 0, A, zeros, next)
    <2>1. 0 \in Nat /\ 0 <= A /\ zeros \in V
        BY <1>1
    <2>2. next \in [(0 .. A) \X V -> V]
        BY LineExists
    <2> HIDE DEF next, V, zeros, A
    <2> QED BY <1>1, <2>1, <2>2, RecursionOverRange
<1>4. ASSUME NEW i \in 1 .. A
      PROVE  /\ lines[i - 1] \in V /\ lines[i] \in V /\ lines[i][0] = 0
             /\ \A j \in 1 .. B : lines[i][j] = IF a[i] = b[j] THEN lines[i - 1][j - 1] + 1
                                               ELSE Max({lines[i - 1][j], lines[i][j - 1]})
    <2>1. i \in (0 + 1) .. A /\ i \in 0 .. A /\ i - 1 \in 0 .. A
        BY <1>1
    <2>2. lines[i] = next[<<i, lines[i - 1]>>] /\ lines[i - 1] \in V
        BY <1>3, <2>1 DEF Follows
    <2> HIDE DEF A
    <2>3. lines[i] = CHOOSE line \in V : NextLine(a, b, i, lines[i - 1], line)
        BY <2>1, <2>2
    <2> HIDE DEF next
    <2>4. \E line \in V : NextLine(a, b, i, lines[i - 1], line)
        BY <2>2, LineExists
    <2> HIDE DEF V
    <2>5. lines[i] \in V /\ NextLine(a, b, i, lines[i - 1], lines[i])
        BY <2>3, <2>4
    <2> QED BY <2>2, <2>5 DEF NextLine
<1>5. \A j \in 0 .. B : lines[0][j] = 0
    BY <1>3 DEF Follows
<1> HIDE DEF next, zeros
<1> DEFINE table == [p \in (0 .. A) \X (0 .. B) |-> lines[p[1]][p[2]]]
<1>6. table = body(table)
    <2>1. ASSUME NEW i \in 0 .. A, NEW j \in 0 .. B
          PROVE  lines[i][j] = IF i = 0 \/ j = 0 THEN 0
                              ELSE IF a[i] = b[j] THEN table[<<i - 1, j - 1>>] + 1
                              ELSE Max({table[<<i - 1, j>>], table[<<i, j - 1>>]})
        <3>1. CASE i = 0
            BY <1>5, <3>1
        <3>2. CASE i # 0 /\ j = 0
            <4>1. i \in 1 .. A
                BY <1>1, <3>2
            <4> QED BY <1>4, <3>2, <4>1
        <3>3. CASE i # 0 /\ j # 0
            <4>1. i \in 1 .. A /\ j \in 1 .. B /\ i - 1 \in 0 .. A /\ j - 1 \in 0 .. B
                BY <1>1, <3>3
            <4>2. /\ table[<<i - 1, j - 1>>] = lines[i - 1][j - 1] /\ table[<<i - 1, j>>] = lines[i - 1][j]
                  /\ table[<<i, j - 1>>] = lines[i][j - 1]
                BY <4>1
            <4>3. lines[i][j] = IF a[i] = b[j] THEN lines[i - 1][j - 1] + 1
                               ELSE Max({lines[i - 1][j], lines[i][j - 1]})
                BY <1>4, <4>1
            <4> HIDE DEF table
            <4> QED BY <3>3, <4>2, <4>3
        <3> QED BY <3>1, <3>2, <3>3
    <2>2. \A p \in (0 .. A) \X (0 .. B) : p[1] \in 0 .. A /\ p[2] \in 0 .. B
        OBVIOUS
    <2>3. \A p \in (0 .. A) \X (0 .. B) : table[p] = body(table)[p]
        <3> HIDE DEF table, A, B
        <3> QED BY <2>1, <2>2 DEF table
    <2>4. table = [p \in (0 .. A) \X (0 .. B) |-> table[p]] /\ body(table) = [p \in (0 .. A) \X (0 .. B) |-> body(table)[p]]
        OBVIOUS
    <2> HIDE DEF table, body
    <2> QED BY <2>3, <2>4
<1>7. L = body(L)
    <2> HIDE DEF table, body
    <2> QED BY <1>6
<1> HIDE DEF L, table
<1>8. ASSUME NEW i \in 0 .. A, NEW j \in 0 .. B
      PROVE  L[<<i, j>>] = IF i = 0 \/ j = 0 THEN 0
                       ELSE IF a[i] = b[j] THEN L[<<i - 1, j - 1>>] + 1
                       ELSE Max({L[<<i - 1, j>>], L[<<i, j - 1>>]})
    <2> HIDE DEF A, B
    <2>1. <<i, j>> \in (0 .. A) \X (0 .. B)
        OBVIOUS
    <2> QED BY <1>7, <2>1
<1> HIDE DEF body, A, B
<1> DEFINE Good == {i \in 0 .. A : \A j \in 0 .. B : L[<<i, j>>] \in Int}
<1>9. 0 \in Good
    <2>1. 0 \in 0 .. A
        BY <1>1
    <2>2. \A j \in 0 .. B : L[<<0, j>>] = 0
        BY <1>8, <2>1
    <2> QED BY <2>1, <2>2
<1>10. ASSUME NEW i \in (0 + 1) .. A, i - 1 \in Good PROVE i \in Good
    <2> DEFINE Fine == {j \in 0 .. B : L[<<i, j>>] \in Int}
    <2>1. i \in 0 .. A /\ i # 0 /\ \A j \in 0 .. B : L[<<i - 1, j>>] \in Int
        BY <1>10
    <2>2. 0 \in Fine
        <3>1. 0 \in 0 .. B
            BY <1>1
        <3>2. L[<<i, 0>>] = 0
            BY <1>8, <2>1, <3>1
        <3> QED BY <3>1, <3>2
    <2>3. ASSUME NEW j \in (0 + 1) .. B, j - 1 \in Fine PROVE j \in Fine
        <3>1. j \in 0 .. B /\ j # 0 /\ j - 1 \in 0 .. B /\ L[<<i, j - 1>>] \in Int
            BY <2>3
        <3>2. L[<<i, j>>] = IF a[i] = b[j] THEN L[<<i - 1, j - 1>>] + 1 ELSE Max({L[<<i - 1, j>>], L[<<i, j - 1>>]})
            BY <1>8, <2>1, <3>1
        <3>3. L[<<i - 1, j - 1>>] \in Int /\ L[<<i - 1, j>>] \in Int
            BY <2>1, <3>1
        <3>4. Max({L[<<i - 1, j>>], L[<<i, j - 1>>]}) \in Int
            BY <3>1, <3>3, GreaterOfTwo
        <3> QED BY <3>1, <3>2, <3>3, <3>4
    <2> HIDE DEF Fine
    <2>4. 0 .. B \subseteq Fine
        BY <1>1, <2>2, <2>3, RangeInduction
    <2> QED BY <2>1, <2>4 DEF Fine
<1> HIDE DEF Good
<1>11. 0 .. A \subseteq Good
    BY <1>1, <1>9, <1>10, RangeInduction
<1>12. L[<<A, B>>] \in Int
    BY <1>1, <1>11 DEF Good
<1>13. (200 * L[<<A, B>>]) \in Int /\ (A + B) \in Nat \ {0}
    BY <1>1, <1>12
<1> QED BY <1>2, <1>13

-----------------------------------------------------------------------------
(* The best window *)

LEMMA GreatestOfPairs ==
    ASSUME NEW m \in Nat, NEW P \in SUBSET ((1 .. m) \X (1 .. m)), P # {}, NEW s \in [P -> Int]
    PROVE  \E x \in P : \A y \in P : s[y] <= s[x]
<1> DEFINE cols(i) == {j \in 1 .. m : <<i, j>> \in P}
           rows == {i \in 1 .. m : cols(i) # {}}
           Top(i, j) == j \in cols(i) /\ \A k \in cols(i) : s[<<i, k>>] <= s[<<i, j>>]
           top(i) == CHOOSE j : Top(i, j)
           g == [i \in rows |-> s[<<i, top(i)>>]]
<1>1. ASSUME NEW i \in rows PROVE Top(i, top(i))
    <2> DEFINE si == [j \in cols(i) |-> s[<<i, j>>]]
    <2>1. si \in [cols(i) -> Int] /\ cols(i) # {} /\ cols(i) \in SUBSET (1 .. m)
        OBVIOUS
    <2>2. PICK j \in cols(i) : \A k \in cols(i) : si[k] <= si[j]
        <3> HIDE DEF si, cols
        <3> QED BY <2>1, GreatestOfSome
    <2>3. \E n : Top(i, n)
        BY <2>2
    <2> HIDE DEF Top
    <2> QED BY <2>3
<1> HIDE DEF top
<1>2. rows # {} /\ rows \in SUBSET (1 .. m)
    <2>1. PICK x \in P : TRUE
        OBVIOUS
    <2>2. x = <<x[1], x[2]>> /\ x[1] \in 1 .. m /\ x[2] \in 1 .. m
        OBVIOUS
    <2>3. x[2] \in cols(x[1])
        BY <2>1, <2>2
    <2> QED BY <2>2, <2>3
<1>3. g \in [rows -> Int]
    BY <1>1
<1>4. PICK i \in rows : \A k \in rows : g[k] <= g[i]
    <2> HIDE DEF g, rows
    <2> QED BY <1>2, <1>3, GreatestOfSome
<1>5. <<i, top(i)>> \in P
    BY <1>1
<1>6. ASSUME NEW y \in P PROVE s[y] <= s[<<i, top(i)>>]
    <2>1. y = <<y[1], y[2]>> /\ y[1] \in 1 .. m /\ y[2] \in cols(y[1]) /\ y[1] \in rows
        OBVIOUS
    <2>2. s[<<y[1], y[2]>>] <= s[<<y[1], top(y[1])>>] /\ <<y[1], top(y[1])>> \in P
        BY <1>1, <2>1
    <2>3. s[<<y[1], top(y[1])>>] <= s[<<i, top(i)>>]
        BY <1>4, <2>1
    <2>4. s[y] \in Int /\ s[<<y[1], top(y[1])>>] \in Int /\ s[<<i, top(i)>>] \in Int
        BY <1>5, <2>2
    <2> QED BY <2>1, <2>2, <2>3, <2>4
<1> QED BY <1>5, <1>6

\* Higher scores come first, then lower orders, then the loops' own order.
ComesFirst(x, y, score, order) ==
    \/ y = x
    \/ score[x] > score[y]
    \/ score[x] = score[y] /\ order[x] < order[y]
    \/ /\ score[x] = score[y] /\ order[x] = order[y]
       /\ x[1] < y[1] \/ (x[1] = y[1] /\ x[2] < y[2])

\* Among places with a score and an order one comes before all others.
LEMMA BestPlace ==
    ASSUME NEW m \in Nat, NEW P \in SUBSET ((1 .. m) \X (1 .. m)), P # {},
           NEW score \in [P -> Int], NEW order \in [P -> Int]
    PROVE  \E x \in P : \A y \in P : ComesFirst(x, y, score, order)
<1> DEFINE T == {x \in P : \A y \in P : score[y] <= score[x]}
           O == {x \in T : \A y \in T : order[x] <= order[y]}
           starts == {x[1] : x \in O}
           a == CHOOSE n \in starts : \A k \in starts : n <= k
           sizes == {x[2] : x \in {y \in O : y[1] = a}}
           b == CHOOSE n \in sizes : \A k \in sizes : n <= k
<1>0. \A x \in P : x = <<x[1], x[2]>> /\ x[1] \in Nat /\ x[2] \in Nat
    OBVIOUS
<1>1. T # {} /\ T \in SUBSET P
    <2>1. \E x \in P : \A y \in P : score[y] <= score[x]
        BY GreatestOfPairs
    <2> QED BY <2>1
<1>2. O # {}
    <2> DEFINE late == [x \in T |-> -order[x]]
    <2>1. late \in [T -> Int] /\ T \in SUBSET ((1 .. m) \X (1 .. m))
        BY <1>1
    <2>2. PICK x \in T : \A y \in T : late[y] <= late[x]
        <3> HIDE DEF late, T
        <3> QED BY <1>1, <2>1, GreatestOfPairs
    <2>3. \A y \in T : order[y] \in Int /\ late[y] = -order[y]
        BY <1>1
    <2> HIDE DEF late, T
    <2>4. \A y \in T : order[x] <= order[y]
        BY <2>2, <2>3
    <2> QED BY <2>2, <2>4
<1>3. O \in SUBSET P
    OBVIOUS
<1> HIDE DEF O
<1>4. a \in starts /\ \A k \in starts : a <= k
    <2>1. starts \in SUBSET Nat /\ starts # {}
        BY <1>0, <1>2, <1>3
    <2> HIDE DEF starts
    <2> QED BY <2>1, LeastNatural
<1> HIDE DEF a
<1>5. b \in sizes /\ \A k \in sizes : b <= k
    <2>1. sizes \in SUBSET Nat /\ sizes # {}
        BY <1>0, <1>3, <1>4
    <2> HIDE DEF sizes
    <2> QED BY <2>1, LeastNatural
<1> HIDE DEF b
<1>6. PICK x \in O : x[1] = a /\ x[2] = b
    BY <1>5
<1>7. ASSUME NEW y \in P
      PROVE  ComesFirst(x, y, score, order)
    <2>1. /\ x \in P /\ x \in T /\ score[x] \in Int /\ score[y] \in Int
          /\ order[x] \in Int /\ order[y] \in Int
        BY <1>3 DEF O
    <2>2. CASE y \notin T
        <3>1. PICK z \in P : ~(score[z] <= score[y])
            BY <2>2
        <3>2. score[z] <= score[x] /\ score[z] \in Int
            BY <2>1
        <3> HIDE DEF T
        <3> QED BY <2>1, <3>1, <3>2 DEF ComesFirst
    <2>3. CASE y \in T /\ y \notin O
        <3>1. score[x] = score[y]
            BY <2>1, <2>3
        <3>2. PICK z \in T : ~(order[y] <= order[z])
            BY <2>3 DEF O
        <3>3. order[x] <= order[z] /\ order[z] \in Int
            BY <1>1, <1>6 DEF O
        <3> HIDE DEF T
        <3> QED BY <2>1, <3>1, <3>2, <3>3 DEF ComesFirst
    <2>4. CASE y \in O
        <3>1. score[x] = score[y] /\ order[x] = order[y]
            <4>1. score[x] <= score[y] /\ score[y] <= score[x] /\ order[x] <= order[y] /\ order[y] <= order[x]
                BY <1>6, <2>1, <2>4 DEF O
            <4> HIDE DEF T
            <4> QED BY <2>1, <4>1
        <3>2. a <= y[1] /\ (y[1] = a => b <= y[2])
            BY <1>4, <1>5, <2>4
        <3>3. x = <<a, b>> /\ y = <<y[1], y[2]>> /\ a \in Nat /\ b \in Nat /\ y[1] \in Nat /\ y[2] \in Nat
            BY <1>0, <1>6, <2>1
        <3> HIDE DEF T
        <3> QED BY <1>6, <3>1, <3>2, <3>3 DEF ComesFirst
    <2> QED BY <2>2, <2>3, <2>4
<1> QED BY <1>3, <1>7

-----------------------------------------------------------------------------
(* Where a match is *)

\* A match on a page with the words W lies between edges of those words.
MatchIn(page, W) == [page : {page}, lo : {w.lo : w \in W}, hi : {w.hi : w \in W}, score : Int]

\* A unit of a window is one of the words, or one of its characters.
Unit(W) == [text : Texts, word : W]

LEMMA GreatestBelow ==
    ASSUME NEW m \in Nat, NEW S \in SUBSET (0 .. m), S # {}
    PROVE  Max(S) \in S
<1> DEFINE R == {m - x : x \in S}
<1>1. R \in SUBSET Nat /\ R # {}
    <2>1. \A x \in S : m - x \in Nat
        OBVIOUS
    <2> QED BY <2>1
<1>2. PICK r \in R : \A q \in R : r <= q
    <2> HIDE DEF R
    <2> QED BY <1>1, LeastNatural
<1>3. PICK x \in S : r = m - x
    BY <1>2
<1>4. \A y \in S : x >= y
    BY <1>2, <1>3
<1> QED BY <1>4 DEF Max

LEMMA UnionIsMatch ==
    ASSUME NEW W \in SUBSET TypedWord, NEW words \in SUBSET W, words # {}, NEW page, NEW score \in Int
    PROVE  UnionBox(words, page, score) \in MatchIn(page, W)
<1> DEFINE lows == {w.lo : w \in words}
           highs == {w.hi : w \in words}
<1>1. \A w \in words : w \in W /\ w.lo \in 0 .. PageWidth /\ w.hi \in 0 .. PageWidth
    BY DEF TypedWord
<1>2. PageWidth \in Nat /\ lows \in SUBSET Nat /\ highs \in SUBSET (0 .. PageWidth)
    BY <1>1, WordAssumption
<1>3. lows # {} /\ highs # {}
    OBVIOUS
<1>4. lows \subseteq {w.lo : w \in W} /\ highs \subseteq {w.hi : w \in W}
    BY <1>1
<1> HIDE DEF lows, highs
<1>5. Min(lows) \in lows /\ Max(highs) \in highs
    BY <1>2, <1>3, MinOfPlaces, GreatestBelow
<1>6. UnionBox(words, page, score) = [page |-> page, lo |-> Min(lows), hi |-> Max(highs), score |-> score]
    BY DEF UnionBox, Found, lows, highs
<1> QED BY <1>4, <1>5, <1>6 DEF MatchIn

LEMMA MatchIsFound ==
    ASSUME NEW page, NEW W, NEW m \in MatchIn(page, W)
    PROVE  m # NoMatch /\ m # Absent /\ m.page = page /\ m.score \in Int
<1>1. DOMAIN m = {"page", "lo", "hi", "score"} /\ m.page = page /\ m.score \in Int
    BY DEF MatchIn
<1>2. DOMAIN NoMatch = {"page"} /\ DOMAIN Absent = {"page"}
    BY DEF NoMatch, Absent
<1> QED BY <1>1, <1>2

LEMMA JoinedIsText ==
    ASSUME NEW W, NEW window \in Seq(Unit(W)), NEW sep \in Texts
    PROVE  Joined(window, sep) \in Texts
<1> DEFINE n == Len(window)
           parts == [k \in DOMAIN window |-> IF k = 1 THEN window[k].text ELSE sep \o window[k].text]
<1>1. n \in Nat /\ DOMAIN window = 1 .. n /\ \A k \in 1 .. n : window[k] \in Unit(W)
    OBVIOUS
<1> HIDE DEF n
<1>2. \A k \in 1 .. n : window[k].text \in Seq(Nat)
    BY <1>1 DEF Unit, Texts
<1>3. \A k \in 1 .. n : parts[k] \in Seq(Nat)
    BY <1>1, <1>2 DEF Texts
<1>4. parts = [k \in 1 .. n |-> parts[k]]
    BY <1>1
<1>5. Joined(window, sep) = FlattenSeq(parts)
    BY DEF Joined
<1> HIDE DEF parts
<1>6. parts \in [1 .. n -> Seq(Nat)]
    BY <1>3, <1>4
<1>7. parts \in Seq(Seq(Nat))
    BY <1>1, <1>6
<1> QED BY <1>5, <1>7, FlattenedSeq DEF Texts

\* A run of units has a unit, and words of the page.
GoodRun(W, window) ==
    /\ window \in Seq(Unit(W))
    /\ WordsIn(window) \in SUBSET W /\ WordsIn(window) # {}
    /\ FirstOrder(WordsIn(window)) \in Int

LEMMA RunOfUnits ==
    ASSUME NEW W, W \subseteq TypedWord, NEW units, units \in Seq(Unit(W)), NEW s \in Nat, NEW n \in Nat,
           s >= 1, n >= 1, s + n - 1 <= Len(units)
    PROVE  GoodRun(W, SubSeq(units, s, s + n - 1))
<1> DEFINE run_ == SubSeq(units, s, s + n - 1)
<1>1. run_ \in Seq(Unit(W)) /\ Len(run_) = n
    BY SubSeqProperties
<1> HIDE DEF run_
<1>2. DOMAIN run_ = 1 .. n /\ \A k \in 1 .. n : run_[k] \in Unit(W)
    BY <1>1
<1>3. 1 \in 1 .. n /\ \A k \in 1 .. n : run_[k].word \in W
    <2>1. \A u \in Unit(W) : u.word \in W
        BY DEF Unit
    <2>2. 1 \in 1 .. n
        OBVIOUS
    <2> QED BY <1>2, <2>1, <2>2
<1>4. WordsIn(run_) \in SUBSET W /\ WordsIn(run_) # {}
    BY <1>2, <1>3 DEF WordsIn
<1> DEFINE orders == {w.order : w \in WordsIn(run_)}
<1>5. \A w \in W : w.order \in Nat
    BY DEF TypedWord
<1>6. orders \in SUBSET Nat /\ orders # {}
    BY <1>4, <1>5
<1> HIDE DEF orders
<1>7. Min(orders) \in Nat
    BY <1>6, MinOfPlaces
<1> QED BY <1>1, <1>4, <1>7 DEF GoodRun, FirstOrder, orders, run_

LEMMA SlideFinds ==
    ASSUME NEW W \in SUBSET TypedWord, NEW units \in Seq(Unit(W)), NEW target \in Texts, target # <<>>,
           NEW sep \in Texts, NEW sizes \in SUBSET Nat, \A n \in sizes : n >= 1, NEW page,
           NEW m, m = Slide(target, units, sep, sizes, page)
    PROVE  m = NoMatch \/ m \in MatchIn(page, W)
<1> DEFINE N == Len(units)
           Run(s, n) == SubSeq(units, s, s + n - 1)
           window(s, n) == [start |-> s, size |-> n, score |-> Ratio(target, Joined(Run(s, n), sep)),
                            order |-> FirstOrder(WordsIn(Run(s, n)))]
           places == {x \in (1 .. N) \X sizes : x[1] + x[2] - 1 <= N}
           windows == {window(x[1], x[2]) : x \in places}
           best == CHOOSE w \in windows : \A v \in windows : v = w \/ Better(w, v)
           none == windows = {} \/ best.score < Threshold \/ (best.score = 0 /\ best.order = NoOrder)
<1>1. m = IF none THEN NoMatch ELSE UnionBox(WordsIn(Run(best.start, best.size)), page, best.score)
    BY DEF Slide
<1>2. N \in Nat
    OBVIOUS
<1> HIDE DEF N
<1>3. ASSUME NEW x \in places
      PROVE  /\ x[1] \in 1 .. N /\ x[2] \in 1 .. N /\ x[2] \in Nat /\ x = <<x[1], x[2]>>
             /\ WordsIn(Run(x[1], x[2])) \in SUBSET W /\ WordsIn(Run(x[1], x[2])) # {}
             /\ FirstOrder(WordsIn(Run(x[1], x[2]))) \in Int
             /\ Ratio(target, Joined(Run(x[1], x[2]), sep)) \in Int
    <2>1. x[1] \in 1 .. N /\ x[2] \in sizes /\ x[1] + x[2] - 1 <= N /\ x = <<x[1], x[2]>>
        OBVIOUS
    <2>2. x[1] \in Nat /\ x[2] \in Nat /\ x[1] >= 1 /\ x[2] >= 1 /\ x[2] <= N
        <3>1. x[1] \in Nat /\ x[1] >= 1
            BY <1>2, <2>1
        <3>2. x[2] \in Nat /\ x[2] >= 1
            BY <2>1
        <3> QED BY <1>2, <2>1, <3>1, <3>2
    <2>3. x[2] \in 1 .. N
        BY <1>2, <2>2
    <2> DEFINE r == Run(x[1], x[2])
    <2>a. x[1] + x[2] - 1 <= Len(units) /\ r = SubSeq(units, x[1], x[1] + x[2] - 1)
        BY <2>1 DEF N
    <2> HIDE DEF r, Run
    <2>b. PICK s \in Nat, n \in Nat : s = x[1] /\ n = x[2]
        BY <2>2
    <2>c. s >= 1 /\ n >= 1 /\ s + n - 1 <= Len(units) /\ r = SubSeq(units, s, s + n - 1)
        BY <2>2, <2>a, <2>b
    <2>d. W \subseteq TypedWord
        OBVIOUS
    <2>e. GoodRun(W, SubSeq(units, s, s + n - 1))
        BY <2>c, <2>d, RunOfUnits
    <2>4. r \in Seq(Unit(W)) /\ WordsIn(r) \in SUBSET W /\ WordsIn(r) # {} /\ FirstOrder(WordsIn(r)) \in Int
        BY <2>c, <2>e DEF GoodRun
    <2>5. Ratio(target, Joined(r, sep)) \in Int
        BY <2>4, JoinedIsText, RatioIsNumber
    <2> QED BY <2>1, <2>2, <2>3, <2>4, <2>5 DEF r
<1>4. CASE places = {}
    <2>1. windows = {}
        BY <1>4
    <2> QED BY <1>1, <2>1
<1>5. CASE places # {}
    <2> DEFINE score == [x \in places |-> Ratio(target, Joined(Run(x[1], x[2]), sep))]
               order == [x \in places |-> FirstOrder(WordsIn(Run(x[1], x[2])))]
    <2>1. score \in [places -> Int] /\ order \in [places -> Int]
        BY <1>3
    <2>2. places \in SUBSET ((1 .. N) \X (1 .. N))
        BY <1>3
    <2>3. \A x \in places : /\ window(x[1], x[2]).start = x[1] /\ window(x[1], x[2]).size = x[2]
                            /\ window(x[1], x[2]).score = score[x] /\ window(x[1], x[2]).order = order[x]
        OBVIOUS
    <2> HIDE DEF score, order, places, windows, Run
    <2>4. PICK x \in places : \A y \in places : ComesFirst(x, y, score, order)
        BY <1>2, <1>5, <2>1, <2>2, BestPlace
    <2> HIDE DEF window
    <2>5. \A y \in places : y = x \/ Better(window(x[1], x[2]), window(y[1], y[2]))
        BY <2>3, <2>4 DEF ComesFirst, Better, Before
    <2>6. \E w \in windows : \A v \in windows : v = w \/ Better(w, v)
        BY <2>5 DEF windows
    <2>7. best \in windows
        BY <2>6
    <2> HIDE DEF best
    <2>8. PICK z \in places : best = window(z[1], z[2])
        BY <2>7 DEF windows
    <2>9. best.start = z[1] /\ best.size = z[2] /\ best.score = score[z] /\ score[z] \in Int
        BY <2>1, <2>3, <2>8
    <2>10. WordsIn(Run(best.start, best.size)) \in SUBSET W /\ WordsIn(Run(best.start, best.size)) # {}
        BY <1>3, <2>9
    <2> HIDE DEF Run, none
    <2>11. UnionBox(WordsIn(Run(best.start, best.size)), page, best.score) \in MatchIn(page, W)
        BY <2>9, <2>10, UnionIsMatch
    <2> QED BY <1>1, <2>11
<1> QED BY <1>4, <1>5

LEMMA LesserOfTwo ==
    ASSUME NEW x \in Int, NEW y \in Int
    PROVE  Min({x, y}) \in Int
BY DEF Min

LEMMA TypedWordsOf ==
    ASSUME NEW words \in Seq(TypedWord)
    PROVE  /\ ToSet(words) \subseteq TypedWord /\ Len(words) \in Nat /\ DOMAIN words = 1 .. Len(words)
           /\ \A k \in 1 .. Len(words) : words[k] \in ToSet(words) /\ words[k].text \in Texts
<1>1. Len(words) \in Nat /\ DOMAIN words = 1 .. Len(words)
    OBVIOUS
<1>2. \A k \in 1 .. Len(words) : words[k] \in TypedWord
    OBVIOUS
<1> QED BY <1>1, <1>2 DEF ToSet, TypedWord

LEMMA SpacedMatch ==
    ASSUME NEW words \in Seq(TypedWord), NEW target \in Texts, target # <<>>, NEW page,
           NEW m, m = MatchSpaced(target, words, page)
    PROVE  m = NoMatch \/ m \in MatchIn(page, ToSet(words))
<1> DEFINE W == ToSet(words)
           N == Len(words)
           units == [k \in DOMAIN words |-> [text |-> words[k].text, word |-> words[k]]]
           n == WordCount(target)
           limit == Min({12, Max({n * 3, n + 2})})
           sizes == 1 .. limit
<1>1. m = Slide(target, units, <<Space>>, sizes, page)
    BY DEF MatchSpaced
<1>2. W \subseteq TypedWord /\ N \in Nat /\ DOMAIN words = 1 .. N
    BY TypedWordsOf
<1>3. units \in Seq(Unit(W))
    <2>1. \A k \in 1 .. N : words[k] \in W /\ words[k].text \in Texts
        BY TypedWordsOf
    <2> HIDE DEF W, N
    <2>2. \A k \in 1 .. N : units[k] \in Unit(W)
        BY <1>2, <2>1 DEF Unit
    <2>3. units = [k \in 1 .. N |-> units[k]]
        BY <1>2
    <2> HIDE DEF units
    <2>4. units \in [1 .. N -> Unit(W)]
        BY <2>2, <2>3
    <2> QED BY <1>2, <2>4
<1>4. n \in Nat
    <2> DEFINE spaces == {k \in DOMAIN target : target[k] = Space}
    <2>1. spaces \in SUBSET (1 .. Len(target)) /\ Len(target) \in Nat
        BY DEF Texts
    <2> HIDE DEF spaces
    <2>2. Cardinality(spaces) \in Nat
        BY <2>1, RankOfPlace
    <2> QED BY <2>2 DEF WordCount, spaces
<1> HIDE DEF n
<1>5. limit \in Int
    <2> DEFINE x == n * 3
               y == n + 2
               top == Max({x, y})
    <2>1. x \in Int /\ y \in Int
        BY <1>4
    <2> HIDE DEF x, y
    <2>2. top \in Int
        BY <2>1, GreaterOfTwo
    <2>3. limit = Min({12, top})
        BY DEF x, y, limit
    <2> HIDE DEF top
    <2>4. 12 \in Int
        OBVIOUS
    <2> QED BY <2>2, <2>3, <2>4, LesserOfTwo
<1> HIDE DEF limit
<1>6. sizes \in SUBSET Nat /\ \A k \in sizes : k >= 1
    BY <1>5
<1>7. <<Space>> \in Texts
    BY DEF Space, Texts
<1> HIDE DEF W, units, sizes
<1> QED BY <1>1, <1>2, <1>3, <1>6, <1>7, SlideFinds DEF W

LEMMA UnspacedMatch ==
    ASSUME NEW words \in Seq(TypedWord), NEW target \in Texts, target # <<>>, NEW page,
           NEW m, m = MatchUnspaced(target, words, page)
    PROVE  m = NoMatch \/ m \in MatchIn(page, ToSet(words))
<1> DEFINE W == ToSet(words)
           N == Len(words)
           chars(w) == [j \in DOMAIN w.text |-> [text |-> <<w.text[j]>>, word |-> w]]
           lists == [k \in DOMAIN words |-> chars(words[k])]
           low == Max({1, Len(target) - 2})
           high == Min({80, Max({Len(target) + 4, 6})})
           sizes == low .. high
<1>1. m = Slide(target, FlattenSeq(lists), <<>>, sizes, page)
    BY DEF MatchUnspaced
<1>2. W \subseteq TypedWord /\ N \in Nat /\ DOMAIN words = 1 .. N
    BY TypedWordsOf
<1>3. \A k \in 1 .. N : words[k] \in W /\ words[k].text \in Texts
    BY TypedWordsOf
<1> HIDE DEF W, N
<1>4. ASSUME NEW w \in W, w.text \in Texts PROVE chars(w) \in Seq(Unit(W))
    <2> DEFINE t == w.text
    <2>1. Len(t) \in Nat /\ DOMAIN t = 1 .. Len(t) /\ \A j \in 1 .. Len(t) : t[j] \in Nat
        BY <1>4 DEF Texts
    <2>2. \A j \in 1 .. Len(t) : <<t[j]>> \in Texts
        BY <2>1 DEF Texts
    <2>3. \A j \in 1 .. Len(t) : chars(w)[j] \in Unit(W)
        BY <2>1, <2>2 DEF Unit
    <2>4. chars(w) = [j \in 1 .. Len(t) |-> chars(w)[j]]
        BY <2>1
    <2> HIDE DEF chars
    <2>5. chars(w) \in [1 .. Len(t) -> Unit(W)]
        BY <2>3, <2>4
    <2> QED BY <2>1, <2>5
<1>5. lists \in Seq(Seq(Unit(W)))
    <2>1. lists = [k \in 1 .. N |-> lists[k]] /\ \A k \in 1 .. N : lists[k] = chars(words[k])
        BY <1>2
    <2> HIDE DEF lists, chars
    <2>2. \A k \in 1 .. N : lists[k] \in Seq(Unit(W))
        BY <1>3, <1>4, <2>1
    <2>3. lists \in [1 .. N -> Seq(Unit(W))]
        BY <2>1, <2>2
    <2> QED BY <1>2, <2>3
<1> HIDE DEF lists
<1>6. FlattenSeq(lists) \in Seq(Unit(W))
    BY <1>5, FlattenedSeq
<1>7. sizes \in SUBSET Nat /\ \A k \in sizes : k >= 1
    <2>1. Len(target) \in Nat
        BY DEF Texts
    <2> DEFINE x == Len(target) - 2
               y == Len(target) + 4
               top == Max({y, 6})
    <2>2. x \in Int /\ y \in Int /\ 1 \in Int /\ 6 \in Int /\ 80 \in Int
        BY <2>1
    <2>3. low = Max({1, x}) /\ high = Min({80, top})
        OBVIOUS
    <2> HIDE DEF low, high, x, y
    <2>4. low \in Int /\ low >= 1
        BY <2>2, <2>3, GreaterOfTwo
    <2>5. top \in Int
        BY <2>2, GreaterOfTwo
    <2> HIDE DEF top
    <2>6. high \in Int
        BY <2>2, <2>3, <2>5, LesserOfTwo
    <2> QED BY <2>4, <2>6
<1>8. <<>> \in Texts
    BY DEF Texts
<1> HIDE DEF sizes
<1> QED BY <1>1, <1>2, <1>6, <1>7, <1>8, SlideFinds DEF W

LEMMA PageMatch ==
    ASSUME NEW target \in Texts, target # <<>>, NEW pw \in TypedPage, NEW m, m = BestOnPage(target, pw)
    PROVE  m = NoMatch \/ m \in MatchIn(pw.page, ToSet(pw.words))
<1>1. pw.words \in Seq(TypedWord)
    BY DEF TypedPage
<1>2. m = NoMatch \/ m = MatchUnspaced(target, pw.words, pw.page) \/ m = MatchSpaced(target, pw.words, pw.page)
    BY DEF BestOnPage
<1> QED BY <1>1, <1>2, SpacedMatch, UnspacedMatch

LEMMA VariantsAreTexts ==
    ASSUME NEW value, value.literal \in Texts, value.stripped \in Texts
    PROVE  Variants(value) \in Seq(Texts \ {<<>>})
<1> DEFINE digits == At(value.literal, {k \in DOMAIN value.literal : value.literal[k] \in Digit})
           forms == <<value.literal>> \o (IF Len(digits) >= 4 THEN <<digits>> ELSE <<>>) \o <<value.stripped>>
           kept == {k \in DOMAIN forms : forms[k] # <<>> /\ \A j \in 1 .. k - 1 : forms[j] # forms[k]}
<1>1. Variants(value) = At(forms, kept)
    BY DEF Variants
<1>2. digits \in Texts
    <2> DEFINE places == {k \in DOMAIN value.literal : value.literal[k] \in Digit}
    <2>1. /\ Len(value.literal) \in Nat /\ places \in SUBSET (1 .. Len(value.literal))
          /\ \A k \in places : value.literal[k] \in Nat
        BY DEF Texts
    <2> HIDE DEF places
    <2>2. At(value.literal, places) \in Seq(Nat)
        BY <2>1, ItemsInSet
    <2> QED BY <2>2 DEF Texts, places
<1> HIDE DEF digits
<1>3. forms \in Seq(Texts)
    BY <1>2
<1> HIDE DEF forms
<1>4. Len(forms) \in Nat /\ kept \in SUBSET (1 .. Len(forms)) /\ \A k \in kept : forms[k] \in Texts \ {<<>>}
    BY <1>3
<1> HIDE DEF kept
<1>5. At(forms, kept) \in Seq(Texts \ {<<>>})
    BY <1>4, ItemsInSet
<1> QED BY <1>1, <1>5

LEMMA ScopeIsOfPages ==
    ASSUME NEW ps, TypedPages(ps), NEW candidates
    PROVE  InScope(ps, candidates) \in Seq({ps[k] : k \in DOMAIN ps})
<1> DEFINE here == {k \in DOMAIN ps : ps[k].page \in candidates}
           All == {ps[k] : k \in DOMAIN ps}
<1>1. Len(ps) \in Nat /\ DOMAIN ps = 1 .. Len(ps) /\ ps \in Seq(TypedPage)
    BY DEF TypedPages
<1>2. ps \in Seq(All)
    <2>1. ps \in [1 .. Len(ps) -> All]
        BY <1>1
    <2> HIDE DEF All
    <2> QED BY <1>1, <2>1
<1>3. here \in SUBSET (1 .. Len(ps)) /\ \A k \in here : ps[k] \in All
    BY <1>1
<1>4. InScope(ps, candidates) = ps \/ InScope(ps, candidates) = At(ps, here)
    BY DEF InScope
<1> HIDE DEF here, All
<1>5. At(ps, here) \in Seq(All)
    BY <1>1, <1>3, ItemsInSet
<1> QED BY <1>2, <1>4, <1>5 DEF All

\* Where a match can be: on a page, between edges of the words read there.
MatchOf(ps, m) == \E k \in DOMAIN ps : m \in MatchIn(ps[k].page, ToSet(ps[k].words))

LEMMA LocateFinds ==
    ASSUME NEW ps, TypedPages(ps), NEW value, value.literal \in Texts, value.stripped \in Texts,
           NEW candidates, NEW m, m = Locate(value, ps, candidates)
    PROVE  m = NoMatch \/ MatchOf(ps, m)
<1> DEFINE scope == InScope(ps, candidates)
           forms == Variants(value)
           lists == [p \in DOMAIN scope |-> [f \in DOMAIN forms |-> BestOnPage(forms[f], scope[p])]]
           hits == FlattenSeq(lists)
           found == {k \in DOMAIN hits : hits[k] # NoMatch}
           best == {k \in found : \A j \in found : hits[j].score <= hits[k].score}
           Hits == {NoMatch} \cup UNION {MatchIn(ps[k].page, ToSet(ps[k].words)) : k \in DOMAIN ps}
<1>1. m = IF found = {} THEN NoMatch ELSE hits[Min(best)]
    BY DEF Locate
<1>2. forms \in Seq(Texts \ {<<>>})
    BY VariantsAreTexts
<1>3. scope \in Seq({ps[k] : k \in DOMAIN ps})
    BY ScopeIsOfPages
<1> HIDE DEF forms, scope
<1>4. /\ Len(forms) \in Nat /\ DOMAIN forms = 1 .. Len(forms)
      /\ \A f \in 1 .. Len(forms) : forms[f] \in Texts /\ forms[f] # <<>>
    BY <1>2
<1>5. /\ Len(scope) \in Nat /\ DOMAIN scope = 1 .. Len(scope)
      /\ \A p \in 1 .. Len(scope) : \E k \in DOMAIN ps : scope[p] = ps[k]
    BY <1>3
<1>6. ASSUME NEW p \in 1 .. Len(scope), NEW f \in 1 .. Len(forms)
      PROVE  BestOnPage(forms[f], scope[p]) \in Hits
    <2>1. PICK k \in DOMAIN ps : scope[p] = ps[k]
        BY <1>5
    <2>2. ps[k] \in TypedPage
        BY DEF TypedPages
    <2>3. \/ BestOnPage(forms[f], ps[k]) = NoMatch
          \/ BestOnPage(forms[f], ps[k]) \in MatchIn(ps[k].page, ToSet(ps[k].words))
        BY <1>4, <2>2, PageMatch
    <2> QED BY <2>1, <2>3
<1> HIDE DEF Hits
<1>7. lists \in Seq(Seq(Hits))
    <2>1. \A p \in 1 .. Len(scope) : lists[p] \in [1 .. Len(forms) -> Hits]
        BY <1>4, <1>5, <1>6
    <2>2. lists = [p \in 1 .. Len(scope) |-> lists[p]]
        BY <1>5
    <2> HIDE DEF lists
    <2>3. \A p \in 1 .. Len(scope) : lists[p] \in Seq(Hits)
        BY <1>4, <2>1
    <2>4. lists \in [1 .. Len(scope) -> Seq(Hits)]
        BY <2>2, <2>3
    <2> QED BY <1>5, <2>4
<1> HIDE DEF lists
<1>8. hits \in Seq(Hits)
    BY <1>7, FlattenedSeq
<1> HIDE DEF hits
<1>9. Len(hits) \in Nat /\ found \in SUBSET (1 .. Len(hits)) /\ \A k \in found : hits[k] \in Hits /\ hits[k] # NoMatch
    BY <1>8
<1> HIDE DEF found
<1>10. \A k \in found : MatchOf(ps, hits[k]) /\ hits[k].score \in Int
    <2>1. SUFFICES ASSUME NEW k \in found PROVE MatchOf(ps, hits[k]) /\ hits[k].score \in Int
        OBVIOUS
    <2>2. PICK j \in DOMAIN ps : hits[k] \in MatchIn(ps[j].page, ToSet(ps[j].words))
        BY <1>9 DEF Hits
    <2> QED BY <2>2, MatchIsFound DEF MatchOf
<1>11. CASE found = {}
    BY <1>1, <1>11
<1>12. CASE found # {}
    <2> DEFINE s == [k \in found |-> hits[k].score]
    <2>1. s \in [found -> Int]
        BY <1>10
    <2>2. PICK k \in found : \A j \in found : s[j] <= s[k]
        <3> HIDE DEF s
        <3> QED BY <1>9, <1>12, <2>1, GreatestOfSome
    <2>3. best # {} /\ best \in SUBSET Nat
        BY <1>9, <2>2
    <2>4. best \subseteq found
        OBVIOUS
    <2> HIDE DEF best
    <2>5. Min(best) \in best
        BY <2>3, MinOfPlaces
    <2> QED BY <1>1, <1>10, <1>12, <2>4, <2>5
<1> QED BY <1>11, <1>12

-----------------------------------------------------------------------------
(* Grounding, run by run *)

Boxes == {NoBox} \cup [lo : Int, hi : Int, source : {"llm", "pdf_text", "ocr"}, score : Int]
TypedLeaf == [value : [literal : Texts, stripped : Texts], pages : SUBSET Nat, bbox : Boxes]

\* What is known of a word that was read.
Sight(pw, w) == [page |-> pw.page, source |-> pw.source, lo |-> w.lo, hi |-> w.hi]
WordsSeen == \A k \in DOMAIN pages : \A w \in ToSet(pages[k].words) : Sight(pages[k], w) \in seen

\* Every match at hand lies in words of the pages at hand.
MatchesInv ==
    /\ flight \subseteq DOMAIN pages
    /\ DOMAIN llm = Field
    /\ \A f \in Field : llm[f] \in {NoMatch, Absent} \/ MatchOf(pages, llm[f])
    /\ phase \in {"start", "collected"} => llm = [f \in Field |-> Absent] /\ flight = {} /\ round = "idle"
    /\ phase = "matching" =>
         \A f \in ResidualTargets : results[f] = NoMatch \/ MatchOf(pages, results[f])

TruthInv ==
    /\ doc \in Docs /\ leaf \in [Field -> TypedLeaf]
    /\ TypedPages(pages) /\ WordsSeen
    /\ MatchesInv
    /\ GroundingIsTruthful

LEMMA LeafAsLeft ==
    ASSUME NEW l \in Leaves, NEW f \in Field
    PROVE  l[f] \in TypedLeaf /\ ~Grounded(l[f])
<1> DEFINE Left == {NoBox} \cup [lo : Int, hi : Int, source : {"llm"}, score : Int]
<1>1. l[f] \in [value : [literal : Texts, stripped : Texts], pages : SUBSET Nat, bbox : Left]
    BY LeafAssumption
<1>2. Left \subseteq Boxes /\ \A b \in Left : b.source \notin {"pdf_text", "ocr"}
    BY DEF Boxes, NoBox
<1> HIDE DEF Left
<1>3. l[f] \in TypedLeaf /\ l[f].bbox \in Left
    BY <1>1, <1>2 DEF TypedLeaf
<1> QED BY <1>2, <1>3 DEF Grounded

LEMMA TruthInit == RefinerInit => TruthInv
<1> SUFFICES ASSUME RefinerInit PROVE TruthInv
    OBVIOUS
<1>1. leaf \in [Field -> TypedLeaf] /\ \A f \in Field : ~Grounded(leaf[f])
    <2>1. leaf \in Leaves
        BY DEF RefinerInit
    <2>2. leaf = [f \in Field |-> leaf[f]]
        BY <2>1, LeafAssumption
    <2> QED BY <2>1, <2>2, LeafAsLeft
<1>2. TypedPages(pages) /\ WordsSeen
    BY DEF RefinerInit, TypedPages, WordsSeen
<1>3. MatchesInv
    BY DEF RefinerInit, MatcherIdle, MatchesInv
<1> QED BY <1>1, <1>2, <1>3 DEF RefinerInit, TruthInv, GroundingIsTruthful

\* Matches stay where they are while the pages do.
LEMMA SameWords ==
    ASSUME UNCHANGED pages, UNCHANGED seen, TypedPages(pages), WordsSeen
    PROVE  /\ TypedPages(pages)' /\ WordsSeen' /\ DOMAIN pages' = DOMAIN pages
           /\ \A m : MatchOf(pages', m) <=> MatchOf(pages, m)
BY DEF TypedPages, WordsSeen, MatchOf

LEMMA SameTruth ==
    ASSUME UNCHANGED leaf, seen \subseteq seen', GroundingIsTruthful
    PROVE  GroundingIsTruthful'
BY DEF GroundingIsTruthful

LEMMA CollectKeepsTruth == TruthInv /\ CollectWords => TruthInv'
<1> SUFFICES ASSUME TruthInv, CollectWords PROVE TruthInv'
    OBVIOUS
<1>1. phase = "start" /\ UNCHANGED <<results, llm, flight, round, doc, leaf>>
    BY DEF CollectWords
<1>2. llm = [f \in Field |-> Absent] /\ flight = {} /\ round = "idle"
    BY <1>1 DEF TruthInv, MatchesInv
<1>3. PICK works \in EngineStates : LET got == Collect(engine, doc, works) IN
         IF got = Raised
         THEN phase' = "end" /\ UNCHANGED <<pages, seen>>
         ELSE /\ phase' = "collected" /\ pages' = got
              /\ seen' = seen \cup UNION
                    {{[page |-> got[k].page, source |-> got[k].source, lo |-> w.lo, hi |-> w.hi] :
                        w \in ToSet(got[k].words)} : k \in DOMAIN got}
    BY DEF CollectWords
<1> DEFINE got == Collect(engine, doc, works)
<1>4. got = Raised \/ TypedPages(got)
    BY CollectedIsTyped DEF TruthInv
<1>5. CASE got = Raised
    <2>1. phase' = "end" /\ UNCHANGED <<pages, seen>>
        BY <1>3, <1>5
    <2>2. MatchesInv'
        BY <1>1, <1>2, <2>1 DEF MatchesInv
    <2> QED BY <1>1, <2>1, <2>2, SameWords, SameTruth DEF TruthInv
<1>6. CASE got # Raised
    <2>1. /\ phase' = "collected" /\ pages' = got
          /\ seen' = seen \cup UNION {{Sight(got[k], w) : w \in ToSet(got[k].words)} : k \in DOMAIN got}
        BY <1>3, <1>6 DEF Sight
    <2> HIDE DEF got
    <2>2. TypedPages(pages)' /\ WordsSeen'
        <3>1. TypedPages(pages')
            BY <1>4, <1>6, <2>1
        <3>2. \A k \in DOMAIN got : \A w \in ToSet(got[k].words) : Sight(got[k], w) \in seen'
            BY <2>1
        <3> QED BY <2>1, <3>1, <3>2 DEF TypedPages, WordsSeen
    <2>3. MatchesInv'
        BY <1>1, <1>2, <2>1 DEF MatchesInv
    <2>4. seen \subseteq seen'
        BY <2>1
    <2> QED BY <1>1, <2>2, <2>3, <2>4, SameTruth DEF TruthInv
<1> QED BY <1>5, <1>6

LEMMA StartKeepsTruth == TruthInv /\ StartMatching => TruthInv'
<1> SUFFICES ASSUME TruthInv, StartMatching PROVE TruthInv'
    OBVIOUS
<1> DEFINE ts == [f \in ResidualTargets |-> [value |-> leaf[f].value, candidates |-> leaf[f].pages]]
           fuzzy == [f \in DOMAIN ts |-> IF kind = "llm" THEN NoMatch
                                         ELSE Locate(ts[f].value, pages, ts[f].candidates)]
           residual == {f \in DOMAIN ts : fuzzy[f] = NoMatch}
           asked == UNION {TriedFirst(ts[f]) : f \in residual}
<1>1. /\ phase' = "matching" /\ UNCHANGED <<pages, doc, leaf, seen>>
      /\ results' = fuzzy
      /\ llm' = [f \in Field |-> IF kind # "fuzzy" /\ f \in residual THEN NoMatch ELSE Absent]
      /\ flight' = {} \/ flight' = asked
    BY DEF StartMatching, LocateAll
<1>2. ASSUME NEW f \in ResidualTargets PROVE fuzzy[f] = NoMatch \/ MatchOf(pages, fuzzy[f])
    <2>1. leaf[f].value.literal \in Texts /\ leaf[f].value.stripped \in Texts
        BY DEF TruthInv, TypedLeaf, ResidualTargets
    <2>2. TypedPages(pages)
        BY DEF TruthInv
    <2>3. fuzzy[f] = NoMatch \/ fuzzy[f] = Locate(leaf[f].value, pages, leaf[f].pages)
        OBVIOUS
    <2> HIDE DEF fuzzy
    <2> QED BY <2>1, <2>2, <2>3, LocateFinds
<1>3. asked \subseteq DOMAIN pages
    BY DEF TriedFirst, WithWords
<1>4. ResidualTargets' = ResidualTargets
    BY <1>1 DEF ResidualTargets
<1> HIDE DEF fuzzy, asked, residual, ts
<1>5. /\ TypedPages(pages)' /\ WordsSeen' /\ DOMAIN pages' = DOMAIN pages
      /\ \A m : MatchOf(pages', m) <=> MatchOf(pages, m)
    BY <1>1, SameWords DEF TruthInv
<1>6. MatchesInv'
    <2>1. flight' \subseteq DOMAIN pages'
        BY <1>1, <1>3, <1>5
    <2>2. DOMAIN llm' = Field /\ \A f \in Field : llm'[f] \in {NoMatch, Absent}
        BY <1>1
    <2>3. \A f \in ResidualTargets' : results'[f] = NoMatch \/ MatchOf(pages', results'[f])
        BY <1>1, <1>2, <1>4, <1>5
    <2> QED BY <1>1, <2>1, <2>2, <2>3 DEF MatchesInv
<1>7. GroundingIsTruthful'
    BY <1>1, SameTruth DEF TruthInv
<1> QED BY <1>1, <1>5, <1>6, <1>7 DEF TruthInv

LEMMA MatcherKeepsTruth ==
    ASSUME TruthInv, UNCHANGED <<pages, results, refinerVars>>, flight' \subseteq DOMAIN pages,
           DOMAIN llm' = Field,
           \A f \in Field : llm'[f] \in {NoMatch, Absent} \/ MatchOf(pages, llm'[f]),
           phase \notin {"start", "collected"}
    PROVE  TruthInv'
<1>1. UNCHANGED <<doc, leaf, phase, seen, pages, results>>
    BY DEF refinerVars
<1>2. /\ TypedPages(pages)' /\ WordsSeen' /\ DOMAIN pages' = DOMAIN pages
      /\ \A m : MatchOf(pages', m) <=> MatchOf(pages, m)
    BY <1>1, SameWords DEF TruthInv
<1>3. ResidualTargets' = ResidualTargets
    BY <1>1 DEF ResidualTargets
<1>4. MatchesInv'
    BY <1>1, <1>2, <1>3 DEF TruthInv, MatchesInv
<1> QED BY <1>1, <1>2, <1>4, SameTruth DEF TruthInv

LEMMA AnswerKeepsTruth ==
    ASSUME TruthInv, UNCHANGED refinerVars, NEW k \in flight, PageAnswers(k)
    PROVE  TruthInv'
<1>1. PICK named \in SUBSET Named : \E a \in [named -> [pick : Picks, confidence : Confidence]] :
         LET good == {f \in named : Acceptable(k, a[f])} IN
         /\ llm' = [f \in Field |-> IF f \notin good THEN llm[f] ELSE
                      KeepBest(llm[f], UnionBox(PickedWords(k, a[f].pick), pages[k].page,
                                                a[f].confidence))]
         /\ offered' = [f \in Field |-> IF f \notin good THEN offered[f]
                                        ELSE Max({offered[f], a[f].confidence})]
    BY DEF PageAnswers
<1>2. PICK a \in [named -> [pick : Picks, confidence : Confidence]] :
         LET good == {f \in named : Acceptable(k, a[f])} IN
         llm' = [f \in Field |-> IF f \notin good THEN llm[f] ELSE
                   KeepBest(llm[f], UnionBox(PickedWords(k, a[f].pick), pages[k].page, a[f].confidence))]
    BY <1>1
<1> DEFINE good == {f \in named : Acceptable(k, a[f])}
           match(f) == UnionBox(PickedWords(k, a[f].pick), pages[k].page, a[f].confidence)
           W == ToSet(pages[k].words)
<1>3. llm' = [f \in Field |-> IF f \notin good THEN llm[f] ELSE KeepBest(llm[f], match(f))]
    BY <1>2
<1>4. k \in DOMAIN pages /\ flight # {}
    BY DEF TruthInv, MatchesInv
<1>5. ASSUME NEW f \in good PROVE MatchOf(pages, match(f))
    <2>1. pages[k] \in TypedPage
        BY <1>4 DEF TruthInv, TypedPages
    <2>2. pages[k].words \in Seq(TypedWord)
        BY <2>1 DEF TypedPage
    <2>3. W \subseteq TypedWord /\ PickedWords(k, a[f].pick) \subseteq W
        BY <2>2, TypedWordsOf DEF PickedWords, ToSet
    <2>4. PickedWords(k, a[f].pick) # {} /\ a[f].confidence \in Int
        <3>1. f \in named /\ Acceptable(k, a[f])
            OBVIOUS
        <3>2. a[f] \in [pick : Picks, confidence : Confidence]
            BY <3>1
        <3>3. a[f].confidence \in 0 .. 100
            BY <3>2, NamedAssumption
        <3> QED BY <3>1, <3>3 DEF Acceptable
    <2> HIDE DEF W
    <2>5. match(f) \in MatchIn(pages[k].page, W)
        BY <2>3, <2>4, UnionIsMatch
    <2> QED BY <1>4, <2>5 DEF MatchOf, W
<1> HIDE DEF good, match
<1>6. ASSUME NEW f \in Field PROVE llm'[f] \in {NoMatch, Absent} \/ MatchOf(pages, llm'[f])
    <2>1. llm[f] \in {NoMatch, Absent} \/ MatchOf(pages, llm[f])
        BY DEF TruthInv, MatchesInv
    <2>2. llm'[f] = llm[f] \/ (f \in good /\ llm'[f] = match(f))
        BY <1>3 DEF KeepBest
    <2> QED BY <1>5, <2>1, <2>2
<1>7. phase \notin {"start", "collected"}
    BY <1>4 DEF TruthInv, MatchesInv
<1>8. UNCHANGED <<pages, results>> /\ flight' \subseteq DOMAIN pages /\ DOMAIN llm' = Field
    BY <1>3 DEF PageAnswers, TruthInv, MatchesInv
<1> QED BY <1>6, <1>7, <1>8, MatcherKeepsTruth

LEMMA OtherMatcherSteps ==
    ASSUME TruthInv, UNCHANGED refinerVars, (\E k \in flight : PageFails(k)) \/ SecondPass \/ SecondPassEnds
    PROVE  TruthInv'
<1>1. UNCHANGED <<pages, results, llm>>
    BY DEF PageFails, SecondPass, SecondPassEnds
<1>2. flight' \subseteq DOMAIN pages
    <2>1. CASE \E k \in flight : PageFails(k)
        BY <2>1 DEF PageFails, TruthInv, MatchesInv
    <2>2. CASE SecondPass
        BY <2>2 DEF SecondPass, TriedNext, WithWords
    <2>3. CASE SecondPassEnds
        BY <2>3 DEF SecondPassEnds, TruthInv, MatchesInv
    <2> QED BY <2>1, <2>2, <2>3
<1>3. flight # {} \/ round # "idle"
    BY DEF SecondPass, SecondPassEnds
<1>4. phase \notin {"start", "collected"}
    BY <1>3 DEF TruthInv, MatchesInv
<1> QED BY <1>1, <1>2, <1>4, MatcherKeepsTruth DEF TruthInv, MatchesInv

\* What is written to a leaf that is still to be grounded.
LEMMA RefinedLeaf ==
    ASSUME TruthInv, phase = "matching", NEW f \in ResidualTargets, NEW x, x = Refined(f)
    PROVE  /\ x \in TypedLeaf
           /\ Grounded(x) => \E p \in x.pages : \E v, w \in seen :
                /\ v.page = p /\ w.page = p
                /\ v.source = x.bbox.source /\ w.source = v.source
                /\ v.lo = x.bbox.lo /\ w.hi = x.bbox.hi
<1> DEFINE m == Located(f)
           old == leaf[f]
<1>0. f \in Field /\ old \in TypedLeaf /\ ~Grounded(old)
    BY DEF TruthInv, ResidualTargets
<1>1. m = NoMatch \/ MatchOf(pages, m)
    BY <1>0 DEF TruthInv, MatchesInv, Located
<1>2. x = IF m = NoMatch
          THEN [old EXCEPT !.bbox = IF @ = NoBox THEN NoBox ELSE [@ EXCEPT !.source = "llm", !.score = 0]]
          ELSE [old EXCEPT !.bbox = [lo |-> m.lo, hi |-> m.hi, source |-> PageSource(m.page),
                                     score |-> m.score],
                           !.pages = @ \cup {m.page}]
    BY DEF Refined
<1> HIDE DEF m, old
<1>3. CASE m = NoMatch
    <2> DEFINE b == IF old.bbox = NoBox THEN NoBox ELSE [old.bbox EXCEPT !.source = "llm", !.score = 0]
    <2>1. old.bbox \in Boxes
        BY <1>0 DEF TypedLeaf
    <2>2. b \in Boxes /\ b.source \notin {"pdf_text", "ocr"}
        <3>1. CASE old.bbox = NoBox
            BY <3>1 DEF Boxes, NoBox
        <3>2. CASE old.bbox # NoBox
            <4>1. /\ old.bbox = [lo |-> old.bbox.lo, hi |-> old.bbox.hi,
                                 source |-> old.bbox.source, score |-> old.bbox.score]
                  /\ old.bbox.lo \in Int /\ old.bbox.hi \in Int
                BY <2>1, <3>2 DEF Boxes
            <4>2. b = [lo |-> old.bbox.lo, hi |-> old.bbox.hi, source |-> "llm", score |-> 0]
                BY <3>2, <4>1
            <4> HIDE DEF b
            <4> QED BY <4>1, <4>2 DEF Boxes
        <3> QED BY <3>1, <3>2
    <2>3. x = [old EXCEPT !.bbox = b]
        BY <1>2, <1>3
    <2> HIDE DEF b
    <2>4. x \in TypedLeaf /\ x.bbox = b
        BY <1>0, <2>2, <2>3 DEF TypedLeaf
    <2> QED BY <2>2, <2>4 DEF Grounded
<1>4. CASE m # NoMatch
    <2>1. PICK k \in DOMAIN pages : m \in MatchIn(pages[k].page, ToSet(pages[k].words))
        BY <1>1, <1>4 DEF MatchOf
    <2>2. pages[k] \in TypedPage /\ \A j \in DOMAIN pages : pages[j].page = j
        BY DEF TruthInv, TypedPages
    <2>3. pages[k].page = k /\ k \in Nat /\ pages[k].source \in {"pdf_text", "ocr"}
        BY <2>2 DEF TypedPage
    <2>4. PageSource(k) = pages[k].source
        BY <2>2 DEF PageSource
    <2>5. m.page = k /\ m.score \in Int
        BY <2>1, <2>3, MatchIsFound
    <2>6. PICK v \in ToSet(pages[k].words), w \in ToSet(pages[k].words) : m.lo = v.lo /\ m.hi = w.hi
        BY <2>1 DEF MatchIn
    <2>7. v.lo \in Int /\ w.hi \in Int
        <3>1. pages[k].words \in Seq(TypedWord)
            BY <2>2 DEF TypedPage
        <3>2. v \in TypedWord /\ w \in TypedWord
            BY <2>6, <3>1, TypedWordsOf
        <3> QED BY <3>2 DEF TypedWord
    <2> DEFINE b == [lo |-> v.lo, hi |-> w.hi, source |-> pages[k].source, score |-> m.score]
    <2>8. b \in Boxes /\ b.source = pages[k].source /\ b.lo = v.lo /\ b.hi = w.hi
        BY <2>3, <2>5, <2>7 DEF Boxes
    <2>9. x = [old EXCEPT !.bbox = b, !.pages = @ \cup {k}]
        BY <1>2, <1>4, <2>4, <2>5, <2>6
    <2> HIDE DEF b
    <2>10. x \in TypedLeaf /\ x.bbox = b /\ k \in x.pages
        <3> DEFINE ps == old.pages \cup {k}
        <3>1. old = [value |-> old.value, pages |-> old.pages, bbox |-> old.bbox]
            BY <1>0 DEF TypedLeaf
        <3>2. old.value \in [literal : Texts, stripped : Texts] /\ ps \in SUBSET Nat /\ k \in ps
            BY <1>0, <2>3 DEF TypedLeaf
        <3>3. x = [value |-> old.value, pages |-> ps, bbox |-> b]
            BY <2>9, <3>1
        <3> HIDE DEF ps
        <3> QED BY <2>8, <3>2, <3>3 DEF TypedLeaf
    <2>11. Sight(pages[k], v) \in seen /\ Sight(pages[k], w) \in seen
        BY <2>6 DEF TruthInv, WordsSeen
    <2>12. /\ Sight(pages[k], v).page = k /\ Sight(pages[k], w).page = k
           /\ Sight(pages[k], v).source = b.source /\ Sight(pages[k], w).source = b.source
           /\ Sight(pages[k], v).lo = b.lo /\ Sight(pages[k], w).hi = b.hi
        BY <2>3, <2>8 DEF Sight
    <2> QED BY <2>10, <2>11, <2>12
<1> QED BY <1>3, <1>4

LEMMA ApplyKeepsTruth == TruthInv /\ ApplyMatches => TruthInv'
<1> SUFFICES ASSUME TruthInv, ApplyMatches PROVE TruthInv'
    OBVIOUS
<1>1. /\ phase = "matching" /\ phase' = "end"
      /\ leaf' = [f \in Field |-> IF f \in ResidualTargets THEN Refined(f) ELSE leaf[f]]
      /\ UNCHANGED <<pages, targets, results, llm, flight, round, doc, seen>>
    BY DEF ApplyMatches, matcherVars
<1>2. /\ TypedPages(pages)' /\ WordsSeen' /\ DOMAIN pages' = DOMAIN pages
      /\ \A m : MatchOf(pages', m) <=> MatchOf(pages, m)
    BY <1>1, SameWords DEF TruthInv
<1>3. MatchesInv'
    BY <1>1, <1>2 DEF TruthInv, MatchesInv
<1>4. ASSUME NEW f \in Field
      PROVE  /\ leaf'[f] \in TypedLeaf
             /\ Grounded(leaf'[f]) => \E p \in leaf'[f].pages : \E v, w \in seen :
                  /\ v.page = p /\ w.page = p
                  /\ v.source = leaf'[f].bbox.source /\ w.source = v.source
                  /\ v.lo = leaf'[f].bbox.lo /\ w.hi = leaf'[f].bbox.hi
    <2>1. CASE f \in ResidualTargets
        BY <1>1, <2>1, RefinedLeaf
    <2>2. CASE f \notin ResidualTargets
        BY <1>1, <2>2 DEF TruthInv, GroundingIsTruthful
    <2> QED BY <2>1, <2>2
<1>5. GroundingIsTruthful'
    <2>1. seen' = seen
        BY <1>1
    <2>2. \A f \in Field : Grounded(leaf[f])' <=> Grounded(leaf'[f])
        BY DEF Grounded
    <2> QED BY <1>4, <2>1, <2>2 DEF GroundingIsTruthful
<1>6. leaf' \in [Field -> TypedLeaf]
    BY <1>1, <1>4
<1> QED BY <1>1, <1>2, <1>3, <1>5, <1>6 DEF TruthInv

LEMMA TruthStep == TruthInv /\ [RefinerNext]_groundingVars => TruthInv'
<1> SUFFICES ASSUME TruthInv, [RefinerNext]_groundingVars PROVE TruthInv'
    OBVIOUS
<1>1. CASE CollectWords
    BY <1>1, CollectKeepsTruth
<1>2. CASE StartMatching
    BY <1>2, StartKeepsTruth
<1>3. CASE ApplyMatches
    BY <1>3, ApplyKeepsTruth
<1>4. CASE RunAgain
    <2>1. /\ phase' = "start" /\ pages' = <<>> /\ flight' = {} /\ round' = "idle"
          /\ llm' = [f \in Field |-> Absent] /\ UNCHANGED <<doc, leaf, seen>>
        BY <1>4 DEF RunAgain
    <2>2. TypedPages(pages)' /\ WordsSeen'
        BY <2>1 DEF TypedPages, WordsSeen
    <2>3. MatchesInv'
        BY <2>1 DEF MatchesInv
    <2> QED BY <2>1, <2>2, <2>3, SameTruth DEF TruthInv
<1>5. CASE LlmStep /\ UNCHANGED refinerVars
    <2>1. CASE \E k \in flight : PageAnswers(k)
        BY <1>5, <2>1, AnswerKeepsTruth
    <2>2. CASE ~ \E k \in flight : PageAnswers(k)
        <3>1. (\E k \in flight : PageFails(k)) \/ SecondPass \/ SecondPassEnds
            BY <1>5, <2>2 DEF LlmStep
        <3> QED BY <1>5, <3>1, OtherMatcherSteps
    <2> QED BY <2>1, <2>2
<1>6. CASE UNCHANGED groundingVars
    <2>1. UNCHANGED <<pages, results, llm, flight, round, doc, leaf, phase, seen>>
        BY <1>6 DEF groundingVars, matcherVars, refinerVars
    <2>2. /\ TypedPages(pages)' /\ WordsSeen' /\ DOMAIN pages' = DOMAIN pages
          /\ \A m : MatchOf(pages', m) <=> MatchOf(pages, m)
        BY <2>1, SameWords DEF TruthInv
    <2>3. ResidualTargets' = ResidualTargets
        BY <2>1 DEF ResidualTargets
    <2>4. MatchesInv'
        BY <2>1, <2>2, <2>3 DEF TruthInv, MatchesInv
    <2> QED BY <2>1, <2>2, <2>4, SameTruth DEF TruthInv
<1> QED BY <1>1, <1>2, <1>3, <1>4, <1>5, <1>6 DEF RefinerNext, Finished

\* Whatever the documents, the engines and the answers of the model are, the
\* edges of a grounded box are edges of words that its source read on a page
\* that the leaf names (BboxRefiner._replace_bbox, _page_source).
THEOREM GroundingTellsTheTruth == RefinerSpec => []GroundingIsTruthful
<1>1. TruthInv => GroundingIsTruthful
    BY DEF TruthInv
<1> QED BY <1>1, TruthInit, TruthStep, PTL DEF RefinerSpec
===============================================================================
