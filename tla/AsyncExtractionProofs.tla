------------------------ MODULE AsyncExtractionProofs -------------------------
(***************************************************************************)
(* Proofs about the two legs together: what they do to the table is the    *)
(* documented lifecycle and nothing else, and their webhooks agree with    *)
(* it. The facts about the main leg come from ExtractionWorkerProofs; the  *)
(* steps of the bbox workers are taken here as the instance Bbox has them. *)
(***************************************************************************)
EXTENDS AsyncExtraction, ExtractionWorkerProofs

-----------------------------------------------------------------------------
(* What may happen to a row *)

\* One UPDATE or INSERT of the main leg turns r, the row of extraction i, into s.
MainMove(i, r, s) ==
    \/ r.status = "absent" /\ s = NewRow
    \/ CanMarkCancelled(r) /\ s = MarkCancelled(r)
    \/ CanMarkRunning(r, Lease) /\ s = MarkRunning(r)
    \/ CanMarkSucceeded(r) /\ s = MarkSucceeded(r, i \in WantsBbox)
    \/ CanMarkFailed(r) /\ \E c \in Errors : s = MarkFailed(r, c)
    \/ CanRequeueForRetry(r) /\ s = RequeueForRetry(r)

\* One UPDATE of a bbox worker turns r into s.
LegMove(r, s) ==
    \/ Bbox!CanClaimBboxRefinement(r, RefineLease) /\ s = Bbox!ClaimBboxRefinement(r)
    \/ /\ Bbox!BboxLegRunning(r)
       /\ \/ s = Bbox!CompleteBboxRefinement(r)
          \/ s = Bbox!RequeueBboxRefinement(r)
          \/ \E c \in LegErrors : s = Bbox!FailBboxRefinement(r, c)

\* Nothing is stored for an extraction that was not submitted, only a succeeded
\* extraction has a leg, and its result is grounded exactly when the leg has
\* succeeded.
SoundRow(r) ==
    /\ r.status = "absent" => r.result = "none"
    /\ r.bbox # "null" => r.status = "succeeded"
    /\ r.result = "grounded" <=> r.bbox = "succeeded"

LEMMA MainMoves ==
    ASSUME NEW i \in Ids, NEW r \in Row, SoundRow(r), NEW s, MainMove(i, r, s)
    PROVE  /\ s \in Row /\ SoundRow(s)
           /\ s.bbox # r.bbox => r.bbox = "null"
<1>1. CASE r.status = "absent" /\ s = NewRow
    BY <1>1, NewRowTypes DEF SoundRow, NewRow, AbsentRow
<1>2. CASE CanMarkCancelled(r) /\ s = MarkCancelled(r)
    BY <1>2, MarkTypes DEF SoundRow, MarkCancelled, CanMarkCancelled, Row, Errors
<1>3. CASE CanMarkRunning(r, Lease) /\ s = MarkRunning(r)
    BY <1>3, MarkRunningType DEF SoundRow, MarkRunning, CanMarkRunning, IsStaleRunning, Row
<1>4. CASE CanMarkSucceeded(r) /\ s = MarkSucceeded(r, i \in WantsBbox)
    BY <1>4, MarkSucceededType DEF SoundRow, MarkSucceeded, CanMarkSucceeded, Row
<1>5. ASSUME NEW c \in Errors, CanMarkFailed(r), s = MarkFailed(r, c)
      PROVE  s \in Row /\ SoundRow(s) /\ s.bbox = r.bbox
    BY <1>5, MarkTypes DEF SoundRow, MarkFailed, CanMarkFailed, Row
<1>6. CASE CanRequeueForRetry(r) /\ s = RequeueForRetry(r)
    BY <1>6, MarkTypes DEF SoundRow, RequeueForRetry, CanRequeueForRetry, Row, Errors
<1> QED BY <1>1, <1>2, <1>3, <1>4, <1>5, <1>6 DEF MainMove

LEMMA LegClaimed ==
    ASSUME NEW r \in Row
    PROVE  LET s == Bbox!ClaimBboxRefinement(r) IN
           s \in Row /\ s.status = r.status /\ s.bbox = "running" /\ s.result = r.result
<1> DEFINE n == r.bboxAttempts + 1
<1>1. n \in Nat
    BY DEF Row
<1>2. Bbox!ClaimBboxRefinement(r)
        = [r EXCEPT !.bbox = "running", !.bboxStarted = TRUE, !.bboxAge = 0, !.bboxAttempts = n]
    BY DEF Bbox!ClaimBboxRefinement, Row
<1> HIDE DEF n
<1> QED BY ZeroAge, <1>1, <1>2 DEF Row, LegStatuses

LEMMA LegEnded ==
    ASSUME NEW r \in Row, NEW c \in LegErrors
    PROVE  /\ LET s == Bbox!CompleteBboxRefinement(r) IN
              s \in Row /\ s.status = r.status /\ s.bbox = "succeeded" /\ s.result = "grounded"
           /\ LET s == Bbox!RequeueBboxRefinement(r) IN
              s \in Row /\ s.status = r.status /\ s.bbox = "pending" /\ s.result = r.result
           /\ LET s == Bbox!FailBboxRefinement(r, c) IN
              s \in Row /\ s.status = r.status /\ s.bbox = "failed" /\ s.result = r.result
BY DEF Bbox!CompleteBboxRefinement, Bbox!RequeueBboxRefinement, Bbox!FailBboxRefinement, Row,
   LegStatuses, Results, LegErrors

LEMMA LegMoves ==
    ASSUME NEW r \in Row, SoundRow(r), NEW s, LegMove(r, s)
    PROVE  /\ s \in Row /\ SoundRow(s)
           /\ s.status = r.status
           /\ r.bbox \in {"pending", "running"}
<1>1. CASE Bbox!CanClaimBboxRefinement(r, RefineLease) /\ s = Bbox!ClaimBboxRefinement(r)
    BY <1>1, LegClaimed DEF SoundRow, Bbox!CanClaimBboxRefinement, Bbox!IsStaleBboxRefining
<1>2. ASSUME Bbox!BboxLegRunning(r), NEW c \in LegErrors,
             \/ s = Bbox!CompleteBboxRefinement(r)
             \/ s = Bbox!RequeueBboxRefinement(r)
             \/ s = Bbox!FailBboxRefinement(r, c)
      PROVE  /\ s \in Row /\ SoundRow(s)
             /\ s.status = r.status
             /\ r.bbox \in {"pending", "running"}
    BY <1>2, LegEnded DEF SoundRow, Bbox!BboxLegRunning
<1>3. "none" \in LegErrors
    BY DEF LegErrors
<1> QED BY <1>1, <1>2, <1>3 DEF LegMove

LEMMA AgedRowFacts ==
    ASSUME NEW r \in Row, SoundRow(r)
    PROVE  /\ SoundRow(AgedRow(r))
           /\ AgedRow(r).status = r.status /\ AgedRow(r).bbox = r.bbox
           /\ AgedRow(r).result = r.result
BY DEF SoundRow, AgedRow, Row

-----------------------------------------------------------------------------
(* What the bbox workers keep *)

RefineTask == [ pc : {"idle", "claim", "refine", "webhook", "except"}, id : Ids \cup {None},
                attempts : Nat, elapsed : Nat, permanent : BOOLEAN, finalised : BOOLEAN ]

RefineInv ==
    /\ refineTask \in [Refiner -> RefineTask]
    /\ \A w \in Refiner : refineTask[w].pc # "idle" => refineTask[w].id \in Ids
    /\ refineDelayed \subseteq [worker : Refiner, id : Ids, left : Nat]
    /\ refineHooks \in [Ids -> Nat]

\* The inductive invariant of the two legs' state.
AsyncInv == TypeInv /\ RefineInv /\ \A i \in Ids : SoundRow(row[i])

LEMMA RefineIdle == Bbox!IdleTask \in RefineTask /\ Bbox!IdleTask.pc = "idle"
BY DEF Bbox!IdleTask, RefineTask

LEMMA AsyncInit_Inv == AsyncInit => AsyncInv
<1> SUFFICES ASSUME AsyncInit PROVE AsyncInv
    OBVIOUS
<1>1. TypeInv
    BY TypeInit DEF AsyncInit
<1>2. RefineInv
    BY RefineIdle DEF AsyncInit, Bbox!Init, RefineInv
<1>3. \A i \in Ids : SoundRow(row[i])
    BY DEF AsyncInit, Init, SoundRow, AbsentRow
<1> QED BY <1>1, <1>2, <1>3 DEF AsyncInv

\* Every step ages the whole table, or does at most one of the moves to at most
\* one row.
TableStep ==
    \/ UNCHANGED row
    \/ row' = [i \in Ids |-> AgedRow(row[i])]
    \/ \E i \in Ids : \E s : /\ MainMove(i, row[i], s) \/ LegMove(row[i], s)
                             /\ row' = [row EXCEPT ![i] = s]

LEMMA MainTable ==
    ASSUME AsyncInv, Next
    PROVE  TableStep
<1>0. row \in [Ids -> Row] /\ \A t \in Tid : task[t].pc # "idle" => task[t].id \in Ids
    BY DEF AsyncInv, TypeInv, TypeOK, BusyHasId
<1>1. ASSUME NEW t \in Tid, ClaimWins(t) PROVE TableStep
    BY <1>0, <1>1 DEF ClaimWins, TableStep, MainMove
<1>2. ASSUME NEW t \in Tid, SucceedWins(t) \/ SucceedReplyLost(t) PROVE TableStep
    BY <1>0, <1>2 DEF SucceedWins, SucceedReplyLost, TableStep, MainMove
<1>3. ASSUME NEW t \in Tid, FailWins(t) PROVE TableStep
    <2>1. ErrorCode(t) \in Errors
        BY DEF ErrorCode, Errors
    <2> QED BY <1>0, <1>3, <2>1 DEF FailWins, TableStep, MainMove
<1>4. ASSUME NEW t \in Tid, RequeueWins(t) PROVE TableStep
    BY <1>0, <1>4 DEF RequeueWins, TableStep, MainMove
<1>5. ASSUME NEW i \in Ids, Submit(i) \/ Cancel(i) PROVE TableStep
    BY <1>0, <1>5 DEF Submit, Cancel, TableStep, MainMove
<1>6. CASE Tick
    BY <1>6 DEF Tick, TableStep
<1>7. ASSUME NEW t \in Tid, ProcessStep(t),
             ~ClaimWins(t), ~SucceedWins(t), ~SucceedReplyLost(t), ~FailWins(t), ~RequeueWins(t)
      PROVE  UNCHANGED row
    BY <1>7 DEF ProcessStep, ClaimLoses, ClaimRaises, RunRaises, SucceedLoses, NotifySucceeded,
       NotifyRaises, PublishRefine, PublishRefineRaises, FailLoses, NotifyFailed, RequeueLoses,
       ExceptRaises
<1>8. ASSUME NEW i \in Ids, ApiPublish(i) \/ ApiFails(i) \/ Lose(i) PROVE UNCHANGED row
    BY <1>8 DEF ApiPublish, ApiFails, Lose
<1>9. ASSUME NEW w \in Worker,
             \/ \E i \in Ids : Deliver(w, i)
             \/ PollSweep(w) \/ PollNext(w) \/ ReaperSweep(w) \/ Crash(w) \/ Restart(w)
      PROVE  UNCHANGED row
    BY <1>9 DEF Deliver, PollSweep, PollNext, ReaperSweep, Crash, Restart
<1>10. ASSUME NEW d \in delayed, DelayedPublish(d) PROVE UNCHANGED row
    BY <1>10 DEF DelayedPublish
<1>11. UNCHANGED row => TableStep
    BY DEF TableStep
<1>12. ASSUME NEW t \in Tid, ProcessStep(t) PROVE TableStep
    BY <1>1, <1>2, <1>3, <1>4, <1>7, <1>11, <1>12
<1> QED BY <1>5, <1>6, <1>8, <1>9, <1>10, <1>11, <1>12 DEF Next, ApiStep

\* A step of the bbox workers does at most one of their moves to at most one row.
LegTableStep ==
    \/ UNCHANGED row
    \/ \E i \in Ids : \E s : LegMove(row[i], s) /\ row' = [row EXCEPT ![i] = s]

LEMMA LegTable ==
    ASSUME AsyncInv, NEW w \in Refiner, Bbox!ProcessStep(w)
    PROVE  LegTableStep
<1>0. row \in [Ids -> Row] /\ (refineTask[w].pc # "idle" => refineTask[w].id \in Ids)
    BY DEF AsyncInv, TypeInv, TypeOK, RefineInv
<1>1. CASE Bbox!ClaimWins(w)
    BY <1>0, <1>1 DEF Bbox!ClaimWins, LegTableStep, LegMove
<1>2. CASE Bbox!CompleteWins(w) \/ Bbox!CompleteReplyLost(w)
    BY <1>0, <1>2
       DEF Bbox!CompleteWins, Bbox!CompleteReplyLost, Bbox!CanCompleteBboxRefinement, LegTableStep, LegMove
<1>3. CASE Bbox!FailWins(w)
    <2>1. Bbox!ErrorCode(w) \in LegErrors
        BY DEF Bbox!ErrorCode, LegErrors
    <2> QED BY <1>0, <1>3, <2>1 DEF Bbox!FailWins, Bbox!CanFailBboxRefinement, LegTableStep, LegMove
<1>4. CASE Bbox!RequeueWins(w)
    BY <1>0, <1>4 DEF Bbox!RequeueWins, Bbox!CanRequeueBboxRefinement, LegTableStep, LegMove
<1>5. CASE \/ Bbox!ClaimLoses(w) \/ Bbox!RefineRaises(w) \/ Bbox!CompleteLoses(w) \/ Bbox!Notify(w)
           \/ Bbox!NotifyRaises(w) \/ Bbox!FailLoses(w) \/ Bbox!RequeueLoses(w) \/ Bbox!Escapes(w)
    BY <1>5 DEF Bbox!ClaimLoses, Bbox!RefineRaises, Bbox!CompleteLoses, Bbox!Notify,
       Bbox!NotifyRaises, Bbox!FailLoses, Bbox!RequeueLoses, Bbox!Escapes, LegTableStep
<1> QED BY <1>1, <1>2, <1>3, <1>4, <1>5 DEF Bbox!ProcessStep

LEMMA RefineTable ==
    ASSUME AsyncInv, RefineStep
    PROVE  LegTableStep
<1>1. ASSUME NEW i \in Ids, Bbox!Lose(i) PROVE LegTableStep
    BY <1>1 DEF Bbox!Lose, LegTableStep
<1>2. ASSUME NEW w \in Refiner,
             (\E i \in Ids : Bbox!Deliver(w, i)) \/ Bbox!ReaperSweep(w)
             \/ Bbox!Crash(w) \/ Bbox!Restart(w)
      PROVE  LegTableStep
    BY <1>2 DEF Bbox!Deliver, Bbox!ReaperSweep, Bbox!Crash, Bbox!Restart, LegTableStep
<1>3. ASSUME NEW d \in refineDelayed, Bbox!DelayedPublish(d) PROVE LegTableStep
    BY <1>3 DEF Bbox!DelayedPublish, LegTableStep
<1> QED BY <1>1, <1>2, <1>3, LegTable DEF RefineStep

LEMMA MainStepIsNext == MainStep => Next
BY DEF MainStep, Next

LEMMA AsyncTable ==
    ASSUME AsyncInv, [AsyncNext]_asyncVars
    PROVE  TableStep
<1>1. CASE MainStep \/ Tick
    BY <1>1, MainStepIsNext, MainTable DEF Next
<1>2. CASE RefineStep
    BY <1>2, RefineTable DEF LegTableStep, TableStep
<1>3. CASE UNCHANGED asyncVars
    BY <1>3 DEF asyncVars, vars, TableStep
<1> QED BY <1>1, <1>2, <1>3 DEF AsyncNext

LEMMA TableTypes ==
    ASSUME AsyncInv, TableStep
    PROVE  /\ row' \in [Ids -> Row]
           /\ \A i \in Ids : SoundRow(row'[i])
           /\ \A i \in Ids : row[i].bbox \in LegTerminal => row'[i].bbox = row[i].bbox
<1>0. row \in [Ids -> Row] /\ \A i \in Ids : SoundRow(row[i])
    BY DEF AsyncInv, TypeInv, TypeOK
<1>1. CASE UNCHANGED row
    BY <1>0, <1>1
<1>2. CASE row' = [i \in Ids |-> AgedRow(row[i])]
    BY <1>0, <1>2, AgedRowType, AgedRowFacts
<1>3. ASSUME NEW i \in Ids, NEW s, MainMove(i, row[i], s) \/ LegMove(row[i], s),
             row' = [row EXCEPT ![i] = s]
      PROVE  /\ row' \in [Ids -> Row]
             /\ \A j \in Ids : SoundRow(row'[j])
             /\ \A j \in Ids : row[j].bbox \in LegTerminal => row'[j].bbox = row[j].bbox
    <2>1. s \in Row /\ SoundRow(s) /\ (row[i].bbox \in LegTerminal => s.bbox = row[i].bbox)
        BY <1>0, <1>3, MainMoves, LegMoves DEF LegTerminal
    <2> QED BY <1>0, <1>3, <2>1
<1> QED BY <1>1, <1>2, <1>3 DEF TableStep

\* What a step of a bbox worker's task does to that task.
LEMMA LegTask ==
    ASSUME AsyncInv, NEW w \in Refiner, Bbox!ProcessStep(w)
    PROVE  \E k \in RefineTask :
              /\ refineTask' = [refineTask EXCEPT ![w] = k]
              /\ k.pc # "idle" => k.id = refineTask[w].id /\ k.id \in Ids
              /\ k.pc = "webhook" => Bbox!CompleteWins(w)
<1> DEFINE i == refineTask[w].id
<1>0. /\ row \in [Ids -> Row] /\ refineTask \in [Refiner -> RefineTask]
      /\ refineTask[w] \in RefineTask
      /\ refineTask[w].pc # "idle" => i \in Ids
    BY DEF AsyncInv, TypeInv, TypeOK, RefineInv
<1>1. CASE Bbox!ClaimWins(w)
    <2> DEFINE n == row[i].bboxAttempts + 1
               k == [refineTask[w] EXCEPT !.pc = "refine", !.attempts = n]
    <2>1. i \in Ids /\ n \in Nat
        BY <1>0, <1>1 DEF Bbox!ClaimWins, Row
    <2>2. refineTask' = [refineTask EXCEPT ![w] = k]
        BY <1>0, <1>1 DEF Bbox!ClaimWins
    <2> HIDE DEF n
    <2>3. k \in RefineTask /\ k.id = i /\ k.pc = "refine"
        BY <1>0, <2>1 DEF RefineTask
    <2> QED BY <2>1, <2>2, <2>3
<1>2. CASE Bbox!RefineRaises(w) \/ Bbox!NotifyRaises(w)
    <2>1. PICK p \in BOOLEAN :
             refineTask' = [refineTask EXCEPT ![w].pc = "except", ![w].permanent = p]
        BY <1>2 DEF Bbox!RefineRaises, Bbox!NotifyRaises
    <2> DEFINE k == [refineTask[w] EXCEPT !.pc = "except", !.permanent = p]
    <2>2. refineTask' = [refineTask EXCEPT ![w] = k] /\ i \in Ids
        BY <1>0, <1>2, <2>1 DEF Bbox!RefineRaises, Bbox!NotifyRaises
    <2>3. k \in RefineTask /\ k.id = i /\ k.pc = "except"
        BY <1>0 DEF RefineTask
    <2> QED BY <2>2, <2>3
<1>3. CASE Bbox!CompleteWins(w)
    <2> DEFINE k == [refineTask[w] EXCEPT !.pc = "webhook", !.finalised = TRUE, !.elapsed = 0]
    <2>1. refineTask' = [refineTask EXCEPT ![w] = k] /\ i \in Ids
        BY <1>0, <1>3 DEF Bbox!CompleteWins
    <2>2. k \in RefineTask /\ k.id = i
        BY <1>0 DEF RefineTask
    <2> QED BY <1>3, <2>1, <2>2
<1>4. CASE Bbox!CompleteReplyLost(w)
    <2>1. PICK p \in BOOLEAN :
             refineTask' = [refineTask EXCEPT ![w].pc = "except", ![w].permanent = p,
                                              ![w].finalised = TRUE, ![w].elapsed = 0]
        BY <1>4 DEF Bbox!CompleteReplyLost
    <2> DEFINE k == [refineTask[w] EXCEPT !.pc = "except", !.permanent = p,
                                          !.finalised = TRUE, !.elapsed = 0]
    <2>2. refineTask' = [refineTask EXCEPT ![w] = k] /\ i \in Ids
        BY <1>0, <1>4, <2>1 DEF Bbox!CompleteReplyLost
    <2>3. k \in RefineTask /\ k.id = i /\ k.pc = "except"
        BY <1>0 DEF RefineTask
    <2> QED BY <2>2, <2>3
<1>5. CASE \/ Bbox!ClaimLoses(w) \/ Bbox!CompleteLoses(w) \/ Bbox!Notify(w) \/ Bbox!FailWins(w)
           \/ Bbox!FailLoses(w) \/ Bbox!RequeueWins(w) \/ Bbox!RequeueLoses(w) \/ Bbox!Escapes(w)
    <2>1. refineTask' = [refineTask EXCEPT ![w] = Bbox!IdleTask]
        BY <1>5 DEF Bbox!ClaimLoses, Bbox!CompleteLoses, Bbox!Notify, Bbox!FailWins,
           Bbox!FailLoses, Bbox!RequeueWins, Bbox!RequeueLoses, Bbox!Escapes
    <2> QED BY <2>1, RefineIdle
<1> QED BY <1>1, <1>2, <1>3, <1>4, <1>5 DEF Bbox!ProcessStep

LEMMA RefineTaskUpdate ==
    ASSUME RefineInv, NEW w \in Refiner, NEW k \in RefineTask, k.pc # "idle" => k.id \in Ids,
           refineTask' = [refineTask EXCEPT ![w] = k]
    PROVE  /\ refineTask' \in [Refiner -> RefineTask]
           /\ \A v \in Refiner : refineTask'[v].pc # "idle" => refineTask'[v].id \in Ids
BY DEF RefineInv

\* A step of a bbox worker keeps its own state well-formed, and the bus to it.
LEMMA RefineTypes ==
    ASSUME AsyncInv, RefineStep
    PROVE  RefineInv' /\ refineBus' \subseteq Ids
<1>0. /\ refineTask \in [Refiner -> RefineTask]
      /\ \A w \in Refiner : refineTask[w].pc # "idle" => refineTask[w].id \in Ids
      /\ refineDelayed \subseteq [worker : Refiner, id : Ids, left : Nat]
      /\ refineHooks \in [Ids -> Nat]
      /\ refineBus \subseteq Ids
      /\ RefineInv
    BY DEF AsyncInv, RefineInv, TypeInv, TypeOK
<1>1. ASSUME NEW i \in Ids, Bbox!Lose(i) PROVE RefineInv' /\ refineBus' \subseteq Ids
    BY <1>0, <1>1 DEF Bbox!Lose, RefineInv
<1>2. ASSUME NEW w \in Refiner, NEW i \in Ids, Bbox!Deliver(w, i)
      PROVE  RefineInv' /\ refineBus' \subseteq Ids
    <2> DEFINE k == [Bbox!IdleTask EXCEPT !.pc = "claim", !.id = i]
    <2>1. k \in RefineTask /\ k.id = i
        BY RefineIdle DEF RefineTask
    <2>2. refineTask' = [refineTask EXCEPT ![w] = k]
        BY <1>2 DEF Bbox!Deliver
    <2> HIDE DEF k
    <2>3. /\ refineTask' \in [Refiner -> RefineTask]
          /\ \A v \in Refiner : refineTask'[v].pc # "idle" => refineTask'[v].id \in Ids
        BY <1>0, <2>1, <2>2, RefineTaskUpdate
    <2> QED BY <1>0, <1>2, <2>3 DEF Bbox!Deliver, RefineInv
<1>3. ASSUME NEW w \in Refiner, Bbox!ProcessStep(w) PROVE RefineInv' /\ refineBus' \subseteq Ids
    <2>1. /\ refineTask' \in [Refiner -> RefineTask]
          /\ \A v \in Refiner : refineTask'[v].pc # "idle" => refineTask'[v].id \in Ids
        <3>1. PICK k \in RefineTask :
                 /\ refineTask' = [refineTask EXCEPT ![w] = k]
                 /\ k.pc # "idle" => k.id = refineTask[w].id /\ k.id \in Ids
            BY <1>3, LegTask
        <3> QED BY <1>0, <3>1, RefineTaskUpdate
    <2>2. CASE Bbox!RequeueWins(w)
        <3>1. refineTask[w].id \in Ids
            BY <1>0, <2>2 DEF Bbox!RequeueWins
        <3>2. \A d \in Bbox!BackoffDelays(refineTask[w].attempts) : d \in Nat
            BY RetryAssumption DEF Bbox!BackoffDelays
        <3>3. refineDelayed' \subseteq [worker : Refiner, id : Ids, left : Nat]
            BY <1>0, <2>2, <3>1, <3>2 DEF Bbox!RequeueWins
        <3> QED BY <1>0, <2>1, <2>2, <3>3 DEF Bbox!RequeueWins, RefineInv
    <2>3. CASE Bbox!Notify(w) \/ Bbox!NotifyRaises(w)
        <3>1. refineTask[w].id \in Ids
            BY <1>0, <2>3 DEF Bbox!Notify, Bbox!NotifyRaises
        <3>2. refineHooks' \in [Ids -> Nat]
            BY <1>0, <2>3, <3>1 DEF Bbox!Notify, Bbox!NotifyRaises, Bbox!Notified
        <3> QED BY <1>0, <2>1, <2>3, <3>2 DEF Bbox!Notify, Bbox!NotifyRaises, RefineInv
    <2>4. CASE \/ Bbox!ClaimWins(w) \/ Bbox!ClaimLoses(w) \/ Bbox!RefineRaises(w)
               \/ Bbox!CompleteWins(w) \/ Bbox!CompleteReplyLost(w) \/ Bbox!CompleteLoses(w)
               \/ Bbox!FailWins(w) \/ Bbox!FailLoses(w) \/ Bbox!RequeueLoses(w) \/ Bbox!Escapes(w)
        BY <1>0, <2>1, <2>4 DEF Bbox!ClaimWins, Bbox!ClaimLoses, Bbox!RefineRaises,
           Bbox!CompleteWins, Bbox!CompleteReplyLost, Bbox!CompleteLoses, Bbox!FailWins,
           Bbox!FailLoses, Bbox!RequeueLoses, Bbox!Escapes, RefineInv
    <2> QED BY <1>3, <2>2, <2>3, <2>4 DEF Bbox!ProcessStep
<1>4. ASSUME NEW w \in Refiner, Bbox!ReaperSweep(w) \/ Bbox!Restart(w)
      PROVE  RefineInv' /\ refineBus' \subseteq Ids
    BY <1>0, <1>4 DEF Bbox!ReaperSweep, Bbox!Orphans, Bbox!Restart, RefineInv
<1>5. ASSUME NEW w \in Refiner, Bbox!Crash(w) PROVE RefineInv' /\ refineBus' \subseteq Ids
    <2>1. /\ refineTask' \in [Refiner -> RefineTask]
          /\ \A v \in Refiner : refineTask'[v].pc # "idle" => refineTask'[v].id \in Ids
        BY <1>0, <1>5, RefineIdle, RefineTaskUpdate DEF Bbox!Crash
    <2> QED BY <1>0, <1>5, <2>1 DEF Bbox!Crash, RefineInv
<1>6. ASSUME NEW d \in refineDelayed, Bbox!DelayedPublish(d)
      PROVE  RefineInv' /\ refineBus' \subseteq Ids
    BY <1>0, <1>6 DEF Bbox!DelayedPublish, RefineInv
<1> QED BY <1>1, <1>2, <1>3, <1>4, <1>5, <1>6 DEF RefineStep

\* Time keeps the bbox workers' state well-formed.
LEMMA RefineTickTypes ==
    ASSUME AsyncInv, Bbox!Tick
    PROVE  /\ RefineInv'
           /\ \A w \in Refiner : refineTask'[w].pc = refineTask[w].pc
                                 /\ refineTask'[w].id = refineTask[w].id
           /\ UNCHANGED refineHooks
<1>0. /\ refineTask \in [Refiner -> RefineTask]
      /\ \A w \in Refiner : refineTask[w].pc # "idle" => refineTask[w].id \in Ids
      /\ refineDelayed \subseteq [worker : Refiner, id : Ids, left : Nat]
      /\ refineHooks \in [Ids -> Nat]
    BY DEF AsyncInv, RefineInv
<1>1. refineDelayed' \subseteq [worker : Refiner, id : Ids, left : Nat]
    <2>1. \A d \in refineDelayed : [d EXCEPT !.left = IF @ = 0 THEN 0 ELSE @ - 1]
                                      \in [worker : Refiner, id : Ids, left : Nat]
        BY <1>0
    <2> QED BY <2>1 DEF Bbox!Tick
<1>2. ASSUME NEW w \in Refiner
      PROVE  /\ refineTask'[w] \in RefineTask
             /\ refineTask'[w].pc = refineTask[w].pc /\ refineTask'[w].id = refineTask[w].id
    <2>1. CASE ~Bbox!Owns(w)
        BY <1>0, <2>1 DEF Bbox!Tick
    <2>2. CASE Bbox!Owns(w)
        <3> DEFINE n == refineTask[w].elapsed + 1
        <3>1. refineTask'[w] = [refineTask[w] EXCEPT !.elapsed = n] /\ n \in Nat
            BY <1>0, <2>2 DEF Bbox!Tick, RefineTask
        <3> HIDE DEF n
        <3> QED BY <1>0, <3>1 DEF RefineTask
    <2> QED BY <2>1, <2>2
<1>3. refineTask' \in [Refiner -> RefineTask]
    BY <1>2 DEF Bbox!Tick
<1>4. UNCHANGED refineHooks
    BY DEF Bbox!Tick
<1> QED BY <1>0, <1>1, <1>2, <1>3, <1>4 DEF RefineInv

LEMMA AsyncStep ==
    ASSUME AsyncInv, [AsyncNext]_asyncVars
    PROVE  AsyncInv'
<1>1. row' \in [Ids -> Row] /\ \A i \in Ids : SoundRow(row'[i])
    BY AsyncTable, TableTypes
<1>2. CASE MainStep
    <2>1. TypeInv'
        BY <1>2, MainStepIsNext, TypeStep DEF AsyncInv
    <2>2. RefineInv'
        BY <1>2 DEF MainStep, refineVars, AsyncInv, RefineInv
    <2> QED BY <1>1, <2>1, <2>2 DEF AsyncInv
<1>3. CASE RefineStep
    <2>1. RefineInv' /\ refineBus' \subseteq Ids
        BY <1>3, RefineTypes
    <2>2. UNCHANGED <<api, jobsBus, task, delayed, up, hooks, faults>>
        BY <1>3 DEF RefineStep, mainVars
    <2>3. TypeInv'
        BY <1>1, <2>1, <2>2 DEF AsyncInv, TypeInv, TypeOK, BusyHasId
    <2> QED BY <1>1, <2>1, <2>3 DEF AsyncInv
<1>4. CASE Tick /\ Bbox!Tick
    <2>1. TypeInv'
        BY <1>4, TypeStep DEF AsyncInv, Next
    <2>2. RefineInv'
        BY <1>4, RefineTickTypes
    <2> QED BY <1>1, <2>1, <2>2 DEF AsyncInv
<1>5. CASE UNCHANGED asyncVars
    BY <1>5 DEF asyncVars, vars, refineVars, AsyncInv, TypeInv, TypeOK, BusyHasId, RefineInv
<1> QED BY <1>2, <1>3, <1>4, <1>5 DEF AsyncNext

-----------------------------------------------------------------------------
(* The two legs implement the lifecycle *)

\* What a caller sees of the table after one row was replaced.
LEMMA SeenRow ==
    ASSUME row \in [Ids -> Row], NEW i \in Ids, NEW s, row' = [row EXCEPT ![i] = s]
    PROVE  /\ [j \in Ids |-> row'[j].status]
                = [[j \in Ids |-> row[j].status] EXCEPT ![i] = s.status]
           /\ [j \in Ids |-> row'[j].bbox]
                = [[j \in Ids |-> row[j].bbox] EXCEPT ![i] = s.bbox]
           /\ [j \in Ids |-> row'[j].result]
                = [[j \in Ids |-> row[j].result] EXCEPT ![i] = s.result]
OBVIOUS

\* A replacement the caller sees nothing of.
LEMMA SeenNothing ==
    ASSUME row \in [Ids -> Row],
           \A i \in Ids : /\ row'[i].status = row[i].status
                          /\ row'[i].bbox = row[i].bbox /\ row'[i].result = row[i].result
    PROVE  UNCHANGED Caller!lifecycleVars
BY DEF Caller!lifecycleVars

\* An UPDATE of the main leg is a transition of the main status.
LEMMA MainMoveIsSeen ==
    ASSUME AsyncInv, NEW i \in Ids, NEW s, MainMove(i, row[i], s), row' = [row EXCEPT ![i] = s]
    PROVE  [Caller!LifecycleNext]_(Caller!lifecycleVars)
<1> DEFINE r == row[i]
           St == [j \in Ids |-> row[j].status]
           Lg == [j \in Ids |-> row[j].bbox]
           Rs == [j \in Ids |-> row[j].result]
<1>0. /\ row \in [Ids -> Row] /\ r \in Row /\ SoundRow(r)
      /\ St[i] = r.status /\ Lg[i] = r.bbox /\ Rs[i] = r.result
    BY DEF AsyncInv, TypeInv, TypeOK
<1>1. /\ St' = [St EXCEPT ![i] = s.status]
      /\ Lg' = [Lg EXCEPT ![i] = s.bbox]
      /\ Rs' = [Rs EXCEPT ![i] = s.result]
    BY <1>0, SeenRow
<1>2. s.bbox = r.bbox => Lg' = Lg
    BY <1>0, <1>1
<1>3. s.result = r.result => Rs' = Rs
    BY <1>0, <1>1
<1>4. s.status = r.status => St' = St
    BY <1>0, <1>1
<1> HIDE DEF St, Lg, Rs
<1>5. CASE r.status = "absent" /\ s = NewRow
    <2>1. s.status = "queued" /\ s.bbox = r.bbox /\ s.result = r.result
        BY <1>0, <1>5 DEF NewRow, AbsentRow, SoundRow, Row
    <2>2. Caller!Accepted(i)
        BY <1>0, <1>1, <1>2, <1>3, <1>5, <2>1 DEF Caller!Accepted, Caller!MoveTo, St, Lg, Rs
    <2> QED BY <2>2 DEF Caller!LifecycleNext, Caller!LifecycleStep
<1>6. CASE CanMarkCancelled(r) /\ s = MarkCancelled(r)
    <2>1. s.status = "cancelled" /\ s.bbox = r.bbox /\ s.result = r.result
        BY <1>0, <1>6 DEF MarkCancelled, Row
    <2>2. Caller!Cancelled(i)
        BY <1>0, <1>1, <1>2, <1>3, <1>6, <2>1
           DEF Caller!Cancelled, Caller!MoveTo, CanMarkCancelled, St, Lg, Rs
    <2> QED BY <2>2 DEF Caller!LifecycleNext, Caller!LifecycleStep
<1>7. CASE CanMarkRunning(r, Lease) /\ s = MarkRunning(r)
    <2>1. s.status = "running" /\ s.bbox = r.bbox /\ s.result = r.result
        BY <1>0, <1>7 DEF MarkRunning, Row
    <2>2. CASE r.status = "queued"
        <3>1. Caller!Started(i)
            BY <1>0, <1>1, <1>2, <1>3, <2>1, <2>2 DEF Caller!Started, Caller!MoveTo, St, Lg, Rs
        <3> QED BY <3>1 DEF Caller!LifecycleNext, Caller!LifecycleStep
    <2>3. CASE r.status = "running"
        BY <1>2, <1>3, <1>4, <2>1, <2>3 DEF Caller!lifecycleVars, St, Lg, Rs
    <2> QED BY <1>7, <2>2, <2>3 DEF CanMarkRunning, IsStaleRunning
<1>8. CASE CanMarkSucceeded(r) /\ s = MarkSucceeded(r, i \in WantsBbox)
    <2>1. /\ s.status = "succeeded" /\ s.result = "llm"
          /\ s.bbox = IF i \in WantsBbox THEN "pending" ELSE r.bbox
        BY <1>0, <1>8 DEF MarkSucceeded, Row
    <2>2. Caller!Succeeded(i)
        BY <1>0, <1>1, <1>8, <2>1 DEF Caller!Succeeded, CanMarkSucceeded, St, Lg, Rs
    <2> QED BY <2>2 DEF Caller!LifecycleNext, Caller!LifecycleStep
<1>9. ASSUME CanMarkFailed(r), NEW c \in Errors, s = MarkFailed(r, c)
      PROVE  Caller!LifecycleNext
    <2>1. s.status = "failed" /\ s.bbox = r.bbox /\ s.result = r.result
        BY <1>0, <1>9 DEF MarkFailed, Row
    <2>2. Caller!Failed(i)
        BY <1>0, <1>1, <1>2, <1>3, <1>9, <2>1
           DEF Caller!Failed, Caller!MoveTo, CanMarkFailed, St, Lg, Rs
    <2> QED BY <2>2 DEF Caller!LifecycleNext, Caller!LifecycleStep
<1>10. CASE CanRequeueForRetry(r) /\ s = RequeueForRetry(r)
    <2>1. s.status = "queued" /\ s.bbox = r.bbox /\ s.result = r.result
        BY <1>0, <1>10 DEF RequeueForRetry, Row
    <2>2. Caller!Retried(i)
        BY <1>0, <1>1, <1>2, <1>3, <1>10, <2>1
           DEF Caller!Retried, Caller!MoveTo, CanRequeueForRetry, St, Lg, Rs
    <2> QED BY <2>2 DEF Caller!LifecycleNext, Caller!LifecycleStep
<1> QED BY <1>5, <1>6, <1>7, <1>8, <1>9, <1>10 DEF MainMove

\* An UPDATE of a bbox worker is a transition of the leg.
LEMMA LegMoveIsSeen ==
    ASSUME AsyncInv, NEW i \in Ids, NEW s, LegMove(row[i], s), row' = [row EXCEPT ![i] = s]
    PROVE  [Caller!LifecycleNext]_(Caller!lifecycleVars)
<1> DEFINE r == row[i]
           St == [j \in Ids |-> row[j].status]
           Lg == [j \in Ids |-> row[j].bbox]
           Rs == [j \in Ids |-> row[j].result]
<1>0. /\ row \in [Ids -> Row] /\ r \in Row /\ SoundRow(r)
      /\ St[i] = r.status /\ Lg[i] = r.bbox /\ Rs[i] = r.result
    BY DEF AsyncInv, TypeInv, TypeOK
<1>1. /\ St' = [St EXCEPT ![i] = s.status]
      /\ Lg' = [Lg EXCEPT ![i] = s.bbox]
      /\ Rs' = [Rs EXCEPT ![i] = s.result]
    BY <1>0, SeenRow
<1>2. s.bbox = r.bbox => Lg' = Lg
    BY <1>0, <1>1
<1>3. s.result = r.result => Rs' = Rs
    BY <1>0, <1>1
<1>4. s.status = r.status => St' = St
    BY <1>0, <1>1
<1> HIDE DEF St, Lg, Rs
<1>5. CASE Bbox!CanClaimBboxRefinement(r, RefineLease) /\ s = Bbox!ClaimBboxRefinement(r)
    <2>1. s.status = r.status /\ s.bbox = "running" /\ s.result = r.result
        BY <1>0, <1>5, LegClaimed
    <2>2. CASE r.bbox = "pending"
        <3>1. Caller!LegStarted(i)
            BY <1>0, <1>1, <1>3, <1>4, <1>5, <2>1, <2>2
               DEF Caller!LegStarted, Caller!MoveLegTo, Bbox!CanClaimBboxRefinement, St, Lg, Rs
        <3> QED BY <3>1 DEF Caller!LifecycleNext, Caller!LifecycleStep
    <2>3. CASE r.bbox = "running"
        BY <1>2, <1>3, <1>4, <2>1, <2>3 DEF Caller!lifecycleVars, St, Lg, Rs
    <2> QED BY <1>5, <2>2, <2>3 DEF Bbox!CanClaimBboxRefinement, Bbox!IsStaleBboxRefining
<1>6. ASSUME Bbox!BboxLegRunning(r), NEW c \in LegErrors,
             \/ s = Bbox!CompleteBboxRefinement(r)
             \/ s = Bbox!RequeueBboxRefinement(r)
             \/ s = Bbox!FailBboxRefinement(r, c)
      PROVE  Caller!LifecycleNext
    <2>0. r.status = "succeeded" /\ r.bbox = "running"
        BY <1>6 DEF Bbox!BboxLegRunning
    <2>1. CASE s = Bbox!CompleteBboxRefinement(r)
        <3>1. s.status = r.status /\ s.bbox = "succeeded" /\ s.result = "grounded"
            BY <1>0, <1>6, <2>1, LegEnded
        <3>2. Caller!LegSucceeded(i)
            BY <1>0, <1>1, <1>4, <2>0, <3>1 DEF Caller!LegSucceeded, St, Lg, Rs
        <3> QED BY <3>2 DEF Caller!LifecycleNext, Caller!LifecycleStep
    <2>2. CASE s = Bbox!RequeueBboxRefinement(r)
        <3>1. s.status = r.status /\ s.bbox = "pending" /\ s.result = r.result
            BY <1>0, <1>6, <2>2, LegEnded
        <3>2. Caller!LegRetried(i)
            BY <1>0, <1>1, <1>3, <1>4, <2>0, <3>1
               DEF Caller!LegRetried, Caller!MoveLegTo, St, Lg, Rs
        <3> QED BY <3>2 DEF Caller!LifecycleNext, Caller!LifecycleStep
    <2>3. CASE s = Bbox!FailBboxRefinement(r, c)
        <3>1. s.status = r.status /\ s.bbox = "failed" /\ s.result = r.result
            BY <1>0, <1>6, <2>3, LegEnded
        <3>2. Caller!LegFailed(i)
            BY <1>0, <1>1, <1>3, <1>4, <2>0, <3>1
               DEF Caller!LegFailed, Caller!MoveLegTo, St, Lg, Rs
        <3> QED BY <3>2 DEF Caller!LifecycleNext, Caller!LifecycleStep
    <2> QED BY <1>6, <2>1, <2>2, <2>3
<1>7. "none" \in LegErrors
    BY DEF LegErrors
<1> QED BY <1>5, <1>6, <1>7 DEF LegMove

\* Every step of the two legs is a step of the lifecycle or shows the caller
\* nothing.
LEMMA LifecycleStepOrStutter ==
    ASSUME AsyncInv, [AsyncNext]_asyncVars
    PROVE  [Caller!LifecycleNext]_(Caller!lifecycleVars)
<1>0. row \in [Ids -> Row] /\ \A i \in Ids : SoundRow(row[i])
    BY DEF AsyncInv, TypeInv, TypeOK
<1>1. CASE UNCHANGED row
    BY <1>0, <1>1, SeenNothing
<1>2. CASE row' = [i \in Ids |-> AgedRow(row[i])]
    BY <1>0, <1>2, AgedRowFacts, SeenNothing
<1> QED BY <1>1, <1>2, AsyncTable, MainMoveIsSeen, LegMoveIsSeen DEF TableStep

\* Claims, stalls, take-overs, retries, redeliveries and crashes of both legs
\* show a caller nothing but the documented lifecycle of status, leg and stored
\* result.
THEOREM AsyncImplementsLifecycle == AsyncSpec => ImplementsLifecycle
<1>1. AsyncInit => Caller!LifecycleInit
    BY DEF AsyncInit, Init, AbsentRow, Caller!LifecycleInit
<1>2. AsyncInv /\ [AsyncNext]_asyncVars => AsyncInv' /\ [Caller!LifecycleNext]_(Caller!lifecycleVars)
    BY AsyncStep, LifecycleStepOrStutter
<1> QED BY <1>1, <1>2, AsyncInit_Inv, PTL DEF AsyncSpec, ImplementsLifecycle, Caller!Lifecycle

-----------------------------------------------------------------------------
(* The webhooks of the two legs *)

\* A bbox worker about to send its webhook is the only one for its extraction,
\* nothing has been sent yet and the leg has succeeded.
RefineNotifierInv ==
    /\ \A w \in Refiner : refineTask[w].pc = "webhook" =>
          /\ refineHooks[refineTask[w].id] = 0
          /\ row[refineTask[w].id].bbox = "succeeded"
    /\ \A v, w \in Refiner : /\ refineTask[v].pc = "webhook" /\ refineTask[w].pc = "webhook"
                             /\ refineTask[v].id = refineTask[w].id
                             => v = w

RefineHookInv == RefineNotifierInv /\ Bbox!PostProcessingWebhookOnce

LEMMA RefineHookInit == AsyncInit => RefineHookInv
BY RefineIdle DEF AsyncInit, Bbox!Init, RefineHookInv, RefineNotifierInv, Bbox!PostProcessingWebhookOnce

\* A step that starts no refinement webhook and makes no bbox worker a notifier.
LEMMA QuietRefineHooks ==
    ASSUME AsyncInv, RefineHookInv, TableStep, UNCHANGED refineHooks,
           \A w \in Refiner : refineTask'[w].pc = "webhook" =>
                                 refineTask[w].pc = "webhook" /\ refineTask'[w].id = refineTask[w].id
    PROVE  RefineHookInv'
<1>1. \A i \in Ids : row[i].bbox = "succeeded" => row'[i].bbox = "succeeded"
    BY TableTypes DEF LegTerminal
<1>2. \A w \in Refiner : refineTask[w].pc = "webhook" => refineTask[w].id \in Ids
    BY DEF AsyncInv, RefineInv
<1>3. RefineNotifierInv'
    BY <1>1, <1>2 DEF RefineHookInv, RefineNotifierInv
<1>4. Bbox!PostProcessingWebhookOnce'
    BY <1>1 DEF RefineHookInv, Bbox!PostProcessingWebhookOnce
<1> QED BY <1>3, <1>4 DEF RefineHookInv

\* Notify and NotifyRaises of a bbox worker.
LEMMA SendingRefineHooks ==
    ASSUME AsyncInv, RefineHookInv, UNCHANGED row,
           NEW w \in Refiner, refineTask[w].pc = "webhook",
           refineHooks' = Bbox!Notified(refineTask[w].id),
           NEW k, refineTask' = [refineTask EXCEPT ![w] = k], k.pc # "webhook"
    PROVE  RefineHookInv'
<1> DEFINE i == refineTask[w].id
<1>0. refineTask \in [Refiner -> RefineTask] /\ refineHooks \in [Ids -> Nat]
    BY DEF AsyncInv, RefineInv
<1>1. i \in Ids /\ refineHooks[i] = 0 /\ row[i].bbox = "succeeded"
    BY DEF AsyncInv, RefineInv, RefineHookInv, RefineNotifierInv
<1>2. refineTask'[w] = k /\ \A v \in Refiner \ {w} : refineTask'[v] = refineTask[v]
    BY <1>0
<1>3. \A v \in Refiner \ {w} : refineTask[v].pc = "webhook" =>
          refineTask[v].id # i /\ refineTask[v].id \in Ids
    BY DEF RefineHookInv, RefineNotifierInv, AsyncInv, RefineInv
<1>4. (\A j \in Ids \ {i} : refineHooks'[j] = refineHooks[j]) /\ refineHooks'[i] \in {0, 1}
    BY <1>0, <1>1 DEF Bbox!Notified
<1>5. RefineNotifierInv'
    BY <1>2, <1>3, <1>4 DEF RefineHookInv, RefineNotifierInv
<1>6. Bbox!PostProcessingWebhookOnce'
    BY <1>1, <1>4 DEF RefineHookInv, Bbox!PostProcessingWebhookOnce
<1> QED BY <1>5, <1>6 DEF RefineHookInv

\* CompleteWins: only one bbox worker can end a leg that is running.
LEMMA CompletingRefineHooks ==
    ASSUME AsyncInv, RefineHookInv, NEW w \in Refiner, Bbox!CompleteWins(w)
    PROVE  RefineHookInv'
<1> DEFINE i == refineTask[w].id
           k == [refineTask[w] EXCEPT !.pc = "webhook", !.finalised = TRUE, !.elapsed = 0]
<1>0. /\ refineTask \in [Refiner -> RefineTask] /\ refineTask[w] \in RefineTask
      /\ row \in [Ids -> Row] /\ refineHooks \in [Ids -> Nat]
    BY DEF AsyncInv, RefineInv, TypeInv, TypeOK
<1>1. i \in Ids /\ row[i].bbox = "running" /\ UNCHANGED refineHooks
    BY DEF Bbox!CompleteWins, Bbox!CanCompleteBboxRefinement, Bbox!BboxLegRunning,
       AsyncInv, RefineInv
<1>2. refineHooks[i] = 0
    BY <1>0, <1>1 DEF RefineHookInv, Bbox!PostProcessingWebhookOnce
<1>3. refineTask' = [refineTask EXCEPT ![w] = k] /\ k.pc = "webhook" /\ k.id = i
    BY <1>0 DEF Bbox!CompleteWins, RefineTask
<1> HIDE DEF k
<1>4. refineTask'[w] = k /\ \A v \in Refiner \ {w} : refineTask'[v] = refineTask[v]
    BY <1>0, <1>3
<1>5. row'[i].bbox = "succeeded" /\ \A j \in Ids \ {i} : row'[j] = row[j]
    <2>1. "none" \in LegErrors
        BY DEF LegErrors
    <2> QED BY <1>0, <1>1, <2>1, LegEnded DEF Bbox!CompleteWins
<1>6. \A v \in Refiner \ {w} : refineTask[v].pc = "webhook" =>
          refineTask[v].id # i /\ refineTask[v].id \in Ids
    BY <1>1 DEF RefineHookInv, RefineNotifierInv, AsyncInv, RefineInv
<1>7. RefineNotifierInv'
    BY <1>1, <1>2, <1>3, <1>4, <1>5, <1>6 DEF RefineHookInv, RefineNotifierInv
<1>8. Bbox!PostProcessingWebhookOnce'
    BY <1>1, <1>5 DEF RefineHookInv, Bbox!PostProcessingWebhookOnce
<1> QED BY <1>7, <1>8 DEF RefineHookInv

LEMMA RefineHookStep ==
    ASSUME AsyncInv, RefineHookInv, [AsyncNext]_asyncVars
    PROVE  RefineHookInv'
<1>0. refineTask \in [Refiner -> RefineTask] /\ TableStep
    BY AsyncTable DEF AsyncInv, RefineInv
<1>1. UNCHANGED <<refineHooks, refineTask>> => RefineHookInv'
    BY <1>0, QuietRefineHooks
<1>2. CASE MainStep \/ UNCHANGED asyncVars
    BY <1>1, <1>2 DEF MainStep, asyncVars, refineVars
<1>3. CASE Tick /\ Bbox!Tick
    BY <1>0, <1>3, RefineTickTypes, QuietRefineHooks
<1>4. ASSUME NEW w \in Refiner, Bbox!Notify(w) PROVE RefineHookInv'
    BY <1>4, RefineIdle, SendingRefineHooks DEF Bbox!Notify
<1>5. ASSUME NEW w \in Refiner, Bbox!NotifyRaises(w) PROVE RefineHookInv'
    <2>1. PICK p \in BOOLEAN :
             refineTask' = [refineTask EXCEPT ![w].pc = "except", ![w].permanent = p]
        BY <1>5 DEF Bbox!NotifyRaises
    <2> DEFINE k == [refineTask[w] EXCEPT !.pc = "except", !.permanent = p]
    <2>2. refineTask' = [refineTask EXCEPT ![w] = k] /\ k.pc # "webhook"
        BY <1>0, <2>1 DEF RefineTask
    <2> HIDE DEF k
    <2> QED BY <1>5, <2>2, SendingRefineHooks DEF Bbox!NotifyRaises
<1>6. ASSUME NEW w \in Refiner, Bbox!ProcessStep(w),
             ~Bbox!CompleteWins(w), ~Bbox!Notify(w), ~Bbox!NotifyRaises(w)
      PROVE  RefineHookInv'
    <2>1. UNCHANGED refineHooks
        BY <1>6 DEF Bbox!ProcessStep, Bbox!ClaimWins, Bbox!ClaimLoses, Bbox!RefineRaises,
           Bbox!CompleteReplyLost, Bbox!CompleteLoses, Bbox!FailWins, Bbox!FailLoses,
           Bbox!RequeueWins, Bbox!RequeueLoses, Bbox!Escapes
    <2>2. PICK k \in RefineTask : refineTask' = [refineTask EXCEPT ![w] = k] /\ k.pc # "webhook"
        BY <1>6, LegTask
    <2>3. \A v \in Refiner : refineTask'[v].pc = "webhook" => refineTask'[v] = refineTask[v]
        BY <1>0, <2>2
    <2> QED BY <1>0, <2>1, <2>3, QuietRefineHooks
<1>7. ASSUME NEW w \in Refiner, (\E i \in Ids : Bbox!Deliver(w, i)) \/ Bbox!Crash(w)
      PROVE  RefineHookInv'
    <2>1. /\ UNCHANGED refineHooks
          /\ \A v \in Refiner : refineTask'[v] = refineTask[v] \/ refineTask'[v].pc # "webhook"
        <3>1. ASSUME NEW i \in Ids, Bbox!Deliver(w, i)
              PROVE  /\ UNCHANGED refineHooks
                     /\ \A v \in Refiner :
                           refineTask'[v] = refineTask[v] \/ refineTask'[v].pc # "webhook"
            <4> DEFINE k == [Bbox!IdleTask EXCEPT !.pc = "claim", !.id = i]
            <4>1. refineTask' = [refineTask EXCEPT ![w] = k] /\ k.pc = "claim"
                BY <3>1, RefineIdle DEF Bbox!Deliver, RefineTask
            <4> HIDE DEF k
            <4> QED BY <1>0, <3>1, <4>1 DEF Bbox!Deliver
        <3>2. CASE Bbox!Crash(w)
            BY <1>0, <3>2, RefineIdle DEF Bbox!Crash
        <3> QED BY <1>7, <3>1, <3>2
    <2> QED BY <1>0, <2>1, QuietRefineHooks
<1>8. ASSUME NEW w \in Refiner, Bbox!ReaperSweep(w) \/ Bbox!Restart(w)
      PROVE  UNCHANGED <<refineHooks, refineTask>>
    BY <1>8 DEF Bbox!ReaperSweep, Bbox!Restart
<1>9. ASSUME NEW i \in Ids, Bbox!Lose(i) PROVE UNCHANGED <<refineHooks, refineTask>>
    BY <1>9 DEF Bbox!Lose
<1>10. ASSUME NEW d \in refineDelayed, Bbox!DelayedPublish(d)
       PROVE  UNCHANGED <<refineHooks, refineTask>>
    BY <1>10 DEF Bbox!DelayedPublish
<1>11. ASSUME NEW w \in Refiner, Bbox!ProcessStep(w) PROVE RefineHookInv'
    BY <1>4, <1>5, <1>6, <1>11, CompletingRefineHooks
<1>12. CASE RefineStep
    BY <1>1, <1>7, <1>8, <1>9, <1>10, <1>11, <1>12 DEF RefineStep
<1> QED BY <1>2, <1>3, <1>12 DEF AsyncNext

\* What the main leg's webhooks rely on survives the bbox workers, which never
\* touch a status.
LEMMA HooksKept ==
    ASSUME AsyncInv, HookInv, [AsyncNext]_asyncVars
    PROVE  HookInv'
<1>0. TypeInv
    BY DEF AsyncInv
<1>1. CASE MainStep
    BY <1>0, <1>1, MainStepIsNext, HookStep
<1>2. CASE Tick
    BY <1>0, <1>2, HookStep DEF Next
<1>3. CASE RefineStep
    <2>1. UNCHANGED <<hooks, task>>
        BY <1>3 DEF RefineStep, mainVars
    <2>2. \A i \in Ids : row'[i].status = row[i].status
        BY <1>3, RefineTable, LegMoves DEF LegTableStep, AsyncInv, TypeInv, TypeOK
    <2>3. \A t \in Tid : Notifying(t) => task[t].id \in Ids
        BY <1>0 DEF Notifying, TypeInv, BusyHasId
    <2>4. NotifierInv'
        BY <2>1, <2>2, <2>3 DEF HookInv, NotifierInv, Notifying
    <2>5. CompletedWebhookOnce'
        BY <2>1, <2>2 DEF HookInv, CompletedWebhookOnce
    <2> QED BY <2>4, <2>5 DEF HookInv
<1>4. CASE UNCHANGED asyncVars
    BY <1>0, <1>4, HookStep DEF asyncVars
<1> QED BY <1>1, <1>2, <1>3, <1>4 DEF AsyncNext

\* Whichever worker of whichever leg has stalled, crashed or been overtaken, an
\* extraction has at most one post_processing.completed webhook, it speaks of a
\* stored result that is grounded, and the extraction was not reported failed.
THEOREM AsyncWebhooksAgree == AsyncSpec => []WebhooksAgree
<1> DEFINE Inv == AsyncInv /\ HookInv /\ RefineHookInv
<1>1. AsyncInit => Inv
    BY AsyncInit_Inv, HookInit, RefineHookInit DEF AsyncInit
<1>2. Inv /\ [AsyncNext]_asyncVars => Inv'
    BY AsyncStep, HooksKept, RefineHookStep
<1>3. Inv => WebhooksAgree
    <2> SUFFICES ASSUME Inv, NEW i \in Ids, refineHooks[i] > 0
                 PROVE  /\ row[i].status = "succeeded" /\ row[i].result = "grounded"
                        /\ hooks[i].failed = 0
        BY DEF RefineHookInv, WebhooksAgree
    <2>1. row[i].bbox = "succeeded"
        BY DEF RefineHookInv, Bbox!PostProcessingWebhookOnce
    <2>2. row[i].status = "succeeded" /\ row[i].result = "grounded"
        BY <2>1 DEF AsyncInv, SoundRow
    <2>3. hooks[i] \in [succeeded : Nat, failed : Nat]
        BY DEF AsyncInv, TypeInv, TypeOK
    <2>4. ~(hooks[i].failed > 0)
        BY <2>2 DEF HookInv, CompletedWebhookOnce
    <2> QED BY <2>2, <2>3, <2>4
<1> HIDE DEF Inv
<1> QED BY <1>1, <1>2, <1>3, PTL DEF AsyncSpec
=============================================================================
