----------------------- MODULE PipelineOrchestratorProofs -----------------------
(***************************************************************************)
(* Proofs about one run of the pipeline, for any requests, files, pages,   *)
(* splitter answers and failing stages. The argument is the order of the   *)
(* nodes: what a node has left behind, no later node undoes.               *)
(***************************************************************************)
EXTENDS PipelineOrchestrator, SequenceTheorems, TLAPS

-----------------------------------------------------------------------------
(* Where the engine is *)

LEMMA NodePositions ==
    /\ Past = 17
    /\ Nodes[1] = "load" /\ Nodes[2] = "discover" /\ Nodes[3] = "classify"
    /\ Nodes[4] = "plan_tasks" /\ Nodes[5] = "extract" /\ Nodes[6] = "bbox_validation"
    /\ Nodes[7] = "bbox_refine" /\ Nodes[8] = "field_validation"
    /\ Nodes[9] = "visual_authenticity" /\ Nodes[10] = "content_authenticity"
    /\ Nodes[11] = "judge" /\ Nodes[12] = "repair" /\ Nodes[13] = "judge_escalation"
    /\ Nodes[14] = "transform" /\ Nodes[15] = "rules" /\ Nodes[16] = "assemble"
BY DEF Nodes, Past

\* A node is done only when the engine is past it; nothing is open between two
\* nodes, and the result is built when there is no node left.
PlaceInv ==
    /\ at \in 1 .. 17
    /\ running => at # 17
    /\ todo # {} => running
    /\ \A k \in 1 .. 16 : Nodes[k] \in done => k < at
    /\ result # None => at = 17 /\ ~running

LEMMA PlaceInit == Init => PlaceInv
BY DEF Init, PlaceInv

LEMMA FollowingIsAfter ==
    ASSUME PlaceInv
    PROVE  \A k \in Following : k \in 1 .. 17 /\ k > at
BY NodePositions DEF Following, PlaceInv

\* A job that ends leaves the engine where it is.
LEMMA JobsKeepPlace ==
    ASSUME PlaceInv, FileStep \/ TaskStep
    PROVE  PlaceInv' /\ UNCHANGED <<request, at, running, done, failed, result>> /\ running
<1>1. \E j \in todo : todo' \subseteq todo
      /\ UNCHANGED <<request, at, running, done, failed, result>>
    BY DEF FileStep, TaskStep, Load, DiscoverOne, DiscoverRaises, ClassifyImplicit, ClassifyOne,
           ClassifyRaises, PlanTasks, ExtractOne, RefineOne, JudgeOne, AuditOne, TaskRaises,
           BboxValidation, FieldValidation, RepairOne, RepairRaises, Escalate, NoEscalation,
           TransformOne, Rules, RulesRaise, Assemble, SetTask, JobEnds
<1> QED BY <1>1 DEF PlaceInv

LEMMA PlaceStep == PlaceInv /\ [Next]_vars => PlaceInv'
<1> SUFFICES ASSUME PlaceInv, [Next]_vars PROVE PlaceInv'
    OBVIOUS
<1>1. CASE StartNode
    BY <1>1, NodePositions DEF StartNode, PlaceInv
<1>2. CASE NodeEnds
    <2>1. at \in 1 .. 16 /\ at' \in 1 .. 17 /\ at' > at
        BY <1>2, FollowingIsAfter DEF NodeEnds, PlaceInv
    <2>2. \A k \in 1 .. 16 : Nodes[k] = Nodes[at] => k = at
        BY <2>1, NodePositions
    <2>3. \A k \in 1 .. 16 : Nodes[k] \in done' => k < at'
        BY <1>2, <2>1, <2>2 DEF NodeEnds, PlaceInv
    <2> QED BY <1>2, <2>1, <2>3 DEF NodeEnds, PlaceInv
<1>3. CASE NodeFails
    <2>1. at \in 1 .. 16 /\ at' \in 1 .. 17 /\ at' > at
        BY <1>3, FollowingIsAfter, NodePositions DEF NodeFails, PlaceInv
    <2> QED BY <1>3, <2>1 DEF NodeFails, PlaceInv
<1>4. CASE BuildResult
    BY <1>4, NodePositions DEF BuildResult, CanBuild, PlaceInv
<1>5. CASE FileStep \/ TaskStep
    BY <1>5, JobsKeepPlace
<1>6. CASE UNCHANGED vars
    BY <1>6 DEF vars, PlaceInv
<1> QED BY <1>1, <1>2, <1>3, <1>4, <1>5, <1>6 DEF Next

\* Once there is a result the run is over.
LEMMA ResultIsLast == PlaceInv /\ result # None /\ [Next]_vars => UNCHANGED vars
<1> SUFFICES ASSUME PlaceInv, result # None, Next PROVE UNCHANGED vars
    OBVIOUS
<1>1. at = Past /\ ~running
    BY NodePositions DEF PlaceInv
<1>2. ~StartNode /\ ~NodeEnds /\ ~NodeFails /\ ~BuildResult
    BY <1>1 DEF StartNode, NodeEnds, NodeFails, BuildResult
<1>3. ~FileStep /\ ~TaskStep
    BY <1>1, JobsKeepPlace
<1> QED BY <1>2, <1>3 DEF Next

\* Files are worked on before, tasks after the tasks have been planned.
LEMMA FileStepPlace ==
    ASSUME PlaceInv, FileStep
    PROVE  at \in 1 .. 4
<1>1. running /\ Nodes[at] \in {"load", "discover", "classify", "plan_tasks"}
    BY DEF FileStep, Load, DiscoverOne, DiscoverRaises, ClassifyImplicit, ClassifyOne, ClassifyRaises,
           PlanTasks, Running
<1> QED BY <1>1, NodePositions DEF PlaceInv

LEMMA TaskStepFrame ==
    ASSUME PlaceInv, TaskStep
    PROVE  at \in 5 .. 16 /\ UNCHANGED <<slots, unmatched>> /\ DOMAIN tasks' = DOMAIN tasks
<1>1. PICK j \in todo :
         \/ ExtractOne(j) \/ RefineOne(j) \/ JudgeOne(j)
         \/ \E n \in Audits : AuditOne(n, j)
         \/ \E n \in NodeNames : TaskRaises(n, j)
         \/ BboxValidation(j) \/ FieldValidation(j)
         \/ RepairOne(j) \/ RepairRaises(j) \/ Escalate(j) \/ NoEscalation(j)
         \/ TransformOne(j) \/ Rules(j) \/ RulesRaise(j)
         \/ Assemble(j)
    BY DEF TaskStep
<1>2. at \in 5 .. 16
    <2>1. running /\ at # Past /\ Nodes[at] \notin {"load", "discover", "classify", "plan_tasks"}
        BY <1>1
           DEF ExtractOne, RefineOne, JudgeOne, AuditOne, TaskRaises, BboxValidation, FieldValidation,
               RepairOne, RepairRaises, Escalate, NoEscalation, TransformOne, Rules, RulesRaise,
               Assemble, SetTask, Running, Audits
    <2> QED BY <2>1, NodePositions DEF PlaceInv
<1>3. UNCHANGED <<slots, unmatched>>
    BY <1>1
       DEF ExtractOne, RefineOne, JudgeOne, AuditOne, TaskRaises, BboxValidation, FieldValidation,
           RepairOne, RepairRaises, Escalate, NoEscalation, TransformOne, Rules, RulesRaise, Assemble,
           SetTask, ctx
<1>4. DOMAIN tasks' = DOMAIN tasks
    BY <1>1
       DEF ExtractOne, RefineOne, JudgeOne, AuditOne, TaskRaises, BboxValidation, FieldValidation,
           RepairOne, RepairRaises, Escalate, NoEscalation, TransformOne, Rules, RulesRaise, Assemble,
           SetTask, ctx, Graded
<1> QED BY <1>2, <1>3, <1>4

LEMMA EngineFrame ==
    ASSUME StartNode \/ NodeEnds \/ NodeFails \/ BuildResult
    PROVE  /\ UNCHANGED <<request, slots, unmatched, repaired, ruleInput, errors>>
           /\ DOMAIN tasks' = DOMAIN tasks
BY DEF StartNode, NodeEnds, NodeFails, BuildResult, ctx, Ended, Graded

-----------------------------------------------------------------------------
(* The result *)

\* What the result says is what the context holds.
BuiltFromContext == result # None =>
    /\ result.status = Status
    /\ result.documents = [t \in DOMAIN tasks |->
                              [type       |-> SegmentOf(t).type,
                               confidence |-> ConfidenceOf(SegmentOf(t))]]
    /\ result.discovered = unmatched
    /\ result.trace = failed

ResultInv == PlaceInv /\ BuiltFromContext

LEMMA ResultStep == ResultInv /\ [Next]_vars => ResultInv'
<1> SUFFICES ASSUME ResultInv, [Next]_vars PROVE BuiltFromContext'
    BY PlaceStep DEF ResultInv
<1>1. CASE UNCHANGED vars
    BY <1>1 DEF vars, ctx, ResultInv, BuiltFromContext, Status, WithGroups, SegmentOf
<1>2. CASE result # None
    BY <1>1, <1>2, ResultIsLast DEF ResultInv
<1>3. CASE result = None /\ BuildResult
    BY <1>3 DEF BuildResult, BuiltFromContext, ctx, Status, WithGroups, SegmentOf, ResultInv
<1>4. CASE result = None /\ (StartNode \/ NodeEnds \/ NodeFails)
    BY <1>4 DEF StartNode, NodeEnds, NodeFails, BuiltFromContext, ResultInv
<1>5. CASE result = None /\ (FileStep \/ TaskStep)
    <2>1. result' = None
        BY <1>5, JobsKeepPlace DEF ResultInv
    <2> QED BY <2>1 DEF BuiltFromContext
<1> QED BY <1>1, <1>2, <1>3, <1>4, <1>5 DEF Next

LEMMA ResultHolds == Spec => []ResultInv
<1>1. Init => ResultInv
    BY PlaceInit DEF Init, ResultInv, BuiltFromContext
<1> QED BY <1>1, ResultStep, PTL DEF Spec

-----------------------------------------------------------------------------
(* Tasks *)

TasksInv == PlaceInv /\ \A t \in DOMAIN tasks : tasks[t] \in Task

LEMMA NewTaskType == NewTask \in Task
BY DEF NewTask, Task

\* A stage that looks at the groups sets its own flag and nothing else.
LEMMA GradedTypes ==
    ASSUME NEW ts, \A t \in DOMAIN ts : ts[t] \in Task
    PROVE  /\ DOMAIN Graded(ts) = DOMAIN ts
           /\ \A t \in DOMAIN ts : /\ Graded(ts)[t] \in Task
                                   /\ Graded(ts)[t].groups = ts[t].groups
                                   /\ Graded(ts)[t].version = ts[t].version
                                   /\ Graded(ts)[t].groups => Graded(ts)[t].graded
                                   /\ ts[t].graded => Graded(ts)[t].graded
BY DEF Graded, Task

LEMMA EscalatedTypes ==
    ASSUME NEW k \in Task
    PROVE  EscalatedTask(k) \subseteq Task
<1>1. k.version + 1 \in Nat /\ k.audits \in SUBSET {"visual_authenticity", "content_authenticity"}
    BY DEF Task
<1>2. [NewTask EXCEPT !.version = k.version + 1, !.audits = k.audits] \in Task
    BY <1>1 DEF NewTask, Task
<1>3. \A judged \in BOOLEAN :
         [NewTask EXCEPT !.groups = TRUE, !.version = k.version + 1, !.audits = k.audits,
                         !.judged = judged] \in Task
    BY <1>1 DEF NewTask, Task
<1> QED BY <1>2, <1>3 DEF EscalatedTask

\* The record k is a task with the groups of k0, graded as they were.
LooksLike(k, k0) == k \in Task /\ k.groups = k0.groups /\ k.graded = k0.graded

\* The tasks a job of one task may leave behind
LEMMA TaskUpdates ==
    ASSUME NEW k \in Task
    PROVE  /\ \A found \in BOOLEAN : [k EXCEPT !.groups = found, !.version = k.version + 1] \in Task
           /\ [k EXCEPT !.version = k.version + 1, !.graded = FALSE] \in Task
           /\ \A found \in BOOLEAN : [k EXCEPT !.grounded = TRUE, !.graded = k.graded /\ ~found] \in Task
           /\ LooksLike([k EXCEPT !.judged = TRUE], k)
           /\ \A n \in Audits : LooksLike([k EXCEPT !.audits = k.audits \cup {n}], k)
           /\ \A applied \in {0, 1} : LooksLike([k EXCEPT !.version = k.version + applied], k)
<1>1. k.version + 1 \in Nat /\ k.version + 0 \in Nat
    BY DEF Task
<1>2. \A found \in BOOLEAN : [k EXCEPT !.groups = found, !.version = k.version + 1] \in Task
    BY <1>1 DEF Task
<1>3. [k EXCEPT !.version = k.version + 1, !.graded = FALSE] \in Task
    BY <1>1 DEF Task
<1>4. LooksLike([k EXCEPT !.judged = TRUE], k)
    BY DEF LooksLike, Task
<1>7. \A found \in BOOLEAN : [k EXCEPT !.grounded = TRUE, !.graded = k.graded /\ ~found] \in Task
    BY DEF Task
<1>5. \A n \in Audits : LooksLike([k EXCEPT !.audits = k.audits \cup {n}], k)
    <2>1. SUFFICES ASSUME NEW n \in Audits PROVE LooksLike([k EXCEPT !.audits = k.audits \cup {n}], k)
        OBVIOUS
    <2>2. k.audits \cup {n} \in SUBSET {"visual_authenticity", "content_authenticity"}
        BY DEF Task, Audits
    <2> QED BY <2>2 DEF LooksLike, Task
<1>6. \A applied \in {0, 1} : LooksLike([k EXCEPT !.version = k.version + applied], k)
    BY <1>1 DEF LooksLike, Task
<1> QED BY <1>2, <1>3, <1>4, <1>5, <1>6, <1>7

\* What a job of the stages after extraction may do to the tasks: set flags of
\* one task, give it a new version and no grading, or replace graded tasks.
LEMMA TaskStepEffect ==
    ASSUME TasksInv, TaskStep
    PROVE  /\ \A t \in DOMAIN tasks' : tasks'[t] \in Task
           /\ \/ at = 5
              \/ at = 6
              \/ at = 7
              \/ at = 12 /\ "repair" \in errors'
              \/ at = 12 /\ \A t \in DOMAIN tasks : \/ tasks'[t] = tasks[t]
                                                    \/ t \in repaired'
              \/ at = 13 /\ \A t \in DOMAIN tasks : tasks'[t].groups => tasks'[t].graded
              \/ \A t \in DOMAIN tasks : /\ tasks'[t].groups = tasks[t].groups
                                         /\ tasks'[t].graded = tasks[t].graded
           /\ at # 12 \/ "repair" \in errors' \/ repaired \subseteq repaired'
<1>1. PICK j \in todo :
         \/ ExtractOne(j) \/ RefineOne(j) \/ JudgeOne(j)
         \/ \E n \in Audits : AuditOne(n, j)
         \/ \E n \in NodeNames : TaskRaises(n, j)
         \/ BboxValidation(j) \/ FieldValidation(j)
         \/ RepairOne(j) \/ RepairRaises(j) \/ Escalate(j) \/ NoEscalation(j)
         \/ TransformOne(j) \/ Rules(j) \/ RulesRaise(j)
         \/ Assemble(j)
    BY DEF TaskStep
<1>0. PlaceInv /\ \A t \in DOMAIN tasks : tasks[t] \in Task
    BY DEF TasksInv
<1> DEFINE Same == \A t \in DOMAIN tasks : /\ tasks'[t].groups = tasks[t].groups
                                           /\ tasks'[t].graded = tasks[t].graded
           WellTyped == \A t \in DOMAIN tasks' : tasks'[t] \in Task
<1>2. CASE ExtractOne(j)
    <2>1. at = 5
        BY <1>0, <1>2, NodePositions DEF ExtractOne, SetTask, Running, PlaceInv
    <2>2. PICK found \in BOOLEAN :
             tasks' = [tasks EXCEPT ![j] = [tasks[j] EXCEPT !.groups = found, !.version = tasks[j].version + 1]]
        BY <1>2 DEF ExtractOne, SetTask
    <2>3. WellTyped
        BY <1>0, <2>2, TaskUpdates
    <2> QED BY <2>1, <2>3
<1>11. CASE RefineOne(j)
    <2>1. at = 7
        BY <1>0, <1>11, NodePositions DEF RefineOne, SetTask, Running, PlaceInv
    <2>2. PICK found \in BOOLEAN :
             tasks' = [tasks EXCEPT ![j] = [tasks[j] EXCEPT !.grounded = TRUE, !.graded = tasks[j].graded /\ ~found]]
        BY <1>11 DEF RefineOne, SetTask
    <2>3. WellTyped
        BY <1>0, <2>2, TaskUpdates
    <2> QED BY <2>1, <2>3
<1>3. CASE JudgeOne(j) \/ \E n \in Audits : AuditOne(n, j)
    <2>1. UNCHANGED repaired /\ \E new :
             /\ j \in DOMAIN tasks => LooksLike(new, tasks[j])
             /\ tasks' = [tasks EXCEPT ![j] = new]
        BY <1>0, <1>3, TaskUpdates DEF JudgeOne, AuditOne, SetTask
    <2>2. WellTyped /\ Same
        BY <1>0, <2>1 DEF LooksLike
    <2> QED BY <2>1, <2>2
<1>4. CASE (\E n \in NodeNames : TaskRaises(n, j)) \/ NoEscalation(j) \/ Rules(j) \/ RulesRaise(j) \/ Assemble(j)
    <2>1. UNCHANGED <<tasks, repaired>>
        BY <1>4 DEF TaskRaises, NoEscalation, Rules, RulesRaise, Assemble, ctx
    <2> QED BY <1>0, <2>1
<1>5. CASE BboxValidation(j)
    <2>1. at = 6
        BY <1>0, <1>5, NodePositions DEF BboxValidation, Running, PlaceInv
    <2>2. WellTyped
        BY <1>0, <1>5, GradedTypes DEF BboxValidation
    <2> QED BY <2>1, <2>2
<1>6. CASE FieldValidation(j)
    <2>1. WellTyped /\ Same /\ UNCHANGED repaired
        BY <1>0, <1>6 DEF FieldValidation, Task
    <2> QED BY <2>1
<1>7. CASE RepairOne(j)
    <2>1. at = 12
        BY <1>0, <1>7, NodePositions DEF RepairOne, SetTask, Running, PlaceInv
    <2>2. WellTyped
        BY <1>0, <1>7, TaskUpdates DEF RepairOne, SetTask
    <2>3. /\ \A t \in DOMAIN tasks : tasks'[t] = tasks[t] \/ t \in repaired'
          /\ repaired \subseteq repaired'
        BY <1>7 DEF RepairOne, SetTask
    <2> QED BY <2>1, <2>2, <2>3
<1>8. CASE RepairRaises(j)
    <2>1. at = 12
        BY <1>0, <1>8, NodePositions DEF RepairRaises, Running, PlaceInv
    <2> QED BY <1>0, <1>8, <2>1 DEF RepairRaises, Recorded
<1>9. CASE Escalate(j)
    <2>1. at = 13
        BY <1>0, <1>9, NodePositions DEF Escalate, Running, PlaceInv
    <2>2. PICK new \in [DOMAIN tasks -> UNION {EscalatedTask(tasks[t]) : t \in DOMAIN tasks}] :
             /\ \A t \in DOMAIN tasks : new[t] \in EscalatedTask(tasks[t])
             /\ tasks' = Graded(new)
        BY <1>9 DEF Escalate
    <2>3. DOMAIN new = DOMAIN tasks /\ \A t \in DOMAIN new : new[t] \in Task
        BY <1>0, <2>2, EscalatedTypes
    <2>4. DOMAIN tasks' = DOMAIN tasks /\ \A t \in DOMAIN tasks : /\ tasks'[t] \in Task
                                                                  /\ tasks'[t].groups => tasks'[t].graded
        BY <2>2, <2>3, GradedTypes
    <2> QED BY <2>1, <2>4
<1>10. CASE TransformOne(j)
    <2>1. UNCHANGED repaired /\ \E new :
             /\ j \in DOMAIN tasks => LooksLike(new, tasks[j])
             /\ tasks' = [tasks EXCEPT ![j] = new]
        BY <1>0, <1>10, TaskUpdates DEF TransformOne, SetTask
    <2>2. WellTyped /\ Same
        BY <1>0, <2>1 DEF LooksLike
    <2> QED BY <2>1, <2>2
<1> QED BY <1>1, <1>2, <1>3, <1>4, <1>5, <1>6, <1>7, <1>8, <1>9, <1>10, <1>11

LEMMA TasksStep == TasksInv /\ [Next]_vars => TasksInv'
<1> SUFFICES ASSUME TasksInv, [Next]_vars PROVE \A t \in DOMAIN tasks' : tasks'[t] \in Task
    BY PlaceStep DEF TasksInv
<1>0. \A t \in DOMAIN tasks : tasks[t] \in Task
    BY DEF TasksInv
<1>1. CASE UNCHANGED tasks
    BY <1>0, <1>1
<1>2. CASE NodeEnds
    BY <1>0, <1>2, GradedTypes DEF NodeEnds, Ended
<1>3. CASE FileStep
    <2>1. UNCHANGED tasks \/ \E ids : tasks' = [id \in ids |-> NewTask]
        BY <1>3 DEF FileStep, Load, DiscoverOne, DiscoverRaises, ClassifyImplicit, ClassifyOne,
                    ClassifyRaises, PlanTasks, ctx
    <2> QED BY <1>1, <2>1, NewTaskType
<1>4. CASE TaskStep
    BY <1>4, TaskStepEffect
<1>5. CASE StartNode \/ NodeFails \/ BuildResult \/ UNCHANGED vars
    BY <1>1, <1>5 DEF StartNode, NodeFails, BuildResult, ctx, vars
<1> QED BY <1>2, <1>3, <1>4, <1>5 DEF Next

-----------------------------------------------------------------------------
(* The rules see the final groups *)

RulesInv ==
    /\ running /\ at = 15 => todo \subseteq {<<"rules">>}
    /\ "rules" \in done \/ (running /\ at = 15 /\ todo = {}) =>
          "rules" \in errors \/ ruleInput = Versions

LEMMA RulesStep == PlaceInv /\ RulesInv /\ [Next]_vars => RulesInv'
<1> SUFFICES ASSUME PlaceInv, RulesInv, [Next]_vars PROVE RulesInv'
    OBVIOUS
<1>0. "rules" \in done => at > 15
    BY NodePositions DEF PlaceInv
<1>1. CASE StartNode
    <2>1. at = 15 => todo' = {<<"rules">>}
        BY <1>1, NodePositions DEF StartNode, Jobs, Audits
    <2>2. Versions' = Versions /\ UNCHANGED <<done, errors, ruleInput, at>>
        BY <1>1 DEF StartNode, Versions, ctx
    <2> QED BY <2>1, <2>2 DEF RulesInv
<1>2. CASE NodeEnds
    <2>1. at \in 1 .. 16 /\ running /\ todo = {} /\ ~running'
        BY <1>2, NodePositions DEF NodeEnds, PlaceInv
    <2>2. Nodes[at] = "rules" <=> at = 15
        BY <2>1, NodePositions
    <2>3. at >= 15 => tasks' = tasks
        BY <1>2, <2>1, NodePositions DEF NodeEnds, Ended
    <2>4. at >= 15 => Versions' = Versions
        BY <2>3 DEF Versions
    <2>5. UNCHANGED <<errors, ruleInput>> /\ done' = done \cup {Nodes[at]}
        BY <1>2 DEF NodeEnds
    <2>6. "rules" \in done' => at >= 15
        BY <1>0, <2>1, <2>2, <2>5
    <2>7. "rules" \in done' => "rules" \in errors \/ ruleInput = Versions
        BY <2>1, <2>2, <2>5 DEF RulesInv
    <2> QED BY <2>1, <2>4, <2>5, <2>6, <2>7 DEF RulesInv
<1>3. CASE NodeFails
    <2>1. Versions' = Versions /\ UNCHANGED <<done, errors, ruleInput>> /\ ~running'
        BY <1>3 DEF NodeFails, Versions, ctx
    <2> QED BY <2>1 DEF RulesInv
<1>4. CASE BuildResult \/ UNCHANGED vars
    <2>1. Versions' = Versions /\ UNCHANGED <<done, errors, ruleInput, running, at, todo>>
        BY <1>4 DEF BuildResult, vars, Versions, ctx
    <2> QED BY <2>1 DEF RulesInv
<1>5. CASE FileStep
    <2>1. at' \in 1 .. 4 /\ done' = done /\ at' = at
        BY <1>5, FileStepPlace, JobsKeepPlace
    <2> QED BY <1>0, <2>1 DEF RulesInv
<1>6. CASE TaskStep
    <2>1. UNCHANGED <<at, running, done>> /\ running
        BY <1>6, JobsKeepPlace
    <2>2. CASE at < 15
        <3>1. at # 15 /\ "rules" \notin done
            BY <1>0, <2>2 DEF PlaceInv
        <3> QED BY <2>1, <3>1 DEF RulesInv
    <2>3. CASE at >= 15
        <3>1. at \in {15, 16} /\ Nodes[15] = "rules" /\ Nodes[16] = "assemble" /\ Past = 17
            BY <1>6, <2>3, TaskStepFrame, NodePositions
        <3>2. PICK j \in todo : Rules(j) \/ RulesRaise(j) \/ Assemble(j)
            BY <1>6, <3>1
               DEF TaskStep, ExtractOne, RefineOne, JudgeOne, AuditOne, TaskRaises, BboxValidation,
                   FieldValidation, RepairOne, RepairRaises, Escalate, NoEscalation, TransformOne,
                   SetTask, Running, Audits
        <3>3. tasks' = tasks /\ Versions' = Versions /\ todo' \subseteq todo /\ errors \subseteq errors'
            BY <3>2 DEF Rules, RulesRaise, Assemble, Versions, JobEnds, ctx, Quiet, Recorded
        <3>4. CASE Rules(j)
            BY <2>1, <3>3, <3>4 DEF Rules, RulesInv
        <3>5. CASE RulesRaise(j)
            BY <2>1, <3>3, <3>5 DEF RulesRaise, Recorded, RulesInv
        <3>6. CASE Assemble(j)
            BY <2>1, <3>1, <3>3, <3>6 DEF Assemble, Running, Quiet, RulesInv, ctx
        <3> QED BY <3>2, <3>4, <3>5, <3>6
    <2>4. at \in 1 .. 17
        BY DEF PlaceInv
    <2> QED BY <2>2, <2>3, <2>4
<1> QED BY <1>1, <1>2, <1>3, <1>4, <1>5, <1>6 DEF Next

\* What the rules were evaluated on is what the caller receives: no node after
\* the rules writes groups (_step_rules runs last but for the assembly).
THEOREM RulesReadFinalGroups == Spec => []RulesSeeFinalGroups
<1>1. Init => PlaceInv /\ RulesInv
    BY PlaceInit DEF Init, RulesInv
<1>2. PlaceInv /\ RulesInv /\ [Next]_vars => PlaceInv' /\ RulesInv'
    BY PlaceStep, RulesStep
<1>3. RulesInv => RulesSeeFinalGroups
    BY DEF RulesInv, RulesSeeFinalGroups
<1> QED BY <1>1, <1>2, <1>3, PTL DEF Spec

-----------------------------------------------------------------------------
(* Every bbox is graded *)

\* A node is entered only when it was asked for.
AskedInv == at = 7 => "bbox_refine" \in request.stages

LEMMA AskedStep == PlaceInv /\ AskedInv /\ [Next]_vars => AskedInv'
<1> SUFFICES ASSUME PlaceInv, AskedInv, [Next]_vars PROVE AskedInv'
    OBVIOUS
<1>1. 7 \in Following => "bbox_refine" \in request.stages
    BY NodePositions DEF Following, Wanted, Stages
<1>2. CASE NodeEnds \/ NodeFails
    <2>1. (at' \in Following \/ at' = 17) /\ request' = request
        BY <1>2, NodePositions DEF NodeEnds, NodeFails
    <2> QED BY <1>1, <2>1 DEF AskedInv
<1>3. CASE StartNode \/ BuildResult \/ UNCHANGED vars
    BY <1>3 DEF StartNode, BuildResult, vars, AskedInv
<1>4. CASE FileStep \/ TaskStep
    BY <1>4, JobsKeepPlace DEF AskedInv
<1> QED BY <1>2, <1>3, <1>4 DEF Next

\* Neither the repair nor the escalation has failed, in a job or as a whole, and
\* the boxes are not grounded inline.
Undisturbed ==
    /\ "bbox_refine" \notin request.stages
    /\ {"repair", "judge_escalation"} \cap (failed \cup errors) = {}

\* Once the grading stage is over a box is ungraded only while the stage that
\* repaired it runs.
GradedInv ==
    /\ running /\ at = 6 => todo \subseteq {<<"bbox_validation">>}
    /\ Undisturbed /\ ("bbox_validation" \in done \/ (running /\ at = 6 /\ todo = {})) =>
          \A t \in WithGroups : tasks[t].graded \/ (at = 12 /\ running /\ t \in repaired)

LEMMA GradedStep == TasksInv /\ AskedInv /\ GradedInv /\ [Next]_vars => GradedInv'
<1> SUFFICES ASSUME TasksInv, AskedInv, GradedInv, [Next]_vars PROVE GradedInv'
    OBVIOUS
<1>0. PlaceInv /\ at \in 1 .. 17 /\ \A t \in DOMAIN tasks : tasks[t] \in Task
    BY DEF TasksInv, PlaceInv
<1>1. "bbox_validation" \in done => at > 6
    BY <1>0, NodePositions DEF PlaceInv
<1>2. CASE StartNode
    <2>1. at = 6 => todo' = {<<"bbox_validation">>}
        BY <1>2, NodePositions DEF StartNode, Jobs, Audits
    <2>2. ~running /\ UNCHANGED <<request, done, errors, failed, tasks, at>>
        BY <1>2 DEF StartNode, ctx
    <2> QED BY <2>1, <2>2 DEF GradedInv, Undisturbed, WithGroups
<1>3. CASE NodeEnds
    <2>1. at \in 1 .. 16 /\ running /\ todo = {} /\ ~running'
        BY <1>0, <1>3, NodePositions DEF NodeEnds, PlaceInv
    <2>2. /\ Nodes[at] = "bbox_validation" => at = 6
          /\ at = 12 => Nodes[at] = "repair"
        BY <2>1, NodePositions
    <2>3. /\ UNCHANGED <<request, errors, failed, repaired>> /\ done' = done \cup {Nodes[at]}
          /\ tasks' = Ended(Nodes[at])
        BY <1>3 DEF NodeEnds
    <2>4. ASSUME Undisturbed', "bbox_validation" \in done', NEW t \in WithGroups'
          PROVE  tasks'[t].graded
        <3>1. Undisturbed /\ ("bbox_validation" \in done \/ (running /\ at = 6 /\ todo = {}))
            BY <2>1, <2>2, <2>3, <2>4 DEF Undisturbed
        <3>2. CASE at = 12 /\ repaired # {}
            <4>1. tasks' = Graded(tasks)
                BY <2>2, <2>3, <3>2 DEF Ended
            <4> QED BY <1>0, <2>4, <4>1, GradedTypes DEF WithGroups
        <3>3. CASE ~(at = 12 /\ repaired # {})
            <4>1. \A u \in WithGroups : tasks[u].graded
                BY <3>1, <3>3 DEF GradedInv
            <4>2. tasks' = tasks \/ tasks' = Graded(tasks)
                BY <2>3 DEF Ended
            <4> QED BY <1>0, <2>4, <4>1, <4>2, GradedTypes DEF WithGroups
        <3> QED BY <3>2, <3>3
    <2> QED BY <2>1, <2>4 DEF GradedInv
<1>4. CASE NodeFails
    <2>1. at # 17 /\ failed' = failed \cup {Nodes[at]} /\ ~running' /\ UNCHANGED <<request, tasks, done, errors>>
        BY <1>4, NodePositions DEF NodeFails, ctx
    <2>2. at = 12 => ~Undisturbed'
        BY <2>1, NodePositions DEF Undisturbed
    <2>3. Undisturbed' => Undisturbed
        BY <2>1 DEF Undisturbed
    <2> QED BY <2>1, <2>2, <2>3 DEF GradedInv, WithGroups
<1>5. CASE BuildResult \/ UNCHANGED vars
    <2>1. UNCHANGED <<request, tasks, done, errors, failed, running, at, todo, repaired>>
        BY <1>5 DEF BuildResult, vars, ctx
    <2> QED BY <2>1 DEF GradedInv, WithGroups, Undisturbed
<1>6. CASE FileStep
    <2>1. at \in 1 .. 4 /\ done' = done /\ at' = at
        BY <1>0, <1>6, FileStepPlace, JobsKeepPlace
    <2>2. at' # 6 /\ "bbox_validation" \notin done'
        BY <1>1, <2>1
    <2> QED BY <2>2 DEF GradedInv
<1>7. CASE TaskStep
    <2>1. UNCHANGED <<request, at, running, done, failed>> /\ running /\ at \in 5 .. 16
          /\ DOMAIN tasks' = DOMAIN tasks
        BY <1>0, <1>7, JobsKeepPlace, TaskStepFrame
    <2>2. errors \subseteq errors' /\ todo' \subseteq todo
        BY <1>7
           DEF TaskStep, ExtractOne, RefineOne, JudgeOne, AuditOne, TaskRaises, BboxValidation,
               FieldValidation, RepairOne, RepairRaises, Escalate, NoEscalation, TransformOne, Rules,
               RulesRaise, Assemble, SetTask, JobEnds, Quiet, Recorded
    <2>3. Undisturbed' => Undisturbed /\ "repair" \notin errors'
        BY <2>1, <2>2 DEF Undisturbed
    <2>4. CASE at = 5
        BY <1>1, <2>1, <2>4 DEF GradedInv
    <2>5. CASE at = 6
        <3>1. PICK j \in todo : BboxValidation(j)
            BY <1>7, <2>5, NodePositions
               DEF TaskStep, ExtractOne, RefineOne, JudgeOne, AuditOne, TaskRaises, FieldValidation,
                   RepairOne, RepairRaises, Escalate, NoEscalation, TransformOne, Rules, RulesRaise,
                   Assemble, SetTask, Running, Audits
        <3>2. \A t \in DOMAIN tasks' : tasks'[t].groups => tasks'[t].graded
            BY <1>0, <2>1, <3>1, GradedTypes DEF BboxValidation
        <3> QED BY <2>1, <2>2, <2>5, <3>2 DEF GradedInv, WithGroups
    <2>6. CASE at > 6
        <3>1. SUFFICES ASSUME Undisturbed', "bbox_validation" \in done', NEW t \in WithGroups'
                       PROVE  tasks'[t].graded \/ (at' = 12 /\ running' /\ t \in repaired')
            BY <2>1, <2>6 DEF GradedInv
        <3>2. \A u \in WithGroups : tasks[u].graded \/ (at = 12 /\ running /\ u \in repaired)
            BY <2>1, <2>3, <3>1 DEF GradedInv
        <3>3. t \in DOMAIN tasks /\ tasks'[t].groups
            BY <2>1 DEF WithGroups
        <3>4. \/ at = 12 /\ (tasks'[t] = tasks[t] \/ t \in repaired')
              \/ at = 13 /\ tasks'[t].graded
              \/ tasks'[t].groups = tasks[t].groups /\ tasks'[t].graded = tasks[t].graded
            <4>1. at # 5 /\ at # 6 /\ at # 7 /\ "repair" \notin errors'
                BY <1>0, <2>3, <2>6, <3>1 DEF AskedInv, Undisturbed
            <4> QED BY <1>7, <3>3, <4>1, TaskStepEffect
        <3>5. at = 12 => repaired \subseteq repaired'
            BY <1>7, <2>3, <3>1, TaskStepEffect
        <3> QED BY <2>1, <3>2, <3>3, <3>4, <3>5 DEF WithGroups
    <2> QED BY <1>0, <2>1, <2>4, <2>5, <2>6
<1> QED BY <1>2, <1>3, <1>4, <1>5, <1>6, <1>7 DEF Next

\* Unless the boxes were grounded inline, no document leaves the pipeline with a
\* bbox that was not graded: what repair replaces is graded again when the stage
\* ends, what the escalation replaces at once (_step_repair,
\* _step_judge_escalation), whatever else times out or raises.
THEOREM EveryBoxIsGraded == Spec => []GeometryIsGraded
<1>1. Init => TasksInv /\ AskedInv /\ GradedInv
    BY PlaceInit DEF Init, TasksInv, AskedInv, GradedInv
<1>2. TasksInv /\ AskedInv /\ GradedInv /\ [Next]_vars => TasksInv' /\ AskedInv' /\ GradedInv'
    BY TasksStep, AskedStep, GradedStep DEF TasksInv
<1>3. TasksInv /\ GradedInv => GeometryIsGraded
    BY DEF TasksInv, PlaceInv, GradedInv, GeometryIsGraded, Undisturbed, Built
<1> QED BY <1>1, <1>2, <1>3, PTL DEF Spec

-----------------------------------------------------------------------------
(* Success is complete *)

\* The groups may have been replaced by those of an escalation.
Replaced == "judge_escalation" \in done \cup failed \/ (running /\ at = 13)

\* A task that the running stage owes its work has an open job, or one that
\* raised; a stage that is done owes no task anything.
SeenInv ==
    /\ running => \A t \in WithGroups :
          \/ t \in todo
          \/ at = 8 /\ todo # {}
          \/ Nodes[at] \in errors
          \/ Seen(Nodes[at], tasks[t])
    /\ \A n \in done : \A t \in WithGroups : n \in errors \/ Seen(n, tasks[t]) \/ Replaced

\* Only these stages leave a mark.
Marking == {"bbox_refine", "field_validation", "visual_authenticity", "content_authenticity", "judge"}

LEMMA OnlyMarking == \A n, k : n \notin Marking => Seen(n, k)
BY DEF Seen, Marking, Audits

LEMMA MarkingPlaces ==
    ASSUME PlaceInv
    PROVE  /\ \A k \in 1 .. 16 : Nodes[k] \in Marking <=> k \in 7 .. 11
           /\ \A n \in done \cap Marking : at > 7
BY NodePositions DEF Marking, PlaceInv

\* Grading again leaves the marks alone.
LEMMA GradedSeen ==
    ASSUME NEW ts, \A t \in DOMAIN ts : ts[t] \in Task
    PROVE  \A n : \A t \in DOMAIN ts : Seen(n, Graded(ts)[t]) <=> Seen(n, ts[t])
<1> TAKE n
<1> TAKE t \in DOMAIN ts
<1>1. ts[t] \in Task /\ Graded(ts)[t] = [ts[t] EXCEPT !.graded = ts[t].graded \/ ts[t].groups]
    BY DEF Graded
<1>2. /\ Graded(ts)[t].grounded = ts[t].grounded /\ Graded(ts)[t].validated = ts[t].validated
      /\ Graded(ts)[t].judged = ts[t].judged /\ Graded(ts)[t].audits = ts[t].audits
    BY <1>1 DEF Task
<1> QED BY <1>2 DEF Seen

\* What a job between extraction and escalation does for a task t: no mark is
\* lost, and the job of t leaves the mark of its stage or an error.
LEMMA JobLeavesMark ==
    ASSUME TasksInv, TaskStep, at # 5, at # 13, NEW t \in WithGroups
    PROVE  /\ tasks[t] \in Task /\ t \in DOMAIN tasks' /\ tasks'[t].groups
           /\ \A n : Seen(n, tasks[t]) => Seen(n, tasks'[t])
           /\ errors \subseteq errors'
           /\ \/ t \in todo /\ t \in todo'
              \/ t \notin todo /\ at # 8
              \/ Nodes[at] \in errors'
              \/ Seen(Nodes[at], tasks'[t])
<1>0. PlaceInv /\ t \in DOMAIN tasks /\ tasks[t] \in Task /\ tasks[t].groups
    BY DEF TasksInv, WithGroups
<1>1. PICK j \in todo :
         \/ ExtractOne(j) \/ RefineOne(j) \/ JudgeOne(j)
         \/ \E n \in Audits : AuditOne(n, j)
         \/ \E n \in NodeNames : TaskRaises(n, j)
         \/ BboxValidation(j) \/ FieldValidation(j)
         \/ RepairOne(j) \/ RepairRaises(j) \/ Escalate(j) \/ NoEscalation(j)
         \/ TransformOne(j) \/ Rules(j) \/ RulesRaise(j)
         \/ Assemble(j)
    BY DEF TaskStep
<1>2. ~ExtractOne(j) /\ ~Escalate(j) /\ ~NoEscalation(j)
    <2>1. at = 17 \/ (Nodes[at] # "extract" /\ Nodes[at] # "judge_escalation")
        BY <1>0, NodePositions DEF PlaceInv
    <2> QED BY <2>1, NodePositions DEF ExtractOne, Escalate, NoEscalation, SetTask, Running
<1> DEFINE Kept == /\ t \in DOMAIN tasks' /\ tasks'[t].groups
                   /\ \A n : Seen(n, tasks[t]) => Seen(n, tasks'[t])
           Marks == Seen(Nodes[at], tasks'[t])
<1>3. CASE RefineOne(j)
    <2>1. PICK found \in BOOLEAN :
             tasks' = [tasks EXCEPT ![j] = [tasks[j] EXCEPT !.grounded = TRUE, !.graded = tasks[j].graded /\ ~found]]
        BY <1>3 DEF RefineOne, SetTask
    <2>2. Nodes[at] = "bbox_refine" /\ at = 7 /\ todo' = todo \ {j} /\ UNCHANGED errors
        BY <1>0, <1>3, NodePositions DEF RefineOne, SetTask, Running, JobEnds, Quiet, PlaceInv
    <2>3. CASE t = j
        <3>1. tasks'[t] = [tasks[t] EXCEPT !.grounded = TRUE, !.graded = tasks[t].graded /\ ~found]
            BY <1>0, <2>1, <2>3
        <3>2. /\ tasks'[t].grounded /\ tasks'[t].groups /\ tasks'[t].validated = tasks[t].validated
              /\ tasks'[t].judged = tasks[t].judged /\ tasks'[t].audits = tasks[t].audits
            BY <1>0, <3>1 DEF Task
        <3> QED BY <1>0, <2>1, <2>2, <3>2 DEF Seen, Audits
    <2>4. CASE t # j
        BY <1>0, <2>1, <2>2, <2>4
    <2> QED BY <2>3, <2>4
<1>4. CASE JudgeOne(j)
    <2>1. tasks' = [tasks EXCEPT ![j] = [tasks[j] EXCEPT !.judged = TRUE]]
        BY <1>4 DEF JudgeOne, SetTask
    <2>2. Nodes[at] = "judge" /\ at # 8 /\ todo' = todo \ {j} /\ UNCHANGED errors
        BY <1>0, <1>4, NodePositions DEF JudgeOne, SetTask, Running, JobEnds, Quiet, PlaceInv
    <2>3. CASE t = j
        <3>1. tasks'[t] = [tasks[t] EXCEPT !.judged = TRUE]
            BY <1>0, <2>1, <2>3
        <3>2. /\ tasks'[t].judged /\ tasks'[t].groups /\ tasks'[t].validated = tasks[t].validated
              /\ tasks'[t].grounded = tasks[t].grounded /\ tasks'[t].audits = tasks[t].audits
            BY <1>0, <3>1 DEF Task
        <3> QED BY <1>0, <2>1, <2>2, <3>2 DEF Seen, Audits
    <2>4. CASE t # j
        BY <1>0, <2>1, <2>2, <2>4
    <2> QED BY <2>3, <2>4
<1>5. CASE \E n \in Audits : AuditOne(n, j)
    <2>1. PICK n \in Audits : AuditOne(n, j)
        BY <1>5
    <2>2. tasks' = [tasks EXCEPT ![j] = [tasks[j] EXCEPT !.audits = tasks[j].audits \cup {n}]]
        BY <2>1 DEF AuditOne, SetTask
    <2>3. Nodes[at] = n /\ at # 8 /\ todo' = todo \ {j} /\ UNCHANGED errors
        BY <1>0, <2>1, NodePositions DEF AuditOne, SetTask, Running, JobEnds, Quiet, PlaceInv, Audits
    <2>4. CASE t = j
        <3>1. tasks'[t] = [tasks[t] EXCEPT !.audits = tasks[t].audits \cup {n}]
            BY <1>0, <2>2, <2>4
        <3>2. /\ tasks'[t].judged = tasks[t].judged /\ tasks'[t].groups
              /\ tasks'[t].validated = tasks[t].validated
              /\ tasks'[t].grounded = tasks[t].grounded /\ tasks'[t].audits = tasks[t].audits \cup {n}
            BY <1>0, <3>1 DEF Task
        <3> QED BY <1>0, <2>1, <2>2, <2>3, <3>2 DEF Seen, Audits
    <2>5. CASE t # j
        BY <1>0, <2>2, <2>3, <2>5
    <2> QED BY <2>4, <2>5
<1>6. CASE (\E n \in NodeNames : TaskRaises(n, j)) \/ Rules(j) \/ RulesRaise(j) \/ Assemble(j)
    <2>1. UNCHANGED tasks /\ todo' = todo \ {j} /\ errors \subseteq errors'
        BY <1>6 DEF TaskRaises, Rules, RulesRaise, Assemble, ctx, JobEnds, Quiet, Recorded
    <2>2. Nodes[at] \in errors' \/ at \in {15, 16}
        BY <1>0, <1>6, NodePositions
           DEF TaskRaises, Rules, RulesRaise, Assemble, Running, Recorded, PlaceInv
    <2>3. at \in {15, 16} => Marks
        BY NodePositions DEF Seen, Audits
    <2> QED BY <1>0, <2>1, <2>2, <2>3
<1>7. CASE BboxValidation(j)
    <2>1. tasks' = Graded(tasks) /\ at = 6 /\ Nodes[at] = "bbox_validation" /\ UNCHANGED errors
        BY <1>0, <1>7, NodePositions DEF BboxValidation, Running, Quiet, PlaceInv
    <2>2. Kept
        BY <1>0, <2>1, GradedTypes, GradedSeen DEF TasksInv
    <2>3. Marks
        BY <2>1 DEF Seen, Audits
    <2> QED BY <1>0, <2>1, <2>2, <2>3
<1>8. CASE FieldValidation(j)
    <2>1. /\ Nodes[at] = "field_validation" /\ UNCHANGED errors
          /\ DOMAIN tasks' = DOMAIN tasks
          /\ tasks'[t] = [tasks[t] EXCEPT !.validated = tasks[t].groups]
        BY <1>0, <1>8 DEF FieldValidation, Running, Quiet
    <2>2. /\ tasks'[t].validated /\ tasks'[t].groups /\ tasks'[t].judged = tasks[t].judged
          /\ tasks'[t].grounded = tasks[t].grounded /\ tasks'[t].audits = tasks[t].audits
        BY <1>0, <2>1 DEF Task
    <2> QED BY <1>0, <2>1, <2>2 DEF Seen, Audits
<1>9. CASE RepairOne(j) \/ TransformOne(j)
    <2>1. at \in {12, 14} /\ UNCHANGED errors
        BY <1>0, <1>9, NodePositions DEF RepairOne, TransformOne, SetTask, Running, Quiet, PlaceInv
    <2>2. Marks
        BY <2>1, NodePositions DEF Seen, Audits
    <2>3. PICK new : /\ tasks' = [tasks EXCEPT ![j] = new]
                    /\ \/ new = [tasks[j] EXCEPT !.version = tasks[j].version + 1, !.graded = FALSE]
                       \/ \E applied \in {0, 1} : new = [tasks[j] EXCEPT !.version = tasks[j].version + applied]
                       \/ new = tasks[j]
        BY <1>9 DEF RepairOne, TransformOne, SetTask
    <2>5. t = j => /\ new.groups /\ new.judged = tasks[t].judged
                   /\ new.grounded = tasks[t].grounded /\ new.audits = tasks[t].audits
                   /\ new.validated = tasks[t].validated
        BY <1>0, <2>3 DEF Task
    <2>4. /\ t \in DOMAIN tasks' /\ tasks'[t].groups /\ tasks'[t].judged = tasks[t].judged
          /\ tasks'[t].grounded = tasks[t].grounded /\ tasks'[t].audits = tasks[t].audits
          /\ tasks'[t].validated = tasks[t].validated
        BY <1>0, <2>3, <2>5
    <2> QED BY <1>0, <2>1, <2>2, <2>4 DEF Seen
<1>10. CASE RepairRaises(j)
    <2>1. at = 12 /\ UNCHANGED tasks /\ errors \subseteq errors'
        BY <1>0, <1>10, NodePositions DEF RepairRaises, Running, Recorded, PlaceInv
    <2>2. Marks
        BY <2>1, NodePositions DEF Seen, Audits
    <2> QED BY <1>0, <2>1, <2>2
<1> QED BY <1>1, <1>2, <1>3, <1>4, <1>5, <1>6, <1>7, <1>8, <1>9, <1>10

\* Only extraction and escalation decide whether a task has groups.
LEMMA JobKeepsGroups ==
    ASSUME TasksInv, TaskStep, at # 5, at # 13, NEW t \in DOMAIN tasks, tasks'[t].groups
    PROVE  tasks[t].groups
<1>0. PlaceInv /\ tasks[t] \in Task
    BY DEF TasksInv
<1>1. PICK j \in todo :
         \/ ExtractOne(j) \/ RefineOne(j) \/ JudgeOne(j)
         \/ \E n \in Audits : AuditOne(n, j)
         \/ \E n \in NodeNames : TaskRaises(n, j)
         \/ BboxValidation(j) \/ FieldValidation(j)
         \/ RepairOne(j) \/ RepairRaises(j) \/ Escalate(j) \/ NoEscalation(j)
         \/ TransformOne(j) \/ Rules(j) \/ RulesRaise(j)
         \/ Assemble(j)
    BY DEF TaskStep
<1>2. ~ExtractOne(j) /\ ~Escalate(j)
    <2>1. at = 17 \/ (Nodes[at] # "extract" /\ Nodes[at] # "judge_escalation")
        BY <1>0, NodePositions DEF PlaceInv
    <2> QED BY <2>1, NodePositions DEF ExtractOne, Escalate, SetTask, Running
<1>3. CASE RefineOne(j) \/ JudgeOne(j) \/ (\E n \in Audits : AuditOne(n, j)) \/ RepairOne(j) \/ TransformOne(j)
    <2>1. PICK new : /\ tasks' = [tasks EXCEPT ![j] = new]
                     /\ \/ \E found \in BOOLEAN :
                             new = [tasks[j] EXCEPT !.grounded = TRUE, !.graded = tasks[j].graded /\ ~found]
                        \/ new = [tasks[j] EXCEPT !.judged = TRUE]
                        \/ \E n \in Audits : new = [tasks[j] EXCEPT !.audits = tasks[j].audits \cup {n}]
                        \/ new = [tasks[j] EXCEPT !.version = tasks[j].version + 1, !.graded = FALSE]
                        \/ \E applied \in {0, 1} : new = [tasks[j] EXCEPT !.version = tasks[j].version + applied]
                        \/ new = tasks[j]
        BY <1>3 DEF RefineOne, JudgeOne, AuditOne, RepairOne, TransformOne, SetTask
    <2>2. t = j => new.groups = tasks[t].groups
        BY <1>0, <2>1 DEF Task
    <2> QED BY <1>0, <2>1, <2>2
<1>4. CASE BboxValidation(j)
    BY <1>4, GradedTypes DEF BboxValidation, TasksInv
<1>5. CASE FieldValidation(j)
    BY <1>0, <1>5 DEF FieldValidation, Task
<1>6. CASE (\E n \in NodeNames : TaskRaises(n, j)) \/ RepairRaises(j) \/ NoEscalation(j) \/ Rules(j)
           \/ RulesRaise(j) \/ Assemble(j)
    BY <1>6 DEF TaskRaises, RepairRaises, NoEscalation, Rules, RulesRaise, Assemble, ctx
<1> QED BY <1>1, <1>2, <1>3, <1>4, <1>5, <1>6

LEMMA SeenStep == TasksInv /\ SeenInv /\ [Next]_vars => SeenInv'
<1> SUFFICES ASSUME TasksInv, SeenInv, [Next]_vars PROVE SeenInv'
    OBVIOUS
<1>0. PlaceInv /\ at \in 1 .. 17 /\ \A t \in DOMAIN tasks : tasks[t] \in Task
    BY DEF TasksInv, PlaceInv
<1>1. CASE StartNode
    <2>1. /\ ~running /\ at \in 1 .. 16 /\ running' /\ todo' = Jobs(Nodes[at])
          /\ UNCHANGED <<done, errors, failed, tasks, at>>
        BY <1>0, <1>1, NodePositions DEF StartNode, ctx
    <2>2. ASSUME NEW t \in WithGroups, Nodes[at] \in Marking
          PROVE  t \in todo' \/ (at = 8 /\ todo' # {})
        <3>1. at \in 7 .. 11
            BY <1>0, <2>1, <2>2, MarkingPlaces
        <3>2. CASE at = 7 \/ at = 11
            <4>1. Nodes[at] = "bbox_refine" \/ Nodes[at] = "judge"
                BY <3>2, NodePositions
            <4>2. Jobs(Nodes[at]) = WithGroups
                BY <4>1 DEF Jobs, Audits
            <4> QED BY <2>1, <2>2, <4>2
        <3>3. CASE at = 8
            <4>1. Jobs(Nodes[at]) = {<<Nodes[at]>>}
                BY <3>3, NodePositions DEF Jobs, Audits
            <4> QED BY <2>1, <3>3, <4>1
        <3>4. CASE at = 9 \/ at = 10
            <4>1. Nodes[at] \in Audits
                BY <3>4, NodePositions DEF Audits
            <4>2. Jobs(Nodes[at]) = DOMAIN tasks
                BY <4>1 DEF Jobs, Audits
            <4> QED BY <2>1, <2>2, <4>2 DEF WithGroups
        <3> QED BY <3>1, <3>2, <3>3, <3>4
    <2> QED BY <2>1, <2>2, OnlyMarking DEF SeenInv, WithGroups, Replaced
<1>2. CASE NodeEnds
    <2>1. /\ at \in 1 .. 16 /\ running /\ todo = {} /\ ~running' /\ UNCHANGED <<errors, failed>>
          /\ done' = done \cup {Nodes[at]} /\ tasks' = Ended(Nodes[at])
        BY <1>0, <1>2, NodePositions DEF NodeEnds, PlaceInv
    <2>2. /\ DOMAIN tasks' = DOMAIN tasks
          /\ \A t \in DOMAIN tasks : tasks'[t].groups = tasks[t].groups
          /\ \A n : \A t \in DOMAIN tasks : Seen(n, tasks[t]) => Seen(n, tasks'[t])
        BY <1>0, <2>1, GradedTypes, GradedSeen DEF Ended
    <2>3. Replaced => Replaced'
        BY <2>1, NodePositions DEF Replaced
    <2>4. \A t \in WithGroups : Nodes[at] \in errors \/ Seen(Nodes[at], tasks[t])
        BY <2>1 DEF SeenInv
    <2> QED BY <2>1, <2>2, <2>3, <2>4 DEF SeenInv, WithGroups
<1>3. CASE NodeFails
    <2>1. /\ at # 17 /\ failed' = failed \cup {Nodes[at]} /\ ~running'
          /\ UNCHANGED <<tasks, done, errors>>
        BY <1>3, NodePositions DEF NodeFails, ctx
    <2>2. Replaced => Replaced'
        BY <2>1, NodePositions DEF Replaced
    <2> QED BY <2>1, <2>2 DEF SeenInv, WithGroups
<1>4. CASE BuildResult \/ UNCHANGED vars
    <2>1. UNCHANGED <<tasks, done, errors, failed, running, at, todo>>
        BY <1>4 DEF BuildResult, vars, ctx
    <2> QED BY <2>1 DEF SeenInv, WithGroups, Replaced
<1>5. CASE FileStep
    <2>1. at \in 1 .. 4 /\ UNCHANGED <<at, done>>
        BY <1>0, <1>5, FileStepPlace, JobsKeepPlace
    <2>2. Nodes[at] \notin Marking /\ done \cap Marking = {}
        BY <1>0, <2>1, MarkingPlaces
    <2> QED BY <2>1, <2>2, OnlyMarking DEF SeenInv
<1>6. CASE TaskStep
    <2>1. UNCHANGED <<at, running, done, failed>> /\ running /\ at \in 5 .. 16
          /\ DOMAIN tasks' = DOMAIN tasks
        BY <1>0, <1>6, JobsKeepPlace, TaskStepFrame
    <2>2. CASE at = 5
        <3>1. Nodes[at] \notin Marking /\ done \cap Marking = {}
            BY <1>0, <2>1, <2>2, MarkingPlaces
        <3> QED BY <2>1, <3>1, OnlyMarking DEF SeenInv
    <2>3. CASE at = 13
        <3>1. Nodes[at] \notin Marking /\ Replaced'
            BY <1>0, <2>1, <2>3, MarkingPlaces DEF Replaced
        <3> QED BY <2>1, <3>1, OnlyMarking DEF SeenInv
    <2>4. CASE at # 5 /\ at # 13
        <3>1. WithGroups' \subseteq WithGroups
            <4>1. SUFFICES ASSUME NEW t \in DOMAIN tasks, tasks'[t].groups PROVE tasks[t].groups
                BY <2>1 DEF WithGroups
            <4> QED BY <1>6, <2>4, <4>1, JobKeepsGroups
        <3>2. ASSUME NEW t \in WithGroups'
              PROVE  \/ t \in todo'
                     \/ at = 8 /\ todo' # {}
                     \/ Nodes[at] \in errors'
                     \/ Seen(Nodes[at], tasks'[t])
            <4>1. t \in WithGroups
                BY <3>1, <3>2
            <4>2. CASE t \in todo \/ at = 8
                BY <1>6, <2>4, <4>1, <4>2, JobLeavesMark
            <4>3. CASE t \notin todo /\ at # 8
                BY <1>6, <2>1, <2>4, <4>1, <4>3, JobLeavesMark DEF SeenInv
            <4> QED BY <4>2, <4>3
        <3>3. ASSUME NEW n \in done, NEW t \in WithGroups'
              PROVE  n \in errors' \/ Seen(n, tasks'[t]) \/ Replaced'
            <4>1. t \in WithGroups
                BY <3>1, <3>3
            <4>2. Replaced' <=> Replaced
                BY <2>1 DEF Replaced
            <4> QED BY <1>6, <2>4, <3>3, <4>1, <4>2, JobLeavesMark DEF SeenInv
        <3> QED BY <2>1, <3>2, <3>3 DEF SeenInv
    <2> QED BY <2>2, <2>3, <2>4
<1> QED BY <1>1, <1>2, <1>3, <1>4, <1>5, <1>6 DEF Next

\* As long as no node has failed, the engine has left out only what was not
\* asked for.
WalkedInv == failed = {} => \A k \in 1 .. 16 : k < at /\ Wanted(Nodes[k]) => Nodes[k] \in done

LEMMA WalkedStep == PlaceInv /\ WalkedInv /\ [Next]_vars => WalkedInv'
<1> SUFFICES ASSUME PlaceInv, WalkedInv, [Next]_vars, failed' = {} PROVE WalkedInv'
    BY DEF WalkedInv
<1>1. CASE NodeEnds
    <2>1. at \in 1 .. 16 /\ at' \in Following /\ UNCHANGED <<request, failed>>
          /\ done' = done \cup {Nodes[at]}
        BY <1>1, NodePositions DEF NodeEnds, PlaceInv
    <2>2. SUFFICES ASSUME NEW k \in 1 .. 16, k < at', Wanted(Nodes[k])'
                   PROVE  Nodes[k] \in done'
        BY DEF WalkedInv
    <2>3. Wanted(Nodes[k])
        <3>1. Nodes[k]' = Nodes[k]
            BY DEF Nodes
        <3> QED BY <2>1, <2>2, <3>1 DEF Wanted
    <2>4. ~(k > at)
        BY <2>1, <2>2, <2>3 DEF Following
    <2>5. CASE k = at
        BY <2>1, <2>5
    <2>6. CASE k < at
        BY <2>1, <2>3, <2>6 DEF WalkedInv
    <2> QED BY <2>1, <2>4, <2>5, <2>6
<1>2. CASE NodeFails
    BY <1>2 DEF NodeFails
<1>3. CASE StartNode \/ BuildResult \/ FileStep \/ TaskStep \/ UNCHANGED vars
    <2>1. UNCHANGED <<request, at, done, failed>>
        BY <1>3, JobsKeepPlace DEF StartNode, BuildResult, vars
    <2> QED BY <2>1 DEF WalkedInv, Wanted, Nodes
<1> QED BY <1>1, <1>2, <1>3 DEF Next

\* A result is a success only when every job of every stage that ended has done
\* its work on every document: one that raised has left an error, which
\* _build_result reads after the last stage (the except blocks of the steps, and
\* the status in _build_result). A stage that was asked for and did not end is
\* missing only where the trace names a node that failed.
THEOREM SuccessMeansComplete == Spec => []SuccessIsComplete
<1>1. Init => TasksInv /\ SeenInv /\ WalkedInv
    BY PlaceInit DEF Init, TasksInv, SeenInv, WithGroups, WalkedInv
<1>2. TasksInv /\ SeenInv /\ WalkedInv /\ [Next]_vars => TasksInv' /\ SeenInv' /\ WalkedInv'
    BY TasksStep, SeenStep, WalkedStep DEF TasksInv
<1>3. ResultInv /\ SeenInv /\ WalkedInv => SuccessIsComplete
    <2> SUFFICES ASSUME ResultInv, SeenInv, WalkedInv, Built, result.status = "success"
                 PROVE  SuccessIsComplete
        BY DEF SuccessIsComplete
    <2>1. /\ errors = {} /\ WithGroups = DOMAIN tasks /\ DOMAIN result.documents = DOMAIN tasks
          /\ ~running /\ at = 17 /\ result.trace = failed
        BY DEF ResultInv, BuiltFromContext, Built, Status, PlaceInv
    <2>2. \A t \in DOMAIN result.documents :
              /\ tasks[t].groups
              /\ \A n \in done : Seen(n, tasks[t]) \/ "judge_escalation" \in done \cup failed
        BY <2>1 DEF SeenInv, Replaced, WithGroups
    <2>3. DOMAIN Nodes = 1 .. 16
        BY DEF Nodes
    <2>4. \A k \in DOMAIN Nodes : Wanted(Nodes[k]) => Nodes[k] \in done \/ result.trace # {}
        BY <2>1, <2>3 DEF WalkedInv
    <2> QED BY <2>2, <2>4 DEF SuccessIsComplete
<1> QED BY <1>1, <1>2, <1>3, ResultHolds, PTL DEF Spec

-----------------------------------------------------------------------------
(* Files and their segments *)

\* The segments of a slot lie within its pages.
SlotOK(x) ==
    /\ x \in Slot
    /\ \A k \in DOMAIN x.segs : x.segs[k].first <= x.segs[k].last /\ x.segs[k].last <= x.pages

\* The one segment of a pinned slot, which no stage is to touch.
Fixed(x) == x.pin # None /\ DOMAIN x.segs = {1} /\ x.segs[1].type # None

LEMMA OneSegment ==
    ASSUME NEW pages \in 1 .. MaxPages, NEW type \in DocTypes \cup {None},
           NEW pin \in DocTypes \cup {None}, NEW x,
           x = [pages |-> pages, pin |-> pin, segs |-> <<WholeFile(pages, type)>>]
    PROVE  SlotOK(x)
<1>1. MaxPages \in Nat \ {0}
    BY PipelineAssumption
<1>2. /\ WholeFile(pages, type) \in Segment
      /\ WholeFile(pages, type).first = 1 /\ WholeFile(pages, type).last = pages
    BY <1>1 DEF WholeFile, Segment
<1>3. <<WholeFile(pages, type)>> \in Seq(Segment)
    BY <1>2
<1>4. x \in Slot
    BY <1>3 DEF Slot
<1>5. DOMAIN x.segs = {1} /\ x.segs[1] = WholeFile(pages, type) /\ x.pages = pages
    OBVIOUS
<1> QED BY <1>1, <1>2, <1>4, <1>5 DEF SlotOK

\* The ranges a splitter answers with are cut to the file.
LEMMA ClampedSegment ==
    ASSUME NEW pages \in 1 .. MaxPages, NEW a \in 0 .. (MaxPages + 1), NEW b \in 0 .. (MaxPages + 1)
    PROVE  /\ Clamped(a, b, pages) \in Segment
           /\ Clamped(a, b, pages).first <= Clamped(a, b, pages).last
           /\ Clamped(a, b, pages).last <= pages
<1> DEFINE within(x, low) == IF x < low THEN low ELSE IF x > pages THEN pages ELSE x
           first == within(a, 1)
           last == within(b, first)
<1>1. MaxPages \in Nat \ {0} /\ pages \in Nat /\ 1 <= pages /\ pages <= MaxPages
    BY PipelineAssumption
<1>2. first \in 1 .. pages
    BY <1>1
<1> HIDE DEF first
<1>3. last \in first .. pages
    BY <1>1, <1>2
<1> HIDE DEF last
<1>4. first \in 1 .. MaxPages /\ last \in 1 .. MaxPages /\ first <= last /\ last <= pages
    BY <1>1, <1>2, <1>3
<1>5. Clamped(a, b, pages) =
         [first |-> first, last |-> last, type |-> None, pinned |-> FALSE, match |-> FALSE]
    BY DEF Clamped, first, last
<1> QED BY <1>4, <1>5 DEF Segment

LEMMA SplitSegments ==
    ASSUME NEW x, SlotOK(x), NEW raw \in RawRanges, raw # <<>>,
           NEW y, y = [x EXCEPT !.segs = [k \in DOMAIN raw |-> Clamped(raw[k][1], raw[k][2], x.pages)]]
    PROVE  SlotOK(y) /\ y.pin = x.pin
<1>1. PICK n \in 0 .. MaxSegments : raw \in [1 .. n -> (0 .. (MaxPages + 1)) \X (0 .. (MaxPages + 1))]
    BY DEF RawRanges
<1>2. x.pages \in 1 .. MaxPages /\ n \in Nat
    BY PipelineAssumption DEF SlotOK, Slot
<1> DEFINE segs == [k \in DOMAIN raw |-> Clamped(raw[k][1], raw[k][2], x.pages)]
<1>3. \A k \in 1 .. n : raw[k][1] \in 0 .. (MaxPages + 1) /\ raw[k][2] \in 0 .. (MaxPages + 1)
    BY <1>1
<1>4. /\ DOMAIN segs = 1 .. n
      /\ \A k \in 1 .. n : segs[k] \in Segment /\ segs[k].first <= segs[k].last /\ segs[k].last <= x.pages
    BY <1>1, <1>2, <1>3, ClampedSegment
<1>5. segs \in [1 .. n -> Segment]
    BY <1>4
<1>6. segs \in Seq(Segment)
    BY <1>2, <1>5
<1> HIDE DEF segs
<1>7. y = [x EXCEPT !.segs = segs] /\ x \in Slot
    BY DEF segs, SlotOK
<1>8. y \in Slot /\ y.segs = segs /\ y.pages = x.pages /\ y.pin = x.pin
    BY <1>6, <1>7 DEF Slot
<1> QED BY <1>4, <1>8 DEF SlotOK

\* A type given to one segment leaves the ranges, and the other segments.
Typed(x, k, type, match) == [x EXCEPT !.segs[k].type = type, !.segs[k].match = match]

LEMMA TypedSegment ==
    ASSUME NEW x, SlotOK(x), NEW k \in DOMAIN x.segs, NEW type \in DocTypes \cup {None},
           NEW match \in BOOLEAN, NEW y, y = Typed(x, k, type, match)
    PROVE  /\ SlotOK(y) /\ y.pin = x.pin
           /\ DOMAIN y.segs = DOMAIN x.segs
           /\ \A i \in DOMAIN x.segs \ {k} : y.segs[i] = x.segs[i]
<1> DEFINE seg == [x.segs[k] EXCEPT !.type = type, !.match = match]
           segs == [x.segs EXCEPT ![k] = seg]
<1>1. x \in Slot /\ x.segs \in Seq(Segment) /\ x.segs[k] \in Segment
    BY DEF SlotOK, Slot
<1>2. seg \in Segment /\ seg.first = x.segs[k].first /\ seg.last = x.segs[k].last
    BY <1>1 DEF Segment
<1>3. y = [x EXCEPT !.segs = segs]
    BY <1>1 DEF Typed, Slot, Segment
<1> HIDE DEF seg
<1>4. segs \in Seq(Segment) /\ DOMAIN segs = DOMAIN x.segs /\ segs[k] = seg
      /\ \A i \in DOMAIN x.segs \ {k} : segs[i] = x.segs[i]
    BY <1>1, <1>2
<1> HIDE DEF segs
<1>5. y \in Slot /\ y.segs = segs /\ y.pages = x.pages /\ y.pin = x.pin
    BY <1>1, <1>3, <1>4 DEF Slot
<1> QED BY <1>2, <1>4, <1>5 DEF SlotOK

SlotsOK == \A s \in DOMAIN slots : SlotOK(slots[s])

\* A step that works on the segments of files that are loaded.
KeepsFiles ==
    /\ DOMAIN slots' = DOMAIN slots /\ SlotsOK'
    /\ \A s \in DOMAIN slots :
          /\ slots'[s].pin = slots[s].pin
          /\ Fixed(slots[s]) => /\ DOMAIN slots'[s].segs = {1}
                                /\ slots'[s].segs[1] = slots[s].segs[1]

LEMMA RequestTypes ==
    ASSUME request \in Requests
    PROVE  /\ request.types \subseteq DocTypes /\ request.types # {}
           /\ \A f \in DOMAIN request.files : request.files[f] \in request.types \cup {None}
           /\ None \notin DocTypes
           /\ (CHOOSE t \in request.types : TRUE) \in request.types
BY PipelineAssumption DEF Request

LEMMA SameSlotsKept ==
    ASSUME SlotsOK, slots' = slots
    PROVE  KeepsFiles
BY DEF KeepsFiles, SlotsOK, Fixed

LEMMA DiscoverKeepsFiles ==
    ASSUME SlotsOK, NEW s \in DOMAIN slots, slots[s].pin = None, DiscoverOne(s)
    PROVE  KeepsFiles
<1>1. PICK raw \in RawRanges :
         slots' = [slots EXCEPT ![s].segs =
                     IF raw = <<>> THEN <<WholeFile(slots[s].pages, None)>>
                     ELSE [k \in DOMAIN raw |-> Clamped(raw[k][1], raw[k][2], slots[s].pages)]]
    BY DEF DiscoverOne
<1>2. /\ DOMAIN slots' = DOMAIN slots
      /\ \A u \in DOMAIN slots \ {s} : slots'[u] = slots[u]
      /\ slots'[s] = [slots[s] EXCEPT !.segs =
                        IF raw = <<>> THEN <<WholeFile(slots[s].pages, None)>>
                        ELSE [k \in DOMAIN raw |-> Clamped(raw[k][1], raw[k][2], slots[s].pages)]]
    BY <1>1
<1>3. SlotOK(slots[s]) /\ slots[s] \in Slot
    BY DEF SlotsOK, SlotOK
<1>4. SlotOK(slots'[s]) /\ slots'[s].pin = slots[s].pin
    <2>1. CASE raw = <<>>
        <3>1. slots'[s] = [slots[s] EXCEPT !.segs = <<WholeFile(slots[s].pages, None)>>]
            BY <1>2, <2>1
        <3>2. slots'[s] = [pages |-> slots[s].pages, pin |-> slots[s].pin,
                           segs |-> <<WholeFile(slots[s].pages, None)>>]
            BY <1>3, <3>1 DEF Slot
        <3>3. slots[s].pages \in 1 .. MaxPages /\ slots[s].pin \in DocTypes \cup {None}
            BY <1>3 DEF Slot
        <3>4. SlotOK(slots'[s])
            BY <3>2, <3>3, OneSegment
        <3> QED BY <3>2, <3>4
    <2>2. CASE raw # <<>>
        <3>1. slots'[s] = [slots[s] EXCEPT !.segs =
                             [k \in DOMAIN raw |-> Clamped(raw[k][1], raw[k][2], slots[s].pages)]]
            BY <1>2, <2>2
        <3> QED BY <1>3, <2>2, <3>1, SplitSegments
    <2> QED BY <2>1, <2>2
<1> QED BY <1>2, <1>4 DEF KeepsFiles, SlotsOK, Fixed

LEMMA ClassifyKeepsFiles ==
    ASSUME SlotsOK, request \in Requests, NEW id \in Unresolved, ClassifyOne(id)
    PROVE  /\ KeepsFiles
           /\ \A i \in Unresolved \ {id} : i \in Unresolved'
<1>0. /\ id[1] \in DOMAIN slots /\ id[2] \in DOMAIN slots[id[1]].segs /\ id = <<id[1], id[2]>>
      /\ slots[id[1]].segs[id[2]].type = None
    BY DEF Unresolved, SegmentIds, SegmentOf
<1> DEFINE s == id[1]
           k == id[2]
<1>1. PICK type \in DocTypes \cup {None} : \E match \in BOOLEAN :
         slots' = [slots EXCEPT ![s].segs[k].type = type, ![s].segs[k].match = match]
    <2>1. PICK type \in DocTypes \cup {None} :
             slots' = [slots EXCEPT ![id[1]].segs[id[2]].type = type,
                                    ![id[1]].segs[id[2]].match = (type # None)]
        BY RequestTypes DEF ClassifyOne, ClassifierAnswers
    <2>2. \E match \in BOOLEAN : match = (type # None)
        OBVIOUS
    <2> QED BY <2>1, <2>2
<1>2. PICK match \in BOOLEAN :
         slots' = [slots EXCEPT ![s].segs[k].type = type, ![s].segs[k].match = match]
    BY <1>1
<1> HIDE DEF s, k
<1>3. s \in DOMAIN slots /\ k \in DOMAIN slots[s].segs /\ id = <<s, k>> /\ slots[s].segs[k].type = None
    BY <1>0 DEF s, k
<1>4. /\ DOMAIN slots' = DOMAIN slots
      /\ \A u \in DOMAIN slots \ {s} : slots'[u] = slots[u]
      /\ slots'[s] = [slots[s] EXCEPT !.segs[k].type = type, !.segs[k].match = match]
    BY <1>2, <1>3
<1>5. /\ SlotOK(slots'[s]) /\ slots'[s].pin = slots[s].pin
      /\ DOMAIN slots'[s].segs = DOMAIN slots[s].segs
      /\ \A i \in DOMAIN slots[s].segs \ {k} : slots'[s].segs[i] = slots[s].segs[i]
    <2>1. SlotOK(slots[s])
        BY <1>3 DEF SlotsOK
    <2> DEFINE x == slots[s]
               y == slots'[s]
    <2>2. SlotOK(x) /\ k \in DOMAIN x.segs /\ y = Typed(x, k, type, match)
        BY <1>3, <1>4, <2>1 DEF Typed
    <2> HIDE DEF x, y
    <2>3. /\ SlotOK(y) /\ y.pin = x.pin
          /\ DOMAIN y.segs = DOMAIN x.segs
          /\ \A i \in DOMAIN x.segs \ {k} : y.segs[i] = x.segs[i]
        BY <2>2, TypedSegment
    <2> QED BY <2>3 DEF x, y
<1>6. KeepsFiles
    BY <1>3, <1>4, <1>5 DEF KeepsFiles, SlotsOK, Fixed
<1>7. ASSUME NEW i \in Unresolved, i # id PROVE i \in Unresolved'
    <2>1. /\ i[1] \in DOMAIN slots /\ i[2] \in DOMAIN slots[i[1]].segs /\ i = <<i[1], i[2]>>
          /\ slots[i[1]].segs[i[2]].type = None
        BY DEF Unresolved, SegmentIds, SegmentOf
    <2>2. i[1] # s \/ i[2] # k
        BY <1>3, <1>7, <2>1
    <2>3. /\ i[1] \in DOMAIN slots' /\ i[2] \in DOMAIN slots'[i[1]].segs
          /\ slots'[i[1]].segs[i[2]].type = None
        BY <1>4, <1>5, <2>1, <2>2
    <2> QED BY <2>1, <2>3 DEF Unresolved, SegmentIds, SegmentOf
<1> QED BY <1>6, <1>7

LEMMA ImplicitKeepsFiles ==
    ASSUME SlotsOK, request \in Requests, NEW j, ClassifyImplicit(j)
    PROVE  KeepsFiles
<1> DEFINE type == CHOOSE t \in request.types : TRUE
<1>1. slots' = [s \in DOMAIN slots |->
                  [slots[s] EXCEPT !.segs =
                     [k \in DOMAIN slots[s].segs |->
                        IF slots[s].segs[k].type # None THEN slots[s].segs[k]
                        ELSE [slots[s].segs[k] EXCEPT !.type = type]]]]
    BY DEF ClassifyImplicit
<1>2. type \in DocTypes
    BY RequestTypes
<1> HIDE DEF type
<1>3. ASSUME NEW s \in DOMAIN slots
      PROVE  /\ SlotOK(slots'[s]) /\ slots'[s].pin = slots[s].pin
             /\ Fixed(slots[s]) => /\ DOMAIN slots'[s].segs = {1}
                                   /\ slots'[s].segs[1] = slots[s].segs[1]
    <2> DEFINE old == slots[s].segs
               new == [k \in DOMAIN old |->
                         IF old[k].type # None THEN old[k] ELSE [old[k] EXCEPT !.type = type]]
    <2>1. SlotOK(slots[s]) /\ slots[s] \in Slot /\ old \in Seq(Segment)
        BY DEF SlotsOK, SlotOK, Slot
    <2>2. slots'[s] = [slots[s] EXCEPT !.segs = new]
        BY <1>1
    <2> HIDE DEF old
    <2>3. DOMAIN old = 1 .. Len(old) /\ Len(old) \in Nat /\ \A k \in DOMAIN old : old[k] \in Segment
        BY <2>1
    <2>4. \A k \in DOMAIN old :
             /\ new[k] \in Segment
             /\ new[k].first = old[k].first /\ new[k].last = old[k].last
             /\ old[k].type # None => new[k] = old[k]
        BY <1>2, <2>3 DEF Segment
    <2>5. new \in [1 .. Len(old) -> Segment]
        BY <2>3, <2>4
    <2>6. new \in Seq(Segment) /\ DOMAIN new = DOMAIN old
        BY <2>3, <2>5
    <2> HIDE DEF new
    <2>7. slots'[s] \in Slot /\ slots'[s].segs = new /\ slots'[s].pages = slots[s].pages
          /\ slots'[s].pin = slots[s].pin
        BY <2>1, <2>2, <2>6 DEF Slot
    <2>8. SlotOK(slots'[s])
        BY <2>1, <2>4, <2>6, <2>7 DEF SlotOK, old
    <2> QED BY <2>4, <2>6, <2>7, <2>8 DEF Fixed, old
<1> QED BY <1>1, <1>3 DEF KeepsFiles, SlotsOK

\* A file whose type is pinned and that is one row has the one segment it was
\* loaded with.
PinsHold ==
    \A f \in DOMAIN request.files : request.files[f] # None /\ <<f, 2>> \notin DOMAIN slots =>
        /\ <<f, 1>> \in DOMAIN slots /\ Fixed(slots[<<f, 1>>])
        /\ slots[<<f, 1>>].segs[1].type = request.files[f]
        /\ slots[<<f, 1>>].segs[1].pinned /\ ~slots[<<f, 1>>].segs[1].match

Matched == {id \in SegmentIds : SegmentOf(id).type \in request.types}

\* The jobs of the nodes that work on files are the ones these nodes may have.
FileJobs ==
    running =>
        /\ at = 1 => todo \subseteq {<<"load">>}
        /\ at = 2 => \A s \in todo : s \in DOMAIN slots /\ slots[s].pin = None
        /\ at = 3 /\ ~ImplicitType => todo \subseteq Unresolved
        /\ at = 4 => todo \subseteq {<<"plan_tasks">>}
        /\ at \in 2 .. 4 => "load" \in done

FilesInv ==
    /\ request \in Requests /\ SlotsOK /\ FileJobs
    /\ "plan_tasks" \in done => "load" \in done
    /\ "load" \in done \/ (running /\ at = 1 /\ todo = {}) => PinsHold
    /\ at < 4 \/ (at = 4 /\ (running => todo # {})) => unmatched = {}
    /\ "plan_tasks" \in done \/ (running /\ at = 4 /\ todo = {}) =>
          DOMAIN tasks = Matched /\ unmatched = Discovered

LEMMA PinsAreKept ==
    ASSUME PinsHold, KeepsFiles, request' = request
    PROVE  PinsHold'
BY DEF PinsHold, KeepsFiles, Fixed

\* The rows of a file are numbered from one, and there is a first.
LEMMA RowElements ==
    ASSUME NEW S, NEW row \in Seq(S), row # <<>>
    PROVE  /\ Len(row) \in Nat \ {0} /\ DOMAIN row = 1 .. Len(row)
           /\ \A r \in DOMAIN row : row[r] \in S
<1>1. Len(row) \in Nat /\ DOMAIN row = 1 .. Len(row)
    OBVIOUS
<1>2. \A r \in DOMAIN row : row[r] \in S
    BY <1>1
<1>3. Len(row) # 0
    BY EmptySeq
<1> QED BY <1>1, <1>2, <1>3

\* What the load leaves behind: one segment per row, pinned where the caller
\* said what the file is.
LEMMA LoadEffect ==
    ASSUME request \in Requests, NEW j, Load(j), request' = request
    PROVE  SlotsOK' /\ PinsHold'
<1>1. PICK rows \in [DOMAIN request.files -> Normalised] :
         slots' = [s \in UNION {{f} \X DOMAIN rows[f] : f \in DOMAIN rows} |->
                      LET pages == rows[s[1]][s[2]]
                          type  == EffectiveType(s[1], Len(rows[s[1]]) > 1)
                      IN  [pages |-> pages, pin |-> type, segs |-> <<WholeFile(pages, type)>>]]
    BY DEF Load
<1>2. ASSUME NEW f \in DOMAIN request.files
      PROVE  /\ rows[f] \in Seq(1 .. MaxPages) /\ Len(rows[f]) \in Nat \ {0}
             /\ DOMAIN rows[f] = 1 .. Len(rows[f])
             /\ \A r \in DOMAIN rows[f] : rows[f][r] \in 1 .. MaxPages
    <2>1. rows[f] \in Seq(1 .. MaxPages) /\ rows[f] # <<>>
        BY PipelineAssumption
    <2> DEFINE row == rows[f]
    <2> HIDE DEF row
    <2>2. row \in Seq(1 .. MaxPages) /\ row # <<>>
        BY <2>1 DEF row
    <2>3. /\ Len(row) \in Nat \ {0} /\ DOMAIN row = 1 .. Len(row)
          /\ \A r \in DOMAIN row : row[r] \in 1 .. MaxPages
        BY <2>2, RowElements
    <2> QED BY <2>1, <2>3 DEF row
<1> DEFINE page(s) == rows[s[1]][s[2]]
           type(s) == EffectiveType(s[1], Len(rows[s[1]]) > 1)
<1>3. /\ DOMAIN slots' = UNION {{f} \X DOMAIN rows[f] : f \in DOMAIN request.files}
      /\ \A s \in DOMAIN slots' :
            slots'[s] = [pages |-> page(s), pin |-> type(s), segs |-> <<WholeFile(page(s), type(s))>>]
    BY <1>1
<1>4. \A f \in DOMAIN request.files : \A multi \in BOOLEAN :
         EffectiveType(f, multi) \in DocTypes \cup {None}
    BY RequestTypes DEF EffectiveType
<1>5. ASSUME NEW s \in DOMAIN slots' PROVE SlotOK(slots'[s])
    <2>1. s[1] \in DOMAIN request.files /\ s[2] \in DOMAIN rows[s[1]]
        BY <1>3
    <2>2. page(s) \in 1 .. MaxPages
        BY <1>2, <2>1
    <2>3. (Len(rows[s[1]]) > 1) \in BOOLEAN
        OBVIOUS
    <2>4. type(s) \in DocTypes \cup {None}
        BY <1>4, <2>1, <2>3
    <2> DEFINE p == page(s)
               k == type(s)
    <2>5. slots'[s] = [pages |-> p, pin |-> k, segs |-> <<WholeFile(p, k)>>]
        BY <1>3
    <2> HIDE DEF p, k
    <2>6. p \in 1 .. MaxPages /\ k \in DocTypes \cup {None}
        BY <2>2, <2>4 DEF p, k
    <2> QED BY <2>5, <2>6, OneSegment
<1>6. ASSUME NEW f \in DOMAIN request.files, request.files[f] # None, <<f, 2>> \notin DOMAIN slots'
      PROVE  /\ <<f, 1>> \in DOMAIN slots' /\ Fixed(slots'[<<f, 1>>])
             /\ slots'[<<f, 1>>].segs[1].type = request.files[f]
             /\ slots'[<<f, 1>>].segs[1].pinned /\ ~slots'[<<f, 1>>].segs[1].match
    <2>1. Len(rows[f]) \in Nat /\ DOMAIN rows[f] = 1 .. Len(rows[f]) /\ Len(rows[f]) # 0
        BY <1>2
    <2>2. 2 \notin DOMAIN rows[f]
        <3>1. 2 \in DOMAIN rows[f] => <<f, 2>> \in {f} \X DOMAIN rows[f]
            OBVIOUS
        <3> QED BY <1>3, <1>6, <3>1
    <2> DEFINE n == Len(rows[f])
    <2>3. n = 1
        <3>1. n \in Nat /\ n # 0 /\ 2 \notin 1 .. n
            BY <2>1, <2>2
        <3> HIDE DEF n
        <3> QED BY <3>1
    <2>4. <<f, 1>> \in DOMAIN slots'
        BY <1>3, <2>1, <2>3
    <2>5. type(<<f, 1>>) = request.files[f]
        BY <1>6, <2>3 DEF EffectiveType
    <2> DEFINE p == page(<<f, 1>>)
    <2>6. slots'[<<f, 1>>] = [pages |-> p, pin |-> request.files[f],
                              segs |-> <<WholeFile(p, request.files[f])>>]
        BY <1>3, <2>4, <2>5
    <2> HIDE DEF p
    <2> DEFINE seg == WholeFile(p, request.files[f])
    <2>7. seg.type = request.files[f] /\ seg.pinned /\ ~seg.match
        BY <1>6 DEF WholeFile
    <2> HIDE DEF seg
    <2>8. /\ slots'[<<f, 1>>].pin = request.files[f] /\ DOMAIN slots'[<<f, 1>>].segs = {1}
          /\ slots'[<<f, 1>>].segs[1] = seg
        BY <2>6 DEF seg
    <2> QED BY <1>6, <2>4, <2>7, <2>8 DEF Fixed
<1> QED BY <1>5, <1>6 DEF SlotsOK, PinsHold

LEMMA FilesInit == Init => FilesInv
BY NodePositions DEF Init, FilesInv, FileJobs, SlotsOK

\* What the tasks are compared with depends on the files and the request only.
LEMMA SameMatches ==
    ASSUME UNCHANGED <<request, slots>>
    PROVE  UNCHANGED <<Matched, Discovered, Unresolved, ImplicitType>>
BY DEF Matched, Discovered, Unresolved, SegmentIds, SegmentOf, ImplicitType

\* The engine goes from a node to the next; files and tasks are left alone.
LEMMA EngineKeepsFiles ==
    ASSUME PlaceInv, FilesInv, StartNode \/ NodeEnds \/ NodeFails \/ BuildResult
    PROVE  FilesInv'
<1>1. /\ UNCHANGED <<request, slots, unmatched>> /\ DOMAIN tasks' = DOMAIN tasks
      /\ UNCHANGED <<Matched, Discovered, Unresolved, ImplicitType>>
    BY EngineFrame, SameMatches
<1>2. SlotsOK' /\ request' \in Requests /\ (PinsHold => PinsHold')
    BY <1>1 DEF FilesInv, SlotsOK, PinsHold
<1>3. at \in 1 .. 17
    BY DEF PlaceInv
<1>4. CASE StartNode
    <2>1. ~running /\ at \in 1 .. 16 /\ running' /\ UNCHANGED <<at, done>> /\ todo' = Jobs(Nodes[at])
          /\ ~Starves(Nodes[at])
        BY <1>3, <1>4, NodePositions DEF StartNode
    <2>2. /\ at = 1 => todo' = {<<"load">>}
          /\ at = 2 => todo' = {s \in DOMAIN slots : Splittable(s)}
          /\ at = 3 /\ ~ImplicitType => todo' = Unresolved
          /\ at = 4 => todo' = {<<"plan_tasks">>}
        BY <2>1, NodePositions DEF Jobs, Audits
    <2>3. at \in 2 .. 4 => "load" \in done
        BY <2>1, NodePositions DEF Starves
    <2>4. FileJobs'
        BY <1>1, <2>1, <2>2, <2>3 DEF FileJobs, Splittable
    <2> QED BY <1>1, <1>2, <2>1, <2>2, <2>4 DEF FilesInv
<1>5. CASE NodeEnds
    <2>1. /\ running /\ todo = {} /\ ~running' /\ done' = done \cup {Nodes[at]}
          /\ at \in 1 .. 16 /\ at' \in 1 .. 17 /\ at' > at
        BY <1>3, <1>5, FollowingIsAfter, NodePositions DEF NodeEnds, PlaceInv
    <2>2. /\ "load" \in done' => "load" \in done \/ at = 1
          /\ "plan_tasks" \in done' => "plan_tasks" \in done \/ at = 4
        BY <2>1, NodePositions
    <2>3. at = 4 => "load" \in done
        BY <2>1 DEF FilesInv, FileJobs
    <2> QED BY <1>1, <1>2, <2>1, <2>2, <2>3 DEF FilesInv, FileJobs
<1>6. CASE NodeFails
    <2>1. ~running' /\ done' = done /\ at \in 1 .. 16 /\ at' \in 1 .. 17 /\ at' > at
        BY <1>3, <1>6, FollowingIsAfter, NodePositions DEF NodeFails, PlaceInv
    <2> QED BY <1>1, <1>2, <2>1 DEF FilesInv, FileJobs
<1>7. CASE BuildResult
    <2>1. UNCHANGED <<tasks, at, todo, running, done>>
        BY <1>7 DEF BuildResult, ctx
    <2> QED BY <1>1, <1>2, <2>1 DEF FilesInv, FileJobs
<1> QED BY <1>4, <1>5, <1>6, <1>7

\* A job on a file ends at its node; what the nodes before have left behind
\* stays, and the tasks are planned from the files as they are then.
LEMMA FileJobsKeepFiles ==
    ASSUME PlaceInv, FilesInv, FileStep
    PROVE  FilesInv'
<1>1. /\ at \in 1 .. 4 /\ running /\ UNCHANGED <<request, at, running, done>>
      /\ "plan_tasks" \notin done /\ ("load" \in done => at # 1)
    BY FileStepPlace, JobsKeepPlace, NodePositions DEF PlaceInv
<1>2. /\ request \in Requests /\ SlotsOK /\ FileJobs
      /\ at > 1 => "load" \in done /\ PinsHold
    BY <1>1 DEF FilesInv, FileJobs
<1>3. PICK j \in todo :
         \/ Load(j)
         \/ DiscoverOne(j) \/ DiscoverRaises(j)
         \/ ClassifyImplicit(j) \/ ClassifyOne(j) \/ ClassifyRaises(j)
         \/ PlanTasks(j)
    BY DEF FileStep
<1>4. todo' = todo \ {j}
    BY <1>3 DEF Load, DiscoverOne, DiscoverRaises, ClassifyImplicit, ClassifyOne, ClassifyRaises,
                PlanTasks, JobEnds
<1>5. unmatched = {}
    BY <1>1, <1>3 DEF FilesInv
<1>6. CASE Load(j)
    <2>1. at = 1 /\ unmatched' = {}
        BY <1>1, <1>5, <1>6, NodePositions DEF Load, Running
    <2>2. SlotsOK' /\ PinsHold'
        BY <1>1, <1>2, <1>6, LoadEffect
    <2>3. FileJobs'
        BY <1>1, <1>2, <1>4, <2>1 DEF FileJobs
    <2> QED BY <1>1, <1>2, <2>1, <2>2, <2>3 DEF FilesInv
<1>7. CASE DiscoverOne(j) \/ DiscoverRaises(j)
    <2>1. at = 2 /\ unmatched' = {}
        BY <1>1, <1>5, <1>7, NodePositions DEF DiscoverOne, DiscoverRaises, Running, ctx
    <2>2. j \in DOMAIN slots /\ slots[j].pin = None
        BY <1>1, <1>2, <2>1 DEF FileJobs
    <2>3. KeepsFiles
        BY <1>2, <1>7, <2>2, DiscoverKeepsFiles, SameSlotsKept DEF DiscoverRaises, ctx
    <2>4. SlotsOK' /\ PinsHold'
        BY <1>1, <1>2, <2>1, <2>3, PinsAreKept DEF KeepsFiles
    <2>5. FileJobs'
        BY <1>1, <1>2, <1>4, <2>1, <2>3 DEF FileJobs, KeepsFiles
    <2> QED BY <1>1, <1>2, <2>1, <2>4, <2>5 DEF FilesInv
<1>8. CASE ClassifyImplicit(j) \/ ClassifyOne(j) \/ ClassifyRaises(j)
    <2>1. at = 3 /\ unmatched' = {} /\ ImplicitType' = ImplicitType
        <3>1. Running("classify") /\ UNCHANGED unmatched
            BY <1>8 DEF ClassifyImplicit, ClassifyOne, ClassifyRaises, ctx
        <3> QED BY <1>1, <1>5, <3>1, NodePositions DEF Running, ImplicitType
    <2>2. KeepsFiles /\ (~ImplicitType => todo' \subseteq Unresolved')
        <3>1. CASE ClassifyImplicit(j)
            BY <1>2, <3>1, ImplicitKeepsFiles DEF ClassifyImplicit
        <3>2. CASE ClassifyOne(j)
            <4>1. ~ImplicitType /\ todo \subseteq Unresolved
                BY <1>1, <1>2, <2>1, <3>2 DEF ClassifyOne, FileJobs
            <4> QED BY <1>2, <1>4, <3>2, <4>1, ClassifyKeepsFiles
        <3>3. CASE ClassifyRaises(j)
            <4>1. UNCHANGED <<request, slots>>
                BY <1>1, <3>3 DEF ClassifyRaises, ctx
            <4>2. Unresolved' = Unresolved
                BY <4>1, SameMatches
            <4> QED BY <1>1, <1>2, <1>4, <2>1, <4>1, <4>2, SameSlotsKept DEF FileJobs
        <3> QED BY <1>8, <3>1, <3>2, <3>3
    <2>3. SlotsOK' /\ PinsHold'
        BY <1>1, <1>2, <2>1, <2>2, PinsAreKept DEF KeepsFiles
    <2>4. FileJobs'
        BY <1>1, <1>2, <2>1, <2>2 DEF FileJobs
    <2> QED BY <1>1, <1>2, <2>1, <2>3, <2>4 DEF FilesInv
<1>9. CASE PlanTasks(j)
    <2>1. at = 4 /\ UNCHANGED <<request, slots>>
        BY <1>1, <1>9, NodePositions DEF PlanTasks, Running
    <2>2. DOMAIN tasks' = Matched /\ unmatched' = Discovered
        BY <1>5, <1>9 DEF PlanTasks, Matched
    <2>3. DOMAIN tasks' = Matched' /\ unmatched' = Discovered'
        BY <2>1, <2>2, SameMatches
    <2>4. SlotsOK' /\ PinsHold' /\ FileJobs'
        BY <1>1, <1>2, <1>4, <2>1 DEF SlotsOK, PinsHold, FileJobs
    <2>5. todo' = {}
        BY <1>1, <1>2, <1>4, <2>1 DEF FileJobs
    <2> QED BY <1>1, <1>2, <2>1, <2>3, <2>4, <2>5 DEF FilesInv
<1> QED BY <1>3, <1>6, <1>7, <1>8, <1>9

LEMMA FilesStep == PlaceInv /\ FilesInv /\ [Next]_vars => FilesInv'
<1> SUFFICES ASSUME PlaceInv, FilesInv, [Next]_vars PROVE FilesInv'
    OBVIOUS
<1>1. CASE StartNode \/ NodeEnds \/ NodeFails \/ BuildResult
    BY <1>1, EngineKeepsFiles
<1>2. CASE FileStep
    BY <1>2, FileJobsKeepFiles
<1>3. CASE TaskStep \/ UNCHANGED vars
    <2>1. CASE TaskStep
        <3>1. /\ UNCHANGED <<request, slots, unmatched, at, running, done>> /\ DOMAIN tasks' = DOMAIN tasks
              /\ at \in 5 .. 16
            BY <2>1, TaskStepFrame, JobsKeepPlace
        <3>2. UNCHANGED <<Matched, Discovered>>
            BY <3>1, SameMatches
        <3> QED BY <3>1, <3>2 DEF FilesInv, FileJobs, SlotsOK, PinsHold
    <2>2. CASE UNCHANGED vars
        <3>1. UNCHANGED <<request, slots, unmatched, at, running, done, todo, tasks>>
            BY <2>2 DEF vars, ctx
        <3>2. UNCHANGED <<Matched, Discovered, Unresolved, ImplicitType>>
            BY <3>1, SameMatches
        <3> QED BY <3>1, <3>2 DEF FilesInv, FileJobs, SlotsOK, PinsHold
    <2> QED BY <1>3, <2>1, <2>2
<1> QED BY <1>1, <1>2, <1>3 DEF Next

-----------------------------------------------------------------------------
(* What becomes of the files *)

LEMMA FilesHold == Spec => [](ResultInv /\ FilesInv)
BY ResultHolds, FilesInit, FilesStep, PTL DEF Spec, ResultInv

\* Every segment lies within its file and is in the result exactly once, as a
\* document or as a discovered one, whatever the splitter answers and however
\* the classifier fails (_step_discover, _step_classify, _step_plan_tasks).
THEOREM NoSegmentIsLost == Spec => []SegmentsAccounted
<1>1. ASSUME ResultInv, FilesInv, Built, "plan_tasks" \in done PROVE SegmentsAccounted
    <2>1. DOMAIN result.documents = Matched /\ result.discovered = Discovered
        BY <1>1 DEF ResultInv, BuiltFromContext, FilesInv, Built
    <2>2. Matched \cup Discovered = SegmentIds /\ Matched \cap Discovered = {}
        BY DEF Matched, Discovered
    <2>3. ASSUME NEW s \in DOMAIN slots, NEW k \in DOMAIN slots[s].segs
          PROVE  /\ 1 <= slots[s].segs[k].first /\ slots[s].segs[k].first <= slots[s].segs[k].last
                 /\ slots[s].segs[k].last <= slots[s].pages
        <3>1. SlotOK(slots[s]) /\ slots[s].segs \in Seq(Segment)
            BY <1>1 DEF FilesInv, SlotsOK, SlotOK, Slot
        <3>2. slots[s].segs[k] \in Segment
            BY <3>1
        <3>3. 1 <= slots[s].segs[k].first
            BY <3>2 DEF Segment
        <3> QED BY <3>1, <3>3 DEF SlotOK
    <2> QED BY <2>1, <2>2, <2>3 DEF SegmentsAccounted
<1>2. ResultInv /\ FilesInv => SegmentsAccounted
    BY <1>1 DEF SegmentsAccounted
<1> QED BY <1>2, FilesHold, PTL

\* A file of one row whose type the caller has pinned ends as one document of
\* that type with certain confidence, whatever the splitter and the classifier
\* answer and whichever of them fails (_step_load, _segment_confidence).
THEOREM PinsSurvive == Spec => []PinIsKept
<1>1. ASSUME ResultInv, FilesInv, Built, "plan_tasks" \in done,
             NEW f \in DOMAIN request.files, request.files[f] # None, <<f, 2>> \notin DOMAIN slots
      PROVE  /\ {id \in SegmentIds : id[1] = <<f, 1>>} = {<<<<f, 1>>, 1>>}
             /\ <<<<f, 1>>, 1>> \in DOMAIN result.documents
             /\ result.documents[<<<<f, 1>>, 1>>] =
                   [type |-> request.files[f], confidence |-> "certain"]
    <2> DEFINE s == <<f, 1>>
               id == <<s, 1>>
    <2>1. PinsHold /\ DOMAIN tasks = Matched /\ request \in Requests
        BY <1>1 DEF FilesInv
    <2>2. /\ s \in DOMAIN slots /\ DOMAIN slots[s].segs = {1}
          /\ slots[s].segs[1].type = request.files[f]
          /\ slots[s].segs[1].pinned /\ ~slots[s].segs[1].match
        BY <1>1, <2>1 DEF PinsHold, Fixed
    <2>3. SegmentOf(id) = slots[s].segs[1]
        BY DEF SegmentOf
    <2> HIDE DEF s
    <2>4. {i \in SegmentIds : i[1] = s} = {id}
        <3>1. id \in SegmentIds
            BY <2>2 DEF SegmentIds
        <3>2. ASSUME NEW i \in SegmentIds, i[1] = s PROVE i = id
            <4>1. PICK u \in DOMAIN slots : i \in {u} \X DOMAIN slots[u].segs
                BY DEF SegmentIds
            <4>2. i = <<i[1], i[2]>> /\ i[1] = u /\ i[2] \in DOMAIN slots[u].segs
                BY <4>1
            <4> QED BY <2>2, <3>2, <4>2
        <3> QED BY <3>1, <3>2
    <2>5. id \in Matched
        BY <1>1, <2>1, <2>2, <2>3, <2>4, RequestTypes DEF Matched
    <2>6. result.documents = [t \in DOMAIN tasks |->
                                [type       |-> SegmentOf(t).type,
                                 confidence |-> ConfidenceOf(SegmentOf(t))]]
        BY <1>1 DEF ResultInv, BuiltFromContext, Built
    <2>7. ConfidenceOf(SegmentOf(id)) = "certain"
        BY <2>2, <2>3 DEF ConfidenceOf
    <2>8. SegmentOf(id).type = request.files[f]
        BY <2>2, <2>3
    <2> HIDE DEF id
    <2>9. id \in DOMAIN result.documents
          /\ result.documents[id] = [type |-> request.files[f], confidence |-> "certain"]
        BY <2>1, <2>5, <2>6, <2>7, <2>8
    <2> QED BY <2>4, <2>9 DEF s, id
<1>2. ResultInv /\ FilesInv => PinIsKept
    BY <1>1 DEF PinIsKept
<1> QED BY <1>2, FilesHold, PTL
=============================================================================
