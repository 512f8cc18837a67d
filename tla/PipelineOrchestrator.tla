-------------------------- MODULE PipelineOrchestrator -------------------------
(***************************************************************************)
(* One run of PipelineOrchestrator.execute: the chain of stages a request  *)
(* asks for, the jobs each stage gathers, and the result built at the end. *)
(*                                                                         *)
(* A stage's jobs end in any order and each may raise; what a job raises   *)
(* is caught in the step and recorded in pipeline_errors. A stage as a     *)
(* whole fails when its timeout fires or when something outside a job      *)
(* raises (the normaliser in load, a KeyError). The PipelineEngine is a    *)
(* library: a failed stage is put on its trace, and it either goes on with *)
(* the next stage or skips all the others; _build_result runs either way.  *)
(*                                                                         *)
(* The groups of a task are abstracted to which stages have seen them and  *)
(* a version that every change of their content raises.                    *)
(***************************************************************************)
EXTENDS Naturals, Sequences, FiniteSets

CONSTANTS
    DocTypes,       \* document type ids
    None,           \* no type, no result
    Requests,       \* the requests that are run
    MaxPages,       \* bound: pages of a normalised file
    Normalised,     \* what BinaryNormalizer.normalise may return: the pages of each row
    MaxSegments,    \* bound: segments the splitter reports for one file
    MaxFailures     \* bound: stages that time out or raise as a whole

Stages == { "splitter", "classifier", "bbox_refine", "field_validation",
            "visual_authenticity", "content_authenticity", "judge", "repair",
            "judge_escalation", "transform", "rules" }

\* files holds the expected_type of each input file. "transform" and "rules"
\* stand for the toggle and a non-empty list of transformations or rules.
Request == [ types  : (SUBSET DocTypes) \ {{}},
             stages : SUBSET Stages,
             files  : Seq(DocTypes \cup {None}) ]

ASSUME PipelineAssumption ==
    /\ None \notin DocTypes
    /\ \A r \in Requests :
          r \in Request /\ \A f \in DOMAIN r.files : r.files[f] \in r.types \cup {None}
    /\ MaxPages \in Nat \ {0}
    /\ \A rows \in Normalised : rows \in Seq(1 .. MaxPages) /\ rows # <<>>
    /\ MaxSegments \in Nat /\ MaxFailures \in Nat

VARIABLES
    request,
    slots,      \* files_data: <<file, row>> -> _FileSlot
    tasks,      \* <<slot, segment>> -> _ExtractionTask
    unmatched,  \* unmatched_segments, as <<slot, segment>>
    errors,     \* nodes with an entry in pipeline_errors
    at,         \* position of the engine in Nodes
    todo,       \* jobs of the current stage that have not ended
    running,    \* the current stage has started
    repaired,   \* tasks changed by the repair stage
    done,       \* nodes that ended with success
    failed,     \* nodes that failed
    ruleInput,  \* versions of the groups the rules were evaluated on
    result

ctx  == <<slots, tasks, unmatched, repaired, ruleInput>>
vars == <<request, ctx, errors, at, todo, running, done, failed, result>>

Segment == [ first  : 1 .. MaxPages,
             last   : 1 .. MaxPages,
             type   : DocTypes \cup {None},     \* resolved_doctype
             pinned : BOOLEAN,
             match  : BOOLEAN ]                 \* classification.matched

Slot == [ pages : 1 .. MaxPages,
          pin   : DocTypes \cup {None},         \* declared_doctype
          segs  : Seq(Segment) ]

\* The flags say that the stage of that name has seen the present groups. They
\* are graded when every bbox has the verdict of its own coordinates.
Task == [ groups    : BOOLEAN,                  \* extracted_groups is not empty
          version   : Nat,
          graded    : BOOLEAN,                  \* bbox_validation
          grounded  : BOOLEAN,                  \* bbox_refine
          validated : BOOLEAN,                  \* field_validation
          judged    : BOOLEAN,
          audits    : SUBSET {"visual_authenticity", "content_authenticity"} ]

NewTask == [ groups |-> FALSE, version |-> 0, graded |-> FALSE, grounded |-> FALSE,
             validated |-> FALSE, judged |-> FALSE, audits |-> {} ]

-----------------------------------------------------------------------------
(* The chain *)

\* Mutant: the rules run before the transformations.
NodesRulesFirst ==
    << "load", "discover", "classify", "plan_tasks", "extract", "bbox_validation",
       "bbox_refine", "field_validation", "visual_authenticity", "content_authenticity",
       "judge", "repair", "judge_escalation", "rules", "transform", "assemble" >>

Nodes ==
    << "load", "discover", "classify", "plan_tasks", "extract", "bbox_validation",
       "bbox_refine", "field_validation", "visual_authenticity", "content_authenticity",
       "judge", "repair", "judge_escalation", "transform", "rules", "assemble" >>

NodeNames == Stages \cup { "load", "discover", "classify", "plan_tasks", "extract",
                           "bbox_validation", "assemble", "pdf_slicer" }

Wanted(n) ==
    CASE n = "discover" -> /\ "splitter" \in request.stages
                           /\ \E f \in DOMAIN request.files : request.files[f] = None
      [] n = "classify" -> "classifier" \in request.stages
      [] n = "repair"   -> /\ "repair" \in request.stages
                           /\ {"judge", "field_validation"} \cap request.stages # {}
      [] n = "judge_escalation" -> {"judge", n} \subseteq request.stages
      [] OTHER -> n \in Stages => n \in request.stages

Past == Len(Nodes) + 1

\* The chain is the wanted nodes in their order: the position after this one
Following == {k \in (at + 1) .. Past : /\ k # Past => Wanted(Nodes[k])
                                       /\ \A m \in (at + 1) .. (k - 1) : ~Wanted(Nodes[m])}

Running(n) == running /\ at # Past /\ Nodes[at] = n

\* The job ends; when it raised, the step has recorded that.
JobEnds(j)   == todo' = todo \ {j} /\ UNCHANGED <<request, at, running, done, failed, result>>
Quiet        == UNCHANGED errors
Recorded(ns) == errors' = errors \cup ns

-----------------------------------------------------------------------------
(* Files, segments and tasks *)

SegmentIds == UNION {{s} \X DOMAIN slots[s].segs : s \in DOMAIN slots}
SegmentOf(id) == slots[id[1]].segs[id[2]]

WholeFile(pages, type) ==
    [first |-> 1, last |-> pages, type |-> type, pinned |-> type # None, match |-> FALSE]

\* The pin of a file that became several rows is ambiguous. With the
\* classifier off, the only declared type is as good as a pin.
EffectiveType(f, multiRow) ==
    CASE multiRow -> None
      [] ~multiRow /\ request.files[f] # None -> request.files[f]
      [] OTHER -> IF "classifier" \notin request.stages /\ Cardinality(request.types) = 1
                  THEN CHOOSE t \in request.types : TRUE
                  ELSE None

Load(j) ==
    /\ Running("load") /\ j \in todo
    /\ \E rows \in [DOMAIN request.files -> Normalised] :
         slots' = [s \in UNION {{f} \X DOMAIN rows[f] : f \in DOMAIN rows} |->
                      LET pages == rows[s[1]][s[2]]
                          type  == EffectiveType(s[1], Len(rows[s[1]]) > 1)
                      IN  [pages |-> pages, pin |-> type, segs |-> <<WholeFile(pages, type)>>]]
    /\ JobEnds(j) /\ Quiet
    /\ UNCHANGED <<tasks, unmatched, repaired, ruleInput>>

\* Mutant: the splitter is asked about every file with several pages.
SplittableAlways(s) == slots[s].pages > 1

\* Pinned files and single pages are not split.
Splittable(s) == slots[s].pin = None /\ slots[s].pages > 1

\* Mutant: the range is taken from the model as it is.
ClampedRaw(a, b, pages) == [first |-> a, last |-> b, type |-> None, pinned |-> FALSE, match |-> FALSE]

\* DocumentSplitter.discover clamps each range to the file; gaps and overlaps stay.
Clamped(a, b, pages) ==
    LET within(x, low) == IF x < low THEN low ELSE IF x > pages THEN pages ELSE x
        first == within(a, 1)
    IN  [first |-> first, last |-> within(b, first), type |-> None,
         pinned |-> FALSE, match |-> FALSE]

\* The splitter's answer: any ranges, or none at all (then the whole file)
RawRanges == UNION {[1 .. n -> (0 .. (MaxPages + 1)) \X (0 .. (MaxPages + 1))] :
                       n \in 0 .. MaxSegments}

DiscoverOne(s) ==
    /\ Running("discover") /\ s \in todo
    /\ \E raw \in RawRanges :
         slots' = [slots EXCEPT ![s].segs =
                     IF raw = <<>> THEN <<WholeFile(slots[s].pages, None)>>
                     ELSE [k \in DOMAIN raw |-> Clamped(raw[k][1], raw[k][2], slots[s].pages)]]
    /\ JobEnds(s) /\ Quiet
    /\ UNCHANGED <<tasks, unmatched, repaired, ruleInput>>

DiscoverRaises(s) ==
    /\ Running("discover") /\ s \in todo
    /\ JobEnds(s) /\ Recorded({"discover"})
    /\ UNCHANGED ctx

ImplicitType == Cardinality(request.types) = 1

Unresolved == {id \in SegmentIds : SegmentOf(id).type = None}

\* One declared type: every segment without a type has it, no model is asked.
ClassifyImplicit(j) ==
    /\ Running("classify") /\ j \in todo /\ ImplicitType
    /\ slots' = [s \in DOMAIN slots |->
                   [slots[s] EXCEPT !.segs =
                      [k \in DOMAIN slots[s].segs |->
                         IF slots[s].segs[k].type # None THEN slots[s].segs[k]
                         ELSE [slots[s].segs[k] EXCEPT !.type = CHOOSE t \in request.types : TRUE]]]]
    /\ JobEnds(j) /\ Quiet
    /\ UNCHANGED <<tasks, unmatched, repaired, ruleInput>>

\* The sub-document is sliced out of a file with several segments. When that
\* fails the whole file is used and the failure is recorded.
SliceMayFail(id) == SegmentOf(id).first # 1 \/ SegmentOf(id).last # slots[id[1]].pages

SliceErrors(ids) == {{}} \cup {{"pdf_slicer"} : id \in {i \in ids : SliceMayFail(i)}}

\* _slice_for_segment: a file with one segment is classified as it is.
ClassifySlice(id) == IF Len(slots[id[1]].segs) > 1 THEN {id} ELSE {}

\* DocumentClassifier.classify: whatever the model says, the answer is one of
\* the candidates or unmatched.
ClassifierAnswers == request.types \cup {None}

ClassifyOne(id) ==
    /\ Running("classify") /\ id \in todo /\ ~ImplicitType
    /\ \E type \in ClassifierAnswers :
         slots' = [slots EXCEPT ![id[1]].segs[id[2]].type = type,
                                ![id[1]].segs[id[2]].match = (type # None)]
    /\ JobEnds(id)
    /\ \E es \in SliceErrors(ClassifySlice(id)) : Recorded(es)
    /\ UNCHANGED <<tasks, unmatched, repaired, ruleInput>>

ClassifyRaises(id) ==
    /\ Running("classify") /\ id \in todo /\ ~ImplicitType
    /\ JobEnds(id)
    /\ \E es \in SliceErrors(ClassifySlice(id)) : Recorded(es \cup {"classify"})
    /\ UNCHANGED ctx

\* Mutant: a segment without a type is dropped instead of discovered.
DiscoveredOnlyClassified ==
    {id \in SegmentIds : SegmentOf(id).type \notin request.types /\ SegmentOf(id).match}

Discovered == {id \in SegmentIds : SegmentOf(id).type \notin request.types}

PlanTasks(j) ==
    /\ Running("plan_tasks") /\ j \in todo
    /\ LET matched == {id \in SegmentIds : SegmentOf(id).type \in request.types} IN
         /\ tasks' = [id \in matched |-> NewTask]
         /\ \E es \in SliceErrors(matched) : Recorded(es)
    /\ unmatched' = unmatched \cup Discovered
    /\ JobEnds(j)
    /\ UNCHANGED <<slots, repaired, ruleInput>>

-----------------------------------------------------------------------------
(* Extraction and the stages that look at its groups *)

SetTask(n, t, new) ==
    /\ Running(n) /\ t \in todo
    /\ tasks' = [tasks EXCEPT ![t] = new]
    /\ JobEnds(t) /\ Quiet
    /\ UNCHANGED <<slots, unmatched, ruleInput>>

\* The extractor may find nothing, which is no error.
ExtractOne(t) ==
    \E found \in BOOLEAN :
        /\ SetTask("extract", t, [tasks[t] EXCEPT !.groups = found, !.version = @ + 1])
        /\ UNCHANGED repaired

\* A value that is found gets a new bbox, with the verdict of the old one or
\* with none (_replace_bbox).
RefineOne(t) ==
    \E found \in BOOLEAN :
        /\ SetTask("bbox_refine", t, [tasks[t] EXCEPT !.grounded = TRUE, !.graded = @ /\ ~found])
        /\ UNCHANGED repaired

JudgeOne(t)   == SetTask("judge", t, [tasks[t] EXCEPT !.judged = TRUE]) /\ UNCHANGED repaired
AuditOne(n, t) == SetTask(n, t, [tasks[t] EXCEPT !.audits = @ \cup {n}]) /\ UNCHANGED repaired

Audits == {"visual_authenticity", "content_authenticity"}

\* Mutant: what a job raises is logged and not recorded.
TaskRaisesUnrecorded(n, t) ==
    /\ n \in {"extract", "bbox_refine", "judge", "judge_escalation"} \cup Audits
    /\ Running(n) /\ t \in todo
    /\ JobEnds(t) /\ Quiet
    /\ UNCHANGED ctx

\* A job of one of these stages raises: recorded, the task stays as it was.
TaskRaises(n, t) ==
    /\ n \in {"extract", "bbox_refine", "judge", "judge_escalation"} \cup Audits
    /\ Running(n) /\ t \in todo
    /\ JobEnds(t) /\ Recorded({n})
    /\ UNCHANGED ctx

Graded(ts) == [t \in DOMAIN ts |-> [ts[t] EXCEPT !.graded = @ \/ ts[t].groups]]

BboxValidation(j) ==
    /\ Running("bbox_validation") /\ j \in todo
    /\ tasks' = Graded(tasks)
    /\ JobEnds(j) /\ Quiet
    /\ UNCHANGED <<slots, unmatched, repaired, ruleInput>>

FieldValidation(j) ==
    /\ Running("field_validation") /\ j \in todo
    /\ tasks' = [t \in DOMAIN tasks |-> [tasks[t] EXCEPT !.validated = tasks[t].groups]]
    /\ JobEnds(j) /\ Quiet
    /\ UNCHANGED <<slots, unmatched, repaired, ruleInput>>

\* FieldRepairer merges verified candidates into the groups in place, or
\* finds nothing to merge; what it raises for a task it swallows.
RepairOne(t) ==
    \/ /\ Running("repair") /\ (tasks[t].judged \/ tasks[t].validated)
       /\ SetTask("repair", t, [tasks[t] EXCEPT !.version = @ + 1, !.graded = FALSE])
       /\ repaired' = repaired \cup {t}
    \/ SetTask("repair", t, tasks[t]) /\ UNCHANGED repaired

\* maybe_repair raises as a whole: no grading follows.
RepairRaises(t) ==
    /\ Running("repair") /\ t \in todo
    /\ todo' = {} /\ repaired' = {}
    /\ Recorded({"repair"})
    /\ UNCHANGED <<request, slots, tasks, unmatched, ruleInput, at, running, done, failed, result>>

\* The groups after an accepted escalation: new and judged again (or not, if
\* that raised), empty, or the old ones where the second extraction raised.
EscalatedTask(task) ==
    { task,
      [NewTask EXCEPT !.version = task.version + 1, !.audits = task.audits] }
    \cup { [NewTask EXCEPT !.groups = TRUE, !.version = task.version + 1,
                           !.audits = task.audits, !.judged = judged] : judged \in BOOLEAN }

\* JudgeEscalator.maybe_escalate; its bboxes are graded again.
Escalate(j) ==
    /\ Running("judge_escalation") /\ j \in todo
    /\ \E t \in DOMAIN tasks : tasks[t].judged
    /\ \E new \in [DOMAIN tasks -> UNION {EscalatedTask(tasks[t]) : t \in DOMAIN tasks}] :
         /\ \A t \in DOMAIN tasks : new[t] \in EscalatedTask(tasks[t])
         /\ tasks' = Graded(new)
    /\ JobEnds(j) /\ Quiet
    /\ UNCHANGED <<slots, unmatched, repaired, ruleInput>>

\* Not triggered, or not better
NoEscalation(j) ==
    /\ Running("judge_escalation") /\ j \in todo
    /\ JobEnds(j) /\ Quiet
    /\ UNCHANGED ctx

\* The groups of a task before and after the transformations, none of which
\* may apply. The code takes one task after another; here any order will do.
TransformOne(t) ==
    \E applied \in {0, 1} :
        /\ SetTask("transform", t, [tasks[t] EXCEPT !.version = @ + applied])
        /\ UNCHANGED repaired

Versions == [t \in DOMAIN tasks |-> tasks[t].version]

Rules(j) ==
    /\ Running("rules") /\ j \in todo
    /\ ruleInput' = Versions
    /\ JobEnds(j) /\ Quiet
    /\ UNCHANGED <<slots, tasks, unmatched, repaired>>

RulesRaise(j) ==
    /\ Running("rules") /\ j \in todo
    /\ JobEnds(j) /\ Recorded({"rules"})
    /\ UNCHANGED ctx

Assemble(j) ==
    /\ Running("assemble") /\ j \in todo
    /\ JobEnds(j) /\ Quiet
    /\ UNCHANGED ctx

-----------------------------------------------------------------------------
(* The engine *)

WithGroups == {t \in DOMAIN tasks : tasks[t].groups}

\* The jobs a stage gathers; the other stages are a single job.
Jobs(n) ==
    CASE n = "discover" -> {s \in DOMAIN slots : Splittable(s)}
      [] n = "classify" -> IF ImplicitType THEN {<<n>>} ELSE Unresolved
      [] n = "extract" \/ n \in Audits -> DOMAIN tasks
      [] n \in {"bbox_refine", "judge", "repair", "transform"} -> WithGroups
      [] OTHER -> {<<n>>}

\* A step that reads files_data or tasks raises a KeyError without them.
Starves(n) ==
    \/ n \in {"discover", "classify", "plan_tasks"} /\ "load" \notin done
    \/ /\ n \notin {"load", "discover", "classify", "plan_tasks", "repair", "assemble"}
       /\ "plan_tasks" \notin done

StartNode ==
    /\ ~running /\ at # Past /\ ~Starves(Nodes[at])
    /\ running' = TRUE
    /\ todo' = Jobs(Nodes[at])
    /\ UNCHANGED <<request, ctx, errors, at, done, failed, result>>

\* Mutant: what repair has changed keeps the old grading.
EndedUngraded(n) == tasks

\* _step_repair grades the bboxes again when a field was repaired.
Ended(n) == IF n = "repair" /\ repaired # {} THEN Graded(tasks) ELSE tasks

NodeEnds ==
    /\ running /\ todo = {}
    /\ tasks' = Ended(Nodes[at])
    /\ at' \in Following /\ running' = FALSE
    /\ done' = done \cup {Nodes[at]}
    /\ UNCHANGED <<request, slots, unmatched, repaired, ruleInput, errors, todo, failed, result>>

\* The stage's timeout fires, or it raises as a whole: its open jobs are
\* cancelled, what the others have done stays.
NodeFails ==
    /\ at # Past
    /\ \/ running /\ Cardinality(failed) < MaxFailures
       \/ ~running /\ Starves(Nodes[at])
    /\ failed' = failed \cup {Nodes[at]}
    /\ at' \in Following \cup {Past}
    /\ running' = FALSE /\ todo' = {}
    /\ UNCHANGED <<request, ctx, errors, done, result>>

Status == IF WithGroups # DOMAIN tasks \/ errors # {} THEN "partial" ELSE "success"

\* _file_info
MatchedType(s) == IF Len(slots[s].segs) = 1 THEN slots[s].segs[1].type ELSE None

\* Mutant: there is no result unless the chain was walked to its end.
CanBuildAssembled == ~running /\ at = Past /\ "assemble" \in done

CanBuild == ~running /\ at = Past

\* _segment_confidence: where the confidence of a document comes from
ConfidenceOf(seg) ==
    CASE seg.match  -> "classifier"
      [] ~seg.match /\ seg.pinned -> "certain"
      [] OTHER      -> "splitter"

BuildResult ==
    /\ CanBuild /\ result = None
    /\ result' = [ status     |-> Status,
                   documents  |-> [t \in DOMAIN tasks |->
                                     [type       |-> SegmentOf(t).type,
                                      confidence |-> ConfidenceOf(SegmentOf(t))]],
                   discovered |-> unmatched,
                   files      |-> [s \in DOMAIN slots |-> MatchedType(s)],
                   trace      |-> failed ]      \* the nodes that have failed on it
    /\ UNCHANGED <<request, ctx, errors, at, todo, running, done, failed>>

Init ==
    /\ request \in Requests
    /\ slots = <<>> /\ tasks = <<>> /\ unmatched = {}
    /\ errors = {}
    /\ at = 1 /\ todo = {} /\ running = FALSE
    /\ repaired = {} /\ done = {} /\ failed = {}
    /\ ruleInput = <<>>
    /\ result = None

FileStep ==
    \E j \in todo :
        \/ Load(j)
        \/ DiscoverOne(j) \/ DiscoverRaises(j)
        \/ ClassifyImplicit(j) \/ ClassifyOne(j) \/ ClassifyRaises(j)
        \/ PlanTasks(j)

TaskStep ==
    \E j \in todo :
        \/ ExtractOne(j) \/ RefineOne(j) \/ JudgeOne(j)
        \/ \E n \in Audits : AuditOne(n, j)
        \/ \E n \in NodeNames : TaskRaises(n, j)
        \/ BboxValidation(j) \/ FieldValidation(j)
        \/ RepairOne(j) \/ RepairRaises(j) \/ Escalate(j) \/ NoEscalation(j)
        \/ TransformOne(j) \/ Rules(j) \/ RulesRaise(j)
        \/ Assemble(j)

Next ==
    \/ StartNode \/ NodeEnds \/ NodeFails \/ BuildResult
    \/ FileStep \/ TaskStep

Spec == Init /\ [][Next]_vars

\* asyncio goes on with what can go on, and the timeouts end what does not.
LiveSpec == Spec /\ WF_vars(Next)

-----------------------------------------------------------------------------
(* Properties *)

Built == result # None

\* Unless a stage failed as a whole before the tasks were planned, every
\* segment of every file lies within its file and is in the result exactly once:
\* as a document or as a discovered document. No sub-document is dropped,
\* whatever the splitter answers and however the classifier fails.
SegmentsAccounted ==
    Built /\ "plan_tasks" \in done =>
        /\ \A s \in DOMAIN slots : \A k \in DOMAIN slots[s].segs :
              1 <= slots[s].segs[k].first /\ slots[s].segs[k].first <= slots[s].segs[k].last
              /\ slots[s].segs[k].last <= slots[s].pages
        /\ DOMAIN result.documents \cup result.discovered = SegmentIds
        /\ DOMAIN result.documents \cap result.discovered = {}

\* A file whose type the caller has pinned, and that is one row, is never split
\* or given another type by the splitter, the classifier or their failures: it
\* ends as one document of that type, with certain confidence.
PinIsKept ==
    Built /\ "plan_tasks" \in done =>
        \A f \in DOMAIN request.files :
            request.files[f] # None /\ <<f, 2>> \notin DOMAIN slots =>
                {id \in SegmentIds : id[1] = <<f, 1>>} = {<<<<f, 1>>, 1>>}
                /\ <<<<f, 1>>, 1>> \in DOMAIN result.documents
                /\ result.documents[<<<<f, 1>>, 1>>] =
                      [type |-> request.files[f], confidence |-> "certain"]

\* The stage n has done its work on a task.
Seen(n, task) ==
    /\ n = "bbox_refine"      => task.grounded
    /\ n = "field_validation" => task.validated
    /\ n = "judge"            => task.judged
    /\ n \in Audits           => n \in task.audits

\* A stage gathers its jobs and lets each of them fail alone. In a result that is
\* called a success no job of a stage that ended is missing, in whatever order
\* they ended and raised: every document was extracted, and refined, validated,
\* judged and audited where that was asked for. Only groups that an escalation
\* has put in their place may lack the work of the stages before it. A stage that
\* timed out or was skipped is no error and leaves the result a success, but never
\* in silence: where one that was asked for is missing, the trace of the result
\* names a node that failed.
SuccessIsComplete ==
    Built /\ result.status = "success" =>
        /\ \A t \in DOMAIN result.documents :
              /\ tasks[t].groups
              /\ \A n \in done : Seen(n, tasks[t]) \/ "judge_escalation" \in done \cup failed
        /\ \A k \in DOMAIN Nodes :
              Wanted(Nodes[k]) => Nodes[k] \in done \/ result.trace # {}

\* What the rules were evaluated on is what the caller receives: nothing
\* changes the groups after the rule stage has read them.
RulesSeeFinalGroups ==
    Built /\ "rules" \in done \ errors => ruleInput = Versions

\* Whichever of repair and escalation replaced fields, no document leaves the
\* pipeline with a bbox that was not graded, unless the grading, the repair or
\* the escalation stage itself failed. This is about runs without the inline
\* bbox_refine, as all runs of the extraction worker are.
GeometryIsGraded ==
    /\ Built /\ "bbox_validation" \in done
    /\ "bbox_refine" \notin request.stages
    /\ {"repair", "judge_escalation"} \cap (failed \cup errors) = {}
    => \A t \in WithGroups : tasks[t].graded

\* Whatever raises or times out, a run of the pipeline ends with a result.
ResultIsBuilt == <>Built
=============================================================================
