----------------------------- MODULE SyncExtract ------------------------------
(***************************************************************************)
(* POST /api/v1/extract with the data path of the pipeline behind it: the  *)
(* gates of the controller, the extractor, the field validators, the       *)
(* transformations and the rules, under the one deadline of the handler.   *)
(* PipelineOrchestrator has the control of the pipeline and the stages in  *)
(* between; here every file is one task, of the type it is pinned to.      *)
(***************************************************************************)
EXTENDS RuleEngine, TransformationEngine

CONSTANTS
    Requests,       \* the requests that are posted
    MaxBytes        \* FLYDOCS_MAX_BYTES

\* The shape of the payload is the DTOs' to check: files, types, groups,
\* fields and rules are lists. Every file is pinned, and there is a task for
\* it. The shape of an answer is the output model's: rows are a list, and what
\* a text column holds is a text, or blank.
ASSUME SyncAssumption ==
    \A r \in Requests :
        /\ \A list \in {r.docs, r.rules} \cup {d.groups : d \in ToSet(r.docs)} : list \in Seq(ToSet(list))
        /\ \A d \in ToSet(r.docs) : \A g \in ToSet(d.groups) :
             /\ g.fields \in Seq(ToSet(g.fields))
             /\ \A a \in Answers[d.id], f \in ToSet(g.fields) :
                  f.kind = "array" /\ f.name \in DOMAIN a =>
                    /\ a[f.name].rows \in Seq(ToSet(a[f.name].rows))
                    /\ \A row \in ToSet(a[f.name].rows) : \A c \in TextColumns \cap DOMAIN row :
                         row[c].value = Blank \/ IsText(row[c].value)
        /\ DOMAIN r.files \subseteq Task /\ \A t \in DOMAIN r.files : r.files[t].pin # None
        /\ \A rule \in ToSet(r.rules) : \A p \in rule.fields \cup rule.checks : p = <<p[1], p[2]>>

VARIABLES
    req,
    stage,          \* where the handler is
    status,         \* the HTTP status of the answer; 0 while there is none
    visual          \* tasks whose visual checks have been answered

syncVars == <<req, stage, status, visual>>
vars == <<syncVars, extractVars, transformVars, ruleVars>>

Init ==
    /\ req \in Requests
    /\ stage = "gate" /\ status = 0 /\ visual = {}
    /\ ExtractIdle /\ TransformIdle /\ RulesIdle

Work == <<extractVars, transformVars, ruleVars>>

-----------------------------------------------------------------------------
(* The gates *)

\* (len(encoded) * 3) // 4: padding counts as content.
DecodedSize(file) == (file.encoded * 3) \div 4

TooLarge(file) == DecodedSize(file) > MaxBytes
BadBase64(file) == file.encoded > 0 /\ ~file.wellFormed

\* _enforce_size_limits: the first file with a fault decides.
SizeProblem ==
    LET bad == {f \in DOMAIN req.files : TooLarge(req.files[f]) \/ BadBase64(req.files[f])} IN
    IF bad = {} THEN 0 ELSE IF TooLarge(req.files[Min(bad)]) THEN 413 ELSE 422

GateStatus == CASE SizeProblem # 0 -> SizeProblem [] Errors(req) # {} -> 422 [] OTHER -> 0

Gate ==
    /\ stage = "gate"
    /\ status' = GateStatus
    /\ stage' = IF GateStatus = 0 THEN "load" ELSE "answered"
    /\ UNCHANGED <<req, visual, Work>>

\* BinaryNormalizer: every file becomes a document, or the request is refused
\* with the status its error carries.
Load ==
    /\ stage = "load"
    /\ \/ stage' = "extract" /\ UNCHANGED status
       \/ stage' = "answered" /\ status' \in {415, 422}
    /\ UNCHANGED <<req, visual, Work>>

-----------------------------------------------------------------------------
(* The stages *)

DocOf(t)  == DocNamed(req, req.files[t].pin)
HasTask(t) == t \in DOMAIN req.files

Extract ==
    /\ stage = "extract"
    /\ \E t \in Task : HasTask(t) /\ ExtractStep(t, DocOf(t), req.files[t].pages)
    /\ UNCHANGED <<syncVars, transformVars, ruleVars>>

ExtractEnds ==
    /\ stage = "extract"
    /\ \A t \in Task : HasTask(t) => call[t] \in {"done", "failed"}
    /\ stage' = "validate"
    /\ UNCHANGED <<req, status, visual, Work>>

Validate ==
    /\ stage = "validate"
    /\ groups' = IF "field_validation" \notin req.stages THEN groups
                 ELSE [t \in Task |-> IF groups[t] = <<>> THEN <<>> ELSE Validated(DocOf(t), groups[t])]
    /\ stage' = "visual"
    /\ UNCHANGED <<req, status, visual, call, first, used, transformVars, ruleVars>>

\* A check the model does not answer is "Not evaluated"; a call that raises, or
\* is cut off, leaves its task without any.
VisualAuthenticity ==
    /\ stage = "visual"
    /\ visual' \in IF "visual_authenticity" \in req.stages
                   THEN SUBSET {t \in DOMAIN req.files : DocOf(t).checks # {}} ELSE {{}}
    /\ stage' = IF "transform" \in req.stages /\ req.transformations # <<>> THEN "transform" ELSE "rules"
    /\ UNCHANGED <<req, status, Work>>

Transform ==
    /\ stage = "transform"
    /\ TransformStep(req.transformations)
    /\ UNCHANGED <<syncVars, call, first, used, ruleVars>>

TransformEnds ==
    /\ stage = "transform" /\ Transformed(req.transformations)
    /\ stage' = "rules"
    /\ UNCHANGED <<req, status, visual, Work>>

\* What the pipeline does after a stage that raised, PipelineOrchestrator
\* leaves open: the rules, or nothing more.
TransformRaises ==
    /\ stage = "transform" /\ step > 0
    /\ RequestScopeRaises(req.transformations[step])
    /\ \/ stage' = "rules" /\ UNCHANGED status
       \/ stage' = "answered" /\ status' = 200
    /\ UNCHANGED <<req, visual, call, first, used, ruleVars>>

\* _step_rules: what the tasks of each type have extracted, and what the
\* visual checks have said of them
ExtractedFields ==
    UNION {{<<DocOf(t).id, f.name>> : f \in FieldsIn(groups[t])} : t \in DOMAIN req.files}
VisualResults == UNION {{DocOf(t).id} \X DocOf(t).checks : t \in visual}

Rules ==
    /\ stage = "rules" /\ "rules" \in req.stages
    /\ StartRules(req) \/ EvaluateLevel(req, ExtractedFields, VisualResults) \/ EvaluationRaises
    /\ UNCHANGED <<syncVars, extractVars, transformVars>>

Answer ==
    /\ stage = "rules" /\ ("rules" \in req.stages => engine \in {"done", "failed"})
    /\ stage' = "answered" /\ status' = 200
    /\ UNCHANGED <<req, visual, Work>>

\* asyncio.wait_for cancels the pipeline wherever it is.
SyncTimeout ==
    /\ stage \notin {"gate", "answered"}
    /\ stage' = "answered" /\ status' = 408
    /\ UNCHANGED <<req, visual, Work>>

Answered == stage = "answered" /\ UNCHANGED vars

Next ==
    \/ Gate \/ Load \/ Extract \/ ExtractEnds \/ Validate \/ VisualAuthenticity
    \/ Transform \/ TransformEnds \/ TransformRaises \/ Rules \/ Answer \/ SyncTimeout \/ Answered

Spec == Init /\ [][Next]_vars

-----------------------------------------------------------------------------
(* Properties *)

\* A rule set the validator has accepted can be evaluated: the engine never
\* meets a cycle; every rule is asked once, after all its parents, with the
\* results the model gave to them, every field it reads of the documents that
\* were extracted and every visual check it reads of those that were looked at
\* (RequestValidator against RuleEngine.evaluate).
AcceptedRulesRun ==
    /\ engine # "cycle"
    /\ engine = "done" => EachRuleOnce(req)
    /\ ParentsAskedFirst(req) /\ ParentsShown(req)
    /\ \A r \in DOMAIN asked : asked[r] # {} =>
         /\ \A p \in RuleNamed(req, r).fields :
              (\E t \in DOMAIN req.files : DocOf(t).id = p[1] /\ groups[t] # <<>>) =>
                  p \in shown[r].documents
         /\ \A p \in RuleNamed(req, r).checks :
              (\E t \in visual : DocOf(t).id = p[1]) => p \in shown[r].documents

\* The second pass for empty arrays only ever adds rows: no value, page or box
\* of the first pass is changed by it, and an array that was filled is left
\* alone (_suspicious_empty_arrays, _merge_after_retry).
FirstPassIsKept ==
    [][stage = "extract" =>
        \A t \in Task : groups'[t] # groups[t] =>
            \A g \in DOMAIN first'[t] : \A k \in DOMAIN first'[t][g].fields :
                LET old == first'[t][g].fields[k] IN
                IsEmptyArray(old) \/ groups'[t][g].fields[k] = old]_vars
=============================================================================
