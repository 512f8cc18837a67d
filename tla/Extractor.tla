------------------------------- MODULE Extractor ------------------------------
(***************************************************************************)
(* MultimodalExtractor.extract for the tasks of a request, which run at    *)
(* the same time: the first pass with its fallback model and, when every   *)
(* array of a longer document came back empty, one more call for those     *)
(* arrays. The text anchor is one more block of the prompt.                *)
(***************************************************************************)
EXTENDS PostProcess

CONSTANTS
    Task,           \* the tasks of a request
    Answers,        \* document type id -> what the model may answer
    Fallback,       \* a fallback model is configured
    RetryArrays,    \* the retry-arrays prompt is configured
    RetryMinPages   \* _ARRAY_RETRY_MIN_PAGES

VARIABLES
    call,       \* task -> the call that is out: "idle", "primary", "fallback", "retry"; or
                \* "done" or "failed"
    first,      \* task -> the groups of its first pass
    groups,     \* task -> extracted_groups
    used        \* task -> model_used

extractVars == <<call, first, groups, used>>

ExtractIdle ==
    /\ call = [t \in Task |-> "idle"] /\ used = [t \in Task |-> None]
    /\ first = [t \in Task |-> <<>>] /\ groups = [t \in Task |-> <<>>]

IsEmptyArray(f) == f.kind = "array" /\ f.value = <<>>

FieldsIn(gs) == UNION {ToSet(gs[g].fields) : g \in DOMAIN gs}

\* _suspicious_empty_arrays: one filled array, and the empty ones are trusted.
SuspiciousEmptyArrays(gs) ==
    LET arrays == {f \in FieldsIn(gs) : f.kind = "array"} IN
    IF \E f \in arrays : f.value # <<>> THEN {} ELSE {f.name : f \in arrays}

\* Mutant: what the second pass says of any field replaces the first.
MergeAll(original, retry, names) == retry

\* _merge_after_retry. The groups of both passes are those of the type.
MergeAfterRetry(original, retry, names) ==
    [g \in DOMAIN original |->
       [original[g] EXCEPT !.fields =
          [k \in DOMAIN @ |-> IF @[k].name \in names THEN retry[g].fields[k] ELSE @[k]]]]

StartExtract(t) ==
    /\ call[t] = "idle"
    /\ call' = [call EXCEPT ![t] = "primary"]
    /\ UNCHANGED <<first, groups, used>>

FirstPassRaises(t) ==
    /\ call[t] \in {"primary", "fallback"}
    /\ call' = [call EXCEPT ![t] = IF @ = "primary" /\ Fallback THEN "fallback" ELSE "failed"]
    /\ UNCHANGED <<first, groups, used>>

FirstPassAnswers(t, doc, pages) ==
    /\ call[t] \in {"primary", "fallback"}
    /\ \E a \in Answers[doc.id] :
         LET gs == NormaliseDoc(a, doc) IN
         /\ first' = [first EXCEPT ![t] = gs]
         /\ IF RetryArrays /\ pages >= RetryMinPages /\ SuspiciousEmptyArrays(gs) # {}
            THEN /\ call' = [call EXCEPT ![t] = "retry"]
                 /\ UNCHANGED <<groups, used>>
            ELSE /\ call' = [call EXCEPT ![t] = "done"]
                 /\ groups' = [groups EXCEPT ![t] = gs]
                 /\ used' = [used EXCEPT ![t] = call[t]]

\* The second pass is always the primary model's, and it is the one reported.
RetryAnswers(t, doc) ==
    /\ call[t] = "retry"
    /\ \E a \in Answers[doc.id] :
         groups' = [groups EXCEPT ![t] =
                      MergeAfterRetry(first[t], NormaliseDoc(a, doc), SuspiciousEmptyArrays(first[t]))]
    /\ call' = [call EXCEPT ![t] = "done"]
    /\ used' = [used EXCEPT ![t] = "primary"]
    /\ UNCHANGED first

\* The second pass has no fallback: what it raises loses the first pass too.
RetryRaises(t) ==
    /\ call[t] = "retry"
    /\ call' = [call EXCEPT ![t] = "failed"]
    /\ UNCHANGED <<first, groups, used>>

ExtractStep(t, doc, pages) ==
    \/ StartExtract(t) \/ FirstPassRaises(t) \/ FirstPassAnswers(t, doc, pages)
    \/ RetryAnswers(t, doc) \/ RetryRaises(t)
=============================================================================
