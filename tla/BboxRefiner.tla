----------------------------- MODULE BboxRefiner ------------------------------
(***************************************************************************)
(* BboxRefiner.refine over the words of WordStream and the matchers of     *)
(* LlmMatcher. A request is refined once, inline in the pipeline or out of *)
(* band by the bbox worker (job_worker.py strips the inline stage of an    *)
(* asynchronous extraction); that refine may be called again on groups     *)
(* refined before is the contract its docstring states, and what a second  *)
(* run stands for here. The leaves of the groups are already flattened     *)
(* (_collect_leaves); a leaf whose value yields no search string (None, a  *)
(* boolean, blanks) is Blank.                                              *)
(***************************************************************************)
EXTENDS LlmMatcher

CONSTANTS
    Docs,           \* documents
    Engines,        \* settings of bbox_refine_ocr_engine
    Leaves,         \* what the extraction may have left in the leaves
    Runs            \* bound on the runs over the same groups

VARIABLES
    doc, engine, kind,  \* the document and the settings
    leaf,               \* the leaves: value, pages, bbox
    run,                \* runs so far
    phase,              \* where refine is
    seen                \* history: [page, source, lo, hi] of every word collected

refinerVars == <<doc, engine, kind, leaf, run, phase, seen>>
groundingVars == <<matcherVars, refinerVars>>

NoBox == [source |-> "none"]
Blank == [literal |-> <<>>, stripped |-> <<>>]     \* no search string
Grounded(x) == x.bbox.source \in {"pdf_text", "ocr"}

\* Documents have pages. An extraction leaves no box in a leaf, or the one
\* that the model named.
ASSUME DocAssumption ==
    \A d \in Docs : d.pages \in Seq(ToSet(d.pages)) /\ \A page \in ToSet(d.pages) : Readable(page)
ASSUME LeafAssumption ==
    Leaves \subseteq [Field -> [value : [literal : Texts, stripped : Texts], pages : SUBSET Nat,
                               bbox : {NoBox} \cup [lo : Int, hi : Int, source : {"llm"}, score : Int]]]

RefinerInit ==
    /\ doc \in Docs /\ engine \in Engines /\ kind \in Kinds
    /\ leaf \in Leaves
    /\ pages = <<>> /\ MatcherIdle
    /\ run = 1 /\ phase = "start" /\ seen = {}

-----------------------------------------------------------------------------
\* The words are collected in a thread. An exception ends the run: the caller
\* records it and the leaves stay as they are.
CollectWords ==
    /\ phase = "start"
    /\ \E state \in EngineStates : LET got == Collect(engine, doc, state) IN
         IF got = Raised
         THEN phase' = "end" /\ UNCHANGED <<pages, seen>>
         ELSE /\ phase' = "collected" /\ pages' = got
              /\ seen' = seen \cup UNION
                    {{[page |-> got[k].page, source |-> got[k].source, lo |-> w.lo, hi |-> w.hi] :
                        w \in ToSet(got[k].words)} : k \in DOMAIN got}
    /\ UNCHANGED <<targets, results, llm, flight, round, offered, doc, engine, kind, leaf, run>>

\* The leaves with something to search for that no earlier run has grounded
ResidualTargets == {f \in Field : leaf[f].value # Blank /\ ~Grounded(leaf[f])}

StartMatching ==
    /\ phase = "collected"
    /\ LocateAll(kind, [f \in ResidualTargets |->
                          [value |-> leaf[f].value, candidates |-> leaf[f].pages]])
    /\ phase' = "matching"
    /\ UNCHANGED <<pages, doc, engine, kind, leaf, run, seen>>

\* Mutant: every page is taken for a page with a text layer.
AlwaysPdfText(p) == "pdf_text"

\* _page_source
PageSource(p) ==
    IF \E k \in DOMAIN pages : pages[k].page = p
    THEN pages[CHOOSE k \in DOMAIN pages : pages[k].page = p].source ELSE "pdf_text"

\* _replace_bbox, or the model's own box tagged as such
Refined(f) ==
    LET m == Located(f)
        x == leaf[f]
    IN  IF m = NoMatch
        THEN [x EXCEPT !.bbox = IF @ = NoBox THEN NoBox ELSE [@ EXCEPT !.source = "llm", !.score = 0]]
        ELSE [x EXCEPT !.bbox = [lo |-> m.lo, hi |-> m.hi, source |-> PageSource(m.page),
                                 score |-> m.score],
                       !.pages = @ \cup {m.page}]

\* The matches are written to the leaves. (The counters are reporting.)
ApplyMatches ==
    /\ phase = "matching" /\ round = "located"
    /\ leaf' = [f \in Field |-> IF f \in ResidualTargets THEN Refined(f) ELSE leaf[f]]
    /\ phase' = "end"
    /\ UNCHANGED <<matcherVars, doc, engine, kind, run, seen>>

\* refine is called again on the same groups and the same bytes. Its docstring
\* allows that; no caller of today does it.
RunAgain ==
    /\ phase = "end" /\ run < Runs
    /\ run' = run + 1 /\ phase' = "start"
    /\ pages' = <<>> /\ targets' = <<>> /\ results' = <<>> /\ flight' = {} /\ round' = "idle"
    /\ llm' = [f \in Field |-> Absent] /\ offered' = NoOffers
    /\ UNCHANGED <<doc, engine, kind, leaf, seen>>

Finished == phase = "end" /\ run = Runs /\ UNCHANGED groundingVars

RefinerNext ==
    \/ CollectWords \/ StartMatching \/ ApplyMatches \/ RunAgain \/ Finished
    \/ LlmStep /\ UNCHANGED refinerVars

RefinerSpec == RefinerInit /\ [][RefinerNext]_groundingVars

-----------------------------------------------------------------------------
(* Properties *)

\* A coordinate that was grounded once is never touched again: no later run,
\* with other words, another engine outcome or other answers of the model,
\* moves it, weakens it or drops it (the idempotency block of refine).
GroundedOnce ==
    [][\A f \in Field : Grounded(leaf[f]) => leaf'[f] = leaf[f]]_groundingVars

\* A grounded leaf says where it really is: both edges of its box are edges
\* of words that one engine read on one page, the leaf names that page, and
\* the box's source is that engine, whichever page of whichever pass matched
\* (_page_source, _replace_bbox, WordRouter.collect).
GroundingIsTruthful ==
    \A f \in Field : Grounded(leaf[f]) =>
        \E p \in leaf[f].pages : \E v, w \in seen :
            /\ v.page = p /\ w.page = p
            /\ v.source = leaf[f].bbox.source /\ w.source = v.source
            /\ v.lo = leaf[f].bbox.lo /\ w.hi = leaf[f].bbox.hi
=============================================================================
