------------------------------ MODULE LlmMatcher ------------------------------
(***************************************************************************)
(* LlmValueMatcher and the HybridValueMatcher that puts ValueMatcher before *)
(* it. The LLM is asked page by page, all pages of a pass at once; every   *)
(* answer is applied to the same results as it arrives, in any order. What *)
(* the model answers is not checked against what it was asked: it may name *)
(* any field, any word index and any confidence.                           *)
(***************************************************************************)
EXTENDS ValueMatcher

CONSTANTS
    Field,          \* ids of the leaves of a document
    Named,          \* ids the model's answers may carry, asked for or not
    Confidence,     \* confidences of the model's answers, in percent
    Picks           \* sets of word indices the model may answer

ASSUME NamedAssumption == Named \subseteq Field /\ Confidence \subseteq 0 .. 100

VARIABLES
    pages,      \* the PageWords that were collected
    targets,    \* the residual targets: [value, candidates] of some fields
    results,    \* the deterministic matches; NoMatch where there is none
    llm,        \* the results dict of the LLM pass; Absent for ids not in it
    flight,     \* pages whose call has not come back
    round,      \* where locate_all is
    offered     \* history: best acceptable score the model gave each
                \* field; -1 for none

matcherVars == <<pages, targets, results, llm, flight, round, offered>>

Absent == [page |-> -1]   \* no entry in the dict

Kinds == {"fuzzy", "llm", "hybrid"}

NoOffers == [f \in Field |-> -1]

\* No locate_all is under way.
MatcherIdle ==
    /\ targets = <<>> /\ results = <<>> /\ flight = {} /\ round = "idle"
    /\ llm = [f \in Field |-> Absent] /\ offered = NoOffers

WithWords == {k \in DOMAIN pages : pages[k].words # <<>>}

\* Index of a page that is tried first for a target: its candidates, or every
\* page when it has none. A candidate without words is not replaced.
TriedFirst(t) == {k \in WithWords : t.candidates = {} \/ pages[k].page \in t.candidates}

\* The second pass: every page that is not a candidate. A target without
\* candidates is put to all pages again.
TriedNext(t) == {k \in WithWords : pages[k].page \notin t.candidates}

\* The value of a field is put to the matcher of the configured kind.
\* Fuzzy is synchronous; hybrid sends its misses to the LLM, if there are any.
LocateAll(kind, ts) ==
    LET fuzzy    == [f \in DOMAIN ts |-> IF kind = "llm" THEN NoMatch
                                         ELSE Locate(ts[f].value, pages, ts[f].candidates)]
        residual == {f \in DOMAIN ts : fuzzy[f] = NoMatch}
        asked    == UNION {TriedFirst(ts[f]) : f \in residual}
    IN  /\ targets' = [f \in residual |-> ts[f]]
        /\ results' = fuzzy
        /\ llm' = [f \in Field |-> IF kind # "fuzzy" /\ f \in residual THEN NoMatch ELSE Absent]
        /\ offered' = NoOffers
        /\ IF kind = "fuzzy" \/ residual = {} \/ WithWords = {}
           THEN flight' = {} /\ round' = "located"
           ELSE flight' = asked /\ round' = "first"

\* _words_for_indices: indices outside the page are dropped.
PickedWords(k, pick) == {pages[k].words[j] : j \in pick \cap DOMAIN pages[k].words}

\* A match counts when it is confident enough and names a word of the page.
Acceptable(k, a) == a.confidence >= Threshold /\ PickedWords(k, a.pick) # {}

\* Mutant: the answer that arrives last wins.
KeepLast(old, new) == new

\* Of two matches of one field the better is kept, and of equals the earlier.
KeepBest(old, new) ==
    IF old \in {NoMatch, Absent} \/ new.score > old.score THEN new ELSE old

\* _run_one_page: the model answers for one page.
PageAnswers(k) ==
    /\ k \in flight
    /\ \E named \in SUBSET Named : \E a \in [named -> [pick : Picks, confidence : Confidence]] :
         LET good == {f \in named : Acceptable(k, a[f])} IN
         /\ llm' = [f \in Field |-> IF f \notin good THEN llm[f] ELSE
                      KeepBest(llm[f], UnionBox(PickedWords(k, a[f].pick), pages[k].page,
                                                a[f].confidence))]
         /\ offered' = [f \in Field |-> IF f \notin good THEN offered[f]
                                        ELSE Max({offered[f], a[f].confidence})]
    /\ flight' = flight \ {k}
    /\ UNCHANGED <<pages, targets, results, round>>

\* A call that raises costs its page only.
PageFails(k) ==
    /\ k \in flight
    /\ flight' = flight \ {k}
    /\ UNCHANGED <<pages, targets, results, llm, round, offered>>

\* Pass 2: the fields that are still open, on the pages they were not tried on
SecondPass ==
    /\ round = "first" /\ flight = {}
    /\ LET open == {f \in DOMAIN targets : llm[f] = NoMatch}
           next == UNION {TriedNext(targets[f]) : f \in open}
       IN  /\ flight' = next
           /\ round' = IF next = {} THEN "located" ELSE "second"
    /\ UNCHANGED <<pages, targets, results, llm, offered>>

SecondPassEnds ==
    /\ round = "second" /\ flight = {}
    /\ round' = "located"
    /\ UNCHANGED <<pages, targets, results, llm, flight, offered>>

LlmStep == (\E k \in flight : PageAnswers(k) \/ PageFails(k)) \/ SecondPass \/ SecondPassEnds

\* What locate_all returns for a field: the LLM's dict is laid over the
\* deterministic results, whole.
Located(f) == IF llm[f] # Absent THEN llm[f] ELSE results[f]

-----------------------------------------------------------------------------
(* Properties *)

\* Whatever order the pages of a pass come back in, and whichever of them
\* fail, a field ends with the best match any page gave it: no answer is lost
\* to one that was applied later, and none is invented (_run_one_page).
BestPageWins ==
    round = "located" =>
        \A f \in Field : llm[f] # Absent =>
            IF offered[f] = -1 THEN llm[f] = NoMatch ELSE llm[f].score = offered[f]
=============================================================================
