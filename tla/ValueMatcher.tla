----------------------------- MODULE ValueMatcher -----------------------------
(***************************************************************************)
(* ValueMatcher: the deterministic search of a value's place in the words  *)
(* of the pages. A search string is a sequence of symbols in which Space   *)
(* separates words; the symbols of Unspaced belong to scripts that do not  *)
(* separate them. A score is a percentage.                                 *)
(***************************************************************************)
EXTENDS WordStream, FiniteSetsExt

CONSTANTS
    Threshold,      \* bbox_refine_threshold
    Unspaced,       \* symbols of the ranges _UNSPACED_RANGES
    Digit           \* symbols that isdigit() accepts

ASSUME MatcherAssumption == Threshold \in 0 .. 100

Space == 0
NoMatch == [page |-> 0]     \* no match

\* A MatchResult; ranges are unions of word boxes.
Found(page, lo, hi, score) == [page |-> page, lo |-> lo, hi |-> hi, score |-> score]

\* _union_bbox of the two matchers
UnionBox(words, page, score) ==
    Found(page, Min({w.lo : w \in words}), Max({w.hi : w \in words}), score)

\* rapidfuzz.fuzz.ratio: the normalised indel similarity, as a percentage.
Ratio(a, b) ==
    LET L[p \in (0 .. Len(a)) \X (0 .. Len(b))] ==
            LET i == p[1]
                j == p[2]
            IN  IF i = 0 \/ j = 0 THEN 0
                ELSE IF a[i] = b[j] THEN L[<<i - 1, j - 1>>] + 1
                ELSE Max({L[<<i - 1, j>>], L[<<i, j - 1>>]})
    IN  (200 * L[<<Len(a), Len(b)>>]) \div (Len(a) + Len(b))

\* _is_unspaced: at least 30% of the letters
IsUnspaced(target) ==
    LET letters == {k \in DOMAIN target : target[k] # Space /\ target[k] \notin Digit} IN
    /\ letters # {}
    /\ 10 * Cardinality({k \in letters : target[k] \in Unspaced}) >= 3 * Cardinality(letters)

WordCount(target) == 1 + Cardinality({k \in DOMAIN target : target[k] = Space})

\* A window is a run of units: words joined by separators, or single
\* characters, each with the word it comes from.
Joined(window, sep) == FlattenSeq([k \in DOMAIN window |->
                          IF k = 1 THEN window[k].text ELSE sep \o window[k].text])
WordsIn(window) == {window[k].word : k \in DOMAIN window}

\* _first_reading_order
FirstOrder(words) == Min({w.order : w \in words})

\* v comes before w in the double loop over starts and sizes.
Before(v, w) == v.start < w.start \/ (v.start = w.start /\ v.size < w.size)

\* The loop keeps the first window of the best score and, of that score, of
\* the lowest reading order. It starts from no window, of score 0 and no order.
Better(v, w) ==
    \/ v.score > w.score
    \/ v.score = w.score /\ v.order < w.order
    \/ v.score = w.score /\ v.order = w.order /\ Before(v, w)

\* The sliding-window search the two matchers share
Slide(target, units, sep, sizes, page) ==
    LET run(s, n) == SubSeq(units, s, s + n - 1)
        window(s, n) == [start |-> s, size |-> n, score |-> Ratio(target, Joined(run(s, n), sep)),
                         order |-> FirstOrder(WordsIn(run(s, n)))]
        places  == {x \in (1 .. Len(units)) \X sizes : x[1] + x[2] - 1 <= Len(units)}
        windows == {window(x[1], x[2]) : x \in places}
        best == CHOOSE w \in windows : \A v \in windows : v = w \/ Better(w, v)
    IN  IF \/ windows = {} \/ best.score < Threshold
           \/ best.score = 0 /\ best.order = NoOrder
        THEN NoMatch
        ELSE UnionBox(WordsIn(run(best.start, best.size)), page, best.score)

\* _match_spaced: runs of words
MatchSpaced(target, words, page) ==
    LET n == WordCount(target) IN
    Slide(target, [k \in DOMAIN words |-> [text |-> words[k].text, word |-> words[k]]],
          <<Space>>, 1 .. Min({12, Max({n * 3, n + 2})}), page)

\* _match_unspaced: runs of characters
MatchUnspaced(target, words, page) ==
    LET chars(w) == [j \in DOMAIN w.text |-> [text |-> <<w.text[j]>>, word |-> w]] IN
    Slide(target, FlattenSeq([k \in DOMAIN words |-> chars(words[k])]),
          <<>>, Max({1, Len(target) - 2}) .. Min({80, Max({Len(target) + 4, 6})}), page)

\* _variants: the literal, its digits when there are four, and the form
\* without punctuation, each once
Variants(value) ==
    LET digits == At(value.literal, {k \in DOMAIN value.literal : value.literal[k] \in Digit})
        forms  == <<value.literal>>
                  \o (IF Len(digits) >= 4 THEN <<digits>> ELSE <<>>) \o <<value.stripped>>
    IN  At(forms, {k \in DOMAIN forms : forms[k] # <<>> /\ \A j \in 1 .. k - 1 : forms[j] # forms[k]})

BestOnPage(target, pw) ==
    IF pw.words = <<>> THEN NoMatch
    ELSE IF IsUnspaced(target) THEN MatchUnspaced(target, pw.words, pw.page)
    ELSE MatchSpaced(target, pw.words, pw.page)

\* The pages that are searched: the candidates, unless none of them has words
InScope(pages, candidates) ==
    LET wanted == At(pages, {k \in DOMAIN pages : pages[k].page \in candidates}) IN
    IF candidates = {} \/ \A k \in DOMAIN wanted : wanted[k].words = <<>> THEN pages ELSE wanted

\* locate: the first of the best hits, page by page and form by form
Locate(value, pages, candidates) ==
    LET scope == InScope(pages, candidates)
        forms == Variants(value)
        hits  == FlattenSeq([p \in DOMAIN scope |->
                     [f \in DOMAIN forms |-> BestOnPage(forms[f], scope[p])]])
        found == {k \in DOMAIN hits : hits[k] # NoMatch}
        best  == {k \in found : \A j \in found : hits[j].score <= hits[k].score}
    IN  IF found = {} THEN NoMatch ELSE hits[Min(best)]
=============================================================================
