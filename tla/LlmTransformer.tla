---------------------------- MODULE LlmTransformer ----------------------------
(***************************************************************************)
(* LlmTransformer after the model has answered: its rows are given back    *)
(* the provenance of the input rows they come from, rows it made up are    *)
(* flagged, and a parts-of-whole invariant is enforced. A drafted row is   *)
(* [values, cites]: its columns and the indices of the input rows it       *)
(* cites, which may not exist.                                             *)
(***************************************************************************)
EXTENDS EntityResolution

\* _norm_tokens: words of three letters and more (or digits)
NormTokens(text) == {w[1] : w \in ToSet(text)} \ (Punctuation \cup Short)

\* _row_tokens and _lr_identity_tokens: the words of the text columns
IdentityTokens(values) ==
    UNION {NormTokens(values[c]) : c \in {d \in TextColumns \cap DOMAIN values : values[d] # None}}

Values(row) == [c \in DOMAIN row.cells |-> row.cells[c].value]
RowTokens(row) == IdentityTokens(Values(row))

\* A token that more than half the input rows carry identifies none of them.
Distinctive(rows) ==
    LET carriers(t) == {k \in DOMAIN rows : t \in RowTokens(rows[k])} IN
    {t \in UNION {RowTokens(rows[k]) : k \in DOMAIN rows} :
        Cardinality(carriers(t)) <= Max({1, Len(rows) \div 2})}

IsGrounded(row, rows) == RowTokens(row) = {} \/ RowTokens(row) \cap Distinctive(rows) # {}

\* _identity_contributors: a row that cites nothing is matched by its words.
IdentityContributors(tokens, rows) ==
    At([k \in DOMAIN rows |-> k],
       {k \in DOMAIN rows : tokens \cap RowTokens(rows[k]) \cap Distinctive(rows) # {}})

\* The input rows a drafted row comes from: those it cites; in a rewrite of
\* row by row without citations the row in its place; those it matches.
Contributors(drafts, i, rows) ==
    LET cites      == drafts[i].cites
        cited      == At(cites, {k \in DOMAIN cites : cites[k] \in DOMAIN rows})
        positional == (\A j \in DOMAIN drafts : drafts[j].cites = <<>>) /\ Len(drafts) = Len(rows)
    IN  CASE cited # <<>> -> cited
          [] cited = <<>> /\ positional -> <<i>>
          [] OTHER -> IdentityContributors(IdentityTokens(drafts[i].values), rows)

\* _provenance_subs: of the contributors' cells of a column the first with a
\* box, or with none the first, of the highest confidence
Better(x, y) == \/ x.bbox # None /\ y.bbox = None
                \/ (x.bbox = None <=> y.bbox = None) /\ x.conf > y.conf

BestCell(cells) ==
    cells[Min({i \in DOMAIN cells : \A j \in DOMAIN cells : ~Better(cells[j], cells[i])})]

Total(numbers) ==
    LET upTo[n \in 0 .. Len(numbers)] == IF n = 0 THEN 0 ELSE upTo[n - 1] + numbers[n]
    IN  upTo[Len(numbers)]

Rebuilt(drafts, i, rows) ==
    LET from    == Contributors(drafts, i, rows)
        sources == IF from = <<>> THEN <<rows[1]>> ELSE [j \in DOMAIN from |-> rows[from[j]]]
        base    == [pages |-> UNION {sources[j].pages : j \in DOMAIN sources},
                    conf  |-> Total([j \in DOMAIN sources |-> sources[j].conf]) \div Len(sources),
                    bbox  |-> sources[1].bbox]
        with(c) == {j \in DOMAIN sources : c \in DOMAIN sources[j].cells}
        src(c)  == IF with(c) = {} THEN base ELSE BestCell([j \in with(c) |-> sources[j].cells[c]])
    IN  [cells |-> [c \in DOMAIN drafts[i].values |->
                      [name |-> c, kind |-> "scalar", valid |-> TRUE, value |-> drafts[i].values[c],
                       pages |-> src(c).pages, conf |-> src(c).conf, bbox |-> src(c).bbox]],
         pages |-> base.pages, conf |-> base.conf, bbox |-> base.bbox, unmatched |-> FALSE]

\* Mutant: rows the model made up are not told from the others.
RebuildUnflagged(drafts, rows, flag) == [i \in DOMAIN drafts |-> Rebuilt(drafts, i, rows)]

\* _rebuild_rows: with an invariant, a row that no input row supports is
\* flagged and trusted least.
RebuildRows(drafts, rows, flag) ==
    [i \in DOMAIN drafts |->
       LET row == Rebuilt(drafts, i, rows) IN
       IF flag /\ ~IsGrounded(row, rows) THEN [row EXCEPT !.conf = 0, !.unmatched = TRUE] ELSE row]

-----------------------------------------------------------------------------
(* The invariant *)

RowShare(row, c) ==
    IF c \in DOMAIN row.cells /\ row.cells[c].value # None THEN row.cells[c].value ELSE 0

ShareSum(rows, c) == Total([k \in DOMAIN rows |-> RowShare(rows[k], c)])

\* _victim_key: made-up rows first, then the lowest confidence, the fewest
\* tokens, a fixed order of the token sets, and the first of those.
Trust(row) == <<IF row.unmatched THEN 0 ELSE 1, row.conf, Cardinality(RowTokens(row))>>

LessTrusted(a, b) ==
    \E i \in DOMAIN a : a[i] < b[i] /\ \A j \in 1 .. i - 1 : a[j] = b[j]

Victim(rows, kept) ==
    LET least == {k \in kept : \A j \in kept : ~LessTrusted(Trust(rows[j]), Trust(rows[k]))}
        set   == CHOOSE s \in {RowTokens(rows[k]) : k \in least} : TRUE
    IN  Min({k \in least : RowTokens(rows[k]) = set})

\* _enforce_invariant
EnforceInvariant(rows, inv) ==
    LET fits(kept) == ShareSum(At(rows, kept), inv.share) <= inv.total + inv.tolerance
        kept[n \in 0 .. Len(rows)] ==
          IF n = 0 THEN DOMAIN rows
          ELSE IF fits(kept[n - 1]) \/ Cardinality(kept[n - 1]) <= 1 THEN kept[n - 1]
          ELSE kept[n - 1] \ {Victim(rows, kept[n - 1])}
    IN  IF inv.repair THEN At(rows, kept[Len(rows)]) ELSE rows

ProducedRows(drafts, rows, inv) ==
    LET built == RebuildRows(drafts, rows, inv # None)
    IN  IF inv = None THEN built ELSE EnforceInvariant(built, inv)
=============================================================================
