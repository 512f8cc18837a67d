--------------------------- MODULE EntityResolution ---------------------------
(***************************************************************************)
(* EntityResolutionTransformer: rows that describe the same entity are     *)
(* folded into one. Rows with the strong key (the first match_by column)   *)
(* are told apart by it alone; a row without it by the words of the second *)
(* column, compared with those of the first row of each group so far. Rows *)
(* and strings are those of PostProcess.                                   *)
(***************************************************************************)
EXTENDS PostProcess, Positions

CONSTANTS
    Punctuation,    \* stems without a letter or digit
    Short,          \* stems of one or two letters
    TextColumns     \* columns that hold strings

\* What a text column holds.
IsText(value) == value = None \/ value \in Seq(ToSet(value))

Text(row, c) ==
    IF c \in DOMAIN row.cells /\ row.cells[c].value # None THEN row.cells[c].value ELSE <<>>

\* _normalise_key: upper case, letters and digits only; accents stay.
NormaliseKey(text) ==
    LET kept == SelectSeq(text, LAMBDA w : w[1] \notin Punctuation)
    IN  [i \in DOMAIN kept |-> <<kept[i][1], kept[i][2] = "accented">>]

\* _name_tokens: accents and case are folded; punctuation is a word.
NameTokens(text) == {w[1] : w \in ToSet(text)}

NameVariantMatch(a, b, minShared) ==
    LET ta == NameTokens(a)
        tb == NameTokens(b)
    IN  /\ ta # {} /\ tb # {}
        /\ ta \subseteq tb \/ tb \subseteq ta
        /\ Cardinality(ta) >= minShared /\ Cardinality(tb) >= minShared

\* Mutant: a row without the key may join a cluster that has one.
JoinsAny(rows, cl, k, tr) ==
    IF Text(rows[k], tr.key) # <<>>
    THEN {i \in DOMAIN cl : /\ Text(rows[cl[i][1]], tr.key) # <<>>
                            /\ NormaliseKey(Text(rows[cl[i][1]], tr.key))
                                 = NormaliseKey(Text(rows[k], tr.key))}
    ELSE {i \in DOMAIN cl : tr.name # None /\
              NameVariantMatch(Text(rows[k], tr.name), Text(rows[cl[i][1]], tr.name), tr.minShared)}

\* Clusters (sequences of row indices) that row k may join. A cluster is
\* known by its first row.
Joins(rows, cl, k, tr) ==
    LET key(j) == Text(rows[j], tr.key) IN
    IF key(k) # <<>>
    THEN {i \in DOMAIN cl : key(cl[i][1]) # <<>> /\ NormaliseKey(key(cl[i][1])) = NormaliseKey(key(k))}
    ELSE {i \in DOMAIN cl :
            /\ tr.name # None /\ key(cl[i][1]) = <<>>
            /\ NameVariantMatch(Text(rows[k], tr.name), Text(rows[cl[i][1]], tr.name), tr.minShared)}

\* _dedupe_rows: the clusters, in the order of their first rows
Clusters(rows, tr) ==
    LET upTo[n \in 0 .. Len(rows)] ==
          IF n = 0 THEN <<>>
          ELSE LET cl == upTo[n - 1]
                   js == Joins(rows, cl, n, tr)
               IN  IF js = {} THEN Append(cl, <<n>>)
                   ELSE [cl EXCEPT ![Min(js)] = Append(@, n)]
    IN  upTo[Len(rows)]

\* _pick_canonical: a value before none, the longest, then a fixed order of
\* the texts; of equal values the first.
Score(c, v) == IF v = None THEN 0 ELSE IF c \in TextColumns THEN 1 + Len(v) ELSE 2

PickCanonical(c, cells) ==
    LET values == {cells[i].value : i \in DOMAIN cells}
        top    == {v \in values : \A w \in values : Score(c, w) <= Score(c, v)}
        best   == CHOOSE v \in top : TRUE
    IN  cells[Min({i \in DOMAIN cells : cells[i].value = best})]

\* _canonicalise, _merge_pages
Canonicalise(rows, cluster) ==
    LET members == [i \in DOMAIN cluster |-> rows[cluster[i]]]
        columns == UNION {DOMAIN members[i].cells : i \in DOMAIN members}
        having(c) == {i \in DOMAIN members : c \in DOMAIN members[i].cells}
    IN  [cells |-> [c \in columns |-> PickCanonical(c, [i \in having(c) |-> members[i].cells[c]])],
         pages |-> UNION {members[i].pages : i \in DOMAIN members},
         conf  |-> Max({members[i].conf : i \in DOMAIN members}),
         bbox  |-> members[1].bbox, unmatched |-> FALSE]

DedupeRows(rows, tr) ==
    LET cl == Clusters(rows, tr) IN [i \in DOMAIN cl |-> Canonicalise(rows, cl[i])]

-----------------------------------------------------------------------------
(* What the caller may rely on *)

\* Rows with the key are together exactly when their keys are equal, and no
\* row without it is with them: this does not depend on the order of the rows.
\* A row without it is with the first row before it that opened a group and
\* whose name is a variant of its own: the names of later members count for
\* nothing, so here the order decides.
SameEntity(rows, tr) ==
    LET cl == Clusters(rows, tr)
        together(j, k) == \E i \in DOMAIN cl : {j, k} \subseteq ToSet(cl[i])
        key(j) == NormaliseKey(Text(rows[j], tr.key))
        keyed(j) == Text(rows[j], tr.key) # <<>>
        variants(j, k) ==
            /\ tr.name # None
            /\ NameVariantMatch(Text(rows[j], tr.name), Text(rows[k], tr.name), tr.minShared)
    IN  /\ \A j \in DOMAIN rows : Cardinality({i \in DOMAIN cl : j \in ToSet(cl[i])}) = 1
        /\ \A j, k \in DOMAIN rows :
             /\ keyed(j) /\ keyed(k) => (together(j, k) <=> key(j) = key(k))
             /\ keyed(j) /\ ~keyed(k) => ~together(j, k)
        /\ \A i \in DOMAIN cl : ~keyed(cl[i][1]) =>
             \A k \in ToSet(cl[i]) :
                /\ k # cl[i][1] => variants(k, cl[i][1])
                /\ \A h \in DOMAIN cl : h < i /\ ~keyed(cl[h][1]) => ~variants(k, cl[h][1])

\* Every row's pages are on the row it went into, and of the values of a
\* column that row has one that a member had, and none of them is fuller. The
\* others are dropped.
FullestKept(rows, tr, out) ==
    LET cl == Clusters(rows, tr) IN
    \A i \in DOMAIN cl :
        /\ \A k \in ToSet(cl[i]) :
             /\ rows[k].pages \subseteq out[i].pages
             /\ \A c \in DOMAIN rows[k].cells :
                  /\ c \in DOMAIN out[i].cells
                  /\ Score(c, rows[k].cells[c].value) <= Score(c, out[i].cells[c].value)
        /\ \A c \in DOMAIN out[i].cells :
             \E k \in ToSet(cl[i]) : c \in DOMAIN rows[k].cells /\ out[i].cells[c] = rows[k].cells[c]

\* No key is on two rows of the result, in whatever spelling.
KeysDiffer(out, tr) ==
    \A i, h \in DOMAIN out :
        /\ i # h /\ Text(out[i], tr.key) # <<>> /\ Text(out[h], tr.key) # <<>>
        => NormaliseKey(Text(out[i], tr.key)) # NormaliseKey(Text(out[h], tr.key))
=============================================================================
