------------------------- MODULE TransformationEngine -------------------------
(***************************************************************************)
(* The transform stage: the declared transformations one after the other,  *)
(* each on every task's own groups or once on the rows of all tasks. A     *)
(* transformation is [type, scope, target, output, key, name, minShared,   *)
(* invariant].                                                             *)
(***************************************************************************)
EXTENDS LlmTransformer, Extractor

CONSTANTS
    Drafts      \* what the model may answer to a transformation

\* Tasks are numbered. The model answers with rows of columns, and what it
\* says of a text column is a text.
ASSUME TransformAssumption ==
    /\ IsFiniteSet(Task) /\ Task = 1 .. Cardinality(Task)
    /\ IsFiniteSet(TextColumns)
    /\ \A drafts \in Drafts :
         /\ drafts \in Seq(ToSet(drafts))
         /\ \A d \in ToSet(drafts) :
              /\ d.cites \in Seq(ToSet(d.cites))
              /\ \A c \in TextColumns \cap DOMAIN d.values : IsText(d.values[c])

VARIABLES
    step,       \* index of the transformation under way
    pending,    \* tasks it still has to be applied to, in order
    outputs,    \* request_transformations: the groups of the request scope
    last        \* history: the rows and the outcome of the last application

transformVars == <<step, pending, outputs, last>>

NothingApplied == [type |-> "none"]

TransformIdle == step = 0 /\ pending = <<>> /\ outputs = <<>> /\ last = NothingApplied

\* The tasks in order; one without groups has no rows.
TasksInOrder == [i \in 1 .. Cardinality(Task) |-> i]

\* _find_group, _find_array_field: positions of the first match; 0 for none
FindGroup(gs, name) ==
    LET at == {g \in DOMAIN gs : gs[g].name = name} IN IF at = {} THEN 0 ELSE Min(at)

FindArray(group) ==
    LET at == {k \in DOMAIN group.fields : group.fields[k].kind = "array"}
    IN  IF at = {} THEN 0 ELSE Min(at)

RowsOf(gs, name) ==
    LET g == FindGroup(gs, name)
        k == IF g = 0 THEN 0 ELSE FindArray(gs[g])
    IN  IF k = 0 THEN <<>> ELSE gs[g].fields[k].value

\* apply of both transformers: the produced rows go into a new group at the
\* end, or take the place of the ones they were made from.
WithRows(gs, tr, output, rows) ==
    LET g == FindGroup(gs, tr.target)
        k == FindArray(gs[g])
        new == [gs[g].fields[k] EXCEPT !.value = rows, !.valid = TRUE]
    IN  IF output # None THEN Append(gs, [name |-> output, fields |-> <<new>>])
        ELSE [gs EXCEPT ![g].fields[k] = new]

\* _consolidate_groups: the rows of every array of every target group
Consolidated(name) ==
    LET arraysIn(group) ==
          IF group.name # name THEN <<>>
          ELSE At(group.fields, {k \in DOMAIN group.fields : group.fields[k].kind = "array"})
        arraysOf(t) == FlattenSeq([g \in DOMAIN groups[t] |-> arraysIn(groups[t][g])])
        arrays == FlattenSeq([i \in DOMAIN TasksInOrder |-> arraysOf(TasksInOrder[i])])
        rows   == FlattenSeq([i \in DOMAIN arrays |-> arrays[i].value])
    IN  IF rows = <<>> THEN <<>>
        ELSE << [name |-> name,
                 fields |-> << [name |-> arrays[1].name, kind |-> "array", value |-> rows, conf |-> 0,
                                valid |-> TRUE, bbox |-> None, pages |-> {}] >>] >>

\* _dispatch: what the transformation may make of rows. The model may answer
\* anything of Drafts; a call of it that raises leaves everything as it was.
Outcomes(tr, rows) ==
    IF tr.type = "entity_resolution"
    THEN {[type |-> tr.type, tr |-> tr, rows |-> rows, out |-> DedupeRows(rows, tr)]}
    ELSE {[type |-> tr.type, tr |-> tr, rows |-> rows, drafts |-> d,
           out |-> ProducedRows(d, rows, tr.invariant),
           built |-> RebuildRows(d, rows, tr.invariant # None)] : d \in Drafts}

NextTransformation(trs) ==
    /\ pending = <<>> /\ step < Len(trs)
    /\ step' = step + 1
    /\ pending' = IF trs[step + 1].scope = "request" THEN <<None>> ELSE TasksInOrder
    /\ UNCHANGED <<outputs, last, groups>>

\* apply_to_task: whatever raises is caught, and the groups are as they were.
ApplyToTask(tr) ==
    /\ pending # <<>> /\ tr.scope = "task"
    /\ LET t == Head(pending)
           rows == RowsOf(groups[t], tr.target)
       IN  \/ /\ rows # <<>>
              /\ last' \in Outcomes(tr, rows)
              /\ groups' = [groups EXCEPT ![t] = WithRows(@, tr, tr.output, last'.out)]
           \/ (rows = <<>> \/ tr.type = "llm") /\ UNCHANGED <<groups, last>>
    /\ pending' = Tail(pending)
    /\ UNCHANGED <<step, outputs>>

\* apply_request_scope: the result always has a group of its own, so the
\* tasks' groups stay as they are.
ApplyRequestScope(tr) ==
    /\ pending # <<>> /\ tr.scope = "request"
    /\ LET all  == Consolidated(tr.target)
           rows == IF all = <<>> THEN <<>> ELSE all[1].fields[1].value
           name == IF tr.output = None THEN tr.target ELSE tr.output
       IN  \/ /\ rows # <<>>
              /\ last' \in Outcomes(tr, rows)
              /\ outputs' = Append(outputs, WithRows(all, tr, name, last'.out)[2])
           \/ (rows = <<>> \/ tr.type = "llm") /\ UNCHANGED <<outputs, last>>
    /\ pending' = <<>>
    /\ UNCHANGED <<step, groups>>

\* Rows of the model that cannot be made into fields raise outside the try of
\* LlmTransformer.apply, and apply_request_scope has no except: the stage is
\* over, with what it has appended so far.
RequestScopeRaises(tr) ==
    /\ pending # <<>> /\ tr.scope = "request" /\ tr.type = "llm"
    /\ Consolidated(tr.target) # <<>>
    /\ pending' = <<>>
    /\ UNCHANGED <<step, outputs, last, groups>>

TransformStep(trs) ==
    \/ NextTransformation(trs)
    \/ step > 0 /\ (ApplyToTask(trs[step]) \/ ApplyRequestScope(trs[step]))

Transformed(trs) == step = Len(trs) /\ pending = <<>>

-----------------------------------------------------------------------------
(* Properties *)

\* Entity resolution folds rows as their keys say in whatever order the
\* documents and the model put them: equal strong keys always meet, different
\* ones and keyless rows never do, and no key is on two rows of the result. A
\* keyless row goes by the first row of the groups before it. A folded row has
\* the pages of all its rows and their fullest values (_dedupe_rows,
\* _canonicalise).
RowsReconcile ==
    last.type = "entity_resolution" =>
        /\ SameEntity(last.rows, last.tr)
        /\ FullestKept(last.rows, last.tr, last.out)
        /\ KeysDiffer(last.out, last.tr)

\* A row the model has written, whichever rows it cites, merges or resembles, and
\* through however many transformations, loses no page of the rows it comes from:
\* where one of their cells was found, the row and what is made of it later still
\* say so. A cell that one of them had keeps the place of one such cell, with a
\* box if any of them had a box. (_array_from_payload gives a row the pages of the
\* rows before it as well, so a row may name more pages than its contributors.)
ProvenanceIsKept ==
    last.type = "llm" => \A i \in DOMAIN last.built :
        LET row   == last.built[i]
            from  == ToSet(Contributors(last.drafts, i, last.rows))
            cells(c) == {last.rows[k].cells[c] :
                            k \in {j \in from : c \in DOMAIN last.rows[j].cells}}
        IN  /\ \A k \in from : \A c \in DOMAIN last.rows[k].cells :
                 last.rows[k].cells[c].pages \subseteq row.pages
            /\ \A c \in DOMAIN row.cells : cells(c) # {} =>
                 \E old \in cells(c) :
                    /\ row.cells[c].pages = old.pages /\ row.cells[c].bbox = old.bbox
                    /\ old.bbox = None => \A other \in cells(c) : other.bbox = None

\* After a repair the parts fit the whole or one row is left, an under-sum has
\* lost nothing, and a row the model made up never survives one that an input
\* row supports (_rebuild_rows, _enforce_invariant).
InvariantRepaired ==
    last.type = "llm" /\ last.tr.invariant # None /\ last.tr.invariant.repair =>
        LET inv == last.tr.invariant
            fits(rows)  == ShareSum(rows, inv.share) <= inv.total + inv.tolerance
            madeUp(row) == ~IsGrounded(row, last.rows)
        IN  /\ fits(last.out) \/ Len(last.out) <= 1
            /\ \E kept \in SUBSET DOMAIN last.built :
                 /\ last.out = At(last.built, kept)
                 /\ fits(last.built) => kept = DOMAIN last.built
                 /\ (\E k \in DOMAIN last.built \ kept : ~madeUp(last.built[k])) =>
                       \A k \in kept : ~madeUp(last.built[k])
=============================================================================
