----------------------------- MODULE PostProcess ------------------------------
(***************************************************************************)
(* What becomes of the answer of an extraction call (schema, postprocess)  *)
(* and what the field validators say of it. A string is a sequence of      *)
(* words, a word a pair <<stem, form>>; a number is a number. The answer   *)
(* is a function from some of the field names to payloads: the output      *)
(* model fills in the rest with its defaults, and has checked that a       *)
(* confidence is in 0..100 and a page is positive.                         *)
(***************************************************************************)
EXTENDS RequestValidator

CONSTANT Blank  \* the empty string

NoScalar == [value |-> None, conf |-> 0, page |-> None, box |-> None]
NoArray  == [rows |-> <<>>, pages |-> {}, conf |-> 0]

\* coerce_scalar, clamp_bbox (a box without area is None) and
\* _scalar_from_payload: without a value there is no geometry.
ScalarFromPayload(name, raw) ==
    LET value == IF raw.value = Blank THEN None ELSE raw.value IN
    [name |-> name, kind |-> "scalar", value |-> value, conf |-> raw.conf, valid |-> TRUE,
     pages |-> IF value = None THEN {} ELSE {raw.page} \ {None},
     bbox  |-> IF value = None THEN None ELSE raw.box]

\* Mutant: a row is built before its own pages are added.
PagesBefore(pages, k) == UNION {pages[j] : j \in 1 .. k - 1}

\* The set of pages grows from row to row.
PagesUpTo(pages, k) == UNION {pages[j] : j \in 1 .. k}

\* _array_from_payload: a row also has the pages of the rows before it. It is
\* given no confidence.
ArrayFromPayload(spec, raw) ==
    LET cell(k, c) == ScalarFromPayload(c, IF c \in DOMAIN raw.rows[k] THEN raw.rows[k][c]
                                                                       ELSE NoScalar)
        found == [k \in DOMAIN raw.rows |-> UNION {cell(k, c).pages : c \in DOMAIN spec.columns}]
    IN  [name |-> spec.name, kind |-> "array", conf |-> raw.conf, valid |-> TRUE, bbox |-> None,
         pages |-> raw.pages \cup PagesUpTo(found, Len(raw.rows)),
         value |-> [k \in DOMAIN raw.rows |->
                      [cells |-> [c \in DOMAIN spec.columns |-> cell(k, c)],
                       pages |-> PagesUpTo(found, k),
                       conf |-> 0, bbox |-> None, unmatched |-> FALSE]]]

NormaliseDoc(answer, doc) ==
    LET payload(spec, default) == IF spec.name \in DOMAIN answer THEN answer[spec.name] ELSE default
    IN  [g \in DOMAIN doc.groups |->
           [name   |-> doc.groups[g].name,
            fields |-> [k \in DOMAIN doc.groups[g].fields |->
                          LET spec == doc.groups[g].fields[k] IN
                          IF spec.kind = "array" THEN ArrayFromPayload(spec, payload(spec, NoArray))
                          ELSE ScalarFromPayload(spec.name, payload(spec, NoScalar))]]]

-----------------------------------------------------------------------------
(* FieldValidator *)

\* _run_constraints: the pattern, format, enum, bounds and validators of a
\* field, each abstracted to the values it accepts. A missing value passes;
\* a validator with severity warning leaves the field valid. (Coercion has
\* seen to the type.)
HardErrors(checks, value) ==
    IF value = None THEN {} ELSE {c \in checks : ~c.warning /\ value \notin c.accepts}

\* _validate_array: cells are checked when the items are objects with
\* declared fields; the rows of an array of plain values are not.
ValidatedArray(spec, field) ==
    LET ok(row, c) == spec.plain \/ HardErrors(spec.columns[c], row.cells[c].value) = {}
        checked(row) == [row EXCEPT !.cells =
                           [c \in DOMAIN row.cells |-> [row.cells[c] EXCEPT !.valid = ok(row, c)]]]
    IN  [field EXCEPT !.value = [k \in DOMAIN field.value |-> checked(field.value[k])],
                      !.valid = \A k \in DOMAIN field.value :
                                  \A c \in DOMAIN spec.columns : ok(field.value[k], c)]

\* validate: groups and fields are found by their names, which are those of
\* the document type.
Validated(doc, groups) ==
    LET checked(spec, field) ==
          IF spec.kind = "array" THEN ValidatedArray(spec, field)
          ELSE [field EXCEPT !.valid = HardErrors(spec.checks, field.value) = {}]
    IN  [g \in DOMAIN groups |->
           [groups[g] EXCEPT !.fields =
              [k \in DOMAIN @ |-> checked(doc.groups[g].fields[k], @[k])]]]
=============================================================================
