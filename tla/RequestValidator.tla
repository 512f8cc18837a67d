--------------------------- MODULE RequestValidator ---------------------------
(***************************************************************************)
(* RequestValidator.validate: the semantic checks a request passes before  *)
(* it may cost anything. A request is                                      *)
(*   [files, docs, rules, stages, transformations]                         *)
(* where a document type is [id, groups, checks], a group is [name,        *)
(* fields], and a rule names the fields and visual checks it reads, as     *)
(* pairs <<document type, name>>, and the rules it builds on.              *)
(* An issue is abstracted to its code.                                     *)
(***************************************************************************)
EXTENDS Integers, Sequences, FiniteSets, SequencesExt

CONSTANT None   \* null

Ids(seq) == {seq[k].id : k \in DOMAIN seq}

\* Two items of a sequence are equal.
Repeats(seq) == \E j, k \in DOMAIN seq : j < k /\ seq[j] = seq[k]

\* The fields of a document type, by <<group, position in the group>>
FieldPlaces(doc) == UNION {{g} \X DOMAIN doc.groups[g].fields : g \in DOMAIN doc.groups}
FieldAt(doc, p)  == doc.groups[p[1]].fields[p[2]]
FieldNames(doc)  == {FieldAt(doc, p).name : p \in FieldPlaces(doc)}
SharesName(doc)  == \E p, q \in FieldPlaces(doc) : p # q /\ FieldAt(doc, p).name = FieldAt(doc, q).name

\* The last declaration of an id wins in doc_index.
DocNamed(req, id) ==
    req.docs[CHOOSE k \in DOMAIN req.docs :
               req.docs[k].id = id /\ \A j \in DOMAIN req.docs : req.docs[j].id = id => j <= k]

CheckFiles(req) ==
    IF \E f \in DOMAIN req.files : req.files[f].pin \notin Ids(req.docs) \cup {None}
    THEN {"document_type_unknown"} ELSE {}

CheckDocumentTypes(req) ==
    LET docs == ToSet(req.docs)
        full == {d \in docs : d.groups # <<>>}
    IN  {c \in {"empty_field_groups"} : full # docs} \cup
        {c \in {"empty_field_group"} :
            \E d \in full : \E g \in DOMAIN d.groups : d.groups[g].fields = <<>>} \cup
        {c \in {"duplicate_field_name"} : \E d \in full : SharesName(d)} \cup
        {c \in {"duplicate_document_type"} : Repeats([k \in DOMAIN req.docs |-> req.docs[k].id])}

CheckRuleReferences(req) ==
    LET rules    == ToSet(req.rules)
        known(p) == p[1] \in Ids(req.docs)
    IN  {c \in {"duplicate_rule_id"} : Repeats([k \in DOMAIN req.rules |-> req.rules[k].id])} \cup
        {c \in {"rule_unknown_doctype"} : \E r \in rules : \E p \in r.fields \cup r.checks : ~known(p)}
        \cup
        {c \in {"rule_unknown_field"} : \E r \in rules : \E p \in r.fields :
            known(p) /\ p[2] \notin FieldNames(DocNamed(req, p[1]))} \cup
        {c \in {"rule_unknown_validator"} : \E r \in rules : \E p \in r.checks :
            known(p) /\ p[2] \notin DocNamed(req, p[1]).checks} \cup
        {c \in {"rule_unknown_parent"} : \E r \in rules : ~ (r.parents \subseteq Ids(req.rules))} \cup
        {c \in {"rule_self_reference"} : \E r \in rules : r.id \in r.parents}

\* Edges of the rule graph. Rules that share an id share their parents
\* (TopologicalSorter.add).
RuleParents(req, id) ==
    Ids(req.rules) \cap
        UNION {req.rules[k].parents : k \in {j \in DOMAIN req.rules : req.rules[j].id = id}}

\* A graph has a cycle when some rules each have a parent among them.
HasCycle(req) ==
    \E S \in SUBSET Ids(req.rules) : S # {} /\ \A r \in S : RuleParents(req, r) \cap S # {}

\* Mutant: only rules that are each other's parent are noticed.
CheckRuleDagDirect(req) ==
    IF \E r, s \in Ids(req.rules) : r \in RuleParents(req, s) /\ s \in RuleParents(req, r)
    THEN {"rule_cycle"} ELSE {}

CheckRuleDag(req) == IF HasCycle(req) THEN {"rule_cycle"} ELSE {}

\* Warnings only; sync says that the caller waits for the answer.
CheckStageConsistency(req, sync) ==
    {c \in {"rule_engine_no_rules"} : "rules" \in req.stages /\ req.rules = <<>>} \cup
    {c \in {"visual_authenticity_no_validators"} :
        "visual_authenticity" \in req.stages /\ \A k \in DOMAIN req.docs : req.docs[k].checks = {}} \cup
    {c \in {"splitter_single_doc"} : "splitter" \in req.stages /\ Len(req.docs) <= 1} \cup
    {c \in {"repair_sync_latency"} : sync /\ "repair" \in req.stages} \cup
    {c \in {"repair_no_verification_stage"} :
        "repair" \in req.stages /\ req.stages \cap {"judge", "field_validation"} = {}}

Errors(req) ==
    CheckFiles(req) \cup CheckDocumentTypes(req) \cup CheckRuleReferences(req) \cup CheckRuleDag(req)

Warnings(req, sync) == CheckStageConsistency(req, sync)
=============================================================================
