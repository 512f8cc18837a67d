------------------------------ MODULE RuleEngine ------------------------------
(***************************************************************************)
(* RuleEngine.evaluate: the rule graph is worked off in levels, one call   *)
(* of the model per level. The model may leave out rules it was asked      *)
(* about and answer for rules it was not asked about. A result is          *)
(* abstracted to the id it carries.                                        *)
(***************************************************************************)
EXTENDS RequestValidator

CONSTANT StrayIds   \* rule ids the model may make up

VARIABLES
    engine,     \* "idle", "levels", "done", "cycle" or "failed"
    worked,     \* rules the sorter has marked done
    results,    \* <<id, level>> of every result
    level,      \* level_index
    asked,      \* history: rule -> the levels it was asked on
    shown       \* history: rule -> what the prompt of its level held

ruleVars == <<engine, worked, results, level, asked, shown>>

RulesIdle ==
    /\ engine = "idle" /\ worked = {} /\ results = {} /\ level = 0
    /\ asked = <<>> /\ shown = <<>>

\* No rules: the result is empty. A cycle raises.
StartRules(req) ==
    /\ engine = "idle"
    /\ engine' = CASE req.rules = <<>> -> "done"
                   [] HasCycle(req)    -> "cycle"
                   [] OTHER            -> "levels"
    /\ asked' = [r \in Ids(req.rules) |-> {}]
    /\ shown' = [r \in Ids(req.rules) |-> [previous |-> {}, documents |-> {}]]
    /\ UNCHANGED <<worked, results, level>>

\* TopologicalSorter.get_ready
Ready(req) == {r \in Ids(req.rules) \ worked : RuleParents(req, r) \subseteq worked}

\* Parents a rule declares, known or not (_used_by_any). The last rule of an
\* id is the one rule_by_id holds.
RuleNamed(req, id) ==
    req.rules[CHOOSE k \in DOMAIN req.rules :
                req.rules[k].id = id /\ \A j \in DOMAIN req.rules : req.rules[j].id = id => j <= k]

UsedByAny(req, id, active) == \E r \in active : id \in RuleNamed(req, r).parents

\* _build_documents_context: the fields and checks some active rule reads,
\* of the declared types, as far as the documents have them.
DocumentsContext(req, active, extracted, visual) ==
    LET declared(p) == p[1] \in Ids(req.docs) IN
    {p \in UNION {RuleNamed(req, r).fields : r \in active} : declared(p) /\ p \in extracted} \cup
    {p \in UNION {RuleNamed(req, r).checks : r \in active} : declared(p) /\ p \in visual}

EvaluateLevel(req, extracted, visual) ==
    /\ engine = "levels"
    /\ LET active   == Ready(req)
           previous == {res \in results : UsedByAny(req, res[1], active)}
       IN  /\ level' = level + 1
           /\ asked' = [r \in DOMAIN asked |-> IF r \in active THEN asked[r] \cup {level + 1}
                                                               ELSE asked[r]]
           /\ shown' = [r \in DOMAIN shown |->
                          IF r \notin active THEN shown[r] ELSE
                            [previous  |-> previous,
                             documents |-> DocumentsContext(req, active, extracted, visual)]]
           /\ \E answered \in SUBSET (Ids(req.rules) \cup StrayIds) :
                results' = results \cup (answered \X {level + 1})
           /\ worked' = worked \cup active
           /\ engine' = IF worked' = Ids(req.rules) THEN "done" ELSE "levels"

\* A cycle or a call that raises: the results of the earlier levels are lost
\* too, and pipeline_errors has an entry.
EvaluationRaises ==
    /\ engine \in {"cycle", "levels"}
    /\ engine' = "failed" /\ results' = {}
    /\ UNCHANGED <<worked, level, asked, shown>>

-----------------------------------------------------------------------------
(* What an accepted rule set can count on *)

EachRuleOnce(req) ==
    \A r \in Ids(req.rules) : Cardinality(asked[r]) = 1

ParentsAskedFirst(req) ==
    \A r \in DOMAIN asked : asked[r] # {} =>
        \A p \in RuleNamed(req, r).parents :
            asked[p] # {} /\ \A i \in asked[p], j \in asked[r] : i < j

\* The prompt held whatever the model had said of the rule's parents.
ParentsShown(req) ==
    \A r \in DOMAIN asked : \A j \in asked[r] : \A res \in results :
        res[1] \in RuleNamed(req, r).parents /\ res[2] < j => res \in shown[r].previous
=============================================================================
