-------------------------- MODULE MCFieldVerification --------------------------
(* Two tasks of two fields. *)
EXTENDS FieldVerification, TLC

CONSTANTS t1, t2, f, g

MCFieldsOf == [t \in {t1, t2} |-> {f, g}]

Symmetry == Permutations({t1, t2}) \cup Permutations({f, g})

MCStageSets == { {"judge", "judge_escalation"},
                 {"field_validation", "repair"},
                 {"field_validation", "judge", "repair", "judge_escalation"} }
=============================================================================
