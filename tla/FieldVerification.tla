--------------------------- MODULE FieldVerification ---------------------------
(***************************************************************************)
(* The verification stages of one pipeline run, field by field: the judge, *)
(* the FieldRepairer and the JudgeEscalator, over the groups of all tasks. *)
(* Each stage gathers one job per task; a job may raise, and a stage may   *)
(* be cut off by its timeout after any of its jobs.                        *)
(*                                                                         *)
(* An extracted field is the pass that produced its value, whether the     *)
(* value is null, whether the validators accept it, and its judge verdict. *)
(* "unseen" is the default outcome of a field no judge has looked at; to   *)
(* the code it is the same as "uncertain". "flagged" is flag_for_review on *)
(* a field that did not fail.                                              *)
(***************************************************************************)
EXTENDS Naturals, FiniteSets

CONSTANTS
    Task,           \* tasks of the run
    FieldsOf,       \* FieldsOf[t]: top-level fields of the document type of t
    StageSets,      \* sets of stages a request may ask for; "judge_escalation" stands
                    \* for the toggle and an escalation model that is not the primary one
    Concurrency,    \* repair_task_concurrency
    FractionNum, FractionDen,   \* repair_max_failing_fraction
    ThresholdNum, ThresholdDen, \* escalation threshold
    IncludeFlagged, \* repair_include_flagged
    None            \* no info, no groups of its own

ASSUME VerificationAssumption ==
    /\ IsFiniteSet(Task) /\ FieldsOf \in [Task -> SUBSET UNION {FieldsOf[t] : t \in Task}]
    /\ \A t \in Task : FieldsOf[t] # {} /\ IsFiniteSet(FieldsOf[t])
    /\ StageSets \subseteq SUBSET {"field_validation", "judge", "repair", "judge_escalation"}
    /\ Concurrency \in Nat
    /\ FractionNum \in Nat /\ FractionDen \in Nat \ {0}
    /\ ThresholdNum \in Nat /\ ThresholdDen \in Nat \ {0}
    /\ IncludeFlagged \in BOOLEAN

VARIABLES
    stages,     \* options.stages
    groups,     \* task -> extracted_groups
    stage,      \* what the pipeline is doing
    todo,       \* tasks whose job in this stage has not ended
    repairing,  \* task -> failing fields it is repairing, {} when it is not
    counts,     \* flagged, repaired fields and skipped tasks so far
    repairInfo, \* pipeline.repair
    primary,    \* bad verdicts and fields when the escalation was triggered
    fresh,      \* new_per_doc: task -> new groups, or its old ones
    escalation  \* pipeline.escalation: None, "accepted" or "rejected"

vars == <<stages, groups, stage, todo, repairing, counts, repairInfo, primary, fresh, escalation>>

Verdicts == {"unseen", "uncertain", "pass", "fail", "flagged"}

ExtractedField == [ by      : {"primary", "repair", "escalation"},
                    null    : BOOLEAN,
                    valid   : BOOLEAN,
                    verdict : Verdicts ]

\* No groups, or a record for every field
Groups(t) == {<<>>} \cup [FieldsOf[t] -> ExtractedField]

\* A job writes into the very objects of the task (the shallow list copy that
\* _re_extract falls back to), so the new groups are the old ones.
Alias == None

\* What a full extraction may produce. Whether its values are null is left
\* open: no stage asks that of the value it judges or replaces.
Extracted(by, checked) ==
    {r \in ExtractedField : /\ r.by = by /\ r.verdict = "unseen" /\ ~r.null
                            /\ ~checked => r.valid}

Checked == "field_validation" \in stages
Judging == "judge" \in stages

\* What the extract and field_validation stages leave behind
PrimaryGroups(t) == {<<>>} \cup [FieldsOf[t] -> Extracted("primary", Checked)]

NoFresh == [t \in Task |-> <<>>]

Init ==
    /\ stages \in StageSets
    /\ groups \in [Task -> UNION {PrimaryGroups(t) : t \in Task}]
    /\ \A t \in Task : groups[t] \in PrimaryGroups(t)
    /\ stage = "ready"
    /\ todo = {}
    /\ repairing = [t \in Task |-> {}]
    /\ counts = [flagged |-> 0, repaired |-> 0, skipped |-> 0]
    /\ repairInfo = None
    /\ primary = [bad |-> 0, total |-> 0]
    /\ fresh = NoFresh
    /\ escalation = None

WithGroups == {t \in Task : groups[t] # <<>>}

-----------------------------------------------------------------------------
(* Judge *)

\* Judge._apply writes the verdicts the model returned; a field it left out
\* keeps the one it had.
JudgedAs(gs, verdicts) ==
    [f \in DOMAIN gs |-> IF verdicts[f] = "unseen" THEN gs[f]
                         ELSE [gs[f] EXCEPT !.verdict = verdicts[f]]]

StartJudge ==
    /\ stage = "ready"
    /\ stage' = "judge"
    /\ todo' = IF Judging THEN WithGroups ELSE {}
    /\ UNCHANGED <<stages, groups, repairing, counts, repairInfo, primary, fresh, escalation>>

JudgeOne(t) ==
    /\ stage = "judge" /\ t \in todo
    /\ \E verdicts \in [DOMAIN groups[t] -> Verdicts] :
         groups' = [groups EXCEPT ![t] = JudgedAs(@, verdicts)]
    /\ todo' = todo \ {t}
    /\ UNCHANGED <<stages, stage, repairing, counts, repairInfo, primary, fresh, escalation>>

JudgeRaises(t) ==
    /\ stage = "judge" /\ t \in todo
    /\ todo' = todo \ {t}
    /\ UNCHANGED <<stages, groups, stage, repairing, counts, repairInfo, primary, fresh, escalation>>

-----------------------------------------------------------------------------
(* Repair *)

\* collect_failing_fields
Fails(r) == \/ r.verdict = "fail"
            \/ IncludeFlagged /\ r.verdict = "flagged"
            \/ ~r.valid

Failing(t) == {f \in DOMAIN groups[t] : Fails(groups[t][f])}

\* Mutant: a value the judge says nothing about, or null, is accepted.
IsCleanLoose(r) == r.valid /\ r.verdict \notin {"fail", "flagged"}

\* Mutant: the validators are not asked about the candidate.
IsCleanUnvalidated(r) ==
    /\ ~r.null
    /\ IF Judging THEN r.verdict = "pass" ELSE r.verdict \notin {"fail", "flagged"}

\* A null never replaces a value; with the judge on only a plain pass does.
IsClean(r) ==
    /\ ~r.null /\ r.valid
    /\ IF Judging THEN r.verdict = "pass" ELSE r.verdict \notin {"fail", "flagged"}

NeedsRepair == "repair" \in stages /\ (Judging \/ Checked)

\* The judge stage is over, in time or not.
StartRepair ==
    /\ stage = "judge"
    /\ stage' = "repair"
    /\ todo' = IF NeedsRepair THEN Task ELSE {}
    /\ UNCHANGED <<stages, groups, repairing, counts, repairInfo, primary, fresh, escalation>>

NothingFails(t) ==
    /\ stage = "repair" /\ t \in todo /\ repairing[t] = {}
    /\ Failing(t) = {}
    /\ todo' = todo \ {t}
    /\ UNCHANGED <<stages, groups, stage, repairing, counts, repairInfo, primary, fresh, escalation>>

TooManyFail(t) == Cardinality(Failing(t)) * FractionDen > FractionNum * Cardinality(DOMAIN groups[t])

SkipRepair(t) ==
    /\ stage = "repair" /\ t \in todo /\ repairing[t] = {}
    /\ Failing(t) # {} /\ TooManyFail(t)
    /\ counts' = [counts EXCEPT !.flagged = @ + Cardinality(Failing(t)), !.skipped = @ + 1]
    /\ todo' = todo \ {t}
    /\ UNCHANGED <<stages, groups, stage, repairing, repairInfo, primary, fresh, escalation>>

InFlight == {t \in Task : repairing[t] # {}}

\* asyncio.Semaphore(max(1, task_concurrency))
MayRepair == Cardinality(InFlight) < (IF Concurrency = 0 THEN 1 ELSE Concurrency)

\* The code collects the failures of t before it waits for the semaphore; no
\* other task touches them while it does.
StartRepairing(t) ==
    /\ stage = "repair" /\ t \in todo /\ repairing[t] = {}
    /\ Failing(t) # {} /\ ~TooManyFail(t)
    /\ MayRepair
    /\ counts' = [counts EXCEPT !.flagged = @ + Cardinality(Failing(t))]
    /\ repairing' = [repairing EXCEPT ![t] = Failing(t)]
    /\ UNCHANGED <<stages, groups, stage, todo, repairInfo, primary, fresh, escalation>>

\* The focused pass answers for some of the failing fields, the validators see
\* all of its candidates (a null passes them), and the judge, if on, some.
Candidates ==
    {r \in ExtractedField : /\ r.by = "repair" /\ (r.null => r.valid)
                            /\ ~Judging => r.verdict = "unseen"}

RepairEnds(t) ==
    /\ repairing[t] # {}
    /\ \E answered \in SUBSET repairing[t] :
         \E candidate \in [answered -> Candidates] :
            LET accepted == {f \in answered : IsClean(candidate[f])} IN
            /\ groups' = [groups EXCEPT ![t] = [f \in DOMAIN @ |->
                             IF f \in accepted THEN candidate[f] ELSE @[f]]]
            /\ counts' = [counts EXCEPT !.repaired = @ + Cardinality(accepted)]
    /\ repairing' = [repairing EXCEPT ![t] = {}]
    /\ todo' = todo \ {t}
    /\ UNCHANGED <<stages, stage, repairInfo, primary, fresh, escalation>>

\* What _repair_one raises is swallowed: the original fields are kept.
RepairRaises(t) ==
    /\ repairing[t] # {}
    /\ repairing' = [repairing EXCEPT ![t] = {}]
    /\ todo' = todo \ {t}
    /\ UNCHANGED <<stages, groups, stage, counts, repairInfo, primary, fresh, escalation>>

-----------------------------------------------------------------------------
(* Escalation *)

Bad(r) == r.verdict \in {"fail", "flagged"}

\* _count_failures
CountBad(gs) == Cardinality({p \in UNION {{t} \X DOMAIN gs[t] : t \in Task} : Bad(gs[p[1]][p[2]])})
CountAll(gs) == Cardinality(UNION {{t} \X DOMAIN gs[t] : t \in Task})

Triggered ==
    /\ {"judge", "judge_escalation"} \subseteq stages
    /\ ThresholdNum > 0 /\ CountAll(groups) > 0
    /\ CountBad(groups) * ThresholdDen >= ThresholdNum * CountAll(groups)

\* The repair stage is over: its info is written when it ended in time and a
\* field was flagged. Then the escalation looks at the verdicts.
RepairOver(inTime) ==
    /\ stage = "repair"
    /\ repairInfo' = IF inTime /\ counts.flagged > 0 THEN counts ELSE None
    /\ repairing' = [t \in Task |-> {}]
    /\ IF Triggered
       THEN /\ stage' = "reextract" /\ todo' = Task
            /\ primary' = [bad |-> CountBad(groups), total |-> CountAll(groups)]
       ELSE /\ stage' = "done" /\ todo' = {}
            /\ UNCHANGED primary
    /\ UNCHANGED <<stages, groups, counts, fresh, escalation>>

RepairInTime   == todo = {} /\ RepairOver(TRUE)
RepairTimesOut == todo # {} /\ RepairOver(FALSE)

\* The new groups are not validated.
ReExtract(t) ==
    /\ stage = "reextract" /\ t \in todo
    /\ \E new \in {<<>>} \cup [FieldsOf[t] -> Extracted("escalation", FALSE)] :
         fresh' = [fresh EXCEPT ![t] = new]
    /\ todo' = todo \ {t}
    /\ UNCHANGED <<stages, groups, stage, repairing, counts, repairInfo, primary, escalation>>

ReExtractRaises(t) ==
    /\ stage = "reextract" /\ t \in todo
    /\ fresh' = [fresh EXCEPT ![t] = Alias]
    /\ todo' = todo \ {t}
    /\ UNCHANGED <<stages, groups, stage, repairing, counts, repairInfo, primary, escalation>>

NewGroups == [t \in Task |-> IF fresh[t] = Alias THEN groups[t] ELSE fresh[t]]

StartReJudge ==
    /\ stage = "reextract" /\ todo = {}
    /\ stage' = "rejudge"
    /\ todo' = {t \in Task : NewGroups[t] # <<>>}
    /\ UNCHANGED <<stages, groups, repairing, counts, repairInfo, primary, fresh, escalation>>

\* Through the alias the verdicts of the reported groups are written.
ReJudge(t) ==
    /\ stage = "rejudge" /\ t \in todo
    /\ \E verdicts \in [DOMAIN NewGroups[t] -> Verdicts] :
         IF fresh[t] = Alias
         THEN groups' = [groups EXCEPT ![t] = JudgedAs(@, verdicts)] /\ UNCHANGED fresh
         ELSE fresh' = [fresh EXCEPT ![t] = JudgedAs(@, verdicts)] /\ UNCHANGED groups
    /\ todo' = todo \ {t}
    /\ UNCHANGED <<stages, stage, repairing, counts, repairInfo, primary, escalation>>

ReJudgeRaises(t) ==
    /\ stage = "rejudge" /\ t \in todo
    /\ todo' = todo \ {t}
    /\ UNCHANGED <<stages, groups, stage, repairing, counts, repairInfo, primary, fresh, escalation>>

Better == CountBad(NewGroups) < primary.bad

\* Mutant: the new groups are in place before they are found to be better.
DecideInPlace ==
    /\ stage = "rejudge" /\ todo = {}
    /\ groups' = NewGroups
    /\ escalation' = IF Better THEN "accepted" ELSE "rejected"
    /\ stage' = "done" /\ fresh' = NoFresh
    /\ UNCHANGED <<stages, todo, repairing, counts, repairInfo, primary>>

Decide ==
    /\ stage = "rejudge" /\ todo = {}
    /\ IF Better THEN groups' = NewGroups /\ escalation' = "accepted"
                 ELSE UNCHANGED groups /\ escalation' = "rejected"
    /\ stage' = "done" /\ fresh' = NoFresh
    /\ UNCHANGED <<stages, todo, repairing, counts, repairInfo, primary>>

\* maybe_escalate is cancelled: nothing has been put into ctx.metadata.
EscalationTimesOut ==
    /\ stage \in {"reextract", "rejudge"} /\ todo # {}
    /\ stage' = "done" /\ todo' = {} /\ fresh' = NoFresh
    /\ UNCHANGED <<stages, groups, repairing, counts, repairInfo, primary, escalation>>

-----------------------------------------------------------------------------
Next ==
    \/ StartJudge \/ StartRepair \/ RepairInTime \/ RepairTimesOut
    \/ StartReJudge \/ Decide \/ EscalationTimesOut
    \/ \E t \in Task :
         \/ JudgeOne(t) \/ JudgeRaises(t)
         \/ NothingFails(t) \/ SkipRepair(t) \/ StartRepairing(t)
         \/ RepairEnds(t) \/ RepairRaises(t)
         \/ ReExtract(t) \/ ReExtractRaises(t) \/ ReJudge(t) \/ ReJudgeRaises(t)

Spec == Init /\ [][Next]_vars

-----------------------------------------------------------------------------
(* Properties *)

\* Repair never makes a field worse: as long as it runs a field that changes
\* was failing and is replaced by one that is not null and does not fail (with
\* the judge on, one that it passed), and a task that has no groups gets none.
RepairIsMonotonic ==
    [][stage = "repair" =>
          \A t \in Task :
              /\ DOMAIN groups'[t] = DOMAIN groups[t]
              /\ \A f \in DOMAIN groups[t] : groups'[t][f] # groups[t][f] =>
                    /\ Fails(groups[t][f]) /\ ~Fails(groups'[t][f])
                    /\ ~groups'[t][f].null
                    /\ Judging => groups'[t][f].verdict = "pass"]_vars

AllFields == UNION {{t} \X DOMAIN groups[t] : t \in Task}

\* pipeline.repair tells the truth, whichever tasks ran at the same time and
\* whichever raised: the fields repaired are those that carry a repaired value,
\* and every other flagged field still fails when the escalation looks at it or,
\* without one, in the result.
RepairInfoAddsUp ==
    /\ repairInfo # None
    /\ stage = "reextract" \/ (stage = "done" /\ primary.total = 0)
    =>
        /\ repairInfo.repaired = Cardinality({p \in AllFields : groups[p[1]][p[2]].by = "repair"})
        /\ repairInfo.flagged - repairInfo.repaired =
              Cardinality({p \in AllFields : Fails(groups[p[1]][p[2]])})

\* An escalation that is rejected or cut off leaves every value as it was,
\* with the validators' verdict on it.
OnlyAcceptedReplaces ==
    [][escalation' # "accepted" /\ stage \in {"reextract", "rejudge"} =>
          \A t \in Task :
              /\ DOMAIN groups'[t] = DOMAIN groups[t]
              /\ \A f \in DOMAIN groups[t] :
                    [groups'[t][f] EXCEPT !.verdict = groups[t][f].verdict] = groups[t][f]]_vars
=============================================================================
