------------------------ MODULE FieldVerificationProofs ------------------------
(***************************************************************************)
(* Proofs about the judge, the repair and the escalation of one pipeline   *)
(* run, for any tasks, fields, stage sets, thresholds and concurrency.     *)
(***************************************************************************)
EXTENDS FieldVerification, FiniteSetTheorems, TLAPS

-----------------------------------------------------------------------------
(* Type correctness, and what is being repaired *)

\* gs are groups of task t: a record for each of some of its fields.
GroupsFor(t, gs) ==
    /\ DOMAIN gs \subseteq FieldsOf[t]
    /\ \A f \in DOMAIN gs : gs[f] \in ExtractedField

Counts == [flagged : Nat, repaired : Nat, skipped : Nat]

Stages == {"ready", "judge", "repair", "reextract", "rejudge", "done"}

VerificationTypeOK ==
    /\ stage \in Stages
    /\ DOMAIN groups = Task /\ \A t \in Task : GroupsFor(t, groups[t])
    /\ todo \subseteq Task
    /\ DOMAIN repairing = Task
    /\ counts \in Counts
    /\ DOMAIN fresh = Task /\ \A t \in Task : fresh[t] = Alias \/ GroupsFor(t, fresh[t])

\* Repairs run in the repair stage only, on fields that fail.
RepairingInv ==
    \A t \in Task : /\ repairing[t] # {} => stage = "repair"
                    /\ repairing[t] \subseteq Failing(t)

VerificationInv == VerificationTypeOK /\ RepairingInv

LEMMA NoGroups == \A t \in Task : GroupsFor(t, <<>>)
BY DEF GroupsFor

LEMMA FullGroups ==
    ASSUME NEW t \in Task, NEW gs \in [FieldsOf[t] -> ExtractedField]
    PROVE  GroupsFor(t, gs)
BY DEF GroupsFor

LEMMA JudgedGroups ==
    ASSUME NEW t \in Task, NEW gs, GroupsFor(t, gs), NEW verdicts \in [DOMAIN gs -> Verdicts]
    PROVE  /\ GroupsFor(t, JudgedAs(gs, verdicts))
           /\ DOMAIN JudgedAs(gs, verdicts) = DOMAIN gs
           /\ \A f \in DOMAIN gs :
                 [JudgedAs(gs, verdicts)[f] EXCEPT !.verdict = gs[f].verdict] = gs[f]
BY DEF GroupsFor, JudgedAs, ExtractedField

LEMMA VerificationInit == Init => VerificationInv
<1> SUFFICES ASSUME Init PROVE VerificationInv
    OBVIOUS
<1>1. ASSUME NEW t \in Task PROVE GroupsFor(t, groups[t])
    <2>1. CASE groups[t] = <<>>
        BY <2>1, NoGroups
    <2>2. CASE groups[t] \in [FieldsOf[t] -> Extracted("primary", Checked)]
        BY <2>2 DEF GroupsFor, Extracted
    <2> QED BY <2>1, <2>2 DEF Init, PrimaryGroups
<1>2. fresh = [t \in Task |-> <<>>] /\ DOMAIN groups = Task
    BY DEF Init, NoFresh
<1>3. VerificationTypeOK
    BY <1>1, <1>2, NoGroups DEF Init, VerificationTypeOK, Stages, Counts
<1>4. RepairingInv
    BY DEF Init, RepairingInv
<1> QED BY <1>3, <1>4 DEF VerificationInv

\* A repair that ends replaces some failing fields of t by clean candidates, and
\* counts them.
LEMMA RepairEffect ==
    ASSUME VerificationInv, NEW t \in Task, RepairEnds(t)
    PROVE  /\ DOMAIN groups' = Task /\ \A u \in Task : GroupsFor(u, groups'[u])
           /\ \A u \in Task \ {t} : groups'[u] = groups[u]
           /\ DOMAIN groups'[t] = DOMAIN groups[t]
           /\ \E accepted \in SUBSET repairing[t] :
                 /\ \A f \in accepted : groups'[t][f] \in Candidates /\ IsClean(groups'[t][f])
                 /\ \A f \in DOMAIN groups[t] \ accepted : groups'[t][f] = groups[t][f]
                 /\ counts' = [counts EXCEPT !.repaired = counts.repaired + Cardinality(accepted)]
<1>0. DOMAIN groups = Task /\ \A u \in Task : GroupsFor(u, groups[u])
    BY DEF VerificationInv, VerificationTypeOK
<1> DEFINE Accepted(answered, candidate) == {f \in answered : IsClean(candidate[f])}
           Repaired(accepted, candidate) ==
              [f \in DOMAIN groups[t] |-> IF f \in accepted THEN candidate[f] ELSE groups[t][f]]
<1>1. \E answered \in SUBSET repairing[t] : \E candidate \in [answered -> Candidates] :
         /\ groups' = [groups EXCEPT ![t] = Repaired(Accepted(answered, candidate), candidate)]
         /\ counts' = [counts EXCEPT !.repaired =
                          counts.repaired + Cardinality(Accepted(answered, candidate))]
    BY DEF RepairEnds, VerificationInv, VerificationTypeOK, Counts
<1>2. PICK answered \in SUBSET repairing[t] : \E candidate \in [answered -> Candidates] :
         /\ groups' = [groups EXCEPT ![t] = Repaired(Accepted(answered, candidate), candidate)]
         /\ counts' = [counts EXCEPT !.repaired =
                          counts.repaired + Cardinality(Accepted(answered, candidate))]
    BY <1>1
<1>3. PICK candidate \in [answered -> Candidates] :
         /\ groups' = [groups EXCEPT ![t] = Repaired(Accepted(answered, candidate), candidate)]
         /\ counts' = [counts EXCEPT !.repaired =
                          counts.repaired + Cardinality(Accepted(answered, candidate))]
    BY <1>2
<1> DEFINE accepted == Accepted(answered, candidate)
<1>4. accepted \in SUBSET repairing[t] /\ repairing[t] \subseteq DOMAIN groups[t]
    BY DEF VerificationInv, RepairingInv, Failing
<1>5. \A f \in accepted : /\ candidate[f] \in Candidates /\ candidate[f] \in ExtractedField
                          /\ IsClean(candidate[f])
    BY DEF Candidates
<1>6. /\ groups' = [groups EXCEPT ![t] = Repaired(accepted, candidate)]
      /\ counts' = [counts EXCEPT !.repaired = counts.repaired + Cardinality(accepted)]
    BY <1>3
<1> HIDE DEF Accepted, accepted
<1>7. /\ DOMAIN groups' = Task /\ groups'[t] = Repaired(accepted, candidate)
      /\ \A u \in Task \ {t} : groups'[u] = groups[u]
    BY <1>0, <1>6
<1>8. /\ DOMAIN groups'[t] = DOMAIN groups[t]
      /\ \A f \in DOMAIN groups[t] :
            groups'[t][f] = IF f \in accepted THEN candidate[f] ELSE groups[t][f]
    BY <1>7
<1>9. GroupsFor(t, groups'[t])
    BY <1>0, <1>5, <1>8 DEF GroupsFor
<1>10. \A u \in Task : GroupsFor(u, groups'[u])
    BY <1>0, <1>7, <1>9
<1>11. /\ \A f \in accepted : groups'[t][f] \in Candidates /\ IsClean(groups'[t][f])
       /\ \A f \in DOMAIN groups[t] \ accepted : groups'[t][f] = groups[t][f]
    BY <1>4, <1>5, <1>8
<1> QED BY <1>4, <1>6, <1>7, <1>8, <1>10, <1>11

LEMMA FailingCount ==
    ASSUME VerificationInv, NEW t \in Task, NEW S, S \subseteq DOMAIN groups[t]
    PROVE  IsFiniteSet(S) /\ Cardinality(S) \in Nat
<1>1. IsFiniteSet(FieldsOf[t]) /\ S \subseteq FieldsOf[t]
    BY VerificationAssumption DEF VerificationInv, VerificationTypeOK, GroupsFor
<1> QED BY <1>1, FS_Subset, FS_CardinalityType

\* Every step of the repair stage keeps the types and what is being repaired.
LEMMA RepairStageKeeps ==
    ASSUME VerificationInv, NEW t \in Task,
           NothingFails(t) \/ SkipRepair(t) \/ StartRepairing(t) \/ RepairEnds(t) \/ RepairRaises(t)
    PROVE  VerificationInv'
<1>0. VerificationTypeOK /\ RepairingInv
    BY DEF VerificationInv
<1>1. CASE NothingFails(t)
    BY <1>0, <1>1 DEF NothingFails, VerificationInv, VerificationTypeOK, RepairingInv, Failing
<1>2. CASE SkipRepair(t) \/ StartRepairing(t)
    <2> DEFINE n == Cardinality(Failing(t))
    <2>1. n \in Nat
        BY FailingCount DEF Failing
    <2>2. counts.flagged + n \in Nat /\ counts.skipped + 1 \in Nat
        BY <1>0, <2>1 DEF VerificationTypeOK, Counts
    <2>3. counts' \in Counts
        <3> HIDE DEF n
        <3>1. CASE SkipRepair(t)
            <4>1. counts' = [counts EXCEPT !.flagged = counts.flagged + n,
                                           !.skipped = counts.skipped + 1]
                BY <1>0, <3>1 DEF SkipRepair, VerificationTypeOK, Counts, n
            <4> QED BY <1>0, <2>2, <4>1 DEF VerificationTypeOK, Counts
        <3>2. CASE StartRepairing(t)
            <4>1. counts' = [counts EXCEPT !.flagged = counts.flagged + n]
                BY <1>0, <3>2 DEF StartRepairing, VerificationTypeOK, Counts, n
            <4> QED BY <1>0, <2>2, <4>1 DEF VerificationTypeOK, Counts
        <3> QED BY <1>2, <3>1, <3>2
    <2>4. VerificationTypeOK'
        BY <1>0, <1>2, <2>3 DEF SkipRepair, StartRepairing, VerificationTypeOK
    <2>5. RepairingInv'
        BY <1>0, <1>2 DEF SkipRepair, StartRepairing, VerificationTypeOK, RepairingInv, Failing
    <2> QED BY <2>4, <2>5 DEF VerificationInv
<1>3. CASE RepairRaises(t)
    BY <1>0, <1>3 DEF RepairRaises, VerificationInv, VerificationTypeOK, RepairingInv, Failing
<1>4. CASE RepairEnds(t)
    <2>1. PICK accepted \in SUBSET repairing[t] :
             counts' = [counts EXCEPT !.repaired = counts.repaired + Cardinality(accepted)]
        BY <1>4, RepairEffect
    <2> DEFINE n == counts.repaired + Cardinality(accepted)
    <2>2. /\ DOMAIN groups' = Task /\ \A u \in Task : GroupsFor(u, groups'[u])
          /\ \A u \in Task \ {t} : groups'[u] = groups[u]
        BY <1>4, RepairEffect
    <2>3. n \in Nat /\ counts' = [counts EXCEPT !.repaired = n]
        <3>1. accepted \subseteq DOMAIN groups[t]
            BY <1>0 DEF RepairingInv, Failing
        <3>2. Cardinality(accepted) \in Nat
            BY <3>1, FailingCount
        <3>3. counts.repaired \in Nat
            BY <1>0 DEF VerificationTypeOK, Counts
        <3>4. n \in Nat
            BY <3>2, <3>3
        <3> QED BY <2>1, <3>4
    <2> HIDE DEF n
    <2>4. counts' \in Counts
        BY <1>0, <2>3 DEF VerificationTypeOK, Counts
    <2>5. /\ todo' = todo \ {t} /\ repairing' = [repairing EXCEPT ![t] = {}]
          /\ UNCHANGED <<stage, fresh>>
        BY <1>4 DEF RepairEnds
    <2>6. VerificationTypeOK'
        BY <1>0, <2>2, <2>4, <2>5 DEF VerificationTypeOK
    <2>7. RepairingInv'
        BY <1>0, <2>2, <2>5 DEF VerificationTypeOK, RepairingInv, Failing
    <2> QED BY <2>6, <2>7 DEF VerificationInv
<1> QED BY <1>1, <1>2, <1>3, <1>4

\* Outside the repair stage nothing is being repaired.
LEMMA NothingRepairing ==
    ASSUME VerificationInv, stage # "repair"
    PROVE  \A t \in Task : repairing[t] = {}
BY DEF VerificationInv, RepairingInv

LEMMA VerificationStep == VerificationInv /\ [Next]_vars => VerificationInv'
<1> SUFFICES ASSUME VerificationInv, [Next]_vars PROVE VerificationInv'
    OBVIOUS
<1>0. VerificationTypeOK /\ RepairingInv
    BY DEF VerificationInv
<1>1. CASE StartJudge \/ StartRepair
    BY <1>0, <1>1, NothingRepairing
       DEF StartJudge, StartRepair, VerificationInv, VerificationTypeOK, RepairingInv, Stages, WithGroups
<1>2. ASSUME NEW t \in Task, JudgeRaises(t) \/ ReJudgeRaises(t) PROVE VerificationInv'
    BY <1>0, <1>2
       DEF JudgeRaises, ReJudgeRaises, VerificationInv, VerificationTypeOK, RepairingInv, Failing
<1>3. ASSUME NEW t \in Task, JudgeOne(t) PROVE VerificationInv'
    <2>1. PICK verdicts \in [DOMAIN groups[t] -> Verdicts] :
             groups' = [groups EXCEPT ![t] = JudgedAs(groups[t], verdicts)]
        BY <1>0, <1>3 DEF JudgeOne, VerificationTypeOK
    <2>2. GroupsFor(t, JudgedAs(groups[t], verdicts))
        BY <1>0, JudgedGroups DEF VerificationTypeOK
    <2>3. VerificationTypeOK'
        BY <1>0, <1>3, <2>1, <2>2 DEF JudgeOne, VerificationTypeOK
    <2>4. RepairingInv'
        BY <1>3, NothingRepairing DEF JudgeOne, RepairingInv
    <2> QED BY <2>3, <2>4 DEF VerificationInv
<1>4. ASSUME NEW t \in Task,
             NothingFails(t) \/ SkipRepair(t) \/ StartRepairing(t) \/ RepairEnds(t) \/ RepairRaises(t)
      PROVE  VerificationInv'
    BY <1>4, RepairStageKeeps
<1>5. CASE RepairInTime \/ RepairTimesOut
    BY <1>0, <1>5
       DEF RepairInTime, RepairTimesOut, RepairOver, VerificationInv, VerificationTypeOK, RepairingInv,
           Stages
<1>6. ASSUME NEW t \in Task, ReExtract(t) PROVE VerificationInv'
    <2>1. PICK new \in {<<>>} \cup [FieldsOf[t] -> Extracted("escalation", FALSE)] :
             fresh' = [fresh EXCEPT ![t] = new]
        BY <1>6 DEF ReExtract
    <2>2. GroupsFor(t, new)
        <3>1. CASE new = <<>>
            BY <3>1, NoGroups
        <3>2. CASE new \in [FieldsOf[t] -> Extracted("escalation", FALSE)]
            BY <3>2 DEF GroupsFor, Extracted
        <3> QED BY <2>1, <3>1, <3>2
    <2>3. VerificationTypeOK'
        BY <1>0, <1>6, <2>1, <2>2 DEF ReExtract, VerificationTypeOK
    <2>4. RepairingInv'
        BY <1>0, <1>6 DEF ReExtract, RepairingInv, Failing
    <2> QED BY <2>3, <2>4 DEF VerificationInv
<1>7. ASSUME NEW t \in Task, ReExtractRaises(t) PROVE VerificationInv'
    BY <1>0, <1>7 DEF ReExtractRaises, VerificationInv, VerificationTypeOK, RepairingInv, Failing
<1>8. ASSUME NEW t \in Task, ReJudge(t) PROVE VerificationInv'
    <2>1. PICK verdicts \in [DOMAIN NewGroups[t] -> Verdicts] :
             IF fresh[t] = Alias
             THEN groups' = [groups EXCEPT ![t] = JudgedAs(groups[t], verdicts)] /\ UNCHANGED fresh
             ELSE fresh' = [fresh EXCEPT ![t] = JudgedAs(fresh[t], verdicts)] /\ UNCHANGED groups
        BY <1>0, <1>8 DEF ReJudge, VerificationTypeOK
    <2>2. NewGroups[t] = IF fresh[t] = Alias THEN groups[t] ELSE fresh[t]
        BY DEF NewGroups
    <2>3. VerificationTypeOK'
        <3>1. CASE fresh[t] = Alias
            <4>1. GroupsFor(t, JudgedAs(groups[t], verdicts))
                BY <1>0, <2>1, <2>2, <3>1, JudgedGroups DEF VerificationTypeOK
            <4> QED BY <1>0, <1>8, <2>1, <3>1, <4>1 DEF ReJudge, VerificationTypeOK
        <3>2. CASE fresh[t] # Alias
            <4>1. GroupsFor(t, JudgedAs(fresh[t], verdicts))
                BY <1>0, <2>1, <2>2, <3>2, JudgedGroups DEF VerificationTypeOK
            <4> QED BY <1>0, <1>8, <2>1, <3>2, <4>1 DEF ReJudge, VerificationTypeOK
        <3> QED BY <3>1, <3>2
    <2>4. RepairingInv'
        BY <1>8, NothingRepairing DEF ReJudge, RepairingInv
    <2> QED BY <2>3, <2>4 DEF VerificationInv
<1>9. CASE StartReJudge
    BY <1>0, <1>9 DEF StartReJudge, VerificationInv, VerificationTypeOK, RepairingInv, Failing, Stages
<1>10. CASE Decide
    <2>1. DOMAIN NewGroups = Task /\ \A t \in Task : GroupsFor(t, NewGroups[t])
        BY <1>0 DEF NewGroups, VerificationTypeOK
    <2>2. fresh' = [t \in Task |-> <<>>] /\ DOMAIN groups' = Task /\ \A t \in Task : GroupsFor(t, groups'[t])
        BY <1>0, <1>10, <2>1 DEF Decide, NoFresh, VerificationTypeOK
    <2>3. VerificationTypeOK'
        BY <1>0, <1>10, <2>2, NoGroups DEF Decide, VerificationTypeOK, Stages
    <2>4. RepairingInv'
        BY <1>10, NothingRepairing DEF Decide, RepairingInv
    <2> QED BY <2>3, <2>4 DEF VerificationInv
<1>11. CASE EscalationTimesOut
    <2>1. fresh' = [t \in Task |-> <<>>]
        BY <1>11 DEF EscalationTimesOut, NoFresh
    <2>2. VerificationTypeOK'
        BY <1>0, <1>11, <2>1, NoGroups DEF EscalationTimesOut, VerificationTypeOK, Stages
    <2>3. RepairingInv'
        BY <1>11, NothingRepairing DEF EscalationTimesOut, RepairingInv
    <2> QED BY <2>2, <2>3 DEF VerificationInv
<1>12. CASE UNCHANGED vars
    BY <1>0, <1>12 DEF vars, VerificationInv, VerificationTypeOK, RepairingInv, Failing
<1> QED BY <1>1, <1>2, <1>3, <1>4, <1>5, <1>6, <1>7, <1>8, <1>9, <1>10, <1>11, <1>12 DEF Next

\* The stage, the groups and the counters keep their types, and only fields that
\* fail are being repaired, in the repair stage.
THEOREM VerificationSafe == Spec => []VerificationInv
BY VerificationInit, VerificationStep, PTL DEF Spec

-----------------------------------------------------------------------------
(* What a stage may do to the groups *)

\* Only a repair that ends writes groups as long as the repair stage runs.
LEMMA RepairStageGroups ==
    ASSUME VerificationInv, Next, stage = "repair"
    PROVE  groups' = groups \/ \E t \in Task : RepairEnds(t)
BY DEF Next, StartJudge, StartRepair, RepairInTime, RepairTimesOut, RepairOver, StartReJudge, Decide,
       EscalationTimesOut, JudgeOne, JudgeRaises, NothingFails, SkipRepair, StartRepairing,
       RepairRaises, ReExtract, ReExtractRaises, ReJudge, ReJudgeRaises

\* What RepairIsMonotonic says of one step.
KeepsRepairMonotonic ==
    stage = "repair" =>
        \A t \in Task :
            /\ DOMAIN groups'[t] = DOMAIN groups[t]
            /\ \A f \in DOMAIN groups[t] : groups'[t][f] # groups[t][f] =>
                  /\ Fails(groups[t][f]) /\ ~Fails(groups'[t][f])
                  /\ ~groups'[t][f].null
                  /\ Judging => groups'[t][f].verdict = "pass"

LEMMA MonotonicStep == VerificationInv /\ [Next]_vars => KeepsRepairMonotonic
<1> SUFFICES ASSUME VerificationInv, [Next]_vars, stage = "repair", NEW u \in Task
             PROVE  /\ DOMAIN groups'[u] = DOMAIN groups[u]
                    /\ \A f \in DOMAIN groups[u] : groups'[u][f] # groups[u][f] =>
                          /\ Fails(groups[u][f]) /\ ~Fails(groups'[u][f])
                          /\ ~groups'[u][f].null
                          /\ Judging => groups'[u][f].verdict = "pass"
    BY DEF KeepsRepairMonotonic
<1>1. CASE groups' = groups
    BY <1>1
<1>2. ASSUME NEW t \in Task, RepairEnds(t)
      PROVE  /\ DOMAIN groups'[u] = DOMAIN groups[u]
             /\ \A f \in DOMAIN groups[u] : groups'[u][f] # groups[u][f] =>
                   /\ Fails(groups[u][f]) /\ ~Fails(groups'[u][f])
                   /\ ~groups'[u][f].null
                   /\ Judging => groups'[u][f].verdict = "pass"
    <2>1. CASE u # t
        <3>1. groups'[u] = groups[u]
            BY <1>2, <2>1, RepairEffect
        <3> QED BY <3>1
    <2>2. CASE u = t
        <3>1. DOMAIN groups'[t] = DOMAIN groups[t]
            BY <1>2, RepairEffect
        <3>2. PICK accepted \in SUBSET repairing[t] :
                 /\ \A f \in accepted : groups'[t][f] \in Candidates /\ IsClean(groups'[t][f])
                 /\ \A f \in DOMAIN groups[t] \ accepted : groups'[t][f] = groups[t][f]
            BY <1>2, RepairEffect
        <3>3. \A f \in accepted : Fails(groups[t][f])
            BY DEF VerificationInv, RepairingInv, Failing
        <3>4. \A f \in accepted : /\ ~Fails(groups'[t][f]) /\ ~groups'[t][f].null
                                  /\ Judging => groups'[t][f].verdict = "pass"
            BY <3>2 DEF IsClean, Fails
        <3> QED BY <2>2, <3>1, <3>2, <3>3, <3>4
    <2> QED BY <2>1, <2>2
<1>3. CASE Next
    BY <1>1, <1>2, <1>3, RepairStageGroups
<1> QED BY <1>1, <1>3 DEF vars

\* Repair never makes a field worse: what it replaces was failing, and what it
\* puts there is not null, does not fail and, with the judge on, was passed
\* (FieldRepairer._repair_one accepts a candidate only when _is_clean says so).
THEOREM RepairNeverWorsens == Spec => RepairIsMonotonic
<1>1. Spec => [][KeepsRepairMonotonic]_vars
    BY VerificationSafe, MonotonicStep, PTL DEF Spec
<1> QED BY <1>1 DEF RepairIsMonotonic, KeepsRepairMonotonic

\* What OnlyAcceptedReplaces says of one step.
KeepsRejected ==
    escalation' # "accepted" /\ stage \in {"reextract", "rejudge"} =>
        \A t \in Task :
            /\ DOMAIN groups'[t] = DOMAIN groups[t]
            /\ \A f \in DOMAIN groups[t] :
                  [groups'[t][f] EXCEPT !.verdict = groups[t][f].verdict] = groups[t][f]

\* A step that keeps the groups keeps every value of theirs.
LEMMA SameGroups ==
    ASSUME VerificationInv, NEW t \in Task, NEW f \in DOMAIN groups[t]
    PROVE  [groups[t][f] EXCEPT !.verdict = groups[t][f].verdict] = groups[t][f]
<1>1. groups[t][f] \in ExtractedField
    BY DEF VerificationInv, VerificationTypeOK, GroupsFor
<1> QED BY <1>1 DEF ExtractedField

\* A re-judge job writes verdicts and nothing else, through the alias too.
LEMMA ReJudgeWrites ==
    ASSUME VerificationInv, NEW u \in Task, ReJudge(u), NEW t \in Task
    PROVE  /\ DOMAIN groups'[t] = DOMAIN groups[t]
           /\ \A f \in DOMAIN groups[t] :
                 [groups'[t][f] EXCEPT !.verdict = groups[t][f].verdict] = groups[t][f]
<1>0. VerificationTypeOK
    BY DEF VerificationInv
<1>1. CASE groups' = groups
    BY <1>1, SameGroups
<1>2. CASE fresh[u] = Alias
    <2>1. DOMAIN NewGroups[u] = DOMAIN groups[u]
        BY <1>2 DEF NewGroups
    <2>2. PICK verdicts \in [DOMAIN groups[u] -> Verdicts] :
             groups' = [groups EXCEPT ![u] = JudgedAs(groups[u], verdicts)]
        BY <1>0, <1>2, <2>1 DEF ReJudge, VerificationTypeOK
    <2>3. CASE t = u
        <3>1. groups'[t] = JudgedAs(groups[t], verdicts)
            BY <1>0, <2>2, <2>3 DEF VerificationTypeOK
        <3>2. GroupsFor(t, groups[t])
            BY <1>0 DEF VerificationTypeOK
        <3> QED BY <2>3, <3>1, <3>2, JudgedGroups
    <2>4. CASE t # u
        <3>1. groups'[t] = groups[t]
            BY <1>0, <2>2, <2>4 DEF VerificationTypeOK
        <3> QED BY <3>1, SameGroups
    <2> QED BY <2>3, <2>4
<1>3. CASE fresh[u] # Alias
    BY <1>1, <1>3 DEF ReJudge
<1> QED BY <1>2, <1>3

LEMMA RejectedStep == VerificationInv /\ [Next]_vars => KeepsRejected
<1> SUFFICES ASSUME VerificationInv, [Next]_vars, escalation' # "accepted",
                    stage \in {"reextract", "rejudge"}, NEW t \in Task
             PROVE  /\ DOMAIN groups'[t] = DOMAIN groups[t]
                    /\ \A f \in DOMAIN groups[t] :
                          [groups'[t][f] EXCEPT !.verdict = groups[t][f].verdict] = groups[t][f]
    BY DEF KeepsRejected
<1>1. CASE groups' = groups
    BY <1>1, SameGroups
<1>2. ASSUME NEW u \in Task, ReJudge(u)
      PROVE  /\ DOMAIN groups'[t] = DOMAIN groups[t]
             /\ \A f \in DOMAIN groups[t] :
                   [groups'[t][f] EXCEPT !.verdict = groups[t][f].verdict] = groups[t][f]
    BY <1>2, ReJudgeWrites
<1>3. CASE Next
    <2>1. \A u \in Task : ~RepairEnds(u)
        BY NothingRepairing DEF RepairEnds
    <2>2. groups' = groups \/ \E u \in Task : ReJudge(u)
        BY <1>3, <2>1
           DEF Next, StartJudge, StartRepair, RepairInTime, RepairTimesOut, RepairOver, StartReJudge,
               Decide, EscalationTimesOut, JudgeOne, JudgeRaises, NothingFails, SkipRepair,
               StartRepairing, RepairRaises, ReExtract, ReExtractRaises, ReJudgeRaises
    <2> QED BY <1>1, <1>2, <2>2
<1> QED BY <1>1, <1>3 DEF vars

\* An escalation that is not accepted leaves every value as it was: its jobs
\* share the fields of a task whose re-extraction raised, and write verdicts
\* only (JudgeEscalator.maybe_escalate).
THEOREM RejectedLeavesValues == Spec => OnlyAcceptedReplaces
<1>1. Spec => [][KeepsRejected]_vars
    BY VerificationSafe, RejectedStep, PTL DEF Spec
<1> QED BY <1>1 DEF OnlyAcceptedReplaces, KeepsRejected

-----------------------------------------------------------------------------
(* What pipeline.repair counts *)

\* The flagged fields that still fail: those of the tasks that were counted.
Outstanding == {p \in AllFields : /\ p[1] \notin todo \/ repairing[p[1]] # {}
                                  /\ Fails(groups[p[1]][p[2]])}

RepairedFields == {p \in AllFields : groups[p[1]][p[2]].by = "repair"}

\* While repairs run every flagged field is repaired or still fails, and only a
\* task whose job has ended carries repaired values.
CountsInRepair ==
    /\ \A t \in Task : repairing[t] # {} => t \in todo
    /\ IF NeedsRepair
       THEN /\ counts.repaired = Cardinality(RepairedFields)
            /\ counts.flagged = Cardinality(RepairedFields) + Cardinality(Outstanding)
            /\ \A t \in todo : \A f \in DOMAIN groups[t] : groups[t][f].by # "repair"
       ELSE todo = {} /\ counts.flagged = 0

CountsInv ==
    /\ stage \in {"ready", "judge"} =>
          counts.flagged = 0 /\ counts.repaired = 0 /\ RepairedFields = {}
    /\ stage = "repair" => CountsInRepair
    /\ stage \in {"reextract", "rejudge"} => primary.total > 0
    /\ RepairInfoAddsUp

InfoInv == VerificationInv /\ CountsInv

LEMMA AllFieldsAre ==
    /\ \A t \in Task : \A f \in DOMAIN groups[t] : <<t, f>> \in AllFields
    /\ \A p \in AllFields : p[1] \in Task /\ p[2] \in DOMAIN groups[p[1]] /\ p = <<p[1], p[2]>>
BY DEF AllFields

LEMMA FieldsAreFinite ==
    ASSUME VerificationInv
    PROVE  \A S \in SUBSET AllFields : IsFiniteSet(S) /\ Cardinality(S) \in Nat
<1> DEFINE Sets == {FieldsOf[t] : t \in Task}
<1>1. FieldsOf \in Surjection(Task, Sets)
    BY VerificationAssumption DEF Surjection
<1>2. IsFiniteSet(Sets)
    BY <1>1, VerificationAssumption, FS_Surjection
<1>3. \A T \in Sets : IsFiniteSet(T)
    BY VerificationAssumption
<1> HIDE DEF Sets
<1>4. IsFiniteSet(UNION Sets)
    BY <1>2, <1>3, FS_UNION
<1>5. IsFiniteSet(Task \X UNION Sets)
    BY <1>4, VerificationAssumption, FS_Product
<1>6. \A t \in Task : DOMAIN groups[t] \subseteq UNION Sets
    BY DEF Sets, VerificationInv, VerificationTypeOK, GroupsFor
<1>7. AllFields \subseteq Task \X UNION Sets
    BY <1>6 DEF AllFields
<1>8. SUFFICES ASSUME NEW S \in SUBSET AllFields PROVE IsFiniteSet(S) /\ Cardinality(S) \in Nat
    OBVIOUS
<1>9. IsFiniteSet(S)
    BY <1>5, <1>7, <1>8, FS_Subset
<1> QED BY <1>9, FS_CardinalityType

\* Fields of a task that were not counted are counted one by one.
LEMMA AddFields ==
    ASSUME NEW S, IsFiniteSet(S), NEW t, NEW F, IsFiniteSet(F),
           \A f \in F : <<t, f>> \notin S,
           NEW T, T = S \cup ({t} \X F)
    PROVE  Cardinality(T) = Cardinality(S) + Cardinality(F)
<1> DEFINE P == {t} \X F
<1>1. IsFiniteSet({t}) /\ Cardinality({t}) = 1
    BY FS_Singleton
<1>2. IsFiniteSet(P) /\ Cardinality(P) = 1 * Cardinality(F)
    BY <1>1, FS_Product
<1>3. S \cap P = {} /\ Cardinality({}) = 0
    BY FS_EmptySet
<1> HIDE DEF P
<1>4. Cardinality(S) \in Nat /\ Cardinality(F) \in Nat
    BY FS_CardinalityType
<1>5. Cardinality(P) = Cardinality(F)
    BY <1>2, <1>4
<1>6. Cardinality(S \cup P) = Cardinality(S) + Cardinality(P) - Cardinality(S \cap P)
    BY <1>2, FS_Union
<1>7. Cardinality(S \cup P) = Cardinality(S) + Cardinality(F) - 0
    BY <1>3, <1>5, <1>6
<1>8. Cardinality(S \cup P) = Cardinality(S) + Cardinality(F)
    BY <1>4, <1>7
<1> QED BY <1>8 DEF P

LEMMA CountsInit == Init => CountsInv
<1> SUFFICES ASSUME Init PROVE CountsInv
    OBVIOUS
<1>1. \A t \in Task : \A f \in DOMAIN groups[t] : groups[t][f].by = "primary"
    BY DEF Init, PrimaryGroups, Extracted
<1>2. RepairedFields = {}
    BY <1>1, AllFieldsAre DEF RepairedFields
<1> QED BY <1>2 DEF Init, CountsInv, RepairInfoAddsUp

\* A task whose failures are counted, and which is repaired or skipped.
LEMMA CountedStep ==
    ASSUME InfoInv, NEW t \in Task, SkipRepair(t) \/ StartRepairing(t)
    PROVE  CountsInRepair'
<1> DEFINE F == Failing(t)
<1>0. VerificationTypeOK /\ CountsInRepair /\ stage = "repair" /\ t \in todo /\ repairing[t] = {}
    BY DEF InfoInv, VerificationInv, CountsInv, SkipRepair, StartRepairing
<1>1. NeedsRepair /\ NeedsRepair'
    BY <1>0 DEF CountsInRepair, NeedsRepair, Judging, Checked, SkipRepair, StartRepairing
<1>2. groups' = groups /\ AllFields' = AllFields /\ RepairedFields' = RepairedFields
    BY DEF SkipRepair, StartRepairing, AllFields, RepairedFields
<1>3. F \subseteq DOMAIN groups[t] /\ F # {}
    BY DEF Failing, SkipRepair, StartRepairing
<1>4. /\ counts' = [counts EXCEPT !.flagged = counts.flagged + Cardinality(F), !.skipped = counts'.skipped]
      /\ \A u \in Task \ {t} : (u \in todo' <=> u \in todo) /\ repairing'[u] = repairing[u]
      /\ t \notin todo' \/ repairing'[t] # {}
    BY <1>0, <1>3 DEF SkipRepair, StartRepairing, VerificationTypeOK, Counts
<1>5. Outstanding' = Outstanding \cup ({t} \X F)
    <2>1. ASSUME NEW p \in AllFields PROVE p \in Outstanding' <=> p \in Outstanding \cup ({t} \X F)
        <3>1. p[1] \in Task /\ p[2] \in DOMAIN groups[p[1]] /\ p = <<p[1], p[2]>>
            BY <2>1, AllFieldsAre
        <3>2. CASE p[1] = t
            BY <1>0, <1>2, <1>4, <2>1, <3>1, <3>2 DEF Outstanding, Failing
        <3>3. CASE p[1] # t
            BY <1>2, <1>4, <2>1, <3>1, <3>3 DEF Outstanding
        <3> QED BY <3>2, <3>3
    <2>2. \A p \in {t} \X F : p \in AllFields
        BY <1>3, AllFieldsAre
    <2> QED BY <1>2, <2>1, <2>2 DEF Outstanding
<1>6. \A f \in F : <<t, f>> \notin Outstanding
    BY <1>0 DEF Outstanding
<1>7. /\ IsFiniteSet(F) /\ IsFiniteSet(Outstanding)
      /\ Cardinality(F) \in Nat /\ Cardinality(Outstanding) \in Nat /\ Cardinality(RepairedFields) \in Nat
    BY <1>3, FailingCount, FieldsAreFinite DEF InfoInv, Outstanding, RepairedFields
<1> HIDE DEF F
<1>8. Cardinality(Outstanding') = Cardinality(Outstanding) + Cardinality(F)
    BY <1>5, <1>6, <1>7, AddFields
<1>9. counts'.repaired = counts.repaired /\ counts'.flagged = counts.flagged + Cardinality(F)
    BY <1>0, <1>4 DEF VerificationTypeOK, Counts
<1>10. counts'.flagged = Cardinality(RepairedFields') + Cardinality(Outstanding')
    <2>1. counts.flagged = Cardinality(RepairedFields) + Cardinality(Outstanding)
        BY <1>0, <1>1 DEF CountsInRepair
    <2> QED BY <1>2, <1>7, <1>8, <1>9, <2>1
<1>11. \A u \in todo' : \A f \in DOMAIN groups'[u] : groups'[u][f].by # "repair"
    BY <1>0, <1>1, <1>2 DEF CountsInRepair, SkipRepair, StartRepairing
<1>12. \A u \in Task : repairing'[u] # {} => u \in todo'
    BY <1>0, <1>1 DEF CountsInRepair, SkipRepair, StartRepairing, VerificationTypeOK
<1>13. counts'.repaired = Cardinality(RepairedFields')
    BY <1>0, <1>1, <1>2, <1>9 DEF CountsInRepair
<1> QED BY <1>1, <1>10, <1>11, <1>12, <1>13 DEF CountsInRepair

\* A repair that ends moves what it accepts from the one count to the other.
LEMMA RepairedStep ==
    ASSUME InfoInv, NEW t \in Task, RepairEnds(t)
    PROVE  CountsInRepair'
<1>0. /\ VerificationInv /\ VerificationTypeOK /\ RepairingInv
      /\ CountsInRepair /\ stage = "repair" /\ t \in todo /\ NeedsRepair /\ NeedsRepair'
    <2>1. VerificationInv /\ VerificationTypeOK /\ RepairingInv
        BY DEF InfoInv, VerificationInv
    <2>2. repairing[t] # {} /\ UNCHANGED stages
        BY DEF RepairEnds
    <2>3. stage = "repair" /\ CountsInRepair
        BY <2>1, <2>2 DEF RepairingInv, InfoInv, CountsInv
    <2>4. \E f \in DOMAIN groups[t] : Fails(groups[t][f])
        BY <2>1, <2>2 DEF RepairingInv, Failing
    <2>5. NeedsRepair /\ t \in todo
        BY <2>1, <2>2, <2>3 DEF CountsInRepair
    <2>6. NeedsRepair'
        BY <2>2, <2>5 DEF NeedsRepair, Judging, Checked
    <2> QED BY <2>1, <2>3, <2>5, <2>6
<1>1. /\ \A u \in Task \ {t} : groups'[u] = groups[u]
      /\ DOMAIN groups'[t] = DOMAIN groups[t]
    BY <1>0, RepairEffect
<1>2. PICK accepted \in SUBSET repairing[t] :
         /\ \A f \in accepted : groups'[t][f] \in Candidates /\ IsClean(groups'[t][f])
         /\ \A f \in DOMAIN groups[t] \ accepted : groups'[t][f] = groups[t][f]
         /\ counts' = [counts EXCEPT !.repaired = counts.repaired + Cardinality(accepted)]
    BY <1>0, RepairEffect
<1>3. accepted \subseteq DOMAIN groups[t] /\ \A f \in accepted : Fails(groups[t][f])
    BY <1>0 DEF RepairingInv, Failing
<1>4. AllFields' = AllFields
    BY <1>1 DEF AllFields
<1>5. \A f \in accepted : ~Fails(groups'[t][f]) /\ groups'[t][f].by = "repair"
    BY <1>2 DEF IsClean, Fails, Candidates
<1>6. /\ todo' = todo \ {t} /\ repairing' = [repairing EXCEPT ![t] = {}] /\ repairing[t] # {}
      /\ \A u \in Task \ {t} : repairing'[u] = repairing[u]
    BY <1>0 DEF RepairEnds, VerificationTypeOK
<1>7. Outstanding = Outstanding' \cup ({t} \X accepted)
    <2>1. ASSUME NEW p \in AllFields
          PROVE  p \in Outstanding <=> p \in Outstanding' \cup ({t} \X accepted)
        <3>1. p[1] \in Task /\ p[2] \in DOMAIN groups[p[1]] /\ p = <<p[1], p[2]>>
            BY <2>1, AllFieldsAre
        <3>2. CASE p[1] = t
            <4>1. CASE p[2] \in accepted
                BY <1>3, <1>6, <2>1, <3>1, <3>2, <4>1 DEF Outstanding
            <4>2. CASE p[2] \notin accepted
                <5>1. groups'[t][p[2]] = groups[t][p[2]]
                    BY <1>2, <3>1, <3>2, <4>2
                <5> QED BY <1>4, <1>6, <2>1, <3>1, <3>2, <4>2, <5>1 DEF Outstanding
            <4> QED BY <4>1, <4>2
        <3>3. CASE p[1] # t
            BY <1>1, <1>4, <1>6, <2>1, <3>1, <3>3 DEF Outstanding
        <3> QED BY <3>2, <3>3
    <2>2. \A p \in {t} \X accepted : p \in AllFields
        BY <1>3, AllFieldsAre
    <2> QED BY <1>4, <2>1, <2>2 DEF Outstanding
<1>8. RepairedFields' = RepairedFields \cup ({t} \X accepted)
    <2>1. ASSUME NEW p \in AllFields
          PROVE  p \in RepairedFields' <=> p \in RepairedFields \cup ({t} \X accepted)
        <3>1. p[1] \in Task /\ p[2] \in DOMAIN groups[p[1]] /\ p = <<p[1], p[2]>>
            BY <2>1, AllFieldsAre
        <3>2. CASE p[1] = t
            <4>1. CASE p[2] \in accepted
                BY <1>4, <1>5, <2>1, <3>1, <3>2, <4>1 DEF RepairedFields
            <4>2. CASE p[2] \notin accepted
                <5>1. groups'[t][p[2]] = groups[t][p[2]]
                    BY <1>2, <3>1, <3>2, <4>2
                <5> QED BY <1>4, <2>1, <3>1, <3>2, <4>2, <5>1 DEF RepairedFields
            <4> QED BY <4>1, <4>2
        <3>3. CASE p[1] # t
            BY <1>1, <1>4, <2>1, <3>1, <3>3 DEF RepairedFields
        <3> QED BY <3>2, <3>3
    <2>2. \A p \in {t} \X accepted : p \in AllFields
        BY <1>3, AllFieldsAre
    <2> QED BY <1>4, <2>1, <2>2 DEF RepairedFields
<1>9. \A f \in accepted : <<t, f>> \notin Outstanding' /\ <<t, f>> \notin RepairedFields
    <2>1. \A f \in accepted : <<t, f>> \notin Outstanding'
        BY <1>5 DEF Outstanding
    <2>2. \A f \in DOMAIN groups[t] : groups[t][f].by # "repair"
        BY <1>0 DEF CountsInRepair
    <2> QED BY <1>3, <2>1, <2>2 DEF RepairedFields
<1>10. /\ IsFiniteSet(accepted) /\ IsFiniteSet(Outstanding') /\ IsFiniteSet(RepairedFields)
       /\ Cardinality(accepted) \in Nat /\ Cardinality(Outstanding') \in Nat
       /\ Cardinality(Outstanding) \in Nat /\ Cardinality(RepairedFields) \in Nat
    BY <1>0, <1>3, <1>4, FailingCount, FieldsAreFinite DEF Outstanding, RepairedFields
<1>11. Cardinality(Outstanding) = Cardinality(Outstanding') + Cardinality(accepted)
    BY <1>7, <1>9, <1>10, AddFields
<1>12. Cardinality(RepairedFields') = Cardinality(RepairedFields) + Cardinality(accepted)
    BY <1>8, <1>9, <1>10, AddFields
<1>13. counts'.flagged = counts.flagged /\ counts'.repaired = counts.repaired + Cardinality(accepted)
    BY <1>0, <1>2 DEF VerificationTypeOK, Counts
<1>14. /\ counts.repaired = Cardinality(RepairedFields)
       /\ counts.flagged = Cardinality(RepairedFields) + Cardinality(Outstanding)
    BY <1>0 DEF CountsInRepair
<1>15. /\ counts'.repaired = Cardinality(RepairedFields')
       /\ counts'.flagged = Cardinality(RepairedFields') + Cardinality(Outstanding')
    BY <1>10, <1>11, <1>12, <1>13, <1>14
<1>16. \A u \in todo' : \A f \in DOMAIN groups'[u] : groups'[u][f].by # "repair"
    BY <1>0, <1>1, <1>6 DEF CountsInRepair, VerificationTypeOK
<1>17. \A u \in Task : repairing'[u] # {} => u \in todo'
    BY <1>0, <1>6 DEF CountsInRepair, VerificationTypeOK
<1> QED BY <1>0, <1>15, <1>16, <1>17 DEF CountsInRepair

\* A job that ends without a candidate leaves both counts as they were.
LEMMA UncountedStep ==
    ASSUME InfoInv, NEW t \in Task, NothingFails(t) \/ RepairRaises(t)
    PROVE  CountsInRepair'
<1>0. VerificationInv /\ VerificationTypeOK /\ RepairingInv
    BY DEF InfoInv, VerificationInv
<1>1. stage = "repair" /\ CountsInRepair
    BY <1>0 DEF InfoInv, CountsInv, RepairingInv, NothingFails, RepairRaises
<1>2. /\ UNCHANGED <<stages, groups, counts>> /\ todo' = todo \ {t}
      /\ \A u \in Task \ {t} : repairing'[u] = repairing[u]
      /\ repairing'[t] = {}
      /\ t \in todo
    BY <1>0, <1>1 DEF NothingFails, RepairRaises, VerificationTypeOK, CountsInRepair
<1>3. NeedsRepair /\ NeedsRepair'
    BY <1>1, <1>2 DEF CountsInRepair, NeedsRepair, Judging, Checked
<1>4. AllFields' = AllFields /\ RepairedFields' = RepairedFields
    BY <1>2 DEF AllFields, RepairedFields
<1>5. repairing[t] # {} \/ \A f \in DOMAIN groups[t] : ~Fails(groups[t][f])
    BY DEF NothingFails, RepairRaises, Failing
<1>6. Outstanding' = Outstanding
    <2>1. ASSUME NEW p \in AllFields PROVE p \in Outstanding' <=> p \in Outstanding
        <3>1. p[1] \in Task /\ p[2] \in DOMAIN groups[p[1]]
            BY <2>1, AllFieldsAre
        <3>2. CASE p[1] = t
            BY <1>2, <1>4, <1>5, <2>1, <3>1, <3>2 DEF Outstanding
        <3>3. CASE p[1] # t
            BY <1>2, <1>4, <2>1, <3>1, <3>3 DEF Outstanding
        <3> QED BY <3>2, <3>3
    <2> QED BY <1>4, <2>1 DEF Outstanding
<1>7. \A u \in Task : repairing'[u] # {} => u \in todo'
    BY <1>1, <1>2 DEF CountsInRepair
<1> QED BY <1>1, <1>2, <1>3, <1>4, <1>6, <1>7 DEF CountsInRepair

\* The counts say it all once every job has ended.
LEMMA RepairOverStep ==
    ASSUME InfoInv, RepairInTime \/ RepairTimesOut
    PROVE  CountsInv'
<1>0. VerificationInv /\ VerificationTypeOK /\ RepairingInv /\ stage = "repair" /\ CountsInRepair
    BY DEF InfoInv, VerificationInv, CountsInv, RepairInTime, RepairTimesOut, RepairOver
<1>1. stage' \in {"reextract", "done"}
    BY DEF RepairInTime, RepairTimesOut, RepairOver
<1>2. stage' = "reextract" => primary'.total > 0
    BY DEF RepairInTime, RepairTimesOut, RepairOver, Triggered
<1>3. RepairInfoAddsUp'
    <2>1. SUFFICES ASSUME repairInfo' # None
                   PROVE  /\ repairInfo'.repaired = Cardinality(RepairedFields')
                          /\ repairInfo'.flagged - repairInfo'.repaired =
                                Cardinality({p \in AllFields' : Fails(groups'[p[1]][p[2]])})
        BY DEF RepairInfoAddsUp, RepairedFields
    <2>2. todo = {} /\ repairInfo' = counts /\ counts.flagged > 0 /\ groups' = groups
        BY <2>1 DEF RepairInTime, RepairTimesOut, RepairOver
    <2>3. /\ counts.repaired = Cardinality(RepairedFields)
          /\ counts.flagged = Cardinality(RepairedFields) + Cardinality(Outstanding)
        <3>1. counts.flagged # 0
            BY <1>0, <2>2 DEF VerificationTypeOK, Counts
        <3> QED BY <1>0, <3>1 DEF CountsInRepair
    <2>4. RepairedFields' = RepairedFields /\ AllFields' = AllFields
        BY <2>2 DEF RepairedFields, AllFields
    <2>5. Outstanding = {p \in AllFields' : Fails(groups'[p[1]][p[2]])}
        BY <2>2, <2>4 DEF Outstanding
    <2>6. Cardinality(RepairedFields) \in Nat /\ Cardinality(Outstanding) \in Nat
        BY <1>0, FieldsAreFinite DEF RepairedFields, Outstanding
    <2>7. counts.flagged - counts.repaired = Cardinality(Outstanding)
        BY <2>3, <2>6
    <2> QED BY <2>2, <2>3, <2>4, <2>5, <2>7
<1> QED BY <1>1, <1>2, <1>3 DEF CountsInv

LEMMA InfoStep == InfoInv /\ [Next]_vars => InfoInv'
<1> SUFFICES ASSUME InfoInv, [Next]_vars PROVE CountsInv'
    BY VerificationStep DEF InfoInv
<1>0. VerificationInv /\ VerificationTypeOK /\ RepairingInv /\ CountsInv
    BY DEF InfoInv, VerificationInv
<1>1. CASE StartJudge
    BY <1>0, <1>1 DEF StartJudge, CountsInv, RepairInfoAddsUp, RepairedFields, AllFields
<1>2. ASSUME NEW t \in Task, JudgeOne(t) PROVE CountsInv'
    <2>1. PICK verdicts \in [DOMAIN groups[t] -> Verdicts] :
             groups' = [groups EXCEPT ![t] = JudgedAs(groups[t], verdicts)]
        BY <1>0, <1>2 DEF JudgeOne, VerificationTypeOK
    <2>2. ASSUME NEW u \in Task
          PROVE  DOMAIN groups'[u] = DOMAIN groups[u]
                 /\ \A f \in DOMAIN groups[u] : groups'[u][f].by = groups[u][f].by
        <3>1. CASE u = t
            <4>1. groups'[t] = JudgedAs(groups[t], verdicts)
                BY <1>0, <2>1 DEF VerificationTypeOK
            <4>2. \A f \in DOMAIN groups[t] : groups[t][f] \in ExtractedField
                BY <1>0 DEF VerificationTypeOK, GroupsFor
            <4> QED BY <3>1, <4>1, <4>2 DEF JudgedAs, ExtractedField
        <3>2. CASE u # t
            BY <1>0, <2>1, <3>2 DEF VerificationTypeOK
        <3> QED BY <3>1, <3>2
    <2>3. AllFields' = AllFields
        BY <2>2 DEF AllFields
    <2>4. RepairedFields' = {}
        <3>1. stage = "judge" /\ RepairedFields = {}
            BY <1>0, <1>2 DEF CountsInv, JudgeOne
        <3>2. \A p \in AllFields : groups[p[1]][p[2]].by # "repair"
            BY <3>1 DEF RepairedFields
        <3>3. \A p \in AllFields : groups'[p[1]][p[2]].by # "repair"
            BY <2>2, <3>2, AllFieldsAre
        <3> QED BY <2>3, <3>3 DEF RepairedFields
    <2> QED BY <1>0, <1>2, <2>4 DEF JudgeOne, CountsInv, RepairInfoAddsUp
<1>3. ASSUME NEW t \in Task, JudgeRaises(t) PROVE CountsInv'
    BY <1>0, <1>3 DEF JudgeRaises, CountsInv, RepairInfoAddsUp, RepairedFields, AllFields
<1>4. CASE StartRepair
    <2>1. /\ stage = "judge" /\ RepairedFields = {} /\ counts.flagged = 0 /\ counts.repaired = 0
          /\ \A t \in Task : repairing[t] = {}
        BY <1>0, <1>4 DEF StartRepair, CountsInv, RepairingInv
    <2>2. /\ UNCHANGED <<stages, groups, repairing, counts>> /\ stage' = "repair"
          /\ todo' = IF NeedsRepair THEN Task ELSE {}
        BY <1>4 DEF StartRepair
    <2>3. AllFields' = AllFields /\ RepairedFields' = {} /\ (NeedsRepair' <=> NeedsRepair)
        BY <2>1, <2>2 DEF AllFields, RepairedFields, NeedsRepair, Judging, Checked
    <2>4. CASE NeedsRepair
        <3>1. Outstanding' = {}
            BY <2>1, <2>2, <2>3, <2>4, AllFieldsAre DEF Outstanding
        <3>2. \A t \in Task : \A f \in DOMAIN groups[t] : groups[t][f].by # "repair"
            BY <2>1, AllFieldsAre DEF RepairedFields
        <3>3. CountsInRepair'
            BY <2>1, <2>2, <2>3, <2>4, <3>1, <3>2, FS_EmptySet DEF CountsInRepair
        <3> QED BY <2>2, <3>3 DEF CountsInv, RepairInfoAddsUp
    <2>5. CASE ~NeedsRepair
        <3>1. CountsInRepair'
            BY <2>1, <2>2, <2>3, <2>5 DEF CountsInRepair
        <3> QED BY <2>2, <3>1 DEF CountsInv, RepairInfoAddsUp
    <2> QED BY <2>4, <2>5
<1>5. ASSUME NEW t \in Task,
             NothingFails(t) \/ SkipRepair(t) \/ StartRepairing(t) \/ RepairEnds(t) \/ RepairRaises(t)
      PROVE  CountsInv'
    <2>1. CountsInRepair'
        BY <1>5, CountedStep, RepairedStep, UncountedStep
    <2>2. stage = "repair" /\ stage' = stage
        BY <1>0, <1>5
           DEF RepairingInv, NothingFails, SkipRepair, StartRepairing, RepairEnds, RepairRaises
    <2> QED BY <2>1, <2>2 DEF CountsInv, RepairInfoAddsUp
<1>6. CASE RepairInTime \/ RepairTimesOut
    BY <1>6, RepairOverStep
<1>7. ASSUME NEW t \in Task, ReExtract(t) \/ ReExtractRaises(t) PROVE CountsInv'
    <2>1. stage = "reextract" /\ UNCHANGED <<groups, stage, repairInfo, primary>>
        BY <1>7 DEF ReExtract, ReExtractRaises
    <2>2. AllFields' = AllFields
        BY <2>1 DEF AllFields
    <2>3. RepairInfoAddsUp'
        BY <1>0, <2>1, <2>2 DEF CountsInv, RepairInfoAddsUp
    <2> QED BY <1>0, <2>1, <2>3 DEF CountsInv
<1>8. CASE StartReJudge \/ \E t \in Task : ReJudge(t) \/ ReJudgeRaises(t)
    <2>1. stage \in {"reextract", "rejudge"} /\ stage' = "rejudge" /\ primary' = primary
        BY <1>8 DEF StartReJudge, ReJudge, ReJudgeRaises
    <2>2. primary'.total > 0
        BY <1>0, <2>1 DEF CountsInv
    <2> QED BY <2>1, <2>2 DEF CountsInv, RepairInfoAddsUp
<1>9. CASE Decide \/ EscalationTimesOut
    <2>1. stage \in {"reextract", "rejudge"} /\ stage' = "done" /\ primary' = primary
        BY <1>9 DEF Decide, EscalationTimesOut
    <2>2. primary'.total # 0
        BY <1>0, <2>1 DEF CountsInv
    <2> QED BY <2>1, <2>2 DEF CountsInv, RepairInfoAddsUp
<1>10. CASE UNCHANGED vars
    <2>1. /\ AllFields' = AllFields /\ RepairedFields' = RepairedFields /\ Outstanding' = Outstanding
          /\ (NeedsRepair' <=> NeedsRepair) /\ UNCHANGED vars
        BY <1>10 DEF vars, RepairedFields, Outstanding, AllFields, NeedsRepair, Judging, Checked
    <2>2. CountsInRepair => CountsInRepair'
        BY <2>1 DEF vars, CountsInRepair
    <2>3. RepairInfoAddsUp => RepairInfoAddsUp'
        BY <2>1 DEF vars, RepairInfoAddsUp
    <2> QED BY <1>0, <2>1, <2>2, <2>3 DEF vars, CountsInv
<1> QED BY <1>1, <1>2, <1>3, <1>4, <1>5, <1>6, <1>7, <1>8, <1>9, <1>10 DEF Next

\* pipeline.repair tells the truth, however many tasks are repaired at the same
\* time and whichever of them raise: what it counts as repaired carries a
\* repaired value, and the rest of what it flagged still fails
\* (FieldRepairer.repair and the counters its jobs share).
THEOREM RepairInfoIsTrue == Spec => []RepairInfoAddsUp
<1>1. Init => InfoInv
    BY VerificationInit, CountsInit DEF InfoInv
<1>2. InfoInv => RepairInfoAddsUp
    BY DEF InfoInv, CountsInv
<1> QED BY <1>1, <1>2, InfoStep, PTL DEF Spec
=============================================================================
