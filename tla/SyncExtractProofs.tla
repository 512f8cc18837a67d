-------------------------- MODULE SyncExtractProofs ---------------------------
(***************************************************************************)
(* Proofs about the synchronous endpoint, for any requests, answers of the *)
(* models and number of files, rows and rules: what the validator has      *)
(* accepted can be evaluated, a second extraction pass takes nothing back, *)
(* and what the transformations promise of the rows they make holds.       *)
(***************************************************************************)
EXTENDS SyncExtract, PositionLemmas, SequenceTheorems

-----------------------------------------------------------------------------
(* What the validator has seen to *)

LEMMA RequestShape ==
    ASSUME NEW r \in Requests
    PROVE  /\ r.docs \in Seq(ToSet(r.docs)) /\ r.rules \in Seq(ToSet(r.rules))
           /\ \A d \in ToSet(r.docs) : d.groups \in Seq(ToSet(d.groups))
           /\ DOMAIN r.files \subseteq Task /\ \A t \in DOMAIN r.files : r.files[t].pin # None
           /\ \A rule \in ToSet(r.rules) : \A p \in rule.fields \cup rule.checks : p = <<p[1], p[2]>>
BY SyncAssumption

\* The last of a list that carries an id is the only one.
LEMMA OnlyNamed ==
    ASSUME NEW list, list \in Seq(ToSet(list)), ~Repeats([k \in DOMAIN list |-> list[k].id]),
           NEW id \in Ids(list), NEW j,
           j = CHOOSE k \in DOMAIN list :
                 list[k].id = id /\ \A i \in DOMAIN list : list[i].id = id => i <= k
    PROVE  /\ j \in DOMAIN list /\ list[j] \in ToSet(list) /\ list[j].id = id
           /\ \A i \in DOMAIN list : list[i].id = id => i = j
<1>1. DOMAIN list = 1 .. Len(list) /\ Len(list) \in Nat
    OBVIOUS
<1>2. ASSUME NEW i \in DOMAIN list, NEW k \in DOMAIN list, list[i].id = list[k].id PROVE i = k
    <2>1. ~(i < k) /\ ~(k < i)
        BY <1>2 DEF Repeats
    <2> QED BY <1>1, <2>1
<1>3. PICK k \in DOMAIN list : list[k].id = id
    BY DEF Ids
<1>4. ASSUME NEW i \in DOMAIN list, list[i].id = id PROVE i <= k
    <2>1. i = k
        BY <1>2, <1>3, <1>4
    <2> QED BY <1>1, <2>1
<1>5. j \in DOMAIN list /\ list[j].id = id
    BY <1>3, <1>4
<1> QED BY <1>2, <1>5 DEF ToSet

\* What a request without errors is like, as far as the stages rely on it
Sound(r) ==
    /\ \A t \in DOMAIN r.files : r.files[t].pin \in Ids(r.docs)
    /\ \A d \in ToSet(r.docs) : ~SharesName(d)
    /\ ~Repeats([k \in DOMAIN r.docs |-> r.docs[k].id])
    /\ ~Repeats([k \in DOMAIN r.rules |-> r.rules[k].id])
    /\ \A rule \in ToSet(r.rules) :
         /\ rule.parents \subseteq Ids(r.rules)
         /\ \A p \in rule.fields : p[1] \in Ids(r.docs) /\ p[2] \in FieldNames(DocNamed(r, p[1]))
         /\ \A p \in rule.checks : p[1] \in Ids(r.docs) /\ p[2] \in DocNamed(r, p[1]).checks
    /\ ~HasCycle(r)

LEMMA AcceptedIsSound ==
    ASSUME NEW r \in Requests, Errors(r) = {}
    PROVE  Sound(r)
<1>1. CheckFiles(r) = {} /\ CheckDocumentTypes(r) = {} /\ CheckRuleReferences(r) = {} /\ CheckRuleDag(r) = {}
    BY DEF Errors
<1>2. \A t \in DOMAIN r.files : r.files[t].pin \in Ids(r.docs)
    BY <1>1, RequestShape DEF CheckFiles
<1>3. /\ \A d \in ToSet(r.docs) : ~SharesName(d)
      /\ ~Repeats([k \in DOMAIN r.docs |-> r.docs[k].id])
    <2> DEFINE docs == ToSet(r.docs)
               full == {d \in docs : d.groups # <<>>}
    <2>1. /\ {c \in {"empty_field_groups"} : full # docs} = {}
          /\ {c \in {"duplicate_field_name"} : \E d \in full : SharesName(d)} = {}
          /\ {c \in {"duplicate_document_type"} : Repeats([k \in DOMAIN r.docs |-> r.docs[k].id])} = {}
        BY <1>1 DEF CheckDocumentTypes
    <2> QED BY <2>1
<1>4. /\ ~Repeats([k \in DOMAIN r.rules |-> r.rules[k].id])
      /\ \A rule \in ToSet(r.rules) :
           /\ rule.parents \subseteq Ids(r.rules)
           /\ \A p \in rule.fields : p[1] \in Ids(r.docs) /\ p[2] \in FieldNames(DocNamed(r, p[1]))
           /\ \A p \in rule.checks : p[1] \in Ids(r.docs) /\ p[2] \in DocNamed(r, p[1]).checks
    <2> DEFINE rules == ToSet(r.rules)
               known(p) == p[1] \in Ids(r.docs)
    <2>1. /\ {c \in {"duplicate_rule_id"} : Repeats([k \in DOMAIN r.rules |-> r.rules[k].id])} = {}
          /\ {c \in {"rule_unknown_doctype"} :
                \E rule \in rules : \E p \in rule.fields \cup rule.checks : ~known(p)} = {}
          /\ {c \in {"rule_unknown_field"} : \E rule \in rules : \E p \in rule.fields :
                known(p) /\ p[2] \notin FieldNames(DocNamed(r, p[1]))} = {}
          /\ {c \in {"rule_unknown_validator"} : \E rule \in rules : \E p \in rule.checks :
                known(p) /\ p[2] \notin DocNamed(r, p[1]).checks} = {}
          /\ {c \in {"rule_unknown_parent"} : \E rule \in rules : ~ (rule.parents \subseteq Ids(r.rules))} = {}
        BY <1>1 DEF CheckRuleReferences
    <2> QED BY <2>1
<1>5. ~HasCycle(r)
    BY <1>1 DEF CheckRuleDag
<1> QED BY <1>2, <1>3, <1>4, <1>5 DEF Sound

LEMMA SoundDoc ==
    ASSUME NEW r \in Requests, Sound(r), NEW id \in Ids(r.docs)
    PROVE  DocNamed(r, id) \in ToSet(r.docs) /\ DocNamed(r, id).id = id
<1> DEFINE docs == r.docs
           j == CHOOSE k \in DOMAIN docs :
                  docs[k].id = id /\ \A i \in DOMAIN docs : docs[i].id = id => i <= k
<1>1. DocNamed(r, id) = docs[j]
    BY DEF DocNamed
<1>2. docs \in Seq(ToSet(docs)) /\ ~Repeats([k \in DOMAIN docs |-> docs[k].id]) /\ id \in Ids(docs)
    BY RequestShape DEF Sound
<1> HIDE DEF docs
<1>3. docs[j] \in ToSet(docs) /\ docs[j].id = id
    BY <1>2, OnlyNamed
<1> QED BY <1>1, <1>3 DEF docs

\* The edges of the graph are the parents that the rule of the id declares.
LEMMA SoundRule ==
    ASSUME NEW r \in Requests, Sound(r), NEW id \in Ids(r.rules)
    PROVE  /\ RuleNamed(r, id) \in ToSet(r.rules)
           /\ RuleParents(r, id) = RuleNamed(r, id).parents
<1> DEFINE rules == r.rules
           j == CHOOSE k \in DOMAIN rules :
                  rules[k].id = id /\ \A i \in DOMAIN rules : rules[i].id = id => i <= k
<1>1. RuleNamed(r, id) = rules[j]
    BY DEF RuleNamed
<1>2. RuleParents(r, id) = Ids(rules) \cap
                              UNION {rules[k].parents : k \in {i \in DOMAIN rules : rules[i].id = id}}
    BY DEF RuleParents
<1>3. /\ rules \in Seq(ToSet(rules)) /\ ~Repeats([k \in DOMAIN rules |-> rules[k].id]) /\ id \in Ids(rules)
      /\ \A rule \in ToSet(rules) : rule.parents \subseteq Ids(rules)
    BY RequestShape DEF Sound
<1>4. rules = r.rules
    OBVIOUS
<1> HIDE DEF rules
<1>5. /\ j \in DOMAIN rules /\ rules[j] \in ToSet(rules) /\ rules[j].id = id
      /\ \A i \in DOMAIN rules : rules[i].id = id => i = j
    BY <1>3, OnlyNamed
<1> HIDE DEF j
<1> DEFINE named == {i \in DOMAIN rules : rules[i].id = id}
           all == UNION {rules[k].parents : k \in named}
<1>6. named = {j}
    BY <1>5
<1> HIDE DEF named
<1>7. all = rules[j].parents
    BY <1>6
<1>8. RuleParents(r, id) = all \cap Ids(rules)
    BY <1>2 DEF named
<1> HIDE DEF all
<1> QED BY <1>1, <1>3, <1>4, <1>5, <1>7, <1>8

-----------------------------------------------------------------------------
(* The rule levels *)

\* A rule is worked off on one level, its parents on earlier ones; a result
\* carries the level it came with.
RulesInv ==
    /\ engine \in {"idle", "levels", "done", "failed"} /\ level \in Nat
    /\ engine = "idle" => RulesIdle
    /\ engine # "idle" => DOMAIN asked = Ids(req.rules) /\ DOMAIN shown = Ids(req.rules)
    /\ engine = "done" => worked = Ids(req.rules)
    /\ engine = "levels" => worked # Ids(req.rules)
    /\ worked \subseteq DOMAIN asked
    /\ \A r \in DOMAIN asked : r \notin worked => asked[r] = {}
    /\ \A r \in worked : \E i \in 1 .. level : asked[r] = {i}
    /\ \A r \in worked : \A p \in RuleParents(req, r) :
          p \in worked /\ \A i \in asked[p], j \in asked[r] : i < j
    /\ \A res \in results : res[2] \in Nat /\ res[2] <= level
    /\ ParentsShown(req)

\* What a rule was shown of the documents that are extracted and looked at
FieldsShown ==
    \A r \in worked :
        /\ \A p \in RuleNamed(req, r).fields :
             (\E t \in DOMAIN req.files : DocOf(t).id = p[1] /\ groups[t] # <<>>) => p \in shown[r].documents
        /\ \A p \in RuleNamed(req, r).checks :
             (\E t \in visual : DocOf(t).id = p[1]) => p \in shown[r].documents

LEMMA RulesStart ==
    ASSUME RulesInv, req.rules \in Seq(ToSet(req.rules)), ~HasCycle(req), StartRules(req), req' = req
    PROVE  RulesInv'
<1>1. /\ engine = "idle" /\ worked = {} /\ results = {} /\ level = 0
      /\ UNCHANGED <<worked, results, level>>
    BY DEF RulesInv, RulesIdle, StartRules
<1>2. /\ engine' = IF req.rules = <<>> THEN "done" ELSE "levels"
      /\ asked' = [r \in Ids(req.rules) |-> {}]
      /\ DOMAIN shown' = Ids(req.rules)
    BY DEF StartRules
<1>3. req.rules = <<>> <=> Ids(req.rules) = {}
    <2> DEFINE list == req.rules
    <2>1. list \in Seq(ToSet(list))
        OBVIOUS
    <2> HIDE DEF list
    <2>2. list # <<>> => 1 \in DOMAIN list
        BY <2>1
    <2>3. list = <<>> => DOMAIN list = {}
        OBVIOUS
    <2> QED BY <2>2, <2>3 DEF Ids, list
<1>4. ParentsShown(req)'
    BY <1>1 DEF ParentsShown
<1> QED BY <1>1, <1>2, <1>3, <1>4 DEF RulesInv

LEMMA LevelKeepsRules ==
    ASSUME RulesInv, NEW extracted, NEW checked, EvaluateLevel(req, extracted, checked), req' = req
    PROVE  RulesInv'
<1> DEFINE active == Ready(req)
           n == level + 1
           ids == Ids(req.rules)
<1>1. /\ engine = "levels" /\ level \in Nat /\ n \in Nat /\ level < n
      /\ DOMAIN asked = ids /\ DOMAIN shown = ids /\ worked \subseteq ids
    BY DEF RulesInv, EvaluateLevel
<1>2. /\ level' = n /\ worked' = worked \cup active
      /\ asked' = [r \in DOMAIN asked |-> IF r \in active THEN asked[r] \cup {n} ELSE asked[r]]
      /\ DOMAIN shown' = DOMAIN shown
      /\ \A r \in DOMAIN shown : r \notin active => shown'[r] = shown[r]
      /\ \A r \in active \cap DOMAIN shown :
           shown'[r].previous = {res \in results : UsedByAny(req, res[1], active)}
      /\ engine' = IF worked' = ids THEN "done" ELSE "levels"
    BY DEF EvaluateLevel
<1>3. PICK answered : results' = results \cup (answered \X {n})
    BY DEF EvaluateLevel
<1>4. active \subseteq ids /\ active \cap worked = {} /\ \A r \in active : RuleParents(req, r) \subseteq worked
    BY DEF Ready
<1> HIDE DEF active, n
<1>5. /\ \A r \in worked : asked'[r] = asked[r]
      /\ \A r \in active : asked'[r] = {n}
      /\ \A r \in ids \ worked' : asked'[r] = {}
    BY <1>1, <1>2, <1>4 DEF RulesInv
<1>6. \A r \in worked' : \E i \in 1 .. level' : asked'[r] = {i}
    <2>1. ASSUME NEW r \in worked PROVE \E i \in 1 .. level' : asked'[r] = {i}
        <3>1. PICK i \in 1 .. level : asked[r] = {i}
            BY DEF RulesInv
        <3> QED BY <1>1, <1>2, <1>5, <3>1
    <2>2. n \in 1 .. level'
        BY <1>1, <1>2
    <2> QED BY <1>2, <1>5, <2>1, <2>2
<1>7. ASSUME NEW r \in worked', NEW p \in RuleParents(req, r)
      PROVE  p \in worked' /\ \A i \in asked'[p], j \in asked'[r] : i < j
    <2>1. CASE r \in worked
        BY <1>2, <1>5, <1>7, <2>1 DEF RulesInv
    <2>2. CASE r \in active
        <3>1. p \in worked
            BY <1>4, <1>7, <2>2
        <3>2. PICK i \in 1 .. level : asked[p] = {i}
            BY <3>1 DEF RulesInv
        <3>3. asked'[p] = {i} /\ asked'[r] = {n}
            BY <1>5, <2>2, <3>1, <3>2
        <3>4. i < n
            BY <1>1, <3>2
        <3> QED BY <1>2, <3>1, <3>3, <3>4
    <2> QED BY <1>2, <2>1, <2>2
<1>8. \A res \in results' : res \in results \/ res[2] = n
    BY <1>3
<1>9. \A res \in results' : res[2] \in Nat /\ res[2] <= level'
    BY <1>1, <1>2, <1>8 DEF RulesInv
<1>10. ParentsShown(req)'
    <2> SUFFICES ASSUME NEW r \in DOMAIN asked', NEW j \in asked'[r], NEW res \in results',
                        res[1] \in RuleNamed(req, r).parents, res[2] < j
                 PROVE  res \in shown'[r].previous
        BY DEF ParentsShown
    <2>1. r \in worked'
        BY <1>1, <1>2, <1>5
    <2>2. PICK i \in 1 .. level' : asked'[r] = {i}
        BY <1>6, <2>1
    <2>3. j = i /\ j <= n
        BY <1>1, <1>2, <2>2
    <2>4. res \in results
        BY <1>1, <1>8, <2>3
    <2>5. CASE r \in worked
        BY <1>1, <1>2, <1>4, <1>5, <2>4, <2>5 DEF RulesInv, ParentsShown
    <2>6. CASE r \in active
        <3>1. UsedByAny(req, res[1], active)
            BY <2>6 DEF UsedByAny
        <3> QED BY <1>1, <1>2, <2>4, <2>6, <3>1
    <2> QED BY <1>2, <2>1, <2>5, <2>6
<1> QED BY <1>1, <1>2, <1>4, <1>5, <1>6, <1>7, <1>9, <1>10 DEF RulesInv

LEMMA RaisingKeepsRules ==
    ASSUME RulesInv, EvaluationRaises, req' = req
    PROVE  RulesInv'
<1>1. engine \in {"cycle", "levels"} /\ engine' = "failed" /\ results' = {}
      /\ UNCHANGED <<worked, level, asked, shown>>
    BY DEF EvaluationRaises
<1>2. ParentsShown(req)'
    BY <1>1 DEF ParentsShown
<1> QED BY <1>1, <1>2 DEF RulesInv

-----------------------------------------------------------------------------
(* Clusters of rows *)

\* What one pass of the loop of _dedupe_rows makes of the clusters.
Joined(rows, tr, n, cl) ==
    LET js == Joins(rows, cl, n, tr)
    IN  IF js = {} THEN Append(cl, <<n>>) ELSE [cl EXCEPT ![Min(js)] = Append(@, n)]

LEMMA JoinsAreClusters ==
    ASSUME NEW rows, NEW tr, NEW n, NEW cl
    PROVE  Joins(rows, cl, n, tr) \subseteq DOMAIN cl
BY DEF Joins

\* The m-th cluster has the row, the others are what they were.
Grown(cl, m, n, new) ==
    /\ m \in DOMAIN cl /\ DOMAIN new = DOMAIN cl
    /\ new[m] = Append(cl[m], n) /\ \A i \in DOMAIN cl : i # m => new[i] = cl[i]

\* There is a further cluster, of the row alone.
Opened(cl, n, new) ==
    /\ DOMAIN new = 1 .. (Len(cl) + 1) /\ new[Len(cl) + 1] = <<n>>
    /\ \A i \in DOMAIN cl : new[i] = cl[i]

\* The first cluster that the row may join is the one that grows.
Placed(js, cl, n, new) ==
    IF js = {} THEN Opened(cl, n, new) ELSE \E m \in js : (\A i \in js : m <= i) /\ Grown(cl, m, n, new)

LEMMA JoinedInPlace ==
    ASSUME NEW rows, NEW tr, NEW N \in Nat, NEW n \in 0 .. N, NEW cl \in Seq(Seq(0 .. N)),
           NEW js, js = Joins(rows, cl, n, tr), NEW new, new = Joined(rows, tr, n, cl)
    PROVE  new \in Seq(Seq(0 .. N)) /\ Placed(js, cl, n, new)
<1> DEFINE S == Seq(0 .. N)
<1>1. CASE js = {}
    <2>1. new = Append(cl, <<n>>) /\ <<n>> \in S
        BY <1>1 DEF Joined
    <2> HIDE DEF S
    <2>2. /\ new \in Seq(S) /\ Len(new) = Len(cl) + 1 /\ new[Len(cl) + 1] = <<n>>
          /\ \A i \in 1 .. Len(cl) : new[i] = cl[i]
        BY <2>1, AppendProperties DEF S
    <2>3. DOMAIN new = 1 .. (Len(cl) + 1) /\ DOMAIN cl = 1 .. Len(cl)
        BY <2>2 DEF S
    <2> QED BY <1>1, <2>2, <2>3 DEF S, Placed, Opened
<1>2. CASE js # {}
    <2> DEFINE m == Min(js)
    <2>1. m \in js /\ m \in DOMAIN cl /\ \A i \in js : m <= i
        <3>1. js \subseteq DOMAIN cl /\ DOMAIN cl = 1 .. Len(cl) /\ Len(cl) \in Nat
            BY JoinsAreClusters
        <3>2. js \in SUBSET Nat
            BY <3>1
        <3> QED BY <1>2, <3>1, <3>2, MinOfPlaces
    <2>2. new = [cl EXCEPT ![m] = Append(cl[m], n)]
        BY <1>2 DEF Joined
    <2> HIDE DEF m
    <2>3. cl[m] \in S /\ Append(cl[m], n) \in S
        <3>1. cl[m] \in S
            BY <2>1
        <3> QED BY <3>1
    <2> HIDE DEF S
    <2>4. new \in Seq(S) /\ DOMAIN new = DOMAIN cl
        BY <2>1, <2>2, <2>3 DEF S
    <2>5. \A i \in DOMAIN cl : new[i] = IF i = m THEN Append(cl[m], n) ELSE cl[i]
        BY <2>1, <2>2
    <2> QED BY <1>2, <2>1, <2>4, <2>5 DEF S, Placed, Grown
<1> QED BY <1>1, <1>2

\* The loop, as a function of the number of rows that are behind it
Pass(rows, tr, N, f) ==
    /\ f[0] = <<>>
    /\ \A n \in 1 .. N : f[n] = Joined(rows, tr, n, f[n - 1])
    /\ Clusters(rows, tr) = f[N]

LEMMA ClustersByRow ==
    ASSUME NEW rows, NEW tr, NEW N \in Nat, N = Len(rows)
    PROVE  \E f \in [0 .. N -> Seq(Seq(0 .. N))] : Pass(rows, tr, N, f)
<1> DEFINE V == Seq(Seq(0 .. N))
           body(f) == [n \in 0 .. N |-> IF n = 0 THEN <<>> ELSE Joined(rows, tr, n, f[n - 1])]
           upTo == CHOOSE f : f = body(f)
           next == [p \in (0 .. N) \X V |-> Joined(rows, tr, p[1], p[2])]
<1>1. Clusters(rows, tr) = upTo[N]
    BY DEF Clusters, Joined
<1>2. \A n \in 0 .. N : \A cl \in V : Joined(rows, tr, n, cl) \in V
    BY JoinedInPlace
<1>3. <<>> \in V /\ next \in [(0 .. N) \X V -> V]
    BY <1>2
<1> HIDE DEF V
<1>4. PICK f \in [0 .. N -> V] : Follows(f, 0, N, <<>>, next)
    <2> HIDE DEF next
    <2>1. 0 \in Nat /\ 0 <= N
        OBVIOUS
    <2> QED BY <1>3, <2>1, RecursionOverRange
<1>5. \A n \in 0 .. N : n # 0 => n - 1 \in 0 .. N
    OBVIOUS
<1>6. \A n \in 0 .. N : n # 0 => next[<<n, f[n - 1]>>] = Joined(rows, tr, n, f[n - 1])
    BY <1>4, <1>5
<1>7. f = body(f)
    <2> HIDE DEF next
    <2>1. f = [n \in 0 .. N |-> f[n]] /\ f[0] = <<>>
        BY <1>4 DEF Follows
    <2>2. \A n \in 0 .. N : n # 0 => f[n] = Joined(rows, tr, n, f[n - 1])
        <3>1. \A n \in 0 .. N : n # 0 => n \in (0 + 1) .. N
            OBVIOUS
        <3>2. \A n \in (0 + 1) .. N : f[n] = next[<<n, f[n - 1]>>]
            BY <1>4 DEF Follows
        <3> QED BY <1>6, <3>1, <3>2
    <2> QED BY <2>1, <2>2
<1>8. upTo = body(upTo)
    BY <1>7
<1> HIDE DEF upTo, next
<1>9. /\ DOMAIN upTo = 0 .. N /\ upTo[0] = <<>>
      /\ \A n \in 1 .. N : upTo[n] = Joined(rows, tr, n, upTo[n - 1])
    BY <1>8
<1>10. \A n \in 0 .. N : upTo[n] \in V
    <2> DEFINE Good == {n \in 0 .. N : upTo[n] \in V}
    <2>1. 0 \in Good
        BY <1>3, <1>9
    <2>2. ASSUME NEW n \in (0 + 1) .. N, n - 1 \in Good PROVE n \in Good
        BY <1>2, <1>9, <2>2
    <2> HIDE DEF Good
    <2>3. 0 .. N \subseteq Good
        BY <2>1, <2>2, RangeInduction
    <2> QED BY <2>3 DEF Good
<1>11. upTo \in [0 .. N -> V]
    <2>1. upTo = [n \in 0 .. N |-> upTo[n]]
        BY <1>8
    <2> QED BY <1>10, <2>1
<1> QED BY <1>1, <1>9, <1>11 DEF V, Pass

KeyedRow(rows, tr, j) == Text(rows[j], tr.key) # <<>>
KeyOf(rows, tr, j) == NormaliseKey(Text(rows[j], tr.key))
Variants(rows, tr, j, k) ==
    /\ tr.name # None
    /\ NameVariantMatch(Text(rows[j], tr.name), Text(rows[k], tr.name), tr.minShared)

\* The rows of a keyless cluster are variants of its first row, and of the
\* first row of no keyless cluster before it.
FirstVariant(rows, tr, cl) ==
    \A i \in DOMAIN cl : ~KeyedRow(rows, tr, cl[i][1]) =>
        \A k \in ToSet(cl[i]) :
            /\ k # cl[i][1] => Variants(rows, tr, k, cl[i][1])
            /\ \A h \in DOMAIN cl :
                  h < i /\ ~KeyedRow(rows, tr, cl[h][1]) => ~Variants(rows, tr, k, cl[h][1])

\* The clusters of the first n rows: every row is in one, with rows of its own
\* key if it has one and with keyless rows if not, and no other has that key.
ClusteredUpTo(rows, tr, n, cl) ==
    /\ \A i \in DOMAIN cl : cl[i] \in Seq(1 .. n) /\ cl[i] # <<>>
    /\ \A j \in 1 .. n : \E i \in DOMAIN cl :
          j \in ToSet(cl[i]) /\ \A h \in DOMAIN cl : j \in ToSet(cl[h]) => h = i
    /\ \A i \in DOMAIN cl : \A j \in ToSet(cl[i]) :
          /\ KeyedRow(rows, tr, j) <=> KeyedRow(rows, tr, cl[i][1])
          /\ KeyedRow(rows, tr, j) => KeyOf(rows, tr, j) = KeyOf(rows, tr, cl[i][1])
    /\ \A i, h \in DOMAIN cl :
          /\ KeyedRow(rows, tr, cl[i][1]) /\ KeyedRow(rows, tr, cl[h][1])
          /\ KeyOf(rows, tr, cl[i][1]) = KeyOf(rows, tr, cl[h][1])
          => i = h
    /\ FirstVariant(rows, tr, cl)

LEMMA AppendedRow ==
    ASSUME NEW n \in Nat, n > 0, NEW s \in Seq(1 .. n - 1), NEW t, t = Append(s, n)
    PROVE  /\ t \in Seq(1 .. n) /\ t # <<>> /\ ToSet(t) = ToSet(s) \cup {n}
           /\ s # <<>> => t[1] = s[1]
<1>1. s \in Seq(1 .. n) /\ n \in 1 .. n
    <2>1. 1 .. n - 1 \subseteq 1 .. n
        OBVIOUS
    <2> QED BY <2>1
<1>2. /\ t \in Seq(1 .. n) /\ Len(t) = Len(s) + 1 /\ t[Len(s) + 1] = n
      /\ \A i \in 1 .. Len(s) : t[i] = s[i]
    BY <1>1, AppendProperties
<1>3. DOMAIN s = 1 .. Len(s) /\ DOMAIN t = 1 .. (Len(s) + 1) /\ Len(s) \in Nat
    BY <1>2
<1>4. \A i \in DOMAIN t : i \in DOMAIN s \/ i = Len(s) + 1
    BY <1>3
<1>5. \A i \in DOMAIN s : i \in DOMAIN t
    BY <1>3
<1>6. Len(s) + 1 \in DOMAIN t
    BY <1>3
<1>7. ToSet(t) = ToSet(s) \cup {n}
    BY <1>2, <1>3, <1>4, <1>5, <1>6 DEF ToSet
<1>8. s # <<>> => t[1] = s[1]
    <2>1. s # <<>> => 1 \in 1 .. Len(s)
        BY <1>3
    <2> QED BY <1>2, <2>1
<1>9. t # <<>>
    BY <1>3, <1>6
<1> QED BY <1>2, <1>7, <1>8, <1>9

LEMMA RowJoins ==
    ASSUME NEW rows, NEW tr, NEW N \in Nat, NEW n \in 1 .. N, NEW cl \in Seq(Seq(0 .. N)),
           ClusteredUpTo(rows, tr, n - 1, cl), NEW new, new = Joined(rows, tr, n, cl)
    PROVE  ClusteredUpTo(rows, tr, n, new)
<1> DEFINE js == Joins(rows, cl, n, tr)
           keyed(j) == KeyedRow(rows, tr, j)
           key(j) == KeyOf(rows, tr, j)
           variants(j, k) == Variants(rows, tr, j, k)
<1>1. IF keyed(n) THEN js = {i \in DOMAIN cl : keyed(cl[i][1]) /\ key(cl[i][1]) = key(n)}
                  ELSE js = {i \in DOMAIN cl : ~keyed(cl[i][1]) /\ variants(n, cl[i][1])}
    BY DEF Joins, KeyedRow, KeyOf, Variants
<1>2. n \in Nat /\ n > 0 /\ n \in 0 .. N /\ 1 .. n = (1 .. n - 1) \cup {n} /\ n \notin 1 .. n - 1
    OBVIOUS
<1>3. /\ \A i \in DOMAIN cl : cl[i] \in Seq(1 .. n - 1) /\ cl[i] # <<>> /\ ToSet(cl[i]) \subseteq 1 .. n - 1
      /\ \A i \in DOMAIN cl : cl[i][1] \in ToSet(cl[i])
    <2>1. \A i \in DOMAIN cl : cl[i] \in Seq(1 .. n - 1) /\ cl[i] # <<>>
        BY DEF ClusteredUpTo
    <2>2. ASSUME NEW i \in DOMAIN cl PROVE ToSet(cl[i]) \subseteq 1 .. n - 1 /\ cl[i][1] \in ToSet(cl[i])
        <3>1. PICK s : s = cl[i]
            OBVIOUS
        <3>2. s \in Seq(1 .. n - 1) /\ s # <<>>
            BY <2>1, <3>1
        <3> QED BY <3>1, <3>2 DEF ToSet
    <2> QED BY <2>1, <2>2
<1>4. \A i \in DOMAIN cl : cl[i] \in Seq(1 .. n) /\ n \notin ToSet(cl[i])
    <2>1. 1 .. n - 1 \subseteq 1 .. n
        OBVIOUS
    <2> QED BY <1>2, <1>3, <2>1
<1> HIDE DEF js
<1>7. Placed(js, cl, n, new)
    <2>1. PICK joins : joins = Joins(rows, cl, n, tr)
        OBVIOUS
    <2>2. Placed(joins, cl, n, new)
        BY <1>2, <2>1, JoinedInPlace
    <2> QED BY <2>1, <2>2 DEF js
<1>8. /\ \A j \in 1 .. n - 1 : \E i \in DOMAIN cl :
            j \in ToSet(cl[i]) /\ \A h \in DOMAIN cl : j \in ToSet(cl[h]) => h = i
      /\ \A i \in DOMAIN cl : \A j \in ToSet(cl[i]) :
            (keyed(j) <=> keyed(cl[i][1])) /\ (keyed(j) => key(j) = key(cl[i][1]))
      /\ \A i, h \in DOMAIN cl : keyed(cl[i][1]) /\ keyed(cl[h][1]) /\ key(cl[i][1]) = key(cl[h][1]) => i = h
    BY DEF ClusteredUpTo
<1>9. \A i \in DOMAIN cl : ~keyed(cl[i][1]) =>
         \A k \in ToSet(cl[i]) :
            /\ k # cl[i][1] => variants(k, cl[i][1])
            /\ \A h \in DOMAIN cl : h < i /\ ~keyed(cl[h][1]) => ~variants(k, cl[h][1])
    BY DEF ClusteredUpTo, FirstVariant
<1>5. CASE js = {}
    <2> DEFINE m == Len(cl) + 1
    <2>1. /\ DOMAIN new = 1 .. m /\ DOMAIN cl = 1 .. Len(cl) /\ Len(cl) \in Nat
          /\ \A i \in DOMAIN cl : new[i] = cl[i]
          /\ new[m] = <<n>>
        BY <1>5, <1>7 DEF Placed, Opened
    <2>2. DOMAIN new = DOMAIN cl \cup {m} /\ m \notin DOMAIN cl
        BY <2>1
    <2>3. ToSet(<<n>>) = {n} /\ <<n>> \in Seq(1 .. n) /\ <<n>> # <<>> /\ <<n>>[1] = n
        BY <1>2 DEF ToSet
    <2> HIDE DEF m, keyed, key, variants
    <2>4. \A i \in DOMAIN new : new[i] \in Seq(1 .. n) /\ new[i] # <<>>
        BY <1>3, <1>4, <2>1, <2>2, <2>3
    <2>8. /\ \A i \in DOMAIN cl : new[i][1] = cl[i][1] /\ ToSet(new[i]) = ToSet(cl[i])
          /\ new[m][1] = n /\ ToSet(new[m]) = {n}
        BY <2>1, <2>3
    <2>5. ASSUME NEW j \in 1 .. n
          PROVE  \E i \in DOMAIN new :
                    j \in ToSet(new[i]) /\ \A h \in DOMAIN new : j \in ToSet(new[h]) => h = i
        <3>1. CASE j = n
            BY <1>4, <2>2, <2>8, <3>1
        <3>2. CASE j \in 1 .. n - 1
            <4>1. PICK i \in DOMAIN cl : j \in ToSet(cl[i]) /\ \A h \in DOMAIN cl : j \in ToSet(cl[h]) => h = i
                BY <1>8, <3>2
            <4>2. j # n
                BY <1>2, <3>2
            <4>3. \A h \in DOMAIN new : j \in ToSet(new[h]) => h = i
                BY <2>2, <2>8, <4>1, <4>2
            <4>4. i \in DOMAIN new /\ j \in ToSet(new[i])
                BY <2>2, <2>8, <4>1
            <4> QED BY <4>3, <4>4
        <3> QED BY <1>2, <3>1, <3>2
    <2>6. \A i \in DOMAIN new : \A j \in ToSet(new[i]) :
             (keyed(j) <=> keyed(new[i][1])) /\ (keyed(j) => key(j) = key(new[i][1]))
        <3>1. SUFFICES ASSUME NEW i \in DOMAIN new, NEW j \in ToSet(new[i])
                       PROVE  (keyed(j) <=> keyed(new[i][1])) /\ (keyed(j) => key(j) = key(new[i][1]))
            OBVIOUS
        <3>2. CASE i = m
            BY <2>8, <3>2
        <3>3. CASE i \in DOMAIN cl
            BY <1>8, <2>8, <3>3
        <3> QED BY <2>2, <3>2, <3>3
    <2>7. \A i, h \in DOMAIN new : keyed(new[i][1]) /\ keyed(new[h][1]) /\ key(new[i][1]) = key(new[h][1]) => i = h
        <3>2. keyed(n) => \A i \in DOMAIN cl : ~(keyed(cl[i][1]) /\ key(cl[i][1]) = key(n))
            BY <1>1, <1>5
        <3>3. SUFFICES ASSUME NEW i \in DOMAIN new, NEW h \in DOMAIN new,
                              keyed(new[i][1]), keyed(new[h][1]), key(new[i][1]) = key(new[h][1])
                       PROVE  i = h
            OBVIOUS
        <3>4. CASE i = m
            BY <2>2, <2>8, <3>2, <3>3, <3>4
        <3>5. CASE h = m
            BY <2>2, <2>8, <3>2, <3>3, <3>5
        <3>6. CASE i \in DOMAIN cl /\ h \in DOMAIN cl
            BY <1>8, <2>8, <3>3, <3>6
        <3> QED BY <2>2, <3>4, <3>5, <3>6
    <2>9. ASSUME NEW i \in DOMAIN new, ~keyed(new[i][1]), NEW k \in ToSet(new[i])
          PROVE  /\ k # new[i][1] => variants(k, new[i][1])
                 /\ \A h \in DOMAIN new : h < i /\ ~keyed(new[h][1]) => ~variants(k, new[h][1])
        <3>1. CASE i = m
            <4>1. k = n /\ new[i][1] = n /\ ~keyed(n)
                BY <2>8, <2>9, <3>1
            <4>2. \A h \in DOMAIN cl : ~keyed(cl[h][1]) => ~variants(n, cl[h][1])
                BY <1>1, <1>5, <4>1
            <4>3. \A h \in DOMAIN new : h < i => h \in DOMAIN cl
                <5>1. m \in Nat
                    BY <2>1 DEF m
                <5> QED BY <2>2, <3>1, <5>1
            <4> QED BY <2>8, <4>1, <4>2, <4>3
        <3>2. CASE i \in DOMAIN cl
            <4>1. \A h \in DOMAIN new : h < i => h \in DOMAIN cl
                <5>1. i < m /\ i \in Nat /\ m \in Nat
                    BY <2>1, <3>2 DEF m
                <5> QED BY <2>2, <5>1
            <4> QED BY <1>9, <2>8, <2>9, <3>2, <4>1
        <3> QED BY <2>2, <3>1, <3>2
    <2>10. FirstVariant(rows, tr, new)
        BY <2>9 DEF FirstVariant, keyed, variants
    <2> QED BY <2>4, <2>5, <2>6, <2>7, <2>10 DEF ClusteredUpTo, keyed, key
<1>6. CASE js # {}
    <2>0. PICK m \in js : (\A i \in js : m <= i) /\ Grown(cl, m, n, new)
        BY <1>6, <1>7 DEF Placed
    <2>1. /\ m \in DOMAIN cl /\ DOMAIN new = DOMAIN cl /\ new[m] = Append(cl[m], n)
          /\ \A i \in DOMAIN cl : i # m => new[i] = cl[i]
        BY <2>0 DEF Grown
    <2>2. /\ new[m] \in Seq(1 .. n) /\ new[m] # <<>> /\ ToSet(new[m]) = ToSet(cl[m]) \cup {n}
          /\ new[m][1] = cl[m][1]
        <3>1. PICK s : s = cl[m]
            OBVIOUS
        <3>2. PICK t : t = new[m]
            OBVIOUS
        <3>3. s \in Seq(1 .. n - 1) /\ s # <<>> /\ t = Append(s, n)
            BY <1>3, <2>1, <3>1, <3>2
        <3>4. /\ t \in Seq(1 .. n) /\ t # <<>> /\ ToSet(t) = ToSet(s) \cup {n}
              /\ s # <<>> => t[1] = s[1]
            <4> HIDE DEF js
            <4> QED BY <1>2, <3>3, AppendedRow
        <3> QED BY <3>1, <3>2, <3>3, <3>4
    <2>3. \A i \in DOMAIN cl : new[i][1] = cl[i][1]
        BY <2>1, <2>2
    <2>4. \A i \in DOMAIN cl : \A j : j \in ToSet(new[i]) <=> j \in ToSet(cl[i]) \/ (i = m /\ j = n)
        BY <2>1, <2>2
    <2>5. /\ keyed(n) <=> keyed(cl[m][1])
          /\ keyed(n) => key(n) = key(cl[m][1])
        BY <1>1, <2>0, <2>1
    <2>10. ~keyed(n) =>
              /\ variants(n, cl[m][1])
              /\ \A h \in DOMAIN cl : h < m /\ ~keyed(cl[h][1]) => ~variants(n, cl[h][1])
        <3>1. SUFFICES ASSUME ~keyed(n)
                       PROVE  /\ variants(n, cl[m][1])
                              /\ \A h \in DOMAIN cl : h < m /\ ~keyed(cl[h][1]) => ~variants(n, cl[h][1])
            OBVIOUS
        <3>2. js = {i \in DOMAIN cl : ~keyed(cl[i][1]) /\ variants(n, cl[i][1])}
            BY <1>1, <3>1
        <3>3. DOMAIN cl \subseteq Nat
            OBVIOUS
        <3> HIDE DEF keyed, variants
        <3>4. \A h \in DOMAIN cl : h < m => h \notin js
            BY <2>0, <2>1, <3>3
        <3> QED BY <2>0, <3>2, <3>4
    <2> HIDE DEF keyed, key, variants
    <2>6. \A i \in DOMAIN new : new[i] \in Seq(1 .. n) /\ new[i] # <<>>
        BY <1>3, <1>4, <2>1, <2>2
    <2>7. ASSUME NEW j \in 1 .. n
          PROVE  \E i \in DOMAIN new :
                    j \in ToSet(new[i]) /\ \A h \in DOMAIN new : j \in ToSet(new[h]) => h = i
        <3>1. CASE j = n
            BY <1>4, <2>1, <2>4, <3>1
        <3>2. CASE j \in 1 .. n - 1
            <4>1. PICK i \in DOMAIN cl : j \in ToSet(cl[i]) /\ \A h \in DOMAIN cl : j \in ToSet(cl[h]) => h = i
                BY <1>8, <3>2
            <4>2. j # n
                BY <1>2, <3>2
            <4> QED BY <2>1, <2>4, <4>1, <4>2
        <3> QED BY <1>2, <3>1, <3>2
    <2>8. \A i \in DOMAIN new : \A j \in ToSet(new[i]) :
             (keyed(j) <=> keyed(new[i][1])) /\ (keyed(j) => key(j) = key(new[i][1]))
        BY <1>8, <2>1, <2>3, <2>4, <2>5
    <2>9. \A i, h \in DOMAIN new : keyed(new[i][1]) /\ keyed(new[h][1]) /\ key(new[i][1]) = key(new[h][1]) => i = h
        BY <1>8, <2>1, <2>3
    <2>11. ASSUME NEW i \in DOMAIN new, ~keyed(new[i][1]), NEW k \in ToSet(new[i])
           PROVE  /\ k # new[i][1] => variants(k, new[i][1])
                  /\ \A h \in DOMAIN new : h < i /\ ~keyed(new[h][1]) => ~variants(k, new[h][1])
        <3>1. i \in DOMAIN cl /\ new[i][1] = cl[i][1] /\ \A h \in DOMAIN new : new[h][1] = cl[h][1]
            BY <2>1, <2>3
        <3>2. CASE k \in ToSet(cl[i])
            BY <1>9, <2>1, <2>11, <3>1, <3>2
        <3>3. CASE i = m /\ k = n
            BY <2>1, <2>5, <2>10, <2>11, <3>1, <3>3
        <3> QED BY <2>4, <3>1, <3>2, <3>3
    <2>12. FirstVariant(rows, tr, new)
        BY <2>11 DEF FirstVariant, keyed, variants
    <2> QED BY <2>6, <2>7, <2>8, <2>9, <2>12 DEF ClusteredUpTo, keyed, key
<1> QED BY <1>5, <1>6

LEMMA AllClustered ==
    ASSUME NEW rows, NEW tr, NEW N \in Nat, N = Len(rows)
    PROVE  /\ Clusters(rows, tr) \in Seq(Seq(0 .. N))
           /\ ClusteredUpTo(rows, tr, N, Clusters(rows, tr))
<1>0. PICK f \in [0 .. N -> Seq(Seq(0 .. N))] : Pass(rows, tr, N, f)
    BY ClustersByRow
<1>1. /\ f[0] = <<>>
      /\ \A n \in 1 .. N : f[n] = Joined(rows, tr, n, f[n - 1])
      /\ Clusters(rows, tr) = f[N]
    BY <1>0 DEF Pass
<1> DEFINE Good == {n \in 0 .. N : ClusteredUpTo(rows, tr, n, f[n])}
<1>2. 0 \in Good
    BY <1>1 DEF ClusteredUpTo, FirstVariant
<1>3. ASSUME NEW n \in (0 + 1) .. N, n - 1 \in Good PROVE n \in Good
    <2>1. n \in 1 .. N /\ n \in 0 .. N /\ n - 1 \in 0 .. N
        OBVIOUS
    <2>2. f[n - 1] \in Seq(Seq(0 .. N)) /\ f[n] = Joined(rows, tr, n, f[n - 1])
        BY <1>1, <2>1
    <2> QED BY <1>3, <2>1, <2>2, RowJoins
<1>4. N \in Good
    <2> HIDE DEF Good
    <2>1. 0 \in Nat /\ N \in 0 .. N
        OBVIOUS
    <2>2. 0 .. N \subseteq Good
        BY <1>2, <1>3, <2>1, RangeInduction
    <2> QED BY <2>1, <2>2
<1>5. f[N] \in Seq(Seq(0 .. N))
    OBVIOUS
<1> QED BY <1>1, <1>4, <1>5

-----------------------------------------------------------------------------
(* Entity resolution *)

\* A row whose text columns hold texts
TypedRow(row) ==
    /\ {"cells", "conf"} \subseteq DOMAIN row /\ row.conf \in Int
    /\ \A c \in DOMAIN row.cells :
          "value" \in DOMAIN row.cells[c] /\ (c \in TextColumns => IsText(row.cells[c].value))

TypedRows(rows) == rows \in Seq(ToSet(rows)) /\ \A k \in DOMAIN rows : TypedRow(rows[k])

LEMMA ScoreOfText ==
    ASSUME NEW c, NEW v, c \in TextColumns => IsText(v)
    PROVE  Score(c, v) \in Int /\ (v = None <=> Score(c, v) <= 0)
<1>1. CASE v = None
    BY <1>1 DEF Score
<1>2. CASE v # None /\ c \in TextColumns
    <2>1. v \in Seq(ToSet(v))
        BY <1>2 DEF IsText
    <2>2. Len(v) \in Nat
        BY <2>1
    <2> QED BY <1>2, <2>2 DEF Score
<1>3. CASE v # None /\ c \notin TextColumns
    BY <1>3 DEF Score
<1> QED BY <1>1, <1>2, <1>3

\* No cell has a fuller value than the one that is picked.
Fullest(c, cells, i) == \A j \in DOMAIN cells : Score(c, cells[j].value) <= Score(c, cells[i].value)

LEMMA PickedCell ==
    ASSUME NEW m \in Nat, NEW places \in SUBSET (1 .. m), places # {},
           NEW cells, DOMAIN cells = places, NEW c,
           \A i \in places : c \in TextColumns => IsText(cells[i].value),
           NEW cell, cell = PickCanonical(c, cells)
    PROVE  \E i \in places : cell = cells[i] /\ Fullest(c, cells, i)
<1> DEFINE values == {cells[i].value : i \in places}
           top    == {v \in values : \A w \in values : Score(c, w) <= Score(c, v)}
           best   == CHOOSE v \in top : TRUE
           having == {i \in places : cells[i].value = best}
           score  == [i \in places |-> Score(c, cells[i].value)]
<1>1. cell = cells[Min(having)]
    BY DEF PickCanonical
<1>2. \A i \in places : Score(c, cells[i].value) \in Int /\ (cells[i].value = None <=> Score(c, cells[i].value) <= 0)
    BY ScoreOfText
<1>3. PICK i \in places : \A j \in places : Score(c, cells[j].value) <= Score(c, cells[i].value)
    <2>1. score \in [places -> Int]
        BY <1>2
    <2>2. \E i \in places : \A j \in places : score[j] <= score[i]
        <3> HIDE DEF score
        <3> QED BY <2>1, GreatestOfSome
    <2> QED BY <2>2
<1>4. cells[i].value \in top
    BY <1>3
<1>5. best \in top
    BY <1>4
<1> HIDE DEF best
<1>6. having \in SUBSET Nat /\ having # {}
    <2>1. best \in values
        BY <1>5
    <2>2. PICK h \in places : cells[h].value = best
        BY <2>1
    <2>3. places \in SUBSET Nat /\ having \in SUBSET places
        OBVIOUS
    <2>4. h \in having
        BY <2>2
    <2> HIDE DEF having
    <2> QED BY <2>3, <2>4
<1>7. Min(having) \in having
    <2> HIDE DEF having
    <2> QED BY <1>6, MinOfPlaces
<1>8. PICK k : k = Min(having)
    OBVIOUS
<1>9. k \in places /\ cells[k].value = best /\ cell = cells[k]
    BY <1>1, <1>7, <1>8
<1>10. \A j \in places : Score(c, cells[j].value) <= Score(c, cells[k].value)
    BY <1>5, <1>9
<1> QED BY <1>9, <1>10 DEF Fullest

\* What a cluster's row keeps of its rows
Keeps(row, out) ==
    /\ row.pages \subseteq out.pages
    /\ \A c \in DOMAIN row.cells :
          c \in DOMAIN out.cells /\ Score(c, row.cells[c].value) <= Score(c, out.cells[c].value)

\* Its cells are cells of them.
Invents(rows, cluster, out) ==
    \E c \in DOMAIN out.cells :
        ~ \E k \in ToSet(cluster) : c \in DOMAIN rows[k].cells /\ out.cells[c] = rows[k].cells[c]

LEMMA FoldedRow ==
    ASSUME NEW rows, TypedRows(rows), NEW cluster \in Seq(DOMAIN rows), cluster # <<>>,
           NEW out, out = Canonicalise(rows, cluster)
    PROVE  TypedRow(out) /\ ~Invents(rows, cluster, out) /\ \A k \in ToSet(cluster) : Keeps(rows[k], out)
<1> DEFINE n == Len(cluster)
           members == [i \in DOMAIN cluster |-> rows[cluster[i]]]
           columns == UNION {DOMAIN members[i].cells : i \in DOMAIN members}
           having(c) == {i \in DOMAIN members : c \in DOMAIN members[i].cells}
           cells(c) == [i \in having(c) |-> members[i].cells[c]]
<1>1. /\ {"cells", "conf"} \subseteq DOMAIN out
      /\ out.cells = [c \in columns |-> PickCanonical(c, cells(c))]
      /\ out.pages = UNION {members[i].pages : i \in DOMAIN members}
      /\ out.conf = Max({members[i].conf : i \in DOMAIN members})
    BY DEF Canonicalise
<1>2. /\ n \in Nat /\ n > 0 /\ DOMAIN members = 1 .. n /\ DOMAIN cluster = 1 .. n
      /\ \A i \in 1 .. n : members[i] = rows[cluster[i]] /\ cluster[i] \in DOMAIN rows
    OBVIOUS
<1>3. \A i \in 1 .. n : TypedRow(members[i])
    BY <1>2 DEF TypedRows
<1> HIDE DEF n, members
<1>4. out.conf \in Int
    <2> DEFINE f == [i \in 1 .. n |-> members[i].conf]
    <2>1. f \in [1 .. n -> Int]
        BY <1>3 DEF TypedRow
    <2>2. {f[i] : i \in 1 .. n} = {members[i].conf : i \in DOMAIN members}
        BY <1>2
    <2> HIDE DEF f
    <2>3. Max({f[i] : i \in 1 .. n}) \in Int
        BY <1>2, <2>1, GreatestNumber
    <2> QED BY <1>1, <2>2, <2>3
<1>5. ASSUME NEW c \in columns
      PROVE  \E i \in having(c) : out.cells[c] = members[i].cells[c] /\ Fullest(c, cells(c), i)
    <2>1. having(c) \in SUBSET (1 .. n) /\ having(c) # {}
        BY <1>2, <1>5
    <2>2. DOMAIN cells(c) = having(c) /\ \A i \in having(c) : cells(c)[i] = members[i].cells[c]
        OBVIOUS
    <2>3. \A i \in having(c) : c \in TextColumns => IsText(cells(c)[i].value)
        BY <1>2, <1>3, <2>2 DEF TypedRow
    <2>4. out.cells[c] = PickCanonical(c, cells(c))
        BY <1>1, <1>5
    <2> HIDE DEF having, cells
    <2>5. \E i \in having(c) : out.cells[c] = cells(c)[i] /\ Fullest(c, cells(c), i)
        BY <1>2, <2>1, <2>2, <2>3, <2>4, PickedCell
    <2> QED BY <2>2, <2>5
<1>6. DOMAIN out.cells = columns
    BY <1>1
<1>7. TypedRow(out)
    <2>1. ASSUME NEW c \in columns
          PROVE  "value" \in DOMAIN out.cells[c] /\ (c \in TextColumns => IsText(out.cells[c].value))
        <3>1. PICK i \in having(c) : out.cells[c] = members[i].cells[c]
            BY <1>5, <2>1
        <3> QED BY <1>2, <1>3, <2>1, <3>1 DEF TypedRow
    <2> QED BY <1>1, <1>4, <1>6, <2>1 DEF TypedRow
<1>8. ASSUME NEW k \in ToSet(cluster) PROVE Keeps(rows[k], out)
    <2>1. PICK p \in 1 .. n : k = cluster[p]
        BY <1>2 DEF ToSet
    <2>2. members[p] = rows[k]
        BY <1>2, <2>1
    <2>3. rows[k].pages \subseteq out.pages
        BY <1>1, <1>2, <2>1, <2>2
    <2>4. ASSUME NEW c \in DOMAIN rows[k].cells
          PROVE  c \in DOMAIN out.cells /\ Score(c, rows[k].cells[c].value) <= Score(c, out.cells[c].value)
        <3>1. c \in columns /\ p \in having(c)
            BY <1>2, <2>1, <2>2, <2>4
        <3>2. PICK i \in having(c) : out.cells[c] = members[i].cells[c] /\ Fullest(c, cells(c), i)
            BY <1>5, <3>1
        <3>3. Score(c, cells(c)[p].value) <= Score(c, cells(c)[i].value)
            BY <3>1, <3>2 DEF Fullest
        <3>4. cells(c)[p] = members[p].cells[c] /\ cells(c)[i] = members[i].cells[c]
            BY <3>1, <3>2
        <3> QED BY <1>6, <2>2, <3>1, <3>2, <3>3, <3>4
    <2> QED BY <2>3, <2>4 DEF Keeps
<1>9. ~Invents(rows, cluster, out)
    <2>1. SUFFICES ASSUME NEW c \in columns
                   PROVE  \E k \in ToSet(cluster) : c \in DOMAIN rows[k].cells /\ out.cells[c] = rows[k].cells[c]
        BY <1>6 DEF Invents
    <2>2. PICK i \in having(c) : out.cells[c] = members[i].cells[c]
        BY <1>5, <2>1
    <2>3. /\ i \in 1 .. n /\ members[i] = rows[cluster[i]] /\ c \in DOMAIN members[i].cells
          /\ cluster[i] \in ToSet(cluster)
        BY <1>2, <2>2 DEF ToSet
    <2> QED BY <2>2, <2>3
<1> QED BY <1>7, <1>8, <1>9

LEMMA RowsAreDeduped ==
    ASSUME NEW rows, TypedRows(rows), NEW tr, NEW out, out = DedupeRows(rows, tr)
    PROVE  TypedRows(out) /\ SameEntity(rows, tr) /\ FullestKept(rows, tr, out) /\ KeysDiffer(out, tr)
<1> DEFINE N == Len(rows)
           cl == Clusters(rows, tr)
<1>1. N \in Nat /\ DOMAIN rows = 1 .. N
    BY DEF TypedRows
<1>2. cl \in Seq(Seq(0 .. N)) /\ ClusteredUpTo(rows, tr, N, cl)
    BY <1>1, AllClustered
<1>3. out = [i \in DOMAIN cl |-> Canonicalise(rows, cl[i])]
    BY DEF DedupeRows
<1>4. SameEntity(rows, tr)
    <2> DEFINE keyed(j) == KeyedRow(rows, tr, j)
               key(j) == KeyOf(rows, tr, j)
               together(j, k) == \E i \in DOMAIN cl : {j, k} \subseteq ToSet(cl[i])
    <2>1. /\ \A j \in 1 .. N : \E i \in DOMAIN cl :
                j \in ToSet(cl[i]) /\ \A h \in DOMAIN cl : j \in ToSet(cl[h]) => h = i
          /\ \A i \in DOMAIN cl : \A j \in ToSet(cl[i]) :
                (keyed(j) <=> keyed(cl[i][1])) /\ (keyed(j) => key(j) = key(cl[i][1]))
          /\ \A i, h \in DOMAIN cl : keyed(cl[i][1]) /\ keyed(cl[h][1]) /\ key(cl[i][1]) = key(cl[h][1]) => i = h
        <3> HIDE DEF cl, N
        <3> QED BY <1>2 DEF ClusteredUpTo
    <2>5. FirstVariant(rows, tr, cl)
        <3> HIDE DEF cl, N
        <3> QED BY <1>2 DEF ClusteredUpTo
    <2>6. \A i \in DOMAIN cl : ~keyed(cl[i][1]) =>
             \A k \in ToSet(cl[i]) :
                /\ k # cl[i][1] => Variants(rows, tr, k, cl[i][1])
                /\ \A h \in DOMAIN cl : h < i /\ ~keyed(cl[h][1]) => ~Variants(rows, tr, k, cl[h][1])
        <3> HIDE DEF cl
        <3> QED BY <2>5 DEF FirstVariant
    <2> HIDE DEF cl, N, keyed, key
    <2>2. ASSUME NEW j \in DOMAIN rows PROVE Cardinality({i \in DOMAIN cl : j \in ToSet(cl[i])}) = 1
        <3>1. PICK i \in DOMAIN cl : j \in ToSet(cl[i]) /\ \A h \in DOMAIN cl : j \in ToSet(cl[h]) => h = i
            BY <1>1, <2>1
        <3>2. {h \in DOMAIN cl : j \in ToSet(cl[h])} = {i}
            BY <3>1
        <3> QED BY <3>2, FS_Singleton
    <2>3. ASSUME NEW j \in DOMAIN rows, NEW k \in DOMAIN rows, keyed(j), keyed(k)
          PROVE  together(j, k) <=> key(j) = key(k)
        <3>1. PICK i \in DOMAIN cl : j \in ToSet(cl[i])
            BY <1>1, <2>1
        <3>2. PICK h \in DOMAIN cl : k \in ToSet(cl[h]) /\ \A g \in DOMAIN cl : k \in ToSet(cl[g]) => g = h
            BY <1>1, <2>1
        <3>3. keyed(cl[i][1]) /\ keyed(cl[h][1]) /\ key(j) = key(cl[i][1]) /\ key(k) = key(cl[h][1])
            BY <2>1, <2>3, <3>1, <3>2
        <3>4. key(j) = key(k) => i = h
            BY <2>1, <3>3
        <3>5. ASSUME together(j, k) PROVE key(j) = key(k)
            <4>1. PICK g \in DOMAIN cl : j \in ToSet(cl[g]) /\ k \in ToSet(cl[g])
                BY <3>5
            <4> QED BY <2>1, <2>3, <4>1
        <3> QED BY <3>1, <3>2, <3>4, <3>5
    <2>4. ASSUME NEW j \in DOMAIN rows, NEW k \in DOMAIN rows, keyed(j), ~keyed(k)
          PROVE  ~together(j, k)
        BY <2>1, <2>4
    <2> QED BY <2>2, <2>3, <2>4, <2>6 DEF SameEntity, keyed, key, KeyedRow, KeyOf, Variants, cl
<1>5. ASSUME NEW i \in DOMAIN cl
      PROVE  /\ TypedRow(out[i]) /\ ~Invents(rows, cl[i], out[i])
             /\ \A k \in ToSet(cl[i]) : Keeps(rows[k], out[i])
    <2>1. cl[i] \in Seq(DOMAIN rows) /\ cl[i] # <<>>
        <3> HIDE DEF cl
        <3> QED BY <1>1, <1>2, <1>5 DEF ClusteredUpTo
    <2>2. out[i] = Canonicalise(rows, cl[i])
        BY <1>3
    <2> HIDE DEF cl
    <2> QED BY <2>1, <2>2, FoldedRow
<1>6. FullestKept(rows, tr, out)
    <2> HIDE DEF cl
    <2> QED BY <1>5 DEF FullestKept, Keeps, Invents, cl
<1>8. KeysDiffer(out, tr)
    <2> DEFINE keyed(j) == KeyedRow(rows, tr, j)
               key(j) == KeyOf(rows, tr, j)
    <2>1. /\ \A i \in DOMAIN cl : \A j \in ToSet(cl[i]) :
                (keyed(j) <=> keyed(cl[i][1])) /\ (keyed(j) => key(j) = key(cl[i][1]))
          /\ \A i, h \in DOMAIN cl : keyed(cl[i][1]) /\ keyed(cl[h][1]) /\ key(cl[i][1]) = key(cl[h][1]) => i = h
        <3> HIDE DEF cl, N
        <3> QED BY <1>2 DEF ClusteredUpTo
    <2>2. DOMAIN out = DOMAIN cl
        BY <1>3
    <2> HIDE DEF cl
    <2>3. ASSUME NEW i \in DOMAIN cl, Text(out[i], tr.key) # <<>>
          PROVE  keyed(cl[i][1]) /\ NormaliseKey(Text(out[i], tr.key)) = key(cl[i][1])
        <3>1. tr.key \in DOMAIN out[i].cells
            BY <2>3 DEF Text
        <3>2. PICK k \in ToSet(cl[i]) : tr.key \in DOMAIN rows[k].cells /\ out[i].cells[tr.key] = rows[k].cells[tr.key]
            BY <1>5, <3>1 DEF Invents
        <3>3. Text(rows[k], tr.key) = Text(out[i], tr.key)
            BY <3>1, <3>2 DEF Text
        <3>4. keyed(k) /\ key(k) = NormaliseKey(Text(out[i], tr.key))
            BY <2>3, <3>3 DEF KeyedRow, KeyOf
        <3> HIDE DEF keyed, key
        <3> QED BY <2>1, <3>2, <3>4
    <2> HIDE DEF keyed, key
    <2> QED BY <2>1, <2>2, <2>3 DEF KeysDiffer
<1>7. TypedRows(out)
    <2> HIDE DEF cl
    <2>1. DOMAIN cl = 1 .. Len(cl) /\ Len(cl) \in Nat
        BY <1>2
    <2>2. DOMAIN out = 1 .. Len(cl) /\ out = [i \in 1 .. Len(cl) |-> out[i]]
        BY <1>3, <2>1
    <2>3. out \in Seq(ToSet(out))
        BY <2>1, <2>2, SequenceOfItself
    <2> QED BY <1>5, <2>1, <2>2, <2>3 DEF TypedRows
<1> QED BY <1>4, <1>6, <1>7, <1>8

-----------------------------------------------------------------------------
(* The rows of the model *)

LEMMA TotalIsNumber ==
    ASSUME NEW N \in Nat, NEW numbers, Len(numbers) = N, \A i \in 1 .. N : numbers[i] \in Int
    PROVE  Total(numbers) \in Int
<1> DEFINE body(f) == [n \in 0 .. N |-> IF n = 0 THEN 0 ELSE f[n - 1] + numbers[n]]
           upTo == CHOOSE f : f = body(f)
           next == [p \in (0 .. N) \X Int |-> IF p[1] = 0 THEN 0 ELSE p[2] + numbers[p[1]]]
<1>1. Total(numbers) = upTo[N]
    BY DEF Total
<1>2. 0 \in Int /\ next \in [(0 .. N) \X Int -> Int]
    <2>1. \A n \in 0 .. N : n = 0 \/ n \in 1 .. N
        OBVIOUS
    <2>2. \A p \in (0 .. N) \X Int : p[1] \in 0 .. N /\ p[2] \in Int
        OBVIOUS
    <2> QED BY <2>1, <2>2
<1>3. PICK f \in [0 .. N -> Int] : Follows(f, 0, N, 0, next)
    <2> HIDE DEF next
    <2>1. 0 \in Nat /\ 0 <= N
        OBVIOUS
    <2> QED BY <1>2, <2>1, RecursionOverRange
<1>4. f = body(f)
    <2>1. \A n \in 0 .. N : n # 0 => n \in (0 + 1) .. N /\ n - 1 \in 0 .. N
        OBVIOUS
    <2>2. \A n \in 0 .. N : n # 0 => next[<<n, f[n - 1]>>] = f[n - 1] + numbers[n]
        BY <2>1
    <2> HIDE DEF next
    <2>3. f = [n \in 0 .. N |-> f[n]] /\ f[0] = 0
        BY <1>3 DEF Follows
    <2>4. \A n \in (0 + 1) .. N : f[n] = next[<<n, f[n - 1]>>]
        BY <1>3 DEF Follows
    <2>5. \A n \in 0 .. N : n # 0 => f[n] = f[n - 1] + numbers[n]
        BY <2>1, <2>2, <2>4
    <2> QED BY <2>3, <2>5
<1>5. upTo = body(upTo)
    BY <1>4
<1> HIDE DEF upTo
<1>6. upTo[0] = 0 /\ \A n \in (0 + 1) .. N : upTo[n] = upTo[n - 1] + numbers[n]
    BY <1>5
<1> DEFINE Good == {n \in 0 .. N : upTo[n] \in Int}
<1>7. 0 \in Good
    BY <1>6
<1>8. ASSUME NEW n \in (0 + 1) .. N, n - 1 \in Good PROVE n \in Good
    BY <1>6, <1>8
<1>9. N \in Good
    <2> HIDE DEF Good
    <2>1. 0 .. N \subseteq Good
        BY <1>7, <1>8, RangeInduction
    <2> QED BY <2>1
<1> QED BY <1>1, <1>9

\* What the model may answer: rows whose text columns hold texts
TypedDrafts(drafts) ==
    /\ drafts \in Seq(ToSet(drafts))
    /\ \A i \in DOMAIN drafts :
          /\ drafts[i].cites \in Seq(ToSet(drafts[i].cites))
          /\ \A c \in TextColumns \cap DOMAIN drafts[i].values : IsText(drafts[i].values[c])

LEMMA ContributorsAreRows ==
    ASSUME NEW rows, TypedRows(rows), NEW drafts, TypedDrafts(drafts), NEW i \in DOMAIN drafts
    PROVE  Contributors(drafts, i, rows) \in Seq(DOMAIN rows)
<1> DEFINE cites == drafts[i].cites
           existing == {k \in DOMAIN cites : cites[k] \in DOMAIN rows}
           cited == At(cites, existing)
           tokens == IdentityTokens(drafts[i].values)
           alike == {k \in DOMAIN rows : tokens \cap RowTokens(rows[k]) \cap Distinctive(rows) # {}}
           ids == [k \in DOMAIN rows |-> k]
<1>1. cited \in Seq(DOMAIN rows)
    <2>1. DOMAIN cites = 1 .. Len(cites) /\ Len(cites) \in Nat
        BY DEF TypedDrafts
    <2>2. existing \in SUBSET (1 .. Len(cites)) /\ \A k \in existing : cites[k] \in DOMAIN rows
        BY <2>1
    <2> HIDE DEF existing, cites
    <2> QED BY <2>1, <2>2, ItemsInSet
<1>2. IdentityContributors(tokens, rows) \in Seq(DOMAIN rows)
    <2>1. DOMAIN rows = 1 .. Len(rows) /\ Len(rows) \in Nat
        BY DEF TypedRows
    <2>2. alike \in SUBSET (1 .. Len(rows)) /\ \A k \in alike : ids[k] \in DOMAIN rows
        BY <2>1
    <2>3. IdentityContributors(tokens, rows) = At(ids, alike)
        BY DEF IdentityContributors
    <2> HIDE DEF alike, ids, tokens
    <2>4. At(ids, alike) \in Seq(DOMAIN rows)
        <3>1. PICK m : m = Len(rows)
            OBVIOUS
        <3>2. m \in Nat /\ alike \in SUBSET (1 .. m)
            BY <2>1, <2>2, <3>1
        <3> QED BY <2>2, <3>2, ItemsInSet
    <2> QED BY <2>3, <2>4
<1>3. Len(drafts) = Len(rows) => <<i>> \in Seq(DOMAIN rows)
    BY DEF TypedDrafts, TypedRows
<1> QED BY <1>1, <1>2, <1>3 DEF Contributors

\* A row that says what the model said and nothing of its support
Rewritten(row, values) ==
    /\ row.conf \in Int
    /\ DOMAIN row.cells = DOMAIN values
    /\ \A c \in DOMAIN values : "value" \in DOMAIN row.cells[c] /\ row.cells[c].value = values[c]
    /\ {"cells", "conf", "unmatched"} \subseteq DOMAIN row /\ row.unmatched = FALSE

LEMMA RebuiltRow ==
    ASSUME NEW rows, TypedRows(rows), rows # <<>>, NEW drafts, TypedDrafts(drafts), NEW i \in DOMAIN drafts,
           NEW row, row = Rebuilt(drafts, i, rows)
    PROVE  Rewritten(row, drafts[i].values)
<1> DEFINE from    == Contributors(drafts, i, rows)
           sources == IF from = <<>> THEN <<rows[1]>> ELSE [j \in DOMAIN from |-> rows[from[j]]]
           confs   == [j \in DOMAIN sources |-> sources[j].conf]
           base    == [pages |-> UNION {sources[j].pages : j \in DOMAIN sources},
                       conf  |-> Total(confs) \div Len(sources),
                       bbox  |-> sources[1].bbox]
           with(c) == {j \in DOMAIN sources : c \in DOMAIN sources[j].cells}
           src(c)  == IF with(c) = {} THEN base ELSE BestCell([j \in with(c) |-> sources[j].cells[c]])
           cells   == [c \in DOMAIN drafts[i].values |->
                        [name |-> c, kind |-> "scalar", valid |-> TRUE, value |-> drafts[i].values[c],
                         pages |-> src(c).pages, conf |-> src(c).conf, bbox |-> src(c).bbox]]
<1>1. row = [cells |-> cells, pages |-> base.pages, conf |-> base.conf, bbox |-> base.bbox, unmatched |-> FALSE]
    BY DEF Rebuilt
<1>2. from \in Seq(DOMAIN rows) /\ 1 \in DOMAIN rows
    BY ContributorsAreRows DEF TypedRows
<1>3. /\ Len(sources) \in Nat /\ Len(sources) > 0 /\ DOMAIN sources = 1 .. Len(sources)
      /\ \A j \in DOMAIN sources : sources[j].conf \in Int
    <2> HIDE DEF from
    <2>1. \A k \in DOMAIN rows : rows[k].conf \in Int
        BY DEF TypedRows, TypedRow
    <2>2. CASE from = <<>>
        BY <1>2, <2>1, <2>2
    <2>3. CASE from # <<>>
        <3>1. DOMAIN from = 1 .. Len(from) /\ Len(from) \in Nat /\ Len(from) > 0
            BY <1>2, <2>3
        <3>2. \A j \in DOMAIN from : rows[from[j]].conf \in Int
            BY <1>2, <2>1
        <3> QED BY <2>3, <3>1, <3>2
    <2> QED BY <2>2, <2>3
<1> HIDE DEF from, sources
<1>4. base.conf \in Int
    <2>1. Len(confs) = Len(sources) /\ \A j \in 1 .. Len(sources) : confs[j] \in Int
        BY <1>3
    <2> HIDE DEF confs
    <2>2. Total(confs) \in Int
        BY <1>3, <2>1, TotalIsNumber
    <2>3. Total(confs) \div Len(sources) \in Int
        BY <1>3, <2>2
    <2> QED BY <2>3
<1> HIDE DEF base
<1>5. /\ DOMAIN cells = DOMAIN drafts[i].values
      /\ \A c \in DOMAIN cells : "value" \in DOMAIN cells[c] /\ cells[c].value = drafts[i].values[c]
    OBVIOUS
<1> HIDE DEF cells
<1>6. /\ row.cells = cells /\ row.conf = base.conf /\ row.unmatched = FALSE
      /\ {"cells", "conf", "unmatched"} \subseteq DOMAIN row
    BY <1>1
<1> QED BY <1>4, <1>5, <1>6 DEF Rewritten

\* With an invariant the rows that no input row supports are flagged.
Flagged(built, rows) ==
    \A k \in DOMAIN built : built[k].unmatched <=> ~IsGrounded(built[k], rows)

LEMMA BuiltRows ==
    ASSUME NEW rows, TypedRows(rows), rows # <<>>, NEW drafts, TypedDrafts(drafts), NEW flag \in BOOLEAN,
           NEW built, built = RebuildRows(drafts, rows, flag)
    PROVE  TypedRows(built) /\ (flag => Flagged(built, rows))
<1> DEFINE plain(i) == Rebuilt(drafts, i, rows)
<1>1. built = [i \in DOMAIN drafts |->
                 IF flag /\ ~IsGrounded(plain(i), rows)
                 THEN [plain(i) EXCEPT !.conf = 0, !.unmatched = TRUE] ELSE plain(i)]
    BY DEF RebuildRows
<1>2. \A i \in DOMAIN drafts :
        /\ plain(i).conf \in Int /\ DOMAIN plain(i).cells = DOMAIN drafts[i].values
        /\ \A c \in DOMAIN plain(i).cells :
              "value" \in DOMAIN plain(i).cells[c] /\ plain(i).cells[c].value = drafts[i].values[c]
        /\ {"cells", "conf", "unmatched"} \subseteq DOMAIN plain(i) /\ plain(i).unmatched = FALSE
    <2>1. \A i \in DOMAIN drafts : Rewritten(plain(i), drafts[i].values)
        BY RebuiltRow
    <2> HIDE DEF plain
    <2> QED BY <2>1 DEF Rewritten
<1>3. DOMAIN drafts = 1 .. Len(drafts) /\ Len(drafts) \in Nat
    BY DEF TypedDrafts
<1> HIDE DEF plain
<1> DEFINE result(i) == IF flag /\ ~IsGrounded(plain(i), rows)
                        THEN [plain(i) EXCEPT !.conf = 0, !.unmatched = TRUE] ELSE plain(i)
<1>9. DOMAIN built = DOMAIN drafts /\ \A i \in DOMAIN drafts : built[i] = result(i)
    BY <1>1
<1>7. built = [i \in 1 .. Len(drafts) |-> built[i]]
    <2>1. built = [i \in 1 .. Len(drafts) |-> result(i)]
        BY <1>1, <1>3
    <2> HIDE DEF result
    <2> QED BY <2>1
<1>4. ASSUME NEW i \in DOMAIN drafts
      PROVE  /\ built[i].cells = plain(i).cells /\ built[i].conf \in Int
             /\ {"cells", "conf"} \subseteq DOMAIN built[i]
             /\ flag => (built[i].unmatched <=> ~IsGrounded(plain(i), rows))
    <2> DEFINE changed == [plain(i) EXCEPT !.conf = 0, !.unmatched = TRUE]
    <2>1. /\ {"cells", "conf", "unmatched"} \subseteq DOMAIN plain(i)
          /\ plain(i).conf \in Int /\ plain(i).unmatched = FALSE
        BY <1>2
    <2>2. changed.cells = plain(i).cells /\ changed.conf = 0 /\ changed.unmatched = TRUE
          /\ {"cells", "conf"} \subseteq DOMAIN changed
        BY <2>1
    <2> HIDE DEF changed
    <2>3. built[i] = IF flag /\ ~IsGrounded(plain(i), rows) THEN changed ELSE plain(i)
        BY <1>9 DEF changed
    <2>4. CASE flag /\ ~IsGrounded(plain(i), rows)
        BY <2>2, <2>3, <2>4
    <2>5. CASE ~(flag /\ ~IsGrounded(plain(i), rows))
        BY <2>1, <2>3, <2>5
    <2> QED BY <2>4, <2>5
<1>5. ASSUME NEW i \in DOMAIN drafts PROVE TypedRow(built[i])
    BY <1>2, <1>4 DEF TypedRow, TypedDrafts
<1>6. ASSUME NEW i \in DOMAIN drafts PROVE IsGrounded(built[i], rows) <=> IsGrounded(plain(i), rows)
    <2>1. RowTokens(built[i]) = RowTokens(plain(i))
        BY <1>4 DEF RowTokens, Values
    <2> QED BY <2>1 DEF IsGrounded
<1>8. built \in Seq(ToSet(built))
    BY <1>3, <1>7, SequenceOfItself
<1> QED BY <1>4, <1>5, <1>6, <1>8, <1>9 DEF TypedRows, Flagged

LEMMA ImageOfPlaces ==
    ASSUME NEW S, IsFiniteSet(S), NEW f, DOMAIN f = S
    PROVE  IsFiniteSet({f[x] : x \in S})
<1> DEFINE T == {f[x] : x \in S}
           g == [x \in S |-> f[x]]
<1>1. g \in Surjection(S, T)
    BY DEF Surjection
<1> HIDE DEF g, T
<1>2. IsFiniteSet(T)
    BY <1>1, FS_Surjection
<1> QED BY <1>2 DEF T

LEMMA TokensAreFew ==
    ASSUME NEW row, TypedRow(row), IsFiniteSet(TextColumns)
    PROVE  Cardinality(RowTokens(row)) \in Nat
<1> DEFINE values == Values(row)
           columns == {d \in TextColumns \cap DOMAIN values : values[d] # None}
           stems(text) == {w[1] : w \in ToSet(text)}
           tokens == [c \in columns |-> NormTokens(values[c])]
<1>1. DOMAIN values = DOMAIN row.cells /\ \A c \in DOMAIN values : values[c] = row.cells[c].value
    BY DEF Values
<1>2. RowTokens(row) = UNION {tokens[c] : c \in columns}
    BY DEF RowTokens, IdentityTokens
<1>3. IsFiniteSet(columns)
    BY FS_Subset
<1>4. ASSUME NEW c \in columns PROVE IsFiniteSet(tokens[c])
    <2> DEFINE text == values[c]
               places == 1 .. Len(text)
               stem == [i \in places |-> text[i][1]]
    <2>1. text \in Seq(ToSet(text))
        BY <1>1, <1>4 DEF TypedRow, IsText
    <2> HIDE DEF text
    <2>2. Len(text) \in Nat /\ DOMAIN text = places
        BY <2>1
    <2>3. IsFiniteSet(places)
        BY <2>2, FS_Interval
    <2>4. IsFiniteSet({stem[i] : i \in places})
        <3>1. DOMAIN stem = places
            OBVIOUS
        <3> HIDE DEF stem, places
        <3> QED BY <2>3, <3>1, ImageOfPlaces
    <2>5. NormTokens(text) \in SUBSET {stem[i] : i \in places}
        <3>1. \A w \in ToSet(text) : \E i \in places : w = text[i]
            BY <2>2 DEF ToSet
        <3>2. \A w \in ToSet(text) : \E i \in places : w[1] = stem[i]
            BY <3>1
        <3> QED BY <3>2 DEF NormTokens
    <2>6. tokens[c] = NormTokens(text)
        BY <1>4 DEF text
    <2> HIDE DEF stem, places
    <2> QED BY <2>4, <2>5, <2>6, FS_Subset
<1> DEFINE all == {tokens[c] : c \in columns}
<1>5. IsFiniteSet(all)
    <2>1. DOMAIN tokens = columns
        OBVIOUS
    <2> HIDE DEF tokens, columns
    <2> QED BY <1>3, <2>1, ImageOfPlaces
<1>6. \A T \in all : IsFiniteSet(T)
    BY <1>4
<1> HIDE DEF tokens, columns
<1>7. IsFiniteSet(UNION all)
    <2> HIDE DEF all
    <2> QED BY <1>5, <1>6, FS_UNION
<1>8. RowTokens(row) = UNION all
    BY <1>2
<1> QED BY <1>7, <1>8, FS_CardinalityType

\* The order of _victim_key has a least row among any.
LEMMA LeastTrusted ==
    ASSUME NEW m \in Nat, NEW places \in SUBSET (1 .. m), places # {},
           NEW rows, \A k \in places : TypedRow(rows[k]), IsFiniteSet(TextColumns)
    PROVE  \E k \in places : \A j \in places : ~LessTrusted(Trust(rows[j]), Trust(rows[k]))
<1> DEFINE a(k) == IF rows[k].unmatched THEN 0 ELSE 1
           b(k) == rows[k].conf
           c(k) == Cardinality(RowTokens(rows[k]))
           as == [k \in places |-> a(k)]
<1>1. \A k \in places : a(k) \in Int /\ b(k) \in Int /\ c(k) \in Int
    <2>1. \A k \in places : c(k) \in Nat
        BY TokensAreFew
    <2>2. \A k \in places : b(k) \in Int
        BY DEF TypedRow
    <2>3. \A k \in places : a(k) \in Int
        OBVIOUS
    <2> HIDE DEF a, b, c
    <2> QED BY <2>1, <2>2, <2>3
<1>2. \A k \in places : Trust(rows[k]) = <<a(k), b(k), c(k)>>
    BY DEF Trust
<1> HIDE DEF a, b, c
<1>3. PICK i \in places : \A j \in places : a(i) <= a(j)
    <2>1. as \in [places -> Int]
        BY <1>1
    <2>2. \E i \in places : \A j \in places : as[i] <= as[j]
        <3> HIDE DEF as
        <3> QED BY <2>1, LeastOfSome
    <2> QED BY <2>2
<1> DEFINE P == {k \in places : a(k) = a(i)}
           bs == [k \in P |-> b(k)]
<1>4. PICK h \in P : \A j \in P : b(h) <= b(j)
    <2>1. bs \in [P -> Int] /\ P \in SUBSET (1 .. m) /\ P # {}
        BY <1>1
    <2>2. \E k \in P : \A j \in P : bs[k] <= bs[j]
        <3> HIDE DEF bs, P
        <3> QED BY <2>1, LeastOfSome
    <2> QED BY <2>2
<1> DEFINE Q == {k \in P : b(k) = b(h)}
           cs == [k \in Q |-> c(k)]
<1>5. PICK k \in Q : \A j \in Q : c(k) <= c(j)
    <2>1. cs \in [Q -> Int] /\ Q \in SUBSET (1 .. m) /\ Q # {}
        BY <1>1
    <2>2. \E k \in Q : \A j \in Q : cs[k] <= cs[j]
        <3> HIDE DEF cs, Q
        <3> QED BY <2>1, LeastOfSome
    <2> QED BY <2>2
<1>6. ASSUME NEW j \in places, LessTrusted(Trust(rows[j]), Trust(rows[k])) PROVE FALSE
    <2> DEFINE x == <<a(j), b(j), c(j)>>
               y == <<a(k), b(k), c(k)>>
    <2>1. PICK p \in 1 .. 3 : x[p] < y[p] /\ \A q \in 1 .. p - 1 : x[q] = y[q]
        BY <1>2, <1>6 DEF LessTrusted
    <2>2. CASE p = 1
        <3>1. a(j) < a(k) /\ a(k) = a(i) /\ a(i) <= a(j)
            BY <1>3, <2>1, <2>2
        <3> QED BY <1>1, <3>1
    <2>3. CASE p = 2
        <3>1. x[1] = y[1] /\ x[2] < y[2]
            BY <2>1, <2>3
        <3>2. a(j) = a(k) /\ b(j) < b(k) /\ b(k) = b(h)
            BY <3>1
        <3>3. b(h) <= b(j)
            BY <1>4, <3>2
        <3> QED BY <1>1, <3>2, <3>3
    <2>4. CASE p = 3
        <3>1. x[1] = y[1] /\ x[2] = y[2] /\ x[3] < y[3]
            BY <2>1, <2>4
        <3>2. a(j) = a(k) /\ b(j) = b(k) /\ c(j) < c(k)
            BY <3>1
        <3>3. c(k) <= c(j)
            BY <1>5, <3>2
        <3> QED BY <1>1, <3>2, <3>3
    <2> QED BY <2>1, <2>2, <2>3, <2>4
<1> QED BY <1>6

LEMMA VictimIsLeast ==
    ASSUME NEW m \in Nat, NEW kept \in SUBSET (1 .. m), kept # {},
           NEW rows, \A k \in kept : TypedRow(rows[k]), IsFiniteSet(TextColumns)
    PROVE  /\ Victim(rows, kept) \in kept
           /\ \A j \in kept : ~rows[Victim(rows, kept)].unmatched => ~rows[j].unmatched
<1> DEFINE least == {k \in kept : \A j \in kept : ~LessTrusted(Trust(rows[j]), Trust(rows[k]))}
           sets == {RowTokens(rows[k]) : k \in least}
           set == CHOOSE s \in sets : TRUE
           alike == {k \in least : RowTokens(rows[k]) = set}
<1>1. Victim(rows, kept) = Min(alike)
    BY DEF Victim
<1>2. least # {} /\ least \in SUBSET (1 .. m)
    BY LeastTrusted
<1> HIDE DEF least
<1>3. set \in sets
    BY <1>2
<1> HIDE DEF set
<1>4. alike # {} /\ alike \in SUBSET Nat
    BY <1>2, <1>3
<1>5. Min(alike) \in alike
    <2> HIDE DEF alike
    <2> QED BY <1>4, MinOfPlaces
<1>6. PICK v : v = Victim(rows, kept)
    OBVIOUS
<1>7. v \in kept /\ \A j \in kept : ~LessTrusted(Trust(rows[j]), Trust(rows[v]))
    BY <1>1, <1>5, <1>6 DEF least
<1>8. ASSUME NEW j \in kept, ~rows[v].unmatched, rows[j].unmatched PROVE FALSE
    <2> DEFINE x == Trust(rows[j])
               y == Trust(rows[v])
    <2>1. x[1] = 0 /\ y[1] = 1 /\ DOMAIN x = 1 .. 3
        BY <1>8 DEF Trust
    <2> HIDE DEF x, y
    <2>2. LessTrusted(x, y)
        BY <2>1 DEF LessTrusted
    <2> QED BY <1>7, <2>2 DEF x, y
<1> QED BY <1>6, <1>7, <1>8

-----------------------------------------------------------------------------
(* The repair of an invariant *)

FitsWhole(rows, inv) == ShareSum(rows, inv.share) <= inv.total + inv.tolerance

\* What one pass of the loop of _enforce_invariant leaves of the rows.
Reduced(rows, inv, kept) ==
    IF FitsWhole(At(rows, kept), inv) \/ Cardinality(kept) <= 1 THEN kept ELSE kept \ {Victim(rows, kept)}

\* The loop, as a function of the number of passes
Passes(rows, inv, N, f) ==
    /\ f[0] = 1 .. N
    /\ \A n \in (0 + 1) .. N : f[n] = Reduced(rows, inv, f[n - 1])
    /\ inv.repair => EnforceInvariant(rows, inv) = At(rows, f[N])

LEMMA RepairByPass ==
    ASSUME NEW rows, TypedRows(rows), NEW inv, NEW N \in Nat, N = Len(rows)
    PROVE  \E f \in [0 .. N -> SUBSET (1 .. N)] : Passes(rows, inv, N, f)
<1> DEFINE V == SUBSET (1 .. N)
           fits(kept) == ShareSum(At(rows, kept), inv.share) <= inv.total + inv.tolerance
           body(f) == [n \in 0 .. N |->
                         IF n = 0 THEN DOMAIN rows
                         ELSE IF fits(f[n - 1]) \/ Cardinality(f[n - 1]) <= 1 THEN f[n - 1]
                         ELSE f[n - 1] \ {Victim(rows, f[n - 1])}]
           upTo == CHOOSE f : f = body(f)
           next == [p \in (0 .. N) \X V |-> Reduced(rows, inv, p[2])]
<1>1. inv.repair => EnforceInvariant(rows, inv) = At(rows, upTo[N])
    BY DEF EnforceInvariant
<1>2. DOMAIN rows = 1 .. N
    BY DEF TypedRows
<1>3. \A kept \in V : Reduced(rows, inv, kept) \in V
    BY DEF Reduced
<1>4. 1 .. N \in V /\ next \in [(0 .. N) \X V -> V]
    BY <1>3
<1> DEFINE loop(f) == [n \in 0 .. N |-> IF n = 0 THEN 1 .. N ELSE Reduced(rows, inv, f[n - 1])]
<1>5. \A f : body(f) = loop(f)
    BY <1>2 DEF Reduced, FitsWhole
<1>6. upTo = CHOOSE f : f = loop(f)
    BY <1>5
<1> HIDE DEF V, upTo, body
<1>7. PICK f \in [0 .. N -> V] : Follows(f, 0, N, 1 .. N, next)
    <2> HIDE DEF next
    <2>1. 0 \in Nat /\ 0 <= N
        OBVIOUS
    <2> QED BY <1>4, <2>1, RecursionOverRange
<1>8. f = loop(f)
    <2>1. \A n \in 0 .. N : n # 0 => n \in (0 + 1) .. N /\ n - 1 \in 0 .. N
        OBVIOUS
    <2>2. \A n \in 0 .. N : n # 0 => next[<<n, f[n - 1]>>] = Reduced(rows, inv, f[n - 1])
        BY <2>1
    <2> HIDE DEF next
    <2>3. f = [n \in 0 .. N |-> f[n]] /\ f[0] = 1 .. N
        BY <1>7 DEF Follows
    <2>4. \A n \in (0 + 1) .. N : f[n] = next[<<n, f[n - 1]>>]
        BY <1>7 DEF Follows
    <2>5. \A n \in 0 .. N : n # 0 => f[n] = Reduced(rows, inv, f[n - 1])
        BY <2>1, <2>2, <2>4
    <2> QED BY <2>3, <2>5
<1>9. upTo = loop(upTo)
    BY <1>6, <1>8
<1>10. /\ upTo = [n \in 0 .. N |-> upTo[n]] /\ upTo[0] = 1 .. N
       /\ \A n \in (0 + 1) .. N : upTo[n] = Reduced(rows, inv, upTo[n - 1])
    BY <1>9
<1> DEFINE Good == {n \in 0 .. N : upTo[n] \in V}
<1>11. 0 \in Good
    BY <1>4, <1>10
<1>12. ASSUME NEW n \in (0 + 1) .. N, n - 1 \in Good PROVE n \in Good
    BY <1>3, <1>10, <1>12
<1>13. \A n \in 0 .. N : upTo[n] \in V
    <2> HIDE DEF Good
    <2>1. 0 .. N \subseteq Good
        BY <1>11, <1>12, RangeInduction
    <2> QED BY <2>1 DEF Good
<1>14. upTo \in [0 .. N -> V]
    BY <1>10, <1>13
<1> QED BY <1>1, <1>10, <1>14 DEF Passes, V

\* What is left after a number of passes: fewer rows, unless they fit or one is
\* left, and none that was made up once a supported one is gone.
LeftOver(rows, inv, N, n, kept) ==
    /\ kept \subseteq 1 .. N
    /\ FitsWhole(At(rows, kept), inv) \/ Cardinality(kept) <= 1 \/ Cardinality(kept) <= N - n
    /\ FitsWhole(rows, inv) => kept = 1 .. N
    /\ (\E k \in (1 .. N) \ kept : ~rows[k].unmatched) => \A k \in kept : ~rows[k].unmatched

LEMMA PassLeaves ==
    ASSUME NEW rows, TypedRows(rows), IsFiniteSet(TextColumns), NEW inv, NEW N \in Nat, N = Len(rows),
           NEW n \in 1 .. N, NEW kept, LeftOver(rows, inv, N, n - 1, kept),
           NEW new, new = Reduced(rows, inv, kept)
    PROVE  LeftOver(rows, inv, N, n, new)
<1>1. kept \in SUBSET (1 .. N) /\ IsFiniteSet(kept) /\ Cardinality(kept) \in Nat
    <2>1. kept \in SUBSET (1 .. N)
        BY DEF LeftOver
    <2> QED BY <2>1, RankOfPlace
<1>2. CASE new = kept /\ (FitsWhole(At(rows, kept), inv) \/ Cardinality(kept) <= 1)
    BY <1>2 DEF LeftOver
<1>3. CASE ~FitsWhole(At(rows, kept), inv) /\ ~(Cardinality(kept) <= 1)
    <2> DEFINE v == Victim(rows, kept)
    <2>1. new = kept \ {v}
        BY <1>3 DEF Reduced
    <2>2. v \in kept /\ \A j \in kept : ~rows[v].unmatched => ~rows[j].unmatched
        <3>1. kept # {}
            BY <1>1, <1>3, FS_EmptySet
        <3>2. \A k \in kept : TypedRow(rows[k])
            BY <1>1 DEF TypedRows
        <3> HIDE DEF v
        <3> QED BY <1>1, <3>1, <3>2, VictimIsLeast DEF v
    <2> HIDE DEF v
    <2>3. Cardinality(new) = Cardinality(kept) - 1
        BY <1>1, <2>1, <2>2, FS_RemoveElement
    <2>4. Cardinality(new) <= N - n
        <3>1. Cardinality(kept) <= N - (n - 1)
            BY <1>3 DEF LeftOver
        <3> QED BY <1>1, <2>3, <3>1
    <2>5. ~FitsWhole(rows, inv)
        <3>1. At(rows, 1 .. N) = rows
            <4>1. DOMAIN rows = 1 .. N /\ rows \in Seq(ToSet(rows))
                BY DEF TypedRows
            <4> QED BY <4>1, ItemsAtAllPlaces
        <3> QED BY <1>3, <3>1 DEF LeftOver
    <2>6. ASSUME NEW k \in (1 .. N) \ new, ~rows[k].unmatched, NEW j \in new
          PROVE  ~rows[j].unmatched
        <3>1. CASE k = v
            BY <2>1, <2>2, <2>6, <3>1
        <3>2. CASE k # v
            BY <2>1, <2>6, <3>2 DEF LeftOver
        <3> QED BY <3>1, <3>2
    <2> QED BY <1>1, <2>1, <2>4, <2>5, <2>6 DEF LeftOver
<1> QED BY <1>2, <1>3 DEF Reduced

\* The rows of the model, repaired
Repaired(built, inv, out) ==
    \E kept \in SUBSET DOMAIN built :
        /\ out = At(built, kept)
        /\ FitsWhole(out, inv) \/ Len(out) <= 1
        /\ FitsWhole(built, inv) => kept = DOMAIN built
        /\ (\E k \in DOMAIN built \ kept : ~built[k].unmatched) => \A k \in kept : ~built[k].unmatched

LEMMA InvariantEnforced ==
    ASSUME NEW rows, TypedRows(rows), IsFiniteSet(TextColumns), NEW inv,
           NEW out, out = EnforceInvariant(rows, inv)
    PROVE  TypedRows(out) /\ (inv.repair => Repaired(rows, inv, out))
<1> DEFINE N == Len(rows)
<1>1. N \in Nat /\ DOMAIN rows = 1 .. N /\ rows \in Seq(ToSet(rows))
    BY DEF TypedRows
<1>2. PICK f \in [0 .. N -> SUBSET (1 .. N)] : Passes(rows, inv, N, f)
    BY <1>1, RepairByPass
<1>3. CASE ~inv.repair
    BY <1>3 DEF EnforceInvariant
<1>4. CASE inv.repair
    <2> DEFINE Good == {n \in 0 .. N : LeftOver(rows, inv, N, n, f[n])}
    <2>1. 0 \in Good
        <3>1. Cardinality(1 .. N) = N
            BY <1>1, RangeSize
        <3>2. f[0] = 1 .. N /\ Cardinality(f[0]) <= N - 0
            BY <1>1, <1>2, <3>1 DEF Passes
        <3> QED BY <1>1, <3>2 DEF LeftOver
    <2>2. ASSUME NEW n \in (0 + 1) .. N, n - 1 \in Good PROVE n \in Good
        <3>1. f[n] = Reduced(rows, inv, f[n - 1]) /\ n \in 1 .. N /\ n \in 0 .. N
            BY <1>1, <1>2 DEF Passes
        <3> QED BY <1>1, <2>2, <3>1, PassLeaves
    <2>3. LeftOver(rows, inv, N, N, f[N])
        <3> HIDE DEF Good
        <3>1. 0 .. N \subseteq Good
            BY <1>1, <2>1, <2>2, RangeInduction
        <3> QED BY <1>1, <3>1 DEF Good
    <2> DEFINE kept == f[N]
    <2>4. kept \in SUBSET (1 .. N) /\ out = At(rows, kept)
        BY <1>1, <1>2, <1>4 DEF Passes
    <2> HIDE DEF kept
    <2>5. PICK m : m = Cardinality(kept)
        OBVIOUS
    <2>6. m \in Nat /\ DOMAIN out = 1 .. m /\ out = [i \in 1 .. m |-> out[i]]
          /\ \A i \in DOMAIN out : \E k \in kept : out[i] = rows[k]
        BY <1>1, <2>4, <2>5, ItemsAtPlaces
    <2>7. out \in Seq(ToSet(out)) /\ Len(out) = m
        <3>1. out \in Seq(ToSet(out))
            BY <2>6, SequenceOfItself
        <3> QED BY <2>6, <3>1
    <2>8. TypedRows(out)
        BY <1>1, <2>4, <2>6, <2>7 DEF TypedRows
    <2>9. FitsWhole(out, inv) \/ Len(out) <= 1
        BY <1>1, <2>3, <2>4, <2>5, <2>6, <2>7 DEF LeftOver, kept
    <2> QED BY <1>1, <2>3, <2>4, <2>8, <2>9 DEF LeftOver, Repaired, kept
<1> QED BY <1>3, <1>4

LEMMA RowsAreProduced ==
    ASSUME NEW rows, TypedRows(rows), rows # <<>>, IsFiniteSet(TextColumns),
           NEW drafts, TypedDrafts(drafts), NEW inv,
           NEW out, out = ProducedRows(drafts, rows, inv),
           NEW built, built = RebuildRows(drafts, rows, inv # None)
    PROVE  /\ TypedRows(out)
           /\ inv # None => Flagged(built, rows)
           /\ inv # None /\ inv.repair => Repaired(built, inv, out)
<1>1. TypedRows(built) /\ (inv # None => Flagged(built, rows))
    BY BuiltRows
<1>2. CASE inv = None
    BY <1>1, <1>2 DEF ProducedRows
<1>3. CASE inv # None
    <2>1. out = EnforceInvariant(built, inv)
        BY <1>3 DEF ProducedRows
    <2> QED BY <1>1, <1>3, <2>1, InvariantEnforced
<1> QED BY <1>2, <1>3

-----------------------------------------------------------------------------
(* The groups of a task *)

\* Groups in which every field of the document type is still in its place
OfType(gs, doc) ==
    /\ gs \in Seq(ToSet(gs))
    /\ \A g \in DOMAIN gs : "fields" \in DOMAIN gs[g]
    /\ \A g \in DOMAIN doc.groups : \A k \in DOMAIN doc.groups[g].fields :
          /\ g \in DOMAIN gs /\ k \in DOMAIN gs[g].fields
          /\ "name" \in DOMAIN gs[g].fields[k]
          /\ gs[g].fields[k].name = doc.groups[g].fields[k].name

\* The groups have the fields of the others, whatever they say of them.
SameFields(gs, hs) ==
    /\ DOMAIN hs = DOMAIN gs
    /\ \A g \in DOMAIN gs :
         /\ "fields" \in DOMAIN hs[g] /\ DOMAIN hs[g].fields = DOMAIN gs[g].fields
         /\ \A k \in DOMAIN gs[g].fields :
               "name" \in DOMAIN gs[g].fields[k] => /\ "name" \in DOMAIN hs[g].fields[k]
                                                    /\ hs[g].fields[k].name = gs[g].fields[k].name

LEMMA SameFieldsOfType ==
    ASSUME NEW gs, NEW doc, OfType(gs, doc), NEW hs, hs = [g \in DOMAIN gs |-> hs[g]], SameFields(gs, hs)
    PROVE  OfType(hs, doc)
<1>1. DOMAIN gs = 1 .. Len(gs) /\ Len(gs) \in Nat
    BY DEF OfType
<1>2. hs \in Seq(ToSet(hs))
    BY <1>1, SequenceOfItself
<1> QED BY <1>2 DEF OfType, SameFields

\* The answer of a call, normalised
LEMMA NormalisedOfType ==
    ASSUME NEW answer, NEW doc, doc.groups \in Seq(ToSet(doc.groups)), NEW gs, gs = NormaliseDoc(answer, doc)
    PROVE  /\ OfType(gs, doc) /\ DOMAIN gs = DOMAIN doc.groups
           /\ \A g \in DOMAIN gs : DOMAIN gs[g].fields = DOMAIN doc.groups[g].fields
<1>1. DOMAIN doc.groups = 1 .. Len(doc.groups) /\ Len(doc.groups) \in Nat
    OBVIOUS
<1> DEFINE payload(spec, default) == IF spec.name \in DOMAIN answer THEN answer[spec.name] ELSE default
           field(spec) == IF spec.kind = "array" THEN ArrayFromPayload(spec, payload(spec, NoArray))
                          ELSE ScalarFromPayload(spec.name, payload(spec, NoScalar))
<1>2. gs = [g \in DOMAIN doc.groups |->
              [name   |-> doc.groups[g].name,
               fields |-> [k \in DOMAIN doc.groups[g].fields |-> field(doc.groups[g].fields[k])]]]
    BY DEF NormaliseDoc
<1>3. \A spec : field(spec).name = spec.name /\ "name" \in DOMAIN field(spec)
    <2>1. \A spec, raw : /\ ArrayFromPayload(spec, raw).name = spec.name
                         /\ "name" \in DOMAIN ArrayFromPayload(spec, raw)
        BY DEF ArrayFromPayload
    <2>2. \A name, raw : /\ ScalarFromPayload(name, raw).name = name
                         /\ "name" \in DOMAIN ScalarFromPayload(name, raw)
        BY DEF ScalarFromPayload
    <2> QED BY <2>1, <2>2
<1> HIDE DEF field
<1>4. /\ DOMAIN gs = DOMAIN doc.groups
      /\ \A g \in DOMAIN doc.groups :
           /\ gs[g] = [name   |-> doc.groups[g].name,
                       fields |-> [k \in DOMAIN doc.groups[g].fields |-> field(doc.groups[g].fields[k])]]
    BY <1>2
<1>5. ASSUME NEW g \in DOMAIN doc.groups
      PROVE  /\ "fields" \in DOMAIN gs[g] /\ DOMAIN gs[g].fields = DOMAIN doc.groups[g].fields
             /\ \A k \in DOMAIN doc.groups[g].fields :
                   /\ "name" \in DOMAIN gs[g].fields[k]
                   /\ gs[g].fields[k].name = doc.groups[g].fields[k].name
    <2> DEFINE specs == doc.groups[g].fields
               found == [k \in DOMAIN specs |-> field(specs[k])]
    <2>1. gs[g] = [name |-> doc.groups[g].name, fields |-> found]
        BY <1>4
    <2>2. DOMAIN found = DOMAIN specs /\ \A k \in DOMAIN specs : found[k] = field(specs[k])
        OBVIOUS
    <2> HIDE DEF found
    <2>3. "fields" \in DOMAIN gs[g] /\ gs[g].fields = found
        BY <2>1
    <2>4. \A k \in DOMAIN specs : "name" \in DOMAIN found[k] /\ found[k].name = specs[k].name
        BY <1>3, <2>2
    <2> QED BY <2>2, <2>3, <2>4
<1>6. gs = [g \in 1 .. Len(doc.groups) |-> gs[g]]
    BY <1>1, <1>2
<1>7. gs \in Seq(ToSet(gs))
    BY <1>1, <1>6, SequenceOfItself
<1> QED BY <1>4, <1>5, <1>7 DEF OfType

\* What a field says of itself may change; its name does not.
LEMMA NameStays ==
    ASSUME NEW f, "name" \in DOMAIN f, NEW v, NEW b
    PROVE  /\ "name" \in DOMAIN [f EXCEPT !.valid = b] /\ [f EXCEPT !.valid = b].name = f.name
           /\ "name" \in DOMAIN [f EXCEPT !.value = v, !.valid = b]
           /\ [f EXCEPT !.value = v, !.valid = b].name = f.name
OBVIOUS

LEMMA FieldsReplaced ==
    ASSUME NEW x, "fields" \in DOMAIN x, NEW new
    PROVE  "fields" \in DOMAIN [x EXCEPT !.fields = new] /\ [x EXCEPT !.fields = new].fields = new
OBVIOUS

LEMMA ValidatedOfType ==
    ASSUME NEW gs, NEW doc, OfType(gs, doc), NEW spec, NEW hs, hs = Validated(spec, gs)
    PROVE  OfType(hs, doc)
<1> DEFINE checked(s, f) == IF s.kind = "array" THEN ValidatedArray(s, f)
                            ELSE [f EXCEPT !.valid = HardErrors(s.checks, f.value) = {}]
           found(g) == [k \in DOMAIN gs[g].fields |-> checked(spec.groups[g].fields[k], gs[g].fields[k])]
<1>1. hs = [g \in DOMAIN gs |-> [gs[g] EXCEPT !.fields = found(g)]]
    BY DEF Validated
<1>2. ASSUME NEW s, NEW f, "name" \in DOMAIN f
      PROVE  "name" \in DOMAIN checked(s, f) /\ checked(s, f).name = f.name
    <2>1. CASE s.kind = "array"
        <3>1. PICK v, b : ValidatedArray(s, f) = [f EXCEPT !.value = v, !.valid = b]
            BY DEF ValidatedArray
        <3> QED BY <1>2, <2>1, <3>1, NameStays
    <2>2. CASE s.kind # "array"
        BY <1>2, <2>2, NameStays
    <2> QED BY <2>1, <2>2
<1> HIDE DEF checked
<1>3. ASSUME NEW g \in DOMAIN gs
      PROVE  /\ DOMAIN found(g) = DOMAIN gs[g].fields
             /\ \A k \in DOMAIN gs[g].fields :
                   "name" \in DOMAIN gs[g].fields[k] => /\ "name" \in DOMAIN found(g)[k]
                                                        /\ found(g)[k].name = gs[g].fields[k].name
    BY <1>2
<1> HIDE DEF found
<1>4. DOMAIN hs = DOMAIN gs /\ \A g \in DOMAIN gs : "fields" \in DOMAIN hs[g] /\ hs[g].fields = found(g)
    BY <1>1, FieldsReplaced DEF OfType
<1>5. SameFields(gs, hs)
    BY <1>3, <1>4 DEF SameFields
<1> QED BY <1>1, <1>5, SameFieldsOfType

\* The rows of a transformation are put at the end or in the place of others.
LEMMA WithRowsOfType ==
    ASSUME NEW gs, NEW doc, OfType(gs, doc), NEW tr, NEW output, NEW rows,
           NEW hs, hs = WithRows(gs, tr, output, rows)
    PROVE  OfType(hs, doc)
<1> DEFINE g == FindGroup(gs, tr.target)
           k == FindArray(gs[g])
           new == [gs[g].fields[k] EXCEPT !.value = rows, !.valid = TRUE]
           group == [name |-> output, fields |-> <<new>>]
<1>1. hs = IF output # None THEN Append(gs, group) ELSE [gs EXCEPT ![g].fields[k] = new]
    BY DEF WithRows
<1> HIDE DEF g, k
<1>2. CASE output # None
    <2>1. "fields" \in DOMAIN group
        OBVIOUS
    <2> HIDE DEF group
    <2> DEFINE S == ToSet(gs) \cup {group}
               n == Len(gs)
    <2>2. hs = Append(gs, group)
        BY <1>1, <1>2
    <2>3. gs \in Seq(S) /\ group \in S /\ n \in Nat /\ DOMAIN gs = 1 .. n
        BY DEF OfType, ToSet
    <2>4. /\ hs \in Seq(S) /\ Len(hs) = n + 1
          /\ \A i \in 1 .. n : hs[i] = gs[i]
          /\ hs[n + 1] = group
        <3> HIDE DEF S
        <3> QED BY <2>2, <2>3, AppendProperties
    <2>5. DOMAIN hs = 1 .. (n + 1)
        <3> HIDE DEF S
        <3> QED BY <2>4
    <2>6. hs = [i \in 1 .. (n + 1) |-> hs[i]]
        <3> HIDE DEF S
        <3> QED BY <2>4, <2>5
    <2>7. hs \in Seq(ToSet(hs))
        <3>1. n + 1 \in Nat
            BY <2>3
        <3> QED BY <2>6, <3>1, SequenceOfItself
    <2>8. \A i \in 1 .. (n + 1) : i \in 1 .. n \/ i = n + 1
        BY <2>3
    <2>9. \A i \in 1 .. n : i \in 1 .. (n + 1)
        BY <2>3
    <2> HIDE DEF n, S
    <2>10. \A i \in DOMAIN hs : "fields" \in DOMAIN hs[i]
        BY <2>1, <2>3, <2>4, <2>5, <2>8 DEF OfType
    <2> QED BY <2>3, <2>4, <2>5, <2>7, <2>9, <2>10 DEF OfType
<1>3. CASE output = None
    <2>1. hs = [gs EXCEPT ![g] = [gs[g] EXCEPT !.fields = [gs[g].fields EXCEPT ![k] = new]]]
        BY <1>1, <1>3
    <2> DEFINE fields == [gs[g].fields EXCEPT ![k] = new]
    <2>2. ASSUME g \in DOMAIN gs
          PROVE  /\ DOMAIN fields = DOMAIN gs[g].fields
                 /\ \A i \in DOMAIN fields :
                      "name" \in DOMAIN gs[g].fields[i] => /\ "name" \in DOMAIN fields[i]
                                                           /\ fields[i].name = gs[g].fields[i].name
        <3>1. "name" \in DOMAIN gs[g].fields[k] => /\ "name" \in DOMAIN new
                                                   /\ new.name = gs[g].fields[k].name
            BY NameStays
        <3> HIDE DEF new
        <3> QED BY <3>1
    <2> HIDE DEF fields
    <2>3. DOMAIN hs = DOMAIN gs
          /\ \A h \in DOMAIN gs : hs[h] = IF h = g THEN [gs[g] EXCEPT !.fields = fields] ELSE gs[h]
        BY <2>1 DEF fields
    <2>4. SameFields(gs, hs)
        BY <2>2, <2>3, FieldsReplaced DEF OfType, SameFields
    <2>5. hs = [h \in DOMAIN gs |-> hs[h]]
        BY <2>1
    <2> QED BY <2>4, <2>5, SameFieldsOfType
<1> QED BY <1>2, <1>3

\* A field of the first pass is left alone unless it is an empty array: the
\* second pass fills fields by their names, and no two fields share one.
LEMMA MergeKeepsFirstPass ==
    ASSUME NEW doc, doc.groups \in Seq(ToSet(doc.groups)), ~SharesName(doc),
           NEW a, NEW old, old = NormaliseDoc(a, doc),
           NEW b, NEW retry, retry = NormaliseDoc(b, doc),
           NEW hs, hs = MergeAfterRetry(old, retry, SuspiciousEmptyArrays(old))
    PROVE  /\ OfType(hs, doc)
           /\ \A g \in DOMAIN old : \A k \in DOMAIN old[g].fields :
                 IsEmptyArray(old[g].fields[k]) \/ hs[g].fields[k] = old[g].fields[k]
<1> DEFINE names == SuspiciousEmptyArrays(old)
           found(g) == [k \in DOMAIN old[g].fields |->
                          IF old[g].fields[k].name \in names THEN retry[g].fields[k] ELSE old[g].fields[k]]
<1>1. /\ OfType(old, doc) /\ DOMAIN old = DOMAIN doc.groups
      /\ \A g \in DOMAIN old : DOMAIN old[g].fields = DOMAIN doc.groups[g].fields
      /\ OfType(retry, doc)
    BY NormalisedOfType
<1>2. hs = [g \in DOMAIN old |-> [old[g] EXCEPT !.fields = found(g)]]
    BY DEF MergeAfterRetry
<1>3. ASSUME NEW g \in DOMAIN old
      PROVE  /\ "fields" \in DOMAIN hs[g] /\ hs[g].fields = found(g)
             /\ DOMAIN found(g) = DOMAIN old[g].fields
             /\ \A k \in DOMAIN old[g].fields :
                   /\ "name" \in DOMAIN found(g)[k]
                   /\ found(g)[k].name = old[g].fields[k].name
                   /\ old[g].fields[k].name \notin names => found(g)[k] = old[g].fields[k]
    <2>1. \A k \in DOMAIN old[g].fields : /\ "name" \in DOMAIN old[g].fields[k]
                                         /\ "name" \in DOMAIN retry[g].fields[k]
                                         /\ retry[g].fields[k].name = old[g].fields[k].name
        BY <1>1 DEF OfType
    <2>2. \A k \in DOMAIN old[g].fields :
             found(g)[k] = IF old[g].fields[k].name \in names THEN retry[g].fields[k] ELSE old[g].fields[k]
        OBVIOUS
    <2>3. DOMAIN found(g) = DOMAIN old[g].fields
        OBVIOUS
    <2>4. hs[g] = [old[g] EXCEPT !.fields = found(g)] /\ "fields" \in DOMAIN old[g]
        BY <1>1, <1>2 DEF OfType
    <2> HIDE DEF found, names
    <2>5. "fields" \in DOMAIN hs[g] /\ hs[g].fields = found(g)
        BY <2>4, FieldsReplaced
    <2> QED BY <2>1, <2>2, <2>3, <2>5
<1>4. ASSUME NEW g \in DOMAIN old, NEW k \in DOMAIN old[g].fields, old[g].fields[k].name \in names
      PROVE  IsEmptyArray(old[g].fields[k])
    <2> DEFINE arrays == {f \in FieldsIn(old) : f.kind = "array"}
    <2>1. /\ names = {f.name : f \in arrays}
          /\ \A f \in arrays : f.value = <<>>
        BY <1>4 DEF SuspiciousEmptyArrays
    <2>2. PICK f \in FieldsIn(old) : f.kind = "array" /\ f.name = old[g].fields[k].name /\ f.value = <<>>
        BY <1>4, <2>1
    <2>3. PICK h \in DOMAIN old : f \in ToSet(old[h].fields)
        BY DEF FieldsIn
    <2>4. PICK i \in DOMAIN old[h].fields : f = old[h].fields[i]
        BY <2>3 DEF ToSet
    <2>5. <<g, k>> \in FieldPlaces(doc) /\ <<h, i>> \in FieldPlaces(doc)
        BY <1>1 DEF FieldPlaces
    <2>6. FieldAt(doc, <<g, k>>).name = FieldAt(doc, <<h, i>>).name
        BY <1>1, <2>2, <2>4 DEF FieldAt, OfType
    <2>7. <<g, k>> = <<h, i>>
        BY <2>5, <2>6 DEF SharesName
    <2> QED BY <2>2, <2>4, <2>7 DEF IsEmptyArray
<1> HIDE DEF names, found
<1>5. SameFields(old, hs)
    <2>1. DOMAIN hs = DOMAIN old
        BY <1>2
    <2>2. ASSUME NEW g \in DOMAIN old
          PROVE  /\ "fields" \in DOMAIN hs[g] /\ DOMAIN hs[g].fields = DOMAIN old[g].fields
                 /\ \A k \in DOMAIN old[g].fields : /\ "name" \in DOMAIN hs[g].fields[k]
                                                     /\ hs[g].fields[k].name = old[g].fields[k].name
        BY <1>3
    <2> QED BY <2>1, <2>2 DEF SameFields
<1>6. OfType(hs, doc)
    BY <1>1, <1>2, <1>5, SameFieldsOfType
<1> QED BY <1>3, <1>4, <1>6

-----------------------------------------------------------------------------
(* The rows of a task's groups *)

\* Groups whose arrays are lists of such rows
TypedField(f) == {"kind", "value"} \subseteq DOMAIN f /\ (f.kind = "array" => TypedRows(f.value))
TypedGroup(group) ==
    /\ "fields" \in DOMAIN group /\ group.fields \in Seq(ToSet(group.fields))
    /\ \A k \in DOMAIN group.fields : TypedField(group.fields[k])
TypedGroups(gs) == gs \in Seq(ToSet(gs)) /\ \A g \in DOMAIN gs : TypedGroup(gs[g])

LEMMA CoercedScalar ==
    ASSUME NEW name, NEW raw, NEW c, c \in TextColumns => raw.value = Blank \/ IsText(raw.value),
           NEW cell, cell = ScalarFromPayload(name, raw)
    PROVE  "value" \in DOMAIN cell /\ (c \in TextColumns => IsText(cell.value))
<1>1. "value" \in DOMAIN cell /\ cell.value = IF raw.value = Blank THEN None ELSE raw.value
    BY DEF ScalarFromPayload
<1> QED BY <1>1 DEF IsText

LEMMA AnsweredArray ==
    ASSUME NEW spec, NEW raw, raw.rows \in Seq(ToSet(raw.rows)),
           \A row \in ToSet(raw.rows) : \A c \in TextColumns \cap DOMAIN row :
              row[c].value = Blank \/ IsText(row[c].value),
           NEW f, f = ArrayFromPayload(spec, raw)
    PROVE  TypedField(f)
<1> DEFINE payload(k, c) == IF c \in DOMAIN raw.rows[k] THEN raw.rows[k][c] ELSE NoScalar
           cell(k, c) == ScalarFromPayload(c, payload(k, c))
           found  == [k \in DOMAIN raw.rows |-> UNION {cell(k, c).pages : c \in DOMAIN spec.columns}]
           row(k) == [cells |-> [c \in DOMAIN spec.columns |-> cell(k, c)],
                      pages |-> PagesUpTo(found, k),
                      conf |-> 0, bbox |-> None, unmatched |-> FALSE]
           rows == [k \in DOMAIN raw.rows |-> row(k)]
<1>1. {"kind", "value"} \subseteq DOMAIN f /\ f.value = rows
    BY DEF ArrayFromPayload
<1>2. ASSUME NEW k \in DOMAIN raw.rows, NEW c \in DOMAIN spec.columns
      PROVE  "value" \in DOMAIN cell(k, c) /\ (c \in TextColumns => IsText(cell(k, c).value))
    <2>1. NoScalar.value = None
        BY DEF NoScalar
    <2>2. raw.rows[k] \in ToSet(raw.rows)
        BY DEF ToSet
    <2>3. c \in TextColumns => payload(k, c).value = Blank \/ IsText(payload(k, c).value)
        BY <2>1, <2>2 DEF IsText
    <2> HIDE DEF payload
    <2> QED BY <2>3, CoercedScalar
<1> HIDE DEF cell, found
<1>3. ASSUME NEW k \in DOMAIN raw.rows PROVE TypedRow(row(k))
    <2>1. {"cells", "conf"} \subseteq DOMAIN row(k) /\ row(k).conf = 0
          /\ row(k).cells = [c \in DOMAIN spec.columns |-> cell(k, c)]
        OBVIOUS
    <2> HIDE DEF row
    <2> QED BY <1>2, <2>1 DEF TypedRow
<1> HIDE DEF row
<1>4. DOMAIN raw.rows = 1 .. Len(raw.rows) /\ Len(raw.rows) \in Nat
    OBVIOUS
<1>5. rows \in Seq(ToSet(rows))
    <2>1. rows = [k \in 1 .. Len(raw.rows) |-> rows[k]]
        BY <1>4
    <2> HIDE DEF rows
    <2> QED BY <1>4, <2>1, SequenceOfItself
<1>6. TypedRows(rows)
    BY <1>3, <1>5 DEF TypedRows
<1> QED BY <1>1, <1>6 DEF TypedField

LEMMA AnswerIsTyped ==
    ASSUME NEW r \in Requests, NEW doc \in ToSet(r.docs), NEW a \in Answers[doc.id],
           NEW gs, gs = NormaliseDoc(a, doc)
    PROVE  TypedGroups(gs)
<1>0. doc.groups \in Seq(ToSet(doc.groups))
    BY RequestShape
<1>1. DOMAIN doc.groups = 1 .. Len(doc.groups) /\ Len(doc.groups) \in Nat
    BY <1>0
<1> DEFINE payload(spec, default) == IF spec.name \in DOMAIN a THEN a[spec.name] ELSE default
           field(spec) == IF spec.kind = "array" THEN ArrayFromPayload(spec, payload(spec, NoArray))
                          ELSE ScalarFromPayload(spec.name, payload(spec, NoScalar))
           group(spec) == [name |-> spec.name, fields |-> [k \in DOMAIN spec.fields |-> field(spec.fields[k])]]
<1>2. gs = [g \in DOMAIN doc.groups |-> group(doc.groups[g])]
    BY DEF NormaliseDoc
<1>3. ASSUME NEW g \in ToSet(doc.groups), NEW spec \in ToSet(g.fields) PROVE TypedField(field(spec))
    <2>1. CASE spec.kind = "array"
        <3> DEFINE raw == payload(spec, NoArray)
        <3>1. spec.name \in DOMAIN a =>
                 /\ raw.rows \in Seq(ToSet(raw.rows))
                 /\ \A row \in ToSet(raw.rows) : \A c \in TextColumns \cap DOMAIN row :
                      row[c].value = Blank \/ IsText(row[c].value)
            BY <1>3, <2>1, SyncAssumption
        <3>2. spec.name \notin DOMAIN a => raw.rows = <<>>
            BY DEF NoArray
        <3>3. field(spec) = ArrayFromPayload(spec, raw)
            BY <2>1
        <3> HIDE DEF raw, field
        <3>4. <<>> \in Seq(ToSet(<<>>)) /\ ToSet(<<>>) = {}
            BY DEF ToSet
        <3>5. /\ raw.rows \in Seq(ToSet(raw.rows))
              /\ \A row \in ToSet(raw.rows) : \A c \in TextColumns \cap DOMAIN row :
                   row[c].value = Blank \/ IsText(row[c].value)
            BY <3>1, <3>2, <3>4
        <3> QED BY <3>3, <3>5, AnsweredArray
    <2>2. CASE spec.kind # "array"
        <3>1. field(spec) = ScalarFromPayload(spec.name, payload(spec, NoScalar))
            BY <2>2
        <3> HIDE DEF field
        <3>2. {"kind", "value"} \subseteq DOMAIN field(spec) /\ field(spec).kind = "scalar"
            BY <3>1 DEF ScalarFromPayload
        <3> QED BY <3>2 DEF TypedField
    <2> QED BY <2>1, <2>2
<1> HIDE DEF field
<1>4. ASSUME NEW g \in ToSet(doc.groups) PROVE TypedGroup(group(g))
    <2> DEFINE fields == [k \in DOMAIN g.fields |-> field(g.fields[k])]
    <2>1. g.fields \in Seq(ToSet(g.fields))
        BY <1>4, SyncAssumption
    <2>2. DOMAIN g.fields = 1 .. Len(g.fields) /\ Len(g.fields) \in Nat
        BY <2>1
    <2>3. \A k \in DOMAIN fields : TypedField(fields[k])
        BY <1>3 DEF ToSet
    <2>4. fields \in Seq(ToSet(fields))
        <3>1. fields = [k \in 1 .. Len(g.fields) |-> fields[k]]
            BY <2>2
        <3> HIDE DEF fields
        <3> QED BY <2>2, <3>1, SequenceOfItself
    <2>5. "fields" \in DOMAIN group(g) /\ group(g).fields = fields
        OBVIOUS
    <2> HIDE DEF fields, group
    <2> QED BY <2>3, <2>4, <2>5 DEF TypedGroup
<1> HIDE DEF group
<1>5. gs \in Seq(ToSet(gs))
    <2>1. gs = [g \in 1 .. Len(doc.groups) |-> gs[g]]
        BY <1>1, <1>2
    <2> QED BY <1>1, <2>1, SequenceOfItself
<1>6. \A g \in DOMAIN gs : TypedGroup(gs[g])
    BY <1>2, <1>4 DEF ToSet
<1> QED BY <1>5, <1>6 DEF TypedGroups

\* Groups with other fields in the same places
Refilled(group, new) ==
    /\ "fields" \in DOMAIN new /\ new.fields = [k \in DOMAIN group.fields |-> new.fields[k]]
    /\ \A k \in DOMAIN group.fields : TypedField(new.fields[k])

LEMMA RefilledGroups ==
    ASSUME NEW gs, TypedGroups(gs), NEW hs, hs = [g \in DOMAIN gs |-> hs[g]],
           \A g \in DOMAIN gs : TypedGroup(hs[g]) \/ Refilled(gs[g], hs[g])
    PROVE  TypedGroups(hs)
<1>1. DOMAIN gs = 1 .. Len(gs) /\ Len(gs) \in Nat
    BY DEF TypedGroups
<1>2. hs \in Seq(ToSet(hs))
    BY <1>1, SequenceOfItself
<1>3. ASSUME NEW g \in DOMAIN gs, Refilled(gs[g], hs[g]) PROVE TypedGroup(hs[g])
    <2> DEFINE fields == gs[g].fields
               new == hs[g].fields
    <2>1. DOMAIN fields = 1 .. Len(fields) /\ Len(fields) \in Nat
        BY DEF TypedGroups, TypedGroup
    <2>2. new = [k \in DOMAIN fields |-> new[k]] /\ \A k \in DOMAIN fields : TypedField(new[k])
        BY <1>3 DEF Refilled
    <2>3. "fields" \in DOMAIN hs[g]
        BY <1>3 DEF Refilled
    <2>4. new \in Seq(ToSet(new)) /\ DOMAIN new = DOMAIN fields
        <3> HIDE DEF new, fields
        <3>1. new = [k \in 1 .. Len(fields) |-> new[k]]
            BY <2>1, <2>2
        <3>2. DOMAIN new = DOMAIN fields
            BY <2>2
        <3> QED BY <2>1, <3>1, <3>2, SequenceOfItself
    <2> QED BY <2>2, <2>3, <2>4 DEF TypedGroup
<1>4. DOMAIN hs = DOMAIN gs
    OBVIOUS
<1> QED BY <1>2, <1>3, <1>4 DEF TypedGroups

LEMMA MergedIsTyped ==
    ASSUME NEW r \in Requests, NEW doc \in ToSet(r.docs), NEW a \in Answers[doc.id], NEW b \in Answers[doc.id],
           NEW hs, hs = MergeAfterRetry(NormaliseDoc(a, doc), NormaliseDoc(b, doc),
                                        SuspiciousEmptyArrays(NormaliseDoc(a, doc)))
    PROVE  TypedGroups(hs)
<1> DEFINE old == NormaliseDoc(a, doc)
           retry == NormaliseDoc(b, doc)
           names == SuspiciousEmptyArrays(old)
           found(g) == [k \in DOMAIN old[g].fields |->
                          IF old[g].fields[k].name \in names THEN retry[g].fields[k] ELSE old[g].fields[k]]
<1>1. TypedGroups(old) /\ TypedGroups(retry)
    BY AnswerIsTyped
<1>2. doc.groups \in Seq(ToSet(doc.groups))
    BY RequestShape
<1>3. /\ DOMAIN old = DOMAIN doc.groups /\ DOMAIN retry = DOMAIN doc.groups
      /\ \A g \in DOMAIN old : DOMAIN old[g].fields = DOMAIN retry[g].fields
    <2>1. /\ DOMAIN old = DOMAIN doc.groups
          /\ \A g \in DOMAIN old : DOMAIN old[g].fields = DOMAIN doc.groups[g].fields
        BY <1>2, NormalisedOfType
    <2>2. /\ DOMAIN retry = DOMAIN doc.groups
          /\ \A g \in DOMAIN retry : DOMAIN retry[g].fields = DOMAIN doc.groups[g].fields
        BY <1>2, NormalisedOfType
    <2> HIDE DEF old, retry
    <2> QED BY <2>1, <2>2
<1>4. hs = [g \in DOMAIN old |-> [old[g] EXCEPT !.fields = found(g)]]
    BY DEF MergeAfterRetry
<1> HIDE DEF old, retry, names
<1>5. ASSUME NEW g \in DOMAIN old PROVE Refilled(old[g], hs[g])
    <2>1. "fields" \in DOMAIN old[g] /\ \A k \in DOMAIN old[g].fields : TypedField(found(g)[k])
        BY <1>1, <1>3 DEF TypedGroups, TypedGroup
    <2>2. found(g) = [k \in DOMAIN old[g].fields |-> found(g)[k]]
        OBVIOUS
    <2> HIDE DEF found
    <2>3. "fields" \in DOMAIN hs[g] /\ hs[g].fields = found(g)
        BY <1>4, <2>1, FieldsReplaced
    <2> QED BY <2>1, <2>2, <2>3 DEF Refilled
<1>6. hs = [g \in DOMAIN old |-> hs[g]]
    BY <1>4
<1> QED BY <1>1, <1>5, <1>6, RefilledGroups

LEMMA ValidFlag ==
    ASSUME NEW f, {"kind", "value"} \subseteq DOMAIN f, NEW v, NEW b
    PROVE  /\ {"kind", "value"} \subseteq DOMAIN [f EXCEPT !.valid = b]
           /\ [f EXCEPT !.valid = b].kind = f.kind /\ [f EXCEPT !.valid = b].value = f.value
           /\ {"kind", "value"} \subseteq DOMAIN [f EXCEPT !.value = v, !.valid = b]
           /\ [f EXCEPT !.value = v, !.valid = b].kind = f.kind
           /\ [f EXCEPT !.value = v, !.valid = b].value = v
OBVIOUS

LEMMA CheckedRow ==
    ASSUME NEW row, TypedRow(row), NEW ok, NEW new,
           new = [row EXCEPT !.cells = [c \in DOMAIN row.cells |-> [row.cells[c] EXCEPT !.valid = ok[c]]]]
    PROVE  TypedRow(new)
<1> DEFINE cells == [c \in DOMAIN row.cells |-> [row.cells[c] EXCEPT !.valid = ok[c]]]
<1>1. \A c \in DOMAIN row.cells : "value" \in DOMAIN cells[c] /\ cells[c].value = row.cells[c].value
    BY DEF TypedRow
<1>2. DOMAIN cells = DOMAIN row.cells
    OBVIOUS
<1>3. {"cells", "conf"} \subseteq DOMAIN row /\ row.conf \in Int
    BY DEF TypedRow
<1>5. new = [row EXCEPT !.cells = cells]
    OBVIOUS
<1> HIDE DEF cells
<1>4. {"cells", "conf"} \subseteq DOMAIN new /\ new.conf = row.conf /\ new.cells = cells
    BY <1>3, <1>5
<1> QED BY <1>1, <1>2, <1>3, <1>4 DEF TypedRow

LEMMA CheckedArray ==
    ASSUME NEW spec, NEW f, TypedField(f), NEW new, new = ValidatedArray(spec, f)
    PROVE  TypedField(new)
<1> DEFINE ok(row, c) == spec.plain \/ HardErrors(spec.columns[c], row.cells[c].value) = {}
           oks(row) == [c \in DOMAIN row.cells |-> ok(row, c)]
           checked(row) == [row EXCEPT !.cells =
                              [c \in DOMAIN row.cells |-> [row.cells[c] EXCEPT !.valid = ok(row, c)]]]
           rows == [k \in DOMAIN f.value |-> checked(f.value[k])]
           valid == \A k \in DOMAIN f.value : \A c \in DOMAIN spec.columns : ok(f.value[k], c)
<1>1. new = [f EXCEPT !.value = rows, !.valid = valid]
    BY DEF ValidatedArray
<1>2. ASSUME NEW row, TypedRow(row) PROVE TypedRow(checked(row))
    <2>1. checked(row) = [row EXCEPT !.cells = [c \in DOMAIN row.cells |->
                                                  [row.cells[c] EXCEPT !.valid = oks(row)[c]]]]
        OBVIOUS
    <2> HIDE DEF checked, oks
    <2> QED BY <1>2, <2>1, CheckedRow
<1> HIDE DEF checked, valid
<1>3. ASSUME TypedRows(f.value) PROVE TypedRows(rows)
    <2> DEFINE n == Len(f.value)
    <2>1. n \in Nat /\ DOMAIN f.value = 1 .. n
        BY <1>3 DEF TypedRows
    <2>2. DOMAIN rows = 1 .. n /\ \A k \in DOMAIN rows : TypedRow(rows[k])
        BY <1>2, <1>3, <2>1 DEF TypedRows
    <2>3. rows = [k \in 1 .. n |-> rows[k]]
        BY <2>1
    <2> HIDE DEF rows, n
    <2>4. rows \in Seq(ToSet(rows))
        BY <2>1, <2>3, SequenceOfItself
    <2> QED BY <2>2, <2>4 DEF TypedRows
<1> HIDE DEF rows
<1> QED BY <1>1, <1>3, ValidFlag DEF TypedField

LEMMA ValidatedIsTyped ==
    ASSUME NEW gs, TypedGroups(gs), NEW spec, NEW hs, hs = Validated(spec, gs)
    PROVE  TypedGroups(hs)
<1> DEFINE checked(s, f) == IF s.kind = "array" THEN ValidatedArray(s, f)
                            ELSE [f EXCEPT !.valid = HardErrors(s.checks, f.value) = {}]
           found(g) == [k \in DOMAIN gs[g].fields |-> checked(spec.groups[g].fields[k], gs[g].fields[k])]
<1>1. hs = [g \in DOMAIN gs |-> [gs[g] EXCEPT !.fields = found(g)]]
    BY DEF Validated
<1>2. ASSUME NEW s, NEW f, TypedField(f) PROVE TypedField(checked(s, f))
    <2>1. CASE s.kind = "array"
        BY <1>2, <2>1, CheckedArray
    <2>2. CASE s.kind # "array"
        <3>1. PICK b : checked(s, f) = [f EXCEPT !.valid = b]
            BY <2>2
        <3> HIDE DEF checked
        <3> QED BY <1>2, <3>1, ValidFlag DEF TypedField
    <2> QED BY <2>1, <2>2
<1> HIDE DEF checked
<1>3. ASSUME NEW g \in DOMAIN gs PROVE Refilled(gs[g], hs[g])
    <2>1. "fields" \in DOMAIN gs[g] /\ \A k \in DOMAIN gs[g].fields : TypedField(found(g)[k])
        BY <1>2 DEF TypedGroups, TypedGroup
    <2>2. found(g) = [k \in DOMAIN gs[g].fields |-> found(g)[k]]
        OBVIOUS
    <2> HIDE DEF found
    <2>3. "fields" \in DOMAIN hs[g] /\ hs[g].fields = found(g)
        BY <1>1, <2>1, FieldsReplaced
    <2> QED BY <2>1, <2>2, <2>3 DEF Refilled
<1>4. hs = [g \in DOMAIN gs |-> hs[g]]
    BY <1>1
<1> QED BY <1>3, <1>4, RefilledGroups

\* The array that a transformation works on
LEMMA FoundArray ==
    ASSUME NEW gs, TypedGroups(gs), NEW name, RowsOf(gs, name) # <<>>
    PROVE  /\ FindGroup(gs, name) \in DOMAIN gs
           /\ FindArray(gs[FindGroup(gs, name)]) \in DOMAIN gs[FindGroup(gs, name)].fields
           /\ TypedRows(RowsOf(gs, name))
<1> DEFINE at == {g \in DOMAIN gs : gs[g].name = name}
           g == FindGroup(gs, name)
           arrays == {k \in DOMAIN gs[g].fields : gs[g].fields[k].kind = "array"}
           k == FindArray(gs[g])
<1>1. g = IF at = {} THEN 0 ELSE Min(at)
    BY DEF FindGroup
<1>2. k = IF arrays = {} THEN 0 ELSE Min(arrays)
    BY DEF FindArray
<1>3. RowsOf(gs, name) = IF (IF g = 0 THEN 0 ELSE k) = 0 THEN <<>> ELSE gs[g].fields[k].value
    BY DEF RowsOf
<1>4. DOMAIN gs = 1 .. Len(gs) /\ at \in SUBSET Nat
    BY DEF TypedGroups
<1> HIDE DEF g, k, at
<1>5. g # 0 /\ k # 0 /\ RowsOf(gs, name) = gs[g].fields[k].value
    BY <1>3
<1>6. at # {} /\ g = Min(at)
    BY <1>1, <1>5
<1>7. g \in at
    BY <1>4, <1>6, MinOfPlaces
<1>8. g \in DOMAIN gs
    BY <1>7 DEF at
<1>9. arrays # {} /\ k = Min(arrays)
    BY <1>2, <1>5
<1>10. arrays \in SUBSET Nat
    <2>1. DOMAIN gs[g].fields = 1 .. Len(gs[g].fields)
        BY <1>8 DEF TypedGroups, TypedGroup
    <2> QED BY <2>1
<1>11. k \in arrays
    <2> HIDE DEF arrays
    <2> QED BY <1>9, <1>10, MinOfPlaces
<1>12. k \in DOMAIN gs[g].fields /\ TypedRows(gs[g].fields[k].value)
    BY <1>8, <1>11 DEF TypedGroups, TypedGroup, TypedField
<1> QED BY <1>5, <1>8, <1>12 DEF g, k

LEMMA WithRowsIsTyped ==
    ASSUME NEW gs, TypedGroups(gs), NEW tr, RowsOf(gs, tr.target) # <<>>, NEW rows, TypedRows(rows),
           NEW output, NEW hs, hs = WithRows(gs, tr, output, rows)
    PROVE  TypedGroups(hs)
<1> DEFINE g == FindGroup(gs, tr.target)
           k == FindArray(gs[g])
           new == [gs[g].fields[k] EXCEPT !.value = rows, !.valid = TRUE]
           group == [name |-> output, fields |-> <<new>>]
<1>1. hs = IF output # None THEN Append(gs, group) ELSE [gs EXCEPT ![g].fields[k] = new]
    BY DEF WithRows
<1>2. g \in DOMAIN gs /\ k \in DOMAIN gs[g].fields
    BY FoundArray
<1> HIDE DEF g, k
<1>3. TypedField(gs[g].fields[k])
    BY <1>2 DEF TypedGroups, TypedGroup
<1>4. TypedField(new)
    BY <1>3, ValidFlag DEF TypedField
<1> HIDE DEF new
<1>5. CASE output # None
    <2>1. TypedGroup(group)
        <3>1. "fields" \in DOMAIN group /\ group.fields = <<new>>
            OBVIOUS
        <3>2. <<new>> \in Seq(ToSet(<<new>>)) /\ DOMAIN <<new>> = {1} /\ <<new>>[1] = new
            BY DEF ToSet
        <3> HIDE DEF group
        <3> QED BY <1>4, <3>1, <3>2 DEF TypedGroup
    <2> HIDE DEF group
    <2> DEFINE S == ToSet(gs) \cup {group}
               n == Len(gs)
    <2>2. gs \in Seq(S) /\ group \in S /\ n \in Nat /\ DOMAIN gs = 1 .. n
        BY DEF TypedGroups, ToSet
    <2>3. /\ hs \in Seq(S) /\ Len(hs) = n + 1
          /\ \A i \in 1 .. n : hs[i] = gs[i]
          /\ hs[n + 1] = group
        <3> HIDE DEF S
        <3> QED BY <1>1, <1>5, <2>2, AppendProperties
    <2> HIDE DEF S
    <2>4. DOMAIN hs = 1 .. (n + 1)
        BY <2>3
    <2>5. hs \in Seq(ToSet(hs))
        <3>1. n + 1 \in Nat /\ hs = [i \in 1 .. (n + 1) |-> hs[i]]
            BY <2>2, <2>3, <2>4
        <3> QED BY <3>1, SequenceOfItself
    <2>6. \A i \in DOMAIN hs : i \in 1 .. n \/ i = n + 1
        BY <2>2, <2>4
    <2> HIDE DEF n
    <2>7. \A i \in DOMAIN hs : TypedGroup(hs[i])
        BY <2>1, <2>2, <2>3, <2>6 DEF TypedGroups
    <2> QED BY <2>5, <2>7 DEF TypedGroups
<1>6. CASE output = None
    <2> DEFINE fields == [gs[g].fields EXCEPT ![k] = new]
    <2>1. hs = [gs EXCEPT ![g] = [gs[g] EXCEPT !.fields = fields]]
        BY <1>1, <1>6
    <2>2. /\ fields = [i \in DOMAIN gs[g].fields |-> fields[i]]
          /\ \A i \in DOMAIN gs[g].fields : TypedField(fields[i])
        BY <1>2, <1>4 DEF TypedGroups, TypedGroup
    <2> HIDE DEF fields
    <2>3. DOMAIN hs = DOMAIN gs /\ hs = [h \in DOMAIN gs |-> hs[h]]
          /\ \A h \in DOMAIN gs : hs[h] = IF h = g THEN [gs[g] EXCEPT !.fields = fields] ELSE gs[h]
        BY <1>2, <2>1
    <2>4. "fields" \in DOMAIN hs[g] /\ hs[g].fields = fields
        <3>1. "fields" \in DOMAIN gs[g]
            BY <1>2 DEF TypedGroups, TypedGroup
        <3> QED BY <1>2, <2>3, <3>1, FieldsReplaced
    <2>5. \A h \in DOMAIN gs : TypedGroup(hs[h]) \/ Refilled(gs[h], hs[h])
        BY <2>2, <2>3, <2>4 DEF TypedGroups, Refilled
    <2> QED BY <2>3, <2>5, RefilledGroups
<1> QED BY <1>5, <1>6

LEMMA TasksAreListed ==
    /\ TasksInOrder \in Seq(Task)
    /\ DOMAIN TasksInOrder = 1 .. Cardinality(Task) /\ Cardinality(Task) \in Nat
<1>1. Cardinality(Task) \in Nat /\ Task = 1 .. Cardinality(Task)
    BY TransformAssumption, FS_CardinalityType
<1>2. PICK n \in Nat : n = Cardinality(Task)
    BY <1>1
<1>3. TasksInOrder = [i \in 1 .. n |-> i]
    BY <1>2 DEF TasksInOrder
<1>4. TasksInOrder \in Seq(1 .. n) /\ DOMAIN TasksInOrder = 1 .. n
    BY <1>3
<1> QED BY <1>1, <1>2, <1>4

\* Rows of all tasks are such rows, too.
LEMMA ConsolidatedIsTyped ==
    ASSUME DOMAIN groups = Task, \A t \in Task : TypedGroups(groups[t]),
           NEW name, NEW all, all = Consolidated(name), all # <<>>
    PROVE  TypedRows(all[1].fields[1].value)
<1> DEFINE arraysIn(group) ==
             IF group.name # name THEN <<>>
             ELSE At(group.fields, {k \in DOMAIN group.fields : group.fields[k].kind = "array"})
           perGroup(t) == [g \in DOMAIN groups[t] |-> arraysIn(groups[t][g])]
           arraysOf(t) == FlattenSeq(perGroup(t))
           perTask == [i \in DOMAIN TasksInOrder |-> arraysOf(TasksInOrder[i])]
           arrays == FlattenSeq(perTask)
           perArray == [i \in DOMAIN arrays |-> arrays[i].value]
           rows   == FlattenSeq(perArray)
           A == {f \in UNION {UNION {ToSet(groups[t][g].fields) : g \in DOMAIN groups[t]} : t \in Task} :
                   TypedField(f) /\ f.kind = "array"}
           R == {row \in UNION {ToSet(f.value) : f \in A} : TypedRow(row)}
<1>1. all = IF rows = <<>> THEN <<>>
            ELSE << [name |-> name,
                     fields |-> << [name |-> arrays[1].name, kind |-> "array", value |-> rows, conf |-> 0,
                                    valid |-> TRUE, bbox |-> None, pages |-> {}] >>] >>
    BY DEF Consolidated
<1>2. all[1].fields[1].value = rows
    <2> HIDE DEF rows, arrays
    <2> QED BY <1>1
<1>3. ASSUME NEW t \in Task, NEW g \in DOMAIN groups[t] PROVE arraysIn(groups[t][g]) \in Seq(A)
    <2> DEFINE fields == groups[t][g].fields
               places == {k \in DOMAIN fields : fields[k].kind = "array"}
    <2>1. DOMAIN fields = 1 .. Len(fields) /\ Len(fields) \in Nat /\ \A k \in DOMAIN fields : TypedField(fields[k])
        BY DEF TypedGroups, TypedGroup
    <2>2. \A k \in DOMAIN fields : fields[k] \in ToSet(fields)
        BY DEF ToSet
    <2>3. places \in SUBSET (1 .. Len(fields)) /\ \A k \in places : fields[k] \in A
        BY <2>1, <2>2
    <2>4. At(fields, places) \in Seq(A)
        <3> HIDE DEF places, fields, A
        <3> QED BY <2>1, <2>3, ItemsInSet
    <2>5. arraysIn(groups[t][g]) = IF groups[t][g].name # name THEN <<>> ELSE At(fields, places)
        OBVIOUS
    <2> HIDE DEF arraysIn, places, fields, A
    <2> QED BY <2>4, <2>5
<1>4. ASSUME NEW t \in Task PROVE arraysOf(t) \in Seq(A)
    <2> HIDE DEF arraysIn, A
    <2>1. DOMAIN groups[t] = 1 .. Len(groups[t]) /\ Len(groups[t]) \in Nat
        BY DEF TypedGroups
    <2>2. perGroup(t) \in Seq(Seq(A))
        BY <1>3, <2>1
    <2> HIDE DEF perGroup
    <2> QED BY <2>2, FlattenedSeq
<1> HIDE DEF arraysOf
<1>5. arrays \in Seq(A)
    <2> HIDE DEF A
    <2>1. perTask \in Seq(Seq(A))
        <3>1. PICK n \in Nat : DOMAIN TasksInOrder = 1 .. n
            BY TasksAreListed
        <3>2. \A i \in 1 .. n : TasksInOrder[i] \in Task
            BY <3>1, TasksAreListed
        <3>3. perTask = [i \in 1 .. n |-> arraysOf(TasksInOrder[i])]
            BY <3>1
        <3>4. \A i \in 1 .. n : arraysOf(TasksInOrder[i]) \in Seq(A)
            BY <1>4, <3>2
        <3> HIDE DEF perTask
        <3> QED BY <3>3, <3>4
    <2> HIDE DEF perTask
    <2> QED BY <2>1, FlattenedSeq
<1> HIDE DEF arrays
<1>6. \A f \in A : f.value \in Seq(R)
    <2>1. SUFFICES ASSUME NEW f \in A PROVE f.value \in Seq(R)
        OBVIOUS
    <2>2. TypedRows(f.value)
        BY DEF TypedField
    <2>3. \A k \in DOMAIN f.value : f.value[k] \in R
        BY <2>2 DEF TypedRows, ToSet
    <2> HIDE DEF R, A
    <2> QED BY <2>2, <2>3 DEF TypedRows
<1> HIDE DEF A
<1>7. rows \in Seq(R)
    <2> HIDE DEF R
    <2>1. perArray \in Seq(Seq(R))
        BY <1>5, <1>6
    <2> HIDE DEF perArray
    <2> QED BY <2>1, FlattenedSeq
<1> HIDE DEF rows
<1>8. TypedRows(rows)
    <2>1. rows \in Seq(ToSet(rows))
        <3>1. Len(rows) \in Nat /\ rows = [k \in 1 .. Len(rows) |-> rows[k]]
            <4> HIDE DEF R
            <4> QED BY <1>7
        <3> QED BY <3>1, SequenceOfItself
    <2>2. \A k \in DOMAIN rows : rows[k] \in R
        <3> HIDE DEF R
        <3> QED BY <1>7
    <2> QED BY <2>1, <2>2 DEF TypedRows
<1> QED BY <1>2, <1>8

\* What a transformation makes of such rows
LEMMA OutcomeIsSound ==
    ASSUME NEW tr, NEW rows, TypedRows(rows), rows # <<>>, last' \in Outcomes(tr, rows)
    PROVE  TypedRows(last'.out) /\ RowsReconcile' /\ InvariantRepaired'
<1>1. CASE tr.type = "entity_resolution"
    <2>1. last' = [type |-> tr.type, tr |-> tr, rows |-> rows, out |-> DedupeRows(rows, tr)]
        BY <1>1 DEF Outcomes
    <2>2. /\ last'.type = "entity_resolution" /\ last'.tr = tr /\ last'.rows = rows
          /\ last'.out = DedupeRows(rows, tr)
        BY <1>1, <2>1
    <2>3. /\ TypedRows(last'.out) /\ SameEntity(rows, tr) /\ FullestKept(rows, tr, last'.out)
          /\ KeysDiffer(last'.out, tr)
        BY <2>2, RowsAreDeduped
    <2> QED BY <2>2, <2>3 DEF RowsReconcile, InvariantRepaired
<1>2. CASE tr.type # "entity_resolution"
    <2> DEFINE inv == tr.invariant
    <2>1. PICK d \in Drafts : last' = [type |-> tr.type, tr |-> tr, rows |-> rows,
                                       drafts |-> d, out |-> ProducedRows(d, rows, tr.invariant),
                                       built |-> RebuildRows(d, rows, tr.invariant # None)]
        BY <1>2 DEF Outcomes
    <2>2. PICK out, built : out = ProducedRows(d, rows, inv) /\ built = RebuildRows(d, rows, inv # None)
        OBVIOUS
    <2>3. /\ last'.type = tr.type /\ last'.tr = tr /\ last'.rows = rows
          /\ last'.out = out /\ last'.built = built
        BY <2>1, <2>2
    <2>4. TypedDrafts(d)
        <3>1. \A i \in DOMAIN d : d[i] \in ToSet(d)
            BY DEF ToSet
        <3> QED BY <3>1, TransformAssumption DEF TypedDrafts
    <2>5. IsFiniteSet(TextColumns)
        BY TransformAssumption
    <2> HIDE DEF inv
    <2>6. /\ TypedRows(out)
          /\ inv # None => Flagged(built, rows)
          /\ inv # None /\ inv.repair => Repaired(built, inv, out)
        BY <2>2, <2>4, <2>5, RowsAreProduced
    <2>7. RowsReconcile'
        BY <1>2, <2>3 DEF RowsReconcile
    <2>8. ASSUME inv # None, inv.repair
          PROVE  LET fits(rs)    == ShareSum(rs, inv.share) <= inv.total + inv.tolerance
                     madeUp(row) == ~IsGrounded(row, rows)
                 IN  /\ fits(out) \/ Len(out) <= 1
                     /\ \E kept \in SUBSET DOMAIN built :
                          /\ out = At(built, kept)
                          /\ fits(built) => kept = DOMAIN built
                          /\ (\E k \in DOMAIN built \ kept : ~madeUp(built[k])) =>
                                \A k \in kept : ~madeUp(built[k])
        <3>1. PICK kept \in SUBSET DOMAIN built :
                /\ out = At(built, kept)
                /\ FitsWhole(out, inv) \/ Len(out) <= 1
                /\ FitsWhole(built, inv) => kept = DOMAIN built
                /\ (\E k \in DOMAIN built \ kept : ~built[k].unmatched) => \A k \in kept : ~built[k].unmatched
            BY <2>6, <2>8 DEF Repaired
        <3>2. \A k \in DOMAIN built : built[k].unmatched <=> ~IsGrounded(built[k], rows)
            BY <2>6, <2>8 DEF Flagged
        <3>3. (\E k \in DOMAIN built \ kept : IsGrounded(built[k], rows)) =>
                 \A k \in kept : IsGrounded(built[k], rows)
            BY <3>1, <3>2
        <3> QED BY <3>1, <3>3 DEF FitsWhole
    <2>9. InvariantRepaired'
        BY <2>3, <2>8 DEF InvariantRepaired, inv
    <2> QED BY <2>3, <2>6, <2>7, <2>9
<1> QED BY <1>1, <1>2

-----------------------------------------------------------------------------
(* The endpoint *)

\* Behind the gate the request is sound; the rules come last.
GateInv ==
    /\ req \in Requests
    /\ stage \notin {"gate", "answered"} => Sound(req)
    /\ engine # "idle" => Sound(req) /\ stage \in {"rules", "answered"}
    /\ visual \subseteq DOMAIN req.files

TasksInv ==
    /\ DOMAIN groups = Task /\ DOMAIN first = Task /\ DOMAIN call = Task
    /\ \A t \in DOMAIN req.files :
          /\ groups[t] # <<>> => OfType(groups[t], DocOf(t))
          /\ call[t] = "retry" => \E a \in Answers[DocOf(t).id] : first[t] = NormaliseDoc(a, DocOf(t))

SyncInv == GateInv /\ TasksInv /\ RulesInv /\ FieldsShown

LEMMA SyncInit == Init => SyncInv
<1> SUFFICES ASSUME Init PROVE SyncInv
    OBVIOUS
<1>1. RulesIdle /\ ExtractIdle /\ req \in Requests /\ stage = "gate" /\ visual = {}
    BY DEF Init
<1>2. RulesInv /\ FieldsShown
    BY <1>1 DEF RulesIdle, RulesInv, FieldsShown, ParentsShown
<1>3. TasksInv
    BY <1>1, RequestShape DEF ExtractIdle, TasksInv
<1> QED BY <1>1, <1>2, <1>3 DEF SyncInv, GateInv, RulesIdle

\* The document type of a file that is worked on
LEMMA DocOfFile ==
    ASSUME GateInv, Sound(req), NEW t \in DOMAIN req.files
    PROVE  /\ t \in Task /\ ~SharesName(DocOf(t))
           /\ DocOf(t).groups \in Seq(ToSet(DocOf(t).groups))
<1>1. req \in Requests /\ req.files[t].pin \in Ids(req.docs)
    BY DEF GateInv, Sound
<1>2. DocOf(t) \in ToSet(req.docs)
    BY <1>1, SoundDoc DEF DocOf
<1> QED BY <1>1, <1>2, RequestShape DEF Sound

LEMMA SameRules ==
    ASSUME RulesInv, UNCHANGED <<req, ruleVars>>
    PROVE  RulesInv' /\ (FieldsShown /\ (UNCHANGED <<groups, visual>> \/ engine = "idle") => FieldsShown')
<1>1. RulesInv'
    BY DEF RulesInv, RulesIdle, ruleVars, ParentsShown
<1>2. CASE UNCHANGED <<groups, visual>>
    BY <1>1, <1>2 DEF FieldsShown, ruleVars, DocOf
<1>3. CASE engine = "idle"
    BY <1>1, <1>3 DEF FieldsShown, ruleVars, RulesInv, RulesIdle
<1> QED BY <1>1, <1>2, <1>3

\* The steps of the handler that no stage works in
LEMMA HandlerKeeps ==
    ASSUME SyncInv,
           Gate \/ Load \/ ExtractEnds \/ TransformEnds \/ TransformRaises \/ Answer \/ SyncTimeout
    PROVE  SyncInv'
<1>1. UNCHANGED <<req, visual, ruleVars, call, first, groups>>
    BY DEF Gate, Load, ExtractEnds, TransformEnds, TransformRaises, RequestScopeRaises, Answer, SyncTimeout,
           Work, extractVars
<1>2. RulesInv' /\ FieldsShown'
    BY <1>1, SameRules DEF SyncInv
<1>3. TasksInv'
    BY <1>1 DEF SyncInv, TasksInv, DocOf
<1>4. CASE Gate
    <2>1. stage = "gate" /\ (stage' = "answered" \/ GateStatus = 0)
        BY <1>4 DEF Gate
    <2>2. GateStatus = 0 => Errors(req) = {}
        BY DEF GateStatus
    <2>3. stage' = "answered" \/ Sound(req)
        BY <2>1, <2>2, AcceptedIsSound DEF SyncInv, GateInv
    <2> QED BY <1>1, <1>2, <1>3, <2>1, <2>3 DEF SyncInv, GateInv, ruleVars
<1>5. CASE ~Gate
    <2>1. stage \notin {"gate", "answered"} /\ (stage = "rules" => stage' = "answered")
        BY <1>5 DEF Load, ExtractEnds, TransformEnds, TransformRaises, Answer, SyncTimeout
    <2> QED BY <1>1, <1>2, <1>3, <2>1 DEF SyncInv, GateInv, ruleVars
<1> QED BY <1>4, <1>5

LEMMA VisualKeeps ==
    ASSUME SyncInv, VisualAuthenticity
    PROVE  SyncInv'
<1>1. /\ stage = "visual" /\ engine = "idle" /\ Sound(req) /\ stage' \in {"transform", "rules"}
      /\ UNCHANGED <<req, ruleVars, call, first, groups>> /\ visual' \subseteq DOMAIN req.files
    BY DEF SyncInv, GateInv, VisualAuthenticity, Work, extractVars
<1>2. RulesInv' /\ FieldsShown'
    BY <1>1, SameRules DEF SyncInv
<1>3. GateInv'
    BY <1>1 DEF SyncInv, GateInv, ruleVars
<1>4. TasksInv'
    BY <1>1 DEF SyncInv, TasksInv, DocOf
<1> QED BY <1>2, <1>3, <1>4 DEF SyncInv

\* A call that ends leaves groups of the type, and so does the second pass.
LEMMA ExtractKeeps ==
    ASSUME SyncInv, Extract
    PROVE  /\ SyncInv'
           /\ \A t \in Task : groups'[t] # groups[t] =>
                 \A g \in DOMAIN first'[t] : \A k \in DOMAIN first'[t][g].fields :
                    LET old == first'[t][g].fields[k] IN
                    IsEmptyArray(old) \/ groups'[t][g].fields[k] = old
<1>1. /\ stage = "extract" /\ engine = "idle" /\ Sound(req) /\ UNCHANGED <<req, stage, visual, ruleVars>>
      /\ DOMAIN groups = Task /\ DOMAIN first = Task /\ DOMAIN call = Task
    BY DEF SyncInv, GateInv, TasksInv, Extract, syncVars
<1>2. RulesInv' /\ FieldsShown' /\ GateInv'
    BY <1>1, SameRules DEF SyncInv, GateInv, ruleVars
<1>3. PICK t \in Task : t \in DOMAIN req.files /\ ExtractStep(t, DocOf(t), req.files[t].pages)
    BY DEF Extract, HasTask
<1> DEFINE doc == DocOf(t)
           Kept == \A g \in DOMAIN first'[t] : \A k \in DOMAIN first'[t][g].fields :
                     IsEmptyArray(first'[t][g].fields[k]) \/ groups'[t][g].fields[k] = first'[t][g].fields[k]
<1>4. ~SharesName(doc) /\ doc.groups \in Seq(ToSet(doc.groups))
    BY <1>1, <1>3, DocOfFile DEF SyncInv
<1>5. /\ groups[t] # <<>> => OfType(groups[t], doc)
      /\ call[t] = "retry" => \E a \in Answers[doc.id] : first[t] = NormaliseDoc(a, doc)
    BY <1>3 DEF SyncInv, TasksInv
<1> HIDE DEF doc
<1>6. /\ DOMAIN groups' = Task /\ DOMAIN first' = Task /\ DOMAIN call' = Task
      /\ \A u \in Task \ {t} : groups'[u] = groups[u] /\ first'[u] = first[u] /\ call'[u] = call[u]
    BY <1>1, <1>3
       DEF ExtractStep, StartExtract, FirstPassRaises, FirstPassAnswers, RetryAnswers, RetryRaises
<1>7. /\ groups'[t] # <<>> => OfType(groups'[t], doc)
      /\ call'[t] = "retry" => \E a \in Answers[doc.id] : first'[t] = NormaliseDoc(a, doc)
      /\ groups'[t] # groups[t] => Kept
    <2>1. CASE StartExtract(t) \/ FirstPassRaises(t) \/ RetryRaises(t)
        <3>1. UNCHANGED groups /\ call'[t] # "retry"
            BY <1>1, <2>1 DEF StartExtract, FirstPassRaises, RetryRaises
        <3> QED BY <1>5, <3>1
    <2>2. CASE FirstPassAnswers(t, doc, req.files[t].pages)
        <3>1. PICK a \in Answers[doc.id] :
                 /\ first'[t] = NormaliseDoc(a, doc)
                 /\ groups' = groups \/ groups'[t] = first'[t]
            BY <1>1, <2>2 DEF FirstPassAnswers
        <3>2. OfType(first'[t], doc)
            BY <1>4, <3>1, NormalisedOfType
        <3> QED BY <1>5, <3>1, <3>2
    <2>3. CASE RetryAnswers(t, doc)
        <3>1. PICK b \in Answers[doc.id] :
                 groups'[t] = MergeAfterRetry(first[t], NormaliseDoc(b, doc), SuspiciousEmptyArrays(first[t]))
            BY <1>1, <2>3 DEF RetryAnswers
        <3>2. call[t] = "retry" /\ UNCHANGED first /\ call'[t] # "retry"
            BY <1>1, <2>3 DEF RetryAnswers
        <3>3. PICK a \in Answers[doc.id] : first[t] = NormaliseDoc(a, doc)
            BY <1>5, <3>2
        <3>4. OfType(groups'[t], doc) /\ Kept
            BY <1>4, <3>1, <3>2, <3>3, MergeKeepsFirstPass
        <3> QED BY <3>2, <3>4
    <2> QED BY <1>3, <2>1, <2>2, <2>3 DEF ExtractStep, doc
<1>8. TasksInv'
    <2>1. ASSUME NEW u \in DOMAIN req.files
          PROVE  /\ groups'[u] # <<>> => OfType(groups'[u], DocOf(u))
                 /\ call'[u] = "retry" => \E a \in Answers[DocOf(u).id] : first'[u] = NormaliseDoc(a, DocOf(u))
        <3>1. u \in Task
            BY <1>1, DocOfFile DEF SyncInv
        <3>2. CASE u = t
            BY <1>7, <3>2 DEF doc
        <3>3. CASE u # t
            BY <1>6, <3>1, <3>3 DEF SyncInv, TasksInv
        <3> QED BY <3>2, <3>3
    <2>2. req' = req /\ \A u : DocOf(u)' = DocOf(u)
        BY <1>1 DEF DocOf
    <2> QED BY <1>6, <2>1, <2>2 DEF TasksInv
<1> QED BY <1>2, <1>6, <1>7, <1>8 DEF SyncInv

LEMMA ValidateKeeps ==
    ASSUME SyncInv, Validate
    PROVE  SyncInv'
<1>1. /\ stage = "validate" /\ engine = "idle" /\ Sound(req) /\ stage' = "visual"
      /\ UNCHANGED <<req, visual, ruleVars, call, first>>
      /\ DOMAIN groups = Task /\ DOMAIN first = Task /\ DOMAIN call = Task
    BY DEF SyncInv, GateInv, TasksInv, Validate
<1>2. RulesInv' /\ FieldsShown' /\ GateInv'
    BY <1>1, SameRules DEF SyncInv, GateInv, ruleVars
<1>3. \/ groups' = groups
      \/ groups' = [t \in Task |-> IF groups[t] = <<>> THEN <<>> ELSE Validated(DocOf(t), groups[t])]
    BY DEF Validate
<1>4. DOMAIN groups' = Task
    BY <1>1, <1>3
<1>5. ASSUME NEW t \in DOMAIN req.files, groups'[t] # <<>>
      PROVE  OfType(groups'[t], DocOf(t))
    <2>1. t \in Task
        BY <1>1, DocOfFile DEF SyncInv
    <2>2. CASE groups' = groups
        BY <1>5, <2>2 DEF SyncInv, TasksInv
    <2>3. CASE groups' # groups
        <3>1. groups[t] # <<>> /\ groups'[t] = Validated(DocOf(t), groups[t])
            BY <1>3, <1>5, <2>1, <2>3
        <3>2. OfType(groups[t], DocOf(t))
            BY <3>1 DEF SyncInv, TasksInv
        <3> QED BY <3>1, <3>2, ValidatedOfType
    <2> QED BY <2>2, <2>3
<1>6. TasksInv'
    <2>1. \A t : DocOf(t)' = DocOf(t)
        BY <1>1 DEF DocOf
    <2> QED BY <1>1, <1>4, <1>5, <2>1 DEF SyncInv, TasksInv
<1> QED BY <1>2, <1>6 DEF SyncInv

\* Only a task that has groups contributes rows, and they go into its groups.
LEMMA TransformKeeps ==
    ASSUME SyncInv, Transform
    PROVE  SyncInv'
<1>1. /\ stage = "transform" /\ engine = "idle" /\ Sound(req)
      /\ UNCHANGED <<req, stage, visual, ruleVars, call, first>>
      /\ DOMAIN groups = Task /\ DOMAIN first = Task /\ DOMAIN call = Task
    BY DEF SyncInv, GateInv, TasksInv, Transform, syncVars
<1>2. RulesInv' /\ FieldsShown' /\ GateInv'
    BY <1>1, SameRules DEF SyncInv, GateInv, ruleVars
<1>3. \/ groups' = groups
      \/ \E u, tr, rows : /\ RowsOf(groups[u], tr.target) # <<>>
                          /\ groups' = [groups EXCEPT ![u] = WithRows(groups[u], tr, tr.output, rows)]
    BY DEF Transform, TransformStep, NextTransformation, ApplyToTask, ApplyRequestScope
<1>4. DOMAIN groups' = Task
    BY <1>1, <1>3
<1>5. ASSUME NEW t \in DOMAIN req.files, groups'[t] # <<>>
      PROVE  OfType(groups'[t], DocOf(t))
    <2>1. t \in Task
        BY <1>1, DocOfFile DEF SyncInv
    <2>2. groups[t] # <<>> => OfType(groups[t], DocOf(t))
        BY DEF SyncInv, TasksInv
    <2>3. CASE groups'[t] = groups[t]
        BY <1>5, <2>2, <2>3
    <2>4. CASE groups'[t] # groups[t]
        <3>1. PICK tr, rows : /\ RowsOf(groups[t], tr.target) # <<>>
                              /\ groups'[t] = WithRows(groups[t], tr, tr.output, rows)
            BY <1>1, <1>3, <2>1, <2>4
        <3>2. groups[t] # <<>>
            <4>1. FindGroup(<<>>, tr.target) = 0
                BY DEF FindGroup
            <4> QED BY <3>1, <4>1 DEF RowsOf
        <3> QED BY <2>2, <3>1, <3>2, WithRowsOfType
    <2> QED BY <2>3, <2>4
<1>6. TasksInv'
    <2>1. \A t : DocOf(t)' = DocOf(t)
        BY <1>1 DEF DocOf
    <2> QED BY <1>1, <1>4, <1>5, <2>1 DEF SyncInv, TasksInv
<1> QED BY <1>2, <1>6 DEF SyncInv

\* What a rule reads is in the prompt when a document of the type is extracted.
LEMMA RulesKeep ==
    ASSUME SyncInv, Rules
    PROVE  SyncInv'
<1>1. /\ stage = "rules" /\ Sound(req) /\ req \in Requests
      /\ UNCHANGED <<req, stage, visual, call, first, groups>> /\ visual \subseteq DOMAIN req.files
    BY DEF SyncInv, GateInv, Rules, syncVars, extractVars
<1>2. GateInv'
    BY <1>1 DEF GateInv
<1>3. TasksInv'
    BY <1>1 DEF SyncInv, TasksInv, DocOf
<1>4. ~HasCycle(req)
    BY <1>1 DEF Sound
<1>5. CASE StartRules(req)
    <2>1. RulesInv'
        BY <1>1, <1>4, <1>5, RulesStart, RequestShape DEF SyncInv
    <2>2. worked' = {}
        BY <1>5 DEF SyncInv, RulesInv, RulesIdle, StartRules
    <2> QED BY <1>2, <1>3, <2>1, <2>2 DEF SyncInv, FieldsShown
<1>6. CASE EvaluationRaises
    <2>1. RulesInv'
        BY <1>1, <1>6, RaisingKeepsRules DEF SyncInv
    <2>2. FieldsShown'
        BY <1>1, <1>6 DEF SyncInv, FieldsShown, EvaluationRaises, DocOf
    <2> QED BY <1>2, <1>3, <2>1, <2>2 DEF SyncInv
<1>7. CASE EvaluateLevel(req, ExtractedFields, VisualResults)
    <2>1. RulesInv'
        BY <1>1, <1>7, LevelKeepsRules DEF SyncInv
    <2> DEFINE active == Ready(req)
               context == DocumentsContext(req, active, ExtractedFields, VisualResults)
    <2>2. /\ worked' = worked \cup active
          /\ \A r \in DOMAIN shown : /\ r \notin active => shown'[r] = shown[r]
                                     /\ r \in active => shown'[r].documents = context
        BY <1>7 DEF EvaluateLevel
    <2>3. active \cap worked = {} /\ active \subseteq Ids(req.rules)
        BY DEF Ready
    <2>4. engine # "idle" /\ DOMAIN shown = Ids(req.rules) /\ worked \subseteq DOMAIN shown
        BY <1>7 DEF SyncInv, RulesInv, EvaluateLevel
    <2>5. ASSUME NEW r \in active, NEW p \in RuleNamed(req, r).fields,
                 NEW t \in DOMAIN req.files, DocOf(t).id = p[1], groups[t] # <<>>
          PROVE  p \in context
        <3>1. RuleNamed(req, r) \in ToSet(req.rules)
            BY <1>1, <2>3, SoundRule
        <3>2. /\ p[1] \in Ids(req.docs) /\ p[2] \in FieldNames(DocNamed(req, p[1]))
              /\ p = <<p[1], p[2]>>
            BY <1>1, <2>5, <3>1, RequestShape DEF Sound
        <3>3. DocOf(t) = DocNamed(req, p[1])
            <4>1. req.files[t].pin \in Ids(req.docs)
                BY <1>1, <2>5 DEF Sound
            <4>2. DocNamed(req, req.files[t].pin).id = req.files[t].pin
                BY <1>1, <4>1, SoundDoc
            <4> QED BY <2>5, <4>2 DEF DocOf
        <3>4. OfType(groups[t], DocOf(t))
            BY <2>5 DEF SyncInv, TasksInv
        <3> HIDE DEF active
        <3>5. \E f \in FieldsIn(groups[t]) : f.name = p[2]
            <4> DEFINE doc == DocOf(t)
            <4>1. p[2] \in FieldNames(doc) /\ OfType(groups[t], doc)
                BY <3>2, <3>3, <3>4
            <4> HIDE DEF doc
            <4>2. PICK place \in FieldPlaces(doc) : FieldAt(doc, place).name = p[2]
                BY <4>1 DEF FieldNames
            <4>3. PICK g \in DOMAIN doc.groups : place \in {g} \X DOMAIN doc.groups[g].fields
                BY DEF FieldPlaces
            <4>4. PICK k \in DOMAIN doc.groups[g].fields : place = <<g, k>>
                BY <4>3
            <4>5. /\ g \in DOMAIN groups[t] /\ k \in DOMAIN groups[t][g].fields
                  /\ groups[t][g].fields[k].name = p[2]
                BY <4>1, <4>2, <4>4 DEF OfType, FieldAt
            <4> QED BY <4>5 DEF FieldsIn, ToSet
        <3>6. <<p[1], p[2]>> \in ExtractedFields
            BY <2>5, <3>5 DEF ExtractedFields
        <3> QED BY <2>5, <3>2, <3>6 DEF DocumentsContext
    <2>7. ASSUME NEW r \in active, NEW p \in RuleNamed(req, r).checks,
                 NEW t \in visual, DocOf(t).id = p[1]
          PROVE  p \in context
        <3>1. RuleNamed(req, r) \in ToSet(req.rules)
            BY <1>1, <2>3, SoundRule
        <3>2. p[1] \in Ids(req.docs) /\ p[2] \in DocNamed(req, p[1]).checks /\ p = <<p[1], p[2]>>
            BY <1>1, <2>7, <3>1, RequestShape DEF Sound
        <3>3. DocOf(t) = DocNamed(req, p[1])
            <4>1. req.files[t].pin \in Ids(req.docs)
                BY <1>1, <2>7 DEF Sound
            <4>2. DocNamed(req, req.files[t].pin).id = req.files[t].pin
                BY <1>1, <4>1, SoundDoc
            <4> QED BY <2>7, <4>2 DEF DocOf
        <3>4. p \in {DocOf(t).id} \X DocOf(t).checks
            BY <2>7, <3>2, <3>3
        <3>5. p \in VisualResults
            BY <2>7, <3>4 DEF VisualResults
        <3> QED BY <2>7, <3>2, <3>5 DEF DocumentsContext
    <2> HIDE DEF active, context
    <2>6. FieldsShown'
        <3>1. ASSUME NEW r \in worked', NEW p \in RuleNamed(req, r).fields,
                     NEW t \in DOMAIN req.files, DocOf(t).id = p[1], groups[t] # <<>>
              PROVE  p \in shown'[r].documents
            <4>1. CASE r \in active
                BY <2>2, <2>3, <2>4, <2>5, <3>1, <4>1
            <4>2. CASE r \in worked
                BY <2>2, <2>3, <2>4, <3>1, <4>2 DEF SyncInv, FieldsShown
            <4> QED BY <2>2, <4>1, <4>2
        <3>2. ASSUME NEW r \in worked', NEW p \in RuleNamed(req, r).checks,
                     NEW t \in visual, DocOf(t).id = p[1]
              PROVE  p \in shown'[r].documents
            <4>1. CASE r \in active
                BY <2>2, <2>3, <2>4, <2>7, <3>2, <4>1
            <4>2. CASE r \in worked
                BY <2>2, <2>3, <2>4, <3>2, <4>2 DEF SyncInv, FieldsShown
            <4> QED BY <2>2, <4>1, <4>2
        <3>3. \A t : DocOf(t)' = DocOf(t)
            BY <1>1 DEF DocOf
        <3> QED BY <1>1, <3>1, <3>2, <3>3 DEF FieldsShown
    <2> QED BY <1>2, <1>3, <2>1, <2>6 DEF SyncInv
<1> QED BY <1>5, <1>6, <1>7 DEF Rules

LEMMA SyncStep ==
    ASSUME SyncInv, [Next]_vars
    PROVE  SyncInv'
<1>1. CASE Gate \/ Load \/ ExtractEnds \/ TransformEnds \/ TransformRaises \/ Answer \/ SyncTimeout
    BY <1>1, HandlerKeeps
<1>7. CASE VisualAuthenticity
    BY <1>7, VisualKeeps
<1>2. CASE Extract
    BY <1>2, ExtractKeeps
<1>3. CASE Validate
    BY <1>3, ValidateKeeps
<1>4. CASE Transform
    BY <1>4, TransformKeeps
<1>5. CASE Rules
    BY <1>5, RulesKeep
<1>6. CASE UNCHANGED vars
    <2>1. UNCHANGED <<req, stage, visual, call, first, groups, ruleVars>>
        BY <1>6 DEF vars, syncVars, extractVars
    <2>2. RulesInv' /\ FieldsShown'
        BY <2>1, SameRules DEF SyncInv
    <2> QED BY <2>1, <2>2 DEF SyncInv, GateInv, TasksInv, DocOf, ruleVars
<1> QED BY <1>1, <1>2, <1>3, <1>4, <1>5, <1>6, <1>7 DEF Next, Answered

LEMMA SyncHolds == Spec => []SyncInv
BY SyncInit, SyncStep, PTL DEF Spec

-----------------------------------------------------------------------------
(* The rows of the tasks, from the answers on *)

RowsInv ==
    /\ \A t \in Task : TypedGroups(groups[t])
    /\ step \in Nat
    /\ step > 0 /\ req.transformations[step].scope = "task" => pending \in Seq(Task)
    /\ RowsReconcile /\ InvariantRepaired

LEMMA RowsInit == Init => RowsInv
<1> SUFFICES ASSUME Init PROVE RowsInv
    OBVIOUS
<1>1. groups = [t \in Task |-> <<>>] /\ step = 0 /\ last = [type |-> "none"]
    BY DEF Init, ExtractIdle, TransformIdle, NothingApplied
<1>2. TypedGroups(<<>>)
    <2>1. ToSet(<<>>) = {} /\ <<>> \in Seq({})
        BY DEF ToSet
    <2> QED BY <2>1 DEF TypedGroups
<1>3. RowsReconcile /\ InvariantRepaired
    BY <1>1 DEF RowsReconcile, InvariantRepaired
<1> QED BY <1>1, <1>2, <1>3 DEF RowsInv

\* Steps that neither apply a transformation nor touch any groups
LEMMA SameRows ==
    ASSUME RowsInv, UNCHANGED <<req, transformVars>>, \A t \in Task : TypedGroups(groups'[t])
    PROVE  RowsInv'
<1>1. UNCHANGED <<step, pending, last, req>>
    BY DEF transformVars
<1>2. RowsReconcile' /\ InvariantRepaired'
    BY <1>1 DEF RowsInv, RowsReconcile, InvariantRepaired
<1> QED BY <1>1, <1>2 DEF RowsInv

LEMMA ExtractKeepsRows ==
    ASSUME SyncInv, RowsInv, Extract
    PROVE  RowsInv'
<1>1. /\ Sound(req) /\ UNCHANGED <<req, transformVars>>
      /\ DOMAIN groups = Task /\ DOMAIN first = Task
    BY DEF SyncInv, GateInv, TasksInv, Extract, syncVars
<1>2. PICK t \in Task : t \in DOMAIN req.files /\ ExtractStep(t, DocOf(t), req.files[t].pages)
    BY DEF Extract, HasTask
<1> DEFINE doc == DocOf(t)
<1>3. req \in Requests /\ doc \in ToSet(req.docs)
    <2>1. req \in Requests /\ req.files[t].pin \in Ids(req.docs)
        BY <1>1, <1>2 DEF SyncInv, GateInv, Sound
    <2> QED BY <1>1, <2>1, SoundDoc DEF DocOf
<1>4. call[t] = "retry" => \E a \in Answers[doc.id] : first[t] = NormaliseDoc(a, doc)
    BY <1>2 DEF SyncInv, TasksInv
<1> HIDE DEF doc
<1>5. \/ groups' = groups
      \/ \E gs : TypedGroups(gs) /\ groups' = [groups EXCEPT ![t] = gs]
    <2>1. CASE StartExtract(t) \/ FirstPassRaises(t) \/ RetryRaises(t)
        BY <2>1 DEF StartExtract, FirstPassRaises, RetryRaises
    <2>2. CASE FirstPassAnswers(t, doc, req.files[t].pages)
        <3>1. PICK a \in Answers[doc.id] :
                 groups' = groups \/ groups' = [groups EXCEPT ![t] = NormaliseDoc(a, doc)]
            BY <2>2 DEF FirstPassAnswers
        <3>2. TypedGroups(NormaliseDoc(a, doc))
            BY <1>3, AnswerIsTyped
        <3> QED BY <3>1, <3>2
    <2>3. CASE RetryAnswers(t, doc)
        <3>1. PICK b \in Answers[doc.id] :
                 groups' = [groups EXCEPT ![t] =
                              MergeAfterRetry(first[t], NormaliseDoc(b, doc), SuspiciousEmptyArrays(first[t]))]
            BY <2>3 DEF RetryAnswers
        <3>2. PICK a \in Answers[doc.id] : first[t] = NormaliseDoc(a, doc)
            BY <1>4, <2>3 DEF RetryAnswers
        <3>3. TypedGroups(MergeAfterRetry(first[t], NormaliseDoc(b, doc), SuspiciousEmptyArrays(first[t])))
            BY <1>3, <3>2, MergedIsTyped
        <3> QED BY <3>1, <3>3
    <2> QED BY <1>2, <2>1, <2>2, <2>3 DEF ExtractStep, doc
<1>6. \A u \in Task : TypedGroups(groups'[u])
    BY <1>1, <1>5 DEF RowsInv
<1> QED BY <1>1, <1>6, SameRows

LEMMA ValidateKeepsRows ==
    ASSUME SyncInv, RowsInv, Validate
    PROVE  RowsInv'
<1>1. UNCHANGED <<req, transformVars>>
    BY DEF Validate
<1>2. \/ groups' = groups
      \/ groups' = [t \in Task |-> IF groups[t] = <<>> THEN <<>> ELSE Validated(DocOf(t), groups[t])]
    BY DEF Validate
<1>3. \A t \in Task : TypedGroups(groups[t]) /\ TypedGroups(Validated(DocOf(t), groups[t]))
    <2>1. \A t \in Task : TypedGroups(groups[t])
        BY DEF RowsInv
    <2> QED BY <2>1, ValidatedIsTyped
<1>4. \A t \in Task : TypedGroups(groups'[t])
    BY <1>2, <1>3
<1> QED BY <1>1, <1>4, SameRows

LEMMA TransformKeepsRows ==
    ASSUME SyncInv, RowsInv, Transform
    PROVE  RowsInv'
<1> DEFINE trs == req.transformations
           tr == trs[step]
<1>1. UNCHANGED req /\ DOMAIN groups = Task /\ TransformStep(trs)
    BY DEF Transform, syncVars, SyncInv, TasksInv
<1>2. \A t \in Task : TypedGroups(groups[t])
    BY DEF RowsInv
<1>3. CASE NextTransformation(trs)
    <2>1. UNCHANGED <<last, groups>> /\ step' = step + 1
          /\ pending' = IF trs[step + 1].scope = "request" THEN <<None>> ELSE TasksInOrder
        BY <1>3 DEF NextTransformation
    <2>2. RowsReconcile' /\ InvariantRepaired'
        BY <2>1 DEF RowsInv, RowsReconcile, InvariantRepaired
    <2>3. trs'[step'].scope = "task" => pending' \in Seq(Task)
        BY <1>1, <2>1, TasksAreListed
    <2> QED BY <1>1, <1>2, <2>1, <2>2, <2>3 DEF RowsInv
<1>4. CASE step > 0 /\ ApplyToTask(tr)
    <2> DEFINE t == Head(pending)
               rows == RowsOf(groups[t], tr.target)
    <2>1. /\ pending # <<>> /\ tr.scope = "task" /\ pending' = Tail(pending) /\ UNCHANGED step
          /\ \/ /\ rows # <<>> /\ last' \in Outcomes(tr, rows)
                /\ groups' = [groups EXCEPT ![t] = WithRows(groups[t], tr, tr.output, last'.out)]
             \/ UNCHANGED <<groups, last>>
        BY <1>4 DEF ApplyToTask
    <2>2. pending \in Seq(Task)
        BY <1>4, <2>1 DEF RowsInv
    <2>3. t \in Task /\ pending' \in Seq(Task)
        BY <2>1, <2>2
    <2> HIDE DEF t, tr
    <2>4. CASE rows # <<>> /\ last' \in Outcomes(tr, rows)
               /\ groups' = [groups EXCEPT ![t] = WithRows(groups[t], tr, tr.output, last'.out)]
        <3>1. TypedRows(rows)
            BY <1>2, <2>3, <2>4, FoundArray
        <3>2. TypedRows(last'.out) /\ RowsReconcile' /\ InvariantRepaired'
            <4> HIDE DEF rows
            <4> QED BY <2>4, <3>1, OutcomeIsSound
        <3>3. TypedGroups(WithRows(groups[t], tr, tr.output, last'.out))
            BY <1>2, <2>3, <2>4, <3>2, WithRowsIsTyped
        <3>4. \A u \in Task : TypedGroups(groups'[u])
            BY <1>1, <1>2, <2>4, <3>3
        <3> QED BY <1>1, <2>1, <2>3, <3>2, <3>4 DEF RowsInv
    <2>5. CASE UNCHANGED <<groups, last>>
        <3>1. RowsReconcile' /\ InvariantRepaired'
            BY <2>5 DEF RowsInv, RowsReconcile, InvariantRepaired
        <3> QED BY <1>1, <1>2, <2>1, <2>3, <2>5, <3>1 DEF RowsInv
    <2> QED BY <2>1, <2>4, <2>5
<1>5. CASE step > 0 /\ ApplyRequestScope(tr)
    <2> DEFINE all == Consolidated(tr.target)
               rows == IF all = <<>> THEN <<>> ELSE all[1].fields[1].value
    <2>1. /\ tr.scope = "request" /\ pending' = <<>> /\ UNCHANGED <<step, groups>>
          /\ (rows # <<>> /\ last' \in Outcomes(tr, rows)) \/ UNCHANGED last
        BY <1>5 DEF ApplyRequestScope
    <2>2. CASE rows # <<>> /\ last' \in Outcomes(tr, rows)
        <3>1. TypedRows(rows)
            <4> HIDE DEF all
            <4>1. all # <<>> /\ rows = all[1].fields[1].value
                BY <2>2
            <4> HIDE DEF rows, tr
            <4> QED BY <1>1, <1>2, <4>1, ConsolidatedIsTyped DEF all
        <3>2. RowsReconcile' /\ InvariantRepaired'
            <4> HIDE DEF rows, tr
            <4> QED BY <2>2, <3>1, OutcomeIsSound
        <3> QED BY <1>1, <1>2, <2>1, <3>2 DEF RowsInv
    <2>3. CASE UNCHANGED last
        <3>1. RowsReconcile' /\ InvariantRepaired'
            BY <2>3 DEF RowsInv, RowsReconcile, InvariantRepaired
        <3> QED BY <1>1, <1>2, <2>1, <3>1 DEF RowsInv
    <2> QED BY <2>1, <2>2, <2>3
<1> QED BY <1>1, <1>3, <1>4, <1>5 DEF TransformStep

LEMMA RaisingKeepsRows ==
    ASSUME RowsInv, TransformRaises
    PROVE  RowsInv'
<1>1. UNCHANGED <<req, step, last, groups>> /\ pending' = <<>>
    BY DEF TransformRaises, RequestScopeRaises
<1>2. RowsReconcile' /\ InvariantRepaired'
    BY <1>1 DEF RowsInv, RowsReconcile, InvariantRepaired
<1>3. <<>> \in Seq(Task)
    OBVIOUS
<1> QED BY <1>1, <1>2, <1>3 DEF RowsInv

LEMMA RowsStep ==
    ASSUME SyncInv, RowsInv, [Next]_vars
    PROVE  RowsInv'
<1>1. CASE Extract
    BY <1>1, ExtractKeepsRows
<1>2. CASE Validate
    BY <1>2, ValidateKeepsRows
<1>3. CASE Transform
    BY <1>3, TransformKeepsRows
<1>5. CASE TransformRaises
    BY <1>5, RaisingKeepsRows
<1>4. CASE \/ Gate \/ Load \/ ExtractEnds \/ VisualAuthenticity \/ TransformEnds
           \/ Rules \/ Answer \/ SyncTimeout \/ UNCHANGED vars
    <2>1. UNCHANGED <<req, transformVars, groups>>
        BY <1>4 DEF Gate, Load, ExtractEnds, VisualAuthenticity, TransformEnds, Rules, Answer, SyncTimeout, Work, vars, syncVars,
                    extractVars
    <2>2. \A t \in Task : TypedGroups(groups'[t])
        BY <2>1 DEF RowsInv
    <2> QED BY <2>1, <2>2, SameRows
<1> QED BY <1>1, <1>2, <1>3, <1>4, <1>5 DEF Next, Answered

LEMMA RowsHold == Spec => []RowsInv
BY SyncHolds, RowsInit, RowsStep, PTL DEF Spec

-----------------------------------------------------------------------------
(* The theorems *)

\* A request that RequestValidator lets through gives RuleEngine.evaluate a
\* graph it can work off: no cycle raises, every rule is asked in one call,
\* after the calls of all its parents, and with the results, the extracted
\* fields and the answered visual checks it declares in the prompt.
THEOREM AcceptedRulesCanRun == Spec => []AcceptedRulesRun
<1>1. SyncInv => AcceptedRulesRun
    <2> SUFFICES ASSUME SyncInv PROVE AcceptedRulesRun
        OBVIOUS
    <2>1. /\ engine \in {"idle", "levels", "done", "failed"}
          /\ engine = "idle" => asked = <<>>
          /\ engine # "idle" => Sound(req) /\ DOMAIN asked = Ids(req.rules)
          /\ req \in Requests
          /\ \A r \in DOMAIN asked : asked[r] # {} => r \in worked
        BY DEF SyncInv, GateInv, RulesInv, RulesIdle
    <2>2. engine = "done" => EachRuleOnce(req)
        <3>1. ASSUME engine = "done", NEW r \in Ids(req.rules)
              PROVE  Cardinality(asked[r]) = 1
            <4>1. r \in worked
                BY <3>1 DEF SyncInv, RulesInv
            <4>2. PICK i \in 1 .. level : asked[r] = {i}
                BY <4>1 DEF SyncInv, RulesInv
            <4> QED BY <4>2, FS_Singleton
        <3> QED BY <3>1 DEF EachRuleOnce
    <2>3. ParentsAskedFirst(req)
        <3>1. SUFFICES ASSUME NEW r \in DOMAIN asked, asked[r] # {}, NEW p \in RuleNamed(req, r).parents
                       PROVE  asked[p] # {} /\ \A i \in asked[p], j \in asked[r] : i < j
            BY DEF ParentsAskedFirst
        <3>2. engine # "idle" /\ r \in Ids(req.rules) /\ r \in worked
            BY <2>1, <3>1
        <3>3. p \in RuleParents(req, r)
            BY <2>1, <3>1, <3>2, SoundRule
        <3>4. p \in worked /\ \A i \in asked[p], j \in asked[r] : i < j
            BY <3>2, <3>3 DEF SyncInv, RulesInv
        <3>5. asked[p] # {}
            BY <3>4 DEF SyncInv, RulesInv
        <3> QED BY <3>4, <3>5
    <2>4. ParentsShown(req)
        BY DEF SyncInv, RulesInv
    <2>5. ASSUME NEW r \in DOMAIN asked, asked[r] # {}, NEW p \in RuleNamed(req, r).fields,
                 \E t \in DOMAIN req.files : DocOf(t).id = p[1] /\ groups[t] # <<>>
          PROVE  p \in shown[r].documents
        BY <2>1, <2>5 DEF SyncInv, FieldsShown
    <2>6. ASSUME NEW r \in DOMAIN asked, asked[r] # {}, NEW p \in RuleNamed(req, r).checks,
                 \E t \in visual : DocOf(t).id = p[1]
          PROVE  p \in shown[r].documents
        BY <2>1, <2>6 DEF SyncInv, FieldsShown
    <2> QED BY <2>1, <2>2, <2>3, <2>4, <2>5, <2>6 DEF AcceptedRulesRun
<1> QED BY <1>1, SyncHolds, PTL

\* RuleEngine.evaluate never comes to a level without a rule: while rules of an
\* accepted request are left, some of them has all its parents behind it (the
\* loop over get_ready makes progress with every call).
LevelsAreFilled == engine = "levels" => Ready(req) # {}

THEOREM EveryLevelAsks == Spec => []LevelsAreFilled
<1>1. SyncInv => LevelsAreFilled
    <2> SUFFICES ASSUME SyncInv, engine = "levels", Ready(req) = {} PROVE FALSE
        BY DEF LevelsAreFilled
    <2> DEFINE left == Ids(req.rules) \ worked
    <2>1. left # {} /\ ~HasCycle(req)
        BY DEF SyncInv, GateInv, RulesInv, Sound
    <2>2. ASSUME NEW r \in left PROVE RuleParents(req, r) \cap left # {}
        BY <2>2 DEF Ready, RuleParents
    <2> QED BY <2>1, <2>2 DEF HasCycle
<1> QED BY <1>1, SyncHolds, PTL

\* EntityResolutionTransformer folds rows as their keys say, whatever the models,
\* the second pass and the transformations before made of the rows, and in
\* whatever order: equal strong keys meet, different ones and keyless rows never
\* do, and the result has no key twice. A keyless row is with the first group
\* before it whose first row has a variant of its name. A folded row has all
\* pages and the fullest values (_dedupe_rows, _canonicalise).
THEOREM EntitiesReconcile == Spec => []RowsReconcile
<1>1. RowsInv => RowsReconcile
    BY DEF RowsInv
<1> QED BY <1>1, RowsHold, PTL

\* LlmTransformer repairs an invariant by giving up rows until the parts fit
\* the whole or one row is left, none of an under-sum, and no row an input row
\* supports before one that the model made up (_enforce_invariant).
THEOREM RepairedInvariantHolds == Spec => []InvariantRepaired
<1>1. RowsInv => InvariantRepaired
    BY DEF RowsInv
<1> QED BY <1>1, RowsHold, PTL

\* While MultimodalExtractor.extract is at work, the second pass adds rows to
\* empty arrays and changes nothing else of the first pass, since no two
\* fields of an accepted document type share a name.
THEOREM SecondPassOnlyAdds == Spec => FirstPassIsKept
<1> DEFINE Kept ==
        stage = "extract" =>
            \A t \in Task : groups'[t] # groups[t] =>
                \A g \in DOMAIN first'[t] : \A k \in DOMAIN first'[t][g].fields :
                    LET old == first'[t][g].fields[k] IN
                    IsEmptyArray(old) \/ groups'[t][g].fields[k] = old
<1>1. SyncInv /\ [Next]_vars => [Kept]_vars
    <2> SUFFICES ASSUME SyncInv, Next PROVE Kept
        OBVIOUS
    <2>1. CASE Extract
        <3> HIDE DEF Extract
        <3> QED BY <2>1, ExtractKeeps
    <2>2. CASE ~Extract
        <3>1. stage = "extract" => UNCHANGED groups
            BY <2>2 DEF Next, Gate, Load, ExtractEnds, Validate, VisualAuthenticity, Transform,
                        TransformEnds, TransformRaises, Rules, Answer,
                        SyncTimeout, Answered, vars, extractVars, Work
        <3> QED BY <3>1
    <2> QED BY <2>1, <2>2
<1> HIDE DEF Kept
<1>2. Spec => [][Kept]_vars
    BY <1>1, SyncHolds, PTL DEF Spec
<1> QED BY <1>2 DEF Kept, FirstPassIsKept
=============================================================================
