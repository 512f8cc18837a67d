------------------------------ MODULE HttpApiProofs -----------------------------
(***************************************************************************)
(* The two ends of the HTTP API, for any number of requests, keys,         *)
(* extractions, callers, polls and delivery attempts. The handlers: the    *)
(* idempotency of submits, and what a caller of get_result that waits may  *)
(* rely on, whatever submits and workers do behind it. The callers: what   *)
(* the SDK tells them, and how often a webhook is delivered.               *)
(***************************************************************************)
EXTENDS ExtractionApi, SdkClient, TLAPS

-----------------------------------------------------------------------------
(* Submits *)

\* At most one stored row per key, and every stored row is a valid request's.
RowsInv ==
    /\ \A p, q \in rows : key[p] = key[q] /\ key[p] # None => p = q
    /\ \A q \in rows : valid[q]

\* A handler owns a row exactly from its INSERT on, and one that has to
\* resolve a collision will find a row.
HandlerInv ==
    \A q \in Request :
        /\ handler[q].pc \in {"insert", "resolve", "publish"} => valid[q]
        /\ handler[q].pc \in {"select", "insert", "resolve"} => q \notin rows
        /\ handler[q].pc = "publish" => q \in rows
        /\ handler[q].pc # "done" => published[q] = 0 /\ handler[q].reply = "none"
        /\ handler[q].pc = "resolve" => key[q] # None /\ \E r \in rows : key[r] = key[q]

SubmitInv ==
    /\ SubmitTypeOK /\ RowsInv /\ HandlerInv
    /\ AcceptedIsStored /\ PublishedByInserterOnly /\ CollisionRecovered

LEMMA SubmitInvInit == SubmitInit => SubmitInv
BY DEF SubmitInit, SubmitInv, SubmitTypeOK, Handler, PCs, Replies, RowsInv, HandlerInv,
       AcceptedIsStored, PublishedByInserterOnly, CollisionRecovered

\* A handler that answers without touching the table.
LEMMA ReturnKeeps ==
    ASSUME SubmitInv, NEW q \in Request, NEW reply \in Replies, NEW r \in Request \cup {None},
           handler[q].pc # "done", Return(q, reply, r),
           UNCHANGED <<key, valid, rows, published>>,
           reply \in {"202", "422", "500"},
           reply = "202" => r \in rows /\ key[r] = key[q],
           reply = "422" => q \notin rows
    PROVE  SubmitInv'
<1>0. /\ handler \in [Request -> Handler] /\ published[q] = 0
    BY DEF SubmitInv, SubmitTypeOK, HandlerInv
<1>1. /\ handler'[q] = [pc |-> "done", reply |-> reply, row |-> r]
      /\ \A p \in Request \ {q} : handler'[p] = handler[p]
      /\ handler' \in [Request -> Handler]
    BY <1>0 DEF Return, Handler, PCs
<1>2. SubmitTypeOK' /\ RowsInv'
    BY <1>1 DEF SubmitInv, SubmitTypeOK, RowsInv
<1>3. HandlerInv'
    BY <1>1 DEF SubmitInv, HandlerInv
<1>4. AcceptedIsStored'
    BY <1>1 DEF SubmitInv, AcceptedIsStored, RowsInv
<1>5. PublishedByInserterOnly' /\ CollisionRecovered'
    BY <1>0, <1>1 DEF SubmitInv, PublishedByInserterOnly, CollisionRecovered
<1> QED BY <1>2, <1>3, <1>4, <1>5 DEF SubmitInv

LEMMA SelectKeeps ==
    ASSUME SubmitInv, NEW q \in Request, Select(q)
    PROVE  SubmitInv'
<1>0. handler[q].pc # "done" /\ q \notin rows /\ rows \subseteq Request
      /\ UNCHANGED <<key, valid, rows, published>>
    BY DEF Select, SubmitInv, HandlerInv, SubmitTypeOK
<1>1. ASSUME NEW r \in WithKey(key[q]), Return(q, "202", r) PROVE SubmitInv'
    <2>1. r \in rows /\ key[r] = key[q] /\ r \in Request
        BY <1>0, <1>1 DEF WithKey
    <2> QED BY <1>0, <1>1, <2>1, ReturnKeeps DEF Replies
<1>2. ASSUME Return(q, "422", None) PROVE SubmitInv'
    BY <1>0, <1>2, ReturnKeeps DEF Replies
<1>3. ASSUME valid[q], handler[q].pc = "select", GoTo(q, "insert") PROVE SubmitInv'
    <2>0. handler \in [Request -> Handler]
        BY DEF SubmitInv, SubmitTypeOK
    <2>1. /\ handler'[q].pc = "insert" /\ handler'[q].reply = handler[q].reply
          /\ handler'[q].row = handler[q].row /\ handler' \in [Request -> Handler]
          /\ \A p \in Request \ {q} : handler'[p] = handler[p]
        BY <1>3, <2>0 DEF GoTo, Handler, PCs
    <2>2. SubmitTypeOK' /\ RowsInv' /\ HandlerInv'
        BY <1>0, <1>3, <2>1 DEF SubmitInv, SubmitTypeOK, RowsInv, HandlerInv
    <2>3. AcceptedIsStored' /\ PublishedByInserterOnly' /\ CollisionRecovered'
        BY <1>0, <1>3, <2>1
           DEF SubmitInv, AcceptedIsStored, PublishedByInserterOnly, CollisionRecovered
    <2> QED BY <2>2, <2>3 DEF SubmitInv
<1> QED BY <1>1, <1>2, <1>3 DEF Select

\* A row goes in when no other has its key.
LEMMA InsertKeepsRows ==
    ASSUME SubmitInv, NEW q \in Request, valid[q], WithKey(key[q]) = {},
           rows' = rows \cup {q}, UNCHANGED <<key, valid>>
    PROVE  RowsInv'
<1>1. \A r \in rows : key[q] # None => key[r] # key[q]
    BY DEF WithKey
<1> QED BY <1>1 DEF SubmitInv, RowsInv

LEMMA InsertKeeps ==
    ASSUME SubmitInv, NEW q \in Request, Insert(q)
    PROVE  SubmitInv'
<1>0. /\ handler \in [Request -> Handler] /\ handler[q].pc = "insert" /\ valid[q]
      /\ published[q] = 0 /\ handler[q].reply = "none" /\ q \notin rows
      /\ UNCHANGED <<key, valid, published>> /\ rows' = rows \cup {q}
    BY DEF SubmitInv, SubmitTypeOK, HandlerInv, Insert
<1>1. /\ handler'[q].pc = "publish" /\ handler'[q].reply = "none"
      /\ handler' \in [Request -> Handler]
      /\ \A p \in Request \ {q} : handler'[p] = handler[p]
    BY <1>0 DEF Insert, GoTo, Handler, PCs
<1>2. RowsInv'
    BY <1>0, InsertKeepsRows DEF Insert
<1>3. SubmitTypeOK' /\ HandlerInv'
    BY <1>0, <1>1 DEF SubmitInv, SubmitTypeOK, HandlerInv
<1>4. AcceptedIsStored' /\ PublishedByInserterOnly' /\ CollisionRecovered'
    BY <1>0, <1>1 DEF SubmitInv, AcceptedIsStored, PublishedByInserterOnly, CollisionRecovered
<1> QED BY <1>2, <1>3, <1>4 DEF SubmitInv

LEMMA CollideKeeps ==
    ASSUME SubmitInv, NEW q \in Request, Collide(q)
    PROVE  SubmitInv'
<1>0. /\ handler \in [Request -> Handler] /\ handler[q].pc = "insert" /\ valid[q]
      /\ published[q] = 0 /\ handler[q].reply = "none" /\ q \notin rows
      /\ UNCHANGED <<key, valid, published, rows>>
    BY DEF SubmitInv, SubmitTypeOK, HandlerInv, Collide
<1>1. /\ handler'[q].pc = "resolve" /\ handler'[q].reply = "none"
      /\ handler' \in [Request -> Handler]
      /\ \A p \in Request \ {q} : handler'[p] = handler[p]
    BY <1>0 DEF Collide, GoTo, Handler, PCs
<1>2. key[q] # None /\ \E r \in rows : key[r] = key[q]
    BY DEF Collide, WithKey
<1>3. SubmitTypeOK' /\ RowsInv'
    BY <1>0, <1>1 DEF SubmitInv, SubmitTypeOK, RowsInv
<1>4. HandlerInv'
    BY <1>0, <1>1, <1>2 DEF SubmitInv, HandlerInv
<1>5. AcceptedIsStored' /\ PublishedByInserterOnly' /\ CollisionRecovered'
    BY <1>0, <1>1 DEF SubmitInv, AcceptedIsStored, PublishedByInserterOnly, CollisionRecovered
<1> QED BY <1>3, <1>4, <1>5 DEF SubmitInv

LEMMA ResolveKeeps ==
    ASSUME SubmitInv, NEW q \in Request, Resolve(q)
    PROVE  SubmitInv'
<1>1. WithKey(key[q]) # {} /\ UNCHANGED <<key, valid, rows, published>>
      /\ handler[q].pc # "done"
    BY DEF Resolve, SubmitInv, HandlerInv, WithKey
<1>2. PICK r \in WithKey(key[q]) : Return(q, "202", r)
    BY <1>1 DEF Resolve
<1>3. r \in rows /\ key[r] = key[q] /\ r \in Request
    BY <1>2 DEF WithKey, SubmitInv, SubmitTypeOK
<1> QED BY <1>1, <1>2, <1>3, ReturnKeeps DEF Replies

LEMMA PublishKeeps ==
    ASSUME SubmitInv, NEW q \in Request, Publish(q)
    PROVE  SubmitInv'
<1>0. /\ handler \in [Request -> Handler] /\ q \in rows /\ published[q] = 0
      /\ published \in [Request -> 0 .. 1]
      /\ UNCHANGED <<key, valid, rows>>
    BY DEF SubmitInv, SubmitTypeOK, HandlerInv, Publish
<1>1. /\ handler'[q] = [pc |-> "done", reply |-> "202", row |-> q]
      /\ \A p \in Request \ {q} : handler'[p] = handler[p]
      /\ handler' \in [Request -> Handler]
    BY <1>0 DEF Publish, Return, Handler, PCs, Replies
<1>2. /\ published' \in [Request -> 0 .. 1]
      /\ \A p \in Request \ {q} : published'[p] = published[p]
    BY <1>0 DEF Publish
<1>3. SubmitTypeOK' /\ RowsInv'
    BY <1>0, <1>1, <1>2 DEF SubmitInv, SubmitTypeOK, RowsInv
<1>4. HandlerInv'
    BY <1>0, <1>1, <1>2 DEF SubmitInv, HandlerInv
<1>5. AcceptedIsStored'
    BY <1>0, <1>1 DEF SubmitInv, AcceptedIsStored, RowsInv
<1>6. PublishedByInserterOnly' /\ CollisionRecovered'
    BY <1>0, <1>1, <1>2 DEF SubmitInv, PublishedByInserterOnly, CollisionRecovered
<1> QED BY <1>3, <1>4, <1>5, <1>6 DEF SubmitInv

LEMMA FaultKeeps ==
    ASSUME SubmitInv, NEW q \in Request, Fault(q)
    PROVE  SubmitInv'
<1>1. CASE UNCHANGED rows
    BY <1>1, ReturnKeeps DEF Fault, Replies
<1>2. CASE handler[q].pc = "insert" /\ WithKey(key[q]) = {} /\ rows' = rows \cup {q}
    <2>0. /\ handler \in [Request -> Handler] /\ valid[q] /\ published[q] = 0
          /\ UNCHANGED <<key, valid, published>>
        BY <1>2 DEF SubmitInv, SubmitTypeOK, HandlerInv, Fault
    <2>1. /\ handler'[q] = [pc |-> "done", reply |-> "500", row |-> None]
          /\ \A p \in Request \ {q} : handler'[p] = handler[p]
          /\ handler' \in [Request -> Handler]
        BY <2>0 DEF Fault, Return, Handler, PCs, Replies
    <2>2. RowsInv'
        BY <1>2, <2>0, InsertKeepsRows
    <2>3. SubmitTypeOK' /\ HandlerInv'
        BY <1>2, <2>0, <2>1 DEF SubmitInv, SubmitTypeOK, HandlerInv
    <2>4. AcceptedIsStored' /\ PublishedByInserterOnly' /\ CollisionRecovered'
        BY <1>2, <2>0, <2>1
           DEF SubmitInv, AcceptedIsStored, PublishedByInserterOnly, CollisionRecovered
    <2> QED BY <2>2, <2>3, <2>4 DEF SubmitInv
<1> QED BY <1>1, <1>2 DEF Fault

LEMMA SubmitInvStep == SubmitInv /\ [SubmitNext]_submitVars => SubmitInv'
<1> SUFFICES ASSUME SubmitInv, [SubmitNext]_submitVars PROVE SubmitInv'
    OBVIOUS
<1>1. ASSUME NEW q \in Request, HandlerStep(q) PROVE SubmitInv'
    BY <1>1, SelectKeeps, InsertKeeps, CollideKeeps, ResolveKeeps, PublishKeeps, FaultKeeps
       DEF HandlerStep
<1>2. CASE UNCHANGED submitVars
    BY <1>2 DEF submitVars, SubmitInv, SubmitTypeOK, RowsInv, HandlerInv,
                AcceptedIsStored, PublishedByInserterOnly, CollisionRecovered
<1> QED BY <1>1, <1>2 DEF SubmitNext

LEMMA SubmitInvHolds == SubmitSpec => []SubmitInv
BY SubmitInvInit, SubmitInvStep, PTL DEF SubmitSpec

\* Whatever races, repeats or fails, all accepted submits of one key are given
\* one extraction.
THEOREM OneExtractionPerKey == SubmitSpec => []SameKeySameExtraction
<1>1. SubmitInv => SameKeySameExtraction
    BY DEF SubmitInv, AcceptedIsStored, RowsInv, SameKeySameExtraction
<1> QED BY <1>1, SubmitInvHolds, PTL

\* An accepted submit is stored, valid and of the caller's key; a rejected one
\* has stored nothing.
THEOREM AcceptedSubmitIsStored == SubmitSpec => []AcceptedIsStored
<1>1. SubmitInv => AcceptedIsStored
    BY DEF SubmitInv
<1> QED BY <1>1, SubmitInvHolds, PTL

\* Only the handler that inserted a row publishes its event.
THEOREM OnlyInserterPublishes == SubmitSpec => []PublishedByInserterOnly
<1>1. SubmitInv => PublishedByInserterOnly
    BY DEF SubmitInv
<1> QED BY <1>1, SubmitInvHolds, PTL

\* No caller sees the collision on the unique index.
THEOREM CollisionIsRecovered == SubmitSpec => []CollisionRecovered
<1>1. SubmitInv => CollisionRecovered
    BY DEF SubmitInv
<1> QED BY <1>1, SubmitInvHolds, PTL

-----------------------------------------------------------------------------
(* The handlers together *)

\* Readers and workers do not disturb the submits.
THEOREM ApiKeepsSubmits == ApiSpec => SubmitSpec
<1>1. ApiInit => SubmitInit
    BY DEF ApiInit
<1>2. [ApiNext]_apiVars => [SubmitNext]_submitVars
    BY DEF ApiNext, SubmitStep, ReadStep, BehindStep, SubmitNext, apiVars
<1> QED BY <1>1, <1>2, PTL DEF ApiSpec, SubmitSpec

LifecycleTypeOK ==
    /\ status \in [Ids -> {"absent", "queued", "running", "succeeded", "failed", "cancelled"}]
    /\ leg \in [Ids -> {"null", "pending", "running", "succeeded", "failed"}]
    /\ result \in [Ids -> {"none", "llm", "grounded"}]

\* An extraction whose stored result no later step changes.
Settled(i) == status[i] = "succeeded" /\ leg[i] \in {"null", "succeeded", "failed"}

LEMMA LifecycleKeeps ==
    ASSUME LifecycleTypeOK, [LifecycleNext]_lifecycleVars
    PROVE  /\ LifecycleTypeOK'
           /\ \A i \in Ids : Settled(i) => Settled(i)' /\ result'[i] = result[i]
<1>1. ASSUME NEW i \in Ids,
             Accepted(i) \/ Cancelled(i) \/ Started(i) \/ Retried(i) \/ Failed(i)
      PROVE  /\ LifecycleTypeOK'
             /\ \A j \in Ids : Settled(j) => Settled(j)' /\ result'[j] = result[j]
    BY <1>1 DEF Accepted, Cancelled, Started, Retried, Failed, MoveTo, LifecycleTypeOK, Settled
<1>2. ASSUME NEW i \in Ids, Succeeded(i)
      PROVE  /\ LifecycleTypeOK'
             /\ \A j \in Ids : Settled(j) => Settled(j)' /\ result'[j] = result[j]
    BY <1>2 DEF Succeeded, LifecycleTypeOK, Settled
<1>3. ASSUME NEW i \in Ids, LegStarted(i) \/ LegRetried(i) \/ LegFailed(i)
      PROVE  /\ LifecycleTypeOK'
             /\ \A j \in Ids : Settled(j) => Settled(j)' /\ result'[j] = result[j]
    BY <1>3 DEF LegStarted, LegRetried, LegFailed, MoveLegTo, LifecycleTypeOK, Settled
<1>4. ASSUME NEW i \in Ids, LegSucceeded(i)
      PROVE  /\ LifecycleTypeOK'
             /\ \A j \in Ids : Settled(j) => Settled(j)' /\ result'[j] = result[j]
    BY <1>4 DEF LegSucceeded, LifecycleTypeOK, Settled
<1>5. CASE UNCHANGED lifecycleVars
    BY <1>5 DEF lifecycleVars, LifecycleTypeOK, Settled
<1> QED BY <1>1, <1>2, <1>3, <1>4, <1>5 DEF LifecycleNext, LifecycleStep

\* A request that waited and was answered 200 before its deadline has read a
\* settled extraction.
ReaderInv ==
    /\ reader \in [Reader -> ResultRequest]
    /\ \A r \in Reader : reader[r].pc # "done" => reader[r].reply = "none"
    /\ \A r \in Reader :
          reader[r].wait /\ reader[r].reply = "200" /\ ~reader[r].expired =>
             Settled(reader[r].id) /\ reader[r].got = result[reader[r].id]

ApiInv == LifecycleTypeOK /\ ReaderInv

LEMMA ApiInvInit == ApiInit => ApiInv
BY DEF ApiInit, ReaderInit, LifecycleInit, ApiInv, LifecycleTypeOK, ReaderInv, ResultRequest

\* A request is answered with what the row stores, at a row that is settled if
\* the request has waited for it.
LEMMA AnswerKeeps ==
    ASSUME ApiInv, UNCHANGED lifecycleVars, NEW r \in Reader, NEW e \in BOOLEAN, Answer(r, e),
           reader[r].wait /\ ~e => Stable(reader[r].id) \/ status[reader[r].id] = "absent"
    PROVE  ReaderInv'
<1> DEFINE i == reader[r].id
           g == IF Reply(i) = "200" THEN result[i] ELSE "none"
           k == [reader[r] EXCEPT !.pc = "done", !.expired = e, !.reply = Reply(i), !.got = g]
<1>0. /\ reader \in [Reader -> ResultRequest] /\ reader[r] \in ResultRequest /\ i \in Ids
      /\ LifecycleTypeOK
    BY DEF ApiInv, ReaderInv, ResultRequest
<1>1. Reply(i) \in ResultReplies /\ (Reply(i) = "200" => status[i] = "succeeded")
    BY <1>0 DEF Reply, ResultReplies
<1>2. g \in {"none", "llm", "grounded"} /\ (Reply(i) = "200" => g = result[i])
    BY <1>0 DEF LifecycleTypeOK
<1>3. reader' = [reader EXCEPT ![r] = k]
    BY <1>0 DEF Answer
<1> HIDE DEF g
<1>4. k \in ResultRequest /\ k.pc = "done" /\ k.id = i /\ k.wait = reader[r].wait
      /\ k.expired = e /\ k.reply = Reply(i) /\ k.got = g
    BY <1>0, <1>1, <1>2 DEF ResultRequest
<1> HIDE DEF k
<1>5. reader' \in [Reader -> ResultRequest] /\ reader'[r] = k
      /\ \A q \in Reader \ {r} : reader'[q] = reader[q]
    BY <1>0, <1>3, <1>4
<1>6. k.wait /\ k.reply = "200" /\ ~k.expired => Settled(i) /\ k.got = result[i]
    BY <1>0, <1>1, <1>2, <1>4 DEF Stable, Settled
<1> QED BY <1>4, <1>5, <1>6 DEF ApiInv, ReaderInv, lifecycleVars, Settled

LEMMA ReaderStepKeeps ==
    ASSUME ApiInv, NEW r \in Reader, ReaderStep(r)
    PROVE  ApiInv'
<1>0. /\ UNCHANGED lifecycleVars /\ LifecycleTypeOK
      /\ reader \in [Reader -> ResultRequest] /\ reader[r] \in ResultRequest
    BY DEF ApiInv, ReaderInv, ReaderStep, FirstGet, PollStable, PollExpired, PollSleeps
<1>1. LifecycleTypeOK'
    BY <1>0 DEF lifecycleVars, LifecycleTypeOK
<1>2. ASSUME NEW k \in ResultRequest, reader' = [reader EXCEPT ![r] = k],
             k.pc = "poll", reader[r].pc # "done", k.reply = reader[r].reply
      PROVE  ReaderInv'
    BY <1>0, <1>2 DEF ApiInv, ReaderInv, lifecycleVars, Settled
<1>3. CASE FirstGet(r)
    <2>1. CASE reader[r].wait /\ status[reader[r].id] # "absent"
        <3> DEFINE k == [reader[r] EXCEPT !.pc = "poll"]
        <3>1. k \in ResultRequest /\ k.pc = "poll" /\ k.reply = reader[r].reply
            BY <1>0 DEF ResultRequest
        <3>2. reader' = [reader EXCEPT ![r] = k] /\ reader[r].pc # "done"
            BY <1>0, <1>3, <2>1 DEF FirstGet
        <3> QED BY <1>1, <1>2, <3>1, <3>2 DEF ApiInv
    <2>2. CASE ~(reader[r].wait /\ status[reader[r].id] # "absent")
        BY <1>0, <1>1, <1>3, <2>2, AnswerKeeps DEF FirstGet, ApiInv
    <2> QED BY <1>1, <2>1, <2>2 DEF ApiInv
<1>4. CASE PollStable(r) \/ PollExpired(r)
    BY <1>0, <1>1, <1>4, AnswerKeeps DEF PollStable, PollExpired, ApiInv
<1>5. CASE PollSleeps(r)
    <2> DEFINE n == reader[r].left - 1
               k == [reader[r] EXCEPT !.left = n]
    <2>1. n \in 0 .. MaxPolls /\ reader' = [reader EXCEPT ![r] = k] /\ reader[r].pc = "poll"
        BY <1>0, <1>5, ReaderAssumption DEF PollSleeps, ResultRequest
    <2> HIDE DEF n
    <2>2. k \in ResultRequest /\ k.pc = "poll" /\ k.reply = reader[r].reply
        BY <1>0, <2>1 DEF ResultRequest
    <2> QED BY <1>1, <1>2, <2>1, <2>2 DEF ApiInv
<1> QED BY <1>3, <1>4, <1>5 DEF ReaderStep

\* The submits move extractions along the lifecycle and nothing else.
LEMMA ApiMovesLifecycle == [ApiNext]_apiVars => [LifecycleNext]_lifecycleVars
BY ApiAssumption DEF ApiNext, SubmitStep, ReadStep, ReaderStep, FirstGet, PollStable, PollExpired,
   PollSleeps, BehindStep, LifecycleNext, LifecycleStep, apiVars, readerVars, lifecycleVars

LEMMA ApiInvStep == ApiInv /\ [ApiNext]_apiVars => ApiInv'
<1> SUFFICES ASSUME ApiInv, [ApiNext]_apiVars PROVE ApiInv'
    OBVIOUS
<1>1. CASE UNCHANGED reader
    <2>1. /\ LifecycleTypeOK'
          /\ \A i \in Ids : Settled(i) => Settled(i)' /\ result'[i] = result[i]
        BY ApiMovesLifecycle, LifecycleKeeps DEF ApiInv
    <2>2. \A r \in Reader : reader[r].id \in Ids
        BY DEF ApiInv, ReaderInv, ResultRequest
    <2>3. ReaderInv'
        BY <1>1, <2>1, <2>2 DEF ApiInv, ReaderInv, Settled
    <2> QED BY <2>1, <2>3 DEF ApiInv
<1>2. ASSUME NEW r \in Reader, ReadStep(r) PROVE ApiInv'
    BY <1>2, ReaderStepKeeps DEF ReadStep
<1> QED BY <1>1, <1>2 DEF ApiNext, SubmitStep, BehindStep, apiVars, readerVars

\* A caller that waited for post-processing and was answered before its
\* deadline has the final result, although the row is read again for every
\* poll and the extraction may move between any two of them.
THEOREM WaitedResultStaysFinal == ApiSpec => []WaitedResultIsFinal
<1>1. ApiInv => WaitedResultIsFinal
    BY DEF ApiInv, ReaderInv, WaitedResultIsFinal
<1> QED BY <1>1, ApiInvInit, ApiInvStep, PTL DEF ApiSpec

\* Under the API handlers an extraction follows its lifecycle: what a submit
\* stores is accepted there, and no reader moves it.
THEOREM ApiKeepsLifecycle == ApiSpec => Lifecycle
<1>1. ApiInit => LifecycleInit
    BY DEF ApiInit, ReaderInit
<1> QED BY <1>1, ApiMovesLifecycle, PTL DEF ApiSpec, Lifecycle

-----------------------------------------------------------------------------
(* Deliveries *)

\* An attempt is owed to a delivery that has not ended.
DeliveryInv ==
    /\ GivesUpOnlyWhenSpent
    /\ \A d \in Delivery : call[d].pc = "post" => call[d].attempt < Budget
    /\ \A d \in Delivery : call[d].pc = "backoff" => call[d].attempt < Budget

LEMMA BudgetIsPositive == Budget \in Nat /\ Budget >= 1
BY WebhookAssumption DEF Budget

LEMMA DeliveryInit == WebhookInit => DeliveryInv
BY BudgetIsPositive DEF WebhookInit, DeliveryInv, GivesUpOnlyWhenSpent, Call, Answers, Verdicts

LEMMA DeliveryUpdate ==
    ASSUME DeliveryInv, NEW d \in Delivery, NEW k \in Call, call' = [call EXCEPT ![d] = k],
           k.pc \in {"post", "backoff"} => k.attempt < Budget,
           k.pc = "done" => /\ k.last \in Retryable => k.attempt = Budget
                            /\ k.outcome = "false" => k.last \in {"4xx", "transport"}
    PROVE  DeliveryInv'
BY DEF DeliveryInv, GivesUpOnlyWhenSpent

LEMMA PostKeeps == ASSUME DeliveryInv, NEW d \in Delivery, Post(d) PROVE DeliveryInv'
<1> DEFINE n == call[d].attempt + 1
<1>0. call \in [Delivery -> Call] /\ call[d] \in Call /\ call[d].attempt < Budget
    BY DEF DeliveryInv, GivesUpOnlyWhenSpent, Post
<1>1. n \in 0 .. Budget
    BY <1>0, BudgetIsPositive DEF Call
<1>2. OutOfAttempts(d) <=> n = Budget
    BY <1>0, BudgetIsPositive DEF OutOfAttempts, Call
<1>3. ~OutOfAttempts(d) => n < Budget
    BY <1>1, <1>2, BudgetIsPositive
<1> DEFINE more(a) == [call[d] EXCEPT !.pc = "backoff", !.attempt = n, !.last = a]
           last(a) == [pc |-> "done", attempt |-> n, last |-> a, outcome |-> Verdict(a)]
<1>4. PICK a \in Answers :
         call' = [call EXCEPT ![d] = IF Retries(a) /\ ~OutOfAttempts(d) THEN more(a) ELSE last(a)]
    BY <1>0 DEF Post
<1> HIDE DEF n
<1>5. CASE Retries(a) /\ ~OutOfAttempts(d)
    <2>1. more(a) \in Call /\ more(a).pc = "backoff" /\ more(a).attempt = n
        BY <1>0, <1>1 DEF Call
    <2>2. call' = [call EXCEPT ![d] = more(a)]
        BY <1>4, <1>5
    <2> QED BY <1>3, <1>5, <2>1, <2>2, DeliveryUpdate
<1>6. CASE ~(Retries(a) /\ ~OutOfAttempts(d))
    <2>1. Verdict(a) \in Verdicts /\ (Verdict(a) = "false" => a \in {"4xx", "transport"})
        BY DEF Verdict, Verdicts, Answers, Retryable
    <2>2. last(a) \in Call
        BY <1>1, <2>1 DEF Call
    <2>3. call' = [call EXCEPT ![d] = last(a)]
        BY <1>4, <1>6
    <2>4. a \in Retryable => n = Budget
        BY <1>2, <1>6 DEF Retries
    <2> QED BY <2>1, <2>2, <2>3, <2>4, DeliveryUpdate
<1> QED BY <1>5, <1>6

LEMMA WakeKeeps == ASSUME DeliveryInv, NEW d \in Delivery, Wake(d) PROVE DeliveryInv'
<1> DEFINE k == [call[d] EXCEPT !.pc = "post"]
<1>1. k \in Call /\ k.pc = "post" /\ k.attempt = call[d].attempt
    BY DEF DeliveryInv, GivesUpOnlyWhenSpent, Call
<1>2. call' = [call EXCEPT ![d] = k] /\ call[d].attempt < Budget
    BY DEF Wake, DeliveryInv, GivesUpOnlyWhenSpent
<1> QED BY <1>1, <1>2, DeliveryUpdate

LEMMA DeliveryStep == DeliveryInv /\ [SdkNext]_sdkVars => DeliveryInv'
<1> SUFFICES ASSUME DeliveryInv, [SdkNext]_sdkVars PROVE DeliveryInv'
    OBVIOUS
<1>1. CASE UNCHANGED call
    BY <1>1 DEF DeliveryInv, GivesUpOnlyWhenSpent
<1>2. ASSUME NEW d \in Delivery, PostEvent(d) \/ WakeDelivery(d) PROVE DeliveryInv'
    BY <1>2, PostKeeps, WakeKeeps DEF PostEvent, WakeDelivery
<1>3. ASSUME NEW c \in Reader,
             Create(c) \/ Cancel(c) \/ WaitStep(c) \/ EventArrives(c) \/ FetchStep(c)
      PROVE  UNCHANGED call
    BY <1>3 DEF Create, Cancel, WaitStep, GetServed, GetLost, WaitReturns, WaitTimesOut, WaitSleeps,
       WaitWakes, EventArrives, FetchStep, Serve, ResultReturns, ResultLost, Quiet
<1>4. UNCHANGED sdkVars => UNCHANGED call
    BY DEF sdkVars, serviceVars
<1> QED BY <1>1, <1>2, <1>3, <1>4 DEF SdkNext

\* A delivery ends on a retryable answer only when the whole budget was spent, and
\* answers False only for a client or transport error (_do_post and its retry),
\* for any configured number of attempts, zero and negative ones included.
THEOREM DeliveryBudgetIsSpent == SdkSpec => []GivesUpOnlyWhenSpent
<1>1. SdkInit => DeliveryInv
    BY DeliveryInit DEF SdkInit
<1>2. DeliveryInv => GivesUpOnlyWhenSpent
    BY DEF DeliveryInv
<1> QED BY <1>1, <1>2, DeliveryStep, PTL DEF SdkSpec

-----------------------------------------------------------------------------
(* The extractions behind the calls *)

\* A succeeded extraction has a result.
ResultStored == \A i \in Ids : status[i] = "succeeded" => result[i] # "none"

\* What calls rely on between two reads of the row: it does not disappear, and a
\* final status stays.
StatusMoves ==
    \A i \in Ids : /\ status[i] # "absent" => status'[i] # "absent"
                   /\ status[i] \in Terminal => status'[i] = status[i]

LEMMA LifecycleMoves ==
    ASSUME LifecycleTypeOK, ResultStored, [LifecycleNext]_lifecycleVars
    PROVE  LifecycleTypeOK' /\ ResultStored' /\ StatusMoves
<1> USE DEF LifecycleTypeOK, ResultStored, StatusMoves, Terminal
<1>1. ASSUME NEW i \in Ids,
             Accepted(i) \/ Cancelled(i) \/ Started(i) \/ Retried(i) \/ Failed(i)
      PROVE  LifecycleTypeOK' /\ ResultStored' /\ StatusMoves
    BY <1>1 DEF Accepted, Cancelled, Started, Retried, Failed, MoveTo
<1>2. ASSUME NEW i \in Ids, Succeeded(i) PROVE LifecycleTypeOK' /\ ResultStored' /\ StatusMoves
    BY <1>2 DEF Succeeded
<1>3. ASSUME NEW i \in Ids, LegStarted(i) \/ LegRetried(i) \/ LegFailed(i)
      PROVE  LifecycleTypeOK' /\ ResultStored' /\ StatusMoves
    BY <1>3 DEF LegStarted, LegRetried, LegFailed, MoveLegTo
<1>4. ASSUME NEW i \in Ids, LegSucceeded(i)
      PROVE  LifecycleTypeOK' /\ ResultStored' /\ StatusMoves
    BY <1>4 DEF LegSucceeded
<1>5. CASE UNCHANGED lifecycleVars
    BY <1>5 DEF lifecycleVars
<1> QED BY <1>1, <1>2, <1>3, <1>4, <1>5 DEF LifecycleNext, LifecycleStep

-----------------------------------------------------------------------------
(* The callers *)

\* Where caller s stands with a service whose rows have the statuses st: a call
\* that is under way is for a stored extraction, a final status it was told is
\* still true, and a program that ended with neither a timeout nor a transport
\* error was told nothing or a final status.
Told(s, st) ==
    /\ s.pc = "start" => s.seen = "none"
    /\ s.pc = "sleep" => s.left > 0
    /\ s.pc \in {"poll", "read", "sleep", "listen", "fetch"} => st[s.id] # "absent"
    /\ s.pc # "done" => s.outcome = "none"
    /\ s.seen \in Terminal => st[s.id] = s.seen
    /\ s.pc = "fetch" => s.seen = "succeeded"
    /\ s.pc = "done" => s.seen \in {"none"} \cup Terminal \/ s.outcome \in {"timed_out", WireError}
    /\ s.outcome \in HttpErrors => s.seen # "succeeded"

\* The request r behind the get_result of caller s was sent by a caller that had
\* been told "succeeded", and is answered with the result.
Served(s, r) ==
    /\ r.id = s.id
    /\ r.pc # "new" => s.seen = "succeeded"
    /\ r.pc = "done" => r.reply = "200"

SdkInv ==
    /\ LifecycleTypeOK /\ ResultStored
    /\ sdk \in [Reader -> Caller]
    /\ reader \in [Reader -> ResultRequest]
    /\ \A c \in Reader : Told(sdk[c], status) /\ Served(sdk[c], reader[c])
    /\ \A d \in verified : d \in Ids /\ status[d] \in {"succeeded", "failed"}

LEMMA SdkInvInit == SdkInit => SdkInv
<1> SUFFICES ASSUME SdkInit PROVE SdkInv
    OBVIOUS
<1>1. LifecycleTypeOK /\ ResultStored
    BY DEF SdkInit, ReaderInit, LifecycleInit, LifecycleTypeOK, ResultStored
<1>2. /\ sdk \in [Reader -> Caller]
      /\ \A c \in Reader : sdk[c].pc = "start" /\ sdk[c].seen = "none" /\ sdk[c].outcome = "none"
    BY DEF SdkInit
<1>3. /\ reader \in [Reader -> ResultRequest]
      /\ \A c \in Reader : reader[c].pc = "new" /\ reader[c].id = sdk[c].id
    BY DEF SdkInit, ReaderInit
<1>4. \A c \in Reader : Told(sdk[c], status) /\ Served(sdk[c], reader[c])
    BY <1>2, <1>3 DEF Told, Served, Terminal, HttpErrors
<1> QED BY <1>1, <1>2, <1>3, <1>4 DEF SdkInit, SdkInv

\* A step in which caller c, and no request of it, moves.
LEMMA CallerMoves ==
    ASSUME SdkInv, [LifecycleNext]_lifecycleVars, UNCHANGED <<reader, verified>>,
           NEW c \in Reader, NEW k \in Caller, k.id = sdk[c].id,
           sdk' = [sdk EXCEPT ![c] = k],
           Told(k, status'), reader[c].pc # "new" => k.seen = sdk[c].seen
    PROVE  SdkInv'
<1>1. LifecycleTypeOK' /\ ResultStored' /\ StatusMoves
    BY LifecycleMoves DEF SdkInv
<1>2. sdk' \in [Reader -> Caller] /\ sdk'[c] = k /\ \A b \in Reader \ {c} : sdk'[b] = sdk[b]
    BY DEF SdkInv
<1>3. ASSUME NEW b \in Reader PROVE (Told(sdk[b], status) /\ Served(sdk[b], reader[b]))'
    <2>1. Told(sdk[b], status)'
        <3>1. CASE b = c
            BY <1>2, <3>1 DEF Told
        <3>2. CASE b # c
            <4>1. sdk'[b] = sdk[b] /\ sdk[b] \in Caller /\ Told(sdk[b], status)
                BY <1>2, <3>2 DEF SdkInv
            <4> QED BY <1>1, <4>1 DEF Told, StatusMoves, Caller
        <3> QED BY <3>1, <3>2
    <2>2. Served(sdk[b], reader[b])'
        BY <1>2 DEF SdkInv, Served
    <2> QED BY <2>1, <2>2
<1>4. \A d \in verified' : d \in Ids /\ status'[d] \in {"succeeded", "failed"}
    BY <1>1 DEF SdkInv, StatusMoves, Terminal
<1> QED BY <1>1, <1>2, <1>3, <1>4 DEF SdkInv

Outcomes == {"none", "returned", "timed_out", "200"} \cup HttpErrors \cup {WireError}

\* The program of a caller ends.
LEMMA EndingMoves ==
    ASSUME SdkInv, [LifecycleNext]_lifecycleVars, UNCHANGED <<reader, verified>>,
           NEW c \in Reader, NEW o \in Outcomes, Ends(c, o),
           sdk[c].seen \in {"none"} \cup Terminal \/ o \in {"timed_out", WireError},
           o \in HttpErrors => sdk[c].seen # "succeeded"
    PROVE  SdkInv'
<1> DEFINE k == [sdk[c] EXCEPT !.pc = "done", !.outcome = o]
<1>0. sdk \in [Reader -> Caller] /\ sdk[c] \in Caller /\ Told(sdk[c], status)
    BY DEF SdkInv
<1>1. sdk' = [sdk EXCEPT ![c] = k]
    BY <1>0 DEF Ends
<1>2. /\ k \in Caller /\ k.id = sdk[c].id /\ k.seen = sdk[c].seen /\ k.pc = "done"
      /\ k.outcome = o /\ k.left = sdk[c].left
    BY <1>0 DEF Caller, Outcomes
<1> HIDE DEF k
<1>3. StatusMoves
    BY LifecycleMoves DEF SdkInv
<1>4. Told(k, status')
    BY <1>0, <1>2, <1>3 DEF Told, StatusMoves, Caller
<1> QED BY <1>1, <1>2, <1>4, CallerMoves

LEMMA CreateKeeps == ASSUME SdkInv, NEW c \in Reader, Create(c) PROVE SdkInv'
<1> DEFINE i == sdk[c].id
<1>0. /\ sdk \in [Reader -> Caller] /\ sdk[c] \in Caller /\ i \in Ids /\ Told(sdk[c], status)
      /\ sdk[c].pc = "start" /\ sdk[c].seen = "none" /\ sdk[c].outcome = "none"
      /\ LifecycleTypeOK /\ Served(sdk[c], reader[c])
    BY DEF SdkInv, Caller, Create, Told
<1>1. [LifecycleNext]_lifecycleVars /\ UNCHANGED <<reader, verified>>
    BY <1>0 DEF Create, Quiet, LifecycleNext, LifecycleStep
<1>2. CASE WireFails(c)
    BY <1>0, <1>1, <1>2, EndingMoves DEF WireFails, Outcomes, HttpErrors, WireError
<1>3. ASSUME NEW next \in {"poll", "listen"}, sdk' = [sdk EXCEPT ![c].pc = next],
             IF status[i] = "absent" THEN Accepted(i) ELSE UNCHANGED lifecycleVars
      PROVE  SdkInv'
    <2> DEFINE k == [sdk[c] EXCEPT !.pc = next]
    <2>1. sdk' = [sdk EXCEPT ![c] = k]
        BY <1>0, <1>3
    <2>2. /\ k \in Caller /\ k.id = i /\ k.seen = "none" /\ k.pc = next /\ k.outcome = "none"
        BY <1>0 DEF Caller
    <2> HIDE DEF k
    <2>3. status'[i] # "absent"
        BY <1>0, <1>3 DEF Accepted, MoveTo, lifecycleVars, LifecycleTypeOK
    <2>4. Told(k, status')
        BY <2>2, <2>3 DEF Told, Terminal, HttpErrors
    <2> QED BY <1>0, <1>1, <2>1, <2>2, <2>4, CallerMoves
<1> QED BY <1>2, <1>3 DEF Create

LEMMA CancelKeeps == ASSUME SdkInv, NEW c \in Reader, Cancel(c) PROVE SdkInv'
<1> DEFINE i == sdk[c].id
<1>0. /\ sdk \in [Reader -> Caller] /\ sdk[c] \in Caller /\ i \in Ids /\ Told(sdk[c], status)
      /\ sdk[c].pc = "start" /\ sdk[c].seen = "none" /\ sdk[c].outcome = "none"
      /\ LifecycleTypeOK /\ Served(sdk[c], reader[c])
    BY DEF SdkInv, Caller, Cancel, Told
<1>1. [LifecycleNext]_lifecycleVars /\ UNCHANGED <<reader, verified>>
    BY <1>0 DEF Cancel, Quiet, LifecycleNext, LifecycleStep
<1>2. CASE WireFails(c)
    BY <1>0, <1>1, <1>2, EndingMoves DEF WireFails, Outcomes, HttpErrors, WireError
<1>3. CASE Ends(c, IF status[i] = "absent" THEN "404" ELSE "409")
    BY <1>0, <1>1, <1>3, EndingMoves DEF Outcomes, HttpErrors
<1>4. CASE /\ Cancelled(i)
           /\ sdk' = [sdk EXCEPT ![c].pc = "done", ![c].outcome = "returned", ![c].seen = "cancelled"]
    <2> DEFINE k == [sdk[c] EXCEPT !.pc = "done", !.outcome = "returned", !.seen = "cancelled"]
    <2>1. sdk' = [sdk EXCEPT ![c] = k]
        BY <1>0, <1>4
    <2>2. /\ k \in Caller /\ k.id = i /\ k.seen = "cancelled" /\ k.pc = "done"
          /\ k.outcome = "returned"
        BY <1>0 DEF Caller, Terminal
    <2> HIDE DEF k
    <2>3. status'[i] = "cancelled"
        BY <1>0, <1>4 DEF Cancelled, MoveTo, LifecycleTypeOK
    <2>4. Told(k, status')
        BY <2>2, <2>3 DEF Told, Terminal, HttpErrors
    <2>5. reader[c].pc = "new"
        BY <1>0, <1>4 DEF Served
    <2> QED BY <1>1, <2>1, <2>2, <2>4, <2>5, CallerMoves
<1> QED BY <1>2, <1>3, <1>4 DEF Cancel

\* The steps of wait_for_completion.
LEMMA WaitKeeps == ASSUME SdkInv, NEW c \in Reader, WaitStep(c) PROVE SdkInv'
<1> DEFINE i == sdk[c].id
<1>0. /\ sdk \in [Reader -> Caller] /\ sdk[c] \in Caller /\ i \in Ids /\ Told(sdk[c], status)
      /\ LifecycleTypeOK /\ Served(sdk[c], reader[c])
    BY DEF SdkInv, Caller
<1>1. UNCHANGED lifecycleVars /\ UNCHANGED <<reader, verified>>
    BY DEF WaitStep, GetServed, GetLost, WaitReturns, WaitTimesOut, WaitSleeps, WaitWakes, Quiet
<1>2. CASE GetLost(c)
    BY <1>1, <1>2, EndingMoves DEF GetLost, WireFails, Outcomes, HttpErrors, WireError
<1>3. CASE WaitTimesOut(c)
    BY <1>1, <1>3, EndingMoves DEF WaitTimesOut, Outcomes, HttpErrors
<1>4. CASE WaitReturns(c) /\ sdk[c].seen # "succeeded"
    BY <1>1, <1>4, EndingMoves DEF WaitReturns, IsTerminal, Outcomes, HttpErrors
<1>5. ASSUME NEW k \in Caller, k.id = i, sdk' = [sdk EXCEPT ![c] = k], Told(k, status),
             reader[c].pc # "new" => k.seen = sdk[c].seen
      PROVE  SdkInv'
    <2>1. Told(k, status')
        BY <1>1, <1>5 DEF Told, lifecycleVars
    <2> QED BY <1>1, <1>5, <2>1, CallerMoves
<1>6. CASE WaitReturns(c) /\ sdk[c].seen = "succeeded"
    <2> DEFINE k == [sdk[c] EXCEPT !.pc = "fetch"]
    <2>1. /\ k \in Caller /\ k.id = i /\ k.seen = sdk[c].seen /\ k.pc = "fetch"
          /\ k.outcome = sdk[c].outcome
        BY <1>0 DEF Caller
    <2>2. sdk' = [sdk EXCEPT ![c] = k] /\ sdk[c].pc = "read"
        BY <1>0, <1>6 DEF WaitReturns
    <2> HIDE DEF k
    <2>3. Told(k, status)
        BY <1>0, <1>6, <2>1, <2>2 DEF Told
    <2> QED BY <1>5, <2>1, <2>2, <2>3
<1>7. CASE WaitSleeps(c)
    <2> DEFINE k == [sdk[c] EXCEPT !.pc = "sleep"]
    <2>1. /\ k \in Caller /\ k.id = i /\ k.seen = sdk[c].seen /\ k.pc = "sleep"
          /\ k.outcome = sdk[c].outcome /\ k.left = sdk[c].left
        BY <1>0 DEF Caller
    <2>2. sdk' = [sdk EXCEPT ![c] = k] /\ sdk[c].pc = "read" /\ sdk[c].left > 0
        BY <1>0, <1>7 DEF WaitSleeps
    <2> HIDE DEF k
    <2>3. Told(k, status)
        BY <1>0, <2>1, <2>2 DEF Told
    <2> QED BY <1>5, <2>1, <2>2, <2>3
<1>8. CASE WaitWakes(c)
    <2> DEFINE n == sdk[c].left - 1
               k == [sdk[c] EXCEPT !.pc = "poll", !.left = n]
    <2>1. sdk[c].pc = "sleep" /\ sdk[c].left > 0
        BY <1>0, <1>8 DEF WaitWakes, Told
    <2>2. n \in 0 .. SdkPolls
        BY <1>0, <2>1, SdkAssumption DEF Caller
    <2>3. sdk' = [sdk EXCEPT ![c] = k]
        BY <1>0, <1>8 DEF WaitWakes
    <2> HIDE DEF n
    <2>4. /\ k \in Caller /\ k.id = i /\ k.seen = sdk[c].seen /\ k.pc = "poll"
          /\ k.outcome = sdk[c].outcome
        BY <1>0, <2>2 DEF Caller
    <2> HIDE DEF k
    <2>5. Told(k, status)
        BY <1>0, <2>1, <2>4 DEF Told
    <2> QED BY <1>5, <2>3, <2>4, <2>5
<1>9. CASE GetServed(c)
    <2> DEFINE k == [sdk[c] EXCEPT !.pc = "read", !.seen = status[i]]
    <2>1. sdk[c].pc = "poll" /\ status[i] # "absent"
        BY <1>0, <1>9 DEF GetServed, Told
    <2>2. sdk' = [sdk EXCEPT ![c] = k]
        BY <1>0, <1>9, <2>1 DEF GetServed
    <2>3. /\ k \in Caller /\ k.id = i /\ k.seen = status[i] /\ k.pc = "read"
          /\ k.outcome = sdk[c].outcome
        BY <1>0 DEF Caller, LifecycleTypeOK, Terminal
    <2> HIDE DEF k
    <2>4. Told(k, status)
        BY <1>0, <2>1, <2>3 DEF Told, HttpErrors
    <2>5. reader[c].pc # "new" => k.seen = sdk[c].seen
        BY <1>0, <2>3 DEF Told, Served, Terminal
    <2> QED BY <1>5, <2>2, <2>3, <2>4, <2>5
<1> QED BY <1>2, <1>3, <1>4, <1>6, <1>7, <1>8, <1>9 DEF WaitStep

LEMMA EventKeeps == ASSUME SdkInv, NEW c \in Reader, EventArrives(c) PROVE SdkInv'
<1> DEFINE i == sdk[c].id
           p == IF status[i] = "succeeded" THEN "fetch" ELSE "done"
           o == IF status[i] = "succeeded" THEN "none" ELSE "returned"
           k == [sdk[c] EXCEPT !.seen = status[i], !.pc = p, !.outcome = o]
<1>0. /\ sdk \in [Reader -> Caller] /\ sdk[c] \in Caller /\ i \in Ids /\ Told(sdk[c], status)
      /\ LifecycleTypeOK /\ Served(sdk[c], reader[c])
      /\ UNCHANGED lifecycleVars /\ UNCHANGED <<reader, verified>>
    BY DEF SdkInv, Caller, EventArrives, Quiet
<1>1. status[i] \in {"succeeded", "failed"} /\ sdk[c].pc = "listen"
    BY DEF SdkInv, EventArrives
<1>2. sdk' = [sdk EXCEPT ![c] = k]
    BY <1>0 DEF EventArrives
<1>3. k \in Caller /\ k.id = i /\ k.seen = status[i] /\ k.pc = p /\ k.outcome = o
    BY <1>0 DEF Caller, LifecycleTypeOK, Terminal
<1> HIDE DEF k
<1>4. Told(k, status')
    BY <1>0, <1>1, <1>3 DEF Told, lifecycleVars, Terminal, HttpErrors
<1>5. reader[c].pc # "new" => k.seen = sdk[c].seen
    BY <1>0, <1>1, <1>3 DEF Told, Served, Terminal
<1> QED BY <1>0, <1>2, <1>3, <1>4, <1>5, CallerMoves

\* The handler behind get_result: whenever it reads the row, the extraction has
\* succeeded, and stays so.
LEMMA ServeKeeps == ASSUME SdkInv, NEW c \in Reader, Serve(c) PROVE SdkInv'
<1> DEFINE i == reader[c].id
<1>0. /\ reader \in [Reader -> ResultRequest] /\ reader[c] \in ResultRequest /\ i \in Ids
      /\ sdk[c].id = i /\ Told(sdk[c], status) /\ Served(sdk[c], reader[c])
      /\ LifecycleTypeOK /\ ResultStored
      /\ UNCHANGED lifecycleVars /\ UNCHANGED <<sdk, verified>>
    BY DEF SdkInv, Served, ResultRequest, Serve, ReaderStep, FirstGet, PollStable, PollExpired,
       PollSleeps
<1>1. sdk[c].seen = "succeeded" /\ status[i] = "succeeded"
    BY <1>0 DEF Serve, Told, Served, Terminal
<1>2. ASSUME NEW k \in ResultRequest, reader' = [reader EXCEPT ![c] = k], k.id = i,
             k.pc = "done" => k.reply = "200"
      PROVE  SdkInv'
    BY <1>0, <1>1, <1>2 DEF SdkInv, Served, lifecycleVars, LifecycleTypeOK, ResultStored
<1>3. ASSUME NEW e \in BOOLEAN, Answer(c, e) PROVE SdkInv'
    <2> DEFINE k == [reader[c] EXCEPT !.pc = "done", !.expired = e, !.reply = "200", !.got = result[i]]
    <2>1. Reply(i) = "200"
        BY <1>0, <1>1 DEF Reply, ResultStored
    <2>2. reader' = [reader EXCEPT ![c] = k]
        BY <1>0, <1>3, <2>1 DEF Answer
    <2>3. k \in ResultRequest /\ k.id = i /\ k.reply = "200"
        BY <1>0 DEF ResultRequest, ResultReplies, LifecycleTypeOK
    <2> QED BY <1>2, <2>2, <2>3
<1>4. ASSUME reader' = [reader EXCEPT ![c].pc = "poll"] PROVE SdkInv'
    <2> DEFINE k == [reader[c] EXCEPT !.pc = "poll"]
    <2>1. reader' = [reader EXCEPT ![c] = k]
        BY <1>0, <1>4
    <2>2. k \in ResultRequest /\ k.id = i /\ k.pc = "poll"
        BY <1>0 DEF ResultRequest
    <2> QED BY <1>2, <2>1, <2>2
<1>5. CASE FirstGet(c)
    BY <1>3, <1>4, <1>5 DEF FirstGet
<1>6. CASE PollStable(c) \/ PollExpired(c)
    BY <1>3, <1>6 DEF PollStable, PollExpired
<1>7. CASE PollSleeps(c)
    <2> DEFINE n == reader[c].left - 1
               k == [reader[c] EXCEPT !.left = n]
    <2>1. n \in 0 .. MaxPolls /\ reader' = [reader EXCEPT ![c] = k] /\ reader[c].pc = "poll"
        BY <1>0, <1>7, ReaderAssumption DEF PollSleeps, ResultRequest
    <2> HIDE DEF n
    <2>2. k \in ResultRequest /\ k.id = i /\ k.pc = "poll"
        BY <1>0, <2>1 DEF ResultRequest
    <2> QED BY <1>2, <2>1, <2>2
<1> QED BY <1>5, <1>6, <1>7 DEF Serve, ReaderStep

LEMMA FetchKeeps == ASSUME SdkInv, NEW c \in Reader, FetchStep(c) PROVE SdkInv'
<1>0. Told(sdk[c], status) /\ Served(sdk[c], reader[c])
    BY DEF SdkInv
<1>1. CASE Serve(c)
    BY <1>1, ServeKeeps
<1>2. CASE ResultReturns(c)
    <2>1. reader[c].reply = "200" /\ sdk[c].seen = "succeeded" /\ Ends(c, "200")
        BY <1>0, <1>2 DEF ResultReturns, Told, Served
    <2> QED BY <1>2, <2>1, EndingMoves DEF ResultReturns, Quiet, Outcomes, Terminal, HttpErrors
<1>3. CASE ResultLost(c)
    BY <1>3, EndingMoves DEF ResultLost, Quiet, WireFails, Outcomes, HttpErrors, WireError
<1> QED BY <1>1, <1>2, <1>3 DEF FetchStep

\* The service and the deliveries move, and no caller does.
LEMMA ServiceKeeps ==
    ASSUME SdkInv, [LifecycleNext]_lifecycleVars, UNCHANGED <<reader, sdk>>,
           \A d \in verified' : d \in Ids /\ status'[d] \in {"succeeded", "failed"}
    PROVE  SdkInv'
<1>1. LifecycleTypeOK' /\ ResultStored' /\ StatusMoves
    BY LifecycleMoves DEF SdkInv
<1>2. ASSUME NEW c \in Reader PROVE Told(sdk[c], status')
    <2>1. sdk[c] \in Caller /\ Told(sdk[c], status)
        BY DEF SdkInv
    <2> QED BY <1>1, <2>1 DEF Told, StatusMoves, Caller
<1> QED BY <1>1, <1>2 DEF SdkInv, Served

LEMMA SdkInvStep == SdkInv /\ [SdkNext]_sdkVars => SdkInv'
<1> SUFFICES ASSUME SdkInv, [SdkNext]_sdkVars PROVE SdkInv'
    OBVIOUS
<1>1. ASSUME NEW c \in Reader,
             Create(c) \/ Cancel(c) \/ WaitStep(c) \/ EventArrives(c) \/ FetchStep(c)
      PROVE  SdkInv'
    BY <1>1, CreateKeeps, CancelKeeps, WaitKeeps, EventKeeps, FetchKeeps
<1>2. ASSUME NEW d \in Delivery, PostEvent(d) PROVE SdkInv'
    <2>1. d \in Ids /\ status[d] \in {"succeeded", "failed"}
        BY <1>2, SdkAssumption DEF PostEvent
    <2>2. verified' \subseteq verified \cup {d} /\ UNCHANGED lifecycleVars /\ UNCHANGED <<reader, sdk>>
        BY <1>2 DEF PostEvent
    <2>3. \A e \in verified' : e \in Ids /\ status'[e] \in {"succeeded", "failed"}
        BY <2>1, <2>2 DEF SdkInv, lifecycleVars
    <2> QED BY <2>2, <2>3, ServiceKeeps
<1>3. ASSUME [LifecycleNext]_lifecycleVars, UNCHANGED <<reader, sdk, verified>> PROVE SdkInv'
    <2>1. StatusMoves
        BY <1>3, LifecycleMoves DEF SdkInv
    <2>2. \A e \in verified' : e \in Ids /\ status'[e] \in {"succeeded", "failed"}
        BY <1>3, <2>1 DEF SdkInv, StatusMoves, Terminal
    <2> QED BY <1>3, <2>2, ServiceKeeps
<1>4. ASSUME NEW d \in Delivery, WakeDelivery(d) PROVE SdkInv'
    BY <1>3, <1>4 DEF WakeDelivery
<1>5. CASE LifecycleNext /\ UNCHANGED <<reader, call, sdk, verified>>
    BY <1>3, <1>5
<1>6. CASE UNCHANGED sdkVars
    BY <1>3, <1>6 DEF sdkVars, serviceVars
<1> QED BY <1>1, <1>2, <1>4, <1>5, <1>6 DEF SdkNext

\* What the SDK told a caller stays true, through lost answers, repeated
\* deliveries and any progress of the service between two calls; and a caller
\* that was told "succeeded" is never refused the result.
THEOREM ToldStaysTrue == SdkSpec => []ToldIsTrue
<1>1. SdkInv => ToldIsTrue
    <2> SUFFICES ASSUME SdkInv, NEW c \in Reader
                 PROVE  /\ /\ sdk[c].pc \in {"fetch", "done"} /\ sdk[c].seen # "none"
                           /\ sdk[c].outcome # "timed_out" /\ sdk[c].outcome # WireError
                           => status[sdk[c].id] = sdk[c].seen
                        /\ sdk[c].seen = "succeeded" => sdk[c].outcome \notin HttpErrors
        BY DEF ToldIsTrue
    <2>1. Told(sdk[c], status)
        BY DEF SdkInv
    <2> QED BY <2>1 DEF Told, Terminal
<1> QED BY <1>1, SdkInvInit, SdkInvStep, PTL DEF SdkSpec

\* Every step moves the extractions along the lifecycle or not at all.
LEMMA SdkMovesLifecycle ==
    ASSUME [SdkNext]_sdkVars, \A c \in Reader : sdk[c].id \in Ids
    PROVE  [LifecycleNext]_lifecycleVars
<1>1. ASSUME NEW c \in Reader, Create(c) \/ Cancel(c) PROVE [LifecycleNext]_lifecycleVars
    BY <1>1 DEF Create, Cancel, LifecycleNext, LifecycleStep
<1>2. ASSUME NEW c \in Reader, WaitStep(c) \/ EventArrives(c) \/ FetchStep(c)
      PROVE  UNCHANGED lifecycleVars
    BY <1>2 DEF WaitStep, GetServed, GetLost, WaitReturns, WaitTimesOut, WaitSleeps, WaitWakes,
       EventArrives, FetchStep, Serve, ReaderStep, FirstGet, PollStable, PollExpired, PollSleeps,
       ResultReturns, ResultLost
<1>3. ASSUME NEW d \in Delivery, PostEvent(d) \/ WakeDelivery(d) PROVE UNCHANGED lifecycleVars
    BY <1>3 DEF PostEvent, WakeDelivery
<1>4. UNCHANGED sdkVars => UNCHANGED lifecycleVars
    BY DEF sdkVars, serviceVars
<1> QED BY <1>1, <1>2, <1>3, <1>4 DEF SdkNext

\* A submit that is repeated because its answer was lost, a cancel that comes
\* late and a caller that gave up move an extraction along its lifecycle or not
\* at all.
THEOREM SdkKeepsLifecycle == SdkSpec => Lifecycle
<1>1. SdkInit => LifecycleInit
    BY DEF SdkInit, ReaderInit
<1>2. SdkInv /\ [SdkNext]_sdkVars => [LifecycleNext]_lifecycleVars
    BY SdkMovesLifecycle DEF SdkInv, Caller
<1> QED BY <1>1, <1>2, SdkInvInit, SdkInvStep, PTL DEF SdkSpec, Lifecycle
=============================================================================
