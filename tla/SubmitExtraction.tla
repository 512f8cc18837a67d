--------------------------- MODULE SubmitExtraction ---------------------------
(***************************************************************************)
(* SubmitExtractionHandler: concurrent and repeated submits, with and      *)
(* without an Idempotency-Key. A client's retry is one more request with   *)
(* the same key. The handler awaits the database and the publisher between *)
(* its steps, so requests of one or several API processes interleave.      *)
(*                                                                         *)
(* A row is known by the request that inserted it (ids are fresh uuids).   *)
(***************************************************************************)
EXTENDS Naturals

CONSTANTS
    Request,        \* submits
    Key,            \* idempotency keys
    None            \* no key, no row

ASSUME SubmitAssumption == None \notin Key \cup Request

VARIABLES
    key,        \* the Idempotency-Key of each request, or None
    valid,      \* RequestValidator finds no error in the request
    rows,       \* requests whose row has been committed
    published,  \* IDPExtractionSubmitted events published, per row
    handler     \* where each handler is, and what it has answered

submitVars == <<key, valid, rows, published, handler>>

PCs     == {"select", "insert", "resolve", "publish", "done"}
Replies == {"none", "202", "422", "500", "conflict"}

Handler == [ pc : PCs, reply : Replies, row : Request \cup {None} ]

SubmitInit ==
    /\ key \in [Request -> Key \cup {None}]
    /\ valid \in [Request -> BOOLEAN]
    /\ rows = {}
    /\ published = [q \in Request |-> 0]
    /\ handler = [q \in Request |-> [pc |-> "select", reply |-> "none", row |-> None]]

\* get_by_idempotency_key; rows without a key are never found
WithKey(k) == {r \in rows : k # None /\ key[r] = k}

GoTo(q, pc) == handler' = [handler EXCEPT ![q].pc = pc]

Return(q, reply, row) ==
    handler' = [handler EXCEPT ![q] = [pc |-> "done", reply |-> reply, row |-> row]]

-----------------------------------------------------------------------------
\* Mutant: the request is not validated.
SelectUnvalidated(q) ==
    /\ handler[q].pc = "select"
    /\ \/ \E r \in WithKey(key[q]) : Return(q, "202", r)
       \/ WithKey(key[q]) = {} /\ GoTo(q, "insert")
    /\ UNCHANGED <<key, valid, rows, published>>

\* The SELECT; on a hit the row is returned, on a miss the request is validated.
Select(q) ==
    /\ handler[q].pc = "select"
    /\ \/ \E r \in WithKey(key[q]) : Return(q, "202", r)
       \/ WithKey(key[q]) = {} /\ ~valid[q] /\ Return(q, "422", None)
       \/ WithKey(key[q]) = {} /\ valid[q] /\ GoTo(q, "insert")
    /\ UNCHANGED <<key, valid, rows, published>>

\* Mutant: the index on idempotency_key is not unique.
InsertNotUnique(q) ==
    /\ handler[q].pc = "insert"
    /\ rows' = rows \cup {q}
    /\ GoTo(q, "publish")
    /\ UNCHANGED <<key, valid, published>>

\* The INSERT passes the partial unique index uq_extractions_idempotency_key.
Insert(q) ==
    /\ handler[q].pc = "insert"
    /\ WithKey(key[q]) = {}
    /\ rows' = rows \cup {q}
    /\ GoTo(q, "publish")
    /\ UNCHANGED <<key, valid, published>>

\* Mutant: the loser of the race goes on as if the row were its own.
CollideAndPublish(q) ==
    /\ handler[q].pc = "insert"
    /\ WithKey(key[q]) # {}
    /\ GoTo(q, "publish")
    /\ UNCHANGED <<key, valid, rows, published>>

\* The INSERT raises IntegrityError.
Collide(q) ==
    /\ handler[q].pc = "insert"
    /\ WithKey(key[q]) # {}
    /\ GoTo(q, "resolve")
    /\ UNCHANGED <<key, valid, rows, published>>

\* The winner is read again; without one, IntegrityError is raised after all.
Resolve(q) ==
    /\ handler[q].pc = "resolve"
    /\ \/ \E r \in WithKey(key[q]) : Return(q, "202", r)
       \/ WithKey(key[q]) = {} /\ Return(q, "conflict", None)
    /\ UNCHANGED <<key, valid, rows, published>>

Publish(q) ==
    /\ handler[q].pc = "publish"
    /\ published' = [published EXCEPT ![q] = @ + 1]
    /\ Return(q, "202", q)
    /\ UNCHANGED <<key, valid, rows>>

\* The database or the publisher raises, or the API process dies. An INSERT
\* may have been committed before its reply was lost.
Fault(q) ==
    /\ handler[q].pc # "done"
    /\ Return(q, "500", None)
    /\ \/ UNCHANGED rows
       \/ handler[q].pc = "insert" /\ WithKey(key[q]) = {} /\ rows' = rows \cup {q}
    /\ UNCHANGED <<key, valid, published>>

HandlerStep(q) ==
    \/ Select(q) \/ Insert(q) \/ Collide(q) \/ Resolve(q) \/ Publish(q) \/ Fault(q)

SubmitNext == \E q \in Request : HandlerStep(q)

SubmitSpec == SubmitInit /\ [][SubmitNext]_submitVars

-----------------------------------------------------------------------------
(* Properties *)

\* Every variable holds a value of its type.
SubmitTypeOK ==
    /\ key \in [Request -> Key \cup {None}]
    /\ valid \in [Request -> BOOLEAN]
    /\ rows \subseteq Request
    /\ published \in [Request -> 0 .. 1]
    /\ handler \in [Request -> Handler]

\* Concurrent submits and retries with one key are all accepted as the same
\* extraction: whoever wins the race between SELECT and INSERT, every caller
\* is given the same id.
SameKeySameExtraction ==
    \A p, q \in Request :
        /\ handler[p].reply = "202" /\ handler[q].reply = "202"
        /\ key[p] = key[q] /\ key[p] # None
        => handler[p].row = handler[q].row

\* A 202 speaks of a stored row of the caller's own key, which was valid when
\* it was inserted; a request answered 422 has stored nothing.
AcceptedIsStored ==
    \A q \in Request :
        /\ handler[q].reply = "202" =>
              /\ handler[q].row \in rows /\ valid[handler[q].row]
              /\ key[handler[q].row] = key[q]
        /\ handler[q].reply = "422" => q \notin rows

\* The submitted event is published by the handler that inserted the row and
\* by no other: a handler that was given another request's row stays silent,
\* and no event names a row that is not stored.
PublishedByInserterOnly ==
    \A q \in Request : published[q] > 0 => q \in rows /\ handler[q].row = q

\* The collision on the unique index is never shown to a caller.
CollisionRecovered == \A q \in Request : handler[q].reply # "conflict"
=============================================================================
