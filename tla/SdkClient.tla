------------------------------ MODULE SdkClient -------------------------------
(***************************************************************************)
(* Callers of the Python SDK against the service: AsyncClient's create,    *)
(* cancel, wait_for_completion and get_result over a wire that loses       *)
(* requests and answers, the long poll of ResultReader behind get_result,  *)
(* and the deliveries of WebhookPublisher in front of WebhookVerifier.     *)
(* The service itself is the abstract ExtractionLifecycle.                 *)
(*                                                                         *)
(* Caller c uses reader c for its get_result. Delivery d is the webhook of *)
(* extraction d. The SDK retries nothing: what the wire does to a call,    *)
(* the caller gets as an exception.                                        *)
(***************************************************************************)
EXTENDS ResultReader, WebhookPublisher

CONSTANTS
    Patient,        \* callers that ask get_result to wait for post-processing
    SdkPolls        \* bound on the polls that the timeout of a wait leaves room for

ASSUME SdkAssumption == Delivery = Ids /\ Patient \subseteq Reader /\ SdkPolls \in Nat

VARIABLES
    sdk,        \* caller -> where its program is
    verified    \* extractions whose event a receiver has verified

serviceVars == <<lifecycleVars, reader, call>>
sdkVars     == <<serviceVars, sdk, verified>>

Terminal == {"succeeded", "failed", "cancelled"}

\* What a call of the SDK raises: an HTTP error with the status of the answer,
\* or a transport error (a timeout or another) when there was none.
HttpErrors == {"404", "409", "500"}
WireError  == "wire_error"

Caller == [ pc   : {"start", "poll", "read", "sleep", "listen", "fetch", "done"},
            id   : Ids,
            left : 0 .. SdkPolls,
            seen : {"none", "absent", "queued", "running"} \cup Terminal,    \* last status it was told
            outcome : {"none", "returned", "timed_out", "200"} \cup HttpErrors \cup {WireError} ]

SdkInit ==
    /\ ReaderInit /\ WebhookInit /\ verified = {}
    /\ sdk \in [Reader -> {s \in Caller : /\ s.pc = "start" /\ s.left = SdkPolls
                                          /\ s.seen = "none" /\ s.outcome = "none"}]
    /\ \A c \in Reader : reader[c].id = sdk[c].id /\ (reader[c].wait <=> c \in Patient)

Ends(c, outcome) == sdk' = [sdk EXCEPT ![c].pc = "done", ![c].outcome = outcome]
Quiet == UNCHANGED <<reader, call, verified>>

\* map_transport_error: the caller cannot tell whether the service has acted.
WireFails(c) == Ends(c, WireError)

\* create with the caller's idempotency key: the row is there already or is
\* stored now, and the answer may still be lost. Then the caller waits, or
\* listens for the webhook.
Create(c) ==
    /\ sdk[c].pc = "start"
    /\ \/ /\ IF status[sdk[c].id] = "absent" THEN Accepted(sdk[c].id) ELSE UNCHANGED lifecycleVars
          /\ \/ \E next \in {"poll", "listen"} : sdk' = [sdk EXCEPT ![c].pc = next]
             \/ WireFails(c)
       \/ WireFails(c) /\ UNCHANGED lifecycleVars
    /\ Quiet

\* cancel: 409 once the extraction has left the queue.
Cancel(c) ==
    /\ sdk[c].pc = "start"
    /\ LET i == sdk[c].id IN
       \/ /\ Cancelled(i)
          /\ \/ sdk' = [sdk EXCEPT ![c].pc = "done", ![c].outcome = "returned", ![c].seen = "cancelled"]
             \/ WireFails(c)
       \/ /\ status[i] # "queued" /\ Ends(c, IF status[i] = "absent" THEN "404" ELSE "409")
          /\ UNCHANGED lifecycleVars
    /\ Quiet

-----------------------------------------------------------------------------
(* wait_for_completion *)

\* Mutant: whatever has left the queue is taken for final.
IsTerminalOnceStarted(s) == s # "queued"

\* ExtractionStatus.is_terminal
IsTerminal(s) == s \in Terminal

\* The service reads the row for a get(); the answer is on its way.
GetServed(c) ==
    /\ sdk[c].pc = "poll"
    /\ IF status[sdk[c].id] = "absent" THEN Ends(c, "404")
       ELSE sdk' = [sdk EXCEPT ![c].pc = "read", ![c].seen = status[sdk[c].id]]
    /\ UNCHANGED lifecycleVars /\ Quiet

GetLost(c) ==
    /\ sdk[c].pc \in {"poll", "read"}
    /\ WireFails(c)
    /\ UNCHANGED lifecycleVars /\ Quiet

\* A final status is returned; the caller of a succeeded one goes on to the
\* result.
WaitReturns(c) ==
    /\ sdk[c].pc = "read" /\ IsTerminal(sdk[c].seen)
    /\ IF sdk[c].seen = "succeeded" THEN sdk' = [sdk EXCEPT ![c].pc = "fetch"] ELSE Ends(c, "returned")
    /\ UNCHANGED lifecycleVars /\ Quiet

\* The deadline is looked at after every answer.
WaitTimesOut(c) ==
    /\ sdk[c].pc = "read" /\ ~IsTerminal(sdk[c].seen)
    /\ Ends(c, "timed_out")
    /\ UNCHANGED lifecycleVars /\ Quiet

WaitSleeps(c) ==
    /\ sdk[c].pc = "read" /\ ~IsTerminal(sdk[c].seen) /\ sdk[c].left > 0
    /\ sdk' = [sdk EXCEPT ![c].pc = "sleep"]
    /\ UNCHANGED lifecycleVars /\ Quiet

\* Mutant: the deadline is set anew for every poll.
WaitWakesAfresh(c) ==
    /\ sdk[c].pc = "sleep"
    /\ sdk' = [sdk EXCEPT ![c].pc = "poll", ![c].left = SdkPolls]
    /\ UNCHANGED lifecycleVars /\ Quiet

WaitWakes(c) ==
    /\ sdk[c].pc = "sleep"
    /\ sdk' = [sdk EXCEPT ![c].pc = "poll", ![c].left = @ - 1]
    /\ UNCHANGED lifecycleVars /\ Quiet

-----------------------------------------------------------------------------
(* Webhooks *)

\* What happens to a signed event on its way: nothing, the scheme prefix is
\* stripped, the body is encoded anew, or the header is lost.
Forms == {"intact", "bare", "reencoded", "unsigned"}

\* WebhookVerifier.verify
Verify(form) == form \in {"intact", "bare"}

\* One attempt, after the commit of the outcome. It may arrive, and be
\* verified, although the service does not learn of it: then it comes again.
\* A receiver that cannot verify the event answers 403.
PostEvent(d) ==
    /\ status[d] \in {"succeeded", "failed"}
    /\ Post(d)
    /\ \/ UNCHANGED verified
       \/ \E form \in Forms :
            IF Verify(form) THEN verified' = verified \cup {d}
            ELSE call'[d].last = "4xx" /\ UNCHANGED verified
    /\ UNCHANGED <<lifecycleVars, reader, sdk>>

WakeDelivery(d) == Wake(d) /\ UNCHANGED <<lifecycleVars, reader, sdk, verified>>

\* The event carries the status the worker committed.
EventArrives(c) ==
    /\ sdk[c].pc = "listen" /\ sdk[c].id \in verified
    /\ LET s == status[sdk[c].id] IN
       sdk' = [sdk EXCEPT ![c].seen = s, ![c].pc = IF s = "succeeded" THEN "fetch" ELSE "done",
                          ![c].outcome = IF s = "succeeded" THEN "none" ELSE "returned"]
    /\ UNCHANGED lifecycleVars /\ Quiet

-----------------------------------------------------------------------------
(* get_result *)

\* The handler serves the request; it goes on polling after the caller has
\* given up, and reads the row whenever it gets to it.
Serve(c) ==
    /\ sdk[c].pc = "fetch" \/ reader[c].pc = "poll"
    /\ ReaderStep(c)
    /\ UNCHANGED <<call, sdk, verified>>

ResultReturns(c) ==
    /\ sdk[c].pc = "fetch" /\ reader[c].pc = "done"
    /\ Ends(c, reader[c].reply)
    /\ UNCHANGED lifecycleVars /\ Quiet

\* The HTTP timeout of the client is as long as the long poll it asks for.
ResultLost(c) ==
    /\ sdk[c].pc = "fetch"
    /\ WireFails(c)
    /\ UNCHANGED lifecycleVars /\ Quiet

WaitStep(c) ==
    GetServed(c) \/ GetLost(c) \/ WaitReturns(c) \/ WaitTimesOut(c) \/ WaitSleeps(c) \/ WaitWakes(c)

FetchStep(c) == Serve(c) \/ ResultReturns(c) \/ ResultLost(c)

SdkNext ==
    \/ \E c \in Reader : Create(c) \/ Cancel(c) \/ WaitStep(c) \/ EventArrives(c) \/ FetchStep(c)
    \/ \E d \in Delivery : PostEvent(d) \/ WakeDelivery(d)
    \/ LifecycleNext /\ UNCHANGED <<reader, call, sdk, verified>>

\* Calls that can move move: the HTTP client has a timeout, sleeps end. The
\* extraction may stand still for ever.
SdkSpec ==
    /\ SdkInit /\ [][SdkNext]_sdkVars
    /\ \A c \in Reader : WF_sdkVars(WaitStep(c)) /\ WF_sdkVars(FetchStep(c))

-----------------------------------------------------------------------------
(* Properties *)

\* What the SDK has told its caller stays true: a final status that a wait, a
\* cancel or a verified event reported is still the extraction's status, and a
\* caller that was told "succeeded" is never refused the result, although the
\* service reads the row again, later, for every call.
ToldIsTrue ==
    \A c \in Reader :
        /\ sdk[c].pc \in {"fetch", "done"} /\ sdk[c].seen # "none" /\ sdk[c].outcome # "timed_out"
           /\ sdk[c].outcome # WireError
           => status[sdk[c].id] = sdk[c].seen
        /\ sdk[c].seen = "succeeded" => sdk[c].outcome \notin HttpErrors

\* A wait ends at its deadline and a get_result at its timeout, also when the
\* extraction never settles.
EveryWaitEnds ==
    \A c \in Reader : sdk[c].pc \in {"poll", "fetch"} ~> sdk[c].pc = "done"
=============================================================================
