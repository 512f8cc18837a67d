--------------------------- MODULE WebhookPublisher ---------------------------
(***************************************************************************)
(* WebhookPublisher.deliver: one POST per attempt, tenacity's retry around *)
(* it, and what the caller (the main or the bbox worker) gets back. Each   *)
(* delivery is one call; several run at once. An attempt is one step: what *)
(* the receiver answers is any class of answer.                            *)
(***************************************************************************)
EXTENDS Integers

CONSTANTS
    Delivery,       \* calls of deliver
    MaxAttempts     \* webhook_max_attempts as configured

ASSUME WebhookAssumption == MaxAttempts \in Int

VARIABLE call       \* where each call is

\* max(1, max_attempts)
Budget == IF MaxAttempts < 1 THEN 1 ELSE MaxAttempts

\* Classes of answers. 1xx-3xx count as delivered: redirects are not followed.
Answers   == {"ok", "redirect", "429", "4xx", "5xx", "transport"}
Retryable == {"429", "5xx"}
Verdicts  == {"true", "false", "raised"}

Call == [ pc      : {"post", "backoff", "done"},
          attempt : 0 .. Budget,
          last    : Answers \cup {"none"},
          outcome : Verdicts \cup {"none"} ]

WebhookInit ==
    call = [d \in Delivery |-> [pc |-> "post", attempt |-> 0, last |-> "none", outcome |-> "none"]]

-----------------------------------------------------------------------------
\* Mutant: stop_after_attempt allows one attempt too few.
OutOfAttemptsEarly(d) == call[d].attempt + 2 >= Budget

\* stop_after_attempt, asked when the attempt just made has been counted
OutOfAttempts(d) == call[d].attempt + 1 >= Budget

\* What _do_post raises as _RetryableWebhook
Retries(answer) == answer \in Retryable

\* What deliver makes of an answer it does not retry: the last retryable
\* failure is raised as it is (reraise=True), so it does not come back as a
\* RetryError that would be turned into False.
Verdict(answer) ==
    CASE answer \in {"ok", "redirect"} -> "true"
      [] answer \in {"4xx", "transport"} -> "false"
      [] OTHER -> "raised"

Post(d) ==
    /\ call[d].pc = "post"
    /\ \E answer \in Answers :
         call' = [call EXCEPT ![d] =
             IF Retries(answer) /\ ~OutOfAttempts(d)
             THEN [call[d] EXCEPT !.pc = "backoff", !.attempt = @ + 1, !.last = answer]
             ELSE [pc |-> "done", attempt |-> call[d].attempt + 1, last |-> answer,
                   outcome |-> Verdict(answer)]]

\* wait_exponential_jitter is over
Wake(d) ==
    /\ call[d].pc = "backoff"
    /\ call' = [call EXCEPT ![d].pc = "post"]

-----------------------------------------------------------------------------
(* Properties *)

\* Every call of deliver is well typed. However the answers of its attempts are
\* mixed, and with any configured number of attempts, it ends on a retryable
\* answer only when the whole budget was spent, and answers False only for what
\* it does not retry: a client error, or a transport error, on whichever attempt.
GivesUpOnlyWhenSpent ==
    /\ call \in [Delivery -> Call]
    /\ \A d \in Delivery : call[d].pc = "done" =>
          /\ call[d].last \in Retryable => call[d].attempt = Budget
          /\ call[d].outcome = "false" => call[d].last \in {"4xx", "transport"}
=============================================================================
