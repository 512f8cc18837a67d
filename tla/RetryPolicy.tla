----------------------------- MODULE RetryPolicy -----------------------------
(***************************************************************************)
(* The capped exponential backoff both workers use between two attempts    *)
(* (ExtractionWorker._backoff_delay, BboxRefineWorker._backoff_delay).     *)
(* Delays are whole time units; the random 20% jitter is any value up to   *)
(* a fifth of the capped delay, rounded up.                                *)
(***************************************************************************)
EXTENDS Naturals

CONSTANTS
    RetryBase,      \* IDPSettings.retry_base_delay_s
    RetryCeiling    \* IDPSettings.retry_max_delay_s

ASSUME RetryAssumption == RetryBase \in Nat /\ RetryCeiling \in Nat

\* raw = base * 2 ** max(0, attempts - 1), capped at the ceiling
CappedDelay(attempts) ==
    LET raw == RetryBase * 2 ^ (IF attempts > 1 THEN attempts - 1 ELSE 0)
    IN  IF raw < RetryCeiling THEN raw ELSE RetryCeiling

\* The delays the jitter leaves possible after the given attempt.
BackoffDelays(attempts) ==
    LET capped == CappedDelay(attempts)
    IN  { d \in 0 .. (2 * RetryCeiling) : capped <= d /\ d <= capped + (capped + 4) \div 5 }
=============================================================================
