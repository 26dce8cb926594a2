------------------------------ MODULE Backoff ------------------------------
(***************************************************************************)
(* resilience/backoff.py: how long to wait before retry number `attempt'.  *)
(* Seconds are whole ticks; the full-jitter draw uniform(0, cap) is a      *)
(* nondeterministic choice, so the operators return the SET of delays the  *)
(* code can produce.                                                       *)
(***************************************************************************)
EXTENDS Naturals

CONSTANTS BaseDelay,   \* ACQUIRE_BACKOFF_BASE_DELAY
          MaxDelay     \* ACQUIRE_BACKOFF_MAX_DELAY

ASSUME DelayAssumption == BaseDelay \in Nat /\ MaxDelay \in Nat

Least(a, b)    == IF a <= b THEN a ELSE b
Greatest(a, b) == IF a <= b THEN b ELSE a

ExponentialCap(attempt) == Least(MaxDelay, BaseDelay * 2^attempt)

(* The un-floored draw, raised to a positive Retry-After that is itself    *)
(* clamped to MaxDelay, and the whole clamped to MaxDelay.                 *)
Floored(draw, retryAfter) ==
    Least(IF retryAfter > 0 THEN Greatest(draw, Least(retryAfter, MaxDelay))
                            ELSE draw,
          MaxDelay)

ComputeDelay(attempt, retryAfter) ==
    {Floored(draw, retryAfter) : draw \in 0..ExponentialCap(attempt)}

=============================================================================
