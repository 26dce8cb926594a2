--------------------------- MODULE CircuitBreaker ---------------------------
(***************************************************************************)
(* resilience/circuit.py: one domain's breaker as a record and the three   *)
(* operations the middleware calls on it.                                  *)
(*                                                                         *)
(* The code stores _opened_at and compares clock() - _opened_at with the   *)
(* cool-down; the model stores what is left of the cool-down instead, so   *)
(* that the passage of time needs no unbounded clock.                      *)
(***************************************************************************)
EXTENDS Naturals

CONSTANTS FailureThreshold,  \* ACQUIRE_CIRCUIT_FAILURE_THRESHOLD
          CircuitCooldown    \* ACQUIRE_CIRCUIT_COOLDOWN_SECONDS

ASSUME CircuitAssumption ==
    FailureThreshold \in Nat \ {0} /\ CircuitCooldown \in Nat

Breaker == [state    : {"closed", "open", "half_open"},
            failures : Nat,
            cooling  : 0..CircuitCooldown]

NewBreaker == [state |-> "closed", failures |-> 0, cooling |-> 0]

(* allow(): what it answers, and the breaker it leaves behind.             *)
Allows(b) == b.state = "open" => b.cooling = 0

AfterAllow(b) ==
    IF b.state = "open" /\ b.cooling = 0 THEN [b EXCEPT !.state = "half_open"]
                                         ELSE b

(* Mutant: a success closes the breaker but leaves its failure count.      *)
SuccessKeepsCount(b) == [b EXCEPT !.state = "closed"]

RecordSuccess(b) == NewBreaker

Trip(b) == [state |-> "open", failures |-> 0, cooling |-> CircuitCooldown]

RecordFailure(b) ==
    IF b.state = "half_open" \/ b.failures + 1 >= FailureThreshold
    THEN Trip(b)
    ELSE [b EXCEPT !.failures = @ + 1]

BreakerTick(b) ==
    [b EXCEPT !.cooling = IF @ > 0 THEN @ - 1 ELSE 0]

=============================================================================
