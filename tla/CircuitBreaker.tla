--------------------------- MODULE CircuitBreaker ---------------------------
(***************************************************************************)
(* The circuit breaker of agents/forge/breaker.py as operators on a value. *)
(*                                                                         *)
(* The class keeps _consecutive_failures, _opened_at and _probing.  Time   *)
(* enters only through clock() - _opened_at compared with the cooldown, so *)
(* _opened_at is kept as `opened` (it is not None) and `age`, the elapsed  *)
(* time, which stops growing at Cooldown; _consecutive_failures is only    *)
(* compared with the threshold, so it stops growing at Threshold.  Neither *)
(* saturation is visible to a caller.                                      *)
(***************************************************************************)
EXTENDS Naturals

CONSTANTS Threshold,    \* failure_threshold
          Cooldown      \* cooldown_seconds, in ticks of the model's clock

\* CircuitBreaker.__init__ refuses a threshold below 1.
ASSUME ThresholdAssumption == Threshold \in Nat \ {0}
ASSUME CooldownAssumption == Cooldown \in Nat

Breaker == [failures : 0..Threshold, opened : BOOLEAN,
            age : 0..Cooldown, probing : BOOLEAN]

NewBreaker == [failures |-> 0, opened |-> FALSE, age |-> 0, probing |-> FALSE]

\* The state property: CLOSED, or OPEN until the cooldown has elapsed.
state(b) == IF ~b.opened THEN "closed"
            ELSE IF b.age >= Cooldown THEN "half_open" ELSE "open"

\* check() returns instead of raising BreakerOpen.
admits(b) == state(b) = "closed" \/ (state(b) = "half_open" /\ ~b.probing)

\* Mutant of check: the probe is not marked.
check_unmarked(b) == b

\* What an admitting check() leaves behind: a half-open breaker is now probing.
check(b) == [b EXCEPT !.probing = @ \/ state(b) = "half_open"]

record_success(b) == [b EXCEPT !.failures = 0, !.opened = FALSE,
                               !.age = 0, !.probing = FALSE]

\* A failure at the threshold trips the breaker; one while open re-trips it.
trips(b) == b.failures + 1 >= Threshold \/ b.opened

\* Mutant of record_failure: the failed probe's flag is not cleared.
record_failure_keeps_probing(b) ==
    [failures |-> IF b.failures < Threshold THEN b.failures + 1 ELSE Threshold,
     opened   |-> b.opened \/ trips(b),
     age      |-> IF trips(b) THEN 0 ELSE b.age,
     probing  |-> b.probing]

record_failure(b) ==
    [failures |-> IF b.failures < Threshold THEN b.failures + 1 ELSE Threshold,
     opened   |-> b.opened \/ trips(b),
     age      |-> IF trips(b) THEN 0 ELSE b.age,
     probing  |-> FALSE]

\* Mutant of escalates: the return value tests was_open the wrong way round.
escalates_on_retrip(b) == trips(b) /\ b.opened

\* The value record_failure() returns: TRUE on the transition to OPEN only.
escalates(b) == trips(b) /\ ~b.opened

\* One tick of the injected monotonic clock, seen by an open breaker.
tick(b) == IF b.opened /\ b.age < Cooldown THEN [b EXCEPT !.age = @ + 1] ELSE b
=============================================================================
