--------------------------- MODULE CircuitBreaker ---------------------------
(***************************************************************************)
(* connectors/circuit_breaker.py: the record CircuitBreaker keeps for one  *)
(* operation, and what each of its methods, atomic under the lock, does to *)
(* it.  The clock is the time elapsed since opened_at, which matters only  *)
(* while the circuit is OPEN and only up to OpenInterval.                  *)
(***************************************************************************)
EXTENDS Naturals

CONSTANTS
  FailureThreshold, \* failures in a row that open the circuit
  OpenInterval,     \* how long it stays open
  ProbeCount,       \* calls let through while half open
  SuccessThreshold  \* successes that close it again

ASSUME BreakerAssumption ==
  {FailureThreshold, OpenInterval, ProbeCount, SuccessThreshold} \subseteq Nat \ {0}

Breakers ==
  [state : {"CLOSED", "OPEN", "HALF_OPEN"}, elapsed : 0..OpenInterval,
   failures : Nat, successes : Nat, half_open_probes : Nat]

OperationState ==
  [state |-> "CLOSED", elapsed |-> 0, failures |-> 0, successes |-> 0,
   half_open_probes |-> 0]

Opened(b) ==
  [b EXCEPT !.state = "OPEN", !.elapsed = 0, !.successes = 0, !.half_open_probes = 0]

\* A circuit closed with its failures still counted.
Closed(b) ==
  [b EXCEPT !.state = "CLOSED", !.failures = 0, !.successes = 0, !.half_open_probes = 0]

\* Every method that reads the state first lets an elapsed OPEN become HALF_OPEN.
Refreshed(b) ==
  IF b.state = "OPEN" /\ b.elapsed >= OpenInterval
  THEN [b EXCEPT !.state = "HALF_OPEN", !.successes = 0, !.half_open_probes = 0]
  ELSE b

Allows(b) ==
  \/ b.state = "CLOSED"
  \/ b.state = "HALF_OPEN" /\ b.half_open_probes < ProbeCount

Admitted(b) ==
  IF b.state = "HALF_OPEN" THEN [b EXCEPT !.half_open_probes = @ + 1] ELSE b

\* A circuit that wants one success too many.
RecordSuccessLate(b) ==
  CASE b.state = "CLOSED" -> [b EXCEPT !.failures = 0]
    [] b.state = "HALF_OPEN" ->
         IF b.successes >= SuccessThreshold
         THEN Closed(b) ELSE [b EXCEPT !.successes = @ + 1]
    [] b.state = "OPEN" -> b

RecordSuccess(b) ==
  CASE b.state = "CLOSED" -> [b EXCEPT !.failures = 0]
    [] b.state = "HALF_OPEN" ->
         IF b.successes + 1 >= SuccessThreshold
         THEN Closed(b) ELSE [b EXCEPT !.successes = @ + 1]
    [] b.state = "OPEN" -> b

RecordFailure(b) ==
  CASE b.state = "CLOSED" ->
         LET counted == [b EXCEPT !.failures = @ + 1, !.successes = 0]
         IN IF counted.failures >= FailureThreshold THEN Opened(counted) ELSE counted
    [] b.state = "HALF_OPEN" -> Opened(b)
    [] b.state = "OPEN" -> b

Waited(b) ==
  IF b.state = "OPEN" /\ b.elapsed < OpenInterval
  THEN [b EXCEPT !.elapsed = @ + 1] ELSE b

=============================================================================
