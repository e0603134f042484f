-------------------------- MODULE IdempotencyStore --------------------------
(***************************************************************************)
(* connectors/idempotency.py: what the in-memory store holds for one key,  *)
(* and what its methods, atomic under the lock, do to it.  An entry        *)
(* carries the time it has left; an expired one stays until a get.         *)
(***************************************************************************)
EXTENDS Naturals

CONSTANTS InflightTtl, DoneTtl

ASSUME StoreAssumption == {InflightTtl, DoneTtl} \subseteq Nat \ {0}

Absent == [status |-> "ABSENT", ttl |-> 0]
Entries == {Absent} \cup [status : {"INFLIGHT", "DONE", "FAILED"}, ttl : Nat]

Alive(e) == e.ttl > 0

\* What get returns and, as it deletes what has expired, leaves behind.
Got(e) == IF Alive(e) THEN e ELSE Absent

\* A claim that does not look for a request in flight.
FreeUnlessDone(e) == ~Alive(e) \/ e.status # "DONE"

\* put_if_absent stores over an entry that expired or FAILED.
Free(e) == ~Alive(e) \/ e.status = "FAILED"

Inflight == [status |-> "INFLIGHT", ttl |-> InflightTtl]

\* Neither mark looks at who holds the entry, or whether it has expired.
MarkDone(e) == IF e = Absent THEN e ELSE [status |-> "DONE", ttl |-> DoneTtl]
MarkFailed(e) == IF e = Absent THEN e ELSE [e EXCEPT !.status = "FAILED"]

\* A life that goes on after it is over.
Aged(e) == IF Alive(e) THEN [e EXCEPT !.ttl = @ - 1] ELSE e

=============================================================================
