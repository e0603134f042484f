--------------------------- MODULE OrderSubmission ---------------------------
(***************************************************************************)
(* An order on its way to the exchange: the gates of the live engine, the  *)
(* router, and its submission with retries, alone or as one of a batch of  *)
(* seeds that a pool of threads submits.  The answer is classified and the *)
(* books of the bridge are brought in line with it.  Every order here is a *)
(* PLACE of the grid; what the gates remember is in SafetyControl and      *)
(* ReduceOnlyExits, the port's own deduplication in IdempotentPort, and    *)
(* the answers of later account syncs in GridV2Live.                       *)
(***************************************************************************)
EXTENDS Integers, FiniteSets, FiniteSetsExt

CONSTANTS
  Seeds,         \* client order ids of entries, as the bridge registered them
  Exits,         \* client order ids of reduce-only exits
  Threads,       \* _SEED_HTTP_CONCURRENCY
  MaxAttempts,   \* max_attempts of the retry policy
  OrderLimit     \* max_orders_per_run of the port

ASSUME SubmissionAssumption ==
  /\ Seeds \cap Exits = {} /\ IsFiniteSet(Seeds \cup Exits)
  /\ {Threads, MaxAttempts} \subseteq Nat \ {0} /\ OrderLimit \in Nat

Orders == Seeds \cup Exits

VARIABLES
  jobs,          \* per order where its submission stands
  batch,         \* the orders of the batch in work
  posted,        \* the orders the exchange has
  orderCount,    \* _orders_this_run
  registered,    \* orders the bridge knows
  pendingPlace,  \* orders that wait to be seen by an account sync
  seedsAwaited,  \* _grid_v2_pending_seed_cids
  budgetLatch,   \* _order_budget_exhausted
  circuitOpen    \* the port's circuit for placements

submissionVars == <<jobs, batch, posted, orderCount, registered, pendingPlace, seedsAwaited,
                    budgetLatch, circuitOpen>>

Unsent == [at |-> "unsent"]
Working == {c \in batch : jobs[c].at \in {"checked", "waiting"}}
Answer(kind, lost) == [at |-> "answered", kind |-> kind, lost |-> lost]

(***************************************************************************)
(* The gates.                                                              *)
(***************************************************************************)
\* What may hold back an order that adds risk.
EntryGates == {"health", "arming", "killSwitch", "whitelist", "position", "risk", "drawdown",
               "fsm", "fillProbability", "selector", "symbolRisk"}

\* A reduce-only order passes the gates that look for risk, and has a budget of its own.
ExitGates == {"forceReduce", "pendingRepair", "budget", "health", "arming", "killSwitch",
              "whitelist", "fillProbability"}

\* Orders of the grid pass the selector.
GatesOf(c) == IF c \in Exits THEN ExitGates ELSE EntryGates \ {"selector"}

\* The router knows no existing order: it blocks a price that crosses the spread.  The
\* minimum notional is for entries.
Refusals(c) == GatesOf(c) \cup {"router"} \cup (IF c \in Seeds THEN {"minNotional"} ELSE {})

\* Gates that judge each order by itself.
OfOneOrder == {"budget", "fillProbability", "router", "minNotional"}

(***************************************************************************)
(* Submission.                                                             *)
(***************************************************************************)
\* A batch of seeds goes through the gates before the first is sent; an exit goes alone.
Batches == {B \in SUBSET Seeds : B # {}} \cup {{c} : c \in Exits}

\* A gate that is shut stops every order it looks at, a fault of an order that order.
Dispatch(B, shut, faulty) ==
  /\ batch = {} /\ B \in Batches /\ \A c \in B : jobs[c] = Unsent
  /\ batch' = B
  /\ jobs' = [c \in Orders |->
       IF c \notin B THEN jobs[c]
       ELSE IF c \in faulty \/ shut \cap Refusals(c) # {} THEN Answer("blocked", FALSE)
       ELSE [at |-> "queued", tries |-> 0, lost |-> FALSE]]
  /\ UNCHANGED <<posted, orderCount, registered, pendingPlace, seedsAwaited, budgetLatch, circuitOpen>>

\* An attempt begins with the checks of the port, which send nothing when they fail.
Check(c) ==
  /\ c \in batch
  /\ \/ jobs[c].at = "queued" /\ Cardinality(Working) < Threads
     \/ jobs[c].at = "waiting"
  /\ jobs' = [jobs EXCEPT ![c] =
       IF circuitOpen THEN Answer("circuitOpen", @.lost)
       ELSE IF orderCount >= OrderLimit THEN Answer("limit", @.lost)
       ELSE [at |-> "checked", tries |-> @.tries + 1, lost |-> @.lost, read |-> orderCount]]
  /\ UNCHANGED <<batch, posted, orderCount, registered, pendingPlace, seedsAwaited, budgetLatch, circuitOpen>>

\* What comes back from a request the exchange took, or refused as a duplicate or for good.
Replies(c) == IF c \in posted THEN {"duplicate"} ELSE {"placed", "refused"}

\* The count is read and written without a lock.
Counted(c) == orderCount' \in {orderCount + 1, jobs[c].read + 1}

Replied(c, reply) ==
  /\ c \in batch /\ jobs[c].at = "checked"
  /\ reply \in Replies(c)
  /\ Counted(c)
  /\ posted' = IF reply = "placed" THEN posted \cup {c} ELSE posted
  /\ jobs' = [jobs EXCEPT ![c] = Answer(reply, @.lost)]
  /\ UNCHANGED <<batch, registered, pendingPlace, seedsAwaited, budgetLatch, circuitOpen>>

\* No answer, or one that says try again: the thread waits and tries, up to the limit.
\* An error that is not to be retried and has no code ends the job at once.
NoReply(c, took, final) ==
  /\ c \in batch /\ jobs[c].at = "checked"
  /\ Counted(c)
  /\ posted' = IF took THEN posted \cup {c} ELSE posted
  /\ jobs' = [jobs EXCEPT ![c] =
       IF final \/ @.tries = MaxAttempts THEN Answer("unknown", TRUE)
       ELSE [at |-> "waiting", tries |-> @.tries, lost |-> TRUE]]
  /\ circuitOpen' \in {circuitOpen, TRUE}
  /\ UNCHANGED <<batch, registered, pendingPlace, seedsAwaited, budgetLatch>>

CircuitCloses ==
  /\ circuitOpen /\ circuitOpen' = FALSE
  /\ UNCHANGED <<jobs, batch, posted, orderCount, registered, pendingPlace, seedsAwaited, budgetLatch>>

(***************************************************************************)
(* The answers, in the order of the batch, once all are in.                *)
(***************************************************************************)
\* Without a code, too, the order may not exist.
AmbiguousCodeOnly(kind) == kind = "duplicate"

\* Only an answer without a code, or one a duplicate may get, leaves the order possible.
Ambiguous(kind) == kind \in {"unknown", "duplicate"}

StaysRegistered(c) == jobs[c].kind = "placed" \/ Ambiguous(jobs[c].kind)

ApplyOutcomes ==
  /\ batch # {} /\ \A c \in batch : jobs[c].at = "answered"
  /\ \E kept \in {{c \in batch : StaysRegistered(c)}} :
       /\ registered' = registered \ (batch \ kept)
       /\ pendingPlace' = pendingPlace \cup kept
       /\ seedsAwaited' = seedsAwaited \ (batch \ kept)
  /\ budgetLatch' = (budgetLatch \/ \E c \in batch : jobs[c].kind = "limit")
  /\ batch' = {}
  /\ UNCHANGED <<jobs, posted, orderCount, circuitOpen>>

SubmissionInit ==
  /\ jobs = [c \in Orders |-> Unsent] /\ batch = {}
  /\ posted = {} /\ orderCount = 0
  /\ registered = Orders /\ pendingPlace = {} /\ seedsAwaited \in {{}, Seeds}
  /\ budgetLatch = FALSE /\ circuitOpen = FALSE

SubmissionNext ==
  \/ \E B \in Batches, gate \in (EntryGates \cup ExitGates \cup {"none"}) \ OfOneOrder :
       \E faulty \in SUBSET {c \in B : Refusals(c) \cap OfOneOrder # {}} : Dispatch(B, {gate}, faulty)
  \/ \E c \in Orders :
       \/ Check(c)
       \/ \E reply \in {"placed", "refused", "duplicate"} : Replied(c, reply)
       \/ \E took, final \in BOOLEAN : NoReply(c, took, final)
  \/ CircuitCloses
  \/ ApplyOutcomes

SubmissionSpec == SubmissionInit /\ [][SubmissionNext]_submissionVars

\* Requests whose answer is lost after they took effect, retried by three threads: an order
\* the exchange has and the bridge forgot is one whose retry the engine refused to send
\* after an earlier request of it was lost.  (That one it takes for never sent.)
ForgottenOnlyUnsent ==
  \A c \in posted \ batch :
    c \notin registered => jobs[c].kind \in {"circuitOpen", "limit"} /\ jobs[c].lost
=============================================================================
