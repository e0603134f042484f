--------------------------- MODULE IdempotentPort ---------------------------
(***************************************************************************)
(* execution/idempotent_port.py: place_order, cancel_order and             *)
(* replace_order follow one protocol over a circuit breaker and an         *)
(* idempotency store, and the cancel wave and the seed dispatch of the     *)
(* engine run it on several threads.  The three operations share neither   *)
(* breaker state nor keys, so the module is one of them: its breaker, its  *)
(* keys and the threads that call it, at the grain of the locks.           *)
(***************************************************************************)
EXTENDS CircuitBreaker, IdempotencyStore, FiniteSets

CONSTANTS
  Callers,   \* threads that may be inside the port
  Keys,      \* idempotency keys of the requests they make
  Outcomes,  \* what the inner port may do
  TripOn,    \* errors that count against the upstream
  NoKey

\* The inner port answers, refuses, or times out with or without effect.
ASSUME PortAssumption ==
  /\ Outcomes \subseteq {"accepted", "refused", "transient", "timeout_applied", "timeout_lost"}
  /\ "accepted" \notin TripOn
  /\ NoKey \notin Keys
  /\ IsFiniteSet(Callers)

VARIABLES
  breaker, \* CircuitBreaker._states[op]
  store,   \* InMemoryIdempotencyStore._entries
  calls,   \* where each thread is inside the port, and for which key
  effects, \* history: side effects of a key since its slate was clean, 2 = more
  excused, \* history: keys whose entry ran out under a call, or with an unknown outcome
  probing, \* history: callers admitted in this half-open period and not yet back
  wasted   \* history: probes of this half-open period that reported nothing

vars == <<breaker, store, calls, effects, excused, probing, wasted>>

Phases == {"idle", "turned_away", "lookup", "claim", "recheck", "execute",
           "accepted", "refused", "transient", "timeout_applied", "timeout_lost",
           "report_success", "report_failure"}
Errors == {"refused", "transient", "timeout_applied", "timeout_lost"}

Idle == [phase |-> "idle", key |-> NoKey]

At(c, phase) == calls[c].phase = phase
Goto(c, phase) == calls' = [calls EXCEPT ![c].phase = phase]
Return(c) == calls' = [calls EXCEPT ![c] = Idle]

\* Calls that hold, or held, the claim of a key and have not marked it yet.
Holders(k) ==
  {c \in Callers : calls[c].key = k /\ calls[c].phase \in {"execute", "accepted"} \cup Errors}

\* A call that returns without a word to the breaker.
Unreported(c) ==
  /\ Return(c)
  /\ probing' = probing \ {c}
  /\ wasted' = IF c \in probing THEN wasted + 1 ELSE wasted

Reported(c) ==
  /\ Return(c)
  /\ probing' = probing \ {c}
  /\ UNCHANGED wasted

\* A period of probes begins when the circuit turns HALF_OPEN.
StillProbing == IF Refreshed(breaker) = breaker THEN probing ELSE {}
StillWasted == IF Refreshed(breaker) = breaker THEN wasted ELSE 0

\* The breaker is asked before the store.
BeforeCall(c, k) ==
  LET b == Refreshed(breaker) IN
  /\ At(c, "idle")
  /\ wasted' = StillWasted
  /\ \/ /\ Allows(b)
        /\ breaker' = Admitted(b)
        /\ calls' = [calls EXCEPT ![c] = [phase |-> "lookup", key |-> k]]
        /\ probing' = IF b.state = "HALF_OPEN" THEN StillProbing \cup {c} ELSE StillProbing
     \/ /\ ~Allows(b)
        /\ breaker' = b
        /\ Goto(c, "turned_away")
        /\ probing' = StillProbing
  /\ UNCHANGED <<store, effects, excused>>

\* CircuitOpenError carries the state, which is read once more for it.
TurnAway(c) ==
  /\ At(c, "turned_away")
  /\ breaker' = Refreshed(breaker)
  /\ Return(c)
  /\ probing' = StillProbing
  /\ wasted' = StillWasted
  /\ UNCHANGED <<store, effects, excused>>

\* DONE answers from the cache, INFLIGHT is a conflict, the rest goes on.
Lookup(c) ==
  LET k == calls[c].key IN
  /\ At(c, "lookup")
  /\ store' = [store EXCEPT ![k] = Got(@)]
  /\ \/ /\ Got(store[k]).status \in {"DONE", "INFLIGHT"}
        /\ Unreported(c)
     \/ /\ Got(store[k]).status \in {"ABSENT", "FAILED"}
        /\ Goto(c, "claim")
        /\ UNCHANGED <<probing, wasted>>
  /\ UNCHANGED <<breaker, effects, excused>>

Claim(c) ==
  LET k == calls[c].key IN
  /\ At(c, "claim")
  /\ \/ /\ Free(store[k])
        /\ store' = [store EXCEPT ![k] = Inflight]
        /\ Goto(c, "execute")
     \/ /\ ~Free(store[k])
        /\ Goto(c, "recheck")
        /\ UNCHANGED store
  /\ UNCHANGED <<breaker, effects, excused, probing, wasted>>

\* Somebody else claimed first: his result, or a conflict.
Recheck(c) ==
  /\ At(c, "recheck")
  /\ store' = [store EXCEPT ![calls[c].key] = Got(@)]
  /\ Unreported(c)
  /\ UNCHANGED <<breaker, effects, excused>>

Execute(c, outcome) ==
  LET k == calls[c].key IN
  /\ At(c, "execute")
  /\ Goto(c, outcome)
  /\ effects' = [effects EXCEPT ![k] =
                   IF outcome \in {"accepted", "timeout_applied"} /\ @ < 2 THEN @ + 1 ELSE @]
  /\ excused' = IF outcome = "timeout_applied" THEN excused \cup {k} ELSE excused
  /\ UNCHANGED <<breaker, store, probing, wasted>>

Succeed(c) ==
  /\ At(c, "accepted")
  /\ store' = [store EXCEPT ![calls[c].key] = MarkDone(@)]
  /\ Goto(c, "report_success")
  /\ UNCHANGED <<breaker, effects, excused, probing, wasted>>

Fail(c) ==
  /\ calls[c].phase \in Errors
  /\ store' = [store EXCEPT ![calls[c].key] = MarkFailed(@)]
  /\ \/ /\ calls[c].phase \in TripOn
        /\ Goto(c, "report_failure")
        /\ UNCHANGED <<probing, wasted>>
     \/ /\ calls[c].phase \notin TripOn
        /\ Unreported(c)
  /\ UNCHANGED <<breaker, effects, excused>>

ReportSuccess(c) ==
  /\ At(c, "report_success")
  /\ breaker' = RecordSuccess(breaker)
  /\ Reported(c)
  /\ UNCHANGED <<store, effects, excused>>

ReportFailure(c) ==
  /\ At(c, "report_failure")
  /\ breaker' = RecordFailure(breaker)
  /\ Reported(c)
  /\ UNCHANGED <<store, effects, excused>>

\* Time passes.  A key whose entry runs out with no call holding it has a
\* clean slate; if one does, what follows is excused.
Tick ==
  LET out == {k \in Keys : Alive(store[k]) /\ ~Alive(Aged(store[k]))}
      held == {k \in out : Holders(k) # {}}
  IN /\ breaker' = Waited(breaker)
     /\ store' = [k \in Keys |-> Aged(store[k])]
     /\ effects' = [k \in Keys |-> IF k \in out \ held THEN 0 ELSE effects[k]]
     /\ excused' = (excused \ out) \cup held
     /\ UNCHANGED <<calls, probing, wasted>>

Init ==
  /\ breaker = OperationState
  /\ store = [k \in Keys |-> Absent]
  /\ calls = [c \in Callers |-> Idle]
  /\ effects = [k \in Keys |-> 0]
  /\ excused = {}
  /\ probing = {}
  /\ wasted = 0

\* What a thread inside the port does next.
Proceed(c) ==
  \/ TurnAway(c) \/ Lookup(c) \/ Claim(c) \/ Recheck(c)
  \/ \E outcome \in Outcomes : Execute(c, outcome)
  \/ Succeed(c) \/ Fail(c) \/ ReportSuccess(c) \/ ReportFailure(c)

Next ==
  \/ \E c \in Callers : Proceed(c) \/ \E k \in Keys : BeforeCall(c, k)
  \/ Tick

Spec == Init /\ [][Next]_vars

\* Threads run, requests keep coming, the clock moves.
Fairness ==
  /\ \A c \in Callers : WF_vars(Proceed(c)) /\ WF_vars(\E k \in Keys : BeforeCall(c, k))
  /\ WF_vars(Tick)

FairSpec == Spec /\ Fairness

-----------------------------------------------------------------------------

TypeOK ==
  /\ breaker \in Breakers
  /\ store \in [Keys -> Entries]
  /\ calls \in [Callers -> [phase : Phases, key : Keys \cup {NoKey}]]
  /\ effects \in [Keys -> 0..2]
  /\ excused \subseteq Keys
  /\ probing \subseteq Callers
  /\ wasted \in Nat

(* However the calls of one key interleave, with the breaker, their retries and *)
(* each other, its side effect happens once per life of its entry, unless an    *)
(* execution outlived its INFLIGHT entry or timed out although it was applied   *)
(* ("Side-effects only happen once per unique key", idempotent_port.py:10).     *)
AtMostOneEffect == \A k \in Keys \ excused : effects[k] <= 1

(* A result is served from the cache only for a request the exchange took, also *)
(* when a call marks an entry that expired or that another call holds by now    *)
(* (mark_done and mark_failed compare neither owner nor expiry).                *)
CachedResultsHappened ==
  \A k \in Keys : Alive(store[k]) /\ store[k].status = "DONE" => effects[k] > 0

(* No run of successes, trips and late answers leaves a closed circuit one      *)
(* failure past its threshold (consecutive_failures survives OPEN and HALF_OPEN).*)
ClosedBelowThreshold == breaker.state = "CLOSED" => breaker.failures < FailureThreshold

(* A half-open period never has more than ProbeCount callers out, whoever       *)
(* reopened it meanwhile, and a probe it has spent is still out, was counted as *)
(* a success, or came back without reporting (allow, record_success).           *)
ProbesAccountedFor ==
  breaker.state = "HALF_OPEN" =>
    /\ Cardinality(probing) <= breaker.half_open_probes
    /\ breaker.half_open_probes <= ProbeCount
    /\ breaker.half_open_probes <= Cardinality(probing) + wasted + breaker.successes

(* A circuit stays half open for ever only if too many of its probes came back  *)
(* without reporting: an answer or an upstream error always decides it.         *)
RecoversUnlessWasted ==
  <>[](breaker.state = "HALF_OPEN") => <>(wasted + SuccessThreshold > ProbeCount)
=============================================================================
