--------------------------- MODULE LeaderElection ---------------------------
(***************************************************************************)
(* ha/leader.py and ha/role.py: instances compete for one lock in Redis    *)
(* that expires by itself.  A renewal thread reads the lock (GET) and then *)
(* renews it (SET XX) or takes it (SET NX); these are two commands, and a  *)
(* command is three moments: it is sent, Redis serves it, the answer       *)
(* arrives.  stop() is another thread: it waits for the renewal thread, no *)
(* longer than Join, and gives the lock up whether that one has ended or   *)
(* not.  Time is explicit, in ticks: the lock runs out, the thread waits   *)
(* Renew between attempts, and the client gives a command up after         *)
(* Timeout.  Nothing in the code relates Timeout and the lease.            *)
(***************************************************************************)
EXTENDS Integers, FiniteSets

CONSTANTS
  Instances,
  Nobody,     \* the lock is free
  Departed,   \* the lock is left by a process that is gone: ids are never reused
  Ttl,        \* lock_ttl_ms
  Renew,      \* renew_interval_ms
  Timeout,    \* the longest a command takes, connecting again included
  Join,       \* stop()'s patience with the renewal thread
  MaxMishaps  \* bound on failed commands, stops and crashes

ASSUME ElectionAssumption ==
  /\ Nobody \notin Instances /\ Departed \notin Instances /\ Nobody # Departed
  /\ {Ttl, Renew, Timeout, Join, MaxMishaps} \subseteq Nat
  /\ Renew < Ttl    \* LeaderElectorConfig.__post_init__

VARIABLES
  holder,   \* the lock's value in Redis
  left,     \* ticks until the lock expires, 0 when it is free
  role,     \* HAState.role of each instance
  thread,   \* where the renewal thread is
  clock,    \* ticks since the thread got there, or since it sent its command
  caller,   \* the life of the elector, and where its stop() is
  waited,   \* ticks since stop() got there
  mishaps,  \* failed commands, stops and crashes so far
  age,      \* history: ticks since Redis last gave each instance the lock, up to Old
  robbed    \* history: instances whose lock a SET XX of another overwrote

threadVars == <<thread, clock>>
callerVars == <<caller, waited>>
electionVars == <<holder, left, role, threadVars, callerVars, mishaps, age, robbed>>

Reading == {"get", "free", "mine", "taken"}
Writing == {"set_nx", "set_xx", "acquired", "denied"}
Threads == {"off", "waiting"} \cup Reading \cup Writing
InCharge == {"running", "joining", "releasing", "released"}
Callers == InCharge \cup {"down", "stopped"}
Roles == {"unknown", "standby", "active"}

\* The most ticks a renewal takes: the answer of a SET, the wait, a GET, the next SET.
Lag == Renew + 3 * Timeout
Old == IF Lag < Ttl THEN Ttl ELSE Lag + 1

ElectionTypeOK ==
  /\ holder \in Instances \cup {Nobody, Departed}
  /\ left \in 0..Ttl
  /\ role \in [Instances -> Roles]
  /\ thread \in [Instances -> Threads]
  /\ clock \in [Instances -> Nat]
  /\ caller \in [Instances -> Callers]
  /\ waited \in [Instances -> Nat]
  /\ mishaps \in 0..MaxMishaps
  /\ age \in [Instances -> 0..Old]
  /\ robbed \subseteq Instances

\* The time a thread may spend where it is.
Patience(i) == IF thread[i] = "waiting" THEN Renew ELSE Timeout

\* _stop_event is set.
Stopping(i) == caller[i] \notin {"down", "running"}

ElectionInit ==
  /\ holder = Nobody /\ left = 0
  /\ role = [i \in Instances |-> "unknown"]
  /\ thread = [i \in Instances |-> "off"]
  /\ clock = [i \in Instances |-> 0]
  /\ caller = [i \in Instances |-> "down"]
  /\ waited = [i \in Instances |-> 0]
  /\ mishaps = 0
  /\ age = [i \in Instances |-> Old]
  /\ robbed = {}

Goto(i, place) ==
  /\ thread' = [thread EXCEPT ![i] = place]
  /\ clock' = [clock EXCEPT ![i] = 0]

StopGoesTo(i, place) ==
  /\ caller' = [caller EXCEPT ![i] = place]
  /\ waited' = [waited EXCEPT ![i] = 0]

\* Redis serves a command: the answer is on its way, the client's clock runs on.
Served(i, answer) ==
  /\ thread' = [thread EXCEPT ![i] = answer]
  /\ UNCHANGED clock

Mishap == mishaps < MaxMishaps /\ mishaps' = mishaps + 1

\* start(): the loop's first attempt follows at once.
Start(i) ==
  /\ caller[i] = "down"
  /\ Goto(i, "get") /\ StopGoesTo(i, "running")
  /\ UNCHANGED <<holder, left, role, mishaps, age, robbed>>

\* The ping of start() fails: the instance is standby and there is no elector.
StartFails(i) ==
  /\ caller[i] = "down"
  /\ role' = [role EXCEPT ![i] = "standby"]
  /\ UNCHANGED <<holder, left, threadVars, callerVars, mishaps, age, robbed>>

\* The wait between two attempts ran out.
Attempt(i) ==
  /\ thread[i] = "waiting" /\ clock[i] = Renew /\ ~Stopping(i)
  /\ Goto(i, "get")
  /\ UNCHANGED <<holder, left, role, callerVars, mishaps, age, robbed>>

\* The event ends the wait, and the loop.
ThreadEnds(i) ==
  /\ thread[i] = "waiting" /\ Stopping(i)
  /\ Goto(i, "off")
  /\ UNCHANGED <<holder, left, role, callerVars, mishaps, age, robbed>>

ServeGet(i) ==
  /\ thread[i] = "get"
  /\ Served(i, CASE holder = i -> "mine" [] holder = Nobody -> "free" [] OTHER -> "taken")
  /\ UNCHANGED <<holder, left, role, callerVars, mishaps, age, robbed>>

\* The branch on the lock's holder, as it was when Redis read it.
HearGet(i) ==
  /\ \/ thread[i] = "mine" /\ Goto(i, "set_xx") /\ UNCHANGED role
     \/ thread[i] = "free" /\ Goto(i, "set_nx") /\ UNCHANGED role
     \/ thread[i] = "taken" /\ Goto(i, "waiting") /\ role' = [role EXCEPT ![i] = "standby"]
  /\ UNCHANGED <<holder, left, callerVars, mishaps, age, robbed>>

\* XX asks only that the lock exists, NX that it does not: neither asks whose it is.
Settable(i) ==
  \/ thread[i] = "set_xx" /\ holder # Nobody
  \/ thread[i] = "set_nx" /\ holder = Nobody

ServeSet(i) ==
  /\ thread[i] \in {"set_nx", "set_xx"}
  /\ \/ /\ Settable(i)
        /\ holder' = i /\ left' = Ttl
        /\ age' = [age EXCEPT ![i] = 0]
        /\ robbed' = (robbed \cup ({holder} \cap Instances)) \ {i}
        /\ Served(i, "acquired")
     \/ /\ ~Settable(i)
        /\ Served(i, "denied")
        /\ UNCHANGED <<holder, left, age, robbed>>
  /\ UNCHANGED <<role, callerVars, mishaps>>

\* _become_active, _become_standby; after stop() too, if the answer was there in time.
HearSet(i) ==
  /\ \/ thread[i] = "acquired" /\ role' = [role EXCEPT ![i] = "active"]
     \/ thread[i] = "denied" /\ role' = [role EXCEPT ![i] = "standby"]
  /\ Goto(i, "waiting")
  /\ UNCHANGED <<holder, left, callerVars, mishaps, age, robbed>>

FailOpen(i) == UNCHANGED role

\* Any error makes the instance standby.
FailSafe(i) == role' = [role EXCEPT ![i] = "standby"]

\* A connection error, or a timeout: Redis may or may not have served the command.
\* stop() closes the connection under a thread it no longer waits for.
CommandFails(i) ==
  /\ thread[i] \in Reading \cup Writing
  /\ Mishap \/ (caller[i] = "stopped" /\ UNCHANGED mishaps)
  /\ FailSafe(i)
  /\ Goto(i, "waiting")
  /\ UNCHANGED <<holder, left, callerVars, age, robbed>>

Stop(i) ==
  /\ caller[i] = "running"
  /\ Mishap
  /\ StopGoesTo(i, "joining")
  /\ UNCHANGED <<holder, left, role, threadVars, age, robbed>>

\* The thread has ended, or stop() has waited for it long enough.
Joined(i) ==
  /\ caller[i] = "joining" /\ (thread[i] = "off" \/ waited[i] = Join)
  /\ StopGoesTo(i, "releasing")
  /\ UNCHANGED <<holder, left, role, threadVars, mishaps, age, robbed>>

\* The script deletes the lock only if it is ours.
GivenUp(i) == IF holder = i THEN holder' = Nobody /\ left' = 0 ELSE UNCHANGED <<holder, left>>

ServeRelease(i) ==
  /\ caller[i] = "releasing"
  /\ GivenUp(i)
  /\ caller' = [caller EXCEPT ![i] = "released"]
  /\ UNCHANGED <<role, threadVars, waited, mishaps, age, robbed>>

\* The last lines of stop(): only here does a stopped leader stop being ACTIVE.
Stopped(i) ==
  /\ caller[i] = "released"
  /\ StopGoesTo(i, "stopped")
  /\ role' = [role EXCEPT ![i] = "standby"]
  /\ UNCHANGED <<holder, left, threadVars, mishaps, age, robbed>>

\* ConnectionError in the release: the lock is left to run out.  A timeout is no
\* ConnectionError: it leaves stop(), and the role is what it was.
ReleaseFails(i) ==
  /\ caller[i] \in {"releasing", "released"}
  /\ StopGoesTo(i, "stopped")
  /\ role' = [role EXCEPT ![i] = "standby"] \/ UNCHANGED role
  /\ UNCHANGED <<holder, left, threadVars, mishaps, age, robbed>>

\* The end of a process; its successor has an instance_id of its own.
Gone(i) ==
  /\ Goto(i, "off") /\ StopGoesTo(i, "down")
  /\ role' = [role EXCEPT ![i] = "unknown"]
  /\ holder' = IF holder = i THEN Departed ELSE holder
  /\ age' = [age EXCEPT ![i] = Old]
  /\ robbed' = robbed \ {i}
  /\ UNCHANGED left

Exit(i) ==
  /\ caller[i] = "stopped"
  /\ Gone(i)
  /\ UNCHANGED mishaps

Crash(i) ==
  /\ caller[i] \in InCharge
  /\ Gone(i)
  /\ Mishap

Aged(n) == IF n = 0 THEN 0 ELSE n - 1

RunsForever == FALSE

\* The lock was set with PX: it runs out.
RunsOut == left <= 1

\* Nobody would overrun a wait or a timeout, or has an event to react to.
MayWait(i) ==
  /\ thread[i] # "off" => clock[i] < Patience(i)
  /\ ~(thread[i] = "waiting" /\ Stopping(i))
  /\ caller[i] = "joining" => thread[i] # "off" /\ waited[i] < Join
  /\ caller[i] \in {"releasing", "released"} => waited[i] < Timeout

Tick ==
  /\ \A i \in Instances : MayWait(i)
  /\ clock' = [i \in Instances |-> IF thread[i] = "off" THEN clock[i] ELSE clock[i] + 1]
  /\ waited' = [i \in Instances |->
       IF caller[i] \in {"joining", "releasing", "released"} THEN waited[i] + 1 ELSE waited[i]]
  /\ age' = [i \in Instances |-> IF age[i] < Old THEN age[i] + 1 ELSE Old]
  /\ left' = Aged(left)
  /\ holder' = IF RunsOut THEN Nobody ELSE holder
  /\ UNCHANGED <<role, thread, caller, mishaps, robbed>>

Progress(i) ==
  Attempt(i) \/ ServeGet(i) \/ HearGet(i) \/ ServeSet(i) \/ HearSet(i) \/ ThreadEnds(i)

StopStep(i) == Joined(i) \/ ServeRelease(i) \/ Stopped(i)

ElectionNext ==
  \/ Tick
  \/ \E i \in Instances :
       \/ Start(i) \/ StartFails(i) \/ Progress(i) \/ CommandFails(i)
       \/ Stop(i) \/ StopStep(i) \/ ReleaseFails(i) \/ Exit(i) \/ Crash(i)

ElectionSpec == ElectionInit /\ [][ElectionNext]_electionVars

-----------------------------------------------------------------------------
\* ACTIVE, and the elector is there: stop() has neither returned nor raised.
Leads(i) == role[i] = "active" /\ caller[i] \in InCharge

\* The lock is no longer i's: a SET XX of another took it, it ran out, or i's own
\* stop() has given it up.
Lost(i) == i \in robbed \/ age[i] >= Ttl \/ caller[i] = "released"

\* Two instances lead together only when one of them has lost its lock and does
\* not know it yet, and such a leader is no older than a renewal: the overlap ends
\* Lag - Ttl ticks after the lock ran out, and there is none by expiry when the
\* lease is longer than Lag.  (leader.py:190-195: GET and SET XX are two commands;
\* 144-155: stop(); 211-215: every error makes standby.)
OverlapIsShort ==
  \A i, j \in Instances :
    Leads(i) /\ Leads(j) /\ i # j =>
      \E k \in {i, j} : Lost(k) /\ age[k] <= Lag

\* "Only one instance can be ACTIVE at any time" (leader.py:6), electors whose
\* stop() is under way aside.
OnlyOneLeads ==
  \A i, j \in Instances :
    Leads(i) /\ Leads(j) /\ ~Stopping(i) /\ ~Stopping(j) => i = j

\* While an instance keeps running, some instance leads again and again: no
\* crash, release that failed, or lost answer leaves the lock stuck.
LeaderReturns ==
  \A i \in Instances :
    <>[](caller[i] = "running") => []<>(\E j \in Instances : Leads(j))
=============================================================================
