----------------------------- MODULE UserStream ------------------------------
(***************************************************************************)
(* The user-data stream of one process: run_user_data_loop (the reader),   *)
(* the connector it rebuilds on every attempt, and the connector's own     *)
(* keepalive task (the keeper).  Both tasks run on one asyncio loop and    *)
(* share the socket, the listen key and the connector's state; an action   *)
(* is what a task does between two awaits.  Listen keys are numbers in     *)
(* the order of their creation, 0 is the empty string.                     *)
(***************************************************************************)
EXTENDS Integers, Sequences, FiniteSets

CONSTANTS
  StreamSymbols,   \* symbols an ACCOUNT_UPDATE may carry
  SymbolFilter,    \* the connector's symbol_filter, "none" without one
  MaxRestarts,     \* max_retries of run_user_data_loop
  MaxRedials,      \* retry.max_retries of the connector
  MaxKeys,         \* bound: listen keys created
  MaxMessages,     \* bound: messages the exchange sends
  MaxFaults        \* bound: failed calls, drops, expiries and engine errors

ASSUME StreamAssumption ==
  /\ MaxRestarts \in Nat \ {0} /\ MaxRedials \in Nat \ {0}
  /\ MaxKeys \in Nat /\ MaxMessages \in Nat /\ MaxFaults \in Nat

VARIABLES
  reader,   \* where run_user_data_loop waits, its attempt, its redials, why it closes, whether it was cancelled
  conn,     \* the connector: state, closed, listen key, socket
  keeper,   \* the keepalive task: what it waits for, its redials
  keys,     \* listen keys: how many were made, which the exchange accepts, which we deleted
  inbox,    \* messages the socket holds
  heard,    \* what process_user_data_event was given
  stop,     \* "no" -> "asked" (thread event) -> "set" (asyncio event), or "left": the trading loop ended by itself
  faults, sent

usVars == <<reader, conn, keeper, keys, inbox, heard, stop, faults, sent>>

Unconnected == [state |-> "DISCONNECTED", closed |-> FALSE, key |-> 0, socket |-> "none"]

USInit ==
  /\ reader = [at |-> "next", attempt |-> 0, redials |-> 0, then |-> "next", canceled |-> FALSE]
  /\ conn = Unconnected
  /\ keeper = [at |-> "none", redials |-> 0]
  /\ keys = [made |-> 0, live |-> {}, deleted |-> {}]
  /\ inbox = <<>> /\ heard = <<>> /\ stop = "no" /\ faults = 0 /\ sent = 0

Fault == faults < MaxFaults /\ faults' = faults + 1

(* ListenKeyManager.create answers 200 with a key; any other answer raises. *)
Creates == keys.made < MaxKeys
Created(k) == [k EXCEPT !.made = @ + 1, !.live = @ \cup {k.made + 1}]

(* ListenKeyManager.close: nothing without a key; an error is swallowed. *)
Deleted(k, key) ==
  IF key = 0 THEN k ELSE [k EXCEPT !.live = @ \ {key}, !.deleted = @ \cup {key}]

(* run_user_data_loop's except clause; the connector stays open meanwhile. *)
AfterError(r) ==
  IF stop = "set" THEN [r EXCEPT !.at = "closing", !.then = "over"]
  ELSE IF r.attempt < MaxRestarts - 1
       THEN [r EXCEPT !.at = "backoff", !.attempt = @ + 1]
       ELSE [r EXCEPT !.at = "closing", !.attempt = @ + 1, !.then = "over"]

Ends(r) == [r EXCEPT !.at = "closing", !.then = "over"]

-------------------------------------------------------------------------------
(* The reader. *)

(* The head of the loop: stop, or make a connector and ask for a listen key. *)
Attempt ==
  /\ reader.at = "next"
  /\ IF stop = "set"
     THEN reader' = [reader EXCEPT !.at = "over"] /\ UNCHANGED <<conn, keys>>
     ELSE /\ Creates
          /\ reader' = [reader EXCEPT !.at = "dialling", !.redials = 0]
          /\ keys' = Created(keys)
          /\ conn' = [Unconnected EXCEPT !.state = "CONNECTING", !.key = keys.made + 1]
  /\ UNCHANGED <<keeper, inbox, heard, stop, faults, sent>>

AttemptFails ==
  /\ reader.at = "next" /\ stop # "set" /\ Fault
  /\ conn' = [Unconnected EXCEPT !.state = "CONNECTING"]
  /\ reader' = AfterError([reader EXCEPT !.redials = 0])
  /\ UNCHANGED <<keeper, keys, inbox, heard, stop, sent>>

(* connect() goes on: the socket opens and a keepalive task starts. *)
Opened == /\ conn' = [conn EXCEPT !.state = "CONNECTED", !.socket = "open"]
          /\ keeper' = [at |-> "sleeping", redials |-> 0]
          /\ inbox' = <<>>

Dials ==
  /\ reader.at \in {"dialling", "redialling"} /\ conn.key \in keys.live
  /\ Opened
  /\ reader' = [reader EXCEPT !.at = "reading"]
  /\ UNCHANGED <<keys, heard, stop, faults, sent>>

(* A timeout leaves the connector DISCONNECTED, any other error CONNECTING. *)
DialFails ==
  /\ reader.at \in {"dialling", "redialling"} /\ Fault
  /\ \E s \in {"DISCONNECTED", "CONNECTING"} : conn' = [conn EXCEPT !.state = s]
  /\ reader' = IF reader.at = "dialling" THEN AfterError(reader)
               ELSE [reader EXCEPT !.at = "resting", !.redials = @ + 1]
  /\ UNCHANGED <<keeper, keys, inbox, heard, stop, sent>>

(* trading_loop's finally clause cancels the task once.  The wait for a keepalive
   task that still runs suppresses that, here and in close(). *)
CancelFalls == stop \in {"set", "left"} /\ ~reader.canceled
KeeperRuns == keeper.at \notin {"none", "done"}
Unheeded == {c \in BOOLEAN : c = reader.canceled \/ (CancelFalls /\ KeeperRuns)}

(* Cancelled while it hangs up, the connector leaves the socket as it was, or half closed. *)
HalfClosed == {conn.socket, "dropped"}

(* reconnect() of the connector, run by the reader: the keeper is cancelled
   and awaited, socket and key go, and the first connect() asks for a key. *)
ReaderReconnects ==
  /\ keeper' = [keeper EXCEPT !.at = "done"]
  /\ \/ /\ Creates
        /\ keys' = Created(Deleted(keys, conn.key))
        /\ conn' = [conn EXCEPT !.state = "CONNECTING", !.socket = "none", !.key = keys.made + 1]
        /\ \E c \in Unheeded :
             reader' = [reader EXCEPT !.at = "redialling", !.redials = 0, !.canceled = c]
        /\ UNCHANGED faults
     \/ /\ Fault
        /\ keys' = Deleted(keys, conn.key)
        /\ conn' = [conn EXCEPT !.state = "CONNECTING", !.socket = "none", !.key = 0]
        /\ \E c \in Unheeded :
             reader' = [reader EXCEPT !.at = "resting", !.redials = 1, !.canceled = c]
     \/ /\ CancelFalls
        /\ \E left \in HalfClosed : conn' = [conn EXCEPT !.state = "RECONNECTING", !.socket = left]
        /\ reader' = [Ends(reader) EXCEPT !.canceled = TRUE]
        /\ UNCHANGED <<keys, faults>>

(* The backoff inside reconnect() is over: another connect(), or the last one failed. *)
Redials ==
  /\ reader.at = "resting"
  /\ IF reader.redials < MaxRedials
     THEN \/ /\ Creates
             /\ keys' = Created(keys)
             /\ conn' = [conn EXCEPT !.state = "CONNECTING", !.key = keys.made + 1]
             /\ reader' = [reader EXCEPT !.at = "redialling"]
             /\ UNCHANGED faults
          \/ /\ Fault
             /\ conn' = [conn EXCEPT !.state = "CONNECTING"]
             /\ reader' = [reader EXCEPT !.redials = @ + 1]
             /\ UNCHANGED keys
     ELSE /\ conn' = [conn EXCEPT !.state = "DISCONNECTED"]
          /\ reader' = AfterError(reader)
          /\ UNCHANGED <<keys, faults>>
  /\ UNCHANGED <<keeper, inbox, heard, stop, sent>>

(* UserDataEvent.from_binance: the symbols whose position leaves an update. *)
Extracted(update) ==
  IF SymbolFilter # "none"
  THEN {s \in {SymbolFilter} : \E i \in 1..Len(update) : update[i] = s}
  ELSE {update[i] : i \in {j \in {1} : update # <<>>}}

(* One message: _parse_event, then the callback, unless shutdown is set. *)
Receives ==
  /\ reader.at = "reading" /\ conn.socket = "open" /\ inbox # <<>>
  /\ LET m == Head(inbox) IN
     \/ m.kind = "listenKeyExpired" /\ ReaderReconnects /\ inbox' = <<>> /\ UNCHANGED heard
     \/ /\ m.kind = "reply" /\ inbox' = Tail(inbox)
        /\ UNCHANGED <<reader, conn, keeper, keys, heard, faults>>
     \/ /\ m.kind \in {"order", "account"} /\ inbox' = Tail(inbox)
        /\ \/ stop = "set" /\ reader' = Ends(reader) /\ UNCHANGED <<heard, faults>>
           \/ /\ stop # "set" /\ UNCHANGED <<reader, faults>>
              /\ heard' = Append(heard, [n |-> m.n, positions |-> Extracted(m.update)])
           \/ stop # "set" /\ Fault /\ reader' = AfterError(reader) /\ UNCHANGED heard
        /\ UNCHANGED <<conn, keeper, keys>>
  /\ UNCHANGED <<stop, sent>>

(* The socket is gone: recv raises websockets' ConnectionClosed, which
   "except Exception" turns into the end of the iteration, as is_connected
   does at the head of the loop; "else: break" then ends run_user_data_loop. *)
StreamEnds ==
  /\ reader.at = "reading" /\ conn.socket # "open"
  /\ reader' = Ends(reader) /\ inbox' = <<>>
  /\ UNCHANGED <<conn, keeper, keys, heard, stop, faults, sent>>

(* The backoff of run_user_data_loop: shutdown wakes it at once. *)
BacksOff ==
  /\ reader.at = "backoff"
  /\ reader' = [reader EXCEPT !.at = "closing", !.then = IF stop = "set" THEN "over" ELSE "next"]
  /\ UNCHANGED <<conn, keeper, keys, inbox, heard, stop, faults, sent>>

(* Only a task that sleeps is cancelled. *)
CancelledAsleep(k) == [k EXCEPT !.at = IF @ = "sleeping" THEN "done" ELSE @]

(* The keepalive task is cancelled, wherever it waits. *)
Cancelled(k) == [k EXCEPT !.at = IF @ = "none" THEN @ ELSE "done"]

(* close() in the finally clause: the keepalive task, unless it is through, is
   cancelled and awaited; then the socket hangs up. *)
Closes ==
  /\ reader.at = "closing"
  /\ conn' = [conn EXCEPT !.closed = TRUE]
  /\ keeper' = Cancelled(keeper)
  /\ reader' = [reader EXCEPT !.at = IF KeeperRuns THEN "parting" ELSE "hanging"]
  /\ UNCHANGED <<keys, inbox, heard, stop, faults, sent>>

KeeperParts ==
  /\ reader.at = "parting"
  /\ reader' = [reader EXCEPT !.at = "hanging"]
  /\ UNCHANGED <<conn, keeper, keys, inbox, heard, stop, faults, sent>>

(* The socket is closed; deleting the key may fail unheard. *)
HangsUp ==
  /\ reader.at = "hanging"
  /\ reader' = [reader EXCEPT !.at = reader.then]
  /\ conn' = [conn EXCEPT !.state = "CLOSED", !.socket = "none"]
  /\ \/ keys' = Deleted(keys, conn.key) /\ UNCHANGED faults
     \/ conn.key # 0 /\ Fault /\ keys' = [keys EXCEPT !.deleted = @ \cup {conn.key}]
  /\ inbox' = <<>>
  /\ UNCHANGED <<keeper, heard, stop, sent>>

(* The cancel, wherever the task waits.  While the socket hangs up it is not
   suppressed, and the rest of close() is skipped. *)
Canceled ==
  /\ CancelFalls
  /\ \/ /\ reader.at \in {"dialling", "reading", "redialling", "resting", "backoff"}
        /\ reader' = [Ends(reader) EXCEPT !.canceled = TRUE]
        /\ UNCHANGED conn
     \/ /\ reader.at = "parting"
        /\ reader' = [reader EXCEPT !.canceled = TRUE]
        /\ UNCHANGED conn
     \/ /\ reader.at = "hanging" /\ conn.socket # "none"
        /\ reader' = [reader EXCEPT !.at = "over", !.canceled = TRUE]
        /\ \E left \in HalfClosed : conn' = [conn EXCEPT !.socket = left]
  /\ UNCHANGED <<keeper, keys, inbox, heard, stop, faults, sent>>

-------------------------------------------------------------------------------
(* The keeper. *)

KeeperWaits == {"closing", "dialling", "resting"}   \* inside its own reconnect()

KeepsAlive ==
  /\ keeper.at = "sleeping" /\ ~conn.closed
  /\ keeper' = [keeper EXCEPT !.at = IF conn.state = "CONNECTED" THEN @ ELSE "done"]
  /\ UNCHANGED <<reader, conn, keys, inbox, heard, stop, faults, sent>>

(* The PUT fails: reconnect() runs inside the keeper.  Cancelling and awaiting
   itself raises the CancelledError it suppresses; then it closes the socket. *)
KeepaliveFails ==
  /\ keeper.at = "sleeping" /\ ~conn.closed /\ conn.key # 0 /\ Fault
  /\ keeper' = [at |-> "closing", redials |-> 0]
  /\ conn' = [conn EXCEPT !.state = "RECONNECTING",
                          !.socket = IF @ = "open" THEN "dropped" ELSE @]
  /\ UNCHANGED <<reader, keys, inbox, heard, stop, sent>>

(* The socket is closed; the old key goes and a new one is asked for. *)
KeeperCreates ==
  /\ keeper.at \in {"closing", "resting"} /\ ~conn.closed
  /\ LET left == IF keeper.at = "closing" THEN Deleted(keys, conn.key) ELSE keys IN
     \/ /\ keeper.redials < MaxRedials /\ Creates
        /\ keys' = Created(left)
        /\ conn' = [conn EXCEPT !.state = "CONNECTING", !.socket = "none", !.key = keys.made + 1]
        /\ keeper' = [keeper EXCEPT !.at = "dialling"]
        /\ UNCHANGED faults
     \/ /\ keeper.redials < MaxRedials /\ Fault
        /\ keys' = left
        /\ conn' = [conn EXCEPT !.state = "CONNECTING", !.socket = "none",
                                !.key = IF keeper.at = "closing" THEN 0 ELSE @]
        /\ keeper' = [at |-> "resting", redials |-> keeper.redials + 1]
     \/ /\ keeper.redials = MaxRedials
        /\ conn' = [conn EXCEPT !.state = "DISCONNECTED"]
        /\ keeper' = [keeper EXCEPT !.at = "done"]
        /\ UNCHANGED <<keys, faults>>
  /\ UNCHANGED <<reader, inbox, heard, stop, sent>>

(* A dial takes a round trip, a reader on the closed socket wakes before it:
   the keeper gets this far only while the reader does not read. *)
KeeperDials ==
  /\ keeper.at = "dialling" /\ reader.at # "reading" /\ conn.key \in keys.live
  /\ Opened
  /\ UNCHANGED <<reader, keys, heard, stop, faults, sent>>

KeeperDialFails ==
  /\ keeper.at = "dialling" /\ Fault
  /\ \E s \in {"DISCONNECTED", "CONNECTING"} : conn' = [conn EXCEPT !.state = s]
  /\ keeper' = [at |-> "resting", redials |-> keeper.redials + 1]
  /\ UNCHANGED <<reader, keys, inbox, heard, stop, sent>>

-------------------------------------------------------------------------------
(* The exchange, the network and the process around them. *)

Updates == UNION {[1..n -> StreamSymbols] : n \in 0..2}
Messages(n) ==
  {[kind |-> "order", n |-> n, update |-> <<>>], [kind |-> "reply", n |-> n, update |-> <<>>]}
  \cup {[kind |-> "account", n |-> n, update |-> u] : u \in Updates}

Arrives ==
  /\ conn.socket = "open" /\ sent < MaxMessages /\ sent' = sent + 1
  /\ \E m \in Messages(sent + 1) : inbox' = Append(inbox, m)
  /\ UNCHANGED <<reader, conn, keeper, keys, heard, stop, faults>>

KeyExpires ==
  /\ conn.socket = "open" /\ conn.key \in keys.live /\ Fault
  /\ keys' = [keys EXCEPT !.live = @ \ {conn.key}]
  /\ inbox' = Append(inbox, [kind |-> "listenKeyExpired", n |-> 0, update |-> <<>>])
  /\ UNCHANGED <<reader, conn, keeper, heard, stop, sent>>

SocketDrops ==
  /\ conn.socket = "open" /\ Fault
  /\ conn' = [conn EXCEPT !.socket = "dropped"]
  /\ UNCHANGED <<reader, keeper, keys, inbox, heard, stop, sent>>

(* A signal or the bridge's thread event; bridge_shutdown_from_threading_event polls it. *)
StopAsked == /\ stop = "no" /\ stop' = "asked"
             /\ UNCHANGED <<reader, conn, keeper, keys, inbox, heard, faults, sent>>
BridgeShutdown == /\ stop = "asked" /\ stop' = "set"
                  /\ UNCHANGED <<reader, conn, keeper, keys, inbox, heard, faults, sent>>

(* The feed ends or the duration is reached, with no signal. *)
TradingLeaves == /\ stop = "no" /\ stop' = "left"
                 /\ UNCHANGED <<reader, conn, keeper, keys, inbox, heard, faults, sent>>

USNext ==
  \/ Attempt \/ AttemptFails \/ Dials \/ DialFails \/ Redials \/ Receives \/ StreamEnds
  \/ BacksOff \/ Closes \/ KeeperParts \/ HangsUp \/ Canceled
  \/ KeepsAlive \/ KeepaliveFails \/ KeeperCreates \/ KeeperDials \/ KeeperDialFails
  \/ Arrives \/ KeyExpires \/ SocketDrops \/ StopAsked \/ BridgeShutdown \/ TradingLeaves

USSpec == USInit /\ [][USNext]_usVars

-------------------------------------------------------------------------------
(* What the two tasks share; the messages in the socket and the ones heard are data. *)
ReadersAt(places) == [at : places, attempt : Nat, redials : Nat, then : {"next", "over"}, canceled : BOOLEAN]
Readers == ReadersAt({"next", "dialling", "reading", "redialling", "resting", "backoff", "closing",
                      "parting", "hanging", "over"})
Connectors == [state : {"DISCONNECTED", "CONNECTING", "CONNECTED", "RECONNECTING", "CLOSED"},
               closed : BOOLEAN, key : Nat, socket : {"none", "open", "dropped"}]
Keepers == [at : {"none", "sleeping", "closing", "dialling", "resting", "done"}, redials : Nat]
KeyRings == [made : Nat, live : SUBSET Nat, deleted : SUBSET Nat]

StreamTypeOK ==
  /\ reader \in Readers /\ conn \in Connectors /\ keeper \in Keepers /\ keys \in KeyRings
  /\ stop \in {"no", "asked", "set", "left"} /\ faults \in 0..MaxFaults /\ sent \in 0..MaxMessages

(* "Close the connection and clean up resources": once the loop is over nothing of
   it runs on.  The keeper is through, even in the middle of its own reconnect; no
   socket is open, and the key the connector held last was given back or its
   deletion tried, unless the one cancel fell on close() while it hung up. *)
NothingLeftRunning ==
  reader.at = "over" =>
    /\ keeper.at \in {"none", "done"}
    /\ \/ conn.socket # "open" /\ (conn.key = 0 \/ conn.key \in keys.deleted)
       \/ conn.closed /\ conn.state # "CLOSED" /\ reader.canceled

(* What ADR-041 promises of the stream ("Auto-reconnect: exponential backoff on
   transient errors", "listenKeyExpired: log warning, trigger reconnect"): while
   nobody asked to stop, the loop ends only when its attempts are used up. *)
StreamComesBack ==
  reader.at = "over" => stop \in {"set", "left"} \/ reader.attempt = MaxRestarts
===============================================================================
