----------------------------- MODULE MarketFeed -----------------------------
(***************************************************************************)
(* The market data of live/feed.py: LiveFeedRunner.run dials the venue     *)
(* through connectors/live_connector.py and connectors/binance_ws.py,      *)
(* hands each tick to its consumer, dials again when the socket is lost,   *)
(* and closes behind itself, while LiveFeedRunner.stop may close the       *)
(* connector at any await of the other.  Every await is a step of its own: *)
(* between two of them the other coroutine may have closed.                *)
(***************************************************************************)
EXTENDS Integers

CONSTANTS
  ConnectTries,   \* retry_policy.max_attempts of the connector
  RedialTries,    \* retry.max_retries of the socket
  TickTimes       \* bound: the receive times of the ticks, on a wall clock that may step back

FeedAssumption == ConnectTries \in Nat \ {0} /\ RedialTries \in Nat \ {0} /\ TickTimes \subseteq Nat
ASSUME FeedAssumption

VARIABLES
  at,        \* where LiveFeedRunner.run awaits
  tries,     \* attempts made of the present connect or reconnect
  conn,      \* LiveConnectorV0._state
  ws,        \* BinanceWsConnector: _state, and _closed
  socket,    \* WebsocketsTransport._ws
  orphans,   \* open sockets that the transport no longer refers to
  lastSeen,  \* BinanceWsConnector._last_seen_ts, -1 for none
  feeding,   \* LiveFeed._running
  stopper,   \* how far LiveFeedRunner.stop is
  handed,    \* the time of the last update the consumer was given, -1 for none
  slips      \* what a later property has to allow for: see SocketsAreShut

feedVars == <<at, tries, conn, ws, socket, orphans, lastSeen, feeding, stopper, handed, slips>>
line == <<ws, socket, orphans, slips>>
talk == <<lastSeen, feeding, handed>>

Stations == {"idle", "dialing", "subscribing", "joining", "backoff", "looping", "receiving", "serving",
             "reclosing", "redialing", "resubscribing", "rebackoff", "leaving", "closing", "over"}
ConnStates == {"disconnected", "connecting", "connected", "reconnecting", "closed"}

FeedInit ==
  /\ at = "idle" /\ tries = 0
  /\ conn = "disconnected" /\ ws = [state |-> "disconnected", closed |-> FALSE]
  /\ socket = "none" /\ orphans = 0 /\ lastSeen = -1 /\ feeding = FALSE
  /\ stopper = "none" /\ handed = -1 /\ slips = {}

-----------------------------------------------------------------------------
\* The transport and the socket.

\* websockets.connect returns: what the transport held before is not closed.
Opens ==
  /\ socket' = "open"
  /\ orphans' = IF socket = "open" THEN orphans + 1 ELSE orphans

\* The state of the socket alone changes.
WsIs(state) == ws' = [ws EXCEPT !.state = state]

-----------------------------------------------------------------------------
\* LiveConnectorV0.connect: retry_with_policy(_do_connect).

\* An attempt on a connector that was closed meanwhile is refused, and not retried.
Attempts ==
  IF ws.closed
  THEN /\ at' = "leaving" /\ conn' = "disconnected" /\ UNCHANGED ws
  ELSE /\ at' = "dialing" /\ WsIs("connecting") /\ UNCHANGED conn

Start ==
  /\ at = "idle"
  /\ at' = "dialing" /\ conn' = "connecting" /\ WsIs("connecting")
  /\ UNCHANGED <<tries, socket, orphans, slips, stopper>> /\ UNCHANGED talk

\* A transient error or a timeout is retried until the attempts are used up.
Retries ==
  IF tries + 1 < ConnectTries
  THEN at' = "backoff" /\ tries' = tries + 1 /\ UNCHANGED conn
  ELSE at' = "leaving" /\ conn' = "disconnected" /\ UNCHANGED tries

Dials ==
  /\ at = "dialing"
  /\ \/ Opens /\ at' = "subscribing" /\ UNCHANGED <<tries, conn, ws>>
     \/ \* refused, or timed out: by the inner wait or by the outer one
        /\ Retries /\ UNCHANGED <<socket, orphans>>
        /\ \E state \in {"disconnected", ws.state} : WsIs(state)
  /\ UNCHANGED <<stopper, slips>> /\ UNCHANGED talk

\* A subscription that fails or takes too long leaves the socket as it is.
Subscribes ==
  /\ at = "subscribing"
  /\ \/ socket = "open" /\ at' = "joining" /\ WsIs("connected") /\ UNCHANGED <<tries, conn, slips>>
     \/ /\ Retries /\ slips' = slips \cup {"subscription"}
        /\ \E state \in {"disconnected", ws.state} : WsIs(state)
  /\ UNCHANGED <<socket, orphans, stopper>> /\ UNCHANGED talk

RetriesConnect ==
  /\ at = "backoff" /\ Attempts
  /\ UNCHANGED <<tries, socket, orphans, slips, stopper>> /\ UNCHANGED talk

\* wait_for_with_op returns, the connector is connected whatever became of it meanwhile,
\* and LiveFeed.run begins to read.
Joins ==
  /\ at = "joining"
  /\ conn' = "connected" /\ feeding' = TRUE
  /\ at' = IF ws.state = "connected" THEN "looping" ELSE "leaving"
  /\ UNCHANGED <<tries, stopper, lastSeen, handed>> /\ UNCHANGED line

-----------------------------------------------------------------------------
\* BinanceWsConnector.iter_snapshots, inside stream_ticks, inside LiveFeed.run.

\* reconnect refuses when closed, which ends the stream.
Reconnects ==
  IF ws.closed
  THEN at' = "leaving" /\ UNCHANGED <<ws, tries>>
  ELSE at' = "reclosing" /\ WsIs("reconnecting") /\ tries' = 0

\* ... or a stop during the first connect would be overlooked ("while True").
StopsReadingNever == FALSE
StopsReading == ws.closed
Loops ==
  /\ at = "looping"
  /\ IF StopsReading THEN at' = "leaving" /\ UNCHANGED <<ws, tries>>
     ELSE IF socket # "open" THEN Reconnects
     ELSE at' = "receiving" /\ UNCHANGED <<ws, tries>>
  /\ UNCHANGED <<conn, socket, orphans, slips, stopper>> /\ UNCHANGED talk

\* A tick not newer than the last one is skipped; stream_ticks drops one that comes after
\* the connector was closed, and LiveFeed.run one that comes after stop; the update of an
\* unwanted symbol, or one that cannot be computed, is left out.
IsNews(ts) == ts > lastSeen
Serves == conn # "closed"
Receives(ts, wanted) ==
  /\ at = "receiving" /\ socket = "open"
  /\ IF ~IsNews(ts) THEN at' = "looping" /\ UNCHANGED <<lastSeen, handed>>
     ELSE /\ lastSeen' = ts
          /\ IF ~Serves \/ ~feeding THEN at' = "leaving" /\ UNCHANGED handed
             ELSE IF wanted THEN at' = "serving" /\ handed' = ts
             ELSE at' = "looping" /\ UNCHANGED handed
  /\ UNCHANGED <<tries, conn, feeding, stopper>> /\ UNCHANGED line

\* Other messages than ticks are passed over.
ReceivesOther ==
  /\ at = "receiving" /\ socket = "open" /\ at' = "looping"
  /\ UNCHANGED <<tries, conn, stopper>> /\ UNCHANGED line /\ UNCHANGED talk

\* A read that times out dials again; any other failure of it ends the stream.
ReadFails ==
  /\ at = "receiving"
  /\ \/ Reconnects
     \/ socket # "open" /\ at' = "leaving" /\ UNCHANGED <<ws, tries>>
  /\ UNCHANGED <<conn, socket, orphans, slips, stopper>> /\ UNCHANGED talk

\* The consumer asks for the next update, or leaves the loop.
Consumes ==
  /\ at = "serving" /\ at' \in {"looping", "leaving"}
  /\ UNCHANGED <<tries, conn, stopper>> /\ UNCHANGED line /\ UNCHANGED talk

-----------------------------------------------------------------------------
\* BinanceWsConnector.reconnect: close the transport, connect, and again after a delay.

Recloses ==
  /\ at = "reclosing"
  /\ socket' = "none"
  /\ IF ws.closed THEN at' = "rebackoff" /\ UNCHANGED ws
     ELSE at' = "redialing" /\ WsIs("connecting")
  /\ UNCHANGED <<tries, conn, orphans, slips, stopper>> /\ UNCHANGED talk

Redials ==
  /\ at = "redialing"
  /\ \/ Opens /\ at' = "resubscribing" /\ UNCHANGED ws
     \/ at' = "rebackoff" /\ WsIs("disconnected") /\ UNCHANGED <<socket, orphans>>
  /\ UNCHANGED <<tries, conn, slips, stopper>> /\ UNCHANGED talk

Resubscribes ==
  /\ at = "resubscribing"
  /\ \/ socket = "open" /\ at' = "looping" /\ WsIs("connected")
     \/ at' = "rebackoff" /\ WsIs("disconnected")
  /\ UNCHANGED <<tries, conn, socket, orphans, slips, stopper>> /\ UNCHANGED talk

\* After the last attempt the stream ends, with or without an error.
RetriesRedial ==
  /\ at = "rebackoff"
  /\ IF tries + 1 < RedialTries
     THEN at' = "reclosing" /\ tries' = tries + 1 /\ UNCHANGED ws
     ELSE at' = "leaving" /\ WsIs("disconnected") /\ UNCHANGED tries
  /\ UNCHANGED <<conn, socket, orphans, slips, stopper>> /\ UNCHANGED talk

-----------------------------------------------------------------------------
\* LiveConnectorV0.close, at the end of run and in stop.  A close that takes too long is
\* given up, but the socket no longer counts as open.

MarksClosed == conn' = "closed" /\ ws' = [state |-> "closed", closed |-> TRUE]
AlreadyClosed == conn = "closed"

Leaves ==
  /\ at = "leaving"
  /\ IF AlreadyClosed THEN at' = "over" /\ UNCHANGED <<conn, ws>>
     ELSE MarksClosed /\ at' = "closing"
  /\ feeding' = FALSE
  /\ UNCHANGED <<tries, socket, orphans, slips, stopper, lastSeen, handed>>

Shuts ==
  /\ at = "closing" /\ at' = "over" /\ socket' = "none"
  /\ UNCHANGED <<tries, conn, ws, orphans, slips, stopper>> /\ UNCHANGED talk

AskStop ==
  /\ stopper = "none" /\ at \notin {"idle", "over"}
  /\ feeding' = FALSE
  /\ IF AlreadyClosed THEN stopper' = "done" /\ UNCHANGED <<conn, ws>>
     ELSE MarksClosed /\ stopper' = "calling"
  /\ UNCHANGED <<at, tries, socket, orphans, slips, lastSeen, handed>>

\* The transport closes the socket it holds by now, if any.
StopCloses ==
  /\ stopper = "calling"
  /\ IF socket = "none" THEN stopper' = "done" /\ UNCHANGED socket
     ELSE stopper' = "closing" /\ socket' = "closing"
  /\ slips' = IF socket = "none" /\ at = "redialing" THEN slips \cup {"redial"} ELSE slips
  /\ UNCHANGED <<at, tries, conn, ws, orphans>> /\ UNCHANGED talk

\* It forgets the socket it holds when the close is through, which may be a newer one.
StopForgets ==
  /\ stopper = "closing" /\ stopper' = "done" /\ socket' = "none"
  /\ orphans' = IF socket = "open" THEN orphans + 1 ELSE orphans
  /\ UNCHANGED <<at, tries, conn, ws, slips>> /\ UNCHANGED talk

\* The venue or the network drops the connection.
Drops ==
  /\ socket = "open" /\ socket' = "dropped"
  /\ UNCHANGED <<at, tries, conn, ws, orphans, slips, stopper>> /\ UNCHANGED talk

FeedNext ==
  \/ Start \/ Dials \/ Subscribes \/ RetriesConnect \/ Joins
  \/ Loops \/ ReceivesOther \/ ReadFails \/ Consumes
  \/ \E ts \in TickTimes, wanted \in BOOLEAN : Receives(ts, wanted)
  \/ Recloses \/ Redials \/ Resubscribes \/ RetriesRedial
  \/ Leaves \/ Shuts \/ AskStop \/ StopCloses \/ StopForgets \/ Drops

FeedSpec == FeedInit /\ [][FeedNext]_feedVars

-----------------------------------------------------------------------------
\* Properties.

FeedTypeOK ==
  /\ at \in Stations /\ tries \in Nat
  /\ conn \in ConnStates /\ ws \in [state : ConnStates, closed : BOOLEAN]
  /\ socket \in {"none", "open", "dropped", "closing"} /\ orphans \in Nat
  /\ lastSeen \in Nat \cup {-1} /\ feeding \in BOOLEAN
  /\ stopper \in {"none", "calling", "closing", "done"} /\ handed \in Nat \cup {-1}
  /\ slips \subseteq {"subscription", "redial"}

\* When the run and the stop are through, every socket that was opened is shut, with two
\* exceptions: a stop that comes while a reconnect dials finds no socket to close, and the
\* end of the run finds the connector closed already; and a connect that is repeated after
\* its subscription failed dials over the socket of the first attempt.
SocketsAreShut ==
  at = "over" /\ stopper \in {"none", "done"} =>
    /\ socket = "open" => "redial" \in slips
    /\ orphans > 0 => "subscription" \in slips

\* Whatever the clock does, however often the socket is lost and wherever the stop falls:
\* the consumer is given updates in the order of their times and none after the stop, and
\* once run and stop are through its sockets are shut (LiveFeedRunner, LiveConnectorV0.close,
\* BinanceWsConnector.reconnect).
FeedIsOrderly ==
  [][/\ handed' # handed => handed' > handed /\ stopper = "none"
     /\ SocketsAreShut']_feedVars

=============================================================================
