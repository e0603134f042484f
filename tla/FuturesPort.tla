------------------------------ MODULE FuturesPort ------------------------------
(***************************************************************************)
(* execution/binance_futures_port.py over net/measured_sync.py: the one    *)
(* synchronous client through which every order and every account          *)
(* snapshot passes.  What hangs on it: a cancel must name the symbol the   *)
(* order was placed with, although all the caller has is the client order  *)
(* id (reconcile/identity.py), which carries no more than a token of the   *)
(* symbol and may stem from an earlier life with another whitelist.        *)
(*                                                                         *)
(* A request may be executed and its answer lost, be repeated by the       *)
(* client, or be executed when the port has long given it up.              *)
(***************************************************************************)
EXTENDS Naturals, FiniteSets

CONSTANTS
  OrderIds,       \* client order ids, each given to one order
  OwnIds,         \* those that this port generates
  Symbols, Ascii, \* what the venue trades; the symbols made of A-Z0-9
  Tokens,         \* what an id may carry in place of a symbol
  Begins,         \* the tokens that the full token of a symbol begins with
  NoName,        \* no id, no symbol
  Setups,         \* configurations: mode, symbol_whitelist ({} for none), mainnet or not
  MaxOrdersPerRun,
  MaxAttempts,    \* HttpRetryPolicy.max_attempts; 1 when retries are not enabled
  MaxBoots,       \* bound on the lives of the process
  MaxLate         \* bound on requests that are executed after their time

Modes == {"read_only", "dry", "live"}

\* A symbol of A-Z0-9 is its own token; the tokens cut from the hash of another symbol
\* are no symbols and tell symbols apart.
ASSUME PortAssumption ==
  /\ OwnIds \subseteq OrderIds /\ Ascii \subseteq Symbols /\ Symbols \cap Tokens = Ascii /\ NoName \notin OrderIds \cup Symbols \cup Tokens
  /\ Begins \in [Symbols -> SUBSET Tokens]
  /\ \A s \in Symbols \ Ascii :
       Begins[s] \cap Ascii = {} /\ \A u \in Symbols \ (Ascii \cup {s}) : Begins[s] \cap Begins[u] = {}
  /\ Setups \subseteq [mode : Modes, whitelist : SUBSET Symbols, mainnet : BOOLEAN]
  /\ {MaxOrdersPerRun, MaxAttempts, MaxBoots, MaxLate} \subseteq Nat

VARIABLES
  boots, setup,   \* lives so far; the port's configuration, or Down
  known,          \* _cid_symbol_map
  placed,         \* _orders_this_run
  venueOrder,     \* the orders of the venue, with what their ids carry
  request,        \* the request the port waits for
  late,           \* requests given up that the venue may still execute
  strayed,        \* orders executed late, or again after they were filled or gone
  answer          \* the snapshot or the unknown order that the last call reported

portVars == <<boots, setup, known, placed, venueOrder, request, late, strayed, answer>>

Down == [mode |-> "down", whitelist |-> {}, mainnet |-> FALSE]
Unsent == [state |-> "unsent", symbol |-> NoName, token |-> NoName, legacy |-> FALSE, filled |-> FALSE]
NoRequest == [op |-> "none", id |-> NoName, symbol |-> NoName, tries |-> 0, replacing |-> FALSE, counted |-> {}]
Ask(op, c, s) == [NoRequest EXCEPT !.op = op, !.id = c, !.symbol = s]
NoAnswer == [kind |-> "none"]

PortInit ==
  /\ boots = 0 /\ setup = Down
  /\ known = [c \in OrderIds |-> NoName] /\ placed = 0
  /\ venueOrder = [c \in OrderIds |-> Unsent]
  /\ request = NoRequest /\ late = {} /\ strayed = {} /\ answer = NoAnswer

-----------------------------------------------------------------------------
\* The process.

\* __post_init__ of the configuration: the mainnet wants every grant.
MainnetGrants == {"allow_mainnet", "ALLOW_MAINNET_TRADE", "max_notional_per_order"}
Acceptable(c, grants) == c.mainnet => grants = MainnetGrants /\ c.whitelist # {}

BootPort ==
  /\ setup = Down /\ boots < MaxBoots /\ boots' = boots + 1
  /\ \E c \in Setups, grants \in SUBSET MainnetGrants : Acceptable(c, grants) /\ setup' = c
  /\ UNCHANGED <<known, placed, venueOrder, request, late, strayed, answer>>

\* A request on its way when the process dies may be executed or not.
GivenUp(r) == IF r.op \in {"place", "market", "cancel"} /\ Cardinality(late) < MaxLate THEN {{}, {r}} ELSE {{}}

KillPort ==
  /\ setup # Down /\ setup' = Down
  /\ known' = [c \in OrderIds |-> NoName] /\ placed' = 0
  /\ \E lost \in GivenUp(request) : late' = late \cup lost
  /\ request' = NoRequest /\ answer' = NoAnswer
  /\ UNCHANGED <<boots, venueOrder, strayed>>

-----------------------------------------------------------------------------
\* Ids and symbols.

\* normalize_symbol_for_cid, cut to what the id has room for
TokensFor(s) == IF s \in Ascii THEN {s} ELSE Begins[s]

Matches(s, t) == IF s \in Ascii THEN t = s ELSE t \in Begins[s]

\* _resolve_symbol_for_order_id: what is registered, or what the id says of it.
FromTokenOrFirst(t) == IF t \notin setup.whitelist /\ setup.whitelist # {} THEN CHOOSE s \in setup.whitelist : TRUE ELSE t
FromToken(t) ==
  IF t \notin setup.whitelist /\ \E s \in setup.whitelist : Matches(s, t)
  THEN CHOOSE s \in setup.whitelist : Matches(s, t) ELSE t
Resolved(c) == IF known[c] # NoName THEN known[c] ELSE FromToken(venueOrder[c].token)

\* An id that neither is registered nor parses cannot be cancelled.
Resolvable(c) == known[c] # NoName \/ venueOrder[c].token # NoName

\* A match with the whitelist that is no equality is remembered.
RememberMatch(c) ==
  known' = IF venueOrder[c].token # NoName /\ Resolved(c) # venueOrder[c].token
           THEN [known EXCEPT ![c] = Resolved(c)] ELSE known

-----------------------------------------------------------------------------
\* The calls, up to the request; one that the port refuses itself changes nothing.

\* The caller is one thread.
CallPort == setup # Down /\ request = NoRequest
MayWrite == CallPort /\ setup.mode # "read_only"
WhitelistHas(s) == setup.whitelist = {} \/ s \in setup.whitelist

\* In a dry run nothing is sent.
SendOrNot(r) ==
  request' = (IF setup.mode = "live" THEN r ELSE NoRequest) /\ answer' = NoAnswer

NewOrder(s, t) == [Unsent EXCEPT !.state = "sent", !.symbol = s, !.token = t]

SendOrder(op, c, s) ==
  /\ MayWrite /\ WhitelistHas(s) /\ c \in OwnIds /\ venueOrder[c] = Unsent
  /\ SendOrNot(Ask(op, c, s))
  /\ \E t \in TokensFor(s) :
       venueOrder' = IF setup.mode = "live" THEN [venueOrder EXCEPT ![c] = NewOrder(s, t)] ELSE venueOrder
  /\ UNCHANGED <<boots, setup, known, late, strayed>>

PlaceLimit(c, s) == SendOrder("place", c, s) /\ placed < MaxOrdersPerRun /\ placed' = placed + 1

\* place_market_order does not count.
PlaceMarket(c, s) == SendOrder("market", c, s) /\ UNCHANGED placed

CancelAsk(c) == Ask("cancel", c, Resolved(c))

CancelByClientId(c) ==
  /\ MayWrite /\ venueOrder[c] # Unsent /\ Resolvable(c) /\ WhitelistHas(Resolved(c))
  /\ RememberMatch(c) /\ SendOrNot(CancelAsk(c))
  /\ UNCHANGED <<boots, setup, placed, venueOrder, late, strayed>>

\* cancel_order_by_binance_id: the caller has id and symbol from the same answer.
CancelById(c) ==
  /\ MayWrite /\ venueOrder[c].state \notin {"unsent", "sent"} /\ WhitelistHas(venueOrder[c].symbol)
  /\ SendOrNot(Ask("cancel", c, venueOrder[c].symbol))
  /\ UNCHANGED <<boots, setup, known, placed, venueOrder, late, strayed>>

CancelSymbol(s) ==
  /\ MayWrite /\ WhitelistHas(s) /\ SendOrNot(Ask("cancel_all", NoName, s))
  /\ UNCHANGED <<boots, setup, known, placed, venueOrder, late, strayed>>

\* fetch_account_snapshot asks for the positions first; a dry run shows nothing.
FetchSnapshot ==
  /\ CallPort
  /\ IF setup.mode = "dry"
     THEN request' = NoRequest /\ answer' = [kind |-> "snapshot", orders |-> {}, counted |-> {}]
     ELSE request' = Ask("positions", NoName, NoName) /\ answer' = NoAnswer
  /\ UNCHANGED <<boots, setup, known, placed, venueOrder, late, strayed>>

\* replace_order cancels, then places a new order under the same symbol; it takes only
\* ids of the old format, whose second part is an ASCII symbol.
ReplaceOrder(c) ==
  /\ MayWrite /\ venueOrder[c].legacy /\ WhitelistHas(Resolved(c))
  /\ IF setup.mode = "live" THEN UNCHANGED placed ELSE placed < MaxOrdersPerRun /\ placed' = placed + 1
  /\ SendOrNot([CancelAsk(c) EXCEPT !.replacing = TRUE])
  /\ UNCHANGED <<boots, setup, known, venueOrder, late, strayed>>

-----------------------------------------------------------------------------
\* The venue.

Resting == {c \in OrderIds : venueOrder[c].state = "resting"}

\* What a request changes; an id may be used again once no order rests under it.
Touched(r) ==
  CASE r.op \in {"place", "market"} -> {r.id} \ Resting
    [] r.op = "cancel" -> {c \in Resting : c = r.id /\ venueOrder[c].symbol = r.symbol}
    [] r.op = "cancel_all" -> {c \in Resting : venueOrder[c].symbol = r.symbol}
    [] OTHER -> {}

Becomes(r) == CASE r.op = "place" -> "resting" [] r.op = "market" -> "filled" [] OTHER -> "gone"
Executed(r) ==
  [c \in OrderIds |-> IF c \in Touched(r)
                      THEN [venueOrder[c] EXCEPT !.state = Becomes(r), !.filled = @ \/ r.op = "market"]
                      ELSE venueOrder[c]]

\* Orders that the request brings to life a second time.
Again(r) == {c \in Touched(r) : r.op \in {"place", "market"} /\ venueOrder[c].state # "sent"}

\* Fills, expiries and orders of others: of an earlier version of the program, or by
\* hand under an id that does not parse.
OrderSettles(c, state) ==
  /\ c \in Resting /\ venueOrder' = [venueOrder EXCEPT ![c].state = state, ![c].filled = @ \/ state = "filled"]
  /\ UNCHANGED <<boots, setup, known, placed, request, late, strayed, answer>>

AppearsAt(c, s, legacy) ==
  /\ c \notin OwnIds /\ venueOrder[c] = Unsent /\ (legacy => s \in Ascii)
  /\ venueOrder' = [venueOrder EXCEPT ![c] =
       [state |-> "resting", symbol |-> s, token |-> IF legacy THEN s ELSE NoName, legacy |-> legacy, filled |-> FALSE]]
  /\ UNCHANGED <<boots, setup, known, placed, request, late, strayed, answer>>

LandLate(r) ==
  /\ late' = late \ {r} /\ venueOrder' = Executed(r)
  /\ strayed' = IF r.op = "cancel" THEN strayed ELSE strayed \cup Touched(r)
  /\ UNCHANGED <<boots, setup, known, placed, request, answer>>

-----------------------------------------------------------------------------
\* The answer.

Writes == {"place", "market", "cancel", "cancel_all"}

\* -2011 says that no such order rests under this symbol, other refusals say less.
VenueSays(r) ==
  IF r.op = "cancel_all" \/ Touched(r) # {} THEN "ok"
  ELSE IF r.op = "cancel" /\ r.symbol \in Symbols THEN "unknown" ELSE "refused"

Return(kind) ==
  /\ request' = NoRequest /\ answer' = IF kind = "unknown" THEN [kind |-> kind, id |-> request.id] ELSE NoAnswer
  /\ known' = IF kind = "ok" /\ request.op \in {"place", "market"}
              THEN [known EXCEPT ![request.id] = request.symbol] ELSE known
  /\ UNCHANGED placed

\* The second half of replace_order, which suppresses that the cancel was refused.
PlaceAnother(orders) ==
  IF placed < MaxOrdersPerRun /\ \E n \in OwnIds : venueOrder[n] = Unsent
  THEN /\ placed' = placed + 1 /\ UNCHANGED <<known, answer>>
       /\ \E n \in OwnIds :
            /\ venueOrder[n] = Unsent
            /\ venueOrder' = [orders EXCEPT ![n] = NewOrder(request.symbol, request.symbol)]
            /\ request' = Ask("place", n, request.symbol)
  ELSE venueOrder' = orders /\ Return("refused")

EndCall(kind, orders) ==
  IF request.replacing /\ kind # "transient" THEN PlaceAnother(orders)
  ELSE venueOrder' = orders /\ Return(kind)

Answered ==
  /\ request.op \in Writes
  /\ EndCall(VenueSays(request), Executed(request)) /\ strayed' = strayed \cup Again(request)
  /\ UNCHANGED <<boots, setup, late>>

\* Other answers than 2xx that no client repeats; map_binance_error makes -1099..-1000
\* a transient error.
Rejected ==
  /\ request # NoRequest
  /\ \E kind \in {"transient", "refused"} : EndCall(kind, venueOrder)
  /\ UNCHANGED <<boots, setup, late, strayed>>

\* _measured_request: a timeout, no connection, 429 or 5xx, or a connection that breaks;
\* executed, or not, or later.  The last is no transient error, and is repeated only if
\* its text says so.
Failed ==
  /\ request # NoRequest
  /\ \E done \in BOOLEAN, lost \in GivenUp(request) :
       LET orders == IF done THEN Executed(request) ELSE venueOrder
       IN  /\ strayed' = IF done THEN strayed \cup Again(request) ELSE strayed
           /\ (done => lost = {}) /\ late' = late \cup lost
           /\ \/ request.tries + 1 < MaxAttempts /\ request' = [request EXCEPT !.tries = @ + 1]
                 /\ venueOrder' = orders /\ UNCHANGED <<known, placed, answer>>
              \/ request.tries + 1 >= MaxAttempts /\ EndCall("transient", orders)
              \/ EndCall("refused", orders)
  /\ UNCHANGED <<boots, setup>>

Filled == {c \in OrderIds : venueOrder[c].filled}

PositionsFirst(r) == [Ask("orders", NoName, NoName) EXCEPT !.counted = Filled]

AnswerPositions ==
  /\ request.op = "positions" /\ request' = PositionsFirst(request)
  /\ UNCHANGED <<boots, setup, known, placed, venueOrder, late, strayed, answer>>

\* The engine registers what the snapshot shows and parses.
AnswerOrders ==
  /\ request.op = "orders" /\ request' = NoRequest
  /\ answer' = [kind |-> "snapshot", orders |-> Resting, counted |-> request.counted]
  /\ known' = [c \in OrderIds |-> IF c \in Resting /\ venueOrder[c].token # NoName
                                  THEN venueOrder[c].symbol ELSE known[c]]
  /\ UNCHANGED <<boots, setup, placed, venueOrder, late, strayed>>

PortNext ==
  \/ BootPort \/ KillPort \/ FetchSnapshot
  \/ \E c \in OrderIds, s \in Symbols :
       PlaceLimit(c, s) \/ PlaceMarket(c, s) \/ \E legacy \in BOOLEAN : AppearsAt(c, s, legacy)
  \/ \E c \in OrderIds : CancelByClientId(c) \/ CancelById(c) \/ ReplaceOrder(c)
                         \/ OrderSettles(c, "filled") \/ OrderSettles(c, "gone")
  \/ \E s \in Symbols : CancelSymbol(s)
  \/ \E r \in late : LandLate(r)
  \/ Answered \/ Rejected \/ Failed \/ AnswerPositions \/ AnswerOrders

PortSpec == PortInit /\ [][PortNext]_portVars

-----------------------------------------------------------------------------
\* A cancel names the symbol its order was placed with, or what is no symbol at all, so
\* that -2011 is never said of an order that rests elsewhere.
CancelNamesItsOrder ==
  request.op = "cancel" => request.symbol = venueOrder[request.id].symbol \/ request.symbol \notin Symbols

\* An order a caller was told is unknown does not rest, unless its placement was executed
\* after the port had given it up or once more.
UnknownMeansGone ==
  answer.kind = "unknown" => answer.id \notin Resting \/ answer.id \in strayed

\* A snapshot never shows an order as resting whose fill is in its positions already.
NeverCountedTwice ==
  answer.kind = "snapshot" => answer.orders \cap answer.counted \subseteq strayed

\* On the mainnet no order, and no cancel, names a symbol outside the whitelist.
MainnetIsFenced == setup.mainnet /\ request.op \in Writes => request.symbol \in setup.whitelist

\* What callers may rely on, whatever is lost, repeated or late and across restarts
\* under other whitelists.
PortIsTruthful == CancelNamesItsOrder /\ UnknownMeansGone /\ NeverCountedTwice /\ MainnetIsFenced
=============================================================================
