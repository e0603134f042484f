---------------------------- MODULE AccountProofs ----------------------------
(***************************************************************************)
(* An order that rests is never given up.  An answer of the exchange is at *)
(* most one sync old, and a placement stays in flight for two: so an order *)
(* that rests is in flight until an answer shows it, from then on every    *)
(* answer shows it, and a trusted ledger, which agreed with the last       *)
(* answer, shows it too.                                                   *)
(***************************************************************************)
EXTENDS AccountTruth, SyncReconciler, FiniteSetTheorems, TLAPS

Reported == {"open", "filled", "canceled"}
OrderStates == Reported \cup {"none"}
Flags == [boot : BOOLEAN, ok : BOOLEAN, revoked : BOOLEAN]
StreamEvents == [kind : {"order"}, cid : Cids, state : Reported, filled : Nat, ts : Nat]
                  \cup [kind : {"stock"}, amount : Int, ts : Nat]

TruthTypeOK ==
  /\ orderAt \in [Cids -> [state : OrderStates, filled : Nat, ts : Nat]]
  /\ stock \in [amount : Int, ts : Nat] /\ clock \in Nat
  /\ stream \in Seq(StreamEvents)
  /\ DOMAIN ledger = Cids
  /\ trust \in [orders : Flags, stock : Flags]
  /\ inFlight \in [DOMAIN inFlight -> Nat] /\ DOMAIN inFlight \subseteq Cids
  /\ tracked \subseteq Cids

\* What an answer shows was placed, and what an event closes no longer rests.
AnswersPlaced ==
  \A c \in Cids : c \in DOMAIN lastView.orders \cup DOMAIN cached.orders => orderAt[c].state # "none"
ClosedForGood ==
  \A n \in DOMAIN stream :
    stream[n].kind = "order" /\ stream[n].state # "open" => orderAt[stream[n].cid].state \in {"filled", "canceled"}

AnswersInCids == DOMAIN lastView.orders \subseteq Cids /\ DOMAIN cached.orders \subseteq Cids

\* An order the last answer could not show was placed after it.
AnswerLags == \A c \in Resting : c \in DOMAIN cached.orders \/ (c \in DOMAIN inFlight /\ inFlight[c] = 0)

InFlightUntilSeen == \A c \in Resting : c \in DOMAIN inFlight \/ c \in DOMAIN lastView.orders

LedgerShowsSeen == trust.orders.ok => \A c \in Resting \cap DOMAIN lastView.orders : ledger[c].open

TruthInv ==
  /\ TruthTypeOK /\ AnswersInCids /\ AnswersPlaced /\ ClosedForGood
  /\ AnswerLags /\ InFlightUntilSeen /\ LedgerShowsSeen /\ RestingIsTracked

-----------------------------------------------------------------------------
\* The types.

LEMMA TypeInit == ASSUME TruthInit PROVE TruthTypeOK
BY TruthAssumption DEF TruthInit, TruthTypeOK, Unplaced, OrderStates, Reported, Flags, StreamEvents

LEMMA OrderEventType ==
  ASSUME NEW c \in Cids, NEW state \in Reported, NEW filled \in Nat, NEW t \in Nat
  PROVE  OrderEvent(c, state, filled, t) \in StreamEvents
BY DEF OrderEvent, StreamEvents

LEMMA StockEventType ==
  ASSUME NEW amount \in Int, NEW t \in Nat
  PROVE  StockEvent(amount, t) \in StreamEvents
BY DEF StockEvent, StreamEvents

LEMMA ClockType == ASSUME clock \in Nat, Elapses PROVE clock' \in Nat
BY DEF Elapses

LEMMA PlaceType ==
  ASSUME TruthTypeOK, NEW c \in Cids, PlaceEntry(c)
  PROVE  TruthTypeOK'
<1> USE DEF TruthTypeOK
<1>1. clock' \in Nat
  BY ClockType DEF PlaceEntry
<1>2. orderAt' \in [Cids -> [state : OrderStates, filled : Nat, ts : Nat]]
  BY <1>1 DEF PlaceEntry, OrderStates, Reported
<1>3. OrderEvent(c, "open", 0, clock') \in StreamEvents
  BY <1>1, OrderEventType DEF Reported
<1>4. stream' \in Seq(StreamEvents)
  BY <1>3 DEF PlaceEntry
<1>5. inFlight' \in [DOMAIN inFlight' -> Nat] /\ DOMAIN inFlight' \subseteq Cids
  BY DEF PlaceEntry
<1>6. UNCHANGED <<stock, ledger, trust>> /\ tracked' \subseteq Cids
  BY DEF PlaceEntry
<1>7. QED
  BY <1>1, <1>2, <1>4, <1>5, <1>6

LEMMA TradesType ==
  ASSUME TruthTypeOK, NEW c \in Cids, Trades(c)
  PROVE  TruthTypeOK'
<1> USE DEF TruthTypeOK
<1> DEFINE filled == orderAt[c].filled + 1
           state == IF filled = LotSize THEN "filled" ELSE "open"
<1>1. clock' \in Nat
  BY ClockType DEF Trades
<1>2. /\ orderAt' = [orderAt EXCEPT ![c] = [state |-> state, filled |-> filled, ts |-> clock']]
      /\ stock' = [amount |-> stock.amount + (IF c \in Buys THEN 1 ELSE -1), ts |-> clock']
      /\ stream' = stream \o <<OrderEvent(c, state, filled, clock'), StockEvent(stock'.amount, clock')>>
  BY DEF Trades
<1>3. state \in Reported /\ filled \in Nat
  BY DEF Reported
<1> HIDE DEF filled, state
<1>4. orderAt' \in [Cids -> [state : OrderStates, filled : Nat, ts : Nat]]
  BY <1>1, <1>2, <1>3 DEF OrderStates
<1>5. stock' \in [amount : Int, ts : Nat]
  BY <1>1, <1>2
<1>6. /\ OrderEvent(c, state, filled, clock') \in StreamEvents
      /\ StockEvent(stock'.amount, clock') \in StreamEvents
  BY <1>1, <1>3, <1>5, OrderEventType, StockEventType
<1>7. stream' \in Seq(StreamEvents)
  BY <1>2, <1>6
<1>8. UNCHANGED <<ledger, trust, inFlight, tracked>>
  BY DEF Trades, readerSide
<1>9. QED
  BY <1>1, <1>4, <1>5, <1>7, <1>8

LEMMA WithdrawnType ==
  ASSUME TruthTypeOK, NEW c \in Cids, Withdrawn(c)
  PROVE  TruthTypeOK'
<1> USE DEF TruthTypeOK
<1>1. clock' \in Nat
  BY ClockType DEF Withdrawn
<1>2. orderAt' \in [Cids -> [state : OrderStates, filled : Nat, ts : Nat]]
  BY <1>1 DEF Withdrawn, OrderStates, Reported
<1>3. OrderEvent(c, "canceled", orderAt[c].filled, clock') \in StreamEvents
  BY <1>1, OrderEventType DEF Reported
<1>4. stream' \in Seq(StreamEvents)
  BY <1>3 DEF Withdrawn
<1>5. UNCHANGED <<stock, ledger, trust, inFlight, tracked>>
  BY DEF Withdrawn, readerSide
<1>6. QED
  BY <1>1, <1>2, <1>4, <1>5

LEMMA HearType ==
  ASSUME TruthTypeOK, HearEvent
  PROVE  TruthTypeOK'
<1> USE DEF TruthTypeOK
<1>1. Head(stream) \in StreamEvents /\ stream' \in Seq(StreamEvents)
  BY DEF HearEvent
<1>2. UNCHANGED <<orderAt, stock, clock>>
  BY DEF HearEvent, exchangeSide
<1>3. CASE Head(stream).kind = "order"
  <2>1. HearOrderEvent(Head(stream))
    BY <1>3 DEF HearEvent
  <2>2. DOMAIN ledger' = Cids /\ trust' \in [orders : Flags, stock : Flags]
    BY <2>1 DEF HearOrderEvent, Flags
  <2>3. inFlight' \in [DOMAIN inFlight' -> Nat] /\ DOMAIN inFlight' \subseteq Cids /\ tracked' \subseteq Cids
    <3>1. Head(stream).state \in Reported
      BY <1>1, <1>3 DEF StreamEvents
    <3>2. \/ UNCHANGED <<tracked, inFlight>>
          \/ Forget(Head(stream).cid)
          \/ tracked' = tracked \ {Head(stream).cid} /\ UNCHANGED inFlight
      BY <2>1, <3>1 DEF HearOrderEvent, Reported
    <3>3. CASE Forget(Head(stream).cid)
      BY <3>3 DEF Forget
    <3>4. QED
      BY <3>2, <3>3
  <2>4. QED
    BY <1>1, <1>2, <2>2, <2>3
<1>4. CASE Head(stream).kind # "order"
  <2>1. HearStockEvent(Head(stream))
    BY <1>4 DEF HearEvent
  <2>2. trust' \in [orders : Flags, stock : Flags]
    BY <2>1 DEF HearStockEvent, Flags
  <2>3. UNCHANGED <<ledger, inFlight, tracked>>
    BY <2>1 DEF HearStockEvent
  <2>4. QED
    BY <1>1, <1>2, <2>2, <2>3
<1>5. QED
  BY <1>3, <1>4

LEMMA SyncType ==
  ASSUME TruthTypeOK, NEW v, Sync(v)
  PROVE  TruthTypeOK'
<1> USE DEF TruthTypeOK
<1>1. UNCHANGED <<orderAt, stock, clock, stream>>
  BY DEF Sync, exchangeSide
<1>2. DOMAIN ledger' = Cids
  BY DEF Sync, Reconciled, RecoveredOrders
<1>3. trust' \in [orders : Flags, stock : Flags]
  BY DEF Sync, OrderTrust, StockTrust, StockAgrees, Flags
<1>4. inFlight' \in [DOMAIN inFlight' -> Nat] /\ DOMAIN inFlight' \subseteq Cids /\ tracked' \subseteq Cids
  <2>1. SettleReaders(SeenNow(ledger', trust'.orders, v))
    BY DEF Sync
  <2>2. inFlight' = StillInFlight(SeenNow(ledger', trust'.orders, v)) /\ tracked' \subseteq tracked
    BY <2>1 DEF SettleReaders
  <2>3. QED
    BY <2>2 DEF StillInFlight
<1>5. QED
  BY <1>1, <1>2, <1>3, <1>4

LEMMA TypeStep == ASSUME TruthTypeOK, [TruthNext]_truthVars PROVE TruthTypeOK'
<1>1. CASE UNCHANGED truthVars
  BY <1>1 DEF TruthTypeOK, truthVars, exchangeSide, readerSide
<1>2. CASE \E c \in Cids : PlaceEntry(c) \/ Trades(c) \/ Withdrawn(c)
  BY <1>2, PlaceType, TradesType, WithdrawnType
<1>3. CASE HearEvent
  BY <1>3, HearType
<1>4. CASE SyncFresh \/ SyncCached
  BY <1>4, SyncType DEF SyncFresh, SyncCached
<1>5. CASE LoseEvent
  BY <1>5 DEF LoseEvent, TruthTypeOK, exchangeSide, readerSide
<1>6. CASE HealthChanges
  <2>1. trust' \in [orders : Flags, stock : Flags]
    BY <1>6 DEF HealthChanges, TruthTypeOK, Flags
  <2>2. QED
    BY <1>6, <2>1 DEF HealthChanges, TruthTypeOK, exchangeSide, readerSide
<1>7. CASE DetectFills
  BY <1>7 DEF DetectFills, TruthTypeOK, exchangeSide
<1>8. CASE \E kind \in {"orders", "stock"} : FallsSilent(kind)
  BY <1>8 DEF FallsSilent, TruthTypeOK, exchangeSide, readerSide
<1>9. QED
  BY <1>1, <1>2, <1>3, <1>4, <1>5, <1>6, <1>7, <1>8 DEF TruthNext

-----------------------------------------------------------------------------
\* A sync.  What counts as seen is what its answer shows, whichever source is read.

LEMMA SeenIsShown ==
  ASSUME TruthTypeOK, NEW v, DOMAIN v.orders \subseteq Cids, Sync(v)
  PROVE  /\ SeenNow(ledger', trust'.orders, v) = DOMAIN v.orders
         /\ trust'.orders.ok => \A c \in DOMAIN v.orders : ledger'[c].open
<1>1. trust'.orders.ok = (Diverging(ledger', v) = {})
  BY DEF Sync, OrderTrust
<1>2. CASE trust'.orders.ok
  <2>1. Diverging(ledger', v) = {}
    BY <1>1, <1>2
  <2>2. \A c \in DOMAIN v.orders : ledger'[c].open
    BY <2>1 DEF Diverging
  <2>3. LedgerOpen(ledger') \subseteq DOMAIN v.orders
    BY <2>1 DEF Diverging, MissingInView
  <2>4. LedgerOpen(ledger') = DOMAIN v.orders
    BY <2>2, <2>3 DEF LedgerOpen
  <2>5. QED
    BY <2>2, <2>4 DEF SeenNow
<1>3. CASE ~trust'.orders.ok
  BY <1>3 DEF SeenNow, IsTrusted
<1>4. QED
  BY <1>2, <1>3

LEMMA SyncStep ==
  ASSUME GraceGens > 1, TruthInv, NEW v \in {TrueView, cached}, Sync(v)
  PROVE  TruthInv'
<1> USE DEF TruthInv
<1>1. TruthTypeOK'
  BY SyncType
<1>2. /\ UNCHANGED <<orderAt, stream>> /\ Resting' = Resting
      /\ cached' = TrueView /\ lastView' = v
  BY DEF Sync, exchangeSide, Resting
<1>3. DOMAIN TrueView.orders = Resting /\ Resting \subseteq Cids
  BY DEF TrueView, Resting
<1>4. AnswersInCids'
  BY <1>2, <1>3 DEF AnswersInCids
<1>5. AnswersPlaced'
  BY <1>2, <1>3 DEF AnswersPlaced, Resting
<1>6. ClosedForGood'
  BY <1>2 DEF ClosedForGood
<1>7. AnswerLags'
  BY <1>2, <1>3 DEF AnswerLags
<1>8. \A c \in Resting : c \in DOMAIN v.orders \/ (c \in DOMAIN inFlight /\ inFlight[c] = 0)
  BY <1>3 DEF AnswerLags
<1>9. DOMAIN v.orders \subseteq Cids
  BY <1>3 DEF AnswersInCids
<1>10. /\ SeenNow(ledger', trust'.orders, v) = DOMAIN v.orders
       /\ trust'.orders.ok => \A c \in DOMAIN v.orders : ledger'[c].open
  BY <1>9, SeenIsShown
<1>11. SettleReaders(DOMAIN v.orders)
  BY <1>10 DEF Sync
<1>12. DOMAIN inFlight' = {c \in DOMAIN inFlight : c \notin DOMAIN v.orders /\ inFlight[c] + 1 < GraceGens}
  BY <1>11 DEF SettleReaders, StillInFlight
<1>13. \A c \in Resting : c \in DOMAIN inFlight' \/ c \in DOMAIN v.orders
  BY <1>8, <1>12, TruthAssumption
<1>14. InFlightUntilSeen'
  BY <1>2, <1>13 DEF InFlightUntilSeen
<1>15. LedgerShowsSeen'
  BY <1>2, <1>10 DEF LedgerShowsSeen
<1>16. \A c \in Resting : c \notin absent'
  BY <1>11, <1>13 DEF SettleReaders, Gone
<1>17. RestingIsTracked'
  BY <1>2, <1>11, <1>16 DEF SettleReaders, RestingIsTracked
<1>18. QED
  BY <1>1, <1>4, <1>5, <1>6, <1>7, <1>14, <1>15, <1>17

-----------------------------------------------------------------------------
\* The exchange moves.

LEMMA PlaceStep ==
  ASSUME TruthInv, NEW c \in Cids, PlaceEntry(c)
  PROVE  TruthInv'
<1> USE DEF TruthInv
<1>1. TruthTypeOK'
  BY PlaceType
<1>2. /\ orderAt' = [orderAt EXCEPT ![c] = [state |-> "open", filled |-> 0, ts |-> clock']]
      /\ orderAt[c].state = "none"
      /\ stream' = Append(stream, OrderEvent(c, "open", 0, clock'))
      /\ tracked' = tracked \cup {c}
      /\ inFlight' = [k \in DOMAIN inFlight \cup {c} |-> IF k = c THEN 0 ELSE inFlight[k]]
      /\ UNCHANGED <<cached, ledger, trust, lastView>>
  BY DEF PlaceEntry, Unplaced
<1>3. Resting' = Resting \cup {c}
  BY <1>2 DEF Resting, TruthTypeOK
<1>4. c \notin DOMAIN lastView.orders /\ c \notin DOMAIN cached.orders
  BY <1>2 DEF AnswersPlaced
<1>5. AnswersInCids'
  BY <1>2 DEF AnswersInCids
<1>6. AnswersPlaced'
  BY <1>2 DEF AnswersPlaced, TruthTypeOK
<1>7. ClosedForGood'
  <2> SUFFICES ASSUME NEW n \in DOMAIN stream', stream'[n].kind = "order", stream'[n].state # "open"
               PROVE  orderAt'[stream'[n].cid].state \in {"filled", "canceled"}
    BY DEF ClosedForGood
  <2>1. stream \in Seq(StreamEvents) /\ OrderEvent(c, "open", 0, clock').state = "open"
    BY DEF TruthTypeOK, OrderEvent
  <2>2. n \in DOMAIN stream /\ stream'[n] = stream[n]
    BY <1>2, <2>1
  <2>3. orderAt[stream[n].cid].state \in {"filled", "canceled"}
    BY <2>2 DEF ClosedForGood
  <2>4. orderAt'[stream[n].cid] = orderAt[stream[n].cid]
    BY <1>2, <2>3
  <2>5. QED
    BY <2>2, <2>3, <2>4
<1>8. AnswerLags'
  BY <1>2, <1>3 DEF AnswerLags
<1>9. InFlightUntilSeen'
  BY <1>2, <1>3 DEF InFlightUntilSeen
<1>10. LedgerShowsSeen'
  BY <1>2, <1>3, <1>4 DEF LedgerShowsSeen
<1>11. RestingIsTracked'
  BY <1>2, <1>3 DEF RestingIsTracked
<1>12. QED
  BY <1>1, <1>5, <1>6, <1>7, <1>8, <1>9, <1>10, <1>11

\* An order that trades or is withdrawn: only its own events are added.
LEMMA ChangeStep ==
  ASSUME TruthInv, TruthTypeOK', NEW c \in Cids, orderAt[c].state = "open",
         NEW state \in {"open", "filled", "canceled"},
         \A k \in Cids \ {c} : orderAt'[k] = orderAt[k], orderAt'[c].state = state,
         \A n \in DOMAIN stream' :
           \/ n \in DOMAIN stream /\ stream'[n] = stream[n]
           \/ stream'[n].kind = "order" => stream'[n].cid = c /\ stream'[n].state = state,
         UNCHANGED <<cached, ledger, trust, lastView, inFlight, tracked>>
  PROVE  TruthInv'
<1> USE DEF TruthInv
<1>1. Resting' \subseteq Resting
  BY DEF Resting, TruthTypeOK
<1>2. AnswersInCids'
  BY DEF AnswersInCids
<1>3. AnswersPlaced'
  BY DEF AnswersPlaced
<1>4. ClosedForGood'
  <2> SUFFICES ASSUME NEW n \in DOMAIN stream', stream'[n].kind = "order", stream'[n].state # "open"
               PROVE  orderAt'[stream'[n].cid].state \in {"filled", "canceled"}
    BY DEF ClosedForGood
  <2>1. CASE n \in DOMAIN stream /\ stream'[n] = stream[n]
    <3>1. orderAt[stream[n].cid].state \in {"filled", "canceled"}
      BY <2>1 DEF ClosedForGood
    <3>2. stream[n].cid \in Cids
      <4>1. stream[n] \in StreamEvents
        BY <2>1 DEF TruthTypeOK
      <4>2. QED
        BY <2>1, <4>1 DEF StreamEvents
    <3>3. stream[n].cid # c
      BY <3>1
    <3>4. QED
      BY <2>1, <3>1, <3>2, <3>3
  <2>2. CASE stream'[n].cid = c /\ stream'[n].state = state
    BY <2>2
  <2>3. QED
    BY <2>1, <2>2
<1>5. AnswerLags' /\ InFlightUntilSeen' /\ RestingIsTracked'
  BY <1>1 DEF AnswerLags, InFlightUntilSeen, RestingIsTracked
<1>6. LedgerShowsSeen'
  BY <1>1 DEF LedgerShowsSeen
<1>7. QED
  BY <1>2, <1>3, <1>4, <1>5, <1>6

LEMMA TradesStep ==
  ASSUME TruthInv, NEW c \in Cids, Trades(c)
  PROVE  TruthInv'
<1> DEFINE filled == orderAt[c].filled + 1
           state == IF filled = LotSize THEN "filled" ELSE "open"
<1>1. /\ orderAt' = [orderAt EXCEPT ![c] = [state |-> state, filled |-> filled, ts |-> clock']]
      /\ stream' = stream \o <<OrderEvent(c, state, filled, clock'), StockEvent(stock'.amount, clock')>>
      /\ orderAt[c].state = "open"
  BY DEF Trades
<1>2. UNCHANGED <<cached, ledger, trust, lastView, inFlight, tracked>>
  BY DEF Trades, readerSide
<1>3. state \in {"open", "filled", "canceled"}
  OBVIOUS
<1>4. TruthTypeOK'
  BY TradesType DEF TruthInv
<1> HIDE DEF filled, state
<1>5. (\A k \in Cids \ {c} : orderAt'[k] = orderAt[k]) /\ orderAt'[c].state = state
  BY <1>1 DEF TruthInv, TruthTypeOK
<1>6. \A n \in DOMAIN stream' :
        \/ n \in DOMAIN stream /\ stream'[n] = stream[n]
        \/ stream'[n].kind = "order" => stream'[n].cid = c /\ stream'[n].state = state
  <2>1. stream \in Seq(StreamEvents)
    BY DEF TruthInv, TruthTypeOK
  <2>2. /\ OrderEvent(c, state, filled, clock').cid = c /\ OrderEvent(c, state, filled, clock').state = state
        /\ StockEvent(stock'.amount, clock').kind = "stock"
    BY DEF OrderEvent, StockEvent
  <2>3. QED
    BY <1>1, <2>1, <2>2
<1>7. QED
  BY <1>1, <1>2, <1>3, <1>4, <1>5, <1>6, ChangeStep

LEMMA WithdrawnStep ==
  ASSUME TruthInv, NEW c \in Cids, Withdrawn(c)
  PROVE  TruthInv'
<1>1. /\ orderAt' = [orderAt EXCEPT ![c].state = "canceled", ![c].ts = clock']
      /\ stream' = Append(stream, OrderEvent(c, "canceled", orderAt[c].filled, clock'))
      /\ orderAt[c].state = "open"
  BY DEF Withdrawn
<1>2. UNCHANGED <<cached, ledger, trust, lastView, inFlight, tracked>>
  BY DEF Withdrawn, readerSide
<1>3. TruthTypeOK'
  BY WithdrawnType DEF TruthInv
<1>4. (\A k \in Cids \ {c} : orderAt'[k] = orderAt[k]) /\ orderAt'[c].state = "canceled"
  BY <1>1 DEF TruthInv, TruthTypeOK
<1>5. \A n \in DOMAIN stream' :
        \/ n \in DOMAIN stream /\ stream'[n] = stream[n]
        \/ stream'[n].kind = "order" => stream'[n].cid = c /\ stream'[n].state = "canceled"
  BY <1>1 DEF TruthInv, TruthTypeOK, OrderEvent
<1>6. QED
  BY <1>1, <1>2, <1>3, <1>4, <1>5, ChangeStep

-----------------------------------------------------------------------------
\* The engine listens and reads.

LEMMA HearStep ==
  ASSUME TruthInv, HearEvent
  PROVE  TruthInv'
<1> USE DEF TruthInv
<1> DEFINE e == Head(stream)
<1>1. TruthTypeOK'
  BY HearType
<1>2. UNCHANGED <<orderAt, cached, lastView>> /\ Resting' = Resting
  BY DEF HearEvent, exchangeSide, Resting
<1>3. stream # <<>> /\ stream' = Tail(stream) /\ stream \in Seq(StreamEvents)
  BY DEF HearEvent, TruthTypeOK
<1>4. e \in StreamEvents /\ e = stream[1] /\ 1 \in DOMAIN stream
  BY <1>3
<1>5. AnswersInCids' /\ AnswersPlaced'
  BY <1>2 DEF AnswersInCids, AnswersPlaced
<1>6. ClosedForGood'
  <2>1. \A n \in DOMAIN stream' : n + 1 \in DOMAIN stream /\ stream'[n] = stream[n + 1]
    BY <1>3
  <2>2. QED
    BY <1>2, <2>1 DEF ClosedForGood
<1> HIDE DEF e
<1>7. CASE e.kind = "order"
  <2>1. HearOrderEvent(e)
    BY <1>7 DEF HearEvent, e
  <2>2. e.cid \in Cids
    BY <1>4, <1>7 DEF StreamEvents
  <2>3. /\ ledger' = [ledger EXCEPT ![e.cid] = AppliedOrder(@, e)]
        /\ trust'.orders.ok = trust.orders.ok
    BY <2>1 DEF HearOrderEvent, TruthTypeOK, Flags
  <2>4. CASE e.state = "open"
    <3>1. UNCHANGED <<tracked, inFlight>>
      BY <2>1, <2>4 DEF HearOrderEvent
    <3>2. \A c \in Cids : ledger[c].open => ledger'[c].open
      BY <2>3, <2>4 DEF AppliedOrder, TruthTypeOK
    <3>3. AnswerLags' /\ InFlightUntilSeen' /\ RestingIsTracked'
      BY <1>2, <3>1 DEF AnswerLags, InFlightUntilSeen, RestingIsTracked
    <3>4. LedgerShowsSeen'
      BY <1>2, <2>3, <3>2 DEF LedgerShowsSeen, Resting
    <3>5. QED
      BY <1>1, <1>5, <1>6, <3>3, <3>4
  <2>5. CASE e.state # "open"
    <3>1. e.cid \notin Resting
      BY <1>4, <1>7, <2>5 DEF ClosedForGood, Resting
    <3>2. /\ tracked \ {e.cid} \subseteq tracked'
          /\ DOMAIN inFlight \ {e.cid} \subseteq DOMAIN inFlight'
          /\ \A c \in DOMAIN inFlight \ {e.cid} : inFlight'[c] = inFlight[c]
      BY <1>4, <1>7, <2>1, <2>5 DEF HearOrderEvent, Forget, StreamEvents, Reported
    <3>3. \A c \in Resting : ledger'[c] = ledger[c]
      BY <2>3, <3>1
    <3>4. AnswerLags' /\ InFlightUntilSeen' /\ RestingIsTracked'
      BY <1>2, <3>1, <3>2 DEF AnswerLags, InFlightUntilSeen, RestingIsTracked
    <3>5. LedgerShowsSeen'
      BY <1>2, <2>3, <3>3 DEF LedgerShowsSeen
    <3>6. QED
      BY <1>1, <1>5, <1>6, <3>4, <3>5
  <2>6. QED
    BY <2>4, <2>5
<1>8. CASE e.kind # "order"
  <2>1. HearStockEvent(e)
    BY <1>8 DEF HearEvent, e
  <2>2. UNCHANGED <<ledger, tracked, inFlight>> /\ trust'.orders = trust.orders
    BY <2>1 DEF HearStockEvent, TruthTypeOK
  <2>3. AnswerLags' /\ InFlightUntilSeen' /\ RestingIsTracked' /\ LedgerShowsSeen'
    BY <1>2, <2>2 DEF AnswerLags, InFlightUntilSeen, RestingIsTracked, LedgerShowsSeen
  <2>4. QED
    BY <1>1, <1>5, <1>6, <2>3
<1>9. QED
  BY <1>7, <1>8

LEMMA DetectStep ==
  ASSUME TruthInv, DetectFills
  PROVE  TruthInv'
<1> USE DEF TruthInv
<1>1. UNCHANGED <<orderAt, cached, stream, ledger, trust, lastView, inFlight>> /\ Resting' = Resting
  BY DEF DetectFills, exchangeSide, Resting
<1>2. tracked' = tracked \ TakenForFilled
  BY DEF DetectFills
<1>3. \A c \in Resting : c \notin TakenForFilled
  <2> SUFFICES ASSUME NEW c \in Resting, c \notin DOMAIN inFlight PROVE c \in Visible
    BY DEF TakenForFilled
  <2>1. c \in DOMAIN lastView.orders /\ c \in Cids
    BY DEF InFlightUntilSeen, Resting
  <2>2. trust.orders.ok => ledger[c].open
    BY <2>1 DEF LedgerShowsSeen
  <2>3. QED
    BY <2>1, <2>2 DEF Visible, IsTrusted, LedgerOpen
<1>4. TruthTypeOK'
  BY TypeStep DEF TruthNext
<1>5. QED
  BY <1>1, <1>2, <1>3, <1>4 DEF AnswersInCids, AnswersPlaced, ClosedForGood, AnswerLags, InFlightUntilSeen,
                                LedgerShowsSeen, RestingIsTracked

LEMMA UntouchedStep ==
  ASSUME TruthInv, TruthTypeOK', UNCHANGED <<orderAt, cached, ledger, lastView, readerSide>>,
         trust'.orders.ok = trust.orders.ok,
         \A n \in DOMAIN stream' : \E m \in DOMAIN stream : stream'[n] = stream[m]
  PROVE  TruthInv'
<1> USE DEF TruthInv
<1>1. Resting' = Resting /\ UNCHANGED <<tracked, inFlight>>
  BY DEF Resting, readerSide
<1>2. ClosedForGood'
  BY DEF ClosedForGood
<1>3. QED
  BY <1>1, <1>2 DEF AnswersInCids, AnswersPlaced, AnswerLags, InFlightUntilSeen, LedgerShowsSeen, RestingIsTracked

LEMMA TruthStep ==
  ASSUME GraceGens > 1, TruthInv, [TruthNext]_truthVars
  PROVE  TruthInv'
<1>0. TruthTypeOK'
  BY TypeStep DEF TruthInv
<1>1. CASE UNCHANGED truthVars
  BY <1>0, <1>1, UntouchedStep DEF truthVars, exchangeSide
<1>2. CASE \E c \in Cids : PlaceEntry(c) \/ Trades(c) \/ Withdrawn(c)
  BY <1>2, PlaceStep, TradesStep, WithdrawnStep
<1>3. CASE HearEvent
  BY <1>3, HearStep
<1>4. CASE SyncFresh
  BY <1>4, SyncStep DEF SyncFresh
<1>5. CASE SyncCached
  BY <1>5, SyncStep DEF SyncCached
<1>6. CASE LoseEvent
  <2>1. stream \in Seq(StreamEvents) /\ stream # <<>> /\ stream' = Tail(stream)
    BY <1>6 DEF LoseEvent, TruthInv, TruthTypeOK
  <2>2. \A n \in DOMAIN stream' : n + 1 \in DOMAIN stream /\ stream'[n] = stream[n + 1]
    BY <2>1
  <2>3. UNCHANGED <<orderAt, cached, ledger, trust, lastView, readerSide>>
    BY <1>6 DEF LoseEvent, exchangeSide
  <2>4. QED
    BY <1>0, <2>2, <2>3, UntouchedStep
<1>7. CASE HealthChanges
  <2>1. trust'.orders.ok = trust.orders.ok
    BY <1>7 DEF HealthChanges, TruthInv, TruthTypeOK, Flags
  <2>2. UNCHANGED <<orderAt, cached, ledger, stream, lastView, readerSide>>
    BY <1>7 DEF HealthChanges, exchangeSide
  <2>3. QED
    BY <1>0, <2>1, <2>2, UntouchedStep
<1>8. CASE DetectFills
  BY <1>8, DetectStep
<1>9. CASE \E kind \in {"orders", "stock"} : FallsSilent(kind)
  <2>1. UNCHANGED <<orderAt, cached, ledger, stream, trust, lastView, readerSide>>
    BY <1>9 DEF FallsSilent, exchangeSide
  <2>2. QED
    BY <1>0, <2>1, UntouchedStep
<1>10. QED
  BY <1>1, <1>2, <1>3, <1>4, <1>5, <1>6, <1>7, <1>8, <1>9 DEF TruthNext

\* An order that rests on the exchange is never given up (event_ledger.py, and the readers
\* in engine.py): taken for filled by DetectFills or cleaned by Sync.  A placement has to
\* be in flight for two syncs at least; the code keeps it for four.
THEOREM RestingStaysTracked ==
  ASSUME GraceGens > 1
  PROVE  TruthSpec => []RestingIsTracked
<1>1. TruthInit => TruthInv
  <2> SUFFICES ASSUME TruthInit PROVE TruthInv
    OBVIOUS
  <2>1. Resting = {} /\ stream = <<>> /\ DOMAIN EmptyView.orders = {}
    BY DEF TruthInit, Resting, Unplaced, EmptyView
  <2>2. QED
    BY <2>1, TypeInit DEF TruthInit, TruthInv, AnswersInCids, AnswersPlaced, ClosedForGood, AnswerLags,
                          InFlightUntilSeen, LedgerShowsSeen, RestingIsTracked
<1>2. TruthInv /\ [TruthNext]_truthVars => TruthInv'
  BY TruthStep
<1>3. TruthInv => RestingIsTracked
  BY DEF TruthInv
<1>4. QED
  BY <1>1, <1>2, <1>3, PTL DEF TruthSpec

-----------------------------------------------------------------------------
\* The reconciler's orderings.  Ranked lists the members of a finite set: every rank is
\* held by one of them.

StrictOrder(before, S) ==
  /\ \A x \in S : <<x, x>> \notin before
  /\ \A x, y, z \in S : <<x, y>> \in before /\ <<y, z>> \in before => <<x, z>> \in before
  /\ \A x, y \in S : x # y => <<x, y>> \in before \/ <<y, x>> \in before

RankHeld(before, S, n) == \E x \in S : Cardinality({y \in S : <<y, x>> \in before}) = n

LEMMA EveryRankHeld ==
  ASSUME NEW S, IsFiniteSet(S), NEW before, StrictOrder(before, S), NEW n \in 0..(Cardinality(S) - 1)
  PROVE  RankHeld(before, S, n)
<1> USE DEF StrictOrder
<1> DEFINE Below(x) == {y \in S : <<y, x>> \in before}
           size == Cardinality(S)
           rank == [x \in S |-> Cardinality(Below(x))]
<1>1. size \in Nat
  BY FS_CardinalityType
<1>2. \A x \in S : IsFiniteSet(Below(x)) /\ Cardinality(Below(x)) \in 0..(size - 1)
  <2> TAKE x \in S
  <2>1. Below(x) \in SUBSET S /\ Below(x) # S
    OBVIOUS
  <2>2. IsFiniteSet(Below(x)) /\ Cardinality(Below(x)) <= size /\ Cardinality(Below(x)) # size
    BY <2>1, FS_Subset
  <2>3. Cardinality(Below(x)) \in Nat
    BY <2>2, FS_CardinalityType
  <2>4. QED
    BY <1>1, <2>2, <2>3
<1>3. \A x, y \in S : <<x, y>> \in before => Cardinality(Below(x)) # Cardinality(Below(y))
  <2> SUFFICES ASSUME NEW x \in S, NEW y \in S, <<x, y>> \in before
               PROVE  Cardinality(Below(x)) # Cardinality(Below(y))
    OBVIOUS
  <2>1. Below(x) \in SUBSET Below(y) /\ x \in Below(y) /\ x \notin Below(x)
    OBVIOUS
  <2>2. Below(x) # Below(y)
    BY <2>1
  <2>3. QED
    BY <1>2, <2>1, <2>2, FS_Subset
<1>4. rank \in [S -> 0..(size - 1)]
  BY <1>2
<1>5. \A x, y \in S : rank[x] = rank[y] => x = y
  <2> SUFFICES ASSUME NEW x \in S, NEW y \in S, x # y PROVE rank[x] # rank[y]
    OBVIOUS
  <2>1. rank[x] = Cardinality(Below(x)) /\ rank[y] = Cardinality(Below(y))
    OBVIOUS
  <2> HIDE DEF Below, rank
  <2>2. <<x, y>> \in before \/ <<y, x>> \in before
    OBVIOUS
  <2>3. QED
    BY <1>3, <2>1, <2>2
<1> HIDE DEF rank
<1>6. rank \in Injection(S, 0..(size - 1))
  BY <1>4, <1>5, Zenon DEF Injection, IsInjective
<1>7. IsFiniteSet(0..(size - 1)) /\ Cardinality(0..(size - 1)) = size
  <2>1. 0 \in Int /\ size - 1 \in Int
    BY <1>1
  <2>2. IsFiniteSet(0..(size - 1)) /\ Cardinality(0..(size - 1)) = IF 0 > size - 1 THEN 0 ELSE size - 1 - 0 + 1
    BY <2>1, FS_Interval
  <2>3. QED
    BY <1>1, <2>2
<1>8. rank \in Surjection(S, 0..(size - 1))
  BY <1>6, <1>7, FS_Injection
<1>9. \E x \in S : rank[x] = n
  BY <1>8 DEF Surjection
<1>10. QED
  BY <1>9 DEF rank, RankHeld

LEMMA IdsInOrder ==
  ASSUME NEW S \in SUBSET Nat, IsFiniteSet(S)
  PROVE  /\ Ranked(S, <) \in Seq(S) /\ Len(Ranked(S, <)) = Cardinality(S)
         /\ \A i, j \in 1..Cardinality(S) : Ranked(S, <)[i] = Ranked(S, <)[j] => i = j
<1> DEFINE before == {p \in S \X S : p[1] < p[2]}
           size == Cardinality(S)
           Member(i) == CHOOSE x \in S : Cardinality({y \in S : y < x}) = i - 1
           listed == [i \in 1..size |-> Member(i)]
<1>1. size \in Nat
  BY FS_CardinalityType
<1>2. ASSUME NEW i \in 1..size
      PROVE  Member(i) \in S /\ Cardinality({y \in S : y < Member(i)}) = i - 1
  <2>1. i - 1 \in 0..(size - 1)
    BY <1>1, <1>2
  <2>2. StrictOrder(before, S)
    BY DEF StrictOrder
  <2>3. \A x \in S : {y \in S : <<y, x>> \in before} = {y \in S : y < x}
    OBVIOUS
  <2> HIDE DEF before
  <2>4. RankHeld(before, S, i - 1)
    BY <2>1, <2>2, EveryRankHeld
  <2>5. \E x \in S : Cardinality({y \in S : y < x}) = i - 1
    BY <2>3, <2>4 DEF RankHeld
  <2>6. QED
    BY <2>5
<1>3. Ranked(S, <) = listed
  BY DEF Ranked
<1> HIDE DEF Member
<1>4. \A i, j \in 1..size : Member(i) = Member(j) => i = j
  <2> SUFFICES ASSUME NEW i \in 1..size, NEW j \in 1..size, Member(i) = Member(j) PROVE i = j
    OBVIOUS
  <2>1. i - 1 = j - 1
    BY <1>2
  <2>2. QED
    BY <1>1, <2>1
<1>5. \A i \in 1..size : Member(i) \in S
  BY <1>2
<1>6. listed \in Seq(S) /\ Len(listed) = size /\ \A i \in 1..size : listed[i] = Member(i)
  BY <1>1, <1>5
<1> HIDE DEF listed
<1>7. \A i, j \in 1..size : listed[i] = listed[j] => i = j
  BY <1>4, <1>6
<1>8. QED
  BY <1>3, <1>6, <1>7

Slots == {Flat, Buy, Sell} \X Int

LEMMA SlotsInOrder ==
  ASSUME NEW S \in SUBSET Slots, IsFiniteSet(S)
  PROVE  /\ InOrder(S) \in Seq(S) /\ Len(InOrder(S)) = Cardinality(S)
         /\ \A i, j \in 1..Cardinality(S) : InOrder(S)[i] = InOrder(S)[j] => i = j
<1> DEFINE Before(k, l) == k[1] < l[1] \/ (k[1] = l[1] /\ k[2] < l[2])
           before == {p \in S \X S : Before(p[1], p[2])}
           size == Cardinality(S)
           Member(i) == CHOOSE x \in S : Cardinality({y \in S : Before(y, x)}) = i - 1
<1>1. size \in Nat
  BY FS_CardinalityType
<1>2. ASSUME NEW i \in 1..size
      PROVE  Member(i) \in S /\ Cardinality({y \in S : Before(y, Member(i))}) = i - 1
  <2>1. i - 1 \in 0..(size - 1)
    BY <1>1, <1>2
  <2>2. \A x \in S : x[1] \in Int /\ x[2] \in Int /\ x = <<x[1], x[2]>>
    BY DEF Slots, Flat, Buy, Sell
  <2>3. \A x \in S : <<x, x>> \notin before
    BY <2>2
  <2>4. \A x, y, z \in S : <<x, y>> \in before /\ <<y, z>> \in before => <<x, z>> \in before
    BY <2>2
  <2>5. \A x, y \in S : x # y => <<x, y>> \in before \/ <<y, x>> \in before
    BY <2>2
  <2>6. \A x \in S : {y \in S : <<y, x>> \in before} = {y \in S : Before(y, x)}
    OBVIOUS
  <2> HIDE DEF before
  <2>7. StrictOrder(before, S)
    BY <2>3, <2>4, <2>5 DEF StrictOrder
  <2>8. RankHeld(before, S, i - 1)
    BY <2>1, <2>7, EveryRankHeld
  <2>10. \E x \in S : Cardinality({y \in S : Before(y, x)}) = i - 1
    BY <2>6, <2>8 DEF RankHeld
  <2> HIDE DEF Before
  <2>9. QED
    BY <2>10
<1>3. InOrder(S) = [i \in 1..size |-> Member(i)]
  BY DEF InOrder, Ranked
<1> HIDE DEF Member
<1>4. \A i, j \in 1..size : Member(i) = Member(j) => i = j
  <2> SUFFICES ASSUME NEW i \in 1..size, NEW j \in 1..size, Member(i) = Member(j) PROVE i = j
    OBVIOUS
  <2>1. i - 1 = j - 1
    BY <1>2
  <2>2. QED
    BY <1>1, <2>1
<1> DEFINE listed == [i \in 1..size |-> Member(i)]
<1>9. \A i \in 1..size : Member(i) \in S
  BY <1>2
<1>5. listed \in Seq(S) /\ Len(listed) = size /\ \A i \in 1..size : listed[i] = Member(i)
  BY <1>1, <1>9
<1> HIDE DEF listed
<1>6. InOrder(S) = listed
  BY <1>3 DEF listed
<1>7. \A i, j \in 1..size : listed[i] = listed[j] => i = j
  BY <1>4, <1>5
<1>8. QED
  BY <1>5, <1>6, <1>7

-----------------------------------------------------------------------------
\* What the reconciler asks for: slots that are free, each once; and ids nobody uses.

ReconcilerTypeOK ==
  /\ machine \in [mode : {Flat, Buy, Sell}, ref : Int, lots : Int, exits : SUBSET OrderIds]
  /\ book \in [DOMAIN book -> Slots] /\ DOMAIN book \subseteq OrderIds
  /\ shown \in [DOMAIN shown -> Slots] /\ DOMAIN shown \subseteq OrderIds
  /\ registered \in [DOMAIN registered -> Slots] /\ DOMAIN registered \subseteq OrderIds
  /\ staged \in [cancels : SUBSET OrderIds, places : Seq(OrderIds \X Slots), mode : {Flat, Buy, Sell}, filled : BOOLEAN]

LEMMA LadderFinite ==
  ASSUME NEW side \in {Buy, Sell}, NEW ref \in Int
  PROVE  Ladder(side, ref) \subseteq Slots /\ IsFiniteSet(Ladder(side, ref))
<1> DEFINE rung == [i \in 1..Levels |-> <<side, IF side = Buy THEN ref - Step * i ELSE ref + Step * i>>]
<1>1. Levels \in Int /\ 1 \in Int /\ Step \in Int
  BY ReconcilerAssumption
<1>2. IsFiniteSet(1..Levels)
  BY <1>1, FS_Interval
<1>3. rung \in Surjection(1..Levels, Ladder(side, ref))
  BY DEF Surjection, Ladder
<1> HIDE DEF rung
<1>4. IsFiniteSet(Ladder(side, ref))
  BY <1>2, <1>3, FS_Surjection
<1>5. Ladder(side, ref) \subseteq Slots
  <2>1. \A i \in 1..Levels : Step * i \in Int
    BY <1>1
  <2>2. QED
    BY <2>1 DEF Ladder, Slots
<1>6. QED
  BY <1>4, <1>5

LEMMA GapsFinite ==
  ASSUME NEW slots \in SUBSET Slots, IsFiniteSet(slots)
  PROVE  Gaps(slots) \subseteq Slots /\ IsFiniteSet(Gaps(slots))
<1> DEFINE Beyond(k, l) == IF k[1] = Buy THEN l[2] < k[2] ELSE l[2] > k[2]
           Next(k) == {l \in slots : l[1] = k[1] /\ Beyond(k, l)}
           edges == {k \in slots : Next(k) # {} /\ \A l \in Next(k) : Distance(k[2], l[2]) > Step + Slack}
           hole == [k \in edges |-> <<k[1], IF k[1] = Buy THEN k[2] - Step ELSE k[2] + Step>>]
<1>1. IsFiniteSet(edges) /\ edges \subseteq slots
  BY FS_Subset
<1>2. Gaps(slots) = {hole[k] : k \in edges}
  BY DEF Gaps
<1> HIDE DEF edges
<1>3. Gaps(slots) \subseteq Slots
  BY <1>1, <1>2, ReconcilerAssumption DEF Slots
<1>4. hole \in Surjection(edges, Gaps(slots))
  BY <1>2 DEF Surjection
<1> HIDE DEF hole
<1>5. QED
  BY <1>1, <1>3, <1>4, FS_Surjection

LEMMA EffectiveFinite ==
  ASSUME NEW m \in [mode : {Flat, Buy, Sell}, ref : Int, lots : Int, exits : SUBSET OrderIds],
         NEW slots \in SUBSET Slots, IsFiniteSet(slots)
  PROVE  Effective(m, slots) \subseteq Slots /\ IsFiniteSet(Effective(m, slots))
<1>1. Theoretical(m) \subseteq Ladder(Buy, m.ref) \cup Ladder(Sell, m.ref)
  BY DEF Theoretical, Nearest
<1>2. /\ Ladder(Buy, m.ref) \subseteq Slots /\ IsFiniteSet(Ladder(Buy, m.ref))
      /\ Ladder(Sell, m.ref) \subseteq Slots /\ IsFiniteSet(Ladder(Sell, m.ref))
  BY LadderFinite
<1>3. IsFiniteSet(Ladder(Buy, m.ref) \cup Ladder(Sell, m.ref))
  BY <1>2, FS_Union
<1>4. IsFiniteSet(Theoretical(m))
  BY <1>1, <1>3, FS_Subset
<1>5. Gaps(slots) \subseteq Slots /\ IsFiniteSet(Gaps(slots))
  BY GapsFinite
<1>6. IsFiniteSet(Theoretical(m) \cup Gaps(slots))
  BY <1>4, <1>5, FS_Union
<1>7. Effective(m, slots) \subseteq Theoretical(m) \cup Gaps(slots)
  BY DEF Effective, Nearest
<1>8. QED
  BY <1>1, <1>2, <1>5, <1>6, <1>7, FS_Subset

LEMMA TakeFacts ==
  ASSUME NEW T, NEW seq \in Seq(T), NEW n \in Int
  PROVE  /\ Take(n, seq) \in Seq(T) /\ Len(Take(n, seq)) <= Len(seq)
         /\ \A j \in 1..Len(Take(n, seq)) : Take(n, seq)[j] = seq[j]
<1> DEFINE m == Min({n, Len(seq)})
<1>1. m \in Int /\ m <= Len(seq)
  <2>1. \E x \in {n, Len(seq)} : \A y \in {n, Len(seq)} : x <= y
    OBVIOUS
  <2>2. QED
    BY <2>1 DEF Min
<1>2. Take(n, seq) = SubSeq(seq, 1, m)
  BY DEF Take
<1> HIDE DEF m
<1>3. CASE m >= 1
  <2>1. m \in 1..Len(seq)
    BY <1>1, <1>3
  <2>2. /\ SubSeq(seq, 1, m) \in Seq(T) /\ Len(SubSeq(seq, 1, m)) = m
        /\ \A j \in 1..m : SubSeq(seq, 1, m)[j] = seq[j]
    BY <2>1
  <2>3. QED
    BY <1>1, <1>2, <2>2
<1>4. CASE m < 1
  <2>1. SubSeq(seq, 1, m) = << >>
    BY <1>1, <1>4
  <2>2. << >> \in Seq(T) /\ Len(<< >>) = 0 /\ Len(seq) \in Nat
    OBVIOUS
  <2>3. Take(n, seq) = << >>
    BY <1>2, <2>1
  <2>4. QED
    BY <2>2, <2>3
<1>5. QED
  BY <1>1, <1>3, <1>4

Distinct(seq) == \A i, j \in 1..Len(seq) : seq[i] = seq[j] => i = j

LEMMA PlacesFacts ==
  ASSUME NEW diff, diff.missing \subseteq Slots, IsFiniteSet(diff.missing), NEW pairs, NEW placing, NEW room \in Int
  PROVE  /\ Places(diff, pairs, placing, room) \in Seq({k \in diff.missing : MayPlace(k)})
         /\ Distinct(Places(diff, pairs, placing, room))
<1> DEFINE paired == {p[2] : p \in pairs}
           open == {k \in diff.missing \ SlotsOf(placing) : MayPlace(k)}
           first == InOrder(open \ paired)
           then == InOrder(open \cap paired)
           all == first \o then
<1>1. /\ open \ paired \in SUBSET Slots /\ IsFiniteSet(open \ paired)
      /\ open \cap paired \in SUBSET Slots /\ IsFiniteSet(open \cap paired)
      /\ open \subseteq {k \in diff.missing : MayPlace(k)}
  <2>1. open \ paired \in SUBSET diff.missing /\ open \cap paired \in SUBSET diff.missing
    OBVIOUS
  <2>2. QED
    BY <2>1, FS_Subset
<1>2. Places(diff, pairs, placing, room) = Take(room, all)
  BY DEF Places
<1> HIDE DEF open, paired
<1>3. first \in Seq(open \ paired) /\ Distinct(first)
  BY <1>1, SlotsInOrder DEF Distinct
<1>4. then \in Seq(open \cap paired) /\ Distinct(then)
  BY <1>1, SlotsInOrder DEF Distinct
<1> HIDE DEF first, then
<1>5. first \in Seq(open) /\ then \in Seq(open)
  BY <1>3, <1>4
<1>6. all \in Seq(open)
  BY <1>5
<1>7. \A i, j \in 1..Len(all) : all[i] = all[j] => i = j
  <2> SUFFICES ASSUME NEW i \in 1..Len(all), NEW j \in 1..Len(all), all[i] = all[j] PROVE i = j
    OBVIOUS
  <2>1. /\ i <= Len(first) => i \in 1..Len(first) /\ all[i] = first[i]
        /\ i > Len(first) => i - Len(first) \in 1..Len(then) /\ all[i] = then[i - Len(first)]
    BY <1>5
  <2>2. /\ j <= Len(first) => j \in 1..Len(first) /\ all[j] = first[j]
        /\ j > Len(first) => j - Len(first) \in 1..Len(then) /\ all[j] = then[j - Len(first)]
    BY <1>5
  <2>3. (\A l \in 1..Len(first) : first[l] \notin paired) /\ (\A l \in 1..Len(then) : then[l] \in paired)
    BY <1>3, <1>4
  <2> HIDE DEF all
  <2>4. CASE i <= Len(first) /\ j <= Len(first)
    BY <1>3, <2>1, <2>2, <2>4 DEF Distinct
  <2>5. CASE i > Len(first) /\ j > Len(first)
    <3>1. i - Len(first) = j - Len(first)
      BY <1>4, <2>1, <2>2, <2>5 DEF Distinct
    <3>2. Len(first) \in Int
      BY <1>5
    <3>3. QED
      BY <3>1, <3>2
  <2>6. Len(first) \in Int
    BY <1>5
  <2>7. QED
    BY <2>1, <2>2, <2>3, <2>4, <2>5, <2>6
<1> HIDE DEF all
<1>8. /\ Take(room, all) \in Seq(open) /\ Len(Take(room, all)) <= Len(all)
      /\ \A j \in 1..Len(Take(room, all)) : Take(room, all)[j] = all[j]
  BY <1>6, TakeFacts
<1>9. Distinct(Take(room, all))
  BY <1>6, <1>7, <1>8 DEF Distinct
<1>10. QED
  BY <1>1, <1>2, <1>8, <1>9

LEMMA OrdersAtFacts ==
  ASSUME NEW b, b \in [DOMAIN b -> Slots], NEW slots, slots \subseteq {b[i] : i \in Entries(b)}, IsFiniteSet(slots)
  PROVE  OrdersAt(b, slots) \in Seq(DOMAIN b)
<1>1. slots \in SUBSET Slots
  BY DEF Entries
<1>2. Cardinality(slots) \in Nat
  BY FS_CardinalityType
<1>3. \A j \in 1..Cardinality(slots) : InOrder(slots)[j] \in slots
  BY <1>1, <1>2, SlotsInOrder
<1>4. \A k \in slots : OrderAt(b, k) \in DOMAIN b
  BY DEF OrderAt, Entries
<1>5. QED
  BY <1>2, <1>3, <1>4 DEF OrdersAt

LEMMA CancelsFacts ==
  ASSUME NEW b, b \in [DOMAIN b -> Slots], DOMAIN b \subseteq OrderIds,
         NEW diff, diff.extra \subseteq {b[i] : i \in Entries(b)}, IsFiniteSet(diff.extra),
         NEW pairs, NEW stray \in SUBSET DOMAIN b, NEW placing
  PROVE  Cancels(b, diff, pairs, stray, placing) \in Seq(DOMAIN b)
<1> DEFINE offGrid == {p[1] : p \in pairs}
           replaced == {x \in diff.extra : \E p \in pairs : p[1] = x /\ p[2] \notin SlotsOf(placing)}
<1> DEFINE first == Ranked(stray, <)
<1>1. first \in Seq(DOMAIN b)
  <2>1. stray \in SUBSET OrderIds /\ OrderIds \in SUBSET Nat /\ IsFiniteSet(OrderIds)
    BY ReconcilerAssumption
  <2>2. stray \in SUBSET Nat /\ IsFiniteSet(stray)
    BY <2>1, FS_Subset
  <2>3. first \in Seq(stray)
    BY <2>2, IdsInOrder
  <2> HIDE DEF first
  <2>4. QED
    BY <2>3
<1>2. OrdersAt(b, diff.extra \ offGrid) \in Seq(DOMAIN b)
  <2>1. diff.extra \ offGrid \in SUBSET diff.extra
    OBVIOUS
  <2>2. IsFiniteSet(diff.extra \ offGrid)
    BY <2>1, FS_Subset
  <2>3. QED
    BY <2>1, <2>2, OrdersAtFacts
<1>3. OrdersAt(b, replaced) \in Seq(DOMAIN b)
  <2>1. replaced \in SUBSET diff.extra
    OBVIOUS
  <2>2. IsFiniteSet(replaced)
    BY <2>1, FS_Subset
  <2>3. QED
    BY <2>1, <2>2, OrdersAtFacts
<1>4. Cancels(b, diff, pairs, stray, placing) =
        Take(MaxActions, first \o OrdersAt(b, diff.extra \ offGrid) \o OrdersAt(b, replaced))
  BY DEF Cancels
<1> HIDE DEF first
<1>5. first \o OrdersAt(b, diff.extra \ offGrid) \o OrdersAt(b, replaced) \in Seq(DOMAIN b)
  BY <1>1, <1>2, <1>3
<1>6. MaxActions \in Int
  BY ReconcilerAssumption
<1>7. QED
  BY <1>4, <1>5, <1>6, TakeFacts

LEMMA NewIdsFacts ==
  ASSUME NEW n \in Nat, HasIds(n)
  PROVE  NewIds(n) \in Seq(FreeIds) /\ Len(NewIds(n)) = n /\ Distinct(NewIds(n))
<1>1. FreeIds \in SUBSET Nat /\ IsFiniteSet(FreeIds)
  <2>1. FreeIds \in SUBSET OrderIds /\ OrderIds \in SUBSET Nat /\ IsFiniteSet(OrderIds)
    BY ReconcilerAssumption DEF FreeIds
  <2>2. QED
    BY <2>1, FS_Subset
<1>2. Cardinality(FreeIds) \in Nat /\ n <= Cardinality(FreeIds)
  BY <1>1, FS_CardinalityType DEF HasIds
<1> DEFINE listed == Ranked(FreeIds, <)
<1>3. /\ listed \in Seq(FreeIds) /\ Len(listed) = Cardinality(FreeIds)
      /\ \A i, j \in 1..Cardinality(FreeIds) : listed[i] = listed[j] => i = j
  BY <1>1, IdsInOrder
<1>4. NewIds(n) = SubSeq(listed, 1, n)
  BY DEF NewIds
<1> HIDE DEF listed
<1>5. SubSeq(listed, 1, n) \in Seq(FreeIds) /\ Len(SubSeq(listed, 1, n)) = n
  BY <1>2, <1>3
<1>6. \A j \in 1..n : SubSeq(listed, 1, n)[j] = listed[j]
  BY <1>2, <1>3
<1>7. QED
  BY <1>2, <1>3, <1>4, <1>5, <1>6 DEF Distinct

-----------------------------------------------------------------------------
\* The registry holds every slot once, and every entry that rests or is staged.

SlotsHeldOnce == \A i, j \in DOMAIN registered : registered[i] = registered[j] => i = j

RestingRegistered == \A i \in Entries(book) : i \in DOMAIN registered /\ registered[i] = book[i]

StagedRegistered ==
  \A n \in DOMAIN staged.places :
    LET p == staged.places[n]
    IN  /\ p[1] \in DOMAIN registered /\ registered[p[1]] = p[2]
        /\ p[1] \notin DOMAIN book \cup DOMAIN shown \cup DOMAIN pendingCancels

\* What is being cancelled was in an answer, and stays in it as long as it rests.
CancelsShow == staged.cancels \cup (DOMAIN pendingCancels \cap Entries(book)) \subseteq DOMAIN shown

ReconcilerInv ==
  /\ ReconcilerTypeOK /\ SlotsHeldOnce /\ RestingRegistered /\ StagedRegistered /\ CancelsShow

LEMMA RegisteringFacts ==
  ASSUME ReconcilerInv, NEW slots, slots \in Seq({k \in Slots : MayPlace(k)}), Distinct(slots), HasIds(Len(slots))
  PROVE  LET places == Materialized(slots)
             after == Registering(places)
         IN  /\ places \in Seq(FreeIds \X Slots)
             /\ after \in [DOMAIN after -> Slots] /\ DOMAIN after \subseteq OrderIds
             /\ \A i \in DOMAIN registered : i \in DOMAIN after /\ after[i] = registered[i]
             /\ \A n \in DOMAIN places : places[n][1] \in DOMAIN after /\ after[places[n][1]] = places[n][2]
             /\ \A i, j \in DOMAIN after : after[i] = after[j] => i = j
<1> DEFINE places == Materialized(slots)
           after == Registering(places)
           ids == NewIds(Len(slots))
           count == Len(slots)
           NumberOf(i) == CHOOSE n \in DOMAIN places : places[n][1] = i
<1>1. count \in Nat /\ \A n \in 1..count : slots[n] \in Slots /\ MayPlace(slots[n])
  OBVIOUS
<1>2. ids \in Seq(FreeIds) /\ Len(ids) = count /\ Distinct(ids)
  BY <1>1, NewIdsFacts
<1>3. FreeIds \subseteq OrderIds /\ \A i \in FreeIds : i \notin DOMAIN registered
  BY DEF FreeIds
<1>4. places = [n \in 1..count |-> <<ids[n], slots[n]>>]
  BY DEF Materialized
<1> HIDE DEF ids, count
<1>5. /\ places \in Seq(FreeIds \X Slots) /\ DOMAIN places = 1..count
      /\ \A n \in 1..count : /\ places[n][1] = ids[n] /\ places[n][2] = slots[n]
                             /\ ids[n] \in FreeIds
  <2>1. \A n \in 1..count : ids[n] \in FreeIds /\ slots[n] \in Slots
    BY <1>1, <1>2
  <2>2. [n \in 1..count |-> <<ids[n], slots[n]>>] \in Seq(FreeIds \X Slots)
    BY <1>1, <2>1
  <2>3. DOMAIN [n \in 1..count |-> <<ids[n], slots[n]>>] = 1..count
    OBVIOUS
  <2> HIDE DEF places
  <2>4. places \in Seq(FreeIds \X Slots) /\ DOMAIN places = 1..count
    BY <1>4, <2>2, <2>3
  <2>5. \A n \in 1..count : places[n] = <<ids[n], slots[n]>>
    BY <1>4
  <2>6. QED
    BY <2>1, <2>4, <2>5
<1>6. after = [i \in DOMAIN registered \cup {places[n][1] : n \in DOMAIN places} |->
                 IF i \in DOMAIN registered THEN registered[i] ELSE places[NumberOf(i)][2]]
  BY DEF Registering
<1>7. \A n \in 1..count : NumberOf(places[n][1]) = n
  <2> SUFFICES ASSUME NEW n \in 1..count PROVE NumberOf(places[n][1]) = n
    OBVIOUS
  <2> HIDE DEF places
  <2>1. \A m \in DOMAIN places : places[m][1] = places[n][1] => m = n
    BY <1>2, <1>5 DEF Distinct
  <2>2. n \in DOMAIN places
    BY <1>5
  <2>3. QED
    BY <2>1, <2>2
<1> HIDE DEF places, NumberOf, after
<1>8. DOMAIN after = DOMAIN registered \cup {places[n][1] : n \in DOMAIN places}
  BY <1>6
<1>9. \A i \in DOMAIN registered : i \in DOMAIN after /\ after[i] = registered[i]
  BY <1>6, <1>8
<1>10. \A n \in 1..count : /\ ids[n] \in DOMAIN after /\ after[ids[n]] = slots[n] /\ ids[n] \notin DOMAIN registered
  <2> SUFFICES ASSUME NEW n \in 1..count
               PROVE  ids[n] \in DOMAIN after /\ after[ids[n]] = slots[n] /\ ids[n] \notin DOMAIN registered
    OBVIOUS
  <2>1. ids[n] = places[n][1] /\ n \in DOMAIN places
    BY <1>5
  <2>2. ids[n] \in DOMAIN after
    BY <1>8, <2>1
  <2>3. ids[n] \notin DOMAIN registered
    BY <1>3, <1>5
  <2>4. after[ids[n]] = places[NumberOf(ids[n])][2]
    BY <1>6, <1>8, <2>2, <2>3
  <2>5. NumberOf(ids[n]) = n
    BY <1>7, <2>1
  <2>6. QED
    BY <1>5, <2>2, <2>3, <2>4, <2>5
<1>11. \A i \in DOMAIN after : i \in DOMAIN registered \/ \E n \in 1..count : i = ids[n]
  BY <1>5, <1>8
<1>12. registered \in [DOMAIN registered -> Slots] /\ DOMAIN registered \subseteq OrderIds
  BY DEF ReconcilerInv, ReconcilerTypeOK
<1>13. \A i \in DOMAIN after : after[i] \in Slots /\ i \in OrderIds
  BY <1>1, <1>3, <1>5, <1>9, <1>10, <1>11, <1>12
<1>14. after \in [DOMAIN after -> Slots]
  BY <1>6, <1>8, <1>13
<1>15. \A i, j \in DOMAIN after : after[i] = after[j] => i = j
  <2> SUFFICES ASSUME NEW i \in DOMAIN after, NEW j \in DOMAIN after, after[i] = after[j] PROVE i = j
    OBVIOUS
  <2>1. CASE i \in DOMAIN registered /\ j \in DOMAIN registered
    BY <1>9, <2>1 DEF ReconcilerInv, SlotsHeldOnce
  <2>2. ASSUME NEW k \in DOMAIN registered, NEW n \in 1..count PROVE after[k] # after[ids[n]]
    BY <1>1, <1>9, <1>10 DEF MayPlace
  <2>3. ASSUME NEW m \in 1..count, NEW n \in 1..count, after[ids[m]] = after[ids[n]] PROVE m = n
    BY <1>10, <2>3 DEF Distinct, count
  <2>4. QED
    BY <1>11, <2>1, <2>2, <2>3
<1>16. QED
  BY <1>5, <1>9, <1>10, <1>13, <1>14, <1>15 DEF places, after

\* A comparison with an answer stages nothing, or cancels of the answer and placements
\* in slots that are free.
LEMMA ComparisonFacts ==
  ASSUME ReconcilerInv, NEW b, b \in [DOMAIN b -> Slots], DOMAIN b \subseteq OrderIds, UNCHANGED machine,
         ReconcileGrid(b)
  PROVE  \/ UNCHANGED <<staged, registered>>
         \/ \E cancels \in SUBSET DOMAIN b, due \in Seq({k \in Slots : MayPlace(k)}) :
              /\ Distinct(due) /\ HasIds(Len(due))
              /\ Stage(cancels, Materialized(due))
<1> DEFINE placing == Fresh(pendingPlaces', PlaceGens)
           slots == {b[i] : i \in Entries(b)}
<1>0. PICK cancelling \in {Fresh(pendingCancels', CancelGens), {}} :
        \E diff \in {Compare(Effective(machine, slots), slots \ SlotsOf(cancelling))} :
        \E pairs \in {Mispriced(diff)} :
        \E cancels \in {Cancels(b, diff, pairs, (Exits(b) \ cancelling) \ machine.exits, placing)} :
        \E places \in {Places(diff, pairs, placing, MaxActions - Len(cancels))} :
          IF NothingToDo(cancels, places) THEN UNCHANGED <<staged, registered, suppressed>>
          ELSE \E due \in {IF Suppresses THEN << >> ELSE places} :
                 HasIds(Len(due)) /\ Stage(ToSet(cancels), Materialized(due))
  BY DEF ReconcileGrid
<1> DEFINE diff == Compare(Effective(machine, slots), slots \ SlotsOf(cancelling))
           pairs == Mispriced(diff)
           cancels == Cancels(b, diff, pairs, (Exits(b) \ cancelling) \ machine.exits, placing)
           places == Places(diff, pairs, placing, MaxActions - Len(cancels))
<1>1. \/ UNCHANGED <<staged, registered>>
      \/ \E due \in {IF Suppresses THEN << >> ELSE places} :
           HasIds(Len(due)) /\ Stage(ToSet(cancels), Materialized(due))
  BY <1>0 DEF NothingToDo
<1>2. slots \subseteq Slots /\ IsFiniteSet(slots)
  <2>1. Entries(b) \in SUBSET OrderIds /\ IsFiniteSet(OrderIds)
    BY ReconcilerAssumption DEF Entries
  <2>2. IsFiniteSet(Entries(b))
    BY <2>1, FS_Subset
  <2> DEFINE at == [i \in Entries(b) |-> b[i]]
  <2>3. at \in Surjection(Entries(b), slots)
    BY DEF Surjection
  <2> HIDE DEF at
  <2>4. IsFiniteSet(slots)
    BY <2>2, <2>3, FS_Surjection
  <2>5. slots \subseteq Slots
    BY DEF Entries
  <2>6. QED
    BY <2>4, <2>5
<1> HIDE DEF slots, placing
<1>3. Effective(machine, slots) \subseteq Slots /\ IsFiniteSet(Effective(machine, slots))
  BY <1>2, EffectiveFinite DEF ReconcilerInv, ReconcilerTypeOK
<1>4. diff.missing \in SUBSET Effective(machine, slots) /\ diff.extra \in SUBSET slots
  BY DEF Compare
<1> HIDE DEF diff, pairs
<1>5. diff.missing \subseteq Slots /\ IsFiniteSet(diff.missing) /\ IsFiniteSet(diff.extra)
  BY <1>2, <1>3, <1>4, FS_Subset
<1>6. cancels \in Seq(DOMAIN b)
  <2>1. diff.extra \subseteq {b[i] : i \in Entries(b)}
    BY <1>4 DEF slots
  <2>2. (Exits(b) \ cancelling) \ machine.exits \in SUBSET DOMAIN b
    BY DEF Exits
  <2>3. QED
    BY <1>5, <2>1, <2>2, CancelsFacts
<1> HIDE DEF cancels
<1>7. MaxActions - Len(cancels) \in Int
  BY <1>6, ReconcilerAssumption
<1>8. places \in Seq({k \in diff.missing : MayPlace(k)}) /\ Distinct(places)
  BY <1>5, <1>7, PlacesFacts
<1> HIDE DEF places
<1>9. places \in Seq({k \in Slots : MayPlace(k)})
  BY <1>5, <1>8
<1>10. << >> \in Seq({k \in Slots : MayPlace(k)}) /\ Distinct(<< >>)
  BY DEF Distinct
<1>11. ToSet(cancels) \in SUBSET DOMAIN b
  BY <1>6 DEF ToSet
<1>12. QED
  BY <1>1, <1>8, <1>9, <1>10, <1>11

LEMMA SyncKeepsSlots ==
  ASSUME ReconcilerInv, NEW answer \in {book, shown}, NEW aged \in {{}, Entries(book)}, NEW behind,
         ReconcileSync(answer, aged, behind)
  PROVE  ReconcilerInv'
<1> USE DEF ReconcilerInv
<1>1. answer \in [DOMAIN answer -> Slots] /\ DOMAIN answer \subseteq OrderIds
  BY DEF ReconcilerTypeOK
<1>2. staged = NothingStaged /\ shown' = answer /\ UNCHANGED machine /\ ReconcileGrid(answer)
  BY DEF ReconcileSync
<1>3. PICK retired : /\ retired \subseteq aged
                     /\ book' = Without(book, retired)
                     /\ DOMAIN pendingCancels' = DOMAIN pendingCancels \cup retired
  <2>0. PICK older \in {[i \in DOMAIN pendingCancels |-> Min({pendingCancels[i] + 1, CancelGens})]} :
          \E retired \in {Retired(answer, aged, older)} :
            /\ book' = Without(book, retired)
            /\ pendingCancels' = [i \in DOMAIN older \cup retired |-> IF i \in retired THEN 0 ELSE older[i]]
    BY DEF ReconcileSync
  <2>1. PICK retired \in {Retired(answer, aged, older)} :
          /\ book' = Without(book, retired)
          /\ pendingCancels' = [i \in DOMAIN older \cup retired |-> IF i \in retired THEN 0 ELSE older[i]]
    BY <2>0
  <2>2. DOMAIN older = DOMAIN pendingCancels
    BY <2>1
  <2>3. retired \subseteq aged
    BY <2>1 DEF Retired
  <2>4. DOMAIN pendingCancels' = DOMAIN pendingCancels \cup retired
    BY <2>1, <2>2
  <2>5. QED
    BY <2>1, <2>2, <2>3, <2>4
<1>4. /\ DOMAIN book' = DOMAIN book \ retired /\ \A i \in DOMAIN book' : book'[i] = book[i]
      /\ book' \in [DOMAIN book' -> Slots] /\ DOMAIN book' \subseteq OrderIds
      /\ Entries(book') = Entries(book) \ retired
  <2>1. book' = [i \in DOMAIN book \ retired |-> book[i]]
    BY <1>3 DEF Without
  <2>2. DOMAIN book' = DOMAIN book \ retired
    BY <2>1
  <2>3. QED
    BY <2>1, <2>2 DEF ReconcilerTypeOK, Entries
<1>5. /\ retired \subseteq Entries(book)
      /\ \A i \in DOMAIN pendingCancels' \cap Entries(book') : i \in DOMAIN shown'
  <2>1. retired \subseteq Entries(book)
    BY <1>3
  <2>2. \A i \in DOMAIN pendingCancels' \cap Entries(book') : i \in DOMAIN pendingCancels \cap Entries(book)
    BY <1>3, <1>4
  <2>3. DOMAIN pendingCancels \cap Entries(book) \subseteq DOMAIN shown /\ Entries(book) \subseteq DOMAIN book
    BY DEF CancelsShow, Entries
  <2>4. QED
    BY <1>2, <2>1, <2>2, <2>3
<1>6. CASE UNCHANGED <<staged, registered>>
  <2>1. ReconcilerTypeOK'
    BY <1>1, <1>2, <1>4, <1>6 DEF ReconcilerTypeOK
  <2>2. SlotsHeldOnce' /\ RestingRegistered'
    BY <1>4, <1>6 DEF SlotsHeldOnce, RestingRegistered, Entries
  <2>3. StagedRegistered' /\ CancelsShow'
    BY <1>2, <1>5, <1>6 DEF StagedRegistered, CancelsShow, NothingStaged
  <2>4. QED
    BY <2>1, <2>2, <2>3
<1>7. ASSUME NEW cancels \in SUBSET DOMAIN answer, NEW due \in Seq({k \in Slots : MayPlace(k)}),
             Distinct(due), HasIds(Len(due)), Stage(cancels, Materialized(due))
      PROVE  ReconcilerInv'
  <2> DEFINE places == Materialized(due)
  <2>1. /\ staged' = [cancels |-> cancels, places |-> places, mode |-> machine.mode, filled |-> FALSE]
        /\ registered' = Registering(places)
    BY <1>7 DEF Stage
  <2>2. /\ places \in Seq(FreeIds \X Slots)
        /\ registered' \in [DOMAIN registered' -> Slots] /\ DOMAIN registered' \subseteq OrderIds
        /\ \A i \in DOMAIN registered : i \in DOMAIN registered' /\ registered'[i] = registered[i]
        /\ \A n \in DOMAIN places : places[n][1] \in DOMAIN registered' /\ registered'[places[n][1]] = places[n][2]
        /\ \A i, j \in DOMAIN registered' : registered'[i] = registered'[j] => i = j
    BY <1>7, <2>1, RegisteringFacts
  <2> HIDE DEF places
  <2>3. FreeIds \subseteq OrderIds /\ FreeIds \cap (DOMAIN book \cup DOMAIN shown \cup DOMAIN pendingCancels) = {}
    BY DEF FreeIds
  <2>4. \A n \in DOMAIN places : places[n][1] \in FreeIds /\ places[n][2] \in Slots
    BY <2>2
  <2>5. places \in Seq(OrderIds \X Slots)
    BY <2>2, <2>3
  <2>6. ReconcilerTypeOK'
    BY <1>1, <1>2, <1>4, <2>1, <2>2, <2>5 DEF ReconcilerTypeOK
  <2>7. SlotsHeldOnce'
    BY <2>2 DEF SlotsHeldOnce
  <2>8. RestingRegistered'
    BY <1>4, <2>2 DEF RestingRegistered, Entries
  <2>9. StagedRegistered'
    <3>1. DOMAIN book' \cup DOMAIN shown' \cup DOMAIN pendingCancels' \subseteq
            DOMAIN book \cup DOMAIN shown \cup DOMAIN pendingCancels
      BY <1>2, <1>3, <1>4, <1>5 DEF Entries
    <3>2. QED
      BY <2>1, <2>2, <2>3, <2>4, <3>1 DEF StagedRegistered
  <2>10. CancelsShow'
    BY <1>2, <1>5, <2>1 DEF CancelsShow
  <2>11. QED
    BY <2>6, <2>7, <2>8, <2>9, <2>10
<1>8. QED
  BY <1>1, <1>2, <1>6, <1>7, ComparisonFacts

LEMMA DrainKeepsSlots ==
  ASSUME ReconcilerInv, NEW failing, NEW lost, Drain(failing, lost)
  PROVE  ReconcilerInv'
<1> USE DEF ReconcilerInv
<1> DEFINE cancels == staged.cancels \ (refused \cup sentThisSync)
           kept == IF StillRight THEN ToSet(staged.places) ELSE {}
           unknown == cancels \ DOMAIN book
           placed == {p \in kept : p[1] \notin failing}
           sent == {p[1] : p \in placed} \cup lost
           rejected == {p[1] : p \in ToSet(staged.places)} \ sent
           gone == Acknowledged \cup unknown \cup rejected
<1>1. /\ book' = [i \in (DOMAIN book \ (cancels \ failing)) \cup {p[1] : p \in placed} |->
                   IF i \in DOMAIN book THEN book[i] ELSE (CHOOSE p \in placed : p[1] = i)[2]]
      /\ registered' = Without(registered, gone)
      /\ DOMAIN pendingCancels' = ((DOMAIN pendingCancels \ Acknowledged) \cup staged.cancels) \ unknown
      /\ staged' = NothingStaged
      /\ UNCHANGED <<machine, shown>>
  BY DEF Drain
<1>2. placed \subseteq ToSet(staged.places)
  OBVIOUS
<1>3. \A p \in ToSet(staged.places) : /\ p \in OrderIds \X Slots /\ p = <<p[1], p[2]>>
                                      /\ p[1] \in DOMAIN registered /\ registered[p[1]] = p[2]
                                      /\ p[1] \notin DOMAIN book \cup DOMAIN shown \cup DOMAIN pendingCancels
  <2>1. staged.places \in Seq(OrderIds \X Slots)
    BY DEF ReconcilerTypeOK
  <2>2. QED
    BY <2>1 DEF StagedRegistered, ToSet
<1>4. \A p, q \in ToSet(staged.places) : p[1] = q[1] => p = q
  BY <1>3
<1>5. staged.cancels \subseteq DOMAIN shown /\ \A i \in DOMAIN pendingCancels \cap Entries(book) : i \in DOMAIN shown
  BY DEF CancelsShow
<1>6. \A p \in placed : p[1] \notin gone
  <2>1. \A p \in placed : p[1] \notin Acknowledged
    BY <1>2, <1>3 DEF Acknowledged
  <2>2. \A p \in placed : p[1] \notin unknown
    BY <1>2, <1>3, <1>5
  <2>3. \A p \in placed : p[1] \notin rejected
    BY <1>2, <1>4
  <2>4. QED
    BY <2>1, <2>2, <2>3
<1>7. \A i \in Entries(book) : i \notin gone
  <2>1. \A i \in Entries(book) : i \in DOMAIN book /\ i \notin Acknowledged
    BY <1>5 DEF Acknowledged, Entries
  <2>2. \A i \in DOMAIN book : i \notin unknown
    OBVIOUS
  <2>3. \A i \in DOMAIN book : i \notin rejected
    BY <1>3
  <2>4. QED
    BY <2>1, <2>2, <2>3
<1>8. DOMAIN book' = (DOMAIN book \ (cancels \ failing)) \cup {p[1] : p \in placed}
  BY <1>1
<1>9. \A i \in DOMAIN book' : \/ i \in DOMAIN book /\ book'[i] = book[i]
                              \/ \E p \in placed : i = p[1] /\ book'[i] = p[2]
  <2> SUFFICES ASSUME NEW i \in DOMAIN book', i \notin DOMAIN book
               PROVE  \E p \in placed : i = p[1] /\ book'[i] = p[2]
    BY <1>1, <1>8
  <2> DEFINE order == CHOOSE p \in placed : p[1] = i
  <2>1. \E p \in placed : p[1] = i
    BY <1>8
  <2>2. order \in placed /\ order[1] = i
    BY <2>1
  <2>3. book'[i] = order[2]
    BY <1>1, <1>8
  <2>4. QED
    BY <2>2, <2>3
<1>10. /\ DOMAIN registered' = DOMAIN registered \ gone
       /\ \A i \in DOMAIN registered' : registered'[i] = registered[i]
       /\ registered' \in [DOMAIN registered' -> Slots] /\ DOMAIN registered' \subseteq OrderIds
  <2>1. registered' = [i \in DOMAIN registered \ gone |-> registered[i]]
    BY <1>1 DEF Without
  <2> HIDE DEF gone
  <2>2. DOMAIN registered' = DOMAIN registered \ gone
    BY <2>1
  <2>3. QED
    BY <2>1, <2>2 DEF ReconcilerTypeOK
<1> HIDE DEF cancels, kept, unknown, placed, sent, rejected, gone
<1>11. \A i \in DOMAIN book' : i \in OrderIds /\ book'[i] \in Slots
  BY <1>2, <1>3, <1>9 DEF ReconcilerTypeOK
<1>12. book' \in [DOMAIN book' -> Slots] /\ DOMAIN book' \subseteq OrderIds
  BY <1>1, <1>8, <1>11
<1>13. ReconcilerTypeOK'
  <2>1. staged' \in [cancels : SUBSET OrderIds, places : Seq(OrderIds \X Slots), mode : {Flat, Buy, Sell}, filled : BOOLEAN]
    BY <1>1 DEF NothingStaged
  <2>2. QED
    BY <1>1, <1>10, <1>12, <2>1 DEF ReconcilerTypeOK
<1>14. SlotsHeldOnce'
  BY <1>10 DEF SlotsHeldOnce
<1>15. \A i \in Entries(book') : \/ i \in Entries(book) /\ book'[i] = book[i]
                                 \/ \E p \in placed : i = p[1] /\ book'[i] = p[2]
  BY <1>9 DEF Entries
<1>16. RestingRegistered'
  BY <1>2, <1>3, <1>6, <1>7, <1>10, <1>15 DEF RestingRegistered
<1>17. StagedRegistered'
  BY <1>1 DEF StagedRegistered, NothingStaged
<1>18. CancelsShow'
  <2> SUFFICES ASSUME NEW i \in DOMAIN pendingCancels' \cap Entries(book') PROVE i \in DOMAIN shown
    BY <1>1 DEF CancelsShow, NothingStaged
  <2>1. i \in DOMAIN pendingCancels \/ i \in staged.cancels
    BY <1>1
  <2>2. i \in staged.cancels => i \in DOMAIN shown
    BY <1>5
  <2>3. i \in DOMAIN pendingCancels => i \in Entries(book)
    BY <1>2, <1>3, <1>15
  <2>4. QED
    BY <1>5, <2>1, <2>2, <2>3
<1>19. QED
  BY <1>13, <1>14, <1>16, <1>17, <1>18

\* A fill takes its order out of the book and out of the registry; what it adds is an exit.
Machines == [mode : {Flat, Buy, Sell}, ref : Int, lots : Int, exits : SUBSET OrderIds]
FillTakes(i, extra) == /\ extra \subseteq FreeIds /\ DOMAIN book' \subseteq DOMAIN book \cup extra
                       /\ Entries(book') = Entries(book) \ {i}
                       /\ \A j \in Entries(book') : book'[j] = book[j]
                       /\ book' \in [DOMAIN book' -> Slots] /\ machine' \in Machines

LEMMA FillKeepsSlots ==
  ASSUME ReconcilerInv, NEW i, \A n \in DOMAIN staged.places : staged.places[n][1] # i, Booked(i),
         NEW extra, FillTakes(i, extra)
  PROVE  ReconcilerInv'
<1> USE DEF ReconcilerInv, FillTakes, Machines
<1>1. /\ registered' = Without(registered, {i}) /\ UNCHANGED <<shown, pendingCancels>>
      /\ staged' = IF staged = NothingStaged THEN staged ELSE [staged EXCEPT !.filled = TRUE]
  BY DEF Booked
<1>2. /\ staged'.places = staged.places /\ staged'.cancels = staged.cancels
      /\ staged' \in [cancels : SUBSET OrderIds, places : Seq(OrderIds \X Slots), mode : {Flat, Buy, Sell}, filled : BOOLEAN]
  BY <1>1 DEF ReconcilerTypeOK
<1>3. /\ DOMAIN registered' = DOMAIN registered \ {i}
      /\ \A j \in DOMAIN registered' : registered'[j] = registered[j]
      /\ registered' \in [DOMAIN registered' -> Slots] /\ DOMAIN registered' \subseteq OrderIds
  <2>1. registered' = [j \in DOMAIN registered \ {i} |-> registered[j]]
    BY <1>1 DEF Without
  <2>2. DOMAIN registered' = DOMAIN registered \ {i}
    BY <2>1
  <2>3. QED
    BY <2>1, <2>2 DEF ReconcilerTypeOK
<1>4. FreeIds \subseteq OrderIds /\ FreeIds \cap (DOMAIN book \cup DOMAIN registered) = {}
  BY DEF FreeIds
<1>5. ReconcilerTypeOK'
  BY <1>1, <1>2, <1>3, <1>4 DEF ReconcilerTypeOK
<1>6. SlotsHeldOnce'
  BY <1>3 DEF SlotsHeldOnce
<1>7. Entries(book') = Entries(book) \ {i}
  OBVIOUS
<1>8. RestingRegistered'
  BY <1>3, <1>7 DEF RestingRegistered, Entries
<1>9. StagedRegistered'
  <2> SUFFICES ASSUME NEW n \in DOMAIN staged.places
               PROVE  LET p == staged.places[n]
                      IN  /\ p[1] \in DOMAIN registered' /\ registered'[p[1]] = p[2]
                          /\ p[1] \notin DOMAIN book' \cup DOMAIN shown \cup DOMAIN pendingCancels
    BY <1>1, <1>2 DEF StagedRegistered
  <2> DEFINE p == staged.places[n]
  <2>1. /\ p[1] \in DOMAIN registered /\ registered[p[1]] = p[2]
        /\ p[1] \notin DOMAIN book \cup DOMAIN shown \cup DOMAIN pendingCancels
    BY DEF StagedRegistered
  <2>2. p[1] # i /\ p[1] \notin extra
    BY <1>4, <2>1
  <2> HIDE DEF p
  <2>3. p[1] \in DOMAIN registered' /\ registered'[p[1]] = p[2]
    BY <1>3, <2>1, <2>2
  <2>4. QED
    BY <2>1, <2>2, <2>3 DEF p
<1>10. CancelsShow'
  BY <1>1, <1>2, <1>7 DEF CancelsShow
<1>11. QED
  BY <1>5, <1>6, <1>8, <1>9, <1>10

LotTaken(before, closed) == [before EXCEPT !.lots = before.lots - 1, !.exits = before.exits \ closed,
                                       !.mode = IF before.lots = 1 THEN Flat ELSE before.mode]
LEMMA OneLotLess ==
  ASSUME NEW before \in Machines, NEW closed
  PROVE  LotTaken(before, closed) \in Machines
<1>1. before.lots - 1 \in Int /\ before.exits \ closed \in SUBSET OrderIds
  BY DEF Machines
<1>2. (IF before.lots = 1 THEN Flat ELSE before.mode) \in {Flat, Buy, Sell}
  BY DEF Machines
<1> DEFINE lots == before.lots - 1
           exits == before.exits \ closed
           mode == IF before.lots = 1 THEN Flat ELSE before.mode
<1>3. LotTaken(before, closed) = [before EXCEPT !.lots = lots, !.exits = exits, !.mode = mode]
  BY DEF LotTaken
<1> HIDE DEF lots, exits, mode
<1>4. QED
  BY <1>1, <1>2, <1>3 DEF Machines, lots, exits, mode

LEMMA OneNewId ==
  ASSUME HasIds(1)
  PROVE  NewIds(1)[1] \in FreeIds
<1>1. 1 \in Nat
  OBVIOUS
<1>2. NewIds(1) \in Seq(FreeIds) /\ Len(NewIds(1)) = 1
  BY <1>1, NewIdsFacts
<1>3. QED
  BY <1>2

\* Nothing that rests is staged.
LEMMA RestingNotStaged ==
  ASSUME ReconcilerInv, NEW i \in DOMAIN book
  PROVE  \A n \in DOMAIN staged.places : staged.places[n][1] # i
  BY DEF ReconcilerInv, StagedRegistered

LEMMA MachineMoves ==
  ASSUME machine \in Machines, NEW slot \in Slots
  PROVE  /\ \A exits \in SUBSET OrderIds : Opens(slot, exits) => machine' \in Machines
         /\ NetsOff(slot) => machine' \in Machines
<1>1. ASSUME NEW exits \in SUBSET OrderIds, Opens(slot, exits) PROVE machine' \in Machines
  BY <1>1 DEF Opens, Machines, Slots
<1>2. ASSUME NetsOff(slot) PROVE machine' \in Machines
  <2>1. PICK closed : machine' = LotTaken(machine, closed)
    BY <1>2 DEF NetsOff, LotTaken
  <2>2. QED
    BY <2>1, OneLotLess
<1>3. QED
  BY <1>1, <1>2

LEMMA EntryKeepsSlots ==
  ASSUME ReconcilerInv, NEW i \in OrderIds, EntryFills(i)
  PROVE  ReconcilerInv'
<1> DEFINE x == NewIds(1)[1]
<1>1. i \in DOMAIN book /\ book[i] \in Slots /\ book[i] # Exit /\ Booked(i) /\ machine \in Machines
  BY DEF EntryFills, Entries, ReconcilerInv, ReconcilerTypeOK, Machines
<1>2. book \in [DOMAIN book -> Slots]
  BY DEF ReconcilerInv, ReconcilerTypeOK
<1>3. CASE /\ HasIds(1) /\ Opens(book[i], {x})
           /\ book' = [j \in (DOMAIN book \ {i}) \cup {x} |-> IF j = x THEN Exit ELSE book[j]]
  <2>2. x \in FreeIds
    BY <1>3, OneNewId
  <2> HIDE DEF x
  <2>3. x \in OrderIds /\ x \notin DOMAIN book
    BY <2>2 DEF FreeIds
  <2>4. machine' \in Machines
    BY <1>1, <1>3, <2>3, MachineMoves
  <2>5. Exit \in Slots
    BY DEF Exit, Slots, Flat
  <2>6. DOMAIN book' = (DOMAIN book \ {i}) \cup {x}
    BY <1>3
  <2>7. book'[x] = Exit /\ \A j \in DOMAIN book \ {i} : book'[j] = book[j]
    BY <1>3, <2>3, <2>6
  <2>8. book' \in [DOMAIN book' -> Slots]
    BY <1>2, <1>3, <2>5, <2>6
  <2>9. FillTakes(i, {x})
    BY <2>2, <2>3, <2>4, <2>6, <2>7, <2>8 DEF FillTakes, Entries
  <2>10. QED
    BY <1>1, <2>9, RestingNotStaged, FillKeepsSlots
<1>4. CASE NetsOff(book[i]) /\ book' = Without(book, {i})
  <2>2. machine' \in Machines
    BY <1>1, <1>4, MachineMoves
  <2>3. book' = [j \in DOMAIN book \ {i} |-> book[j]]
    BY <1>4 DEF Without
  <2>4. DOMAIN book' = DOMAIN book \ {i}
    BY <2>3
  <2>5. (\A j \in DOMAIN book \ {i} : book'[j] = book[j]) /\ book' \in [DOMAIN book' -> Slots]
    BY <1>2, <2>3, <2>4
  <2>6. FillTakes(i, {})
    BY <2>2, <2>4, <2>5 DEF FillTakes, Entries
  <2>7. QED
    BY <1>1, <2>6, RestingNotStaged, FillKeepsSlots
<1>5. QED
  BY <1>3, <1>4 DEF EntryFills

LEMMA ExitKeepsSlots ==
  ASSUME ReconcilerInv, NEW i \in OrderIds, ExitFills(i)
  PROVE  ReconcilerInv'
<1>1. i \in DOMAIN book /\ Booked(i) /\ machine \in Machines /\ book \in [DOMAIN book -> Slots]
  BY DEF ExitFills, Exits, ReconcilerInv, ReconcilerTypeOK, Machines
<1>2. machine' \in Machines
  BY <1>1, OneLotLess DEF ExitFills, LotTaken
<1>3. book' = [j \in DOMAIN book \ {i} |-> book[j]]
  BY DEF ExitFills, Without
<1>4. DOMAIN book' = DOMAIN book \ {i}
  BY <1>3
<1>5. (\A j \in DOMAIN book \ {i} : book'[j] = book[j]) /\ book' \in [DOMAIN book' -> Slots]
  BY <1>1, <1>3, <1>4
<1>6. FillTakes(i, {})
  BY <1>2, <1>4, <1>5 DEF FillTakes, Entries
<1>7. QED
  BY <1>1, <1>6, RestingNotStaged, FillKeepsSlots

\* An entry that rests is in the last answer, or on its way: it is never taken for filled.
OnItsWay(i) == i \in DOMAIN pendingPlaces /\ pendingPlaces[i] \in IF repeated THEN {0, 1} ELSE {0}
EntriesSeen == \A i \in Entries(book) : i \in DOMAIN shown \/ OnItsWay(i)

LEMMA InferredKeepsSlots ==
  ASSUME ReconcilerInv, EntriesSeen, NEW i \in OrderIds, InferredFill(i)
  PROVE  ReconcilerInv'
<1>1. i \in Vanished /\ Booked(i) /\ UNCHANGED book
  BY DEF InferredFill
<1>2. i \in DOMAIN registered /\ registered[i] \in Slots /\ machine \in Machines
  BY <1>1 DEF Vanished, ReconcilerInv, ReconcilerTypeOK, Machines
<1>3. i \notin Entries(book)
  BY <1>1 DEF Vanished, EntriesSeen, OnItsWay
<1>4. \A n \in DOMAIN staged.places : staged.places[n][1] # i
  BY <1>1 DEF Vanished, ToSet
<1>5. machine' \in Machines
  <2>1. {} \in SUBSET OrderIds
    OBVIOUS
  <2>2. QED
    BY <1>2, <2>1, MachineMoves DEF InferredFill
<1>6. FillTakes(i, {})
  BY <1>1, <1>3, <1>5 DEF FillTakes, Entries, ReconcilerInv, ReconcilerTypeOK
<1>7. QED
  BY <1>1, <1>4, <1>6, FillKeepsSlots

LEMMA ReconcilerStep ==
  ASSUME ReconcilerInv, EntriesSeen, [ReconcilerNext]_reconcilerVars
  PROVE  ReconcilerInv'
<1>1. CASE UNCHANGED reconcilerVars
  BY <1>1 DEF reconcilerVars, ReconcilerInv, ReconcilerTypeOK, SlotsHeldOnce, RestingRegistered, StagedRegistered,
              CancelsShow, Entries
<1>2. CASE ReconcileFresh
  BY <1>2, SyncKeepsSlots DEF ReconcileFresh, ReconcileAnswer
<1>3. CASE ReconcileCached
  BY <1>3, SyncKeepsSlots DEF ReconcileCached
<1>4. CASE Tick
  BY <1>4, DrainKeepsSlots DEF Tick
<1>5. CASE \E d \in Shifts : Recenter(d)
  <2>1. PICK d \in Shifts : Recenter(d)
    BY <1>5
  <2> DEFINE ref == machine.ref + d
  <2>2. machine \in Machines /\ machine' = [machine EXCEPT !.ref = ref]
    BY <2>1 DEF Recenter, ReconcilerInv, ReconcilerTypeOK, Machines
  <2>3. d \in Int /\ machine.ref \in Int
    BY <2>2, ReconcilerAssumption DEF Machines
  <2>4. ref \in Int
    BY <2>3
  <2> HIDE DEF ref
  <2>5. machine' \in Machines
    BY <2>2, <2>4 DEF Machines
  <2>6. UNCHANGED <<book, shown, registered, pendingCancels, staged>>
    BY <2>1 DEF Recenter
  <2>7. QED
    BY <2>5, <2>6 DEF Machines, ReconcilerInv, ReconcilerTypeOK, SlotsHeldOnce, RestingRegistered, StagedRegistered,
                      CancelsShow, Entries
<1>6. CASE \E i \in OrderIds : EntryFills(i) \/ ExitFills(i) \/ InferredFill(i)
  BY <1>6, EntryKeepsSlots, ExitKeepsSlots, InferredKeepsSlots
<1>7. QED
  BY <1>1, <1>2, <1>3, <1>4, <1>5, <1>6 DEF ReconcilerNext

LEMMA SeenStep ==
  ASSUME ReconcilerInv, EntriesSeen, [ReconcilerNext]_reconcilerVars
  PROVE  EntriesSeen'
<1> USE DEF EntriesSeen, OnItsWay, Entries
<1>1. CASE UNCHANGED reconcilerVars
  BY <1>1 DEF reconcilerVars
<1>2. ASSUME NEW answer, NEW aged, NEW behind, ReconcileSync(answer, aged, behind)
      PROVE  /\ shown' = answer
             /\ \A i \in Entries(book') : i \in Entries(book)
             /\ \A i \in DOMAIN pendingPlaces \ DOMAIN answer :
                  pendingPlaces[i] = 0 => i \in DOMAIN pendingPlaces' /\ pendingPlaces'[i] = 1
  <2>1. PICK retired : book' = Without(book, retired)
    BY <1>2 DEF ReconcileSync
  <2>2. book' = [i \in DOMAIN book \ retired |-> book[i]]
    BY <2>1 DEF Without
  <2>3. \A i \in Entries(book') : i \in Entries(book)
    BY <2>2
  <2>4. /\ shown' = answer
        /\ pendingPlaces' = [i \in {i \in DOMAIN pendingPlaces \ DOMAIN answer : pendingPlaces[i] + 1 < PlaceGens} |-> pendingPlaces[i] + 1]
    BY <1>2 DEF ReconcileSync
  <2>5. 1 < PlaceGens /\ 0 + 1 = 1
    BY ReconcilerAssumption
  <2>6. QED
    BY <2>3, <2>4, <2>5
<1>3. CASE ReconcileFresh
  <2>1. PICK aged \in {{}, Entries(book)} : ReconcileAnswer(aged)
    BY <1>3 DEF ReconcileFresh
  <2>2. PICK behind : ReconcileSync(book, aged, behind)
    BY <2>1 DEF ReconcileAnswer
  <2>3. QED
    BY <1>2, <2>2
<1>4. CASE ReconcileCached
  <2>1. ~repeated /\ repeated' = TRUE /\ ReconcileSync(shown, {}, fillAhead)
    BY <1>4 DEF ReconcileCached
  <2>2. QED
    BY <1>2, <2>1
<1>5. CASE Tick
  <2>1. PICK failing, lost : Drain(failing, lost)
    BY <1>5 DEF Tick
  <2> DEFINE cancels == staged.cancels \ (refused \cup sentThisSync)
             kept == IF StillRight THEN ToSet(staged.places) ELSE {}
             placed == {p \in kept : p[1] \notin failing}
             sent == {p[1] : p \in placed} \cup lost
  <2>2. /\ book' = [i \in (DOMAIN book \ (cancels \ failing)) \cup {p[1] : p \in placed} |->
                      IF i \in DOMAIN book THEN book[i] ELSE (CHOOSE p \in placed : p[1] = i)[2]]
        /\ pendingPlaces' = [i \in DOMAIN pendingPlaces \cup sent |-> IF i \in sent THEN 0 ELSE pendingPlaces[i]]
        /\ UNCHANGED <<shown, repeated>>
    BY <2>1 DEF Drain
  <2> HIDE DEF cancels, placed
  <2>3. \A i \in DOMAIN book' : (i \in DOMAIN book /\ book'[i] = book[i]) \/ \E p \in placed : i = p[1]
    BY <2>2
  <2>4. \A i \in sent : i \in DOMAIN pendingPlaces' /\ pendingPlaces'[i] = 0
    BY <2>2
  <2>5. \A i \in DOMAIN pendingPlaces \ sent : i \in DOMAIN pendingPlaces' /\ pendingPlaces'[i] = pendingPlaces[i]
    BY <2>2
  <2>6. \A i \in Entries(book') : i \in Entries(book) \/ i \in sent
    BY <2>3
  <2> HIDE DEF sent
  <2>7. QED
    BY <2>2, <2>4, <2>5, <2>6
<1>6. CASE \E d \in Shifts : Recenter(d)
  BY <1>6 DEF Recenter
<1>7. ASSUME NEW i \in OrderIds, EntryFills(i) \/ ExitFills(i) \/ InferredFill(i)
      PROVE  EntriesSeen'
  <2>1. pendingPlaces' = [j \in DOMAIN pendingPlaces \ {i} |-> pendingPlaces[j]] /\ UNCHANGED <<shown, repeated>>
    BY <1>7 DEF EntryFills, ExitFills, InferredFill, Booked, Without
  <2>2. \A j \in DOMAIN pendingPlaces \ {i} : j \in DOMAIN pendingPlaces' /\ pendingPlaces'[j] = pendingPlaces[j]
    BY <2>1
  <2>3. \A j \in Entries(book') : j \in Entries(book) /\ (j # i \/ i \in DOMAIN shown)
    <3>1. CASE EntryFills(i) \/ ExitFills(i)
      BY <3>1 DEF EntryFills, ExitFills, Without
    <3>2. CASE InferredFill(i)
      BY <3>2 DEF InferredFill, Vanished
    <3>3. QED
      BY <1>7, <3>1, <3>2
  <2>4. QED
    BY <2>1, <2>2, <2>3
<1>8. QED
  BY <1>1, <1>3, <1>4, <1>5, <1>6, <1>7 DEF ReconcilerNext

\* Two entries never rest in one slot (sync_reconciler.py, and what engine.py stages and
\* sends for it), however many lots, levels, answers of a cache and fills there are.
THEOREM SlotsNeverDoubled == ReconcilerSpec => []OneOrderPerSlot
<1>1. ReconcilerInit => ReconcilerInv /\ EntriesSeen
  <2> SUFFICES ASSUME ReconcilerInit PROVE ReconcilerInv /\ EntriesSeen
    OBVIOUS
  <2>1. DOMAIN NoIds = {} /\ NoIds \in [{} -> Slots]
    BY DEF NoIds
  <2>2. ReconcilerTypeOK
    BY <2>1 DEF ReconcilerInit, ReconcilerTypeOK, NothingStaged
  <2>3. SlotsHeldOnce /\ RestingRegistered /\ StagedRegistered /\ CancelsShow
    BY <2>1 DEF ReconcilerInit, SlotsHeldOnce, RestingRegistered, StagedRegistered, CancelsShow, Entries, NothingStaged
  <2>4. EntriesSeen
    BY <2>1 DEF ReconcilerInit, EntriesSeen, Entries
  <2>5. QED
    BY <2>2, <2>3, <2>4 DEF ReconcilerInv
<1>2. (ReconcilerInv /\ EntriesSeen) /\ [ReconcilerNext]_reconcilerVars => (ReconcilerInv /\ EntriesSeen)'
  BY ReconcilerStep, SeenStep
<1>3. ReconcilerInv => OneOrderPerSlot
  BY DEF ReconcilerInv, OneOrderPerSlot, RestingRegistered, SlotsHeldOnce
<1>4. QED
  BY <1>1, <1>2, <1>3, PTL DEF ReconcilerSpec
=============================================================================
