----------------------------- MODULE MCExecution -----------------------------
(***************************************************************************)
(* Which engines run, and how one of their requests reaches the exchange:  *)
(* the autonomous loop over its fleet, the idempotent port with its        *)
(* breaker and store, and the feed that brings the ticks.  A behaviour     *)
(* moves one of them.                                                      *)
(***************************************************************************)
EXTENDS Fleet, IdempotentPort, MarketFeed

VARIABLE part

MCInit ==
  /\ part \in {"fleet", "port", "feed"}
  /\ FleetInit /\ Init /\ FeedInit

MCNext ==
  /\ \/ part = "fleet" /\ FleetNext /\ UNCHANGED <<vars, feedVars>>
     \/ part = "port" /\ Next /\ UNCHANGED <<fleetVars, feedVars>>
     \/ part = "feed" /\ FeedNext /\ UNCHANGED <<fleetVars, vars>>
  /\ UNCHANGED part

MCVars == <<part, fleetVars, vars, feedVars>>

\* Threads run, requests keep coming, the clock moves.
PortFairness ==
  /\ \A c \in Callers :
       /\ WF_vars(part = "port" /\ Proceed(c))
       /\ WF_vars(part = "port" /\ \E k \in Keys : BeforeCall(c, k))
  /\ WF_vars(part = "port" /\ Tick)

MCSpec == MCInit /\ [][MCNext]_MCVars /\ PortFairness

\* One part alone, for the run that shows where a promise is not kept.
OnlyFleet == part = "fleet" /\ MCSpec
=============================================================================
