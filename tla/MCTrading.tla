------------------------------ MODULE MCTrading -------------------------------
(***************************************************************************)
(* What trades, checked step by step without fairness: the live path that  *)
(* may crash, the rolling ladder of the symbols grid_v2 does not own, the  *)
(* watchdog over the ladder that rests, the ingestion of the account's     *)
(* trades, and the user-data stream.  A behaviour moves one of them.       *)
(***************************************************************************)
EXTENDS MCGridV2Live, RollingLadder, GridWatchdog, FillIngestion, UserStream

VARIABLE part

\* Bound: one request fails, or the process dies, or somebody else cancels an order.
OneMishap == failures + crashes + Cardinality(Cids("expired")) <= 1

MCInit ==
  /\ part \in {"live", "ladder", "watchdog", "ingestion", "stream"}
  /\ LiveInit /\ RLInit /\ WatchInit /\ FIInit /\ USInit

MCNext ==
  /\ \/ part = "live" /\ LiveNext /\ OneMishap' /\ UNCHANGED <<rlVars, watchVars, fiVars, usVars>>
     \/ part = "ladder" /\ RLNext /\ UNCHANGED <<liveVars, watchVars, fiVars, usVars>>
     \/ part = "watchdog" /\ WatchNext /\ UNCHANGED <<liveVars, rlVars, fiVars, usVars>>
     \/ part = "ingestion" /\ FINext /\ UNCHANGED <<liveVars, rlVars, watchVars, usVars>>
     \/ part = "stream" /\ USNext /\ UNCHANGED <<liveVars, rlVars, watchVars, fiVars>>
  /\ UNCHANGED part

MCVars == <<part, liveVars, rlVars, watchVars, fiVars, usVars>>

MCSpec == MCInit /\ [][MCNext]_MCVars

MCTraded == <<"A">>
===============================================================================
