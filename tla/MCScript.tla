------------------------------ MODULE MCScript ------------------------------
(***************************************************************************)
(* The script around the engine, and the engine at work: TradingRun lets   *)
(* the engine place and cancel what it likes, GridV2Live says what one of  *)
(* grid_v2 does and SymbolSelector which symbols it may enter.             *)
(* TuningRefresher is the other host's way to give engines their settings. *)
(* FuturesPort is the client below every order.                            *)
(* They have no state in common; a behaviour moves one.                    *)
(***************************************************************************)
EXTENDS MCGridV2Live, MCTradingRun, SymbolSelector, TuningRefresher, FuturesPort

VARIABLE part

\* Nothing tuned at the start, and no candidates asked for.
NothingTuned == cached = {} /\ candidates = {} /\ natrIn = Nowhere

\* A symbol that is its own token, and one that is known by a hash; an order of either
\* may have been placed before the process knew the whitelist.
MCSymbols == {"btc", "hanzi"}
MCAscii == {"btc"}
MCTokens == {"btc", "X4F"}
MCBegins == [s \in MCSymbols |-> IF s = "btc" THEN {"btc"} ELSE {"X4F"}]
MCSetups ==
  {[mode |-> "live", whitelist |-> {}, mainnet |-> FALSE],
   [mode |-> "live", whitelist |-> {}, mainnet |-> TRUE],
   [mode |-> "live", whitelist |-> {"hanzi"}, mainnet |-> TRUE],
   [mode |-> "dry", whitelist |-> {"btc"}, mainnet |-> FALSE]}

MCInit ==
  /\ part \in {"engine", "script", "selector", "tuning", "port"}
  /\ LiveInit /\ TradingRunInit /\ SelectorInit /\ TuningInit /\ PortInit
  /\ part # "script" => options = LiveRun
  /\ part # "tuning" => NothingTuned

MCNext ==
  /\ \/ part = "engine" /\ (Engine \/ Exchange)
        /\ UNCHANGED <<tradingRunVars, selectorVars, tuningVars, portVars>>
     \/ part = "script" /\ TradingRunNext
        /\ UNCHANGED <<liveVars, selectorVars, tuningVars, portVars>>
     \/ part = "selector" /\ SelectorNext
        /\ UNCHANGED <<liveVars, tradingRunVars, tuningVars, portVars>>
     \/ part = "tuning" /\ TuningNext
        /\ UNCHANGED <<liveVars, tradingRunVars, selectorVars, portVars>>
     \/ part = "port" /\ PortNext
        /\ UNCHANGED <<liveVars, tradingRunVars, selectorVars, tuningVars>>
  /\ UNCHANGED part

MCSpec == MCInit /\ [][MCNext]_<<part, liveVars, tradingRunVars, selectorVars, tuningVars, portVars>>
=============================================================================
