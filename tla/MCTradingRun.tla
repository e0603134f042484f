--------------------------- MODULE MCTradingRun ---------------------------
(***************************************************************************)
(* The command lines run_trading.py is started with: the live run of the   *)
(* runbooks, one whose operator must clean by hand, and one under HA with  *)
(* the futures port but without --mainnet, which trades on the same        *)
(* exchange and which neither guard nor cleanup covers.                    *)
(***************************************************************************)
EXTENDS TradingRun

LiveRun ==
  [live |-> TRUE, futures |-> TRUE, armed |-> TRUE, mainnet |-> TRUE, fixture |-> FALSE,
   ha |-> FALSE, skip_guard |-> FALSE, pre_cleanup |-> TRUE, cleanup_on_exit |-> TRUE]

MCSettings ==
  {LiveRun, [LiveRun EXCEPT !.pre_cleanup = FALSE, !.cleanup_on_exit = FALSE],
   [LiveRun EXCEPT !.ha = TRUE, !.mainnet = FALSE]}

=============================================================================
