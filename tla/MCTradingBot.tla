---------------------------- MODULE MCTradingBot ----------------------------
(* Instances of TradingBot: three prices, of which the highest activates a  *)
(* stop above the middle one and the lowest is a stop loss for both.        *)
EXTENDS TradingBot

MCPrice == {95, 100, 104}
=============================================================================
