--------------------------- MODULE MCEdgeOutcomes ---------------------------
(* An instance of EdgeOutcomes: the job and a request, a market that trades *)
(* and one that has stopped, and a candle whose close is zero.  Or, to see  *)
(* the scan alone, all signals on the job's side and every candle priced.   *)
EXTENDS EdgeOutcomes

CONSTANTS btc, old, job, request

MCLimit == [p \in Tracker |-> 1]
MCFilter == [p \in Tracker |-> IF p = job THEN {"BUY"} ELSE {"BUY", "SELL"}]
MCSideOf == [i \in 1 .. MaxSignals |-> IF i = 2 THEN "SELL" ELSE "BUY"]
MCClose == [m \in Market |-> [t \in 0 .. MaxTime |->
              IF m = btc /\ t = 2 THEN "zero" ELSE "some"]]

AllBuy == [i \in 1 .. MaxSignals |-> "BUY"]
AllPriced == [m \in Market |-> [t \in 0 .. MaxTime |-> "some"]]
=============================================================================
