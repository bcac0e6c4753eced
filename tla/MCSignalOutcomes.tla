-------------------------- MODULE MCSignalOutcomes --------------------------
(* An instance of SignalOutcomes: the hourly job and a request, a market   *)
(* that trades and one that has stopped.  The signals' own candle has no   *)
(* close, so the first of the horizon stands in for it, and of the horizon *)
(* the middle one has none.                                                *)
EXTENDS SignalOutcomes

CONSTANTS btc, old, job, request

MCLimit == [p \in Tracker |-> 2]
MCClose == [m \in Market |-> [t \in 0 .. MaxTime |->
              IF m = btc /\ t \in {0, 2} THEN "none" ELSE "some"]]
=============================================================================
