----------------------------- MODULE SignalFeed -----------------------------
(***************************************************************************)
(* What the outcome trackers look at: the normalized candles of a market,  *)
(* and the signals that TradingAnalyticsProcessor has derived from candles *)
(* (app/modules/trading/analytics/processor.py).                           *)
(*                                                                         *)
(* Time is counted in candle intervals.  Candles are stored in any order   *)
(* and at any delay.  A market is one symbol and timeframe.  The trackers  *)
(* query by these alone, up to a limit of rows, while candles are unique   *)
(* per source: it is assumed that a market has its candles from one source *)
(* (as crypto_coin_ohlcv and backfill_ohlcv store them) and that the       *)
(* trackers know its timeframe, so that one interval holds one candle.     *)
(***************************************************************************)
EXTENDS Naturals, Sequences, FiniteSets

CONSTANTS
  Market,
  Listed,       \* markets that still get candles
  Close,        \* the close of each candle: "some", "zero" or "none"
  MaxTime,      \* bound: intervals that pass
  MaxSignals,   \* bound: signals
  LastSignal    \* bound: the time of the last signal

ASSUME MarketAssumption ==
  /\ Listed \subseteq Market
  /\ Close \in [Market -> [0 .. MaxTime -> {"some", "zero", "none"}]]
ASSUME FeedBoundAssumption == 
  MaxTime \in Nat /\ MaxSignals \in Nat /\ LastSignal \in Nat

VARIABLES
  now,
  candles,   \* normalized_market_candles: open times of the stored ones
  signals    \* trading_analytics: BUY and SELL, in the order of calculated_at

feed == <<now, candles, signals>>
-----------------------------------------------------------------------------
\* candle: market_candle_id, the candle it was derived from.
Signal == [market : Market, candle : Nat, at : Nat]
Index == DOMAIN signals

\* The candles of the h intervals that follow a signal, and whether these are
\* over.
Window(i, h) ==
  {t \in candles[signals[i].market] : signals[i].at < t /\ t <= signals[i].at + h}
Closed(i, h, clock) == signals[i].at + h <= clock

\* ORDER BY ... LIMIT n
Oldest(S, n) == {x \in S : Cardinality({y \in S : y < x}) < n}
IsFirst(S, x) == x \in S /\ \A y \in S : x <= y
IsLast(S, x) == x \in S /\ \A y \in S : y <= x

\* The candles W that follow signal i give it a signal price (the close of its own
\* candle or, if that has none, of the first of W) and an outcome price (of the last).
\* A close of zero counts as none there, but is taken from its own candle, and refused.
Priced(i, W) ==
  LET close == Close[signals[i].market]
      own == close[signals[i].candle]
  IN /\ \/ own = "some"
        \/ own = "none" /\ \E t \in W : IsFirst(W, t) /\ close[t] = "some"
     /\ \E t \in W : IsLast(W, t) /\ close[t] = "some"
-----------------------------------------------------------------------------
FeedInit ==
  /\ now = 0
  /\ candles = [m \in Market |-> {0}]
  /\ signals = <<>>

Tick ==
  /\ now < MaxTime
  /\ now' = now + 1
  /\ UNCHANGED <<candles, signals>>

\* A normalizer commits a candle, of the open interval or an earlier one.
StoreCandle(m, t) ==
  /\ m \in Listed
  /\ t <= now /\ t \notin candles[m]
  /\ candles' = [candles EXCEPT ![m] = @ \cup {t}]
  /\ UNCHANGED <<now, signals>>

\* save_analytics: a signal from some stored candle; calculated_at is the time of
\* the insert.
EmitSignal(m, t) ==
  /\ Len(signals) < MaxSignals /\ now <= LastSignal
  /\ t \in candles[m]
  /\ signals' = Append(signals, [market |-> m, candle |-> t, at |-> now])
  /\ UNCHANGED <<now, candles>>

FeedNext ==
  \/ Tick
  \/ \E m \in Market, t \in 0 .. MaxTime : StoreCandle(m, t) \/ EmitSignal(m, t)

FeedTypeOK ==
  /\ now \in Nat
  /\ candles \in [Market -> SUBSET Nat]
  /\ signals \in Seq(Signal)
=============================================================================
