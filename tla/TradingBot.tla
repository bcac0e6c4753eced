----------------------------- MODULE TradingBot -----------------------------
(***************************************************************************)
(* The crypto trading bot (domains/crypto_coin):                           *)
(*   core/engine/trading_engine.py      TradingBot: the tick and orders    *)
(*   core/execution/exchange_connector.py  the account, live or paper      *)
(*   core/risk/trailing_stop.py         the trailing stop                  *)
(*   analytics/overtrading.py           the guard on entries               *)
(*   data/storage/sqlite.py             open_position_state, trade_results *)
(*                                                                         *)
(* A position lives in three places that no transaction spans: the account *)
(* (holds), the process (pos) and the storage (row, ledger).  Every await  *)
(* of the tick ends an action here, so that the process may die, midnight  *)
(* may pass and a call may fail between any two of them.  A position is    *)
(* one lot: every sell is of the whole position.  The loss limit is a share *)
(* of day_start_balance, which is read when the process starts and kept.   *)
(***************************************************************************)
EXTENDS Integers, FiniteSets, Sequences

CONSTANTS
  Price,            \* prices of a candle, and of an executed order
  StopPct,          \* stop_loss_pct, also the trailing distance
  ActivatePct,      \* activate_pct
  TakePct,          \* take_profit_pct
  LossLimit,        \* max_daily_loss_pct of day_start_balance
  MaxTradesPerDay,  \* max_trades_per_day, 0 is no limit
  None,
  MaxLots, MaxFaults, MaxCrashes, LastDay  \* bounds: purchases, lost answers
                                           \* and failed writes, deaths, days

ASSUME ParameterAssumption ==
  /\ Price \subseteq Nat \ {0}
  /\ StopPct \in 1..99 /\ ActivatePct \in Nat /\ TakePct \in Nat
  /\ LossLimit \in Nat \ {0} /\ MaxTradesPerDay \in Nat

ASSUME NoneAssumption ==
  None \notin [id : Nat, buy : Price, base : Price, high : Price,
               stop : Int, active : BOOLEAN]
         \cup [id : Nat, buy : Price, high : Price, stop : Int, active : BOOLEAN]

ASSUME BoundAssumption ==
  /\ MaxLots \in Nat /\ MaxFaults \in Nat
  /\ MaxCrashes \in Nat /\ LastDay \in Nat

VARIABLES
  pc,        \* what the bot does next
  paper,     \* cfg.paper_trading, never changes
  price,     \* ind.close of the tick under way
  pos,       \* in_position, buy_price, trailing_stop ... None when flat
  pnl_today, day,  \* the loss booked, and the day it is booked for
  holds,     \* lots in the account: the exchange's, or _paper_asset
  row,       \* open_position_state
  ledger,    \* the closing trades of trade_results
  today,     \* the calendar
  lots,      \* purchases filled so far
  faults, crashes,
  \* history
  gap,       \* some failure put the account at odds with the books
  orphans,   \* lots bought that neither process nor storage knows of
  revived,   \* purchases whose row outlived their sale
  opened,    \* purchases filled today
  realised,  \* result of today's sales
  forgot     \* a restart or midnight made the bot forget a result of today

bot     == <<pc, price, pos, pnl_today, day>>
store   == <<row, ledger>>
history == <<gap, orphans, revived, opened, realised, forgot>>
vars    == <<bot, store, paper, holds, today, lots, faults, crashes, history>>
-----------------------------------------------------------------------------
Phase == {"down", "idle", "fetch", "decide", "warn", "paused",
          "buy", "bought", "sell", "sold", "clear"}

\* Prices times 100, so that percentages stay integers.
StopOf(p) == p * (100 - StopPct)
GainAtLeast(p, q, pct) == (q - p) * 100 >= pct * p
LossAtLeast(p, q, pct) == (q - p) * 100 <= -pct * p

\* id is no field of the code: it tells one purchase from the next.
Position == [id : Nat, buy : Price, base : Price, high : Price,
             stop : Int, active : BOOLEAN]
Row == [id : Nat, buy : Price, high : Price, stop : Int, active : BOOLEAN]
Closing == [id : Nat, day : Nat]

\* The stop of a new position starts from the candle's price, buy_price is
\* the one the order was executed at.
Opened(id, executed, candle) ==
  [id |-> id, buy |-> executed, base |-> candle, high |-> candle,
   stop |-> StopOf(candle), active |-> FALSE]

Raised(p, q) ==
  LET up == q > p.high IN
  [p EXCEPT !.active = @ \/ GainAtLeast(p.base, q, ActivatePct),
            !.high = IF up THEN q ELSE @,
            !.stop = IF up /\ StopOf(q) > @ THEN StopOf(q) ELSE @]

Triggered(p, q) == p.active /\ q * 100 <= p.stop

RowOf(p) == [id |-> p.id, buy |-> p.buy, high |-> p.high,
             stop |-> p.stop, active |-> p.active]

RestoresEntryOnly(r) == Opened(r.id, r.buy, r.buy)  \* mutant
Restored(r) == [id |-> r.id, buy |-> r.buy, base |-> r.buy, high |-> r.high,
                stop |-> r.stop, active |-> r.active]

ClosedOn(d) == Cardinality({i \in 1..Len(ledger) : ledger[i].day = d})
EntryAllowed(d) == MaxTradesPerDay = 0 \/ ClosedOn(d) < MaxTradesPerDay

\* Process and storage disagree about what is held: dying now is noticed.
Unsaved == pos # None /\ (row = None \/ row.id # pos.id)
Stale   == row # None /\ (pos = None \/ row.id # pos.id)

Fault == faults < MaxFaults /\ faults' = faults + 1
-----------------------------------------------------------------------------
Init ==
  /\ pc = "down" /\ paper \in BOOLEAN /\ price \in Price
  /\ pos = None /\ pnl_today = 0 /\ day = 0
  /\ holds = 0 /\ row = None /\ ledger = <<>>
  /\ today = 0 /\ lots = 0 /\ faults = 0 /\ crashes = 0
  /\ gap = FALSE /\ orphans = 0 /\ revived = {}
  /\ opened = 0 /\ realised = 0 /\ forgot = FALSE

\* __init__ and run up to the loop.  A live account that does not match the
\* restored position is reported and the position kept.  The paper account
\* is the process's own: it is rebuilt from the row.
StartFlat ==                                 \* mutant
  /\ pc = "down" /\ pc' = "idle"
  /\ pos' = None /\ pnl_today' = 0 /\ day' = today
  /\ holds' = IF paper /\ row # None THEN 1 ELSE holds
  /\ UNCHANGED <<price, store, paper, today, lots, faults, crashes, history>>

Start ==
  /\ pc = "down" /\ pc' = "idle"
  /\ pos' = IF row = None THEN None ELSE Restored(row)
  /\ pnl_today' = 0 /\ day' = today
  /\ holds' = IF paper /\ row # None THEN 1 ELSE holds
  /\ UNCHANGED <<price, store, paper, today, lots, faults, crashes, history>>

\* A tick begins with _check_day_reset, and awaits the candles.
CheckDayReset ==
  /\ pc = "idle" /\ pc' = "fetch"
  /\ day' = today
  /\ pnl_today' = IF today = day THEN pnl_today ELSE 0
  /\ UNCHANGED <<price, pos, store, paper, holds, today, lots, faults, crashes,
                 history>>

\* A tick without candles, or one whose market state cannot be stored: the
\* stop is not looked at.
TickWithoutData ==
  /\ pc = "fetch" /\ pc' = "idle"
  /\ UNCHANGED <<price, pos, pnl_today, day, store, paper, holds, today, lots,
                 faults, crashes, history>>

LimitUnread(p) ==                            \* mutant
  /\ pc = "fetch" /\ price' = p
  /\ pos' = IF pos = None THEN None ELSE Raised(pos, p)
  /\ pc' = IF pos # None /\ Triggered(Raised(pos, p), p) THEN "sell" ELSE "decide"
  /\ UNCHANGED <<pnl_today, day, store, paper, holds, today, lots, faults,
                 crashes, history>>

MarksToMarket(p) ==                          \* mutant
  /\ pc = "fetch" /\ price' = p
  /\ pos' = IF pos = None THEN None ELSE Raised(pos, p)
  /\ LET open == IF pos = None THEN 0 ELSE p - pos.buy IN
     pc' = CASE pnl_today + open <= -LossLimit -> "warn"
             [] pos # None /\ Triggered(Raised(pos, p), p) -> "sell"
             [] OTHER -> "decide"
  /\ UNCHANGED <<pnl_today, day, store, paper, holds, today, lots, faults,
                 crashes, history>>

\* From the candles to the first order or the next await: the trailing stop,
\* then the daily loss limit.
Tick(p) ==
  /\ pc = "fetch" /\ price' = p
  /\ pos' = IF pos = None THEN None ELSE Raised(pos, p)
  /\ pc' = CASE pos # None /\ Triggered(Raised(pos, p), p) -> "sell"
             [] pnl_today <= -LossLimit -> "warn"
             [] OTHER -> "decide"
  /\ UNCHANGED <<pnl_today, day, store, paper, holds, today, lots, faults,
                 crashes, history>>

\* The pause is announced first, then lasts until the next midnight (NewDay).
Pause ==
  /\ pc = "warn" /\ pc' = "paused"
  /\ UNCHANGED <<price, pos, pnl_today, day, store, paper, holds, today, lots,
                 faults, crashes, history>>
-----------------------------------------------------------------------------
\* get_signal in position: forced by the price, or by the indicators.
NoStopLoss == GainAtLeast(pos.buy, price, TakePct)  \* mutant
MustExit == \/ LossAtLeast(pos.buy, price, StopPct)
            \/ GainAtLeast(pos.buy, price, TakePct)

\* The equity point stores the position with it, before the signal is acted on:
\* a write that fails, this one or the decision's, also loses the exit.
DecideExit ==
  /\ pc = "decide" /\ pos # None
  /\ \/ row' = RowOf(pos) /\ pc' = "sell" /\ UNCHANGED faults
     \/ row' = RowOf(pos) /\ ~MustExit /\ pc' = "idle" /\ UNCHANGED faults
     \/ Fault /\ pc' = "idle" /\ row' \in {row, RowOf(pos)}
  /\ UNCHANGED <<price, pos, pnl_today, day, ledger, paper, holds, today, lots,
                 crashes, history>>

EntersTwice ==                               \* mutant
  /\ pc = "decide"
  /\ \/ pc' = "idle"
     \/ pc' = "buy" /\ EntryAllowed(day) /\ lots < MaxLots
  /\ UNCHANGED <<price, pos, pnl_today, day, store, paper, holds, today, lots,
                 faults, crashes, history>>

\* Indicators, the higher time frames and the regime's record may refuse any
\* entry, the overtrading guard counts the trades stored.
DecideEntry ==
  /\ pc = "decide" /\ pos = None
  /\ \/ pc' = "idle"
     \/ pc' = "buy" /\ EntryAllowed(day) /\ lots < MaxLots
  /\ UNCHANGED <<price, pos, pnl_today, day, store, paper, holds, today, lots,
                 faults, crashes, history>>

\* No balance, a balance below the minimum, or an order refused.
BuyRefused ==
  /\ pc = "buy" /\ pc' = "idle"
  /\ UNCHANGED <<price, pos, pnl_today, day, store, paper, holds, today, lots,
                 faults, crashes, history>>

BuyFilled(q) ==
  /\ pc = "buy" /\ pc' = "bought"
  /\ lots' = lots + 1 /\ holds' = holds + 1 /\ opened' = opened + 1
  /\ pos' = Opened(lots + 1, q, price)
  /\ UNCHANGED <<price, pnl_today, day, store, paper, today, faults, crashes,
                 gap, orphans, revived, realised, forgot>>

\* The exchange took the order, its answer was lost: buy returns None, which
\* the reconnection manager takes for an answer and does not retry.
BuyAnswerLost ==
  /\ pc = "buy" /\ ~paper /\ Fault /\ pc' = "idle"
  /\ lots' = lots + 1 /\ holds' = holds + 1 /\ opened' = opened + 1
  /\ gap' = TRUE /\ orphans' = orphans + 1
  /\ UNCHANGED <<price, pos, pnl_today, day, store, paper, today, crashes,
                 revived, realised, forgot>>

\* After the notifier: the trade, then the position.  The first write that
\* fails ends the tick.
BookBuy ==
  /\ pc = "bought" /\ pc' = "idle"
  /\ \/ row' = RowOf(pos) /\ UNCHANGED faults
     \/ Fault /\ UNCHANGED row
  /\ UNCHANGED <<price, pos, pnl_today, day, ledger, paper, holds, today, lots,
                 crashes, history>>
-----------------------------------------------------------------------------
\* A live account cannot sell what it does not hold, the paper account can.
SellFilled ==
  /\ pc = "sell" /\ (paper \/ holds > 0) /\ pc' = "sold"
  /\ holds' = holds - 1
  /\ pnl_today' = pnl_today + (price - pos.buy)
  /\ realised' = realised + (price - pos.buy)
  /\ forgot' = (forgot \/ day # today)
  /\ UNCHANGED <<price, pos, day, store, paper, today, lots, faults, crashes,
                 gap, orphans, revived, opened>>

SellRefused ==
  /\ pc = "sell" /\ pc' = "idle"
  /\ UNCHANGED <<price, pos, pnl_today, day, store, paper, holds, today, lots,
                 faults, crashes, history>>

SellAnswerLost ==
  /\ pc = "sell" /\ ~paper /\ holds > 0 /\ Fault /\ pc' = "idle"
  /\ holds' = holds - 1 /\ gap' = TRUE
  /\ UNCHANGED <<price, pos, pnl_today, day, store, paper, today, lots, crashes,
                 orphans, revived, opened, realised, forgot>>

\* After the notifier: the trade is stored, then memory is cleared.
ClearsAnyway ==                              \* mutant
  /\ pc = "sold" /\ pos' = None /\ pc' = "clear"
  /\ \/ /\ ledger' = Append(ledger, [id |-> pos.id, day |-> today])
        /\ UNCHANGED <<faults, gap>>
     \/ Fault /\ gap' = TRUE /\ UNCHANGED ledger
  /\ UNCHANGED <<price, pnl_today, day, row, paper, holds, today, lots, crashes,
                 orphans, revived, opened, realised, forgot>>

StaysIn ==                                   \* mutant
  /\ pc = "sold" /\ pc' = "clear"
  /\ ledger' = Append(ledger, [id |-> pos.id, day |-> today])
  /\ UNCHANGED <<price, pos, pnl_today, day, row, paper, holds, today, lots,
                 faults, crashes, history>>

RecordSell ==
  /\ pc = "sold"
  /\ \/ /\ ledger' = Append(ledger, [id |-> pos.id, day |-> today])
        /\ pos' = None /\ pc' = "clear" /\ UNCHANGED <<faults, gap>>
     \/ Fault /\ pc' = "idle" /\ gap' = TRUE /\ UNCHANGED <<ledger, pos>>
  /\ UNCHANGED <<price, pnl_today, day, row, paper, holds, today, lots, crashes,
                 orphans, revived, opened, realised, forgot>>

ClearRow ==
  /\ pc = "clear" /\ pc' = "idle"
  /\ \/ row' = None /\ UNCHANGED faults
     \/ Fault /\ UNCHANGED row
  /\ UNCHANGED <<price, pos, pnl_today, day, ledger, paper, holds, today, lots,
                 crashes, history>>
-----------------------------------------------------------------------------
\* Midnight; a bot that sleeps until then goes on with its loop.
NewDay ==
  /\ today < LastDay /\ today' = today + 1
  /\ pc' = IF pc = "paused" THEN "idle" ELSE pc
  /\ opened' = 0 /\ realised' = 0 /\ forgot' = FALSE
  /\ UNCHANGED <<price, pos, pnl_today, day, store, paper, holds, lots, faults,
                 crashes, gap, orphans, revived>>

\* The process is killed or its task cancelled, between any two awaits or
\* commits; the paper account goes with it.
Crash ==
  /\ pc # "down" /\ crashes < MaxCrashes
  /\ crashes' = crashes + 1
  /\ pc' = "down" /\ pos' = None /\ pnl_today' = 0
  /\ holds' = IF paper THEN 0 ELSE holds
  /\ gap' = IF paper THEN FALSE ELSE gap \/ pc = "sold" \/ Unsaved \/ Stale
  /\ orphans' = IF Unsaved THEN orphans + 1 ELSE orphans
  /\ revived' = IF Stale THEN revived \cup {row.id} ELSE revived
  /\ forgot' = TRUE
  /\ UNCHANGED <<price, day, store, paper, today, lots, faults, opened, realised>>

Trade == \/ Start \/ CheckDayReset \/ TickWithoutData
         \/ (\E p \in Price : Tick(p)) \/ Pause
         \/ DecideExit \/ DecideEntry
         \/ BuyRefused \/ (\E q \in Price : BuyFilled(q)) \/ BuyAnswerLost \/ BookBuy
         \/ SellFilled \/ SellRefused \/ SellAnswerLost \/ RecordSell \/ ClearRow

Next == Trade \/ NewDay \/ Crash

Spec == Init /\ [][Next]_vars
-----------------------------------------------------------------------------
(* Properties *)

\* Every variable has its type.
TypeOK ==
  /\ pc \in Phase /\ paper \in BOOLEAN /\ price \in Price
  /\ pos \in Position \cup {None} /\ row \in Row \cup {None}
  /\ pnl_today \in Int /\ day \in Nat /\ holds \in Int
  /\ ledger \in Seq(Closing)
  /\ today \in Nat /\ lots \in Nat /\ faults \in Nat /\ crashes \in Nat
  /\ gap \in BOOLEAN /\ orphans \in Nat /\ revived \subseteq Nat
  /\ opened \in Nat /\ realised \in Int /\ forgot \in BOOLEAN

\* What the account should hold, by what the bot believes.
Believed ==
  CASE pc = "down" -> IF paper \/ row = None THEN 0 ELSE 1
    [] pc = "sold" -> 0
    [] OTHER -> IF pos = None THEN 0 ELSE 1

\* Unless an answer was lost, a sale could not be stored, or the process died
\* in one of the windows named in Crash, the account holds exactly what the
\* bot believes, at every point of a tick and across restarts.  A position
\* that could not be stored, or a row that could not be deleted, does no harm
\* by itself.
AccountAgrees == ~gap => holds = Believed

\* While the bot believes to be flat, and may buy, the account holds nothing
\* but the lots whose purchase got lost.
HoldingsBound == pos = None /\ pc # "down" => holds <= orphans

\* The pause that sleeps through the stop is only ever taken flat, unless the
\* account was at odds with the books already.
PauseIsFlat == pc = "paused" /\ ~gap => pos = None

\* No order to buy is placed once the sales of the day lost the limit, unless
\* a restart or a midnight between a sale and its tick made the bot forget.
NoEntryAfterLoss == pc = "buy" /\ ~forgot => realised > -LossLimit

\* The guard reads stored trades: on no day are more positions opened than it
\* allows, restarts or not, but for purchases whose record got lost.
OpenedPerDay ==
  MaxTradesPerDay > 0 => opened <= MaxTradesPerDay + orphans

\* The result of a position is stored once, unless the process died between
\* the record and the deletion of the row, which brings the position back.
BookedOnce ==
  \A i, j \in 1..Len(ledger) :
    i < j /\ ledger[i].id = ledger[j].id => ledger[i].id \in revived

\* The storage keeps its promise: the stored stop of a purchase only
\* tightens, through ticks, failed writes, crashes and restarts.
RowPromise == INSTANCE PositionRow WITH bought <- lots
RowTightens == RowPromise!Spec

\* The service restarts the process, and a process that runs takes the next
\* step; the calendar moves; an exchange that is asked time and again delivers
\* candles, and sells, in the end.
Fairness == /\ WF_vars(Trade) /\ WF_vars(NewDay)
            /\ SF_vars(\E p \in Price : Tick(p)) /\ SF_vars(SellFilled)
FairSpec == Spec /\ Fairness

\* When the price falls below the stop of any other price and stays there, no
\* position entered higher is held for ever.
Collapsed == \A p \in Price \ {price} : LossAtLeast(p, price, StopPct)
StopLossExits ==
  <>[]Collapsed => []<>(pos = None \/ gap \/ pos.buy = price)
=============================================================================
