-------------------------- MODULE TradingBotProofs --------------------------
(***************************************************************************)
(* For every set of prices, every parameter and every bound: the types,    *)
(* the agreement of account, process and storage, the daily limits, that a *)
(* sale is booked once, and that the stored position implements            *)
(* PositionRow.                                                            *)
(***************************************************************************)
EXTENDS TradingBot, FiniteSetTheorems, TLAPS

\* A position in memory when, and only when, the phase needs one.
Shape ==
  /\ pc \in {"down", "buy", "clear"} => pos = None
  /\ pc \in {"bought", "sell", "sold"} => pos # None

\* One lot may be in the account for the position that memory, or after a
\* live process died the storage, knows of.
Claim ==
  CASE pc = "sold" -> 0
    [] pc = "down" -> IF paper \/ row = None THEN 0 ELSE 1
    [] OTHER -> IF pos = None THEN 0 ELSE 1
HoldingsKnown == holds <= orphans + Claim

\* Below the limit no position is open; above it a tick goes on.
LossSeen ==
  /\ pc \in {"decide", "buy", "bought"} => pnl_today > -LossLimit
  /\ ~gap /\ pos # None /\ pc # "sold" => pnl_today > -LossLimit
  /\ pc \in {"warn", "paused"} /\ ~gap => pos = None

\* Unless something was forgotten the bot's count is the day's result.
CountIsResult ==
  /\ day <= today
  /\ pc = "down" => pnl_today = 0
  /\ ~forgot => realised = IF day = today THEN pnl_today ELSE 0

\* What storage and memory know of one purchase.
RowFollows ==
  /\ row # None => row.id <= lots
  /\ pos # None => pos.id <= lots
  /\ pos # None /\ row # None /\ row.id = pos.id => RowPromise!Tightens(row, RowOf(pos))
  /\ Unsaved => pos.id = lots

IInv == TypeOK /\ Shape /\ AccountAgrees /\ HoldingsKnown /\ LossSeen
        /\ CountIsResult /\ RowFollows
-----------------------------------------------------------------------------
\* Prices are positive.
LEMMA PriceType == \A p \in Price : p \in Int /\ p > 0
BY ParameterAssumption DEF ParameterAssumption

\* A price times a percentage is an integer.
LEMMA StopType == \A p \in Price : StopOf(p) \in Int
BY ParameterAssumption DEF ParameterAssumption, StopOf

\* The positions that a purchase, a price and a restart make have their type.
LEMMA OpenedType ==
  ASSUME NEW id \in Nat, NEW q \in Price, NEW c \in Price
  PROVE  Opened(id, q, c) \in Position
BY StopType DEF Opened, Position

LEMMA RaisedType ==
  ASSUME NEW p \in Position, NEW q \in Price
  PROVE  /\ Raised(p, q) \in Position
         /\ Raised(p, q).id = p.id
         /\ RowPromise!Tightens(RowOf(p), RowOf(Raised(p, q)))
<1> DEFINE s == Raised(p, q)
<1>1. GainAtLeast(p.base, q, ActivatePct) \in BOOLEAN
  BY DEF GainAtLeast
<1>2. p.high \in Int /\ q \in Int /\ p.stop \in Int /\ StopOf(q) \in Int
  BY StopType, PriceType DEF Position
<1>3. /\ s.id = p.id /\ s.buy = p.buy /\ s.base = p.base
      /\ s.active = (p.active \/ GainAtLeast(p.base, q, ActivatePct))
      /\ s.high = IF q > p.high THEN q ELSE p.high
      /\ s.stop = IF q > p.high /\ StopOf(q) > p.stop THEN StopOf(q) ELSE p.stop
  BY DEF Raised, Position
<1>4. s \in Position
  BY <1>1, <1>2 DEF Raised, Position
<1>5. s.high >= p.high /\ s.stop >= p.stop /\ (p.active => s.active)
  <2> HIDE DEF s
  <2>1. s.high >= p.high
    BY <1>2, <1>3
  <2>2. s.stop >= p.stop
    BY <1>2, <1>3
  <2> QED BY <2>1, <2>2, <1>3
<1>6. RowPromise!Tightens(RowOf(p), RowOf(s))
  <2> HIDE DEF s
  <2> QED BY <1>3, <1>5 DEF RowOf, RowPromise!Tightens
<1> QED BY <1>3, <1>4, <1>6

LEMMA RestoredType ==
  ASSUME NEW r \in Row
  PROVE  Restored(r) \in Position /\ RowOf(Restored(r)) = r
BY DEF Row, Restored, Position, RowOf

LEMMA RowType ==
  ASSUME NEW p \in Position PROVE RowOf(p) \in Row /\ RowOf(p).id = p.id
BY DEF RowOf, Row, Position

\* Neither a position nor a row is the absence of one.
LEMMA NoneIsNothing == None \notin Position /\ None \notin Row
BY NoneAssumption DEF NoneAssumption, Position, Row
-----------------------------------------------------------------------------
LEMMA InitTyped == Init => TypeOK
<1> SUFFICES ASSUME Init PROVE TypeOK
  OBVIOUS
<1>1. ledger \in Seq(Closing) /\ revived \subseteq Nat
  BY DEF Init
<1>2. gap \in BOOLEAN /\ forgot \in BOOLEAN /\ paper \in BOOLEAN
  BY DEF Init
<1>3. /\ pnl_today \in Int /\ day \in Nat /\ holds \in Int /\ today \in Nat
      /\ lots \in Nat /\ faults \in Nat /\ crashes \in Nat /\ orphans \in Nat
      /\ opened \in Nat /\ realised \in Int
  BY DEF Init
<1>4. /\ pc \in Phase /\ price \in Price
      /\ pos \in Position \cup {None} /\ row \in Row \cup {None}
  BY DEF Init, Phase
<1> QED BY <1>1, <1>2, <1>3, <1>4 DEF TypeOK

\* One step of any kind keeps every variable in its type.
LEMMA StepTyped == TypeOK /\ Shape /\ [Next]_vars => TypeOK'
<1> SUFFICES ASSUME TypeOK, Shape, [Next]_vars PROVE TypeOK'
  OBVIOUS
<1> USE DEF TypeOK, Phase
<1>1. CASE UNCHANGED vars
  BY <1>1 DEF vars, bot, store, history
<1>2. CASE Start
  BY <1>2, RestoredType DEF Start, store, history
<1>3. CASE TickWithoutData
  BY <1>3 DEF TickWithoutData, store, history
<1>r. CASE CheckDayReset
  <2>1. pnl_today' \in Int /\ day' \in Nat
    BY <1>r DEF CheckDayReset
  <2> QED BY <1>r, <2>1 DEF CheckDayReset, store, history
<1>4. ASSUME NEW p \in Price, Tick(p) PROVE TypeOK'
  <2>1. pos' \in Position \cup {None}
    BY <1>4, RaisedType DEF Tick
  <2>2. pc' \in Phase
    BY <1>4 DEF Tick
  <2> QED BY <1>4, <2>1, <2>2 DEF Tick, store, history
<1>5. CASE Pause
  BY <1>5 DEF Pause, store, history
<1>6. CASE DecideExit
  BY <1>6, RowType DEF DecideExit, Fault, history
<1>7. CASE DecideEntry
  BY <1>7 DEF DecideEntry, store, history
<1>8. CASE BuyRefused
  BY <1>8 DEF BuyRefused, store, history
<1>9. ASSUME NEW q \in Price, BuyFilled(q) PROVE TypeOK'
  <2>1. pos' \in Position
    BY <1>9, OpenedType DEF BuyFilled
  <2> QED BY <1>9, <2>1 DEF BuyFilled, store
<1>10. CASE BuyAnswerLost
  BY <1>10 DEF BuyAnswerLost, Fault, store
<1>11. CASE BookBuy
  BY <1>11, RowType DEF BookBuy, Fault, history, Shape
<1>12. CASE SellFilled
  <2>1. pos.buy \in Int /\ price \in Int
    <3>1. pos \in Position
      BY <1>12 DEF SellFilled, Shape
    <3> QED BY <3>1, PriceType DEF Position
  <2> QED BY <1>12, <2>1 DEF SellFilled, store
<1>13. CASE SellRefused
  BY <1>13 DEF SellRefused, store, history
<1>14. CASE SellAnswerLost
  BY <1>14 DEF SellAnswerLost, Fault, store
<1>15. CASE RecordSell
  <2>1. [id |-> pos.id, day |-> today] \in Closing
    BY <1>15 DEF RecordSell, Shape, Position, Closing
  <2>2. ledger' \in Seq(Closing)
    BY <1>15, <2>1 DEF RecordSell
  <2>3. pos' \in Position \cup {None} /\ faults' \in Nat
    BY <1>15 DEF RecordSell, Fault
  <2> QED BY <1>15, <2>2, <2>3 DEF RecordSell
<1>16. CASE ClearRow
  BY <1>16 DEF ClearRow, Fault, history
<1>17. CASE NewDay
  <2>1. UNCHANGED <<price, pos, pnl_today, day, row, ledger>> /\ pc' \in Phase
    BY <1>17 DEF NewDay, store
  <2>2. today' \in Nat
    BY <1>17 DEF NewDay
  <2>3. opened' \in Nat
    BY <1>17 DEF NewDay
  <2>4. realised' \in Int
    BY <1>17 DEF NewDay
  <2>5. forgot' \in BOOLEAN
    BY <1>17 DEF NewDay
  <2> QED BY <1>17, <2>1, <2>2, <2>3, <2>4, <2>5 DEF NewDay
<1>18. CASE Crash
  <2>1. Stale => row.id \in Nat
    BY DEF Stale, Row
  <2>2. revived' \subseteq Nat
    BY <1>18, <2>1 DEF Crash
  <2>3. gap' \in BOOLEAN
    BY <1>18 DEF Crash, Unsaved, Stale
  <2>4. orphans' \in Nat /\ holds' \in Int /\ crashes' \in Nat
    BY <1>18 DEF Crash
  <2>5. pc' \in Phase /\ pos' = None /\ pnl_today' \in Int /\ forgot' \in BOOLEAN
    BY <1>18 DEF Crash
  <2>6. UNCHANGED <<price, day, row, ledger, paper, today, lots, faults, opened, realised>>
    BY <1>18 DEF Crash, store
  <2> QED BY <2>2, <2>3, <2>4, <2>5, <2>6
<1> QED
  BY <1>1, <1>2, <1>3, <1>4, <1>5, <1>6, <1>7, <1>8, <1>9, <1>10, <1>11, <1>12,
     <1>13, <1>14, <1>15, <1>16, <1>17, <1>18, <1>r DEF Next, Trade
-----------------------------------------------------------------------------
\* A purchase opens a position with a number of its own.
LEMMA BuyOpens ==
  ASSUME TypeOK, NEW q \in Price, BuyFilled(q)
  PROVE  /\ pos' \in Position /\ pos' # None /\ pos'.id = lots + 1
<1>1. pos' = Opened(lots + 1, q, price) /\ lots + 1 \in Nat /\ price \in Price
  BY DEF BuyFilled, TypeOK
<1>2. pos' \in Position /\ pos' # None
  BY <1>1, OpenedType, NoneIsNothing
<1> QED BY <1>1, <1>2 DEF Opened

\* No step leaves a phase with the wrong idea of the position.
LEMMA StepShape == TypeOK /\ Shape /\ [Next]_vars => Shape'
<1> SUFFICES ASSUME TypeOK, Shape, [Next]_vars PROVE Shape'
  OBVIOUS
<1> USE DEF Shape
<1>1. CASE UNCHANGED vars
  BY <1>1 DEF vars, bot
<1>2. CASE Start \/ CheckDayReset \/ TickWithoutData \/ Pause
  BY <1>2 DEF Start, CheckDayReset, TickWithoutData, Pause
<1>3. ASSUME NEW p \in Price, Tick(p) PROVE Shape'
  <2>1. pos = None \/ pos' # None
    BY <1>3, RaisedType, NoneIsNothing DEF Tick, TypeOK
  <2> QED BY <1>3, <2>1 DEF Tick
<1>4. CASE DecideExit \/ DecideEntry
  BY <1>4 DEF DecideExit, DecideEntry
<1>5. ASSUME NEW q \in Price, BuyFilled(q) PROVE Shape'
  <2>1. pos' # None
    BY <1>5, BuyOpens
  <2> QED BY <1>5, <2>1 DEF BuyFilled
<1>6. CASE BuyRefused \/ BuyAnswerLost \/ BookBuy
  BY <1>6 DEF BuyRefused, BuyAnswerLost, BookBuy
<1>7. CASE SellFilled \/ SellRefused \/ SellAnswerLost
  BY <1>7 DEF SellFilled, SellRefused, SellAnswerLost
<1>8. CASE RecordSell \/ ClearRow
  BY <1>8 DEF RecordSell, ClearRow
<1>9. CASE NewDay \/ Crash
  BY <1>9 DEF NewDay, Crash, bot
<1> QED
  BY <1>1, <1>2, <1>3, <1>4, <1>5, <1>6, <1>7, <1>8, <1>9 DEF Next, Trade

\* A tick neither opens nor closes a position.
LEMMA TickKeepsPosition ==
  ASSUME TypeOK, NEW p \in Price, Tick(p)
  PROVE  /\ pos = None <=> pos' = None
         /\ pos # None => pos'.id = pos.id
         /\ pc' \in {"sell", "warn", "decide"} /\ pc = "fetch"
BY RaisedType, NoneIsNothing DEF Tick, TypeOK

\* Account and books part only where the history says so.
LEMMA StepAgrees ==
  TypeOK /\ Shape /\ AccountAgrees /\ [Next]_vars => AccountAgrees'
<1> SUFFICES ASSUME TypeOK, Shape, AccountAgrees, [Next]_vars, ~gap'
             PROVE  holds' = Believed'
  BY DEF AccountAgrees
<1> USE DEF Believed, TypeOK, Shape
<1>1. CASE UNCHANGED vars
  BY <1>1 DEF vars, bot, store, history, AccountAgrees
<1>2. CASE Start
  <2>1. row # None => Restored(row) # None
    BY RestoredType, NoneIsNothing
  <2>2. ~gap /\ holds = (IF paper \/ row = None THEN 0 ELSE 1)
    BY <1>2 DEF Start, history, AccountAgrees
  <2> QED BY <1>2, <2>1, <2>2 DEF Start
<1>3. CASE CheckDayReset \/ TickWithoutData \/ Pause
  BY <1>3 DEF CheckDayReset, TickWithoutData, Pause, store, history, AccountAgrees
<1>4. ASSUME NEW p \in Price, Tick(p) PROVE holds' = Believed'
  <2>1. UNCHANGED <<holds, gap>>
    BY <1>4 DEF Tick, history
  <2> QED BY <1>4, <2>1, TickKeepsPosition DEF AccountAgrees
<1>5. CASE DecideExit \/ DecideEntry \/ BuyRefused
  BY <1>5 DEF DecideExit, DecideEntry, BuyRefused, history, AccountAgrees
<1>6. ASSUME NEW q \in Price, BuyFilled(q) PROVE holds' = Believed'
  <2>1. pos' # None
    BY <1>6, BuyOpens
  <2>2. holds = 0
    BY <1>6 DEF BuyFilled, AccountAgrees
  <2>3. holds' = holds + 1 /\ pc' = "bought"
    BY <1>6 DEF BuyFilled
  <2> QED BY <2>1, <2>2, <2>3
<1>7. CASE BookBuy \/ SellRefused \/ ClearRow
  BY <1>7 DEF BookBuy, SellRefused, ClearRow, history, AccountAgrees
<1>8. CASE SellFilled
  <2>1. holds = 1
    BY <1>8 DEF SellFilled, AccountAgrees
  <2>2. holds' = holds - 1 /\ pc' = "sold"
    BY <1>8 DEF SellFilled
  <2> QED BY <2>1, <2>2
<1>9. CASE BuyAnswerLost \/ SellAnswerLost
  BY <1>9 DEF BuyAnswerLost, SellAnswerLost
<1>10. CASE RecordSell
  <2>1. pos' = None /\ pc' = "clear" /\ UNCHANGED <<gap, holds>>
    BY <1>10 DEF RecordSell
  <2>2. holds = 0
    BY <1>10, <2>1 DEF RecordSell, AccountAgrees
  <2> QED BY <2>1, <2>2
<1>11. CASE NewDay
  BY <1>11 DEF NewDay, bot, store, AccountAgrees
<1>12. CASE Crash
  <2>1. CASE paper
    BY <1>12, <2>1 DEF Crash, store
  <2>2. CASE ~paper
    <3>1. ~gap /\ pc # "sold" /\ (pos = None <=> row = None) /\ pc # "down"
      BY <1>12, <2>2 DEF Crash, Unsaved, Stale
    <3>2. holds = IF row = None THEN 0 ELSE 1
      BY <3>1 DEF AccountAgrees
    <3> QED BY <1>12, <2>2, <3>2 DEF Crash, store
  <2> QED BY <2>1, <2>2
<1> QED
  BY <1>1, <1>2, <1>3, <1>4, <1>5, <1>6, <1>7, <1>8, <1>9, <1>10, <1>11, <1>12
  DEF Next, Trade
-----------------------------------------------------------------------------
\* The account never holds more than the lost lots and the one position known.
LEMMA StepKnown ==
  TypeOK /\ Shape /\ AccountAgrees /\ HoldingsKnown /\ [Next]_vars => HoldingsKnown'
<1> SUFFICES ASSUME TypeOK, Shape, AccountAgrees, HoldingsKnown, [Next]_vars
             PROVE  HoldingsKnown'
  OBVIOUS
<1> USE DEF HoldingsKnown, Claim, TypeOK, Shape
<1>1. CASE UNCHANGED vars
  BY <1>1 DEF vars, bot, store, history
<1>2. CASE Start
  <2>1. row # None => pos' # None
    BY <1>2, RestoredType, NoneIsNothing DEF Start
  <2> QED BY <1>2, <2>1 DEF Start, store, history
<1>3. CASE CheckDayReset \/ TickWithoutData \/ Pause
  BY <1>3 DEF CheckDayReset, TickWithoutData, Pause, store, history
<1>4. ASSUME NEW p \in Price, Tick(p) PROVE HoldingsKnown'
  <2>1. UNCHANGED <<holds, orphans>>
    BY <1>4 DEF Tick, history
  <2> QED BY <1>4, <2>1, TickKeepsPosition
<1>5. CASE DecideExit \/ DecideEntry \/ BuyRefused
  BY <1>5 DEF DecideExit, DecideEntry, BuyRefused, history
<1>6. ASSUME NEW q \in Price, BuyFilled(q) PROVE HoldingsKnown'
  <2>1. pos' # None
    BY <1>6, BuyOpens
  <2> QED BY <1>6, <2>1 DEF BuyFilled
<1>7. CASE BookBuy \/ SellRefused \/ ClearRow
  BY <1>7 DEF BookBuy, SellRefused, ClearRow, history
<1>8. CASE SellFilled \/ SellAnswerLost
  BY <1>8 DEF SellFilled, SellAnswerLost
<1>9. CASE BuyAnswerLost \/ RecordSell
  BY <1>9 DEF BuyAnswerLost, RecordSell
<1>10. CASE NewDay
  BY <1>10 DEF NewDay, bot, store
<1>11. CASE Crash
  BY <1>11 DEF Crash, Unsaved, store
<1> QED
  BY <1>1, <1>2, <1>3, <1>4, <1>5, <1>6, <1>7, <1>8, <1>9, <1>10, <1>11
  DEF Next, Trade

\* A loss beyond the limit is seen by the next tick, before any purchase.
LEMMA StepLoss == TypeOK /\ Shape /\ LossSeen /\ [Next]_vars => LossSeen'
<1> SUFFICES ASSUME TypeOK, Shape, LossSeen, [Next]_vars PROVE LossSeen'
  OBVIOUS
<1>0. LossLimit \in Nat \ {0}
  BY ParameterAssumption DEF ParameterAssumption
<1> USE <1>0 DEF LossSeen, TypeOK, Shape
<1>1. CASE UNCHANGED vars
  BY <1>1 DEF vars, bot, history
<1>2. CASE Start
  BY <1>2 DEF Start
<1>3. CASE CheckDayReset \/ TickWithoutData \/ Pause
  BY <1>3 DEF CheckDayReset, TickWithoutData, Pause, history
<1>4. ASSUME NEW p \in Price, Tick(p) PROVE LossSeen'
  <2>1. UNCHANGED <<pnl_today, gap>>
    BY <1>4 DEF Tick, history
  <2>2. pc' = "warn" => pnl_today <= -LossLimit
    BY <1>4 DEF Tick
  <2>3. pc' = "decide" => pnl_today > -LossLimit
    BY <1>4 DEF Tick
  <2> QED BY <1>4, <2>1, <2>2, <2>3, TickKeepsPosition
<1>5. CASE DecideExit \/ DecideEntry \/ BuyRefused
  BY <1>5 DEF DecideExit, DecideEntry, BuyRefused, history
<1>6. ASSUME NEW q \in Price, BuyFilled(q) PROVE LossSeen'
  BY <1>6 DEF BuyFilled
<1>7. CASE BookBuy \/ SellRefused \/ ClearRow
  BY <1>7 DEF BookBuy, SellRefused, ClearRow, history
<1>8. CASE BuyAnswerLost \/ SellAnswerLost \/ RecordSell
  BY <1>8 DEF BuyAnswerLost, SellAnswerLost, RecordSell
<1>9. CASE SellFilled
  BY <1>9 DEF SellFilled
<1>10. CASE NewDay \/ Crash
  BY <1>10 DEF NewDay, Crash, bot
<1> QED
  BY <1>1, <1>2, <1>3, <1>4, <1>5, <1>6, <1>7, <1>8, <1>9, <1>10 DEF Next, Trade

\* What the bot counts for today is what today's sales brought.
LEMMA StepCount ==
  TypeOK /\ Shape /\ CountIsResult /\ [Next]_vars => CountIsResult'
<1> SUFFICES ASSUME TypeOK, Shape, CountIsResult, [Next]_vars PROVE CountIsResult'
  OBVIOUS
<1> USE DEF CountIsResult, TypeOK
<1>1. CASE UNCHANGED vars
  BY <1>1 DEF vars, bot, history
<1>2. CASE Start
  BY <1>2 DEF Start, history
<1>3. CASE CheckDayReset
  BY <1>3 DEF CheckDayReset, history
<1>4. CASE TickWithoutData \/ Pause
  BY <1>4 DEF TickWithoutData, Pause, history
<1>5. ASSUME NEW p \in Price, Tick(p) PROVE CountIsResult'
  <2>1. pc' # "down"
    BY <1>5, TickKeepsPosition
  <2> QED BY <1>5, <2>1 DEF Tick, history
<1>6. CASE DecideExit \/ DecideEntry \/ BuyRefused
  BY <1>6 DEF DecideExit, DecideEntry, BuyRefused, history
<1>7. CASE BookBuy \/ SellRefused \/ ClearRow
  BY <1>7 DEF BookBuy, SellRefused, ClearRow, history
<1>8. ASSUME NEW q \in Price, BuyFilled(q) PROVE CountIsResult'
  BY <1>8 DEF BuyFilled
<1>9. CASE BuyAnswerLost \/ SellAnswerLost \/ RecordSell
  BY <1>9 DEF BuyAnswerLost, SellAnswerLost, RecordSell
<1>10. CASE SellFilled
  <2>1. price - pos.buy \in Int
    <3>1. pos \in Position
      BY <1>10 DEF SellFilled, Shape
    <3> QED BY <3>1, PriceType DEF Position
  <2> QED BY <1>10, <2>1 DEF SellFilled
<1>11. CASE NewDay
  <2>1. (pc' = "down" => pc = "down") /\ pnl_today' = pnl_today
    BY <1>11 DEF NewDay
  <2>2. today' = today + 1 /\ realised' = 0 /\ day' = day
    BY <1>11 DEF NewDay
  <2> QED BY <2>1, <2>2
<1>12. CASE Crash
  BY <1>12 DEF Crash
<1> QED
  BY <1>1, <1>2, <1>3, <1>4, <1>5, <1>6, <1>7, <1>8, <1>9, <1>10, <1>11, <1>12
  DEF Next, Trade
-----------------------------------------------------------------------------
\* The stop only tightens, and tightening twice is tightening.
LEMMA TightensIsOrder ==
  /\ \A r \in Row : RowPromise!Tightens(r, r)
  /\ \A r, s, t \in Row :
       RowPromise!Tightens(r, s) /\ RowPromise!Tightens(s, t) => RowPromise!Tightens(r, t)
BY PriceType DEF Row, RowPromise!Tightens

\* Memory stays ahead of the storage, purchase by purchase.
LEMMA StepRow == TypeOK /\ Shape /\ RowFollows /\ [Next]_vars => RowFollows'
<1> SUFFICES ASSUME TypeOK, Shape, RowFollows, [Next]_vars PROVE RowFollows'
  OBVIOUS
<1>1. ASSUME UNCHANGED <<pos, row, lots>> PROVE RowFollows'
  BY <1>1 DEF RowFollows, Unsaved
<1>2. ASSUME pos' = None, row' \in {row, None}, lots' \in {lots, lots + 1}
      PROVE  RowFollows'
  BY <1>2 DEF RowFollows, Unsaved, TypeOK, Row
<1>3. ASSUME pos # None, row' = RowOf(pos), UNCHANGED <<pos, lots>>
      PROVE  RowFollows'
  <2>1. pos \in Position /\ row' \in Row /\ row'.id = pos.id
    BY <1>3, RowType DEF TypeOK
  <2>2. RowPromise!Tightens(row', RowOf(pos'))
    BY <1>3, <2>1, TightensIsOrder
  <2>3. pos.id <= lots /\ row' # None
    BY <1>3, <2>1, NoneIsNothing DEF RowFollows
  <2>4. ~Unsaved'
    BY <1>3, <2>1, <2>3 DEF Unsaved
  <2>5. row'.id <= lots' /\ pos'.id <= lots'
    BY <1>3, <2>1, <2>3
  <2> QED BY <2>2, <2>4, <2>5 DEF RowFollows
<1>4. CASE UNCHANGED vars
  BY <1>1, <1>4 DEF vars, bot, store
<1>5. CASE Start
  <2>1. CASE row = None
    BY <1>2, <1>5, <2>1 DEF Start, store
  <2>2. CASE row # None
    <3>1. row \in Row /\ pos' = Restored(row) /\ UNCHANGED <<row, lots>>
      BY <1>5, <2>2 DEF Start, store, TypeOK
    <3>2. pos' # None /\ pos' \in Position /\ RowOf(pos') = row
      BY <3>1, RestoredType, NoneIsNothing
    <3>3. pos'.id = row.id
      BY <3>2, RowType
    <3>4. RowPromise!Tightens(row', RowOf(pos'))
      BY <3>1, <3>2, TightensIsOrder
    <3> QED BY <2>2, <3>1, <3>3, <3>4 DEF RowFollows, Unsaved
  <2> QED BY <2>1, <2>2
<1>6. CASE CheckDayReset \/ TickWithoutData \/ Pause \/ DecideEntry \/ BuyRefused
  BY <1>1, <1>6 DEF CheckDayReset, TickWithoutData, Pause, DecideEntry, BuyRefused, store
<1>7. ASSUME NEW p \in Price, Tick(p) PROVE RowFollows'
  <2>1. UNCHANGED <<row, lots>>
    BY <1>7 DEF Tick, store
  <2>2. CASE pos = None
    BY <1>7, <2>1, <2>2, <1>1 DEF Tick
  <2>3. CASE pos # None
    <3>1. pos \in Position /\ pos' = Raised(pos, p)
      BY <1>7, <2>3 DEF Tick, TypeOK
    <3>2. /\ pos' \in Position /\ pos'.id = pos.id
          /\ RowPromise!Tightens(RowOf(pos), RowOf(pos'))
      BY <3>1, RaisedType
    <3>3. RowOf(pos) \in Row /\ RowOf(pos') \in Row
      BY <3>1, <3>2, RowType
    <3>4. row # None /\ row.id = pos.id => RowPromise!Tightens(row, RowOf(pos'))
      BY <2>3, <3>2, <3>3, TightensIsOrder DEF RowFollows, TypeOK
    <3> QED BY <2>1, <2>3, <3>2, <3>4 DEF RowFollows, Unsaved
  <2> QED BY <2>2, <2>3
<1>8. CASE DecideExit
  BY <1>1, <1>3, <1>8 DEF DecideExit
<1>9. ASSUME NEW q \in Price, BuyFilled(q) PROVE RowFollows'
  <2>1. /\ pos' # None /\ pos'.id = lots + 1 /\ lots' = lots + 1 /\ row' = row
    BY <1>9, BuyOpens DEF BuyFilled, store
  <2>2. row # None => row.id \in Nat /\ row.id <= lots
    BY DEF RowFollows, TypeOK, Row
  <2>3. lots \in Nat
    BY DEF TypeOK
  <2>4. row' # None => row'.id <= lots' /\ row'.id # pos'.id
    BY <2>1, <2>2, <2>3
  <2>5. pos'.id <= lots' /\ pos'.id = lots'
    BY <2>1, <2>3
  <2> QED BY <2>4, <2>5 DEF RowFollows
<1>10. CASE BuyAnswerLost
  BY <1>2, <1>10 DEF BuyAnswerLost, Shape, store
<1>11. CASE BookBuy
  BY <1>1, <1>3, <1>11 DEF BookBuy, Shape
<1>12. CASE SellFilled \/ SellRefused \/ SellAnswerLost
  BY <1>1, <1>12 DEF SellFilled, SellRefused, SellAnswerLost, store
<1>13. CASE RecordSell
  BY <1>1, <1>2, <1>13 DEF RecordSell
<1>14. CASE ClearRow
  BY <1>2, <1>14 DEF ClearRow, Shape
<1>15. CASE NewDay \/ Crash
  BY <1>1, <1>2, <1>15 DEF NewDay, Crash, bot, store
<1> QED
  BY <1>4, <1>5, <1>6, <1>7, <1>8, <1>9, <1>10, <1>11, <1>12, <1>13, <1>14, <1>15
  DEF Next, Trade
-----------------------------------------------------------------------------
\* The first state satisfies the invariant.
LEMMA InitInvariant == Init => IInv
<1> SUFFICES ASSUME Init PROVE IInv
  OBVIOUS
<1>1. TypeOK
  BY InitTyped
<1>2. Shape /\ AccountAgrees /\ HoldingsKnown
  BY DEF Init, Shape, AccountAgrees, Believed, HoldingsKnown, Claim
<1>3. LossSeen /\ CountIsResult
  BY DEF Init, LossSeen, CountIsResult
<1>4. RowFollows
  BY DEF Init, RowFollows, Unsaved
<1> QED BY <1>1, <1>2, <1>3, <1>4 DEF IInv

\* The invariant holds of every reachable state.
THEOREM Invariance == Spec => []IInv
<1>1. Init => IInv
  BY InitInvariant
<1>2. IInv /\ [Next]_vars => IInv'
  BY StepTyped, StepShape, StepAgrees, StepKnown, StepLoss, StepCount, StepRow DEF IInv
<1> QED BY <1>1, <1>2, PTL DEF Spec

\* Every variable keeps its type.
THEOREM TypeCorrect == Spec => []TypeOK
<1>1. IInv => TypeOK
  BY DEF IInv
<1> QED BY <1>1, Invariance, PTL

\* Account and books agree except after the failures the model names.
THEOREM AccountIsKnown == Spec => []AccountAgrees
<1>1. IInv => AccountAgrees
  BY DEF IInv
<1> QED BY <1>1, Invariance, PTL

\* A bot that is flat holds nothing but lots it lost track of.
THEOREM FlatHoldsNothing == Spec => []HoldingsBound
<1>1. IInv => HoldingsBound
  BY DEF IInv, HoldingsKnown, Claim, HoldingsBound, TypeOK, Shape
<1> QED BY <1>1, Invariance, PTL

\* The pause until midnight is taken flat.
THEOREM PausesFlat == Spec => []PauseIsFlat
<1>1. IInv => PauseIsFlat
  BY DEF IInv, LossSeen, PauseIsFlat
<1> QED BY <1>1, Invariance, PTL

\* No order to buy follows the daily limit's loss, memory permitting.
THEOREM LossStopsEntries == Spec => []NoEntryAfterLoss
<1>1. IInv => NoEntryAfterLoss
  BY ParameterAssumption
  DEF IInv, LossSeen, CountIsResult, NoEntryAfterLoss, ParameterAssumption, TypeOK
<1> QED BY <1>1, Invariance, PTL
-----------------------------------------------------------------------------
\* Every step of the bot is one of the stored position's, or invisible to it.
LEMMA StepTightens == IInv /\ [Next]_vars => [RowPromise!Next]_<<row, lots>>
<1> SUFFICES ASSUME IInv, [Next]_vars PROVE [RowPromise!Next]_<<row, lots>>
  OBVIOUS
<1> USE DEF IInv
<1>1. ASSUME pos # None, row' = RowOf(pos), UNCHANGED lots
      PROVE  RowPromise!Next
  <2>1. pos \in Position /\ row' \in Row /\ row'.id = pos.id
    BY <1>1, RowType DEF TypeOK
  <2>2. CASE Unsaved
    <3>1. row'.id = lots /\ (row = None \/ row.id < lots)
      BY <2>1, <2>2 DEF RowFollows, Unsaved, TypeOK, Row
    <3>2. row' \in RowPromise!Row
      BY <2>1 DEF Row, RowPromise!Row
    <3> QED BY <1>1, <3>1, <3>2 DEF RowPromise!Next, RowPromise!Open
  <2>3. CASE ~Unsaved
    <3>1. row # None /\ RowPromise!Tightens(row, row')
      BY <1>1, <2>3 DEF RowFollows, Unsaved
    <3>2. row' \in RowPromise!Row
      BY <2>1 DEF Row, RowPromise!Row
    <3> QED BY <1>1, <3>1, <3>2 DEF RowPromise!Next, RowPromise!Tighten
  <2> QED BY <2>2, <2>3
<1>2. ASSUME UNCHANGED row, lots' = lots + 1 PROVE RowPromise!Next
  BY <1>2 DEF RowPromise!Next, RowPromise!Purchase
<1>3. CASE UNCHANGED vars
  BY <1>3 DEF vars, store
<1>4. CASE Start \/ CheckDayReset \/ TickWithoutData \/ Pause \/ DecideEntry \/ BuyRefused
  BY <1>4 DEF Start, CheckDayReset, TickWithoutData, Pause, DecideEntry, BuyRefused, store
<1>5. ASSUME NEW p \in Price, Tick(p) PROVE UNCHANGED <<row, lots>>
  BY <1>5 DEF Tick, store
<1>6. CASE DecideExit
  BY <1>1, <1>6 DEF DecideExit
<1>7. ASSUME NEW q \in Price, BuyFilled(q) PROVE RowPromise!Next
  BY <1>2, <1>7 DEF BuyFilled, store
<1>8. CASE BuyAnswerLost
  BY <1>2, <1>8 DEF BuyAnswerLost, store
<1>9. CASE BookBuy
  BY <1>1, <1>9 DEF BookBuy, Shape
<1>10. CASE SellFilled \/ SellRefused \/ SellAnswerLost \/ RecordSell
  BY <1>10 DEF SellFilled, SellRefused, SellAnswerLost, RecordSell, store
<1>11. CASE ClearRow
  BY <1>11 DEF ClearRow, RowPromise!Next, RowPromise!Close
<1>12. CASE NewDay \/ Crash
  BY <1>12 DEF NewDay, Crash, store
<1> QED
  BY <1>3, <1>4, <1>5, <1>6, <1>7, <1>8, <1>9, <1>10, <1>11, <1>12 DEF Next, Trade

\* The stored position of the bot implements PositionRow.
THEOREM StorageKeepsPromise == Spec => RowTightens
<1>1. Init => RowPromise!Init
  BY DEF Init, RowPromise!Init
<1>2. IInv /\ [Next]_vars => [RowPromise!Next]_<<row, lots>>
  BY StepTightens
<1> QED BY <1>1, <1>2, Invariance, PTL DEF Spec, RowTightens, RowPromise!Spec
-----------------------------------------------------------------------------
\* Whether the result of purchase x is stored.
Booked(x) == \E i \in 1..Len(ledger) : ledger[i].id = x

\* A booked purchase is back only if its row outlived the sale; a row that will
\* bring one back is marked when the process dies.
BookingOK ==
  /\ \A i \in 1..Len(ledger) : ledger[i].id <= lots
  /\ pos # None /\ Booked(pos.id) => pos.id \in revived
  /\ pc = "down" /\ row # None /\ Booked(row.id) => row.id \in revived
  /\ BookedOnce

\* One purchase of today may be open, in memory or, after a death, in the row.
OpenLots ==
  CASE pc = "down" -> IF row = None THEN 0 ELSE 1
    [] OTHER -> IF pos = None THEN 0 ELSE 1

\* What was opened today is stored as closed today, open or lost; an entry that
\* is decided has room for it.
OpeningsCounted ==
  /\ opened <= ClosedOn(today) + OpenLots + orphans
  /\ pc \in {"fetch", "decide", "buy"} /\ day # today => opened = 0
  /\ pc = "buy" /\ MaxTradesPerDay > 0 => opened < MaxTradesPerDay + orphans
  /\ OpenedPerDay

LedgerInv == IInv /\ BookingOK /\ OpeningsCounted
-----------------------------------------------------------------------------
\* The trades counted for a day are a number, and storing one more counts for
\* its own day only.
LEMMA ClosedType ==
  ASSUME TypeOK, NEW d PROVE ClosedOn(d) \in Nat
<1> DEFINE S == {i \in 1..Len(ledger) : ledger[i].day = d}
<1>1. Len(ledger) \in Nat
  BY DEF TypeOK
<1>2. IsFiniteSet(1..Len(ledger))
  BY <1>1, FS_Interval
<1>3. IsFiniteSet(S)
  BY <1>2, FS_Subset
<1> QED BY <1>3, FS_CardinalityType DEF ClosedOn

LEMMA BookedType ==
  ASSUME TypeOK PROVE \A i \in 1..Len(ledger) : ledger[i].id \in Nat
<1>1. ASSUME NEW i \in 1..Len(ledger) PROVE ledger[i] \in Closing
  BY <1>1 DEF TypeOK
<1> QED BY <1>1 DEF Closing

LEMMA AppendCloses ==
  ASSUME TypeOK, NEW x \in Nat,
         ledger' = Append(ledger, [id |-> x, day |-> today]), today' = today
  PROVE  /\ ClosedOn(today)' = ClosedOn(today) + 1
         /\ Len(ledger') = Len(ledger) + 1 /\ Len(ledger) \in Nat
         /\ \A i \in 1..Len(ledger) : ledger'[i] = ledger[i]
         /\ ledger'[Len(ledger')].id = x
<1> DEFINE n == Len(ledger)
           e == [id |-> x, day |-> today]
           S == {i \in 1..n : ledger[i].day = today}
<1>1. ledger \in Seq(Closing) /\ n \in Nat /\ e \in Closing
  BY DEF TypeOK, Closing
<1>2. /\ Len(ledger') = n + 1
      /\ \A i \in 1..n : ledger'[i] = ledger[i]
      /\ ledger'[n + 1] = e
  BY <1>1
<1>3. {i \in 1..Len(ledger') : ledger'[i].day = today'} = S \cup {n + 1}
  <2>1. e.day = today
    OBVIOUS
  <2>2. 1..(n + 1) = 1..n \cup {n + 1}
    BY <1>1
  <2> QED BY <1>1, <1>2, <2>1, <2>2
<1>4. IsFiniteSet(S) /\ n + 1 \notin S
  <2>1. IsFiniteSet(1..n)
    BY <1>1, FS_Interval
  <2> QED BY <1>1, <2>1, FS_Subset
<1>5. Cardinality(S \cup {n + 1}) = Cardinality(S) + 1
  BY <1>4, FS_AddElement
<1>6. ClosedOn(today)' = ClosedOn(today) + 1
  BY <1>3, <1>5 DEF ClosedOn
<1>7. ledger'[Len(ledger')].id = x
  BY <1>2
<1> QED BY <1>1, <1>2, <1>6, <1>7
-----------------------------------------------------------------------------
\* A purchase that is booked stays out of memory, unless its row brought it back.
LEMMA StepBooking == IInv /\ BookingOK /\ [Next]_vars => BookingOK'
<1> SUFFICES ASSUME IInv, BookingOK, [Next]_vars PROVE BookingOK'
  OBVIOUS
<1>0. TypeOK /\ Shape /\ lots \in Nat
  BY DEF IInv, TypeOK
<1>1. ASSUME UNCHANGED ledger, lots' \in {lots, lots + 1}, revived \subseteq revived'
      PROVE  /\ \A i \in 1..Len(ledger') : ledger'[i].id <= lots'
             /\ BookedOnce'
             /\ \A x : Booked(x)' = Booked(x)
  <2>1. \A i \in 1..Len(ledger) : ledger[i].id \in Nat
    BY <1>0, BookedType
  <2> QED BY <1>0, <1>1, <2>1 DEF BookingOK, BookedOnce, Booked
<1>2. ASSUME UNCHANGED <<ledger, revived>>, lots' \in {lots, lots + 1}, pc' # "down",
             pos' = None \/ (pos # None /\ pos'.id = pos.id)
      PROVE  BookingOK'
  BY <1>1, <1>2 DEF BookingOK
<1>3. CASE UNCHANGED vars
  <2>1. UNCHANGED <<ledger, lots, revived, pc, pos, row>>
    BY <1>3 DEF vars, bot, store, history
  <2> QED BY <1>1, <2>1 DEF BookingOK
<1>4. CASE Start
  <2>1. UNCHANGED <<ledger, lots, revived>> /\ pc = "down" /\ pc' = "idle"
    BY <1>4 DEF Start, store, history
  <2>2. pos' # None => row # None /\ pos'.id = row.id
    BY <1>4 DEF Start, Restored
  <2> QED BY <1>1, <2>1, <2>2 DEF BookingOK
<1>5. CASE CheckDayReset \/ TickWithoutData \/ Pause \/ DecideEntry \/ BuyRefused
  BY <1>2, <1>5 DEF CheckDayReset, TickWithoutData, Pause, DecideEntry, BuyRefused, store, history
<1>6. ASSUME NEW p \in Price, Tick(p) PROVE BookingOK'
  <2>1. UNCHANGED <<ledger, lots, revived>>
    BY <1>6 DEF Tick, store, history
  <2> QED BY <1>0, <1>2, <1>6, <2>1, TickKeepsPosition
<1>7. CASE DecideExit \/ BookBuy
  BY <1>2, <1>7 DEF DecideExit, BookBuy, history
<1>8. ASSUME NEW q \in Price, BuyFilled(q) PROVE BookingOK'
  <2>1. UNCHANGED <<ledger, revived>> /\ lots' = lots + 1 /\ pc' = "bought"
    BY <1>8 DEF BuyFilled, store
  <2>2. pos'.id = lots + 1
    BY <1>0, <1>8, BuyOpens
  <2>3. ~Booked(lots + 1)
    <3>1. \A i \in 1..Len(ledger) : ledger[i].id \in Nat
      BY <1>0, BookedType
    <3> QED BY <1>0, <3>1 DEF BookingOK, Booked
  <2> QED BY <1>1, <2>1, <2>2, <2>3 DEF BookingOK
<1>9. CASE BuyAnswerLost
  BY <1>0, <1>2, <1>9 DEF BuyAnswerLost, store, Shape
<1>10. CASE SellFilled \/ SellRefused \/ SellAnswerLost
  BY <1>0, <1>2, <1>10 DEF SellFilled, SellRefused, SellAnswerLost, store, history, Shape
<1>11. CASE ClearRow
  BY <1>0, <1>2, <1>11 DEF ClearRow, store, history, Shape
<1>12. CASE RecordSell
  <2>1. CASE UNCHANGED ledger
    <3>1. UNCHANGED <<ledger, pos, lots, revived>> \/ pos' = None
      BY <1>12, <2>1 DEF RecordSell
    <3> QED BY <1>0, <1>2, <1>12, <2>1, <3>1 DEF RecordSell, Shape
  <2>2. CASE ledger' = Append(ledger, [id |-> pos.id, day |-> today]) /\ pos' = None
    <3>1. pos \in Position /\ pos # None /\ pos.id \in Nat /\ pos.id <= lots
      BY <1>0, <1>12 DEF RecordSell, Shape, TypeOK, Position, IInv, RowFollows
    <3>2. UNCHANGED <<lots, revived, today>> /\ pc' # "down"
      BY <1>12 DEF RecordSell
    <3>3. /\ Len(ledger') = Len(ledger) + 1 /\ Len(ledger) \in Nat
          /\ \A i \in 1..Len(ledger) : ledger'[i] = ledger[i]
          /\ ledger'[Len(ledger')].id = pos.id
      BY <1>0, <2>2, <3>1, <3>2, AppendCloses
    <3>4. \A i \in 1..Len(ledger') : i \in 1..Len(ledger) \/ i = Len(ledger')
      BY <3>3
    <3>5. \A i \in 1..Len(ledger') : ledger'[i].id <= lots'
      BY <3>1, <3>2, <3>3, <3>4 DEF BookingOK
    <3>6. ASSUME NEW i \in 1..Len(ledger'), NEW j \in 1..Len(ledger'), i < j,
                 ledger'[i].id = ledger'[j].id
          PROVE  ledger'[i].id \in revived'
      <4>1. i \in 1..Len(ledger)
        BY <3>3, <3>6
      <4>2. CASE j \in 1..Len(ledger)
        BY <3>2, <3>3, <3>6, <4>1, <4>2 DEF BookingOK, BookedOnce
      <4>3. CASE j = Len(ledger')
        <5>1. ledger[i].id = pos.id
          BY <3>3, <3>6, <4>1, <4>3
        <5>2. Booked(pos.id)
          BY <4>1, <5>1 DEF Booked
        <5> QED BY <3>1, <3>2, <3>3, <4>1, <5>1, <5>2 DEF BookingOK
      <4> QED BY <3>4, <4>2, <4>3
    <3>7. BookedOnce'
      BY <3>6 DEF BookedOnce
    <3> QED BY <2>2, <3>2, <3>5, <3>7 DEF BookingOK
  <2> QED BY <1>12, <2>1, <2>2 DEF RecordSell
<1>13. CASE NewDay
  <2>1. /\ UNCHANGED <<ledger, lots, revived, pos, row>>
        /\ pc' = (IF pc = "paused" THEN "idle" ELSE pc)
    BY <1>13 DEF NewDay, store
  <2> QED BY <1>1, <2>1 DEF BookingOK
<1>14. CASE Crash
  <2>1. /\ UNCHANGED <<ledger, lots, row>> /\ pc # "down" /\ pos' = None
        /\ revived \subseteq revived' /\ (Stale => row.id \in revived')
    BY <1>14 DEF Crash, store
  <2>2. ASSUME row # None, Booked(row.id) PROVE row.id \in revived'
    <3>1. CASE Stale
      BY <2>1, <3>1
    <3>2. CASE ~Stale
      BY <2>1, <2>2, <3>2 DEF Stale, BookingOK
    <3> QED BY <3>1, <3>2
  <2> QED BY <1>1, <2>1, <2>2 DEF BookingOK
<1> QED
  BY <1>3, <1>4, <1>5, <1>6, <1>7, <1>8, <1>9, <1>10, <1>11, <1>12, <1>13, <1>14
  DEF Next, Trade
-----------------------------------------------------------------------------
\* Every purchase of today is stored as closed, open, or among the lost ones.
LEMMA StepOpenings == IInv /\ OpeningsCounted /\ [Next]_vars => OpeningsCounted'
<1> SUFFICES ASSUME IInv, OpeningsCounted, [Next]_vars PROVE OpeningsCounted'
  OBVIOUS
<1>0. TypeOK /\ Shape /\ MaxTradesPerDay \in Nat
  BY ParameterAssumption DEF IInv, ParameterAssumption
<1>t. /\ opened \in Nat /\ orphans \in Nat /\ OpenLots \in {0, 1}
      /\ today \in Nat /\ lots \in Nat
  BY <1>0 DEF TypeOK, OpenLots
<1>c. ClosedOn(today) \in Nat
  BY <1>0, ClosedType
\* a step that opens nothing and loses no open purchase
<1>1. ASSUME UNCHANGED <<ledger, today, opened>>, OpenLots + orphans <= OpenLots' + orphans',
             orphans' \in Nat, orphans <= orphans', OpenLots' \in {0, 1},
             pc' \in {"fetch", "decide", "buy"} => pc = pc' /\ day' = day
      PROVE  OpeningsCounted'
  <2>0. PICK n \in Nat : opened' = opened /\ orphans' = n /\ orphans <= n
    BY <1>1
  <2>1. ClosedOn(today)' = ClosedOn(today)
    BY <1>1 DEF ClosedOn
  <2>2. opened' <= ClosedOn(today)' + OpenLots' + orphans'
    <3>1. PICK x \in Nat, c \in Nat, l \in Int, o \in Nat :
            opened = x /\ ClosedOn(today) = c /\ OpenLots = l /\ orphans = o
      BY <1>t, <1>c
    <3>2. PICK k \in Int : OpenLots' = k
      BY <1>1
    <3>3. x <= c + l + o /\ l + o <= k + n
      BY <1>1, <2>0, <3>1, <3>2 DEF OpeningsCounted
    <3>4. x <= c + k + n
      BY <3>3
    <3> QED BY <2>0, <2>1, <3>1, <3>2, <3>4
  <2>3. pc' \in {"fetch", "decide", "buy"} /\ day' # today' => opened' = 0
    BY <1>1 DEF OpeningsCounted
  <2>4. pc' = "buy" /\ MaxTradesPerDay > 0 => opened' < MaxTradesPerDay + orphans'
    <3>1. pc' = "buy" => pc = "buy"
      BY <1>1
    <3> QED BY <2>0, <3>1, <1>0, <1>t DEF OpeningsCounted
  <2>5. OpenedPerDay'
    BY <2>0, <1>0, <1>t DEF OpeningsCounted, OpenedPerDay
  <2> QED BY <2>2, <2>3, <2>4, <2>5 DEF OpeningsCounted
<1>2. ASSUME UNCHANGED <<ledger, today, opened, orphans>>, pc # "down", pc' # "down",
             pos = None <=> pos' = None,
             pc' \in {"fetch", "decide", "buy"} => pc = pc' /\ day' = day
      PROVE  OpeningsCounted'
  BY <1>1, <1>2, <1>t DEF OpenLots
<1>3. CASE UNCHANGED vars
  <2>1. UNCHANGED <<ledger, today, opened, orphans, pc, pos, row, day>>
    BY <1>3 DEF vars, bot, store, history
  <2>2. OpenLots' = OpenLots
    BY <2>1 DEF OpenLots
  <2> QED BY <1>1, <1>t, <2>1, <2>2
<1>4. CASE Start
  <2>1. UNCHANGED <<ledger, today, opened, orphans, row>> /\ pc = "down" /\ pc' = "idle"
    BY <1>4 DEF Start, store, history
  <2>2. pos' = None <=> row = None
    BY <1>0, <1>4, RestoredType, NoneIsNothing DEF Start, TypeOK
  <2>3. OpenLots' = OpenLots
    BY <2>1, <2>2 DEF OpenLots
  <2> QED BY <1>1, <1>t, <2>1, <2>3
<1>5. CASE TickWithoutData \/ Pause \/ BuyRefused
  BY <1>2, <1>5 DEF TickWithoutData, Pause, BuyRefused, store, history
<1>6. ASSUME NEW p \in Price, Tick(p) PROVE OpeningsCounted'
  <2>1. /\ UNCHANGED <<ledger, today, opened, orphans, day>>
        /\ pc = "fetch" /\ pc' \in {"sell", "warn", "decide"}
        /\ (pos = None <=> pos' = None)
    BY <1>0, <1>6, TickKeepsPosition DEF Tick, store, history
  <2>2. OpenLots' = OpenLots /\ ClosedOn(today)' = ClosedOn(today)
    BY <2>1 DEF OpenLots, ClosedOn
  <2> QED BY <2>1, <2>2 DEF OpeningsCounted, OpenedPerDay
<1>r. CASE CheckDayReset
  <2>1. /\ UNCHANGED <<ledger, today, opened, orphans, pos>> /\ day' = today
        /\ pc = "idle" /\ pc' = "fetch"
    BY <1>r DEF CheckDayReset, store, history
  <2>2. OpenLots' = OpenLots /\ ClosedOn(today)' = ClosedOn(today)
    BY <2>1 DEF OpenLots, ClosedOn
  <2> QED BY <2>1, <2>2 DEF OpeningsCounted, OpenedPerDay
<1>7. CASE DecideExit \/ BookBuy
  BY <1>2, <1>7 DEF DecideExit, BookBuy, history
<1>8. CASE DecideEntry
  <2>1. /\ UNCHANGED <<ledger, today, opened, orphans, pos, day>>
        /\ pc = "decide" /\ pos = None
    BY <1>8 DEF DecideEntry, store, history
  <2>2. CASE pc' = "idle"
    BY <1>2, <2>1, <2>2
  <2>3. CASE pc' = "buy" /\ EntryAllowed(day)
    <3>1. OpenLots = 0 /\ OpenLots' = 0 /\ ClosedOn(today)' = ClosedOn(today)
      BY <2>1, <2>3 DEF OpenLots, ClosedOn
    <3>2. ASSUME MaxTradesPerDay > 0 PROVE opened < MaxTradesPerDay + orphans
      <4>1. CASE day = today
        <5>1. ClosedOn(today) < MaxTradesPerDay
          BY <2>3, <3>2, <4>1 DEF EntryAllowed
        <5>2. opened <= ClosedOn(today) + orphans
          BY <3>1, <1>t, <1>c DEF OpeningsCounted
        <5> QED BY <5>1, <5>2, <1>0, <1>t, <1>c
      <4>2. CASE day # today
        <5>1. opened = 0
          BY <2>1, <4>2 DEF OpeningsCounted
        <5> QED BY <5>1, <3>2, <1>0, <1>t
      <4> QED BY <4>1, <4>2
    <3> QED BY <2>1, <2>3, <3>1, <3>2 DEF OpeningsCounted, OpenedPerDay
  <2> QED BY <1>8, <2>2, <2>3 DEF DecideEntry
<1>9. ASSUME NEW q \in Price, BuyFilled(q) PROVE OpeningsCounted'
  <2>1. /\ UNCHANGED <<ledger, today, orphans>> /\ opened' = opened + 1
        /\ pc = "buy" /\ pc' = "bought"
    BY <1>9 DEF BuyFilled, store
  <2>2. pos = None /\ pos' # None
    BY <1>0, <1>9, <2>1, BuyOpens DEF Shape
  <2>3. OpenLots = 0 /\ OpenLots' = 1 /\ ClosedOn(today)' = ClosedOn(today)
    BY <2>1, <2>2 DEF OpenLots, ClosedOn
  <2>4. opened' <= ClosedOn(today)' + OpenLots' + orphans'
    BY <2>1, <2>3, <1>t, <1>c DEF OpeningsCounted
  <2>5. OpenedPerDay'
    BY <2>1, <1>0, <1>t DEF OpeningsCounted, OpenedPerDay
  <2> QED BY <2>1, <2>4, <2>5 DEF OpeningsCounted
<1>10. CASE BuyAnswerLost
  <2>1. /\ UNCHANGED <<ledger, today, pos>> /\ opened' = opened + 1
        /\ orphans' = orphans + 1 /\ pc = "buy" /\ pc' = "idle"
    BY <1>10 DEF BuyAnswerLost, store
  <2>2. OpenLots' = OpenLots /\ ClosedOn(today)' = ClosedOn(today)
    BY <2>1 DEF OpenLots, ClosedOn
  <2>3. opened' <= ClosedOn(today)' + OpenLots' + orphans'
    BY <2>1, <2>2, <1>t, <1>c DEF OpeningsCounted
  <2>4. OpenedPerDay'
    BY <2>1, <1>0, <1>t DEF OpeningsCounted, OpenedPerDay
  <2> QED BY <2>1, <2>3, <2>4 DEF OpeningsCounted
<1>11. CASE SellFilled \/ SellRefused \/ SellAnswerLost
  BY <1>2, <1>11 DEF SellFilled, SellRefused, SellAnswerLost, store, history
<1>12. CASE RecordSell
  <2>1. UNCHANGED <<today, opened, orphans>> /\ pc = "sold" /\ pc' \in {"clear", "idle"}
    BY <1>12 DEF RecordSell
  <2>2. CASE UNCHANGED <<ledger, pos>>
    BY <1>2, <2>1, <2>2
  <2>3. CASE ledger' = Append(ledger, [id |-> pos.id, day |-> today]) /\ pos' = None
    <3>1. pos.id \in Nat
      BY <1>0, <2>1 DEF Shape, TypeOK, Position
    <3>2. ClosedOn(today)' = ClosedOn(today) + 1
      BY <1>0, <2>1, <2>3, <3>1, AppendCloses
    <3>3. OpenLots' = 0
      BY <2>1, <2>3 DEF OpenLots
    <3>4. opened' <= ClosedOn(today)' + OpenLots' + orphans'
      BY <2>1, <3>2, <3>3, <1>t, <1>c DEF OpeningsCounted
    <3> QED BY <2>1, <3>4 DEF OpeningsCounted, OpenedPerDay
  <2> QED BY <1>12, <2>2, <2>3 DEF RecordSell
<1>13. CASE ClearRow
  BY <1>2, <1>13 DEF ClearRow, history
<1>14. CASE NewDay
  <2>1. /\ UNCHANGED <<ledger, orphans, pos, row>> /\ opened' = 0 /\ today' = today + 1
        /\ pc' = (IF pc = "paused" THEN "idle" ELSE pc)
    BY <1>14 DEF NewDay, store
  <2>2. OpenLots' = OpenLots
    BY <2>1 DEF OpenLots
  <2>3. ClosedOn(today)' \in Nat
    <3>1. ClosedOn(today + 1) \in Nat
      BY <1>0, ClosedType
    <3> QED BY <2>1, <3>1 DEF ClosedOn
  <2>4. opened' <= ClosedOn(today)' + OpenLots' + orphans'
    BY <2>1, <2>2, <2>3, <1>t
  <2> QED BY <2>1, <2>4, <1>0, <1>t DEF OpeningsCounted, OpenedPerDay
<1>15. CASE Crash
  <2>1. /\ UNCHANGED <<ledger, today, opened, row>> /\ pc # "down" /\ pc' = "down"
        /\ orphans' = IF Unsaved THEN orphans + 1 ELSE orphans
    BY <1>15 DEF Crash, store
  <2>2. OpenLots = 1 => Unsaved \/ row # None
    BY <2>1 DEF OpenLots, Unsaved
  <2>3. OpenLots' = IF row = None THEN 0 ELSE 1
    BY <2>1 DEF OpenLots
  <2>4. OpenLots + orphans <= OpenLots' + orphans' /\ orphans <= orphans' /\ orphans' \in Nat
    BY <2>1, <2>2, <2>3, <1>t
  <2> QED BY <1>1, <2>1, <2>3, <2>4
<1> QED
  BY <1>3, <1>4, <1>5, <1>6, <1>7, <1>8, <1>9, <1>10, <1>11, <1>12, <1>13, <1>14, <1>15,
     <1>r DEF Next, Trade

\* The ledger's part of the invariant holds of every reachable state.
THEOREM LedgerInvariance == Spec => []LedgerInv
<1>1. Init => LedgerInv
  <2> SUFFICES ASSUME Init PROVE BookingOK /\ OpeningsCounted
    BY InitInvariant DEF LedgerInv
  <2>1. ledger = <<>> /\ Len(ledger) = 0
    BY DEF Init
  <2>2. BookingOK
    BY <2>1 DEF Init, BookingOK, BookedOnce, Booked
  <2>3. OpeningsCounted
    <3>1. ClosedOn(today) \in Nat
      BY InitTyped, ClosedType
    <3>2. opened = 0 /\ orphans = 0 /\ pc = "down" /\ row = None
      BY DEF Init
    <3>3. MaxTradesPerDay \in Nat
      BY ParameterAssumption DEF ParameterAssumption
    <3> QED BY <3>1, <3>2, <3>3 DEF OpeningsCounted, OpenLots, OpenedPerDay
  <2> QED BY <2>2, <2>3
<1>2. LedgerInv /\ [Next]_vars => LedgerInv'
  BY StepTyped, StepShape, StepAgrees, StepKnown, StepLoss, StepCount, StepRow,
     StepBooking, StepOpenings DEF LedgerInv, IInv
<1> QED BY <1>1, <1>2, PTL DEF Spec

\* A sale is stored once, but for the rows that outlived theirs.
THEOREM SalesAreBookedOnce == Spec => []BookedOnce
<1>1. LedgerInv => BookedOnce
  BY DEF LedgerInv, BookingOK
<1> QED BY <1>1, LedgerInvariance, PTL

\* No day sees more purchases than the guard allows and lost records hide.
THEOREM EntriesAreLimited == Spec => []OpenedPerDay
<1>1. LedgerInv => OpenedPerDay
  BY DEF LedgerInv, OpeningsCounted
<1> QED BY <1>1, LedgerInvariance, PTL
=============================================================================
