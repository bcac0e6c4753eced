------------------------ MODULE SignalOutcomesProofs ------------------------
(***************************************************************************)
(* For any markets, trackers, limits and horizon: an outcome is settled by *)
(* every candle that came in time, and a signal has one outcome.           *)
(***************************************************************************)
EXTENDS SignalOutcomes, FiniteSetTheorems, TLAPS

\* No candle is newer than the clock.
Timely ==
  /\ now \in 0 .. MaxTime
  /\ \A m \in Market : candles[m] \subseteq 0 .. now

\* r is an outcome that OutcomesAreSettled accepts.
Settled(r) ==
  /\ r.signal \in Index
  /\ Closed(r.signal, Horizon, now)
  /\ r.exit \in Window(r.signal, Horizon)
  /\ \A t \in Window(r.signal, Horizon) : t > r.exit =>
       arrival[signals[r.signal].market][t] >= signals[r.signal].at + Horizon

\* At most one row of a set per signal.
Single(S) == \A r, s \in S : r.signal = s.signal => r = s

\* What an open run s knows: its clock is past, and what it found is settled,
\* one row per signal and none of a signal it has yet to look at.
RunOK(s) ==
  /\ s.clock <= now
  /\ s.todo \subseteq Index
  /\ \A r \in s.found : Settled(r) /\ r.signal \notin s.todo
  /\ Single(s.found)

IInv ==
  /\ TypeOK
  /\ Timely
  /\ \A p \in Tracker : RunOK(tracker[p])
  /\ \A r \in outcomes : Settled(r)
  /\ OneOutcomePerSignal
-----------------------------------------------------------------------------
\* A signal's market and time.
LEMMA SignalsAreTyped ==
  ASSUME TypeOK, NEW i \in Index
  PROVE  /\ signals[i].market \in Market /\ signals[i].at \in Nat
         /\ candles[signals[i].market] \subseteq Nat
<1>1. signals \in Seq(Signal) /\ candles \in [Market -> SUBSET Nat]
  BY DEF TypeOK, FeedTypeOK
<1>2. signals[i] \in Signal
  BY <1>1 DEF Index
<1> QED BY <1>1, <1>2 DEF Signal

\* The limit of the query covers every candle of a horizon.
LEMMA HorizonIsFetched ==
  ASSUME TypeOK, NEW i \in Index
  PROVE  Oldest(Window(i, Horizon), Horizon + Spare) = Window(i, Horizon)
<1> DEFINE W == Window(i, Horizon)
           a == signals[i].at
<1>1. a \in Nat /\ Horizon \in Nat \ {0} /\ Spare \in Nat
  BY SignalsAreTyped, ParameterAssumption
<1>2. W \subseteq (a + 1) .. (a + Horizon)
  <2>1. candles[signals[i].market] \subseteq Nat
    BY SignalsAreTyped
  <2> QED BY <1>1, <2>1 DEF Window
<1>3. ASSUME NEW x \in W PROVE Cardinality({y \in W : y < x}) < Horizon + Spare
  <2> DEFINE B == {y \in W : y < x}
  <2>1. x \in (a + 1) .. (a + Horizon)
    BY <1>2, <1>3
  <2>2. B \in SUBSET ((a + 1) .. (x - 1))
    BY <1>1, <1>2, <2>1
  <2>3. IsFiniteSet((a + 1) .. (x - 1)) /\ Cardinality((a + 1) .. (x - 1)) < Horizon + Spare
    <3>1. /\ a + 1 \in Int /\ x - 1 \in Int
          /\ (x - 1) - (a + 1) + 1 < Horizon + Spare /\ 0 < Horizon + Spare
      BY <1>1, <2>1
    <3>2. \A b, c \in Int : /\ IsFiniteSet(b .. c)
                           /\ Cardinality(b .. c) = IF b > c THEN 0 ELSE c - b + 1
      BY FS_Interval
    <3> QED BY <3>1, <3>2
  <2>4. Cardinality(B) <= Cardinality((a + 1) .. (x - 1)) /\ IsFiniteSet(B)
    BY <2>2, <2>3, FS_Subset
  <2>5. Cardinality(B) \in Nat /\ Cardinality((a + 1) .. (x - 1)) \in Nat
    BY <2>3, <2>4, FS_CardinalityType
  <2> QED BY <1>1, <2>3, <2>4, <2>5
<1> QED BY <1>3 DEF Oldest

\* What a step of the feed leaves alone, and what it may add.
LEMMA FeedSteps ==
  ASSUME TypeOK, Timely, FeedNext
  PROVE  /\ FeedTypeOK' /\ Timely'
         /\ now <= now'
         /\ Index \subseteq Index'
         /\ \A i \in Index : signals'[i] = signals[i]
         /\ \A m \in Market : candles[m] \subseteq candles'[m]
<1> USE DEF TypeOK, FeedTypeOK, Timely
<1>1. CASE Tick
  <2>1. now' = now + 1 /\ now < MaxTime /\ UNCHANGED <<candles, signals>>
    BY <1>1 DEF Tick
  <2>2. now' \in Nat /\ now <= now' /\ Timely'
    BY <2>1, FeedBoundAssumption
  <2> QED BY <2>1, <2>2 DEF Index
<1>2. CASE \E m \in Market, t \in 0 .. MaxTime : StoreCandle(m, t)
  <2>1. PICK m \in Market, t \in 0 .. MaxTime : StoreCandle(m, t)
    BY <1>2
  <2>2. /\ candles' = [candles EXCEPT ![m] = @ \cup {t}]
        /\ t \in 0 .. now /\ UNCHANGED <<now, signals>>
    BY <2>1, FeedBoundAssumption DEF StoreCandle
  <2>3. candles' \in [Market -> SUBSET Nat] /\ t \in Nat
    BY <2>2
  <2>4. \A n \in Market : candles'[n] = IF n = m THEN candles[m] \cup {t} ELSE candles[n]
    BY <2>2
  <2>5. \A n \in Market : candles[n] \subseteq candles'[n] /\ candles'[n] \subseteq 0 .. now
    BY <2>2, <2>4
  <2> QED BY <2>2, <2>3, <2>5 DEF Index
<1>3. CASE \E m \in Market, t \in 0 .. MaxTime : EmitSignal(m, t)
  <2>1. PICK m \in Market, t \in 0 .. MaxTime :
          /\ signals' = Append(signals, [market |-> m, candle |-> t, at |-> now])
          /\ UNCHANGED <<now, candles>>
    BY <1>3 DEF EmitSignal
  <2>2. signals \in Seq(Signal) /\ [market |-> m, candle |-> t, at |-> now] \in Signal
    BY FeedBoundAssumption DEF Signal
  <2>3. /\ signals' \in Seq(Signal) /\ Len(signals') = Len(signals) + 1
        /\ \A i \in 1 .. Len(signals) : signals'[i] = signals[i]
    BY <2>1, <2>2
  <2>4. Index = 1 .. Len(signals) /\ Index' = 1 .. Len(signals') /\ Len(signals) \in Nat
    BY <2>2, <2>3 DEF Index
  <2>5. Index \subseteq Index' /\ \A i \in Index : signals'[i] = signals[i]
    BY <2>3, <2>4
  <2>6. FeedTypeOK' /\ Timely'
    BY <2>1, <2>3
  <2>7. now <= now' /\ \A n \in Market : candles[n] \subseteq candles'[n]
    BY <2>1
  <2> QED BY <2>5, <2>6, <2>7
<1> QED BY <1>1, <1>2, <1>3 DEF FeedNext

\* An outcome stays settled: what the feed adds to its horizon comes late.
LEMMA SettledStays ==
  ASSUME TypeOK, Timely, Feed, NEW r \in Row, Settled(r)
  PROVE  Settled(r)'
<1> DEFINE i == r.signal
           m == signals[i].market
           a == signals[i].at
<1>1. FeedNext
  BY DEF Feed
<1>2. /\ now <= now' /\ Index \subseteq Index' /\ signals'[i] = signals[i]
      /\ candles[m] \subseteq candles'[m] /\ Timely'
  <2>1. i \in Index
    BY DEF Settled
  <2> QED BY <1>1, <2>1, FeedSteps, SignalsAreTyped
<1>3. m \in Market /\ a \in Nat /\ i \in Index /\ now \in Nat /\ now' \in Nat /\ Horizon \in Nat
  <2>1. i \in Index
    BY DEF Settled
  <2> QED BY <1>2, <2>1, SignalsAreTyped, ParameterAssumption, FeedBoundAssumption DEF Timely
<1>4. a + Horizon <= now /\ Closed(i, Horizon, now)'
  BY <1>2, <1>3 DEF Settled, Closed
<1>5. (r.exit \in Window(i, Horizon))'
  BY <1>2 DEF Settled, Window
<1>6. ASSUME NEW t \in Window(i, Horizon)', t > r.exit
      PROVE  arrival'[m][t] >= a + Horizon
  <2>1. t \in candles'[m] /\ a < t /\ t <= a + Horizon
    BY <1>2, <1>6 DEF Window
  <2>2. t \in 0 .. MaxTime
    BY <1>2, <1>3, <2>1, FeedBoundAssumption DEF Timely
  <2>3. arrival'[m][t] = IF t \in candles'[m] \ candles[m] THEN now ELSE arrival[m][t]
    BY <1>3, <2>2 DEF Feed
  <2>4. CASE t \in candles[m]
    <3>1. t \in Window(i, Horizon)
      BY <2>1, <2>4 DEF Window
    <3> QED BY <1>6, <2>3, <2>4, <3>1 DEF Settled
  <2>5. CASE t \notin candles[m]
    BY <1>4, <2>1, <2>3, <2>5
  <2> QED BY <2>4, <2>5
<1> QED BY <1>2, <1>3, <1>4, <1>5, <1>6 DEF Settled

\* A run knows its clock and what it found, and the feed does not change that.
LEMMA FeedKeepsRuns ==
  ASSUME IInv, Feed
  PROVE  IInv'
<1>1. FeedNext /\ UNCHANGED <<outcomes, tracker, calls, faults>>
  BY DEF Feed
<1>2. /\ FeedTypeOK' /\ Timely' /\ now <= now' /\ Index \subseteq Index'
  BY <1>1, FeedSteps DEF IInv
<1>3. now \in Nat /\ now' \in Nat
  BY <1>2, FeedBoundAssumption DEF IInv, Timely
<1>4. TypeOK'
  <2>1. arrival' \in [Market -> [0 .. MaxTime -> Nat]]
    BY <1>3 DEF Feed, IInv, TypeOK
  <2> QED BY <1>1, <1>2, <2>1 DEF IInv, TypeOK
<1>5. \A r \in Row : Settled(r) => Settled(r)'
  BY SettledStays DEF IInv
<1>6. ASSUME NEW p \in Tracker PROVE RunOK(tracker[p])'
  <2>1. tracker[p].clock \in Nat /\ tracker[p].found \subseteq Row
    BY DEF IInv, TypeOK, Run
  <2>2. RunOK(tracker[p])
    BY DEF IInv
  <2> QED BY <1>1, <1>2, <1>3, <1>5, <2>1, <2>2 DEF RunOK, Single
<1>7. \A r \in outcomes' : Settled(r)'
  BY <1>1, <1>5 DEF IInv, TypeOK
<1> QED BY <1>1, <1>2, <1>4, <1>6, <1>7 DEF IInv, OneOutcomePerSignal

\* The run of p becomes s, and nothing else changes but counters.
LEMMA RunChanges ==
  ASSUME IInv, UNCHANGED <<feed, outcomes, arrival>>,
         calls' \in Nat, faults' \in Nat,
         NEW p \in Tracker, NEW s \in Run, RunOK(s),
         tracker' = [tracker EXCEPT ![p] = s]
  PROVE  IInv'
<1>1. UNCHANGED <<now, candles, signals, outcomes, arrival, Index>>
  BY DEF feed, Index
<1>2. TypeOK' /\ Timely'
  BY <1>1 DEF IInv, TypeOK, FeedTypeOK, Timely
<1>3. \A r : Settled(r)' <=> Settled(r)
  BY <1>1 DEF Settled, Closed, Window
<1>4. ASSUME NEW q \in Tracker PROVE RunOK(tracker[q])'
  <2>1. tracker'[q] = IF q = p THEN s ELSE tracker[q]
    BY DEF IInv, TypeOK
  <2>2. RunOK(tracker'[q])
    BY <2>1 DEF IInv
  <2> QED BY <1>1, <1>3, <2>2 DEF RunOK, Single
<1> QED BY <1>1, <1>2, <1>3, <1>4 DEF IInv, OneOutcomePerSignal

\* A run that is over knows nothing.
LEMMA NoRunOK ==
  ASSUME TypeOK
  PROVE  NoRun \in Run /\ RunOK(NoRun)
BY DEF TypeOK, FeedTypeOK, NoRun, Run, RunOK, Single

\* A run starts with a batch and the time.
LEMMA LoadStep ==
  ASSUME IInv, NEW p \in Tracker, Load(p)
  PROVE  IInv'
<1> DEFINE s == [open |-> TRUE, clock |-> now, todo |-> Oldest(Pending, Limit[p]),
                 found |-> {}]
<1>1. now \in Nat /\ Index \subseteq Nat
  BY DEF IInv, TypeOK, FeedTypeOK, Index
<1>2. Oldest(Pending, Limit[p]) \subseteq Index
  BY DEF Oldest, Pending
<1>3. s \in Run /\ RunOK(s)
  <2>1. s \in Run
    BY <1>1, <1>2 DEF Run
  <2>2. s.clock = now /\ s.todo \subseteq Index /\ s.found = {}
    BY <1>2
  <2> QED BY <1>1, <2>1, <2>2 DEF RunOK, Single
<1>4. /\ tracker' = [tracker EXCEPT ![p] = s]
      /\ UNCHANGED <<feed, outcomes, arrival>> /\ calls' \in Nat /\ faults' \in Nat
  BY DEF Load, Starts, IInv, TypeOK
<1> QED BY <1>3, <1>4, RunChanges

\* One signal of a run: no candle of its horizon is cut off, and it is over.
LEMMA EvaluateStep ==
  ASSUME IInv, NEW p \in Tracker, NEW i \in tracker[p].todo, Evaluate(p, i)
  PROVE  IInv'
<1> DEFINE o == tracker[p]
<1>1. /\ o \in Run /\ RunOK(o) /\ i \in Index
      /\ tracker \in [Tracker -> Run] /\ now \in Nat /\ calls \in Nat /\ faults \in Nat
      /\ IsFirst(o.todo, i)
  BY DEF IInv, TypeOK, FeedTypeOK, RunOK, Evaluate
<1>2. UNCHANGED <<feed, outcomes, calls, faults, arrival>>
  BY DEF Evaluate
<1>3. CASE Skip(p, i)
  <2> DEFINE s == [o EXCEPT !.todo = @ \ {i}]
  <2>1. s \in Run /\ RunOK(s)
    BY <1>1 DEF Run, RunOK
  <2>2. tracker' = [tracker EXCEPT ![p] = s]
    BY <1>1, <1>3 DEF Skip
  <2> QED BY <1>1, <1>2, <2>1, <2>2, RunChanges
<1>4. ASSUME NEW t \in Window(i, Horizon), IsLast(Window(i, Horizon), t),
             Closed(i, Horizon, o.clock), Record(p, i, t)
      PROVE  IInv'
  <2> DEFINE row == [signal |-> i, exit |-> t]
             s == [o EXCEPT !.todo = @ \ {i}, !.found = @ \cup {row}]
  <2>1. signals[i].at \in Nat /\ t \in Nat /\ Window(i, Horizon) \subseteq Nat
    BY <1>1, <1>4, SignalsAreTyped DEF IInv, Window
  <2>2. o.clock <= now /\ o.clock \in Nat /\ Horizon \in Nat
    BY <1>1, ParameterAssumption DEF RunOK, Run
  <2>3. Closed(i, Horizon, now)
    BY <1>1, <1>4, <2>1, <2>2 DEF Closed
  <2>4. \A u \in Window(i, Horizon) : ~(u > t)
    BY <1>4, <2>1 DEF IsLast
  <2>5. Settled(row)
    BY <1>1, <1>4, <2>3, <2>4 DEF Settled
  <2>6. s \in Run
    <3>1. i \in Nat
      BY <1>1 DEF Run
    <3>2. row \in Row
      BY <2>1, <3>1 DEF Row
    <3> QED BY <1>1, <3>2 DEF Run
  <2>7. /\ s.todo = o.todo \ {i} /\ s.found = o.found \cup {row}
        /\ s.clock = o.clock /\ row.signal = i
    BY <1>1 DEF Run
  <2>8. \A r \in o.found : r.signal # i
    BY <1>1 DEF RunOK
  <2>9. Single(s.found)
    BY <1>1, <2>7, <2>8 DEF RunOK, Single
  <2>10. RunOK(s)
    BY <1>1, <2>5, <2>7, <2>9 DEF RunOK
  <2>11. tracker' = [tracker EXCEPT ![p] = s]
    BY <1>1, <1>4 DEF Record
  <2> QED BY <1>1, <1>2, <2>6, <2>10, <2>11, RunChanges
<1> QED
  <2>1. Oldest(Window(i, Horizon), Horizon + Spare) = Window(i, Horizon)
    BY <1>1, HorizonIsFetched DEF IInv
  <2> QED BY <1>3, <1>4, <2>1 DEF Evaluate

\* A commit adds settled rows, of signals that have none.
LEMMA CommitStep ==
  ASSUME IInv, NEW p \in Tracker, Commit(p)
  PROVE  IInv'
<1> DEFINE found == tracker[p].found
<1>1. /\ outcomes' = outcomes \cup found /\ tracker' = [tracker EXCEPT ![p] = NoRun]
      /\ UNCHANGED <<now, candles, signals, calls, faults, arrival, Index>>
  BY DEF Commit, feed, Index
<1>2. /\ tracker[p] \in Run /\ found \subseteq Row
      /\ Single(found) /\ \A r \in found : Settled(r)
  BY DEF IInv, TypeOK, Run, RunOK
<1>3. TypeOK' /\ Timely'
  BY <1>1, <1>2, NoRunOK DEF IInv, TypeOK, FeedTypeOK, Timely
<1>4. \A r : Settled(r)' <=> Settled(r)
  BY <1>1 DEF Settled, Closed, Window
<1>5. ASSUME NEW q \in Tracker PROVE RunOK(tracker[q])'
  <2>1. RunOK(tracker'[q])
    BY <1>1, NoRunOK DEF IInv, TypeOK
  <2> QED BY <1>1, <1>4, <2>1 DEF RunOK, Single
<1>6. \A r \in outcomes' : Settled(r)'
  BY <1>1, <1>2, <1>4 DEF IInv
<1>7. OneOutcomePerSignal'
  <2>1. \A r \in found, s \in outcomes : r.signal # s.signal
    BY DEF Commit, Clashes, Evaluated
  <2> QED BY <1>1, <1>2, <2>1 DEF IInv, OneOutcomePerSignal, Single
<1> QED BY <1>3, <1>5, <1>6, <1>7 DEF IInv

\* Conflict and Fail give a run up.
LEMMA GiveUpStep ==
  ASSUME IInv, NEW p \in Tracker, Conflict(p) \/ Fail(p)
  PROVE  IInv'
<1>1. /\ tracker' = [tracker EXCEPT ![p] = NoRun]
      /\ UNCHANGED <<feed, outcomes, arrival>> /\ calls' \in Nat /\ faults' \in Nat
  BY DEF Conflict, Fail, IInv, TypeOK
<1> QED BY <1>1, NoRunOK, RunChanges DEF IInv
-----------------------------------------------------------------------------
\* The invariant holds in every reachable state (run, _evaluate).
THEOREM Invariance == Spec => []IInv
<1>1. Init => IInv
  <2> SUFFICES ASSUME Init PROVE IInv
    OBVIOUS
  <2>1. /\ now = 0 /\ signals = <<>> /\ outcomes = {} /\ calls = 0 /\ faults = 0
        /\ candles = [m \in Market |-> {0}] /\ tracker = [p \in Tracker |-> NoRun]
    BY DEF Init, FeedInit
  <2>2. arrival \in [Market -> [0 .. MaxTime -> Nat]]
    BY DEF Init
  <2>3. candles \in [Market -> SUBSET Nat] /\ signals \in Seq(Signal)
    BY <2>1
  <2>4. NoRun \in Run
    BY DEF NoRun, Run
  <2>5. TypeOK /\ Timely
    BY <2>1, <2>2, <2>3, <2>4, FeedBoundAssumption DEF TypeOK, FeedTypeOK, Timely
  <2> QED BY <2>1, <2>5, NoRunOK DEF IInv, OneOutcomePerSignal
<1>2. IInv /\ [Next]_vars => IInv'
  <2> SUFFICES ASSUME IInv, [Next]_vars PROVE IInv'
    OBVIOUS
  <2>1. CASE Feed
    BY <2>1, FeedKeepsRuns
  <2>2. ASSUME NEW p \in Tracker, Load(p) \/ RunStep(p) \/ Fail(p) PROVE IInv'
    BY <2>2, LoadStep, EvaluateStep, CommitStep, GiveUpStep DEF RunStep
  <2>3. CASE UNCHANGED vars
    <3>1. UNCHANGED <<now, candles, signals, outcomes, tracker, calls, faults, arrival, Index>>
      BY <2>3 DEF vars, feed, Index
    <3>2. \A r : Settled(r)' <=> Settled(r)
      BY <3>1 DEF Settled, Closed, Window
    <3>3. \A p \in Tracker : RunOK(tracker[p])' <=> RunOK(tracker[p])
      BY <3>1, <3>2 DEF RunOK, Single
    <3> QED BY <3>1, <3>2, <3>3
         DEF IInv, TypeOK, FeedTypeOK, Timely, OneOutcomePerSignal
  <2> QED BY <2>1, <2>2, <2>3 DEF Next
<1> QED BY <1>1, <1>2, PTL DEF Spec

\* Every variable keeps its type: a signal that a run looks at exists.
THEOREM TypeCorrect == Spec => []TypeOK
<1>1. IInv => TypeOK
  BY DEF IInv
<1> QED BY <1>1, Invariance, PTL

\* For any horizon, limit and number of runs, an outcome is a candle of a horizon
\* that is over, and only candles that came too late follow it there (_evaluate).
THEOREM OutcomesSettle == Spec => []OutcomesAreSettled
<1>1. IInv => OutcomesAreSettled
  BY DEF IInv, Settled, OutcomesAreSettled
<1> QED BY <1>1, Invariance, PTL

\* The key of a row and the roll back of a batch leave one outcome per signal,
\* however the runs overlap (run).
THEOREM OutcomesAreUnique == Spec => []OneOutcomePerSignal
<1>1. IInv => OneOutcomePerSignal
  BY DEF IInv
<1> QED BY <1>1, Invariance, PTL
=============================================================================
