--------------------------- MODULE SignalOutcomes ---------------------------
(***************************************************************************)
(* SignalOutcomeTracker (app/modules/trading/validation): every hour a job *)
(* takes the oldest signals without an outcome, looks at the candles of    *)
(* the horizon that follows each, and records what became of them.  The    *)
(* endpoint run-outcome-tracker does the same in the API process.          *)
(*                                                                         *)
(* A run is one transaction at READ COMMITTED, each query a step.  Its new *)
(* rows are flushed by the commit (autoflush is off); analytics_id is      *)
(* unique, and one row that another run has committed makes the whole      *)
(* batch fail.                                                             *)
(***************************************************************************)
EXTENDS SignalFeed

CONSTANTS
  Tracker,     \* the job, the requests
  Scheduled,   \* the job
  Limit,       \* run(limit)
  Horizon,     \* EVALUATION_HORIZON
  Spare,       \* candles fetched beyond the horizon
  Lookback,    \* _MAX_LOOKBACK_DAYS
  MaxCalls,    \* bound: requests
  MaxFaults    \* bound: runs that die or meet an error

ASSUME TrackerAssumption == Scheduled \subseteq Tracker
ASSUME ParameterAssumption ==
  /\ Limit \in [Tracker -> Nat \ {0}]
  /\ Horizon \in Nat \ {0} /\ Spare \in Nat /\ Lookback \in Nat
ASSUME BoundAssumption == MaxCalls \in Nat /\ MaxFaults \in Nat

VARIABLES
  outcomes,    \* trading_signal_outcomes: the signal, the candle of its outcome
  tracker,
  calls, faults,
  arrival      \* history: when a candle was stored

vars == <<feed, outcomes, tracker, calls, faults, arrival>>
-----------------------------------------------------------------------------
\* clock: now of the run; todo: signals to evaluate; found: rows to insert.
Row == [signal : Nat, exit : Nat]
Run == [open : BOOLEAN, clock : Nat, todo : SUBSET Nat, found : SUBSET Row]
NoRun == [open |-> FALSE, clock |-> 0, todo |-> {}, found |-> {}]

Evaluated(i) == \E r \in outcomes : r.signal = i
Expired(i) == signals[i].at + Lookback < now
Recent == {i \in Index : ~Expired(i)}           \* mutant
Pending == {i \in Index : ~Evaluated(i) /\ ~Expired(i)}
-----------------------------------------------------------------------------
Init ==
  /\ FeedInit
  /\ outcomes = {}
  /\ tracker = [p \in Tracker |-> NoRun]
  /\ calls = 0 /\ faults = 0
  /\ arrival = [m \in Market |-> [t \in 0 .. MaxTime |-> 0]]

Feed ==
  /\ FeedNext
  /\ arrival' = [m \in Market |-> [t \in 0 .. MaxTime |->
                   IF t \in candles'[m] \ candles[m] THEN now ELSE arrival[m][t]]]
  /\ UNCHANGED <<outcomes, tracker, calls, faults>>

Starts(p) ==
  /\ ~tracker[p].open
  /\ p \in Scheduled \/ calls < MaxCalls
  /\ calls' = IF p \in Scheduled THEN calls ELSE calls + 1
  /\ UNCHANGED <<feed, outcomes, faults, arrival>>

\* mutant: the batch is taken before the evaluated signals are left out
LoadRecent(p) ==
  /\ Starts(p)
  /\ tracker' = [tracker EXCEPT ![p] =
       [open |-> TRUE, clock |-> now, todo |-> Oldest(Recent, Limit[p]) \cap Pending,
        found |-> {}]]

Load(p) ==
  /\ Starts(p)
  /\ tracker' = [tracker EXCEPT ![p] =
       [open |-> TRUE, clock |-> now, todo |-> Oldest(Pending, Limit[p]), found |-> {}]]

Skip(p, i) == tracker' = [tracker EXCEPT ![p].todo = @ \ {i}]
Record(p, i, t) ==
  tracker' = [tracker EXCEPT ![p].todo = @ \ {i},
                             ![p].found = @ \cup {[signal |-> i, exit |-> t]}]

\* mutant: the query's limit cuts off the end of the horizon
EvaluateHalf(p, i) ==
  /\ IsFirst(tracker[p].todo, i)
  /\ LET fetched == Oldest(Window(i, Horizon), Horizon \div 2)
         ready == Closed(i, Horizon, tracker[p].clock) /\ Priced(i, fetched)
     IN \/ ~ready /\ Skip(p, i)
        \/ ready /\ \E t \in fetched : IsLast(fetched, t) /\ Record(p, i, t)
  /\ UNCHANGED <<feed, outcomes, calls, faults, arrival>>

\* _evaluate: when the horizon is over and its candles give both prices, the last of
\* them is the outcome.  Otherwise (horizon_open, no_candles, bad_price) the signal is
\* left to a later run.
Evaluate(p, i) ==
  /\ IsFirst(tracker[p].todo, i)
  /\ LET fetched == Oldest(Window(i, Horizon), Horizon + Spare)
         ready == Closed(i, Horizon, tracker[p].clock) /\ Priced(i, fetched)
     IN \/ ~ready /\ Skip(p, i)
        \/ ready /\ \E t \in fetched : IsLast(fetched, t) /\ Record(p, i, t)
  /\ UNCHANGED <<feed, outcomes, calls, faults, arrival>>

Done(p) == tracker[p].open /\ tracker[p].todo = {}
Clashes(p) == \E r \in tracker[p].found : Evaluated(r.signal)

\* mutant: there is no unique key
CommitAnyway(p) ==
  /\ Done(p)
  /\ outcomes' = outcomes \cup tracker[p].found
  /\ tracker' = [tracker EXCEPT ![p] = NoRun]
  /\ UNCHANGED <<feed, calls, faults, arrival>>

Commit(p) ==
  /\ Done(p) /\ ~Clashes(p)
  /\ outcomes' = outcomes \cup tracker[p].found
  /\ tracker' = [tracker EXCEPT ![p] = NoRun]
  /\ UNCHANGED <<feed, calls, faults, arrival>>

\* Another run has recorded one of the signals: the batch is rolled back.
Conflict(p) ==
  /\ Done(p) /\ Clashes(p)
  /\ tracker' = [tracker EXCEPT ![p] = NoRun]
  /\ UNCHANGED <<feed, outcomes, calls, faults, arrival>>

Fail(p) ==
  /\ tracker[p].open
  /\ faults < MaxFaults
  /\ faults' = faults + 1
  /\ tracker' = [tracker EXCEPT ![p] = NoRun]
  /\ UNCHANGED <<feed, outcomes, calls, arrival>>

RunStep(p) == (\E i \in tracker[p].todo : Evaluate(p, i)) \/ Commit(p) \/ Conflict(p)

Next == Feed \/ \E p \in Tracker : Load(p) \/ RunStep(p) \/ Fail(p)

Spec == Init /\ [][Next]_vars

\* The job starts every hour, and a run that was started goes on.
FairSpec == /\ Spec
            /\ \A p \in Tracker : WF_vars(RunStep(p))
            /\ \A p \in Scheduled : WF_vars(Load(p))
-----------------------------------------------------------------------------
TypeOK ==
  /\ FeedTypeOK
  /\ outcomes \subseteq Row
  /\ tracker \in [Tracker -> Run]
  /\ calls \in Nat /\ faults \in Nat
  /\ arrival \in [Market -> [0 .. MaxTime -> Nat]]

\* An outcome is a candle of the signal's horizon, which is over, and only
\* candles that came after its end can follow it there: no run settles a signal
\* while its horizon is open, whatever its clock, and the limit of the query,
\* which keeps the oldest candles, never cuts off the last one (_evaluate).
OutcomesAreSettled ==
  \A r \in outcomes :
    /\ Closed(r.signal, Horizon, now)
    /\ r.exit \in Window(r.signal, Horizon)
    /\ \A t \in Window(r.signal, Horizon) : t > r.exit =>
         arrival[signals[r.signal].market][t] >= signals[r.signal].at + Horizon

\* However runs of the job and of requests overlap, and though each keeps its
\* rows until its commit, a signal has one outcome: accuracy and drift are
\* counted from the rows (run).
OneOutcomePerSignal ==
  \A r, s \in outcomes : r.signal = s.signal => r = s

\* A signal whose horizon is over and whose candles have their prices gets its
\* outcome, although runs are lost, requests make the job's batches fail, and older
\* signals that can not be evaluated stay at the head of the queue.  A whole batch of
\* those holds it back, until they expire, and a late candle without a price may
\* still spoil its horizon (run, _evaluate).
Evaluable(i) == Closed(i, Horizon, now) /\ Priced(i, Window(i, Horizon))
HeldBack(i) == \E p \in Scheduled :
  Cardinality({j \in Pending : j < i /\ ~Evaluable(j)}) >= Limit[p]
SignalsAreEvaluated ==
  \A i \in 1 .. MaxSignals :
    (i \in Pending /\ Evaluable(i) /\ ~HeldBack(i))
      ~> (i \in Index /\ (Evaluated(i) \/ Expired(i) \/ ~Evaluable(i)))
=============================================================================
