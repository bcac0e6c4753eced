---------------------------- MODULE EdgeOutcomes ----------------------------
(***************************************************************************)
(* EdgeOutcomeTracker (app/modules/crypto/edge/calculator.py): every six   *)
(* hours a job looks at the oldest signals, evaluated or not, and for each *)
(* of several horizons records what became of the price.  The endpoint     *)
(* edge/compute does the same in the API process.                          *)
(*                                                                         *)
(* A run is one transaction at READ COMMITTED, whose new rows are flushed  *)
(* by its commit; trading_edge_outcomes has no key but its id.  The job    *)
(* filters for BUY signals; the endpoint takes both sides.                 *)
(***************************************************************************)
EXTENDS SignalFeed

CONSTANTS
  Tracker,      \* the job, the requests
  Scheduled,    \* the job
  Limit,        \* run(limit)
  Filter,       \* signal_types: the sides that a run looks at
  SideOf,       \* the side of the n-th signal
  ScanFactor,   \* signals looked at, per row of the limit
  Horizons,     \* HORIZONS_HOURS
  MaxCalls,     \* bound: requests
  MaxFaults     \* bound: runs that die or meet an error

ASSUME TrackerAssumption == Scheduled \subseteq Tracker /\ IsFiniteSet(Tracker)
ASSUME ParameterAssumption ==
  /\ Limit \in [Tracker -> Nat \ {0}]
  /\ Filter \in [Tracker -> SUBSET {"BUY", "SELL"}]
  /\ SideOf \in [1 .. MaxSignals -> {"BUY", "SELL"}]
  /\ ScanFactor \in Nat \ {0}
  /\ Horizons \in SUBSET (Nat \ {0})
ASSUME BoundAssumption == MaxCalls \in Nat /\ MaxFaults \in Nat

VARIABLES
  edge,      \* trading_edge_outcomes: the number of rows of a signal and horizon
  tracker,
  calls, faults

vars == <<feed, edge, tracker, calls, faults>>
-----------------------------------------------------------------------------
Case == (1 .. MaxSignals) \X Horizons

\* clock: now of the run; todo: cases to look at; found: rows to insert.
Run == [open : BOOLEAN, clock : Nat, todo : SUBSET Case, found : SUBSET Case]
NoRun == [open |-> FALSE, clock |-> 0, todo |-> {}, found |-> {}]

Candidates(p) ==
  Oldest({i \in Index : SideOf[i] \in Filter[p]}, Limit[p] * ScanFactor)

\* The case comes first: signal by signal, the short horizons before the long.
Comes(c, todo) ==
  \A d \in todo : c[1] < d[1] \/ (c[1] = d[1] /\ c[2] <= d[2])
StartsSignal(c) == IsFirst(Horizons, c[2])
Full(p) == Cardinality(tracker[p].found) >= Limit[p]
-----------------------------------------------------------------------------
Init ==
  /\ FeedInit
  /\ edge = [c \in Case |-> 0]
  /\ tracker = [p \in Tracker |-> NoRun]
  /\ calls = 0 /\ faults = 0

Feed == FeedNext /\ UNCHANGED <<edge, tracker, calls, faults>>

Load(p) ==
  /\ ~tracker[p].open
  /\ p \in Scheduled \/ calls < MaxCalls
  /\ calls' = IF p \in Scheduled THEN calls ELSE calls + 1
  /\ tracker' = [tracker EXCEPT ![p] =
       [open |-> TRUE, clock |-> now, todo |-> Candidates(p) \X Horizons, found |-> {}]]
  /\ UNCHANGED <<feed, edge, faults>>

\* The rows of this run have reached the limit, which only a new signal heeds.
StopScan(p, c) ==
  /\ c \in tracker[p].todo /\ Comes(c, tracker[p].todo)
  /\ StartsSignal(c) /\ Full(p)
  /\ tracker' = [tracker EXCEPT ![p].todo = {}]
  /\ UNCHANGED <<feed, edge, calls, faults>>

Due(c, clock) == Closed(c[1], c[2], clock) /\ Priced(c[1], Window(c[1], c[2]))
Outcome(p, c) == Due(c, tracker[p].clock)

\* mutant: a row that is there is computed again
ComputeAgain(p, c) ==
  /\ c \in tracker[p].todo /\ Comes(c, tracker[p].todo)
  /\ ~(StartsSignal(c) /\ Full(p))
  /\ tracker' = [tracker EXCEPT ![p].todo = @ \ {c},
                   ![p].found = @ \cup (IF Outcome(p, c) THEN {c} ELSE {})]
  /\ UNCHANGED <<feed, edge, calls, faults>>

\* mutant: what can not be computed yet ends the scan
EndScan(p, c) ==
  /\ c \in tracker[p].todo /\ Comes(c, tracker[p].todo)
  /\ tracker' = [tracker EXCEPT ![p].todo =
                   IF edge[c] = 0 /\ ~Outcome(p, c) THEN {} ELSE @ \ {c},
                   ![p].found = @ \cup (IF edge[c] = 0 /\ Outcome(p, c) THEN {c} ELSE {})]
  /\ UNCHANGED <<feed, edge, calls, faults>>

\* One look-up of a row, and compute_edge_outcome when there is none.
Compute(p, c) ==
  /\ c \in tracker[p].todo /\ Comes(c, tracker[p].todo)
  /\ ~(StartsSignal(c) /\ Full(p))
  /\ tracker' = [tracker EXCEPT ![p].todo = @ \ {c},
                   ![p].found = @ \cup (IF edge[c] = 0 /\ Outcome(p, c) THEN {c} ELSE {})]
  /\ UNCHANGED <<feed, edge, calls, faults>>

Commit(p) ==
  /\ tracker[p].open /\ tracker[p].todo = {}
  /\ edge' = [c \in Case |-> edge[c] + IF c \in tracker[p].found THEN 1 ELSE 0]
  /\ tracker' = [tracker EXCEPT ![p] = NoRun]
  /\ UNCHANGED <<feed, calls, faults>>

Fail(p) ==
  /\ tracker[p].open
  /\ faults < MaxFaults
  /\ faults' = faults + 1
  /\ tracker' = [tracker EXCEPT ![p] = NoRun]
  /\ UNCHANGED <<feed, edge, calls>>

RunStep(p) == (\E c \in Case : StopScan(p, c) \/ Compute(p, c)) \/ Commit(p)

Next == Feed \/ \E p \in Tracker : Load(p) \/ RunStep(p) \/ Fail(p)

Spec == Init /\ [][Next]_vars

\* The job starts every six hours, and a run that was started goes on.
FairSpec == /\ Spec
            /\ \A p \in Tracker : WF_vars(RunStep(p))
            /\ \A p \in Scheduled : WF_vars(Load(p))
-----------------------------------------------------------------------------
TypeOK ==
  /\ FeedTypeOK
  /\ Len(signals) <= MaxSignals
  /\ edge \in [Case -> Nat]
  /\ tracker \in [Tracker -> Run]
  /\ calls \in Nat /\ faults \in Nat

\* Without a key, runs that overlap may each add a row for the same signal and
\* horizon; a run on its own never repeats one.  So there are at most as many
\* rows as processes, however often each of them runs, and each is of a horizon
\* that is over (run).
CopiesFollowOverlap ==
  \A c \in Case :
    /\ edge[c] <= Cardinality(Tracker)
    /\ edge[c] > 0 => c[1] \in Index /\ Closed(c[1], c[2], now)

\* Of the oldest signals of its side, as many as the job scans, each gets its row at
\* each horizon that is over and whose candles have their prices, though it shares its
\* scan with signals that were evaluated long ago and with ones that can not be; only a
\* late candle without a price may still spoil its horizon (run).
DueNow(c) == c[1] \in Index /\ Due(c, now)
ScannedAreEvaluated ==
  \A c \in Case :
    (DueNow(c) /\ \E p \in Scheduled : c[1] \in Candidates(p))
      ~> (edge[c] > 0 \/ ~DueNow(c))

\* scheduler/jobs.py says: for each BUY row without a computed outcome.
EveryDueIsEvaluated ==
  \A c \in Case :
    (DueNow(c) /\ \E p \in Scheduled : SideOf[c[1]] \in Filter[p])
      ~> (edge[c] > 0 \/ ~DueNow(c))
=============================================================================
