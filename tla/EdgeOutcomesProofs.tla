-------------------------- MODULE EdgeOutcomesProofs --------------------------
(***************************************************************************)
(* For any markets, trackers, limits and horizons: the rows of a signal    *)
(* and horizon are at most as many as the processes, and only the oldest   *)
(* signals ever get one.                                                   *)
(***************************************************************************)
EXTENDS EdgeOutcomes, FiniteSetTheorems, TLAPS

\* The horizon of case c is over at time t.
Over(c, t) == c[1] \in Index /\ Closed(c[1], c[2], t)

\* What an open run s of p knows: its clock is past, it looks at the oldest
\* signals only, and it found nothing before its time.
RunOK(p, s) ==
  /\ s.clock <= now
  /\ \A c \in s.todo \cup s.found : c[1] \in Candidates(p)
  /\ \A c \in s.found : Over(c, now)

\* The runs that will insert a row of case c.
Finders(c) == {p \in Tracker : c \in tracker[p].found}

RowOK(c) ==
  /\ edge[c] + Cardinality(Finders(c)) <= Cardinality(Tracker)
  /\ edge[c] > 0 => Over(c, now) /\ \E p \in Tracker : c[1] \in Candidates(p)

IInv ==
  /\ TypeOK
  /\ \A p \in Tracker : RunOK(p, tracker[p])
  /\ \A c \in Case : RowOK(c)
-----------------------------------------------------------------------------
\* The signals are numbered, and each has a time.
LEMMA SignalsAreTyped ==
  ASSUME TypeOK
  PROVE  /\ Index = 1 .. Len(signals) /\ Len(signals) \in Nat /\ now \in Nat
         /\ \A i \in Index : signals[i].at \in Nat
         /\ \A c \in Case : c[1] \in Nat /\ c[2] \in Nat
<1>1. signals \in Seq(Signal) /\ now \in Nat
  BY DEF TypeOK, FeedTypeOK
<1>2. \A i \in Index : signals[i] \in Signal
  BY <1>1 DEF Index
<1>3. ASSUME NEW c \in Case PROVE c[1] \in Nat /\ c[2] \in Nat
  <2>1. c[1] \in 1 .. MaxSignals /\ c[2] \in Horizons
    BY DEF Case
  <2>2. c[1] \in Nat
    BY <2>1, FeedBoundAssumption
  <2>3. c[2] \in Nat
    BY <2>1, ParameterAssumption
  <2> QED BY <2>2, <2>3
<1> QED BY <1>1, <1>2, <1>3 DEF Signal, Index

\* A new signal is the last one, so the oldest of a side stay the oldest.
LEMMA CandidatesStay ==
  ASSUME NEW m \in Nat, NEW n \in Nat, m <= n,
         Index = 1 .. m, Index' = 1 .. n, NEW p \in Tracker
  PROVE  Candidates(p) \subseteq Candidates(p)'
<1> DEFINE side(i) == SideOf[i] \in Filter[p]
           k == Limit[p] * ScanFactor
<1>1. ASSUME NEW i \in Candidates(p) PROVE i \in Candidates(p)'
  <2>1. i \in 1 .. m /\ side(i) /\ Cardinality({y \in {z \in 1 .. m : side(z)} : y < i}) < k
    BY <1>1 DEF Candidates, Oldest
  <2>2. {y \in {z \in 1 .. m : side(z)} : y < i} = {y \in {z \in 1 .. n : side(z)} : y < i}
    BY <2>1
  <2>3. i \in 1 .. n
    BY <2>1
  <2> QED BY <2>1, <2>2, <2>3 DEF Candidates, Oldest
<1> QED BY <1>1

\* The processes that will insert a row are finitely many, and no more than all.
LEMMA FindersAreFew ==
  ASSUME NEW S \in SUBSET Tracker
  PROVE  /\ IsFiniteSet(S) /\ Cardinality(S) \in Nat /\ Cardinality(Tracker) \in Nat
         /\ Cardinality(S) <= Cardinality(Tracker)
<1>1. IsFiniteSet(Tracker)
  BY TrackerAssumption
<1>2. IsFiniteSet(S) /\ Cardinality(S) <= Cardinality(Tracker)
  BY <1>1, FS_Subset
<1> QED BY <1>1, <1>2, FS_CardinalityType

\* What a run looks at follows from the signals.
LEMMA SameCandidates ==
  ASSUME UNCHANGED Index, NEW p \in Tracker
  PROVE  Candidates(p)' = Candidates(p)
BY DEF Candidates, Oldest

\* A horizon that is over stays over.
LEMMA OverStays ==
  ASSUME TypeOK, FeedTypeOK', now <= now', Index \subseteq Index',
         \A i \in Index : signals'[i] = signals[i],
         NEW c \in Case, Over(c, now)
  PROVE  Over(c, now)'
<1>1. now \in Nat /\ now' \in Nat /\ c[2] \in Nat /\ signals[c[1]].at \in Nat /\ c[1] \in Index
  BY SignalsAreTyped DEF FeedTypeOK, Over
<1> QED BY <1>1 DEF Over, Closed

\* What a step of the feed leaves alone, and what it may add.
LEMMA FeedSteps ==
  ASSUME TypeOK, FeedNext
  PROVE  /\ FeedTypeOK' /\ Len(signals') <= MaxSignals /\ now <= now'
         /\ Index \subseteq Index' /\ \A i \in Index : signals'[i] = signals[i]
         /\ \A p \in Tracker : Candidates(p) \subseteq Candidates(p)'
<1> SUFFICES /\ FeedTypeOK' /\ Len(signals') <= MaxSignals /\ now <= now'
             /\ Index \subseteq Index' /\ \A i \in Index : signals'[i] = signals[i]
  <2>1. Index = 1 .. Len(signals) /\ Len(signals) \in Nat
    BY SignalsAreTyped
  <2>2. Index' = 1 .. Len(signals') /\ Len(signals') \in Nat
    BY DEF FeedTypeOK, Index
  <2>3. Len(signals) <= Len(signals')
    BY <2>1, <2>2
  <2> QED BY <2>1, <2>2, <2>3, CandidatesStay
<1> USE DEF TypeOK, FeedTypeOK
<1>1. CASE Tick
  <2>1. now' = now + 1 /\ UNCHANGED <<candles, signals>>
    BY <1>1 DEF Tick
  <2> QED BY <2>1 DEF Index
<1>2. CASE \E m \in Market, t \in 0 .. MaxTime : StoreCandle(m, t)
  <2>1. PICK m \in Market, t \in 0 .. MaxTime : StoreCandle(m, t)
    BY <1>2
  <2>2. candles' = [candles EXCEPT ![m] = @ \cup {t}] /\ UNCHANGED <<now, signals>>
    BY <2>1 DEF StoreCandle
  <2>3. candles' \in [Market -> SUBSET Nat]
    BY <2>2, FeedBoundAssumption
  <2> QED BY <2>2, <2>3 DEF Index
<1>3. CASE \E m \in Market, t \in 0 .. MaxTime : EmitSignal(m, t)
  <2>1. PICK m \in Market, t \in 0 .. MaxTime :
          /\ signals' = Append(signals, [market |-> m, candle |-> t, at |-> now])
          /\ Len(signals) < MaxSignals /\ UNCHANGED <<now, candles>>
    BY <1>3 DEF EmitSignal
  <2>2. signals \in Seq(Signal) /\ [market |-> m, candle |-> t, at |-> now] \in Signal
    BY FeedBoundAssumption DEF Signal
  <2>3. /\ signals' \in Seq(Signal) /\ Len(signals') = Len(signals) + 1
        /\ \A i \in 1 .. Len(signals) : signals'[i] = signals[i]
    BY <2>1, <2>2
  <2>4. Index = 1 .. Len(signals) /\ Index' = 1 .. Len(signals') /\ Len(signals) \in Nat
    BY <2>2, <2>3 DEF Index
  <2>5. Index \subseteq Index' /\ \A i \in Index : signals'[i] = signals[i]
    BY <2>3, <2>4
  <2>6. FeedTypeOK' /\ now <= now'
    BY <2>1, <2>3
  <2>7. Len(signals') <= MaxSignals
    BY <2>1, <2>3, <2>4, FeedBoundAssumption
  <2> QED BY <2>5, <2>6, <2>7
<1> QED BY <1>1, <1>2, <1>3 DEF FeedNext

\* The feed changes nothing that a run or a row rests on.
LEMMA FeedKeepsRows ==
  ASSUME IInv, Feed
  PROVE  IInv'
<1>1. FeedNext /\ UNCHANGED <<edge, tracker, calls, faults>>
  BY DEF Feed
<1>2. /\ FeedTypeOK' /\ Len(signals') <= MaxSignals /\ now <= now'
      /\ Index \subseteq Index' /\ \A i \in Index : signals'[i] = signals[i]
      /\ \A p \in Tracker : Candidates(p) \subseteq Candidates(p)'
  BY <1>1, FeedSteps DEF IInv
<1>3. TypeOK'
  BY <1>1, <1>2 DEF IInv, TypeOK
<1>4. now \in Nat /\ now' \in Nat
  BY <1>2 DEF IInv, TypeOK, FeedTypeOK
<1>5. \A c \in Case : Over(c, now) => Over(c, now)'
  BY <1>2, OverStays DEF IInv
<1>6. ASSUME NEW p \in Tracker PROVE RunOK(p, tracker[p])'
  <2>1. tracker[p].found \subseteq Case /\ tracker[p].clock \in Nat /\ RunOK(p, tracker[p])
    BY DEF IInv, TypeOK, Run
  <2> QED BY <1>1, <1>2, <1>4, <1>5, <2>1 DEF RunOK
<1>7. ASSUME NEW c \in Case PROVE RowOK(c)'
  <2>1. Finders(c)' = Finders(c) /\ RowOK(c) /\ edge'[c] = edge[c]
    BY <1>1 DEF IInv, Finders
  <2> QED BY <1>2, <1>5, <2>1 DEF RowOK
<1> QED BY <1>3, <1>6, <1>7 DEF IInv

\* The run of p becomes s and finds no new row of a case that has one, and
\* nothing else changes but counters.
LEMMA RunChanges ==
  ASSUME IInv, UNCHANGED <<feed, edge>>, calls' \in Nat, faults' \in Nat,
         NEW p \in Tracker, NEW s \in Run, RunOK(p, s),
         tracker' = [tracker EXCEPT ![p] = s],
         \A c \in s.found : edge[c] = 0 \/ c \in tracker[p].found
  PROVE  IInv'
<1>1. UNCHANGED <<now, candles, signals, edge, Index>>
  BY DEF feed, Index
<1>2. TypeOK'
  BY <1>1 DEF IInv, TypeOK, FeedTypeOK
<1>3. \A c : Over(c, now)' <=> Over(c, now)
  BY <1>1 DEF Over, Closed
<1>4. \A q \in Tracker : tracker'[q] = IF q = p THEN s ELSE tracker[q]
  BY DEF IInv, TypeOK
<1>5. ASSUME NEW q \in Tracker PROVE RunOK(q, tracker[q])'
  <2>1. RunOK(q, tracker'[q])
    BY <1>4 DEF IInv
  <2> QED BY <1>1, <1>3, <2>1, SameCandidates DEF RunOK
<1>6. ASSUME NEW c \in Case PROVE RowOK(c)'
  <2> DEFINE F == Finders(c)
             G == Finders(c)'
  <2>1. F \in SUBSET Tracker /\ G \in SUBSET Tracker /\ edge[c] \in Nat
    BY DEF Finders, IInv, TypeOK
  <2>2. /\ Cardinality(F) \in Nat /\ Cardinality(G) \in Nat /\ Cardinality(Tracker) \in Nat
        /\ Cardinality(G) <= Cardinality(Tracker) /\ IsFiniteSet(F)
    BY <2>1, FindersAreFew
  <2>3. edge[c] + Cardinality(G) <= Cardinality(Tracker)
    <3>1. CASE edge[c] = 0
      BY <2>2, <3>1
    <3>2. CASE edge[c] # 0
      <4>1. G \subseteq F
        BY <1>4, <3>2 DEF Finders
      <4>2. Cardinality(G) <= Cardinality(F)
        BY <2>2, <4>1, FS_Subset
      <4>3. edge[c] + Cardinality(F) <= Cardinality(Tracker)
        BY DEF IInv, RowOK
      <4> QED BY <2>1, <2>2, <4>2, <4>3
    <3> QED BY <3>1, <3>2
  <2>4. RowOK(c) /\ edge'[c] = edge[c]
    BY <1>1 DEF IInv
  <2>5. \A q \in Tracker : Candidates(q)' = Candidates(q)
    BY <1>1, SameCandidates
  <2> QED BY <1>3, <2>3, <2>4, <2>5 DEF RowOK
<1> QED BY <1>2, <1>5, <1>6 DEF IInv

\* A run that is over knows nothing.
LEMMA NoRunOK ==
  ASSUME TypeOK, NEW p
  PROVE  NoRun \in Run /\ RunOK(p, NoRun) /\ NoRun.found = {}
BY DEF TypeOK, FeedTypeOK, NoRun, Run, RunOK

\* A run starts with the oldest signals, and only these.
LEMMA LoadStep ==
  ASSUME IInv, NEW p \in Tracker, Load(p)
  PROVE  IInv'
<1> DEFINE s == [open |-> TRUE, clock |-> now, todo |-> Candidates(p) \X Horizons,
                 found |-> {}]
<1>1. now \in Nat /\ Index = 1 .. Len(signals) /\ Len(signals) \in Nat /\ Len(signals) <= MaxSignals
  BY SignalsAreTyped DEF IInv, TypeOK
<1>2. Candidates(p) \subseteq Index
  BY DEF Candidates, Oldest
<1>3. Candidates(p) \subseteq 1 .. MaxSignals
  BY <1>1, <1>2, FeedBoundAssumption
<1>4. s \in Run
  BY <1>1, <1>3 DEF Run, Case
<1>5. RunOK(p, s)
  <2>1. s.clock = now /\ s.todo = Candidates(p) \X Horizons /\ s.found = {}
    OBVIOUS
  <2> QED BY <1>1, <2>1 DEF RunOK
<1>6. /\ tracker' = [tracker EXCEPT ![p] = s] /\ UNCHANGED <<feed, edge>>
      /\ calls' \in Nat /\ faults' \in Nat
  BY DEF Load, IInv, TypeOK
<1> QED BY <1>4, <1>5, <1>6, RunChanges

\* The scan of a run ends.
LEMMA StopScanStep ==
  ASSUME IInv, NEW p \in Tracker, NEW c \in Case, StopScan(p, c)
  PROVE  IInv'
<1> DEFINE s == [tracker[p] EXCEPT !.todo = {}]
<1>1. tracker[p] \in Run /\ RunOK(p, tracker[p]) /\ tracker \in [Tracker -> Run]
  BY DEF IInv, TypeOK
<1>2. s \in Run /\ s.clock = tracker[p].clock /\ s.todo = {} /\ s.found = tracker[p].found
  BY <1>1 DEF Run
<1>3. RunOK(p, s)
  BY <1>1, <1>2 DEF RunOK
<1>4. /\ tracker' = [tracker EXCEPT ![p] = s] /\ UNCHANGED <<feed, edge>>
      /\ calls' \in Nat /\ faults' \in Nat
  BY <1>1 DEF StopScan, IInv, TypeOK
<1> QED BY <1>2, <1>3, <1>4, RunChanges

\* A run that finds a row found none there.
LEMMA ComputeStep ==
  ASSUME IInv, NEW p \in Tracker, NEW c \in Case, Compute(p, c)
  PROVE  IInv'
<1> DEFINE o == tracker[p]
           new == IF edge[c] = 0 /\ Outcome(p, c) THEN {c} ELSE {}
           s == [o EXCEPT !.todo = @ \ {c}, !.found = @ \cup new]
<1>1. o \in Run /\ RunOK(p, o) /\ tracker \in [Tracker -> Run] /\ c \in o.todo
  BY DEF IInv, TypeOK, Compute
<1>2. new \subseteq {c}
  OBVIOUS
<1>3. /\ s \in Run /\ s.clock = o.clock /\ s.todo = o.todo \ {c} /\ s.found = o.found \cup new
  BY <1>1, <1>2 DEF Run
<1>4. c[1] \in Index /\ c[1] \in Candidates(p)
  BY <1>1 DEF RunOK, Candidates, Oldest
<1>5. ASSUME c \in new PROVE edge[c] = 0 /\ Over(c, now)
  <2>1. edge[c] = 0 /\ Closed(c[1], c[2], o.clock)
    BY <1>5 DEF Outcome, Due
  <2>2. /\ signals[c[1]].at \in Nat /\ c[2] \in Nat /\ now \in Nat /\ o.clock \in Nat
        /\ o.clock <= now
    BY <1>1, <1>4, SignalsAreTyped DEF IInv, Run, RunOK
  <2> QED BY <1>4, <2>1, <2>2 DEF Over, Closed
<1>6. RunOK(p, s)
  BY <1>1, <1>2, <1>3, <1>4, <1>5 DEF RunOK
<1>7. \A d \in s.found : edge[d] = 0 \/ d \in o.found
  BY <1>2, <1>3, <1>5
<1>8. /\ tracker' = [tracker EXCEPT ![p] = s] /\ UNCHANGED <<feed, edge>>
      /\ calls' \in Nat /\ faults' \in Nat
  BY <1>1 DEF Compute, IInv, TypeOK
<1> HIDE DEF s
<1> QED BY <1>3, <1>6, <1>7, <1>8, RunChanges

\* A commit makes a row of each case its run found, and the run is no finder any
\* more.
LEMMA CommitStep ==
  ASSUME IInv, NEW p \in Tracker, Commit(p)
  PROVE  IInv'
<1>1. /\ tracker' = [tracker EXCEPT ![p] = NoRun]
      /\ edge' = [c \in Case |-> edge[c] + IF c \in tracker[p].found THEN 1 ELSE 0]
      /\ UNCHANGED <<now, candles, signals, calls, faults, Index>>
  BY DEF Commit, feed, Index
<1>2. /\ edge \in [Case -> Nat] /\ tracker \in [Tracker -> Run] /\ RunOK(p, tracker[p])
      /\ tracker[p].found \subseteq Case
  BY DEF IInv, TypeOK, Run
<1>3. NoRun \in Run /\ RunOK(p, NoRun) /\ NoRun.found = {}
  BY NoRunOK DEF IInv
<1>4. TypeOK'
  <2>1. edge' \in [Case -> Nat]
    BY <1>1, <1>2
  <2> QED BY <1>1, <1>2, <1>3, <2>1 DEF IInv, TypeOK, FeedTypeOK
<1>5. \A c : Over(c, now)' <=> Over(c, now)
  BY <1>1 DEF Over, Closed
<1>6. \A q \in Tracker : tracker'[q] = IF q = p THEN NoRun ELSE tracker[q]
  BY <1>1, <1>2
<1>7. ASSUME NEW q \in Tracker PROVE RunOK(q, tracker[q])'
  <2>1. RunOK(q, tracker'[q])
    BY <1>3, <1>6 DEF IInv
  <2> QED BY <1>1, <1>5, <2>1, SameCandidates DEF RunOK
<1>8. ASSUME NEW c \in Case PROVE RowOK(c)'
  <2> DEFINE F == Finders(c)
             G == Finders(c)'
  <2>1. F \in SUBSET Tracker /\ G = F \ {p} /\ edge[c] \in Nat
    BY <1>2, <1>3, <1>6 DEF Finders
  <2>2. Cardinality(F) \in Nat /\ Cardinality(Tracker) \in Nat /\ IsFiniteSet(F)
    BY <2>1, FindersAreFew
  <2>3. Cardinality(G) = IF p \in F THEN Cardinality(F) - 1 ELSE Cardinality(F)
    BY <2>1, <2>2, FS_RemoveElement
  <2>4. RowOK(c)
    BY DEF IInv
  <2>5. CASE c \in tracker[p].found
    <3>1. p \in F /\ edge'[c] = edge[c] + 1
      BY <1>1, <2>5 DEF Finders
    <3>2. edge'[c] + Cardinality(G) <= Cardinality(Tracker)
      BY <2>1, <2>2, <2>3, <2>4, <3>1 DEF RowOK
    <3>3. Over(c, now) /\ c[1] \in Candidates(p)'
      BY <1>1, <1>2, <2>5, SameCandidates DEF RunOK
    <3> QED BY <1>5, <3>2, <3>3 DEF RowOK
  <2>6. CASE c \notin tracker[p].found
    <3>1. p \notin F /\ edge'[c] = edge[c]
      BY <1>1, <2>1, <2>6 DEF Finders
    <3>2. \A q \in Tracker : Candidates(q)' = Candidates(q)
      BY <1>1, SameCandidates
    <3> QED BY <1>5, <2>3, <2>4, <3>1, <3>2 DEF RowOK
  <2> QED BY <2>5, <2>6
<1> QED BY <1>4, <1>7, <1>8 DEF IInv

\* Fail gives a run up.
LEMMA FailStep ==
  ASSUME IInv, NEW p \in Tracker, Fail(p)
  PROVE  IInv'
<1>1. /\ tracker' = [tracker EXCEPT ![p] = NoRun] /\ UNCHANGED <<feed, edge>>
      /\ calls' \in Nat /\ faults' \in Nat
  BY DEF Fail, IInv, TypeOK
<1>2. NoRun \in Run /\ RunOK(p, NoRun) /\ NoRun.found = {}
  BY NoRunOK DEF IInv
<1> QED BY <1>1, <1>2, RunChanges
-----------------------------------------------------------------------------
\* The invariant holds in every reachable state (run).
THEOREM Invariance == Spec => []IInv
<1>1. Init => IInv
  <2> SUFFICES ASSUME Init PROVE IInv
    OBVIOUS
  <2>1. /\ now = 0 /\ signals = <<>> /\ calls = 0 /\ faults = 0
        /\ candles = [m \in Market |-> {0}] /\ tracker = [p \in Tracker |-> NoRun]
        /\ edge = [c \in Case |-> 0]
    BY DEF Init, FeedInit
  <2>2. candles \in [Market -> SUBSET Nat] /\ signals \in Seq(Signal) /\ Len(signals) = 0
    BY <2>1
  <2>3. NoRun \in Run
    BY DEF NoRun, Run
  <2>4. TypeOK
    BY <2>1, <2>2, <2>3, FeedBoundAssumption DEF TypeOK, FeedTypeOK
  <2>5. \A p \in Tracker : RunOK(p, tracker[p])
    BY <2>1, <2>4, NoRunOK
  <2>6. ASSUME NEW c \in Case PROVE RowOK(c)
    <3>1. edge[c] = 0 /\ Finders(c) \in SUBSET Tracker
      BY <2>1 DEF Finders
    <3> QED BY <3>1, FindersAreFew DEF RowOK
  <2> QED BY <2>4, <2>5, <2>6 DEF IInv
<1>2. IInv /\ [Next]_vars => IInv'
  <2> SUFFICES ASSUME IInv, [Next]_vars PROVE IInv'
    OBVIOUS
  <2>1. CASE Feed
    BY <2>1, FeedKeepsRows
  <2>2. ASSUME NEW p \in Tracker, Load(p) \/ RunStep(p) \/ Fail(p) PROVE IInv'
    BY <2>2, LoadStep, StopScanStep, ComputeStep, CommitStep, FailStep DEF RunStep
  <2>3. CASE UNCHANGED vars
    <3>1. UNCHANGED <<now, candles, signals, edge, tracker, calls, faults, Index>>
      BY <2>3 DEF vars, feed, Index
    <3>2. \A c : Over(c, now)' <=> Over(c, now)
      BY <3>1 DEF Over, Closed
    <3>3. \A p \in Tracker : RunOK(p, tracker[p])' <=> RunOK(p, tracker[p])
      BY <3>1, <3>2, SameCandidates DEF RunOK
    <3>4. \A c \in Case : RowOK(c)' <=> RowOK(c)
      BY <3>1, <3>2, SameCandidates DEF RowOK, Finders
    <3> QED BY <3>1, <3>3, <3>4 DEF IInv, TypeOK, FeedTypeOK
  <2> QED BY <2>1, <2>2, <2>3 DEF Next
<1> QED BY <1>1, <1>2, PTL DEF Spec

\* Every variable keeps its type: a case that a run looks at exists.
THEOREM TypeCorrect == Spec => []TypeOK
<1>1. IInv => TypeOK
  BY DEF IInv
<1> QED BY <1>1, Invariance, PTL

\* The look-up keeps a process from a row that is there, so the rows of a signal
\* and horizon are at most as many as the processes, however often each runs,
\* and none comes before the horizon is over (run).
THEOREM CopiesAreFew == Spec => []CopiesFollowOverlap
<1>1. IInv => CopiesFollowOverlap
  <2> SUFFICES ASSUME IInv, NEW c \in Case
               PROVE  /\ edge[c] <= Cardinality(Tracker)
                      /\ edge[c] > 0 => c[1] \in Index /\ Closed(c[1], c[2], now)
    BY DEF CopiesFollowOverlap
  <2>1. Finders(c) \in SUBSET Tracker /\ edge[c] \in Nat /\ RowOK(c)
    BY DEF Finders, IInv, TypeOK
  <2>2. Cardinality(Finders(c)) \in Nat /\ Cardinality(Tracker) \in Nat
    BY <2>1, FindersAreFew
  <2> QED BY <2>1, <2>2 DEF RowOK, Over
<1> QED BY <1>1, Invariance, PTL

\* A signal that has a row is one of the oldest that some process looks at (run).
OnlyOldest ==
  \A c \in Case : edge[c] > 0 => \E p \in Tracker : c[1] \in Candidates(p)

\* The query takes the oldest signals whether they are evaluated or not: for any
\* limits, a signal beyond the first of them never gets a row, which is why
\* EveryDueIsEvaluated fails (run).
THEOREM OnlyOldestAreEvaluated == Spec => []OnlyOldest
<1>1. IInv => OnlyOldest
  BY DEF IInv, RowOK, OnlyOldest
<1> QED BY <1>1, Invariance, PTL
=============================================================================
