-------------------------- MODULE CollectionProofs --------------------------
(***************************************************************************)
(* For any runs, sources, targets and operator requests: what the sweep    *)
(* may overwrite, when the breaker opens, that it opens once, what may     *)
(* undo it, and that a sweep that is not cut off opens all it should.      *)
(***************************************************************************)
EXTENDS Collection, FiniteSetTheorems, TLAPS

Checking == sweep.pc \in {"errors", "targets", "open"}

\* The runs of the sweep outlived the TTL, and one that has succeeded since did
\* so after the sweep had loaded it.
SweptRuns ==
  sweep.pc # "idle" =>
    /\ sweep.stamp <= clock
    /\ sweep.runs \subseteq old
    /\ \A r \in sweep.runs : status[r] = "success" => finished[r] > sweep.stamp

\* What CheckRuns found keeps: runs that end in the meantime end later.
Justified(s) ==
  /\ Cardinality(Counted(s)) >= Threshold
  /\ \A r \in Counted(s) : status[r] = "success" =>
       finished[r] > sweep.stamp \/ Cardinality(LaterThan(r, s)) >= Threshold

\* The check of one source, as far as it has come.
CheckOK ==
  /\ Checking => /\ \E s \in Source : sweep.source = {s}
                 /\ \A s \in sweep.source : Justified(s)
  /\ sweep.pc \in {"targets", "open"} =>
       \A s \in sweep.source : \A e \in ErrorsOf(s) : e.by # "sweep"
  /\ sweep.pc = "open" /\ requests = 0 =>
       {t \in active : SourceOf[t] \in sweep.source} \subseteq sweep.targets \cup Seeded

Succeeded == \A r \in Run : status[r] = "success" => r \in ended

Begun == \A r \in ended : status[r] # "none"

NoOperator == requests = 0 => request = NoRequest

OneError ==
  \A e, f \in open_errors :
    NameOf[e.source] = NameOf[f.source] /\ e.by = "sweep" /\ f.by = "sweep" => e = f

IInv == TypeOK /\ SweptRuns /\ CheckOK /\ Succeeded /\ Begun /\ NoOperator
        /\ OneError /\ CircuitHolds
-----------------------------------------------------------------------------
LEMMA InitHolds == Init => IInv
<1> SUFFICES ASSUME Init PROVE IInv
  OBVIOUS
<1>1. sweep.pc = "idle" /\ IdleSweep \in Sweep /\ NoRequest \in Request
  BY DEF Init, IdleSweep, Sweep, NoRequest, Request
<1>2. TypeOK
  BY <1>1 DEF Init, TypeOK, RunStatus
<1>3. SweptRuns /\ CheckOK
  BY <1>1 DEF SweptRuns, CheckOK, Checking
<1>4. Succeeded /\ Begun /\ NoOperator /\ OneError
  BY DEF Init, Succeeded, Begun, NoOperator, OneError
<1>5. CircuitHolds
  BY DEF Init, CircuitHolds, ErrorsOf
<1> QED BY <1>2, <1>3, <1>4, <1>5 DEF IInv
-----------------------------------------------------------------------------
\* A run that ends leaves what the check under way found as it is.
LEMMA FinishJustifies ==
  ASSUME IInv, NEW r \in Run \ ended, NEW outcome \in RunStatus \ {"none", "running"},
         Finish(r, outcome), outcome = "partial" => status[r] = "none",
         UNCHANGED sweep, sweep.pc # "idle", NEW s \in Source, Justified(s)
  PROVE  Justified(s)'
<1>1. /\ status \in [Run -> RunStatus] /\ finished \in [Run -> 0 .. clock]
      /\ clock \in Nat /\ sweep.stamp <= clock /\ sweep.stamp \in Nat
  BY DEF IInv, TypeOK, SweptRuns, Sweep
<1>2. \A q \in Run : /\ status'[q] = IF q = r THEN outcome ELSE status[q]
                     /\ finished'[q] = IF q = r THEN clock + 1 ELSE finished[q]
                     /\ finished[q] \in Nat /\ finished[q] <= clock
  BY <1>1 DEF Finish
<1>3. Counted(s) \subseteq Counted(s)'
  BY <1>2 DEF Counted, RunStatus
<1>4. IsFiniteSet(Counted(s)')
  BY FS_Subset, DataAssumption DEF DataAssumption, Counted
<1>5. Cardinality(Counted(s)') >= Threshold
  <2>1. /\ Cardinality(Counted(s)) <= Cardinality(Counted(s)')
        /\ Cardinality(Counted(s)) \in Nat /\ Cardinality(Counted(s)') \in Nat
    BY <1>3, <1>4, FS_Subset, FS_CardinalityType
  <2> QED BY <2>1, BoundAssumption DEF Justified, BoundAssumption
<1>6. ASSUME NEW q \in Counted(s)', status'[q] = "success"
      PROVE  finished'[q] > sweep.stamp \/ Cardinality(LaterThan(q, s)') >= Threshold
  <2>0. q \in Run
    BY DEF Counted
  <2>1. CASE q = r
    BY <2>0, <2>1, <1>1, <1>2
  <2>2. CASE q # r
    <3>1. q \in Counted(s) /\ status[q] = "success" /\ finished'[q] = finished[q]
      BY <2>0, <2>2, <1>2, <1>6 DEF Counted
    <3>2. LaterThan(q, s) \subseteq LaterThan(q, s)'
      <4> SUFFICES ASSUME NEW p \in LaterThan(q, s) PROVE p \in LaterThan(q, s)'
        OBVIOUS
      <4>1. p \in Run /\ p \in Counted(s)' /\ finished[p] > finished[q]
        BY <1>3 DEF LaterThan, Counted
      <4>2. finished'[p] > finished'[q]
        BY <4>1, <3>1, <2>0, <1>1, <1>2
      <4> QED BY <4>1, <4>2 DEF LaterThan
    <3>3. IsFiniteSet(LaterThan(q, s)')
      BY <1>4, FS_Subset DEF LaterThan
    <3>4. /\ Cardinality(LaterThan(q, s)) <= Cardinality(LaterThan(q, s)')
          /\ Cardinality(LaterThan(q, s)) \in Nat
          /\ Cardinality(LaterThan(q, s)') \in Nat
      BY <3>2, <3>3, FS_Subset, FS_CardinalityType
    <3>5. finished[q] > sweep.stamp \/ Cardinality(LaterThan(q, s)) >= Threshold
      BY <3>1 DEF Justified
    <3> QED BY <3>1, <3>4, <3>5, BoundAssumption DEF BoundAssumption
  <2> QED BY <2>1, <2>2
<1>7. sweep' = sweep
  OBVIOUS
<1> QED BY <1>5, <1>6, <1>7 DEF Justified

\* A run that ends keeps the invariant.
LEMMA FinishKeeps ==
  ASSUME IInv, NEW r \in Run \ ended, NEW outcome \in RunStatus \ {"none", "running"},
         Finish(r, outcome), outcome = "partial" => status[r] = "none",
         UNCHANGED <<old, circuit, sweep, request, requests, deaths>>,
         scraper' \in [Scrapers -> [todo : SUBSET Target, group : SUBSET Target]]
  PROVE  IInv'
<1>1. /\ status \in [Run -> RunStatus] /\ finished \in [Run -> 0 .. clock]
      /\ clock \in Nat /\ sweep \in Sweep
  BY DEF IInv, TypeOK
<1>2. /\ clock' = clock + 1 /\ ended' = ended \cup {r}
      /\ status' \in [Run -> RunStatus]
      /\ \A q \in Run : /\ status'[q] = IF q = r THEN outcome ELSE status[q]
                        /\ finished'[q] = IF q = r THEN clock + 1 ELSE finished[q]
                        /\ finished[q] \in Nat /\ finished[q] <= clock
  BY <1>1 DEF Finish
<1>3. finished' \in [Run -> 0 .. clock']
  <2>1. \A q \in Run : finished'[q] \in 0 .. clock'
    BY <1>1, <1>2
  <2> QED BY <2>1, <1>1 DEF Finish
<1>4. TypeOK'
  BY <1>1, <1>2, <1>3 DEF IInv, TypeOK, circuit, Finish
<1>5. SweptRuns'
  <2> SUFFICES ASSUME sweep.pc # "idle"
               PROVE  /\ sweep.stamp <= clock' /\ sweep.runs \subseteq old
                      /\ \A q \in sweep.runs : status'[q] = "success"
                                               => finished'[q] > sweep.stamp
    BY DEF SweptRuns
  <2>1. /\ sweep.stamp \in Nat /\ sweep.stamp <= clock /\ sweep.runs \subseteq old
        /\ sweep.runs \subseteq Run
    BY <1>1 DEF IInv, SweptRuns, Sweep
  <2>2. ASSUME NEW q \in sweep.runs, status'[q] = "success"
        PROVE  finished'[q] > sweep.stamp
    BY <2>1, <2>2, <1>1, <1>2 DEF IInv, SweptRuns
  <2> QED BY <2>1, <2>2, <1>1, <1>2
<1>6. CheckOK'
  <2>1. Checking => \A s \in sweep.source : Justified(s)'
    BY <1>1, FinishJustifies DEF IInv, CheckOK, Checking, Sweep
  <2> QED BY <2>1 DEF IInv, CheckOK, Checking, ErrorsOf, circuit
<1>7. Succeeded' /\ Begun'
  BY <1>1, <1>2 DEF IInv, TypeOK, Succeeded, Begun
<1>8. NoOperator' /\ OneError' /\ CircuitHolds'
  BY DEF IInv, NoOperator, OneError, CircuitHolds, ErrorsOf, TargetsOf, circuit
<1> QED BY <1>4, <1>5, <1>6, <1>7, <1>8 DEF IInv
-----------------------------------------------------------------------------
LEMMA StartRunKeeps ==
  ASSUME IInv, NEW r \in Run, StartRun(r) PROVE IInv'
<1>1. /\ \A q \in Run : status'[q] = IF q = r THEN "running" ELSE status[q]
      /\ status' \in [Run -> RunStatus] /\ status[r] = "none"
      /\ UNCHANGED <<finished, clock, old, ended, circuit, sweep, request, scraper,
                     requests, deaths>>
  BY DEF StartRun, IInv, TypeOK, RunStatus
<1>2. TypeOK'
  BY <1>1 DEF IInv, TypeOK, circuit
<1>3. \A s \in Source : Counted(s)' = Counted(s)
  BY <1>1 DEF Counted
<1>4. \A s \in Source : Justified(s) => Justified(s)'
  BY <1>1, <1>3 DEF Justified, LaterThan, Counted
<1>5. SweptRuns'
  <2>1. sweep.runs \subseteq Run
    BY DEF IInv, TypeOK, Sweep
  <2> QED BY <2>1, <1>1 DEF IInv, SweptRuns
<1>6. CheckOK'
  BY <1>1, <1>4 DEF IInv, CheckOK, Checking, ErrorsOf, circuit
<1>7. Succeeded' /\ Begun' /\ NoOperator' /\ OneError' /\ CircuitHolds'
  BY <1>1 DEF IInv, TypeOK, Succeeded, Begun, NoOperator, OneError, CircuitHolds, ErrorsOf,
              TargetsOf, circuit
<1> QED BY <1>2, <1>5, <1>6, <1>7 DEF IInv

LEMMA EndRunKeeps ==
  ASSUME IInv, NEW r \in Run, EndRun(r) PROVE IInv'
<1>1. PICK outcome \in {"success", "failed"} : Finish(r, outcome)
  BY DEF EndRun
<1>2. outcome \in RunStatus \ {"none", "running"} /\ outcome # "partial"
  BY DEF RunStatus
<1> QED BY <1>1, <1>2, FinishKeeps DEF EndRun, IInv, TypeOK

\* A step of the target runners that touches none of the tables.
LEMMA RunnerMoves ==
  ASSUME IInv, UNCHANGED <<runs, circuit, sweep, request, requests, deaths>>,
         scraper' \in [Scrapers -> [todo : SUBSET Target, group : SUBSET Target]]
  PROVE  IInv'
<1>1. TypeOK'
  BY DEF IInv, TypeOK, runs, circuit
<1>2. SweptRuns' /\ CheckOK'
  BY DEF IInv, SweptRuns, CheckOK, Checking, Justified, Counted, LaterThan, ErrorsOf,
         runs, circuit
<1>3. Succeeded' /\ Begun' /\ NoOperator' /\ OneError' /\ CircuitHolds'
  BY DEF IInv, Succeeded, Begun, NoOperator, OneError, CircuitHolds, ErrorsOf,
         TargetsOf, runs, circuit
<1> QED BY <1>1, <1>2, <1>3 DEF IInv

LEMMA FinishGroupKeeps ==
  ASSUME IInv, NEW p \in Scrapers, FinishGroup(p) PROVE IInv'
<1>1. /\ scraper' = [scraper EXCEPT ![p] = [todo |-> scraper[p].todo \ scraper[p].group,
                                           group |-> {}]]
      /\ UNCHANGED <<old, circuit, sweep, request, requests, deaths>>
  BY DEF FinishGroup
<1>2. scraper' \in [Scrapers -> [todo : SUBSET Target, group : SUBSET Target]]
  BY <1>1 DEF IInv, TypeOK
<1>3. CASE UNCHANGED <<status, finished, clock, ended>>
  BY <1>1, <1>2, <1>3, RunnerMoves DEF runs
<1>4. CASE \E r \in LegacyRun, outcome \in {"success", "partial", "failed"} :
             status[r] = "none" /\ Finish(r, outcome)
  <2>1. PICK r \in LegacyRun, outcome \in {"success", "partial", "failed"} :
               status[r] = "none" /\ Finish(r, outcome)
    BY <1>4
  <2>2. r \in Run \ ended
    BY <2>1, DataAssumption DEF DataAssumption, IInv, Begun
  <2>3. outcome \in RunStatus \ {"none", "running"}
    BY DEF RunStatus
  <2> QED BY <1>1, <1>2, <2>1, <2>2, <2>3, FinishKeeps
<1> QED BY <1>3, <1>4 DEF FinishGroup

LEMMA PassTTLKeeps ==
  ASSUME IInv, NEW r \in Run, PassTTL(r) PROVE IInv'
<1> USE DEF PassTTL
<1>1. TypeOK'
  BY DEF IInv, TypeOK, circuit
<1>2. SweptRuns' /\ CheckOK'
  BY DEF IInv, SweptRuns, CheckOK, Checking, Justified, Counted, LaterThan, ErrorsOf,
         circuit
<1>3. Succeeded' /\ Begun' /\ NoOperator' /\ OneError' /\ CircuitHolds'
  BY DEF IInv, Succeeded, Begun, NoOperator, OneError, CircuitHolds, ErrorsOf,
         TargetsOf, circuit
<1> QED BY <1>1, <1>2, <1>3 DEF IInv
-----------------------------------------------------------------------------
(***************************************************************************)
(* The sweep.                                                              *)
(***************************************************************************)
LEMMA LoadStaleKeeps ==
  ASSUME IInv, LoadStale PROVE IInv'
<1>1. /\ clock' = clock + 1 /\ clock \in Nat
      /\ sweep' = [pc |-> "mark", runs |-> Stale, stamp |-> clock + 1, sources |-> {},
                   source |-> {}, targets |-> {}]
      /\ UNCHANGED <<status, finished, old, ended, circuit, request, scraper,
                     requests, deaths>>
  BY DEF LoadStale, IdleSweep, IInv, TypeOK
<1>2. sweep' \in Sweep
  BY <1>1 DEF Sweep, Stale
<1>3. finished' \in [Run -> 0 .. clock']
  BY <1>1 DEF IInv, TypeOK
<1>4. TypeOK'
  BY <1>1, <1>2, <1>3 DEF IInv, TypeOK, circuit
<1>5. SweptRuns' /\ CheckOK'
  BY <1>1 DEF SweptRuns, CheckOK, Checking, Stale
<1>6. Succeeded' /\ Begun' /\ NoOperator' /\ OneError' /\ CircuitHolds'
  BY <1>1 DEF IInv, Succeeded, Begun, NoOperator, OneError, CircuitHolds, ErrorsOf,
              TargetsOf, circuit
<1> QED BY <1>4, <1>5, <1>6 DEF IInv

LEMMA MarkFailedKeeps ==
  ASSUME IInv, MarkFailed PROVE IInv'
<1>1. /\ sweep.pc = "mark" /\ sweep \in Sweep
      /\ status' = [r \in Run |-> IF r \in sweep.runs THEN "failed" ELSE status[r]]
      /\ finished' = [r \in Run |-> IF r \in sweep.runs THEN sweep.stamp
                                                      ELSE finished[r]]
      /\ sweep' = [sweep EXCEPT !.pc = "runs",
                                !.sources = {RunSource[r] : r \in sweep.runs}]
      /\ UNCHANGED <<clock, old, ended, circuit, request, scraper, requests, deaths>>
  BY DEF MarkFailed, IInv, TypeOK
<1>2. /\ sweep.runs \subseteq Run /\ sweep.stamp \in Nat /\ sweep.stamp <= clock
      /\ sweep.runs \subseteq old
  BY <1>1 DEF Sweep, IInv, SweptRuns
<1>3. {RunSource[r] : r \in sweep.runs} \subseteq Source
  BY <1>2, DataAssumption DEF DataAssumption
<1>4. /\ sweep' \in Sweep /\ sweep'.pc = "runs" /\ sweep'.runs = sweep.runs
      /\ sweep'.stamp = sweep.stamp
  BY <1>1, <1>3 DEF Sweep
<1>5. status' \in [Run -> RunStatus] /\ finished' \in [Run -> 0 .. clock']
  BY <1>1, <1>2 DEF IInv, TypeOK, RunStatus
<1>6. TypeOK'
  BY <1>1, <1>4, <1>5 DEF IInv, TypeOK, circuit
<1>7. SweptRuns' /\ CheckOK'
  BY <1>1, <1>2, <1>4 DEF SweptRuns, CheckOK, Checking
<1>8. Succeeded' /\ Begun' /\ NoOperator' /\ OneError' /\ CircuitHolds'
  BY <1>1 DEF IInv, TypeOK, Succeeded, Begun, NoOperator, OneError, CircuitHolds,
              ErrorsOf, TargetsOf, circuit
<1> QED BY <1>6, <1>7, <1>8 DEF IInv

\* The failures the breaker acts on justify it.
LEMMA AllFailedJustifies ==
  ASSUME IInv, sweep.pc # "idle", NEW s \in Source,
         AllFailed(s, Failed \cup sweep.runs)
  PROVE  Justified(s)
<1> SUFFICES ASSUME NEW r \in Counted(s), status[r] = "success"
             PROVE  finished[r] > sweep.stamp \/ Cardinality(LaterThan(r, s)) >= Threshold
  BY DEF Justified, AllFailed
<1>1. CASE r \in sweep.runs
  BY <1>1 DEF IInv, SweptRuns
<1>2. CASE r \notin sweep.runs
  BY <1>2 DEF AllFailed, Failed
<1> QED BY <1>1, <1>2

\* A step that changes nothing but how far the sweep has come.
LEMMA SweepMoves ==
  ASSUME IInv, UNCHANGED <<runs, circuit, request, scraper, requests>>,
         deaths' \in Nat, sweep' \in Sweep,
         sweep'.pc # "idle" =>
           /\ sweep.pc # "idle"
           /\ sweep'.runs = sweep.runs /\ sweep'.stamp = sweep.stamp,
         CheckOK'
  PROVE  IInv'
<1>1. TypeOK' /\ SweptRuns'
  BY DEF IInv, TypeOK, SweptRuns, runs, circuit
<1>2. Succeeded' /\ Begun' /\ NoOperator' /\ OneError' /\ CircuitHolds'
  BY DEF IInv, Succeeded, Begun, NoOperator, OneError, CircuitHolds, ErrorsOf,
         TargetsOf, runs, circuit
<1> QED BY <1>1, <1>2 DEF IInv

LEMMA NextSourceType ==
  ASSUME IInv
  PROVE  /\ NextSource \in Sweep /\ NextSource.pc \in {"idle", "runs"}
         /\ NextSource.pc # "idle" =>
              NextSource.runs = sweep.runs /\ NextSource.stamp = sweep.stamp
<1>1. sweep \in Sweep
  BY DEF IInv, TypeOK
<1>2. CASE sweep.sources = {}
  BY <1>2 DEF NextSource, IdleSweep, Sweep
<1>3. CASE sweep.sources # {}
  BY <1>1, <1>3 DEF NextSource, Sweep
<1> QED BY <1>2, <1>3

LEMMA CheckRunsKeeps ==
  ASSUME IInv, CheckRuns PROVE IInv'
<1>1. sweep \in Sweep /\ sweep.pc = "runs" /\ UNCHANGED <<runs, circuit, request,
        scraper, requests, deaths>> /\ deaths \in Nat
  BY DEF CheckRuns, IInv, TypeOK
<1>2. PICK s \in sweep.sources :
        sweep' = IF AllFailed(s, Failed \cup sweep.runs)
                 THEN [sweep EXCEPT !.pc = "errors", !.source = {s},
                                    !.sources = sweep.sources \ {s}]
                 ELSE IF sweep.sources = {s} THEN IdleSweep
                 ELSE [sweep EXCEPT !.sources = sweep.sources \ {s}]
  BY DEF CheckRuns
<1>3. s \in Source
  BY <1>1 DEF Sweep
<1>4. CASE AllFailed(s, Failed \cup sweep.runs)
  <2>1. /\ sweep' \in Sweep /\ sweep'.pc = "errors" /\ sweep'.source = {s}
        /\ sweep'.runs = sweep.runs /\ sweep'.stamp = sweep.stamp
    BY <1>1, <1>2, <1>3, <1>4 DEF Sweep
  <2>2. Justified(s)'
    <3>1. Justified(s)
      BY <1>1, <1>3, <1>4, AllFailedJustifies
    <3> QED BY <3>1, <2>1, <1>1 DEF Justified, Counted, LaterThan, runs
  <2>3. CheckOK'
    BY <2>1, <2>2, <1>3 DEF CheckOK, Checking
  <2> QED BY <1>1, <2>1, <2>3, SweepMoves
<1>5. CASE ~AllFailed(s, Failed \cup sweep.runs) /\ sweep.sources = {s}
  <2>1. sweep' \in Sweep /\ sweep'.pc = "idle"
    BY <1>2, <1>5 DEF Sweep, IdleSweep
  <2>2. CheckOK'
    BY <2>1 DEF CheckOK, Checking
  <2> QED BY <1>1, <2>1, <2>2, SweepMoves
<1>6. CASE ~AllFailed(s, Failed \cup sweep.runs) /\ sweep.sources # {s}
  <2>1. /\ sweep' \in Sweep /\ sweep'.pc = "runs"
        /\ sweep'.runs = sweep.runs /\ sweep'.stamp = sweep.stamp
    BY <1>1, <1>2, <1>6 DEF Sweep
  <2>2. CheckOK'
    BY <2>1 DEF CheckOK, Checking
  <2> QED BY <1>1, <2>1, <2>2, SweepMoves
<1> QED BY <1>4, <1>5, <1>6

LEMMA CheckErrorsKeeps ==
  ASSUME IInv, CheckErrors PROVE IInv'
<1>1. sweep \in Sweep /\ sweep.pc = "errors" /\ UNCHANGED <<runs, circuit, request,
        scraper, requests, deaths>> /\ deaths \in Nat
  BY DEF CheckErrors, IInv, TypeOK
<1>2. CASE \E s \in sweep.source : Open(s)
  <2>1. sweep' = NextSource
    BY <1>2 DEF CheckErrors
  <2>2. CheckOK'
    BY <2>1, NextSourceType DEF CheckOK, Checking
  <2> QED BY <1>1, <2>1, <2>2, NextSourceType, SweepMoves
<1>3. CASE ~\E s \in sweep.source : Open(s)
  <2>1. sweep' = [sweep EXCEPT !.pc = "targets"]
    BY <1>3 DEF CheckErrors
  <2>2. /\ sweep' \in Sweep /\ sweep'.pc = "targets" /\ sweep'.source = sweep.source
        /\ sweep'.runs = sweep.runs /\ sweep'.stamp = sweep.stamp
    BY <1>1, <2>1 DEF Sweep
  <2>3. \A s \in Source : Justified(s) => Justified(s)'
    BY <1>1, <2>2 DEF Justified, Counted, LaterThan, runs
  <2>4. PICK s \in Source : sweep.source = {s} /\ Justified(s)
    BY <1>1 DEF IInv, CheckOK, Checking
  <2>5. \A q \in sweep'.source : \A e \in ErrorsOf(q)' : e.by # "sweep"
    BY <1>1, <1>3, <2>2 DEF Open, ErrorsOf, circuit
  <2>6. CheckOK'
    BY <2>2, <2>3, <2>4, <2>5 DEF CheckOK, Checking
  <2> QED BY <1>1, <2>2, <2>6, SweepMoves
<1> QED BY <1>2, <1>3

LEMMA CheckTargetsKeeps ==
  ASSUME IInv, CheckTargets PROVE IInv'
<1> DEFINE found == {t \in active : SourceOf[t] \in sweep.source}
<1>1. sweep \in Sweep /\ sweep.pc = "targets" /\ UNCHANGED <<runs, circuit, request,
        scraper, requests, deaths>> /\ deaths \in Nat
  BY DEF CheckTargets, IInv, TypeOK
<1>2. found \subseteq Target
  BY DEF IInv, TypeOK
<1>3. sweep' = [sweep EXCEPT !.pc = "open", !.targets = found]
  BY DEF CheckTargets
<1>4. /\ sweep' \in Sweep /\ sweep'.pc = "open" /\ sweep'.source = sweep.source
      /\ sweep'.runs = sweep.runs /\ sweep'.stamp = sweep.stamp
      /\ sweep'.targets = found
  BY <1>1, <1>2, <1>3 DEF Sweep
<1>5. \A s \in Source : Justified(s) => Justified(s)'
  BY <1>1, <1>4 DEF Justified, Counted, LaterThan, runs
<1>6. PICK s \in Source : sweep.source = {s} /\ Justified(s)
  BY <1>1 DEF IInv, CheckOK, Checking
<1>7. CheckOK'
  <2>1. \A q \in sweep'.source : \A e \in ErrorsOf(q)' : e.by # "sweep"
    BY <1>1, <1>4 DEF IInv, CheckOK, ErrorsOf, circuit
  <2>2. {t \in active' : SourceOf[t] \in sweep'.source} = found
    BY <1>1, <1>4 DEF circuit
  <2> QED BY <1>4, <1>5, <1>6, <2>1, <2>2 DEF CheckOK, Checking
<1> QED BY <1>1, <1>4, <1>7, SweepMoves

LEMMA OpenCircuitKeeps ==
  ASSUME IInv, OpenCircuit PROVE IInv'
<1>1. /\ sweep \in Sweep /\ sweep.pc = "open" /\ active' = active \ sweep.targets
      /\ sweep' = NextSource
      /\ UNCHANGED <<runs, request, scraper, requests, deaths>>
  BY DEF OpenCircuit, IInv, TypeOK
<1>2. PICK s \in Source : sweep.source = {s}
  BY <1>1 DEF IInv, CheckOK, Checking
<1> DEFINE new == [source |-> s, by |-> "sweep", id |-> raised + 1]
<1>3. open_errors' = open_errors \cup {new} /\ raised' = raised + 1
  BY <1>2 DEF OpenCircuit, RaiseOpen
<1>4. new \in OpenError /\ raised' \in Nat
  BY <1>3 DEF OpenError, IInv, TypeOK
<1>5. TypeOK'
  BY <1>1, <1>3, <1>4, NextSourceType DEF IInv, TypeOK, runs
<1>6. SweptRuns' /\ CheckOK'
  BY <1>1, NextSourceType DEF IInv, SweptRuns, CheckOK, Checking, runs
<1>7. OneError'
  <2>1. \A e \in open_errors : NameOf[e.source] = NameOf[s] => e.by # "sweep"
    BY <1>1, <1>2 DEF IInv, CheckOK, ErrorsOf
  <2>2. new.source = s
    OBVIOUS
  <2> HIDE DEF new
  <2> QED BY <1>3, <2>1, <2>2 DEF IInv, OneError
<1>8. CircuitHolds'
  <2> SUFFICES ASSUME requests = 0, NEW q \in Source,
                      NEW e \in open_errors', e.source = q, e.by = "sweep"
               PROVE  (active \ sweep.targets) \cap TargetsOf(q) \subseteq Seeded
    BY <1>1 DEF CircuitHolds, ErrorsOf, TargetsOf
  <2>1. CASE e \in open_errors
    BY <2>1 DEF IInv, CircuitHolds, ErrorsOf
  <2>2. CASE e = new
    <3>1. q = s
      BY <2>2
    <3>2. {t \in active : SourceOf[t] \in sweep.source} \subseteq sweep.targets \cup Seeded
      BY <1>1 DEF IInv, CheckOK
    <3> QED BY <1>2, <3>1, <3>2 DEF TargetsOf
  <2> QED BY <1>3, <2>1, <2>2
<1>9. Succeeded' /\ Begun' /\ NoOperator'
  BY <1>1 DEF IInv, Succeeded, Begun, NoOperator, runs
<1> QED BY <1>5, <1>6, <1>7, <1>8, <1>9 DEF IInv

LEMMA SweepDiesKeeps ==
  ASSUME IInv, SweepDies PROVE IInv'
<1>1. sweep' \in Sweep /\ sweep'.pc = "idle" /\ deaths' \in Nat
  BY DEF SweepDies, IdleSweep, Sweep, IInv, TypeOK
<1>2. CheckOK'
  BY <1>1 DEF CheckOK, Checking
<1> QED BY <1>1, <1>2, SweepMoves DEF SweepDies
-----------------------------------------------------------------------------
(***************************************************************************)
(* Operators, default targets and target runners.                          *)
(***************************************************************************)
\* A step that changes the circuit while no check is undone by it.
LEMMA CircuitMoves ==
  ASSUME IInv, UNCHANGED <<runs, sweep, scraper, deaths>>,
         requests' \in Nat, request' \in Request, active' \subseteq Target,
         open_errors' \subseteq OpenError, raised' \in Nat,
         requests' # 0,
         \A e \in open_errors' \ open_errors : e.by # "sweep"
  PROVE  IInv'
<1>1. TypeOK' /\ SweptRuns'
  BY DEF IInv, TypeOK, SweptRuns, runs
<1>2. CheckOK'
  <2>1. \A s \in Source : Justified(s) => Justified(s)'
    BY DEF Justified, Counted, LaterThan, runs
  <2>2. Checking' => /\ \E s \in Source : sweep'.source = {s}
                     /\ \A s \in sweep'.source : Justified(s)'
    BY <2>1 DEF IInv, CheckOK, Checking
  <2>3. sweep.pc \in {"targets", "open"} =>
          \A s \in sweep.source : \A e \in ErrorsOf(s)' : e.by # "sweep"
    BY DEF IInv, CheckOK, ErrorsOf
  <2> QED BY <2>2, <2>3 DEF CheckOK
<1>3. Succeeded' /\ Begun' /\ NoOperator' /\ CircuitHolds'
  BY DEF IInv, Succeeded, Begun, NoOperator, CircuitHolds, runs
<1>4. OneError'
  BY DEF IInv, OneError
<1> QED BY <1>1, <1>2, <1>3, <1>4 DEF IInv

LEMMA EnsureDefaultsKeeps ==
  ASSUME IInv, EnsureDefaults PROVE IInv'
<1>1. /\ \E enabled \in SUBSET Seeded, disabled \in SUBSET Retired :
           active' = (active \cup enabled) \ disabled
      /\ UNCHANGED <<runs, open_errors, raised, sweep, request, scraper, requests,
                     deaths>>
  BY DEF EnsureDefaults
<1>2. active' \subseteq Target
  BY <1>1, DataAssumption DEF DataAssumption, IInv, TypeOK
<1>3. TypeOK' /\ SweptRuns'
  BY <1>1, <1>2 DEF IInv, TypeOK, SweptRuns, runs
<1>4. CheckOK'
  <2>1. \A s \in Source : Justified(s) => Justified(s)'
    BY <1>1 DEF Justified, Counted, LaterThan, runs
  <2>2. sweep.pc = "open" /\ requests = 0 =>
          {t \in active' : SourceOf[t] \in sweep.source}
            \subseteq sweep.targets \cup Seeded
    BY <1>1 DEF IInv, CheckOK
  <2>3. sweep.pc \in {"targets", "open"} =>
          \A s \in sweep'.source : \A e \in ErrorsOf(s)' : e.by # "sweep"
    BY <1>1 DEF IInv, CheckOK, ErrorsOf
  <2>4. Checking' => /\ \E s \in Source : sweep'.source = {s}
                     /\ \A s \in sweep'.source : Justified(s)'
    BY <1>1, <2>1 DEF IInv, CheckOK, Checking
  <2> QED BY <1>1, <2>2, <2>3, <2>4 DEF CheckOK
<1>5. Succeeded' /\ Begun' /\ NoOperator' /\ OneError'
  BY <1>1 DEF IInv, Succeeded, Begun, NoOperator, OneError, runs
<1>6. CircuitHolds'
  BY <1>1 DEF IInv, CircuitHolds, ErrorsOf, TargetsOf
<1> QED BY <1>3, <1>4, <1>5, <1>6 DEF IInv

LEMMA SetTargetKeeps ==
  ASSUME IInv, NEW t \in Target, SetTarget(t) PROVE IInv'
<1>1. requests' \in Nat /\ requests' # 0 /\ active' \subseteq Target
  BY DEF SetTarget, IInv, TypeOK
<1> QED BY <1>1, CircuitMoves DEF SetTarget, IInv, TypeOK

LEMMA ReadRequestKeeps ==
  ASSUME IInv, NEW s \in Source, ReadRequest(s) PROVE IInv'
<1>1. requests' \in Nat /\ requests' # 0
  BY DEF ReadRequest, IInv, TypeOK
<1>2. ErrorsOf(s) \subseteq OpenError /\ TargetsOf(s) \subseteq Target
  BY DEF ErrorsOf, TargetsOf, IInv, TypeOK
<1>3. request' \in Request
  BY <1>2 DEF ReadRequest, Request
<1> QED BY <1>1, <1>3, CircuitMoves DEF ReadRequest, IInv, TypeOK, circuit

LEMMA WriteOpenKeeps ==
  ASSUME IInv, WriteOpen PROVE IInv'
<1>1. PICK s \in request.source : RaiseOpen(s, "operator")
  BY DEF WriteOpen
<1> DEFINE new == [source |-> s, by |-> "operator", id |-> raised + 1]
<1>2. open_errors' = open_errors \cup {new} /\ raised' = raised + 1
  BY <1>1 DEF RaiseOpen
<1>3. s \in Source
  BY <1>1 DEF IInv, TypeOK, Request
<1>4. new \in OpenError /\ raised' \in Nat /\ new.by = "operator"
  BY <1>2, <1>3 DEF OpenError, IInv, TypeOK
<1>5. requests' # 0 /\ requests' \in Nat
  BY DEF WriteOpen, IInv, TypeOK, NoOperator, NoRequest
<1>6. request' \in Request /\ active' \subseteq Target
  BY DEF WriteOpen, IInv, TypeOK, NoRequest, Request
<1> HIDE DEF new
<1>7. \A e \in open_errors' \ open_errors : e.by # "sweep"
  BY <1>2, <1>4
<1>8. open_errors' \subseteq OpenError
  BY <1>2, <1>4 DEF IInv, TypeOK
<1> QED BY <1>4, <1>5, <1>6, <1>7, <1>8, CircuitMoves DEF WriteOpen

LEMMA WriteReopenKeeps ==
  ASSUME IInv, WriteReopen PROVE IInv'
<1>1. requests' # 0 /\ requests' \in Nat
  BY DEF WriteReopen, IInv, TypeOK, NoOperator, NoRequest
<1>2. request' \in Request
  BY DEF WriteReopen, NoRequest, Request
<1>3. /\ active' \subseteq Target /\ open_errors' \subseteq OpenError
      /\ open_errors' \subseteq open_errors
  BY DEF WriteReopen, IInv, TypeOK, Request
<1> QED BY <1>1, <1>2, <1>3, CircuitMoves DEF WriteReopen, IInv, TypeOK

LEMMA ResolveErrorKeeps ==
  ASSUME IInv, NEW e \in open_errors, ResolveError(e) PROVE IInv'
<1>1. requests' # 0 /\ requests' \in Nat
  BY DEF ResolveError, IInv, TypeOK
<1>2. open_errors' \subseteq OpenError /\ open_errors' \subseteq open_errors
  BY DEF ResolveError, IInv, TypeOK
<1> QED BY <1>1, <1>2, CircuitMoves DEF ResolveError, IInv, TypeOK

LEMMA LoadTargetsKeeps ==
  ASSUME IInv, NEW p \in Scrapers, LoadTargets(p) PROVE IInv'
<1>1. PICK S \in ((SUBSET active) \cup {{t} : t \in Target}) \ {{}} :
        scraper' = [scraper EXCEPT ![p].todo = S]
  BY DEF LoadTargets
<1>2. S \subseteq Target
  BY DEF IInv, TypeOK
<1>3. scraper' \in [Scrapers -> [todo : SUBSET Target, group : SUBSET Target]]
  BY <1>1, <1>2 DEF IInv, TypeOK
<1> QED BY <1>3, RunnerMoves DEF LoadTargets

LEMMA StartGroupKeeps ==
  ASSUME IInv, NEW p \in Scrapers, StartGroup(p) PROVE IInv'
<1>1. PICK todo \in SUBSET Target, group \in SUBSET Target :
        scraper' = [scraper EXCEPT ![p] = [todo |-> todo, group |-> group]]
  <2>1. PICK collector \in {LegacyTarget, Target \ LegacyTarget} :
          LET targets == scraper[p].todo \cap collector
              free == {t \in targets : ~Locked(t)}
          IN scraper' = [scraper EXCEPT ![p] =
               [todo |-> scraper[p].todo \ (targets \ free), group |-> free]]
    BY DEF StartGroup
  <2>2. scraper[p].todo \subseteq Target
    BY DEF IInv, TypeOK
  <2> QED BY <2>1, <2>2
<1>2. scraper' \in [Scrapers -> [todo : SUBSET Target, group : SUBSET Target]]
  BY <1>1 DEF IInv, TypeOK
<1> QED BY <1>2, RunnerMoves DEF StartGroup
-----------------------------------------------------------------------------
LEMMA StepHolds == IInv /\ [Next]_vars => IInv'
<1> SUFFICES ASSUME IInv, [Next]_vars PROVE IInv'
  OBVIOUS
<1>1. ASSUME NEW r \in Run, StartRun(r) \/ EndRun(r) \/ PassTTL(r) PROVE IInv'
  BY <1>1, StartRunKeeps, EndRunKeeps, PassTTLKeeps
<1>2. CASE SweepStep
  BY <1>2, LoadStaleKeeps, MarkFailedKeeps, CheckRunsKeeps, CheckErrorsKeeps,
     CheckTargetsKeeps, OpenCircuitKeeps DEF SweepStep
<1>3. CASE SweepDies
  BY <1>3, SweepDiesKeeps
<1>4. CASE EnsureDefaults
  BY <1>4, EnsureDefaultsKeeps
<1>5. ASSUME NEW t \in Target, SetTarget(t) PROVE IInv'
  BY <1>5, SetTargetKeeps
<1>6. ASSUME NEW s \in Source, ReadRequest(s) PROVE IInv'
  BY <1>6, ReadRequestKeeps
<1>7. CASE WriteOpen \/ WriteReopen
  BY <1>7, WriteOpenKeeps, WriteReopenKeeps
<1>8. ASSUME NEW e \in open_errors, ResolveError(e) PROVE IInv'
  BY <1>8, ResolveErrorKeeps
<1>9. ASSUME NEW p \in Scrapers, LoadTargets(p) \/ StartGroup(p) \/ FinishGroup(p)
      PROVE  IInv'
  BY <1>9, LoadTargetsKeeps, StartGroupKeeps, FinishGroupKeeps
<1>10. CASE UNCHANGED vars
  BY <1>10, RunnerMoves DEF vars, IInv, TypeOK
<1> QED BY <1>1, <1>2, <1>3, <1>4, <1>5, <1>6, <1>7, <1>8, <1>9, <1>10 DEF Next

LEMMA Invariance == Spec => []IInv
<1> QED BY InitHolds, StepHolds, PTL DEF Spec

\* The tables and the processes' own state keep their types.
THEOREM TypeCorrect == Spec => []TypeOK
<1>1. IInv => TypeOK
  BY DEF IInv
<1> QED BY <1>1, Invariance, PTL

\* The breaker never has two unresolved errors of its own for one name: the
\* sweep that opens is the only one, and it has looked before it leapt.
THEOREM ReportsOnce == Spec => []OpensOnce
<1>1. IInv => OpensOnce
  <2> SUFFICES ASSUME IInv, NEW s \in Source
               PROVE  Cardinality({e \in ErrorsOf(s) : e.by = "sweep"}) <= 1
    BY DEF OpensOnce
  <2> DEFINE E == {e \in ErrorsOf(s) : e.by = "sweep"}
  <2> SUFFICES Cardinality(E) <= 1
    OBVIOUS
  <2>1. \A e, f \in E : e = f
    BY DEF IInv, OneError, ErrorsOf
  <2>2. CASE E = {}
    BY <2>2, FS_EmptySet
  <2>3. CASE E # {}
    <3>1. PICK e : E = {e}
      BY <2>1, <2>3
    <3> QED
      <4>1. Cardinality({e}) = 1
        BY FS_Singleton
      <4> HIDE DEF E
      <4> QED BY <3>1, <4>1
  <2> QED BY <2>2, <2>3
<1> QED BY <1>1, Invariance, PTL

\* Without an operator nothing but the seeding of the defaults reactivates a
\* target of a source whose circuit the breaker opened.
THEOREM CircuitStaysOpen == Spec => []CircuitHolds
<1>1. IInv => CircuitHolds
  BY DEF IInv
<1> QED BY <1>1, Invariance, PTL

\* The breaker opens only against a source whose latest Threshold finished runs
\* failed, but for successes that came while it was looking.
THEOREM OpensJustly == Spec => OpensOnFailures
<1>1. ASSUME IInv, [Next]_vars, NEW s \in Source, SweepOpens(s) PROVE Justified(s)
  <2>1. PICK e \in open_errors' \ open_errors : e.source = s /\ e.by = "sweep"
    BY <1>1 DEF SweepOpens
  <2>2. CASE OpenCircuit
    <3>1. sweep.pc = "open" /\ s \in sweep.source
      BY <2>1, <2>2 DEF OpenCircuit, RaiseOpen
    <3> QED BY <1>1, <3>1 DEF IInv, CheckOK, Checking
  <2>3. CASE WriteOpen
    BY <2>1, <2>3 DEF WriteOpen, RaiseOpen
  <2>4. CASE ~OpenCircuit /\ ~WriteOpen
    <3>1. open_errors' \subseteq open_errors
      BY <1>1, <2>4 DEF Next, vars, SweepStep, circuit, StartRun, EndRun, PassTTL,
         LoadStale, MarkFailed, CheckRuns, CheckErrors, CheckTargets, SweepDies,
         EnsureDefaults, SetTarget, ReadRequest, WriteReopen, ResolveError,
         LoadTargets, StartGroup, FinishGroup
    <3> QED BY <2>1, <3>1
  <2> QED BY <2>2, <2>3, <2>4
<1>2. IInv /\ [Next]_vars =>
        [\A s \in Source : SweepOpens(s) =>
           /\ Cardinality(Counted(s)) >= Threshold
           /\ \A r \in Counted(s) : status[r] = "success" =>
                \/ finished[r] > sweep.stamp
                \/ Cardinality(LaterThan(r, s)) >= Threshold]_vars
  BY <1>1 DEF Justified
<1> QED BY <1>2, Invariance, PTL DEF Spec, OpensOnFailures

\* A success that reads failed afterwards had outlived the TTL and was committed
\* between the sweep's read and its write.
THEOREM OverwritesOnlyOverlapped == Spec => OnlyOverlappedAreOverwritten
<1>1. ASSUME IInv, [Next]_vars, NEW r \in Run, status[r] = "success",
             status'[r] = "failed"
      PROVE  r \in old /\ finished[r] > sweep.stamp
  <2>1. CASE MarkFailed
    <3>1. r \in sweep.runs /\ sweep.pc = "mark"
      BY <1>1, <2>1 DEF MarkFailed
    <3> QED BY <1>1, <3>1 DEF IInv, SweptRuns
  <2>2. ASSUME NEW q \in Run, StartRun(q) \/ EndRun(q) \/ PassTTL(q) PROVE FALSE
    <3>1. r \in ended /\ status \in [Run -> RunStatus]
      BY <1>1 DEF IInv, Succeeded, TypeOK
    <3> QED BY <1>1, <2>2, <3>1 DEF StartRun, EndRun, PassTTL, Finish
  <2>3. ASSUME NEW p \in Scrapers, FinishGroup(p) PROVE FALSE
    BY <1>1, <2>3 DEF FinishGroup, Finish, IInv, TypeOK
  <2>4. CASE status' = status
    BY <1>1, <2>4
  <2> QED
    BY <1>1, <2>1, <2>2, <2>3, <2>4 DEF Next, vars, SweepStep, runs, LoadStale,
       CheckRuns, CheckErrors, CheckTargets, OpenCircuit, SweepDies, EnsureDefaults,
       SetTarget, ReadRequest, WriteOpen, WriteReopen, ResolveError, LoadTargets,
       StartGroup
<1>2. IInv /\ [Next]_vars =>
        [\A r \in Run : status[r] = "success" /\ status'[r] = "failed" =>
           r \in old /\ finished[r] > sweep.stamp]_vars
  BY <1>1
<1> QED BY <1>2, Invariance, PTL DEF Spec, OnlyOverlappedAreOverwritten
-----------------------------------------------------------------------------
(***************************************************************************)
(* A sweep that comes to its end has opened the circuit of every source it *)
(* found failing: the safety half of StaleFailureOpens.                    *)
(***************************************************************************)
\* What the sweep can know of the failures of s: the runs it fails itself, and
\* those that had failed before it began.
FailedBy(s) ==
  {r \in Run : /\ RunSource[r] = s
               /\ r \in sweep.runs \/ (status[r] = "failed" /\ finished[r] < sweep.stamp)}
Failing(s) == NeverSucceeded(s) /\ Cardinality(FailedBy(s)) >= Threshold
Swept == {RunSource[r] : r \in sweep.runs}

\* Nothing a sweep found failing is left behind: it is still to be checked, or
\* its circuit is open.
After == sweep.pc \in {"runs", "errors", "targets", "open"}
NothingLeftBehind ==
  /\ sweep.pc \in {"mark", "runs"} => sweep.source = {}
  /\ After => \A r \in sweep.runs : status[r] \in {"success", "failed"}
  /\ After /\ requests = 0 =>
       \A s \in Swept \ (sweep.sources \cup sweep.source) : Failing(s) => Open(s)

\* A sweep that was not cut off, before any operator intervened, leaves open the
\* circuit of each source of its runs that has never succeeded and has Threshold
\* failures (cleanup_stale_runs_job, check_source_circuit).
SweepIsComplete ==
  [][(/\ sweep.pc # "idle" /\ sweep'.pc = "idle" /\ deaths' = deaths
      /\ requests = 0)
      => \A s \in Swept : Failing(s) => Open(s)']_vars

\* Runs that start or end while the sweep is under way add nothing to what it
\* knows: an outcome that arrives later is stamped later.
OutsideStep(q) ==
  \/ status'[q] = status[q] /\ finished'[q] = finished[q]
  \/ status[q] = "none" /\ status'[q] = "running" /\ finished'[q] = finished[q]
  \/ /\ q \notin ended /\ finished'[q] = clock + 1
     /\ \/ status'[q] \in {"success", "failed"}
        \/ status'[q] = "partial" /\ status[q] = "none"

LEMMA OutsideKeeps ==
  ASSUME IInv, NothingLeftBehind, After, UNCHANGED sweep,
         \A q \in Run : OutsideStep(q)
  PROVE  /\ \A r \in sweep.runs : status'[r] \in {"success", "failed"}
         /\ \A s \in Source : Failing(s)' => Failing(s)
<1>1. /\ sweep.runs \subseteq Run /\ sweep.stamp \in Nat /\ clock \in Nat
      /\ sweep.stamp <= clock
  BY DEF IInv, TypeOK, Sweep, SweptRuns, After
<1>2. \A r \in sweep.runs : status'[r] \in {"success", "failed"}
  BY <1>1 DEF NothingLeftBehind, OutsideStep
<1>3. ASSUME NEW s \in Source, Failing(s)' PROVE Failing(s)
  <2>1. NeverSucceeded(s)
    <3> SUFFICES ASSUME NEW r \in Counted(s), status[r] = "success" PROVE FALSE
      BY DEF NeverSucceeded, Counted
    <3>1. r \in Run /\ r \in ended /\ RunSource[r] = s
      BY DEF Counted, IInv, Succeeded
    <3>2. status'[r] = "success"
      BY <3>1 DEF OutsideStep
    <3>3. r \in Counted(s)'
      BY <3>1, <3>2 DEF Counted
    <3> QED BY <1>3, <3>2, <3>3 DEF Failing, NeverSucceeded
  <2>2. FailedBy(s)' \subseteq FailedBy(s)
    BY <1>1 DEF FailedBy, OutsideStep
  <2>3. IsFiniteSet(FailedBy(s)) /\ IsFiniteSet(FailedBy(s)')
    BY FS_Subset, DataAssumption DEF DataAssumption, FailedBy
  <2>4. /\ Cardinality(FailedBy(s)') <= Cardinality(FailedBy(s))
        /\ Cardinality(FailedBy(s)') \in Nat /\ Cardinality(FailedBy(s)) \in Nat
    BY <2>2, <2>3, FS_Subset, FS_CardinalityType
  <2> QED BY <1>3, <2>1, <2>4, BoundAssumption DEF Failing, BoundAssumption
<1> QED BY <1>2, <1>3

\* What the sweep can know suffices for the query of check_source_circuit.
LEMMA FailingIsSeen ==
  ASSUME IInv, NothingLeftBehind, After, NEW s \in Source, Failing(s)
  PROVE  AllFailed(s, Failed \cup sweep.runs)
<1>1. FailedBy(s) \subseteq Counted(s)
  BY DEF FailedBy, Counted, NothingLeftBehind
<1>2. IsFiniteSet(Counted(s))
  BY FS_Subset, DataAssumption DEF DataAssumption, Counted
<1>3. /\ Cardinality(FailedBy(s)) <= Cardinality(Counted(s))
      /\ Cardinality(FailedBy(s)) \in Nat /\ Cardinality(Counted(s)) \in Nat
  BY <1>1, <1>2, FS_Subset, FS_CardinalityType
<1>4. Cardinality(Counted(s)) >= Threshold
  BY <1>3, BoundAssumption DEF Failing, BoundAssumption
<1>5. Counted(s) \ (Failed \cup sweep.runs) = {}
  BY DEF Failing, NeverSucceeded, Failed, Counted
<1> QED BY <1>4, <1>5 DEF AllFailed

\* A check settles a source, or goes on with it.
LEMMA ChecksCover ==
  ASSUME IInv, NothingLeftBehind, requests = 0,
         CheckRuns \/ CheckErrors \/ CheckTargets \/ OpenCircuit,
         NEW s \in Swept, Failing(s)
  PROVE  \/ Open(s)'
         \/ sweep'.pc # "idle" /\ s \in sweep'.sources \cup sweep'.source
<1>1. sweep \in Sweep /\ s \in Source
  BY DataAssumption DEF IInv, TypeOK, Sweep, Swept, DataAssumption
<1>2. After /\ (Open(s) \/ s \in sweep.sources \cup sweep.source)
  BY DEF NothingLeftBehind, CheckRuns, CheckErrors, CheckTargets, OpenCircuit, After
<1>3. Checking => \E x \in Source : sweep.source = {x}
  BY DEF IInv, CheckOK
<1>4. open_errors \subseteq open_errors'
  BY DEF CheckRuns, CheckErrors, CheckTargets, OpenCircuit, RaiseOpen, circuit
<1>5. CASE Open(s)
  BY <1>4, <1>5 DEF Open, ErrorsOf
<1>6. CASE ~Open(s) /\ CheckRuns
  <2>1. s \in sweep.sources /\ AllFailed(s, Failed \cup sweep.runs)
    BY <1>1, <1>2, <1>6, FailingIsSeen DEF NothingLeftBehind, CheckRuns
  <2>2. PICK x \in sweep.sources :
          sweep' = IF AllFailed(x, Failed \cup sweep.runs)
                   THEN [sweep EXCEPT !.pc = "errors", !.source = {x},
                                      !.sources = sweep.sources \ {x}]
                   ELSE IF sweep.sources = {x} THEN IdleSweep
                   ELSE [sweep EXCEPT !.sources = sweep.sources \ {x}]
    BY <1>1, <1>6 DEF CheckRuns
  <2>3. CASE AllFailed(x, Failed \cup sweep.runs)
    <3>1. /\ sweep'.pc = "errors" /\ sweep'.source = {x}
          /\ sweep'.sources = sweep.sources \ {x}
      BY <1>1, <2>2, <2>3 DEF Sweep
    <3> QED BY <2>1, <3>1
  <2>4. CASE ~AllFailed(x, Failed \cup sweep.runs)
    <3>1. x # s /\ sweep.sources # {x}
      BY <2>1, <2>4
    <3>2. sweep' = [sweep EXCEPT !.sources = sweep.sources \ {x}]
      BY <2>2, <2>4, <3>1
    <3>3. sweep'.pc = "runs" /\ sweep'.sources = sweep.sources \ {x}
      BY <1>1, <1>6, <3>2 DEF Sweep, CheckRuns
    <3> QED BY <2>1, <3>1, <3>3
  <2> QED BY <2>3, <2>4
<1>7. CASE ~Open(s) /\ CheckErrors
  <2>1. CASE \E x \in sweep.source : Open(x)
    <3>1. s \in sweep.sources
      BY <1>2, <1>3, <1>7, <2>1 DEF CheckErrors, Checking
    <3>2. sweep' = [sweep EXCEPT !.pc = "runs", !.source = {}, !.targets = {}]
      BY <1>7, <2>1, <3>1 DEF CheckErrors, NextSource
    <3>3. sweep'.pc = "runs" /\ sweep'.sources = sweep.sources
      BY <1>1, <3>2 DEF Sweep
    <3> QED BY <3>1, <3>3
  <2>2. CASE ~ \E x \in sweep.source : Open(x)
    <3>1. sweep' = [sweep EXCEPT !.pc = "targets"]
      BY <1>7, <2>2 DEF CheckErrors
    <3>2. /\ sweep'.pc = "targets" /\ sweep'.sources = sweep.sources
          /\ sweep'.source = sweep.source
      BY <1>1, <3>1 DEF Sweep
    <3> QED BY <1>2, <1>7, <3>2
  <2> QED BY <2>1, <2>2
<1>8. CASE ~Open(s) /\ CheckTargets
  <2>1. /\ sweep'.pc = "open" /\ sweep'.sources = sweep.sources
        /\ sweep'.source = sweep.source
    BY <1>1, <1>8 DEF Sweep, CheckTargets
  <2> QED BY <1>2, <1>8, <2>1
<1>9. CASE ~Open(s) /\ OpenCircuit
  <2>1. CASE s \in sweep.source
    <3>1. sweep.source = {s}
      BY <1>3, <1>9, <2>1 DEF OpenCircuit, Checking
    <3>2. [source |-> s, by |-> "sweep", id |-> raised + 1] \in open_errors'
      BY <1>9, <3>1 DEF OpenCircuit, RaiseOpen
    <3> QED BY <3>2 DEF Open, ErrorsOf
  <2>2. CASE s \in sweep.sources
    <3>1. sweep' = [sweep EXCEPT !.pc = "runs", !.source = {}, !.targets = {}]
      BY <1>9, <2>2 DEF OpenCircuit, NextSource
    <3>2. sweep'.pc = "runs" /\ sweep'.sources = sweep.sources
      BY <1>1, <3>1 DEF Sweep
    <3> QED BY <2>2, <3>2
  <2> QED BY <1>2, <1>9, <2>1, <2>2
<1> QED BY <1>5, <1>6, <1>7, <1>8, <1>9

\* The step of a check keeps what the sweep loaded, or ends the sweep.
LEMMA ChecksMove ==
  ASSUME IInv, CheckRuns \/ CheckErrors \/ CheckTargets \/ OpenCircuit
  PROVE  /\ UNCHANGED <<runs, requests, deaths>>
         /\ sweep'.pc # "idle" => sweep'.runs = sweep.runs /\ sweep'.stamp = sweep.stamp
         /\ sweep'.pc \in {"idle", "runs", "errors", "targets", "open"}
         /\ sweep'.pc = "runs" =>
              sweep'.source = {} \/ (CheckRuns /\ sweep'.source = sweep.source)
<1>1. sweep \in Sweep
  BY DEF IInv, TypeOK
<1>2. NextSource.pc \in {"idle", "runs"}
      /\ (NextSource.pc # "idle" =>
            /\ NextSource.runs = sweep.runs /\ NextSource.stamp = sweep.stamp
            /\ NextSource.source = {})
  BY <1>1 DEF NextSource, IdleSweep, Sweep
<1>3. CASE CheckRuns
  <2>1. PICK x \in sweep.sources :
          \/ sweep' = [sweep EXCEPT !.pc = "errors", !.source = {x},
                                    !.sources = sweep.sources \ {x}]
          \/ sweep' = IdleSweep
          \/ sweep' = [sweep EXCEPT !.sources = sweep.sources \ {x}]
    BY <1>3 DEF CheckRuns
  <2>2. CASE sweep' = IdleSweep
    BY <1>3, <2>2 DEF CheckRuns, IdleSweep
  <2>3. CASE sweep' # IdleSweep
    BY <1>1, <1>3, <2>1, <2>3 DEF CheckRuns, Sweep
  <2> QED BY <2>2, <2>3
<1>4. CASE CheckErrors
  BY <1>1, <1>2, <1>4 DEF CheckErrors, Sweep
<1>5. CASE CheckTargets
  BY <1>1, <1>5 DEF CheckTargets, Sweep
<1>6. CASE OpenCircuit
  BY <1>1, <1>2, <1>6 DEF OpenCircuit
<1> QED BY <1>3, <1>4, <1>5, <1>6

\* Without an operator no error is resolved.
LEMMA ErrorsStay ==
  ASSUME IInv, [Next]_vars, requests' = 0
  PROVE  requests = 0 /\ open_errors \subseteq open_errors'
<1>1. requests \in Nat /\ (requests = 0 => request = NoRequest)
  BY DEF IInv, TypeOK, NoOperator
<1>2. (\E t \in Target : SetTarget(t)) \/ (\E s \in Source : ReadRequest(s))
        \/ (\E e \in open_errors : ResolveError(e)) => FALSE
  BY <1>1 DEF SetTarget, ReadRequest, ResolveError
<1>3. WriteOpen \/ WriteReopen => FALSE
  BY <1>1 DEF WriteOpen, WriteReopen, NoRequest
<1>4. SweepStep \/ SweepDies \/ EnsureDefaults
        => requests' = requests /\ open_errors \subseteq open_errors'
  BY DEF SweepStep, LoadStale, MarkFailed, CheckRuns, CheckErrors, CheckTargets,
     OpenCircuit, RaiseOpen, SweepDies, EnsureDefaults, circuit
<1>5. (\E r \in Run : StartRun(r) \/ EndRun(r) \/ PassTTL(r))
        => UNCHANGED <<requests, open_errors>>
  BY DEF StartRun, EndRun, PassTTL, circuit
<1>6. (\E p \in Scrapers : LoadTargets(p) \/ StartGroup(p) \/ FinishGroup(p))
        => UNCHANGED <<requests, open_errors>>
  BY DEF LoadTargets, StartGroup, FinishGroup, circuit
<1> QED BY <1>2, <1>3, <1>4, <1>5, <1>6 DEF Next, vars, circuit

\* Nothing is left behind by any step.
LEMMA NothingLeftBehindStep ==
  ASSUME IInv, NothingLeftBehind, [Next]_vars PROVE NothingLeftBehind'
<1>0. sweep \in Sweep /\ status \in [Run -> RunStatus] /\ finished \in [Run -> 0 .. clock]
  BY DEF IInv, TypeOK
<1>1. CASE LoadStale \/ SweepDies
  <2>1. \/ sweep' = [pc |-> "mark", runs |-> Stale, stamp |-> clock + 1,
                     sources |-> {}, source |-> {}, targets |-> {}]
        \/ sweep' = IdleSweep
    BY <1>1 DEF LoadStale, SweepDies, IdleSweep
  <2>2. sweep'.pc \in {"mark", "idle"} /\ sweep'.source = {}
    BY <2>1 DEF IdleSweep
  <2> QED BY <2>2 DEF NothingLeftBehind, After
<1>2. CASE MarkFailed
  <2>1. /\ sweep.runs \subseteq Run /\ sweep'.runs = sweep.runs
        /\ sweep'.sources = {RunSource[r] : r \in sweep.runs}
        /\ sweep'.source = sweep.source /\ sweep.source = {}
    BY <1>0, <1>2 DEF MarkFailed, Sweep, NothingLeftBehind
  <2>2. Swept' \subseteq sweep'.sources
    BY <2>1 DEF Swept
  <2>3. \A r \in sweep'.runs : status'[r] = "failed"
    BY <1>2, <2>1 DEF MarkFailed
  <2> QED BY <2>1, <2>2, <2>3 DEF NothingLeftBehind
<1>3. CASE CheckRuns \/ CheckErrors \/ CheckTargets \/ OpenCircuit
  <2>1. /\ UNCHANGED <<runs, requests>>
        /\ sweep'.pc # "idle" => sweep'.runs = sweep.runs /\ sweep'.stamp = sweep.stamp
        /\ sweep'.pc \in {"idle", "runs", "errors", "targets", "open"}
        /\ sweep'.pc = "runs" => sweep'.source = {}
    BY <1>3, ChecksMove DEF NothingLeftBehind, CheckRuns
  <2>2. After
    BY <1>3 DEF After, CheckRuns, CheckErrors, CheckTargets, OpenCircuit
  <2>3. CASE sweep'.pc = "idle"
    BY <2>3 DEF NothingLeftBehind, After
  <2>4. CASE sweep'.pc # "idle"
    <3>1. Swept' = Swept /\ \A s \in Source : Failing(s)' = Failing(s)
      BY <2>1, <2>4 DEF Swept, Failing, NeverSucceeded, Counted, FailedBy, runs
    <3>2. Swept \subseteq Source
      BY <1>0, DataAssumption DEF Swept, Sweep, DataAssumption
    <3>3. requests' = 0 =>
            \A s \in Swept' \ (sweep'.sources \cup sweep'.source) : Failing(s)' => Open(s)'
      BY <1>3, <2>1, <3>1, <3>2, ChecksCover
    <3>4. \A r \in sweep'.runs : status'[r] \in {"success", "failed"}
      BY <2>1, <2>2, <2>4 DEF NothingLeftBehind, runs
    <3> QED BY <2>1, <3>3, <3>4 DEF NothingLeftBehind
  <2> QED BY <2>3, <2>4
<1>4. ASSUME UNCHANGED sweep, \A q \in Run : OutsideStep(q) PROVE NothingLeftBehind'
  <2>1. CASE ~After
    BY <1>4, <2>1 DEF After, NothingLeftBehind
  <2>2. CASE After
    <3>1. /\ \A r \in sweep.runs : status'[r] \in {"success", "failed"}
          /\ \A s \in Source : Failing(s)' => Failing(s)
      BY <1>4, <2>2, OutsideKeeps
    <3>2. Swept' = Swept /\ Swept \subseteq Source
      BY <1>0, <1>4, DataAssumption DEF Swept, Sweep, DataAssumption
    <3>3. requests' = 0 =>
            \A s \in Swept' \ (sweep'.sources \cup sweep'.source) : Failing(s)' => Open(s)'
      <4> SUFFICES ASSUME requests' = 0, NEW s \in Swept \ (sweep.sources \cup sweep.source),
                          Failing(s)'
                   PROVE  Open(s)'
        BY <1>4, <3>2
      <4>1. requests = 0 /\ open_errors \subseteq open_errors'
        BY ErrorsStay
      <4>2. Open(s)
        BY <2>2, <3>1, <3>2, <4>1 DEF NothingLeftBehind
      <4> QED BY <4>1, <4>2 DEF Open, ErrorsOf
    <3> QED BY <1>4, <3>1, <3>3 DEF NothingLeftBehind
  <2> QED BY <2>1, <2>2
<1>5. CASE UNCHANGED <<sweep, status, finished>>
  BY <1>4, <1>5 DEF OutsideStep
<1>6. ASSUME NEW r \in Run, StartRun(r) \/ EndRun(r) \/ PassTTL(r)
      PROVE  UNCHANGED sweep /\ \A q \in Run : OutsideStep(q)
  BY <1>0, <1>6 DEF StartRun, EndRun, PassTTL, Finish, OutsideStep
<1>7. ASSUME NEW p \in Scrapers, FinishGroup(p)
      PROVE  UNCHANGED sweep /\ \A q \in Run : OutsideStep(q)
  <2>1. CASE UNCHANGED <<status, finished>>
    BY <1>7, <2>1 DEF FinishGroup, OutsideStep
  <2>2. CASE \E r \in LegacyRun, outcome \in {"success", "partial", "failed"} :
               status[r] = "none" /\ Finish(r, outcome)
    <3>1. PICK r \in LegacyRun, outcome \in {"success", "partial", "failed"} :
                 status[r] = "none" /\ Finish(r, outcome)
      BY <2>2
    <3>2. r \in Run \ ended
      BY <3>1, DataAssumption DEF DataAssumption, IInv, Begun
    <3> QED BY <1>0, <1>7, <3>1, <3>2 DEF FinishGroup, Finish, OutsideStep
  <2> QED BY <1>7, <2>1, <2>2 DEF FinishGroup
<1>8. ASSUME \/ EnsureDefaults \/ WriteOpen \/ WriteReopen
             \/ \E t \in Target : SetTarget(t)
             \/ \E s \in Source : ReadRequest(s)
             \/ \E e \in open_errors : ResolveError(e)
             \/ \E p \in Scrapers : LoadTargets(p) \/ StartGroup(p)
      PROVE  UNCHANGED <<sweep, status, finished>>
  BY <1>8 DEF EnsureDefaults, WriteOpen, WriteReopen, SetTarget, ReadRequest,
     ResolveError, LoadTargets, StartGroup, runs
<1> QED
  BY <1>1, <1>2, <1>3, <1>4, <1>5, <1>6, <1>7, <1>8 DEF Next, SweepStep, vars, runs

\* A sweep that comes to its end has opened, or found open, the circuit of every
\* failing source of its runs, whatever ends or is requested meanwhile.
THEOREM SweepsAreComplete == Spec => SweepIsComplete
<1>1. Init => NothingLeftBehind
  BY DEF Init, NothingLeftBehind, After, IdleSweep
<1>2. ASSUME IInv, NothingLeftBehind, [Next]_vars, sweep.pc # "idle",
             sweep'.pc = "idle", deaths' = deaths, requests = 0,
             NEW s \in Swept, Failing(s)
      PROVE  Open(s)'
  <2>1. ~SweepDies
    BY <1>2 DEF SweepDies, IInv, TypeOK
  <2>2. ~LoadStale /\ ~MarkFailed
    BY <1>2 DEF LoadStale, MarkFailed, IInv, TypeOK, Sweep
  <2>3. ~UNCHANGED sweep
    BY <1>2
  <2>4. CheckRuns \/ CheckErrors \/ CheckTargets \/ OpenCircuit
    BY <1>2, <2>1, <2>2, <2>3
    DEF Next, SweepStep, vars, runs, circuit, StartRun, EndRun, PassTTL, EnsureDefaults,
        SetTarget, ReadRequest, WriteOpen, WriteReopen, ResolveError, LoadTargets,
        StartGroup, FinishGroup
  <2> QED BY <1>2, <2>4, ChecksCover
<1>3. IInv /\ NothingLeftBehind /\ [Next]_vars =>
        [(/\ sweep.pc # "idle" /\ sweep'.pc = "idle" /\ deaths' = deaths
          /\ requests = 0)
          => \A s \in Swept : Failing(s) => Open(s)']_vars
  BY <1>2
<1> QED BY <1>1, <1>3, NothingLeftBehindStep, Invariance, PTL DEF Spec, SweepIsComplete
=============================================================================
