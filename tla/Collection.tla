----------------------------- MODULE Collection -----------------------------
(***************************************************************************)
(* Collection runs, the source circuit breaker and the target runner:      *)
(*   workers/collector_worker.py    run_collector_by_name                  *)
(*   scheduler/jobs.py              cleanup_stale_runs_job (the sweep),    *)
(*                                  run_collection_targets_job             *)
(*   scheduler/circuit_breaker.py   check / reopen_source_circuit          *)
(*   app/pipeline_api.py            the operator's endpoints               *)
(*                                                                         *)
(* The processes share four tables: the runs, the targets, the CircuitOpen *)
(* errors and nothing else.  Each of them reads, decides and writes back   *)
(* by primary key in a later transaction, without a lock.  A run whose     *)
(* process died is one that takes no further step.                         *)
(***************************************************************************)
EXTENDS Naturals, FiniteSets

CONSTANTS
  Run,          \* rows of collection_runs a behaviour may create (a bound)
  LegacyRun,    \* those of poupi_legacy_raw_collector, one row for a group
  RunSource,    \* [Run -> Source]
  Source,       \* (module, source_name)
  NameOf,       \* [Source -> source_name]: two modules may use one name
  Target, SourceOf,
  LegacyTarget, \* targets of poupi_legacy_raw_collector, the others url_scraper's
  Seeded,       \* active entries of DEFAULT_COLLECTION_TARGETS
  Retired,      \* its inactive entries, and other collectors on a seeded URL
  Scrapers,     \* target runners: the scheduler's job, requests of the API
  Threshold,    \* CONSECUTIVE_FAILURES_THRESHOLD
  MaxRequests,  \* bound: operator requests
  MaxDeaths     \* bound: sweeps that die half-way

ASSUME DataAssumption ==
  /\ IsFiniteSet(Run) /\ LegacyRun \subseteq Run /\ RunSource \in [Run -> Source]
  /\ LegacyTarget \subseteq Target /\ SourceOf \in [Target -> Source]
  /\ DOMAIN NameOf = Source
  /\ Seeded \cup Retired \subseteq Target /\ Seeded \cap Retired = {}

ASSUME BoundAssumption ==
  Threshold \in Nat \ {0} /\ MaxRequests \in Nat /\ MaxDeaths \in Nat

VARIABLES
  status,     \* collection_runs.status, "none" before the row exists
  finished,   \* collection_runs.finished_at, stamps of clock
  clock,
  old,        \* runs started longer ago than the TTL of 30 minutes
  ended,      \* runs whose process has written its outcome
  active,     \* targets with active = true
  open_errors,\* unresolved CircuitOpen errors
  raised,     \* number of CircuitOpen errors ever written
  sweep,      \* cleanup_stale_runs_job
  request,    \* the operator's open or reopen request being served
  scraper,    \* target runners: what they loaded, what they collect now
  requests, deaths

runs == <<status, finished, clock, old, ended>>
circuit == <<active, open_errors, raised>>
vars == <<runs, circuit, sweep, request, scraper, requests, deaths>>
-----------------------------------------------------------------------------
RunStatus == {"none", "running", "success", "partial", "failed"}

\* pc: what the sweep does next; runs: the stale runs it loaded, at stamp;
\* sources: still to check; source, targets: the check under way.
Sweep == [pc : {"idle", "mark", "runs", "errors", "targets", "open"},
          runs : SUBSET Run, stamp : Nat, sources : SUBSET Source,
          source : SUBSET Source, targets : SUBSET Target]
IdleSweep == [pc |-> "idle", runs |-> {}, stamp |-> 0, sources |-> {},
              source |-> {}, targets |-> {}]

OpenError == [source : Source, by : {"sweep", "operator"}, id : Nat]
\* The error keeps the collector's name for its source, and is looked up by it.
ErrorsOf(s) == {e \in open_errors : NameOf[e.source] = NameOf[s]}
Open(s) == ErrorsOf(s) # {}

Request == [op : {"none", "open", "reopen"}, source : SUBSET Source,
            targets : SUBSET Target, errors : SUBSET OpenError]
NoRequest == [op |-> "none", source |-> {}, targets |-> {}, errors |-> {}]

TargetsOf(s) == {t \in Target : SourceOf[t] = s}
NoneStale == {}                              \* mutant
AllStale == old                              \* mutant: the status is not asked
Stale == {r \in Run : status[r] = "running" /\ r \in old}

Counted(s) == {r \in Run : RunSource[r] = s /\ status[r] \in {"success", "failed"}}
LaterThan(r, s) == {q \in Counted(s) : finished[q] > finished[r]}
\* The last Threshold successes and failures of s by finished_at all failed;
\* fails are the runs the reader takes for failed.
OneFailed(s, fails) ==           \* mutant: the last run alone
  \E r \in Counted(s) \cap fails : LaterThan(r, s) = {}
AllFailed(s, fails) ==
  /\ Cardinality(Counted(s)) >= Threshold
  /\ \A r \in Counted(s) \ fails : Cardinality(LaterThan(r, s)) >= Threshold
Failed == {r \in Run : status[r] = "failed"}

Init ==
  /\ status = [r \in Run |-> "none"]
  /\ finished = [r \in Run |-> 0]
  /\ clock = 0
  /\ old = {} /\ ended = {}
  /\ active \in SUBSET Target       \* what earlier operators left
  /\ open_errors = {} /\ raised = 0
  /\ sweep = IdleSweep
  /\ request = NoRequest
  /\ scraper = [p \in Scrapers |-> [todo |-> {}, group |-> {}]]
  /\ requests = 0 /\ deaths = 0
-----------------------------------------------------------------------------
\* run_collector_by_name: the row is committed before collecting.
StartRun(r) ==
  /\ r \notin LegacyRun
  /\ status[r] = "none"
  /\ status' = [status EXCEPT ![r] = "running"]
  /\ UNCHANGED <<finished, clock, old, ended, circuit, sweep, request, scraper,
                 requests, deaths>>

\* The outcome is written whatever the row says by then.
Finish(r, outcome) ==
  /\ status' = [status EXCEPT ![r] = outcome]
  /\ clock' = clock + 1
  /\ finished' = [finished EXCEPT ![r] = clock + 1]
  /\ ended' = ended \cup {r}

EndRun(r) ==
  /\ r \notin LegacyRun
  /\ status[r] # "none" /\ r \notin ended
  /\ \E outcome \in {"success", "failed"} : Finish(r, outcome)
  /\ UNCHANGED <<old, circuit, sweep, request, scraper, requests, deaths>>

PassTTL(r) ==
  /\ status[r] = "running" /\ r \notin old
  /\ old' = old \cup {r}
  /\ UNCHANGED <<status, finished, clock, ended, circuit, sweep, request, scraper,
                 requests, deaths>>
-----------------------------------------------------------------------------
\* cleanup_stale_runs_job loads the stale runs and stamps them,
LoadStale ==
  /\ sweep.pc = "idle" /\ Stale # {}
  /\ clock' = clock + 1
  /\ sweep' = [IdleSweep EXCEPT !.pc = "mark", !.runs = Stale, !.stamp = clock + 1]
  /\ UNCHANGED <<status, finished, old, ended, circuit, request, scraper,
                 requests, deaths>>

\* mutant: the sources are not checked
ForgetsSources ==
  /\ sweep.pc = "mark"
  /\ status' = [r \in Run |-> IF r \in sweep.runs THEN "failed" ELSE status[r]]
  /\ finished' = [r \in Run |-> IF r \in sweep.runs THEN sweep.stamp ELSE finished[r]]
  /\ sweep' = IdleSweep
  /\ UNCHANGED <<clock, old, ended, circuit, request, scraper, requests, deaths>>

\* writes them back as failed,
MarkFailed ==
  /\ sweep.pc = "mark"
  /\ status' = [r \in Run |-> IF r \in sweep.runs THEN "failed" ELSE status[r]]
  /\ finished' = [r \in Run |-> IF r \in sweep.runs THEN sweep.stamp ELSE finished[r]]
  /\ sweep' = [sweep EXCEPT !.pc = "runs",
                            !.sources = {RunSource[r] : r \in sweep.runs}]
  /\ UNCHANGED <<clock, old, ended, circuit, request, scraper, requests, deaths>>

\* then checks the circuit of each of their sources.
NextSource == IF sweep.sources = {} THEN IdleSweep
              ELSE [sweep EXCEPT !.pc = "runs", !.source = {}, !.targets = {}]

\* check_source_circuit, first query.  The session does not expire its objects
\* on commit: the runs it marked still read failed.
CheckRuns ==
  /\ sweep.pc = "runs"
  /\ \E s \in sweep.sources :
       sweep' = IF AllFailed(s, Failed \cup sweep.runs)
                THEN [sweep EXCEPT !.pc = "errors", !.source = {s},
                                   !.sources = @ \ {s}]
                ELSE IF sweep.sources = {s} THEN IdleSweep
                ELSE [sweep EXCEPT !.sources = @ \ {s}]
  /\ UNCHANGED <<runs, circuit, request, scraper, requests, deaths>>

IgnoresErrors ==                                         \* mutant
  /\ sweep.pc = "errors"
  /\ sweep' = [sweep EXCEPT !.pc = "targets"]
  /\ UNCHANGED <<runs, circuit, request, scraper, requests, deaths>>

CheckErrors ==
  /\ sweep.pc = "errors"
  /\ sweep' = IF \E s \in sweep.source : Open(s) THEN NextSource
              ELSE [sweep EXCEPT !.pc = "targets"]
  /\ UNCHANGED <<runs, circuit, request, scraper, requests, deaths>>

CheckTargets ==
  /\ sweep.pc = "targets"
  /\ sweep' = [sweep EXCEPT !.pc = "open",
                 !.targets = {t \in active : SourceOf[t] \in sweep.source}]
  /\ UNCHANGED <<runs, circuit, request, scraper, requests, deaths>>

RaiseOpen(s, by) ==
  /\ open_errors' = open_errors \cup {[source |-> s, by |-> by, id |-> raised + 1]}
  /\ raised' = raised + 1

OpenCircuit ==
  /\ sweep.pc = "open"
  /\ active' = active \ sweep.targets
  /\ \E s \in sweep.source : RaiseOpen(s, "sweep")
  /\ sweep' = NextSource
  /\ UNCHANGED <<runs, request, scraper, requests, deaths>>

\* The scheduler dies in the middle; what is committed is not taken up again.
SweepDies ==
  /\ sweep.pc # "idle"
  /\ deaths < MaxDeaths
  /\ deaths' = deaths + 1
  /\ sweep' = IdleSweep
  /\ UNCHANGED <<runs, circuit, request, scraper, requests>>

SweepStep == \/ LoadStale \/ MarkFailed
             \/ CheckRuns \/ CheckErrors \/ CheckTargets \/ OpenCircuit
-----------------------------------------------------------------------------
\* mutant: every target is taken for a default one
EnsuresAll ==
  /\ active' = Target \ Retired
  /\ UNCHANGED <<runs, open_errors, raised, sweep, request, scraper, requests,
                 deaths>>

\* ensure_default_collection_targets, before every target job and listing.  It
\* reads the entries one by one and commits at its end those it read as wrong:
\* an entry another process changed in between is not among them.
EnsureDefaults ==
  /\ \E enabled \in SUBSET Seeded, disabled \in SUBSET Retired :
       active' = (active \cup enabled) \ disabled
  /\ UNCHANGED <<runs, open_errors, raised, sweep, request, scraper, requests,
                 deaths>>

\* An operator creates, enables or disables a target: nothing is written when
\* the row read the same, whatever became of it since.
SetTarget(t) ==
  /\ requests < MaxRequests
  /\ requests' = requests + 1
  /\ active' \in {active \cup {t}, active \ {t}, active}
  /\ UNCHANGED <<runs, open_errors, raised, sweep, request, scraper, deaths>>

\* open_circuit_breaker and reopen_source_circuit read the targets (and the
\* errors), then write what they read.
ReadRequest(s) ==
  /\ request = NoRequest
  /\ requests < MaxRequests
  /\ requests' = requests + 1
  /\ request' \in
       {[op |-> "open", source |-> {s}, targets |-> TargetsOf(s) \cap active,
         errors |-> {}],
        [op |-> "reopen", source |-> {s}, targets |-> TargetsOf(s) \ active,
         errors |-> ErrorsOf(s)]}
  /\ UNCHANGED <<runs, circuit, sweep, scraper, deaths>>

WriteOpen ==
  /\ request.op = "open"
  /\ active' = active \ request.targets
  /\ \E s \in request.source : RaiseOpen(s, "operator")
  /\ request' = NoRequest
  /\ UNCHANGED <<runs, sweep, scraper, requests, deaths>>

WriteReopen ==
  /\ request.op = "reopen"
  /\ active' = active \cup request.targets
  /\ open_errors' = open_errors \ request.errors
  /\ request' = NoRequest
  /\ UNCHANGED <<runs, raised, sweep, scraper, requests, deaths>>

\* resolve_collector_error: the targets stay as they are.
ResolveError(e) ==
  /\ e \in open_errors
  /\ requests < MaxRequests
  /\ requests' = requests + 1
  /\ open_errors' = open_errors \ {e}
  /\ UNCHANGED <<runs, active, raised, sweep, request, scraper, deaths>>
-----------------------------------------------------------------------------
\* run_collection_targets_job loads active targets, run_collection_target_by_id
\* any single one (include_inactive).
LoadTargets(p) ==
  /\ scraper[p].todo = {}
  /\ \E S \in ((SUBSET active) \cup {{t} : t \in Target}) \ {{}} :
       scraper' = [scraper EXCEPT ![p].todo = S]
  /\ UNCHANGED <<runs, circuit, sweep, request, requests, deaths>>

\* _has_running_target_lock: a committed running run of the same collector.
\* The url scraper has no runs, the legacy one commits its own when it is over.
Locked(t) ==
  /\ t \in LegacyTarget
  /\ \E r \in LegacyRun : status[r] = "running" /\ r \notin old

\* One collector after the other, on its targets that are not locked.
StartGroup(p) ==
  /\ scraper[p].todo # {} /\ scraper[p].group = {}
  /\ \E collector \in {LegacyTarget, Target \ LegacyTarget} :
       LET targets == scraper[p].todo \cap collector
           free == {t \in targets : ~Locked(t)}
       IN /\ targets # {}
          /\ scraper' = [scraper EXCEPT ![p] =
               [todo |-> @.todo \ (targets \ free), group |-> free]]
  /\ UNCHANGED <<runs, circuit, sweep, request, requests, deaths>>

FinishGroup(p) ==
  /\ scraper[p].group # {}
  /\ scraper' = [scraper EXCEPT ![p] =
                   [todo |-> @.todo \ @.group, group |-> {}]]
  /\ IF scraper[p].group \subseteq LegacyTarget
     THEN \E r \in LegacyRun, outcome \in {"success", "partial", "failed"} :
            status[r] = "none" /\ Finish(r, outcome)
     ELSE UNCHANGED <<status, finished, clock, ended>>
  /\ UNCHANGED <<old, circuit, sweep, request, requests, deaths>>

Next ==
  \/ \E r \in Run : StartRun(r) \/ EndRun(r) \/ PassTTL(r)
  \/ SweepStep
  \/ SweepDies
  \/ EnsureDefaults
  \/ \E t \in Target : SetTarget(t)
  \/ \E s \in Source : ReadRequest(s)
  \/ WriteOpen \/ WriteReopen
  \/ \E e \in open_errors : ResolveError(e)
  \/ \E p \in Scrapers : LoadTargets(p) \/ StartGroup(p) \/ FinishGroup(p)

Spec == Init /\ [][Next]_vars

\* The sweep is a scheduler job every 15 minutes, and time passes.
Fairness == WF_vars(SweepStep) /\ \A r \in Run : WF_vars(PassTTL(r))
FairSpec == Spec /\ Fairness
-----------------------------------------------------------------------------
(***************************************************************************)
(* Properties                                                              *)
(***************************************************************************)
TypeOK ==
  /\ status \in [Run -> RunStatus]
  /\ clock \in Nat /\ finished \in [Run -> 0 .. clock]
  /\ old \subseteq Run /\ ended \subseteq Run
  /\ active \subseteq Target
  /\ open_errors \subseteq OpenError /\ raised \in Nat
  /\ sweep \in Sweep
  /\ request \in Request
  /\ scraper \in [Scrapers -> [todo : SUBSET Target, group : SUBSET Target]]
  /\ requests \in Nat /\ deaths \in Nat

\* The sweep opens a circuit only against a source that has Threshold finished
\* runs, the latest of them failures: no success lies among them except one
\* that came after the sweep began, which it may not see.
SweepOpens(s) == \E e \in open_errors' \ open_errors : e.source = s /\ e.by = "sweep"
OpensOnFailures ==
  [][\A s \in Source : SweepOpens(s) =>
       /\ Cardinality(Counted(s)) >= Threshold
       /\ \A r \in Counted(s) : status[r] = "success" =>
            \/ finished[r] > sweep.stamp
            \/ Cardinality(LaterThan(r, s)) >= Threshold]_vars

\* The operator is told once: the breaker never has two unresolved errors of
\* its own for a source name, however many sweeps find it failing.
OpensOnce ==
  \A s \in Source : Cardinality({e \in ErrorsOf(s) : e.by = "sweep"}) <= 1

\* What the breaker deactivated stays so while its error is unresolved: without
\* an operator only a seeded target comes back.
CircuitHolds ==
  requests = 0 =>
    \A s \in Source : (\E e \in open_errors : e.source = s /\ e.by = "sweep")
      => active \cap TargetsOf(s) \subseteq Seeded

\* No run shows as running for ever, whatever became of its process or of the
\* sweep that meant to clean it up.
RunsEnd == \A r \in Run : status[r] = "running" ~> status[r] # "running"

\* A sweep that gives a source without a success its Threshold-th failure
\* opens the circuit, unless it dies or a success arrives; a circuit open under
\* the same name in another module counts, as it does in the look-up.
NeverSucceeded(s) == \A r \in Counted(s) : status[r] = "failed"
WillHaveFailed(s) ==
  {r \in Run : RunSource[r] = s /\ (status[r] = "failed" \/ r \in sweep.runs)}
StaleFailureOpens ==
  \A s \in Source :
    (/\ sweep.pc = "mark" /\ s \in {RunSource[r] : r \in sweep.runs}
     /\ NeverSucceeded(s) /\ Cardinality(WillHaveFailed(s)) >= Threshold)
      ~> Open(s) \/ ~NeverSucceeded(s) \/ deaths > 0

\* The sweep writes failed over a success only when the run had outlived the
\* TTL and committed it after the sweep had read it as running.
OnlyOverlappedAreOverwritten ==
  [][\A r \in Run : status[r] = "success" /\ status'[r] = "failed" =>
       r \in old /\ finished[r] > sweep.stamp]_vars
=============================================================================
