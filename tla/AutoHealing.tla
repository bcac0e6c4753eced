---------------------------- MODULE AutoHealing ----------------------------
(***************************************************************************)
(* The auto-healing watchdog, app/auto_healing: one run detects unhealthy  *)
(* services, heals each of them behind a circuit breaker and a cooldown,   *)
(* verifies, notifies and appends to its history.  The run is a job of the *)
(* scheduler process, wrapped in scheduler/retry.py's with_retry.          *)
(*                                                                         *)
(* The cooldown and the breaker live in Redis, one call per step, and let  *)
(* everything through when Redis does not answer.  Redis is itself a       *)
(* service the watchdog restarts, and so is the scheduler the watchdog     *)
(* runs in: that restart kills the run.                                    *)
(*                                                                         *)
(* Time is a number of scheduling intervals (ticks); a run is shorter than *)
(* an interval and the job has one instance.                               *)
(***************************************************************************)
EXTENDS Naturals, Sequences, FiniteSets

CONSTANTS
  Checks,          \* the services, in the order HealthChecker.run lists them
  Healable,        \* services with a registered healer
  Quiet,           \* services healed only on evidence of work (BullMQ, backlog)
  Gravest,         \* services whose check may say CRITICAL
  Alerting,        \* notifier._CRITICAL_SERVICES
  Store,           \* "redis"
  Host,            \* "scheduler", the container the watchdog runs in
  Window,          \* WINDOW_SECONDS, in ticks
  MaxRestarts,
  MaxConsecutive,
  OpenTTL,         \* OPEN_TTL_SECONDS, in ticks
  MaxAttempts,     \* with_retry: max_retries + 1
  MaxFaults        \* bound: failures of services, of the history file, crashes

Services == {Checks[i] : i \in DOMAIN Checks}

ASSUME ServicesAssumption ==
  /\ Checks \in Seq(Services)
  /\ \A i, j \in DOMAIN Checks : Checks[i] = Checks[j] => i = j
  /\ Healable \subseteq Services
  /\ Quiet \subseteq Healable \ {Store, Host}
  /\ Gravest \subseteq Services
  /\ Store # Host

ASSUME BudgetAssumption ==
  /\ {Window, MaxRestarts, MaxConsecutive, OpenTTL, MaxAttempts} \subseteq Nat \ {0}
  /\ MaxFaults \in Nat

VARIABLES
  health,        \* condition of each service
  restarts,      \* Redis: cooldown sorted set, entries <<age, attempt>>
  failures,      \* Redis: consecutive failures, from MaxConsecutive on the same
  failures_ttl,  \* Redis: ticks this counter has left
  open_ttl,      \* Redis: ticks the open key has left, 0 when it is not there
  pc, at,        \* the run: next step, index of the service in Checks
  seen,          \* health the run works from
  results,       \* outcome per service
  alerted,       \* services of the last run's message, as it arrived
  due, attempt,  \* the job: waiting or running, and which attempt of with_retry
  faults,
  healed,        \* history: heals of the last Horizon ticks <<age, attempt, outcome>>
  lapse,         \* history: Redis missed a call or lost its data
  uncounted,     \* history: a healer's failure never reached the breaker
  tried,         \* history: services the last run healed
  dropped,       \* history: a healer raised in it
  unsent         \* history: it had a message, which did not arrive

redis == <<restarts, failures, failures_ttl, open_ttl>>
run == <<pc, at, seen, results>>
job == <<due, attempt>>
history == <<healed, lapse, uncounted>>
report == <<tried, dropped, unsent>>
vars == <<health, redis, run, alerted, job, faults, history, report>>
-----------------------------------------------------------------------------
Health == {"OK", "DEGRADED", "CRITICAL"}
Outcomes == {"RECOVERED", "FAILED", "SKIPPED"}
Horizon == IF Window > OpenTTL THEN Window ELSE OpenTTL

current == Checks[at]
Unhealthy(s) == health[s] # "OK"
\* A Redis call returns; every caller catches the exception otherwise.
Answers == Store \in Services => health[Store] = "OK"

Init ==
  /\ health = [s \in Services |-> "OK"]
  /\ restarts = [s \in Services |-> {}]
  /\ failures = [s \in Services |-> 0]
  /\ failures_ttl = [s \in Services |-> 0]
  /\ open_ttl = [s \in Services |-> 0]
  /\ pc = "idle" /\ at = 1
  /\ seen = health
  /\ results = [s \in Services |-> "none"]
  /\ alerted = {}
  /\ due = FALSE /\ attempt = 1
  /\ faults = 0
  /\ healed = [s \in Services |-> {}]
  /\ lapse = FALSE /\ uncounted = FALSE
  /\ tried = {} /\ dropped = FALSE /\ unsent = FALSE

\* The run moves on to the next service with the outcome of this one.
Advance(outcome) ==
  /\ results' = [results EXCEPT ![current] = outcome]
  /\ at' = at + 1
  /\ pc' = "next"
  /\ UNCHANGED seen

\* An interval passes: entries leave the window, keys expire, the job is due.
Older(entries, limit) ==
  {[e EXCEPT ![1] = @ + 1] : e \in {d \in entries : d[1] + 1 < limit}}
NoExpiry(ttl) == ttl                                             \* mutant
TickDown(ttl) == [s \in Services |-> IF ttl[s] = 0 THEN 0 ELSE ttl[s] - 1]

Tick ==
  /\ ~due
  /\ due' = TRUE
  /\ restarts' = [s \in Services |-> Older(restarts[s], Window)]
  /\ healed' = [s \in Services |-> Older(healed[s], Horizon)]
  /\ open_ttl' = TickDown(open_ttl)
  /\ failures_ttl' = TickDown(failures_ttl)
  /\ failures' = [s \in Services |-> IF failures_ttl[s] <= 1 THEN 0
                                     ELSE failures[s]]
  /\ UNCHANGED <<health, run, alerted, attempt, faults, lapse, uncounted, report>>

Detect ==
  /\ due /\ pc = "idle"
  /\ seen' = health
  /\ pc' = "next" /\ at' = 1
  /\ results' = [s \in Services |-> "none"]
  /\ alerted' = {}
  /\ tried' = {} /\ dropped' = FALSE /\ unsent' = FALSE
  /\ UNCHANGED <<health, redis, job, faults, history>>

\* A healthy service, or one for which find_healer has nothing: no healer, or
\* one that does not see in the check's evidence what it could heal.
PassOver ==
  /\ pc = "next" /\ at <= Len(Checks)
  /\ seen[current] = "OK" \/ current \notin Healable \/ current \in Quiet
  /\ Advance(IF seen[current] = "CRITICAL" THEN "SKIPPED" ELSE "none")
  /\ UNCHANGED <<health, redis, alerted, job, faults, history, report>>

CheckCircuit ==
  /\ pc = "next" /\ at <= Len(Checks)
  /\ seen[current] # "OK" /\ current \in Healable
  /\ IF Answers /\ open_ttl[current] > 0
     THEN Advance("BLOCKED_CIRCUIT")
     ELSE pc' = "cooldown" /\ UNCHANGED <<at, seen, results>>
  /\ lapse' = (lapse \/ ~Answers)
  /\ UNCHANGED <<health, redis, alerted, job, faults, healed, uncounted, report>>

\* CooldownManager.check
AllowsOneMore(s) == Cardinality(restarts[s]) <= MaxRestarts   \* mutant
Allowed(s) == Cardinality(restarts[s]) < MaxRestarts

CheckCooldown ==
  /\ pc = "cooldown"
  /\ IF Answers /\ ~Allowed(current)
     THEN Advance("SKIPPED")
     ELSE pc' = "record" /\ UNCHANGED <<at, seen, results>>
  /\ lapse' = (lapse \/ ~Answers)
  /\ UNCHANGED <<health, redis, alerted, job, faults, healed, uncounted, report>>

RecordRestart ==
  /\ pc = "record"
  /\ restarts' = IF Answers
                 THEN [restarts EXCEPT ![current] = @ \cup {<<0, attempt>>}]
                 ELSE restarts
  /\ lapse' = (lapse \/ ~Answers)
  /\ pc' = "heal"
  /\ UNCHANGED <<health, failures, failures_ttl, open_ttl, at, seen, results,
                 alerted, job, faults, healed, uncounted, report>>

\* Redis comes back with the data it had, or without.
StoreRestarts ==
  \/ UNCHANGED <<redis, lapse>>
  \/ /\ restarts' = [s \in Services |-> {}]
     /\ failures' = [s \in Services |-> 0]
     /\ failures_ttl' = [s \in Services |-> 0]
     /\ open_ttl' = [s \in Services |-> 0]
     /\ lapse' = TRUE

Healed(outcome) ==
  healed' = [healed EXCEPT ![current] = @ \cup {<<0, attempt, outcome>>}]

\* The process is gone; the next tick brings a new one.
Killed ==
  /\ pc' = "idle"
  /\ at' = 1
  /\ results' = [s \in Services |-> "none"]
  /\ due' = FALSE /\ attempt' = 1
  /\ tried' = {}
  /\ UNCHANGED <<seen, alerted, dropped, unsent>>

\* healer.heal: the restart succeeds, whether or not it cures the service.
HealRecovers ==
  /\ pc = "heal"
  /\ Healed("RECOVERED")
  /\ \E h \in {health[current], "OK"} : health' = [health EXCEPT ![current] = h]
  /\ IF current = Store THEN StoreRestarts ELSE UNCHANGED <<redis, lapse>>
  /\ IF current = Host
     THEN Killed
     ELSE /\ results' = [results EXCEPT ![current] = "RECOVERED"]
          /\ pc' = "outcome"
          /\ tried' = tried \cup {current}
          /\ UNCHANGED <<at, seen, alerted, job, dropped, unsent>>
  /\ UNCHANGED <<faults, uncounted>>

HealFails ==
  /\ pc = "heal"
  /\ Healed("FAILED")
  /\ results' = [results EXCEPT ![current] = "FAILED"]
  /\ pc' = "outcome"
  /\ tried' = tried \cup {current}
  /\ UNCHANGED <<health, redis, at, seen, alerted, job, faults, lapse, uncounted,
                 dropped, unsent>>

\* A data healer finds nothing to move or to reset.
HealSkips ==
  /\ pc = "heal" /\ current \in Quiet
  /\ Healed("SKIPPED")
  /\ Advance("SKIPPED")
  /\ UNCHANGED <<health, redis, alerted, job, faults, lapse, uncounted, report>>

\* The healer raises: run drops the results of the services before it, too, and
\* goes on without them; what the breaker was told of them before stays.
HealerRaises ==
  /\ pc = "heal"
  /\ faults < MaxFaults
  /\ faults' = faults + 1
  /\ Healed("FAILED")
  /\ results' = [s \in Services |-> "none"]
  /\ at' = Len(Checks) + 1
  /\ pc' = "next"
  /\ uncounted' = TRUE
  /\ tried' = tried \cup {current} /\ dropped' = TRUE
  /\ UNCHANGED <<health, redis, seen, alerted, job, lapse, unsent>>
-----------------------------------------------------------------------------
NextFailures(s) == IF failures[s] < MaxConsecutive THEN failures[s] + 1
                   ELSE MaxConsecutive

\* CircuitBreaker.record_failure, until the key that opens the circuit
CountFailure ==
  /\ pc = "outcome" /\ results[current] = "FAILED"
  /\ IF Answers
     THEN /\ failures' = [failures EXCEPT ![current] = NextFailures(current)]
          /\ failures_ttl' = [failures_ttl EXCEPT ![current] = 2 * OpenTTL]
     ELSE UNCHANGED <<failures, failures_ttl>>
  /\ IF /\ Answers
        /\ NextFailures(current) = MaxConsecutive
        /\ open_ttl[current] = 0
     THEN pc' = "open" /\ UNCHANGED <<at, seen, results>>
     ELSE Advance("FAILED")
  /\ lapse' = (lapse \/ ~Answers)
  /\ UNCHANGED <<health, restarts, open_ttl, alerted, job, faults, healed,
                 uncounted, report>>

\* mutant: the failures are counted and the key is never set
NeverOpens ==
  /\ pc = "open"
  /\ Advance("FAILED")
  /\ UNCHANGED <<health, redis, alerted, job, faults, history, report>>

OpenCircuit ==
  /\ pc = "open"
  /\ open_ttl' = IF Answers THEN [open_ttl EXCEPT ![current] = OpenTTL]
                 ELSE open_ttl
  /\ lapse' = (lapse \/ ~Answers)
  /\ Advance("FAILED")
  /\ UNCHANGED <<health, restarts, failures, failures_ttl, alerted, job, faults,
                 healed, uncounted, report>>

\* CircuitBreaker.record_success: the restart was issued, nothing is verified yet.
CountSuccess ==
  /\ pc = "outcome" /\ results[current] = "RECOVERED"
  /\ IF Answers
     THEN /\ failures' = [failures EXCEPT ![current] = 0]
          /\ failures_ttl' = [failures_ttl EXCEPT ![current] = 0]
          /\ open_ttl' = [open_ttl EXCEPT ![current] = 0]
     ELSE UNCHANGED <<failures, failures_ttl, open_ttl>>
  /\ lapse' = (lapse \/ ~Answers)
  /\ Advance("RECOVERED")
  /\ UNCHANGED <<health, restarts, alerted, job, faults, healed, uncounted, report>>

\* _reconcile_outcomes
TrustsHealer(verified) == results      \* mutant
Reconciled(verified) ==
  [s \in Services |-> IF results[s] = "RECOVERED" /\ verified[s] # "OK"
                      THEN "FAILED" ELSE results[s]]

\* After the last service: the second health check, if anything was tried; the
\* first one stands in for it when it raises.
Verify ==
  /\ pc = "next" /\ at > Len(Checks)
  /\ IF \E s \in Services : results[s] \notin {"none", "SKIPPED"}
     THEN seen' \in {health, seen}
     ELSE UNCHANGED seen
  /\ results' = Reconciled(seen')
  /\ pc' = "notify"
  /\ UNCHANGED <<health, redis, at, alerted, job, faults, history, report>>

\* notifier.should_notify
ShouldNotify(s) ==
  \/ results[s] = "FAILED"
  \/ results[s] \in {"SKIPPED", "BLOCKED_CIRCUIT"} /\ s \in Alerting
ToTell == {s \in Services : ShouldNotify(s)}

\* _notify: the message arrives, or nobody hears of it: no notifier is
\* configured, or it fails or is refused, which is logged and forgotten.
Notify ==
  /\ \/ alerted' = ToTell /\ UNCHANGED unsent
     \/ ToTell # {} /\ alerted' = {} /\ unsent' = TRUE
  /\ UNCHANGED <<tried, dropped>>

FinishRun ==
  /\ pc = "notify"
  /\ Notify
  /\ pc' = "idle"
  /\ due' = FALSE /\ attempt' = 1
  /\ UNCHANGED <<health, redis, at, seen, results, faults, history>>

\* _append_history raises after everything else is done: with_retry starts the
\* whole run again, until its attempts are used up.
RunRaises ==
  /\ pc = "notify"
  /\ faults < MaxFaults
  /\ faults' = faults + 1
  /\ Notify
  /\ pc' = "idle"
  /\ IF attempt < MaxAttempts
     THEN attempt' = attempt + 1 /\ UNCHANGED due
     ELSE attempt' = 1 /\ due' = FALSE
  /\ UNCHANGED <<health, redis, at, seen, results, history>>

\* The scheduler dies; a failure it was about to count is lost with it.
Crash ==
  /\ due
  /\ faults < MaxFaults
  /\ faults' = faults + 1
  /\ uncounted' = (uncounted \/ pc \in {"outcome", "open"})
  /\ Killed
  /\ UNCHANGED <<health, redis, healed, lapse>>
-----------------------------------------------------------------------------
Degrade(s) ==
  /\ health[s] = "OK"
  /\ faults < MaxFaults
  /\ faults' = faults + 1
  /\ \E h \in {"DEGRADED"} \cup {g \in {"CRITICAL"} : s \in Gravest} :
       health' = [health EXCEPT ![s] = h]
  /\ UNCHANGED <<redis, run, alerted, job, history, report>>

\* The service recovers by itself or by hand.
Recover(s) ==
  /\ Unhealthy(s)
  /\ health' = [health EXCEPT ![s] = "OK"]
  /\ IF s = Store THEN StoreRestarts ELSE UNCHANGED <<redis, lapse>>
  /\ UNCHANGED <<run, alerted, job, faults, healed, uncounted, report>>

RunStep ==
  \/ Detect \/ PassOver \/ CheckCircuit \/ CheckCooldown \/ RecordRestart
  \/ HealRecovers \/ HealFails \/ HealSkips
  \/ CountFailure \/ OpenCircuit \/ CountSuccess
  \/ Verify \/ FinishRun

Next ==
  \/ Tick
  \/ RunStep
  \/ HealerRaises
  \/ RunRaises
  \/ Crash
  \/ \E s \in Services : Degrade(s) \/ Recover(s)

Spec == Init /\ [][Next]_vars

\* The scheduler's timer fires and a started run goes on: Tick is enabled when
\* the job is not due, a step of the run when it is.
Fairness == WF_vars(Tick \/ RunStep)
FairSpec == Spec /\ Fairness
-----------------------------------------------------------------------------
(***************************************************************************)
(* Properties                                                              *)
(***************************************************************************)
TypeOK ==
  /\ health \in [Services -> Health]
  /\ restarts \in [Services -> SUBSET ((0 .. Window - 1) \X (1 .. MaxAttempts))]
  /\ failures \in [Services -> 0 .. MaxConsecutive]
  /\ failures_ttl \in [Services -> 0 .. 2 * OpenTTL]
  /\ open_ttl \in [Services -> 0 .. OpenTTL]
  /\ pc \in {"idle", "next", "cooldown", "record", "heal", "outcome", "open",
             "notify"}
  /\ at \in 1 .. Len(Checks) + 1
  /\ seen \in [Services -> Health]
  /\ results \in [Services -> Outcomes \cup {"none", "BLOCKED_CIRCUIT"}]
  /\ alerted \subseteq Services
  /\ due \in BOOLEAN /\ attempt \in 1 .. MaxAttempts
  /\ faults \in Nat
  /\ healed \in [Services ->
       SUBSET ((0 .. Horizon - 1) \X (1 .. MaxAttempts) \X Outcomes)]
  /\ lapse \in BOOLEAN /\ uncounted \in BOOLEAN
  /\ tried \subseteq Services /\ dropped \in BOOLEAN /\ unsent \in BOOLEAN

\* No restart storm: within Window a service is healed at most MaxRestarts
\* times, however many attempts with_retry makes and however often a restart
\* of the host kills the run, as long as Redis keeps what it is told.
RestartBudget ==
  ~lapse => \A s \in Services :
    Cardinality({h \in healed[s] : h[1] < Window}) <= MaxRestarts

\* h is a failed heal of s with no successful one after it.
Later(g, h) == g[1] < h[1] \/ (g[1] = h[1] /\ g[2] > h[2])
Unredeemed(s) ==
  {h \in healed[s] : /\ h[1] < OpenTTL
                     /\ h[3] = "FAILED"
                     /\ ~\E g \in healed[s] : g[3] = "RECOVERED" /\ Later(g, h)}

\* The breaker: at most MaxConsecutive heals of a service fail in a row within
\* OpenTTL, since the last of them opens the circuit for that long.
FailureBudget ==
  ~lapse /\ ~uncounted =>
    \A s \in Services : Cardinality(Unredeemed(s)) <= MaxConsecutive

\* A completed run whose reader hears nothing of a service it healed has seen it
\* healthy after the heal, except when a later healer raised, so that the run
\* forgot what it had done, or its message did not arrive.
SilenceMeansHealthy ==
  \A s \in tried \ alerted :
    pc = "idle" => seen[s] = "OK" \/ dropped \/ unsent

Healing(s) == pc = "heal" /\ current = s
FollowsHost(s) ==
  \E i, j \in DOMAIN Checks : i < j /\ Checks[i] = Host /\ Checks[j] = s

\* A service that stays down is healed again: a healer is called for it, or it
\* is healthy, infinitely often, since the cooldown and the open circuit pass and
\* a killed run is followed by another.  One that is checked after the Host waits
\* as long as every run heals the Host, and so kills itself, first.
HealingResumes ==
  \A s \in Healable \ Quiet :
    []<>(\/ ~Unhealthy(s)
         \/ Healing(s)
         \/ FollowsHost(s) /\ Healing(Host))
=============================================================================
