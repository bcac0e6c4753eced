------------------------- MODULE AutoHealingProofs -------------------------
(***************************************************************************)
(* For any services, windows and limits: the watchdog's restart budget,    *)
(* and what its silence means.                                             *)
(***************************************************************************)
EXTENDS AutoHealing, FiniteSetTheorems, TLAPS

Restart == (0 .. Window - 1) \X (1 .. MaxAttempts)
Heal == (0 .. Horizon - 1) \X (1 .. MaxAttempts) \X Outcomes

Busy == {"cooldown", "record", "heal", "outcome", "open"}

\* A run belongs to a due job, and a service at hand is one of Checks.
Progress ==
  /\ pc # "idle" => due
  /\ pc \in Busy => at <= Len(Checks)

\* While Redis has missed nothing, it knows every heal of the window.
Counted ==
  ~lapse =>
    /\ \A s \in Services : Cardinality(restarts[s]) <= MaxRestarts
    /\ pc = "record" => Cardinality(restarts[current]) < MaxRestarts
    /\ pc = "heal" => <<0, attempt>> \in restarts[current]
    /\ \A s \in Services : \A h \in healed[s] :
         h[1] < Window => <<h[1], h[2]>> \in restarts[s]

\* An attempt heals a service at most once, so that the entries of the sorted
\* set, which carry no outcome, tell the heals apart.
Unique ==
  \A s \in Services : \A g, h \in healed[s] :
    g[1] = h[1] /\ g[2] = h[2] => g = h
Fresh ==
  due => \A i \in DOMAIN Checks : \A h \in healed[Checks[i]] :
    h[1] = 0 => \/ h[2] < attempt
                \/ /\ h[2] = attempt /\ pc # "idle"
                   /\ i < at \/ (i = at /\ pc \in {"outcome", "open"})

\* Before the notification a recovery has been verified.
Verified ==
  pc = "notify" => \A s \in Services : results[s] = "RECOVERED" => seen[s] = "OK"

\* What a run has healed lies behind it, and it has a result for it as long as
\* no healer raised.
Reported ==
  pc # "idle" =>
    /\ \A i \in DOMAIN Checks : Checks[i] \in tried =>
         i < at \/ (i = at /\ pc \in {"outcome", "open"})
    /\ \A s \in tried : dropped \/ results[s] \in {"RECOVERED", "FAILED"}

IInv == TypeOK /\ Progress /\ Counted /\ Unique /\ Fresh /\ Verified /\ Reported
        /\ SilenceMeansHealthy

\* A failure of s is in the history, and not yet at the breaker or only half.
Pending(s) == pc = "outcome" /\ results[current] = "FAILED" /\ s = current
Opening(s) == pc = "open" /\ s = current
Told(s) == IF Pending(s) THEN Unredeemed(s) \ {<<0, attempt, "FAILED">>}
           ELSE Unredeemed(s)

\* The failures the breaker was told of and that count still: fewer than the
\* limit and no more than its counter, or the circuit is open, or none; neither
\* the counter nor the open circuit expires before they do.
Settled(s) ==
  /\ Cardinality(Told(s)) <= MaxConsecutive
  /\ \/ failures[s] < MaxConsecutive /\ Cardinality(Told(s)) <= failures[s]
     \/ open_ttl[s] > 0 \/ Opening(s) \/ Told(s) = {}
  /\ \A h \in Told(s) : /\ open_ttl[s] > 0 => h[1] + open_ttl[s] >= OpenTTL
                        /\ h[1] + failures_ttl[s] >= 2 * OpenTTL

Breaker ==
  ~lapse /\ ~uncounted =>
    /\ \A s \in Services : Settled(s)
    /\ pc \in Busy => open_ttl[current] = 0

\* A recovery that is still to be counted has redeemed the failures before it.
Redeemed ==
  pc = "outcome" /\ results[current] = "RECOVERED" => Unredeemed(current) = {}

BInv == IInv /\ Breaker /\ Redeemed
-----------------------------------------------------------------------------
LEMMA Limits ==
  /\ Window \in Nat /\ Window > 0 /\ MaxRestarts \in Nat /\ MaxRestarts > 0
  /\ MaxConsecutive \in Nat /\ MaxConsecutive > 0 /\ OpenTTL \in Nat /\ OpenTTL > 0
  /\ MaxAttempts \in Nat /\ MaxAttempts > 0
  /\ Horizon \in Nat /\ Horizon >= Window /\ Horizon > 0
<1>1. /\ Window \in Nat /\ Window > 0 /\ MaxRestarts \in Nat /\ MaxRestarts > 0
      /\ MaxConsecutive \in Nat /\ MaxConsecutive > 0 /\ OpenTTL \in Nat
      /\ OpenTTL > 0 /\ MaxAttempts \in Nat /\ MaxAttempts > 0
  BY BudgetAssumption DEF BudgetAssumption
<1> QED BY <1>1 DEF Horizon

LEMMA ChecksType ==
  /\ Len(Checks) \in Nat /\ DOMAIN Checks = 1 .. Len(Checks)
  /\ \A i \in 1 .. Len(Checks) : Checks[i] \in Services
  /\ \A i, j \in 1 .. Len(Checks) : Checks[i] = Checks[j] => i = j
  /\ \A s \in Services : \E i \in 1 .. Len(Checks) : s = Checks[i]
<1>1. Len(Checks) \in Nat /\ DOMAIN Checks = 1 .. Len(Checks)
  BY ServicesAssumption DEF ServicesAssumption
<1> QED BY <1>1, ServicesAssumption DEF ServicesAssumption, Services

\* A tick makes entries a tick older and drops those that leave the window.
LEMMA OlderRestarts ==
  ASSUME NEW E \in SUBSET Restart
  PROVE  Older(E, Window) =
           {<<e[1] + 1, e[2]>> : e \in {d \in E : d[1] + 1 < Window}}
<1>1. \A e \in E : [e EXCEPT ![1] = e[1] + 1] = <<e[1] + 1, e[2]>>
  BY DEF Restart
<1> QED BY <1>1 DEF Older

LEMMA OlderHeals ==
  ASSUME NEW E \in SUBSET Heal
  PROVE  Older(E, Horizon) =
           {<<e[1] + 1, e[2], e[3]>> : e \in {d \in E : d[1] + 1 < Horizon}}
<1>1. \A e \in E : [e EXCEPT ![1] = e[1] + 1] = <<e[1] + 1, e[2], e[3]>>
  BY DEF Heal
<1> QED BY <1>1 DEF Older

LEMMA OlderTypes ==
  /\ \A E \in SUBSET Restart : Older(E, Window) \in SUBSET Restart
  /\ \A E \in SUBSET Heal : Older(E, Horizon) \in SUBSET Heal
<1>1. ASSUME NEW E \in SUBSET Restart PROVE Older(E, Window) \in SUBSET Restart
  BY OlderRestarts, Limits DEF Restart
<1>2. ASSUME NEW E \in SUBSET Heal PROVE Older(E, Horizon) \in SUBSET Heal
  BY OlderHeals, Limits DEF Heal
<1> QED BY <1>1, <1>2

LEMMA RestartsFinite == \A E \in SUBSET Restart : IsFiniteSet(E)
<1>1. IsFiniteSet(0 .. Window - 1) /\ IsFiniteSet(1 .. MaxAttempts)
  BY FS_Interval, Limits
<1>2. IsFiniteSet(Restart)
  BY <1>1, FS_Product DEF Restart
<1> QED BY <1>2, FS_Subset

\* A tick adds no entry.
LEMMA OlderIsSmaller ==
  ASSUME NEW E \in SUBSET Restart
  PROVE  Cardinality(Older(E, Window)) <= Cardinality(E)
<1> DEFINE O == {<<e[1] + 1, e[2]>> : e \in {d \in E : d[1] + 1 < Window}}
           f == [o \in O |-> <<o[1] - 1, o[2]>>]
<1>1. \A o \in O : <<o[1] - 1, o[2]>> \in E
  BY DEF Restart
<1>2. \A o, q \in O : <<o[1] - 1, o[2]>> = <<q[1] - 1, q[2]>> => o = q
  BY DEF Restart
<1>3. IsFiniteSet(E)
  BY RestartsFinite
<1> HIDE DEF O
<1>4. f \in Injection(O, E)
  BY <1>1, <1>2 DEF Injection, IsInjective
<1> HIDE DEF f
<1>5. Cardinality(O) <= Cardinality(E)
  BY <1>3, <1>4, FS_Injection
<1> QED BY <1>5, OlderRestarts DEF O
-----------------------------------------------------------------------------
(***************************************************************************)
(* Types.                                                                  *)
(***************************************************************************)
Results == Outcomes \cup {"none", "BLOCKED_CIRCUIT"}

LEMMA InitHolds == Init => IInv
<1> SUFFICES ASSUME Init PROVE IInv
  OBVIOUS
<1>1. TypeOK
  <2>1. Len(Checks) \in Nat
    BY ChecksType
  <2>2. /\ health \in [Services -> Health] /\ seen \in [Services -> Health]
        /\ results \in [Services -> Results]
    BY DEF Init, Health, Results
  <2>3. /\ restarts \in [Services -> SUBSET Restart]
        /\ healed \in [Services -> SUBSET Heal]
    BY DEF Init
  <2>4. /\ failures \in [Services -> 0 .. MaxConsecutive]
        /\ failures_ttl \in [Services -> 0 .. 2 * OpenTTL]
        /\ open_ttl \in [Services -> 0 .. OpenTTL]
    BY Limits DEF Init
  <2>5. /\ due \in BOOLEAN /\ lapse \in BOOLEAN /\ uncounted \in BOOLEAN
        /\ dropped \in BOOLEAN /\ unsent \in BOOLEAN
    BY DEF Init
  <2>6. /\ at \in 1 .. Len(Checks) + 1 /\ attempt \in 1 .. MaxAttempts /\ faults \in Nat
        /\ alerted \subseteq Services
        /\ tried \subseteq Services
    BY <2>1, Limits DEF Init
  <2> QED BY <2>2, <2>3, <2>4, <2>5, <2>6 DEF Init, TypeOK, Results, Restart, Heal
<1>2. Progress
  BY DEF Init, Progress, Busy
<1>3. Counted
  BY FS_EmptySet, Limits DEF Init, Counted
<1>4. Unique /\ Fresh /\ Verified /\ Reported
  BY ChecksType DEF Init, Unique, Fresh, Verified, Reported
<1>5. SilenceMeansHealthy
  BY DEF Init, SilenceMeansHealthy
<1> QED BY <1>1, <1>2, <1>3, <1>4, <1>5 DEF IInv

\* The service at hand in the middle of its treatment.
LEMMA CurrentType ==
  ASSUME TypeOK, at <= Len(Checks)
  PROVE  /\ current \in Services /\ at \in 1 .. Len(Checks)
         /\ at + 1 \in 1 .. Len(Checks) + 1
BY ChecksType DEF TypeOK, current

\* Moving on keeps the types.
LEMMA AdvanceType ==
  ASSUME TypeOK, at <= Len(Checks), NEW outcome \in Results, Advance(outcome)
  PROVE  /\ results' \in [Services -> Results] /\ at' = at + 1
         /\ at' \in 1 .. Len(Checks) + 1 /\ pc' = "next" /\ seen' = seen
BY CurrentType DEF Advance, TypeOK, Results

LEMMA HealedType ==
  ASSUME TypeOK, at <= Len(Checks), NEW outcome \in Outcomes, Healed(outcome)
  PROVE  healed' \in [Services -> SUBSET Heal]
<1>1. current \in Services
  BY CurrentType
<1>2. <<0, attempt, outcome>> \in Heal
  BY Limits DEF TypeOK, Heal
<1>3. healed \in [Services -> SUBSET Heal]
  BY DEF TypeOK, Heal
<1> QED BY <1>1, <1>2, <1>3 DEF Healed

LEMMA StoreRestartsType ==
  ASSUME TypeOK, StoreRestarts
  PROVE  /\ restarts' \in [Services -> SUBSET Restart]
         /\ failures' \in [Services -> 0 .. MaxConsecutive]
         /\ failures_ttl' \in [Services -> 0 .. 2 * OpenTTL]
         /\ open_ttl' \in [Services -> 0 .. OpenTTL]
         /\ lapse' \in BOOLEAN
<1>1. 0 \in 0 .. MaxConsecutive /\ 0 \in 0 .. 2 * OpenTTL /\ 0 \in 0 .. OpenTTL
  BY Limits
<1>2. CASE UNCHANGED <<redis, lapse>>
  BY <1>2 DEF TypeOK, Restart, redis
<1>3. CASE ~UNCHANGED <<redis, lapse>>
  BY <1>1, <1>3 DEF StoreRestarts
<1> QED BY <1>2, <1>3

LEMMA KilledType ==
  ASSUME TypeOK, Killed
  PROVE  /\ pc' = "idle" /\ at' = 1 /\ at' \in 1 .. Len(Checks) + 1
         /\ results' \in [Services -> Results] /\ due' = FALSE /\ attempt' = 1
         /\ attempt' \in 1 .. MaxAttempts /\ seen' = seen /\ alerted' = alerted
BY Limits, ChecksType DEF Killed, Results

LEMMA ReportType ==
  ASSUME TypeOK, Progress, [Next]_vars
  PROVE  tried' \subseteq Services /\ dropped' \in BOOLEAN /\ unsent' \in BOOLEAN
<1>0. tried \subseteq Services /\ dropped \in BOOLEAN /\ unsent \in BOOLEAN
  BY DEF TypeOK
<1>1. CASE UNCHANGED report
  BY <1>0, <1>1 DEF report
<1>2. CASE Detect
  BY <1>2 DEF Detect
<1>3. CASE HealRecovers \/ HealFails \/ HealerRaises
  <2>1. current \in Services
    BY <1>3, CurrentType DEF HealRecovers, HealFails, HealerRaises, Progress, Busy
  <2> QED BY <1>0, <1>3, <2>1 DEF HealRecovers, HealFails, HealerRaises, Killed
<1>4. CASE FinishRun \/ RunRaises
  BY <1>0, <1>4 DEF FinishRun, RunRaises, Notify
<1>5. CASE Crash
  BY <1>0, <1>5 DEF Crash, Killed
<1>6. CASE PassOver \/ CheckCircuit \/ CheckCooldown \/ RecordRestart \/ HealSkips
  BY <1>1, <1>6 DEF PassOver, CheckCircuit, CheckCooldown, RecordRestart, HealSkips
<1>7. CASE CountFailure \/ OpenCircuit \/ CountSuccess \/ Verify
  BY <1>1, <1>7 DEF CountFailure, OpenCircuit, CountSuccess, Verify
<1>8. CASE Tick \/ UNCHANGED vars \/ (\E s \in Services : Degrade(s) \/ Recover(s))
  BY <1>1, <1>8 DEF Tick, Degrade, Recover, vars
<1> QED BY <1>2, <1>3, <1>4, <1>5, <1>6, <1>7, <1>8 DEF Next, RunStep

LEMMA TypeStep ==
  ASSUME TypeOK, Progress, [Next]_vars PROVE TypeOK'
<1> USE DEF Progress, Busy
<1>0. /\ health \in [Services -> Health] /\ seen \in [Services -> Health]
      /\ restarts \in [Services -> SUBSET Restart]
      /\ failures \in [Services -> 0 .. MaxConsecutive]
      /\ failures_ttl \in [Services -> 0 .. 2 * OpenTTL]
      /\ open_ttl \in [Services -> 0 .. OpenTTL]
      /\ at \in 1 .. Len(Checks) + 1 /\ Len(Checks) \in Nat
      /\ results \in [Services -> Results]
      /\ alerted \subseteq Services /\ due \in BOOLEAN
      /\ attempt \in 1 .. MaxAttempts /\ faults \in Nat
      /\ healed \in [Services -> SUBSET Heal]
      /\ lapse \in BOOLEAN /\ uncounted \in BOOLEAN
  BY ChecksType DEF TypeOK, Restart, Heal, Results
<1> DEFINE T == /\ health' \in [Services -> Health] /\ seen' \in [Services -> Health]
                /\ restarts' \in [Services -> SUBSET Restart]
                /\ failures' \in [Services -> 0 .. MaxConsecutive]
                /\ failures_ttl' \in [Services -> 0 .. 2 * OpenTTL]
                /\ open_ttl' \in [Services -> 0 .. OpenTTL]
                /\ pc' \in {"idle", "next", "cooldown", "record", "heal", "outcome",
                            "open", "notify"}
                /\ at' \in 1 .. Len(Checks) + 1
                /\ results' \in [Services -> Results]
                /\ alerted' \subseteq Services /\ due' \in BOOLEAN
                /\ attempt' \in 1 .. MaxAttempts /\ faults' \in Nat
                /\ healed' \in [Services -> SUBSET Heal]
                /\ lapse' \in BOOLEAN /\ uncounted' \in BOOLEAN
<1> SUFFICES T
  BY ReportType DEF TypeOK, Restart, Heal, Results
<1>1. CASE Tick
  <2>1. restarts' \in [Services -> SUBSET Restart] /\ healed' \in [Services -> SUBSET Heal]
    BY <1>0, <1>1, OlderTypes DEF Tick
  <2>2. /\ open_ttl' \in [Services -> 0 .. OpenTTL]
        /\ failures_ttl' \in [Services -> 0 .. 2 * OpenTTL]
    BY <1>0, <1>1, Limits DEF Tick, TickDown
  <2>3. failures' \in [Services -> 0 .. MaxConsecutive]
    BY <1>0, <1>1, Limits DEF Tick
  <2> QED BY <1>0, <1>1, <2>1, <2>2, <2>3 DEF Tick, TypeOK, run
<1>2. CASE Detect
  BY <1>0, <1>2 DEF Detect, redis, job, history, Results
<1>3. CASE PassOver
  <2>1. /\ results' \in [Services -> Results] /\ at' \in 1 .. Len(Checks) + 1
        /\ pc' = "next" /\ seen' = seen
    <3>1. at <= Len(Checks)
      BY <1>3 DEF PassOver
    <3>2. PICK outcome \in Results : Advance(outcome)
      BY <1>3 DEF PassOver, Results, Outcomes
    <3> QED BY <3>1, <3>2, AdvanceType
  <2> QED BY <1>0, <1>3, <2>1 DEF PassOver, redis, job, history
<1>4. CASE CheckCircuit
  <2>1. /\ results' \in [Services -> Results] /\ at' \in 1 .. Len(Checks) + 1
        /\ pc' \in {"next", "cooldown"} /\ seen' = seen
    BY <1>0, <1>4, AdvanceType DEF CheckCircuit, Results
  <2>2. lapse' \in BOOLEAN
    BY <1>0, <1>4 DEF CheckCircuit, Answers
  <2> QED BY <1>0, <1>4, <2>1, <2>2 DEF CheckCircuit, redis, job
<1>5. CASE CheckCooldown
  <2>1. /\ results' \in [Services -> Results] /\ at' \in 1 .. Len(Checks) + 1
        /\ pc' \in {"next", "record"} /\ seen' = seen
    BY <1>0, <1>5, AdvanceType DEF CheckCooldown, Results, Outcomes
  <2>2. lapse' \in BOOLEAN
    BY <1>0, <1>5 DEF CheckCooldown, Answers
  <2> QED BY <1>0, <1>5, <2>1, <2>2 DEF CheckCooldown, redis, job
<1>6. CASE RecordRestart
  <2>1. <<0, attempt>> \in Restart
    BY <1>0, Limits DEF Restart
  <2>2. restarts' \in [Services -> SUBSET Restart]
    BY <1>0, <1>6, <2>1 DEF RecordRestart
  <2>3. lapse' \in BOOLEAN
    BY <1>0, <1>6 DEF RecordRestart, Answers
  <2> QED BY <1>0, <1>6, <2>2, <2>3 DEF RecordRestart, job
<1>7. CASE HealRecovers
  <2>1. at <= Len(Checks) /\ current \in Services
    BY <1>7, CurrentType DEF HealRecovers
  <2>2. healed' \in [Services -> SUBSET Heal]
    BY <1>7, <2>1, HealedType DEF HealRecovers, Outcomes
  <2>3. health' \in [Services -> Health]
    BY <1>0, <1>7, <2>1 DEF HealRecovers, Health
  <2>4. /\ restarts' \in [Services -> SUBSET Restart]
        /\ failures' \in [Services -> 0 .. MaxConsecutive]
        /\ failures_ttl' \in [Services -> 0 .. 2 * OpenTTL]
        /\ open_ttl' \in [Services -> 0 .. OpenTTL]
        /\ lapse' \in BOOLEAN
    BY <1>0, <1>7, StoreRestartsType DEF HealRecovers, redis
  <2>5. /\ pc' \in {"idle", "outcome"} /\ at' \in 1 .. Len(Checks) + 1
        /\ results' \in [Services -> Results] /\ alerted' = alerted
        /\ due' \in BOOLEAN /\ attempt' \in 1 .. MaxAttempts /\ seen' = seen
    <3>1. CASE current = Host
      BY <1>7, <3>1, KilledType DEF HealRecovers
    <3>2. CASE current # Host
      BY <1>0, <1>7, <2>1, <3>2 DEF HealRecovers, Results, Outcomes, job
    <3> QED BY <3>1, <3>2
  <2> QED BY <1>0, <1>7, <2>2, <2>3, <2>4, <2>5 DEF HealRecovers
<1>8. CASE HealFails
  <2>1. at <= Len(Checks) /\ current \in Services
    BY <1>8, CurrentType DEF HealFails
  <2>2. healed' \in [Services -> SUBSET Heal]
    BY <1>8, <2>1, HealedType DEF HealFails, Outcomes
  <2> QED BY <1>0, <1>8, <2>1, <2>2 DEF HealFails, redis, job, Results, Outcomes
<1>9. CASE HealSkips
  <2>1. at <= Len(Checks) /\ "SKIPPED" \in Outcomes /\ "SKIPPED" \in Results
    BY <1>9 DEF HealSkips, Results, Outcomes
  <2>2. healed' \in [Services -> SUBSET Heal]
    BY <1>9, <2>1, HealedType DEF HealSkips
  <2>3. /\ results' \in [Services -> Results] /\ at' \in 1 .. Len(Checks) + 1
        /\ pc' = "next" /\ seen' = seen
    BY <1>9, <2>1, AdvanceType DEF HealSkips
  <2> QED BY <1>0, <1>9, <2>2, <2>3 DEF HealSkips, redis, job
<1>10. CASE HealerRaises
  <2>1. at <= Len(Checks) /\ "FAILED" \in Outcomes
    BY <1>10 DEF HealerRaises, Outcomes
  <2>2. healed' \in [Services -> SUBSET Heal]
    BY <1>10, <2>1, HealedType DEF HealerRaises
  <2> QED BY <1>0, <1>10, <2>2 DEF HealerRaises, redis, job, Results
<1>11. CASE CountFailure
  <2>1. at <= Len(Checks) /\ current \in Services
    BY <1>11, CurrentType DEF CountFailure
  <2>2. NextFailures(current) \in 0 .. MaxConsecutive
    BY <1>0, <2>1, Limits DEF NextFailures
  <2>3. /\ failures' \in [Services -> 0 .. MaxConsecutive]
        /\ failures_ttl' \in [Services -> 0 .. 2 * OpenTTL]
    <3>1. 2 * OpenTTL \in 0 .. 2 * OpenTTL
      BY Limits
    <3> QED BY <1>0, <1>11, <2>2, <3>1 DEF CountFailure
  <2>4. /\ results' \in [Services -> Results] /\ at' \in 1 .. Len(Checks) + 1
        /\ pc' \in {"next", "open"} /\ seen' = seen
    BY <1>0, <1>11, <2>1, AdvanceType DEF CountFailure, Results, Outcomes
  <2>5. lapse' \in BOOLEAN
    BY <1>0, <1>11 DEF CountFailure, Answers
  <2> QED BY <1>0, <1>11, <2>3, <2>4, <2>5 DEF CountFailure, job
<1>12. CASE OpenCircuit
  <2>1. at <= Len(Checks) /\ "FAILED" \in Results
    BY <1>12 DEF OpenCircuit, Results, Outcomes
  <2>2. open_ttl' \in [Services -> 0 .. OpenTTL]
    <3>1. OpenTTL \in 0 .. OpenTTL
      BY Limits
    <3> QED BY <1>0, <1>12, <3>1 DEF OpenCircuit
  <2>4. lapse' \in BOOLEAN
    BY <1>0, <1>12 DEF OpenCircuit, Answers
  <2>3. /\ results' \in [Services -> Results] /\ at' \in 1 .. Len(Checks) + 1
        /\ pc' = "next" /\ seen' = seen
    BY <1>12, <2>1, AdvanceType DEF OpenCircuit
  <2> QED BY <1>0, <1>12, <2>2, <2>3, <2>4 DEF OpenCircuit, job
<1>13. CASE CountSuccess
  <2>1. at <= Len(Checks) /\ "RECOVERED" \in Results
    BY <1>13 DEF CountSuccess, Results, Outcomes
  <2>2. /\ failures' \in [Services -> 0 .. MaxConsecutive]
        /\ failures_ttl' \in [Services -> 0 .. 2 * OpenTTL]
        /\ open_ttl' \in [Services -> 0 .. OpenTTL]
    <3>1. 0 \in 0 .. MaxConsecutive /\ 0 \in 0 .. 2 * OpenTTL /\ 0 \in 0 .. OpenTTL
      BY Limits
    <3> QED BY <1>0, <1>13, <3>1 DEF CountSuccess
  <2>3. /\ results' \in [Services -> Results] /\ at' \in 1 .. Len(Checks) + 1
        /\ pc' = "next" /\ seen' = seen
    BY <1>13, <2>1, AdvanceType DEF CountSuccess
  <2>4. lapse' \in BOOLEAN
    BY <1>0, <1>13 DEF CountSuccess, Answers
  <2> QED BY <1>0, <1>13, <2>2, <2>3, <2>4 DEF CountSuccess, job
<1>14. CASE Verify
  <2>1. seen' \in [Services -> Health]
    BY <1>0, <1>14 DEF Verify
  <2>2. results' \in [Services -> Results]
    BY <1>0, <1>14 DEF Verify, Reconciled, Results, Outcomes
  <2> QED BY <1>0, <1>14, <2>1, <2>2 DEF Verify, redis, job, history
<1>15. CASE FinishRun
  <2>1. due' \in BOOLEAN /\ UNCHANGED <<lapse, uncounted>>
    BY <1>15 DEF FinishRun, history
  <2>2. attempt' \in 1 .. MaxAttempts
    BY <1>15, Limits DEF FinishRun
  <2>3. alerted' \subseteq Services
    BY <1>15 DEF FinishRun, Notify, ToTell
  <2> QED BY <1>0, <1>15, <2>1, <2>2, <2>3 DEF FinishRun, redis, history
<1>16. CASE RunRaises
  <2>1. due' \in BOOLEAN /\ UNCHANGED <<lapse, uncounted>>
    <3>1. (due' = due \/ due' = FALSE) /\ UNCHANGED <<lapse, uncounted>>
      BY <1>16 DEF RunRaises, history
    <3> QED BY <1>0, <3>1
  <2>2. attempt' \in 1 .. MaxAttempts /\ faults' \in Nat
    <3>1. CASE attempt < MaxAttempts
      <4>1. attempt' = attempt + 1 /\ faults' = faults + 1
        BY <1>16, <3>1 DEF RunRaises
      <4> QED BY <1>0, <3>1, <4>1, Limits
    <3>2. CASE ~(attempt < MaxAttempts)
      <4>1. attempt' = 1 /\ faults' = faults + 1
        BY <1>16, <3>2 DEF RunRaises
      <4> QED BY <1>0, <4>1, Limits
    <3> QED BY <3>1, <3>2
  <2>3. alerted' \subseteq Services
    BY <1>16 DEF RunRaises, Notify, ToTell
  <2> QED BY <1>0, <1>16, <2>1, <2>2, <2>3 DEF RunRaises, redis, history
<1>17. CASE Crash
  <2>1. /\ pc' = "idle" /\ at' \in 1 .. Len(Checks) + 1
        /\ results' \in [Services -> Results] /\ due' = FALSE
        /\ attempt' \in 1 .. MaxAttempts /\ seen' = seen /\ alerted' = alerted
    BY <1>17, KilledType DEF Crash
  <2>2. uncounted' \in BOOLEAN
    BY <1>0, <1>17 DEF Crash
  <2>3. due' \in BOOLEAN /\ lapse' \in BOOLEAN
    BY <1>0, <1>17, <2>1 DEF Crash
  <2>4. faults' \in Nat /\ UNCHANGED <<health, redis, healed>>
    BY <1>0, <1>17 DEF Crash
  <2> QED BY <1>0, <2>1, <2>2, <2>3, <2>4 DEF redis
<1>18. ASSUME NEW s \in Services, Degrade(s) PROVE T
  BY <1>0, <1>18 DEF Degrade, Health, redis, run, job, history, TypeOK
<1>19. ASSUME NEW s \in Services, Recover(s) PROVE T
  <2>1. /\ restarts' \in [Services -> SUBSET Restart]
        /\ failures' \in [Services -> 0 .. MaxConsecutive]
        /\ failures_ttl' \in [Services -> 0 .. 2 * OpenTTL]
        /\ open_ttl' \in [Services -> 0 .. OpenTTL]
        /\ lapse' \in BOOLEAN
    BY <1>0, <1>19, StoreRestartsType DEF Recover, redis
  <2> QED BY <1>0, <1>19, <2>1 DEF Recover, Health, run, job, TypeOK
<1>20. CASE UNCHANGED vars
  BY <1>0, <1>20 DEF vars, redis, run, job, history, TypeOK
<1> HIDE DEF T
<1> QED
  BY <1>1, <1>2, <1>3, <1>4, <1>5, <1>6, <1>7, <1>8, <1>9, <1>10, <1>11, <1>12, <1>13,
     <1>14, <1>15, <1>16, <1>17, <1>18, <1>19, <1>20 DEF Next, RunStep
-----------------------------------------------------------------------------
(***************************************************************************)
(* The restart budget.                                                     *)
(***************************************************************************)
LEMMA ProgressStep ==
  ASSUME TypeOK, Progress, [Next]_vars PROVE Progress'
<1> USE DEF Progress, Busy
<1>1. CASE Tick \/ UNCHANGED vars \/ \E s \in Services : Degrade(s) \/ Recover(s)
  BY <1>1 DEF Tick, vars, run, job, Degrade, Recover
<1>2. CASE Detect \/ PassOver \/ CheckCircuit \/ CheckCooldown \/ RecordRestart
  BY <1>2 DEF Detect, PassOver, CheckCircuit, CheckCooldown, RecordRestart, Advance, job
<1>3. CASE HealRecovers
  BY <1>3 DEF HealRecovers, Killed, job
<1>4. CASE HealFails \/ HealSkips \/ HealerRaises
  BY <1>4 DEF HealFails, HealSkips, HealerRaises, Advance, job
<1>5. CASE CountFailure \/ OpenCircuit \/ CountSuccess
  BY <1>5 DEF CountFailure, OpenCircuit, CountSuccess, Advance, job
<1>6. CASE Verify \/ FinishRun \/ RunRaises \/ Crash
  BY <1>6 DEF Verify, FinishRun, RunRaises, Crash, Killed, job
<1> QED BY <1>1, <1>2, <1>3, <1>4, <1>5, <1>6 DEF Next, RunStep

\* A step that touches neither the window nor the history of heals.
LEMMA CountedStays ==
  ASSUME Counted, UNCHANGED <<restarts, healed>>, ~lapse' => ~lapse,
         pc' \notin {"record", "heal"}
  PROVE  Counted'
BY DEF Counted

\* A heal has an entry in the window by the time it is made.
LEMMA CountedHeals ==
  ASSUME TypeOK, at <= Len(Checks), Counted, pc = "heal", NEW outcome, Healed(outcome),
         ~lapse' => ~lapse /\ restarts' = restarts, pc' \notin {"record", "heal"}
  PROVE  Counted'
<1> SUFFICES ASSUME ~lapse' PROVE Counted'
  BY DEF Counted
<1>1. /\ restarts' = restarts /\ <<0, attempt>> \in restarts[current]
      /\ \A s \in Services : Cardinality(restarts[s]) <= MaxRestarts
      /\ \A s \in Services : \A h \in healed[s] :
           h[1] < Window => <<h[1], h[2]>> \in restarts[s]
  BY DEF Counted
<1>2. \A s \in Services : \A h \in healed'[s] :
        h \in healed[s] \/ (s = current /\ h = <<0, attempt, outcome>>)
  BY CurrentType DEF Healed, TypeOK
<1> QED BY <1>1, <1>2 DEF Counted

LEMMA CountedTicks ==
  ASSUME TypeOK, Progress, Counted, Tick PROVE Counted'
<1>1. pc = "idle" /\ pc' = "idle" /\ lapse' = lapse
  BY DEF Tick, Progress, run
<1>2. /\ restarts \in [Services -> SUBSET Restart]
      /\ healed \in [Services -> SUBSET Heal]
  BY DEF TypeOK, Restart, Heal
<1> SUFFICES ASSUME ~lapse, NEW s \in Services
             PROVE  /\ Cardinality(restarts'[s]) <= MaxRestarts
                    /\ \A h \in healed'[s] : h[1] < Window
                         => <<h[1], h[2]>> \in restarts'[s]
  BY <1>1 DEF Counted
<1>3. /\ restarts'[s] = Older(restarts[s], Window)
      /\ healed'[s] = Older(healed[s], Horizon)
  BY DEF Tick
<1>4. /\ restarts[s] \in SUBSET Restart /\ healed[s] \in SUBSET Heal
  BY <1>2
<1>5. Cardinality(restarts'[s]) <= MaxRestarts
  <2>1. Cardinality(Older(restarts[s], Window)) <= Cardinality(restarts[s])
    BY <1>4, OlderIsSmaller
  <2>2. Cardinality(restarts[s]) <= MaxRestarts
    BY DEF Counted
  <2>3. /\ Cardinality(restarts[s]) \in Nat
        /\ Cardinality(Older(restarts[s], Window)) \in Nat
    BY <1>4, OlderTypes, RestartsFinite, FS_CardinalityType
  <2> QED BY <1>3, <2>1, <2>2, <2>3, Limits
<1>6. ASSUME NEW h \in healed'[s], h[1] < Window
      PROVE  <<h[1], h[2]>> \in restarts'[s]
  <2>1. PICK e \in healed[s] : h = <<e[1] + 1, e[2], e[3]>>
    BY <1>3, <1>4, OlderHeals
  <2>2. e[1] \in Nat /\ h[1] = e[1] + 1 /\ h[2] = e[2]
    BY <1>4, <2>1 DEF Heal
  <2>3. <<e[1], e[2]>> \in restarts[s]
    BY <1>6, <2>2, Limits DEF Counted
  <2> DEFINE d == <<e[1], e[2]>>
  <2>4. d[1] = e[1] /\ d[2] = e[2]
    OBVIOUS
  <2> HIDE DEF d
  <2>5. <<d[1] + 1, d[2]>> \in Older(restarts[s], Window)
    <3>1. d \in restarts[s] /\ d[1] + 1 < Window
      BY <1>6, <2>2, <2>3, <2>4 DEF d
    <3> QED BY <1>4, <3>1, OlderRestarts
  <2> QED BY <1>3, <2>2, <2>4, <2>5
<1> QED BY <1>5, <1>6

LEMMA CountedRecords ==
  ASSUME TypeOK, Progress, Counted, RecordRestart PROVE Counted'
<1> SUFFICES ASSUME ~lapse' PROVE Counted'
  BY DEF Counted
<1>1. ~lapse /\ Answers
  BY DEF RecordRestart
<1>2. /\ pc = "record" /\ pc' = "heal" /\ at' = at /\ attempt' = attempt
      /\ healed' = healed
      /\ restarts' = [restarts EXCEPT ![current] = restarts[current] \cup {<<0, attempt>>}]
  BY <1>1 DEF RecordRestart, job
<1>3. current \in Services /\ restarts[current] \in SUBSET Restart /\ current' = current
  BY <1>2, CurrentType DEF Progress, Busy, TypeOK, Restart, current
<1>4. \A s \in Services : restarts'[s] = IF s = current
        THEN restarts[current] \cup {<<0, attempt>>} ELSE restarts[s]
  BY <1>2, <1>3 DEF TypeOK
<1>5. Cardinality(restarts[current] \cup {<<0, attempt>>}) <= MaxRestarts
  <2>1. IsFiniteSet(restarts[current]) /\ Cardinality(restarts[current]) \in Nat
    BY <1>3, RestartsFinite, FS_CardinalityType
  <2>2. Cardinality(restarts[current]) < MaxRestarts
    BY <1>1, <1>2 DEF Counted
  <2>3. Cardinality(restarts[current] \cup {<<0, attempt>>})
          = IF <<0, attempt>> \in restarts[current] THEN Cardinality(restarts[current])
            ELSE Cardinality(restarts[current]) + 1
    BY <2>1, FS_AddElement
  <2> QED BY <2>1, <2>2, <2>3, Limits
<1> QED BY <1>1, <1>2, <1>3, <1>4, <1>5 DEF Counted

LEMMA CountedStep ==
  ASSUME TypeOK, Progress, Counted, [Next]_vars PROVE Counted'
<1>1. CASE Tick
  BY <1>1, CountedTicks
<1>2. CASE Detect \/ PassOver \/ CheckCircuit
  <2>1. CASE Detect
    BY <2>1, CountedStays DEF Detect, redis, history
  <2>2. CASE PassOver
    BY <2>2, CountedStays DEF PassOver, Advance, redis, history
  <2>3. CASE CheckCircuit
    <3>1. (~lapse' => ~lapse) /\ UNCHANGED <<restarts, healed>>
      BY <2>3 DEF CheckCircuit, redis
    <3>2. pc' \in {"next", "cooldown"}
      BY <2>3 DEF CheckCircuit, Advance
    <3> QED BY <3>1, <3>2, CountedStays
  <2> QED BY <1>2, <2>1, <2>2, <2>3
<1>3. CASE CheckCooldown
  <2>1. CASE pc' = "next"
    BY <1>3, <2>1, CountedStays DEF CheckCooldown, redis
  <2>2. CASE pc' # "next"
    <3> SUFFICES ASSUME ~lapse' PROVE Counted'
      BY DEF Counted
    <3>1. ~lapse /\ Answers
      BY <1>3 DEF CheckCooldown
    <3>2. /\ Allowed(current) /\ pc' = "record" /\ at' = at
          /\ restarts' = restarts /\ healed' = healed
      BY <1>3, <2>2, <3>1 DEF CheckCooldown, Advance, redis
    <3> QED BY <3>1, <3>2 DEF Counted, Allowed, current
  <2> QED BY <2>1, <2>2
<1>4. CASE RecordRestart
  BY <1>4, CountedRecords
<1>5. CASE HealRecovers
  <2>1. ~lapse' => ~lapse /\ restarts' = restarts
    BY <1>5 DEF HealRecovers, StoreRestarts, redis
  <2>2. pc' \notin {"record", "heal"} /\ pc = "heal" /\ at <= Len(Checks)
    BY <1>5 DEF HealRecovers, Killed, Progress, Busy
  <2> QED BY <1>5, <2>1, <2>2, CountedHeals DEF HealRecovers
<1>6. CASE HealFails
  BY <1>6, CountedHeals DEF HealFails, Progress, Busy, redis
<1>7. CASE HealSkips
  BY <1>7, CountedHeals DEF HealSkips, Progress, Busy, Advance, redis
<1>8. CASE HealerRaises
  BY <1>8, CountedHeals DEF HealerRaises, Progress, Busy, redis
<1>9. CASE CountFailure \/ OpenCircuit \/ CountSuccess
  BY <1>9, CountedStays DEF CountFailure, OpenCircuit, CountSuccess, Advance
<1>10. CASE Verify \/ FinishRun \/ RunRaises \/ Crash
  BY <1>10, CountedStays DEF Verify, FinishRun, RunRaises, Crash, Killed, redis, history
<1>11. ASSUME NEW s \in Services, Degrade(s) PROVE Counted'
  BY <1>11 DEF Degrade, Counted, redis, run, job, history, current
<1>12. ASSUME NEW s \in Services, Recover(s) PROVE Counted'
  <2>1. ~lapse' => ~lapse /\ restarts' = restarts
    BY <1>12 DEF Recover, StoreRestarts, redis
  <2> QED BY <1>12, <2>1 DEF Recover, Counted, run, job, current
<1>13. CASE UNCHANGED vars
  BY <1>13 DEF vars, Counted, redis, run, job, history, current
<1> QED
  BY <1>1, <1>2, <1>3, <1>4, <1>5, <1>6, <1>7, <1>8, <1>9, <1>10, <1>11, <1>12, <1>13
     DEF Next, RunStep
-----------------------------------------------------------------------------
\* A heal is the first of this service in this attempt.
LEMMA FirstHeal ==
  ASSUME TypeOK, Progress, Fresh, pc = "heal"
  PROVE  \A h \in healed[current] : ~(h[1] = 0 /\ h[2] = attempt)
<1>1. at \in DOMAIN Checks /\ at \in Nat /\ due
  BY CurrentType, ChecksType DEF Progress, Busy
<1>2. attempt \in Nat
  BY Limits DEF TypeOK
<1> QED BY <1>1, <1>2 DEF Fresh, current

LEMMA HealsUnique ==
  ASSUME TypeOK, Progress, Unique, Fresh, pc = "heal", NEW outcome, Healed(outcome)
  PROVE  Unique'
<1>1. current \in Services
  BY CurrentType DEF Progress, Busy
<1> DEFINE new == <<0, attempt, outcome>>
<1>2. new[1] = 0 /\ new[2] = attempt
  OBVIOUS
<1>3. \A s \in Services : \A h \in healed'[s] :
        h \in healed[s] \/ (s = current /\ h = new)
  BY <1>1 DEF Healed, TypeOK
<1> HIDE DEF new
<1> QED BY <1>2, <1>3, FirstHeal DEF Unique

LEMMA UniqueStep ==
  ASSUME TypeOK, Progress, Unique, Fresh, [Next]_vars PROVE Unique'
<1>1. CASE Tick
  <2> SUFFICES ASSUME NEW s \in Services, NEW g \in healed'[s], NEW h \in healed'[s],
                      g[1] = h[1], g[2] = h[2]
               PROVE  g = h
    BY DEF Unique
  <2>1. healed[s] \in SUBSET Heal /\ healed'[s] = Older(healed[s], Horizon)
    BY <1>1 DEF Tick, TypeOK, Heal
  <2>2. PICK d \in healed[s], e \in healed[s] :
          g = <<d[1] + 1, d[2], d[3]>> /\ h = <<e[1] + 1, e[2], e[3]>>
    BY <2>1, OlderHeals
  <2>3. d[1] = e[1] /\ d[2] = e[2]
    BY <2>1, <2>2 DEF Heal
  <2> QED BY <2>2, <2>3 DEF Unique
<1>2. CASE HealRecovers \/ HealFails \/ HealSkips \/ HealerRaises
  BY <1>2, HealsUnique DEF HealRecovers, HealFails, HealSkips, HealerRaises
<1>3. CASE healed' = healed
  BY <1>3 DEF Unique
<1> QED
  BY <1>1, <1>2, <1>3 DEF Next, RunStep, Detect, PassOver, CheckCircuit, CheckCooldown,
     RecordRestart, CountFailure, OpenCircuit, CountSuccess, Verify, FinishRun,
     RunRaises, Crash, Degrade, Recover, vars, history

\* A step that heals nothing, and never goes back in its run.
LEMMA FreshStays ==
  ASSUME TypeOK, Fresh, healed' = healed, attempt' = attempt, due, pc # "idle",
         pc' # "idle", at' \in Nat,
         at' > at \/ (at' = at /\ (pc \in {"outcome", "open"}
                                    => pc' \in {"outcome", "open"}))
  PROVE  Fresh'
<1>1. DOMAIN Checks \subseteq Nat /\ at \in Nat
  BY ChecksType DEF TypeOK
<1> QED BY <1>1 DEF Fresh

LEMMA HealsFresh ==
  ASSUME TypeOK, Progress, Fresh, pc = "heal", NEW outcome, Healed(outcome),
         attempt' = attempt, pc' # "idle", at' \in Nat,
         at' > at \/ (at' = at /\ pc' = "outcome")
  PROVE  Fresh'
<1>1. current \in Services /\ at \in 1 .. Len(Checks) /\ due
  BY CurrentType DEF Progress, Busy
<1> DEFINE new == <<0, attempt, outcome>>
<1>2. new[1] = 0 /\ new[2] = attempt
  OBVIOUS
<1>3. \A i \in 1 .. Len(Checks) : \A h \in healed'[Checks[i]] :
        h \in healed[Checks[i]] \/ (i = at /\ h = new)
  BY <1>1, ChecksType DEF Healed, TypeOK, current
<1> HIDE DEF new
<1>4. ASSUME NEW i \in 1 .. Len(Checks), NEW h \in healed'[Checks[i]], h[1] = 0
      PROVE  \/ h[2] < attempt
             \/ h[2] = attempt /\ (i < at' \/ (i = at' /\ pc' = "outcome"))
  <2>1. CASE i = at /\ h = new
    BY <1>1, <1>2, <2>1 DEF TypeOK
  <2>2. CASE h \in healed[Checks[i]]
    <3>1. i \in DOMAIN Checks /\ i \in Nat /\ at \in Nat
      BY <1>1, ChecksType
    <3>2. h[2] < attempt \/ (h[2] = attempt /\ i < at)
      BY <1>1, <1>4, <2>2, <3>1 DEF Fresh
    <3> QED BY <3>1, <3>2
  <2> QED BY <1>3, <2>1, <2>2
<1> QED BY <1>4, ChecksType DEF Fresh

LEMMA FreshStep ==
  ASSUME TypeOK, Progress, Fresh, [Next]_vars PROVE Fresh'
<1>0. at \in 1 .. Len(Checks) + 1 /\ attempt \in 1 .. MaxAttempts /\ Len(Checks) \in Nat
      /\ DOMAIN Checks = 1 .. Len(Checks)
  BY ChecksType DEF TypeOK
<1>1. CASE Tick
  <2>1. ASSUME NEW i \in 1 .. Len(Checks), NEW h \in healed'[Checks[i]]
        PROVE  h[1] # 0
    <3> DEFINE s == Checks[i]
    <3>1. s \in Services
      BY ChecksType
    <3> HIDE DEF s
    <3>2. healed[s] \in SUBSET Heal /\ healed'[s] = Older(healed[s], Horizon)
      BY <1>1, <3>1 DEF Tick, TypeOK, Heal
    <3>3. PICK e \in healed[s] : h = <<e[1] + 1, e[2], e[3]>>
      BY <2>1, <3>2, OlderHeals DEF s
    <3> QED BY <3>2, <3>3 DEF Heal
  <2> QED BY <1>0, <2>1 DEF Fresh
<1>2. CASE Detect
  <2>1. /\ due /\ due' = due /\ pc = "idle" /\ pc' = "next" /\ attempt' = attempt
        /\ healed' = healed
    BY <1>2 DEF Detect, job, history
  <2>2. \A i \in DOMAIN Checks : \A h \in healed[Checks[i]] : h[1] = 0 => h[2] < attempt
    BY <2>1 DEF Fresh
  <2> QED BY <2>1, <2>2 DEF Fresh
<1>3. CASE PassOver \/ CheckCircuit \/ CheckCooldown \/ RecordRestart
  BY <1>0, <1>3, FreshStays DEF PassOver, CheckCircuit, CheckCooldown, RecordRestart,
     Advance, job, history, Progress
<1>4. CASE HealRecovers
  <2>1. CASE current = Host
    BY <1>4, <2>1 DEF HealRecovers, Killed, Fresh
  <2>2. CASE current # Host
    BY <1>0, <1>4, <2>2, HealsFresh DEF HealRecovers, job
  <2> QED BY <2>1, <2>2
<1>5. CASE HealFails
  BY <1>0, <1>5, HealsFresh DEF HealFails, job
<1>6. CASE HealSkips
  BY <1>0, <1>6, HealsFresh DEF HealSkips, Advance, job
<1>7. CASE HealerRaises
  BY <1>0, <1>7, HealsFresh DEF HealerRaises, Progress, Busy, job
<1>8. CASE CountFailure \/ OpenCircuit \/ CountSuccess
  BY <1>0, <1>8, FreshStays DEF CountFailure, OpenCircuit, CountSuccess, Advance, job,
     Progress
<1>9. CASE Verify
  BY <1>0, <1>9, FreshStays DEF Verify, job, history, Progress
<1>10. CASE FinishRun \/ Crash
  BY <1>10 DEF FinishRun, Crash, Killed, Fresh
<1>11. CASE RunRaises
  <2>1. CASE attempt < MaxAttempts
    <3>1. /\ due /\ attempt' = attempt + 1 /\ healed' = healed
      BY <1>11, <2>1 DEF RunRaises, Progress, history
    <3>2. \A i \in DOMAIN Checks : \A h \in healed[Checks[i]] :
            h[1] = 0 => h[2] < attempt \/ h[2] = attempt
      BY <3>1 DEF Fresh
    <3>3. \A i \in DOMAIN Checks : \A h \in healed[Checks[i]] : h[2] \in Nat
      BY ChecksType DEF TypeOK
    <3>4. \A i \in DOMAIN Checks : \A h \in healed[Checks[i]] :
            h[1] = 0 => h[2] < attempt + 1
      BY <1>0, <3>2, <3>3
    <3> QED BY <3>1, <3>4 DEF Fresh
  <2>2. CASE ~(attempt < MaxAttempts)
    BY <1>11, <2>2 DEF RunRaises, Fresh
  <2> QED BY <2>1, <2>2
<1>12. CASE UNCHANGED vars \/ \E s \in Services : Degrade(s) \/ Recover(s)
  BY <1>12 DEF vars, Degrade, Recover, run, job, history, Fresh
<1> QED
  BY <1>1, <1>2, <1>3, <1>4, <1>5, <1>6, <1>7, <1>8, <1>9, <1>10, <1>11, <1>12
     DEF Next, RunStep
-----------------------------------------------------------------------------
(***************************************************************************)
(* What silence means.                                                     *)
(***************************************************************************)
Silence == Verified /\ Reported /\ SilenceMeansHealthy

\* A step of a run that heals nothing gives a result only to the service at hand.
LEMMA ReportedStays ==
  ASSUME TypeOK, Reported, pc # "idle", tried' = tried, dropped' = dropped,
         at' \in Nat, at \in Nat,
         \/ at' > at
         \/ at' = at /\ (pc' \in {"outcome", "open"} \/ pc \notin {"outcome", "open"}),
         \A s \in tried : results[s] \in {"RECOVERED", "FAILED"}
                            => results'[s] \in {"RECOVERED", "FAILED"}
  PROVE  Reported'
<1>1. \A i \in DOMAIN Checks : i \in Nat
  BY ChecksType
<1>2. ASSUME NEW i \in DOMAIN Checks, Checks[i] \in tried
      PROVE  i < at' \/ (i = at' /\ pc' \in {"outcome", "open"})
  <2>1. i < at \/ (i = at /\ pc \in {"outcome", "open"})
    BY <1>2 DEF Reported
  <2> QED BY <1>1, <2>1
<1> QED BY <1>2 DEF Reported

\* Healing the service at hand adds it to what the run has tried.
LEMMA ReportedGrows ==
  ASSUME TypeOK, Reported, pc = "heal", at <= Len(Checks),
         tried' = tried \cup {current}, at' = at, pc' = "outcome", dropped' = dropped,
         NEW outcome \in {"RECOVERED", "FAILED"},
         results' = [results EXCEPT ![current] = outcome]
  PROVE  Reported'
<1>1. /\ \A i \in DOMAIN Checks : i \in Nat /\ (Checks[i] = current => i = at)
      /\ at \in Nat /\ current \in Services
  BY ChecksType DEF TypeOK, current
<1>2. ASSUME NEW i \in DOMAIN Checks, Checks[i] \in tried'
      PROVE  i < at' \/ (i = at' /\ pc' \in {"outcome", "open"})
  <2>1. CASE Checks[i] \in tried
    BY <1>1, <2>1 DEF Reported
  <2>2. CASE Checks[i] = current
    BY <1>1, <2>2
  <2> QED BY <1>2, <2>1, <2>2
<1>3. \A s \in tried' : dropped' \/ results'[s] \in {"RECOVERED", "FAILED"}
  BY <1>1 DEF Reported, TypeOK
<1> QED BY <1>2, <1>3 DEF Reported

LEMMA ReportedStep ==
  ASSUME TypeOK, Progress, Reported, [Next]_vars PROVE Reported'
<1>0. /\ at \in Nat /\ Len(Checks) \in Nat /\ tried \subseteq Services
      /\ results \in [Services -> Results] /\ DOMAIN Checks = 1 .. Len(Checks)
  BY ChecksType DEF TypeOK, Results
<1>1. pc \in Busy => at <= Len(Checks)
  BY DEF Progress
<1>2. at <= Len(Checks) /\ pc # "idle" /\ pc \notin {"outcome", "open"}
        => current \notin tried
  <2> SUFFICES ASSUME at <= Len(Checks), pc # "idle", pc \notin {"outcome", "open"},
                      current \in tried
               PROVE  FALSE
    OBVIOUS
  <2>1. at \in DOMAIN Checks
    BY <1>0 DEF TypeOK
  <2> QED BY <1>0, <2>1 DEF Reported, current
<1>3. CASE Detect
  BY <1>3 DEF Detect, Reported
<1>4. CASE PassOver \/ CheckCircuit \/ CheckCooldown \/ RecordRestart \/ HealSkips
  <2>1. /\ pc # "idle" /\ pc \notin {"outcome", "open"} /\ at <= Len(Checks)
        /\ tried' = tried /\ dropped' = dropped
    BY <1>1, <1>4 DEF PassOver, CheckCircuit, CheckCooldown, RecordRestart, HealSkips,
       report, Busy
  <2>2. /\ at' = at + 1 \/ at' = at
        /\ \A s \in tried : results'[s] = results[s]
    BY <1>0, <1>2, <1>4, <2>1 DEF PassOver, CheckCircuit, CheckCooldown, RecordRestart,
       HealSkips, Advance
  <2> QED BY <1>0, <2>1, <2>2, ReportedStays
<1>5. CASE HealRecovers
  <2>1. CASE current = Host
    BY <1>5, <2>1 DEF HealRecovers, Killed, Reported
  <2>2. CASE current # Host
    BY <1>1, <1>5, <2>2, ReportedGrows DEF HealRecovers, Busy
  <2> QED BY <2>1, <2>2
<1>6. CASE HealFails
  BY <1>1, <1>6, ReportedGrows DEF HealFails, Busy
<1>7. CASE HealerRaises
  <2>1. /\ dropped' = TRUE /\ at' = Len(Checks) + 1
    BY <1>7 DEF HealerRaises
  <2>2. \A i \in DOMAIN Checks : i < at'
    BY <1>0, <2>1
  <2> QED BY <2>1, <2>2 DEF Reported
<1>8. CASE CountFailure \/ OpenCircuit \/ CountSuccess
  <2>1. /\ pc # "idle" /\ at <= Len(Checks) /\ tried' = tried /\ dropped' = dropped
    BY <1>1, <1>8 DEF CountFailure, OpenCircuit, CountSuccess, report, Busy
  <2>2. \/ at' = at + 1
        \/ at' = at /\ pc' = "open"
    BY <1>8 DEF CountFailure, OpenCircuit, CountSuccess, Advance
  <2>3. \A s \in tried : results[s] \in {"RECOVERED", "FAILED"}
                            => results'[s] \in {"RECOVERED", "FAILED"}
    BY <1>0, <1>8 DEF CountFailure, OpenCircuit, CountSuccess, Advance
  <2> QED BY <1>0, <2>1, <2>2, <2>3, ReportedStays
<1>9. CASE Verify
  <2>1. /\ pc = "next" /\ pc' = "notify" /\ at' = at /\ tried' = tried
        /\ dropped' = dropped /\ results' = Reconciled(seen')
    BY <1>9 DEF Verify, report
  <2>2. \A s \in tried : results[s] \in {"RECOVERED", "FAILED"}
                            => results'[s] \in {"RECOVERED", "FAILED"}
    BY <1>0, <2>1 DEF Reconciled
  <2> QED BY <1>0, <2>1, <2>2, ReportedStays
<1>10. CASE FinishRun \/ RunRaises \/ Crash
  BY <1>10 DEF FinishRun, RunRaises, Crash, Killed, Reported
<1>11. CASE Tick \/ UNCHANGED vars \/ \E s \in Services : Degrade(s) \/ Recover(s)
  BY <1>11 DEF Tick, Degrade, Recover, vars, run, report, Reported
<1> QED
  BY <1>3, <1>4, <1>5, <1>6, <1>7, <1>8, <1>9, <1>10, <1>11 DEF Next, RunStep

LEMMA SilenceStep ==
  ASSUME TypeOK, Progress, Silence, [Next]_vars PROVE Silence'
<1>0. Reported'
  BY ReportedStep DEF Silence
<1> SUFFICES Verified' /\ SilenceMeansHealthy'
  BY <1>0 DEF Silence
<1> USE DEF Silence, Verified, SilenceMeansHealthy
<1>1. CASE Verify
  <2>1. pc' = "notify" /\ results' = Reconciled(seen')
    BY <1>1 DEF Verify
  <2> QED BY <2>1 DEF Reconciled
<1>2. CASE FinishRun \/ RunRaises
  <2>1. /\ pc = "notify" /\ pc' = "idle" /\ seen' = seen /\ tried' = tried
        /\ dropped' = dropped
        /\ unsent' \/ alerted' = ToTell
    BY <1>2 DEF FinishRun, RunRaises, Notify
  <2>2. ASSUME NEW s \in tried \ alerted' PROVE seen[s] = "OK" \/ dropped \/ unsent'
    <3>1. s \in Services /\ (dropped \/ results[s] \in {"RECOVERED", "FAILED"})
      BY <2>1, <2>2 DEF Reported, TypeOK
    <3>2. results[s] = "FAILED" => s \in ToTell
      BY <3>1 DEF ToTell, ShouldNotify
    <3> QED BY <2>1, <2>2, <3>1, <3>2
  <2> QED BY <2>1, <2>2
<1>3. CASE Crash
  BY <1>3 DEF Crash, Killed
<1>4. CASE HealRecovers
  BY <1>4 DEF HealRecovers, Killed
<1>5. CASE UNCHANGED <<run, alerted, report>>
  BY <1>5 DEF run, report
<1>6. CASE pc' \in Busy \cup {"next"}
  BY <1>6 DEF Busy
<1>7. Tick \/ UNCHANGED vars \/ (\E s \in Services : Degrade(s) \/ Recover(s))
        => UNCHANGED <<run, alerted, report>>
  BY DEF Tick, Degrade, Recover, vars, run, report
<1>8. Detect \/ PassOver \/ CheckCircuit \/ CheckCooldown \/ RecordRestart
        => pc' \in Busy \cup {"next"}
  BY DEF Detect, PassOver, CheckCircuit, CheckCooldown, RecordRestart, Advance, Busy
<1>9. HealFails \/ HealSkips \/ HealerRaises \/ CountFailure \/ OpenCircuit \/ CountSuccess
        => pc' \in Busy \cup {"next"}
  BY DEF HealFails, HealSkips, HealerRaises, CountFailure, OpenCircuit, CountSuccess,
         Advance, Busy
<1> QED
  BY <1>1, <1>2, <1>3, <1>4, <1>5, <1>6, <1>7, <1>8, <1>9 DEF Next, RunStep
-----------------------------------------------------------------------------
LEMMA Invariance == Spec => []IInv
<1>1. IInv /\ [Next]_vars => IInv'
  BY TypeStep, ProgressStep, CountedStep, UniqueStep, FreshStep, SilenceStep
     DEF IInv, Silence
<1> QED BY InitHolds, <1>1, PTL DEF Spec

\* Every variable keeps its type.
THEOREM TypeCorrect == Spec => []TypeOK
<1>1. IInv => TypeOK
  BY DEF IInv
<1> QED BY <1>1, Invariance, PTL

\* While Redis has answered every call and lost nothing, no service is healed
\* more than MaxRestarts times within the window, whatever is retried or killed.
THEOREM NoRestartStorm == Spec => []RestartBudget
<1>1. IInv => RestartBudget
  <2> SUFFICES ASSUME IInv, ~lapse, NEW s \in Services
               PROVE  Cardinality({h \in healed[s] : h[1] < Window}) <= MaxRestarts
    BY DEF RestartBudget
  <2> DEFINE H == {h \in healed[s] : h[1] < Window}
             f == [h \in H |-> <<h[1], h[2]>>]
  <2>1. restarts[s] \in SUBSET Restart
    BY DEF IInv, TypeOK, Restart
  <2>2. IsFiniteSet(restarts[s]) /\ Cardinality(restarts[s]) <= MaxRestarts
        /\ Cardinality(restarts[s]) \in Nat
    BY <2>1, RestartsFinite, FS_CardinalityType DEF IInv, Counted
  <2>3. \A h \in H : <<h[1], h[2]>> \in restarts[s]
    BY DEF IInv, Counted
  <2>4. \A g, h \in H : <<g[1], g[2]>> = <<h[1], h[2]>> => g = h
    BY DEF IInv, Unique
  <2> HIDE DEF H
  <2>5. f \in Injection(H, restarts[s])
    BY <2>3, <2>4 DEF Injection, IsInjective
  <2> HIDE DEF f
  <2>6. IsFiniteSet(H) /\ Cardinality(H) <= Cardinality(restarts[s])
    BY <2>2, <2>5, FS_Injection
  <2>7. Cardinality(H) <= MaxRestarts
    BY <2>2, <2>6, FS_CardinalityType, Limits
  <2> QED BY <2>7 DEF H
<1> QED BY <1>1, Invariance, PTL

\* A completed run that healed a service has seen it healthy afterwards, or its
\* message of the service arrived, or a healer raised or the message was lost.
THEOREM SilenceIsGolden == Spec => []SilenceMeansHealthy
<1>1. IInv => SilenceMeansHealthy
  BY DEF IInv
<1> QED BY <1>1, Invariance, PTL
-----------------------------------------------------------------------------
(***************************************************************************)
(* The breaker.                                                            *)
(***************************************************************************)
LEMMA UnredeemedType ==
  ASSUME TypeOK, NEW s \in Services
  PROVE  /\ Unredeemed(s) \subseteq Heal /\ IsFiniteSet(Unredeemed(s))
         /\ IsFiniteSet(Told(s)) /\ Told(s) \subseteq Unredeemed(s)
         /\ Cardinality(Told(s)) \in Nat /\ Cardinality(Unredeemed(s)) \in Nat
<1>1. IsFiniteSet(Heal)
  <2>1. IsFiniteSet(0 .. Horizon - 1) /\ IsFiniteSet(1 .. MaxAttempts)
    BY FS_Interval, Limits
  <2>2. IsFiniteSet((0 .. Horizon - 1) \X (1 .. MaxAttempts))
    BY <2>1, FS_Product
  <2>3. IsFiniteSet(Outcomes)
    <3>1. IsFiniteSet({"RECOVERED"})
      BY FS_Singleton
    <3>2. IsFiniteSet({"RECOVERED"} \cup {"FAILED"})
      BY <3>1, FS_AddElement
    <3>3. IsFiniteSet(({"RECOVERED"} \cup {"FAILED"}) \cup {"SKIPPED"})
      BY <3>2, FS_AddElement
    <3>4. Outcomes = ({"RECOVERED"} \cup {"FAILED"}) \cup {"SKIPPED"}
      BY DEF Outcomes
    <3> QED BY <3>3, <3>4
  <2> DEFINE P == ((0 .. Horizon - 1) \X (1 .. MaxAttempts)) \X Outcomes
             f == [h \in Heal |-> <<<<h[1], h[2]>>, h[3]>>]
  <2>4. IsFiniteSet(P)
    BY <2>2, <2>3, FS_Product
  <2>5. \A h \in Heal : <<<<h[1], h[2]>>, h[3]>> \in P
    BY DEF Heal
  <2>6. \A g, h \in Heal :
          <<<<g[1], g[2]>>, g[3]>> = <<<<h[1], h[2]>>, h[3]>> => g = h
    BY DEF Heal
  <2> HIDE DEF P
  <2>7. f \in Injection(Heal, P)
    BY <2>5, <2>6 DEF Injection, IsInjective
  <2> HIDE DEF f
  <2> QED BY <2>4, <2>7, FS_Injection
<1>2. Unredeemed(s) \subseteq Heal /\ Told(s) \subseteq Unredeemed(s)
  BY DEF TypeOK, Unredeemed, Told, Heal
<1>3. IsFiniteSet(Unredeemed(s)) /\ IsFiniteSet(Told(s))
  BY <1>1, <1>2, FS_Subset
<1> QED BY <1>2, <1>3, FS_CardinalityType

\* Redis misses nothing more, and no failure is lost, once it has happened.
LEMMA NoneLost ==
  ASSUME [Next]_vars, ~lapse', ~uncounted' PROVE ~lapse /\ ~uncounted
<1>1. CASE Tick
  BY <1>1 DEF Tick, history
<1>2. CASE Detect
  BY <1>2 DEF Detect, history
<1>3. CASE PassOver
  BY <1>3 DEF PassOver, history
<1>4. CASE CheckCircuit
  BY <1>4 DEF CheckCircuit, history
<1>5. CASE CheckCooldown
  BY <1>5 DEF CheckCooldown, history
<1>6. CASE RecordRestart
  BY <1>6 DEF RecordRestart, history
<1>7. CASE HealFails
  BY <1>7 DEF HealFails, history
<1>8. CASE HealSkips
  BY <1>8 DEF HealSkips, history
<1>9. CASE HealerRaises
  BY <1>9 DEF HealerRaises, history
<1>10. CASE CountFailure
  BY <1>10 DEF CountFailure, history
<1>11. CASE OpenCircuit
  BY <1>11 DEF OpenCircuit, history
<1>12. CASE CountSuccess
  BY <1>12 DEF CountSuccess, history
<1>13. CASE Verify
  BY <1>13 DEF Verify, history
<1>14. CASE FinishRun
  BY <1>14 DEF FinishRun, history
<1>15. CASE RunRaises
  BY <1>15 DEF RunRaises, history
<1>16. CASE Crash
  BY <1>16 DEF Crash, history
<1>17. CASE HealRecovers
  BY <1>17 DEF HealRecovers, StoreRestarts
<1>18. ASSUME NEW s \in Services, Degrade(s) PROVE ~lapse /\ ~uncounted
  BY <1>18 DEF Degrade, history
<1>19. ASSUME NEW s \in Services, Recover(s) PROVE ~lapse /\ ~uncounted
  BY <1>19 DEF Recover, StoreRestarts
<1>20. CASE UNCHANGED vars
  BY <1>20 DEF vars, history
<1> QED
  BY <1>1, <1>2, <1>3, <1>4, <1>5, <1>6, <1>7, <1>8, <1>9, <1>10, <1>11, <1>12, <1>13,
     <1>14, <1>15, <1>16, <1>17, <1>18, <1>19, <1>20 DEF Next, RunStep

\* Fewer failures, with the breaker as it was.
LEMMA SettledShrinks ==
  ASSUME TypeOK, TypeOK', NEW s \in Services, Settled(s), ~Opening(s),
         Told(s)' \subseteq Told(s),
         failures'[s] = failures[s], failures_ttl'[s] = failures_ttl[s],
         open_ttl'[s] = open_ttl[s]
  PROVE  Settled(s)'
<1>1. /\ Cardinality(Told(s)) \in Nat /\ Cardinality(Told(s)') \in Nat
      /\ Cardinality(Told(s)') <= Cardinality(Told(s))
  BY UnredeemedType, FS_Subset, FS_CardinalityType
<1>2. Cardinality(Told(s)') <= MaxConsecutive
  BY <1>1, Limits DEF Settled
<1>3. \/ failures'[s] < MaxConsecutive /\ Cardinality(Told(s)') <= failures'[s]
      \/ open_ttl'[s] > 0 \/ Told(s)' = {}
  <2>1. failures[s] \in Nat
    BY Limits DEF TypeOK
  <2>2. CASE failures[s] < MaxConsecutive /\ Cardinality(Told(s)) <= failures[s]
    BY <1>1, <2>1, <2>2
  <2>3. CASE open_ttl[s] > 0 \/ Told(s) = {}
    BY <2>3
  <2> QED BY <2>2, <2>3 DEF Settled
<1> QED BY <1>2, <1>3 DEF Settled

\* A step that heals nothing and tells the breaker nothing about s.
LEMMA SettledStays ==
  ASSUME NEW s \in Services, Settled(s), healed' = healed,
         failures'[s] = failures[s], failures_ttl'[s] = failures_ttl[s],
         open_ttl'[s] = open_ttl[s],
         ~Pending(s), ~Opening(s), ~Pending(s)', ~Opening(s)'
  PROVE  Settled(s)'
<1>1. Unredeemed(s)' = Unredeemed(s)
  BY DEF Unredeemed
<1>2. Told(s)' = Told(s)
  BY <1>1 DEF Told
<1> QED BY <1>2 DEF Settled

LEMMA SettledTicks ==
  ASSUME TypeOK, TypeOK', Progress, Progress', Tick, NEW s \in Services, Settled(s)
  PROVE  Settled(s)'
<1>1. pc = "idle" /\ pc' = "idle"
  BY DEF Tick, Progress, run
<1>2. Told(s) = Unredeemed(s) /\ Told(s)' = Unredeemed(s)' /\ ~Opening(s)
  BY <1>1 DEF Told, Pending, Opening
<1>3. healed[s] \in SUBSET Heal /\ healed'[s] = Older(healed[s], Horizon)
  BY DEF Tick, TypeOK, Heal
<1>4. \A h \in Unredeemed(s)' : \E e \in Unredeemed(s) :
        /\ h = <<e[1] + 1, e[2], e[3]>> /\ h[1] = e[1] + 1 /\ e[1] \in Nat
        /\ e[1] + 1 < OpenTTL /\ e = <<h[1] - 1, h[2], h[3]>>
  <2> SUFFICES ASSUME NEW h \in Unredeemed(s)'
               PROVE  \E e \in Unredeemed(s) :
                        /\ h = <<e[1] + 1, e[2], e[3]>> /\ h[1] = e[1] + 1
                        /\ e[1] \in Nat /\ e[1] + 1 < OpenTTL
                        /\ e = <<h[1] - 1, h[2], h[3]>>
    OBVIOUS
  <2>1. h \in healed'[s] /\ h[1] < OpenTTL /\ h[3] = "FAILED"
        /\ ~\E g \in healed'[s] : g[3] = "RECOVERED" /\ Later(g, h)
    BY DEF Unredeemed
  <2>2. PICK e \in healed[s] : h = <<e[1] + 1, e[2], e[3]>>
    BY <1>3, <2>1, OlderHeals
  <2>3. /\ e[1] \in Nat /\ e[2] \in Nat /\ h[1] = e[1] + 1 /\ h[2] = e[2]
        /\ h[3] = e[3] /\ e = <<h[1] - 1, h[2], h[3]>>
    BY <1>3, <2>2, Limits DEF Heal
  <2>4. ASSUME NEW g \in healed[s], g[3] = "RECOVERED", Later(g, e) PROVE FALSE
    <3>1. g[1] \in Nat /\ g[2] \in Nat /\ g[1] <= e[1]
      BY <1>3, <2>3, <2>4, Limits DEF Heal, Later
    <3>2. OpenTTL <= Horizon
      BY Limits DEF Horizon
    <3>3. g[1] + 1 < Horizon
      BY <2>1, <2>3, <3>1, <3>2, Limits
    <3> DEFINE d == <<g[1] + 1, g[2], g[3]>>
    <3>4. d[1] = g[1] + 1 /\ d[2] = g[2] /\ d[3] = g[3]
      OBVIOUS
    <3>5. d \in healed'[s]
      BY <1>3, <3>3, OlderHeals
    <3> HIDE DEF d
    <3>6. Later(d, h)
      BY <2>3, <2>4, <3>1, <3>4 DEF Later
    <3> QED BY <2>1, <2>4, <3>4, <3>5, <3>6
  <2>5. e[1] + 1 < OpenTTL /\ e[1] < OpenTTL
    BY <2>1, <2>3, Limits
  <2>6. e \in Unredeemed(s)
    BY <2>1, <2>3, <2>4, <2>5 DEF Unredeemed
  <2> QED BY <2>2, <2>3, <2>5, <2>6
<1>5. /\ Cardinality(Told(s)) \in Nat /\ Cardinality(Told(s)') \in Nat
      /\ Cardinality(Told(s)') <= Cardinality(Told(s))
  <2> DEFINE f == [h \in Unredeemed(s)' |-> <<h[1] - 1, h[2], h[3]>>]
  <2>1. \A h \in Unredeemed(s)' : <<h[1] - 1, h[2], h[3]>> \in Unredeemed(s)
    BY <1>4
  <2>2. \A g, h \in Unredeemed(s)' :
          <<g[1] - 1, g[2], g[3]>> = <<h[1] - 1, h[2], h[3]>> => g = h
    <3> SUFFICES ASSUME NEW g \in Unredeemed(s)', NEW h \in Unredeemed(s)',
                        <<g[1] - 1, g[2], g[3]>> = <<h[1] - 1, h[2], h[3]>>
                 PROVE  g = h
      OBVIOUS
    <3>1. PICK d \in Unredeemed(s) : g = <<d[1] + 1, d[2], d[3]>>
                                     /\ d = <<g[1] - 1, g[2], g[3]>>
      BY <1>4
    <3>2. PICK e \in Unredeemed(s) : h = <<e[1] + 1, e[2], e[3]>>
                                     /\ e = <<h[1] - 1, h[2], h[3]>>
      BY <1>4
    <3> QED BY <3>1, <3>2
  <2>3. f \in Injection(Unredeemed(s)', Unredeemed(s))
    BY <2>1, <2>2 DEF Injection, IsInjective
  <2> HIDE DEF f
  <2>4. IsFiniteSet(Unredeemed(s))
    BY UnredeemedType
  <2>5. /\ IsFiniteSet(Unredeemed(s)')
        /\ Cardinality(Unredeemed(s)') <= Cardinality(Unredeemed(s))
    BY <2>3, <2>4, FS_Injection
  <2> QED BY <1>2, <2>4, <2>5, FS_CardinalityType
<1>6. /\ open_ttl'[s] = IF open_ttl[s] = 0 THEN 0 ELSE open_ttl[s] - 1
      /\ failures_ttl'[s] = IF failures_ttl[s] = 0 THEN 0 ELSE failures_ttl[s] - 1
      /\ failures'[s] = IF failures_ttl[s] <= 1 THEN 0 ELSE failures[s]
      /\ open_ttl[s] \in Nat /\ failures_ttl[s] \in Nat /\ failures[s] \in Nat
  BY Limits DEF Tick, TickDown, TypeOK
<1>7. Cardinality(Told(s)') <= MaxConsecutive
  BY <1>5, Limits DEF Settled
<1>8. ASSUME NEW h \in Told(s)'
      PROVE  /\ open_ttl'[s] > 0 => h[1] + open_ttl'[s] >= OpenTTL
             /\ h[1] + failures_ttl'[s] >= 2 * OpenTTL
             /\ failures_ttl[s] > 1
             /\ open_ttl[s] > 0 => open_ttl'[s] > 0
  <2>1. PICK e \in Told(s) : h[1] = e[1] + 1 /\ e[1] \in Nat /\ e[1] + 1 < OpenTTL
    BY <1>2, <1>4, <1>8
  <2>2. /\ open_ttl[s] > 0 => e[1] + open_ttl[s] >= OpenTTL
        /\ e[1] + failures_ttl[s] >= 2 * OpenTTL
    BY DEF Settled
  <2> QED BY <1>6, <2>1, <2>2, Limits
<1>9. \/ failures'[s] < MaxConsecutive /\ Cardinality(Told(s)') <= failures'[s]
      \/ open_ttl'[s] > 0 \/ Told(s)' = {}
  <2> SUFFICES ASSUME NEW h \in Told(s)'
               PROVE  \/ failures'[s] < MaxConsecutive
                         /\ Cardinality(Told(s)') <= failures'[s]
                      \/ open_ttl'[s] > 0
    OBVIOUS
  <2>1. failures_ttl[s] > 1 /\ (open_ttl[s] > 0 => open_ttl'[s] > 0)
    BY <1>8
  <2>2. failures'[s] = failures[s]
    BY <1>6, <2>1
  <2>3. Told(s) # {}
    BY <1>2, <1>4
  <2> QED BY <1>2, <1>5, <1>6, <2>1, <2>2, <2>3, Limits DEF Settled
<1> QED BY <1>7, <1>8, <1>9 DEF Settled

\* A heal of s itself: it was not open, and the failure waits to be told.
LEMMA HealsSettle ==
  ASSUME TypeOK, TypeOK', Progress, Fresh, pc = "heal", NEW outcome \in Outcomes,
         Healed(outcome),
         UNCHANGED <<failures, failures_ttl, open_ttl>>,
         NEW s \in Services, Settled(s), ~Opening(s)',
         outcome = "FAILED" /\ s = current => Pending(s)' /\ attempt' = attempt,
         s # current => ~Pending(s)'
  PROVE  Settled(s)'
<1>1. ~Pending(s) /\ ~Opening(s) /\ current \in Services
  BY CurrentType DEF Pending, Opening, Progress, Busy
<1> DEFINE new == <<0, attempt, outcome>>
<1>2. new[3] = outcome
  OBVIOUS
<1>3. /\ s # current => healed'[s] = healed[s]
      /\ s = current => healed'[s] = healed[s] \cup {new}
  BY <1>1 DEF Healed, TypeOK
<1> HIDE DEF new
<1>4. Unredeemed(s)' \subseteq Unredeemed(s)
        \cup (IF s = current /\ outcome = "FAILED" THEN {new} ELSE {})
  BY <1>2, <1>3 DEF Unredeemed
<1>5. Told(s)' \subseteq Told(s)
  <2>1. CASE s = current /\ outcome = "FAILED"
    <3>1. Told(s)' = Unredeemed(s)' \ {new}
      BY <2>1 DEF Told, new
    <3> QED BY <1>1, <1>4, <2>1, <3>1 DEF Told
  <2>2. CASE ~(s = current /\ outcome = "FAILED")
    BY <1>1, <1>4, <2>2 DEF Told
  <2> QED BY <2>1, <2>2
<1> QED BY <1>1, <1>5, SettledShrinks

\* A recovery redeems every failure before it.
LEMMA RecoveryRedeems ==
  ASSUME TypeOK, Progress, Fresh, pc = "heal", Healed("RECOVERED")
  PROVE  /\ {h \in healed'[current] :
               /\ h[1] < OpenTTL /\ h[3] = "FAILED"
               /\ ~\E g \in healed'[current] : g[3] = "RECOVERED" /\ Later(g, h)} = {}
<1> DEFINE new == <<0, attempt, "RECOVERED">>
<1>1. new[1] = 0 /\ new[2] = attempt /\ new[3] = "RECOVERED"
  OBVIOUS
<1>2. current \in Services /\ at \in DOMAIN Checks /\ at \in Nat /\ due
  BY CurrentType, ChecksType DEF Progress, Busy
<1>3. healed'[current] = healed[current] \cup {new} /\ healed[current] \in SUBSET Heal
  BY <1>2 DEF Healed, TypeOK, Heal
<1> HIDE DEF new
<1>4. ASSUME NEW h \in healed[current] PROVE Later(new, h)
  <2>1. h[1] \in Nat /\ h[2] \in Nat /\ attempt \in Nat
    BY <1>3, Limits DEF Heal, TypeOK
  <2>2. h[1] = 0 => h[2] < attempt
    BY <1>2 DEF Fresh, current
  <2> QED BY <1>1, <2>1, <2>2 DEF Later
<1> QED BY <1>1, <1>3, <1>4

\* The failure at hand is counted.
LEMMA CountSettles ==
  ASSUME TypeOK, TypeOK', Progress, CountFailure, ~lapse', Settled(current),
         open_ttl[current] = 0
  PROVE  LET s == current IN
         /\ Cardinality(Unredeemed(s)) <= MaxConsecutive
         /\ \/ failures'[s] < MaxConsecutive
               /\ Cardinality(Unredeemed(s)) <= failures'[s]
            \/ pc' = "open" /\ at' = at
         /\ failures_ttl'[s] = 2 * OpenTTL
         /\ pc' # "outcome"
<1> DEFINE s == current
           new == <<0, attempt, "FAILED">>
<1>0. s \in Services
  BY CurrentType DEF CountFailure, Progress, Busy
<1>1. /\ Answers /\ Pending(s) /\ ~Opening(s)
      /\ failures'[s] = NextFailures(s) /\ failures_ttl'[s] = 2 * OpenTTL
      /\ pc' # "outcome"
      /\ NextFailures(s) = MaxConsecutive => pc' = "open" /\ at' = at
  BY <1>0 DEF CountFailure, Pending, Opening, TypeOK, Advance
<1>2. failures[s] \in Nat /\ failures[s] <= MaxConsecutive
  BY <1>0, Limits DEF TypeOK
<1> HIDE DEF s
<1>3. Unredeemed(s) \subseteq Told(s) \cup {new}
  BY <1>1 DEF Told
<1>4. /\ Cardinality(Unredeemed(s)) <= Cardinality(Told(s)) + 1
      /\ Cardinality(Unredeemed(s)) \in Nat /\ Cardinality(Told(s)) \in Nat
  <2>1. IsFiniteSet(Told(s)) /\ IsFiniteSet(Unredeemed(s)) /\ Cardinality(Told(s)) \in Nat
        /\ Cardinality(Unredeemed(s)) \in Nat
    BY <1>0, UnredeemedType
  <2> HIDE DEF new
  <2>2. /\ IsFiniteSet(Told(s) \cup {new})
        /\ Cardinality(Told(s) \cup {new}) = IF new \in Told(s) THEN Cardinality(Told(s))
                                             ELSE Cardinality(Told(s)) + 1
    BY <2>1, FS_AddElement
  <2>3. Cardinality(Unredeemed(s)) <= Cardinality(Told(s) \cup {new})
    BY <1>3, <2>2, FS_Subset
  <2> QED BY <2>1, <2>2, <2>3
<1>5. \/ failures[s] < MaxConsecutive /\ Cardinality(Told(s)) <= failures[s]
      \/ Cardinality(Told(s)) = 0
  BY <1>1, <1>2, Limits, FS_EmptySet DEF Settled, s
<1>6. /\ Cardinality(Unredeemed(s)) <= NextFailures(s)
      /\ NextFailures(s) <= MaxConsecutive /\ NextFailures(s) \in Nat
  BY <1>2, <1>4, <1>5, Limits DEF NextFailures
<1>7. /\ Cardinality(Unredeemed(s)) <= MaxConsecutive
      /\ NextFailures(s) # MaxConsecutive => NextFailures(s) < MaxConsecutive
  BY <1>4, <1>6, Limits
<1> QED BY <1>1, <1>6, <1>7 DEF s

\* Nothing of what Settled is about changes.
LEMMA SettledSame ==
  ASSUME NEW s \in Services, Settled(s),
         UNCHANGED <<pc, at, results, attempt, healed, failures, failures_ttl, open_ttl>>
  PROVE  Settled(s)'
<1>1. Unredeemed(s)' = Unredeemed(s) /\ Pending(s)' = Pending(s)
      /\ Opening(s)' = Opening(s)
  BY DEF Unredeemed, Pending, Opening, current
<1>2. Told(s)' = Told(s)
  BY <1>1 DEF Told
<1> QED BY <1>1, <1>2 DEF Settled

LEMMA SettledStep ==
  ASSUME BInv, TypeOK', Progress', [Next]_vars, ~lapse', ~uncounted', NEW s \in Services
  PROVE  Settled(s)'
<1>0. /\ ~lapse /\ ~uncounted /\ Settled(s) /\ TypeOK /\ Progress /\ Fresh
      /\ pc \in Busy => open_ttl[current] = 0
  BY NoneLost DEF BInv, IInv, Breaker
<1>1. CASE Tick
  BY <1>0, <1>1, SettledTicks
<1>2. CASE Detect \/ PassOver \/ Verify \/ FinishRun \/ RunRaises
  BY <1>0, <1>2, SettledStays DEF Detect, PassOver, Verify, FinishRun, RunRaises,
     Advance, Pending, Opening, redis, history
<1>3. CASE CheckCircuit \/ CheckCooldown \/ RecordRestart
  BY <1>0, <1>3, SettledStays DEF CheckCircuit, CheckCooldown, RecordRestart,
     Advance, Pending, Opening, redis
<1>4. CASE HealRecovers
  <2>1. UNCHANGED <<failures, failures_ttl, open_ttl>> /\ pc = "heal"
        /\ Healed("RECOVERED")
    BY <1>0, <1>4 DEF HealRecovers, StoreRestarts, redis
  <2>2. ~Opening(s)' /\ ~Pending(s)'
    <3>1. CASE current = Host
      BY <1>4, <3>1 DEF HealRecovers, Killed, Opening, Pending
    <3>2. CASE current # Host
      <4>1. pc' = "outcome" /\ at' = at
            /\ results' = [results EXCEPT ![current] = "RECOVERED"]
        BY <1>4, <3>2 DEF HealRecovers
      <4>2. current \in Services /\ results \in [Services -> Results]
        BY <1>0, <2>1, CurrentType DEF Progress, Busy, TypeOK, Results
      <4> QED BY <4>1, <4>2 DEF Opening, Pending, current
    <3> QED BY <3>1, <3>2
  <2>3. "RECOVERED" \in Outcomes
    BY DEF Outcomes
  <2> QED BY <1>0, <2>1, <2>2, <2>3, HealsSettle
<1>5. CASE HealFails
  <2>1. /\ pc = "heal" /\ pc' = "outcome" /\ at' = at /\ attempt' = attempt
        /\ UNCHANGED <<failures, failures_ttl, open_ttl>> /\ Healed("FAILED")
        /\ results' = [results EXCEPT ![current] = "FAILED"]
    BY <1>5 DEF HealFails, redis, job
  <2>2. current \in Services /\ results \in [Services -> Results]
    BY <1>0, <2>1, CurrentType DEF Progress, Busy, TypeOK, Results
  <2>3. (s = current => Pending(s)') /\ (s # current => ~Pending(s)') /\ ~Opening(s)'
    BY <2>1, <2>2 DEF Pending, Opening, current
  <2>4. "FAILED" \in Outcomes
    BY DEF Outcomes
  <2> QED BY <1>0, <2>1, <2>3, <2>4, HealsSettle
<1>6. CASE HealSkips
  <2>1. /\ pc = "heal" /\ pc' = "next" /\ "SKIPPED" \in Outcomes /\ Healed("SKIPPED")
        /\ UNCHANGED <<failures, failures_ttl, open_ttl>>
    BY <1>6 DEF HealSkips, Advance, redis, Outcomes
  <2>2. ~Pending(s)' /\ ~Opening(s)'
    BY <2>1 DEF Pending, Opening
  <2> QED BY <1>0, <2>1, <2>2, HealsSettle
<1>7. CASE HealerRaises
  BY <1>7 DEF HealerRaises
<1>8. CASE CountFailure
  <2>1. CASE s = current
    <3>1. open_ttl[s] = 0 /\ open_ttl' = open_ttl /\ healed' = healed
      BY <1>0, <1>8, <2>1 DEF CountFailure, Busy
    <3>2. /\ Cardinality(Unredeemed(s)) <= MaxConsecutive
          /\ \/ failures'[s] < MaxConsecutive
                /\ Cardinality(Unredeemed(s)) <= failures'[s]
             \/ pc' = "open" /\ at' = at
          /\ failures_ttl'[s] = 2 * OpenTTL
          /\ pc' # "outcome"
      BY <1>0, <1>8, <2>1, <3>1, CountSettles
    <3>3. Told(s)' = Unredeemed(s)
      BY <3>1, <3>2 DEF Told, Pending, Unredeemed
    <3>4. \A h \in Unredeemed(s) : h[1] \in Nat
      BY <1>0, UnredeemedType DEF Heal
    <3>5. \/ failures'[s] < MaxConsecutive
             /\ Cardinality(Unredeemed(s)) <= failures'[s]
          \/ Opening(s)'
      BY <2>1, <3>2 DEF Opening, current
    <3>6. \A h \in Unredeemed(s) : h[1] + failures_ttl'[s] >= 2 * OpenTTL
      BY <3>2, <3>4, Limits
    <3> QED BY <3>1, <3>2, <3>3, <3>5, <3>6 DEF Settled
  <2>2. CASE s # current
    <3>1. ~Pending(s) /\ ~Opening(s) /\ ~Pending(s)' /\ ~Opening(s)'
      BY <1>8, <2>2 DEF CountFailure, Advance, Pending, Opening, current
    <3>2. /\ failures'[s] = failures[s] /\ failures_ttl'[s] = failures_ttl[s]
          /\ open_ttl'[s] = open_ttl[s] /\ healed' = healed
      BY <1>0, <1>8, <2>2 DEF CountFailure, TypeOK
    <3> QED BY <1>0, <3>1, <3>2, SettledStays
  <2> QED BY <2>1, <2>2
<1>9. CASE OpenCircuit
  <2>1. /\ pc = "open" /\ pc' = "next" /\ healed' = healed /\ failures' = failures
        /\ failures_ttl' = failures_ttl
        /\ open_ttl' = [open_ttl EXCEPT ![current] = OpenTTL]
    BY <1>9 DEF OpenCircuit, Advance
  <2>2. Told(s) = Unredeemed(s) /\ Told(s)' = Unredeemed(s)
    BY <2>1 DEF Told, Pending, Unredeemed
  <2>3. CASE s = current
    <3>1. open_ttl'[s] = OpenTTL
      BY <1>0, <2>1, <2>3 DEF TypeOK
    <3>2. \A h \in Unredeemed(s) : h[1] \in Nat
      BY <1>0, UnredeemedType DEF Heal
    <3>3. OpenTTL > 0 /\ \A h \in Unredeemed(s) : h[1] + OpenTTL >= OpenTTL
      BY <3>2, Limits
    <3> QED BY <1>0, <2>1, <2>2, <3>1, <3>3 DEF Settled
  <2>4. CASE s # current
    <3>1. ~Pending(s) /\ ~Opening(s) /\ ~Pending(s)' /\ ~Opening(s)'
      BY <2>1, <2>4 DEF Pending, Opening
    <3>2. open_ttl'[s] = open_ttl[s]
      BY <1>0, <2>1, <2>4 DEF TypeOK
    <3> QED BY <1>0, <2>1, <3>1, <3>2, SettledStays
  <2> QED BY <2>3, <2>4
<1>10. CASE CountSuccess
  <2>1. /\ Answers /\ pc = "outcome" /\ pc' = "next" /\ healed' = healed
        /\ results[current] = "RECOVERED"
        /\ failures' = [failures EXCEPT ![current] = 0]
        /\ failures_ttl' = [failures_ttl EXCEPT ![current] = 0]
        /\ open_ttl' = [open_ttl EXCEPT ![current] = 0]
    BY <1>10 DEF CountSuccess, Advance
  <2>2. CASE s = current
    <3>1. Told(s)' = {}
      BY <2>1, <2>2 DEF Told, Pending, Unredeemed, BInv, Redeemed
    <3> QED BY <3>1, FS_EmptySet, Limits DEF Settled
  <2>3. CASE s # current
    <3>1. ~Pending(s) /\ ~Opening(s) /\ ~Pending(s)' /\ ~Opening(s)'
      BY <2>1, <2>3 DEF Pending, Opening
    <3>2. /\ failures'[s] = failures[s] /\ failures_ttl'[s] = failures_ttl[s]
          /\ open_ttl'[s] = open_ttl[s]
      BY <1>0, <2>1, <2>3 DEF TypeOK
    <3> QED BY <1>0, <2>1, <3>1, <3>2, SettledStays
  <2> QED BY <2>2, <2>3
<1>11. CASE Crash
  <2>1. pc \notin {"outcome", "open"} /\ pc' = "idle" /\ UNCHANGED <<redis, healed>>
    BY <1>11 DEF Crash, Killed
  <2>2. ~Pending(s) /\ ~Opening(s) /\ ~Pending(s)' /\ ~Opening(s)'
    BY <2>1 DEF Pending, Opening
  <2> QED BY <1>0, <2>1, <2>2, SettledStays DEF redis
<1>12. ASSUME NEW q \in Services, Degrade(q) PROVE Settled(s)'
  BY <1>0, <1>12, SettledSame DEF Degrade, redis, run, job, history
<1>13. ASSUME NEW q \in Services, Recover(q) PROVE Settled(s)'
  <2>1. UNCHANGED redis
    BY <1>13 DEF Recover, StoreRestarts
  <2> QED BY <1>0, <1>13, <2>1, SettledSame DEF Recover, redis, run, job
<1>14. CASE UNCHANGED vars
  BY <1>0, <1>14, SettledSame DEF vars, redis, run, job, history
<1> QED
  BY <1>1, <1>2, <1>3, <1>4, <1>5, <1>6, <1>7, <1>8, <1>9, <1>10, <1>11, <1>12, <1>13,
     <1>14 DEF Next, RunStep

\* A service under treatment has a closed circuit.
LEMMA ClosedStep ==
  ASSUME BInv, [Next]_vars, ~lapse', ~uncounted', pc' \in Busy
  PROVE  open_ttl'[current'] = 0
<1>0. ~lapse /\ TypeOK /\ (pc \in Busy => open_ttl[current] = 0)
  BY NoneLost DEF BInv, IInv, Breaker
<1>1. CASE CheckCircuit
  <2>1. Answers /\ pc' = "cooldown" /\ at' = at /\ open_ttl' = open_ttl
        /\ ~(open_ttl[current] > 0) /\ at <= Len(Checks)
    BY <1>1 DEF CheckCircuit, Advance, Busy, redis
  <2>2. open_ttl[current] \in Nat
    BY <1>0, <2>1, CurrentType, Limits DEF TypeOK
  <2>3. open_ttl[current] = 0
    BY <2>1, <2>2
  <2> QED BY <2>1, <2>3 DEF current
<1>2. CASE CheckCooldown \/ RecordRestart \/ CountFailure
  BY <1>0, <1>2 DEF CheckCooldown, RecordRestart, CountFailure, Advance, Busy, redis,
     current
<1>3. CASE HealRecovers
  <2>1. open_ttl' = open_ttl
    BY <1>3 DEF HealRecovers, StoreRestarts, redis
  <2>2. pc = "heal" /\ at' = at
    BY <1>3 DEF HealRecovers, Killed, Busy
  <2> QED BY <1>0, <2>1, <2>2 DEF Busy, current
<1>4. CASE HealFails
  BY <1>0, <1>4 DEF HealFails, Busy, redis, current
<1>5. CASE Tick \/ UNCHANGED vars \/ \E s \in Services : Degrade(s) \/ Recover(s)
  <2>1. pc' = pc /\ at' = at
    BY <1>5 DEF Tick, vars, run, Degrade, Recover
  <2>2. ~Tick
    BY <2>1 DEF Tick, BInv, IInv, Progress, Busy
  <2>3. open_ttl' = open_ttl
    BY <1>5, <2>2 DEF vars, redis, Degrade, Recover, StoreRestarts
  <2> QED BY <1>0, <2>1, <2>3 DEF current
<1>6. Detect \/ PassOver \/ HealSkips \/ HealerRaises \/ OpenCircuit \/ CountSuccess
        => pc' = "next"
  BY DEF Detect, PassOver, HealSkips, HealerRaises, OpenCircuit, CountSuccess, Advance
<1>7. Verify \/ FinishRun \/ RunRaises \/ Crash => pc' \in {"notify", "idle"}
  BY DEF Verify, FinishRun, RunRaises, Crash, Killed
<1> QED BY <1>1, <1>2, <1>3, <1>4, <1>5, <1>6, <1>7 DEF Next, RunStep, Busy

LEMMA RedeemedStep ==
  ASSUME BInv, [Next]_vars PROVE Redeemed'
<1>0. TypeOK /\ Progress /\ Fresh /\ Redeemed
  BY DEF BInv, IInv
<1>1. CASE HealRecovers
  <2>1. CASE current = Host
    BY <1>1, <2>1 DEF HealRecovers, Killed, Redeemed
  <2>2. CASE current # Host
    <3>1. pc = "heal" /\ at' = at /\ Healed("RECOVERED")
      BY <1>1, <2>2 DEF HealRecovers
    <3>2. Unredeemed(current)' = {}
      BY <1>0, <3>1, RecoveryRedeems DEF Unredeemed, current
    <3> QED BY <3>2 DEF Redeemed
  <2> QED BY <2>1, <2>2
<1>2. CASE HealFails
  <2>1. /\ pc = "heal" /\ at' = at
        /\ results' = [results EXCEPT ![current] = "FAILED"]
    BY <1>2 DEF HealFails
  <2>2. current \in Services /\ results \in [Services -> Results]
    BY <1>0, <2>1, CurrentType DEF Progress, Busy, TypeOK, Results
  <2>3. results'[current'] = "FAILED"
    BY <2>1, <2>2 DEF current
  <2> QED BY <2>3 DEF Redeemed
<1>3. CASE Tick
  BY <1>0, <1>3 DEF Tick, Progress, run, Redeemed
<1>4. CASE UNCHANGED vars \/ \E s \in Services : Degrade(s) \/ Recover(s)
  <2>1. UNCHANGED <<pc, at, results, healed>>
    BY <1>4 DEF vars, run, history, Degrade, Recover
  <2> QED BY <1>0, <2>1 DEF Redeemed, Unredeemed, current
<1>5. CASE pc' # "outcome"
  BY <1>5 DEF Redeemed
<1>6. Detect \/ PassOver \/ HealSkips \/ HealerRaises \/ OpenCircuit \/ CountSuccess
        => pc' = "next"
  BY DEF Detect, PassOver, HealSkips, HealerRaises, OpenCircuit, CountSuccess, Advance
<1>7. CheckCircuit \/ CheckCooldown \/ RecordRestart \/ CountFailure => pc' # "outcome"
  BY DEF CheckCircuit, CheckCooldown, RecordRestart, CountFailure, Advance
<1>8. Verify \/ FinishRun \/ RunRaises \/ Crash => pc' # "outcome"
  BY DEF Verify, FinishRun, RunRaises, Crash, Killed
<1> QED BY <1>1, <1>2, <1>3, <1>4, <1>5, <1>6, <1>7, <1>8 DEF Next, RunStep
-----------------------------------------------------------------------------
LEMMA BreakerInvariance == Spec => []BInv
<1>1. Init => BInv
  <2> SUFFICES ASSUME Init PROVE Breaker /\ Redeemed
    BY InitHolds DEF BInv
  <2>1. \A s \in Services : Unredeemed(s) = {}
    BY DEF Init, Unredeemed
  <2>2. \A s \in Services : Told(s) = {}
    BY <2>1 DEF Told
  <2>3. \A s \in Services : Settled(s)
    BY <2>2, FS_EmptySet, Limits DEF Settled
  <2> QED BY <2>3 DEF Init, Breaker, Redeemed, Busy
<1>2. BInv /\ IInv' /\ [Next]_vars => BInv'
  <2> SUFFICES ASSUME BInv, IInv', [Next]_vars PROVE Breaker' /\ Redeemed'
    BY DEF BInv
  <2>1. TypeOK' /\ Progress'
    BY DEF IInv
  <2>2. ~lapse' /\ ~uncounted' => \A s \in Services : Settled(s)'
    BY <2>1, SettledStep
  <2>3. ~lapse' /\ ~uncounted' => (pc' \in Busy => open_ttl'[current'] = 0)
    BY ClosedStep
  <2> QED BY <2>2, <2>3, RedeemedStep DEF Breaker
<1> QED BY <1>1, <1>2, Invariance, PTL DEF Spec

\* While Redis has answered every call and every failure reached the breaker, no
\* service fails more than MaxConsecutive heals in a row within OpenTTL.
THEOREM BreakerHolds == Spec => []FailureBudget
<1>1. BInv => FailureBudget
  <2> SUFFICES ASSUME BInv, ~lapse, ~uncounted, NEW s \in Services
               PROVE  Cardinality(Unredeemed(s)) <= MaxConsecutive
    BY DEF FailureBudget
  <2>1. Settled(s) /\ TypeOK /\ (pc \in Busy => open_ttl[current] = 0)
    BY DEF BInv, Breaker, IInv
  <2>2. CASE Pending(s)
    <3> DEFINE new == <<0, attempt, "FAILED">>
    <3>1. open_ttl[s] = 0 /\ ~Opening(s)
      BY <2>1, <2>2 DEF Pending, Opening, Busy
    <3>2. Unredeemed(s) \subseteq Told(s) \cup {new}
      BY <2>2 DEF Told
    <3> HIDE DEF new
    <3>3. /\ IsFiniteSet(Told(s)) /\ Cardinality(Told(s)) \in Nat
          /\ Cardinality(Unredeemed(s)) \in Nat
      BY <2>1, UnredeemedType
    <3>4. Cardinality(Unredeemed(s)) <= Cardinality(Told(s)) + 1
      <4>1. /\ IsFiniteSet(Told(s) \cup {new})
            /\ Cardinality(Told(s) \cup {new}) =
                 IF new \in Told(s) THEN Cardinality(Told(s))
                 ELSE Cardinality(Told(s)) + 1
        BY <3>3, FS_AddElement
      <4>2. Cardinality(Unredeemed(s)) <= Cardinality(Told(s) \cup {new})
        BY <3>2, <4>1, FS_Subset
      <4> QED BY <3>3, <4>1, <4>2
    <3>5. failures[s] \in Nat
      BY <2>1, Limits DEF TypeOK
    <3>6. Cardinality(Told(s)) < MaxConsecutive
      BY <2>1, <3>1, <3>3, <3>5, FS_EmptySet, Limits DEF Settled
    <3> QED BY <3>3, <3>4, <3>6, Limits
  <2>3. CASE ~Pending(s)
    BY <2>1, <2>3 DEF Settled, Told
  <2> QED BY <2>2, <2>3
<1> QED BY <1>1, BreakerInvariance, PTL
=============================================================================
