--------------------------- MODULE IncidentHistory ---------------------------
(***************************************************************************)
(* The incident history: app/incident_history/service.py.  aggregate makes *)
(* history rows of the events an agent has processed, record_manual adds   *)
(* one by hand, and both count the rows of an alert into its pattern.      *)
(*                                                                         *)
(* Each call is one transaction at READ COMMITTED, each statement a step.  *)
(* An update of a pattern row, and an insert under its unique alert_id,    *)
(* wait for an open transaction that has written it.  A failed flush       *)
(* leaves the session unusable: the exceptions caught alert by alert come  *)
(* back at the commit, and the whole call is rolled back.                  *)
(***************************************************************************)
EXTENDS Naturals, FiniteSets

CONSTANTS
  Event,          \* rows of incident_events
  Alert,          \* alert_id labels
  AlertOf,
  None,
  Aggregator,     \* the scheduled job, the endpoint that runs it by hand
  Scheduled,         \* the job
  Agent,          \* requests that record an incident by hand
  MaxCalls,       \* bound: calls by hand
  MaxFaults       \* bound: failures other than conflicts and deadlocks

Writer == Aggregator \cup Agent

ASSUME EventAssumption ==
  IsFiniteSet(Event) /\ AlertOf \in [Event -> Alert] /\ None \notin Alert \cup Event
ASSUME WriterAssumption ==
  IsFiniteSet(Aggregator) /\ IsFiniteSet(Agent) /\ Scheduled \subseteq Aggregator
  /\ Aggregator \cap Agent = {}
ASSUME BoundAssumption == MaxCalls \in Nat /\ MaxFaults \in Nat

VARIABLES
  processed,   \* incident_events with processed = True
  derived,     \* incident_history: rows an aggregation made of an event
  linked,      \* events with a row recorded by hand
  recorded,    \* incident_history: the rows of an alert
  total,       \* incident_patterns.total_occurrences, 0 when there is no row
  writer,
  calls, faults

rows == <<derived, linked, recorded>>
vars == <<processed, rows, total, writer, calls, faults>>
-----------------------------------------------------------------------------
\* known: events with a history row; own: events of the rows added; link, by:
\* event and alert of a row added by hand; todo: alerts still to count; wrote:
\* patterns written; alone: history, no other task was open at the same time.
Task == [pc : {"idle", "load", "count", "look up", "write"}, known : SUBSET Event,
         own : SUBSET Event, link : Event \cup {None}, by : Alert \cup {None},
         todo : SUBSET Alert, at : Alert \cup {None}, count : Nat, seen : Nat,
         wrote : [Alert -> Nat], alone : BOOLEAN]
NoTask == [pc |-> "idle", known |-> {}, own |-> {}, link |-> None, by |-> None,
           todo |-> {}, at |-> None, count |-> 0, seen |-> 0,
           wrote |-> [a \in Alert |-> 0], alone |-> FALSE]

\* The rows of an alert that an open task has added.
OwnRows(t, a) == Cardinality({e \in t.own : AlertOf[e] = a})
                 + (IF t.by = a THEN 1 ELSE 0)

\* c has come to a pattern that d has written.
WaitsFor(c, d) ==
  c # d /\ writer[c].pc = "write" /\ writer[d].wrote[writer[c].at] > 0
Blocked(c) == \E d \in Writer : WaitsFor(c, d)

NotDetected(c) == FALSE         \* mutant
Deadlocked(c) ==
  \E ring \in SUBSET Writer :
    /\ c \in ring
    /\ \A d \in ring : (\E e \in ring : WaitsFor(d, e))
                       /\ (\E e \in ring : WaitsFor(e, d))
-----------------------------------------------------------------------------
Init ==
  /\ processed = {}
  /\ derived = [e \in Event |-> 0]
  /\ linked = {}
  /\ recorded = [a \in Alert |-> 0]
  /\ total = [a \in Alert |-> 0]
  /\ writer = [w \in Writer |-> NoTask]
  /\ calls = 0 /\ faults = 0

\* update_rca
MarkProcessed(e) ==
  /\ e \notin processed
  /\ processed' = processed \cup {e}
  /\ UNCHANGED <<rows, total, writer, calls, faults>>

\* w starts t; the open tasks learn that they are not alone.
Start(w, t) ==
  /\ writer[w].pc = "idle"
  /\ writer' = [v \in Writer |->
       IF v = w THEN [t EXCEPT !.alone = \A u \in Writer : writer[u].pc = "idle"]
       ELSE [writer[v] EXCEPT !.alone = FALSE]]

Call(w) == IF w \in Scheduled THEN UNCHANGED calls
           ELSE calls < MaxCalls /\ calls' = calls + 1

Known == linked \cup {e \in Event : derived[e] > 0}

\* aggregate: the events that have a history row,
LoadKnown(w) ==
  /\ w \in Aggregator
  /\ Call(w)
  /\ Start(w, [NoTask EXCEPT !.pc = "load", !.known = Known])
  /\ UNCHANGED <<processed, rows, total, faults>>

\* mutant: what has a row already is not left out
LoadAll(w) ==
  /\ writer[w].pc = "load"
  /\ writer' = [writer EXCEPT ![w].pc = "count", ![w].own = processed,
                              ![w].todo = {AlertOf[e] : e \in processed}]
  /\ UNCHANGED <<processed, rows, total, calls, faults>>

\* then the processed events without one, whose rows are added.
LoadProcessed(w) ==
  LET new == processed \ writer[w].known IN
  /\ writer[w].pc = "load"
  /\ writer' = [writer EXCEPT ![w].pc = "count", ![w].own = new,
                              ![w].todo = {AlertOf[e] : e \in new}]
  /\ UNCHANGED <<processed, rows, total, calls, faults>>

\* record_manual, of any alert or none, for any event or none: the caller says
\* both, and nothing compares them.
RecordManual(w, a, e) ==
  /\ w \in Agent
  /\ Call(w)
  /\ Start(w, [NoTask EXCEPT !.pc = "count", !.link = e, !.by = a,
                              !.todo = {a} \ {None}])
  /\ UNCHANGED <<processed, rows, total, faults>>

\* mutant: the rows added are counted on top of the last count
CountNew(w, a) ==
  /\ writer[w].pc = "count"
  /\ a \in writer[w].todo
  /\ writer' = [writer EXCEPT ![w].pc = "look up", ![w].at = a,
                              ![w].todo = writer[w].todo \ {a},
                              ![w].count = total[a] + OwnRows(writer[w], a)]
  /\ UNCHANGED <<processed, rows, total, calls, faults>>

\* _aggregate_pattern reads the rows of the alert, in any order of alerts,
CountRows(w, a) ==
  /\ writer[w].pc = "count"
  /\ a \in writer[w].todo
  /\ writer' = [writer EXCEPT ![w].pc = "look up", ![w].at = a,
                              ![w].todo = writer[w].todo \ {a},
                              ![w].count = recorded[a] + OwnRows(writer[w], a)]
  /\ UNCHANGED <<processed, rows, total, calls, faults>>

\* reads its pattern,
LookUp(w) ==
  /\ writer[w].pc = "look up"
  /\ writer' = [writer EXCEPT ![w].pc = "write", ![w].seen = total[writer[w].at]]
  /\ UNCHANGED <<processed, rows, total, calls, faults>>

\* and inserts or updates it; a column whose value has not changed since then is
\* not written.
WritePattern(w) ==
  LET t == writer[w] IN
  /\ t.pc = "write"
  /\ ~Blocked(w)
  /\ t.seen = 0 => total[t.at] = 0
  /\ writer' = [writer EXCEPT
       ![w].pc = "count",
       ![w].wrote = [t.wrote EXCEPT ![t.at] =
                       IF t.count = t.seen THEN total[t.at] ELSE t.count]]
  /\ UNCHANGED <<processed, rows, total, calls, faults>>

\* mutant: the patterns stay though the rows they count are rolled back
KeepsPatterns(w) ==
  /\ total' = [a \in Alert |-> IF writer[w].wrote[a] > 0 THEN writer[w].wrote[a]
                               ELSE total[a]]
  /\ writer' = [writer EXCEPT ![w] = NoTask]
  /\ UNCHANGED <<processed, rows, calls>>

RollBack(w) ==
  /\ writer' = [writer EXCEPT ![w] = NoTask]
  /\ UNCHANGED <<processed, rows, total, calls>>

Commit(w) ==
  LET t == writer[w] IN
  /\ t.pc = "count" /\ t.todo = {}
  /\ derived' = [e \in Event |-> derived[e] + (IF e \in t.own THEN 1 ELSE 0)]
  /\ linked' = linked \cup ({t.link} \ {None})
  /\ recorded' = [a \in Alert |-> recorded[a] + OwnRows(t, a)]
  /\ total' = [a \in Alert |-> IF t.wrote[a] > 0 THEN t.wrote[a] ELSE total[a]]
  /\ writer' = [writer EXCEPT ![w] = NoTask]
  /\ UNCHANGED <<processed, calls, faults>>

\* Another task has inserted the pattern since LookUp.
Conflict(w) ==
  /\ writer[w].pc = "write"
  /\ ~Blocked(w)
  /\ writer[w].seen = 0 /\ total[writer[w].at] > 0
  /\ RollBack(w) /\ UNCHANGED faults

DeadlockVictim(w) ==
  /\ Deadlocked(w)
  /\ RollBack(w) /\ UNCHANGED faults

\* The process dies, or a statement fails.
Fail(w) ==
  /\ writer[w].pc # "idle"
  /\ faults < MaxFaults
  /\ faults' = faults + 1
  /\ RollBack(w)

TaskStep(w) ==
  \/ LoadProcessed(w) \/ LookUp(w) \/ WritePattern(w) \/ Commit(w)
  \/ \E a \in Alert : CountRows(w, a)
  \/ Conflict(w) \/ DeadlockVictim(w)

Next ==
  \/ \E e \in Event : MarkProcessed(e)
  \/ \E w \in Writer :
       \/ LoadKnown(w)
       \/ \E a \in Alert \cup {None}, e \in Event \cup {None} : RecordManual(w, a, e)
       \/ TaskStep(w) \/ Fail(w)

Spec == Init /\ [][Next]_vars

\* The job starts every 75 minutes; a started task goes on, and the database hands a
\* row that is released to a task that waits for it.
FairSpec == /\ Spec
            /\ \A w \in Writer : SF_vars(TaskStep(w))
            /\ \A w \in Scheduled : WF_vars(LoadKnown(w))
-----------------------------------------------------------------------------
TypeOK ==
  /\ processed \subseteq Event
  /\ derived \in [Event -> Nat]
  /\ linked \subseteq Event
  /\ recorded \in [Alert -> Nat] /\ total \in [Alert -> Nat]
  /\ writer \in [Writer -> Task]
  /\ calls \in Nat /\ faults \in Nat

\* Nothing unique guards incident_event_id, so overlapping aggregations may give
\* an event several rows, but never more than one each: history grows by the
\* events, not by the runs (aggregate).
OneRowPerAggregator == \A e \in Event : derived[e] <= Cardinality(Aggregator)

\* An alert has a pattern just when it has history, and the pattern never counts
\* a row that is not there: what overlapping tasks lose, they lose downwards
\* (_aggregate_pattern).
PatternFollowsHistory ==
  \A a \in Alert : total[a] <= recorded[a] /\ (total[a] > 0 <=> recorded[a] > 0)

\* Lost counts do not stay lost: a task that overlaps no other leaves exact every
\* pattern it touches, whatever earlier ones left (_aggregate_pattern).
LoneTaskIsExact ==
  [][\A w \in Writer, a \in Alert :
       writer[w].alone /\ writer[w].wrote[a] > 0 /\ rows' # rows
         => total'[a] = recorded'[a]]_vars

\* A processed event gets its history row, though conflicts and deadlocks roll
\* whole aggregations back.
ProcessedIsRecorded ==
  \A e \in Event : e \in processed ~> derived[e] > 0 \/ e \in linked
=============================================================================
