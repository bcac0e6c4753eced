----------------------- MODULE IncidentHistoryProofs -----------------------
(***************************************************************************)
(* For any events, alerts and tasks: an event has at most one row per      *)
(* aggregator, a pattern never counts a row that is not there, and a task  *)
(* that overlaps no other leaves exact every pattern it touches, and no    *)
(* task waits for ever for tasks that cannot move.                         *)
(***************************************************************************)
EXTENDS IncidentHistory, FiniteSetTheorems, WellFoundedInduction, TLAPS

Counting == {"look up", "write"}

\* A task that has not come to its rows has none and has written no pattern.
Empty(t) ==
  t.pc \in {"idle", "load"} =>
    t.own = {} /\ t.by = None /\ \A a \in Alert : t.wrote[a] = 0

\* An alert whose rows t adds is still to count, being counted, or written.
Covered(t) ==
  \A a \in Alert : OwnRows(t, a) > 0 =>
    a \in t.todo \/ (t.pc \in Counting /\ a = t.at) \/ t.wrote[a] > 0

\* t counted rows that are there when it commits, its own ones among them.
Bounded(t) ==
  /\ \A a \in Alert : t.wrote[a] <= recorded[a] + OwnRows(t, a)
  /\ t.pc \in Counting =>
       /\ t.at \in Alert
       /\ OwnRows(t, t.at) <= t.count /\ t.count <= recorded[t.at] + OwnRows(t, t.at)
  /\ t.pc = "write" /\ t.seen > 0 => total[t.at] > 0

\* What a task that is alone has read is still so.
Exact(t) ==
  t.alone =>
    /\ \A a \in Alert : t.wrote[a] > 0 => t.wrote[a] = recorded[a] + OwnRows(t, a)
    /\ t.pc \in Counting => t.count = recorded[t.at] + OwnRows(t, t.at)
    /\ t.pc = "write" => t.seen = total[t.at]

TaskOK(t) == Empty(t) /\ Covered(t) /\ Bounded(t) /\ Exact(t)

\* The tasks that will add a row of event e, as far as they have read.
Adds(t, e) == (t.pc = "load" /\ e \notin t.known) \/ e \in t.own
Adders(e) == {w \in Aggregator : Adds(writer[w], e)}

Alone == \A v, w \in Writer : writer[v].alone /\ v # w => writer[w].pc = "idle"
AgentsAddNone == \A w \in Writer \ Aggregator : writer[w].pc # "load" /\ writer[w].own = {}

RowsOK == \A e \in Event : derived[e] + Cardinality(Adders(e)) <= Cardinality(Aggregator)

IInv ==
  /\ TypeOK
  /\ \A w \in Writer : TaskOK(writer[w])
  /\ Alone /\ AgentsAddNone /\ RowsOK
  /\ PatternFollowsHistory
-----------------------------------------------------------------------------
\* A number of rows is a number, positive only when there is one.
LEMMA OwnRowsType ==
  ASSUME NEW t \in Task, NEW a
  PROVE  /\ OwnRows(t, a) \in Nat
         /\ OwnRows(t, a) > 0 => t.by = a \/ \E e \in t.own : AlertOf[e] = a
<1> DEFINE S == {e \in t.own : AlertOf[e] = a}
<1>1. S \in SUBSET Event /\ IsFiniteSet(Event)
  BY EventAssumption DEF Task
<1>2. Cardinality(S) \in Nat
  BY <1>1, FS_Subset, FS_CardinalityType
<1>3. S = {} => Cardinality(S) = 0
  BY FS_EmptySet
<1> QED BY <1>2, <1>3 DEF OwnRows

\* The rows of a task depend on its events and its alert only.
LEMMA SameRows ==
  ASSUME NEW t, NEW u, t.own = u.own, t.by = u.by, NEW a
  PROVE  OwnRows(t, a) = OwnRows(u, a)
BY DEF OwnRows

\* A task that adds nothing.
LEMMA NoRows ==
  ASSUME NEW t, t.own = {}, t.by = None, NEW a \in Alert
  PROVE  OwnRows(t, a) = 0
<1>1. None # a /\ {e \in t.own : AlertOf[e] = a} = {}
  BY EventAssumption
<1> QED BY <1>1, FS_EmptySet DEF OwnRows

\* NoTask is a task that knows nothing.
LEMMA NoTaskOK ==
  ASSUME TypeOK
  PROVE  NoTask \in Task /\ TaskOK(NoTask) /\ ~NoTask.alone /\ NoTask.pc = "idle" /\ NoTask.own = {}
<1>1. NoTask \in Task /\ ~NoTask.alone /\ NoTask.pc = "idle" /\ NoTask.own = {}
      /\ NoTask.by = None /\ \A a \in Alert : NoTask.wrote[a] = 0
  BY DEF NoTask, Task
<1>2. \A a \in Alert : OwnRows(NoTask, a) = 0 /\ recorded[a] \in Nat
  BY <1>1, NoRows DEF TypeOK
<1> QED BY <1>1, <1>2 DEF TaskOK, Empty, Covered, Bounded, Exact, Counting

\* A task that learns that it is not alone.
LEMMA NotAloneOK ==
  ASSUME NEW t \in Task, TaskOK(t)
  PROVE  [t EXCEPT !.alone = FALSE] \in Task /\ TaskOK([t EXCEPT !.alone = FALSE])
<1> DEFINE u == [t EXCEPT !.alone = FALSE]
<1>1. /\ u \in Task /\ u.pc = t.pc /\ u.own = t.own /\ u.by = t.by /\ u.todo = t.todo
      /\ u.at = t.at /\ u.count = t.count /\ u.seen = t.seen /\ u.wrote = t.wrote
      /\ ~u.alone
  BY DEF Task
<1>2. \A a : OwnRows(u, a) = OwnRows(t, a)
  BY <1>1, SameRows
<1>3. TaskOK(u)
  <2> HIDE DEF u
  <2> QED BY <1>1, <1>2 DEF TaskOK, Empty, Covered, Bounded, Exact
<1> QED BY <1>1, <1>3

\* There are no more adders than aggregators.
LEMMA AddersAreFew ==
  ASSUME NEW S \in SUBSET Aggregator
  PROVE  /\ IsFiniteSet(S) /\ Cardinality(S) \in Nat /\ Cardinality(Aggregator) \in Nat
         /\ Cardinality(S) <= Cardinality(Aggregator)
<1>1. IsFiniteSet(Aggregator)
  BY WriterAssumption
<1>2. IsFiniteSet(S) /\ Cardinality(S) <= Cardinality(Aggregator)
  BY <1>1, FS_Subset
<1> QED BY <1>1, <1>2, FS_CardinalityType

\* Task w becomes t, and the tables stay: t is as good as w's task was, and
\* adds no more events, but for ones without rows.
LEMMA TaskChanges ==
  ASSUME IInv, UNCHANGED <<rows, total>>, processed' \subseteq Event,
         calls' \in Nat, faults' \in Nat,
         NEW w \in Writer, NEW t \in Task, TaskOK(t),
         writer' \in [Writer -> Task], writer'[w] = t,
         \A v \in Writer \ {w} :
           writer'[v] = writer[v] \/ writer'[v] = [writer[v] EXCEPT !.alone = FALSE],
         Alone',
         w \notin Aggregator => t.pc # "load" /\ t.own = {},
         \A e \in Event : Adds(t, e) => derived[e] = 0 \/ Adds(writer[w], e)
  PROVE  IInv'
<1>1. UNCHANGED <<derived, linked, recorded, total>>
  BY DEF rows
<1>2. TypeOK'
  BY <1>1 DEF IInv, TypeOK
<1>3. \A u : TaskOK(u)' <=> TaskOK(u)
  BY <1>1 DEF TaskOK, Empty, Covered, Bounded, Exact, OwnRows
<1>4. \A v \in Writer : writer[v] \in Task /\ TaskOK(writer[v])
  BY DEF IInv, TypeOK
<1>5. \A v \in Writer : TaskOK(writer'[v])
  BY <1>4, NotAloneOK
<1>6. \A v \in Writer : TaskOK(writer[v])'
  BY <1>3, <1>5
<1>7. ASSUME NEW v \in Writer \ {w}
      PROVE  /\ writer'[v].pc = writer[v].pc /\ writer'[v].own = writer[v].own
             /\ writer'[v].known = writer[v].known
  <2>1. writer[v] \in Task
    BY <1>4
  <2> QED BY <2>1 DEF Task
<1>8. AgentsAddNone'
  BY <1>7 DEF IInv, AgentsAddNone, Writer
<1>9. ASSUME NEW e \in Event
      PROVE  derived'[e] + Cardinality(Adders(e)') <= Cardinality(Aggregator)
  <2> DEFINE F == Adders(e)
             G == Adders(e)'
  <2>1. F \in SUBSET Aggregator /\ G \in SUBSET Aggregator /\ derived[e] \in Nat
        /\ derived'[e] = derived[e]
    BY <1>1 DEF Adders, IInv, TypeOK
  <2>2. /\ Cardinality(F) \in Nat /\ Cardinality(G) \in Nat /\ Cardinality(Aggregator) \in Nat
        /\ Cardinality(G) <= Cardinality(Aggregator) /\ IsFiniteSet(F)
    BY <2>1, AddersAreFew
  <2>3. CASE derived[e] = 0
    BY <2>1, <2>2, <2>3
  <2>4. CASE derived[e] # 0
    <3>1. \A v \in Aggregator : Adds(writer'[v], e) => Adds(writer[v], e)
      BY <1>7, <2>4 DEF Adds, Writer
    <3>2. G \subseteq F
      BY <3>1 DEF Adders, Adds
    <3>3. Cardinality(G) <= Cardinality(F)
      BY <2>2, <3>2, FS_Subset
    <3>4. derived[e] + Cardinality(F) <= Cardinality(Aggregator)
      BY DEF IInv, RowsOK
    <3> QED BY <2>1, <2>2, <3>3, <3>4
  <2> QED BY <2>3, <2>4
<1>10. PatternFollowsHistory'
  BY <1>1 DEF IInv, PatternFollowsHistory
<1> QED BY <1>2, <1>6, <1>8, <1>9, <1>10 DEF IInv, RowsOK

\* The same for a step that leaves every other task alone.
LEMMA OwnStep ==
  ASSUME IInv, UNCHANGED <<rows, total, processed>>, calls' \in Nat, faults' \in Nat,
         NEW w \in Writer, NEW t \in Task, TaskOK(t),
         writer' = [writer EXCEPT ![w] = t],
         t.alone => writer[w].alone, writer[w].pc = "idle" => t.pc = "idle",
         w \notin Aggregator => t.pc # "load" /\ t.own = {},
         \A e \in Event : Adds(t, e) => derived[e] = 0 \/ Adds(writer[w], e)
  PROVE  IInv'
<1>1. writer' \in [Writer -> Task] /\ \A v \in Writer : writer'[v] = IF v = w THEN t ELSE writer[v]
  BY DEF IInv, TypeOK
<1>2. Alone'
  BY <1>1 DEF IInv, Alone
<1>3. processed' \subseteq Event
  BY DEF IInv, TypeOK
<1>4. writer'[w] = t /\ \A v \in Writer \ {w} : writer'[v] = writer[v]
  BY <1>1
<1> QED BY <1>1, <1>2, <1>3, <1>4, TaskChanges

\* A task starts when its call comes; the open ones learn of it.
LEMMA StartStep ==
  ASSUME IInv, UNCHANGED <<rows, total, processed, faults>>, calls' \in Nat,
         NEW w \in Writer, NEW t \in Task, Start(w, t), TaskOK(t), ~t.alone,
         \A a \in Alert : t.wrote[a] = 0, t.pc \notin Counting,
         w \notin Aggregator => t.pc # "load" /\ t.own = {},
         \A e \in Event : Adds(t, e) => derived[e] = 0
  PROVE  IInv'
<1> DEFINE u == [t EXCEPT !.alone = \A v \in Writer : writer[v].pc = "idle"]
<1>1. /\ u \in Task /\ u.pc = t.pc /\ u.own = t.own /\ u.by = t.by /\ u.todo = t.todo
      /\ u.at = t.at /\ u.count = t.count /\ u.seen = t.seen /\ u.wrote = t.wrote
      /\ u.known = t.known
  BY DEF Task
<1>12. u.alone => \A v \in Writer : writer[v].pc = "idle"
  BY DEF Task
<1>2. TaskOK(u)
  <2>1. \A a : OwnRows(u, a) = OwnRows(t, a)
    BY <1>1, SameRows
  <2> HIDE DEF u
  <2>2. Exact(u)
    <3>1. u.pc \notin Counting /\ u.pc # "write"
      BY <1>1 DEF Counting
    <3>2. \A a \in Alert : u.wrote[a] = 0
      BY <1>1
    <3>3. \A a \in Alert : ~(u.wrote[a] > 0)
      BY <3>2
    <3> QED BY <3>1, <3>3 DEF Exact
  <2> QED BY <1>1, <2>1, <2>2 DEF TaskOK, Empty, Covered, Bounded
<1>3. \A v \in Writer : writer[v] \in Task
  BY DEF IInv, TypeOK
<1>4. /\ writer' = [v \in Writer |-> IF v = w THEN u ELSE [writer[v] EXCEPT !.alone = FALSE]]
  BY DEF Start
<1>5. \A v \in Writer \ {w} : writer'[v] = [writer[v] EXCEPT !.alone = FALSE]
  BY <1>4
<1>6. ASSUME NEW v \in Writer \ {w}
      PROVE  /\ writer'[v] \in Task /\ ~writer'[v].alone /\ writer'[v].pc = writer[v].pc
  <2>1. writer[v] \in Task
    BY <1>3
  <2>2. LET x == [writer[v] EXCEPT !.alone = FALSE]
        IN  x \in Task /\ ~x.alone /\ x.pc = writer[v].pc
    BY <2>1 DEF Task
  <2>3. writer'[v] = [writer[v] EXCEPT !.alone = FALSE]
    BY <1>5
  <2> QED BY <2>2, <2>3
<1> HIDE DEF u
<1>7. writer'[w] = u
  BY <1>4
<1>8. writer' \in [Writer -> Task]
  BY <1>1, <1>4, <1>6, <1>7
<1>9. Alone'
  BY <1>6, <1>7, <1>12 DEF Alone
<1>10. \A e \in Event : Adds(u, e) => derived[e] = 0 \/ Adds(writer[w], e)
  BY <1>1 DEF Adds
<1>11. processed' \subseteq Event /\ faults' \in Nat
  BY DEF IInv, TypeOK
<1> QED BY <1>1, <1>2, <1>5, <1>7, <1>8, <1>9, <1>10, <1>11, TaskChanges

\* An aggregation starts with the events that have a row.
LEMMA LoadKnownStep ==
  ASSUME IInv, NEW w \in Writer, LoadKnown(w)
  PROVE  IInv'
<1> DEFINE t == [NoTask EXCEPT !.pc = "load", !.known = Known]
<1>1. Known \subseteq Event /\ \A e \in Event : e \notin Known => derived[e] = 0
  BY DEF Known, IInv, TypeOK
<1>2. /\ t \in Task /\ t.pc = "load" /\ t.known = Known /\ t.own = {} /\ t.by = None
      /\ t.todo = {} /\ ~t.alone /\ \A a \in Alert : t.wrote[a] = 0
  BY <1>1 DEF NoTask, Task
<1>3. /\ UNCHANGED <<rows, total, processed, faults>> /\ calls' \in Nat /\ Start(w, t)
      /\ w \in Aggregator
  BY DEF LoadKnown, Call, IInv, TypeOK
<1> HIDE DEF t
<1>4. TaskOK(t)
  <2>1. \A a \in Alert : OwnRows(t, a) = 0 /\ recorded[a] \in Nat
    BY <1>2, NoRows DEF IInv, TypeOK
  <2> QED BY <1>2, <2>1 DEF TaskOK, Empty, Covered, Bounded, Exact, Counting
<1>5. \A e \in Event : Adds(t, e) => derived[e] = 0
  BY <1>1, <1>2 DEF Adds
<1> QED BY <1>2, <1>3, <1>4, <1>5, StartStep DEF Counting

\* A record by hand counts its alert.
LEMMA RecordManualStep ==
  ASSUME IInv, NEW w \in Writer, NEW a \in Alert \cup {None}, NEW e \in Event \cup {None},
         RecordManual(w, a, e)
  PROVE  IInv'
<1> DEFINE t == [NoTask EXCEPT !.pc = "count", !.link = e, !.by = a,
                           !.todo = {a} \ {None}]
<1>1. /\ t \in Task /\ t.pc = "count" /\ t.own = {} /\ t.by = a
      /\ t.todo = {a} \ {None} /\ ~t.alone /\ \A b \in Alert : t.wrote[b] = 0
  BY DEF NoTask, Task
<1>2. /\ UNCHANGED <<rows, total, processed, faults>> /\ calls' \in Nat /\ Start(w, t)
  BY DEF RecordManual, Call, IInv, TypeOK
<1> HIDE DEF t
<1>3. TaskOK(t)
  <2>1. \A b \in Alert : OwnRows(t, b) \in Nat /\ recorded[b] \in Nat
    BY <1>1, OwnRowsType DEF IInv, TypeOK
  <2>2. Covered(t)
    BY <1>1, OwnRowsType, EventAssumption DEF Covered
  <2> QED BY <1>1, <2>1, <2>2 DEF TaskOK, Empty, Bounded, Exact, Counting
<1>4. \A f \in Event : ~Adds(t, f)
  BY <1>1 DEF Adds
<1> QED BY <1>1, <1>2, <1>3, <1>4, StartStep DEF Counting

\* The events without a row become rows of the task, their alerts are to count.
LEMMA LoadProcessedStep ==
  ASSUME IInv, NEW w \in Writer, LoadProcessed(w)
  PROVE  IInv'
<1> DEFINE o == writer[w]
           new == processed \ o.known
           t == [o EXCEPT !.pc = "count", !.own = new, !.todo = {AlertOf[e] : e \in new}]
<1>1. /\ o \in Task /\ TaskOK(o) /\ o.pc = "load" /\ w \in Aggregator
      /\ processed \subseteq Event /\ writer \in [Writer -> Task]
  BY DEF IInv, TypeOK, LoadProcessed, AgentsAddNone
<1>2. new \subseteq Event /\ {AlertOf[e] : e \in new} \subseteq Alert
  BY <1>1, EventAssumption
<1>3. /\ t \in Task /\ t.pc = "count" /\ t.own = new /\ t.todo = {AlertOf[e] : e \in new}
      /\ t.by = o.by /\ t.wrote = o.wrote /\ t.alone = o.alone /\ t.known = o.known
  BY <1>1, <1>2 DEF Task
<1>4. /\ writer' = [writer EXCEPT ![w] = t] /\ UNCHANGED <<rows, total, processed>>
      /\ calls' \in Nat /\ faults' \in Nat
  BY <1>1 DEF LoadProcessed, IInv, TypeOK
<1> HIDE DEF t
<1>5. TaskOK(t)
  <2>1. o.by = None /\ \A a \in Alert : t.wrote[a] = 0 /\ a # None
    BY <1>1, <1>3, EventAssumption DEF TaskOK, Empty
  <2>2. \A b \in Alert : OwnRows(t, b) \in Nat /\ recorded[b] \in Nat
    BY <1>3, OwnRowsType DEF IInv, TypeOK
  <2>3. Covered(t)
    BY <1>3, <2>1, OwnRowsType DEF Covered
  <2> QED BY <1>3, <2>1, <2>2, <2>3 DEF TaskOK, Empty, Bounded, Exact, Counting
<1>6. \A e \in Event : Adds(t, e) => Adds(o, e)
  BY <1>1, <1>3 DEF Adds
<1> QED BY <1>1, <1>3, <1>4, <1>5, <1>6, OwnStep

\* The rows of an alert are counted.
LEMMA CountRowsStep ==
  ASSUME IInv, NEW w \in Writer, NEW a \in Alert, CountRows(w, a)
  PROVE  IInv'
<1> DEFINE o == writer[w]
           n == recorded[a] + OwnRows(o, a)
           t == [o EXCEPT !.pc = "look up", !.at = a, !.todo = o.todo \ {a}, !.count = n]
<1>1. o \in Task /\ TaskOK(o) /\ o.pc = "count" /\ writer \in [Writer -> Task]
  BY DEF IInv, TypeOK, CountRows
<1>2. \A b \in Alert : OwnRows(o, b) \in Nat /\ recorded[b] \in Nat
  BY <1>1, OwnRowsType DEF IInv, TypeOK
<1>3. n \in Nat
  BY <1>2
<1>4. /\ t \in Task /\ t.pc = "look up" /\ t.at = a /\ t.todo = o.todo \ {a} /\ t.count = n
      /\ t.own = o.own /\ t.by = o.by /\ t.wrote = o.wrote /\ t.alone = o.alone
  BY <1>1, <1>3 DEF Task
<1>5. /\ writer' = [writer EXCEPT ![w] = t] /\ UNCHANGED <<rows, total, processed>>
      /\ calls' \in Nat /\ faults' \in Nat
  BY <1>1 DEF CountRows, IInv, TypeOK
<1> HIDE DEF t
<1>6. TaskOK(t)
  <2>1. \A b : OwnRows(t, b) = OwnRows(o, b)
    BY <1>4, SameRows
  <2>2. Covered(t)
    BY <1>1, <1>4, <2>1 DEF TaskOK, Covered, Counting
  <2>3. Bounded(t)
    <3>1. \A b \in Alert : t.wrote[b] <= recorded[b] + OwnRows(t, b)
      BY <1>1, <1>4, <2>1 DEF TaskOK, Bounded
    <3>2. OwnRows(t, a) = OwnRows(o, a) /\ t.count = recorded[a] + OwnRows(o, a)
      BY <1>4, <2>1
    <3>3. OwnRows(o, a) \in Nat /\ recorded[a] \in Nat
      BY <1>2
    <3>4. OwnRows(t, a) <= t.count /\ t.count <= recorded[a] + OwnRows(t, a)
      BY <3>2, <3>3
    <3> QED BY <1>4, <3>1, <3>4 DEF Bounded
  <2>4. Exact(t)
    BY <1>1, <1>4, <2>1 DEF TaskOK, Exact, Counting
  <2> QED BY <1>4, <2>2, <2>3, <2>4 DEF TaskOK, Empty
<1>7. \A e \in Event : Adds(t, e) => Adds(o, e)
  BY <1>4 DEF Adds
<1>8. w \notin Aggregator => t.own = {}
  BY <1>4 DEF IInv, AgentsAddNone
<1> QED BY <1>1, <1>4, <1>5, <1>6, <1>7, <1>8, OwnStep

\* The pattern of the alert is looked up.
LEMMA LookUpStep ==
  ASSUME IInv, NEW w \in Writer, LookUp(w)
  PROVE  IInv'
<1> DEFINE o == writer[w]
           t == [o EXCEPT !.pc = "write", !.seen = total[o.at]]
<1>1. o \in Task /\ TaskOK(o) /\ o.pc = "look up" /\ writer \in [Writer -> Task]
  BY DEF IInv, TypeOK, LookUp
<1>2. o.at \in Alert /\ total[o.at] \in Nat
  BY <1>1 DEF TaskOK, Bounded, Counting, IInv, TypeOK
<1>3. /\ t \in Task /\ t.pc = "write" /\ t.seen = total[o.at] /\ t.at = o.at
      /\ t.todo = o.todo /\ t.count = o.count
      /\ t.own = o.own /\ t.by = o.by /\ t.wrote = o.wrote /\ t.alone = o.alone
  BY <1>1, <1>2 DEF Task
<1>4. /\ writer' = [writer EXCEPT ![w] = t] /\ UNCHANGED <<rows, total, processed>>
      /\ calls' \in Nat /\ faults' \in Nat
  BY <1>1 DEF LookUp, IInv, TypeOK
<1> HIDE DEF t
<1>5. TaskOK(t)
  <2>1. \A b : OwnRows(t, b) = OwnRows(o, b)
    BY <1>3, SameRows
  <2>2. Covered(t)
    BY <1>1, <1>3, <2>1 DEF TaskOK, Covered, Counting
  <2>3. Bounded(t)
    BY <1>1, <1>2, <1>3, <2>1 DEF TaskOK, Bounded, Counting
  <2>4. Exact(t)
    <3>1. o.alone => /\ \A b \in Alert : t.wrote[b] > 0 =>
                         t.wrote[b] = recorded[b] + OwnRows(t, b)
                     /\ t.count = recorded[t.at] + OwnRows(t, t.at)
      <4>1. Exact(o)
        BY <1>1 DEF TaskOK
      <4>2. o.alone => /\ \A b \in Alert : o.wrote[b] > 0 =>
                           o.wrote[b] = recorded[b] + OwnRows(o, b)
                       /\ o.count = recorded[o.at] + OwnRows(o, o.at)
        BY <1>1, <4>1 DEF Exact, Counting
      <4> QED BY <1>3, <2>1, <4>2
    <3>2. t.seen = total[t.at] /\ t.alone = o.alone
      BY <1>3
    <3> QED BY <3>1, <3>2 DEF Exact
  <2> QED BY <1>3, <2>2, <2>3, <2>4 DEF TaskOK, Empty
<1>6. \A e \in Event : Adds(t, e) => Adds(o, e)
  BY <1>3 DEF Adds
<1>7. w \notin Aggregator => t.own = {}
  BY <1>3 DEF IInv, AgentsAddNone
<1> QED BY <1>1, <1>3, <1>4, <1>5, <1>6, <1>7, OwnStep

\* The pattern is written, unless it says so already: then it is there.
LEMMA WritePatternStep ==
  ASSUME IInv, NEW w \in Writer, WritePattern(w)
  PROVE  IInv'
<1> DEFINE o == writer[w]
           n == IF o.count = o.seen THEN total[o.at] ELSE o.count
           t == [o EXCEPT !.pc = "count", !.wrote = [o.wrote EXCEPT ![o.at] = n]]
<1>1. o \in Task /\ TaskOK(o) /\ o.pc = "write" /\ writer \in [Writer -> Task]
  BY DEF IInv, TypeOK, WritePattern
<1>2. \A b \in Alert : /\ OwnRows(o, b) \in Nat /\ recorded[b] \in Nat /\ total[b] \in Nat
                       /\ total[b] <= recorded[b]
  BY <1>1, OwnRowsType DEF IInv, TypeOK, PatternFollowsHistory
<1>3. /\ o.at \in Alert /\ o.count \in Nat /\ o.seen \in Nat /\ o.wrote \in [Alert -> Nat]
      /\ OwnRows(o, o.at) <= o.count /\ o.count <= recorded[o.at] + OwnRows(o, o.at)
      /\ o.seen > 0 => total[o.at] > 0
  BY <1>1 DEF TaskOK, Bounded, Counting, Task
<1>4. n \in Nat /\ n <= recorded[o.at] + OwnRows(o, o.at)
  BY <1>2, <1>3
<1>5. OwnRows(o, o.at) > 0 => n > 0
  BY <1>2, <1>3
<1>6. o.alone => n = recorded[o.at] + OwnRows(o, o.at)
  BY <1>1, <1>3 DEF TaskOK, Exact, Counting
<1> HIDE DEF n
<1>7. /\ t \in Task /\ t.pc = "count" /\ t.todo = o.todo
      /\ t.own = o.own /\ t.by = o.by /\ t.alone = o.alone
      /\ \A b \in Alert : t.wrote[b] = IF b = o.at THEN n ELSE o.wrote[b]
  BY <1>1, <1>3, <1>4 DEF Task
<1>8. /\ writer' = [writer EXCEPT ![w] = t] /\ UNCHANGED <<rows, total, processed>>
      /\ calls' \in Nat /\ faults' \in Nat
  BY <1>1 DEF n, WritePattern, IInv, TypeOK
<1> HIDE DEF t
<1>9. TaskOK(t)
  <2>1. \A b : OwnRows(t, b) = OwnRows(o, b)
    BY <1>7, SameRows
  <2>2. Covered(t)
    BY <1>1, <1>5, <1>7, <2>1 DEF TaskOK, Covered
  <2>3. Bounded(t)
    BY <1>1, <1>4, <1>7, <2>1 DEF TaskOK, Bounded, Counting
  <2>4. Exact(t)
    BY <1>1, <1>6, <1>7, <2>1 DEF TaskOK, Exact, Counting
  <2> QED BY <1>7, <2>2, <2>3, <2>4 DEF TaskOK, Empty
<1>10. \A e \in Event : Adds(t, e) => Adds(o, e)
  BY <1>7 DEF Adds
<1>11. w \notin Aggregator => t.own = {}
  BY <1>7 DEF IInv, AgentsAddNone
<1> QED BY <1>1, <1>7, <1>8, <1>9, <1>10, <1>11, OwnStep

\* A task that is rolled back leaves nothing.
LEMMA RollBackStep ==
  ASSUME IInv, NEW w \in Writer, Conflict(w) \/ DeadlockVictim(w) \/ Fail(w)
  PROVE  IInv'
<1>1. /\ writer' = [writer EXCEPT ![w] = NoTask] /\ UNCHANGED <<rows, total, processed>>
      /\ calls' \in Nat /\ faults' \in Nat
  BY DEF Conflict, DeadlockVictim, Fail, RollBack, IInv, TypeOK
<1>2. NoTask \in Task /\ TaskOK(NoTask) /\ ~NoTask.alone /\ NoTask.pc = "idle" /\ NoTask.own = {}
  BY NoTaskOK DEF IInv
<1>3. \A e \in Event : ~Adds(NoTask, e)
  BY <1>2 DEF Adds
<1> QED BY <1>1, <1>2, <1>3, OwnStep

\* A commit adds the rows of a task and the patterns it wrote, which count them.
LEMMA CommitStep ==
  ASSUME IInv, NEW w \in Writer, Commit(w)
  PROVE  IInv'
<1> DEFINE t == writer[w]
<1>1. /\ t \in Task /\ TaskOK(t) /\ t.pc = "count" /\ t.todo = {}
      /\ writer \in [Writer -> Task] /\ t.wrote \in [Alert -> Nat]
  BY DEF IInv, TypeOK, Commit, Task
<1>2. /\ derived' = [e \in Event |-> derived[e] + (IF e \in t.own THEN 1 ELSE 0)]
      /\ recorded' = [a \in Alert |-> recorded[a] + OwnRows(t, a)]
      /\ total' = [a \in Alert |-> IF t.wrote[a] > 0 THEN t.wrote[a] ELSE total[a]]
      /\ linked' = linked \cup ({t.link} \ {None})
      /\ writer' = [writer EXCEPT ![w] = NoTask]
      /\ UNCHANGED <<processed, calls, faults>>
  BY DEF Commit
<1>3. ASSUME NEW a \in Alert
      PROVE  /\ recorded[a] \in Nat /\ OwnRows(t, a) \in Nat /\ total[a] \in Nat
             /\ t.wrote[a] \in Nat
             /\ recorded'[a] = recorded[a] + OwnRows(t, a)
             /\ total'[a] = IF t.wrote[a] > 0 THEN t.wrote[a] ELSE total[a]
             /\ t.wrote[a] <= recorded[a] + OwnRows(t, a)
             /\ OwnRows(t, a) > 0 => t.wrote[a] > 0
             /\ total[a] <= recorded[a] /\ (total[a] > 0 <=> recorded[a] > 0)
  <2>1. recorded[a] \in Nat /\ total[a] \in Nat /\ OwnRows(t, a) \in Nat /\ t.wrote[a] \in Nat
    BY <1>1, OwnRowsType DEF IInv, TypeOK
  <2>2. recorded'[a] = recorded[a] + OwnRows(t, a)
    BY <1>2
  <2>3. total'[a] = IF t.wrote[a] > 0 THEN t.wrote[a] ELSE total[a]
    BY <1>2
  <2>4. t.wrote[a] <= recorded[a] + OwnRows(t, a)
    BY <1>1 DEF TaskOK, Bounded
  <2>5. OwnRows(t, a) > 0 => t.wrote[a] > 0
    BY <1>1 DEF TaskOK, Covered, Counting
  <2>6. total[a] <= recorded[a] /\ (total[a] > 0 <=> recorded[a] > 0)
    BY DEF IInv, PatternFollowsHistory
  <2> QED BY <2>1, <2>2, <2>3, <2>4, <2>5, <2>6
<1>4. NoTask \in Task /\ ~NoTask.alone /\ NoTask.pc = "idle" /\ NoTask.own = {}
      /\ NoTask.by = None /\ \A a \in Alert : NoTask.wrote[a] = 0
  BY DEF NoTask, Task
<1>5. \A v \in Writer : writer'[v] = IF v = w THEN NoTask ELSE writer[v]
  BY <1>1, <1>2
<1>6. TypeOK'
  <2>1. derived' \in [Event -> Nat]
    BY <1>2 DEF IInv, TypeOK
  <2>2. recorded' \in [Alert -> Nat] /\ total' \in [Alert -> Nat]
    BY <1>2, <1>3
  <2>3. linked' \subseteq Event
    BY <1>1, <1>2 DEF IInv, TypeOK, Task
  <2>4. writer' \in [Writer -> Task]
    BY <1>1, <1>2, <1>4
  <2> QED BY <1>2, <2>1, <2>2, <2>3, <2>4 DEF IInv, TypeOK
<1>7. ASSUME NEW v \in Writer PROVE TaskOK(writer[v])'
  <2>1. CASE v = w
    <3>1. writer'[v] = NoTask
      BY <1>5, <2>1
    <3>2. \A a \in Alert : OwnRows(NoTask, a) = 0
      BY <1>4, NoRows
    <3>3. TaskOK(NoTask)'
      BY <1>4, <1>6, <3>2
      DEF TypeOK, TaskOK, Empty, Covered, Bounded, Exact, Counting, OwnRows, NoTask
    <3> QED BY <3>1, <3>3 DEF NoTask, TaskOK, Empty, Covered, Bounded, Exact, OwnRows
  <2>2. CASE v # w
    <3> DEFINE o == writer[v]
    <3>1. writer'[v] = o /\ o \in Task /\ TaskOK(o)
      BY <1>1, <1>5, <2>2 DEF IInv
    <3>2. ~o.alone
      BY <1>1, <2>2 DEF IInv, Alone
    <3>3. /\ \A a \in Alert : recorded[a] <= recorded'[a] /\ (total[a] > 0 => total'[a] > 0)
      BY <1>3
    <3>4. \A a \in Alert : /\ OwnRows(o, a) \in Nat /\ recorded[a] \in Nat /\ recorded'[a] \in Nat
                           /\ o.wrote[a] \in Nat
      BY <1>6, <3>1, OwnRowsType DEF IInv, TypeOK, Task
    <3>5. /\ \A a \in Alert : o.wrote[a] <= recorded'[a] + OwnRows(o, a)
          /\ o.pc \in Counting =>
               /\ o.at \in Alert
               /\ OwnRows(o, o.at) <= o.count /\ o.count <= recorded'[o.at] + OwnRows(o, o.at)
          /\ o.pc = "write" /\ o.seen > 0 => total'[o.at] > 0
      <4>1. o.count \in Nat /\ Bounded(o)
        BY <3>1 DEF TaskOK, Task
      <4>2. \A a \in Alert : o.wrote[a] <= recorded'[a] + OwnRows(o, a)
        BY <3>3, <3>4, <4>1 DEF Bounded
      <4>3. o.pc \in Counting =>
               /\ o.at \in Alert
               /\ OwnRows(o, o.at) <= o.count /\ o.count <= recorded'[o.at] + OwnRows(o, o.at)
        BY <3>3, <3>4, <4>1 DEF Bounded
      <4>4. o.pc = "write" /\ o.seen > 0 => total'[o.at] > 0
        BY <3>3, <4>1 DEF Bounded, Counting
      <4> QED BY <4>2, <4>3, <4>4
    <3>6. Empty(o) /\ Covered(o)
      BY <3>1 DEF TaskOK
    <3> HIDE DEF o
    <3>7. Empty(writer'[v]) /\ Covered(writer'[v]) /\ ~writer'[v].alone
      BY <3>1, <3>2, <3>6
    <3>8. (Empty(writer[v]) /\ Covered(writer[v]) /\ Exact(writer[v]))'
      BY <3>7 DEF Empty, Covered, Exact, OwnRows
    <3>9. Bounded(writer[v])'
      BY <3>1, <3>5 DEF Bounded, OwnRows
    <3> QED BY <3>8, <3>9 DEF TaskOK
  <2> QED BY <2>1, <2>2
<1>8. Alone'
  <2>1. \A v \in Writer \ {w} : ~writer[v].alone
    BY <1>1 DEF IInv, Alone
  <2> QED BY <1>4, <1>5, <2>1 DEF Alone
<1>9. AgentsAddNone'
  BY <1>4, <1>5 DEF IInv, AgentsAddNone
<1>10. ASSUME NEW e \in Event
       PROVE  derived'[e] + Cardinality(Adders(e)') <= Cardinality(Aggregator)
  <2> DEFINE F == Adders(e)
             G == Adders(e)'
  <2>1. derived[e] \in Nat /\ derived'[e] = derived[e] + (IF e \in t.own THEN 1 ELSE 0)
    BY <1>2 DEF IInv, TypeOK
  <2>2. G = F \ {w}
    <3>1. \A v \in Aggregator : Adds(writer'[v], e) <=> v # w /\ Adds(writer[v], e)
      BY <1>4, <1>5 DEF Adds, Writer
    <3> QED BY <3>1 DEF Adders, Adds
  <2>3. F \in SUBSET Aggregator
    BY DEF Adders
  <2>4. Cardinality(F) \in Nat /\ Cardinality(Aggregator) \in Nat /\ IsFiniteSet(F)
    BY <2>3, AddersAreFew
  <2>5. Cardinality(G) = IF w \in F THEN Cardinality(F) - 1 ELSE Cardinality(F)
    BY <2>2, <2>4, FS_RemoveElement
  <2>6. w \in F <=> e \in t.own
    BY <1>1 DEF Adders, Adds, IInv, AgentsAddNone
  <2>7. derived[e] + Cardinality(F) <= Cardinality(Aggregator)
    BY DEF IInv, RowsOK
  <2> QED BY <2>1, <2>4, <2>5, <2>6, <2>7
<1>11. PatternFollowsHistory'
  BY <1>3 DEF PatternFollowsHistory
<1> QED BY <1>6, <1>7, <1>8, <1>9, <1>10, <1>11 DEF IInv, RowsOK

\* A step that changes at most the processed flags.
LEMMA NoTaskMoves ==
  ASSUME IInv, UNCHANGED <<rows, total, writer, calls, faults>>, processed' \subseteq Event
  PROVE  IInv'
<1>1. UNCHANGED <<derived, linked, recorded, total, writer, calls, faults>>
  BY DEF rows
<1>2. \A t : TaskOK(t)' <=> TaskOK(t)
  BY <1>1 DEF TaskOK, Empty, Covered, Bounded, Exact, OwnRows
<1>3. TypeOK'
  BY <1>1 DEF IInv, TypeOK
<1>4. \A w \in Writer : TaskOK(writer[w])'
  BY <1>1, <1>2 DEF IInv
<1>5. Alone' /\ AgentsAddNone' /\ RowsOK' /\ PatternFollowsHistory'
  BY <1>1 DEF IInv, Alone, AgentsAddNone, RowsOK, Adders, Adds, PatternFollowsHistory
<1> QED BY <1>3, <1>4, <1>5 DEF IInv
-----------------------------------------------------------------------------
\* The invariant holds in every reachable state (aggregate, record_manual).
THEOREM Invariance == Spec => []IInv
<1>1. Init => IInv
  <2> SUFFICES ASSUME Init PROVE IInv
    OBVIOUS
  <2>1. /\ processed = {} /\ derived = [e \in Event |-> 0] /\ linked = {}
        /\ recorded = [a \in Alert |-> 0] /\ total = [a \in Alert |-> 0]
        /\ writer = [w \in Writer |-> NoTask] /\ calls = 0 /\ faults = 0
    BY DEF Init
  <2>2. NoTask \in Task
    BY DEF NoTask, Task
  <2>3. TypeOK
    BY <2>1, <2>2 DEF TypeOK
  <2>4. TaskOK(NoTask) /\ ~NoTask.alone /\ NoTask.pc = "idle" /\ NoTask.own = {}
    BY <2>3, NoTaskOK
  <2>5. \A w \in Writer : writer[w] = NoTask
    BY <2>1
  <2>6. Alone /\ AgentsAddNone
    BY <2>4, <2>5 DEF Alone, AgentsAddNone
  <2>7. ASSUME NEW e \in Event PROVE derived[e] + Cardinality(Adders(e)) <= Cardinality(Aggregator)
    <3>1. derived[e] = 0 /\ Adders(e) \in SUBSET Aggregator
      BY <2>1 DEF Adders
    <3> QED BY <3>1, AddersAreFew
  <2>8. PatternFollowsHistory
    BY <2>1 DEF PatternFollowsHistory
  <2> QED BY <2>3, <2>4, <2>5, <2>6, <2>7, <2>8 DEF IInv, RowsOK
<1>2. IInv /\ [Next]_vars => IInv'
  <2> SUFFICES ASSUME IInv, [Next]_vars PROVE IInv'
    OBVIOUS
  <2>1. ASSUME NEW e \in Event, MarkProcessed(e) PROVE IInv'
    <3>1. UNCHANGED <<rows, total, writer, calls, faults>> /\ processed' \subseteq Event
      BY <2>1 DEF MarkProcessed, IInv, TypeOK
    <3> QED BY <3>1, NoTaskMoves
  <2>2. ASSUME NEW w \in Writer, LoadKnown(w) PROVE IInv'
    BY <2>2, LoadKnownStep
  <2>3. ASSUME NEW w \in Writer, NEW a \in Alert \cup {None},
               NEW e \in Event \cup {None}, RecordManual(w, a, e)
        PROVE  IInv'
    BY <2>3, RecordManualStep
  <2>4. ASSUME NEW w \in Writer, TaskStep(w) PROVE IInv'
    <3>1. ASSUME NEW a \in Alert, CountRows(w, a) PROVE IInv'
      BY <3>1, CountRowsStep
    <3> QED BY <2>4, <3>1, LoadProcessedStep, LookUpStep, WritePatternStep, CommitStep,
               RollBackStep DEF TaskStep
  <2>5. ASSUME NEW w \in Writer, Fail(w) PROVE IInv'
    BY <2>5, RollBackStep
  <2>6. CASE UNCHANGED vars
    <3>1. UNCHANGED <<rows, total, writer, calls, faults>> /\ processed' \subseteq Event
      BY <2>6 DEF vars, IInv, TypeOK
    <3> QED BY <3>1, NoTaskMoves
  <2> QED BY <2>1, <2>2, <2>3, <2>4, <2>5, <2>6 DEF Next
<1> QED BY <1>1, <1>2, PTL DEF Spec

\* Every variable keeps its type: what a task counts are alerts and events.
THEOREM TypeCorrect == Spec => []TypeOK
<1>1. IInv => TypeOK
  BY DEF IInv
<1> QED BY <1>1, Invariance, PTL

\* However many aggregations overlap, an event has at most one row of each
\* process that can run one (aggregate).
THEOREM HistoryGrowsByEvents == Spec => []OneRowPerAggregator
<1>1. IInv => OneRowPerAggregator
  <2> SUFFICES ASSUME IInv, NEW e \in Event PROVE derived[e] <= Cardinality(Aggregator)
    BY DEF OneRowPerAggregator
  <2>1. Adders(e) \in SUBSET Aggregator /\ derived[e] \in Nat
        /\ derived[e] + Cardinality(Adders(e)) <= Cardinality(Aggregator)
    BY DEF Adders, IInv, TypeOK, RowsOK
  <2>2. Cardinality(Adders(e)) \in Nat /\ Cardinality(Aggregator) \in Nat
    BY <2>1, AddersAreFew
  <2> QED BY <2>1, <2>2
<1> QED BY <1>1, Invariance, PTL

\* A pattern is there when its alert has history, and counts no more than that
\* (_aggregate_pattern).
THEOREM PatternsFollow == Spec => []PatternFollowsHistory
<1>1. IInv => PatternFollowsHistory
  BY DEF IInv
<1> QED BY <1>1, Invariance, PTL

\* A task that overlaps no other leaves its patterns exact (_aggregate_pattern).
THEOREM LoneTasksRepair == Spec => LoneTaskIsExact
<1> DEFINE Repaired == \A w \in Writer, a \in Alert :
             writer[w].alone /\ writer[w].wrote[a] > 0 /\ rows' # rows
               => total'[a] = recorded'[a]
<1>1. IInv /\ [Next]_vars => [Repaired]_vars
  <2> SUFFICES ASSUME IInv, [Next]_vars, NEW w \in Writer, NEW a \in Alert,
                      writer[w].alone, writer[w].wrote[a] > 0, rows' # rows
               PROVE  total'[a] = recorded'[a]
    OBVIOUS
  <2>1. PICK v \in Writer : Commit(v)
    BY DEF Next, TaskStep, vars, MarkProcessed, LoadKnown, RecordManual, LoadProcessed,
           CountRows, LookUp, WritePattern, Conflict, DeadlockVictim, Fail, RollBack
  <2>2. v = w
    BY <2>1 DEF Commit, IInv, Alone
  <2>3. writer[w].wrote[a] = recorded[a] + OwnRows(writer[w], a)
    BY DEF IInv, TaskOK, Exact
  <2>4. total'[a] = writer[w].wrote[a] /\ recorded'[a] = recorded[a] + OwnRows(writer[w], a)
    BY <2>1, <2>2 DEF Commit
  <2> QED BY <2>3, <2>4
<1> QED BY <1>1, Invariance, PTL DEF Spec, LoneTaskIsExact
-----------------------------------------------------------------------------
(***************************************************************************)
(* Waiting.  Whatever set of open tasks one takes, if it waits for     *)
(* none outside, one of it can take a step: go on, meet a conflict, or be  *)
(* chosen as the victim of a deadlock.  ProcessedIsRecorded rests on it.   *)
(***************************************************************************)
\* A finite set in which everyone waits for someone has a ring in it: of its
\* smallest such subset nobody can be left out, so everyone is waited for too.
LEMMA WaitersHaveRing ==
  ASSUME NEW S, IsFiniteSet(S), S # {}, NEW R,
         \A c \in S : \E d \in S : <<c, d>> \in R
  PROVE  \E T \in SUBSET S :
           /\ T # {}
           /\ \A c \in T : (\E d \in T : <<c, d>> \in R)
                          /\ (\E d \in T : <<d, c>> \in R)
<1> DEFINE Good == {T \in SUBSET S : T # {} /\ \A c \in T : \E d \in T : <<c, d>> \in R}
<1>1. S \in Good /\ Good \subseteq SUBSET S
  OBVIOUS
<1>2. IsWellFoundedOn(StrictSubsetOrdering(S), SUBSET S)
  BY FS_StrictSubsetOrderingWellFounded, FS_FiniteSubsetsOfFinite
<1>3. PICK T \in Good : \A U \in Good : <<U, T>> \notin StrictSubsetOrdering(S)
  <2> HIDE DEF Good
  <2> QED BY <1>1, <1>2, WFMin
<1>4. ASSUME NEW c \in T, \A d \in T : <<d, c>> \notin R PROVE FALSE
  <2> DEFINE U == T \ {c}
  <2>1. \A d \in T : \E e \in T : <<d, e>> \in R
    OBVIOUS
  <2>2. \A d \in T : \E e \in U : <<d, e>> \in R
    BY <2>1, <1>4
  <2>3. U \in Good
    BY <2>2
  <2>4. <<U, T>> \in StrictSubsetOrdering(S)
    BY DEF StrictSubsetOrdering
  <2> HIDE DEF U
  <2> QED BY <1>3, <2>3, <2>4
<1> QED BY <1>4

\* The guards of TaskStep.
CanStep(w) ==
  \/ writer[w].pc \in {"load", "count", "look up"}
  \/ writer[w].pc = "write" /\ ~Blocked(w)
  \/ Deadlocked(w)

\* A set of open tasks that waits for nobody else.
Closed(S) ==
  \A w \in S : writer[w].pc # "idle" /\ \A v \in Writer : WaitsFor(w, v) => v \in S

\* Every such set has a task that can go on; and who is waited for is an open task.
NobodyIsStuck ==
  /\ \A S \in SUBSET Writer : S # {} /\ Closed(S) => \E w \in S : CanStep(w)
  /\ \A v, w \in Writer : WaitsFor(v, w) => writer[w].pc # "idle"

\* Tasks that write the same patterns in different orders never all wait: the
\* database's deadlock detection is enough, for any number of tasks and alerts
\* (aggregate, record_manual).
THEOREM NoTaskIsStuck == Spec => []NobodyIsStuck
<1>1. ASSUME IInv, NEW S \in SUBSET Writer, S # {}, Closed(S),
             \A w \in S : ~CanStep(w)
      PROVE  FALSE
  <2> DEFINE R == {p \in Writer \X Writer : WaitsFor(p[1], p[2])}
  <2>1. ASSUME NEW w \in S PROVE \E v \in S : <<w, v>> \in R
    <3>1. writer[w].pc = "write" /\ Blocked(w)
      BY <1>1 DEF IInv, TypeOK, Task, Closed, CanStep
    <3>2. PICK v \in Writer : WaitsFor(w, v)
      BY <3>1 DEF Blocked
    <3> QED BY <1>1, <3>2 DEF Closed
  <2>2. IsFiniteSet(S)
    BY WriterAssumption, FS_Union, FS_Subset DEF Writer
  <2>3. PICK T \in SUBSET S :
          /\ T # {}
          /\ \A w \in T : (\E v \in T : <<w, v>> \in R) /\ (\E v \in T : <<v, w>> \in R)
    <3> HIDE DEF R
    <3> QED BY <1>1, <2>1, <2>2, WaitersHaveRing
  <2>4. PICK w \in T : TRUE
    BY <2>3
  <2>5. Deadlocked(w)
    BY <2>3, <2>4 DEF Deadlocked
  <2> QED BY <1>1, <2>5 DEF CanStep
<1>2. ASSUME IInv, NEW v \in Writer, NEW w \in Writer, WaitsFor(v, w)
      PROVE  writer[w].pc # "idle"
  <2> SUFFICES ASSUME writer[w].pc = "idle" PROVE FALSE
    OBVIOUS
  <2>1. \A a \in Alert : writer[w].wrote[a] = 0
    BY <1>2 DEF IInv, TaskOK, Empty
  <2>2. writer[v].at \in Alert
    BY <1>2 DEF IInv, TaskOK, Bounded, Counting, WaitsFor
  <2> QED BY <1>2, <2>1, <2>2 DEF WaitsFor
<1>3. IInv => NobodyIsStuck
  BY <1>1, <1>2 DEF NobodyIsStuck
<1> QED BY <1>3, Invariance, PTL
=============================================================================
