------------------------- MODULE RawIngestionProofs -------------------------
(***************************************************************************)
(* For any payloads, any number of sessions and any bounds, RAW ingestion  *)
(* implements RawStore: it saves whole batches, each in one idempotent     *)
(* step; and no run waits for ever for runs that cannot move.              *)
(***************************************************************************)
EXTENDS RawIngestion, FiniteSetTheorems, WellFoundedInduction, TLAPS

\* What an open run s knows of the tables.
Shape(s) ==
  /\ s.pc = "idle" => s = NoRun
  /\ s.todo \subseteq s.batch
  /\ s.added \subseteq s.batch
  /\ s.pc \notin {"idle", "look up"} => s.at \in s.todo

\* What it has inserted was not there, and the item at hand is inserted once.
Fresh(s) ==
  /\ s.added \cap stored = {}
  /\ s.pc # "add record" => s.added \cap s.todo = {}
  /\ s.pc = "add record" => s.added \cap s.todo \subseteq {s.at}
  /\ s.new = Cardinality(s.added)

\* The items it is done with are in both tables once it commits.
Saved(s) ==
  /\ s.batch \ s.todo \subseteq stored \cup s.added
  /\ s.batch \ s.todo \subseteq records \cup s.recorded
  /\ s.recorded \subseteq stored \cup s.added
  /\ s.pc = "add record" => s.at \in stored \cup s.added

Registered(s) ==
  s.added # {} \/ s.pc = "add raw" => version \/ s.versions

RunOK(s) == Shape(s) /\ Fresh(s) /\ Saved(s) /\ Registered(s)

\* The unique index: no payload is inserted by two open runs.
Disjoint ==
  \A c, d \in Session : c # d => session[c].added \cap session[d].added = {}

IInv == /\ TypeOK
        /\ \A c \in Session : RunOK(session[c])
        /\ Disjoint
        /\ RecordsFollow /\ VersionRegistered
-----------------------------------------------------------------------------
LEMMA Emptied ==
  NoRun \in Run /\ NoRun.added = {} /\ RunOK(NoRun)
<1>1. NoRun \in Run
  BY DEF NoRun, Run, Steps
<1>2. Cardinality({}) = 0
  BY FS_EmptySet
<1> QED BY <1>1, <1>2 DEF NoRun, RunOK, Shape, Fresh, Saved, Registered

LEMMA InitHolds == Init => IInv
<1> SUFFICES ASSUME Init PROVE IInv
  OBVIOUS
<1>1. TypeOK
  BY Emptied DEF Init, TypeOK
<1>2. \A c \in Session : session[c] = NoRun
  BY DEF Init
<1>3. RecordsFollow /\ VersionRegistered
  BY DEF Init, RecordsFollow, VersionRegistered
<1> QED BY <1>1, <1>2, <1>3, Emptied DEF IInv, Disjoint

\* A step of one run that commits nothing keeps the invariant when the run
\* still knows the tables and has inserted nothing that another run has.
LEMMA OwnStep ==
  ASSUME IInv, UNCHANGED tables, NEW c \in Session, NEW r \in Run,
         session' = [session EXCEPT ![c] = r], RunOK(r),
         \A d \in Session \ {c} : r.added \cap session[d].added = {},
         runs' \in Nat, breaks' \in Nat
  PROVE  IInv'
<1>1. TypeOK'
  BY DEF IInv, TypeOK, tables
<1>2. UNCHANGED <<stored, records, version>>
  BY DEF tables
<1>3. ASSUME NEW d \in Session PROVE RunOK(session[d])'
  <2>1. session'[d] = IF d = c THEN r ELSE session[d]
    BY DEF IInv, TypeOK
  <2>2. RunOK(session'[d])
    BY <2>1 DEF IInv
  <2> QED BY <2>2, <1>2 DEF RunOK, Shape, Fresh, Saved, Registered
<1>4. Disjoint'
  <2>1. \A d \in Session : session'[d] = IF d = c THEN r ELSE session[d]
    BY DEF IInv, TypeOK
  <2> QED BY <2>1 DEF IInv, Disjoint
<1>5. RecordsFollow' /\ VersionRegistered'
  BY <1>2 DEF IInv, RecordsFollow, VersionRegistered
<1> QED BY <1>1, <1>3, <1>4, <1>5 DEF IInv

\* The same, for a step that leaves what the run has inserted alone.
LEMMA QuietStep ==
  ASSUME IInv, UNCHANGED tables, NEW c \in Session, NEW r \in Run,
         session' = [session EXCEPT ![c] = r], RunOK(r),
         r.added = session[c].added,
         UNCHANGED <<runs, breaks>>
  PROVE  IInv'
<1>1. \A d \in Session \ {c} : r.added \cap session[d].added = {}
  BY DEF IInv, Disjoint
<1>2. runs' \in Nat /\ breaks' \in Nat
  BY DEF IInv, TypeOK
<1> QED BY <1>1, <1>2, OwnStep
-----------------------------------------------------------------------------
\* A run that fails or dies leaves nothing behind.
LEMMA RollBackKeeps ==
  ASSUME IInv, NEW c \in Session, RollBack(c), breaks' \in Nat
  PROVE  IInv'
<1>1. \A d \in Session \ {c} : NoRun.added \cap session[d].added = {}
  BY Emptied
<1> QED BY <1>1, Emptied, OwnStep DEF RollBack, tables, IInv, TypeOK

LEMMA StartKeeps ==
  ASSUME IInv, NEW c \in Session, StartRun(c) PROVE IInv'
<1>1. PICK batch \in SUBSET Payload :
        session' = [session EXCEPT ![c] = [NoRun EXCEPT !.pc = "look up",
                                                        !.batch = batch,
                                                        !.todo = batch]]
  BY DEF StartRun
<1> DEFINE r == [NoRun EXCEPT !.pc = "look up", !.batch = batch, !.todo = batch]
<1>2. r \in Run /\ r.added = {}
  BY DEF NoRun, Run, Steps
<1>3. RunOK(r)
  <2>1. Cardinality({}) = 0
    BY FS_EmptySet
  <2> QED BY <2>1 DEF NoRun, RunOK, Shape, Fresh, Saved, Registered
<1>4. \A d \in Session \ {c} : r.added \cap session[d].added = {}
  BY <1>2
<1>5. UNCHANGED tables /\ runs' \in Nat /\ breaks' \in Nat
  BY DEF StartRun, tables, IInv, TypeOK
<1> HIDE DEF r
<1> QED BY <1>1, <1>2, <1>3, <1>4, <1>5, OwnStep DEF r

LEMMA LookUpKeeps ==
  ASSUME IInv, NEW c \in Session, NEW p \in Payload, LookUp(c, p) PROVE IInv'
<1> DEFINE s == session[c]
           r == [s EXCEPT !.at = p, !.pc = IF p \in stored THEN "add record"
                                           ELSE "find version"]
<1>1. s \in Run /\ RunOK(s) /\ s.pc = "look up" /\ p \in s.todo
  BY DEF IInv, TypeOK, LookUp
<1>2. /\ r \in Run
      /\ r.added = s.added /\ r.todo = s.todo /\ r.batch = s.batch /\ r.at = p
      /\ r.recorded = s.recorded /\ r.new = s.new /\ r.versions = s.versions
      /\ r.pc = IF p \in stored THEN "add record" ELSE "find version"
  BY <1>1 DEF Run, Steps
<1>3. session' = [session EXCEPT ![c] = r]
  BY DEF LookUp, IInv, TypeOK
<1>4. UNCHANGED tables /\ UNCHANGED <<runs, breaks>>
  BY DEF LookUp
<1> HIDE DEF s, r
<1>5. RunOK(r)
  BY <1>1, <1>2 DEF RunOK, Shape, Fresh, Saved, Registered
<1> QED BY <1>2, <1>3, <1>4, <1>5, QuietStep DEF s

LEMMA FindVersionKeeps ==
  ASSUME IInv, NEW c \in Session, FindVersion(c) PROVE IInv'
<1> DEFINE s == session[c]
           r == [s EXCEPT !.pc = IF version \/ s.versions THEN "add raw"
                                 ELSE "add version"]
<1>1. s \in Run /\ RunOK(s) /\ s.pc = "find version"
  BY DEF IInv, TypeOK, FindVersion
<1>2. /\ r \in Run
      /\ r.added = s.added /\ r.todo = s.todo /\ r.batch = s.batch
      /\ r.recorded = s.recorded /\ r.new = s.new /\ r.versions = s.versions
      /\ r.at = s.at
      /\ r.pc = IF version \/ s.versions THEN "add raw" ELSE "add version"
  BY <1>1 DEF Run, Steps
<1>3. session' = [session EXCEPT ![c] = r]
  BY DEF FindVersion, IInv, TypeOK
<1>4. UNCHANGED tables /\ UNCHANGED <<runs, breaks>>
  BY DEF FindVersion
<1> HIDE DEF s, r
<1>5. RunOK(r)
  BY <1>1, <1>2 DEF RunOK, Shape, Fresh, Saved, Registered
<1> QED BY <1>2, <1>3, <1>4, <1>5, QuietStep DEF s

LEMMA AddVersionKeeps ==
  ASSUME IInv, NEW c \in Session, AddVersion(c) PROVE IInv'
<1> DEFINE s == session[c]
           r == [s EXCEPT !.versions = TRUE, !.pc = "add raw"]
<1>1. s \in Run /\ RunOK(s) /\ s.pc = "add version"
  BY DEF IInv, TypeOK, AddVersion
<1>2. /\ r \in Run
      /\ r.added = s.added /\ r.todo = s.todo /\ r.batch = s.batch
      /\ r.recorded = s.recorded /\ r.new = s.new /\ r.versions
      /\ r.at = s.at /\ r.pc = "add raw"
  BY <1>1 DEF Run, Steps
<1>3. session' = [session EXCEPT ![c] = r]
  BY DEF AddVersion, IInv, TypeOK
<1>4. UNCHANGED tables /\ UNCHANGED <<runs, breaks>>
  BY DEF AddVersion
<1> HIDE DEF s, r
<1>5. RunOK(r)
  BY <1>1, <1>2 DEF RunOK, Shape, Fresh, Saved, Registered
<1> QED BY <1>2, <1>3, <1>4, <1>5, QuietStep DEF s
-----------------------------------------------------------------------------
\* The wait of the unique index makes the insert exclusive; a row committed in
\* the meantime makes the item a duplicate.
LEMMA AddRawKeeps ==
  ASSUME IInv, NEW c \in Session, AddRaw(c) PROVE IInv'
<1> DEFINE s == session[c]
           p == s.at
           r == IF s.at \in stored THEN [s EXCEPT !.pc = "add record"]
                ELSE [s EXCEPT !.pc = "add record", !.added = s.added \cup {s.at},
                               !.new = s.new + 1]
<1>1. s \in Run /\ RunOK(s) /\ s.pc = "add raw" /\ p \in s.todo
  BY DEF IInv, TypeOK, AddRaw, RunOK, Shape
<1>2. p \in Payload
  BY <1>1 DEF Run, RunOK, Shape
<1>3. /\ r \in Run
      /\ r.added = IF p \in stored THEN s.added ELSE s.added \cup {p}
      /\ r.new = IF p \in stored THEN s.new ELSE s.new + 1
      /\ r.todo = s.todo /\ r.batch = s.batch /\ r.at = p
      /\ r.recorded = s.recorded /\ r.versions = s.versions
      /\ r.pc = "add record"
  <2>1. CASE p \in stored
    <3>1. r = [s EXCEPT !.pc = "add record"]
      BY <2>1
    <3> HIDE DEF r, s
    <3> QED BY <3>1, <2>1, <1>1 DEF Run, Steps
  <2>2. CASE p \notin stored
    <3>1. r = [s EXCEPT !.pc = "add record", !.added = s.added \cup {s.at},
                        !.new = s.new + 1]
      BY <2>2
    <3>2. s.added \cup {s.at} \in SUBSET Payload /\ s.new + 1 \in Nat
      <4> s \in Run
        BY <1>1
      <4> HIDE DEF s, r
      <4>1. s.added \subseteq Payload /\ s.new \in Nat
        BY DEF Run
      <4> QED BY <4>1, <1>2
    <3> DEFINE added == s.added \cup {s.at}
               new == s.new + 1
    <3>3. /\ r = [s EXCEPT !.pc = "add record", !.added = added, !.new = new]
          /\ added \in SUBSET Payload /\ new \in Nat /\ s \in Run
      BY <3>1, <3>2, <1>1
    <3> HIDE DEF r, s, added, new, p
    <3>4. /\ r \in Run /\ r.added = added /\ r.new = new
          /\ r.todo = s.todo /\ r.batch = s.batch /\ r.at = s.at
          /\ r.recorded = s.recorded /\ r.versions = s.versions
          /\ r.pc = "add record"
      BY <3>3 DEF Run, Steps
    <3> QED BY <3>4, <2>2 DEF added, new, p
  <2> QED BY <2>1, <2>2
<1>4. session' = [session EXCEPT ![c] = r]
  BY DEF AddRaw
<1>5. UNCHANGED tables /\ runs' \in Nat /\ breaks' \in Nat
  BY DEF AddRaw, IInv, TypeOK
<1>6. \A d \in Session \ {c} : p \notin session[d].added
  BY <1>1 DEF AddRaw, Blocked, WaitsFor
<1>7. IsFiniteSet(s.added) /\ p \notin s.added
  BY <1>1, FS_Subset, DataAssumption DEF DataAssumption, Run, RunOK, Fresh
<1>8. Cardinality(s.added \cup {p}) = Cardinality(s.added) + 1
  BY <1>7, FS_AddElement
<1>9. \A d \in Session \ {c} : s.added \cap session[d].added = {}
  BY DEF IInv, Disjoint
<1> HIDE DEF s, p, r
<1>10. RunOK(r)
  <2>1. Shape(r)
    BY <1>1, <1>3 DEF RunOK, Shape
  <2>2. Fresh(r)
    BY <1>1, <1>3, <1>8 DEF RunOK, Fresh
  <2>3. Saved(r) /\ Registered(r)
    BY <1>1, <1>3 DEF RunOK, Saved, Registered
  <2> QED BY <2>1, <2>2, <2>3 DEF RunOK
<1>11. \A d \in Session \ {c} : r.added \cap session[d].added = {}
  BY <1>3, <1>6, <1>9
<1> QED BY <1>3, <1>4, <1>5, <1>10, <1>11, OwnStep

LEMMA AddRecordKeeps ==
  ASSUME IInv, NEW c \in Session, AddRecord(c) PROVE IInv'
<1> DEFINE s == session[c]
           p == s.at
           r == [s EXCEPT !.pc = "look up", !.at = NoPayload,
                          !.todo = s.todo \ {s.at},
                          !.recorded = s.recorded \cup ({s.at} \ records)]
<1>1. s \in Run /\ RunOK(s) /\ s.pc = "add record" /\ p \in s.todo
  BY DEF IInv, TypeOK, AddRecord, RunOK, Shape
<1>2. /\ r \in Run
      /\ r.recorded = s.recorded \cup ({p} \ records)
      /\ r.todo = s.todo \ {p} /\ r.batch = s.batch /\ r.added = s.added
      /\ r.new = s.new /\ r.versions = s.versions /\ r.pc = "look up"
  BY <1>1 DEF Run, Steps
<1>3. session' = [session EXCEPT ![c] = r]
  BY DEF AddRecord
<1>4. UNCHANGED tables /\ UNCHANGED <<runs, breaks>>
  BY DEF AddRecord
<1>5. s.at = p
  OBVIOUS
<1> HIDE DEF s, p, r
<1>6. RunOK(r)
  BY <1>1, <1>2, <1>5 DEF RunOK, Shape, Fresh, Saved, Registered
<1> QED BY <1>2, <1>3, <1>4, <1>6, QuietStep DEF s
-----------------------------------------------------------------------------
\* A commit changes the tables under the other runs, which have inserted none
\* of its rows.
LEMMA FinishKeeps ==
  ASSUME IInv, NEW c \in Session, Finish(c) PROVE IInv'
<1> DEFINE s == session[c]
<1>1. s \in Run /\ RunOK(s) /\ s.todo = {}
  BY DEF IInv, TypeOK, Finish
<1>2. /\ stored' = stored \cup s.added /\ records' = records \cup s.recorded
      /\ version' = (version \/ s.versions) /\ created' = created + s.new
      /\ session' = [session EXCEPT ![c] = NoRun]
      /\ UNCHANGED <<runs, breaks>>
  BY DEF Finish
<1>3. \A d \in Session : session'[d] = IF d = c THEN NoRun ELSE session[d]
  BY <1>2 DEF IInv, TypeOK
<1>4. \A d \in Session \ {c} : s.added \cap session[d].added = {}
  BY DEF IInv, Disjoint
<1>5. s.added \subseteq s.batch /\ s.batch \subseteq records \cup s.recorded
      /\ s.recorded \subseteq stored \cup s.added
      /\ (s.added # {} => version \/ s.versions)
  BY <1>1 DEF RunOK, Shape, Saved, Registered
<1>6. TypeOK'
  <2>1. stored' \subseteq Payload /\ records' \subseteq Payload
    BY <1>1, <1>2 DEF IInv, TypeOK, Run
  <2>2. version' \in BOOLEAN
    BY <1>1, <1>2 DEF IInv, TypeOK, Run
  <2>3. created' \in Nat /\ runs' \in Nat /\ breaks' \in Nat
    BY <1>1, <1>2 DEF IInv, TypeOK, Run
  <2>4. session' \in [Session -> Run]
    BY <1>2, Emptied DEF IInv, TypeOK
  <2> QED BY <2>1, <2>2, <2>3, <2>4 DEF TypeOK
<1>7. ASSUME NEW d \in Session PROVE RunOK(session[d])'
  <2>1. CASE d = c
    <3>1. session'[d] = NoRun /\ Cardinality({}) = 0
      BY <2>1, <1>3, FS_EmptySet
    <3> QED BY <3>1 DEF NoRun, RunOK, Shape, Fresh, Saved, Registered
  <2>2. CASE d # c
    <3> DEFINE q == session[d]
    <3>1. session'[d] = q /\ RunOK(q) /\ s.added \cap q.added = {}
      BY <2>2, <1>3, <1>4 DEF IInv
    <3> HIDE DEF q, s
    <3>2. Shape(q)
      BY <3>1 DEF RunOK
    <3>3. q.added \cap stored' = {} /\ q.new = Cardinality(q.added)
      BY <3>1, <1>2 DEF RunOK, Fresh
    <3>4. /\ q.pc # "add record" => q.added \cap q.todo = {}
          /\ q.pc = "add record" => q.added \cap q.todo \subseteq {q.at}
      BY <3>1 DEF RunOK, Fresh
    <3>5. stored \subseteq stored' /\ records \subseteq records'
      BY <1>2
    <3>6. /\ q.batch \ q.todo \subseteq stored' \cup q.added
          /\ q.batch \ q.todo \subseteq records' \cup q.recorded
          /\ q.recorded \subseteq stored' \cup q.added
          /\ q.pc = "add record" => q.at \in stored' \cup q.added
      BY <3>1, <3>5 DEF RunOK, Saved
    <3>7. q.added # {} \/ q.pc = "add raw" => version' \/ q.versions
      BY <3>1, <1>2 DEF RunOK, Registered
    <3> QED BY <3>1, <3>2, <3>3, <3>4, <3>6, <3>7
            DEF RunOK, Shape, Fresh, Saved, Registered
  <2> QED BY <2>1, <2>2
<1>8. Disjoint'
  BY <1>3, Emptied DEF IInv, Disjoint
<1> HIDE DEF s
<1>9. RecordsFollow'
  BY <1>2, <1>5 DEF IInv, RecordsFollow
<1>10. VersionRegistered'
  BY <1>2, <1>5 DEF IInv, VersionRegistered
<1> QED BY <1>6, <1>7, <1>8, <1>9, <1>10 DEF IInv
-----------------------------------------------------------------------------
LEMMA StepHolds == IInv /\ [Next]_vars => IInv'
<1> SUFFICES ASSUME IInv, [Next]_vars PROVE IInv'
  OBVIOUS
<1>1. ASSUME NEW c \in Session, StartRun(c) PROVE IInv'
  BY <1>1, StartKeeps
<1>2. ASSUME NEW c \in Session, Progress(c) PROVE IInv'
  <2>1. ASSUME NEW p \in Payload, LookUp(c, p) PROVE IInv'
    BY <2>1, LookUpKeeps
  <2>2. ASSUME VersionConflict(c) \/ DeadlockVictim(c) PROVE IInv'
    BY <2>2, RollBackKeeps DEF VersionConflict, DeadlockVictim, IInv, TypeOK
  <2> QED BY <1>2, <2>1, <2>2, FindVersionKeeps, AddVersionKeeps, AddRawKeeps,
             AddRecordKeeps, FinishKeeps DEF Progress
<1>3. ASSUME NEW c \in Session, Break(c) PROVE IInv'
  BY <1>3, RollBackKeeps DEF Break, IInv, TypeOK
<1>4. CASE UNCHANGED vars
  BY <1>4 DEF vars, tables, IInv, TypeOK, RunOK, Shape, Fresh, Saved, Registered,
              Disjoint, RecordsFollow, VersionRegistered
<1> QED BY <1>1, <1>2, <1>3, <1>4 DEF Next

\* IInv is an inductive invariant.
THEOREM Invariance == Spec => []IInv
BY InitHolds, StepHolds, PTL DEF Spec

\* The types hold (the rows and counters of RawCollectionService.save).
THEOREM TypeCorrect == Spec => []TypeOK
<1>1. IInv => TypeOK
  BY DEF IInv
<1> QED BY <1>1, Invariance, PTL

\* RAW rows and records agree after every commit of run_collector_by_name.
THEOREM TablesAgree == Spec => []RecordsFollow
<1>1. IInv => RecordsFollow
  BY DEF IInv
<1> QED BY <1>1, Invariance, PTL

\* No stored row lacks its collector version (ensure_collector_version).
THEOREM VersionsComeFirst == Spec => []VersionRegistered
<1>1. IInv => VersionRegistered
  BY DEF IInv
<1> QED BY <1>1, Invariance, PTL
-----------------------------------------------------------------------------
\* A commit saves the whole batch of its run; every other step is a stutter.
LEMMA StepIsSave == IInv /\ [Next]_vars => [Store!Next]_<<stored, created>>
<1> SUFFICES ASSUME IInv, [Next]_vars PROVE [Store!Next]_<<stored, created>>
  OBVIOUS
<1>1. ASSUME NEW c \in Session, Finish(c) PROVE Store!Next
  <2> DEFINE s == session[c]
  <2>1. s \in Run /\ RunOK(s) /\ s.todo = {}
    BY <1>1 DEF IInv, TypeOK, Finish
  <2>2. stored' = stored \cup s.added /\ created' = created + s.new
    BY <1>1 DEF Finish
  <2>3. s.batch \in SUBSET Payload
    BY <2>1 DEF Run
  <2> HIDE DEF s
  <2>4. /\ s.added \subseteq s.batch /\ s.batch \subseteq stored \cup s.added
        /\ s.added \cap stored = {} /\ s.new = Cardinality(s.added)
    BY <2>1 DEF RunOK, Shape, Fresh, Saved
  <2>5. s.batch \ stored = s.added /\ stored \cup s.batch = stored \cup s.added
    BY <2>4
  <2>6. Store!Save(s.batch)
    BY <2>2, <2>4, <2>5 DEF Store!Save, Store!Cardinality, Cardinality
  <2> QED BY <2>3, <2>6 DEF Store!Next
<1>2. ASSUME NEW c \in Session, RollBack(c) PROVE UNCHANGED <<stored, created>>
  BY <1>2 DEF RollBack, tables
<1>3. CASE UNCHANGED vars
  BY <1>3 DEF vars, tables
<1>4. ASSUME NEW c \in Session, StartRun(c) PROVE UNCHANGED <<stored, created>>
  BY <1>4 DEF StartRun, tables
<1>5. ASSUME NEW c \in Session, Progress(c) PROVE [Store!Next]_<<stored, created>>
  BY <1>1, <1>2, <1>5 DEF Progress, LookUp, FindVersion, AddVersion, AddRaw,
     AddRecord, VersionConflict, DeadlockVictim, tables
<1>6. ASSUME NEW c \in Session, Break(c) PROVE UNCHANGED <<stored, created>>
  BY <1>2, <1>6 DEF Break
<1> QED BY <1>3, <1>4, <1>5, <1>6 DEF Next

\* Concurrent, failing and dying runs together are the atomic, idempotent store
\* (RawCollectionService.save and the transaction it runs in).
THEOREM IngestionIsAtomic == Spec => StoreIsAtomic
<1>1. Init => Store!Init
  BY DEF Init, Store!Init
<1> QED BY <1>1, StepIsSave, Invariance, PTL DEF Spec, StoreIsAtomic, Store!Spec
-----------------------------------------------------------------------------
(***************************************************************************)
(* Waiting.  Whatever set of open runs one takes, if it waits for      *)
(* none outside, one of it can take a step: go on, meet a conflict, or be  *)
(* chosen as the victim of a deadlock.  RunsEnd rests on it.               *)
(***************************************************************************)
\* A finite set in which everyone waits for someone has a ring in it: of its
\* smallest such subset nobody can be left out, so everyone is waited for too.
LEMMA WaitersHaveRing ==
  ASSUME NEW S, IsFiniteSet(S), S # {}, NEW R,
         \A c \in S : \E d \in S : <<c, d>> \in R
  PROVE  \E T \in SUBSET S :
           /\ T # {}
           /\ \A c \in T : (\E d \in T : <<c, d>> \in R)
                          /\ (\E d \in T : <<d, c>> \in R)
<1> DEFINE Good == {T \in SUBSET S : T # {} /\ \A c \in T : \E d \in T : <<c, d>> \in R}
<1>1. S \in Good /\ Good \subseteq SUBSET S
  OBVIOUS
<1>2. IsWellFoundedOn(StrictSubsetOrdering(S), SUBSET S)
  BY FS_StrictSubsetOrderingWellFounded, FS_FiniteSubsetsOfFinite
<1>3. PICK T \in Good : \A U \in Good : <<U, T>> \notin StrictSubsetOrdering(S)
  <2> HIDE DEF Good
  <2> QED BY <1>1, <1>2, WFMin
<1>4. ASSUME NEW c \in T, \A d \in T : <<d, c>> \notin R PROVE FALSE
  <2> DEFINE U == T \ {c}
  <2>1. \A d \in T : \E e \in T : <<d, e>> \in R
    OBVIOUS
  <2>2. \A d \in T : \E e \in U : <<d, e>> \in R
    BY <2>1, <1>4
  <2>3. U \in Good
    BY <2>2
  <2>4. <<U, T>> \in StrictSubsetOrdering(S)
    BY DEF StrictSubsetOrdering
  <2> HIDE DEF U
  <2> QED BY <1>3, <2>3, <2>4
<1> QED BY <1>4

\* The guards of Progress.
CanStep(c) ==
  \/ session[c].pc \in {"look up", "find version"}
  \/ session[c].pc \in {"add version", "add raw", "add record"} /\ ~Blocked(c)
  \/ Deadlocked(c)

\* A set of open runs that waits for nobody else.
Closed(S) ==
  \A c \in S : session[c].pc # "idle" /\ \A d \in Session : WaitsFor(c, d) => d \in S

\* Every such set has a run that can go on; and who is waited for is an open run.
NobodyIsStuck ==
  /\ \A S \in SUBSET Session : S # {} /\ Closed(S) => \E c \in S : CanStep(c)
  /\ \A c, d \in Session : WaitsFor(c, d) => session[d].pc # "idle"

\* No run waits for ever for runs that cannot move: the database's deadlock
\* detection is enough, for any number of sessions
\* (RawCollectionService.save and ensure_collector_version).
THEOREM NoRunIsStuck == Spec => []NobodyIsStuck
<1>1. ASSUME IInv, NEW S \in SUBSET Session, S # {}, Closed(S),
             \A c \in S : ~CanStep(c)
      PROVE  FALSE
  <2> DEFINE R == {p \in Session \X Session : WaitsFor(p[1], p[2])}
  <2>1. ASSUME NEW c \in S PROVE \E d \in S : <<c, d>> \in R
    <3>1. session[c].pc \in Steps \ {"idle", "look up", "find version"} /\ Blocked(c)
      BY <1>1 DEF IInv, TypeOK, Run, Steps, Closed, CanStep
    <3>2. PICK d \in Session : WaitsFor(c, d)
      BY <3>1 DEF Blocked
    <3> QED BY <1>1, <3>2 DEF Closed
  <2>2. IsFiniteSet(S)
    BY SessionAssumption, FS_Subset
  <2>3. PICK T \in SUBSET S :
          /\ T # {}
          /\ \A c \in T : (\E d \in T : <<c, d>> \in R) /\ (\E d \in T : <<d, c>> \in R)
    <3> HIDE DEF R
    <3> QED BY <1>1, <2>1, <2>2, WaitersHaveRing
  <2>4. PICK c \in T : TRUE
    BY <2>3
  <2>5. Deadlocked(c)
    BY <2>3, <2>4 DEF Deadlocked
  <2> QED BY <1>1, <2>5 DEF CanStep
<1>2. ASSUME IInv, NEW c \in Session, NEW d \in Session, WaitsFor(c, d)
      PROVE  session[d].pc # "idle"
  <2> SUFFICES ASSUME session[d].pc = "idle" PROVE FALSE
    OBVIOUS
  <2>1. session[d] = NoRun
    BY <1>2 DEF IInv, RunOK, Shape
  <2>2. NoRun.added = {} /\ NoRun.recorded = {} /\ ~NoRun.versions
    BY DEF NoRun
  <2> QED BY <1>2, <2>1, <2>2 DEF WaitsFor
<1>3. IInv => NobodyIsStuck
  BY <1>1, <1>2 DEF NobodyIsStuck
<1> QED BY <1>3, Invariance, PTL
=============================================================================
