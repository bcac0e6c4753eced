---------------------------- MODULE RawIngestion ----------------------------
(***************************************************************************)
(* RAW ingestion by collector runs: workers/collector_worker.py            *)
(* run_collector_by_name saves the items of one collection through         *)
(* app/raw/service.py RawCollectionService.save, all in one transaction.   *)
(*                                                                         *)
(* The scheduler's job and the API endpoint may run the same collector at  *)
(* once.  Each statement is a step, at READ COMMITTED: a session sees its  *)
(* own rows and the committed ones, and an insert whose unique key another *)
(* session has inserted and not committed waits for that session.          *)
(*                                                                         *)
(* A payload stands for an item of one version of a collector that gives   *)
(* its items an external_id, and with it for both identities: the RAW row  *)
(* (module, source_name, checksum) and the record (collector_name, source, *)
(* external_id, payload_hash).  A batch is a set of them: an item that     *)
(* comes twice in one batch is left out.  So is backfill_ohlcv.py, a       *)
(* script run by hand that inserts RAW rows without records.               *)
(***************************************************************************)
EXTENDS Naturals, FiniteSets

CONSTANTS
  Payload,      \* items, by identity
  Session,      \* concurrent runs of one collector
  NoPayload,
  MaxRuns,      \* bound: runs started
  MaxBreaks     \* bound: runs that die or meet an error of their own

ASSUME DataAssumption == IsFiniteSet(Payload) /\ NoPayload \notin Payload

\* As many sessions as the database has connections for.
ASSUME SessionAssumption == IsFiniteSet(Session)
ASSUME BoundAssumption == MaxRuns \in Nat /\ MaxBreaks \in Nat

VARIABLES
  stored,   \* raw_collections, committed
  records,  \* collected_records, committed
  version,  \* collector_versions: the row of this collector is committed
  created,  \* sum of raw_saved_count over the successful runs
  session,
  runs, breaks

tables == <<stored, records, version, created>>
vars == <<tables, session, runs, breaks>>
-----------------------------------------------------------------------------
Steps == {"idle", "look up", "find version", "add version", "add raw",
          "add record"}

\* todo:     items of the batch still to save
\* at:       the item being saved
\* added:    RAW rows inserted in the open transaction
\* recorded: records inserted in it
\* versions: it has inserted the version row
\* new:      raw_saved
Run == [pc : Steps, batch : SUBSET Payload, todo : SUBSET Payload,
        at : Payload \cup {NoPayload}, added : SUBSET Payload,
        recorded : SUBSET Payload, versions : BOOLEAN, new : Nat]
NoRun == [pc |-> "idle", batch |-> {}, todo |-> {}, at |-> NoPayload,
          added |-> {}, recorded |-> {}, versions |-> FALSE, new |-> 0]

\* The insert c has come to conflicts with an uncommitted one of d.
WaitsFor(c, d) ==
  /\ c # d
  /\ \/ session[c].pc = "add version" /\ session[d].versions
     \/ session[c].pc = "add raw" /\ session[c].at \in session[d].added
     \/ session[c].pc = "add record" /\ session[c].at \in session[d].recorded
Blocked(c) == \E d \in Session : WaitsFor(c, d)

NeverDetected(c) == FALSE      \* mutant

\* c is one of a ring of sessions each of which waits for another.
Deadlocked(c) ==
  \E ring \in SUBSET Session :
    /\ c \in ring
    /\ \A d \in ring : (\E e \in ring : WaitsFor(d, e))
                       /\ (\E e \in ring : WaitsFor(e, d))
-----------------------------------------------------------------------------
Init ==
  /\ stored = {} /\ records = {}
  /\ version = FALSE
  /\ created = 0
  /\ session = [c \in Session |-> NoRun]
  /\ runs = 0 /\ breaks = 0

StartRun(c) ==
  /\ session[c].pc = "idle"
  /\ runs < MaxRuns
  /\ runs' = runs + 1
  /\ \E batch \in SUBSET Payload :
       session' = [session EXCEPT ![c] = [NoRun EXCEPT !.pc = "look up",
                                                       !.batch = batch,
                                                       !.todo = batch]]
  /\ UNCHANGED <<tables, breaks>>

\* save: a row with this checksum is returned as it is.
LookUp(c, p) ==
  /\ session[c].pc = "look up"
  /\ p \in session[c].todo
  /\ session' = [session EXCEPT ![c].at = p,
                   ![c].pc = IF p \in stored THEN "add record"
                             ELSE "find version"]
  /\ UNCHANGED <<tables, runs, breaks>>

\* ensure_collector_version; save_raw makes a new service, with an empty cache,
\* for every item.
FindVersion(c) ==
  /\ session[c].pc = "find version"
  /\ session' = [session EXCEPT ![c].pc =
                   IF version \/ session[c].versions THEN "add raw"
                   ELSE "add version"]
  /\ UNCHANGED <<tables, runs, breaks>>

AddVersion(c) ==
  /\ session[c].pc = "add version"
  /\ ~Blocked(c) /\ ~version
  /\ session' = [session EXCEPT ![c].versions = TRUE, ![c].pc = "add raw"]
  /\ UNCHANGED <<tables, runs, breaks>>

\* mutant: the row read again after the conflict counts as new
AddRawCounts(c) ==
  LET s == session[c] IN
  /\ s.pc = "add raw"
  /\ ~Blocked(c)
  /\ session' = [session EXCEPT ![c] =
       [s EXCEPT !.pc = "add record", !.new = s.new + 1,
                 !.added = s.added \cup ({s.at} \ stored)]]
  /\ UNCHANGED <<tables, runs, breaks>>

\* The insert into raw_collections, under a savepoint.  When another run has
\* committed the row in between, the savepoint is rolled back and the row read
\* again: a duplicate.
AddRaw(c) ==
  LET s == session[c] IN
  /\ s.pc = "add raw"
  /\ ~Blocked(c)
  /\ session' = [session EXCEPT ![c] =
       IF s.at \in stored THEN [s EXCEPT !.pc = "add record"]
       ELSE [s EXCEPT !.pc = "add record", !.added = s.added \cup {s.at},
                      !.new = s.new + 1]]
  /\ UNCHANGED <<tables, runs, breaks>>

\* The record of the item, under a savepoint too; a duplicate is ignored.
AddRecord(c) ==
  LET s == session[c] IN
  /\ s.pc = "add record"
  /\ ~Blocked(c)
  /\ session' = [session EXCEPT ![c] =
       [s EXCEPT !.pc = "look up", !.at = NoPayload, !.todo = s.todo \ {s.at},
                 !.recorded = s.recorded \cup ({s.at} \ records)]]
  /\ UNCHANGED <<tables, runs, breaks>>

\* The run is a success: rows and counters become visible together.
Finish(c) ==
  /\ session[c].pc = "look up"
  /\ session[c].todo = {}
  /\ stored' = stored \cup session[c].added
  /\ records' = records \cup session[c].recorded
  /\ version' = (version \/ session[c].versions)
  /\ created' = created + session[c].new
  /\ session' = [session EXCEPT ![c] = NoRun]
  /\ UNCHANGED <<runs, breaks>>

\* mutant: the savepoint of a record is taken for a commit
RollBackRaw(c) ==
  /\ session' = [session EXCEPT ![c] = NoRun]
  /\ records' = records \cup session[c].recorded
  /\ UNCHANGED <<stored, version, created, runs>>

\* The except clause: everything the run saved is rolled back.
RollBack(c) ==
  /\ session' = [session EXCEPT ![c] = NoRun]
  /\ UNCHANGED <<tables, runs>>

\* Another run has committed the version row since FindVersion: no savepoint
\* around this insert, so the whole run fails.
VersionConflict(c) ==
  /\ session[c].pc = "add version"
  /\ ~Blocked(c) /\ version
  /\ RollBack(c)
  /\ UNCHANGED breaks

\* PostgreSQL ends a deadlock by failing one of the statements; that is no
\* IntegrityError.
DeadlockVictim(c) ==
  /\ Deadlocked(c)
  /\ RollBack(c)
  /\ UNCHANGED breaks

\* The process dies, or the run meets an error of its own.
Break(c) ==
  /\ session[c].pc # "idle"
  /\ breaks < MaxBreaks
  /\ breaks' = breaks + 1
  /\ RollBack(c)

Progress(c) ==
  \/ \E p \in Payload : LookUp(c, p)
  \/ FindVersion(c) \/ AddVersion(c) \/ AddRaw(c) \/ AddRecord(c)
  \/ Finish(c)
  \/ VersionConflict(c) \/ DeadlockVictim(c)

Next == \E c \in Session : StartRun(c) \/ Progress(c) \/ Break(c)

Spec == Init /\ [][Next]_vars

\* A started run goes on, and the database resolves deadlocks.
FairSpec == Spec /\ \A c \in Session : WF_vars(Progress(c))
-----------------------------------------------------------------------------
TypeOK ==
  /\ stored \subseteq Payload
  /\ records \subseteq Payload
  /\ version \in BOOLEAN
  /\ created \in Nat
  /\ session \in [Session -> Run]
  /\ runs \in Nat /\ breaks \in Nat

\* However runs of one collector interleave, fail or die, together they save
\* whole batches, each in one idempotent step: a run that reports success has
\* every item of its batch stored, by itself or by another run, and every
\* stored row was reported as new by exactly one run (save, both of its
\* duplicate paths, and the commit of run_collector_by_name).
Store == INSTANCE RawStore
StoreIsAtomic == Store!Spec

\* raw_collections and collected_records are deduplicated apart from each other
\* and hold the same items after every commit of a run.
RecordsFollow == records = stored

\* A stored row's collector version is registered, though the run that found
\* it registered may not be the one that registered it.
VersionRegistered == stored # {} => version

\* Runs that wait for each other's inserts all come to an end.
RunsEnd == \A c \in Session : session[c].pc # "idle" ~> session[c].pc = "idle"
=============================================================================
