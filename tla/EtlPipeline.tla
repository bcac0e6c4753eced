---------------------------- MODULE EtlPipeline ----------------------------
(***************************************************************************)
(* The normalization and analytics stages of the pipeline:                 *)
(*   app/normalization/services.py   BaseNormalizer.run                    *)
(*   app/analytics/services.py       BaseAnalyticsProcessor.run            *)
(* and what their concrete subclasses save.                                *)
(*                                                                         *)
(* A session is one run of a stage: the loop of app/jobs/worker.py, the    *)
(* scheduler's normalize_job / analytics_job and a manual run started from *)
(* the API each open a SQLAlchemy session of their own.  Nothing excludes  *)
(* two of them from running at once: pending_for_module takes no row lock, *)
(* and an item is written back by primary key whatever its status is then. *)
(*                                                                         *)
(* PostgreSQL runs them at READ COMMITTED.  A session's uncommitted work   *)
(* is its own record (phase "saved"); the shared tables change only when   *)
(* it commits.                                                             *)
(*                                                                         *)
(* Sessions are the only writers here.  Two scripts run by hand write the  *)
(* same tables: reprocess.py saves rows again without touching a status,   *)
(* and backfill_ohlcv.py inserts RAW rows that are normalized already.     *)
(***************************************************************************)
EXTENDS Naturals, FiniteSets

CONSTANTS
  Raw,          \* identities of RAW rows: one per (module, source, checksum)
  Row,          \* primary keys of normalized rows (their number is a bound)
  Identity,     \* candle identities: (source, symbol, timeframe, timestamp)
  Product,      \* what IdentityOf gives a raw whose rows have no identity
  IdentityOf,   \* [Raw -> Identity \cup {Product}]
  Payload,      \* [Raw -> {"usable", "unusable", "broken"}]
  SourceOf,     \* [Raw -> Source]: source and schema, the key of its version row
  Source,
  Normalizers,  \* sessions running a normalizer
  Processors,   \* sessions running an analytics processor
  Limit,        \* items a session loads at most
  MaxCrashes,   \* bound: process crashes in a behaviour
  MaxFaults,    \* bound: transient database errors in a behaviour
  None          \* no raw, no row

ASSUME DataAssumption ==
  /\ IdentityOf \in [Raw -> Identity \cup {Product}]
  /\ Product \notin Identity
  /\ Payload \in [Raw -> {"usable", "unusable", "broken"}]
  /\ SourceOf \in [Raw -> Source]
  /\ None \notin Raw

ASSUME BoundAssumption ==
  /\ Limit \in Nat \ {0}
  /\ MaxCrashes \in Nat
  /\ MaxFaults \in Nat

\* As many sessions as the database has connections for.
ASSUME SessionAssumption == IsFiniteSet(Normalizers) /\ IsFiniteSet(Processors)

VARIABLES
  status,       \* raw_collections.processing_status, "absent" before collection
  row_of,       \* normalized table: row |-> the raw it comes from, None if free
  analytics_status,  \* normalized table: analytics_status of a row
  analytics,    \* analytics table: number of rows for a normalized row
  versions,     \* normalizer_versions: the sources this normalizer is registered for
  norm,         \* normalizer sessions
  proc,         \* analytics sessions: the rows still to be processed
  crashes,
  faults

vars == <<status, row_of, analytics_status, analytics, versions, norm, proc,
          crashes, faults>>
-----------------------------------------------------------------------------
RawStatus == {"absent", "normalization_pending", "normalized", "ignored",
              "normalization_failed"}
AnalyticsStatus == {"pending", "processed", "failed"}

\* todo:    loaded and not yet handled
\* at:      the raw whose transaction is open, None between two items
\* saved:   save_normalized returned 1 (else 0) in the open transaction
\* missing: ensure_normalizer_version found no version row and inserts one
\* ensured: the instance's _version_ensured flag
Session == [todo: SUBSET Raw, at: Raw \cup {None}, saved: BOOLEAN,
            missing: BOOLEAN, ensured: BOOLEAN]
IdleSession == [todo |-> {}, at |-> None, saved |-> FALSE, missing |-> FALSE,
                ensured |-> FALSE]

\* load_raw(limit), load_normalized(limit): Limit of the pending items or all
\* of them when they are fewer.
Batches(pending) ==
  {S \in SUBSET pending :
     /\ S # {}
     /\ Cardinality(S) <= Limit
     /\ Cardinality(S) < Limit => S = pending}

Collected == {r \in Raw : status[r] # "absent"}      \* mutant: no filter
Pending == {r \in Raw : status[r] = "normalization_pending"}
PendingRows == {w \in Row : row_of[w] # None /\ analytics_status[w] = "pending"}
RowsOf(r) == {w \in Row : row_of[w] = r}
FreeRows == {w \in Row : row_of[w] = None}
HoldsIdentity(i) == {w \in Row : row_of[w] # None /\ IdentityOf[row_of[w]] = i}

\* Another session has inserted the identity and not committed: the unique
\* index makes ON CONFLICT DO NOTHING wait for it.
Blocked(n, r) ==
  /\ IdentityOf[r] # Product
  /\ \E m \in Normalizers \ {n} :
       /\ norm[m].at # None
       /\ norm[m].saved
       /\ IdentityOf[norm[m].at] = IdentityOf[r]

\* save_normalized inserts a product every time; a candle only when the unique
\* constraint on its identity lets it.
SavesAnyway(r) == Payload[r] = "usable"    \* mutant: no ON CONFLICT
SavesRow(r) ==
  /\ Payload[r] = "usable"
  /\ IdentityOf[r] # Product => HoldsIdentity(IdentityOf[r]) = {}

\* ensure_normalizer_version looks the version row up once per instance.
InsertsVersion(n, r) == ~norm[n].ensured   \* mutant: no lookup
NeedsVersion(n, r) == ~norm[n].ensured /\ SourceOf[r] \notin versions
-----------------------------------------------------------------------------
Init ==
  /\ status = [r \in Raw |-> "absent"]
  /\ row_of = [w \in Row |-> None]
  /\ analytics_status = [w \in Row |-> "pending"]
  /\ analytics = [w \in Row |-> 0]
  /\ versions = {}
  /\ norm = [n \in Normalizers |-> IdleSession]
  /\ proc = [p \in Processors |-> {}]
  /\ crashes = 0
  /\ faults = 0

normVars == <<row_of, analytics_status, analytics, versions>>

\* A collector commits a new RAW row (RawCollectionService.save).
Collect(r) ==
  /\ status[r] = "absent"
  /\ status' = [status EXCEPT ![r] = "normalization_pending"]
  /\ UNCHANGED <<normVars, norm, proc, crashes, faults>>

\* A new normalizer instance loads its batch.
StartNormalizing(n) ==
  /\ norm[n] = IdleSession
  /\ \E batch \in Batches(Pending) :
       norm' = [norm EXCEPT ![n].todo = batch]
  /\ UNCHANGED <<status, normVars, proc, crashes, faults>>

\* normalize, save_normalized (flush), stamp_normalized and the query of
\* ensure_normalizer_version, in the session's open transaction.
SaveNormalized(n, r) ==
  /\ norm[n].at = None
  /\ r \in norm[n].todo
  /\ Payload[r] # "broken"
  /\ ~Blocked(n, r)
  /\ norm' = [norm EXCEPT ![n] =
               [todo |-> @.todo, at |-> r, saved |-> SavesRow(r),
                missing |-> SavesRow(r) /\ NeedsVersion(n, r),
                ensured |-> @.ensured]]
  /\ UNCHANGED <<status, normVars, proc, crashes, faults>>

\* The session is done with r; the loop ends with its last item.
NextItem(n, r, ensured) ==
  norm' = [norm EXCEPT ![n] =
             IF norm[n].todo = {r} THEN IdleSession
             ELSE [IdleSession EXCEPT !.todo = norm[n].todo \ {r},
                                      !.ensured = ensured]]

\* mutant: the row is lost
CommitStatusOnly(n) ==
  LET r == norm[n].at IN
  /\ r # None
  /\ ~(norm[n].missing /\ SourceOf[r] \in versions)
  /\ status' = [status EXCEPT ![r] = "normalized"]
  /\ NextItem(n, r, norm[n].saved \/ norm[n].ensured)
  /\ UNCHANGED <<normVars, proc, crashes, faults>>

\* The version row is flushed, the status set and the transaction committed.
CommitNormalized(n) ==
  LET r == norm[n].at IN
  /\ r # None
  /\ ~(norm[n].missing /\ SourceOf[r] \in versions)
  /\ IF norm[n].saved
     THEN /\ \E w \in FreeRows : row_of' = [row_of EXCEPT ![w] = r]
          /\ status' = [status EXCEPT ![r] = "normalized"]
          /\ versions' = IF norm[n].missing THEN versions \cup {SourceOf[r]}
                         ELSE versions
     ELSE /\ status' = [status EXCEPT ![r] = "ignored"]
          /\ UNCHANGED <<row_of, versions>>
  /\ NextItem(n, r, norm[n].saved \/ norm[n].ensured)
  /\ UNCHANGED <<analytics_status, analytics, proc, crashes, faults>>

Fail(n, r, ensured, s) ==
  /\ status' = [status EXCEPT ![r] = s]
  /\ NextItem(n, r, ensured)
  /\ UNCHANGED <<normVars, proc, crashes>>

\* mutants: a failure recorded as ignored, as pending
FailAsIgnored(n, r, ensured) == Fail(n, r, ensured, "ignored")
FailAsPending(n, r, ensured) == Fail(n, r, ensured, "normalization_pending")

\* The except clause: rollback, then a second transaction writes the failure.
RecordFailure(n, r, ensured) == Fail(n, r, ensured, "normalization_failed")

\* normalize() raises on the payload.
NormalizeRaises(n, r) ==
  /\ norm[n].at = None
  /\ r \in norm[n].todo
  /\ Payload[r] = "broken"
  /\ RecordFailure(n, r, norm[n].ensured)
  /\ UNCHANGED faults

\* Another session committed the version row after this one looked for it:
\* the flush raises IntegrityError and the item's work is rolled back.
VersionConflict(n) ==
  /\ norm[n].at # None
  /\ norm[n].missing /\ SourceOf[norm[n].at] \in versions
  /\ RecordFailure(n, norm[n].at, norm[n].ensured)
  /\ UNCHANGED faults

\* A database error in the open transaction.  The flag _version_ensured is set
\* once the version row is flushed and survives the rollback.
DatabaseError(n) ==
  /\ norm[n].at # None
  /\ faults < MaxFaults
  /\ faults' = faults + 1
  /\ \E ensured \in {norm[n].ensured, norm[n].ensured \/ norm[n].saved} :
       RecordFailure(n, norm[n].at, ensured)

\* The process dies: PostgreSQL rolls the open transaction back.
CrashNormalizer(n) ==
  /\ norm[n] # IdleSession
  /\ crashes < MaxCrashes
  /\ crashes' = crashes + 1
  /\ norm' = [norm EXCEPT ![n] = IdleSession]
  /\ UNCHANGED <<status, normVars, proc, faults>>
-----------------------------------------------------------------------------
StartAnalytics(p) ==
  /\ proc[p] = {}
  /\ \E batch \in Batches(PendingRows) : proc' = [proc EXCEPT ![p] = batch]
  /\ UNCHANGED <<status, normVars, norm, crashes, faults>>

\* calculate, save_analytics, stamp_analytics and the commit.
ProcessRow(p, w) ==
  /\ w \in proc[p]
  /\ analytics' = [analytics EXCEPT ![w] = @ + 1]
  /\ analytics_status' = [analytics_status EXCEPT ![w] = "processed"]
  /\ proc' = [proc EXCEPT ![p] = @ \ {w}]
  /\ UNCHANGED <<status, row_of, versions, norm, crashes, faults>>

FailRow(p, w, s) ==
  /\ w \in proc[p]
  /\ faults < MaxFaults
  /\ faults' = faults + 1
  /\ analytics_status' = [analytics_status EXCEPT ![w] = s]
  /\ proc' = [proc EXCEPT ![p] = @ \ {w}]
  /\ UNCHANGED <<status, row_of, analytics, versions, norm, crashes>>

\* The except clause of the analytics loop.
AnalyticsSkips(p, w) == FailRow(p, w, "processed")    \* mutant
AnalyticsFails(p, w) == FailRow(p, w, "failed")

CrashProcessor(p) ==
  /\ proc[p] # {}
  /\ crashes < MaxCrashes
  /\ crashes' = crashes + 1
  /\ proc' = [proc EXCEPT ![p] = {}]
  /\ UNCHANGED <<status, normVars, norm, faults>>

NormalizerStep(n) ==
  \/ StartNormalizing(n)
  \/ \E r \in Raw : SaveNormalized(n, r) \/ NormalizeRaises(n, r)
  \/ CommitNormalized(n)
  \/ VersionConflict(n)

ProcessorStep(p) ==
  \/ StartAnalytics(p)
  \/ \E w \in Row : ProcessRow(p, w)

Next ==
  \/ \E r \in Raw : Collect(r)
  \/ \E n \in Normalizers :
       NormalizerStep(n) \/ DatabaseError(n) \/ CrashNormalizer(n)
  \/ \E p \in Processors :
       \/ ProcessorStep(p)
       \/ \E w \in Row : AnalyticsFails(p, w)
       \/ CrashProcessor(p)

Spec == Init /\ [][Next]_vars

\* worker.py loops over both stages for ever, and the container restarts it:
\* each step of a run is taken unless the process dies.
Fairness ==
  /\ \A n \in Normalizers : WF_vars(NormalizerStep(n))
  /\ \A p \in Processors : WF_vars(ProcessorStep(p))

FairSpec == Spec /\ Fairness
-----------------------------------------------------------------------------
(***************************************************************************)
(* Properties                                                              *)
(***************************************************************************)
TypeOK ==
  /\ status \in [Raw -> RawStatus]
  /\ row_of \in [Row -> Raw \cup {None}]
  /\ analytics_status \in [Row -> AnalyticsStatus]
  /\ analytics \in [Row -> Nat]
  /\ versions \subseteq Source
  /\ norm \in [Normalizers -> Session]
  /\ proc \in [Processors -> SUBSET Row]
  /\ crashes \in Nat /\ faults \in Nat

\* Two normalized candles never share (source, symbol, timeframe, timestamp),
\* whatever sessions race: the ON CONFLICT of CryptoSnapshotNormalizer.
CandleUnique ==
  \A v, w \in Row :
    (/\ row_of[v] # None /\ row_of[w] # None
     /\ IdentityOf[row_of[v]] = IdentityOf[row_of[w]]
     /\ IdentityOf[row_of[v]] # Product) => v = w

\* A RAW row that a session marked normalized owns at least one normalized row: the
\* status and the row are committed together, and no racing session undoes the row.
NormalizedHasRow ==
  \A r \in Raw : status[r] = "normalized" => RowsOf(r) # {}

\* No usable payload is dropped: a usable RAW row ends up ignored only when its
\* candle is already stored (by itself or by another RAW row).
IgnoredIsStored ==
  \A r \in Raw :
    status[r] = "ignored" /\ Payload[r] = "usable"
      => IdentityOf[r] # Product /\ HoldsIdentity(IdentityOf[r]) # {}

\* Only usable payloads reach the normalized tables, and a RAW row in them has
\* left the pending state for good: no later load picks it up again.
RowsAreSettled ==
  \A w \in Row :
    row_of[w] # None =>
      /\ Payload[row_of[w]] = "usable"
      /\ status[row_of[w]] \notin {"absent", "normalization_pending"}

\* A normalized row marked processed has its analytics, and however analytics
\* sessions overlap each of them adds at most one: what was processed or failed is
\* never pending again, and only what is pending is loaded
\* (BaseAnalyticsProcessor.run).
AnalyticsFollowStatus ==
  \A w \in Row :
    /\ analytics_status[w] = "processed" => analytics[w] > 0
    /\ analytics[w] <= Cardinality(Processors)

\* A RAW row has at most as many normalized rows as there are normalizer
\* sessions: sessions that loaded it together each add theirs, but once one of
\* them is done nobody loads it again (BaseNormalizer.run).
RowsFollowOverlap ==
  \A r \in Raw : Cardinality(RowsOf(r)) <= Cardinality(Normalizers)

FailedOf(s) ==
  {r \in Raw : SourceOf[r] = s /\ Payload[r] = "usable"
               /\ status[r] = "normalization_failed"}

\* Without a database fault usable RAW rows are left failed, a state no job
\* retries, only by sessions that registered their source at the same time: one
\* for each session but the one that won (ensure_normalizer_version).
FailuresFollowOverlap ==
  faults = 0 =>
    \A s \in Source :
      FailedOf(s) # {} => Cardinality(FailedOf(s)) < Cardinality(Normalizers)

\* What an open transaction knows of the tables, the part of the inductive
\* invariant that TypeOK and the invariants above leave out: the insert of a
\* saved item cannot meet its identity any more, neither in the tables nor in
\* another open transaction; a usable item that saved nothing found its
\* identity stored; and a session only holds collected items.
OpenSession(n) ==
  /\ \A r \in norm[n].todo : status[r] # "absent"
  /\ norm[n].at # None => norm[n].at \in norm[n].todo
  /\ norm[n].at # None /\ norm[n].saved =>
       /\ Payload[norm[n].at] = "usable"
       /\ IdentityOf[norm[n].at] # Product =>
            /\ HoldsIdentity(IdentityOf[norm[n].at]) = {}
            /\ ~Blocked(n, norm[n].at)
  /\ norm[n].at # None /\ ~norm[n].saved /\ Payload[norm[n].at] = "usable" =>
       /\ IdentityOf[norm[n].at] # Product
       /\ HoldsIdentity(IdentityOf[norm[n].at]) # {}
OpenSessions == \A n \in Normalizers : OpenSession(n)

\* The RAW layer as a queue: whatever its sessions do to each other, an item
\* settled is never pending again and a stored candle is neither taken back nor
\* stored a second time.
Queue == INSTANCE RawQueue WITH
  Item <- Raw, KeyOf <- IdentityOf, NoKey <- Product,
  pending <- Pending,
  settled <- {r \in Raw : status[r] \notin {"absent", "normalization_pending"}},
  stored <- {r \in Raw : RowsOf(r) # {}}
ImplementsQueue == Queue!Spec

\* SELF_HEALING_ARCHITECTURE.md counts on an "idempotent normalize_job" when two
\* of them race: normalizing a RAW row again must add nothing.
AtMostOneRowPerRaw ==
  \A v, w \in Row : row_of[v] # None /\ row_of[v] = row_of[w] => v = w

\* One session alone leaves no usable RAW row failed without a database fault.
UsableNeverFails ==
  faults = 0 =>
    \A r \in Raw : Payload[r] = "usable" => status[r] # "normalization_failed"

\* Every collected RAW row is eventually handled, in spite of crashes, faults
\* and payloads that always raise: nothing blocks the queue for ever.
PendingIsHandled ==
  \A r \in Raw :
    status[r] = "normalization_pending" ~> status[r] # "normalization_pending"
=============================================================================
