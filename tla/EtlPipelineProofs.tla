------------------------- MODULE EtlPipelineProofs -------------------------
(***************************************************************************)
(* EtlPipeline for every set of RAW rows, sessions and bounds: the type    *)
(* invariant, the safety invariants from their inductive conjunction, the  *)
(* refinement of RawQueue, how many rows, failures and analytics           *)
(* overlapping sessions can leave behind, and that none of them is stuck.  *)
(***************************************************************************)
EXTENDS EtlPipeline, FiniteSetTheorems, TLAPS

USE DataAssumption, BoundAssumption
-----------------------------------------------------------------------------
\* The initial state is well typed.
LEMMA TypeInit == Init => TypeOK
  BY DEF Init, TypeOK, RawStatus, AnalyticsStatus, Session, IdleSession

\* No step of any session leaves the types.
LEMMA TypeStep == TypeOK /\ [Next]_vars => TypeOK'
<1> SUFFICES ASSUME TypeOK, [Next]_vars PROVE TypeOK'
  OBVIOUS
<1> USE DEF TypeOK, normVars
<1>1. CASE UNCHANGED vars
  BY <1>1 DEF vars
<1>2. ASSUME NEW r \in Raw, Collect(r) PROVE TypeOK'
  BY <1>2 DEF Collect, RawStatus
<1>3. ASSUME NEW n \in Normalizers, StartNormalizing(n) PROVE TypeOK'
  BY <1>3 DEF StartNormalizing, Batches, Pending, Session
<1>4. ASSUME NEW n \in Normalizers, NEW r \in Raw, SaveNormalized(n, r)
      PROVE TypeOK'
  <2>1. ASSUME NEW s \in BOOLEAN, NEW m \in BOOLEAN
        PROVE [todo |-> norm[n].todo, at |-> r, saved |-> s, missing |-> m,
               ensured |-> norm[n].ensured] \in Session
    BY DEF Session
  <2>2. /\ SavesRow(r) \in BOOLEAN
        /\ (SavesRow(r) /\ NeedsVersion(n, r)) \in BOOLEAN
    BY DEF SavesRow, NeedsVersion
  <2>3. [todo |-> norm[n].todo, at |-> r, saved |-> SavesRow(r),
         missing |-> SavesRow(r) /\ NeedsVersion(n, r),
         ensured |-> norm[n].ensured] \in Session
    BY <2>1, <2>2, Zenon
  <2>4. norm' \in [Normalizers -> Session]
    BY <1>4, <2>3 DEF SaveNormalized
  <2> QED BY <1>4, <2>4 DEF SaveNormalized
<1>5. ASSUME NEW n \in Normalizers, NEW r \in Raw, NEW e \in BOOLEAN,
             NextItem(n, r, e)
      PROVE norm' \in [Normalizers -> Session]
  BY <1>5 DEF NextItem, Session, IdleSession
<1>6. ASSUME NEW n \in Normalizers, CommitNormalized(n) PROVE TypeOK'
  <2> DEFINE r == norm[n].at
  <2>1. r \in Raw /\ norm[n].saved \in BOOLEAN /\ norm[n].ensured \in BOOLEAN
    BY <1>6 DEF CommitNormalized, Session
  <2>2. norm' \in [Normalizers -> Session]
    BY <1>5, <1>6, <2>1 DEF CommitNormalized
  <2>3. CASE norm[n].saved
    <3>1. /\ row_of' \in [Row -> Raw \cup {None}]
          /\ status' \in [Raw -> RawStatus]
          /\ versions' \subseteq Source
      BY <1>6, <2>1, <2>3 DEF CommitNormalized, RawStatus, FreeRows
    <3> QED BY <1>6, <2>2, <3>1 DEF CommitNormalized
  <2>4. CASE ~norm[n].saved
    BY <1>6, <2>1, <2>2, <2>4 DEF CommitNormalized, RawStatus
  <2> QED BY <2>1, <2>3, <2>4
<1>7. ASSUME NEW n \in Normalizers, NEW r \in Raw, NEW e \in BOOLEAN,
             RecordFailure(n, r, e), faults' \in Nat
      PROVE TypeOK'
  BY <1>5, <1>7 DEF RecordFailure, Fail, RawStatus
<1>8. ASSUME NEW n \in Normalizers PROVE norm[n] \in Session
  BY <1>8
<1>9. ASSUME NEW n \in Normalizers, NEW r \in Raw, NormalizeRaises(n, r)
      PROVE TypeOK'
  BY <1>7, <1>8, <1>9 DEF NormalizeRaises, Session
<1>10. ASSUME NEW n \in Normalizers, VersionConflict(n) PROVE TypeOK'
  BY <1>7, <1>8, <1>10 DEF VersionConflict, Session
<1>11. ASSUME NEW n \in Normalizers, DatabaseError(n) PROVE TypeOK'
  <2>1. norm[n].at \in Raw /\ faults' \in Nat
        /\ {norm[n].ensured, norm[n].ensured \/ norm[n].saved} \subseteq BOOLEAN
    BY <1>8, <1>11 DEF DatabaseError, Session
  <2>2. PICK e \in {norm[n].ensured, norm[n].ensured \/ norm[n].saved} :
          RecordFailure(n, norm[n].at, e)
    BY <1>11 DEF DatabaseError
  <2>3. e \in BOOLEAN
    BY <2>1, Zenon
  <2> QED BY <1>7, <2>1, <2>2, <2>3
<1>12. ASSUME NEW n \in Normalizers, CrashNormalizer(n) PROVE TypeOK'
  BY <1>12 DEF CrashNormalizer, Session, IdleSession
<1>13. ASSUME NEW p \in Processors, StartAnalytics(p) PROVE TypeOK'
  BY <1>13 DEF StartAnalytics, Batches, PendingRows
<1>14. ASSUME NEW p \in Processors, NEW w \in Row, ProcessRow(p, w)
       PROVE TypeOK'
  BY <1>14 DEF ProcessRow, AnalyticsStatus
<1>15. ASSUME NEW p \in Processors, NEW w \in Row, AnalyticsFails(p, w)
       PROVE TypeOK'
  BY <1>15 DEF AnalyticsFails, FailRow, AnalyticsStatus
<1>16. ASSUME NEW p \in Processors, CrashProcessor(p) PROVE TypeOK'
  BY <1>16 DEF CrashProcessor
<1> QED
  BY <1>1, <1>2, <1>3, <1>4, <1>6, <1>9, <1>10, <1>11, <1>12, <1>13, <1>14,
     <1>15, <1>16 DEF Next, NormalizerStep, ProcessorStep

\* Every state of the pipeline is well typed.
THEOREM TypeCorrect == Spec => []TypeOK
<1> QED BY TypeInit, TypeStep, PTL DEF Spec
-----------------------------------------------------------------------------
\* The safety invariants support each other: a candle insert is unique because
\* its session still sees the identity free (OpenSessions), the session keeps
\* seeing that because no other one may hold it (Blocked), and a RAW row is
\* collected before any of its rows exist (RowsAreSettled).
ProcessedHasAnalytics ==
  \A w \in Row : analytics_status[w] = "processed" => analytics[w] > 0
Safety ==
  /\ CandleUnique /\ NormalizedHasRow /\ IgnoredIsStored /\ RowsAreSettled
  /\ ProcessedHasAnalytics
IInv == TypeOK /\ Safety /\ OpenSessions

\* n's transaction is over, or n holds nothing yet: nobody waits for it.
Released(n) ==
  /\ norm'[n].at = None
  /\ norm'[n].todo \subseteq norm[n].todo
  /\ \A m \in Normalizers \ {n} : norm'[m] = norm[m]

\* Going to the next item releases the session.
LEMMA NextItemReleases ==
  ASSUME TypeOK, NEW n \in Normalizers, NEW r \in Raw, NEW e \in BOOLEAN,
         NextItem(n, r, e)
  PROVE  Released(n)
BY DEF NextItem, Released, TypeOK, Session, IdleSession

\* A release blocks no session that was not blocked before.
LEMMA ReleaseUnblocks ==
  ASSUME TypeOK, NEW n \in Normalizers, Released(n),
         NEW m \in Normalizers, NEW r \in Raw, Blocked(m, r)'
  PROVE  Blocked(m, r)
<1>1. IdentityOf[r] # Product
  BY DEF Blocked
<1>2. PICK k \in Normalizers \ {m} :
        norm'[k].at # None /\ norm'[k].saved /\ IdentityOf[norm'[k].at] = IdentityOf[r]
  BY DEF Blocked
<1>3. k # n
  BY <1>2 DEF Released
<1>4. norm'[k] = norm[k]
  BY <1>2, <1>3 DEF Released
<1> QED BY <1>1, <1>2, <1>4 DEF Blocked

\* Stored rows keep their RAW row.
LEMMA IdentitiesStay ==
  ASSUME NEW i, \A w \in Row : row_of[w] # None => row_of'[w] = row_of[w]
  PROVE  HoldsIdentity(i) \subseteq HoldsIdentity(i)'
BY DEF HoldsIdentity

\* The sessions' knowledge survives a step that releases n, stores nothing and
\* makes no RAW row absent.
LEMMA SessionsAfterRelease ==
  ASSUME TypeOK, OpenSessions, NEW n \in Normalizers, Released(n),
         UNCHANGED row_of,
         \A r \in Raw : status[r] # "absent" => status'[r] # "absent"
  PROVE  OpenSessions'
<1> SUFFICES ASSUME NEW m \in Normalizers PROVE OpenSession(m)'
  BY DEF OpenSessions
<1>1. OpenSession(m) /\ norm[m] \in Session
  BY DEF OpenSessions, TypeOK
<1>2. \A r \in norm'[m].todo : status'[r] # "absent"
  <2>1. norm'[m].todo \subseteq norm[m].todo
    BY DEF Released
  <2> QED BY <1>1, <2>1 DEF OpenSession, Session
<1>3. CASE m = n
  BY <1>2, <1>3 DEF OpenSession, Released
<1>4. CASE m # n
  <2>1. norm'[m] = norm[m]
    BY <1>4 DEF Released
  <2>2. \A i : HoldsIdentity(i)' = HoldsIdentity(i)
    BY DEF HoldsIdentity
  <2>3. norm[m].at # None => (Blocked(m, norm[m].at)' => Blocked(m, norm[m].at))
    <3> SUFFICES ASSUME norm[m].at # None, Blocked(m, norm[m].at)' 
                 PROVE Blocked(m, norm[m].at)
      OBVIOUS
    <3>1. norm[m].at \in Raw
      BY <1>1 DEF Session
    <3> QED BY <3>1, <2>1, ReleaseUnblocks
  <2> QED BY <1>1, <1>2, <2>1, <2>2, <2>3 DEF OpenSession
<1> QED BY <1>3, <1>4

\* A step that stores nothing and only moves RAW row r, which is collected and
\* not normalized by it, keeps the invariants on the tables.
LEMMA TablesAfterStatus ==
  ASSUME TypeOK, Safety, NEW r \in Raw, NEW s \in RawStatus,
         status' = [status EXCEPT ![r] = s],
         UNCHANGED <<row_of, analytics_status, analytics>>,
         s \notin {"absent", "normalized"},
         s = "normalization_pending" => status[r] = "absent",
         s = "ignored" /\ Payload[r] = "usable" =>
           IdentityOf[r] # Product /\ HoldsIdentity(IdentityOf[r]) # {}
  PROVE  Safety'
<1> USE DEF Safety
<1>1. CandleUnique'
  BY DEF CandleUnique
<1>2. NormalizedHasRow'
  BY DEF NormalizedHasRow, RowsOf, TypeOK
<1>3. IgnoredIsStored'
  <2> SUFFICES ASSUME NEW q \in Raw, status'[q] = "ignored", Payload[q] = "usable"
               PROVE IdentityOf[q] # Product /\ HoldsIdentity(IdentityOf[q])' # {}
    BY DEF IgnoredIsStored
  <2>1. HoldsIdentity(IdentityOf[q])' = HoldsIdentity(IdentityOf[q])
    BY DEF HoldsIdentity
  <2>2. CASE q = r
    BY <2>1, <2>2 DEF TypeOK
  <2>3. CASE q # r
    BY <2>1, <2>3 DEF IgnoredIsStored, TypeOK
  <2> QED BY <2>2, <2>3
<1>4. RowsAreSettled'
  <2> SUFFICES ASSUME NEW w \in Row, row_of[w] # None
               PROVE /\ Payload[row_of[w]] = "usable"
                     /\ status'[row_of[w]] \notin {"absent", "normalization_pending"}
    BY DEF RowsAreSettled
  <2>1. row_of[w] \in Raw
    BY DEF TypeOK
  <2>2. /\ Payload[row_of[w]] = "usable"
        /\ status[row_of[w]] \notin {"absent", "normalization_pending"}
    BY DEF RowsAreSettled
  <2> QED BY <2>1, <2>2 DEF TypeOK
<1>5. ProcessedHasAnalytics'
  BY DEF ProcessedHasAnalytics
<1> QED BY <1>1, <1>2, <1>3, <1>4, <1>5

\* The initial state is safe.
LEMMA SafetyInit == Init => IInv
<1> SUFFICES ASSUME Init PROVE Safety /\ OpenSessions
  BY TypeInit DEF IInv
<1>1. Safety
  BY DEF Init, Safety, CandleUnique, NormalizedHasRow, IgnoredIsStored,
         RowsAreSettled, ProcessedHasAnalytics
<1>2. OpenSessions
  BY DEF Init, OpenSessions, OpenSession, IdleSession
<1> QED BY <1>1, <1>2

\* A collector's commit.
LEMMA CollectSafe ==
  ASSUME IInv, NEW r \in Raw, Collect(r) PROVE Safety' /\ OpenSessions'
<1>1. Safety'
  <2>1. "normalization_pending" \in RawStatus
    BY DEF RawStatus
  <2> QED BY <2>1, TablesAfterStatus DEF IInv, Collect, normVars
<1>2. OpenSessions'
  <2> SUFFICES ASSUME NEW n \in Normalizers PROVE OpenSession(n)'
    BY DEF OpenSessions
  <2>1. OpenSession(n) /\ norm[n] \in Session /\ UNCHANGED <<norm, row_of>>
    BY DEF IInv, OpenSessions, TypeOK, Collect, normVars
  <2>2. \A q \in Raw : status[q] # "absent" => status'[q] # "absent"
    BY DEF Collect, IInv, TypeOK
  <2>3. \A i : HoldsIdentity(i)' = HoldsIdentity(i)
    BY <2>1 DEF HoldsIdentity
  <2>4. \A q : Blocked(n, q)' = Blocked(n, q)
    BY <2>1 DEF Blocked
  <2> QED BY <2>1, <2>2, <2>3, <2>4 DEF OpenSession, Session
<1> QED BY <1>1, <1>2

\* A failure recorded for the item a session works on.
LEMMA RecordFailureSafe ==
  ASSUME IInv, NEW n \in Normalizers, NEW r \in norm[n].todo, NEW e \in BOOLEAN,
         RecordFailure(n, r, e)
  PROVE  Safety' /\ OpenSessions'
<1>1. r \in Raw
  BY DEF IInv, TypeOK, Session
<1>2. Safety'
  <2>1. "normalization_failed" \in RawStatus
    BY DEF RawStatus
  <2> QED BY <1>1, <2>1, TablesAfterStatus DEF IInv, RecordFailure, Fail, normVars
<1>3. Released(n)
  BY <1>1, NextItemReleases DEF IInv, RecordFailure, Fail
<1>4. \A q \in Raw : status[q] # "absent" => status'[q] # "absent"
  BY <1>1 DEF IInv, TypeOK, RecordFailure, Fail
<1>5. OpenSessions'
  BY <1>3, <1>4, SessionsAfterRelease DEF IInv, RecordFailure, Fail, normVars
<1> QED BY <1>2, <1>5

\* Steps that leave the tables of candles and RAW rows alone.
LEMMA TablesUntouched ==
  ASSUME Safety, UNCHANGED <<status, row_of, analytics_status, analytics>>
  PROVE  Safety'
BY DEF Safety, CandleUnique, NormalizedHasRow, RowsOf, IgnoredIsStored,
       HoldsIdentity, RowsAreSettled, ProcessedHasAnalytics

\* The insert of an item in a session's open transaction: it waits for the
\* sessions that hold its identity, so that nobody who holds one is blocked.
LEMMA SaveSafe ==
  ASSUME IInv, NEW n \in Normalizers, NEW r \in Raw, SaveNormalized(n, r)
  PROVE  Safety' /\ OpenSessions'
<1>1. Safety'
  BY TablesUntouched DEF IInv, SaveNormalized, normVars
<1>2. /\ norm'[n].todo = norm[n].todo /\ norm'[n].at = r
      /\ norm'[n].saved = SavesRow(r)
      /\ \A m \in Normalizers \ {n} : norm'[m] = norm[m]
      /\ UNCHANGED <<status, row_of>>
  BY DEF SaveNormalized, normVars, IInv, TypeOK
<1>3. ASSUME NEW i PROVE HoldsIdentity(i)' = HoldsIdentity(i)
  BY <1>2 DEF HoldsIdentity
<1>4. ~Blocked(n, r) /\ r \in norm[n].todo /\ r # None
  BY DEF SaveNormalized
<1>5. ~Blocked(n, r)'
  BY <1>2, <1>4 DEF Blocked
<1>6. SavesRow(r) =>
        /\ Payload[r] = "usable"
        /\ IdentityOf[r] # Product => HoldsIdentity(IdentityOf[r]) = {}
  BY DEF SavesRow
<1>7. ~SavesRow(r) /\ Payload[r] = "usable" =>
        IdentityOf[r] # Product /\ HoldsIdentity(IdentityOf[r]) # {}
  BY DEF SavesRow
<1>8. OpenSession(n)'
  <2>1. OpenSession(n)
    BY DEF IInv, OpenSessions
  <2> QED BY <2>1, <1>2, <1>3, <1>4, <1>5, <1>6, <1>7 DEF OpenSession
<1>9. ASSUME NEW m \in Normalizers \ {n} PROVE OpenSession(m)'
  <2>1. OpenSession(m) /\ norm'[m] = norm[m]
    BY <1>2 DEF IInv, OpenSessions
  <2>2. CASE norm[m].at # None /\ norm[m].saved
    <3>1. ASSUME IdentityOf[norm[m].at] # Product PROVE ~Blocked(m, norm[m].at)'
      <4> SUFFICES ASSUME Blocked(m, norm[m].at)' PROVE FALSE
        OBVIOUS
      <4>1. PICK k \in Normalizers \ {m} :
              /\ norm'[k].at # None /\ norm'[k].saved
              /\ IdentityOf[norm'[k].at] = IdentityOf[norm[m].at]
        BY <2>1 DEF Blocked
      <4>2. ~Blocked(m, norm[m].at)
        BY <2>1, <2>2, <3>1 DEF OpenSession
      <4>3. CASE k = n
        <5>1. IdentityOf[norm[m].at] = IdentityOf[r]
          BY <4>1, <4>3, <1>2
        <5> QED BY <5>1, <3>1, <2>2, <1>4 DEF Blocked
      <4>4. CASE k # n
        BY <4>1, <4>2, <4>4, <3>1, <1>2 DEF Blocked
      <4> QED BY <4>3, <4>4
    <3> QED BY <3>1, <2>1, <2>2, <1>2, <1>3 DEF OpenSession
  <2>3. CASE ~(norm[m].at # None /\ norm[m].saved)
    BY <2>1, <2>3, <1>2, <1>3 DEF OpenSession
  <2> QED BY <2>2, <2>3
<1> QED BY <1>1, <1>8, <1>9 DEF OpenSessions

\* A batch is loaded: all its items are pending, hence collected.
LEMMA StartSafe ==
  ASSUME IInv, NEW n \in Normalizers, StartNormalizing(n)
  PROVE  Safety' /\ OpenSessions'
<1>1. Safety'
  BY TablesUntouched DEF IInv, StartNormalizing, normVars
<1>2. /\ norm'[n].at = None /\ norm[n].at = None
      /\ \A r \in norm'[n].todo : status[r] # "absent"
      /\ \A m \in Normalizers \ {n} : norm'[m] = norm[m]
      /\ UNCHANGED <<status, row_of>>
  <2>1. PICK batch \in Batches(Pending) : norm' = [norm EXCEPT ![n].todo = batch]
    BY DEF StartNormalizing
  <2>2. \A r \in batch : status[r] # "absent"
    BY DEF Batches, Pending
  <2> QED BY <2>1, <2>2 DEF StartNormalizing, IdleSession, normVars, IInv, TypeOK
<1>3. ASSUME NEW i PROVE HoldsIdentity(i)' = HoldsIdentity(i)
  BY <1>2 DEF HoldsIdentity
<1>4. ASSUME NEW m \in Normalizers, NEW r, Blocked(m, r)' PROVE Blocked(m, r)
  <2>1. PICK k \in Normalizers \ {m} :
          /\ norm'[k].at # None /\ norm'[k].saved
          /\ IdentityOf[norm'[k].at] = IdentityOf[r]
    BY <1>4 DEF Blocked
  <2>2. k # n
    BY <2>1, <1>2
  <2>3. norm'[k] = norm[k]
    BY <2>2, <1>2
  <2> QED BY <2>1, <2>3, <1>4 DEF Blocked
<1>5. ASSUME NEW m \in Normalizers PROVE OpenSession(m)'
  <2>1. OpenSession(m)
    BY DEF IInv, OpenSessions
  <2>2. CASE m = n
    BY <2>2, <1>2 DEF OpenSession
  <2>3. CASE m # n
    BY <2>1, <2>3, <1>2, <1>3, <1>4 DEF OpenSession
  <2> QED BY <2>2, <2>3
<1> QED BY <1>1, <1>5 DEF OpenSessions

\* The commit of an item that saved its row: the new row is the only one of its
\* identity, and the sessions still holding an item hold another identity.
LEMMA StoreSafe ==
  ASSUME IInv, NEW n \in Normalizers, CommitNormalized(n), norm[n].saved
  PROVE  Safety' /\ OpenSessions'
<1> DEFINE r == norm[n].at
<1>1. /\ r \in Raw /\ r # None
      /\ norm[n] \in Session /\ OpenSession(n)
  BY DEF IInv, TypeOK, Session, CommitNormalized, OpenSessions
<1>2. PICK w \in FreeRows : row_of' = [row_of EXCEPT ![w] = r]
  BY DEF CommitNormalized
<1>3. /\ w \in Row /\ row_of[w] = None /\ row_of'[w] = r
      /\ \A v \in Row \ {w} : row_of'[v] = row_of[v]
      /\ \A v \in Row : row_of[v] # None => v # w /\ row_of'[v] = row_of[v]
  BY <1>2 DEF FreeRows, IInv, TypeOK
<1>4. /\ status'[r] = "normalized"
      /\ \A q \in Raw \ {r} : status'[q] = status[q]
      /\ UNCHANGED <<analytics_status, analytics>>
  BY <1>1 DEF CommitNormalized, IInv, TypeOK
<1>5. /\ Payload[r] = "usable"
      /\ IdentityOf[r] # Product =>
           HoldsIdentity(IdentityOf[r]) = {} /\ ~Blocked(n, r)
  BY <1>1 DEF OpenSession
<1>6. ASSUME NEW i PROVE HoldsIdentity(i) \subseteq HoldsIdentity(i)'
  BY <1>3, IdentitiesStay
<1>7. CandleUnique'
  <2> SUFFICES ASSUME NEW u \in Row, NEW v \in Row,
                      row_of'[u] # None, row_of'[v] # None,
                      IdentityOf[row_of'[u]] = IdentityOf[row_of'[v]],
                      IdentityOf[row_of'[u]] # Product
               PROVE u = v
    BY DEF CandleUnique
  <2>1. ASSUME NEW x \in Row, x # w, row_of'[x] # None,
               IdentityOf[row_of'[x]] = IdentityOf[r], IdentityOf[r] # Product
        PROVE FALSE
    BY <2>1, <1>3, <1>5 DEF HoldsIdentity
  <2>2. CASE u # w /\ v # w
    BY <2>2, <1>3 DEF IInv, Safety, CandleUnique
  <2>3. CASE u = w /\ v # w
    BY <2>1, <2>3, <1>3
  <2>4. CASE u # w /\ v = w
    BY <2>1, <2>4, <1>3
  <2> QED BY <2>2, <2>3, <2>4
<1>8. NormalizedHasRow'
  <2> SUFFICES ASSUME NEW q \in Raw, status'[q] = "normalized"
               PROVE \E v \in Row : row_of'[v] = q
    BY DEF NormalizedHasRow, RowsOf
  <2>1. CASE q = r
    BY <2>1, <1>3
  <2>2. CASE q # r
    <3>1. PICK v \in Row : row_of[v] = q
      BY <2>2, <1>4 DEF IInv, Safety, NormalizedHasRow, RowsOf
    <3> QED BY <3>1, <1>3
  <2> QED BY <2>1, <2>2
<1>9. IgnoredIsStored'
  <2> SUFFICES ASSUME NEW q \in Raw, status'[q] = "ignored", Payload[q] = "usable"
               PROVE IdentityOf[q] # Product /\ HoldsIdentity(IdentityOf[q])' # {}
    BY DEF IgnoredIsStored
  <2>1. IdentityOf[q] # Product /\ HoldsIdentity(IdentityOf[q]) # {}
    BY <1>4 DEF IInv, Safety, IgnoredIsStored
  <2> QED BY <2>1, <1>6
<1>10. RowsAreSettled'
  <2> SUFFICES ASSUME NEW v \in Row, row_of'[v] # None
               PROVE /\ Payload[row_of'[v]] = "usable"
                     /\ status'[row_of'[v]] \notin {"absent", "normalization_pending"}
    BY DEF RowsAreSettled
  <2>1. CASE row_of'[v] = r
    BY <2>1, <1>4, <1>5
  <2>2. CASE row_of'[v] # r
    <3>1. row_of'[v] = row_of[v] /\ row_of[v] \in Raw
      BY <2>2, <1>3 DEF IInv, TypeOK
    <3> QED BY <2>2, <3>1, <1>4 DEF IInv, Safety, RowsAreSettled
  <2> QED BY <2>1, <2>2
<1>11. ProcessedHasAnalytics'
  BY <1>4 DEF IInv, Safety, ProcessedHasAnalytics
<1>12. Released(n)
  <2>1. (norm[n].saved \/ norm[n].ensured) \in BOOLEAN
    OBVIOUS
  <2>2. NextItem(n, r, norm[n].saved \/ norm[n].ensured)
    BY DEF CommitNormalized
  <2> QED BY <1>1, <2>1, <2>2, NextItemReleases DEF IInv
<1>13. ASSUME NEW m \in Normalizers PROVE OpenSession(m)'
  <2>1. OpenSession(m) /\ norm[m] \in Session
    BY DEF IInv, TypeOK, OpenSessions
  <2>2. \A q \in norm'[m].todo : status'[q] # "absent"
    <3>1. norm'[m].todo \subseteq norm[m].todo /\ norm[m].todo \subseteq Raw
      BY <1>12, <2>1 DEF Released, Session
    <3> QED BY <2>1, <3>1, <1>4 DEF OpenSession
  <2>3. CASE m = n
    BY <2>2, <2>3, <1>12 DEF OpenSession, Released
  <2>4. CASE m # n
    <3>1. norm'[m] = norm[m]
      BY <2>4, <1>12 DEF Released
    <3>2. CASE norm[m].at # None /\ norm[m].saved
      <4>0. PICK a \in Raw : a = norm[m].at
        BY <2>1, <3>2 DEF Session
      <4>1. Payload[a] = "usable"
        BY <2>1, <3>2, <4>0 DEF OpenSession
      <4>2. ASSUME IdentityOf[a] # Product
            PROVE HoldsIdentity(IdentityOf[a])' = {} /\ ~Blocked(m, a)'
        <5>1. HoldsIdentity(IdentityOf[a]) = {} /\ ~Blocked(m, a)
          BY <2>1, <3>2, <4>0, <4>2 DEF OpenSession
        <5>2. IdentityOf[a] # IdentityOf[r]
          <6>1. n \in Normalizers \ {m}
            BY <2>4
          <6> QED BY <5>1, <4>2, <6>1, <1>1, Zenon DEF Blocked
        <5>3. HoldsIdentity(IdentityOf[a])' = {}
          <6>1. ASSUME NEW v \in Row, row_of'[v] # None,
                       IdentityOf[row_of'[v]] = IdentityOf[a]
                PROVE  FALSE
            <7>1. v # w
              BY <6>1, <5>2, <1>3
            <7>2. v \in HoldsIdentity(IdentityOf[a])
              BY <6>1, <7>1, <1>3 DEF HoldsIdentity
            <7> QED BY <7>2, <5>1
          <6> QED BY <6>1 DEF HoldsIdentity
        <5>4. ~Blocked(m, a)'
          BY <5>1, <1>12, ReleaseUnblocks DEF IInv
        <5> QED BY <5>3, <5>4
      <4> QED BY <2>1, <2>2, <3>1, <3>2, <4>0, <4>1, <4>2 DEF OpenSession
    <3>3. CASE ~(norm[m].at # None /\ norm[m].saved)
      BY <2>1, <2>2, <3>1, <3>3, <1>6 DEF OpenSession
    <3> QED BY <3>2, <3>3
  <2> QED BY <2>3, <2>4
<1> QED
  BY <1>7, <1>8, <1>9, <1>10, <1>11, <1>13 DEF Safety, OpenSessions

\* The commit of an item that saved nothing.
LEMMA IgnoreSafe ==
  ASSUME IInv, NEW n \in Normalizers, CommitNormalized(n), ~norm[n].saved
  PROVE  Safety' /\ OpenSessions'
<1> DEFINE r == norm[n].at
<1>1. /\ r \in Raw /\ r # None
      /\ norm[n] \in Session /\ OpenSession(n)
  BY DEF IInv, TypeOK, Session, CommitNormalized, OpenSessions
<1>2. /\ status' = [status EXCEPT ![r] = "ignored"]
      /\ UNCHANGED <<row_of, analytics_status, analytics>>
  BY DEF CommitNormalized
<1>3. Payload[r] = "usable" =>
        IdentityOf[r] # Product /\ HoldsIdentity(IdentityOf[r]) # {}
  BY <1>1 DEF OpenSession
<1>4. Safety'
  <2>1. "ignored" \in RawStatus
    BY DEF RawStatus
  <2> QED BY <2>1, <1>1, <1>2, <1>3, TablesAfterStatus DEF IInv
<1>5. Released(n)
  <2>1. (norm[n].saved \/ norm[n].ensured) \in BOOLEAN
    OBVIOUS
  <2>2. NextItem(n, r, norm[n].saved \/ norm[n].ensured)
    BY DEF CommitNormalized
  <2> QED BY <1>1, <2>1, <2>2, NextItemReleases DEF IInv
<1>6. OpenSessions'
  <2>1. \A q \in Raw : status[q] # "absent" => status'[q] # "absent"
    BY <1>1, <1>2 DEF IInv, TypeOK
  <2> QED BY <2>1, <1>2, <1>5, SessionsAfterRelease DEF IInv
<1> QED BY <1>4, <1>6

\* Steps of the analytics sessions do not concern the normalizers'.
LEMMA SessionsUntouched ==
  ASSUME OpenSessions, UNCHANGED <<status, row_of, norm>>
  PROVE  OpenSessions'
BY DEF OpenSessions, OpenSession, Blocked, HoldsIdentity

\* The analytics steps write the count before or together with "processed".
LEMMA AnalyticsSafe ==
  ASSUME IInv, UNCHANGED <<status, row_of>>,
         \A w \in Row : analytics_status'[w] = "processed" => analytics'[w] > 0
  PROVE  Safety'
BY DEF IInv, Safety, CandleUnique, NormalizedHasRow, RowsOf, IgnoredIsStored,
       HoldsIdentity, RowsAreSettled, ProcessedHasAnalytics

\* Every step of the pipeline preserves the invariant.
LEMMA SafetyStep == IInv /\ [Next]_vars => IInv'
<1> SUFFICES ASSUME IInv, [Next]_vars PROVE Safety' /\ OpenSessions'
  BY TypeStep DEF IInv
<1> DEFINE Goal == Safety' /\ OpenSessions'
<1>1. CASE UNCHANGED vars
  BY <1>1, TablesUntouched, SessionsUntouched DEF IInv, vars
<1>2. ASSUME NEW n \in Normalizers PROVE norm[n] \in Session /\ OpenSession(n)
  BY <1>2 DEF IInv, TypeOK, OpenSessions
<1>3. ASSUME NEW n \in Normalizers, CommitNormalized(n) PROVE Goal
  BY <1>3, StoreSafe, IgnoreSafe
<1>4. ASSUME NEW n \in Normalizers, NEW r \in Raw, NormalizeRaises(n, r) PROVE Goal
  BY <1>2, <1>4, RecordFailureSafe DEF NormalizeRaises, Session
<1>5. ASSUME NEW n \in Normalizers, VersionConflict(n) PROVE Goal
  BY <1>2, <1>5, RecordFailureSafe DEF VersionConflict, Session, OpenSession
<1>6. ASSUME NEW n \in Normalizers, DatabaseError(n) PROVE Goal
  <2>1. PICK e \in {norm[n].ensured, norm[n].ensured \/ norm[n].saved} :
          RecordFailure(n, norm[n].at, e)
    BY <1>6 DEF DatabaseError
  <2>2. {norm[n].ensured, norm[n].ensured \/ norm[n].saved} \subseteq BOOLEAN
    BY <1>2 DEF Session
  <2>3. e \in BOOLEAN
    BY <2>2, Zenon
  <2>4. norm[n].at \in norm[n].todo
    BY <1>2, <1>6 DEF DatabaseError, OpenSession
  <2> QED BY <2>1, <2>3, <2>4, RecordFailureSafe
<1>7. ASSUME NEW n \in Normalizers, CrashNormalizer(n) PROVE Goal
  <2>1. Released(n) /\ UNCHANGED <<status, row_of, analytics_status, analytics>>
    BY <1>2, <1>7 DEF CrashNormalizer, Released, IdleSession, normVars, IInv, TypeOK
  <2> QED BY <2>1, TablesUntouched, SessionsAfterRelease DEF IInv
<1>8. ASSUME NEW p \in Processors, StartAnalytics(p) \/ CrashProcessor(p) PROVE Goal
  BY <1>8, TablesUntouched, SessionsUntouched
     DEF IInv, StartAnalytics, CrashProcessor, normVars
<1>9. ASSUME NEW p \in Processors, NEW w \in Row, ProcessRow(p, w) PROVE Goal
  <2>1. /\ UNCHANGED <<status, row_of, norm>>
        /\ analytics'[w] > 0
        /\ \A v \in Row \ {w} : /\ analytics'[v] = analytics[v]
                                /\ analytics_status'[v] = analytics_status[v]
    BY <1>9 DEF ProcessRow, IInv, TypeOK
  <2>2. \A v \in Row : analytics_status'[v] = "processed" => analytics'[v] > 0
    BY <2>1 DEF IInv, Safety, ProcessedHasAnalytics
  <2> QED BY <2>1, <2>2, AnalyticsSafe, SessionsUntouched DEF IInv
<1>10. ASSUME NEW p \in Processors, NEW w \in Row, AnalyticsFails(p, w) PROVE Goal
  <2>1. /\ UNCHANGED <<status, row_of, norm, analytics>>
        /\ analytics_status' = [analytics_status EXCEPT ![w] = "failed"]
    BY <1>10 DEF AnalyticsFails, FailRow
  <2>2. \A v \in Row : analytics_status'[v] = "processed" => analytics'[v] > 0
    BY <2>1 DEF IInv, TypeOK, Safety, ProcessedHasAnalytics
  <2> QED BY <2>1, <2>2, AnalyticsSafe, SessionsUntouched DEF IInv
<1> QED
  BY <1>1, <1>3, <1>4, <1>5, <1>6, <1>7, <1>8, <1>9, <1>10,
     CollectSafe, StartSafe, SaveSafe
  DEF Next, NormalizerStep, ProcessorStep

\* The inductive invariant holds.
THEOREM Invariance == Spec => []IInv
<1> QED BY SafetyInit, SafetyStep, PTL DEF Spec

\* No interleaving of any number of sessions stores a candle twice: the lookup
\* of ON CONFLICT DO NOTHING and the wait on the unique index are enough.
THEOREM CandlesAreUnique == Spec => []CandleUnique
<1>1. IInv => CandleUnique
  BY DEF IInv, Safety
<1> QED BY <1>1, Invariance, PTL

\* No RAW row is marked normalized without a normalized row of its own.
THEOREM NormalizedRawsHaveRows == Spec => []NormalizedHasRow
<1>1. IInv => NormalizedHasRow
  BY DEF IInv, Safety
<1> QED BY <1>1, Invariance, PTL

\* No usable RAW row is marked ignored unless its candle is stored.
THEOREM NothingUsableIsDropped == Spec => []IgnoredIsStored
<1>1. IInv => IgnoredIsStored
  BY DEF IInv, Safety
<1> QED BY <1>1, Invariance, PTL

\* Rows come from usable payloads whose RAW row has left the queue.
THEOREM StoredRowsAreSettled == Spec => []RowsAreSettled
<1>1. IInv => RowsAreSettled
  BY DEF IInv, Safety
<1> QED BY <1>1, Invariance, PTL
-----------------------------------------------------------------------------
\* EtlPipeline implements RawQueue: every commit of a normalizer session settles
\* the item it worked on, a collected row joins the queue, every other step is a
\* stuttering step. The refinement mapping of Queue:
settled == {r \in Raw : status[r] \notin {"absent", "normalization_pending"}}
stored == {r \in Raw : RowsOf(r) # {}}
-----------------------------------------------------------------------------
\* A step that changes neither the statuses nor the rows is invisible.
LEMMA Stutter ==
  ASSUME UNCHANGED <<status, row_of>> PROVE UNCHANGED Queue!vars
BY DEF Queue!vars, Pending, RowsOf

\* Moving one collected RAW row to a final status settles it.
LEMMA StatusSettles ==
  ASSUME TypeOK, NEW r \in Raw, status[r] # "absent",
         NEW s \in RawStatus \ {"absent", "normalization_pending"},
         status' = [status EXCEPT ![r] = s]
  PROVE  /\ r \in Pending \cup settled
         /\ Pending' = Pending \ {r}
         /\ settled' = settled \cup {r}
BY DEF TypeOK, Pending, settled

\* A collected RAW row that is settled without a new row.
LEMMA SettleWithoutRow ==
  ASSUME TypeOK, NEW r \in Raw, status[r] # "absent", UNCHANGED row_of,
         NEW s \in RawStatus \ {"absent", "normalization_pending"},
         status' = [status EXCEPT ![r] = s]
  PROVE  Queue!Settle(r)
<1>1. UNCHANGED stored
  BY DEF stored, RowsOf
<1> QED BY <1>1, StatusSettles DEF Queue!Settle, settled, stored

\* A recorded failure settles its item.
LEMMA FailureSettles ==
  ASSUME IInv, NEW n \in Normalizers, NEW r \in norm[n].todo, NEW e,
         RecordFailure(n, r, e)
  PROVE  \E q \in Raw : Queue!Settle(q)
<1>1. r \in Raw /\ status[r] # "absent"
  BY DEF IInv, TypeOK, Session, OpenSessions, OpenSession
<1>2. "normalization_failed" \in RawStatus \ {"absent", "normalization_pending"}
  BY DEF RawStatus
<1>3. status' = [status EXCEPT ![r] = "normalization_failed"] /\ UNCHANGED row_of
  BY DEF RecordFailure, Fail, normVars
<1>4. Queue!Settle(r)
  BY <1>1, <1>2, <1>3, SettleWithoutRow DEF IInv
<1> QED BY <1>1, <1>4

\* A commit settles its item, and stores it only when its key is free.
LEMMA CommitSettles ==
  ASSUME IInv, NEW n \in Normalizers, CommitNormalized(n)
  PROVE  \E q \in Raw : Queue!Settle(q)
<1>1. PICK r \in Raw : r = norm[n].at /\ r # None
  BY DEF CommitNormalized, IInv, TypeOK, Session
<1>2. OpenSession(n) /\ r \in norm[n].todo /\ status[r] # "absent"
  BY <1>1 DEF IInv, OpenSessions, OpenSession
<1>3. {"normalized", "ignored"} \subseteq RawStatus \ {"absent", "normalization_pending"}
  BY DEF RawStatus
<1>4. CASE ~norm[n].saved
  <2>1. status' = [status EXCEPT ![r] = "ignored"] /\ UNCHANGED row_of
    BY <1>1, <1>4 DEF CommitNormalized
  <2>2. Queue!Settle(r)
    BY <2>1, <1>2, <1>3, SettleWithoutRow DEF IInv
  <2> QED BY <2>2
<1>5. CASE norm[n].saved
  <2>1. status' = [status EXCEPT ![r] = "normalized"]
    BY <1>1, <1>5 DEF CommitNormalized
  <2>2. PICK w \in FreeRows : row_of' = [row_of EXCEPT ![w] = r]
    BY <1>1, <1>5 DEF CommitNormalized
  <2>3. /\ w \in Row /\ row_of[w] = None /\ row_of'[w] = r
        /\ \A v \in Row \ {w} : row_of'[v] = row_of[v]
    BY <2>2 DEF FreeRows, IInv, TypeOK
  <2>4. stored' = stored \cup {r}
    <3>1. ASSUME NEW q \in Raw, q # r PROVE RowsOf(q)' = RowsOf(q)
      BY <2>3, <3>1, DataAssumption DEF RowsOf, DataAssumption
    <3>2. w \in RowsOf(r)'
      BY <2>3 DEF RowsOf
    <3> QED BY <3>1, <3>2 DEF stored
  <2>5. ASSUME IdentityOf[r] # Product, NEW q \in stored
        PROVE  IdentityOf[q] # IdentityOf[r]
    <3>1. HoldsIdentity(IdentityOf[r]) = {}
      BY <1>1, <1>2, <1>5, <2>5 DEF OpenSession
    <3>2. PICK v \in Row : row_of[v] = q /\ q \in Raw
      BY DEF stored, RowsOf
    <3>3. row_of[v] # None
      BY <3>2, DataAssumption DEF DataAssumption
    <3> QED BY <3>1, <3>2, <3>3 DEF HoldsIdentity
  <2>6. Queue!Free(r)
    BY <2>5 DEF Queue!Free, stored
  <2>7. Queue!Settle(r)
    BY <2>1, <2>4, <2>6, <1>2, <1>3, StatusSettles
    DEF IInv, Queue!Settle, settled, stored
  <2> QED BY <2>7
<1> QED BY <1>4, <1>5

\* A collected RAW row joins the queue.
LEMMA CollectEnqueues ==
  ASSUME IInv, NEW r \in Raw, Collect(r) PROVE Queue!Enqueue(r)
<1>1. status' = [status EXCEPT ![r] = "normalization_pending"] /\ status[r] = "absent"
      /\ UNCHANGED row_of
  BY DEF Collect, normVars
<1>2. /\ r \notin Pending \cup settled
      /\ Pending' = Pending \cup {r}
      /\ settled' = settled
  BY <1>1 DEF Pending, settled, IInv, TypeOK
<1>3. stored' = stored
  BY <1>1 DEF stored, RowsOf
<1> QED BY <1>2, <1>3 DEF Queue!Enqueue, settled, stored

\* Every step of the pipeline is a step of the queue or invisible to it.
LEMMA StepRefines == IInv /\ [Next]_vars => [Queue!Next]_(Queue!vars)
<1> SUFFICES ASSUME IInv, [Next]_vars PROVE [Queue!Next]_(Queue!vars)
  OBVIOUS
<1>1. CASE UNCHANGED vars
  BY <1>1, Stutter DEF vars
<1>2. ASSUME NEW n \in Normalizers PROVE norm[n] \in Session /\ OpenSession(n)
  BY <1>2 DEF IInv, TypeOK, OpenSessions
<1>3. ASSUME NEW r \in Raw, Collect(r) PROVE Queue!Next
  BY <1>3, CollectEnqueues DEF Queue!Next
<1>4. ASSUME NEW n \in Normalizers, NEW r \in Raw, NormalizeRaises(n, r)
      PROVE  Queue!Next
  BY <1>4, FailureSettles DEF NormalizeRaises, Queue!Next
<1>5. ASSUME NEW n \in Normalizers, VersionConflict(n) PROVE Queue!Next
  BY <1>2, <1>5, FailureSettles DEF VersionConflict, OpenSession, Queue!Next
<1>6. ASSUME NEW n \in Normalizers, DatabaseError(n) PROVE Queue!Next
  BY <1>2, <1>6, FailureSettles DEF DatabaseError, OpenSession, Queue!Next
<1>7. ASSUME NEW n \in Normalizers, CommitNormalized(n) PROVE Queue!Next
  BY <1>7, CommitSettles DEF Queue!Next
<1>8. ASSUME NEW n \in Normalizers,
             \/ StartNormalizing(n) \/ CrashNormalizer(n)
             \/ \E r \in Raw : SaveNormalized(n, r)
      PROVE  UNCHANGED Queue!vars
  BY <1>8, Stutter DEF StartNormalizing, CrashNormalizer, SaveNormalized, normVars
<1>9. ASSUME NEW p \in Processors,
             \/ StartAnalytics(p) \/ CrashProcessor(p)
             \/ \E w \in Row : ProcessRow(p, w) \/ AnalyticsFails(p, w)
      PROVE  UNCHANGED Queue!vars
  BY <1>9, Stutter
  DEF StartAnalytics, CrashProcessor, ProcessRow, AnalyticsFails, FailRow, normVars
<1> QED
  BY <1>1, <1>3, <1>4, <1>5, <1>6, <1>7, <1>8, <1>9
  DEF Next, NormalizerStep, ProcessorStep

\* The queue starts empty.
LEMMA InitRefines == Init => Queue!Init
<1> SUFFICES ASSUME Init PROVE Queue!Init
  OBVIOUS
<1>1. \A r \in Raw : status[r] = "absent"
  BY DEF Init
<1>2. \A w \in Row : row_of[w] \notin Raw
  BY DataAssumption DEF Init, DataAssumption
<1>3. Pending = {} /\ settled = {}
  BY <1>1 DEF Pending, settled
<1>4. stored = {}
  BY <1>2 DEF stored, RowsOf
<1> QED BY <1>3, <1>4 DEF Queue!Init, settled, stored

\* The pipeline implements the queue, for any number of sessions and RAW rows.
THEOREM PipelineImplementsQueue == Spec => ImplementsQueue
<1> QED
  BY InitRefines, StepRefines, Invariance, PTL DEF Spec, ImplementsQueue, Queue!Spec
-----------------------------------------------------------------------------
(***************************************************************************)
(* What overlap costs.  A session that holds an item may still add a row,  *)
(* a failure or an analytics row for it, so each of the three counts is    *)
(* bounded together with the sessions that may still raise it; and no      *)
(* session starts on an item once one of them is done with it.             *)
(***************************************************************************)
Holders(r) == {n \in Normalizers : r \in norm[n].todo}
\* The sessions whose open transaction inserts the version row of s.
Registering(s) ==
  {n \in Normalizers :
     norm[n].at # None /\ norm[n].missing /\ SourceOf[norm[n].at] = s}
Analysts(w) == {p \in Processors : w \in proc[p]}

RowsCounted(r) ==
  /\ IsFiniteSet(RowsOf(r))
  /\ Cardinality(RowsOf(r)) + Cardinality(Holders(r)) <= Cardinality(Normalizers)
FailuresCounted(s) ==
  /\ IsFiniteSet(FailedOf(s))
  /\ s \notin versions => FailedOf(s) = {}
  /\ s \in versions =>
       Cardinality(FailedOf(s)) + Cardinality(Registering(s))
         <= Cardinality(Normalizers) - 1
AnalyticsCounted(w) ==
  /\ analytics_status[w] = "pending" => analytics[w] = 0
  /\ analytics[w] + Cardinality(Analysts(w)) <= Cardinality(Processors)
Overlap ==
  /\ \A r \in Raw : RowsCounted(r)
  /\ faults = 0 => \A s \in Source : FailuresCounted(s)
  /\ \A w \in Row : AnalyticsCounted(w)

\* A count and the sessions that may raise it can only shrink...
LEMMA CountShrinks ==
  ASSUME NEW A, NEW H, IsFiniteSet(A), IsFiniteSet(H), NEW M \in Int,
         Cardinality(A) + Cardinality(H) <= M,
         NEW A1 \in SUBSET A, NEW H1 \in SUBSET H
  PROVE  IsFiniteSet(A1) /\ Cardinality(A1) + Cardinality(H1) <= M
<1>1. /\ IsFiniteSet(A1) /\ Cardinality(A1) <= Cardinality(A)
      /\ IsFiniteSet(H1) /\ Cardinality(H1) <= Cardinality(H)
  BY FS_Subset
<1>2. /\ Cardinality(A) \in Nat /\ Cardinality(A1) \in Nat
      /\ Cardinality(H) \in Nat /\ Cardinality(H1) \in Nat
  BY <1>1, FS_CardinalityType
<1> QED BY <1>1, <1>2

\* ... or a session trades its claim for one more.
LEMMA CountMoves ==
  ASSUME NEW A, NEW H, IsFiniteSet(A), IsFiniteSet(H), NEW M \in Int,
         Cardinality(A) + Cardinality(H) <= M,
         NEW a, NEW n \in H,
         NEW A1 \in SUBSET (A \cup {a}), NEW H1 \in SUBSET (H \ {n})
  PROVE  IsFiniteSet(A1) /\ Cardinality(A1) + Cardinality(H1) <= M
<1>1. IsFiniteSet(A \cup {a}) /\ Cardinality(A \cup {a}) \in Nat
      /\ Cardinality(A) \in Nat /\ Cardinality(H) \in Nat
  BY FS_AddElement, FS_CardinalityType
<1>2. Cardinality(A \cup {a}) <= Cardinality(A) + 1
  BY <1>1, FS_AddElement
<1>3. IsFiniteSet(H \ {n}) /\ Cardinality(H \ {n}) = Cardinality(H) - 1
  BY FS_RemoveElement
<1>4. Cardinality(A \cup {a}) + Cardinality(H \ {n}) <= M
  BY <1>1, <1>2, <1>3
<1> QED BY <1>1, <1>3, <1>4, CountShrinks

\* Sets of sessions are finite.
LEMMA SessionsFinite ==
  /\ Cardinality(Normalizers) \in Nat /\ Cardinality(Processors) \in Nat
  /\ \A S \in SUBSET Normalizers :
       /\ IsFiniteSet(S) /\ Cardinality(S) \in Nat
       /\ Cardinality(S) <= Cardinality(Normalizers)
  /\ \A S \in SUBSET Processors :
       /\ IsFiniteSet(S) /\ Cardinality(S) \in Nat
       /\ Cardinality(S) <= Cardinality(Processors)
<1>1. IsFiniteSet(Normalizers) /\ IsFiniteSet(Processors)
  BY SessionAssumption
<1> QED BY <1>1, FS_Subset, FS_CardinalityType

\* Nothing is counted at the start.
LEMMA OverlapInit == Init => Overlap
<1> SUFFICES ASSUME Init PROVE Overlap
  OBVIOUS
<1>1. Cardinality({}) = 0 /\ IsFiniteSet({})
  BY FS_EmptySet
<1>2. ASSUME NEW r \in Raw PROVE RowsCounted(r)
  <2>1. RowsOf(r) = {} /\ Holders(r) = {}
    BY DEF Init, RowsOf, Holders, IdleSession, DataAssumption
  <2> QED BY <2>1, <1>1, SessionsFinite DEF RowsCounted
<1>3. ASSUME NEW s \in Source PROVE FailuresCounted(s)
  <2>1. FailedOf(s) = {} /\ s \notin versions
    BY DEF Init, FailedOf
  <2> QED BY <2>1, <1>1 DEF FailuresCounted
<1>4. ASSUME NEW w \in Row PROVE AnalyticsCounted(w)
  <2>1. analytics[w] = 0 /\ Analysts(w) = {}
    BY DEF Init, Analysts
  <2> QED BY <2>1, <1>1, SessionsFinite DEF AnalyticsCounted
<1> QED BY <1>2, <1>3, <1>4 DEF Overlap
-----------------------------------------------------------------------------
\* A step that stores nothing and loads nothing.
LEMMA RowsUntouched ==
  ASSUME Overlap, UNCHANGED row_of,
         \A n \in Normalizers : norm'[n].todo \subseteq norm[n].todo,
         NEW r \in Raw
  PROVE  RowsCounted(r)'
<1>1. RowsOf(r)' \subseteq RowsOf(r) /\ Holders(r)' \subseteq Holders(r)
  BY DEF RowsOf, Holders
<1>2. /\ IsFiniteSet(RowsOf(r)) /\ IsFiniteSet(Holders(r))
      /\ Cardinality(RowsOf(r)) + Cardinality(Holders(r)) <= Cardinality(Normalizers)
  BY SessionsFinite DEF Overlap, RowsCounted, Holders
<1> QED BY <1>1, <1>2, SessionsFinite, CountShrinks DEF RowsCounted

\* Loading a batch: the items loaded have no rows yet.
LEMMA RowsOfLoaded ==
  ASSUME IInv, Overlap, NEW n \in Normalizers, StartNormalizing(n), NEW r \in Raw
  PROVE  RowsCounted(r)'
<1>1. PICK batch \in Batches(Pending) : norm' = [norm EXCEPT ![n].todo = batch]
  BY DEF StartNormalizing
<1>2. UNCHANGED row_of
  BY DEF StartNormalizing, normVars
<1>3. RowsOf(r)' = RowsOf(r)
  BY <1>2 DEF RowsOf
<1>4. CASE r \in Pending
  <2>1. RowsOf(r) = {}
    BY <1>4 DEF Pending, RowsOf, IInv, Safety, RowsAreSettled, DataAssumption
  <2>2. Holders(r)' \in SUBSET Normalizers
    BY DEF Holders
  <2> QED BY <1>3, <2>1, <2>2, SessionsFinite, FS_EmptySet DEF RowsCounted
<1>5. CASE r \notin Pending
  <2>1. Holders(r)' \subseteq Holders(r)
    BY <1>1, <1>5 DEF Holders, Batches, IInv, TypeOK, Session
  <2>2. /\ IsFiniteSet(RowsOf(r)) /\ IsFiniteSet(Holders(r))
        /\ Cardinality(RowsOf(r)) + Cardinality(Holders(r))
             <= Cardinality(Normalizers)
    BY SessionsFinite DEF Overlap, RowsCounted, Holders
  <2> QED BY <1>3, <2>1, <2>2, SessionsFinite, CountShrinks DEF RowsCounted
<1> QED BY <1>4, <1>5

\* A commit trades the claim of its session for a row.
LEMMA RowsOfCommitted ==
  ASSUME IInv, Overlap, NEW n \in Normalizers, CommitNormalized(n), norm[n].saved,
         NEW q \in Raw
  PROVE  RowsCounted(q)'
<1>1. PICK r \in Raw : r = norm[n].at /\ r \in norm[n].todo /\ r # None
  BY DEF CommitNormalized, IInv, TypeOK, Session, OpenSessions, OpenSession
<1>2. PICK w \in FreeRows : row_of' = [row_of EXCEPT ![w] = r]
  BY <1>1 DEF CommitNormalized
<1>3. /\ \A m \in Normalizers : norm'[m].todo \subseteq norm[m].todo
      /\ r \notin norm'[n].todo
  BY <1>1 DEF CommitNormalized, NextItem, IdleSession, IInv, TypeOK, Session
<1>4. /\ IsFiniteSet(RowsOf(q)) /\ IsFiniteSet(Holders(q))
      /\ Cardinality(RowsOf(q)) + Cardinality(Holders(q)) <= Cardinality(Normalizers)
  BY SessionsFinite DEF Overlap, RowsCounted, Holders
<1>5. CASE q = r
  <2>1. /\ RowsOf(q)' \subseteq RowsOf(q) \cup {w}
        /\ n \in Holders(q) /\ Holders(q)' \subseteq Holders(q) \ {n}
    BY <1>1, <1>2, <1>3, <1>5 DEF RowsOf, Holders, IInv, TypeOK
  <2>2. /\ RowsOf(q)' \in SUBSET (RowsOf(q) \cup {w})
        /\ Holders(q)' \in SUBSET (Holders(q) \ {n})
        /\ Cardinality(Normalizers) \in Int
    BY <2>1, SessionsFinite
  <2>3. /\ IsFiniteSet(RowsOf(q)')
        /\ Cardinality(RowsOf(q)') + Cardinality(Holders(q)')
             <= Cardinality(Normalizers)
    BY <1>4, <2>1, <2>2, CountMoves, Zenon
  <2> QED BY <2>3 DEF RowsCounted
<1>6. CASE q # r
  <2>1. RowsOf(q)' \subseteq RowsOf(q) /\ Holders(q)' \subseteq Holders(q)
    BY <1>2, <1>3, <1>6 DEF RowsOf, Holders, IInv, TypeOK
  <2> QED BY <1>4, <2>1, SessionsFinite, CountShrinks DEF RowsCounted
<1> QED BY <1>5, <1>6
-----------------------------------------------------------------------------
\* A step that fails no usable item, registers no source and adds no session
\* that would register a known one.
LEMMA FailuresUntouched ==
  ASSUME NEW s \in Source, FailuresCounted(s), UNCHANGED versions,
         FailedOf(s)' \subseteq FailedOf(s),
         s \in versions => Registering(s)' \subseteq Registering(s)
  PROVE  FailuresCounted(s)'
<1>1. CASE s \notin versions
  <2>1. FailedOf(s)' = {}
    BY <1>1 DEF FailuresCounted
  <2> QED BY <2>1, <1>1, FS_EmptySet DEF FailuresCounted
<1>2. CASE s \in versions
  <2>1. /\ IsFiniteSet(FailedOf(s)) /\ IsFiniteSet(Registering(s))
        /\ Cardinality(FailedOf(s)) + Cardinality(Registering(s))
             <= Cardinality(Normalizers) - 1
    BY <1>2, SessionsFinite DEF FailuresCounted, Registering
  <2>2. Cardinality(Normalizers) - 1 \in Int
    BY SessionsFinite
  <2> QED BY <1>2, <2>1, <2>2, CountShrinks DEF FailuresCounted
<1> QED BY <1>1, <1>2

\* A session that did not win the registration fails its item.
LEMMA FailuresOfConflict ==
  ASSUME IInv, NEW n \in Normalizers, VersionConflict(n),
         NEW s \in Source, FailuresCounted(s)
  PROVE  FailuresCounted(s)'
<1>1. PICK r \in Raw : r = norm[n].at /\ r # None /\ norm[n].missing
                       /\ SourceOf[r] \in versions
  BY DEF VersionConflict, IInv, TypeOK, Session
<1>2. /\ status' = [status EXCEPT ![r] = "normalization_failed"]
      /\ UNCHANGED versions
      /\ norm'[n].at = None
      /\ \A m \in Normalizers \ {n} : norm'[m] = norm[m]
  BY <1>1 DEF VersionConflict, RecordFailure, Fail, normVars, NextItem,
              IdleSession, IInv, TypeOK
<1>3. CASE SourceOf[r] = s
  <2>1. /\ IsFiniteSet(FailedOf(s)) /\ IsFiniteSet(Registering(s))
        /\ Cardinality(FailedOf(s)) + Cardinality(Registering(s))
             <= Cardinality(Normalizers) - 1
    BY <1>1, <1>3, SessionsFinite DEF FailuresCounted, Registering
  <2>2. Cardinality(Normalizers) - 1 \in Int
    BY SessionsFinite
  <2>3. /\ FailedOf(s)' \subseteq FailedOf(s) \cup {r}
        /\ n \in Registering(s) /\ Registering(s)' \subseteq Registering(s) \ {n}
    BY <1>1, <1>2, <1>3 DEF FailedOf, Registering, IInv, TypeOK
  <2>4. /\ FailedOf(s)' \in SUBSET (FailedOf(s) \cup {r})
        /\ Registering(s)' \in SUBSET (Registering(s) \ {n})
    BY <2>3
  <2> DEFINE M == Cardinality(Normalizers) - 1
  <2> HIDE DEF M
  <2>5. M \in Int /\ Cardinality(FailedOf(s)) + Cardinality(Registering(s)) <= M
    BY <2>1, <2>2 DEF M
  <2>6. n \in Registering(s) /\ IsFiniteSet(FailedOf(s)) /\ IsFiniteSet(Registering(s))
    BY <2>1, <2>3
  <2>7. /\ IsFiniteSet(FailedOf(s)')
        /\ Cardinality(FailedOf(s)') + Cardinality(Registering(s)') <= M
    BY <2>4, <2>5, <2>6, CountMoves, Zenon
  <2> QED BY <1>1, <1>2, <1>3, <2>7 DEF FailuresCounted, M
<1>4. CASE SourceOf[r] # s
  <2>1. FailedOf(s)' \subseteq FailedOf(s) /\ Registering(s)' \subseteq Registering(s)
    BY <1>1, <1>2, <1>4 DEF FailedOf, Registering, IInv, TypeOK
  <2> QED BY <1>2, <2>1, FailuresUntouched
<1> QED BY <1>3, <1>4

\* The session that wins it has failed nothing.
LEMMA FailuresOfCommit ==
  ASSUME IInv, NEW n \in Normalizers, CommitNormalized(n),
         NEW s \in Source, FailuresCounted(s)
  PROVE  FailuresCounted(s)'
<1>1. PICK r \in Raw : r = norm[n].at /\ r # None
                       /\ ~(norm[n].missing /\ SourceOf[r] \in versions)
  BY DEF CommitNormalized, IInv, TypeOK, Session
<1>2. /\ status' \in {[status EXCEPT ![r] = "normalized"],
                      [status EXCEPT ![r] = "ignored"]}
      /\ versions' \in {versions, versions \cup {SourceOf[r]}}
      /\ versions' # versions => norm[n].missing
      /\ norm'[n].at = None
      /\ \A m \in Normalizers \ {n} : norm'[m] = norm[m]
  BY <1>1 DEF CommitNormalized, NextItem, IdleSession, IInv, TypeOK
<1>3. /\ FailedOf(s)' \subseteq FailedOf(s)
      /\ Registering(s)' \subseteq Registering(s) \ {n}
  BY <1>1, <1>2 DEF FailedOf, Registering, IInv, TypeOK
<1>4. CASE s \in versions <=> s \in versions'
  <2>1. CASE s \in versions
    <3>1. /\ IsFiniteSet(FailedOf(s)) /\ IsFiniteSet(Registering(s))
          /\ Cardinality(FailedOf(s)) + Cardinality(Registering(s))
               <= Cardinality(Normalizers) - 1
      BY <2>1, SessionsFinite DEF FailuresCounted, Registering
    <3>2. Cardinality(Normalizers) - 1 \in Int
      BY SessionsFinite
    <3> QED BY <1>3, <1>4, <2>1, <3>1, <3>2, CountShrinks DEF FailuresCounted
  <2>2. CASE s \notin versions
    BY <1>3, <1>4, <2>2, FS_EmptySet DEF FailuresCounted
  <2> QED BY <2>1, <2>2
<1>5. CASE ~(s \in versions <=> s \in versions')
  <2>1. s \notin versions /\ s = SourceOf[r] /\ n \in Registering(s)
    BY <1>1, <1>2, <1>5 DEF Registering
  <2>2. FailedOf(s)' = {}
    BY <1>3, <2>1 DEF FailuresCounted
  <2>3. Cardinality(Normalizers \ {n}) = Cardinality(Normalizers) - 1
    BY FS_RemoveElement, SessionAssumption
  <2>4. Registering(s)' \subseteq Normalizers \ {n} /\ IsFiniteSet(Normalizers \ {n})
    BY <1>3, SessionsFinite DEF Registering
  <2>5. /\ Cardinality(Registering(s)') <= Cardinality(Normalizers) - 1
        /\ Cardinality(Registering(s)') \in Nat
    BY <2>3, <2>4, FS_Subset, FS_CardinalityType
  <2>6. 0 + Cardinality(Registering(s)') <= Cardinality(Normalizers) - 1
    BY <2>5
  <2> QED BY <2>2, <2>6, FS_EmptySet DEF FailuresCounted
<1> QED BY <1>4, <1>5
-----------------------------------------------------------------------------
\* A step that adds no analytics, makes nothing pending and loads no row.
LEMMA AnalyticsUntouched ==
  ASSUME NEW w \in Row, AnalyticsCounted(w), TypeOK, UNCHANGED analytics,
         analytics_status'[w] = "pending" => analytics_status[w] = "pending",
         \A p \in Processors : proc'[p] \subseteq proc[p]
  PROVE  AnalyticsCounted(w)'
<1>1. Analysts(w)' \subseteq Analysts(w) /\ Analysts(w) \subseteq Processors
  BY DEF Analysts
<1>2. /\ Cardinality(Analysts(w)') <= Cardinality(Analysts(w))
      /\ Cardinality(Analysts(w)') \in Nat /\ Cardinality(Analysts(w)) \in Nat
      /\ Cardinality(Processors) \in Nat
  BY <1>1, SessionsFinite, FS_Subset
<1>3. PICK c \in Nat : c = analytics[w]
  BY DEF TypeOK
<1>4. analytics'[w] = c
  BY <1>3
<1>5. c + Cardinality(Analysts(w)') <= Cardinality(Processors)
  BY <1>2, <1>3 DEF AnalyticsCounted
<1> QED BY <1>3, <1>4, <1>5 DEF AnalyticsCounted

\* Loading rows: they are pending, hence without analytics.
LEMMA AnalyticsLoaded ==
  ASSUME TypeOK, NEW p \in Processors, StartAnalytics(p),
         NEW w \in Row, AnalyticsCounted(w)
  PROVE  AnalyticsCounted(w)'
<1>1. PICK batch \in Batches(PendingRows) : proc' = [proc EXCEPT ![p] = batch]
  BY DEF StartAnalytics
<1>2. UNCHANGED <<analytics, analytics_status>> /\ batch \subseteq PendingRows
  BY DEF StartAnalytics, normVars, Batches
<1>3. CASE w \in PendingRows
  <2>1. analytics'[w] = 0
    BY <1>2, <1>3 DEF AnalyticsCounted, PendingRows
  <2>2. /\ Cardinality(Analysts(w)') <= Cardinality(Processors)
        /\ Cardinality(Analysts(w)') \in Nat
    BY SessionsFinite DEF Analysts
  <2>3. 0 + Cardinality(Analysts(w)') <= Cardinality(Processors)
    BY <2>2
  <2> QED BY <2>1, <2>3 DEF AnalyticsCounted
<1>4. CASE w \notin PendingRows
  <2>1. /\ Analysts(w)' \subseteq Analysts(w) /\ Analysts(w) \subseteq Processors
    BY <1>1, <1>2, <1>4 DEF Analysts, TypeOK
  <2>2. /\ Cardinality(Analysts(w)') <= Cardinality(Analysts(w))
        /\ Cardinality(Analysts(w)') \in Nat /\ Cardinality(Analysts(w)) \in Nat
    BY <2>1, SessionsFinite, FS_Subset
  <2>3. PICK c \in Nat : c = analytics[w]
    BY DEF TypeOK
  <2>4. c + Cardinality(Analysts(w)') <= Cardinality(Processors)
    BY <2>2, <2>3, SessionsFinite DEF AnalyticsCounted
  <2> QED BY <1>2, <2>3, <2>4 DEF AnalyticsCounted
<1> QED BY <1>3, <1>4

\* Processing a row trades the claim of its session for analytics.
LEMMA AnalyticsProcessed ==
  ASSUME TypeOK, NEW p \in Processors, NEW v \in Row, ProcessRow(p, v),
         NEW w \in Row, AnalyticsCounted(w)
  PROVE  AnalyticsCounted(w)'
<1>1. PICK c \in Nat : c = analytics[w]
  BY DEF TypeOK
<1>2. Analysts(w) \subseteq Processors
  BY DEF Analysts
<1>3. CASE w = v
  <2>1. analytics'[w] = c + 1 /\ analytics_status'[w] = "processed"
    BY <1>1, <1>3 DEF ProcessRow, TypeOK
  <2>2. p \in Analysts(w) /\ Analysts(w)' = Analysts(w) \ {p}
    BY <1>3 DEF Analysts, ProcessRow, TypeOK
  <2>3. /\ Cardinality(Analysts(w)') = Cardinality(Analysts(w)) - 1
        /\ Cardinality(Analysts(w)) \in Nat
    BY <1>2, <2>2, SessionsFinite, FS_RemoveElement
  <2>4. (c + 1) + Cardinality(Analysts(w)') <= Cardinality(Processors)
    BY <1>1, <2>3, SessionsFinite DEF AnalyticsCounted
  <2> QED BY <2>1, <2>4 DEF AnalyticsCounted
<1>4. CASE w # v
  <2>1. analytics'[w] = c /\ analytics_status'[w] = analytics_status[w]
    BY <1>1, <1>4 DEF ProcessRow, TypeOK
  <2>2. Analysts(w)' = Analysts(w)
    BY <1>4 DEF Analysts, ProcessRow, TypeOK
  <2> QED BY <1>1, <2>1, <2>2 DEF AnalyticsCounted
<1> QED BY <1>3, <1>4
-----------------------------------------------------------------------------
\* A recorded failure of an item that is not usable, or whose session lost the
\* registration, stores nothing.
LEMMA FailureKeepsClaims ==
  ASSUME TypeOK, NEW n \in Normalizers, NEW r \in Raw, NEW e, NEW t,
         Fail(n, r, e, t)
  PROVE  /\ UNCHANGED <<row_of, analytics_status, analytics, versions, proc>>
         /\ status' = [status EXCEPT ![r] = t]
         /\ norm'[n].at = None
         /\ \A m \in Normalizers : norm'[m].todo \subseteq norm[m].todo
         /\ \A m \in Normalizers \ {n} : norm'[m] = norm[m]
BY DEF Fail, NextItem, IdleSession, normVars, TypeOK, Session

\* Every step of the pipeline keeps the claims counted.
LEMMA OverlapStep == IInv /\ Overlap /\ [Next]_vars => Overlap'
<1> SUFFICES ASSUME IInv, Overlap, [Next]_vars PROVE Overlap'
  OBVIOUS
<1> DEFINE
      Tables == UNCHANGED <<row_of, versions>>
      Todo == \A m \in Normalizers : norm'[m].todo \subseteq norm[m].todo
      Analytics == UNCHANGED <<analytics, analytics_status, proc>>
      Rows == \A r \in Raw : RowsCounted(r)'
      Failures == faults' = 0 => \A s \in Source : FailuresCounted(s)'
      Processed == \A w \in Row : AnalyticsCounted(w)'
<1>1. ASSUME Rows, Failures, Processed PROVE Overlap'
  BY <1>1 DEF Overlap
<1>2. ASSUME UNCHANGED row_of, Todo PROVE Rows
  BY <1>2, RowsUntouched
<1>3. ASSUME UNCHANGED versions, faults' = 0 => faults = 0,
             \A s \in Source : FailedOf(s)' \subseteq FailedOf(s),
             \A s \in versions : Registering(s)' \subseteq Registering(s)
      PROVE  Failures
  BY <1>3, FailuresUntouched DEF Overlap
<1>4. ASSUME Analytics PROVE Processed
  BY <1>4, AnalyticsUntouched DEF Overlap, IInv
<1>5. TypeOK
  BY DEF IInv
<1>6. CASE UNCHANGED vars
  <2>1. Tables /\ Todo /\ Analytics /\ UNCHANGED <<status, norm, faults>>
    BY <1>6 DEF vars
  <2> QED BY <2>1, <1>1, <1>2, <1>3, <1>4 DEF FailedOf, Registering
<1>7. ASSUME NEW r \in Raw, Collect(r) PROVE Overlap'
  <2>1. /\ Tables /\ Todo /\ Analytics /\ UNCHANGED <<norm, faults>>
        /\ status' = [status EXCEPT ![r] = "normalization_pending"]
    BY <1>7 DEF Collect, normVars
  <2>2. \A s \in Source : FailedOf(s)' \subseteq FailedOf(s)
    BY <2>1, <1>5 DEF FailedOf, TypeOK
  <2> QED BY <2>1, <2>2, <1>1, <1>2, <1>3, <1>4 DEF Registering
<1>8. ASSUME NEW n \in Normalizers, StartNormalizing(n) PROVE Overlap'
  <2>1. Rows
    BY <1>8, RowsOfLoaded
  <2>2. /\ Tables /\ Analytics /\ UNCHANGED <<status, faults>>
        /\ norm'[n].at = None
        /\ \A m \in Normalizers \ {n} : norm'[m] = norm[m]
    BY <1>8, <1>5 DEF StartNormalizing, normVars, IdleSession, TypeOK
  <2> QED BY <2>1, <2>2, <1>1, <1>3, <1>4 DEF FailedOf, Registering
<1>9. ASSUME NEW n \in Normalizers, NEW r \in Raw, SaveNormalized(n, r)
      PROVE  Overlap'
  <2>1. /\ Tables /\ Analytics /\ UNCHANGED <<status, faults>>
        /\ norm'[n].at = r /\ norm'[n].todo = norm[n].todo
        /\ norm'[n].missing => SourceOf[r] \notin versions
        /\ \A m \in Normalizers \ {n} : norm'[m] = norm[m]
    BY <1>9, <1>5 DEF SaveNormalized, NeedsVersion, normVars, TypeOK
  <2>2. Todo
    BY <2>1
  <2>3. \A s \in versions : Registering(s)' \subseteq Registering(s)
    BY <2>1 DEF Registering
  <2> QED BY <2>1, <2>2, <2>3, <1>1, <1>2, <1>3, <1>4 DEF FailedOf
<1>10. ASSUME NEW n \in Normalizers, NEW r \in Raw, NormalizeRaises(n, r)
       PROVE  Overlap'
  <2>1. Payload[r] = "broken" /\ UNCHANGED faults
        /\ Fail(n, r, norm[n].ensured, "normalization_failed")
    BY <1>10 DEF NormalizeRaises, RecordFailure
  <2>2. /\ Tables /\ Analytics /\ Todo /\ norm'[n].at = None
        /\ status' = [status EXCEPT ![r] = "normalization_failed"]
        /\ \A m \in Normalizers \ {n} : norm'[m] = norm[m]
    BY <2>1, <1>5, FailureKeepsClaims
  <2>3. \A s \in Source : FailedOf(s)' \subseteq FailedOf(s)
    BY <2>1, <2>2, <1>5 DEF FailedOf, TypeOK
  <2> QED BY <2>1, <2>2, <2>3, <1>1, <1>2, <1>3, <1>4 DEF Registering
<1>11. ASSUME NEW n \in Normalizers, CommitNormalized(n) PROVE Overlap'
  <2>1. /\ UNCHANGED <<analytics, analytics_status, proc, faults>>
        /\ norm[n].at \in Raw /\ norm[n] \in Session
    BY <1>11, <1>5 DEF CommitNormalized, TypeOK, Session
  <2>2. Rows
    <3>1. CASE norm[n].saved
      BY <1>11, <3>1, RowsOfCommitted
    <3>2. CASE ~norm[n].saved
      <4>1. UNCHANGED row_of /\ Todo
        BY <1>11, <3>2, <1>5 DEF CommitNormalized, NextItem, IdleSession, TypeOK,
           Session
      <4> QED BY <4>1, <1>2
    <3> QED BY <3>1, <3>2
  <2>3. Failures
    BY <1>11, <2>1, FailuresOfCommit DEF Overlap
  <2> QED BY <2>1, <2>2, <2>3, <1>1, <1>4
<1>12. ASSUME NEW n \in Normalizers, VersionConflict(n) PROVE Overlap'
  <2>1. /\ norm[n].at \in Raw /\ UNCHANGED faults
        /\ Fail(n, norm[n].at, norm[n].ensured, "normalization_failed")
    BY <1>12, <1>5 DEF VersionConflict, RecordFailure, TypeOK, Session
  <2>2. Tables /\ Analytics /\ Todo
    BY <2>1, <1>5, FailureKeepsClaims
  <2>3. Failures
    BY <1>12, <2>1, FailuresOfConflict DEF Overlap
  <2> QED BY <2>2, <2>3, <1>1, <1>2, <1>4
<1>13. ASSUME NEW n \in Normalizers, DatabaseError(n) PROVE Overlap'
  <2>1. norm[n].at \in Raw /\ faults' = faults + 1 /\ faults \in Nat
    BY <1>13, <1>5 DEF DatabaseError, TypeOK, Session
  <2>2. PICK e \in {norm[n].ensured, norm[n].ensured \/ norm[n].saved} :
          Fail(n, norm[n].at, e, "normalization_failed")
    BY <1>13 DEF DatabaseError, RecordFailure
  <2>3. Tables /\ Analytics /\ Todo
    BY <2>1, <2>2, <1>5, FailureKeepsClaims
  <2>4. faults' # 0
    BY <2>1
  <2> QED BY <2>3, <2>4, <1>1, <1>2, <1>4
<1>14. ASSUME NEW n \in Normalizers, CrashNormalizer(n) PROVE Overlap'
  <2>1. /\ Tables /\ Analytics /\ UNCHANGED <<status, faults>>
        /\ norm'[n].at = None /\ norm'[n].todo = {}
        /\ \A m \in Normalizers \ {n} : norm'[m] = norm[m]
    BY <1>14, <1>5 DEF CrashNormalizer, normVars, IdleSession, TypeOK
  <2>2. Todo
    BY <2>1
  <2> QED BY <2>1, <2>2, <1>1, <1>2, <1>3, <1>4 DEF FailedOf, Registering
<1>15. ASSUME NEW p \in Processors,
              \/ StartAnalytics(p) \/ CrashProcessor(p)
              \/ \E w \in Row : ProcessRow(p, w) \/ AnalyticsFails(p, w)
       PROVE  Overlap'
  <2>1. /\ UNCHANGED <<status, row_of, versions, norm>>
        /\ faults' \in {faults, faults + 1} /\ faults \in Nat
    BY <1>15, <1>5
    DEF StartAnalytics, CrashProcessor, ProcessRow, AnalyticsFails, FailRow,
        normVars, TypeOK
  <2>2. Rows /\ Todo
    BY <2>1, <1>2
  <2>3. faults' = 0 => faults = 0
    BY <2>1
  <2>4. Failures
    BY <2>1, <2>3, <1>3 DEF FailedOf, Registering
  <2>5. CASE StartAnalytics(p)
    BY <2>5, <2>2, <2>4, <1>1, <1>5, AnalyticsLoaded DEF Overlap
  <2>6. CASE CrashProcessor(p)
    <3>1. /\ UNCHANGED <<analytics, analytics_status>>
          /\ \A q \in Processors : proc'[q] \subseteq proc[q]
      BY <2>6, <1>5 DEF CrashProcessor, normVars, TypeOK
    <3> QED BY <3>1, <2>2, <2>4, <1>1, <1>5, AnalyticsUntouched DEF Overlap
  <2>7. ASSUME NEW v \in Row, ProcessRow(p, v) PROVE Overlap'
    BY <2>7, <2>2, <2>4, <1>1, <1>5, AnalyticsProcessed DEF Overlap
  <2>8. ASSUME NEW v \in Row, AnalyticsFails(p, v) PROVE Overlap'
    <3>1. /\ UNCHANGED analytics
          /\ \A w \in Row : analytics_status'[w] \in {analytics_status[w], "failed"}
          /\ \A q \in Processors : proc'[q] \subseteq proc[q]
      BY <2>8, <1>5 DEF AnalyticsFails, FailRow, TypeOK
    <3>2. \A w \in Row :
            analytics_status'[w] = "pending" => analytics_status[w] = "pending"
      BY <3>1
    <3> QED BY <3>1, <3>2, <2>2, <2>4, <1>1, <1>5, AnalyticsUntouched DEF Overlap
  <2> QED BY <1>15, <2>5, <2>6, <2>7, <2>8
<1> QED
  BY <1>6, <1>7, <1>8, <1>9, <1>10, <1>11, <1>12, <1>13, <1>14, <1>15
  DEF Next, NormalizerStep, ProcessorStep

\* The claims stay counted for ever.
THEOREM OverlapInvariance == Spec => []Overlap
<1> QED BY OverlapInit, OverlapStep, Invariance, PTL DEF Spec

\* However many sessions race, a RAW row gets no more normalized rows than
\* there are sessions.
THEOREM RowsAreBounded == Spec => []RowsFollowOverlap
<1>1. TypeOK /\ Overlap => RowsFollowOverlap
  <2> SUFFICES ASSUME Overlap, NEW r \in Raw
               PROVE Cardinality(RowsOf(r)) <= Cardinality(Normalizers)
    BY DEF RowsFollowOverlap
  <2>1. /\ Cardinality(RowsOf(r)) \in Nat /\ Cardinality(Holders(r)) \in Nat
        /\ Cardinality(RowsOf(r)) + Cardinality(Holders(r))
             <= Cardinality(Normalizers)
    BY SessionsFinite, FS_CardinalityType DEF Overlap, RowsCounted, Holders
  <2> QED BY <2>1, SessionsFinite
<1> QED BY <1>1, OverlapInvariance, TypeCorrect, PTL

\* Only racing registrations fail usable RAW rows, one session of them excepted.
THEOREM FailuresAreBounded == Spec => []FailuresFollowOverlap
<1>1. Overlap => FailuresFollowOverlap
  <2> SUFFICES ASSUME Overlap, faults = 0, NEW s \in Source, FailedOf(s) # {}
               PROVE Cardinality(FailedOf(s)) < Cardinality(Normalizers)
    BY DEF FailuresFollowOverlap
  <2>1. /\ Cardinality(FailedOf(s)) \in Nat /\ Cardinality(Registering(s)) \in Nat
        /\ Cardinality(FailedOf(s)) + Cardinality(Registering(s))
             <= Cardinality(Normalizers) - 1
    BY SessionsFinite, FS_CardinalityType DEF Overlap, FailuresCounted, Registering
  <2> QED BY <2>1, SessionsFinite
<1> QED BY <1>1, OverlapInvariance, PTL

\* A processed row has analytics, and no more than there are analytics sessions.
THEOREM AnalyticsAreBounded == Spec => []AnalyticsFollowStatus
<1>1. IInv /\ Overlap => AnalyticsFollowStatus
  <2> SUFFICES ASSUME IInv, Overlap, NEW w \in Row
               PROVE /\ analytics_status[w] = "processed" => analytics[w] > 0
                     /\ analytics[w] <= Cardinality(Processors)
    BY DEF AnalyticsFollowStatus
  <2>1. analytics[w] \in Nat /\ Cardinality(Analysts(w)) \in Nat
        /\ analytics[w] + Cardinality(Analysts(w)) <= Cardinality(Processors)
    BY SessionsFinite DEF Overlap, AnalyticsCounted, Analysts, IInv, TypeOK
  <2>2. analytics[w] <= Cardinality(Processors)
    BY <2>1, SessionsFinite
  <2> QED BY <2>2 DEF IInv, Safety, ProcessedHasAnalytics
<1> QED BY <1>1, OverlapInvariance, Invariance, PTL
-----------------------------------------------------------------------------
\* One session at a time is idempotent: with a single normalizer session no RAW
\* row is stored twice.
THEOREM OneSessionStoresOnce ==
  ASSUME Cardinality(Normalizers) = 1 PROVE Spec => []AtMostOneRowPerRaw
<1>1. TypeOK /\ RowsFollowOverlap /\ Overlap => AtMostOneRowPerRaw
  <2> SUFFICES ASSUME TypeOK, RowsFollowOverlap, Overlap,
                      NEW v \in Row, NEW w \in Row,
                      row_of[v] # None, row_of[v] = row_of[w]
               PROVE  v = w
    BY DEF AtMostOneRowPerRaw
  <2>1. PICK r \in Raw : r = row_of[v]
    BY DEF TypeOK
  <2>2. {v, w} \subseteq RowsOf(r)
    BY <2>1 DEF RowsOf
  <2>3. IsFiniteSet(RowsOf(r)) /\ Cardinality(RowsOf(r)) \in Nat
        /\ Cardinality(RowsOf(r)) <= 1
    BY FS_CardinalityType DEF Overlap, RowsCounted, RowsFollowOverlap
  <2>4. Cardinality(RowsOf(r)) = 1
    BY <2>2, <2>3, FS_EmptySet
  <2>5. PICK x : RowsOf(r) = {x}
    BY <2>3, <2>4, FS_Singleton
  <2> QED BY <2>2, <2>5
<1> QED BY <1>1, TypeCorrect, RowsAreBounded, OverlapInvariance, PTL

\* A single normalizer session fails no usable RAW row without a database fault.
THEOREM OneSessionFailsNothing ==
  ASSUME Cardinality(Normalizers) = 1 PROVE Spec => []UsableNeverFails
<1>1. TypeOK /\ FailuresFollowOverlap /\ Overlap => UsableNeverFails
  <2> SUFFICES ASSUME TypeOK, FailuresFollowOverlap, Overlap, faults = 0,
                      NEW r \in Raw, Payload[r] = "usable",
                      status[r] = "normalization_failed"
               PROVE  FALSE
    BY DEF UsableNeverFails
  <2>1. SourceOf[r] \in Source /\ r \in FailedOf(SourceOf[r])
    BY DEF FailedOf, DataAssumption
  <2>2. /\ IsFiniteSet(FailedOf(SourceOf[r]))
        /\ Cardinality(FailedOf(SourceOf[r])) \in Nat
        /\ Cardinality(FailedOf(SourceOf[r])) < 1
    BY <2>1, FS_CardinalityType DEF Overlap, FailuresCounted, FailuresFollowOverlap
  <2>3. Cardinality(FailedOf(SourceOf[r])) = 0
    BY <2>2
  <2> QED BY <2>1, <2>2, <2>3, FS_EmptySet
<1> QED BY <1>1, TypeCorrect, FailuresAreBounded, OverlapInvariance, PTL
-----------------------------------------------------------------------------
(***************************************************************************)
(* Waiting.  A normalizer session waits only for the transaction of        *)
(* another one, and that one waits for nobody: PendingIsHandled rests on   *)
(* it.                                                                     *)
(***************************************************************************)
\* A session that is not idle has something to do.
Holding == \A n \in Normalizers : norm[n] # IdleSession => norm[n].todo # {}

\* The guards of NormalizerStep, but for loading a batch.
CanStep(n) ==
  \/ /\ norm[n].at = None
     /\ \E r \in norm[n].todo : Payload[r] = "broken" \/ ~Blocked(n, r)
  \/ /\ norm[n].at # None
     /\ \/ norm[n].missing /\ SourceOf[norm[n].at] \in versions
        \/ norm[n].saved => FreeRows # {}

\* A session that cannot step is between two items, and waits for each of the
\* items left for a session that can.
WaitsForTheMoving(n) ==
  /\ norm[n].at = None
  /\ \A r \in norm[n].todo : \E m \in Normalizers \ {n} :
       /\ norm[m].at # None
       /\ IdentityOf[norm[m].at] = IdentityOf[r]
       /\ CanStep(m)
NobodyIsStuck ==
  FreeRows # {} =>
    \A n \in Normalizers :
      norm[n] # IdleSession => CanStep(n) \/ WaitsForTheMoving(n)

\* Going to the next item leaves something to do, or the session is idle.
LEMMA NextItemHolds ==
  ASSUME TypeOK, Holding, NEW n \in Normalizers, NEW r \in norm[n].todo, NEW e,
         NextItem(n, r, e)
  PROVE  Holding'
<1>1. norm' = [norm EXCEPT ![n] = norm'[n]]
  BY DEF NextItem, TypeOK
<1>2. norm'[n] = IdleSession \/ norm'[n].todo # {}
  <2>1. CASE norm[n].todo = {r}
    BY <2>1 DEF NextItem, TypeOK
  <2>2. CASE norm[n].todo # {r}
    <3>1. norm'[n].todo = norm[n].todo \ {r}
      BY <2>2 DEF NextItem, TypeOK, IdleSession
    <3> QED BY <2>2, <3>1
  <2> QED BY <2>1, <2>2
<1> QED BY <1>1, <1>2 DEF Holding, TypeOK

\* Every step leaves a session idle or with something to do.
LEMMA HoldingStep == IInv /\ Holding /\ [Next]_vars => Holding'
<1> SUFFICES ASSUME IInv, Holding, [Next]_vars PROVE Holding'
  OBVIOUS
<1>0. TypeOK /\ \A n \in Normalizers : norm[n].at # None => norm[n].at \in norm[n].todo
  BY DEF IInv, OpenSessions, OpenSession
<1>1. CASE UNCHANGED norm
  BY <1>1 DEF Holding
<1>2. ASSUME NEW n \in Normalizers, StartNormalizing(n) PROVE Holding'
  BY <1>0, <1>2 DEF StartNormalizing, Batches, Holding, TypeOK
<1>3. ASSUME NEW n \in Normalizers, NEW r \in Raw, SaveNormalized(n, r) PROVE Holding'
  BY <1>0, <1>3 DEF SaveNormalized, Holding, TypeOK
<1>4. ASSUME NEW n \in Normalizers, NEW r \in Raw, NormalizeRaises(n, r) PROVE Holding'
  BY <1>0, <1>4, NextItemHolds DEF NormalizeRaises, RecordFailure, Fail
<1>5. ASSUME NEW n \in Normalizers,
             CommitNormalized(n) \/ VersionConflict(n) \/ DatabaseError(n)
      PROVE  Holding'
  BY <1>0, <1>5, NextItemHolds
  DEF CommitNormalized, VersionConflict, DatabaseError, RecordFailure, Fail
<1>6. ASSUME NEW n \in Normalizers, CrashNormalizer(n) PROVE Holding'
  BY <1>0, <1>6 DEF CrashNormalizer, Holding, TypeOK
<1>7. (\E r \in Raw : Collect(r)) => UNCHANGED norm
  BY DEF Collect
<1>8. ASSUME NEW p \in Processors,
             ProcessorStep(p) \/ (\E w \in Row : AnalyticsFails(p, w)) \/ CrashProcessor(p)
      PROVE  UNCHANGED norm
  BY <1>8 DEF ProcessorStep, StartAnalytics, ProcessRow, AnalyticsFails, FailRow,
     CrashProcessor
<1> QED
  BY <1>1, <1>2, <1>3, <1>4, <1>5, <1>6, <1>7, <1>8 DEF Next, NormalizerStep, vars

\* No normalizer session is ever stuck, nor waits for one that is: a transaction
\* holds one identity at a time, so sessions never wait for each other in a ring
\* (BaseNormalizer.run).
THEOREM NoNormalizerIsStuck == Spec => []NobodyIsStuck
<1>1. Init => Holding
  BY DEF Init, Holding
<1>2. ASSUME TypeOK, Holding, FreeRows # {}, NEW n \in Normalizers,
             norm[n] # IdleSession, ~CanStep(n)
      PROVE  WaitsForTheMoving(n)
  <2>1. norm[n].at = None /\ \A r \in norm[n].todo : Blocked(n, r)
    BY <1>2 DEF CanStep
  <2>2. ASSUME NEW r \in norm[n].todo
        PROVE  \E m \in Normalizers \ {n} :
                 /\ norm[m].at # None
                 /\ IdentityOf[norm[m].at] = IdentityOf[r]
                 /\ CanStep(m)
    BY <1>2, <2>1, <2>2 DEF Blocked, CanStep
  <2> QED BY <2>1, <2>2 DEF WaitsForTheMoving
<1>3. TypeOK /\ Holding => NobodyIsStuck
  BY <1>2 DEF NobodyIsStuck
<1> QED BY <1>1, <1>3, HoldingStep, Invariance, TypeCorrect, PTL DEF Spec
=============================================================================
