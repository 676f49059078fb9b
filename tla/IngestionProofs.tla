--------------------------- MODULE IngestionProofs ---------------------------
(***************************************************************************)
(* Proofs about Ingestion, for every set of runs, every snapshot, batch    *)
(* size and clock.                                                         *)
(***************************************************************************)
EXTENDS Ingestion, TLAPS

USE DEF InTransaction, Ended, Stages, txVars, vars, Enter

\* The rows of the batches so far make a prefix of the snapshot, and all of
\* it once the offset has passed its end.
LEMMA BatchExtendsPrefix ==
    ASSUME NEW r \in Runs, NEW n \in Nat
    PROVE  /\ Prefix(r, n) \cup Batch(r, n) = Prefix(r, n + BatchSize)
           /\ n >= Len(Snapshot[r]) => Prefix(r, n) = Covers[r]
           /\ Prefix(r, 0) = {}
           /\ Batch(r, n) \subseteq Ids /\ Covers[r] \subseteq Ids
           /\ Snapshot[r] = <<>> => Covers[r] = {}
           /\ Len(Snapshot[r]) \in Nat
  <1>0. /\ Snapshot[r] \in Seq(Ids) /\ Len(Snapshot[r]) \in Nat
        /\ \A k \in 1 .. Len(Snapshot[r]) : Snapshot[r][k] \in Ids
        /\ BatchSize \in Nat \ {0}
    BY ConstantsAssumption
  <1>. DEFINE L == Len(Snapshot[r])
  <1>1. {j \in 1 .. L : j <= n} \cup {j \in 1 .. L : n < j /\ j <= n + BatchSize}
            = {j \in 1 .. L : j <= n + BatchSize}
    BY <1>0
  <1>2. Prefix(r, n) \cup Batch(r, n) = Prefix(r, n + BatchSize)
    BY <1>1 DEF Prefix, Batch
  <1>3. n >= L => {j \in 1 .. L : j <= n} = 1 .. L
    BY <1>0
  <1>4. n >= L => Prefix(r, n) = Covers[r]
    BY <1>3 DEF Prefix, Covers
  <1>5. Prefix(r, 0) = {}
    BY DEF Prefix
  <1>6. Batch(r, n) \subseteq Ids /\ Covers[r] \subseteq Ids
    BY <1>0 DEF Batch, Covers
  <1>7. Snapshot[r] = <<>> => Covers[r] = {}
    <2>1. Snapshot[r] = <<>> => L = 0
      OBVIOUS
    <2>2. L = 0 => 1 .. L = {}
      BY <1>0
    <2>. QED
      BY <2>1, <2>2 DEF Covers
  <1>. QED
    BY <1>0, <1>2, <1>4, <1>5, <1>6, <1>7

USE DEF Inductive

\* Before any run starts nothing is held, pending or recorded.
LEMMA InductiveInit == Init => Inductive
  BY ConstantsAssumption
  DEF Init, TypeOK, HolderAlone, PendingMatchesStage, Pending, WritersCommitted,
      MetadataDescribesItems, SuccessIsRecorded

\* A step of run r that leaves the catalog alone and every other run where it
\* was disturbs nothing about those runs.
LocalTo(r) ==
    /\ UNCHANGED <<items, meta>>
    /\ \A o \in Runs \ {r} :
          /\ stage'[o] = stage[o] /\ clock'[o] = clock[o] /\ start'[o] = start[o]
          /\ written'[o] = written[o] /\ recorded'[o] = recorded[o]
          /\ lock = o => lock' = o

LEMMA OthersKept ==
    ASSUME Inductive, NEW r \in Runs, LocalTo(r),
           clock'[r] = clock[r] \/ stage[r] = "ready",
           stage[r] \in {"invalidate", "ok", "uninvalidated", "unavailable", "crashed"}
               => stage'[r] \in {"invalidate", "ok", "uninvalidated", "unavailable", "crashed"}
    PROVE  /\ \A o \in Runs \ {r} : Pending(o)'
           /\ \A o \in Runs \ {r} :
                 (stage'[o] \in InTransaction \ {"lock"} \/ written'[o] # {} \/ recorded'[o])
                     => lock' = o
           /\ WritersCommitted'
           /\ MetadataDescribesItems'
           /\ \A o \in Runs \ {r} : stage'[o] \in {"invalidate", "ok", "uninvalidated"} =>
                 meta' # None /\ clock'[o] <= meta'.lastSync
  <1>1. ASSUME NEW o \in Runs \ {r} PROVE Pending(o)'
    BY <1>1 DEF LocalTo, PendingMatchesStage, Pending, Newer, Prefix
  <1>2. ASSUME NEW id \in Ids, items[id] # None
        PROVE  /\ items[id] \in Runs /\ clock'[items[id]] = clock[items[id]]
               /\ stage'[items[id]] \in {"invalidate", "ok", "uninvalidated", "unavailable", "crashed"}
    <2>1. items[id] \in Runs /\ stage[items[id]] \in {"invalidate", "ok", "uninvalidated", "unavailable", "crashed"}
      BY <1>2 DEF TypeOK, WritersCommitted
    <2>. QED
      BY <2>1 DEF LocalTo
  <1>3. WritersCommitted' /\ MetadataDescribesItems'
    BY <1>2 DEF LocalTo, WritersCommitted, MetadataDescribesItems
  <1>. QED
    BY <1>1, <1>3 DEF LocalTo, HolderAlone, SuccessIsRecorded

\* What is left to show of a step local to run r.
LEMMA LocalInductive ==
    ASSUME Inductive, NEW r \in Runs, LocalTo(r), TypeOK',
           clock'[r] = clock[r] \/ stage[r] = "ready",
           stage[r] \in {"invalidate", "ok", "uninvalidated", "unavailable", "crashed"}
               => stage'[r] \in {"invalidate", "ok", "uninvalidated", "unavailable", "crashed"},
           Pending(r)',
           (stage'[r] \in InTransaction \ {"lock"} \/ written'[r] # {} \/ recorded'[r])
               => lock' = r,
           stage'[r] \in {"invalidate", "ok", "uninvalidated"} =>
               meta' # None /\ clock'[r] <= meta'.lastSync
    PROVE  Inductive'
  BY OthersKept DEF PendingMatchesStage, HolderAlone, SuccessIsRecorded

\* A rejected run has touched nothing.
LEMMA RejectInductive ==
    ASSUME Inductive, NEW r \in Runs, Reject(r)
    PROVE  Inductive'
  <1>. USE ConstantsAssumption DEF Reject
  <1>0. Pending(r) /\ (stage[r] \in InTransaction \ {"lock"} \/ written[r] # {} \/ recorded[r] => lock = r)
    BY DEF PendingMatchesStage, HolderAlone
  <1>1. TypeOK'
    BY <1>0 DEF TypeOK
  <1>2. LocalTo(r)
    BY DEF LocalTo, TypeOK
  <1>3. Pending(r)'
    BY <1>0 DEF TypeOK, Pending, Newer
  <1>. QED
    BY <1>0, <1>1, <1>2, <1>3, LocalInductive DEF TypeOK, SuccessIsRecorded

\* The clock is read while the run has nothing pending.
LEMMA ReadClockInductive ==
    ASSUME Inductive, NEW r \in Runs, ReadClock(r)
    PROVE  Inductive'
  <1>. USE ConstantsAssumption DEF ReadClock
  <1>0. Pending(r) /\ (stage[r] \in InTransaction \ {"lock"} \/ written[r] # {} \/ recorded[r] => lock = r)
    BY DEF PendingMatchesStage, HolderAlone
  <1>1. TypeOK'
    BY <1>0 DEF TypeOK
  <1>2. LocalTo(r)
    BY DEF LocalTo, TypeOK
  <1>3. Pending(r)'
    BY <1>0 DEF TypeOK, Pending, Newer
  <1>. QED
    BY <1>0, <1>1, <1>2, <1>3, LocalInductive DEF TypeOK, SuccessIsRecorded

\* Only a free lock is taken, so its holder stays alone.
LEMMA AcquireInductive ==
    ASSUME Inductive, NEW r \in Runs, AcquireLock(r)
    PROVE  Inductive'
  <1>. USE ConstantsAssumption DEF AcquireLock
  <1>0. Pending(r) /\ (stage[r] \in InTransaction \ {"lock"} \/ written[r] # {} \/ recorded[r] => lock = r)
    BY DEF PendingMatchesStage, HolderAlone
  <1>1. TypeOK'
    BY <1>0 DEF TypeOK
  <1>2. LocalTo(r)
    BY DEF LocalTo, TypeOK
  <1>3. Pending(r)'
    BY <1>0 DEF TypeOK, Pending, Newer
  <1>. QED
    BY <1>0, <1>1, <1>2, <1>3, LocalInductive DEF TypeOK, SuccessIsRecorded

\* Past the check a run is newer than what is recorded, or has nothing to commit.
LEMMA CheckInductive ==
    ASSUME Inductive, NEW r \in Runs, CheckLastSync(r)
    PROVE  Inductive'
  <1>. USE ConstantsAssumption DEF CheckLastSync, NotNewer
  <1>0. Pending(r) /\ (stage[r] \in InTransaction \ {"lock"} \/ written[r] # {} \/ recorded[r] => lock = r)
    BY DEF PendingMatchesStage, HolderAlone
  <1>1. TypeOK'
    BY <1>0, BatchExtendsPrefix DEF TypeOK
  <1>2. LocalTo(r)
    BY DEF LocalTo, TypeOK
  <1>3. Pending(r)'
    <2>1. clock[r] \in Times /\ written[r] = {} /\ ~recorded[r] /\ start[r] = 0
      BY <1>0 DEF Pending
    <2>2. ~NotNewer(r) => Newer(r)
      <3>1. meta # None => meta.lastSync \in Nat
        BY DEF TypeOK, Metadata
      <3>2. clock[r] \in Nat
        BY <2>1
      <3>. QED
        BY <2>1, <3>1, <3>2 DEF Newer
    <2>3. CASE stage'[r] = "commit"
      BY <2>1, <2>3 DEF TypeOK, Pending
    <2>4. CASE stage'[r] \in {"items", "metadata"}
      BY <2>1, <2>2, <2>4, BatchExtendsPrefix DEF TypeOK, Pending, Newer
    <2>. QED
      BY <2>3, <2>4 DEF TypeOK
  <1>. QED
    BY <1>0, <1>1, <1>2, <1>3, LocalInductive DEF TypeOK, SuccessIsRecorded

\* A batch extends the prefix already written.
LEMMA ItemsInductive ==
    ASSUME Inductive, NEW r \in Runs, UpsertItems(r)
    PROVE  Inductive'
  <1>. USE ConstantsAssumption DEF UpsertItems, NextOffset
  <1>0. Pending(r) /\ (stage[r] \in InTransaction \ {"lock"} \/ written[r] # {} \/ recorded[r] => lock = r)
    BY DEF PendingMatchesStage, HolderAlone
  <1>1. TypeOK'
    BY <1>0, BatchExtendsPrefix DEF TypeOK
  <1>2. LocalTo(r)
    BY DEF LocalTo, TypeOK
  <1>3. Pending(r)'
    <2>1. written[r] = Prefix(r, start[r]) /\ ~recorded[r] /\ Newer(r) /\ start[r] \in Nat
      BY <1>0 DEF Pending, TypeOK
    <2>2. /\ written'[r] = Prefix(r, start[r] + BatchSize)
          /\ start'[r] = start[r] + BatchSize /\ start'[r] \in Nat
          /\ recorded' = recorded /\ clock' = clock /\ meta' = meta
      BY <2>1, BatchExtendsPrefix DEF TypeOK
    <2>3. CASE stage'[r] = "items"
      BY <2>1, <2>2, <2>3 DEF Pending, Newer, Prefix
    <2>4. CASE stage'[r] = "metadata" /\ start'[r] >= Len(Snapshot[r])
      BY <2>1, <2>2, <2>4, BatchExtendsPrefix DEF Pending, Newer
    <2>5. Len(Snapshot[r]) \in Nat
      BY BatchExtendsPrefix
    <2>. QED
      BY <2>2, <2>3, <2>4, <2>5 DEF TypeOK
  <1>. QED
    BY <1>0, <1>1, <1>2, <1>3, LocalInductive DEF TypeOK, SuccessIsRecorded

\* The metadata upsert of a newer run takes effect.
LEMMA MetadataInductive ==
    ASSUME Inductive, NEW r \in Runs, UpsertMetadata(r)
    PROVE  Inductive'
  <1>. USE ConstantsAssumption DEF UpsertMetadata
  <1>0. Pending(r) /\ (stage[r] \in InTransaction \ {"lock"} \/ written[r] # {} \/ recorded[r] => lock = r)
    BY DEF PendingMatchesStage, HolderAlone
  <1>1. TypeOK'
    BY <1>0 DEF TypeOK
  <1>2. LocalTo(r)
    BY DEF LocalTo, TypeOK
  <1>3. Pending(r)'
    BY <1>0 DEF TypeOK, Pending, Newer
  <1>. QED
    BY <1>0, <1>1, <1>2, <1>3, LocalInductive DEF TypeOK, SuccessIsRecorded

\* A rollback leaves nothing pending.
LEMMA FailInductive ==
    ASSUME Inductive, NEW r \in Runs, LockTimesOut(r) \/ StatementFails(r) \/ NoticeDisconnect(r)
    PROVE  Inductive'
  <1>. USE ConstantsAssumption DEF LockTimesOut, StatementFails, NoticeDisconnect, Rollback, Close
  <1>0. Pending(r) /\ (stage[r] \in InTransaction \ {"lock"} \/ written[r] # {} \/ recorded[r] => lock = r)
    BY DEF PendingMatchesStage, HolderAlone
  <1>1. TypeOK'
    BY <1>0 DEF TypeOK
  <1>2. LocalTo(r)
    BY DEF LocalTo, TypeOK
  <1>3. Pending(r)'
    BY <1>0 DEF TypeOK, Pending, Newer
  <1>. QED
    BY <1>0, <1>1, <1>2, <1>3, LocalInductive DEF TypeOK, SuccessIsRecorded

\* An orphaned transaction stays as it was.
LEMMA DisconnectInductive ==
    ASSUME Inductive, NEW r \in Runs, Disconnect(r)
    PROVE  Inductive'
  <1>. USE ConstantsAssumption DEF Disconnect
  <1>0. Pending(r) /\ (stage[r] \in InTransaction \ {"lock"} \/ written[r] # {} \/ recorded[r] => lock = r)
    BY DEF PendingMatchesStage, HolderAlone
  <1>1. TypeOK'
    BY <1>0 DEF TypeOK
  <1>2. LocalTo(r)
    BY DEF LocalTo, TypeOK
  <1>3. Pending(r)'
    BY <1>0 DEF TypeOK, Pending, Newer
  <1>. QED
    BY <1>0, <1>1, <1>2, <1>3, LocalInductive DEF TypeOK, SuccessIsRecorded

\* What follows the commit changes nothing in the database.
LEMMA InvalidateInductive ==
    ASSUME Inductive, NEW r \in Runs, Invalidate(r) \/ InvalidationFails(r) \/ CleanupFails(r)
    PROVE  Inductive'
  <1>. USE ConstantsAssumption DEF Invalidate, InvalidationFails, CleanupFails
  <1>0. Pending(r) /\ (stage[r] \in InTransaction \ {"lock"} \/ written[r] # {} \/ recorded[r] => lock = r)
    BY DEF PendingMatchesStage, HolderAlone
  <1>1. TypeOK'
    BY <1>0 DEF TypeOK
  <1>2. LocalTo(r)
    BY DEF LocalTo, TypeOK
  <1>3. Pending(r)'
    BY <1>0 DEF TypeOK, Pending, Newer
  <1>. QED
    BY <1>0, <1>1, <1>2, <1>3, LocalInductive DEF TypeOK, SuccessIsRecorded

\* A run that commits something publishes its whole snapshot, later than what
\* was recorded; one that has nothing pending changes nothing.
LEMMA CommitPublishes ==
    ASSUME Inductive, NEW r \in Runs, stage[r] = "commit", CommitTransaction(r)
    PROVE  /\ clock[r] \in Times
           /\ recorded[r] =>
                 /\ Newer(r)
                 /\ items' = [id \in Ids |-> IF id \in Covers[r] THEN r ELSE items[id]]
                 /\ meta' = [dataset |-> r, lastSync |-> clock[r]]
           /\ ~recorded[r] =>
                 items' = items /\ meta' = meta /\ meta # None /\ clock[r] <= meta.lastSync
  <1>1. Pending(r)
    BY DEF PendingMatchesStage
  <1>2. CASE recorded[r]
    BY <1>1, <1>2 DEF Pending, CommitTransaction
  <1>3. CASE ~recorded[r]
    <2>1. written[r] = {} /\ items' = [id \in Ids |-> items[id]]
      BY <1>1, <1>3 DEF Pending, CommitTransaction
    <2>. QED
      BY <1>1, <1>3, <2>1 DEF Pending, CommitTransaction, TypeOK
  <1>. QED
    BY <1>1, <1>2, <1>3 DEF Pending

\* The commit keeps the invariant, whatever its client is left to believe.
LEMMA CommitInductive ==
    ASSUME Inductive, NEW r \in Runs, stage[r] = "commit", CommitTransaction(r),
           NEW s \in {"invalidate", "unavailable", "crashed"}, Enter(r, s),
           UNCHANGED <<clock, start>>
    PROVE  Inductive'
  <1>. USE ConstantsAssumption, NoneIsNoMetadata
  <1>0. /\ lock = r /\ lock' = None
        /\ written' = [written EXCEPT ![r] = {}] /\ recorded' = [recorded EXCEPT ![r] = FALSE]
        /\ clock[r] \in Times /\ clock[r] \in Nat
    BY CommitPublishes DEF HolderAlone, CommitTransaction, Close
  <1>1. CASE ~recorded[r]
    <2>1. items' = items /\ meta' = meta /\ meta # None /\ clock[r] <= meta.lastSync
      BY <1>1, CommitPublishes
    <2>2. TypeOK'
      BY <1>0, <2>1 DEF TypeOK
    <2>3. LocalTo(r)
      BY <1>0, <2>1 DEF LocalTo, TypeOK
    <2>4. Pending(r)'
      BY <1>0 DEF TypeOK, Pending
    <2>. QED
      BY <1>0, <2>1, <2>2, <2>3, <2>4, LocalInductive DEF TypeOK
  <1>2. CASE recorded[r]
    <2>1. /\ items' = [id \in Ids |-> IF id \in Covers[r] THEN r ELSE items[id]]
          /\ meta' = [dataset |-> r, lastSync |-> clock[r]] /\ Newer(r)
      BY <1>2, CommitPublishes
    <2>2. meta' \in Metadata /\ meta' # None /\ meta'.dataset = r /\ meta'.lastSync = clock[r]
      BY <1>0, <2>1 DEF Metadata
    <2>3. TypeOK'
      BY <1>0, <2>1, <2>2 DEF TypeOK
    <2>4. ASSUME NEW o \in Runs \ {r}
          PROVE  /\ stage'[o] = stage[o] /\ stage[o] \notin InTransaction \ {"lock"}
                 /\ written'[o] = written[o] /\ written[o] = {}
                 /\ recorded'[o] = recorded[o] /\ ~recorded[o]
                 /\ clock'[o] = clock[o] /\ start'[o] = start[o]
      BY <1>0, <2>4 DEF TypeOK, HolderAlone
    <2>5. HolderAlone'
      BY <1>0, <2>4 DEF TypeOK, HolderAlone
    <2>6. PendingMatchesStage'
      <3>1. Pending(r)'
        BY <1>0 DEF TypeOK, Pending
      <3>2. ASSUME NEW o \in Runs \ {r} PROVE Pending(o)'
        BY <2>4, <3>2 DEF TypeOK, PendingMatchesStage, Pending
      <3>. QED
        BY <3>1, <3>2 DEF PendingMatchesStage
    <2>7. ASSUME NEW id \in Ids, items'[id] # None
          PROVE  /\ stage'[items'[id]] \in ({"invalidate"} \cup Ended) \ {"rejected"}
                 /\ clock[items'[id]] <= clock[r]
      <3>1. CASE items'[id] = r
        BY <1>0, <3>1 DEF TypeOK
      <3>2. CASE items'[id] = items[id] /\ items[id] # r
        <4>1. items[id] \in Runs \ {r} /\ meta # None /\ clock[items[id]] <= meta.lastSync
          BY <2>7, <3>2 DEF TypeOK, MetadataDescribesItems
        <4>2. stage'[items[id]] = stage[items[id]]
          BY <2>4, <4>1
        <4>3. stage[items[id]] \in ({"invalidate"} \cup Ended) \ {"rejected"}
          BY <2>7, <3>2 DEF WritersCommitted
        <4>4. clock[items[id]] \in Nat /\ meta.lastSync \in Nat
          BY <4>1, <4>3 DEF PendingMatchesStage, Pending, TypeOK, Metadata
        <4>. QED
          BY <1>0, <2>1, <3>2, <4>1, <4>2, <4>3, <4>4 DEF Newer
      <3>. QED
        BY <2>1, <3>1, <3>2
    <2>8. WritersCommitted' /\ MetadataDescribesItems'
      BY <2>1, <2>2, <2>7, BatchExtendsPrefix DEF WritersCommitted, MetadataDescribesItems
    <2>9. SuccessIsRecorded'
      <3>1. clock'[r] <= meta'.lastSync
        BY <1>0, <2>2
      <3>2. ASSUME NEW o \in Runs \ {r}, stage'[o] \in {"invalidate", "ok", "uninvalidated"}
            PROVE  clock'[o] <= meta'.lastSync
        <4>1. meta # None /\ clock[o] <= meta.lastSync
          BY <2>4, <3>2 DEF SuccessIsRecorded
        <4>2. clock[o] \in Nat /\ meta.lastSync \in Nat
          BY <2>4, <3>2, <4>1 DEF PendingMatchesStage, Pending, TypeOK, Metadata
        <4>. QED
          BY <1>0, <2>1, <2>2, <4>1, <4>2 DEF Newer
      <3>. QED
        BY <2>2, <3>1, <3>2 DEF SuccessIsRecorded
    <2>. QED
      BY <2>3, <2>5, <2>6, <2>8, <2>9
  <1>. QED
    BY <1>1, <1>2

\* Every step keeps the invariant.
LEMMA InductiveNext == Inductive /\ [Next]_vars => Inductive'
  <1>. SUFFICES ASSUME Inductive, [Next]_vars PROVE Inductive'
    OBVIOUS
  <1>1. ASSUME NEW r \in Runs, Commit(r) \/ CommitUnacknowledged(r) PROVE Inductive'
    BY <1>1, CommitInductive DEF Commit, CommitUnacknowledged
  <1>2. ASSUME NEW r \in Runs, Proceed(r) PROVE Inductive'
    BY <1>1, <1>2, AcquireInductive, FailInductive, CheckInductive, ItemsInductive,
       MetadataInductive, InvalidateInductive DEF Proceed
  <1>3. CASE UNCHANGED vars
    BY <1>3 DEF TypeOK, HolderAlone, PendingMatchesStage, Pending, Newer, Prefix,
                WritersCommitted, MetadataDescribesItems, SuccessIsRecorded
  <1>. QED
    BY <1>1, <1>2, <1>3, RejectInductive, ReadClockInductive, FailInductive,
       DisconnectInductive, InvalidateInductive DEF Next

\* The invariant holds throughout.
LEMMA Invariance == Spec => []Inductive
  BY InductiveInit, InductiveNext, PTL DEF Spec

\* The state of the runs and of their transactions stays within its types.
THEOREM TypeCorrect == Spec => []TypeOK
  BY Invariance, PTL

\* For any number of concurrent runs, snapshots, batches and failures, the
\* recorded metadata describes the committed rows: there is never a partial
\* publication or a mixture of two.
THEOREM NeverPartial == Spec => []MetadataDescribesItems
  BY Invariance, PTL

\* A run that gets as far as invalidating the cache has its snapshot, or a
\* later run's, recorded.
THEOREM SuccessRecorded == Spec => []SuccessIsRecorded
  BY Invariance, PTL

\* Outside of a commit the catalog does not change.
LEMMA OnlyCommitsPublish ==
    ASSUME Inductive, [Next]_vars
    PROVE  \/ UNCHANGED <<items, meta>>
           \/ \E r \in Runs :
                 /\ clock[r] \in Times /\ Newer(r)
                 /\ items' = [id \in Ids |-> IF id \in Covers[r] THEN r ELSE items[id]]
                 /\ meta' = [dataset |-> r, lastSync |-> clock[r]]
  <1>1. ASSUME NEW r \in Runs, Commit(r) \/ CommitUnacknowledged(r)
        PROVE  \/ UNCHANGED <<items, meta>>
               \/ /\ clock[r] \in Times /\ Newer(r)
                  /\ items' = [id \in Ids |-> IF id \in Covers[r] THEN r ELSE items[id]]
                  /\ meta' = [dataset |-> r, lastSync |-> clock[r]]
    BY <1>1, CommitPublishes DEF Commit, CommitUnacknowledged
  <1>. QED
    BY <1>1 DEF Next, Proceed, Reject, ReadClock, AcquireLock, LockTimesOut, CheckLastSync,
                UpsertItems, UpsertMetadata, Invalidate, StatementFails, Disconnect,
                NoticeDisconnect, InvalidationFails, CleanupFails, Rollback

\* Committed rows change only together with metadata that names their run and
\* a later time.
THEOREM RowsFollowMetadata == Spec => RowsChangeWithMetadata
  <1>1. ASSUME Inductive, [Next]_vars, items' # items
        PROVE  /\ meta' # meta
               /\ meta # None => meta.lastSync < meta'.lastSync
               /\ \A id \in Ids : items'[id] # items[id] => items'[id] = meta'.dataset
    <2>1. PICK r \in Runs :
              /\ clock[r] \in Times /\ Newer(r)
              /\ items' = [id \in Ids |-> IF id \in Covers[r] THEN r ELSE items[id]]
              /\ meta' = [dataset |-> r, lastSync |-> clock[r]]
      BY <1>1, OnlyCommitsPublish
    <2>2. meta' \in Metadata
      BY <2>1 DEF Metadata
    <2>3. meta # None => meta.lastSync \in Nat /\ meta.lastSync < clock[r] /\ clock[r] \in Nat
      BY <1>1, <2>1, ConstantsAssumption DEF TypeOK, Metadata, Newer
    <2>. QED
      BY <2>1, <2>2, <2>3, NoneIsNoMetadata
  <1>2. Inductive /\ [Next]_vars =>
            [items' # items =>
                /\ meta' # meta
                /\ meta # None => meta.lastSync < meta'.lastSync
                /\ \A id \in Ids : items'[id] # items[id] => items'[id] = meta'.dataset]_vars
    BY <1>1
  <1>. QED
    BY Invariance, <1>2, PTL DEF Spec, RowsChangeWithMetadata

\* Runs of the command, with their locks, batches, timeouts, crashes and lost
\* acknowledgements, implement atomic publication.
THEOREM Implementation == Spec => ImplementsPublication
  <1>1. Init => Atomic!Init
    BY DEF Init, Atomic!Init
  <1>2. Inductive /\ [Next]_vars => [Atomic!Next]_<<items, meta>>
    BY OnlyCommitsPublish DEF Atomic!Next, Atomic!Publish, Newer
  <1>. QED
    BY Invariance, <1>1, <1>2, PTL DEF Spec, ImplementsPublication, Atomic!Spec
=============================================================================
