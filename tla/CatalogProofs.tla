---------------------------- MODULE CatalogProofs ----------------------------
(***************************************************************************)
(* From the command to the reader, for any number of overlapping runs and  *)
(* of requests: AnswersFollowSuccess.  The invariants of the runs and of   *)
(* the cache are those proved in IngestionProofs and ItemCacheProofs; what *)
(* is added here is that the versions of the one stand for the rows of the *)
(* other.                                                                  *)
(***************************************************************************)
EXTENDS Catalog, IngestionProofs, FiniteSetTheorems

CacheProofs == INSTANCE ItemCacheProofs WITH
    Publishers <- Runs,
    Resources <- Shown, Lists <- {},
    FirstVersion <- [q \in Shown |-> 1],
    LoseDuringIncr <- FALSE,
    MaxVersion <- Cardinality(Runs)

\* What ItemCache assumes of its constants holds of what they are given.
LEMMA Granted ==
    /\ {} \subseteq Shown
    /\ [q \in Shown |-> 1] \in [Shown -> Nat]
    /\ \A q \in {} : [s \in Shown |-> 1][q] = 0
    /\ FALSE \in BOOLEAN
    /\ Cardinality(Runs) \in Nat
    /\ MaxDraws \in Nat \ {0} /\ MaxIncr \in Nat /\ MaxLate \in Nat
    /\ Readers \cap Runs = {}
    /\ None # Corrupt
    /\ None \notin CacheProofs!Generations /\ Corrupt \notin CacheProofs!Generations
    /\ None \notin Shown /\ None \notin CacheProofs!Entry
  <1>1. Cardinality(Runs) \in Nat
    BY CacheAssumption, FS_CardinalityType
  <1>. QED
    BY <1>1, CacheAssumption
    DEF CacheProofs!Generations, Cache!Generations, CacheProofs!Entry, Cache!Entry
-----------------------------------------------------------------------------
(* The module of the proofs speaks of the same cache. *)

LEMMA SameInit == Cache!Init => CacheProofs!Init
  BY DEF Cache!Init, CacheProofs!Init, Cache!Generations, CacheProofs!Generations,
         Cache!Processes, CacheProofs!Processes

LEMMA SameCalls ==
    ASSUME NEW p
    PROVE  /\ Cache!GetPointer(p) => CacheProofs!GetPointer(p)
           /\ Cache!InitPointer(p) => CacheProofs!InitPointer(p)
           /\ Cache!RereadPointer(p) => CacheProofs!RereadPointer(p)
           /\ Cache!InitPointerUnanswered(p) => CacheProofs!InitPointerUnanswered(p)
  BY DEF Cache!GetPointer, CacheProofs!GetPointer, Cache!InitPointer,
         CacheProofs!InitPointer, Cache!RereadPointer, CacheProofs!RereadPointer,
         Cache!InitPointerUnanswered, CacheProofs!InitPointerUnanswered,
         Cache!ReturnGeneration, CacheProofs!ReturnGeneration, Cache!Move,
         CacheProofs!Move, Cache!Miss, CacheProofs!Miss, Cache!Servable,
         CacheProofs!Servable, Cache!Generations, CacheProofs!Generations,
         Cache!Establish, CacheProofs!Establish, Cache!Candidate,
         CacheProofs!Candidate, Cache!redisVars, CacheProofs!redisVars

LEMMA SameRequests ==
    ASSUME NEW r, Cache!ReaderStep(r)
    PROVE  CacheProofs!ReaderStep(r)
  BY DEF Cache!GetPointer, CacheProofs!GetPointer, Cache!InitPointer,
         CacheProofs!InitPointer, Cache!RereadPointer, CacheProofs!RereadPointer,
         Cache!InitPointerUnanswered, CacheProofs!InitPointerUnanswered,
         Cache!ReturnGeneration, CacheProofs!ReturnGeneration, Cache!Move,
         CacheProofs!Move, Cache!Miss, CacheProofs!Miss, Cache!Servable,
         CacheProofs!Servable, Cache!Generations, CacheProofs!Generations,
         Cache!Establish, CacheProofs!Establish, Cache!Candidate,
         CacheProofs!Candidate, Cache!redisVars, CacheProofs!redisVars,
         Cache!StartRead, CacheProofs!StartRead, Cache!StartRandom,
         CacheProofs!StartRandom, Cache!Fetch, CacheProofs!Fetch,
         Cache!FetchUndecodable, CacheProofs!FetchUndecodable, Cache!CacheReadFails,
         CacheProofs!CacheReadFails, Cache!Select, CacheProofs!Select,
         Cache!SelectNothing, CacheProofs!SelectNothing, Cache!Count,
         CacheProofs!Count, Cache!DatabaseFails, CacheProofs!DatabaseFails,
         Cache!StoreEntry, CacheProofs!StoreEntry, Cache!SkipStore,
         CacheProofs!SkipStore, Cache!StoreLate, CacheProofs!StoreLate,
         Cache!FinishRequest, CacheProofs!FinishRequest, Cache!AbortRequest,
         CacheProofs!AbortRequest, Cache!ForgetRequest, CacheProofs!ForgetRequest,
         Cache!Proceed, CacheProofs!Proceed, Cache!ReaderStep,
         CacheProofs!ReaderStep, Cache!requestVars, CacheProofs!requestVars,
         Cache!PutEntry, CacheProofs!PutEntry, Cache!KeyGeneration,
         CacheProofs!KeyGeneration, Cache!InGeneration, CacheProofs!InGeneration,
         Cache!Replies, CacheProofs!Replies, Cache!FreshEntry,
         CacheProofs!FreshEntry, Cache!Exists, CacheProofs!Exists,
         Cache!Cardinality, CacheProofs!Cardinality

LEMMA SameRuns ==
    ASSUME NEW p, Cache!PublisherStep(p)
    PROVE  CacheProofs!PublisherStep(p)
  BY DEF Cache!GetPointer, CacheProofs!GetPointer, Cache!InitPointer,
         CacheProofs!InitPointer, Cache!RereadPointer, CacheProofs!RereadPointer,
         Cache!InitPointerUnanswered, CacheProofs!InitPointerUnanswered,
         Cache!ReturnGeneration, CacheProofs!ReturnGeneration, Cache!Move,
         CacheProofs!Move, Cache!Miss, CacheProofs!Miss, Cache!Servable,
         CacheProofs!Servable, Cache!Generations, CacheProofs!Generations,
         Cache!Establish, CacheProofs!Establish, Cache!Candidate,
         CacheProofs!Candidate, Cache!redisVars, CacheProofs!redisVars,
         Cache!Publish, CacheProofs!Publish, Cache!PublishNothing,
         CacheProofs!PublishNothing, Cache!PublishFails, CacheProofs!PublishFails,
         Cache!Invalidate, CacheProofs!Invalidate, Cache!InvalidationFails,
         CacheProofs!InvalidationFails, Cache!InvalidateLate,
         CacheProofs!InvalidateLate, Cache!RunAgain, CacheProofs!RunAgain,
         Cache!PublisherStep, CacheProofs!PublisherStep, Cache!BeginInvalidation,
         CacheProofs!BeginInvalidation, Cache!ApplyIncr, CacheProofs!ApplyIncr,
         Cache!Incremented, CacheProofs!Incremented, Cache!requestVars,
         CacheProofs!requestVars, Cache!InGeneration, CacheProofs!InGeneration

LEMMA SameRedis ==
    ASSUME Cache!RedisStep
    PROVE  CacheProofs!RedisStep
  BY DEF Cache!Expire, CacheProofs!Expire, Cache!CorruptEntry,
         CacheProofs!CorruptEntry, Cache!LosePointer, CacheProofs!LosePointer,
         Cache!CorruptPointer, CacheProofs!CorruptPointer, Cache!ApplyLateSet,
         CacheProofs!ApplyLateSet, Cache!ApplyLateIncr, CacheProofs!ApplyLateIncr,
         Cache!DropLateSet, CacheProofs!DropLateSet, Cache!DropLateIncr,
         CacheProofs!DropLateIncr, Cache!RedisStep, CacheProofs!RedisStep,
         Cache!PutEntry, CacheProofs!PutEntry, Cache!Generations,
         CacheProofs!Generations, Cache!IncrOutstanding,
         CacheProofs!IncrOutstanding, Cache!ApplyIncr, CacheProofs!ApplyIncr,
         Cache!Incremented, CacheProofs!Incremented, Cache!Establish,
         CacheProofs!Establish, Cache!processVars, CacheProofs!processVars,
         Cache!requestVars, CacheProofs!requestVars

LEMMA SameSteps ==
    ASSUME [Cache!Next]_Cache!vars
    PROVE  [CacheProofs!Next]_CacheProofs!vars
  BY SameRequests, SameRuns, SameRedis
  DEF Cache!Next, CacheProofs!Next, Cache!vars, CacheProofs!vars,
         Cache!redisVars, CacheProofs!redisVars, Cache!requestVars,
         CacheProofs!requestVars

LEMMA SameInvariant == Cache!Inductive <=> CacheProofs!Inductive
  BY DEF Cache!Inductive, CacheProofs!Inductive, Cache!TypeOK, CacheProofs!TypeOK,
         Cache!RequestsHold, CacheProofs!RequestsHold, Cache!ReadsAreFresh,
         CacheProofs!ReadsAreFresh, Cache!FillsAreFresh, CacheProofs!FillsAreFresh,
         Cache!AnnouncedByGeneration, CacheProofs!AnnouncedByGeneration,
         Cache!NothingAhead, CacheProofs!NothingAhead, Cache!IncrFindsPointer,
         CacheProofs!IncrFindsPointer, Cache!PayloadsSound,
         CacheProofs!PayloadsSound, Cache!NotOlder, CacheProofs!NotOlder,
         Cache!Past, CacheProofs!Past, Cache!Sound, CacheProofs!Sound,
         Cache!IncrOutstanding, CacheProofs!IncrOutstanding, Cache!Processes,
         CacheProofs!Processes, Cache!Generations, CacheProofs!Generations,
         Cache!Entry, CacheProofs!Entry, Cache!LateSet, CacheProofs!LateSet,
         Cache!ReaderPCs, CacheProofs!ReaderPCs, Cache!PublisherPCs,
         CacheProofs!PublisherPCs, Cache!InGeneration, CacheProofs!InGeneration

\* So the invariant of the cache is kept by its steps here.
LEMMA CacheKept ==
    ASSUME Cache!Inductive, [Cache!Next]_Cache!vars
    PROVE  Cache!Inductive'
  <1>1. CacheProofs!Inductive /\ [CacheProofs!Next]_CacheProofs!vars
    BY SameInvariant, SameSteps
  <1>2. CacheProofs!Inductive'
    BY <1>1, CacheProofs!InductiveNext, Granted
  <1>3. Cache!Inductive' <=> CacheProofs!Inductive'
    BY DEF Cache!Inductive, CacheProofs!Inductive, Cache!TypeOK, CacheProofs!TypeOK,
         Cache!RequestsHold, CacheProofs!RequestsHold, Cache!ReadsAreFresh,
         CacheProofs!ReadsAreFresh, Cache!FillsAreFresh, CacheProofs!FillsAreFresh,
         Cache!AnnouncedByGeneration, CacheProofs!AnnouncedByGeneration,
         Cache!NothingAhead, CacheProofs!NothingAhead, Cache!IncrFindsPointer,
         CacheProofs!IncrFindsPointer, Cache!PayloadsSound,
         CacheProofs!PayloadsSound, Cache!NotOlder, CacheProofs!NotOlder,
         Cache!Past, CacheProofs!Past, Cache!Sound, CacheProofs!Sound,
         Cache!IncrOutstanding, CacheProofs!IncrOutstanding, Cache!Processes,
         CacheProofs!Processes, Cache!Generations, CacheProofs!Generations,
         Cache!Entry, CacheProofs!Entry, Cache!LateSet, CacheProofs!LateSet,
         Cache!ReaderPCs, CacheProofs!ReaderPCs, Cache!PublisherPCs,
         CacheProofs!PublisherPCs, Cache!InGeneration, CacheProofs!InGeneration
  <1>. QED
    BY <1>2, <1>3

LEMMA CacheBegins == Cache!Init => Cache!Inductive
  BY SameInit, CacheProofs!InductiveInit, Granted, SameInvariant
-----------------------------------------------------------------------------
(* A step of the catalog is one of the runs and one of the cache, or less. *)

LEMMA StepsOfRuns ==
    ASSUME [CatalogNext]_catalogVars
    PROVE  [Next]_vars
  BY DEF CatalogNext, catalogVars, runVars, RunStep, TransactionStep, RunInterrupted, InDatabase,
         CommitRun, CommitRunUnacknowledged, InvalidationStep, InvalidationMissed, Request,
         Redis, Next, Proceed

LEMMA StepsOfCache ==
    ASSUME [CatalogNext]_catalogVars
    PROVE  [Cache!Next]_Cache!vars
  BY DEF CatalogNext, catalogVars, cacheVars, RunStep, TransactionStep, RunInterrupted,
         InDatabase, CommitRun, CommitRunUnacknowledged, InvalidationStep, Request, Redis,
         Cache!Next, Cache!PublisherStep, Cache!vars, Cache!redisVars, Cache!requestVars
-----------------------------------------------------------------------------
(* What a step leaves alone. *)

\* Only commits count as publications, and only invalidations announce them.
LEMMA CallsAnnounceNothing ==
    ASSUME NEW p, Cache!GetPointer(p) \/ Cache!InitPointer(p) \/ Cache!RereadPointer(p)
                  \/ Cache!InitPointerUnanswered(p)
    PROVE  UNCHANGED <<db, version, announced, since>>
  BY DEF Cache!GetPointer, Cache!InitPointer, Cache!RereadPointer,
         Cache!InitPointerUnanswered, Cache!redisVars

LEMMA RedisAnnouncesNothing ==
    ASSUME Cache!RedisStep
    PROVE  UNCHANGED <<db, version, announced, since>>
  BY DEF Cache!RedisStep, Cache!Expire, Cache!CorruptEntry, Cache!LosePointer,
         Cache!CorruptPointer, Cache!ApplyLateSet, Cache!ApplyLateIncr, Cache!DropLateSet,
         Cache!DropLateIncr, Cache!processVars, Cache!requestVars

\* A request remembers what was announced when it began, until it is forgotten.
LEMMA RequestsAnnounceNothing ==
    ASSUME Cache!TypeOK, NEW r \in Readers, Cache!ReaderStep(r)
    PROVE  /\ UNCHANGED <<db, version, announced>>
           /\ since' \in [Readers -> Nat]
           /\ \A o \in Readers \ {r} : since'[o] = since[o]
           /\ pc'[r] # "idle" => since'[r] = IF pc[r] = "idle" THEN announced ELSE since[r]
  <1>0. /\ pc \in [Cache!Processes -> Cache!ReaderPCs \cup Cache!PublisherPCs]
        /\ r \in Cache!Processes
        /\ since \in [Readers -> Nat] /\ announced \in Nat
    BY Granted DEF Cache!TypeOK, Cache!Processes
  <1>1. ASSUME NEW q, Cache!StartRead(r, q) \/ Cache!StartRandom(r, q)
        PROVE  /\ UNCHANGED <<db, version, announced>>
               /\ pc[r] = "idle" /\ since' = [since EXCEPT ![r] = announced]
    BY <1>1 DEF Cache!StartRead, Cache!StartRandom
  <1>2. CASE Cache!FinishRequest(r) \/ Cache!AbortRequest(r)
    BY <1>0, <1>2 DEF Cache!FinishRequest, Cache!AbortRequest, Cache!ForgetRequest, Cache!Move
  <1>3. CASE Cache!GetPointer(r) \/ Cache!InitPointer(r) \/ Cache!RereadPointer(r)
             \/ Cache!InitPointerUnanswered(r)
    <2>1. pc[r] # "idle"
      BY <1>3 DEF Cache!GetPointer, Cache!InitPointer, Cache!RereadPointer,
                  Cache!InitPointerUnanswered
    <2>. QED
      BY <1>0, <1>3, <2>1, CallsAnnounceNothing
  <1>4. CASE \/ Cache!Fetch(r) \/ Cache!FetchUndecodable(r) \/ Cache!CacheReadFails(r)
             \/ Cache!Select(r) \/ Cache!SelectNothing(r) \/ Cache!Count(r)
             \/ Cache!DatabaseFails(r)
             \/ Cache!StoreEntry(r) \/ Cache!SkipStore(r) \/ Cache!StoreLate(r)
    BY <1>0, <1>4
    DEF Cache!Fetch, Cache!FetchUndecodable, Cache!CacheReadFails, Cache!Select,
        Cache!SelectNothing, Cache!Count, Cache!DatabaseFails, Cache!StoreEntry,
        Cache!SkipStore, Cache!StoreLate, Cache!requestVars, Cache!InGeneration
  <1>. QED
    BY <1>0, <1>1, <1>2, <1>3, <1>4 DEF Cache!ReaderStep, Cache!Proceed

\* Outside of its commit, a run leaves the rows and the committed runs alone.
LEMMA RunsCommitNothing ==
    ASSUME TypeOK, NEW r \in Runs,
           \/ Reject(r) \/ ReadClock(r) \/ AcquireLock(r) \/ LockTimesOut(r)
           \/ CheckLastSync(r) \/ UpsertItems(r) \/ UpsertMetadata(r)
           \/ StatementFails(r) \/ Disconnect(r) \/ NoticeDisconnect(r)
    PROVE  /\ UNCHANGED <<items, meta>>
           /\ \A p \in Runs : stage[p] \in Committed => stage'[p] = stage[p] /\ clock'[p] = clock[p]
           /\ \A p \in Runs : stage'[p] \in {"invalidate", "ok"} => stage'[p] = stage[p]
  BY DEF TypeOK, Reject, ReadClock, AcquireLock, LockTimesOut, CheckLastSync, UpsertItems,
         UpsertMetadata, StatementFails, Disconnect, NoticeDisconnect, Rollback, Enter,
         Committed, Ended, InTransaction

\* A run that ends reporting success has announced what it committed.
LEMMA SuccessAnnounced ==
    ASSUME TypeOK, Cache!TypeOK, NEW r \in Runs, InvalidationStep(r)
    PROVE  /\ UNCHANGED <<items, meta, clock, db, version, since>>
           /\ announced <= announced'
           /\ \A p \in Runs : stage[p] \in Committed => stage'[p] \in Committed
           /\ \A p \in Runs : stage[p] = "ok" => stage'[p] = "ok"
           /\ \A p \in Runs : stage'[p] \in {"invalidate", "ok"} => stage[p] \in {"invalidate", "ok"}
           /\ \A p \in Runs : stage'[p] = "ok" => stage[p] = "ok" \/ version[p] <= announced'
  <1>0. announced \in Nat /\ version \in [Runs -> Nat]
    BY Granted DEF Cache!TypeOK
  <1>1. CASE Cache!Invalidate(r) /\ (Invalidate(r) \/ CleanupFails(r))
    BY <1>0, <1>1
    DEF Cache!Invalidate, Cache!requestVars, Invalidate, CleanupFails, Enter, TypeOK,
        Committed, Ended
  <1>2. CASE /\ \/ Cache!GetPointer(r) \/ Cache!InitPointer(r) \/ Cache!RereadPointer(r)
                \/ Cache!InitPointerUnanswered(r)
                \/ Cache!InvalidationFails(r) \/ Cache!InvalidateLate(r)
             /\ IF pc'[r] = "failed" THEN InvalidationMissed(r) ELSE UNCHANGED runVars
    <2>1. UNCHANGED <<db, version, announced, since>>
      BY <1>2, CallsAnnounceNothing
      DEF Cache!InvalidationFails, Cache!InvalidateLate, Cache!requestVars
    <2>2. \/ UNCHANGED runVars
          \/ /\ stage[r] = "invalidate"
             /\ \E s \in {"uninvalidated", "crashed", "unavailable"} : Enter(r, s)
             /\ UNCHANGED <<items, meta, clock>>
      BY <1>2 DEF InvalidationMissed, InvalidationFails, CleanupFails
    <2>. QED
      BY <1>0, <2>1, <2>2 DEF runVars, vars, Enter, TypeOK, Committed, Ended
  <1>. QED
    BY <1>1, <1>2 DEF InvalidationStep
-----------------------------------------------------------------------------
(* The history of the rows. *)

\* As long as nothing is published, what is known of the versions stays true.
LEMMA HistoryKept ==
    ASSUME HistoryHolds, RunsFollowed, TypeOK, Cache!TypeOK,
           UNCHANGED <<items, meta, catalogs, db, version>>,
           announced <= announced', announced' \in Nat,
           \A p \in Runs : stage[p] \in Committed => stage'[p] \in Committed /\ clock'[p] = clock[p],
           \A p \in Runs : stage'[p] \in {"invalidate", "ok"} => stage[p] \in {"invalidate", "ok"},
           \A p \in Runs : stage'[p] = "ok" => stage[p] = "ok" \/ version[p] <= announced'
    PROVE  HistoryHolds' /\ RunsFollowed'
  <1>0. announced \in Nat /\ version \in [Runs -> Nat] /\ db \in Nat
    BY Granted DEF Cache!TypeOK
  <1>1. ASSUME NEW v \in 1 .. db, NEW q \in Shown
        PROVE  /\ catalogs[v][q] \in Runs /\ stage'[catalogs[v][q]] \in Committed
               /\ clock'[catalogs[v][q]] = clock[catalogs[v][q]]
    BY DEF HistoryHolds
  <1>2. meta # None => meta.dataset \in Runs
    BY DEF TypeOK, Metadata
  <1>3. HistoryHolds'
    BY <1>0, <1>1, <1>2 DEF HistoryHolds
  <1>4. ASSUME NEW p \in Runs, stage'[p] \in {"invalidate", "ok"}
        PROVE  /\ version[p] \in 1 .. db
               /\ \A q \in Shown : clock'[p] <= clock'[catalogs[version[p]][q]]
    <2>1. stage[p] \in {"invalidate", "ok"} /\ clock'[p] = clock[p]
      BY <1>4 DEF Committed, Ended
    <2>2. /\ version[p] \in 1 .. db
          /\ \A q \in Shown : clock[p] <= clock[catalogs[version[p]][q]]
      BY <2>1 DEF RunsFollowed
    <2>. QED
      BY <1>1, <2>1, <2>2
  <1>5. ASSUME NEW p \in Runs, stage'[p] = "ok"
        PROVE  version[p] <= announced'
    BY <1>0, <1>5 DEF RunsFollowed
  <1>. QED
    BY <1>3, <1>4, <1>5 DEF RunsFollowed

\* What a commit does: it enters the history if it published anything, and its
\* run, if it learns of it, takes the version it left for its own.
LEMMA CommitEffect ==
    ASSUME CatalogInductive, NEW r \in Runs, CommitRun(r) \/ CommitRunUnacknowledged(r)
    PROVE  /\ stage[r] = "commit" /\ CommitTransaction(r)
           /\ UNCHANGED <<clock, announced, since, reported>>
           /\ catalogs' = IF recorded[r] THEN Append(catalogs, items') ELSE catalogs
           /\ db' = IF recorded[r] THEN db + 1 ELSE db
           /\ \/ stage' = [stage EXCEPT ![r] = "invalidate"] /\ version' = [version EXCEPT ![r] = db']
              \/ /\ \E s \in {"unavailable", "crashed"} : stage' = [stage EXCEPT ![r] = s]
                 /\ UNCHANGED version
  <1>1. CASE CommitRun(r)
    BY <1>1 DEF CommitRun, Commit, Enter, Record, Cache!Publish, Cache!PublishNothing,
                Cache!BeginInvalidation
  <1>2. CASE CommitRunUnacknowledged(r)
    BY <1>2 DEF CommitRunUnacknowledged, CommitUnacknowledged, Enter, Record,
                Cache!PublishFails, Cache!requestVars, cacheVars
  <1>. QED
    BY <1>1, <1>2

\* A commit adds rows of a later run, or knows that the last rows are no older.
LEMMA CommitHistory ==
    ASSUME CatalogInductive, Inductive', NEW r \in Runs,
           CommitRun(r) \/ CommitRunUnacknowledged(r)
    PROVE  HistoryHolds' /\ RunsFollowed'
  <1>0. /\ TypeOK /\ HistoryHolds /\ RunsFollowed
        /\ announced \in Nat /\ version \in [Runs -> Nat] /\ db \in Nat
        /\ db = Len(catalogs) /\ catalogs \in Seq([Ids -> Runs \cup {None}])
    BY Granted DEF CatalogInductive, Inductive, Cache!Inductive, Cache!TypeOK, HistoryHolds
  <1>1. /\ stage[r] = "commit" /\ clock[r] \in Times /\ clock[r] \in Nat
        /\ clock' = clock /\ announced' = announced
        /\ \A p \in Runs \ {r} : stage'[p] = stage[p] /\ version'[p] = version[p]
        /\ stage'[r] \in Committed \ {"ok"}
        /\ stage'[r] = "invalidate" => version'[r] = db'
    <2>1. /\ stage[r] = "commit" /\ CommitTransaction(r) /\ UNCHANGED <<clock, announced>>
          /\ \/ stage' = [stage EXCEPT ![r] = "invalidate"] /\ version' = [version EXCEPT ![r] = db']
             \/ /\ \E s \in {"unavailable", "crashed"} : stage' = [stage EXCEPT ![r] = s]
                /\ UNCHANGED version
      BY CommitEffect
    <2>2. clock[r] \in Times /\ clock[r] \in Nat
      BY <2>1, CommitPublishes, ConstantsAssumption DEF CatalogInductive
    <2>3. stage \in [Runs -> Stages]
      BY <1>0 DEF TypeOK
    <2>. QED
      BY <1>0, <2>1, <2>2, <2>3 DEF Committed, Ended
  <1>2. \A p \in Runs : stage[p] \in Committed => p # r /\ stage'[p] = stage[p]
    BY <1>1 DEF Committed, Ended
  <1>3. \A p \in Runs : stage[p] \in Committed => clock[p] \in Nat
    <2>1. \A p \in Runs : Pending(p)
      BY DEF CatalogInductive, Inductive, PendingMatchesStage
    <2>. QED
      BY <2>1, ConstantsAssumption DEF Pending, Committed, Ended
  <1>4. ASSUME NEW v \in 1 .. db, NEW q \in Shown
        PROVE  /\ catalogs[v][q] \in Runs /\ stage[catalogs[v][q]] \in Committed
               /\ stage'[catalogs[v][q]] \in Committed
               /\ clock[catalogs[v][q]] \in Nat
    BY <1>0, <1>2, <1>3 DEF HistoryHolds
  <1>5. ASSUME NEW p \in Runs, p # r, stage'[p] \in {"invalidate", "ok"}
        PROVE  /\ version'[p] = version[p] /\ version[p] \in 1 .. db
               /\ \A q \in Shown : clock[p] <= clock[catalogs[version[p]][q]]
               /\ stage[p] = "ok" => version[p] <= announced
    BY <1>0, <1>1, <1>5 DEF RunsFollowed
  <1>6. CASE ~recorded[r]
    <2>1. /\ items' = items /\ meta' = meta /\ meta # None /\ clock[r] <= meta.lastSync
          /\ catalogs' = catalogs /\ db' = db /\ db > 0
      BY <1>0, <1>6, CommitEffect, CommitPublishes DEF CatalogInductive, HistoryHolds
    <2>2. meta.dataset \in Runs
      BY <1>0, <2>1 DEF TypeOK, Metadata
    <2>3. HistoryHolds'
      BY <1>0, <1>1, <1>2, <1>4, <2>1, <2>2 DEF HistoryHolds
    <2>4. \A q \in Shown : clock[r] <= clock[catalogs[db][q]]
      <3>1. /\ catalogs[db] = items
            /\ \A id \in Covers[meta.dataset] : items[id] = meta.dataset
            /\ clock[meta.dataset] = meta.lastSync
        BY <1>0, <2>1 DEF HistoryHolds, CatalogInductive, Inductive, MetadataDescribesItems
      <3>. QED
        BY <2>1, <2>2, <3>1, ShownAssumption
    <2>. QED
      BY <1>0, <1>1, <1>5, <2>1, <2>3, <2>4 DEF RunsFollowed
  <1>7. CASE recorded[r]
    <2>1. /\ items' = [id \in Ids |-> IF id \in Covers[r] THEN r ELSE items[id]]
          /\ meta' = [dataset |-> r, lastSync |-> clock[r]] /\ Newer(r)
          /\ catalogs' = Append(catalogs, items') /\ db' = db + 1
      BY <1>0, <1>7, CommitEffect, CommitPublishes DEF CatalogInductive
    <2>2. items' \in [Ids -> Runs \cup {None}] /\ meta'.dataset = r /\ meta'.lastSync = clock[r]
      BY <2>1 DEF Inductive, TypeOK
    <2>3. /\ catalogs' \in Seq([Ids -> Runs \cup {None}]) /\ Len(catalogs') = db'
          /\ catalogs'[db'] = items' /\ \A v \in 1 .. db : catalogs'[v] = catalogs[v]
      BY <1>0, <2>1, <2>2
    <2>4. \A q \in Shown : items'[q] = r
      BY <2>1, ShownAssumption
    <2>5. ASSUME NEW v \in 1 .. db, NEW q \in Shown
          PROVE  clock[catalogs[v][q]] <= clock[r]
      <3>1. clock[catalogs[v][q]] <= clock[catalogs[db][q]] /\ catalogs[db] = items
        BY <1>0 DEF HistoryHolds
      <3>2. items[q] \in Runs /\ items[q] # None /\ clock[items[q]] \in Nat /\ q \in Ids
        BY <1>0, <1>4, <3>1, ConstantsAssumption, ShownAssumption
      <3>3. meta # None /\ clock[items[q]] <= meta.lastSync /\ meta.lastSync \in Nat
        BY <1>0, <3>2, ConstantsAssumption
        DEF CatalogInductive, Inductive, MetadataDescribesItems, TypeOK, Metadata
      <3>4. meta.lastSync < clock[r]
        BY <2>1, <3>3 DEF Newer
      <3>. QED
        BY <1>1, <1>4, <3>1, <3>2, <3>3, <3>4
    <2>6. ASSUME NEW v \in 1 .. db', NEW q \in Shown
          PROVE  /\ catalogs'[v][q] \in Runs /\ stage'[catalogs'[v][q]] \in Committed
                 /\ clock[catalogs'[v][q]] \in Nat
                 /\ v = db' => catalogs'[v][q] = r
                 /\ v # db' => v \in 1 .. db /\ catalogs'[v][q] = catalogs[v][q]
      <3>1. CASE v = db'
        BY <1>0, <1>1, <2>1, <2>3, <2>4, <3>1
      <3>2. CASE v # db'
        <4>1. v \in 1 .. db
          BY <1>0, <2>1, <3>2
        <4>. QED
          BY <1>4, <2>3, <3>2, <4>1
      <3>. QED
        BY <3>1, <3>2
    <2>7. ASSUME NEW v \in 1 .. db', NEW w \in 1 .. db', v <= w, NEW q \in Shown
          PROVE  clock[catalogs'[v][q]] <= clock[catalogs'[w][q]]
      <3>1. CASE w = db'
        BY <1>1, <2>5, <2>6, <3>1
      <3>2. CASE w # db'
        <4>1. w \in 1 .. db /\ v \in 1 .. db
          BY <1>0, <2>1, <2>7, <3>2
        <4>. QED
          BY <1>0, <2>3, <2>7, <4>1 DEF HistoryHolds
      <3>. QED
        BY <3>1, <3>2
    <2>8. HistoryHolds'
      <3>1. meta'.dataset = r /\ stage'[r] \in Committed /\ clock'[r] = meta'.lastSync /\ db' > 0
        BY <1>0, <1>1, <2>1, <2>2
      <3>2. \A v \in 1 .. db', w \in 1 .. db', q \in Shown :
                v <= w => clock'[catalogs'[v][q]] <= clock'[catalogs'[w][q]]
        BY <1>1, <2>7
      <3>. QED
        BY <2>3, <2>6, <3>1, <3>2 DEF HistoryHolds
    <2>9. ASSUME NEW p \in Runs, stage'[p] \in {"invalidate", "ok"}
          PROVE  /\ version'[p] \in 1 .. db'
                 /\ \A q \in Shown : clock'[p] <= clock'[catalogs'[version'[p]][q]]
                 /\ stage'[p] = "ok" => version'[p] <= announced'
      <3>1. CASE p = r
        <4>1. stage'[r] = "invalidate" /\ version'[r] = db' /\ db' \in 1 .. db'
          BY <1>0, <1>1, <2>1, <2>9, <3>1
        <4>2. \A q \in Shown : catalogs'[db'][q] = r
          BY <2>6, <4>1
        <4>. QED
          BY <1>1, <3>1, <4>1, <4>2
      <3>2. CASE p # r
        BY <1>0, <1>1, <1>5, <2>1, <2>3, <2>9, <3>2
      <3>. QED
        BY <3>1, <3>2
    <2>. QED
      BY <2>8, <2>9 DEF RunsFollowed
  <1>. QED
    BY <1>6, <1>7
-----------------------------------------------------------------------------
(* The invariant. *)

\* What a request knows of finished runs stays announced.
LEMMA ReportsKept ==
    ASSUME ReportsAnnounced, UNCHANGED <<reported, since>>,
           \A p \in Runs : stage[p] = "ok" => stage'[p] = "ok" /\ version'[p] = version[p]
    PROVE  ReportsAnnounced'
  BY DEF ReportsAnnounced

\* A request that begins knows of runs that have announced their version.
LEMMA RequestReports ==
    ASSUME CatalogInductive, NEW r \in Readers, Request(r)
    PROVE  ReportsAnnounced'
  <1>1. /\ UNCHANGED <<stage, version>> /\ reported \in [Readers -> SUBSET Runs]
        /\ \A o \in Readers \ {r} : reported'[o] = reported[o]
        /\ reported' \in [Readers -> SUBSET Runs]
        /\ reported'[r] = IF pc'[r] = "idle" THEN {} ELSE IF pc[r] = "idle"
                            THEN {p \in Runs : stage[p] = "ok"} ELSE reported[r]
    BY RequestsAnnounceNothing
    DEF Request, runVars, vars, CatalogInductive, Cache!Inductive, ReportsAnnounced
  <1>2. /\ \A o \in Readers \ {r} : since'[o] = since[o]
        /\ pc'[r] # "idle" => since'[r] = IF pc[r] = "idle" THEN announced ELSE since[r]
    BY RequestsAnnounceNothing DEF Request, CatalogInductive, Cache!Inductive
  <1>3. \A p \in Runs : stage[p] = "ok" => version[p] <= announced
    BY DEF CatalogInductive, RunsFollowed
  <1>4. \A o \in Readers : \A p \in reported[o] : stage[p] = "ok" /\ version[p] <= since[o]
    BY DEF CatalogInductive, ReportsAnnounced
  <1>5. \A p \in reported'[r] : stage[p] = "ok" /\ version[p] <= since'[r]
    BY <1>1, <1>2, <1>3, <1>4
  <1>. QED
    BY <1>1, <1>2, <1>4, <1>5 DEF ReportsAnnounced

\* Every step of the runs, of the requests and of Redis keeps the invariant.
LEMMA CatalogKept ==
    ASSUME CatalogInductive, [CatalogNext]_catalogVars
    PROVE  CatalogInductive'
  <1>1. Inductive'
    BY StepsOfRuns, InductiveNext DEF CatalogInductive
  <1>2. Cache!Inductive'
    BY StepsOfCache, CacheKept DEF CatalogInductive
  <1>3. /\ TypeOK /\ Cache!TypeOK /\ HistoryHolds /\ RunsFollowed /\ ReportsAnnounced
        /\ announced \in Nat
    BY Granted DEF CatalogInductive, Inductive, Cache!Inductive, Cache!TypeOK
  <1>4. ASSUME UNCHANGED <<runVars, catalogs, db, version, announced>>
        PROVE  HistoryHolds' /\ RunsFollowed'
    BY <1>3, <1>4 DEF runVars, vars, HistoryHolds, RunsFollowed
  <1>5. ASSUME NEW r \in Runs,
               InDatabase(Reject(r) \/ ReadClock(r)) \/ TransactionStep(r) \/ RunInterrupted(r)
        PROVE  HistoryHolds' /\ RunsFollowed' /\ ReportsAnnounced'
    <2>1. /\ UNCHANGED <<cacheVars, catalogs, reported>>
          /\ \/ Reject(r) \/ ReadClock(r) \/ AcquireLock(r) \/ LockTimesOut(r)
             \/ CheckLastSync(r) \/ UpsertItems(r) \/ UpsertMetadata(r)
             \/ StatementFails(r) \/ Disconnect(r) \/ NoticeDisconnect(r)
      BY <1>5 DEF InDatabase, TransactionStep, RunInterrupted
    <2>2. /\ UNCHANGED <<items, meta>>
          /\ \A p \in Runs : stage[p] \in Committed => stage'[p] = stage[p] /\ clock'[p] = clock[p]
          /\ \A p \in Runs : stage'[p] \in {"invalidate", "ok"} => stage'[p] = stage[p]
      BY <1>3, <2>1, RunsCommitNothing
    <2>3. UNCHANGED <<db, version, announced, since>>
      BY <2>1 DEF cacheVars
    <2>4. "ok" \in Committed
      BY DEF Committed, Ended
    <2>5. HistoryHolds' /\ RunsFollowed'
      BY <1>3, <2>1, <2>2, <2>3, HistoryKept
    <2>. QED
      BY <1>3, <2>1, <2>2, <2>3, <2>4, <2>5, ReportsKept
  <1>6. ASSUME NEW r \in Runs, CommitRun(r) \/ CommitRunUnacknowledged(r)
        PROVE  HistoryHolds' /\ RunsFollowed' /\ ReportsAnnounced'
    <2>1. \A p \in Runs : stage[p] = "ok" => stage'[p] = "ok" /\ version'[p] = version[p]
      BY <1>3, <1>6, CommitEffect DEF TypeOK, Cache!TypeOK
    <2>2. UNCHANGED <<reported, since>>
      BY <1>6, CommitEffect
    <2>. QED
      BY <1>1, <1>3, <1>6, <2>1, <2>2, CommitHistory, ReportsKept
  <1>7. ASSUME NEW r \in Runs, InvalidationStep(r)
        PROVE  HistoryHolds' /\ RunsFollowed' /\ ReportsAnnounced'
    <2>1. UNCHANGED <<catalogs, reported>>
      BY <1>7 DEF InvalidationStep
    <2>2. announced' \in Nat
      BY <1>2, Granted DEF Cache!Inductive, Cache!TypeOK
    <2>3. HistoryHolds' /\ RunsFollowed'
      BY <1>3, <1>7, <2>1, <2>2, SuccessAnnounced, HistoryKept
    <2>. QED
      BY <1>3, <1>7, <2>1, <2>3, SuccessAnnounced, ReportsKept
  <1>8. ASSUME NEW r \in Readers, Request(r)
        PROVE  HistoryHolds' /\ RunsFollowed' /\ ReportsAnnounced'
    BY <1>3, <1>4, <1>8, RequestsAnnounceNothing, RequestReports DEF Request
  <1>9. CASE Redis
    <2>1. /\ UNCHANGED <<runVars, catalogs, db, version, announced, since, reported>>
          /\ stage' = stage
      BY <1>9, RedisAnnouncesNothing DEF Redis, runVars, vars
    <2>2. HistoryHolds' /\ RunsFollowed'
      BY <1>4, <2>1
    <2>3. ReportsAnnounced'
      BY <1>3, <2>1, ReportsKept
    <2>. QED
      BY <1>1, <1>2, <2>2, <2>3 DEF CatalogInductive
  <1>10. CASE UNCHANGED catalogVars
    <2>1. /\ UNCHANGED <<runVars, catalogs, db, version, announced, since, reported>>
          /\ stage' = stage
      BY <1>10 DEF catalogVars, cacheVars, runVars, vars
    <2>2. HistoryHolds' /\ RunsFollowed'
      BY <1>4, <2>1
    <2>3. ReportsAnnounced'
      BY <1>3, <2>1, ReportsKept
    <2>. QED
      BY <1>1, <1>2, <2>2, <2>3 DEF CatalogInductive
  <1>. QED
    BY <1>1, <1>2, <1>5, <1>6, <1>7, <1>8, <1>9, <1>10
    DEF CatalogInductive, CatalogNext, RunStep

LEMMA CatalogBegins == CatalogInit => CatalogInductive
  <1>. SUFFICES ASSUME CatalogInit PROVE CatalogInductive
    OBVIOUS
  <1>1. Inductive /\ Cache!Inductive
    BY InductiveInit, CacheBegins DEF CatalogInit
  <1>2. HistoryHolds
    BY DEF CatalogInit, Init, Cache!Init, HistoryHolds
  <1>3. RunsFollowed
    BY DEF CatalogInit, Init, RunsFollowed
  <1>4. ReportsAnnounced
    BY DEF CatalogInit, ReportsAnnounced
  <1>. QED
    BY <1>1, <1>2, <1>3, <1>4 DEF CatalogInductive

LEMMA CatalogHolds == CatalogSpec => []CatalogInductive
  BY CatalogBegins, CatalogKept, PTL DEF CatalogSpec

\* AnswersFollowSuccess: a request that begins after a run of the command has
\* exited with 0 is answered with that run's rows or those of a later one, and
\* is not told that a row it published is missing, for any number of runs and
\* requests, whatever overlaps, fails, is lost or comes late.
THEOREM SuccessReachesReaders == CatalogSpec => []AnswersFollowSuccess
  <1>1. ASSUME CatalogInductive, NEW r \in Readers, NEW p \in Runs, p \in reported[r]
        PROVE  /\ pc[r] = "done" => clock[p] <= clock[catalogs[body[r].lo][want[r]]]
               /\ pc[r] # "notfound"
    <2>1. /\ stage[p] = "ok" /\ version[p] <= since[r]
          /\ version[p] \in 1 .. db
          /\ \A q \in Shown : clock[p] <= clock[catalogs[version[p]][q]]
      BY <1>1 DEF CatalogInductive, ReportsAnnounced, RunsFollowed
    <2>2. since[r] \in Nat /\ db \in Nat /\ version[p] \in Nat
      BY <1>1, Granted DEF CatalogInductive, Cache!Inductive, Cache!TypeOK
    <2>3. pc[r] # "idle" => want[r] \in Shown
      BY <1>1 DEF CatalogInductive, Cache!Inductive, Cache!RequestsHold
    <2>4. CASE pc[r] = "done"
      <3>1. /\ since[r] <= body[r].lo /\ body[r].lo <= body[r].hi /\ body[r].hi <= db
            /\ body[r] \in Cache!Entry
        BY <1>1, <2>4
        DEF CatalogInductive, Cache!Inductive, Cache!ReadsAreFresh, Cache!NotOlder,
            Cache!RequestsHold
      <3>2. body[r].lo \in Nat /\ body[r].hi \in Nat
        BY <3>1, Granted DEF Cache!Entry
      <3>3. body[r].lo \in 1 .. db /\ version[p] <= body[r].lo
        BY <2>1, <2>2, <3>1, <3>2
      <3>4. clock[catalogs[version[p]][want[r]]] <= clock[catalogs[body[r].lo][want[r]]]
        BY <1>1, <2>1, <2>3, <2>4, <3>3 DEF CatalogInductive, HistoryHolds
      <3>5. /\ clock[p] \in Nat
            /\ \A v \in 1 .. db : clock[catalogs[v][want[r]]] \in Nat
        <4>1. \A o \in Runs : Pending(o)
          BY <1>1 DEF CatalogInductive, Inductive, PendingMatchesStage
        <4>2. \A o \in Runs : stage[o] \in Committed => clock[o] \in Nat
          BY <4>1, ConstantsAssumption DEF Pending, Committed, Ended
        <4>3. stage[p] \in Committed
          BY <2>1 DEF Committed, Ended
        <4>. QED
          BY <1>1, <2>3, <2>4, <4>2, <4>3 DEF CatalogInductive, HistoryHolds
      <3>. QED
        BY <2>1, <2>3, <2>4, <3>3, <3>4, <3>5
    <2>5. pc[r] # "notfound"
      <3>1. pc[r] = "notfound" => since[r] < 1
        BY <1>1, <2>3 DEF CatalogInductive, Cache!Inductive, Cache!ReadsAreFresh
      <3>. QED
        BY <2>1, <2>2, <3>1
    <2>. QED
      BY <2>4, <2>5
  <1>2. CatalogInductive => AnswersFollowSuccess
    BY <1>1 DEF AnswersFollowSuccess
  <1>. QED
    BY <1>2, CatalogHolds, PTL

\* The types of the two halves, and what ties them: the versions of the cache
\* are the publications of the runs, and the last of them is what is committed.
THEOREM CatalogTypeCorrect == CatalogSpec => []CatalogTypeOK
  <1>1. CatalogInductive => CatalogTypeOK
    BY DEF CatalogInductive, Inductive, Cache!Inductive, HistoryHolds, ReportsAnnounced,
           CatalogTypeOK
  <1>. QED
    BY <1>1, CatalogHolds, PTL
-----------------------------------------------------------------------------
(* The composition is a behaviour of either half, so what was promised of   *)
(* the halves holds of runs and readers together.                           *)

\* Publications stay atomic and in the order of their times, rows change with
\* metadata that names their run, and who reports success is recorded, while
\* requests read and caches fail.
THEOREM RunsKeepPromises ==
    CatalogSpec => /\ RowsChangeWithMetadata
                   /\ []MetadataDescribesItems
                   /\ []SuccessIsRecorded
                   /\ ImplementsPublication
  <1>1. CatalogInit => Init
    BY DEF CatalogInit
  <1>2. [CatalogNext]_catalogVars => [Next]_vars
    BY StepsOfRuns
  <1>3. CatalogSpec => Spec
    BY <1>1, <1>2, PTL DEF CatalogSpec, Spec
  <1>. QED
    BY <1>3, RowsFollowMetadata, NeverPartial, SuccessRecorded, Implementation, PTL

\* With the transactions, batches and lost acknowledgements of real runs behind
\* its publications, the cache is as fresh and coherent as it promises, and
\* requests are answered as if there were none.
THEOREM CacheKeepsPromises ==
    CatalogSpec => /\ []Cache!ReadsAreFresh
                   /\ []Cache!CoherentOnceInvalidated
                   /\ Cache!NoResurrection
                   /\ Cache!HitsHonourFloor
                   /\ CacheProofs!ImplementsRegister
  <1>1. CatalogInit => CacheProofs!Init
    BY SameInit DEF CatalogInit
  <1>2. [CatalogNext]_catalogVars => [CacheProofs!Next]_CacheProofs!vars
    BY StepsOfCache, SameSteps
  <1>3. CatalogSpec => CacheProofs!Spec
    BY <1>1, <1>2, PTL DEF CatalogSpec, CacheProofs!Spec
  <1>4. CacheProofs!Spec => /\ []CacheProofs!ReadsAreFresh
                            /\ []CacheProofs!CoherentOnceInvalidated
                            /\ CacheProofs!NoResurrection
                            /\ CacheProofs!HitsHonourFloor
                            /\ CacheProofs!ImplementsRegister
    BY Granted, CacheProofs!FreshReads, CacheProofs!Coherence,
       CacheProofs!GenerationsNeverReturn, CacheProofs!HitsAreCurrent,
       CacheProofs!CacheIsTransparent
  <1>5. CacheProofs!ReadsAreFresh => Cache!ReadsAreFresh
    BY DEF CacheProofs!ReadsAreFresh, Cache!ReadsAreFresh, CacheProofs!NotOlder,
           Cache!NotOlder
  <1>6. CacheProofs!CoherentOnceInvalidated => Cache!CoherentOnceInvalidated
    BY DEF CacheProofs!CoherentOnceInvalidated, Cache!CoherentOnceInvalidated,
           CacheProofs!Reachable, Cache!Reachable, CacheProofs!Generations,
           Cache!Generations
  <1>7. CacheProofs!NoResurrection => Cache!NoResurrection
    <2>. DEFINE Left(generations) ==
                    pointer' # pointer /\ pointer' \in generations
                        => /\ \A q \in Shown : store[pointer'][q] = None
                           /\ \A r \in Readers : gen[r] # pointer'
                           /\ \A s \in lateSets : s.gen # pointer'
    <2>1. [Left(CacheProofs!Generations)]_CacheProofs!vars => [Left(Cache!Generations)]_Cache!vars
      BY DEF Cache!vars, CacheProofs!vars, Cache!redisVars, CacheProofs!redisVars,
             Cache!requestVars, CacheProofs!requestVars, CacheProofs!Generations,
             Cache!Generations
    <2>. QED
      BY <2>1, PTL DEF CacheProofs!NoResurrection, Cache!NoResurrection
  <1>8. CacheProofs!HitsHonourFloor => Cache!HitsHonourFloor
    <2>1. [\A r \in Readers : pc[r] \in CacheProofs!InGeneration /\ pc'[r] = "done"
               => CacheProofs!NotOlder(body[r], floor')]_CacheProofs!vars
            => [\A r \in Readers : pc[r] \in Cache!InGeneration /\ pc'[r] = "done"
                   => Cache!NotOlder(body[r], floor')]_Cache!vars
      BY DEF Cache!vars, CacheProofs!vars, Cache!redisVars, CacheProofs!redisVars,
             Cache!requestVars, CacheProofs!requestVars, Cache!InGeneration,
             CacheProofs!InGeneration, Cache!NotOlder, CacheProofs!NotOlder
    <2>. QED
      BY <2>1, PTL DEF CacheProofs!HitsHonourFloor, Cache!HitsHonourFloor
  <1>. QED
    BY <1>3, <1>4, <1>5, <1>6, <1>7, <1>8, PTL
=============================================================================
