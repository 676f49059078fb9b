------------------------------- MODULE Catalog -------------------------------
(***************************************************************************)
(* From the command to the reader: the runs of Ingestion.tla publish to    *)
(* the database that the requests of ItemCache.tla read, through the cache *)
(* that the same runs then invalidate.  The commit of a run, and the end   *)
(* of its invalidation, are one step in both.                              *)
(*                                                                         *)
(* ItemCache counts recorded publications; here a version has rows.        *)
(***************************************************************************)
EXTENDS Ingestion, FiniteSets

CONSTANTS
    Readers, Shown,              \* requests, and the ids they ask for
    MaxDraws, MaxIncr, MaxLate,  \* bounds of ItemCache
    Corrupt

\* A snapshot is the whole catalog, so it has what readers ask for.
ASSUME ShownAssumption ==
    /\ Shown \subseteq Ids
    /\ \A r \in Runs : Shown \subseteq Covers[r]

VARIABLES
    db, pointer, draws, store, lateSets, lateIncrs, pc, call, want, gen, body,
    version, floor, announced, since,  \* of ItemCache
    catalogs,  \* history: the rows as each recorded publication left them
    reported   \* history: the runs that had exited with 0 when a request began

runVars == vars
cacheVars == <<db, pointer, draws, store, lateSets, lateIncrs, pc, call, want, gen,
               body, version, floor, announced, since>>
catalogVars == <<runVars, cacheVars, catalogs, reported>>

Cache == INSTANCE ItemCache WITH
    Publishers <- Runs,
    Resources <- Shown, Lists <- {},
    FirstVersion <- [q \in Shown |-> 1],
    LoseDuringIncr <- FALSE,
    MaxVersion <- Cardinality(Runs)

\* What ItemCache takes for granted of its constants, as they are given here.
ASSUME CacheAssumption ==
    /\ IsFiniteSet(Runs) /\ Readers \cap Runs = {}
    /\ MaxDraws \in Nat \ {0} /\ MaxIncr \in Nat /\ MaxLate \in Nat
    /\ None # Corrupt
    /\ None \notin Cache!Generations /\ Corrupt \notin Cache!Generations
    /\ None \notin Shown /\ None \notin Cache!Entry

CatalogInit ==
    /\ Init
    /\ Cache!Init
    /\ catalogs = <<>>
    /\ reported = [r \in Readers |-> {}]
-----------------------------------------------------------------------------
(* A run: its transaction, which the cache knows nothing of, ... *)

InDatabase(A) == A /\ UNCHANGED <<cacheVars, catalogs, reported>>

TransactionStep(r) ==
    InDatabase(AcquireLock(r) \/ LockTimesOut(r) \/ CheckLastSync(r)
               \/ UpsertItems(r) \/ UpsertMetadata(r))

RunInterrupted(r) ==
    InDatabase(StatementFails(r) \/ Disconnect(r) \/ NoticeDisconnect(r))

\* ... its commit, ...
Record(r) ==
    /\ catalogs' = IF recorded[r] THEN Append(catalogs, items') ELSE catalogs
    /\ UNCHANGED reported

CommitRun(r) ==
    /\ Commit(r)
    /\ IF recorded[r] THEN Cache!Publish(r) ELSE Cache!PublishNothing(r)
    /\ Record(r)

CommitRunUnacknowledged(r) ==
    /\ CommitUnacknowledged(r)
    /\ IF recorded[r] THEN Cache!PublishFails(r) ELSE UNCHANGED cacheVars
    /\ Record(r)

\* Mutant: the command exits with 0 when its invalidation fails.
InvalidationFailsSilently(r) == Invalidate(r)

\* How a run whose invalidation did not succeed ends.
InvalidationMissed(r) == InvalidationFails(r) \/ CleanupFails(r)

\* ... and its invalidation, call by call: it ends in both or in neither.
InvalidationStep(r) ==
    /\ \/ Cache!Invalidate(r) /\ (Invalidate(r) \/ CleanupFails(r))
       \/ /\ \/ Cache!GetPointer(r) \/ Cache!InitPointer(r) \/ Cache!RereadPointer(r)
             \/ Cache!InitPointerUnanswered(r)
             \/ Cache!InvalidationFails(r) \/ Cache!InvalidateLate(r)
          /\ IF pc'[r] = "failed" THEN InvalidationMissed(r) ELSE UNCHANGED runVars
    /\ UNCHANGED <<catalogs, reported>>
-----------------------------------------------------------------------------
(* A request, and Redis. *)

Request(r) ==
    /\ Cache!ReaderStep(r)
    /\ reported' = [reported EXCEPT ![r] =
           IF pc'[r] = "idle" THEN {} ELSE IF pc[r] = "idle"
             THEN {p \in Runs : stage[p] = "ok"} ELSE @]
    /\ UNCHANGED <<runVars, catalogs>>

Redis == Cache!RedisStep /\ UNCHANGED <<runVars, catalogs, reported>>

RunStep(r) == TransactionStep(r) \/ CommitRun(r) \/ InvalidationStep(r)

CatalogNext ==
    \/ \E r \in Runs :
          \/ InDatabase(Reject(r) \/ ReadClock(r)) \/ RunStep(r)
          \/ RunInterrupted(r) \/ CommitRunUnacknowledged(r)
    \/ \E r \in Readers : Request(r)
    \/ Redis

CatalogSpec == CatalogInit /\ [][CatalogNext]_catalogVars
-----------------------------------------------------------------------------
\* The versions of ItemCache are the publications that recorded themselves, and
\* the last of them is what is committed.
CatalogTypeOK ==
    /\ TypeOK /\ Cache!TypeOK
    /\ reported \in [Readers -> SUBSET Runs]
    /\ db = Len(catalogs)
    /\ db > 0 => catalogs[db] = items

\* A request that begins after a run exited with 0 is told what that run, or
\* one with a later clock, published: whichever runs overlapped with it, in
\* whatever order they committed and invalidated, and whatever else failed.
AnswersFollowSuccess ==
    \A r \in Readers, p \in Runs : p \in reported[r] =>
        /\ pc[r] = "done" => clock[p] <= clock[catalogs[body[r].lo][want[r]]]
        /\ pc[r] # "notfound"
-----------------------------------------------------------------------------
(* The inductive invariant behind AnswersFollowSuccess, with those of the   *)
(* runs and of the cache.                                                   *)

\* How far a run is once something of it may be committed.
Committed == ({"invalidate"} \cup Ended) \ {"rejected"}

\* The version of the cache counts the publications, the last is what is
\* committed, and each row a reader asks for only ever passes to later runs.
HistoryHolds ==
    /\ catalogs \in Seq([Ids -> Runs \cup {None}])
    /\ db = Len(catalogs)
    /\ db > 0 => catalogs[db] = items
    /\ meta # None =>
          /\ db > 0
          /\ stage[meta.dataset] \in Committed /\ clock[meta.dataset] = meta.lastSync
    /\ \A v \in 1 .. db, q \in Shown :
          catalogs[v][q] \in Runs /\ stage[catalogs[v][q]] \in Committed
    /\ \A v \in 1 .. db, w \in 1 .. db, q \in Shown :
          v <= w => clock[catalogs[v][q]] <= clock[catalogs[w][q]]

\* A run that has committed knows a version with its rows, or later ones, and
\* has announced it once it reports success.
RunsFollowed ==
    \A p \in Runs :
        /\ stage[p] \in {"invalidate", "ok"} =>
              /\ version[p] \in 1 .. db
              /\ \A q \in Shown : clock[p] <= clock[catalogs[version[p]][q]]
        /\ stage[p] = "ok" => version[p] <= announced

\* The successes a request knows of were announced when it began.
ReportsAnnounced ==
    /\ reported \in [Readers -> SUBSET Runs]
    /\ \A r \in Readers : \A p \in reported[r] :
          stage[p] = "ok" /\ version[p] <= since[r]

\* Inductive, with the invariants of the runs and of the cache: versions of
\* the cache stand for rows whose clocks never go back.
CatalogInductive ==
    Inductive /\ Cache!Inductive /\ HistoryHolds /\ RunsFollowed /\ ReportsAnnounced
=============================================================================
