------------------------------ MODULE Ingestion ------------------------------
(***************************************************************************)
(* Concurrent runs of scripts/ingest.py against PostgreSQL: the advisory   *)
(* lock, the batched upserts of one transaction, its metadata row and its  *)
(* commit, then the cache invalidation.  A run may be rejected, time out,  *)
(* lose its connection or die between any two of its calls.                *)
(*                                                                         *)
(* A row or the metadata holds the run that wrote it; what it wrote there  *)
(* is that run's snapshot.  The transaction runs under READ COMMITTED: a   *)
(* statement sees what is committed when it runs, and one that touches a   *)
(* row another transaction has written waits for that transaction.         *)
(***************************************************************************)
EXTENDS Naturals, Sequences

CONSTANTS
    Runs,       \* executions of the command
    Ids,        \* game ids
    Snapshot,   \* the ids of each run's snapshot, in its order
    BatchSize,  \* ITEM_BATCH_SIZE
    Times,      \* readings of the clocks of the hosts runs execute on
    None

Covers == [r \in Runs |-> {Snapshot[r][k] : k \in 1 .. Len(Snapshot[r])}]

ASSUME ConstantsAssumption ==
    /\ Snapshot \in [Runs -> Seq(Ids)]
    /\ BatchSize \in Nat \ {0}
    /\ Times \subseteq Nat
    /\ None \notin Runs

\* A recorded publication.
Metadata == [dataset : Runs, lastSync : Times]

ASSUME NoneIsNoMetadata == None \notin Metadata

VARIABLES
    items, meta,  \* what is committed: the run behind each row, the metadata
    lock,         \* the run whose transaction holds the advisory lock
    written,      \* rows written by each run's open transaction
    recorded,     \* whether that transaction has written the metadata
    stage,        \* where each run is
    clock,        \* last_sync of the run, read before the transaction
    start         \* offset of the next batch

txVars == <<lock, written, recorded>>
vars == <<items, meta, txVars, stage, clock, start>>

\* Stages inside the transaction, and how a run ends: with exit code 0 (ok),
\* 1 (uninvalidated: published but invalidation failed; unavailable) or 2
\* (rejected), or without one.
InTransaction == {"lock", "check", "items", "metadata", "commit"}
Ended == {"ok", "uninvalidated", "unavailable", "rejected", "crashed"}
Stages == {"ready", "invalidate"} \cup InTransaction \cup Ended

TypeOK ==
    /\ items \in [Ids -> Runs \cup {None}]
    /\ meta \in Metadata \cup {None}
    /\ lock \in Runs \cup {None}
    /\ written \in [Runs -> SUBSET Ids]
    /\ recorded \in [Runs -> BOOLEAN]
    /\ stage \in [Runs -> Stages]
    /\ clock \in [Runs -> Times \cup {None}]
    /\ start \in [Runs -> Nat]

Init ==
    /\ items = [id \in Ids |-> None]
    /\ meta = None
    /\ lock = None
    /\ written = [r \in Runs |-> {}]
    /\ recorded = [r \in Runs |-> FALSE]
    /\ stage = [r \in Runs |-> "ready"]
    /\ clock = [r \in Runs |-> None]
    /\ start = [r \in Runs |-> 0]

Enter(r, s) == stage' = [stage EXCEPT ![r] = s]
-----------------------------------------------------------------------------
(* The transaction on the server. *)

\* Mutant: a session-level lock, which the end of the transaction keeps.
CloseKeepingLock(r) ==
    /\ UNCHANGED lock
    /\ written' = [written EXCEPT ![r] = {}]
    /\ recorded' = [recorded EXCEPT ![r] = FALSE]

\* The transaction ends: its locks go, and what it had pending.
Close(r) ==
    /\ lock' = IF lock = r THEN None ELSE lock
    /\ written' = [written EXCEPT ![r] = {}]
    /\ recorded' = [recorded EXCEPT ![r] = FALSE]

Rollback(r) == Close(r) /\ UNCHANGED <<items, meta>>

CommitTransaction(r) ==
    /\ items' = [id \in Ids |-> IF id \in written[r] THEN r ELSE items[id]]
    /\ meta' = IF recorded[r] THEN [dataset |-> r, lastSync |-> clock[r]] ELSE meta
    /\ Close(r)
-----------------------------------------------------------------------------
(* A run of the command. *)

\* Bad arguments, configuration or snapshot: exit 2 before any connection.
Reject(r) ==
    /\ stage[r] = "ready"
    /\ Enter(r, "rejected")
    /\ UNCHANGED <<items, meta, txVars, clock, start>>

\* Mutant: the clock is left to be read by the metadata upsert.
ReadClockLater(r) ==
    /\ stage[r] = "ready"
    /\ Enter(r, "lock")
    /\ UNCHANGED <<items, meta, txVars, clock, start>>

\* IngestionService.ingest takes its last_sync before it opens a transaction.
ReadClock(r) ==
    /\ stage[r] = "ready"
    /\ \E t \in Times : clock' = [clock EXCEPT ![r] = t]
    /\ Enter(r, "lock")
    /\ UNCHANGED <<items, meta, txVars, start>>

\* Mutant: the lock is taken without waiting for its holder.
AcquireWithoutWaiting(r) ==
    /\ stage[r] = "lock"
    /\ lock' = r
    /\ Enter(r, "check")
    /\ UNCHANGED <<items, meta, written, recorded, clock, start>>

AcquireLock(r) ==
    /\ stage[r] = "lock"
    /\ lock = None
    /\ lock' = r
    /\ Enter(r, "check")
    /\ UNCHANGED <<items, meta, written, recorded, clock, start>>

\* Mutant: there is no command_timeout on the wait for the lock.
LockNeverTimesOut(r) == FALSE

\* command_timeout ends the wait for a lock that stays taken.
LockTimesOut(r) ==
    /\ stage[r] = "lock"
    /\ lock # None
    /\ Rollback(r)
    /\ Enter(r, "unavailable")
    /\ UNCHANGED <<clock, start>>

\* Mutant: the comparison of the two times is inverted.
NotOlder(r) == meta # None /\ clock[r] >= meta.lastSync

\* A run that is not newer than the recorded synchronization is a no-op.
NotNewer(r) == meta # None /\ clock[r] <= meta.lastSync

CheckLastSync(r) ==
    /\ stage[r] = "check"
    /\ Enter(r, IF NotNewer(r) THEN "commit"
                ELSE IF Snapshot[r] = <<>> THEN "metadata" ELSE "items")
    /\ UNCHANGED <<items, meta, txVars, clock, start>>

\* The rows of the batch that starts at offset n.
Batch(r, n) == {Snapshot[r][k] : k \in {j \in 1 .. Len(Snapshot[r]) :
                                            n < j /\ j <= n + BatchSize}}

\* Mutant: a batch also skips the row after it.
NextOffsetSkippingOne(r) == start[r] + BatchSize + 1

NextOffset(r) == start[r] + BatchSize

\* INSERT ... ON CONFLICT (game_id) DO UPDATE of one batch.
UpsertItems(r) ==
    /\ stage[r] = "items"
    /\ \A o \in Runs \ {r} : Batch(r, start[r]) \cap written[o] = {}
    /\ written' = [written EXCEPT ![r] = @ \cup Batch(r, start[r])]
    /\ start' = [start EXCEPT ![r] = NextOffset(r)]
    /\ Enter(r, IF NextOffset(r) < Len(Snapshot[r]) THEN "items" ELSE "metadata")
    /\ UNCHANGED <<items, meta, lock, recorded, clock>>

\* INSERT ... ON CONFLICT (id) DO UPDATE ... WHERE excluded.last_sync is later.
UpsertMetadata(r) ==
    /\ stage[r] = "metadata"
    /\ \A o \in Runs \ {r} : ~recorded[o]
    /\ recorded' = [recorded EXCEPT ![r] = meta = None \/ clock[r] > meta.lastSync]
    /\ Enter(r, "commit")
    /\ UNCHANGED <<items, meta, lock, written, clock, start>>

Commit(r) ==
    /\ stage[r] = "commit"
    /\ CommitTransaction(r)
    /\ Enter(r, "invalidate")
    /\ UNCHANGED <<clock, start>>

\* A statement fails and the session rolls the transaction back.
StatementFails(r) ==
    /\ stage[r] \in InTransaction
    /\ Rollback(r)
    /\ Enter(r, "unavailable")
    /\ UNCHANGED <<clock, start>>

\* The connection breaks, or the process dies, with the transaction open: the
\* server keeps it, and its lock, until it notices.
Disconnect(r) ==
    /\ stage[r] \in InTransaction
    /\ Enter(r, "unavailable") \/ Enter(r, "crashed")
    /\ UNCHANGED <<items, meta, txVars, clock, start>>

\* The server commits, but the run never learns of it.
CommitUnacknowledged(r) ==
    /\ stage[r] = "commit"
    /\ CommitTransaction(r)
    /\ Enter(r, "unavailable") \/ Enter(r, "crashed")
    /\ UNCHANGED <<clock, start>>

\* The server rolls back the transaction of a client that is gone.
NoticeDisconnect(r) ==
    /\ stage[r] \in Ended
    /\ lock = r
    /\ Rollback(r)
    /\ UNCHANGED <<stage, clock, start>>

\* The INCR succeeds, fails, or the process dies first.
Invalidate(r) ==
    /\ stage[r] = "invalidate"
    /\ Enter(r, "ok")
    /\ UNCHANGED <<items, meta, txVars, clock, start>>

InvalidationFails(r) ==
    /\ stage[r] = "invalidate"
    /\ Enter(r, "uninvalidated") \/ Enter(r, "crashed")
    /\ UNCHANGED <<items, meta, txVars, clock, start>>
\* Closing Redis or the engine raises after all: the failure that is reported
\* hides how the invalidation went.
CleanupFails(r) ==
    /\ stage[r] = "invalidate"
    /\ Enter(r, "unavailable")
    /\ UNCHANGED <<items, meta, txVars, clock, start>>
-----------------------------------------------------------------------------
\* The steps a run takes by itself once it has started.
Proceed(r) ==
    \/ AcquireLock(r) \/ LockTimesOut(r) \/ CheckLastSync(r)
    \/ UpsertItems(r) \/ UpsertMetadata(r) \/ Commit(r)
    \/ Invalidate(r)

Next ==
    \E r \in Runs :
        \/ Reject(r) \/ ReadClock(r)
        \/ Proceed(r)
        \/ StatementFails(r) \/ Disconnect(r) \/ CommitUnacknowledged(r)
        \/ NoticeDisconnect(r)
        \/ InvalidationFails(r) \/ CleanupFails(r)

Spec == Init /\ [][Next]_vars

(***************************************************************************)
(* Fairness.  Every call of a started run returns, with a result or with   *)
(* command_timeout.  Nothing obliges the server to notice soon that a      *)
(* client is gone; ServerFairness is assumed where that matters.           *)
(***************************************************************************)
RunFairness == \A r \in Runs : WF_vars(Proceed(r))
ServerFairness == \A r \in Runs : WF_vars(NoticeDisconnect(r))

FairSpec == Spec /\ RunFairness
-----------------------------------------------------------------------------
(* Safety. *)

\* The metadata tells the truth about the rows: every item of the snapshot it
\* names is as that snapshot has it, and no row comes from a later run.  No
\* interleaving of runs, batches and failures leaves a partial publication or
\* a mixture of two.
MetadataDescribesItems ==
    /\ meta # None => \A id \in Covers[meta.dataset] : items[id] = meta.dataset
    /\ \A id \in Ids : items[id] # None =>
           meta # None /\ clock[items[id]] <= meta.lastSync

\* Exit code 0 means the run's snapshot, or one with a later clock, is what
\* the catalog records.
SuccessIsRecorded ==
    \A r \in Runs : stage[r] \in {"invalidate", "ok", "uninvalidated"} =>
        meta # None /\ clock[r] <= meta.lastSync

\* A committed row changes only in a commit that also records its run as the
\* current dataset, with a later time than before.
RowsChangeWithMetadata ==
    [][items' # items =>
          /\ meta' # meta
          /\ meta # None => meta.lastSync < meta'.lastSync
          /\ \A id \in Ids : items'[id] # items[id] => items'[id] = meta'.dataset]_vars

\* A run that ends reporting PostgreSQL unavailable has published nothing.
\* The documentation says so; the code cannot know when only the
\* acknowledgement of the commit is lost, and says it as well when closing
\* its clients fails after the commit.
UnavailableMeansUnpublished ==
    \A r \in Runs : stage[r] = "unavailable" =>
        /\ meta # None => meta.dataset # r
        /\ \A id \in Ids : items[id] # r

\* The runs' transactions amount to atomic publications.
Atomic == INSTANCE Publication
ImplementsPublication == Atomic!Spec
-----------------------------------------------------------------------------
(* The inductive invariant behind the safety properties. *)

\* Whoever is past the lock, or has something pending, holds it.
HolderAlone ==
    \A r \in Runs :
        (stage[r] \in InTransaction \ {"lock"} \/ written[r] # {} \/ recorded[r])
            => lock = r

\* The first n rows of a snapshot.
Prefix(r, n) == {Snapshot[r][k] : k \in {j \in 1 .. Len(Snapshot[r]) : j <= n}}

\* Whether run r is later than what is recorded.
Newer(r) == clock[r] \in Times /\ (meta # None => meta.lastSync < clock[r])

\* What the transaction of run r has pending at each stage.
Pending(r) ==
    /\ stage[r] \notin {"ready", "rejected"} => clock[r] \in Times
    /\ stage[r] \in {"ready", "lock", "check", "invalidate"} =>
          written[r] = {} /\ ~recorded[r]
    /\ stage[r] \in {"ready", "lock", "check"} => start[r] = 0
    /\ stage[r] = "items" =>
          written[r] = Prefix(r, start[r]) /\ ~recorded[r] /\ Newer(r)
    /\ stage[r] = "metadata" =>
          written[r] = Covers[r] /\ ~recorded[r] /\ Newer(r)
    /\ stage[r] = "commit" =>
          IF recorded[r] THEN written[r] = Covers[r] /\ Newer(r)
          ELSE written[r] = {} /\ meta # None /\ clock[r] <= meta.lastSync

PendingMatchesStage == \A r \in Runs : Pending(r)

\* Rows come from runs that have committed.
WritersCommitted ==
    \A id \in Ids : items[id] # None =>
        stage[items[id]] \in ({"invalidate"} \cup Ended) \ {"rejected"}

\* Inductive: one run at a time has a transaction past the lock, what it has
\* pending is a prefix of its snapshot, and it is newer than what is recorded.
Inductive ==
    /\ TypeOK
    /\ HolderAlone
    /\ PendingMatchesStage
    /\ WritersCommitted
    /\ MetadataDescribesItems
    /\ SuccessIsRecorded
-----------------------------------------------------------------------------
(* Liveness. *)

\* A started run ends, even if an orphaned transaction keeps the lock.
RunsEnd == \A r \in Runs : stage[r] \in InTransaction ~> stage[r] \in Ended

\* The lock is never kept: whoever holds it, or died holding it, gives it back,
\* if the server notices that a client is gone.
LockReturned == ServerFairness => \A r \in Runs : lock = r ~> lock # r
=============================================================================
