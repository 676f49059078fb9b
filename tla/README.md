# Verification of the items API

TLA+ models of the items API (`src/app`) and of its ingestion command
(`src/scripts/ingest.py`), model-checked with TLC and, where it matters most,
proved with TLAPS for every value of the constants.

## The system

The API serves a catalog of items from PostgreSQL through a Redis cache. The
catalog changes only when an operator runs the ingestion command with a
snapshot file.

| Part | State | Operations | Interacts with |
|---|---|---|---|
| Read service (`app/items/service.py`) | none of its own; one request at a time holds a `CacheLookup` and a response | `get_by_game_id`, `list_items`, `get_meta`, `get_random` | cache before and after the repository |
| Cache (`app/items/cache.py`) | the generation pointer `cache:items:generation`, one key per generation and resource | `get_*`, `set_*`, `invalidate`, `_generation` | Redis, shared by all API processes and runs |
| Repository (`app/items/repository.py`) | the tables, read under READ COMMITTED | one or two statements per request | PostgreSQL |
| Ingestion transaction (`app/ingestion/service.py`, `repository.py`) | advisory lock, `items`, the singleton metadata row | lock, read `last_sync`, batched upserts, metadata upsert, commit | PostgreSQL |
| Ingestion command (`scripts/ingest.py`) | exit stack, exit status | parse, load, validate, configure, publish, invalidate, clean up | all of the above, and the loader |
| Snapshot loader (`app/ingestion/loader.py`, `schemas.py`) | open descriptors | open the path link by link, read, validate | the file system |
| Readiness (`app/health/checks.py`) | two probe tasks | probe, time out, cancel | PostgreSQL, Redis |
| Request logging (`app/core/logging.py`) | response started, status | wrap `send`, report errors, log completion | every request |
| Lifespan (`app/main.py`, `app/auth/clerk.py`) | the clients of the process | acquire in order, release in reverse | engine, Redis, Clerk |
| Authentication (`app/auth`) | none | verify a key, check scopes | Clerk |
| Configuration (`app/core/config.py`) | none | validate settings; decide what needs TLS | environment; lifespan and command |

What is hard here is not in any one part: cache fills, invalidations and
commits are separate awaits of separate processes over two servers, each of
which may fail, be slow, or act on a command its caller has given up on.

Beside these parts the repository holds table models and migrations (linear DDL,
of which the columns, the constraints and the keys matter here), the OpenAPI
document, and a guard that keeps integration tests away from other databases.

What makes each part correct:

- **Cache and reads**: no request is answered with data older than what a run
  had reported published before it began; after an invalidation nothing older
  can be hit, a list assembled from two publications included; a generation,
  once left, never comes back with its entries; requests end whatever Redis does.
- **Ingestion**: publications are atomic and ordered by time; success means that
  the snapshot or a later one is recorded; the advisory lock comes back.
- **Loader**: descriptors come back however the walk ends; only regular files
  are read.
- **Readiness**: no probe outlives the request; an outage of one dependency never
  costs the report about the other.
- **Request**: one response, one truthful log entry, no session left open,
  nothing revealed before the key has been accepted.
- **Lifespan**: every client that was created is closed once, the last first, and
  under no request or probe; a server told to stop stops.
- **Command**: its exit status tells the truth about what was published and
  announced; a refusal touches nothing; clients are closed however it ends.
- **Schema and tables**: what the one accepts the other can hold.
- **Configuration**: in production, and for every ingestion into another machine,
  no accepted configuration leads to an unprotected connection.
- **Queries**: a walk through the pages of a list meets each match once, and a
  search means its text; a walk by id survives publications between its pages.
- **End to end**: who asks after a run exited with 0 sees what it published.

## Modules

| Module | Models | Depends on |
|---|---|---|
| `CatalogRegister` | abstract: a catalog that requests read directly, without a cache | |
| `ItemCache` | the read path of `service.py` and `cache.py`, and `invalidate`, over one faulty Redis | `CatalogRegister` |
| `MCItemCache` | instances of `ItemCache` | `ItemCache` |
| `ItemCacheProofs` | theorems about `ItemCache`, its refinement of `CatalogRegister` among them | `ItemCache` |
| `GenerationPointer` | the text under the pointer: bounded GETRANGE, parsing, INCR at its limit | |
| `Publication` | abstract: atomic publications with increasing times | |
| `Ingestion` | the transaction of `ingestion/service.py` and `repository.py`, and how `scripts/ingest.py` ends | `Publication` |
| `MCIngestion` | instances of `Ingestion` | `Ingestion` |
| `IngestionProofs` | theorems about `Ingestion`, its refinement of `Publication` among them | `Ingestion` |
| `GenerationPointerProofs` | theorems about `GenerationPointer` | `GenerationPointer`, `NumberLemmas` |
| `SnapshotLoader` | the descriptors of `loader.py` | |
| `Readiness` | the probe tasks of `checks.py` | |
| `HttpRequest` | one request: logging middleware, authentication, session, health routes, error handlers | |
| `Settings` | which configurations are accepted, and where their connections lead | |
| `Lifespan` | the lifespan of `main.py`: clients, exit stack, shutdown | `Settings` |
| `Application` | the process: lifespan, one request, its probes | `Lifespan`, `HttpRequest`, `Readiness` |
| `ApplicationProofs` | theorems about `HttpRequest`, `Readiness` and `Application` | `Application` |
| `SnapshotSchema` | `schemas.py` of ingestion against the columns and constraints of the tables | |
| `IngestCommand` | `scripts/ingest.py` from its arguments to its exit status | `SnapshotLoader`, `SnapshotSchema`, `Settings` |
| `IngestCommandProofs` | theorems about `SnapshotLoader`, `IngestCommand`, and about what the schema accepts | `IngestCommand` |
| `Catalog`, `MCCatalog` | runs and readers end to end | `Ingestion`, `ItemCache` |
| `CatalogProofs` | theorems about `Catalog` | `Catalog`, `IngestionProofs`, `ItemCacheProofs` |
| `ItemQueries`, `MCItemQueries` | filters, ordering and paging of `items/repository.py` | |
| `ItemQueriesProofs` | theorems about `ItemQueries` | `ItemQueries`, `NumberLemmas` |
| `NumberLemmas` | induction, and facts on numbers and sequences that the proofs share | |

Modules whose constants are plain numbers and model values need no `MC` module;
their `.cfg` files instantiate them directly. Operators marked "Mutant" are
plausible bugs of the definition that follows them; no action uses them. They
exist to see each property fail: replacing the definition by its mutant must
break the property.

### ItemCache

Every await of `RedisItemCache` is a step, so anything may happen between the
read of the generation, the read of the payload, the second read of the
generation, the statements of the repository and the `SET`. Data is abstracted
to version numbers: `db` counts commits, and a response carries the versions its
first and its last statement read (`lo`, `hi`; they differ only for lists).

| Code | Model |
|---|---|
| `_generation`: GETRANGE, SET NX, second GETRANGE | `GetPointer`, `InitPointer`, `RereadPointer`; `InitPointerUnanswered` when the reply to SET NX is lost |
| what its caller does with the result | `ReturnGeneration` |
| `_get` and the checks of `get_item`, `get_list`, `get_meta` | `Fetch`, `FetchUndecodable`, `Servable`, `Miss` |
| `_cache_read`, `_cache_write` swallowing failures | `CacheReadFails`, `SkipStore` |
| repository statements | `Select`, `SelectNothing`, `Count`, `DatabaseFails` |
| `_set` | `StoreEntry`, or `StoreLate` when the caller times out first |
| commit and `invalidate` of a run | `Publish`, `PublishNothing`, `PublishFails`, `BeginInvalidation`, `Invalidate`, `InvalidationFails`, `InvalidateLate`, `RunAgain` |
| Redis | `Expire`, `CorruptEntry`, `LosePointer`, `CorruptPointer`, late commands applied or dropped |

A generation is a pair: which random draw it descends from and how many `INCR`s
since. Two draws of the 2^63 - 2 candidates are taken never to meet. This is the
one probabilistic claim of the code, and the model takes it for granted; a
constant candidate in its place (`FixedCandidate`) breaks `NoResurrection`.

`GenerationPointer` looks inside the pointer. There the alphabet is digits, a
sign and a byte that does not decode; every text up to two characters longer
than a generation may be found under the key.

### Ingestion

One action per await of a run. A row holds the run that wrote it, so that a
publication that is partial or mixed shows. A run may be rejected, wait for the
lock until its timeout, lose its connection (leaving a transaction that
PostgreSQL has yet to notice), die, or commit without learning it. `CleanupFails`
is the failure of the exit stack after everything else went well.

`Catalog` puts the two together. A commit of `Ingestion` is a publication of
`ItemCache`, the end of an invalidation is one step in both, and the rest of each
goes on by itself. `ItemCache` counts recorded publications; `catalogs` remembers
the rows of each, so that an answer can be compared with the run it should follow.
It assumes that every snapshot has the ids readers ask for: a snapshot is the
whole catalog, and a run that is a no-op makes no promise about rows that no newer
snapshot has.

### The process

`SnapshotLoader` has a step for each system call of `loader.py` and for its
failure, and lets somebody else rename what the path names in between; a
descriptor is named by the part of the path it was opened for. `Readiness` has
the two probe tasks, the two gathers of `run()`, and cancellation as asyncio
delivers it. `HttpRequest` follows one request through the dependencies in the
order they are solved, and an exception on its way outwards: session closed,
handler, middleware, server. Closing the session may itself fail, which is how
an error comes to follow a response that has already been sent. FastAPI,
Starlette and uvicorn are modelled from how the code relies on them.

`Application` composes these with `Lifespan`. `Lives(A)` is a step of the lifespan,
`Runs(A)` one of the request, `Probing` one of the probes it awaits; `Bind`
(the last assignment of the lifespan makes a verifier available),
`AnswerServices` and `RaiseServices` (what `run()` returns or raises is what the
request goes on with) and `Interrupt` (uvicorn cancels the request and leaves the
lifespan) are joint steps. The repository's tests also call the application without
its lifespan (`lifespan = "off"`): then nothing is bound.

`IngestCommand` extends `SnapshotLoader`, so that a load is the whole walk; the
transaction, which `Ingestion` and `Catalog` have in detail, is one step with the
ways it can end. An exception raised while the exit stack unwinds replaces the
one that was on its way, and `main` sees only the last. `SnapshotSchema` and
`Settings` are stateless: operators over every document and configuration that is
a good one with one or two fields changed. Their use is in relating two pieces of
code that were written apart: what the schema accepts and what the tables hold;
what the validators accept, what `database_requires_tls` says, and where the
driver connects.

`ItemQueries` is a client that walks the pages of a list. ORDER BY leaves ties
open, so each page may come from another of the orders that are allowed
(`Results`); snapshots may be published between any two statements.

## Runs

| Run | Question | Bounds |
|---|---|---|
| `cache_safety` | are answers fresh, is what can be hit coherent, and do generations stay away once left, under every fault? | 1 reader, 1 run, 1 publication, a list, 2 draws, 1 INCR, 1 late command of each kind |
| `cache_liveness` | is the cached path a catalog read directly; do requests end, does staleness? | 1 reader, 1 run, 2 publications, an item that appears with the first, 1 late command of each kind |
| `cache_resurrection` | violated: see findings | 3 draws, 2 INCRs |
| `pointer_text` | is the pointer read whole or not at all; does repeating recover? | base 2, limit 5, 1 foreign write |
| `pointer_unusable` | violated: see findings | same |
| `ingestion` | atomic, ordered, recorded; refinement of `Publication`; do runs end, and does the lock come back? | 3 runs with snapshots of 3, 2 and 1 rows, batches of 2, 3 clock readings |
| `ingestion_unacknowledged` | violated: see findings | 2 runs |
| `catalog` | does who asks after a success see what it published? | 2 runs, 1 reader, 1 draw, 2 INCRs |
| `application` | the life of the process: responses, log, authorisation, session, probes, clients, shutdown | 1 request, 2 scopes, 2 probes, 1 interruption |
| `command` | descriptors, clients, exit status, what is accepted | paths of up to 3 parts, 1 replacement, strings of up to 4 characters with a limit of 3, up to 3 items with a limit of 2, integers up to 9 |
| `command_null_type` | violated: see findings | same |
| `item_queries` | pages, search, publications in between | 3 ids, 1 quality or none, pages of 1 or 2, 1 publication |

The bounds are those of the interesting cases, not of the counters. The races of
the cache need one fill in flight and one invalidation; a late `SET` is a second
fill, whose request has been given up, while the reader's next one goes on; a
second publication (in `cache_liveness`) distinguishes "older" from "initial", and
a second draw makes an old generation that could come back. Three
runs suffice for a loser that is older than one winner and newer than another,
and batches of two put the boundary inside a snapshot of three. In base 2 with
limit 5 some texts of the limit's length exceed it, as with 2^63 - 1; Redis and
the parser use the base only through the order of numbers and the length of
texts. Two runs of `catalog` can finish in either order, with the older one
publishing, being overtaken or finding the newer. A path of three parts has a
first, an inner and a last one. A request can be cancelled once: the server does
it only at its own end, and the application is modelled up to that end. Strings of
the schema have a letter, its capital, a space, other white space and NUL, and may
be one longer than allowed; the limits of integers are met from both sides. Two
names in `item_queries` hold every character that `LIKE` treats apart, and three
items with two names always have a tie. The proofs below do without any of these
bounds, except that counters still have one.

Deadlock is checked in the cache and pointer runs, where calls start again and
again. The other systems stop when their work is done.

### Fairness

- `ItemCache`: a request that has started goes on (`WF(Proceed(r))`), since every
  call to Redis and PostgreSQL has `dependency_timeout_seconds`; a key written
  with `ex` expires; a `SET` on its way arrives or is lost. Nothing obliges a run
  to invalidate, a request to start, or a fault to happen or to stop.
- `Ingestion`: `RunsEnd` needs only the runs' own steps, `LockTimesOut` among
  them (asyncpg's `command_timeout`); `LockReturned` has as its premise that
  PostgreSQL notices a connection that has gone.
- `GenerationPointer`: runs go on and are repeated, as the message of the command
  asks its operator to do.
- `Application`: the event loop runs what is ready, and calls end: the one to Clerk
  by its timeout, not by an answer, and the probes by `asyncio.timeout`. A probe's
  way out is taken to end as well: it closes a connection, which the code does not
  bound after the timeout has fired. The lifespan's own steps end (`Finish`), but
  nobody has to stop the server or to send a request.
- `IngestCommand`: the command runs on and its calls return, if only by their
  timeouts; no failure and no interrupt has to happen.

## Proofs

`ItemCacheProofs` (for any readers, publishers, resources and bounds):

- `TypeCorrect`, without assumptions beyond those of the module;
- `FreshReads`, `Coherence`, `GenerationsNeverReturn`, `HitsAreCurrent`, assuming
  `~LoseDuringIncr`: the pointer is not lost between the check that `invalidate`
  makes and its `INCR`. Without this they are false, which is the first finding;
- `CacheIsTransparent`, the refinement of `CatalogRegister`, on the same assumption.

The properties are not inductive. `Inductive` adds what carries them: everything
stored, on its way or held belongs to a generation that is not ahead of the
pointer (`NothingAhead`), whatever sits under the current generation was read no
earlier than that generation began (`PayloadsSound`), and what was announced is
no later than that beginning (`AnnouncedByGeneration`). The steps that change the
pointer are proved once, as moves to a generation that nothing belongs to yet;
all other steps leave pointer and floor alone. The refinement needs one thing more
(`AnswersWellRead`): whatever could pass for the answer to what it is kept under, or
to the request that holds it, was read when there was such a resource, and by one
statement unless it is a list. Corruption is harmless here because it never makes an
entry look like an answer to its own key. A request then replies in the one step in
which its `pc` becomes `done`, `notfound` or `unavailable`; a run commits, and
announces with its `INCR`; all else is a stutter.

`IngestionProofs` (any runs, snapshots, batch size and clocks): `TypeCorrect`,
`NeverPartial`, `SuccessRecorded`, `RowsFollowMetadata`, and `Implementation`, the
refinement of `Publication`. The invariant says that whoever is past the lock
holds it (`HolderAlone`), and what it has pending at each stage: a prefix of its
snapshot as long as its offset, newer than what is recorded (`PendingMatchesStage`).

`ApplicationProofs` (any set of probes, any scopes) has the theorems of its parts and of
their composition. Of `Readiness`: `NothingLeftBehind`, `OutagesAreReported`; the
invariant says that a probe is cancelled only by a request that is, or by the clean-up.
Of the whole: `ReleasedInReverse`, which says that the
callbacks on the exit stack are those of the older part of the clients created and
the clients closed are the rest in reverse (`StackHoldsOpen`), and `ProbesEnd`, which
carries `NothingLeftBehind` over to the composition: a step of the application is a
step of the checks, or leaves them alone. `ClientsOutlive` and `ReadyIsTrue` rest on
what the composition keeps together (`AppInductive`): where the request may be while
the lifespan is where it is, and that the probes have been started, are running or
have ended as far as the request has got. `ProductionStaysProtected` needs no
invariant of its own, only that the settings in use were accepted; its lemmas follow
a URL from what the validators let through to where the drivers connect.

Of `HttpRequest` there, for any scopes and any route: `RespondsOnce`, `LogsTruthfully`,
`ErrorsNotHidden`, `AuthorisedFirst`, `SessionsEnd`. None of the five is inductive: each
speaks of the end of a request or of a combination of events. `RequestInductive` says
for each place the request can be at who is about to answer, what has been sent and
logged by then, and whether a session is open; the five follow from it one by one.
`RequestsKeepPromises` has them again for the composition.

`IngestCommandProofs` (paths of any length, any characters, any limits): `OperatorToldTruth`,
`ClientsClosed`, `IngestionStaysProtected`, `LoaderKeepsPromises`, `AcceptedFits`, and, of
the loader by itself with any number of replacements, `NoDescriptorLost`,
`TwoDescriptorsAtMost`, `RegularFilesOnly`. The invariant of the walk lists the descriptors
held at each point of it. The one of the command (`CommandInductive`) is that of the walk,
with the clients that are open being those on the exit stack, and, for each error that may be on its way, what it says of the
steps before it (`ErrorTells`). `AcceptedFits` rests on lemmas about `Strip`: a text that
is not blank has a first and a last character that is no space, and what is between them
is no longer than the text and has no character that the text had not.

`CatalogProofs` (any runs, snapshots, requests and bounds): `SuccessReachesReaders`,
`CatalogTypeCorrect`, `RunsKeepPromises` and `CacheKeepsPromises`, from the proofs of both
halves. A step of the composition is a step of the runs and one of the cache, or less, so
each keeps its own invariant;
`ItemCacheProofs` is instantiated with the constants that `Catalog` gives it, whose
assumptions are the lemma `Granted`. What is added ties the two
together (`HistoryHolds`, `RunsFollowed`, `ReportsAnnounced`): the version of the cache
counts the publications; the clock of the run behind a row that readers ask for never
goes back from one publication to the next; a run that has committed knows a version with
its rows or later ones, and has announced it by the time it exits with 0. A reader's
answer is at least as new as what was announced when it began, hence as new as the rows.
Here `LoseDuringIncr` is `FALSE`, so these theorems too are about Redis keeping the pointer
during an `INCR`. `RunsKeepPromises` and `CacheKeepsPromises` carry over what was proved of
either half, refinements included: a behaviour of the composition is one of each. TLC has
checked each of the invariants before its proof.

`GenerationPointerProofs` (any base from 2 on, any limits): `PointerReadWhole`,
`InvalidationsAdvance`, `TypeCorrect`. What carries them is that the text of a number is the
only one of that value without leading zeros (`ValueOfText`, `TextOfValue`), and that a larger
number has no shorter text (`LongerText`, `CanonicalIsShort`), so one byte beyond the longest
generation is enough to see that a text is too long (`Uncut`).

`ItemQueriesProofs` (any names, searches, qualities, ids and page sizes, any number of
publications): `PagesPartitionMatches`, `SearchesAreSubstrings`, `PagesSkipNothing`,
`TypeCorrect`. The sort column and the id behind it make the order total, so there is one
result (`OneResult`), and each page continues the same one: `Matched` says that what has been
collected is its beginning as long as the offset. For `PagesSkipNothing` the rank of an item
by id can only grow when rows are added (`PlaceGrows`), so an item not met yet lies behind
the offset (`Kept`). `SearchesAreSubstrings` follows the search through the three
replacements of the escape, one character at a time (`EscapedIs`), into the pattern
(`PatternStep`), and then the pattern from its end through the text (`StartsAre`): where what
is left of the pattern matches is where what is left of the search is found.

Both go by induction over numbers and texts. The library states induction for an operator,
which the provers here cannot instantiate; `Induction` in `NumberLemmas` states it for a set
of numbers instead, and the recursive functions of the two modules are unfolded one step
(`ReplaceIs`, `LikeIs`) and reasoned about in sets of the numbers for which a claim holds.

The assumptions on constants are those that the modules name, and TLC evaluates them on
every run: bounds are numbers, sentinels are no data, a snapshot has the rows readers ask
for, required scopes are scopes.

Only model-checked: the liveness properties (`RequestsTerminate`, `EventuallyCoherent`,
`RepeatingRecoversUsable`, `RunsEnd`, `LockReturned`, `RequestEnded`, `ApplicationStops`,
`CommandEnds`), since TLAPS has no rules for fairness here. Every safety property that a
passing run checks is also a theorem, and so are both refinements.

## Findings

1. **A pointer lost during an invalidation restarts the generations.**
   `invalidate` checks the pointer and then calls `INCR`, two commands. If the key
   disappears in between, `INCR` creates it as 1, a fixed generation; the second
   time this happens generation 1 is current again with what was once stored
   under it. `tasks/spec-redis-cache.md:64-66` gives the random initial value as
   the reason this cannot happen. (`cache_resurrection`)
2. **"Unavailable" does not mean unpublished.** When the acknowledgement of the
   commit is lost, or closing the clients fails after it, the command reports
   "required service is unavailable", while
   `tasks/spec-initial-ingestion.md:298-299` has a database failure revert
   everything. (`ingestion_unacknowledged`)
3. **Repeating the ingestion does not repair an unusable pointer.** A pointer that
   is no generation makes `invalidate` raise before `INCR`, the largest one makes
   `INCR` fail; a repeated run meets the same value.
   `tasks/spec-redis-cache.md:103-104` calls repetition the supported recovery.
   (`pointer_unusable`)

4. **`"type": null` is an internal error.** The schema allows null for the optional
   `type`, whose validator then lowers it. The `AttributeError` passes through
   pydantic and `main` reports an unexpected internal error, exit status 1, with no
   path of a field, where `tasks/spec-initial-ingestion.md:113-114` promises the
   paths of the invalid ones. PostgreSQL is not touched. (`command_null_type`)

Smaller observations. `README.md:225` of the repository says that "Non-loopback
PostgreSQL connections use verified TLS in every environment."; outside production
a URL without a host is accepted and then follows `PGHOST` without TLS
(`RuntimeConnections` has it, `ProductionProtected` is about production), as
`tests/test_config.py:198` asks. A `GET /v1/items/{id}` with an id beyond `INTEGER` is refused by the driver
and answered 503 (`GetItem`), where `tasks/spec-items-api.md:162` has 404 for ids that do
not exist; an offset beyond `BIGINT` and a search with NUL end alike. Two more
contradict no document: a request cancelled just
as its response starts may be logged with the status it was about to send
(`LogTellsStatus` excepts this case), and a failing `os.close` in the walk of the
loader loses one descriptor and closes another twice (`DescriptorsReturned`
excepts it).

## Not modelled

- Which row a random read returns, and the contents of responses: data that the
  properties do not tell apart.
- The spelling of URLs (schemes, ports, characters) and the bounds of single
  numbers in the settings: one check each, without consequences elsewhere.
- The size of index entries, and hence whether a name of 4096 characters fits.
- More than one request in `Application`: requests share the clients and nothing
  else there; what they share in Redis and PostgreSQL is `ItemCache`.
- A `COMMIT` that PostgreSQL applies long after its client has given up, and a
  transaction that gets the lock after its client is gone: the model ends a
  transaction when its run ends, or when PostgreSQL notices.
- The pools of SQLAlchemy and redis-py: exhausted, they fail a call, which the
  models allow anyway.
- Request ids, the JSON formatter, OpenAPI, running the migrations, and the guard
  of the test database.

## Plan

Done in this order: `ItemCache` with its register, proofs; `Ingestion` with
`Publication`, proofs; `GenerationPointer`; `Readiness`, proofs; `SnapshotLoader`,
proofs; `HttpRequest`; `Lifespan`, `Settings` and `Application`, proofs; `SnapshotSchema` and
`IngestCommand`; `ItemQueries`; `Catalog`. After these came theorems for `HttpRequest`,
the rest of `Application`, `IngestCommand` and `Catalog`, the refinement of
`CatalogRegister`, and last the theorems of `GenerationPointer` and `ItemQueries` and what
`Catalog` inherits from its halves. Nothing of the plan is left but what "Not modelled"
lists.
