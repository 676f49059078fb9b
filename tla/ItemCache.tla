------------------------------ MODULE ItemCache ------------------------------
(***************************************************************************)
(* The generational cache-aside read path of the items API and the         *)
(* post-commit invalidation of the ingestion command, around one Redis.    *)
(*                                                                         *)
(*   readers     requests in ItemService.get_by_game_id, list_items and    *)
(*               get_meta, with every await of RedisItemCache a step       *)
(*   publishers  runs of scripts/ingest.py: commit, then invalidate()      *)
(*   Redis       the generation pointer and the data keys; it may lose or  *)
(*               corrupt either, fail a call, or apply one after the       *)
(*               caller has given up on it                                 *)
(*                                                                         *)
(* Data is abstracted to the number of publications committed when a       *)
(* statement read it: db counts commits, and a response carries the        *)
(* version its (one or two) statements saw.                                *)
(*                                                                         *)
(* A generation is <<d, k>>: the d-th random draw that SET NX stored, and  *)
(* k INCRs since.  new_generation draws from 2^63 - 2 values, so two draws *)
(* are taken to be further apart than any run of INCRs.  <<0, k>> is what  *)
(* Redis makes of INCR on a missing key: the plain number k.               *)
(***************************************************************************)
EXTENDS Naturals, FiniteSets

CONSTANTS
    Readers, Publishers,
    Resources,       \* items, list queries, and the metadata resource
    Lists,           \* the resources read with two statements
    FirstVersion,    \* the version from which a resource exists (0: always)
    LoseDuringIncr,  \* may the pointer vanish while an INCR is outstanding?
    MaxVersion, MaxDraws, MaxIncr, MaxLate,  \* bounds on the counters
    None, Corrupt

Generations == (0 .. MaxDraws) \X (0 .. MaxIncr)

(***************************************************************************)
(* A cached payload: the resource its contents describe (None when it does *)
(* not validate), the versions its first and last statement read, and      *)
(* whether the key was written with an expiry.                             *)
(***************************************************************************)
Entry == [about : Resources \cup {None}, lo : 0 .. MaxVersion,
          hi : 0 .. MaxVersion, expires : BOOLEAN]

ASSUME ConstantsAssumption ==
    /\ Lists \subseteq Resources
    /\ FirstVersion \in [Resources -> Nat]
    /\ \A q \in Lists : FirstVersion[q] = 0
    /\ LoseDuringIncr \in BOOLEAN
    /\ MaxVersion \in Nat /\ MaxDraws \in Nat \ {0} /\ MaxIncr \in Nat /\ MaxLate \in Nat
    /\ Readers \cap Publishers = {}
    /\ None # Corrupt
    /\ None \notin Generations /\ Corrupt \notin Generations
    /\ None \notin Resources

ASSUME NoneIsNoEntry == None \notin Entry

VARIABLES
    db,         \* publications committed to PostgreSQL
    pointer,    \* cache:items:generation: None, Corrupt or a generation
    draws,      \* candidates that SET NX has stored so far
    store,      \* store[g][q]: the value of key cache:v1:g:q
    lateSets,   \* SETs whose caller timed out, not yet applied
    lateIncrs,  \* INCRs whose caller timed out, not yet applied
    pc, call,   \* where each process is, and which _generation call it is in
    want,       \* the resource a request asks for
    gen,        \* lookup.generation of a request
    body,       \* the payload fetched from Redis, or the response built
    version,    \* the version a publisher's run has committed or found
    floor,      \* history: db when the current generation became current
    announced,  \* history: the latest version a successful run reported
    since       \* history: announced when the request began

redisVars == <<pointer, draws, store, lateSets, lateIncrs, floor>>
requestVars == <<call, want, gen, body, since>>
vars == <<db, redisVars, pc, requestVars, version, announced>>

Processes == Readers \cup Publishers

LateSet == [gen : Generations, res : Resources, entry : Entry]

ReaderPCs == {"idle", "getptr", "setnx", "reread", "fetch", "select", "count",
              "set", "done", "notfound", "unavailable"}
PublisherPCs == {"idle", "getptr", "setnx", "reread", "incr", "ok", "failed"}
InGeneration == {"getptr", "setnx", "reread"}   \* a _generation call
Replies == {"done", "notfound", "unavailable"}

TypeOK ==
    /\ db \in 0 .. MaxVersion
    /\ pointer \in Generations \cup {None, Corrupt}
    /\ draws \in 0 .. MaxDraws
    /\ store \in [Generations -> [Resources -> Entry \cup {None}]]
    /\ lateSets \subseteq LateSet
    /\ lateIncrs \in Nat
    /\ pc \in [Processes -> ReaderPCs \cup PublisherPCs]
    /\ call \in [Processes -> {"none", "lookup", "recheck", "invalidate"}]
    /\ \A r \in Readers : pc[r] \in ReaderPCs /\ call[r] # "invalidate"
    /\ \A p \in Publishers :
          pc[p] \in PublisherPCs /\ call[p] \in {"none", "invalidate"}
    /\ want \in [Readers -> Resources \cup {None}]
    /\ gen \in [Readers -> Generations \cup {None}]
    /\ body \in [Readers -> Entry \cup {None}]
    /\ version \in [Publishers -> 0 .. MaxVersion]
    /\ floor \in 0 .. MaxVersion
    /\ announced \in 0 .. MaxVersion
    /\ since \in [Readers -> 0 .. MaxVersion]

Init ==
    /\ db = 0
    /\ pointer = None
    /\ draws = 0
    /\ store = [g \in Generations |-> [q \in Resources |-> None]]
    /\ lateSets = {}
    /\ lateIncrs = 0
    /\ pc = [p \in Processes |-> "idle"]
    /\ call = [p \in Processes |-> "none"]
    /\ want = [r \in Readers |-> None]
    /\ gen = [r \in Readers |-> None]
    /\ body = [r \in Readers |-> None]
    /\ version = [p \in Publishers |-> 0]
    /\ floor = 0
    /\ announced = 0
    /\ since = [r \in Readers |-> 0]
-----------------------------------------------------------------------------
(* Redis's side of the commands. *)

\* The pointer becomes generation g.
Establish(g) == pointer' = g /\ floor' = db

\* Mutant: the initial generation is a fixed number instead of a random one.
FixedCandidate == <<1, 0>>

\* The candidate a winning SET NX stores: the next random draw.
Candidate == <<draws + 1, 0>>

\* INCR counts a missing key as 0.
Incremented == IF pointer = None THEN <<0, 1>> ELSE <<pointer[1], pointer[2] + 1>>

ApplyIncr ==
    /\ pointer # Corrupt
    /\ Incremented \in Generations
    /\ Establish(Incremented)

PutEntry(g, q, e) == store' = [store EXCEPT ![g][q] = e]
-----------------------------------------------------------------------------
(***************************************************************************)
(* RedisItemCache._generation, which get_* calls before and after fetching *)
(* the payload and invalidate calls before INCR.                           *)
(***************************************************************************)
Move(p, label) == pc' = [pc EXCEPT ![p] = label]

\* The lookup ends without a value and remembers generation g for the write.
Miss(r, g) ==
    /\ Move(r, "select")
    /\ gen' = [gen EXCEPT ![r] = g]
    /\ body' = [body EXCEPT ![r] = None]

\* Mutant: a payload is served without comparing the two generations.
ServableUnchecked(r, g) ==
    /\ body[r] # None
    /\ body[r].about = want[r]

\* Mutant: a payload that answers another request is served.
ServableForeign(r, g) == g = gen[r] /\ body[r] # None

\* The payload just fetched may be returned: the second _generation call
\* answered what the first did, and the payload validates as an answer to
\* this very request (game_id, api_version, or list fingerprint and page).
Servable(r, g) ==
    /\ g = gen[r]
    /\ body[r] # None
    /\ body[r].about = want[r]

\* What the caller of _generation does with its result g.
ReturnGeneration(p, g) ==
    \/ /\ call[p] = "lookup" /\ g # None
       /\ Move(p, "fetch")
       /\ gen' = [gen EXCEPT ![p] = g]
       /\ UNCHANGED body
    \/ /\ call[p] = "lookup" /\ g = None
       /\ Miss(p, None)
    \/ /\ call[p] = "recheck" /\ Servable(p, g)
       /\ Move(p, "done")
       /\ UNCHANGED <<gen, body>>
    \/ /\ call[p] = "recheck" /\ ~Servable(p, g)
       /\ Miss(p, g)
    \/ /\ call[p] = "invalidate"
       /\ Move(p, IF g = None THEN "failed" ELSE "incr")
       /\ UNCHANGED <<gen, body>>

\* Mutant: whatever the pointer holds is taken for a generation.
GetPointerUnparsed(p) ==
    /\ pc[p] = "getptr"
    /\ IF pointer = None THEN Move(p, "setnx") /\ UNCHANGED <<gen, body>>
                         ELSE ReturnGeneration(p, pointer)
    /\ UNCHANGED <<db, redisVars, call, want, version, announced, since>>

\* The first GETRANGE of the pointer.
GetPointer(p) ==
    /\ pc[p] = "getptr"
    /\ \/ /\ pointer = None
          /\ Move(p, "setnx")
          /\ UNCHANGED <<gen, body>>
       \/ /\ pointer = Corrupt
          /\ ReturnGeneration(p, None)
       \/ /\ pointer \in Generations
          /\ ReturnGeneration(p, pointer)
    /\ UNCHANGED <<db, redisVars, call, want, version, announced, since>>

\* SET NX of a candidate: it wins, or the pointer has appeared meanwhile.
InitPointer(p) ==
    /\ pc[p] = "setnx"
    /\ \/ /\ pointer = None
          /\ draws < MaxDraws
          /\ Establish(Candidate)
          /\ draws' = draws + 1
          /\ ReturnGeneration(p, Candidate)
       \/ /\ pointer # None
          /\ Move(p, "reread")
          /\ UNCHANGED <<pointer, floor, draws, gen, body>>
    /\ UNCHANGED <<db, store, lateSets, lateIncrs, call, want, version,
                   announced, since>>

\* Mutant: an unusable pointer is retried instead of bypassing the cache.
RereadPointerRetrying(p) ==
    /\ pc[p] = "reread"
    /\ \/ /\ pointer \in {None, Corrupt}
          /\ Move(p, "setnx")
          /\ UNCHANGED <<gen, body>>
       \/ /\ pointer \in Generations
          /\ ReturnGeneration(p, pointer)
    /\ UNCHANGED <<db, redisVars, call, want, version, announced, since>>

\* The GETRANGE after a lost SET NX; a pointer gone again yields None.
RereadPointer(p) ==
    /\ pc[p] = "reread"
    /\ \/ /\ pointer \in {None, Corrupt}
          /\ ReturnGeneration(p, None)
       \/ /\ pointer \in Generations
          /\ ReturnGeneration(p, pointer)
    /\ UNCHANGED <<db, redisVars, call, want, version, announced, since>>

\* SET NX took effect but its reply was lost: the caller sees a failure.
InitPointerUnanswered(p) ==
    /\ pc[p] = "setnx"
    /\ pointer = None
    /\ draws < MaxDraws
    /\ Establish(Candidate)
    /\ draws' = draws + 1
    /\ IF p \in Readers THEN Miss(p, None)
                        ELSE Move(p, "failed") /\ UNCHANGED <<gen, body>>
    /\ UNCHANGED <<db, store, lateSets, lateIncrs, call, want, version,
                   announced, since>>
-----------------------------------------------------------------------------
(* A read request: ItemService over RedisItemCache and the repository. *)

StartRead(r, q) ==
    /\ pc[r] = "idle"
    /\ Move(r, "getptr")
    /\ call' = [call EXCEPT ![r] = "lookup"]
    /\ want' = [want EXCEPT ![r] = q]
    /\ since' = [since EXCEPT ![r] = announced]
    /\ UNCHANGED <<db, redisVars, gen, body, version, announced>>

\* get_random goes straight to the database and is never cached.
StartRandom(r, q) ==
    /\ pc[r] = "idle"
    /\ q \notin Lists
    /\ Move(r, "select")
    /\ want' = [want EXCEPT ![r] = q]
    /\ since' = [since EXCEPT ![r] = announced]
    /\ gen' = [gen EXCEPT ![r] = None]
    /\ UNCHANGED <<db, redisVars, call, body, version, announced>>

\* GETRANGE of the data key.
Fetch(r) ==
    /\ pc[r] = "fetch"
    /\ body' = [body EXCEPT ![r] = store[gen[r]][want[r]]]
    /\ Move(r, "getptr")
    /\ call' = [call EXCEPT ![r] = "recheck"]
    /\ UNCHANGED <<db, redisVars, want, gen, version, announced, since>>

\* A payload that is not even UTF-8 is a miss, without the second check.
FetchUndecodable(r) ==
    /\ pc[r] = "fetch"
    /\ store[gen[r]][want[r]] # None
    /\ store[gen[r]][want[r]].about = None
    /\ Miss(r, gen[r])
    /\ UNCHANGED <<db, redisVars, call, want, version, announced, since>>

\* A CACHE_FAILURES exception anywhere in the lookup: _cache_read returns
\* None, and the request neither uses nor fills the cache.
CacheReadFails(r) ==
    /\ pc[r] \in InGeneration \cup {"fetch"}
    /\ Miss(r, None)
    /\ UNCHANGED <<db, redisVars, call, want, version, announced, since>>

Exists(q) == FirstVersion[q] <= db

\* Mutant: SET without ex.
FreshEntryForever(q) == [about |-> q, lo |-> db, hi |-> db, expires |-> FALSE]

\* What a statement that runs now reads of resource q; it will be cached with ex.
FreshEntry(q) == [about |-> q, lo |-> db, hi |-> db, expires |-> TRUE]

\* The only statement of an item or metadata read, the page of a list.
Select(r) ==
    /\ pc[r] = "select"
    /\ Exists(want[r])
    /\ body' = [body EXCEPT ![r] = FreshEntry(want[r])]
    /\ Move(r, IF want[r] \in Lists THEN "count" ELSE "set")
    /\ UNCHANGED <<db, redisVars, call, want, gen, version, announced, since>>

\* No such item: 404, which is never cached.
SelectNothing(r) ==
    /\ pc[r] = "select"
    /\ ~Exists(want[r])
    /\ Move(r, "notfound")
    /\ UNCHANGED <<db, redisVars, requestVars, version, announced>>

\* The total of a list, by a second statement under READ COMMITTED.
Count(r) ==
    /\ pc[r] = "count"
    /\ body' = [body EXCEPT ![r].hi = db]
    /\ Move(r, "set")
    /\ UNCHANGED <<db, redisVars, call, want, gen, version, announced, since>>

\* PostgreSQL is down, slow, or out of connections: 503.
DatabaseFails(r) ==
    /\ pc[r] \in {"select", "count"}
    /\ Move(r, "unavailable")
    /\ UNCHANGED <<db, redisVars, requestVars, version, announced>>

\* Mutant: the response is cached under the generation current at the write.
KeyGenerationAtWrite(r) == IF pointer \in Generations THEN pointer ELSE gen[r]

\* The response is cached under the generation of the lookup.
KeyGeneration(r) == gen[r]

StoreEntry(r) ==
    /\ pc[r] = "set"
    /\ gen[r] # None
    /\ PutEntry(KeyGeneration(r), want[r], body[r])
    /\ Move(r, "done")
    /\ UNCHANGED <<db, pointer, draws, lateSets, lateIncrs, floor, requestVars,
                   version, announced>>

\* Nothing is written: no generation, an oversized payload, or a Redis failure.
SkipStore(r) ==
    /\ pc[r] = "set"
    /\ Move(r, "done")
    /\ UNCHANGED <<db, redisVars, requestVars, version, announced>>

\* The SET times out for its caller but is still on its way.
StoreLate(r) ==
    /\ pc[r] = "set"
    /\ gen[r] # None
    /\ Cardinality(lateSets) < MaxLate
    /\ lateSets' = lateSets \cup
           {[gen |-> KeyGeneration(r), res |-> want[r], entry |-> body[r]]}
    /\ Move(r, "done")
    /\ UNCHANGED <<db, pointer, draws, store, lateIncrs, floor, requestVars,
                   version, announced>>

ForgetRequest(r) ==
    /\ Move(r, "idle")
    /\ call' = [call EXCEPT ![r] = "none"]
    /\ want' = [want EXCEPT ![r] = None]
    /\ gen' = [gen EXCEPT ![r] = None]
    /\ body' = [body EXCEPT ![r] = None]
    /\ since' = [since EXCEPT ![r] = 0]
    /\ UNCHANGED <<db, redisVars, version, announced>>

FinishRequest(r) == pc[r] \in Replies /\ ForgetRequest(r)

\* The request is cancelled, or the API process dies.
AbortRequest(r) == pc[r] \notin Replies \cup {"idle"} /\ ForgetRequest(r)

\* The steps a request takes by itself once it has started.
Proceed(r) ==
    \/ GetPointer(r) \/ InitPointer(r) \/ RereadPointer(r)
    \/ Fetch(r) \/ FetchUndecodable(r)
    \/ Select(r) \/ SelectNothing(r) \/ Count(r)
    \/ StoreEntry(r) \/ SkipStore(r) \/ StoreLate(r)
    \/ FinishRequest(r)

ReaderStep(r) ==
    \/ \E q \in Resources : StartRead(r, q) \/ StartRandom(r, q)
    \/ Proceed(r)
    \/ InitPointerUnanswered(r)
    \/ CacheReadFails(r)
    \/ DatabaseFails(r)
    \/ AbortRequest(r)
-----------------------------------------------------------------------------
(* A run of the ingestion command; Ingestion.tla has its transaction. *)

BeginInvalidation(p, v) ==
    /\ Move(p, "getptr")
    /\ call' = [call EXCEPT ![p] = "invalidate"]
    /\ version' = [version EXCEPT ![p] = v]

\* The transaction commits, and the run goes on to invalidate().
Publish(p) ==
    /\ pc[p] = "idle"
    /\ db < MaxVersion
    /\ db' = db + 1
    /\ BeginInvalidation(p, db + 1)
    /\ UNCHANGED <<redisVars, want, gen, body, since, announced>>

\* The run is not newer than the recorded sync: a no-op that invalidates too.
PublishNothing(p) ==
    /\ pc[p] = "idle"
    /\ db > 0
    /\ BeginInvalidation(p, db)
    /\ UNCHANGED <<db, redisVars, want, gen, body, since, announced>>

\* The run ends without invalidating; the commit may have happened if only
\* its acknowledgement was lost, or if the process died right after it.
PublishFails(p) ==
    /\ pc[p] = "idle"
    /\ db < MaxVersion
    /\ db' = db + 1
    /\ Move(p, "failed")
    /\ UNCHANGED <<redisVars, requestVars, version, announced>>

\* INCR succeeds and the command exits 0.
Invalidate(p) ==
    /\ pc[p] = "incr"
    /\ ApplyIncr
    /\ announced' = IF version[p] > announced THEN version[p] ELSE announced
    /\ Move(p, "ok")
    /\ UNCHANGED <<db, draws, store, lateSets, lateIncrs, requestVars, version>>

\* A Redis error, a corrupt pointer under INCR, or the death of the process.
InvalidationFails(p) ==
    /\ pc[p] \in InGeneration \cup {"incr"}
    /\ Move(p, "failed")
    /\ UNCHANGED <<db, redisVars, requestVars, version, announced>>

\* The INCR times out for the command but is still on its way.
InvalidateLate(p) ==
    /\ pc[p] = "incr"
    /\ lateIncrs < MaxLate
    /\ lateIncrs' = lateIncrs + 1
    /\ Move(p, "failed")
    /\ UNCHANGED <<db, pointer, draws, store, lateSets, floor, requestVars,
                   version, announced>>

\* The operator runs the command again.
RunAgain(p) ==
    /\ pc[p] \in {"ok", "failed"}
    /\ Move(p, "idle")
    /\ call' = [call EXCEPT ![p] = "none"]
    /\ version' = [version EXCEPT ![p] = 0]
    /\ UNCHANGED <<db, redisVars, want, gen, body, since, announced>>

PublisherStep(p) ==
    \/ Publish(p) \/ PublishNothing(p) \/ PublishFails(p)
    \/ GetPointer(p) \/ InitPointer(p) \/ RereadPointer(p)
    \/ InitPointerUnanswered(p)
    \/ Invalidate(p) \/ InvalidationFails(p) \/ InvalidateLate(p)
    \/ RunAgain(p)
-----------------------------------------------------------------------------
(* What Redis does by itself. *)

processVars == <<pc, requestVars, version, announced>>

Expire(g, q) ==
    /\ store[g][q] # None
    /\ store[g][q].expires
    /\ PutEntry(g, q, None)
    /\ UNCHANGED <<db, pointer, draws, lateSets, lateIncrs, floor, processVars>>

\* A value that validates as nothing, or as an answer to another request.
CorruptEntry(g, q) ==
    /\ store[g][q] # None
    /\ \E other \in (Resources \cup {None}) \ {q} :
           store' = [store EXCEPT ![g][q].about = other]
    /\ UNCHANGED <<db, pointer, draws, lateSets, lateIncrs, floor, processVars>>

IncrOutstanding == lateIncrs > 0 \/ \E p \in Publishers : pc[p] = "incr"

\* Eviction or deletion of the pointer alone.
LosePointer ==
    /\ pointer # None
    /\ draws < MaxDraws
    /\ LoseDuringIncr \/ ~IncrOutstanding
    /\ pointer' = None
    /\ UNCHANGED <<db, draws, store, lateSets, lateIncrs, floor, processVars>>

CorruptPointer ==
    /\ pointer \in Generations
    /\ pointer' = Corrupt
    /\ UNCHANGED <<db, draws, store, lateSets, lateIncrs, floor, processVars>>

ApplyLateSet(s) ==
    /\ lateSets' = lateSets \ {s}
    /\ PutEntry(s.gen, s.res, s.entry)
    /\ UNCHANGED <<db, pointer, draws, lateIncrs, floor, processVars>>

ApplyLateIncr ==
    /\ lateIncrs > 0
    /\ lateIncrs' = lateIncrs - 1
    /\ ApplyIncr
    /\ UNCHANGED <<db, draws, store, lateSets, processVars>>

\* A command on its way is lost with its connection, or refused.
DropLateSet ==
    /\ \E s \in lateSets : lateSets' = lateSets \ {s}
    /\ UNCHANGED <<db, pointer, draws, store, lateIncrs, floor, processVars>>

DropLateIncr ==
    /\ lateIncrs > 0
    /\ lateIncrs' = lateIncrs - 1
    /\ UNCHANGED <<db, pointer, draws, store, lateSets, floor, processVars>>

RedisStep ==
    \/ \E g \in Generations, q \in Resources : Expire(g, q) \/ CorruptEntry(g, q)
    \/ LosePointer
    \/ CorruptPointer
    \/ \E s \in lateSets : ApplyLateSet(s)
    \/ ApplyLateIncr
    \/ DropLateSet
    \/ DropLateIncr
-----------------------------------------------------------------------------
Next ==
    \/ \E r \in Readers : ReaderStep(r)
    \/ \E p \in Publishers : PublisherStep(p)
    \/ RedisStep

Spec == Init /\ [][Next]_vars

(***************************************************************************)
(* Fairness.  A request whose calls return keeps going (each Redis and     *)
(* PostgreSQL call is bounded by dependency_timeout_seconds), a key        *)
(* written with ex expires, and a command on its way arrives or is lost.   *)
(* Nothing obliges requests or runs to start, or faults to happen.         *)
(***************************************************************************)
LateSetEnds == DropLateSet \/ \E s \in lateSets : ApplyLateSet(s)

Fairness ==
    /\ \A r \in Readers : WF_vars(Proceed(r))
    /\ \A g \in Generations, q \in Resources : WF_vars(Expire(g, q))
    /\ WF_vars(LateSetEnds)

FairSpec == Spec /\ Fairness
-----------------------------------------------------------------------------
(* Safety. *)

\* An entry a reader of the current generation would be served.
Reachable(q) ==
    /\ pointer \in Generations
    /\ store[pointer][q] # None
    /\ store[pointer][q].about = q

\* Whether a body was read from the catalog no earlier than publication v.
NotOlder(b, v) == v <= b.lo /\ b.lo <= b.hi /\ b.hi <= db

\* Once a run has reported success, no request that starts afterwards is
\* answered with older data, from the cache or the database, whatever fills,
\* invalidations and faults it races with; nor is it told that an item which
\* that publication contains does not exist.
ReadsAreFresh ==
    \A r \in Readers :
        /\ pc[r] = "done" => NotOlder(body[r], since[r]) /\ body[r].about = want[r]
        /\ pc[r] = "notfound" => since[r] < FirstVersion[want[r]]

\* When the generation became current after the last commit, everything a
\* reader can still hit describes that commit: nothing older survives, no
\* fill that straddled the invalidation, no list page and total that two
\* statements took from two different publications.
CoherentOnceInvalidated ==
    floor = db => \A q \in Resources :
        Reachable(q) => store[pointer][q].lo = db /\ store[pointer][q].hi = db

\* A hit is at least as new as the generation that is current when it is
\* served: the second generation check in _get leaves no window between
\* fetching a payload and returning it.
HitsHonourFloor ==
    [][\A r \in Readers :
          (pc[r] \in InGeneration /\ pc'[r] = "done")
              => NotOlder(body[r], floor')]_vars

\* A generation that becomes current has no entries yet, and no request or
\* late SET that could still write under it: the keys of an earlier
\* generation are never brought back by an INCR or a new initial pointer.
NoResurrection ==
    [][(pointer' # pointer /\ pointer' \in Generations)
           => /\ \A q \in Resources : store[pointer'][q] = None
              /\ \A r \in Readers : gen[r] # pointer'
              /\ \A s \in lateSets : s.gen # pointer']_vars
-----------------------------------------------------------------------------
(* A request replies when its body is ready; everything it does before that *)
(* is invisible to the register.                                            *)
PhaseOf(r) == IF pc[r] \in Replies \cup {"idle"}
              THEN IF pc[r] = "done" THEN "replied" ELSE pc[r]
              ELSE "reading"

AnswerOf(r) == IF pc[r] = "done"
               THEN [about |-> body[r].about, lo |-> body[r].lo, hi |-> body[r].hi]
               ELSE None

Register == INSTANCE CatalogRegister WITH
    committed <- db,
    phase <- [r \in Readers |-> PhaseOf(r)],
    asked <- want,
    answer <- [r \in Readers |-> AnswerOf(r)]

\* The cached read path with its faults is a register that requests read
\* directly: a cache hit, a fill and a bypass all answer as some database read
\* between the request's start and its end could, within the last announced
\* publication.
ImplementsRegister == Register!Spec
-----------------------------------------------------------------------------
(***************************************************************************)
(* The inductive invariant behind the safety properties, when the pointer  *)
(* is not lost between invalidate's own check of it and its INCR.          *)
(***************************************************************************)
\* What each request holds at each point.
RequestsHold ==
    \A r \in Readers :
        /\ pc[r] # "idle" => want[r] \in Resources
        /\ (pc[r] = "fetch" \/ (pc[r] \in InGeneration /\ call[r] = "recheck"))
              => gen[r] \in Generations
        /\ (pc[r] = "idle" \/ (pc[r] \in InGeneration /\ call[r] = "lookup"))
              => body[r] = None
        /\ pc[r] \in {"count", "set", "done"} =>
              body[r] \in Entry /\ body[r].about = want[r]

\* A response on its way to the cache is as new as the request may expect.
FillsAreFresh ==
    \A r \in Readers : pc[r] \in {"count", "set"} => NotOlder(body[r], since[r])

\* A run reports success only for what the current generation starts from.
AnnouncedByGeneration ==
    /\ announced <= floor
    /\ floor <= db
    /\ \A r \in Readers : since[r] <= announced
    /\ \A p \in Publishers : version[p] <= db

\* A generation g that is not ahead of the pointer's.
Past(g) ==
    /\ 1 <= g[1] /\ g[1] <= draws
    /\ (pointer \in Generations /\ g[1] = draws) => g[2] <= pointer[2]

\* Nothing in Redis, on its way there, or held by a request belongs to a
\* generation still to come.
NothingAhead ==
    /\ pointer \in Generations => pointer[1] = draws /\ draws >= 1
    /\ \A g \in Generations, q \in Resources : store[g][q] # None => Past(g)
    /\ \A s \in lateSets : Past(s.gen)
    /\ \A r \in Readers : gen[r] # None => Past(gen[r])

\* The INCR of a run finds the pointer it checked, or a later one.
IncrFindsPointer == IncrOutstanding => pointer # None

\* A payload that is, or will be, stored under generation g.
Sound(e, g) ==
    /\ e.lo <= e.hi
    /\ e.hi <= db
    /\ g = pointer => floor <= e.lo

\* Payloads under the current generation are as new as that generation.
PayloadsSound ==
    /\ \A g \in Generations, q \in Resources :
          store[g][q] # None => Sound(store[g][q], g)
    /\ \A s \in lateSets : Sound(s.entry, s.gen)
    /\ \A r \in Readers :
          (body[r] # None /\ gen[r] # None) => Sound(body[r], gen[r])

\* Inductive: a request's answer is bounded below by the generation it was
\* served or filled under, and generations only ever move forward.
Inductive ==
    /\ TypeOK
    /\ RequestsHold
    /\ ReadsAreFresh
    /\ FillsAreFresh
    /\ AnnouncedByGeneration
    /\ NothingAhead
    /\ IncrFindsPointer
    /\ PayloadsSound

(* What the refinement of the register takes as well. *)
\* Read when there was such a resource, and at once unless it is a list.
WellRead(e) ==
    /\ FirstVersion[e.about] <= e.lo
    /\ e.lo = e.hi \/ e.about \in Lists

\* Inductive with the above: nothing that could pass for an answer to what it
\* is kept under, or to who holds it, was read otherwise.
AnswersWellRead ==
    /\ \A g \in Generations, q \in Resources :
          (store[g][q] # None /\ store[g][q].about = q) => WellRead(store[g][q])
    /\ \A s \in lateSets : s.entry.about = s.res => WellRead(s.entry)
    /\ \A r \in Readers :
          (body[r] # None /\ body[r].about = want[r]) => WellRead(body[r])
    /\ \A r \in Readers : pc[r] = "count" => want[r] \in Lists
-----------------------------------------------------------------------------
(* Liveness. *)

\* Every request ends, however the pointer misbehaves under it: the cache is
\* bypassed, never retried.
RequestsTerminate == \A r \in Readers : pc[r] # "idle" ~> pc[r] = "idle"

\* Stale entries do not outlive their TTL: even when invalidation fails, is
\* late or never runs, what a reader can hit ends up current.
EventuallyCoherent ==
    <>[](\A q \in Resources :
            Reachable(q) => store[pointer][q].lo = db /\ store[pointer][q].hi = db)
=============================================================================
