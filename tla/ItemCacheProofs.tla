--------------------------- MODULE ItemCacheProofs ---------------------------
(***************************************************************************)
(* Proofs about ItemCache, for every set of readers, publishers and        *)
(* resources and every value of the bounds.                                *)
(***************************************************************************)
EXTENDS ItemCache, TLAPS

\* What a request holds has the right shape, with the types.
Shape == TypeOK /\ RequestsHold

USE DEF Processes, ReaderPCs, PublisherPCs, InGeneration, Replies, redisVars,
        requestVars, processVars, vars

\* While draws remain, the next candidate is a generation.
LEMMA CandidateIsGeneration ==
    ASSUME TypeOK, draws < MaxDraws
    PROVE  Candidate \in Generations /\ draws + 1 \in 0 .. MaxDraws
  BY ConstantsAssumption DEF Candidate, Generations, TypeOK

\* The caller of _generation is left with well-formed locals.
LEMMA ReturnShape ==
    ASSUME Shape, NEW p \in Processes, NEW g \in Generations \cup {None},
           pc[p] \in InGeneration, ReturnGeneration(p, g),
           UNCHANGED <<call, want>>
    PROVE  /\ pc' \in [Processes -> ReaderPCs \cup PublisherPCs]
           /\ \A r \in Readers : pc'[r] \in ReaderPCs
           /\ \A q \in Publishers : pc'[q] \in PublisherPCs
           /\ gen' \in [Readers -> Generations \cup {None}]
           /\ body' \in [Readers -> Entry \cup {None}]
           /\ RequestsHold'
  <1>0. /\ pc \in [Processes -> ReaderPCs \cup PublisherPCs]
        /\ \A r \in Readers : pc[r] \in ReaderPCs /\ call[r] # "invalidate"
        /\ \A q \in Publishers : pc[q] \in PublisherPCs /\ call[q] \in {"none", "invalidate"}
        /\ gen \in [Readers -> Generations \cup {None}]
        /\ body \in [Readers -> Entry \cup {None}]
        /\ p \in Readers => want[p] \in Resources
        /\ p \in Readers /\ call[p] = "lookup" => body[p] = None
        /\ p \in Readers /\ call[p] = "recheck" => gen[p] \in Generations
    BY DEF Shape, TypeOK, RequestsHold
  <1>. USE <1>0, ConstantsAssumption DEF Move
  <1>1. CASE call[p] = "lookup" /\ g # None
    BY <1>1 DEF ReturnGeneration, Shape, RequestsHold
  <1>2. CASE p \in Readers /\ Miss(p, g)
    BY <1>2 DEF Miss, Shape, RequestsHold
  <1>3. CASE call[p] = "recheck" /\ Servable(p, g) /\ Move(p, "done") /\ UNCHANGED <<gen, body>>
    <2>1. p \in Readers /\ body[p] \in Entry /\ body[p].about = want[p]
      BY <1>3 DEF Servable
    <2>. QED
      BY <1>3, <2>1 DEF Shape, RequestsHold
  <1>4. CASE call[p] = "invalidate"
    BY <1>4 DEF ReturnGeneration, Shape, RequestsHold
  <1>. QED
    BY <1>1, <1>2, <1>3, <1>4 DEF ReturnGeneration

\* The initial state has its types.
LEMMA ShapeInit == Init => Shape
  BY ConstantsAssumption
  DEF Init, Shape, TypeOK, RequestsHold, Generations

\* The three calls that make up _generation.
LEMMA PointerShape ==
    ASSUME Shape, NEW p \in Processes,
           GetPointer(p) \/ InitPointer(p) \/ RereadPointer(p) \/ InitPointerUnanswered(p)
    PROVE  Shape'
  <1>. USE ConstantsAssumption DEF Shape
  <1>1. CASE GetPointer(p)
    <2>1. CASE pointer = None /\ Move(p, "setnx") /\ UNCHANGED <<gen, body>>
      BY <1>1, <2>1 DEF GetPointer, Move, TypeOK, RequestsHold
    <2>2. ASSUME NEW g \in Generations \cup {None}, ReturnGeneration(p, g)
          PROVE  Shape'
      BY <1>1, <2>2, ReturnShape DEF GetPointer, TypeOK
    <2>. QED
      BY <1>1, <2>1, <2>2 DEF GetPointer
  <1>2. CASE InitPointer(p)
    <2>1. CASE Move(p, "reread") /\ UNCHANGED <<pointer, floor, draws, gen, body>>
      BY <1>2, <2>1 DEF InitPointer, Move, TypeOK, RequestsHold
    <2>2. CASE /\ draws < MaxDraws /\ Establish(Candidate) /\ draws' = draws + 1
               /\ ReturnGeneration(p, Candidate)
      BY <1>2, <2>2, ReturnShape, CandidateIsGeneration
      DEF InitPointer, Establish, TypeOK
    <2>. QED
      BY <1>2, <2>1, <2>2 DEF InitPointer
  <1>3. CASE RereadPointer(p)
    <2>1. ASSUME NEW g \in Generations \cup {None}, ReturnGeneration(p, g)
          PROVE  Shape'
      BY <1>3, <2>1, ReturnShape DEF RereadPointer, TypeOK
    <2>. QED
      BY <1>3, <2>1 DEF RereadPointer
  <1>4. CASE InitPointerUnanswered(p)
    <2>1. pointer' \in Generations /\ floor' = db /\ draws' \in 0 .. MaxDraws
      BY <1>4, CandidateIsGeneration DEF InitPointerUnanswered, Establish
    <2>. QED
      BY <1>4, <2>1 DEF InitPointerUnanswered, Miss, Move, TypeOK, RequestsHold
  <1>. QED
    BY <1>1, <1>2, <1>3, <1>4

\* A step of a request keeps the types.
LEMMA ReaderShape ==
    ASSUME Shape, NEW r \in Readers, ReaderStep(r)
    PROVE  Shape'
  <1>. USE ConstantsAssumption DEF Shape, TypeOK, RequestsHold, Move
  <1>1. ASSUME NEW q \in Resources, StartRead(r, q) \/ StartRandom(r, q) PROVE Shape'
    BY <1>1 DEF StartRead, StartRandom
  <1>2. CASE Fetch(r)
    BY <1>2 DEF Fetch
  <1>3. CASE FetchUndecodable(r)
    BY <1>3 DEF FetchUndecodable, Miss
  <1>4. CASE CacheReadFails(r)
    BY <1>4 DEF CacheReadFails, Miss
  <1>5. CASE Select(r)
    BY <1>5 DEF Select, FreshEntry, Entry
  <1>6. CASE SelectNothing(r)
    BY <1>6 DEF SelectNothing
  <1>7. CASE Count(r)
    BY <1>7 DEF Count, Entry
  <1>8. CASE DatabaseFails(r)
    BY <1>8 DEF DatabaseFails
  <1>9. CASE StoreEntry(r)
    BY <1>9 DEF StoreEntry, KeyGeneration, PutEntry
  <1>10. CASE SkipStore(r)
    BY <1>10 DEF SkipStore
  <1>11. CASE StoreLate(r)
    BY <1>11 DEF StoreLate, KeyGeneration, LateSet
  <1>12. CASE ForgetRequest(r)
    BY <1>12 DEF ForgetRequest
  <1>. QED
    BY PointerShape, <1>1, <1>2, <1>3, <1>4, <1>5, <1>6, <1>7, <1>8, <1>9, <1>10, <1>11, <1>12
    DEF ReaderStep, Proceed, FinishRequest, AbortRequest

\* An INCR leaves a generation in the pointer.
LEMMA IncrShape ==
    ASSUME TypeOK, ApplyIncr
    PROVE  pointer' \in Generations /\ floor' \in 0 .. MaxVersion
  BY DEF TypeOK, ApplyIncr, Establish

\* A step of a run keeps the types.
LEMMA PublisherShape ==
    ASSUME Shape, NEW p \in Publishers, PublisherStep(p)
    PROVE  Shape'
  <1>. USE ConstantsAssumption DEF Shape, TypeOK, RequestsHold, Move
  <1>1. CASE Publish(p)
    BY <1>1 DEF Publish, BeginInvalidation
  <1>2. CASE PublishNothing(p)
    BY <1>2 DEF PublishNothing, BeginInvalidation
  <1>3. CASE PublishFails(p)
    BY <1>3 DEF PublishFails
  <1>4. CASE Invalidate(p)
    BY <1>4, IncrShape DEF Invalidate
  <1>5. CASE InvalidationFails(p)
    BY <1>5 DEF InvalidationFails
  <1>6. CASE InvalidateLate(p)
    BY <1>6 DEF InvalidateLate
  <1>7. CASE RunAgain(p)
    BY <1>7 DEF RunAgain
  <1>. QED
    BY PointerShape, <1>1, <1>2, <1>3, <1>4, <1>5, <1>6, <1>7 DEF PublisherStep

\* What Redis does by itself keeps the types.
LEMMA RedisShape ==
    ASSUME Shape, RedisStep
    PROVE  Shape'
  <1>. USE ConstantsAssumption DEF Shape, TypeOK, RequestsHold
  <1>1. ASSUME NEW g \in Generations, NEW q \in Resources, Expire(g, q) PROVE Shape'
    BY <1>1 DEF Expire, PutEntry
  <1>2. ASSUME NEW g \in Generations, NEW q \in Resources, CorruptEntry(g, q)
        PROVE Shape'
    BY <1>2 DEF CorruptEntry, Entry
  <1>3. ASSUME NEW s \in lateSets, ApplyLateSet(s) PROVE Shape'
    BY <1>3 DEF ApplyLateSet, PutEntry, LateSet
  <1>4. CASE LosePointer
    BY <1>4 DEF LosePointer
  <1>5. CASE CorruptPointer
    BY <1>5 DEF CorruptPointer
  <1>6. CASE ApplyLateIncr
    BY <1>6, IncrShape DEF ApplyLateIncr
  <1>7. CASE DropLateSet
    BY <1>7 DEF DropLateSet
  <1>8. CASE DropLateIncr
    BY <1>8 DEF DropLateIncr
  <1>. QED
    BY <1>1, <1>2, <1>3, <1>4, <1>5, <1>6, <1>7, <1>8 DEF RedisStep

\* Every step keeps the types.
LEMMA ShapeNext == Shape /\ [Next]_vars => Shape'
  <1>1. CASE Next
    BY <1>1, ReaderShape, PublisherShape, RedisShape DEF Next
  <1>2. CASE UNCHANGED vars
    BY <1>2 DEF Shape, TypeOK, RequestsHold
  <1>. QED
    BY <1>1, <1>2

\* The model's state stays within its types, whatever the readers,
\* publishers, resources and bounds: a request always has a generation to
\* fetch under and a well-formed response when it writes to the cache.
THEOREM TypeCorrect == Spec => []TypeOK
  <1>1. Init => Shape
    BY ShapeInit
  <1>2. Shape /\ [Next]_vars => Shape'
    BY ShapeNext
  <1>3. Shape => TypeOK
    BY DEF Shape
  <1>. QED
    BY <1>1, <1>2, <1>3, PTL DEF Spec
-----------------------------------------------------------------------------
(***************************************************************************)
(* Freshness.  The proof first classifies what one step can do to the      *)
(* pointer, to the generations requests hold and to the payloads in        *)
(* transit (Moves), then carries the inductive invariant over these kinds  *)
(* of move instead of over every action.                                   *)
(***************************************************************************)

\* The pointer stays, is lost or corrupted, or becomes a generation that
\* nothing has been stored under, which starts from the current catalog.
PointerMoves ==
    \/ UNCHANGED <<pointer, draws, floor>>
    \/ /\ pointer' \in {None, Corrupt}
       /\ UNCHANGED <<draws, floor>>
    \/ /\ pointer' \in Generations
       /\ pointer'[1] = draws' /\ draws' >= 1
       /\ \/ draws' = draws + 1
          \/ /\ draws' = draws /\ pointer \in Generations
             /\ pointer'[2] = pointer[2] + 1
       /\ floor' = db /\ db' = db

\* A request keeps its generation, forgets it, or takes the pointer's.
GenerationsMove ==
    \A r \in Readers :
        \/ gen'[r] \in {gen[r], None}
        \/ gen'[r] = pointer' /\ pointer' \in Generations

\* A key keeps its value, loses it, is corrupted, or is written by a request
\* or by a SET on its way.
StoreMoves ==
    \A g \in Generations, q \in Resources :
        \/ store'[g][q] \in {store[g][q], None}
        \/ /\ store[g][q] # None
           /\ store'[g][q].lo = store[g][q].lo /\ store'[g][q].hi = store[g][q].hi
        \/ \E r \in Readers : gen[r] = g /\ store'[g][q] = body[r] /\ pc[r] = "set"
        \/ \E s \in lateSets : s.gen = g /\ store'[g][q] = s.entry

LateSetsMove ==
    \A s \in lateSets' :
        \/ s \in lateSets
        \/ \E r \in Readers :
              pc[r] = "set" /\ gen[r] # None /\ s.gen = gen[r] /\ s.entry = body[r]

\* A request's payload is kept, dropped, fetched, or read from the database.
BodiesMove ==
    \A r \in Readers :
        \/ body'[r] = None
        \/ gen'[r] = gen[r] /\ body'[r] = body[r]
        \/ /\ gen'[r] = gen[r] /\ gen[r] \in Generations /\ want[r] \in Resources
           /\ body'[r] = store[gen[r]][want[r]]
        \/ /\ gen'[r] = gen[r] /\ db' = db
           /\ UNCHANGED <<pointer, floor>>
           /\ body'[r].hi = db
           /\ \/ body'[r].lo = db
              \/ body[r] \in Entry /\ pc[r] = "count" /\ body'[r].lo = body[r].lo

Moves == PointerMoves /\ GenerationsMove /\ StoreMoves /\ LateSetsMove /\ BodiesMove

\* What the steps of a request or a run start from.
Base == Shape /\ NothingAhead /\ IncrFindsPointer

\* A stored candidate is a generation of its own draw.
LEMMA CandidateIsNew ==
    ASSUME Base, draws < MaxDraws, Establish(Candidate), draws' = draws + 1, db' = db
    PROVE  PointerMoves
  BY ConstantsAssumption
  DEF Base, Shape, TypeOK, Establish, Candidate, Generations, PointerMoves

\* INCR of an existing pointer is the next generation of the same draw.
LEMMA IncrIsNew ==
    ASSUME Base, ApplyIncr, pointer # None, draws' = draws, db' = db
    PROVE  PointerMoves
  <1>1. pointer \in Generations /\ Incremented = <<pointer[1], pointer[2] + 1>>
    BY DEF Base, Shape, TypeOK, ApplyIncr, Incremented
  <1>2. pointer[1] = draws /\ draws >= 1
    BY <1>1 DEF Base, NothingAhead
  <1>. QED
    BY <1>1, <1>2 DEF ApplyIncr, Establish, PointerMoves

\* The caller of _generation takes its result, or a payload it fetched.
LEMMA ReturnMoves ==
    ASSUME Base, NEW p \in Processes, NEW g \in Generations \cup {None},
           g # None => g = pointer' /\ pointer' \in Generations,
           pc[p] \in InGeneration, ReturnGeneration(p, g)
    PROVE  GenerationsMove /\ BodiesMove
  <1>. USE ConstantsAssumption
       DEF Base, Shape, TypeOK, RequestsHold, GenerationsMove, BodiesMove, Move
  <1>1. CASE call[p] = "lookup" /\ g # None
    <2>1. p \in Readers /\ body[p] = None
      BY <1>1
    <2>. QED
      BY <1>1, <2>1 DEF ReturnGeneration
  <1>2. CASE Miss(p, g)
    BY <1>2 DEF Miss
  <1>3. CASE UNCHANGED <<gen, body>>
    BY <1>3
  <1>. QED
    BY <1>1, <1>2, <1>3 DEF ReturnGeneration

\* So the calls on the pointer only move things as Moves says,
LEMMA PointerCallMoves ==
    ASSUME Base, NEW p \in Processes,
           GetPointer(p) \/ InitPointer(p) \/ RereadPointer(p) \/ InitPointerUnanswered(p)
    PROVE  Moves
  <1>. USE ConstantsAssumption
  <1>1. StoreMoves /\ LateSetsMove
    BY DEF GetPointer, InitPointer, RereadPointer, InitPointerUnanswered,
           StoreMoves, LateSetsMove
  <1>2. PointerMoves
    BY CandidateIsNew DEF GetPointer, InitPointer, RereadPointer,
           InitPointerUnanswered, PointerMoves
  <1>3. CASE UNCHANGED <<gen, body>>
    BY <1>1, <1>2, <1>3 DEF Moves, GenerationsMove, BodiesMove
  <1>4. CASE p \in Readers /\ Miss(p, None)
    BY <1>1, <1>2, <1>4 DEF Moves, GenerationsMove, BodiesMove, Miss, Base, Shape, TypeOK
  <1>5. ASSUME NEW g \in Generations \cup {None}, ReturnGeneration(p, g),
               pc[p] \in InGeneration,
               g # None => g = pointer' /\ pointer' \in Generations
        PROVE  Moves
    BY <1>1, <1>2, <1>5, ReturnMoves DEF Moves
  <1>6. CASE GetPointer(p)
    BY <1>3, <1>5, <1>6 DEF GetPointer
  <1>7. CASE InitPointer(p)
    <2>1. CASE draws < MaxDraws /\ Establish(Candidate) /\ ReturnGeneration(p, Candidate)
      BY <1>5, <1>7, <2>1, CandidateIsGeneration DEF InitPointer, Establish, Base, Shape
    <2>. QED
      BY <1>3, <1>7, <2>1 DEF InitPointer
  <1>8. CASE RereadPointer(p)
    BY <1>5, <1>8 DEF RereadPointer
  <1>9. CASE InitPointerUnanswered(p)
    BY <1>3, <1>4, <1>9 DEF InitPointerUnanswered
  <1>. QED
    BY <1>6, <1>7, <1>8, <1>9

\* and so do all the steps of a request,
LEMMA ReaderMoves ==
    ASSUME Base, NEW r \in Readers, ReaderStep(r)
    PROVE  Moves
  <1>. USE ConstantsAssumption
       DEF Base, Shape, TypeOK, RequestsHold, Move, Moves, PointerMoves,
           GenerationsMove, StoreMoves, LateSetsMove, BodiesMove
  <1>1. ASSUME NEW q \in Resources, StartRead(r, q) \/ StartRandom(r, q) PROVE Moves
    BY <1>1 DEF StartRead, StartRandom
  <1>2. CASE Fetch(r)
    BY <1>2 DEF Fetch
  <1>3. CASE FetchUndecodable(r)
    BY <1>3 DEF FetchUndecodable, Miss
  <1>4. CASE CacheReadFails(r)
    BY <1>4 DEF CacheReadFails, Miss
  <1>5. CASE Select(r)
    BY <1>5 DEF Select, FreshEntry
  <1>6. CASE SelectNothing(r)
    BY <1>6 DEF SelectNothing
  <1>7. CASE Count(r)
    BY <1>7 DEF Count, Entry
  <1>8. CASE DatabaseFails(r)
    BY <1>8 DEF DatabaseFails
  <1>9. CASE StoreEntry(r)
    BY <1>9 DEF StoreEntry, KeyGeneration, PutEntry
  <1>10. CASE SkipStore(r)
    BY <1>10 DEF SkipStore
  <1>11. CASE StoreLate(r)
    BY <1>11 DEF StoreLate, KeyGeneration
  <1>12. CASE ForgetRequest(r)
    BY <1>12 DEF ForgetRequest
  <1>. QED
    BY PointerCallMoves, <1>1, <1>2, <1>3, <1>4, <1>5, <1>6, <1>7, <1>8, <1>9, <1>10, <1>11, <1>12
    DEF ReaderStep, Proceed, FinishRequest, AbortRequest

\* of a run,
LEMMA PublisherMoves ==
    ASSUME Base, NEW p \in Publishers, PublisherStep(p)
    PROVE  Moves
  <1>1. CASE /\ UNCHANGED <<pointer, draws, floor>>
             /\ UNCHANGED <<gen, body, store, lateSets>>
    BY <1>1 DEF Moves, PointerMoves, GenerationsMove, StoreMoves, LateSetsMove, BodiesMove
  <1>2. CASE Invalidate(p)
    <2>1. pointer # None
      BY <1>2 DEF Invalidate, Base, IncrFindsPointer, IncrOutstanding
    <2>2. PointerMoves
      BY <1>2, <2>1, IncrIsNew DEF Invalidate
    <2>. QED
      BY <1>2, <2>2 DEF Invalidate, requestVars, Moves, GenerationsMove, StoreMoves,
                        LateSetsMove, BodiesMove
  <1>3. CASE GetPointer(p) \/ InitPointer(p) \/ RereadPointer(p) \/ InitPointerUnanswered(p)
    BY <1>3, PointerCallMoves
  <1>. QED
    BY <1>1, <1>2, <1>3
    DEF PublisherStep, Publish, PublishNothing, PublishFails, InvalidationFails,
        InvalidateLate, RunAgain

\* and of Redis.
LEMMA RedisMoves ==
    ASSUME Base, RedisStep
    PROVE  Moves
  <1>. USE ConstantsAssumption
       DEF Base, Shape, TypeOK, Moves, PointerMoves,
           GenerationsMove, StoreMoves, LateSetsMove, BodiesMove
  <1>1. ASSUME NEW g \in Generations, NEW q \in Resources, Expire(g, q) PROVE Moves
    BY <1>1 DEF Expire, PutEntry
  <1>2. ASSUME NEW g \in Generations, NEW q \in Resources, CorruptEntry(g, q)
        PROVE Moves
    BY <1>2 DEF CorruptEntry, Entry
  <1>3. ASSUME NEW s \in lateSets, ApplyLateSet(s) PROVE Moves
    BY <1>3 DEF ApplyLateSet, PutEntry, LateSet
  <1>4. CASE LosePointer
    BY <1>4 DEF LosePointer
  <1>5. CASE CorruptPointer
    BY <1>5 DEF CorruptPointer
  <1>6. CASE ApplyLateIncr
    <2>1. pointer # None
      BY <1>6 DEF ApplyLateIncr, IncrFindsPointer, IncrOutstanding
    <2>2. PointerMoves
      BY <1>6, <2>1, IncrIsNew DEF ApplyLateIncr
    <2>. QED
      BY <1>6, <2>2 DEF ApplyLateIncr
  <1>7. CASE DropLateSet
    BY <1>7 DEF DropLateSet
  <1>8. CASE DropLateIncr
    BY <1>8 DEF DropLateIncr
  <1>. QED
    BY <1>1, <1>2, <1>3, <1>4, <1>5, <1>6, <1>7, <1>8 DEF RedisStep

\* Every step is such a move.
LEMMA StepsMove == ASSUME Base, [Next]_vars PROVE Moves
  <1>1. CASE Next
    BY <1>1, ReaderMoves, PublisherMoves, RedisMoves DEF Next
  <1>2. CASE UNCHANGED vars
    BY <1>2 DEF Moves, PointerMoves, GenerationsMove, StoreMoves, LateSetsMove, BodiesMove
  <1>. QED
    BY <1>1, <1>2

\* Only Redis loses the pointer: no call leaves it missing that found it.
LEMMA CallsKeepPointer ==
    ASSUME Base, NEW p \in Processes,
           ReaderStep(p) \/ PublisherStep(p), pointer # None
    PROVE  pointer' # None
  <1>1. CASE ApplyIncr
    BY <1>1, ConstantsAssumption DEF ApplyIncr, Establish
  <1>2. CASE draws < MaxDraws /\ Establish(Candidate)
    BY <1>2, CandidateIsGeneration, ConstantsAssumption DEF Establish, Base, Shape
  <1>3. CASE UNCHANGED pointer
    BY <1>3
  <1>4. CASE GetPointer(p) \/ InitPointer(p) \/ RereadPointer(p) \/ InitPointerUnanswered(p)
    BY <1>2, <1>3, <1>4
    DEF GetPointer, InitPointer, RereadPointer, InitPointerUnanswered
  <1>5. CASE ReaderStep(p)
    BY <1>3, <1>4, <1>5
    DEF ReaderStep, Proceed, StartRead, StartRandom, Fetch, FetchUndecodable, CacheReadFails,
        Select, SelectNothing, Count, DatabaseFails, StoreEntry, SkipStore,
        StoreLate, FinishRequest, AbortRequest, ForgetRequest
  <1>6. CASE PublisherStep(p)
    BY <1>1, <1>3, <1>4, <1>6
    DEF PublisherStep, Publish, PublishNothing, PublishFails, Invalidate,
        InvalidationFails, InvalidateLate, RunAgain
  <1>. QED
    BY <1>5, <1>6

\* Requests issue no INCR.
LEMMA ReadersIssueNoIncr ==
    ASSUME Base, NEW r \in Readers, ReaderStep(r)
    PROVE  lateIncrs' = lateIncrs /\ \A p \in Publishers : pc'[p] = pc[p]
  <1>. USE ConstantsAssumption DEF Base, Shape, TypeOK, Move, Miss
  <1>1. ASSUME NEW g, ReturnGeneration(r, g)
        PROVE  \A p \in Publishers : pc'[p] = pc[p]
    BY <1>1 DEF ReturnGeneration
  <1>2. CASE GetPointer(r) \/ InitPointer(r) \/ RereadPointer(r) \/ InitPointerUnanswered(r)
    BY <1>1, <1>2 DEF GetPointer, InitPointer, RereadPointer, InitPointerUnanswered
  <1>3. CASE \/ \E q \in Resources : StartRead(r, q) \/ StartRandom(r, q)
             \/ Fetch(r) \/ FetchUndecodable(r) \/ CacheReadFails(r)
    BY <1>3 DEF StartRead, StartRandom, Fetch, FetchUndecodable, CacheReadFails
  <1>4. CASE Select(r) \/ SelectNothing(r) \/ Count(r) \/ DatabaseFails(r)
    BY <1>4 DEF Select, SelectNothing, Count, DatabaseFails
  <1>5. CASE StoreEntry(r) \/ SkipStore(r) \/ StoreLate(r) \/ ForgetRequest(r)
    BY <1>5 DEF StoreEntry, SkipStore, StoreLate, ForgetRequest
  <1>. QED
    BY <1>2, <1>3, <1>4, <1>5 DEF ReaderStep, Proceed, FinishRequest, AbortRequest

\* A run issues its INCR only when _generation found or created a pointer.
LEMMA RunsCheckBeforeIncr ==
    ASSUME Base, NEW p \in Publishers, PublisherStep(p), pc'[p] = "incr"
    PROVE  pointer' # None
  <1>. USE ConstantsAssumption DEF Base, Shape, TypeOK, Move
  <1>1. ASSUME NEW g \in {None, pointer'}, ReturnGeneration(p, g)
        PROVE  pointer' # None
    BY <1>1 DEF ReturnGeneration, Miss
  <1>2. CASE GetPointer(p)
    BY <1>1, <1>2 DEF GetPointer
  <1>3. CASE InitPointer(p)
    BY <1>1, <1>3 DEF InitPointer, Establish
  <1>4. CASE RereadPointer(p)
    BY <1>1, <1>4 DEF RereadPointer
  <1>5. CASE InitPointerUnanswered(p)
    BY <1>5 DEF InitPointerUnanswered, Miss
  <1>. QED
    BY <1>2, <1>3, <1>4, <1>5
    DEF PublisherStep, Publish, PublishNothing, PublishFails, BeginInvalidation,
        Invalidate, InvalidationFails, InvalidateLate, RunAgain

\* A run moves no other run.
LEMMA RunsKeepOthers ==
    ASSUME Base, NEW p \in Publishers, PublisherStep(p),
           NEW q \in Publishers, q # p
    PROVE  pc'[q] = pc[q]
  <1>. USE ConstantsAssumption DEF Base, Shape, TypeOK, Move, Miss
  <1>1. ASSUME NEW g, ReturnGeneration(p, g)
        PROVE  pc'[q] = pc[q]
    BY <1>1 DEF ReturnGeneration
  <1>2. CASE GetPointer(p) \/ InitPointer(p) \/ RereadPointer(p) \/ InitPointerUnanswered(p)
    BY <1>1, <1>2 DEF GetPointer, InitPointer, RereadPointer, InitPointerUnanswered
  <1>3. CASE Publish(p) \/ PublishNothing(p) \/ PublishFails(p) \/ RunAgain(p)
    BY <1>3 DEF Publish, PublishNothing, PublishFails, BeginInvalidation, RunAgain
  <1>4. CASE Invalidate(p) \/ InvalidationFails(p) \/ InvalidateLate(p)
    BY <1>4 DEF Invalidate, InvalidationFails, InvalidateLate
  <1>. QED
    BY <1>2, <1>3, <1>4 DEF PublisherStep

\* The INCR of a run, or one on its way, always finds a pointer.
LEMMA IncrFindsPointerNext ==
    ASSUME Base, ~LoseDuringIncr, [Next]_vars
    PROVE  IncrFindsPointer'
  <1>1. ASSUME NEW r \in Readers, ReaderStep(r) PROVE IncrFindsPointer'
    BY <1>1, CallsKeepPointer, ReadersIssueNoIncr
    DEF Base, IncrFindsPointer, IncrOutstanding
  <1>2. ASSUME NEW p \in Publishers, PublisherStep(p) PROVE IncrFindsPointer'
    <2>1. CASE IncrOutstanding
      BY <1>2, <2>1, CallsKeepPointer DEF Base, IncrFindsPointer
    <2>2. CASE ~IncrOutstanding /\ pc'[p] = "incr"
      BY <1>2, <2>2, RunsCheckBeforeIncr DEF IncrFindsPointer
    <2>3. CASE ~IncrOutstanding /\ pc'[p] # "incr"
      <3>1. lateIncrs' = lateIncrs
        BY <1>2, <2>3
        DEF PublisherStep, Publish, PublishNothing, PublishFails, Invalidate,
            InvalidationFails, InvalidateLate, RunAgain, GetPointer, InitPointer,
            RereadPointer, InitPointerUnanswered, IncrOutstanding
      <3>. QED
        BY <1>2, <2>3, <3>1, RunsKeepOthers DEF IncrFindsPointer, IncrOutstanding
    <2>. QED
      BY <2>1, <2>2, <2>3
  <1>3. CASE RedisStep
    <2>1. CASE LosePointer
      BY <2>1 DEF LosePointer, IncrFindsPointer, IncrOutstanding
    <2>2. CASE ApplyLateIncr
      BY <2>2, ConstantsAssumption DEF ApplyLateIncr, ApplyIncr, Establish, IncrFindsPointer
    <2>3. CASE CorruptPointer
      BY <2>3, ConstantsAssumption DEF CorruptPointer, IncrFindsPointer
    <2>4. CASE UNCHANGED <<pointer, pc>> /\ (lateIncrs' > 0 => lateIncrs > 0)
      BY <2>4 DEF Base, IncrFindsPointer, IncrOutstanding
    <2>. QED
      BY <1>3, <2>1, <2>2, <2>3, <2>4
      DEF RedisStep, Expire, CorruptEntry, ApplyLateSet, DropLateSet, DropLateIncr,
          Base, Shape, TypeOK
  <1>4. CASE UNCHANGED vars
    BY <1>4 DEF Base, IncrFindsPointer, IncrOutstanding
  <1>. QED
    BY <1>1, <1>2, <1>3, <1>4 DEF Next

\* A generation that something was stored under, or that a request holds, is
\* still not ahead after the step.
LEMMA PastKept ==
    ASSUME Base, PointerMoves, NEW g \in Generations, Past(g)
    PROVE  /\ 1 <= g[1] /\ g[1] <= draws'
           /\ (pointer' \in Generations /\ g[1] = draws') => g[2] <= pointer'[2]
           /\ g = pointer' => UNCHANGED <<pointer, floor>>
  <1>. USE ConstantsAssumption DEF Past, Generations
  <1>1. draws \in Nat /\ pointer \in Generations \cup {None, Corrupt}
    BY DEF Base, Shape, TypeOK
  <1>2. CASE UNCHANGED <<pointer, draws, floor>>
    BY <1>1, <1>2
  <1>3. CASE pointer' \in {None, Corrupt} /\ UNCHANGED <<draws, floor>>
    BY <1>1, <1>3
  <1>4. CASE pointer' \in Generations /\ pointer'[1] = draws' /\ draws' = draws + 1
    BY <1>1, <1>4
  <1>5. CASE /\ pointer' \in Generations /\ pointer'[1] = draws' /\ draws' = draws
             /\ pointer \in Generations /\ pointer'[2] = pointer[2] + 1
    BY <1>1, <1>5
  <1>. QED
    BY <1>2, <1>3, <1>4, <1>5 DEF PointerMoves

\* Moves leave nothing in a generation still to come.
LEMMA NothingAheadNext ==
    ASSUME Base, Shape', Moves
    PROVE  NothingAhead'
  <1>1. pointer' \in Generations => pointer'[1] = draws' /\ draws' >= 1
    BY ConstantsAssumption DEF Moves, PointerMoves, Base, NothingAhead
  <1>2. ASSUME pointer' \in Generations PROVE Past(pointer)'
    BY <1>1, <1>2 DEF Past, Shape, TypeOK, Generations
  <1>3. ASSUME NEW g \in Generations, Past(g) PROVE Past(g)'
    BY <1>3, PastKept DEF Moves, Past
  <1>4. ASSUME NEW g \in Generations, NEW q \in Resources, store'[g][q] # None
        PROVE  Past(g)'
    <2>1. Past(g)
      <3>1. CASE store[g][q] # None
        BY <3>1 DEF Base, NothingAhead
      <3>2. ASSUME NEW r \in Readers, gen[r] = g PROVE Past(g)
        BY <3>2, ConstantsAssumption DEF Base, NothingAhead
      <3>3. ASSUME NEW s \in lateSets, s.gen = g PROVE Past(g)
        BY <3>3 DEF Base, NothingAhead
      <3>. QED
        BY <1>4, <3>1, <3>2, <3>3 DEF Moves, StoreMoves
    <2>. QED
      BY <1>3, <2>1
  <1>5. ASSUME NEW s \in lateSets' PROVE Past(s.gen)'
    <2>1. s.gen \in Generations /\ Past(s.gen)
      BY <1>5 DEF Moves, LateSetsMove, Base, Shape, TypeOK, LateSet, NothingAhead
    <2>. QED
      BY <2>1, PastKept DEF Moves, Past
  <1>6. ASSUME NEW r \in Readers, gen'[r] # None PROVE Past(gen[r])'
    <2>1. CASE gen'[r] = gen[r]
      <3>1. gen[r] \in Generations /\ Past(gen[r])
        BY <1>6, <2>1 DEF Base, Shape, TypeOK, NothingAhead
      <3>. QED
        BY <2>1, <3>1, PastKept DEF Moves, Past
    <2>2. CASE gen'[r] = pointer' /\ pointer' \in Generations
      BY <1>2, <2>2 DEF Past
    <2>. QED
      BY <1>6, <2>1, <2>2 DEF Moves, GenerationsMove
  <1>. QED
    BY <1>1, <1>4, <1>5, <1>6 DEF NothingAhead

\* A payload sound for its generation stays so.
LEMMA SoundKept ==
    ASSUME Base, Shape', PointerMoves, db <= db',
           NEW e \in Entry, NEW g \in Generations, Past(g), Sound(e, g)
    PROVE  Sound(e, g)'
  <1>1. e.lo \in Nat /\ e.hi \in Nat /\ db \in Nat /\ db' \in Nat
    BY ConstantsAssumption DEF Base, Shape, TypeOK, Entry
  <1>2. g = pointer' => UNCHANGED <<pointer, floor>>
    BY PastKept
  <1>. QED
    BY <1>1, <1>2 DEF Sound

\* Moves keep payloads as new as the generation they belong to.
LEMMA PayloadsSoundNext ==
    ASSUME Base, Shape', NothingAhead', PayloadsSound, floor <= db, Moves, db <= db'
    PROVE  PayloadsSound'
  <1>0. db \in Nat /\ db' \in Nat /\ floor \in Nat /\ floor' \in Nat
    BY ConstantsAssumption DEF Base, Shape, TypeOK
  <1>1. ASSUME NEW e \in Entry, NEW g \in Generations, Past(g), Sound(e, g)
        PROVE  e.lo <= e.hi /\ e.hi <= db' /\ (g = pointer' => floor' <= e.lo)
    BY <1>1, SoundKept DEF Moves, Sound
  <1>2. ASSUME NEW r \in Readers, gen[r] # None, body[r] # None
        PROVE  body[r] \in Entry /\ gen[r] \in Generations /\ Past(gen[r]) /\ Sound(body[r], gen[r])
    BY <1>2 DEF Base, Shape, TypeOK, NothingAhead, PayloadsSound
  <1>3. ASSUME NEW s \in lateSets
        PROVE  s.entry \in Entry /\ s.gen \in Generations /\ Past(s.gen) /\ Sound(s.entry, s.gen)
    BY <1>3 DEF Base, Shape, TypeOK, NothingAhead, PayloadsSound, LateSet
  <1>4. ASSUME NEW g \in Generations, NEW q \in Resources, store[g][q] # None
        PROVE  store[g][q] \in Entry /\ Past(g) /\ Sound(store[g][q], g)
    BY <1>4 DEF Base, Shape, TypeOK, NothingAhead, PayloadsSound
  <1>5. ASSUME NEW g \in Generations, NEW q \in Resources, store'[g][q] # None
        PROVE  Sound(store[g][q], g)'
    <2>1. CASE store'[g][q] = store[g][q]
      BY <1>1, <1>4, <1>5, <2>1 DEF Sound
    <2>2. CASE /\ store[g][q] # None
               /\ store'[g][q].lo = store[g][q].lo /\ store'[g][q].hi = store[g][q].hi
      BY <1>1, <1>4, <2>2 DEF Sound
    <2>3. ASSUME NEW r \in Readers, gen[r] = g, store'[g][q] = body[r]
          PROVE  Sound(store[g][q], g)'
      <3>1. gen[r] # None /\ body[r] # None
        BY <1>5, <2>3, ConstantsAssumption
      <3>. QED
        BY <1>1, <1>2, <2>3, <3>1 DEF Sound
    <2>4. ASSUME NEW s \in lateSets, s.gen = g, store'[g][q] = s.entry
          PROVE  Sound(store[g][q], g)'
      BY <1>1, <1>3, <2>4 DEF Sound
    <2>. QED
      BY <1>5, <2>1, <2>2, <2>3, <2>4 DEF Moves, StoreMoves
  <1>6. ASSUME NEW s \in lateSets' PROVE Sound(s.entry, s.gen)'
    <2>1. CASE s \in lateSets
      BY <1>1, <1>3, <2>1 DEF Sound
    <2>2. ASSUME NEW r \in Readers, pc[r] = "set", gen[r] # None, s.gen = gen[r], s.entry = body[r]
          PROVE  Sound(s.entry, s.gen)'
      <3>1. body[r] # None
        BY <2>2, NoneIsNoEntry DEF Base, Shape, RequestsHold
      <3>. QED
        BY <1>1, <1>2, <2>2, <3>1 DEF Sound
    <2>. QED
      BY <1>6, <2>1, <2>2 DEF Moves, LateSetsMove
  <1>7. ASSUME NEW r \in Readers, body'[r] # None, gen'[r] # None
        PROVE  Sound(body[r], gen[r])'
    <2>1. CASE gen'[r] = gen[r] /\ body'[r] = body[r]
      BY <1>1, <1>2, <1>7, <2>1 DEF Sound
    <2>2. CASE /\ gen'[r] = gen[r] /\ gen[r] \in Generations /\ want[r] \in Resources
               /\ body'[r] = store[gen[r]][want[r]]
      BY <1>1, <1>4, <1>7, <2>2 DEF Sound
    <2>3. CASE /\ gen'[r] = gen[r] /\ db' = db /\ UNCHANGED <<pointer, floor>>
               /\ body'[r].hi = db /\ body'[r].lo = db
      BY <1>0, <2>3 DEF Sound
    <2>4. CASE /\ gen'[r] = gen[r] /\ db' = db /\ UNCHANGED <<pointer, floor>>
               /\ body'[r].hi = db /\ body[r] \in Entry /\ body'[r].lo = body[r].lo
      <3>1. Sound(body[r], gen[r]) /\ body[r].lo \in Nat /\ body[r].hi \in Nat
        BY <1>2, <1>7, <2>4, NoneIsNoEntry DEF Entry
      <3>. QED
        BY <1>0, <2>4, <3>1 DEF Sound
    <2>. QED
      BY <1>7, <2>1, <2>2, <2>3, <2>4 DEF Moves, BodiesMove
  <1>. QED
    BY <1>5, <1>6, <1>7 DEF PayloadsSound

\* What is announced stays below the floor of the generation.
LEMMA AnnouncedNext ==
    ASSUME Base, AnnouncedByGeneration, PointerMoves, [Next]_vars
    PROVE  AnnouncedByGeneration' /\ db <= db'
  <1>0. /\ db \in Nat /\ floor \in Nat /\ announced \in Nat
        /\ \A r \in Readers : since[r] \in Nat
        /\ \A p \in Publishers : version[p] \in Nat
        /\ since \in [Readers -> Nat] /\ version \in [Publishers -> Nat]
    BY ConstantsAssumption DEF Base, Shape, TypeOK
  <1>1. CASE UNCHANGED <<db, announced, since, version>>
    <2>1. floor' \in {floor, db}
      BY <1>1 DEF PointerMoves
    <2>. QED
      BY <1>0, <1>1, <2>1 DEF AnnouncedByGeneration
  <1>2. ASSUME NEW r \in Readers, NEW q \in Resources, StartRead(r, q) \/ StartRandom(r, q)
        PROVE  AnnouncedByGeneration' /\ db <= db'
    BY <1>0, <1>2 DEF StartRead, StartRandom, AnnouncedByGeneration
  <1>3. ASSUME NEW r \in Readers, ForgetRequest(r)
        PROVE  AnnouncedByGeneration' /\ db <= db'
    BY <1>0, <1>3 DEF ForgetRequest, AnnouncedByGeneration
  <1>4. ASSUME NEW p \in Publishers, Publish(p) \/ PublishNothing(p)
        PROVE  AnnouncedByGeneration' /\ db <= db'
    BY <1>0, <1>4 DEF Publish, PublishNothing, BeginInvalidation, AnnouncedByGeneration
  <1>5. ASSUME NEW p \in Publishers, PublishFails(p)
        PROVE  AnnouncedByGeneration' /\ db <= db'
    BY <1>0, <1>5 DEF PublishFails, AnnouncedByGeneration
  <1>6. ASSUME NEW p \in Publishers, Invalidate(p)
        PROVE  AnnouncedByGeneration' /\ db <= db'
    BY <1>0, <1>6 DEF Invalidate, ApplyIncr, Establish, AnnouncedByGeneration
  <1>7. ASSUME NEW p \in Publishers, RunAgain(p)
        PROVE  AnnouncedByGeneration' /\ db <= db'
    BY <1>0, <1>7 DEF RunAgain, AnnouncedByGeneration
  <1>8. ASSUME NEW p \in Processes,
               GetPointer(p) \/ InitPointer(p) \/ RereadPointer(p) \/ InitPointerUnanswered(p)
        PROVE  AnnouncedByGeneration' /\ db <= db'
    BY <1>1, <1>8 DEF GetPointer, InitPointer, RereadPointer, InitPointerUnanswered
  <1>9. ASSUME NEW r \in Readers, ReaderStep(r)
        PROVE  AnnouncedByGeneration' /\ db <= db'
    BY <1>1, <1>2, <1>3, <1>8, <1>9
    DEF ReaderStep, Proceed, Fetch, FetchUndecodable, CacheReadFails, Select,
        SelectNothing, Count, DatabaseFails, StoreEntry, SkipStore, StoreLate,
        FinishRequest, AbortRequest
  <1>10. ASSUME NEW p \in Publishers, PublisherStep(p)
         PROVE  AnnouncedByGeneration' /\ db <= db'
    BY <1>1, <1>4, <1>5, <1>6, <1>7, <1>8, <1>10
    DEF PublisherStep, InvalidationFails, InvalidateLate
  <1>11. CASE RedisStep
    BY <1>1, <1>11
    DEF RedisStep, Expire, CorruptEntry, LosePointer, CorruptPointer, ApplyLateSet,
        ApplyLateIncr, DropLateSet, DropLateIncr
  <1>12. CASE UNCHANGED vars
    BY <1>1, <1>12
  <1>. QED
    BY <1>9, <1>10, <1>11, <1>12 DEF Next

\* Whether request r's part of the state is unchanged.
Untouched(r) ==
    pc'[r] = pc[r] /\ body'[r] = body[r] /\ since'[r] = since[r] /\ want'[r] = want[r]

\* A step of one process leaves the other requests alone.
LEMMA OthersUntouched ==
    ASSUME Base, NEW p \in Processes, NEW r \in Readers, r # p,
           \/ p \in Readers /\ ReaderStep(p)
           \/ p \in Publishers /\ PublisherStep(p)
    PROVE  Untouched(r)
  <1>. USE ConstantsAssumption DEF Base, Shape, TypeOK, Untouched, Move, Miss
  <1>1. ASSUME NEW g, ReturnGeneration(p, g), UNCHANGED <<since, want>>
        PROVE  Untouched(r)
    BY <1>1 DEF ReturnGeneration
  <1>2. CASE GetPointer(p) \/ InitPointer(p) \/ RereadPointer(p) \/ InitPointerUnanswered(p)
    BY <1>1, <1>2 DEF GetPointer, InitPointer, RereadPointer, InitPointerUnanswered
  <1>3. CASE \/ \E q \in Resources : StartRead(p, q) \/ StartRandom(p, q)
             \/ Fetch(p) \/ FetchUndecodable(p) \/ CacheReadFails(p)
    BY <1>3 DEF StartRead, StartRandom, Fetch, FetchUndecodable, CacheReadFails
  <1>4. CASE Select(p) \/ SelectNothing(p) \/ Count(p) \/ DatabaseFails(p)
    BY <1>4 DEF Select, SelectNothing, Count, DatabaseFails
  <1>5. CASE StoreEntry(p) \/ SkipStore(p) \/ StoreLate(p) \/ ForgetRequest(p)
    BY <1>5 DEF StoreEntry, SkipStore, StoreLate, ForgetRequest
  <1>6. CASE Publish(p) \/ PublishNothing(p) \/ PublishFails(p) \/ RunAgain(p)
    BY <1>6 DEF Publish, PublishNothing, PublishFails, BeginInvalidation, RunAgain
  <1>7. CASE Invalidate(p) \/ InvalidationFails(p) \/ InvalidateLate(p)
    BY <1>7 DEF Invalidate, InvalidationFails, InvalidateLate
  <1>. QED
    BY <1>2, <1>3, <1>4, <1>5, <1>6, <1>7
    DEF ReaderStep, Proceed, FinishRequest, AbortRequest, PublisherStep

\* A hit is served only under the generation it was fetched under, and is at
\* least as new as that generation.
LEMMA HitIsSound ==
    ASSUME Base, PayloadsSound, PointerMoves, db' = db,
           NEW r \in Readers, pc[r] \in InGeneration, call[r] = "recheck",
           NEW g \in Generations \cup {None},
           g # None => g = pointer' /\ pointer' \in Generations,
           Servable(r, g)
    PROVE  /\ body[r] \in Entry /\ body[r].about = want[r]
           /\ body[r].lo <= body[r].hi /\ body[r].hi <= db
           /\ floor' = floor /\ floor <= body[r].lo
  <1>1. body[r] \in Entry /\ body[r].about = want[r] /\ g = gen[r]
    BY DEF Servable, Base, Shape, TypeOK
  <1>2. gen[r] \in Generations /\ gen[r] # None
    BY ConstantsAssumption DEF Base, Shape, RequestsHold
  <1>3. Past(gen[r]) /\ Sound(body[r], gen[r])
    BY <1>1, <1>2 DEF Servable, Base, NothingAhead, PayloadsSound
  <1>4. gen[r] = pointer' /\ UNCHANGED <<pointer, floor>>
    BY <1>1, <1>2, <1>3, PastKept
  <1>. QED
    BY <1>1, <1>3, <1>4 DEF Sound

\* The answer that request r has built, and what it is about to cache.
AnswerFresh(r) ==
    /\ pc[r] \in {"count", "set", "done"} => NotOlder(body[r], since[r])
    /\ pc[r] = "done" => body[r].about = want[r]
    /\ pc[r] = "notfound" => since[r] < FirstVersion[want[r]]

\* A hit is as new as the request may expect.
LEMMA ReturnFresh ==
    ASSUME Base, AnnouncedByGeneration, PayloadsSound, PointerMoves, db' = db,
           NEW r \in Readers, pc[r] \in InGeneration,
           NEW g \in Generations \cup {None},
           g # None => g = pointer' /\ pointer' \in Generations,
           ReturnGeneration(r, g), UNCHANGED <<want, since>>
    PROVE  AnswerFresh(r)'
  <1>. USE ConstantsAssumption DEF AnswerFresh, Move
  <1>0. pc \in [Processes -> ReaderPCs \cup PublisherPCs] /\ call[r] # "invalidate"
    BY DEF Base, Shape, TypeOK
  <1>1. CASE call[r] = "recheck" /\ Servable(r, g) /\ Move(r, "done") /\ UNCHANGED <<gen, body>>
    <2>1. body[r].lo \in Nat /\ floor \in Nat /\ announced \in Nat /\ since[r] \in Nat
      BY <1>1, HitIsSound DEF Base, Shape, TypeOK, Entry
    <2>2. since[r] <= body[r].lo
      BY <1>1, <2>1, HitIsSound DEF AnnouncedByGeneration
    <2>. QED
      BY <1>0, <1>1, <2>2, HitIsSound DEF NotOlder
  <1>2. CASE pc'[r] \in {"fetch", "select"}
    BY <1>2
  <1>. QED
    BY <1>0, <1>1, <1>2 DEF ReturnGeneration, Miss

\* So the calls on the pointer keep the answer of their request fresh,
LEMMA PointerCallFresh ==
    ASSUME Base, AnnouncedByGeneration, PayloadsSound, PointerMoves, NEW r \in Readers,
           GetPointer(r) \/ InitPointer(r) \/ RereadPointer(r) \/ InitPointerUnanswered(r)
    PROVE  AnswerFresh(r)'
  <1>. USE ConstantsAssumption
  <1>0. pc \in [Processes -> ReaderPCs \cup PublisherPCs]
    BY DEF Base, Shape, TypeOK
  <1>1. CASE pc'[r] \in {"setnx", "reread", "select"}
    BY <1>1 DEF AnswerFresh
  <1>2. CASE GetPointer(r)
    BY <1>0, <1>1, <1>2, ReturnFresh DEF GetPointer, Move
  <1>3. CASE InitPointer(r)
    BY <1>0, <1>1, <1>3, ReturnFresh, CandidateIsGeneration
    DEF InitPointer, Move, Establish, Base, Shape
  <1>4. CASE RereadPointer(r)
    BY <1>0, <1>1, <1>4, ReturnFresh DEF RereadPointer, Move
  <1>5. CASE InitPointerUnanswered(r)
    BY <1>0, <1>1, <1>5 DEF InitPointerUnanswered, Move, Miss
  <1>. QED
    BY <1>2, <1>3, <1>4, <1>5

\* and so do all the steps of a request.
LEMMA ReaderFresh ==
    ASSUME Base, AnnouncedByGeneration, PayloadsSound, PointerMoves,
           NEW r \in Readers, ReaderStep(r), AnswerFresh(r)
    PROVE  AnswerFresh(r)'
  <1>0. /\ pc \in [Processes -> ReaderPCs \cup PublisherPCs]
        /\ body \in [Readers -> Entry \cup {None}]
        /\ db \in Nat /\ since[r] \in Nat /\ since[r] <= db
    <2>1. db \in Nat /\ floor \in Nat /\ announced \in Nat /\ since[r] \in Nat
      BY ConstantsAssumption DEF Base, Shape, TypeOK
    <2>. QED
      BY <2>1 DEF Base, Shape, TypeOK, AnnouncedByGeneration
  <1>. USE <1>0 DEF AnswerFresh, Move
  <1>1. CASE pc'[r] \notin {"count", "set", "done", "notfound"}
    BY <1>1
  <1>2. CASE Select(r)
    BY <1>2 DEF Select, FreshEntry, NotOlder
  <1>3. CASE SelectNothing(r)
    <2>1. since[r] < FirstVersion[want[r]]
      BY <1>3, ConstantsAssumption DEF SelectNothing, Exists, Base, Shape, RequestsHold
    <2>. QED
      BY <1>3, <2>1 DEF SelectNothing, requestVars
  <1>4. CASE Count(r)
    <2>1. body[r] \in Entry /\ body'[r] = [body[r] EXCEPT !.hi = db]
      BY <1>4 DEF Count, Base, Shape, RequestsHold
    <2>2. body'[r].lo = body[r].lo /\ body'[r].hi = db
      BY <2>1 DEF Entry
    <2>3. body[r].lo \in Nat /\ body[r].hi \in Nat
      BY <2>1, ConstantsAssumption DEF Entry
    <2>. QED
      BY <1>4, <2>2, <2>3 DEF Count, NotOlder
  <1>5. CASE StoreEntry(r) \/ SkipStore(r) \/ StoreLate(r)
    <2>1. body[r].about = want[r] /\ NotOlder(body[r], since[r])
      BY <1>5 DEF StoreEntry, SkipStore, StoreLate, Base, Shape, RequestsHold
    <2>. QED
      BY <1>5, <2>1 DEF StoreEntry, SkipStore, StoreLate, requestVars, NotOlder
  <1>6. CASE DatabaseFails(r)
    BY <1>1, <1>6 DEF DatabaseFails
  <1>7. CASE (\E q \in Resources : StartRead(r, q) \/ StartRandom(r, q)) \/ ForgetRequest(r)
    BY <1>1, <1>7 DEF StartRead, StartRandom, ForgetRequest
  <1>8. CASE Fetch(r) \/ FetchUndecodable(r) \/ CacheReadFails(r)
    BY <1>1, <1>8 DEF Fetch, FetchUndecodable, CacheReadFails, Miss
  <1>. QED
    BY <1>2, <1>3, <1>4, <1>5, <1>6, <1>7, <1>8, PointerCallFresh
    DEF ReaderStep, Proceed, FinishRequest, AbortRequest

\* An answer stays fresh while the catalog only moves forward.
LEMMA UntouchedFresh ==
    ASSUME Base, Shape', db <= db', NEW r \in Readers, AnswerFresh(r), Untouched(r)
    PROVE  AnswerFresh(r)'
  <1>1. pc[r] \in {"count", "set", "done"} => body[r].hi \in Nat
    BY ConstantsAssumption DEF Base, Shape, RequestsHold, Entry
  <1>2. db \in Nat /\ db' \in Nat
    BY ConstantsAssumption DEF Base, Shape, TypeOK
  <1>. QED
    BY <1>1, <1>2 DEF AnswerFresh, Untouched, NotOlder

\* Every step keeps every answer fresh.
LEMMA AnswersFreshNext ==
    ASSUME Base, Shape', AnnouncedByGeneration, PayloadsSound, PointerMoves, db <= db',
           [Next]_vars, NEW r \in Readers, AnswerFresh(r)
    PROVE  AnswerFresh(r)'
  <1>1. CASE ReaderStep(r)
    BY <1>1, ReaderFresh
  <1>2. CASE Untouched(r)
    BY <1>2, UntouchedFresh
  <1>3. CASE RedisStep \/ UNCHANGED vars
    BY <1>2, <1>3
    DEF RedisStep, Expire, CorruptEntry, LosePointer, CorruptPointer, ApplyLateSet,
        ApplyLateIncr, DropLateSet, DropLateIncr, Untouched
  <1>. QED
    BY <1>1, <1>2, <1>3, OthersUntouched, ConstantsAssumption DEF Next

\* The initial state satisfies the inductive invariant.
LEMMA InductiveInit == Init => Inductive
  <1>. USE ConstantsAssumption
  <1>1. Init => TypeOK /\ RequestsHold
    BY ShapeInit DEF Shape
  <1>. QED
    BY <1>1 DEF Init, Inductive, ReadsAreFresh, FillsAreFresh, AnnouncedByGeneration,
                NothingAhead, IncrFindsPointer, IncrOutstanding, PayloadsSound

\* Every step keeps the inductive invariant.
LEMMA InductiveNext ==
    ASSUME ~LoseDuringIncr, Inductive, [Next]_vars
    PROVE  Inductive'
  <1>1. Base /\ AnnouncedByGeneration /\ PayloadsSound
    BY DEF Base, Shape, Inductive
  <1>2. Shape'
    BY <1>1, ShapeNext DEF Base
  <1>3. Moves
    BY <1>1, StepsMove
  <1>4. IncrFindsPointer'
    BY <1>1, IncrFindsPointerNext
  <1>5. NothingAhead'
    BY <1>1, <1>2, <1>3, NothingAheadNext
  <1>6. AnnouncedByGeneration' /\ db <= db'
    BY <1>1, <1>3, AnnouncedNext DEF Moves
  <1>7. floor <= db
    BY <1>1 DEF AnnouncedByGeneration
  <1>8. PayloadsSound'
    BY <1>1, <1>2, <1>3, <1>5, <1>6, <1>7, PayloadsSoundNext
  <1>9. ASSUME NEW r \in Readers PROVE AnswerFresh(r)'
    <2>1. AnswerFresh(r)
      BY DEF Inductive, ReadsAreFresh, FillsAreFresh, AnswerFresh
    <2>. QED
      BY <1>1, <1>2, <1>3, <1>6, <2>1, AnswersFreshNext DEF Moves
  <1>10. ReadsAreFresh' /\ FillsAreFresh'
    BY <1>9 DEF AnswerFresh, ReadsAreFresh, FillsAreFresh
  <1>. QED
    BY <1>2, <1>4, <1>5, <1>6, <1>8, <1>10 DEF Inductive, Shape

\* The cache never answers a request with anything older than the last
\* publication reported before it began, for any number of concurrent
\* requests and runs and any faults of Redis, provided the pointer is not
\* lost between invalidate's check of it and its INCR.
THEOREM FreshReads ==
    ASSUME ~LoseDuringIncr
    PROVE  Spec => []ReadsAreFresh
  <1>1. Init => Inductive
    BY InductiveInit
  <1>2. Inductive /\ [Next]_vars => Inductive'
    BY InductiveNext
  <1>3. Inductive => ReadsAreFresh
    BY DEF Inductive
  <1>. QED
    BY <1>1, <1>2, <1>3, PTL DEF Spec

\* Under the same proviso, once the generation has been advanced after the
\* last commit, every entry still reachable describes that commit.
THEOREM Coherence ==
    ASSUME ~LoseDuringIncr
    PROVE  Spec => []CoherentOnceInvalidated
  <1>1. Init => Inductive
    BY InductiveInit
  <1>2. Inductive /\ [Next]_vars => Inductive'
    BY InductiveNext
  <1>3. Inductive => CoherentOnceInvalidated
    <2>. SUFFICES ASSUME Inductive, floor = db, NEW q \in Resources, Reachable(q)
                  PROVE  store[pointer][q].lo = db /\ store[pointer][q].hi = db
      BY DEF CoherentOnceInvalidated
    <2>1. store[pointer][q] \in Entry /\ Sound(store[pointer][q], pointer)
      BY DEF Reachable, Inductive, PayloadsSound, TypeOK
    <2>2. /\ store[pointer][q].lo \in Nat /\ store[pointer][q].hi \in Nat /\ db \in Nat
      BY <2>1, ConstantsAssumption DEF Entry, Inductive, TypeOK
    <2>. QED
      BY <2>1, <2>2 DEF Sound
  <1>. QED
    BY <1>1, <1>2, <1>3, PTL DEF Spec

\* Under the same proviso, no step makes a generation current that has
\* entries, or that a request or a SET on its way could still write under.
THEOREM GenerationsNeverReturn ==
    ASSUME ~LoseDuringIncr
    PROVE  Spec => NoResurrection
  <1>1. Init => Inductive
    BY InductiveInit
  <1>2. Inductive /\ [Next]_vars => Inductive'
    BY InductiveNext
  <1>3. ASSUME Inductive, [Next]_vars, pointer' # pointer, pointer' \in Generations
        PROVE  /\ \A q \in Resources : store[pointer'][q] = None
               /\ \A r \in Readers : gen[r] # pointer'
               /\ \A s \in lateSets : s.gen # pointer'
    <2>1. Base /\ PointerMoves
      BY <1>3, StepsMove DEF Base, Shape, Inductive, Moves
    <2>2. ~Past(pointer')
      BY <1>3, <2>1, PastKept
    <2>. QED
      BY <1>3, <2>1, <2>2, ConstantsAssumption DEF Base, NothingAhead
  <1>. QED
    BY <1>1, <1>2, <1>3, PTL DEF Spec, NoResurrection

\* A step that ends a lookup with a hit answers from the current generation.
LEMMA HitIsCurrent ==
    ASSUME Base, PayloadsSound, PointerMoves, NEW r \in Readers,
           pc[r] \in InGeneration, pc'[r] = "done", ReaderStep(r)
    PROVE  NotOlder(body[r], floor')
  <1>. USE ConstantsAssumption
  <1>0. pc \in [Processes -> ReaderPCs \cup PublisherPCs] /\ call[r] # "invalidate"
    BY DEF Base, Shape, TypeOK
  <1>1. ASSUME NEW g \in Generations \cup {None}, ReturnGeneration(r, g), db' = db,
               g # None => g = pointer' /\ pointer' \in Generations
        PROVE  NotOlder(body[r], floor')
    <2>1. call[r] = "recheck" /\ Servable(r, g)
      BY <1>0, <1>1 DEF ReturnGeneration, Miss, Move
    <2>. QED
      BY <1>1, <2>1, HitIsSound DEF NotOlder
  <1>2. CASE GetPointer(r)
    BY <1>0, <1>1, <1>2 DEF GetPointer, Move
  <1>3. CASE InitPointer(r)
    BY <1>0, <1>1, <1>3, CandidateIsGeneration DEF InitPointer, Move, Establish, Base, Shape
  <1>4. CASE RereadPointer(r)
    BY <1>0, <1>1, <1>4 DEF RereadPointer, Move
  <1>5. CASE InitPointerUnanswered(r) \/ CacheReadFails(r)
    BY <1>0, <1>5 DEF InitPointerUnanswered, CacheReadFails, Move, Miss
  <1>6. CASE (\E q \in Resources : StartRead(r, q) \/ StartRandom(r, q)) \/ ForgetRequest(r)
    BY <1>0, <1>6 DEF StartRead, StartRandom, ForgetRequest, Move
  <1>. QED
    BY <1>2, <1>3, <1>4, <1>5, <1>6
    DEF ReaderStep, Proceed, Fetch, FetchUndecodable, Select, SelectNothing, Count,
        DatabaseFails, StoreEntry, SkipStore, StoreLate, FinishRequest, AbortRequest

\* Under the same proviso, every hit is at least as new as the generation
\* that is current at the moment it is served.
THEOREM HitsAreCurrent ==
    ASSUME ~LoseDuringIncr
    PROVE  Spec => HitsHonourFloor
  <1>1. Init => Inductive
    BY InductiveInit
  <1>2. Inductive /\ [Next]_vars => Inductive'
    BY InductiveNext
  <1>3. ASSUME Inductive, [Next]_vars, NEW r \in Readers,
               pc[r] \in InGeneration, pc'[r] = "done"
        PROVE  NotOlder(body[r], floor')
    <2>1. Base /\ PointerMoves /\ PayloadsSound
      BY <1>3, StepsMove DEF Base, Shape, Inductive, Moves
    <2>2. ReaderStep(r)
      <3>1. CASE Untouched(r)
        BY <1>3, <3>1 DEF Untouched
      <3>2. CASE RedisStep \/ UNCHANGED vars
        BY <1>3, <3>2
        DEF RedisStep, Expire, CorruptEntry, LosePointer, CorruptPointer, ApplyLateSet,
            ApplyLateIncr, DropLateSet, DropLateIncr
      <3>. QED
        BY <1>3, <2>1, <3>1, <3>2, OthersUntouched, ConstantsAssumption DEF Next
    <2>. QED
      BY <1>3, <2>1, <2>2, HitIsCurrent
  <1>4. Inductive /\ [Next]_vars =>
            [\A r \in Readers :
                (pc[r] \in InGeneration /\ pc'[r] = "done")
                    => NotOlder(body[r], floor')]_vars
    BY <1>3
  <1>. QED
    BY <1>1, <1>2, <1>4, PTL DEF Spec, HitsHonourFloor
-----------------------------------------------------------------------------
(***************************************************************************)
(* The refinement of CatalogRegister.  What a request may answer, from the *)
(* cache or from the database, was read when there was such a resource,    *)
(* and at once unless it is a list; with the inductive invariant above,    *)
(* each step is then one of the register or invisible to it.               *)
(***************************************************************************)

\* The calls on the pointer bring nothing to answer with,
LEMMA CallsReadNothing ==
    ASSUME Shape, AnswersWellRead, NEW p \in Processes,
           GetPointer(p) \/ InitPointer(p) \/ RereadPointer(p) \/ InitPointerUnanswered(p)
    PROVE  AnswersWellRead'
  <1>1. UNCHANGED <<store, lateSets, want>>
    BY DEF GetPointer, InitPointer, RereadPointer, InitPointerUnanswered
  <1>2. ASSUME NEW g, ReturnGeneration(p, g)
        PROVE  \A r \in Readers :
                  body'[r] \in {body[r], None} /\ (pc'[r] = "count" => pc[r] = "count")
    BY <1>2, ConstantsAssumption DEF ReturnGeneration, Miss, Move, Shape, TypeOK
  <1>3. \A r \in Readers :
            body'[r] \in {body[r], None} /\ (pc'[r] = "count" => pc[r] = "count")
    BY <1>2, ConstantsAssumption
    DEF GetPointer, InitPointer, RereadPointer, InitPointerUnanswered, Miss, Move,
        Shape, TypeOK
  <1>. QED
    BY <1>1, <1>3 DEF AnswersWellRead, WellRead

\* a request brings what it reads, or what was kept under its own key,
LEMMA RequestsReadWell ==
    ASSUME Shape, AnswersWellRead, NEW r \in Readers, ReaderStep(r)
    PROVE  AnswersWellRead'
  <1>0. /\ body \in [Readers -> Entry \cup {None}] /\ db \in Nat
        /\ store \in [Generations -> [Resources -> Entry \cup {None}]]
        /\ want \in [Readers -> Resources \cup {None}]
        /\ gen \in [Readers -> Generations \cup {None}]
        /\ pc \in [Processes -> ReaderPCs \cup PublisherPCs]
        /\ RequestsHold
    BY ConstantsAssumption DEF Shape, TypeOK
  <1>. USE <1>0, ConstantsAssumption DEF AnswersWellRead, WellRead, Move
  <1>1. ASSUME NEW q \in Resources, StartRead(r, q) \/ StartRandom(r, q)
        PROVE  AnswersWellRead'
    <2>1. body[r] = None
      BY <1>1 DEF StartRead, StartRandom, RequestsHold
    <2>. QED
      BY <1>1, <2>1 DEF StartRead, StartRandom
  <1>2. CASE Fetch(r)
    BY <1>2 DEF Fetch, RequestsHold
  <1>3. CASE FetchUndecodable(r) \/ CacheReadFails(r)
    BY <1>3 DEF FetchUndecodable, CacheReadFails, Miss
  <1>4. CASE Select(r)
    BY <1>4 DEF Select, FreshEntry, Exists
  <1>5. CASE Count(r)
    <2>1. /\ body[r] \in Entry /\ body[r].about = want[r] /\ want[r] \in Lists
          /\ body'[r] = [body[r] EXCEPT !.hi = db]
      BY <1>5 DEF Count, RequestsHold
    <2>2. body'[r].about = body[r].about /\ body'[r].lo = body[r].lo
      BY <2>1 DEF Entry
    <2>3. FirstVersion[want[r]] = 0 /\ body[r].lo \in Nat
      BY <2>1 DEF Entry
    <2>. QED
      BY <1>5, <2>1, <2>2, <2>3 DEF Count
  <1>6. CASE SelectNothing(r) \/ DatabaseFails(r) \/ SkipStore(r)
    BY <1>6 DEF SelectNothing, DatabaseFails, SkipStore
  <1>7. CASE StoreEntry(r)
    <2>1. /\ body[r] \in Entry /\ body[r] # None /\ body[r].about = want[r]
          /\ want[r] \in Resources /\ gen[r] \in Generations
      BY <1>7, NoneIsNoEntry DEF StoreEntry, RequestsHold
    <2>2. store' = [store EXCEPT ![gen[r]][want[r]] = body[r]] /\ WellRead(body[r])
      BY <1>7, <2>1 DEF StoreEntry, PutEntry, KeyGeneration
    <2>3. \A g \in Generations, q \in Resources :
              \/ store'[g][q] = store[g][q]
              \/ q = want[r] /\ store'[g][q] = body[r]
      BY <2>1, <2>2
    <2>4. UNCHANGED <<lateSets, body, want>> /\ \A o \in Readers : pc'[o] = "count" => pc[o] = "count"
      BY <1>7 DEF StoreEntry
    <2>. QED
      BY <2>1, <2>2, <2>3, <2>4
  <1>8. CASE StoreLate(r)
    <2>1. /\ body[r] \in Entry /\ body[r] # None /\ body[r].about = want[r]
          /\ UNCHANGED <<store, body, want>>
          /\ \A s \in lateSets' : s \in lateSets \/ (s.res = want[r] /\ s.entry = body[r])
          /\ \A o \in Readers : pc'[o] = "count" => pc[o] = "count"
      <3>1. lateSets' = lateSets \cup
                {[gen |-> gen[r], res |-> want[r], entry |-> body[r]]}
        BY <1>8 DEF StoreLate, KeyGeneration
      <3>2. UNCHANGED <<store, body, want>> /\ pc[r] = "set" /\ pc' = [pc EXCEPT ![r] = "done"]
        BY <1>8 DEF StoreLate
      <3>3. body[r] \in Entry /\ body[r].about = want[r]
        BY <3>2 DEF RequestsHold
      <3>4. \A s \in lateSets' : s \in lateSets \/ (s.res = want[r] /\ s.entry = body[r])
        BY <3>1
      <3>5. \A o \in Readers : pc'[o] = "count" => pc[o] = "count"
        BY <3>2
      <3>. QED
        BY <3>2, <3>3, <3>4, <3>5, NoneIsNoEntry
    <2>2. WellRead(body[r])
      BY <2>1
    <2>. QED
      BY <2>1, <2>2
  <1>9. CASE ForgetRequest(r)
    BY <1>9 DEF ForgetRequest
  <1>. QED
    BY <1>1, <1>2, <1>3, <1>4, <1>5, <1>6, <1>7, <1>8, <1>9, CallsReadNothing
    DEF ReaderStep, Proceed, FinishRequest, AbortRequest

\* and what Redis corrupts never passes for what it was.
LEMMA RedisReadsNothing ==
    ASSUME Shape, AnswersWellRead, RedisStep
    PROVE  AnswersWellRead'
  <1>0. /\ store \in [Generations -> [Resources -> Entry \cup {None}]]
        /\ lateSets \subseteq LateSet
    BY DEF Shape, TypeOK
  <1>. USE <1>0, ConstantsAssumption DEF AnswersWellRead, WellRead
  <1>1. ASSUME NEW g \in Generations, NEW q \in Resources, Expire(g, q)
        PROVE  AnswersWellRead'
    BY <1>1 DEF Expire, PutEntry
  <1>2. ASSUME NEW g \in Generations, NEW q \in Resources, CorruptEntry(g, q)
        PROVE  AnswersWellRead'
    <2>1. PICK other \in (Resources \cup {None}) \ {q} :
              store' = [store EXCEPT ![g][q].about = other]
      BY <1>2 DEF CorruptEntry
    <2>2. store[g][q] \in Entry
      BY <1>2 DEF CorruptEntry
    <2>3. store'[g][q].about # q
      BY <2>1, <2>2 DEF Entry
    <2>. QED
      BY <1>2, <2>1, <2>3 DEF CorruptEntry
  <1>3. ASSUME NEW s \in lateSets, ApplyLateSet(s)
        PROVE  AnswersWellRead'
    BY <1>3 DEF ApplyLateSet, PutEntry, LateSet
  <1>4. CASE LosePointer \/ CorruptPointer \/ ApplyLateIncr \/ DropLateSet \/ DropLateIncr
    BY <1>4 DEF LosePointer, CorruptPointer, ApplyLateIncr, DropLateSet, DropLateIncr
  <1>. QED
    BY <1>1, <1>2, <1>3, <1>4 DEF RedisStep

LEMMA WellReadNext ==
    ASSUME Shape, AnswersWellRead, [Next]_vars
    PROVE  AnswersWellRead'
  <1>1. ASSUME NEW p \in Publishers, PublisherStep(p) PROVE AnswersWellRead'
    <2>1. CASE \/ Publish(p) \/ PublishNothing(p) \/ PublishFails(p) \/ Invalidate(p)
               \/ InvalidationFails(p) \/ InvalidateLate(p) \/ RunAgain(p)
      <3>1. UNCHANGED <<store, lateSets, body, want>>
        BY <2>1 DEF Publish, PublishNothing, PublishFails, BeginInvalidation, Invalidate,
                    InvalidationFails, InvalidateLate, RunAgain
      <3>2. \A r \in Readers : pc'[r] = "count" => pc[r] = "count"
        BY <2>1, ConstantsAssumption
        DEF Publish, PublishNothing, PublishFails, BeginInvalidation, Invalidate, Move,
            InvalidationFails, InvalidateLate, RunAgain, Shape, TypeOK
      <3>. QED
        BY <3>1, <3>2 DEF AnswersWellRead, WellRead
    <2>. QED
      BY <1>1, <2>1, CallsReadNothing DEF PublisherStep
  <1>2. CASE UNCHANGED vars
    BY <1>2 DEF AnswersWellRead, WellRead
  <1>. QED
    BY <1>1, <1>2, RequestsReadWell, RedisReadsNothing DEF Next

\* What the register sees of a request that is not touched stays.
LEMMA UntouchedUnseen ==
    ASSUME NEW r \in Readers, Untouched(r)
    PROVE  PhaseOf(r)' = PhaseOf(r) /\ AnswerOf(r)' = AnswerOf(r)
  BY DEF Untouched, PhaseOf, AnswerOf

\* The steps of a request between its beginning and its end.
LEMMA RequestGoesOn ==
    ASSUME Shape, Shape', NEW r \in Readers, ReaderStep(r)
    PROVE  \/ \E q \in Resources : StartRead(r, q) \/ StartRandom(r, q)
           \/ pc[r] # "idle" /\ ForgetRequest(r)
           \/ /\ UNCHANGED <<db, announced, want, since>>
              /\ pc[r] \in ReaderPCs \ (Replies \cup {"idle"})
              /\ pc'[r] \in ReaderPCs \ {"idle"}
  <1>0. /\ pc \in [Processes -> ReaderPCs \cup PublisherPCs] /\ pc[r] \in ReaderPCs
        /\ pc'[r] \in ReaderPCs
    BY DEF Shape, TypeOK
  <1>. USE <1>0 DEF Move
  <1>1. ASSUME NEW g, ReturnGeneration(r, g)
        PROVE  pc'[r] # "idle"
    BY <1>1 DEF ReturnGeneration, Miss
  <1>2. CASE GetPointer(r) \/ InitPointer(r) \/ RereadPointer(r) \/ InitPointerUnanswered(r)
    BY <1>1, <1>2 DEF GetPointer, InitPointer, RereadPointer, InitPointerUnanswered, Miss
  <1>3. CASE Fetch(r) \/ FetchUndecodable(r) \/ CacheReadFails(r)
    BY <1>3 DEF Fetch, FetchUndecodable, CacheReadFails, Miss
  <1>4. CASE Select(r) \/ SelectNothing(r) \/ Count(r) \/ DatabaseFails(r)
    BY <1>4 DEF Select, SelectNothing, Count, DatabaseFails
  <1>5. CASE StoreEntry(r) \/ SkipStore(r) \/ StoreLate(r)
    BY <1>5 DEF StoreEntry, SkipStore, StoreLate
  <1>. QED
    BY <1>2, <1>3, <1>4, <1>5 DEF ReaderStep, Proceed, FinishRequest, AbortRequest

\* A request replies as the register could, and otherwise goes unseen.
LEMMA RequestRefines ==
    ASSUME Base, Inductive', AnswersWellRead', NEW r \in Readers, ReaderStep(r)
    PROVE  [Register!Next]_Register!vars
  <1>0. /\ \A o \in Readers \ {r} :
              PhaseOf(o)' = PhaseOf(o) /\ AnswerOf(o)' = AnswerOf(o)
        /\ Shape /\ Shape'
    BY OthersUntouched, UntouchedUnseen DEF Base, Shape, Inductive
  <1>1. ASSUME NEW q \in Resources, StartRead(r, q) \/ StartRandom(r, q)
        PROVE  Register!Begin(r, q)
    <2>1. /\ PhaseOf(r) = "idle" /\ PhaseOf(r)' = "reading"
          /\ AnswerOf(r) = None /\ AnswerOf(r)' = None
      BY <1>0, <1>1 DEF StartRead, StartRandom, Move, PhaseOf, AnswerOf, Shape, TypeOK
    <2>. QED
      BY <1>0, <1>1, <2>1 DEF StartRead, StartRandom, Register!Begin
  <1>2. CASE pc[r] # "idle" /\ ForgetRequest(r)
    <2>1. PhaseOf(r) # "idle" /\ PhaseOf(r)' = "idle" /\ AnswerOf(r)' = None
      BY <1>0, <1>2 DEF ForgetRequest, Move, PhaseOf, AnswerOf, Shape, TypeOK
    <2>2. Register!End(r)
      BY <1>0, <1>2, <2>1 DEF ForgetRequest, Register!End
    <2>. QED
      BY <2>2 DEF Register!Next
  <1>3. CASE /\ UNCHANGED <<db, announced, want, since>>
             /\ pc[r] \in ReaderPCs \ (Replies \cup {"idle"})
             /\ pc'[r] \in ReaderPCs \ {"idle"}
    <2>1. PhaseOf(r) = "reading" /\ AnswerOf(r) = None
      BY <1>3 DEF PhaseOf, AnswerOf
    <2>2. CASE pc'[r] = "done"
      <3>1. /\ PhaseOf(r)' = "replied"
            /\ AnswerOf(r)' = [about |-> body'[r].about, lo |-> body'[r].lo, hi |-> body'[r].hi]
        BY <2>2 DEF PhaseOf, AnswerOf
      <3>2. /\ body'[r] \in Entry /\ body'[r].about = want[r] /\ body'[r] # None
            /\ since[r] <= body'[r].lo /\ body'[r].lo <= body'[r].hi /\ body'[r].hi <= db
            /\ FirstVersion[want[r]] <= body'[r].lo
            /\ body'[r].lo = body'[r].hi \/ want[r] \in Lists
        BY <1>3, <2>2, NoneIsNoEntry
        DEF Inductive, RequestsHold, ReadsAreFresh, NotOlder, AnswersWellRead, WellRead
      <3>3. body'[r].lo \in Nat /\ body'[r].hi \in Nat /\ db \in Nat /\ since[r] \in Nat
        BY <1>0, <3>2, ConstantsAssumption DEF Entry, Shape, TypeOK
      <3>4. AnswerOf(r)' \in Register!Answers(r)
        BY <3>1, <3>2, <3>3 DEF Register!Answers
      <3>5. Register!Reply(r)
        BY <1>0, <1>3, <2>1, <3>1, <3>4 DEF Register!Reply
      <3>. QED
        BY <3>5 DEF Register!Next
    <2>3. CASE pc'[r] = "notfound"
      <3>1. PhaseOf(r)' = "notfound" /\ AnswerOf(r)' = None
        BY <2>3 DEF PhaseOf, AnswerOf
      <3>2. since[r] < FirstVersion[want[r]]
        BY <1>3, <2>3 DEF Inductive, ReadsAreFresh
      <3>3. Register!NotFound(r)
        BY <1>0, <1>3, <2>1, <3>1, <3>2 DEF Register!NotFound
      <3>. QED
        BY <3>3 DEF Register!Next
    <2>4. CASE pc'[r] = "unavailable"
      <3>1. PhaseOf(r)' = "unavailable" /\ AnswerOf(r)' = None
        BY <2>4 DEF PhaseOf, AnswerOf
      <3>2. Register!Refuse(r)
        BY <1>0, <1>3, <2>1, <3>1 DEF Register!Refuse
      <3>. QED
        BY <3>2 DEF Register!Next
    <2>5. CASE pc'[r] \notin Replies
      <3>1. PhaseOf(r)' = "reading" /\ AnswerOf(r)' = None
        BY <1>3, <2>5 DEF PhaseOf, AnswerOf
      <3>. QED
        BY <1>0, <1>3, <2>1, <3>1 DEF Register!vars
    <2>. QED
      BY <2>2, <2>3, <2>4, <2>5
  <1>. QED
    BY <1>0, <1>1, <1>2, <1>3, RequestGoesOn DEF Register!Next

\* A run commits, or announces what is committed, and otherwise goes unseen.
LEMMA RunRefines ==
    ASSUME Base, AnnouncedByGeneration, NEW p \in Publishers, PublisherStep(p)
    PROVE  [Register!Next]_Register!vars
  <1>0. /\ \A r \in Readers : PhaseOf(r)' = PhaseOf(r) /\ AnswerOf(r)' = AnswerOf(r)
        /\ announced \in Nat /\ floor \in Nat /\ db \in Nat /\ version[p] \in Nat
    BY OthersUntouched, UntouchedUnseen, ConstantsAssumption DEF Base, Shape, TypeOK
  <1>1. CASE Publish(p) \/ PublishFails(p)
    <2>1. Register!Commit
      BY <1>0, <1>1 DEF Publish, PublishFails, Register!Commit
    <2>. QED
      BY <2>1 DEF Register!Next
  <1>2. CASE Invalidate(p)
    <2>1. announced' \in announced .. db
      BY <1>0, <1>2 DEF Invalidate, AnnouncedByGeneration
    <2>2. Register!Announce
      BY <1>0, <1>2, <2>1 DEF Invalidate, Register!Announce
    <2>. QED
      BY <2>2 DEF Register!Next
  <1>3. CASE UNCHANGED <<db, announced, want, since>>
    BY <1>0, <1>3 DEF Register!vars
  <1>. QED
    BY <1>1, <1>2, <1>3
    DEF PublisherStep, PublishNothing, BeginInvalidation, InvalidationFails, InvalidateLate,
        RunAgain, GetPointer, InitPointer, RereadPointer, InitPointerUnanswered

\* ImplementsRegister: with the cache and all its faults, requests are answered
\* as some read of the database between their beginning and their end could
\* have answered them, 404 included, as long as the pointer is not lost between
\* invalidate's check of it and its INCR.
THEOREM CacheIsTransparent ==
    ASSUME ~LoseDuringIncr
    PROVE  Spec => ImplementsRegister
  <1>1. Init => Inductive /\ AnswersWellRead
    BY InductiveInit, ConstantsAssumption DEF Init, AnswersWellRead
  <1>2. Inductive /\ AnswersWellRead /\ [Next]_vars => Inductive' /\ AnswersWellRead'
    BY InductiveNext, WellReadNext DEF Inductive, Shape
  <1>3. Init => Register!Init
    BY ConstantsAssumption DEF Init, Register!Init, PhaseOf, AnswerOf
  <1>4. Inductive /\ Inductive' /\ AnswersWellRead' /\ [Next]_vars
            => [Register!Next]_Register!vars
    <2>. SUFFICES ASSUME Inductive, Inductive', AnswersWellRead', [Next]_vars
                  PROVE  [Register!Next]_Register!vars
      OBVIOUS
    <2>1. Base /\ AnnouncedByGeneration
      BY DEF Inductive, Base, Shape
    <2>2. CASE RedisStep \/ UNCHANGED vars
      <3>1. UNCHANGED <<db, announced, pc, want, body, since>>
        BY <2>2 DEF RedisStep, Expire, CorruptEntry, LosePointer, CorruptPointer,
                    ApplyLateSet, ApplyLateIncr, DropLateSet, DropLateIncr
      <3>. QED
        BY <3>1 DEF Register!vars, PhaseOf, AnswerOf
    <2>. QED
      BY <2>1, <2>2, RequestRefines, RunRefines DEF Next
  <1>. QED
    BY <1>1, <1>2, <1>3, <1>4, PTL DEF Spec, ImplementsRegister, Register!Spec
=============================================================================
