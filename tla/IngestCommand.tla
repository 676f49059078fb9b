--------------------------- MODULE IngestCommand ---------------------------
(***************************************************************************)
(* The ingestion command: arguments, snapshot, settings, the clients on an *)
(* exit stack, the transaction, the invalidation, the clean-up, and what   *)
(* the operator is told.  The transaction is one step here and a module of *)
(* its own, Ingestion; so is what the invalidation does to the cache.      *)
(*                                                                         *)
(* From asyncio: an interrupt cancels the command at its next await, and   *)
(* becomes KeyboardInterrupt, which main does not catch, unless another    *)
(* exception replaces it on the way out.                                   *)
(***************************************************************************)
EXTENDS SnapshotLoader, SnapshotSchema, Settings

VARIABLES
    step,         \* what the command does next
    verdict,      \* of the schema
    storable,     \* whether the tables hold what was accepted
    connections,  \* what the settings lead to
    stack,        \* the callbacks on the exit stack
    created,      \* the clients created,
    released,     \* and those whose closing was called
    published,    \* "yes"; "newer" when a newer snapshot was found
    invalidated,  \* whether the command has incremented the generation
    error,        \* the exception on its way, by what main makes of it
    status        \* the exit status

clients == <<stack, created, released>>
effects == <<published, invalidated>>
commandVars == <<step, verdict, storable, connections, clients, effects, error, status>>
allVars == <<vars, commandVars>>

Errors == {"none", "help", "arguments", "load", "validation", "configuration",
           "invalidation", "service", "internal", "interrupt"}

CommandTypeOK ==
    /\ TypeOK
    /\ step \in {"arguments", "load", "validate", "configure", "engine", "redis",
                 "ingest", "invalidate", "unwind", "exit", "exited"}
    /\ verdict \in {"none", "accepted", "invalid", "broken"} /\ storable \in BOOLEAN
    /\ connections \in IngestionConnections \cup {NoConnections}
    /\ stack \in Seq({"engine", "redis"})
    /\ created \in Seq({"engine", "redis"}) /\ released \in Seq({"engine", "redis"})
    /\ published \in {"no", "yes", "newer"} /\ invalidated \in BOOLEAN
    /\ error \in Errors
    /\ status \in {0, 1, 2, 130, None}

CommandInit ==
    /\ Init
    /\ step = "arguments"
    /\ verdict = "none" /\ storable = TRUE
    /\ connections = NoConnections
    /\ stack = <<>> /\ created = <<>> /\ released = <<>>
    /\ published = "no" /\ invalidated = FALSE
    /\ error = "none" /\ status = None

Do(a, b) == step = a /\ step' = b /\ UNCHANGED <<vars, status>>

Throw(a, b, e) ==
    /\ Do(a, b)
    /\ error' = e
    /\ UNCHANGED <<verdict, storable, connections, clients>>

Push(client) ==
    /\ stack' = Append(stack, client)
    /\ created' = Append(created, client)
    /\ UNCHANGED released
-----------------------------------------------------------------------------
(* main and run_ingestion. *)

ParseArguments ==
    /\ Do("arguments", "load")
    /\ UNCHANGED <<verdict, storable, connections, clients, effects, error>>

\* argparse exits, with 0 after --help.
RefuseArguments ==
    /\ \E e \in {"help", "arguments"} : Throw("arguments", "exit", e)
    /\ UNCHANGED effects

LoadStep(A) == step = "load" /\ A /\ UNCHANGED commandVars

Loaded ==
    /\ at = "done" /\ result = "snapshot"
    /\ Do("load", "validate")
    /\ UNCHANGED <<verdict, storable, connections, clients, effects, error>>

NotLoaded ==
    /\ at = "done" /\ result = "rejected"
    /\ Throw("load", "exit", "load")
    /\ UNCHANGED effects

\* A ValidationError is reported as such, another exception is not expected.
Validate == \E o \in Outcomes :
    /\ verdict' = o.verdict /\ storable' = o.storable
    /\ CASE o.verdict = "accepted" -> Do("validate", "configure") /\ UNCHANGED error
         [] o.verdict = "invalid" -> Do("validate", "exit") /\ error' = "validation"
         [] o.verdict = "broken" -> Do("validate", "exit") /\ error' = "internal"
    /\ UNCHANGED <<connections, clients, effects>>

Configure ==
    /\ Do("configure", "engine")
    /\ connections' \in IngestionConnections
    /\ UNCHANGED <<verdict, storable, clients, effects, error>>

ConfigurationInvalid ==
    /\ Throw("configure", "exit", "configuration")
    /\ UNCHANGED effects

CreateEngine ==
    /\ Do("engine", "redis")
    /\ Push("engine")
    /\ UNCHANGED <<verdict, storable, connections, effects, error>>

\* ValueError still is a matter of configuration; the trust store may be
\* unreadable, the driver missing.
CreateEngineFails ==
    /\ \E e \in {"configuration", "service", "internal"} : Throw("engine", "exit", e)
    /\ UNCHANGED effects

CreateRedis ==
    /\ Do("redis", "ingest")
    /\ Push("redis")
    /\ UNCHANGED <<verdict, storable, connections, effects, error>>

\* ValueError from here on is not expected.
CreateRedisFails ==
    /\ Throw("redis", "unwind", "internal")
    /\ UNCHANGED effects

\* A snapshot that is not newer than what is recorded is left out, and that
\* counts as success.
Ingest ==
    /\ Do("ingest", "invalidate")
    /\ published' \in {"newer"} \cup {p \in {"yes"} : storable}
    /\ UNCHANGED <<verdict, storable, connections, clients, invalidated, error>>

\* Lost on the way, interrupted, or a bug; with the commit done, if the
\* snapshot was storable, or not.
IngestFails ==
    /\ \E e \in {"service", "internal", "interrupt"} : Throw("ingest", "unwind", e)
    /\ published' \in {"no"} \cup {p \in {"yes"} : storable}
    /\ UNCHANGED invalidated

Invalidate ==
    /\ Do("invalidate", "unwind")
    /\ invalidated' = TRUE
    /\ UNCHANGED <<verdict, storable, connections, clients, published, error>>

\* Mutant: the command takes a failure of Redis lightly.
InvalidateFailsSilently ==
    /\ Throw("invalidate", "unwind", "none")
    /\ UNCHANGED effects

\* The reply may be what was lost.
InvalidateFails ==
    /\ \E e \in {"invalidation", "internal", "interrupt"} : Throw("invalidate", "unwind", e)
    /\ invalidated' \in BOOLEAN /\ UNCHANGED published
-----------------------------------------------------------------------------
(* The exit stack, and the way out. *)

Pop ==
    /\ step = "unwind" /\ stack # <<>>
    /\ stack' = SubSeq(stack, 1, Len(stack) - 1)
    /\ released' = Append(released, stack[Len(stack)])
    /\ UNCHANGED <<vars, verdict, storable, connections, created, effects, status>>

CloseClient == Pop /\ UNCHANGED <<step, error>>

\* Mutant: the clean-up ends with the first client that cannot be closed.
CloseFailsAndLeaves == Pop /\ step' = "exit" /\ error' = "internal"

\* Its exception replaces the one on its way.
CloseClientFails ==
    /\ Pop
    /\ error' \in {"service", "internal", "interrupt"}
    /\ UNCHANGED step

Unwound ==
    /\ stack = <<>>
    /\ Do("unwind", "exit")
    /\ UNCHANGED <<verdict, storable, connections, clients, effects, error>>

Status(e) ==
    CASE e \in {"none", "help"} -> 0
      [] e \in {"arguments", "load", "validation", "configuration"} -> 2
      [] e = "interrupt" -> 130
      [] OTHER -> 1

Exit ==
    /\ step = "exit" /\ step' = "exited"
    /\ status' = Status(error)
    /\ UNCHANGED <<vars, verdict, storable, connections, clients, effects, error>>

Advance ==
    \/ ParseArguments \/ LoadStep(Load) \/ Loaded \/ NotLoaded \/ Validate \/ Configure
    \/ CreateEngine \/ CreateRedis \/ Ingest \/ Invalidate \/ CloseClient \/ Unwound \/ Exit

Mishap ==
    \/ RefuseArguments \/ LoadStep(Break) \/ ConfigurationInvalid \/ CreateEngineFails
    \/ CreateRedisFails \/ IngestFails \/ InvalidateFails \/ CloseClientFails

CommandNext == Advance \/ Mishap \/ LoadStep(Replace)

CommandSpec == CommandInit /\ [][CommandNext]_allVars

\* The command runs on; its calls return, if only by their timeouts.
CommandFairSpec == CommandSpec /\ WF_allVars(Advance)
-----------------------------------------------------------------------------
Exited == step = "exited"

\* What the operator is told is true.  A command that calls its arguments, its
\* file, its snapshot or its configuration invalid has touched neither PostgreSQL
\* nor Redis.  Exit status 0 means that the snapshot, or a newer one, is published
\* and announced to the cache, and that the clients were closed.  Who is told that
\* data was published and that repeating will announce it, finds it published.
StatusTellsTruth ==
    Exited /\ error # "help" =>
        /\ status = 2 => created = <<>> /\ published = "no" /\ ~invalidated
        /\ status = 0 => published # "no" /\ invalidated /\ Len(released) = 2
        /\ error = "invalidation" => published # "no"

\* However the command ends, the clients it created are closed, the last first.
CommandClientsReleased ==
    Exited =>
        /\ Len(released) = Len(created)
        /\ \A i \in 1 .. Len(created) : released[i] = created[Len(created) + 1 - i]

\* What the schema accepts, the tables hold: no run fails, after its upserts,
\* on a value nobody objected to.
AcceptedIsStorable == verdict = "accepted" => storable

\* Ingestion writes to no other machine but over verified TLS, whatever the
\* URL and the environment of the process say.
IngestionProtected ==
    /\ connections.database # "unprotected"
    /\ connections.production => Protected(connections)

\* What the schema does not accept is reported as a snapshot that is not valid.
InvalidSnapshotsAreReported ==
    Exited /\ verdict \in {"invalid", "broken"} => error = "validation"

\* The command ends, whatever its path names and its services do.
CommandEnds == <>Exited
=============================================================================
