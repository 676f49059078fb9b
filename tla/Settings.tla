------------------------------ MODULE Settings ------------------------------
(***************************************************************************)
(* The settings of the application and of the ingestion command: which     *)
(* configurations are accepted, and what connections they lead to.  A URL  *)
(* is what decides that: where it points, its "host" query parameters, its *)
(* credentials.  The spelling of URLs is left out.                         *)
(*                                                                         *)
(* Hosts: "local" is localhost, 127.0.0.1 or ::1, "loopback" the rest of   *)
(* 127.0.0.0/8, "remote" any other; "approved" and "socket" are the        *)
(* directories of Unix sockets, the approved ones and the rest.            *)
(***************************************************************************)
EXTENDS Naturals, Sequences, FiniteSets

\* The value of a host parameter; "list" is a socket and a host, by a comma.
HostParameters ==
    [key: {"host", "Host"}, value: {"approved", "socket", "remote", "list"}]

DatabaseUrls ==
    [hostname: {"none", "local", "loopback", "remote"},
     hosts: {<<>>} \cup {<<p>> : p \in HostParameters}
                   \cup {<<p, q>> : p, q \in HostParameters},
     credentials: {{}, {"username"}, {"username", "password"}}]

\* What validate_redis_url lets through; it refuses spellings, not targets.
RedisUrls == [hostname: {"local", "loopback", "remote"}, rediss: BOOLEAN, password: BOOLEAN]

\* pghost: the environment of the process names a (remote) host for PostgreSQL.
Configurations ==
    [environment: {"development", "test", "production"},
     database: DatabaseUrls, redis: RedisUrls, pghost: BOOLEAN]

Keys(u) == {u.hosts[i].key : i \in 1 .. Len(u.hosts)}
Values(u, keys) == {u.hosts[i].value : i \in {j \in 1 .. Len(u.hosts) : u.hosts[j].key \in keys}}
-----------------------------------------------------------------------------
(* What is accepted. *)

UnixSocket(u) ==
    /\ u.hostname = "none"
    /\ u.hosts # <<>> =>
        /\ Len(u.hosts) = 1
        /\ Keys(u) = {"host"}
        /\ Values(u, {"host"}) \subseteq {"approved", "socket"}

\* Mutant: a host parameter is let through beside a hostname.
ValidAnyHostParameter(u) == u.hostname # "none" \/ UnixSocket(u)

ValidDatabaseUrl(u) ==
    /\ u.hostname # "none" \/ UnixSocket(u)
    /\ u.hosts # <<>> => UnixSocket(u)

\* PostgresSettings.
PostgresAccepts(c) ==
    /\ ValidDatabaseUrl(c.database)
    /\ c.environment = "production" => c.database.hostname # "none" \/ c.database.hosts # <<>>

\* validate_production_redis.
RedisAccepts(c) ==
    c.environment = "production" /\ c.redis.hostname = "remote" =>
        c.redis.rediss /\ c.redis.password

DatabaseRequiresTls(u) == u.hostname \notin {"none", "local"}

\* Settings, of the application.
RuntimeAccepts(c) == PostgresAccepts(c) /\ RedisAccepts(c)

\* Mutant: the environment of the driver is not looked at, as in Settings, nor
\* is the socket named.
IngestionAcceptsAmbient(c) ==
    /\ PostgresAccepts(c) /\ RedisAccepts(c)
    /\ DatabaseRequiresTls(c.database) => c.database.credentials = {"username", "password"}

\* IngestionSettings: an explicit target, nothing from the environment, and
\* credentials for what is not on this machine.
IngestionAccepts(c) ==
    /\ PostgresAccepts(c) /\ RedisAccepts(c)
    /\ c.database.hostname = "none" =>
        Len(c.database.hosts) = 1 /\ Values(c.database, {"host"}) = {"approved"}
    /\ ~c.pghost
    /\ DatabaseRequiresTls(c.database) => c.database.credentials = {"username", "password"}
-----------------------------------------------------------------------------
(* What it leads to. *)

\* Where SQLAlchemy and asyncpg connect: to the hosts of the parameters if
\* there are any, else to the host of the URL, else of the environment.
Targets(c) ==
    LET values == Values(c.database, {"host"}) IN
        IF values # {}
          THEN (values \ {"list"}) \cup IF "list" \in values THEN {"approved", "remote"} ELSE {}
        ELSE IF c.database.hostname # "none" THEN {c.database.hostname}
        ELSE IF c.pghost THEN {"remote"} ELSE {"local"}

Reach(remote, safely) == IF ~remote THEN "local" ELSE IF safely THEN "protected" ELSE "unprotected"

\* create_database and create_redis: the driver gets verified TLS when the
\* settings require it, the client of Redis when its scheme says so.
Connections(c) ==
    [production |-> c.environment = "production",
     database |-> Reach("remote" \in Targets(c), DatabaseRequiresTls(c.database)),
     redis |-> Reach(c.redis.hostname = "remote", c.redis.rediss /\ c.redis.password)]

RuntimeConnections == {Connections(c) : c \in {d \in Configurations : RuntimeAccepts(d)}}
IngestionConnections == {Connections(c) : c \in {d \in Configurations : IngestionAccepts(d)}}

NoConnections == [production |-> FALSE, database |-> "local", redis |-> "local"]

Protected(n) == n.database # "unprotected" /\ n.redis # "unprotected"
=============================================================================
