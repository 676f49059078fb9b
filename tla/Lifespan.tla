------------------------------ MODULE Lifespan ------------------------------
(***************************************************************************)
(* The lifespan of the application: the settings are read, the clients are *)
(* created one after the other, each with the call that closes it pushed   *)
(* on an exit stack, and the stack is left when the server stops, or when  *)
(* something fails before it serves.                                       *)
(*                                                                         *)
(* From the server: on a signal it takes no more requests, waits for those *)
(* there are and leaves the lifespan; interrupted, it cancels them and the *)
(* lifespan at once.                                                       *)
(***************************************************************************)
EXTENDS Naturals, Sequences, Settings

VARIABLES
    phase,        \* how far the lifespan is
    connections,  \* what the settings lead to
    order,        \* the clients this configuration asks for, as they are created
    stack,        \* the callbacks on the exit stack
    created,      \* the clients that were created,
    released,     \* and those whose closing was called, in this order
    error         \* whether an exception is on its way

lifeVars == <<phase, connections, order, stack, created, released, error>>

Clients == {"engine", "redis", "clerk"}

\* A configuration without a secret for Clerk has no client for it.
Orders == {<<"engine", "redis">>, <<"engine", "redis", "clerk">>}

LifespanTypeOK ==
    /\ phase \in {"settings", "creating", "serving", "draining", "leaving", "stopped"}
    /\ connections \in RuntimeConnections \cup {NoConnections}
    /\ order \in Orders
    /\ stack \in Seq(Clients) /\ created \in Seq(Clients) /\ released \in Seq(Clients)
    /\ error \in BOOLEAN

LifespanInit ==
    /\ phase = "settings"
    /\ connections = NoConnections
    /\ order \in Orders
    /\ stack = <<>> /\ created = <<>> /\ released = <<>>
    /\ error = FALSE

Enter(a, b) == phase = a /\ phase' = b
Fail == error' = TRUE

SettingsRead ==
    /\ Enter("settings", "creating")
    /\ connections' \in RuntimeConnections
    /\ UNCHANGED <<order, stack, created, released, error>>

\* There is no stack yet.
SettingsInvalid ==
    /\ Enter("settings", "stopped")
    /\ Fail
    /\ UNCHANGED <<connections, order, stack, created, released>>

NextClient == order[Len(created) + 1]

\* Mutant: the client of Redis is created without a callback.
CreateWithoutCallback ==
    /\ phase = "creating" /\ Len(created) < Len(order)
    /\ created' = Append(created, NextClient)
    /\ stack' = IF NextClient = "redis" THEN stack ELSE Append(stack, NextClient)
    /\ UNCHANGED <<phase, connections, order, released, error>>

\* The callback is pushed before anything else can fail.
CreateClient ==
    /\ phase = "creating" /\ Len(created) < Len(order)
    /\ created' = Append(created, NextClient)
    /\ stack' = Append(stack, NextClient)
    /\ UNCHANGED <<phase, connections, order, released, error>>

CreateFails ==
    /\ Len(created) < Len(order)
    /\ Enter("creating", "leaving")
    /\ Fail
    /\ UNCHANGED <<connections, order, stack, created, released>>

\* Mutant: the stack is left before the application serves.
ServeAfterLeaving ==
    /\ created = order
    /\ Enter("creating", "serving")
    /\ stack' = <<>>
    /\ released' = [i \in 1 .. Len(stack) |-> stack[Len(stack) + 1 - i]]
    /\ UNCHANGED <<connections, order, created, error>>

Serve ==
    /\ created = order
    /\ Enter("creating", "serving")
    /\ UNCHANGED <<connections, order, stack, created, released, error>>

\* The server is told to stop.
Stop ==
    /\ Enter("serving", "draining")
    /\ UNCHANGED <<connections, order, stack, created, released, error>>

\* No request is left.
Drained ==
    /\ Enter("draining", "leaving")
    /\ UNCHANGED <<connections, order, stack, created, released, error>>

\* CancelledError is raised at the yield of the lifespan.
Interrupted ==
    /\ phase \in {"serving", "draining"} /\ phase' = "leaving"
    /\ Fail
    /\ UNCHANGED <<connections, order, stack, created, released>>

Pop ==
    /\ phase = "leaving" /\ stack # <<>>
    /\ stack' = SubSeq(stack, 1, Len(stack) - 1)
    /\ released' = Append(released, stack[Len(stack)])

CloseClient == Pop /\ UNCHANGED <<phase, connections, order, created, error>>

\* Its exception replaces the one on its way, and the other callbacks still run.
CloseClientFails == Pop /\ Fail /\ UNCHANGED <<phase, connections, order, created>>

Left ==
    /\ stack = <<>>
    /\ Enter("leaving", "stopped")
    /\ UNCHANGED <<connections, order, stack, created, released, error>>

Start == SettingsRead \/ SettingsInvalid \/ CreateClient \/ CreateFails
Leave == CloseClient \/ CloseClientFails \/ Left

LifespanNext == Start \/ Serve \/ Stop \/ Drained \/ Interrupted \/ Leave

LifespanSpec == LifespanInit /\ [][LifespanNext]_lifeVars
-----------------------------------------------------------------------------
\* However the lifespan ends - settings refused, a client that cannot be
\* created, a cancellation, closes that fail - every client that was created
\* has been closed, once, and the last one created first.
ClientsReleased ==
    phase = "stopped" =>
        /\ Len(released) = Len(created)
        /\ \A i \in 1 .. Len(created) : released[i] = created[Len(created) + 1 - i]

\* In production nothing leaves the machine unprotected, whatever the URLs and
\* the environment of the process say: queries go over verified TLS, commands
\* of Redis over TLS with a password.
ProductionProtected == connections.production => Protected(connections)
=============================================================================
