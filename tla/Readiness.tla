------------------------------ MODULE Readiness ------------------------------
(***************************************************************************)
(* ReadinessChecks.run: two probe tasks, gathered; when the gathering ends *)
(* in an exception, both are cancelled and awaited before it goes on.      *)
(*                                                                         *)
(* From asyncio: cancelling a task is a request, delivered when the task   *)
(* runs next.  Cancelling whoever awaits a gather cancels its children.  A *)
(* gather ends with the first child that raises or is cancelled, and lets  *)
(* the other run on; told to return exceptions, it waits for all of them.  *)
(* A probe on its way out may have to give back a connection first; a      *)
(* cancellation cuts that wait short.                                      *)
(***************************************************************************)
CONSTANT
    Probes  \* the database probe and the Redis probe

VARIABLES
    run,          \* where run() is
    task,         \* where each probe task is
    outcome,      \* how it ends: True, False, an unexpected error, cancelled
    cancelling,   \* whether it has a cancellation still to be delivered
    interrupted,  \* whether the request has been cancelled, once or more
    dependency    \* how each service treats its probe

vars == <<run, task, outcome, cancelling, interrupted, dependency>>

Behaviours == {"answers", "refuses", "hangs", "breaks"}

TypeOK ==
    /\ run \in {"gather", "cleanup", "returned", "raised"}
    /\ task \in [Probes -> {"created", "probing", "closing", "done"}]
    /\ outcome \in [Probes -> {"up", "down", "error", "cancelled", "none"}]
    /\ cancelling \in [Probes -> BOOLEAN]
    /\ interrupted \in BOOLEAN
    /\ dependency \in [Probes -> Behaviours]
    /\ \A p \in Probes : task[p] \in {"closing", "done"} <=> outcome[p] # "none"

Init ==
    /\ run = "gather"
    /\ task = [p \in Probes |-> "created"]
    /\ outcome = [p \in Probes |-> "none"]
    /\ cancelling = [p \in Probes |-> FALSE]
    /\ interrupted = FALSE
    /\ dependency \in [Probes -> Behaviours]

Done(p) == task[p] = "done"
Failed(p) == Done(p) /\ outcome[p] \in {"error", "cancelled"}
-----------------------------------------------------------------------------
(* A probe task. *)

Enter(p, s) == task' = [task EXCEPT ![p] = s]

\* The probe knows how it will end, and gives back what it holds.
Conclude(p, o) ==
    /\ task[p] = "probing"
    /\ ~cancelling[p]
    /\ outcome' = [outcome EXCEPT ![p] = o]
    /\ Enter(p, "closing")
    /\ UNCHANGED <<run, cancelling, interrupted, dependency>>

Start(p) ==
    /\ task[p] = "created"
    /\ ~cancelling[p]
    /\ Enter(p, "probing")
    /\ UNCHANGED <<run, outcome, cancelling, interrupted, dependency>>

Answer(p) == dependency[p] = "answers" /\ Conclude(p, "up")

\* An OSError, a SQLAlchemyError or RedisError, or a negative answer to PING.
Refuse(p) == dependency[p] = "refuses" /\ Conclude(p, "down")

\* Any other exception is a bug, and is not hidden.
Break(p) == dependency[p] = "breaks" /\ Conclude(p, "error")

\* Mutant: the probe has no timeout of its own.
NeverTimeOut(p) == FALSE

TimeOut(p) == Conclude(p, "down")

Finish(p) ==
    /\ task[p] = "closing"
    /\ ~cancelling[p]
    /\ Enter(p, "done")
    /\ UNCHANGED <<run, outcome, cancelling, interrupted, dependency>>

\* CancelledError is raised where the task waits.
Cancelled(p) ==
    /\ cancelling[p]
    /\ cancelling' = [cancelling EXCEPT ![p] = FALSE]
    /\ outcome' = [outcome EXCEPT ![p] = "cancelled"]
    /\ Enter(p, IF task[p] = "probing" THEN "closing" ELSE "done")
    /\ UNCHANGED <<run, interrupted, dependency>>

ProbeStep(p) ==
    \/ Start(p) \/ Answer(p) \/ Refuse(p) \/ Break(p) \/ TimeOut(p)
    \/ Finish(p) \/ Cancelled(p)
-----------------------------------------------------------------------------
(* run() *)

CancelProbes == cancelling' = [p \in Probes |-> cancelling[p] \/ ~Done(p)]

\* Both probes answered, one way or the other, and nobody cancelled the request.
GatherReturns ==
    /\ run = "gather"
    /\ \A p \in Probes : Done(p) /\ ~Failed(p)
    /\ ~interrupted
    /\ run' = "returned"
    /\ UNCHANGED <<task, outcome, cancelling, interrupted, dependency>>

\* The first failure, or the cancellation of the request, reaches run().
GatherRaises ==
    /\ run = "gather"
    /\ \/ \E p \in Probes : Failed(p)
       \/ interrupted /\ \A p \in Probes : Done(p)
    /\ CancelProbes
    /\ run' = "cleanup"
    /\ UNCHANGED <<task, outcome, interrupted, dependency>>

\* Mutant: the second gather does not return exceptions, and ends with the
\* first cancelled probe.
CleanupEndsEarly ==
    /\ run = "cleanup"
    /\ \E p \in Probes : Failed(p)
    /\ run' = "raised"
    /\ UNCHANGED <<task, outcome, cancelling, interrupted, dependency>>

CleanupEnds ==
    /\ run = "cleanup"
    /\ \A p \in Probes : Done(p)
    /\ run' = "raised"
    /\ UNCHANGED <<task, outcome, cancelling, interrupted, dependency>>

\* The request is cancelled, at whichever of the two gathers it waits.
CancelRequest ==
    /\ run \in {"gather", "cleanup"}
    /\ interrupted' = TRUE
    /\ CancelProbes
    /\ UNCHANGED <<run, task, outcome, dependency>>

RunStep == GatherReturns \/ GatherRaises \/ CleanupEnds

Next ==
    \/ \E p \in Probes : ProbeStep(p)
    \/ RunStep
    \/ CancelRequest

Spec == Init /\ [][Next]_vars
-----------------------------------------------------------------------------
\* Whichever way run() ends, and however often it was cancelled on the way, no
\* probe task is left running behind it.
NoProbeOutlivesRun ==
    run \in {"returned", "raised"} => \A p \in Probes : Done(p)

\* A dependency that is down or slow never costs the report about the other:
\* only a bug or a cancelled request makes run() raise.
DownIsReported ==
    run \in {"cleanup", "raised"} =>
        interrupted \/ \E p \in Probes : dependency[p] = "breaks"
=============================================================================
