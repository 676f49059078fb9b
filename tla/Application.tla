---------------------------- MODULE Application ----------------------------
(***************************************************************************)
(* The process of the application: the lifespan, one request, and the      *)
(* readiness checks if it asks for them.  It may arrive at any time while  *)
(* the application serves, and be anywhere when the server is told to      *)
(* stop, or is interrupted.                                                *)
(*                                                                         *)
(* The tests also call the application without its lifespan; no verifier   *)
(* is bound then.                                                          *)
(***************************************************************************)
EXTENDS HttpRequest, Lifespan

CONSTANT Probes

VARIABLES
    lifespan,  \* "on", or "off" when only the requests are run
    run, task, outcome, cancelling, interrupted, dependency  \* of Readiness

Checks == INSTANCE Readiness

requestVars == vars
probeVars == <<run, task, outcome, cancelling, interrupted, dependency>>
appVars == <<requestVars, lifeVars, lifespan, probeVars>>

\* A health route reads no key, and what the services do matters to a probe.
AppInit ==
    /\ Init /\ verifier = FALSE
    /\ LifespanInit
    /\ lifespan \in {"on", "off"}
    /\ Checks!Init
    /\ path # "protected" => ~key
    /\ path # "ready" \/ lifespan = "off" => dependency = [p \in Probes |-> "answers"]

RequestIdle == at \in {"arrival", "over"}

\* A request starts only while the server takes it, and goes on until it ends.
MayRun ==
    \/ lifespan = "off"
    \/ phase = "serving"
    \/ at # "arrival" /\ phase \in {"draining", "leaving", "stopped"}

Lives(A) == lifespan = "on" /\ A /\ UNCHANGED <<requestVars, lifespan, probeVars>>
Runs(A) == MayRun /\ A /\ UNCHANGED <<lifeVars, lifespan, probeVars>>

\* The verifier is bound last: one that asks Clerk, or one that cannot.
Bind ==
    /\ lifespan = "on"
    /\ Serve
    /\ verifier' = TRUE
    /\ UNCHANGED <<at, path, key, answer, session, raised, sending, outside,
                   cancelled_at, lifespan, probeVars>>

Finish == Lives(Start) \/ Bind \/ (RequestIdle /\ Lives(Drained)) \/ Lives(Leave)

\* The server cancels its request and leaves the lifespan.
Interrupt ==
    /\ lifespan = "on"
    /\ Interrupted
    /\ \/ Cancel /\ UNCHANGED probeVars
       \/ CancelReadiness /\ Checks!CancelRequest
       \/ RequestIdle /\ UNCHANGED <<requestVars, probeVars>>
    /\ UNCHANGED lifespan

\* The request awaits run(): its result is the response, its exception goes on.
Probing == MayRun /\ at = "readiness" /\ UNCHANGED <<lifeVars, lifespan>>

ProbeServices ==
    Probing /\ ((\E p \in Probes : Checks!ProbeStep(p)) \/ Checks!GatherRaises) /\ UNCHANGED requestVars

AnswerServices ==
    Probing /\ Checks!GatherReturns /\ ServicesReported(\A p \in Probes : outcome[p] = "up")

RaiseServices ==
    /\ Probing
    /\ Checks!CleanupEnds
    /\ \/ interrupted /\ ServicesUnknown("cancelled")
       \/ (\E p \in Probes : outcome[p] = "error") /\ ServicesUnknown("error")

\* Clerk can only answer an application that has a client for it.
ClerkReached == "clerk" \in {order[i] : i \in 1 .. Len(order)} /\ ClerkAnswers

Ends == Authenticate \/ Route \/ Health \/ Send \/ WayBack \/ Server

AppNext ==
    \/ Finish \/ Lives(Stop) \/ Interrupt
    \/ Runs(Ends) \/ Runs(ClerkReached)
    \/ ProbeServices \/ AnswerServices \/ RaiseServices

AppSpec == AppInit /\ [][AppNext]_appVars

\* The event loop runs what is ready, and calls end: the one to Clerk and the
\* probes by their timeouts if need be.  Nobody has to stop the server, or to
\* send a request.
AppFairSpec ==
    /\ AppSpec
    /\ WF_appVars(Finish)
    /\ WF_appVars(at # "arrival" /\ Runs(Ends))
    /\ WF_appVars(ProbeServices \/ AnswerServices \/ RaiseServices)
-----------------------------------------------------------------------------
AppTypeOK == TypeOK /\ LifespanTypeOK /\ Checks!TypeOK /\ lifespan \in {"on", "off"}

\* No client is closed under a request that was not cancelled, or under a probe
\* it started: neither before the application serves, nor while it stops.
ClientsOutliveRequests ==
    released # <<>> =>
        \/ RequestIdle /\ \A p \in Probes : task[p] \in {"created", "done"}
        \/ cancelled_at # "nowhere"

\* However the request for readiness ends, no probe is left running behind it.
NoProbeOutlivesRun == Checks!NoProbeOutlivesRun

\* /health/ready tells the client what the probes found: 200 if and only if
\* every service answered, and a service that is down is never a 500.
ReadyTellsServices ==
    (path = "ready" /\ verifier /\ sent # <<>> /\ cancelled_at = "nowhere") =>
        /\ sent[1] = "200" <=> \A p \in Probes : outcome[p] = "up"
        /\ sent[1] = "500" => \E p \in Probes : dependency[p] = "breaks"

\* A request that has started ends, though Clerk never answers, and an
\* application told to stop stops, whatever the request is at.
RequestEnded == at # "arrival" ~> Over
ApplicationStops == phase \in {"draining", "leaving"} ~> phase = "stopped"
=============================================================================
