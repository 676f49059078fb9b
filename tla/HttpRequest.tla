----------------------------- MODULE HttpRequest -----------------------------
(***************************************************************************)
(* One request: the logging middleware around it, and the way back, on     *)
(* which an exception becomes a response.  For a protected route, the      *)
(* dependencies in the order they are solved (key, scopes, session,        *)
(* parameters) and the endpoint; /health answers, and /health/ready awaits *)
(* ReadinessChecks.run, which Readiness.tla models.                        *)
(*                                                                         *)
(* From FastAPI, Starlette and the server: a dependency that yields is     *)
(* left after the response has been sent, or before an exception reaches   *)
(* its handler.  A request is cancelled when the server shuts down, at     *)
(* whichever await it is.  An exception that leaves the application gets   *)
(* the server's own 500, or a closed connection once a response started.   *)
(***************************************************************************)
EXTENDS Naturals, Sequences

CONSTANTS
    Scopes,    \* the scopes a key can have
    Required   \* those the route asks for

ASSUME ScopesAssumption == Required \subseteq Scopes

VARIABLES
    at,                \* the await, or the step, the request is at
    path,              \* the route it is for
    verifier,          \* whether the lifespan has bound a verifier
    key,               \* whether the request has a key
    answer,            \* what Clerk says of it
    session,           \* the database session of the request
    raised,            \* the exception on its way outwards
    sender,            \* who is sending a response,
    response,          \* and which
    response_started,  \* the middleware's flag,
    status,            \* and the status it will log
    sent,              \* what the client gets
    connection,        \* "open", or "closed" by the server
    log,               \* the events logged
    cancelled_at       \* where the server cancelled the request, if it did

asked == <<path, verifier, key, answer>>
sending == <<sender, response, response_started, status>>
outside == <<sent, connection, log>>
vars == <<at, asked, session, raised, sending, outside, cancelled_at>>

Results ==
    [expired: BOOLEAN, revoked: BOOLEAN, subject: BOOLEAN, scopes: SUBSET Scopes]
\* Clerk's 400 and 404, any other error status, and no answer at all.
NoResults == {[status |-> s] : s \in {"400", "404", "500", "none"}}
NoAnswer == [status |-> "none"]

Awaits == {"readiness", "clerk", "endpoint", "deliver", "body", "unwind"}
Handled == {"401", "403", "404", "422", "503"}
Statuses == Handled \cup {"200", "500"}

TypeOK ==
    /\ at \in {"arrival", "readiness", "key", "clerk", "verdict", "scopes", "session",
               "params", "endpoint", "start", "deliver", "body", "unwind",
               "dispatch", "middleware", "finally", "server", "over"}
    /\ path \in {"protected", "health", "ready"}
    /\ verifier \in BOOLEAN /\ key \in BOOLEAN
    /\ answer \in Results \cup NoResults
    /\ session \in {"none", "open", "closed"}
    /\ raised \in Handled \cup {"none", "error", "cancelled"}
    /\ sender \in {"route", "handler", "middleware"}
    /\ response \in Statuses /\ status \in Statuses
    /\ response_started \in BOOLEAN
    /\ sent \in Seq(Statuses \cup {"body"})
    /\ connection \in {"open", "closed"}
    /\ log \in Seq(Statuses \cup {"unhandled"})
    /\ cancelled_at \in {"nowhere"} \cup Awaits
    \* Nothing reaches the client through the middleware unseen.
    /\ sent # <<>> /\ at \notin {"server", "over"} => response_started

Init ==
    /\ at = "arrival"
    /\ path \in {"protected", "health", "ready"}
    /\ verifier \in BOOLEAN /\ key \in BOOLEAN
    /\ answer = NoAnswer
    /\ session = "none"
    /\ raised = "none"
    /\ sender = "route" /\ response = "200"
    /\ response_started = FALSE /\ status = "500"
    /\ sent = <<>> /\ connection = "open" /\ log = <<>>
    /\ cancelled_at = "nowhere"

Go(a, b) == at = a /\ at' = b

Continue(a, b) ==
    Go(a, b) /\ UNCHANGED <<asked, session, raised, sending, outside, cancelled_at>>

Raise(a, e) ==
    /\ Go(a, "unwind") /\ raised' = e
    /\ UNCHANGED <<asked, session, sending, outside, cancelled_at>>

Respond(from, who, s) ==
    /\ Go(from, "start")
    /\ sender' = who /\ response' = s /\ raised' = "none"
    /\ UNCHANGED <<asked, session, response_started, status, sent, connection, cancelled_at>>
-----------------------------------------------------------------------------
(* Authentication: get_api_key_verifier, get_principal, verify, require_scopes. *)

VerifierMissing == path = "protected" /\ ~verifier /\ Raise("arrival", "503")
VerifierFound == path = "protected" /\ verifier /\ Continue("arrival", "key")

KeyMissing == ~key /\ Raise("key", "401")
KeyPresent == key /\ Continue("key", "clerk")

Ask(answers) ==
    /\ Go("clerk", "verdict")
    /\ answer' \in answers
    /\ UNCHANGED <<path, verifier, key, session, raised, sending, outside, cancelled_at>>

ClerkAnswers == Ask(Results \cup (NoResults \ {NoAnswer}))

\* Mutant: the call to Clerk has no timeout.
ClerkNeverTimesOut == FALSE

\* A timeout, or an error on the way: there are no retries.
ClerkFails == Ask({NoAnswer})

\* Mutant: a key that has been revoked is still good.
VerdictIgnoringRevocation(a) ==
    CASE a \in NoResults -> IF a.status \in {"400", "404"} THEN "invalid" ELSE "unavailable"
      [] OTHER -> IF a.expired \/ ~a.subject THEN "invalid" ELSE "principal"

Verdict(a) ==
    CASE a \in NoResults -> IF a.status \in {"400", "404"} THEN "invalid" ELSE "unavailable"
      [] OTHER -> IF a.expired \/ a.revoked \/ ~a.subject THEN "invalid" ELSE "principal"

KeyInvalid == Verdict(answer) = "invalid" /\ Raise("verdict", "401")
ClerkUnavailable == Verdict(answer) = "unavailable" /\ Raise("verdict", "503")
Authenticated == Verdict(answer) = "principal" /\ Continue("verdict", "scopes")

ScopesMissing == Raise("scopes", "403") /\ ~(Required \subseteq answer.scopes)
ScopesHeld == Continue("scopes", "session") /\ Required \subseteq answer.scopes
-----------------------------------------------------------------------------
(* The route. *)

\* The verifier is the last thing the lifespan binds, so the session factory
\* and the cache are there when it is.
OpenSession ==
    /\ Go("session", "params") /\ session' = "open"
    /\ UNCHANGED <<asked, raised, sending, outside, cancelled_at>>

ParamsInvalid == Raise("params", "422")
ParamsValid == Continue("params", "endpoint")

EndpointReturns ==
    /\ Respond("endpoint", "route", "200")
    /\ UNCHANGED log

\* No such item, PostgreSQL unavailable, or a bug.
EndpointRaises == \E e \in {"404", "503", "error"} : Raise("endpoint", e)
-----------------------------------------------------------------------------
(* The health routes, which ask for no key. *)

Healthy == path = "health" /\ Respond("arrival", "route", "200") /\ UNCHANGED log

\* Without the lifespan there is nothing to probe with.
ChecksMissing == path = "ready" /\ ~verifier /\ Raise("arrival", "error")
ChecksFound == path = "ready" /\ verifier /\ Continue("arrival", "readiness")

\* Mutant: a service that is down does not change the status.
ServicesReportedUp(ready) ==
    /\ Respond("readiness", "route", "200")
    /\ UNCHANGED log

ServicesReported(ready) ==
    /\ Respond("readiness", "route", IF ready THEN "200" ELSE "503")
    /\ UNCHANGED log

ServicesUnknown(e) == Raise("readiness", e)
-----------------------------------------------------------------------------
(* Sending a response: send_with_request_id, then the server's send. *)

\* Mutant: the status is not recorded.
WrapStartForgettingStatus ==
    /\ Go("start", "deliver")
    /\ response_started' = TRUE
    /\ UNCHANGED <<asked, session, raised, sender, response, status, outside, cancelled_at>>

WrapStart ==
    /\ Go("start", "deliver")
    /\ response_started' = TRUE /\ status' = response
    /\ UNCHANGED <<asked, session, raised, sender, response, outside, cancelled_at>>

DeliverStart ==
    /\ Go("deliver", "body")
    /\ sent' = Append(sent, response)
    /\ UNCHANGED <<asked, session, raised, sending, connection, log, cancelled_at>>

DeliverBody ==
    /\ Go("body", IF sender = "route" THEN "unwind" ELSE "finally")
    /\ sent' = Append(sent, "body")
    /\ UNCHANGED <<asked, session, raised, sending, connection, log, cancelled_at>>
-----------------------------------------------------------------------------
(* The way back. *)

Close == session' = IF session = "open" THEN "closed" ELSE session

\* Mutant: an exception passes the session by.
UnwindOnlyOnSuccess ==
    /\ Go("unwind", "dispatch")
    /\ IF raised = "none" THEN Close ELSE UNCHANGED session
    /\ UNCHANGED <<asked, raised, sending, outside, cancelled_at>>

\* get_session is left.
Unwind ==
    /\ Go("unwind", "dispatch")
    /\ Close
    /\ UNCHANGED <<asked, raised, sending, outside, cancelled_at>>

\* Closing the session fails, whatever was on its way before.
UnwindFails ==
    /\ session = "open"
    /\ Go("unwind", "dispatch")
    /\ Close /\ raised' = "error"
    /\ UNCHANGED <<asked, sending, outside, cancelled_at>>

NothingRaised == raised = "none" /\ Continue("dispatch", "finally")

\* http_exception_handler and validation_exception_handler.
Handle ==
    /\ raised \in Handled
    /\ Respond("dispatch", "handler", raised)
    /\ UNCHANGED log

NotHandled == raised \in {"error", "cancelled"} /\ Continue("dispatch", "middleware")
-----------------------------------------------------------------------------
(* The middleware. *)

\* Mutant: the middleware answers whether or not a response has started.
AnswerErrorAgain ==
    /\ raised = "error"
    /\ log' = Append(log, "unhandled")
    /\ Respond("middleware", "middleware", "500")

AnswerError ==
    /\ raised = "error" /\ ~response_started
    /\ log' = Append(log, "unhandled")
    /\ Respond("middleware", "middleware", "500")

\* Mutant: the exception ends here, after a response or a part of it.
SwallowError ==
    /\ raised = "error" /\ response_started
    /\ Go("middleware", "finally")
    /\ log' = Append(log, "unhandled") /\ raised' = "none"
    /\ UNCHANGED <<asked, session, sending, sent, connection, cancelled_at>>

RaiseAgain ==
    /\ raised = "error" /\ response_started
    /\ Go("middleware", "finally")
    /\ log' = Append(log, "unhandled")
    /\ UNCHANGED <<asked, session, raised, sending, sent, connection, cancelled_at>>

\* A cancellation is not an Exception.
NotCaught == raised = "cancelled" /\ Continue("middleware", "finally")

Finally ==
    /\ Go("finally", "server")
    /\ log' = Append(log, status)
    /\ UNCHANGED <<asked, session, raised, sending, sent, connection, cancelled_at>>
-----------------------------------------------------------------------------
(* The server. *)

Returned == raised = "none" /\ Continue("server", "over")

ServerAnswers ==
    /\ raised # "none" /\ sent = <<>>
    /\ Go("server", "over")
    /\ sent' = <<"500", "body">>
    /\ UNCHANGED <<asked, session, raised, sending, connection, log, cancelled_at>>

CloseConnection ==
    /\ raised # "none" /\ sent # <<>>
    /\ Go("server", "over")
    /\ connection' = "closed"
    /\ UNCHANGED <<asked, session, raised, sending, sent, log, cancelled_at>>

\* The server shuts down.  run() has its probes to await first.
CancelReadiness ==
    /\ at = "readiness" /\ cancelled_at = "nowhere"
    /\ cancelled_at' = at
    /\ UNCHANGED <<at, asked, session, raised, sending, outside>>

\* Elsewhere CancelledError is raised at the await, and goes on from there; a
\* session being closed is closed all the same.
Cancel ==
    /\ at \in Awaits \ {"readiness"} /\ cancelled_at = "nowhere"
    /\ cancelled_at' = at
    /\ raised' = "cancelled"
    /\ at' = CASE at = "unwind" -> "dispatch"
               [] at \in {"deliver", "body"} /\ sender = "handler" -> "middleware"
               [] at \in {"deliver", "body"} /\ sender = "middleware" -> "finally"
               [] OTHER -> "unwind"
    /\ IF at = "unwind" THEN Close ELSE UNCHANGED session
    /\ UNCHANGED <<asked, sending, outside>>
-----------------------------------------------------------------------------
Authenticate ==
    \/ VerifierMissing \/ VerifierFound \/ KeyMissing \/ KeyPresent \/ ClerkFails
    \/ KeyInvalid \/ ClerkUnavailable \/ Authenticated \/ ScopesMissing \/ ScopesHeld

Route == OpenSession \/ ParamsInvalid \/ ParamsValid \/ EndpointReturns \/ EndpointRaises

Health == Healthy \/ ChecksMissing \/ ChecksFound

Send == WrapStart \/ DeliverStart \/ DeliverBody

WayBack ==
    \/ Unwind \/ UnwindFails \/ NothingRaised \/ Handle \/ NotHandled
    \/ AnswerError \/ RaiseAgain \/ NotCaught \/ Finally

Server == Returned \/ ServerAnswers \/ CloseConnection

Next ==
    \/ Authenticate \/ ClerkAnswers \/ Route \/ Health \/ Send \/ WayBack \/ Server
    \/ \E ready \in BOOLEAN : ServicesReported(ready)
    \/ \E e \in {"error", "cancelled"} : ServicesUnknown(e)
    \/ Cancel \/ CancelReadiness

Spec == Init /\ [][Next]_vars
-----------------------------------------------------------------------------
Over == at = "over"
Completions == {i \in 1 .. Len(log) : log[i] # "unhandled"}

\* However a request fails, and wherever it is cancelled, the client gets one
\* complete response, or a connection closed on it; and what goes out never
\* becomes a second response.
OneResponse ==
    /\ \A i \in 1 .. Len(sent) : sent[i] = "body" <=> i = 2
    /\ Over => Len(sent) = 2 \/ connection = "closed"

\* request_completed is logged once, at the end, with the status the client
\* got; it may differ only for a request cancelled just as its response starts.
LogTellsStatus ==
    /\ Completions = IF at \in {"server", "over"} THEN {Len(log)} ELSE {}
    /\ Over => log[Len(log)] = status
    /\ Over /\ cancelled_at # "deliver" => sent # <<>> /\ sent[1] = status

\* An error that is logged is never hidden from the client: it gets a 500, or
\* the end of its connection, even when a complete response went out before.
ErrorsSurface ==
    Over /\ (\E i \in 1 .. Len(log) : log[i] = "unhandled") =>
        sent = <<"500", "body">> \/ connection = "closed"

\* A caller who does not hold a live key with the scopes neither costs a
\* database session nor learns what the catalog or a validation says.
Authorised ==
    /\ key /\ answer \in Results
    /\ ~answer.expired /\ ~answer.revoked /\ answer.subject
    /\ Required \subseteq answer.scopes

UnauthorisedLearnsNothing ==
    path = "protected" /\ (session # "none" \/ (sent # <<>> /\ sent[1] \in {"200", "404", "422"}))
        => Authorised

\* The session of a request is closed by the time the request is logged, and
\* before an error response starts.
SessionClosed ==
    /\ at \in {"server", "over"} => session # "open"
    /\ sender # "route" /\ sent # <<>> => session # "open"
=============================================================================
