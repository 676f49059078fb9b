-------------------------- MODULE ApplicationProofs --------------------------
(***************************************************************************)
(* Proofs about Application: what the lifespan and the readiness checks    *)
(* promise on their own, they promise composed, since a step of the whole  *)
(* is one of theirs or leaves them alone.                                  *)
(***************************************************************************)
EXTENDS Application, SequenceTheorems, TLAPS

\* The callbacks on the stack are those of the clients not yet closed, which is
\* the older part of what was created; closing begins when the lifespan is left.
StackHoldsOpen ==
    /\ Len(stack) + Len(released) = Len(created)
    /\ \A i \in 1 .. Len(stack) : stack[i] = created[i]
    /\ \A i \in 1 .. Len(released) : released[i] = created[Len(created) + 1 - i]
    /\ phase = "settings" => created = <<>> /\ stack = <<>>
    /\ phase \notin {"leaving", "stopped"} => released = <<>>
    /\ phase = "stopped" => stack = <<>>

LifespanInductive == LifespanTypeOK /\ StackHoldsOpen

LEMMA OrdersAreSequences == \A o \in Orders : o \in Seq(Clients)
  <1>1. <<"engine", "redis">> \in Seq(Clients)
    BY DEF Clients
  <1>2. <<"engine", "redis", "clerk">> \in Seq(Clients)
    BY DEF Clients
  <1>. QED
    BY <1>1, <1>2 DEF Orders

\* The exit stack grows and shrinks at its end.
LEMMA Pushed ==
    ASSUME NEW s \in Seq(Clients), NEW c \in Clients
    PROVE  /\ Append(s, c) \in Seq(Clients)
           /\ Len(Append(s, c)) = Len(s) + 1
           /\ \A i \in 1 .. Len(s) : Append(s, c)[i] = s[i]
           /\ Append(s, c)[Len(s) + 1] = c
  OBVIOUS

LEMMA Popped ==
    ASSUME NEW s \in Seq(Clients), s # <<>>
    PROVE  /\ SubSeq(s, 1, Len(s) - 1) \in Seq(Clients)
           /\ Len(SubSeq(s, 1, Len(s) - 1)) = Len(s) - 1
           /\ \A i \in 1 .. Len(s) - 1 : SubSeq(s, 1, Len(s) - 1)[i] = s[i]
           /\ s[Len(s)] \in Clients /\ Len(s) \in Nat \ {0}
  <1>. DEFINE n == Len(s) - 1
              t == SubSeq(s, 1, n)
  <1>1. Len(s) \in Nat \ {0} /\ n \in Int
    BY EmptySeq, s \in Seq(Clients), s # <<>>
  <1>2. /\ s[Len(s)] \in Clients
        /\ \A i \in 1 .. n : s[i] \in Clients
    BY <1>1
  <1>. HIDE DEF n
  <1>3. /\ t \in Seq(Clients)
        /\ Len(t) = IF 1 <= n THEN n - 1 + 1 ELSE 0
        /\ \A i \in 1 .. n - 1 + 1 : t[i] = s[1 + i - 1]
    BY <1>1, <1>2, SubSeqProperties
  <1>. HIDE DEF t
  <1>4. /\ t \in Seq(Clients) /\ Len(t) = n
        /\ \A i \in 1 .. n : t[i] = s[i]
    <2>1. n \in Nat /\ n - 1 + 1 = n /\ \A i \in 1 .. n : 1 + i - 1 = i
      BY <1>1 DEF n
    <2>2. Len(t) = n
      BY <1>3, <2>1
    <2>. QED
      BY <1>3, <2>1, <2>2
  <1>. QED
    BY <1>1, <1>2, <1>4 DEF n, t

LEMMA LifespanBegins == LifespanInit => LifespanInductive
  <1>. SUFFICES ASSUME LifespanInit PROVE LifespanInductive
    OBVIOUS
  <1>1. /\ stack = <<>> /\ created = <<>> /\ released = <<>>
        /\ Len(<<>>) = 0 /\ <<>> \in Seq(Clients)
    BY EmptySeq DEF LifespanInit
  <1>2. StackHoldsOpen
    BY <1>1 DEF StackHoldsOpen, LifespanInit
  <1>3. LifespanTypeOK
    BY <1>1 DEF LifespanInit, LifespanTypeOK
  <1>. QED
    BY <1>2, <1>3 DEF LifespanInductive

LEMMA LifespanPreserves ==
    ASSUME LifespanInductive, [LifespanNext]_lifeVars
    PROVE  LifespanInductive'
  <1>. USE DEF LifespanInductive, LifespanTypeOK, StackHoldsOpen
  <1>1. CASE UNCHANGED lifeVars
    BY <1>1 DEF lifeVars
  <1>2. CASE SettingsRead
    BY <1>2 DEF SettingsRead, Enter
  <1>3. CASE SettingsInvalid
    BY <1>3 DEF SettingsInvalid, Enter, Fail
  <1>4. CASE CreateClient
    <2>1. NextClient \in Clients
      BY <1>4, OrdersAreSequences DEF CreateClient, NextClient
    <2>2. /\ created' = Append(created, NextClient) /\ stack' = Append(stack, NextClient)
          /\ UNCHANGED <<phase, connections, order, released, error>>
          /\ phase = "creating"
      BY <1>4 DEF CreateClient
    <2>3. released = <<>> /\ Len(stack) = Len(created)
      BY <2>2
    <2>. QED
      BY <2>1, <2>2, <2>3, Pushed
  <1>5. CASE CreateFails
    BY <1>5 DEF CreateFails, Enter, Fail
  <1>6. CASE Serve \/ Stop \/ Drained \/ Interrupted \/ Left
    BY <1>6 DEF Serve, Stop, Drained, Interrupted, Left, Enter, Fail
  <1>7. CASE CloseClient \/ CloseClientFails
    <2>1. /\ phase = "leaving" /\ stack # <<>>
          /\ stack' = SubSeq(stack, 1, Len(stack) - 1)
          /\ released' = Append(released, stack[Len(stack)])
          /\ UNCHANGED <<phase, connections, order, created>>
          /\ error' \in BOOLEAN
      BY <1>7 DEF CloseClient, CloseClientFails, Pop, Fail
    <2>2. stack[Len(stack)] = created[Len(created) + 1 - (Len(released) + 1)]
      BY <2>1, Popped
    <2>3. /\ released' \in Seq(Clients) /\ Len(released') = Len(released) + 1
          /\ \A i \in 1 .. Len(released) : released'[i] = released[i]
          /\ released'[Len(released) + 1] = stack[Len(stack)]
      BY <2>1, Popped, Pushed
    <2>4. /\ stack' \in Seq(Clients) /\ Len(stack') = Len(stack) - 1
          /\ \A i \in 1 .. Len(stack') : stack'[i] = stack[i]
      BY <2>1, Popped
    <2>5. \A i \in 1 .. Len(released') : released'[i] = created[Len(created) + 1 - i]
      BY <2>2, <2>3
    <2>6. LifespanTypeOK'
      BY <2>1, <2>3, <2>4
    <2>7. Len(stack') + Len(released') = Len(created')
      <3>1. Len(stack) \in Nat /\ Len(released) \in Nat /\ Len(created') = Len(created)
        BY <2>1
      <3>2. Len(stack) + Len(released) = Len(created)
        OBVIOUS
      <3>3. Len(stack') = Len(stack) - 1 /\ Len(released') = Len(released) + 1
        BY <2>3, <2>4
      <3>. HIDE DEF LifespanInductive, LifespanTypeOK, StackHoldsOpen
      <3>. QED
        BY <3>1, <3>2, <3>3
    <2>8. \A i \in 1 .. Len(stack') : stack'[i] = created'[i]
      BY <2>1, <2>4
    <2>9. StackHoldsOpen'
      BY <2>1, <2>5, <2>7, <2>8
    <2>. QED
      BY <2>6, <2>9
  <1>. QED
    BY <1>1, <1>2, <1>3, <1>4, <1>5, <1>6, <1>7 DEF LifespanNext, Start, Leave

LEMMA LifespanSteps ==
    ASSUME [AppNext]_appVars
    PROVE  [LifespanNext]_lifeVars
  BY DEF AppNext, appVars, Finish, Lives, Bind, Interrupt, Runs, ProbeServices,
         AnswerServices, RaiseServices, Probing, LifespanNext

LEMMA LifespanHolds == AppSpec => []LifespanInductive
  <1>1. AppInit => LifespanInductive
    BY LifespanBegins DEF AppInit
  <1>2. LifespanInductive /\ [AppNext]_appVars => LifespanInductive'
    BY LifespanSteps, LifespanPreserves
  <1>. QED
    BY <1>1, <1>2, PTL DEF AppSpec

\* ClientsReleased: however the lifespan ends, every client created has been
\* closed, once and in reverse, whatever the requests and the probes do meanwhile.
THEOREM ReleasedInReverse == AppSpec => []ClientsReleased
  <1>1. LifespanInductive => ClientsReleased
    BY DEF LifespanInductive, LifespanTypeOK, StackHoldsOpen, ClientsReleased
  <1>. QED
    BY <1>1, LifespanHolds, PTL
-----------------------------------------------------------------------------
(* The settings. *)

\* A host parameter that is let through names a socket of this machine.
LEMMA ParametersAreSockets ==
    ASSUME NEW u \in DatabaseUrls, ValidDatabaseUrl(u), u.hosts # <<>>
    PROVE  /\ u.hostname = "none"
           /\ Values(u, {"host"}) # {} /\ Values(u, {"host"}) \subseteq {"approved", "socket"}
  <1>1. UnixSocket(u)
    BY DEF ValidDatabaseUrl
  <1>2. u.hostname = "none" /\ Len(u.hosts) = 1 /\ Keys(u) = {"host"}
        /\ Values(u, {"host"}) \subseteq {"approved", "socket"}
    BY <1>1 DEF UnixSocket
  <1>3. u.hosts[1].key \in {"host"} /\ 1 \in 1 .. Len(u.hosts)
    BY <1>2 DEF Keys
  <1>4. u.hosts[1].value \in Values(u, {"host"})
    BY <1>3 DEF Values
  <1>. QED
    BY <1>2, <1>4

\* What leaves the machine goes to the host of a URL that requires TLS, or to one
\* that only the environment of the process names.
LEMMA TargetsAreSafe ==
    ASSUME NEW c \in Configurations, ValidDatabaseUrl(c.database), "remote" \in Targets(c)
    PROVE  \/ DatabaseRequiresTls(c.database)
           \/ c.database.hostname = "none" /\ c.database.hosts = <<>> /\ c.pghost
  <1>. DEFINE u == c.database
              V == Values(u, {"host"})
  <1>1. u \in DatabaseUrls
    BY DEF Configurations
  <1>2. CASE u.hosts # <<>>
    BY <1>1, <1>2, ParametersAreSockets DEF Targets
  <1>3. CASE u.hosts = <<>>
    <2>1. V = {}
      BY <1>3 DEF Values
    <2>. QED
      BY <1>3, <2>1 DEF Targets, DatabaseRequiresTls
  <1>. QED
    BY <1>2, <1>3

\* In production the environment of the process names none.
LEMMA RuntimeIsProtected ==
    ASSUME NEW n \in RuntimeConnections, n.production
    PROVE  Protected(n)
  <1>1. PICK c \in Configurations : RuntimeAccepts(c) /\ n = Connections(c)
    BY DEF RuntimeConnections
  <1>2. c.environment = "production"
    BY <1>1 DEF Connections
  <1>3. "remote" \in Targets(c) => DatabaseRequiresTls(c.database)
    BY <1>1, <1>2, TargetsAreSafe DEF RuntimeAccepts, PostgresAccepts
  <1>4. c.redis.hostname = "remote" => c.redis.rediss /\ c.redis.password
    BY <1>1, <1>2 DEF RuntimeAccepts, RedisAccepts
  <1>. QED
    BY <1>1, <1>3, <1>4 DEF Connections, Reach, Protected

\* ProductionProtected: no configuration that the settings accept has a production
\* server send queries or commands of Redis to another machine unprotected.
THEOREM ProductionStaysProtected == AppSpec => []ProductionProtected
  <1>1. LifespanInductive => ProductionProtected
    BY RuntimeIsProtected
    DEF LifespanInductive, LifespanTypeOK, ProductionProtected, NoConnections
  <1>. QED
    BY <1>1, LifespanHolds, PTL
-----------------------------------------------------------------------------
(* The readiness checks, for any number of probes, whatever the dependencies *)
(* do, and however often the request is cancelled.                           *)

\* A probe fails only by a bug of its own, unless somebody cancels it.
ErrorsAreBugs ==
    \A p \in Probes : outcome[p] = "error" => dependency[p] = "breaks"

\* Nobody does while run() gathers the probes of a request still wanted.
CancelledOnPurpose ==
    run = "gather" /\ ~interrupted =>
        \A p \in Probes : ~cancelling[p] /\ outcome[p] # "cancelled"

ProbesInductive ==
    /\ Checks!TypeOK
    /\ ErrorsAreBugs
    /\ CancelledOnPurpose
    /\ Checks!NoProbeOutlivesRun
    /\ Checks!DownIsReported

USE DEF Checks!vars, Checks!Behaviours, Checks!Done, Checks!Failed

LEMMA ProbesBegin == Checks!Init => ProbesInductive
  BY DEF Checks!Init, ProbesInductive, Checks!TypeOK, ErrorsAreBugs, CancelledOnPurpose,
      Checks!NoProbeOutlivesRun, Checks!DownIsReported

\* A probe on its way disturbs neither the others nor run().
LEMMA ProbesPreserve ==
    ASSUME ProbesInductive, NEW p \in Probes, Checks!ProbeStep(p)
    PROVE  ProbesInductive'
  <1>. USE DEF ProbesInductive, Checks!TypeOK, ErrorsAreBugs, CancelledOnPurpose,
           Checks!NoProbeOutlivesRun, Checks!DownIsReported, Checks!Enter
  <1>1. CASE Checks!Start(p)
    BY <1>1 DEF Checks!Start
  <1>2. CASE Checks!Answer(p) \/ Checks!Refuse(p) \/ Checks!Break(p) \/ Checks!TimeOut(p)
    BY <1>2 DEF Checks!Answer, Checks!Refuse, Checks!Break, Checks!TimeOut, Checks!Conclude
  <1>3. CASE Checks!Finish(p)
    BY <1>3 DEF Checks!Finish
  <1>4. CASE Checks!Cancelled(p)
    BY <1>4 DEF Checks!Cancelled
  <1>. QED
    BY <1>1, <1>2, <1>3, <1>4 DEF Checks!ProbeStep

LEMMA RunPreserves ==
    ASSUME ProbesInductive, Checks!RunStep \/ Checks!CancelRequest
    PROVE  ProbesInductive'
  <1>. USE DEF ProbesInductive, Checks!TypeOK, ErrorsAreBugs, CancelledOnPurpose,
           Checks!NoProbeOutlivesRun, Checks!DownIsReported, Checks!CancelProbes
  <1>1. CASE Checks!GatherReturns
    BY <1>1 DEF Checks!GatherReturns
  <1>2. CASE Checks!GatherRaises
    BY <1>2 DEF Checks!GatherRaises
  <1>3. CASE Checks!CleanupEnds
    BY <1>3 DEF Checks!CleanupEnds
  <1>4. CASE Checks!CancelRequest
    BY <1>4 DEF Checks!CancelRequest
  <1>. QED
    BY <1>1, <1>2, <1>3, <1>4 DEF Checks!RunStep

LEMMA ProbesHold == Checks!Spec => []ProbesInductive
  <1>1. ProbesInductive /\ [Checks!Next]_Checks!vars => ProbesInductive'
    <2>. SUFFICES ASSUME ProbesInductive, [Checks!Next]_Checks!vars PROVE ProbesInductive'
      OBVIOUS
    <2>1. CASE \E p \in Probes : Checks!ProbeStep(p)
      BY <2>1, ProbesPreserve
    <2>2. CASE Checks!RunStep \/ Checks!CancelRequest
      BY <2>2, RunPreserves
    <2>3. CASE UNCHANGED Checks!vars
      BY <2>3 DEF ProbesInductive, Checks!TypeOK, ErrorsAreBugs, CancelledOnPurpose,
                  Checks!NoProbeOutlivesRun, Checks!DownIsReported
    <2>. QED
      BY <2>1, <2>2, <2>3 DEF Checks!Next
  <1>. QED
    BY <1>1, ProbesBegin, PTL DEF Checks!Spec

\* run() and the probes stay within their types.
THEOREM ProbesTypeCorrect == Checks!Spec => []Checks!TypeOK
  <1>1. ProbesInductive => Checks!TypeOK
    BY DEF ProbesInductive
  <1>. QED
    BY <1>1, ProbesHold, PTL

\* Whichever way run() ends, no probe is left running behind it.
THEOREM NothingLeftBehind == Checks!Spec => []Checks!NoProbeOutlivesRun
  <1>1. ProbesInductive => Checks!NoProbeOutlivesRun
    BY DEF ProbesInductive
  <1>. QED
    BY <1>1, ProbesHold, PTL

\* Only a bug or a cancelled request keeps run() from reporting.
THEOREM OutagesAreReported == Checks!Spec => []Checks!DownIsReported
  <1>1. ProbesInductive => Checks!DownIsReported
    BY DEF ProbesInductive
  <1>. QED
    BY <1>1, ProbesHold, PTL

LEMMA AppBeginsProbes ==
    ASSUME AppInit
    PROVE  Checks!Init
  BY DEF AppInit

LEMMA AppStepsProbes ==
    ASSUME [AppNext]_appVars
    PROVE  [Checks!Next]_Checks!vars
  BY DEF AppNext, appVars, probeVars, Finish, Lives, Bind, Interrupt, Runs, ProbeServices,
         AnswerServices, RaiseServices, Probing, Checks!Next, Checks!RunStep

LEMMA ChecksHold == AppSpec => []ProbesInductive
  <1>1. AppInit => Checks!Init
    BY AppBeginsProbes
  <1>2. [AppNext]_appVars => [Checks!Next]_Checks!vars
    BY AppStepsProbes
  <1>. QED
    BY <1>1, <1>2, ProbesHold, PTL DEF AppSpec, Checks!Spec

\* NoProbeOutlivesRun: no probe is left running behind a request for readiness,
\* wherever the server is when the request is cancelled.
THEOREM ProbesEnd == AppSpec => []NoProbeOutlivesRun
  <1>1. ProbesInductive => NoProbeOutlivesRun
    BY DEF ProbesInductive, NoProbeOutlivesRun
  <1>. QED
    BY <1>1, ChecksHold, PTL
-----------------------------------------------------------------------------
(* One request by itself, for any scopes, whatever Clerk answers, which step  *)
(* fails, and wherever it is cancelled.                                      *)

Before == {"arrival", "readiness", "key", "clerk", "verdict", "scopes", "session",
           "params", "endpoint"}
Sending == {"start", "deliver", "body"}
Leaving == {"unwind", "dispatch", "middleware"}
Ending == {"finally", "server"}

\* The whole of the response, and what the server says in its place.
Whole == <<response, "body">>
Instead == <<"500", "body">>

\* Nothing has been sent or logged, and nobody is about to.
Silent == ~response_started /\ sent = <<>> /\ sender = "route" /\ log = <<>>

\* What is on its way, outwards or to the client, at each place.
PlacesHold ==
    /\ at \in Before => Silent /\ raised = "none"
    /\ at = "start" => ~response_started /\ raised = "none"
    /\ at \in {"deliver", "body"} => response_started /\ raised = "none"
    /\ at \in {"unwind", "dispatch"} => sender = "route"
    /\ at = "middleware" => raised \in {"error", "cancelled"} /\ sender # "middleware"
    /\ at \in Ending => raised \in {"none", "error", "cancelled"}
    /\ raised \in Handled => at \in {"unwind", "dispatch"} /\ Silent

\* What the client has, and that the middleware has seen it.
SentHolds ==
    /\ sent \in {<<>>, <<response>>, Whole} \/ (Over /\ sent = Instead)
    /\ at \in {"start", "deliver"} => sent = <<>>
    /\ at = "body" => sent = <<response>>
    /\ at \in {"unwind", "dispatch", "over"} \cup Ending /\ raised = "none" =>
          sent = Whole /\ response_started
    /\ response_started => status = response
    /\ ~response_started => status = "500" /\ (sent = <<>> \/ (Over /\ sent = Instead))
    /\ response_started /\ at # "deliver" =>
          sent \in {<<response>>, Whole} \/ cancelled_at = "deliver"
    /\ Over => sent \in {Whole, Instead} \/ (sent = <<response>> /\ connection = "closed")

\* What is logged, and that an error that is goes on to the client.
LogHolds ==
    /\ at \in Leaving => log = <<>>
    /\ at \in {"server", "over"} => log \in {<<status>>, <<"unhandled", status>>}
    /\ at \notin {"server", "over"} => log \in {<<>>, <<"unhandled">>}
    /\ at \in Sending /\ sender # "middleware" => log = <<>>
    /\ sender = "middleware" => response = "500" /\ at \notin Before \cup Leaving
    /\ log \in {<<"unhandled">>, <<"unhandled", status>>} =>
          \/ sender = "middleware"
          \/ at \in Ending /\ raised = "error"
          \/ Over /\ (connection = "closed" \/ sent = Instead)

\* Where a session may be open.
SessionHolds ==
    /\ session = "open" => at \in {"params", "endpoint", "unwind"} \cup Sending /\ sender = "route"
    /\ session # "none" => path = "protected"
    /\ at \in Before \ {"params", "endpoint"} => session = "none"

\* How far a protected route lets a caller who is not authorised.
AuthorityHolds ==
    path = "protected" =>
        /\ at \in {"clerk", "verdict", "scopes"} => key
        /\ at = "scopes" => Verdict(answer) = "principal"
        /\ (\/ at \in {"session", "params", "endpoint"} \/ session # "none"
            \/ raised \in {"404", "422"}
            \/ (at = "start" \/ response_started) /\ response \in {"200", "404", "422"})
              => Authorised

PathHolds ==
    /\ at \in {"key", "clerk", "verdict", "scopes", "session", "params", "endpoint"} =>
          path = "protected"
    /\ at = "readiness" => path = "ready" /\ verifier

RequestInductive ==
    /\ TypeOK /\ PlacesHold /\ SentHolds /\ LogHolds
    /\ SessionHolds /\ AuthorityHolds /\ PathHolds

\* Sequences as short as these are what they look like.
LEMMA AppendToOne == ASSUME NEW a, NEW b PROVE Append(<<a>>, b) = <<a, b>>
  <1>. DEFINE S == {a, b}
  <1>1. <<a>> \in Seq(S) /\ <<a, b>> \in Seq(S) /\ b \in S
    OBVIOUS
  <1>2. Len(<<a>>) = 1 /\ <<a>>[1] = a /\ Len(<<a, b>>) = 2 /\ <<a, b>>[1] = a /\ <<a, b>>[2] = b
    OBVIOUS
  <1>. HIDE DEF S
  <1>3. /\ Append(<<a>>, b) \in Seq(S) /\ Len(Append(<<a>>, b)) = 2
        /\ Append(<<a>>, b)[1] = a /\ Append(<<a>>, b)[2] = b
    BY <1>1, <1>2, AppendProperties
  <1>4. \A i \in 1 .. 2 : Append(<<a>>, b)[i] = <<a, b>>[i]
    <2>1. \A i \in 1 .. 2 : i = 1 \/ i = 2
      OBVIOUS
    <2>. QED
      BY <1>2, <1>3, <2>1
  <1>. DEFINE s == Append(<<a>>, b)
              t == <<a, b>>
  <1>5. s \in Seq(S) /\ t \in Seq(S) /\ Len(s) = Len(t) /\ \A i \in 1 .. Len(s) : s[i] = t[i]
    BY <1>1, <1>2, <1>3, <1>4
  <1>6. s = t
    <2>. HIDE DEF s, t
    <2>. QED
      BY <1>5, SeqEqual
  <1>. QED
    BY <1>6

LEMMA ShortSequences ==
    ASSUME NEW a, NEW b
    PROVE  /\ Append(<<>>, a) = <<a>> /\ Append(<<a>>, b) = <<a, b>>
           /\ <<a>> # <<>> /\ <<a, b>> # <<>>
           /\ Len(<<>>) = 0 /\ Len(<<a>>) = 1 /\ Len(<<a, b>>) = 2
           /\ <<a>>[1] = a /\ <<a, b>>[1] = a /\ <<a, b>>[2] = b
           /\ \A c : <<a, b>> # <<c>>
           /\ \A S : a \in S => <<a>> \in Seq(S)
           /\ \A S : a \in S /\ b \in S => <<a, b>> \in Seq(S)
           /\ \A S : <<>> \in Seq(S)
  <1>1. Append(<<>>, a) = <<a>> /\ <<a>> # <<>> /\ <<a, b>> # <<>>
    OBVIOUS
  <1>2. Len(<<>>) = 0 /\ Len(<<a>>) = 1 /\ Len(<<a, b>>) = 2
    OBVIOUS
  <1>3. <<a>>[1] = a /\ <<a, b>>[1] = a /\ <<a, b>>[2] = b
    OBVIOUS
  <1>4. \A c : <<a, b>> # <<c>>
    OBVIOUS
  <1>5. /\ \A S : a \in S => <<a>> \in Seq(S)
        /\ \A S : a \in S /\ b \in S => <<a, b>> \in Seq(S)
        /\ \A S : <<>> \in Seq(S)
    OBVIOUS
  <1>. QED
    BY AppendToOne, <1>1, <1>2, <1>3, <1>4, <1>5

USE DEF Before, Sending, Leaving, Ending, Whole, Instead, Silent, Over, Handled, Statuses,
        Awaits, asked, sending, outside

LEMMA RequestBegins == Init => RequestInductive
  BY ShortSequences DEF Init, RequestInductive, TypeOK, PlacesHold, SentHolds, LogHolds,
     SessionHolds, AuthorityHolds, PathHolds, NoAnswer, NoResults

LEMMA AuthenticatePreserves ==
    ASSUME RequestInductive, Authenticate \/ ClerkAnswers
    PROVE  RequestInductive'
  <1>. USE ShortSequences
       DEF RequestInductive, TypeOK, PlacesHold, SentHolds, LogHolds, SessionHolds,
           AuthorityHolds, PathHolds, Authorised, Go, Continue, Raise
  <1>1. CASE VerifierMissing
    BY <1>1 DEF VerifierMissing
  <1>2. CASE VerifierFound
    BY <1>2 DEF VerifierFound
  <1>3. CASE KeyMissing
    BY <1>3 DEF KeyMissing
  <1>4. CASE KeyPresent
    BY <1>4 DEF KeyPresent
  <1>5. CASE ClerkFails
    BY <1>5 DEF ClerkFails, Ask, NoAnswer, NoResults
  <1>6. CASE ClerkAnswers
    BY <1>6 DEF ClerkAnswers, Ask, NoAnswer
  <1>7. CASE KeyInvalid
    BY <1>7 DEF KeyInvalid
  <1>8. CASE ClerkUnavailable
    BY <1>8 DEF ClerkUnavailable
  <1>9. CASE Authenticated
    BY <1>9 DEF Authenticated, Verdict
  <1>10. CASE ScopesMissing
    BY <1>10 DEF ScopesMissing
  <1>11. CASE ScopesHeld
    BY <1>11 DEF ScopesHeld, Verdict
  <1>. HIDE DEF RequestInductive
  <1>. QED
    BY <1>1, <1>2, <1>3, <1>4, <1>5, <1>6, <1>7, <1>8, <1>9, <1>10, <1>11 DEF Authenticate

LEMMA RoutePreserves ==
    ASSUME RequestInductive, Route
    PROVE  RequestInductive'
  <1>. USE ShortSequences
       DEF RequestInductive, TypeOK, PlacesHold, SentHolds, LogHolds, SessionHolds,
           AuthorityHolds, PathHolds, Authorised, Go, Continue, Raise
  <1>1. CASE OpenSession
    BY <1>1 DEF OpenSession
  <1>2. CASE ParamsInvalid
    BY <1>2 DEF ParamsInvalid
  <1>3. CASE ParamsValid
    BY <1>3 DEF ParamsValid
  <1>4. CASE EndpointReturns
    BY <1>4 DEF EndpointReturns, Respond
  <1>5. CASE EndpointRaises
    BY <1>5 DEF EndpointRaises
  <1>. HIDE DEF RequestInductive
  <1>. QED
    BY <1>1, <1>2, <1>3, <1>4, <1>5 DEF Route

LEMMA HealthPreserves ==
    ASSUME RequestInductive, Health \/ (\E ready \in BOOLEAN : ServicesReported(ready)) \/ (\E e \in {"error", "cancelled"} : ServicesUnknown(e))
    PROVE  RequestInductive'
  <1>. USE ShortSequences
       DEF RequestInductive, TypeOK, PlacesHold, SentHolds, LogHolds, SessionHolds,
           AuthorityHolds, PathHolds, Authorised, Go, Continue, Raise
  <1>1. CASE Healthy
    BY <1>1 DEF Healthy, Respond
  <1>2. CASE ChecksMissing
    BY <1>2 DEF ChecksMissing
  <1>3. CASE ChecksFound
    BY <1>3 DEF ChecksFound
  <1>4. ASSUME NEW ready \in BOOLEAN, ServicesReported(ready) PROVE RequestInductive'
    BY <1>4 DEF ServicesReported, Respond
  <1>5. ASSUME NEW e \in {"error", "cancelled"}, ServicesUnknown(e) PROVE RequestInductive'
    BY <1>5 DEF ServicesUnknown
  <1>. HIDE DEF RequestInductive
  <1>. QED
    BY <1>1, <1>2, <1>3, <1>4, <1>5 DEF Health

LEMMA SendPreserves ==
    ASSUME RequestInductive, Send
    PROVE  RequestInductive'
  <1>. USE ShortSequences
       DEF RequestInductive, TypeOK, PlacesHold, SentHolds, LogHolds, SessionHolds,
           AuthorityHolds, PathHolds, Authorised, Go, Continue, Raise
  <1>1. CASE WrapStart
    BY <1>1 DEF WrapStart
  <1>2. CASE DeliverStart
    BY <1>2 DEF DeliverStart
  <1>3. CASE DeliverBody
    <2>1. Append(<<response>>, "body") = <<response, "body">>
      BY AppendToOne
    <2>2. sent' = <<response, "body">> /\ sent # <<>>
      BY <1>3, <2>1 DEF DeliverBody
    <2>3. TypeOK'
      BY <1>3, <2>2 DEF DeliverBody
    <2>4. PlacesHold' /\ SessionHolds' /\ AuthorityHolds' /\ PathHolds'
      BY <1>3, <2>2 DEF DeliverBody
    <2>5. SentHolds'
      BY <1>3, <2>2 DEF DeliverBody
    <2>6. LogHolds'
      BY <1>3, <2>2 DEF DeliverBody
    <2>. QED
      BY <2>3, <2>4, <2>5, <2>6
  <1>. HIDE DEF RequestInductive
  <1>. QED
    BY <1>1, <1>2, <1>3 DEF Send

LEMMA WayBackPreserves ==
    ASSUME RequestInductive, WayBack
    PROVE  RequestInductive'
  <1>. USE ShortSequences
       DEF RequestInductive, TypeOK, PlacesHold, SentHolds, LogHolds, SessionHolds,
           AuthorityHolds, PathHolds, Authorised, Go, Continue, Raise
  <1>1. CASE Unwind
    BY <1>1 DEF Unwind, Close
  <1>2. CASE UnwindFails
    BY <1>2 DEF UnwindFails, Close
  <1>3. CASE NothingRaised
    BY <1>3 DEF NothingRaised
  <1>4. CASE Handle
    BY <1>4 DEF Handle, Respond
  <1>5. CASE NotHandled
    BY <1>5 DEF NotHandled
  <1>6. CASE AnswerError
    BY <1>6 DEF AnswerError, Respond
  <1>7. CASE RaiseAgain
    BY <1>7 DEF RaiseAgain
  <1>8. CASE NotCaught
    BY <1>8 DEF NotCaught
  <1>9. CASE Finally
    <2>1. log \in {<<>>, <<"unhandled">>}
      BY <1>9 DEF Finally
    <2>2. log' \in {<<status>>, <<"unhandled", status>>}
      <3>1. Append(<<>>, status) = <<status>> /\ Append(<<"unhandled">>, status) = <<"unhandled", status>>
        BY ShortSequences
      <3>. QED
        BY <1>9, <2>1, <3>1 DEF Finally
    <2>3. TypeOK'
      BY <1>9, <2>2 DEF Finally
    <2>4. PlacesHold' /\ SessionHolds' /\ AuthorityHolds' /\ PathHolds'
      BY <1>9 DEF Finally
    <2>5. SentHolds'
      BY <1>9 DEF Finally
    <2>6. LogHolds'
      BY <1>9, <2>1, <2>2 DEF Finally
    <2>. QED
      BY <2>3, <2>4, <2>5, <2>6
  <1>. HIDE DEF RequestInductive
  <1>. QED
    BY <1>1, <1>2, <1>3, <1>4, <1>5, <1>6, <1>7, <1>8, <1>9 DEF WayBack

LEMMA ServerPreserves ==
    ASSUME RequestInductive, Server \/ Cancel \/ CancelReadiness
    PROVE  RequestInductive'
  <1>. USE ShortSequences
       DEF RequestInductive, TypeOK, PlacesHold, SentHolds, LogHolds, SessionHolds,
           AuthorityHolds, PathHolds, Authorised, Go, Continue, Raise
  <1>1. CASE Returned
    BY <1>1 DEF Returned
  <1>2. CASE ServerAnswers
    BY <1>2 DEF ServerAnswers
  <1>3. CASE CloseConnection
    BY <1>3 DEF CloseConnection
  <1>4. CASE CancelReadiness
    BY <1>4 DEF CancelReadiness
  <1>5. CASE Cancel
    <2>1. CASE at = "unwind"
      BY <1>5, <2>1 DEF Cancel, Close
    <2>2. CASE at \in {"deliver", "body"}
      BY <1>5, <2>2 DEF Cancel, Close
    <2>3. CASE at \in {"clerk", "endpoint"}
      BY <1>5, <2>3 DEF Cancel, Close
    <2>. QED
      BY <1>5, <2>1, <2>2, <2>3 DEF Cancel
  <1>. HIDE DEF RequestInductive
  <1>. QED
    BY <1>1, <1>2, <1>3, <1>4, <1>5 DEF Server

LEMMA RequestPreserves ==
    ASSUME RequestInductive, [Next]_vars
    PROVE  RequestInductive'
  <1>1. CASE UNCHANGED vars
    BY <1>1 DEF vars, RequestInductive, TypeOK, PlacesHold, SentHolds, LogHolds, SessionHolds,
                AuthorityHolds, PathHolds, Authorised
  <1>. QED
    BY <1>1, AuthenticatePreserves, RoutePreserves, HealthPreserves, SendPreserves,
       WayBackPreserves, ServerPreserves DEF Next

\* RequestInductive says what has been sent, logged, raised and opened at each
\* place of a request; the properties below are read off it.
LEMMA InductiveHolds == Spec => []RequestInductive
  BY RequestBegins, RequestPreserves, PTL DEF Spec
-----------------------------------------------------------------------------
LEMMA OneResponseFollows == RequestInductive => OneResponse
  <1>. SUFFICES ASSUME RequestInductive PROVE OneResponse
    OBVIOUS
  <1>1. response # "body"
    BY DEF RequestInductive, TypeOK
  <1>2. sent \in {<<>>, <<response>>, Whole, Instead}
    BY DEF RequestInductive, SentHolds
  <1>3. ASSUME NEW i \in 1 .. Len(sent) PROVE sent[i] = "body" <=> i = 2
    <2>1. CASE sent = <<>>
      BY <1>3, <2>1
    <2>2. CASE sent = <<response>>
      BY <1>1, <1>3, <2>2, ShortSequences
    <2>3. CASE sent \in {Whole, Instead}
      BY <1>1, <1>3, <2>3, ShortSequences
    <2>. QED
      BY <1>2, <2>1, <2>2, <2>3
  <1>4. Over => Len(sent) = 2 \/ connection = "closed"
    BY ShortSequences DEF RequestInductive, SentHolds
  <1>. QED
    BY <1>3, <1>4 DEF OneResponse

LEMMA LogFollows == RequestInductive => LogTellsStatus
  <1>. SUFFICES ASSUME RequestInductive PROVE LogTellsStatus
    OBVIOUS
  <1>1. status # "unhandled"
    BY DEF RequestInductive, TypeOK
  <1>2. CASE at \notin {"server", "over"}
    <2>1. log \in {<<>>, <<"unhandled">>}
      BY <1>2 DEF RequestInductive, LogHolds
    <2>2. \A i \in 1 .. Len(log) : log[i] = "unhandled"
      BY <2>1, ShortSequences
    <2>. QED
      BY <1>2, <2>2 DEF LogTellsStatus, Completions
  <1>3. CASE at \in {"server", "over"}
    <2>1. log \in {<<status>>, <<"unhandled", status>>}
      BY <1>3 DEF RequestInductive, LogHolds
    <2>2. Len(log) \in {1, 2} /\ log[Len(log)] = status
      BY <2>1, ShortSequences
    <2>3. ASSUME NEW i \in 1 .. Len(log) PROVE log[i] # "unhandled" <=> i = Len(log)
      <3>1. CASE log = <<status>>
        <4>1. Len(log) = 1 /\ log[1] = status
          BY <3>1
        <4>. QED
          BY <1>1, <2>3, <4>1
      <3>2. CASE log = <<"unhandled", status>>
        <4>1. Len(log) = 2 /\ log[1] = "unhandled" /\ log[2] = status
          BY <3>2
        <4>. QED
          BY <1>1, <2>3, <4>1
      <3>. QED
        BY <2>1, <3>1, <3>2
    <2>4. Completions = {Len(log)}
      BY <2>2, <2>3 DEF Completions
    <2>5. Over /\ cancelled_at # "deliver" => sent # <<>> /\ sent[1] = status
      <3>1. CASE response_started
        BY <3>1, ShortSequences DEF RequestInductive, SentHolds
      <3>2. CASE ~response_started
        <4>1. Over => sent = Instead /\ status = "500"
          BY <3>2, ShortSequences DEF RequestInductive, SentHolds
        <4>. QED
          BY <4>1, ShortSequences
      <3>. QED
        BY <3>1, <3>2
    <2>. QED
      BY <1>3, <2>2, <2>4, <2>5 DEF LogTellsStatus
  <1>. QED
    BY <1>2, <1>3

LEMMA ErrorsFollow == RequestInductive => ErrorsSurface
  <1>. SUFFICES ASSUME RequestInductive, Over, NEW i \in 1 .. Len(log), log[i] = "unhandled"
                PROVE  sent = <<"500", "body">> \/ connection = "closed"
    BY DEF ErrorsSurface
  <1>1. status # "unhandled"
    BY DEF RequestInductive, TypeOK
  <1>2. log \in {<<status>>, <<"unhandled", status>>}
    BY DEF RequestInductive, LogHolds
  <1>3. log = <<"unhandled", status>>
    BY <1>1, <1>2, ShortSequences
  <1>. QED
    BY <1>3 DEF RequestInductive, LogHolds, SentHolds

LEMMA AuthorityFollows == RequestInductive => UnauthorisedLearnsNothing
  <1>. SUFFICES ASSUME RequestInductive, path = "protected", ~Authorised,
                       session # "none" \/ (sent # <<>> /\ sent[1] \in {"200", "404", "422"})
                PROVE  FALSE
    BY DEF UnauthorisedLearnsNothing
  <1>1. sent # <<>> /\ sent[1] \in {"200", "404", "422"}
    BY DEF RequestInductive, AuthorityHolds
  <1>2. sent[1] = response /\ response_started
    BY <1>1, ShortSequences DEF RequestInductive, SentHolds
  <1>. QED
    BY <1>1, <1>2 DEF RequestInductive, AuthorityHolds

LEMMA SessionFollows == RequestInductive => SessionClosed
  BY DEF RequestInductive, SessionHolds, SessionClosed

\* OneResponse: whatever fails and wherever the request is cancelled, the client
\* gets one whole response, or its connection is closed on it.
THEOREM RespondsOnce == Spec => []OneResponse
  BY InductiveHolds, OneResponseFollows, PTL

\* LogTellsStatus: request_completed is logged once, with the status sent.
THEOREM LogsTruthfully == Spec => []LogTellsStatus
  BY InductiveHolds, LogFollows, PTL

\* ErrorsSurface: an error that was logged is not hidden from the client.
THEOREM ErrorsNotHidden == Spec => []ErrorsSurface
  BY InductiveHolds, ErrorsFollow, PTL

\* UnauthorisedLearnsNothing: without a live key that has the scopes required,
\* whichever they are, there is no session and no answer about the catalog.
THEOREM AuthorisedFirst == Spec => []UnauthorisedLearnsNothing
  BY InductiveHolds, AuthorityFollows, PTL

\* SessionClosed: no session survives its request, or an error response.
THEOREM SessionsEnd == Spec => []SessionClosed
  BY InductiveHolds, SessionFollows, PTL
-----------------------------------------------------------------------------
(* The request in the application. *)

\* When the request may be under way, and what that says of the probes.
Together ==
    /\ lifespan \in {"on", "off"}
    /\ lifespan = "off" => phase = "settings" /\ ~verifier
    /\ lifespan = "on" /\ phase \in {"settings", "creating"} => at = "arrival" /\ ~verifier
    /\ phase \in {"leaving", "stopped"} => RequestIdle \/ cancelled_at # "nowhere"
    /\ phase \notin {"leaving", "stopped"} => cancelled_at = "nowhere"

ProbesUnstarted ==
    run = "gather" /\ \A p \in Probes : task[p] = "created" /\ outcome[p] = "none"

ProbesTogether ==
    /\ interrupted <=> cancelled_at = "readiness"
    /\ at = "arrival" \/ path # "ready" \/ ~verifier => ProbesUnstarted
    /\ path = "ready" /\ verifier /\ at \notin {"arrival", "readiness"} =>
          run \in {"returned", "raised"}
    /\ at = "readiness" => run \in {"gather", "cleanup"}

\* What an answer to /health/ready that was not cancelled says of the services.
ReadyHolds ==
    path = "ready" /\ verifier /\ cancelled_at = "nowhere" /\ at \notin {"arrival", "readiness"} =>
        /\ run = "returned" =>
              /\ raised = "none" /\ sender = "route"
              /\ response = IF \A p \in Probes : outcome[p] = "up" THEN "200" ELSE "503"
        /\ run = "raised" =>
              /\ \E p \in Probes : outcome[p] = "error"
              /\ \/ sender = "middleware" /\ response = "500"
                 \/ at \in Leaving /\ raised = "error" /\ sender = "route" /\ ~response_started

AppInductive == RequestInductive /\ Together /\ ProbesTogether /\ ReadyHolds

USE DEF requestVars, probeVars, lifeVars, vars, asked, sending, outside, RequestIdle,
        Before, Sending, Leaving, Ending, Over, Awaits

LEMMA AppBegins == AppInit => AppInductive
  <1>1. AppInit => RequestInductive
    BY RequestBegins DEF AppInit
  <1>. QED
    BY <1>1 DEF AppInductive, AppInit, Init, LifespanInit, Checks!Init, Together,
         ProbesTogether, ProbesUnstarted, ReadyHolds

\* A step of the lifespan that leaves the request alone.
LEMMA LivesPreserves ==
    ASSUME AppInductive, LifespanInductive, Finish \/ Lives(Stop)
    PROVE  AppInductive'
  <1>1. CASE Bind
    <2>1. at = "arrival"
      BY <1>1 DEF Bind, Serve, Enter, AppInductive, Together
    <2>2. RequestInductive'
      BY <1>1, <2>1 DEF Bind, AppInductive, RequestInductive, TypeOK, PlacesHold, SentHolds,
           LogHolds, SessionHolds, AuthorityHolds, PathHolds, Authorised, Silent, Statuses, Handled, Whole, Instead
    <2>. QED
      BY <1>1, <2>1, <2>2 DEF Bind, Serve, Enter, AppInductive, Together, ProbesTogether,
           ProbesUnstarted, ReadyHolds
  <1>2. ASSUME Lives(Start \/ Leave \/ Stop) \/ (RequestIdle /\ Lives(Drained))
        PROVE  AppInductive'
    <2>1. RequestInductive' /\ ProbesTogether' /\ ReadyHolds'
      <3>1. UNCHANGED <<requestVars, probeVars>>
        BY <1>2 DEF Lives
      <3>. QED
        BY <3>1 DEF AppInductive, RequestInductive, TypeOK, PlacesHold, SentHolds,
           LogHolds, SessionHolds, AuthorityHolds, PathHolds, Authorised, Silent, Statuses, Handled, Whole, Instead,
           ProbesTogether, ProbesUnstarted, ReadyHolds
    <2>2. Together'
      BY <1>2 DEF Lives, AppInductive, Together, Start, SettingsRead, SettingsInvalid, CreateClient,
         CreateFails, Leave, CloseClient, CloseClientFails, Left, Stop, Drained, Enter, Fail, Pop
    <2>. QED
      BY <2>1, <2>2 DEF AppInductive
  <1>. QED
    BY <1>1, <1>2 DEF Finish, Lives

\* A step of the request by itself.
LEMMA EndsPreserve ==
    ASSUME AppInductive, Runs(Ends) \/ Runs(ClerkReached)
    PROVE  AppInductive'
  <1>1. /\ Authenticate \/ ClerkAnswers \/ Route \/ Health \/ Send \/ WayBack \/ Server
        /\ MayRun /\ UNCHANGED <<lifeVars, lifespan, probeVars>>
    BY DEF Runs, Ends, ClerkReached
  <1>2. RequestInductive'
    BY <1>1, RequestPreserves DEF AppInductive, Next
  <1>3. /\ UNCHANGED <<path, verifier, cancelled_at>>
        /\ at \notin {"readiness", "over"}
        /\ at' # "arrival"
        /\ at' = "readiness" => at = "arrival"
        /\ path = "ready" /\ at = "arrival" =>
              IF verifier THEN at' = "readiness" ELSE at' = "unwind"
    BY <1>1 DEF Authenticate, VerifierMissing, VerifierFound, KeyMissing, KeyPresent, ClerkFails,
         KeyInvalid, ClerkUnavailable, Authenticated, ScopesMissing, ScopesHeld, ClerkAnswers, Ask,
         Route, OpenSession, ParamsInvalid, ParamsValid, EndpointReturns, EndpointRaises,
         Health, Healthy, ChecksMissing, ChecksFound, Send, WrapStart, DeliverStart, DeliverBody,
         WayBack, Unwind, UnwindFails, NothingRaised, Handle, NotHandled, AnswerError, RaiseAgain,
         NotCaught, Finally, Server, Returned, ServerAnswers, CloseConnection,
         Go, Continue, Raise, Respond
  <1>4. Together'
    BY <1>1, <1>3 DEF AppInductive, Together, MayRun
  <1>5. ProbesTogether'
    BY <1>1, <1>3 DEF AppInductive, ProbesTogether, ProbesUnstarted
  <1>6. ReadyHolds'
    <2>. SUFFICES ASSUME path = "ready", verifier, cancelled_at = "nowhere",
                         at \notin {"arrival", "readiness"}
                  PROVE  ReadyHolds'
      BY <1>1, <1>3 DEF ReadyHolds
    <2>1. Send \/ WayBack \/ Server
      BY <1>1 DEF AppInductive, RequestInductive, PathHolds, Authenticate, VerifierMissing,
         VerifierFound, KeyMissing, KeyPresent, ClerkFails, KeyInvalid, ClerkUnavailable,
         Authenticated, ScopesMissing, ScopesHeld, ClerkAnswers, Ask,
         Route, OpenSession, ParamsInvalid, ParamsValid, EndpointReturns, EndpointRaises,
         Health, Healthy, ChecksMissing, ChecksFound, Go, Continue, Raise, Respond
    <2>2. session # "open"
      BY DEF AppInductive, RequestInductive, SessionHolds
    <2>. USE <1>1, <1>3, <2>2 DEF AppInductive, RequestInductive, PlacesHold, ReadyHolds, Handled,
             Go, Continue, Raise, Respond
    <2>3. CASE Send
      BY <2>3 DEF Send, WrapStart, DeliverStart, DeliverBody
    <2>4. CASE WayBack
      BY <2>4 DEF WayBack, Unwind, UnwindFails, NothingRaised, Handle, NotHandled, AnswerError,
           RaiseAgain, NotCaught, Finally
    <2>5. CASE Server
      BY <2>5 DEF Server, Returned, ServerAnswers, CloseConnection
    <2>. QED
      BY <2>1, <2>3, <2>4, <2>5
  <1>. QED
    BY <1>2, <1>4, <1>5, <1>6 DEF AppInductive

\* The server cancels the request, which for /health/ready means its probes.
LEMMA InterruptPreserves ==
    ASSUME AppInductive, LifespanInductive, Interrupt
    PROVE  AppInductive'
  <1>1. [Cancel \/ CancelReadiness]_vars
    BY DEF Interrupt
  <1>2. RequestInductive'
    BY <1>1, RequestPreserves DEF AppInductive, Next
  <1>3. Together'
    BY DEF AppInductive, Together, Interrupt, Interrupted, Cancel, CancelReadiness
  <1>4. ProbesTogether'
    BY DEF AppInductive, ProbesTogether, ProbesUnstarted, Interrupt, Interrupted, Cancel, CancelReadiness,
         Checks!CancelRequest, RequestInductive, PathHolds, Together
  <1>5. ReadyHolds'
    BY DEF AppInductive, ReadyHolds, Interrupt, Cancel, CancelReadiness
  <1>. QED
    BY <1>2, <1>3, <1>4, <1>5 DEF AppInductive

\* The probes, and the end of run().
LEMMA ProbesPreserveApp ==
    ASSUME AppInductive, ProbesInductive, ProbeServices \/ AnswerServices \/ RaiseServices
    PROVE  AppInductive'
  <1>1. /\ at = "readiness" /\ path = "ready" /\ verifier /\ Silent /\ raised = "none"
        /\ MayRun /\ UNCHANGED <<lifeVars, lifespan>>
    BY DEF ProbeServices, AnswerServices, RaiseServices, Probing, AppInductive, RequestInductive,
         PathHolds, PlacesHold
  <1>2. CASE ProbeServices
    <2>1. UNCHANGED requestVars /\ interrupted' = interrupted
      BY <1>2 DEF ProbeServices, Checks!ProbeStep, Checks!Start, Checks!Answer, Checks!Refuse,
           Checks!Break, Checks!TimeOut, Checks!Finish, Checks!Cancelled, Checks!Conclude,
           Checks!Enter, Checks!GatherRaises
    <2>2. run' \in {"gather", "cleanup"}
      BY <1>1, <1>2 DEF ProbeServices, Checks!ProbeStep, Checks!Start, Checks!Answer, Checks!Refuse,
           Checks!Break, Checks!TimeOut, Checks!Finish, Checks!Cancelled, Checks!Conclude,
           Checks!Enter, Checks!GatherRaises, AppInductive, ProbesTogether
    <2>3. RequestInductive'
      BY <2>1, RequestPreserves DEF AppInductive
    <2>. QED
      BY <1>1, <2>1, <2>2, <2>3 DEF AppInductive, Together, ProbesTogether, ProbesUnstarted, ReadyHolds
  <1>3. CASE AnswerServices
    <2>1. RequestInductive'
      BY <1>3, RequestPreserves DEF AppInductive, AnswerServices, Next
    <2>. QED
      BY <1>1, <1>3, <2>1 DEF AppInductive, Together, ProbesTogether, ProbesUnstarted, ReadyHolds,
         AnswerServices, Checks!GatherReturns, ServicesReported, Respond, Go, Silent
  <1>4. CASE RaiseServices
    <2>1. RequestInductive'
      BY <1>4, RequestPreserves DEF AppInductive, RaiseServices, Next
    <2>2. /\ at' = "unwind" /\ run' = "raised"
          /\ UNCHANGED <<path, verifier, cancelled_at, interrupted, task, outcome, sender,
                         response_started>>
          /\ interrupted \/ (raised' = "error" /\ \E p \in Probes : outcome[p] = "error")
      BY <1>4 DEF RaiseServices, Checks!CleanupEnds, ServicesUnknown, Raise, Go
    <2>3. Together' /\ ProbesTogether'
      BY <1>1, <2>2 DEF AppInductive, Together, ProbesTogether, ProbesUnstarted
    <2>4. ReadyHolds'
      BY <1>1, <2>2 DEF AppInductive, ProbesTogether, ReadyHolds, Silent
    <2>. QED
      BY <2>1, <2>3, <2>4 DEF AppInductive
  <1>. QED
    BY <1>2, <1>3, <1>4

LEMMA AppPreserves ==
    ASSUME AppInductive, LifespanInductive, ProbesInductive, [AppNext]_appVars
    PROVE  AppInductive'
  <1>1. CASE UNCHANGED appVars
    <2>1. RequestInductive'
      BY <1>1, RequestPreserves DEF appVars, AppInductive
    <2>. QED
      BY <1>1, <2>1 DEF appVars, AppInductive, Together, ProbesTogether, ProbesUnstarted, ReadyHolds
  <1>. QED
    BY <1>1, LivesPreserves, EndsPreserve, InterruptPreserves, ProbesPreserveApp DEF AppNext

LEMMA AppHolds == AppSpec => []AppInductive
  <1>1. AppInductive /\ LifespanInductive /\ ProbesInductive /\ [AppNext]_appVars
            => AppInductive'
    BY AppPreserves
  <1>. QED
    BY <1>1, AppBegins, ChecksHold, LifespanHolds, PTL DEF AppSpec

LEMMA ClientsFollow == AppInductive /\ LifespanInductive /\ ProbesInductive => ClientsOutliveRequests
  <1>. SUFFICES ASSUME AppInductive, LifespanInductive, ProbesInductive, released # <<>>,
                       cancelled_at = "nowhere"
                PROVE  RequestIdle /\ \A p \in Probes : task[p] \in {"created", "done"}
    BY DEF ClientsOutliveRequests
  <1>1. RequestIdle
    BY DEF AppInductive, Together, LifespanInductive, StackHoldsOpen
  <1>2. CASE ProbesUnstarted
    BY <1>1, <1>2 DEF ProbesUnstarted
  <1>3. CASE run \in {"returned", "raised"}
    BY <1>1, <1>3 DEF ProbesInductive, Checks!NoProbeOutlivesRun
  <1>. QED
    BY <1>1, <1>2, <1>3 DEF AppInductive, ProbesTogether

LEMMA ReadyFollows == AppInductive /\ ProbesInductive => ReadyTellsServices
  <1>. SUFFICES ASSUME AppInductive, ProbesInductive, path = "ready", verifier,
                       sent # <<>>, cancelled_at = "nowhere"
                PROVE  /\ sent[1] = "200" <=> \A p \in Probes : outcome[p] = "up"
                       /\ sent[1] = "500" => \E p \in Probes : dependency[p] = "breaks"
    BY DEF ReadyTellsServices
  <1>1. at \notin Before /\ run \in {"returned", "raised"}
    BY DEF AppInductive, RequestInductive, PlacesHold, Silent, ProbesTogether
  <1>2. sent \in {<<response>>, Whole} \/ (Over /\ sent = Instead)
    BY DEF AppInductive, RequestInductive, SentHolds
  <1>3. CASE run = "returned"
    <2>1. raised = "none" /\ response = IF \A p \in Probes : outcome[p] = "up" THEN "200" ELSE "503"
      BY <1>1, <1>3 DEF AppInductive, ReadyHolds
    <2>2. sent[1] = response
      BY <1>2, <2>1, ShortSequences DEF AppInductive, RequestInductive, SentHolds, Whole, Instead
    <2>. QED
      BY <2>1, <2>2
  <1>4. CASE run = "raised"
    <2>1. PICK p \in Probes : outcome[p] = "error"
      BY <1>1, <1>4 DEF AppInductive, ReadyHolds
    <2>2. dependency[p] = "breaks"
      BY <2>1 DEF ProbesInductive, ErrorsAreBugs
    <2>3. sent[1] = "500"
      BY <1>1, <1>2, <1>4, ShortSequences
      DEF AppInductive, ReadyHolds, RequestInductive, SentHolds, Whole, Instead
    <2>. QED
      BY <2>1, <2>2, <2>3
  <1>. QED
    BY <1>1, <1>3, <1>4

\* ClientsOutliveRequests: however the lifespan ends, no client is closed under a
\* request that was not cancelled, or under a probe of one.
THEOREM ClientsOutlive == AppSpec => []ClientsOutliveRequests
  BY AppHolds, LifespanHolds, ChecksHold, ClientsFollow, PTL

\* ReadyTellsServices: what /health/ready tells a client that was not cut off is
\* what the probes found, and a 500 comes from a bug only.
THEOREM ReadyIsTrue == AppSpec => []ReadyTellsServices
  BY AppHolds, ChecksHold, ReadyFollows, PTL

\* What a request promises by itself, it promises while the server starts, stops
\* and is interrupted around it.
THEOREM RequestsKeepPromises ==
    AppSpec => [](/\ OneResponse /\ LogTellsStatus /\ ErrorsSurface
                  /\ UnauthorisedLearnsNothing /\ SessionClosed)
  <1>1. AppInductive => RequestInductive
    BY DEF AppInductive
  <1>. QED
    BY <1>1, AppHolds, OneResponseFollows, LogFollows, ErrorsFollow, AuthorityFollows,
       SessionFollows, PTL
=============================================================================
