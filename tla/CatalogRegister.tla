--------------------------- MODULE CatalogRegister ---------------------------
(***************************************************************************)
(* What the read API promises, with no cache in sight: a register that     *)
(* successive publications replace as a whole, and requests that read it.  *)
(* A reply describes the resource asked for as of one publication, or of   *)
(* an interval of them for a list, whose page and total are two reads; it  *)
(* is never older than the last publication reported as successful before  *)
(* the request began.                                                      *)
(***************************************************************************)
EXTENDS Naturals

CONSTANTS Readers, Resources, Lists, FirstVersion, None

VARIABLES
    committed,  \* publications so far
    announced,  \* the latest one some run reported as successful
    phase,      \* of each request
    asked,      \* the resource it asks for
    since,      \* announced when it began
    answer      \* its reply

vars == <<committed, announced, phase, asked, since, answer>>

Init ==
    /\ committed = 0
    /\ announced = 0
    /\ phase = [r \in Readers |-> "idle"]
    /\ asked = [r \in Readers |-> None]
    /\ since = [r \in Readers |-> 0]
    /\ answer = [r \in Readers |-> None]

\* A publication replaces the catalog as a whole.
Commit ==
    /\ committed' = committed + 1
    /\ UNCHANGED <<announced, phase, asked, since, answer>>

\* A run reports success.
Announce ==
    /\ announced' \in announced .. committed
    /\ UNCHANGED <<committed, phase, asked, since, answer>>

Begin(r, q) ==
    /\ phase[r] = "idle"
    /\ phase' = [phase EXCEPT ![r] = "reading"]
    /\ asked' = [asked EXCEPT ![r] = q]
    /\ since' = [since EXCEPT ![r] = announced]
    /\ UNCHANGED <<committed, announced, answer>>

\* The answers a request may be given now.
Answers(r) ==
    {a \in [about : {asked[r]}, lo : since[r] .. committed, hi : 0 .. committed] :
        /\ FirstVersion[asked[r]] <= a.lo
        /\ a.lo <= a.hi
        /\ a.lo = a.hi \/ asked[r] \in Lists}

Reply(r) ==
    /\ phase[r] = "reading"
    /\ phase' = [phase EXCEPT ![r] = "replied"]
    /\ \E a \in Answers(r) : answer' = [answer EXCEPT ![r] = a]
    /\ UNCHANGED <<committed, announced, asked, since>>

\* 404, only for what need not have existed when the request began.
NotFound(r) ==
    /\ phase[r] = "reading"
    /\ since[r] < FirstVersion[asked[r]]
    /\ phase' = [phase EXCEPT ![r] = "notfound"]
    /\ UNCHANGED <<committed, announced, asked, since, answer>>

\* 503.
Refuse(r) ==
    /\ phase[r] = "reading"
    /\ phase' = [phase EXCEPT ![r] = "unavailable"]
    /\ UNCHANGED <<committed, announced, asked, since, answer>>

\* The request ends, answered or not.
End(r) ==
    /\ phase[r] # "idle"
    /\ phase' = [phase EXCEPT ![r] = "idle"]
    /\ asked' = [asked EXCEPT ![r] = None]
    /\ since' = [since EXCEPT ![r] = 0]
    /\ answer' = [answer EXCEPT ![r] = None]
    /\ UNCHANGED <<committed, announced>>

Next ==
    \/ Commit
    \/ Announce
    \/ \E r \in Readers :
          \/ \E q \in Resources : Begin(r, q)
          \/ Reply(r) \/ NotFound(r) \/ Refuse(r) \/ End(r)

Spec == Init /\ [][Next]_vars
=============================================================================
