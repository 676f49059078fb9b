-------------------------- MODULE GenerationPointer --------------------------
(***************************************************************************)
(* The text under cache:items:generation.  ItemCache takes the pointer to  *)
(* be missing, corrupt or a generation; here it is the string that Redis   *)
(* holds, which _generation reads through a bounded GETRANGE and parses,   *)
(* and INCR parses by its own, stricter rules.                             *)
(*                                                                         *)
(* Numbers are written in base Base, and MaxGeneration stands for 2^63 - 1,*)
(* the limit of both _parse_generation and Redis.  Like it, it should not  *)
(* be the largest number of its length.                                    *)
(***************************************************************************)
EXTENDS Naturals, SequencesExt

CONSTANTS
    Readers,        \* lookups
    Runs,           \* ingestion commands, in invalidate()
    Base, MaxGeneration,
    Minus,          \* the sign
    Undecodable,    \* a byte that is not UTF-8
    MaxFaults,      \* bound on foreign writes of the pointer and failed calls
    None

ASSUME ConstantsAssumption ==
    /\ Base \in Nat \ {0, 1}
    /\ MaxGeneration \in Nat /\ MaxGeneration >= Base
    /\ MaxFaults \in Nat
    /\ Readers \cap Runs = {}
    /\ Minus \notin 0 .. Base - 1

Digits == 0 .. Base - 1

\* str(n)
Text[n \in 0 .. MaxGeneration] ==
    IF n < Base THEN <<n>> ELSE Append(Text[n \div Base], n % Base)

MaxDigits == Len(Text[MaxGeneration])

Canonical == {Text[n] : n \in 0 .. MaxGeneration}

ASSUME NoneAssumption == None \notin Canonical

\* What anything may have left under the key, nothing (<<>>) included.
Texts == SeqOf(Digits \cup {Minus, Undecodable}, MaxDigits + 2)

VARIABLES
    pointer,  \* the text, <<>> when the key is missing
    pc,       \* of each lookup and run
    result,   \* what its _generation call returned, None for a bypass
    faults    \* foreign writes and failed calls so far

vars == <<pointer, pc, result, faults>>

InGeneration == {"getptr", "setnx", "reread"}

TypeOK ==
    /\ pointer \in Texts
    /\ pc \in [Readers \cup Runs ->
                  InGeneration \cup {"idle", "answered", "incr", "ok", "failed"}]
    /\ result \in [Readers \cup Runs -> Canonical \cup {None}]
    /\ faults \in 0 .. MaxFaults

Init ==
    /\ pointer = <<>>
    /\ pc = [p \in Readers \cup Runs |-> "idle"]
    /\ result = [p \in Readers \cup Runs |-> None]
    /\ faults = 0

Move(p, label) == pc' = [pc EXCEPT ![p] = label]
-----------------------------------------------------------------------------
(* Reading the pointer. *)

\* Mutant: GETRANGE stops at the last digit a generation may have.
GetRangeExact(s) == SubSeq(s, 1, IF Len(s) < MaxDigits THEN Len(s) ELSE MaxDigits)

\* GETRANGE 0 MAX_GENERATION_DIGITS: one character more than a generation has.
GetRange(s) == SubSeq(s, 1, IF Len(s) < MaxDigits + 1 THEN Len(s) ELSE MaxDigits + 1)

Value(s) ==
    LET value[k \in 0 .. Len(s)] == IF k = 0 THEN 0 ELSE value[k - 1] * Base + s[k]
    IN  value[Len(s)]

IsNumeral(s) == s # <<>> /\ \A k \in 1 .. Len(s) : s[k] \in Digits

\* Mutant: int(value) alone, which accepts a sign.
ParseSigned(s) ==
    LET digits == IF s # <<>> /\ s[1] = Minus THEN Tail(s) ELSE s
    IN  IF IsNumeral(digits) /\ Len(digits) <= MaxDigits /\ Value(digits) <= MaxGeneration
        THEN Text[Value(digits)] ELSE None

\* _parse_generation: digits only, not too many, not too large, normalised.
ParseGeneration(s) ==
    IF IsNumeral(s) /\ Len(s) <= MaxDigits /\ Value(s) <= MaxGeneration
    THEN Text[Value(s)] ELSE None

\* A lookup takes what _generation returned; invalidate() raises on None.
Return(p, g) ==
    /\ result' = [result EXCEPT ![p] = g]
    /\ Move(p, IF p \in Readers THEN "answered" ELSE IF g = None THEN "failed" ELSE "incr")

StartCall(p) ==
    /\ pc[p] = "idle"
    /\ Move(p, "getptr")
    /\ UNCHANGED <<pointer, result, faults>>

\* Mutant: a missing pointer is refused like any other unusable one.
GetPointerOnly(p) ==
    /\ pc[p] = "getptr"
    /\ Return(p, ParseGeneration(GetRange(pointer)))
    /\ UNCHANGED <<pointer, faults>>

GetPointer(p) ==
    /\ pc[p] = "getptr"
    /\ IF pointer = <<>> THEN Move(p, "setnx") /\ UNCHANGED result
                         ELSE Return(p, ParseGeneration(GetRange(pointer)))
    /\ UNCHANGED <<pointer, faults>>

\* new_generation draws from 1 .. MAX_GENERATION - 1; SET NX stores it or not.
InitPointer(p) ==
    /\ pc[p] = "setnx"
    /\ \/ /\ pointer = <<>>
          /\ \E n \in 1 .. MaxGeneration - 1 : pointer' = Text[n] /\ Return(p, Text[n])
       \/ /\ pointer # <<>>
          /\ Move(p, "reread")
          /\ UNCHANGED <<pointer, result>>
    /\ UNCHANGED faults

\* An empty answer parses to None, too.
RereadPointer(p) ==
    /\ pc[p] = "reread"
    /\ Return(p, ParseGeneration(GetRange(pointer)))
    /\ UNCHANGED <<pointer, faults>>

EndLookup(r) ==
    /\ pc[r] = "answered"
    /\ Move(r, "idle")
    /\ result' = [result EXCEPT ![r] = None]
    /\ UNCHANGED <<pointer, faults>>
-----------------------------------------------------------------------------
(* invalidate() *)

\* What Redis leaves after INCR: it counts a missing key as zero, and wants the
\* decimal text of a 64-bit integer that has a successor.
Successors(s) ==
    {Text[n + 1] : n \in {m \in 0 .. MaxGeneration - 1 : s = Text[m] \/ (s = <<>> /\ m = 0)}}
        \cup {IF n = 1 THEN Text[0] ELSE <<Minus>> \o Text[n - 1] :
                  n \in {m \in 1 .. MaxGeneration : s = <<Minus>> \o Text[m]}}

Increment(p) ==
    /\ pc[p] = "incr"
    /\ pointer' \in Successors(pointer)
    /\ Move(p, "ok")
    /\ UNCHANGED <<result, faults>>

\* A ResponseError: not an integer, or out of range.
IncrementRefused(p) ==
    /\ pc[p] = "incr"
    /\ Successors(pointer) = {}
    /\ Move(p, "failed")
    /\ UNCHANGED <<pointer, result, faults>>

\* The operator repeats a run that failed.
Repeat(p) ==
    /\ pc[p] = "failed"
    /\ Move(p, "getptr")
    /\ result' = [result EXCEPT ![p] = None]
    /\ UNCHANGED <<pointer, faults>>
-----------------------------------------------------------------------------
(* Faults. *)

\* A connection error or a timeout.
CallFails(p) ==
    /\ pc[p] \in InGeneration \cup {"incr"}
    /\ faults < MaxFaults /\ faults' = faults + 1
    /\ Move(p, IF p \in Readers THEN "answered" ELSE "failed")
    /\ result' = [result EXCEPT ![p] = None]
    /\ UNCHANGED pointer

\* Loss, or a write by anything that shares the Redis database.
ForeignWrite ==
    /\ faults < MaxFaults /\ faults' = faults + 1
    /\ pointer' \in Texts
    /\ UNCHANGED <<pc, result>>

CallStep(p) == GetPointer(p) \/ InitPointer(p) \/ RereadPointer(p)

RunStep(p) == CallStep(p) \/ Increment(p) \/ IncrementRefused(p) \/ Repeat(p)

Next ==
    \/ \E p \in Readers \cup Runs : StartCall(p) \/ CallStep(p) \/ CallFails(p)
    \/ \E r \in Readers : EndLookup(r)
    \/ \E p \in Runs : Increment(p) \/ IncrementRefused(p) \/ Repeat(p)
    \/ ForeignWrite

Spec == Init /\ [][Next]_vars

\* Calls return, and the operator does repeat a run that failed.
FairSpec == Spec /\ \A p \in Runs : WF_vars(RunStep(p))
-----------------------------------------------------------------------------
(* A generation is the whole of the pointer, but for leading zeros: GETRANGE *)
(* never cuts a longer value down to one that parses.                        *)
WholePointer ==
    [][\A p \in Readers \cup Runs :
          (pc[p] \in InGeneration /\ pc'[p] \in {"answered", "incr"} /\ result'[p] # None)
              => \E zeros \in SeqOf({0}, MaxDigits) : pointer' = zeros \o result'[p]]_vars

\* An INCR that succeeds on a pointer readers can use leaves one they can use,
\* and a later one: it neither wraps nor outgrows what _parse_generation takes.
InvalidationAdvances ==
    [][\A p \in Runs : (pc[p] = "incr" /\ pc'[p] = "ok") =>
          LET before == ParseGeneration(GetRange(pointer))
              after == ParseGeneration(GetRange(pointer'))
          IN  before # None => after # None /\ Value(before) < Value(after)]_vars

\* The pointer is missing, or INCR has a successor for what it holds.
Usable ==
    \/ pointer = <<>>
    \/ /\ ParseGeneration(GetRange(pointer)) = pointer
       /\ Successors(pointer) # {}

\* Once faults are over, repeating a failed run repairs a pointer that is
\* missing and goes on from one that is usable.
RepeatingRecoversUsable ==
    \A p \in Runs : (pc[p] = "failed" /\ Usable /\ faults = MaxFaults) ~> pc[p] = "ok"

\* Repeating the ingestion is the supported way to recover from a failed
\* invalidation.  (The documentation says so of every such failure.)
RepeatingRecovers == \A p \in Runs : pc[p] = "failed" ~> pc[p] = "ok"
=============================================================================
