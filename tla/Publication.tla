----------------------------- MODULE Publication -----------------------------
(***************************************************************************)
(* What ingestion promises: a snapshot is published as a whole or not at   *)
(* all.  One step upserts its items and replaces the metadata, and only a  *)
(* later synchronization time may replace an earlier one.                  *)
(***************************************************************************)
EXTENDS Naturals

CONSTANTS Runs, Ids, Covers, Times, None

VARIABLES
    items,  \* the run each catalog row was last published by
    meta    \* the run and time of the latest publication

Init == items = [id \in Ids |-> None] /\ meta = None

\* Records absent from the snapshot are preserved.
Publish(r, t) ==
    /\ meta # None => meta.lastSync < t
    /\ items' = [id \in Ids |-> IF id \in Covers[r] THEN r ELSE items[id]]
    /\ meta' = [dataset |-> r, lastSync |-> t]

Next == \E r \in Runs, t \in Times : Publish(r, t)

Spec == Init /\ [][Next]_<<items, meta>>
=============================================================================
