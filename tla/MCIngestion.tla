----------------------------- MODULE MCIngestion -----------------------------
(* Instances of Ingestion for TLC. *)
EXTENDS Ingestion, TLC

CONSTANTS a, b, c, i1, i2, i3

\* Overlapping snapshots in different orders and of one, two and three rows.
MCSnapshot == [r \in {a, b, c} |->
                  IF r = a THEN <<i1, i2, i3>> ELSE IF r = b THEN <<i3, i2>> ELSE <<i2>>]
MCSnapshotTwo == [r \in {a, b} |-> IF r = a THEN <<i1, i2, i3>> ELSE <<i3, i2>>]
MCTimes == 1 .. 3
MCTimesTwo == 1 .. 2
=============================================================================
