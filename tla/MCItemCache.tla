----------------------------- MODULE MCItemCache -----------------------------
(***************************************************************************)
(* Instances of ItemCache for TLC.                                         *)
(***************************************************************************)
EXTENDS ItemCache

CONSTANTS r1, r2, p1, p2, item, late, list

\* The versions from which the resources of an instance exist.
MCFirstItem == [q \in {item} |-> 0]
MCFirstList == [q \in {list} |-> 0]
MCFirstLate == [q \in {late} |-> 1]
=============================================================================
