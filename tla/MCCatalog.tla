----------------------------- MODULE MCCatalog -----------------------------
(* Two overlapping runs, and a reader of a row both of them write. *)
EXTENDS Catalog

CONSTANTS a, b, i1, i2, i3

MCSnapshot == [r \in {a, b} |-> IF r = a THEN <<i1, i2, i3>> ELSE <<i3, i2>>]
MCTimes == 1 .. 2
=============================================================================
