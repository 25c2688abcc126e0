------------------------------ MODULE MCScdtData ------------------------------
(* Small instances of ScdtData for TLC. *)
EXTENDS ScdtData

CONSTANTS r, a, b, c

\* The root has two children and one of them has a child.
Tree4 == [n \in {r, a, b, c} |-> CASE n = r -> <<a, b>> [] n = b -> <<c>> [] OTHER -> <<>>]
===============================================================================
