----------------------------- MODULE MulticastTree -----------------------------
(***************************************************************************)
(* What the overlay of ScdtServer promises as long as no child is sent     *)
(* away: a tree that grows from the root, one node at a time, by leaves.   *)
(***************************************************************************)
EXTENDS Naturals, FiniteSets

CONSTANTS
  Node,
  Root,
  MaxFanout

VARIABLE edges    \* <<p, n>> when p has n among its children

Members == {Root} \cup {e[2] : e \in edges}
Kids(p) == {n \in Node : <<p, n>> \in edges}

Init == edges = {}

\* A member with room adopts a node that is not in the tree yet.
Join(n, p) ==
  /\ n \notin Members
  /\ p \in Members
  /\ Cardinality(Kids(p)) < MaxFanout
  /\ edges' = edges \cup {<<p, n>>}

Next == \E n, p \in Node : Join(n, p)

Spec == Init /\ [][Next]_edges

-------------------------------------------------------------------------------
TypeOK == edges \subseteq Node \X Node

\* No node is adopted twice (m_parentIp names the one parent).
OneParent == \A e, f \in edges : e[2] = f[2] => e[1] = f[1]

\* No set of nodes is cut off from the root: walking from child to parent never
\* stays inside a set without the root, so it reaches the root and no data that
\* is forwarded from parent to child goes in a circle.
ReachesRoot == \A S \in SUBSET (Members \ {Root}) :
  S # {} => \E n \in S, p \in Members \ S : <<p, n>> \in edges

\* Nobody has more children than m_children has room for.
FanoutBounded == \A p \in Node : Cardinality(Kids(p)) <= MaxFanout
===============================================================================
