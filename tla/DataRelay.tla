------------------------------- MODULE DataRelay -------------------------------
(***************************************************************************)
(* What the data phase of ScdtServer promises, whatever the start times    *)
(* and however TCP cuts the stream: the root publishes its data once, and  *)
(* every other node takes over what its parent has, from the first packet  *)
(* on and without a gap.  Nobody has what its parent does not have.        *)
(***************************************************************************)
EXTENDS Naturals, Sequences

CONSTANTS
  Node,
  Root,
  Edge,    \* <<p, n>> when n is a child of p
  Data     \* what the root has to send

VARIABLE log    \* the packets of a node, the oldest first

Init == log = [n \in Node |-> <<>>]

Publish ==
  /\ log[Root] = <<>>
  /\ log' = [log EXCEPT ![Root] = Data]

\* A node takes over one or more of the packets of its parent.
TakeOver(p, n) ==
  /\ <<p, n>> \in Edge
  /\ \E k \in Len(log[n]) + 1 .. Len(log[p]) :
       log' = [log EXCEPT ![n] = SubSeq(log[p], 1, k)]

Next == Publish \/ \E p, n \in Node : TakeOver(p, n)

Spec == Init /\ [][Next]_log

-------------------------------------------------------------------------------
\* Everybody has the first packets of the root, in their order.
InOrder == \A n \in Node : \E k \in 0 .. Len(Data) : log[n] = SubSeq(Data, 1, k)

\* Data goes down the tree: nobody is ahead of its parent.
NeverAhead == \A e \in Edge : Len(log[e[2]]) <= Len(log[e[1]])
===============================================================================
