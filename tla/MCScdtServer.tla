----------------------------- MODULE MCScdtServer -----------------------------
(* Small instances of ScdtServer for TLC. *)
EXTENDS ScdtServer, TLC

CONSTANTS r, a, b, c, d

Overlay3 == {r, a, b}
Overlay4 == {r, a, b, c}
Overlay5 == {r, a, b, c, d}

\* All round trips take the same time.
UniformRoundTrip == [m \in Node |-> [n \in Node |-> {1}]]

\* The nodes live along a street, a and b next door to the root; a round trip
\* takes a time that grows with the distance.
House == (r :> 2) @@ (a :> 1) @@ (b :> 3) @@ (c :> 4) @@ (d :> 0)
Apart(m, n) == IF House[m] < House[n] THEN House[n] - House[m] ELSE House[m] - House[n]
StreetRoundTrip == [m \in Node |-> [n \in Node |-> {1 + Apart(m, n)}]]

\* The root starts first, the others in any order.
RootFirst == [n \in Node |-> {Root} \ {n}]

\* The nodes start in the order r, a, b, c, d.
InTurn == [n \in Node |->
  CASE n = r -> {} [] n = a -> {r} [] n = b -> {a} [] n = c -> {b} [] n = d -> {c}]

\* Everybody is two away, but d next door to a.
DetourRoundTrip == [m \in Node |-> [n \in Node |-> IF m = a /\ n = d THEN {1} ELSE {2}]]

\* All the nodes but the root are alike.
Symmetry == Permutations(Node \ {Root})
===============================================================================
