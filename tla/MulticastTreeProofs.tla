-------------------------- MODULE MulticastTreeProofs --------------------------
(* What MulticastTree promises, for every set of nodes and every fan-out. *)
EXTENDS MulticastTree, FiniteSetTheorems, TLAPS

\* A step of the tree adds one edge, from a member to a newcomer.
LEMMA JoinAddsLeaf ==
  ASSUME NEW n \in Node, NEW p \in Node, Join(n, p)
  PROVE  /\ Members' = Members \cup {n}
         /\ \A q \in Node : Kids(q)' = IF q = p THEN Kids(q) \cup {n} ELSE Kids(q)
<1>1. edges' = edges \cup {<<p, n>>}
  BY DEF Join
<1>2. Members' = Members \cup {n}
  <2> DEFINE leaf == <<p, n>>
  <2>1. {e[2] : e \in edges \cup {leaf}} = {e[2] : e \in edges} \cup {leaf[2]}
    <3> HIDE DEF leaf
    <3> QED
      OBVIOUS
  <2>2. leaf[2] = n
    OBVIOUS
  <2> QED
    BY <1>1, <2>1, <2>2 DEF Members
<1>3. ASSUME NEW q \in Node
      PROVE  Kids(q)' = IF q = p THEN Kids(q) \cup {n} ELSE Kids(q)
  BY <1>1 DEF Kids
<1> QED
  BY <1>2, <1>3

-------------------------------------------------------------------------------
\* The edges of the tree link nodes.
THEOREM TreeTypeCorrect == Spec => []TypeOK
<1>1. Init => TypeOK
  BY DEF Init, TypeOK
<1>2. TypeOK /\ [Next]_edges => TypeOK'
  BY DEF TypeOK, Next, Join
<1> QED
  BY <1>1, <1>2, PTL DEF Spec

\* Every node has at most one parent: only a node outside the tree is adopted.
THEOREM EveryNodeHasOneParent == Spec => []OneParent
<1>1. Init => OneParent
  BY DEF Init, OneParent
<1>2. OneParent /\ [Next]_edges => OneParent'
  <2> SUFFICES ASSUME OneParent, Next PROVE OneParent'
    BY DEF OneParent
  <2>1. PICK n \in Node, p \in Node : Join(n, p)
    BY DEF Next
  <2>2. edges' = edges \cup {<<p, n>>} /\ \A e \in edges : e[2] # n
    BY <2>1 DEF Join, Members
  <2> QED
    BY <2>2 DEF OneParent
<1> QED
  BY <1>1, <1>2, PTL DEF Spec

\* Every node is linked to the root: a newcomer is linked to a member.
THEOREM EveryNodeReachesRoot == Spec => []ReachesRoot
<1>1. Init => ReachesRoot
  BY DEF Init, ReachesRoot, Members
<1>2. ReachesRoot /\ [Next]_edges => ReachesRoot'
  <2>1. ASSUME ReachesRoot, NEW n \in Node, NEW p \in Node, Join(n, p),
               NEW S \in SUBSET (Members' \ {Root}), S # {}
        PROVE  \E m \in S, q \in Members' \ S : <<q, m>> \in edges'
    <3>1. /\ n \notin Members /\ p \in Members
          /\ edges' = edges \cup {<<p, n>>}
      BY <2>1 DEF Join
    <3>2. Members' = Members \cup {n}
      BY <2>1, JoinAddsLeaf
    <3>3. CASE S = {n}
      BY <3>1, <3>2, <3>3
    <3>4. CASE S # {n}
      <4>1. S \ {n} # {} /\ S \ {n} \in SUBSET (Members \ {Root})
        BY <2>1, <3>2, <3>4
      <4>2. PICK m \in S \ {n}, q \in Members \ (S \ {n}) : <<q, m>> \in edges
        BY <2>1, <4>1 DEF ReachesRoot
      <4>3. q # n /\ q \in Members' \ S
        BY <3>1, <3>2, <4>2
      <4> QED
        BY <3>1, <4>2, <4>3
    <3> QED
      BY <3>3, <3>4
  <2>2. ReachesRoot /\ UNCHANGED edges => ReachesRoot'
    BY DEF ReachesRoot, Members
  <2>3. ReachesRoot /\ Next => ReachesRoot'
    BY <2>1 DEF Next, ReachesRoot
  <2> QED
    BY <2>2, <2>3
<1> QED
  BY <1>1, <1>2, PTL DEF Spec

\* Nobody forwards to more nodes than m_children has room for.
THEOREM FanoutNeverExceeded ==
  ASSUME MaxFanout \in Nat
  PROVE  Spec => []FanoutBounded
<1> DEFINE Inv == \A q \in Node : IsFiniteSet(Kids(q)) /\ Cardinality(Kids(q)) <= MaxFanout
<1>1. Init => Inv
  <2> SUFFICES ASSUME Init, NEW q \in Node
               PROVE  IsFiniteSet(Kids(q)) /\ Cardinality(Kids(q)) <= MaxFanout
    OBVIOUS
  <2>1. Kids(q) = {}
    BY DEF Init, Kids
  <2>2. IsFiniteSet({}) /\ Cardinality({}) = 0
    BY FS_EmptySet
  <2> QED
    BY <2>1, <2>2
<1>2. Inv /\ [Next]_edges => Inv'
  <2>1. ASSUME Inv, NEW n \in Node, NEW p \in Node, Join(n, p), NEW q \in Node
        PROVE  IsFiniteSet(Kids(q)') /\ Cardinality(Kids(q)') <= MaxFanout
    <3>1. CASE q = p
      <4>1. Kids(q)' = Kids(q) \cup {n} /\ Cardinality(Kids(q)) < MaxFanout
        BY <2>1, <3>1, JoinAddsLeaf DEF Join
      <4>2. IsFiniteSet(Kids(q))
        BY <2>1
      <4>3. Cardinality(Kids(q)) \in Nat
        BY <4>2, FS_CardinalityType
      <4>4. /\ IsFiniteSet(Kids(q) \cup {n})
            /\ \/ Cardinality(Kids(q) \cup {n}) = Cardinality(Kids(q))
               \/ Cardinality(Kids(q) \cup {n}) = Cardinality(Kids(q)) + 1
        BY <4>2, FS_AddElement
      <4> QED
        BY <4>1, <4>3, <4>4
    <3>2. CASE q # p
      BY <2>1, <3>2, JoinAddsLeaf
    <3> QED
      BY <3>1, <3>2
  <2>2. Inv /\ UNCHANGED edges => Inv'
    BY DEF Kids
  <2> QED
    BY <2>1, <2>2 DEF Next
<1>3. Inv => FanoutBounded
  BY DEF FanoutBounded
<1> HIDE DEF Inv
<1> QED
  BY <1>1, <1>2, <1>3, PTL DEF Spec
===============================================================================
