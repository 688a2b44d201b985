--------------------------- MODULE TopsortProofs ----------------------------
(***************************************************************************)
(* Proofs about Topsort, for every finite set of nodes and every graph.    *)
(***************************************************************************)
EXTENDS Topsort, FiniteSetTheorems, TLAPS

\* A node is in one layer, once, from the moment its last parent is visited
\* until it is visited itself.
Once ==
  \A n \in Node :
    /\ layer[n] \in {0, 1} /\ next_layer[n] \in {0, 1}
    /\ layer[n] = 0 \/ next_layer[n] = 0
    /\ n \in visited => layer[n] = 0 /\ next_layer[n] = 0
    /\ Parents(n) \subseteq visited <=> \/ n \in visited
                                        \/ layer[n] = 1 \/ next_layer[n] = 1

Counted == IsFiniteSet(visited) /\ count = Cardinality(visited)

\* What the layers say of the levels of the parents.
Levels ==
  \A n \in Node :
    /\ n \in visited => level[n] <= depth
    /\ layer[n] > 0 => /\ \A p \in Parents(n) : level[p] < depth
                       /\ depth > 0 => \E p \in Parents(n) : level[p] = depth - 1
    /\ next_layer[n] > 0 => \E p \in Parents(n) : level[p] = depth

NoCycleVisited == \A S \in SUBSET Node : Cyclic(S) => S \cap visited = {}

Inv == /\ TypeOK /\ Once /\ Counted
       /\ Levels /\ LayersFollowParents
       /\ NoCycleVisited /\ NoUnknownError /\ ErrorMeansCycle

\* Each layer but the current one has had a node, and so has the current one
\* when a next one has begun to fill.
Progress == depth <= count /\ (next_layer # Empty => depth < count)

\* The strengthening holds of the first layer.
LEMMA InvInit == Init => Inv
<1> SUFFICES ASSUME Init PROVE Inv
  OBVIOUS
<1> USE NodeAssumption, GraphsAssumption DEF Init, Empty, Parents
<1>1. TypeOK
  BY DEF TypeOK, Bag
<1>2. Once /\ Levels /\ LayersFollowParents
  BY DEF Once, Levels, LayersFollowParents
<1>3. Counted
  BY FS_EmptySet DEF Counted
<1>4. NoCycleVisited /\ NoUnknownError /\ ErrorMeansCycle
  BY DEF NoCycleVisited, NoUnknownError, ErrorMeansCycle
<1> QED
  BY <1>1, <1>2, <1>3, <1>4 DEF Inv

\* A node that is about to be visited is in the layer once, its parents have
\* been visited, and its children are in no layer.
LEMMA VisitFacts ==
  ASSUME Inv, NEW n \in Node, Visit(n)
  PROVE  /\ layer[n] = 1 /\ next_layer[n] = 0 /\ n \notin visited
         /\ Parents(n) \subseteq visited
         /\ \A c \in Children(n) :
              c \in Node /\ layer[c] = 0 /\ next_layer[c] = 0 /\ c \notin visited
         /\ n \notin Children(n)
         /\ \A c \in Node : Children(c)' = Children(c) /\ Parents(c)' = Parents(c)
<1>1. layer[n] > 0
  BY DEF Visit
<1>2. Once
  BY DEF Inv
<1>3. /\ layer[n] = 1 /\ next_layer[n] = 0 /\ n \notin visited
      /\ Parents(n) \subseteq visited
  BY <1>1, <1>2 DEF Once
<1>4. ASSUME NEW c \in Children(n)
      PROVE  c \in Node /\ layer[c] = 0 /\ next_layer[c] = 0 /\ c \notin visited
  <2>1. c \in Node /\ n \in Parents(c)
    BY <1>4 DEF Children, Parents
  <2> QED
    BY <2>1, <1>2, <1>3 DEF Once
<1>5. \A c \in Node : Children(c)' = Children(c) /\ Parents(c)' = Parents(c)
  BY DEF Visit, Children, Parents
<1> QED
  BY <1>3, <1>4, <1>5

\* The visit of a node keeps the strengthening.
LEMMA VisitStep ==
  ASSUME Inv, NEW n \in Node, Visit(n)
  PROVE  Inv'
<1>1. /\ layer[n] = 1 /\ next_layer[n] = 0 /\ n \notin visited
      /\ Parents(n) \subseteq visited
      /\ \A c \in Children(n) :
           c \in Node /\ layer[c] = 0 /\ next_layer[c] = 0 /\ c \notin visited
      /\ n \notin Children(n)
      /\ \A c \in Node : Children(c)' = Children(c) /\ Parents(c)' = Parents(c)
  BY VisitFacts
<1>2. /\ layer \in Bag /\ next_layer \in Bag /\ level \in Bag
      /\ depth \in Nat /\ count \in Nat /\ visited \subseteq Node
  BY DEF Inv, TypeOK
<1>3. /\ visited' = visited \cup {n} /\ depth' = depth
      /\ \A m \in Node :
           /\ layer'[m] = IF m = n THEN 0 ELSE layer[m]
           /\ level'[m] = IF m = n THEN depth ELSE level[m]
           /\ next_layer'[m] = IF m \in Children(n) /\ Parents(m) \subseteq visited'
                               THEN next_layer[m] + 1 ELSE next_layer[m]
  BY <1>1, <1>2 DEF Visit, Bag
<1>4. \A m \in Node : /\ m \in Children(n) <=> n \in Parents(m)
                      /\ Parents(m) \subseteq Node
  BY DEF Children, Parents
<1>5. TypeOK'
  BY <1>1, <1>2 DEF Inv, TypeOK, Visit, Bag
<1>6. Once'
  <2> SUFFICES ASSUME NEW m \in Node
               PROVE  /\ layer'[m] \in {0, 1} /\ next_layer'[m] \in {0, 1}
                      /\ layer'[m] = 0 \/ next_layer'[m] = 0
                      /\ m \in visited' => layer'[m] = 0 /\ next_layer'[m] = 0
                      /\ Parents(m)' \subseteq visited' <=>
                           m \in visited' \/ layer'[m] = 1 \/ next_layer'[m] = 1
    BY DEF Once
  <2>1. CASE m = n
    BY <1>1, <1>3, <2>1
  <2>2. CASE m \in Children(n)
    <3>1. m # n /\ layer'[m] = 0 /\ m \notin visited'
      BY <1>1, <1>3, <2>2
    <3>2. next_layer'[m] = IF Parents(m) \subseteq visited' THEN 1 ELSE 0
      BY <1>1, <1>3, <2>2
    <3> QED
      BY <1>1, <3>1, <3>2
  <2>3. CASE m # n /\ m \notin Children(n)
    <3>1. Parents(m) \subseteq visited' <=> Parents(m) \subseteq visited
      BY <1>3, <1>4, <2>3
    <3>2. /\ layer'[m] = layer[m] /\ next_layer'[m] = next_layer[m]
          /\ m \in visited' <=> m \in visited
      BY <1>3, <2>3
    <3>3. Once
      BY DEF Inv
    <3> QED
      BY <1>1, <3>1, <3>2, <3>3 DEF Once
  <2> QED
    BY <2>1, <2>2, <2>3
<1>7. Counted'
  BY <1>1, FS_AddElement DEF Inv, Counted, Visit
<1>8. Levels /\ LayersFollowParents
  BY DEF Inv
<1>9. Levels'
  <2> SUFFICES ASSUME NEW m \in Node
               PROVE  /\ m \in visited' => level'[m] <= depth'
                      /\ layer'[m] > 0 =>
                           /\ \A p \in Parents(m)' : level'[p] < depth'
                           /\ depth' > 0 => \E p \in Parents(m)' : level'[p] = depth' - 1
                      /\ next_layer'[m] > 0 => \E p \in Parents(m)' : level'[p] = depth'
    BY DEF Levels
  <2>1. m \in visited' => level'[m] <= depth'
    BY <1>2, <1>3, <1>8 DEF Levels, Bag
  <2>2. ASSUME layer'[m] > 0
        PROVE  /\ \A p \in Parents(m)' : level'[p] < depth'
               /\ depth' > 0 => \E p \in Parents(m)' : level'[p] = depth' - 1
    <3>1. m # n /\ layer[m] > 0
      BY <1>3, <2>2
    <3>2. n \notin Parents(m)
      BY <1>1, <1>4, <3>1
    <3>3. \A p \in Parents(m) : level'[p] = level[p]
      BY <1>3, <1>4, <3>2
    <3> QED
      BY <1>1, <1>3, <1>8, <3>1, <3>3 DEF Levels
  <2>3. ASSUME next_layer'[m] > 0
        PROVE  \E p \in Parents(m)' : level'[p] = depth'
    <3>1. CASE m \in Children(n)
      BY <1>1, <1>3, <1>4, <3>1
    <3>2. CASE m \notin Children(n)
      BY <1>1, <1>3, <1>4, <1>8, <2>3, <3>2 DEF Levels
    <3> QED
      BY <3>1, <3>2
  <2> QED
    BY <2>1, <2>2, <2>3
<1>10. LayersFollowParents'
  <2> SUFFICES ASSUME NEW m \in visited'
               PROVE  /\ \A p \in Parents(m)' : p \in visited' /\ level'[p] < level'[m]
                      /\ level'[m] > 0 =>
                           \E p \in Parents(m)' : level'[m] = level'[p] + 1
    BY DEF LayersFollowParents
  <2>1. m \in Node
    BY <1>2, <1>3
  <2>2. \A p \in Parents(m) : p # n => level'[p] = level[p]
    BY <1>3, <1>4, <2>1
  <2>3. CASE m = n
    <3>1. n \notin Parents(n) /\ level'[n] = depth
      BY <1>1, <1>3
    <3>2. /\ \A p \in Parents(n) : level[p] < depth /\ level[p] \in Nat
          /\ depth > 0 => \E p \in Parents(n) : level[p] = depth - 1
      BY <1>1, <1>2, <1>4, <1>8 DEF Levels, Bag
    <3>3. \A p \in Parents(n) : p \in visited' /\ level'[p] = level[p]
      BY <1>1, <1>3, <2>2, <2>3, <3>1
    <3> QED
      BY <1>1, <1>2, <2>3, <3>1, <3>2, <3>3
  <2>4. CASE m # n
    <3>1. m \in visited /\ n \notin Parents(m) /\ level'[m] = level[m]
      BY <1>1, <1>3, <1>8, <2>1, <2>4 DEF LayersFollowParents
    <3>2. \A p \in Parents(m) : level'[p] = level[p]
      BY <2>2, <3>1
    <3> QED
      BY <1>1, <1>3, <1>8, <2>1, <3>1, <3>2 DEF LayersFollowParents
  <2> QED
    BY <2>3, <2>4
<1>11. NoCycleVisited'
  <2> SUFFICES ASSUME NEW S \in SUBSET Node, Cyclic(S)'
               PROVE  S \cap visited' = {}
    BY DEF NoCycleVisited
  <2>1. Cyclic(S)
    BY <1>1 DEF Cyclic
  <2>2. S \cap visited = {}
    BY <2>1 DEF Inv, NoCycleVisited
  <2>3. n \notin S
    BY <1>1, <2>1, <2>2 DEF Cyclic
  <2> QED
    BY <1>3, <2>2, <2>3
<1>12. NoUnknownError' /\ ErrorMeansCycle'
  BY DEF Visit, NoUnknownError, ErrorMeansCycle
<1> QED
  BY <1>5, <1>6, <1>7, <1>9, <1>10, <1>11, <1>12 DEF Inv

\* The comparison of the counts keeps it.
LEMMA FinishStep ==
  ASSUME Inv, Finish
  PROVE  Inv'
<1> USE NodeAssumption DEF Inv
<1>1. TypeOK'
  BY DEF TypeOK, Finish
<1>2. /\ Once' /\ Counted' /\ Levels' /\ LayersFollowParents'
      /\ NoCycleVisited'
  BY DEF Finish, Once, Counted, Levels, LayersFollowParents, NoCycleVisited,
         Parents, Cyclic
<1>3. /\ visited \subseteq Node /\ count = Cardinality(visited)
      /\ Cardinality(visited) \in Nat /\ Cardinality(Node) \in Nat
      /\ Cardinality(visited) <= Cardinality(Node)
      /\ Cardinality(visited) = Cardinality(Node) => visited = Node
      /\ visited = Node => Cardinality(visited) = Cardinality(Node)
  BY FS_Subset, FS_CardinalityType DEF TypeOK, Counted
<1>4. NoUnknownError'
  <2>1. ~ (count > Cardinality(Node))
    BY <1>3
  <2> QED
    BY <2>1 DEF Finish, NoUnknownError
<1>5. ASSUME result' = "contains a cycle"
      PROVE  \E S \in SUBSET Node : Cyclic(S)'
  <2> DEFINE S == Node \ visited
  <2>1. S # {}
    <3>1. count < Cardinality(Node)
      BY <1>5 DEF Finish
    <3> QED
      BY <1>3, <3>1
  <2>2. ASSUME NEW m \in S PROVE Parents(m) \cap S # {}
    <3>1. layer[m] = 0 /\ next_layer[m] = 0
      BY <2>2 DEF Finish, Empty
    <3>2. ~ (Parents(m) \subseteq visited)
      BY <3>1, <2>2 DEF Once
    <3> QED
      BY <3>2 DEF Parents
  <2>3. Cyclic(S)
    BY <2>1, <2>2 DEF Cyclic
  <2>4. Cyclic(S)'
    BY <2>3 DEF Cyclic, Parents, Finish
  <2> QED
    BY <2>4
<1>6. ASSUME result' = "sorted"
      PROVE  visited' = Node /\ ~ \E S \in SUBSET Node : Cyclic(S)'
  <2>1. visited = Node /\ UNCHANGED <<upstream, visited>>
    BY <1>3, <1>6 DEF Finish
  <2>2. ASSUME NEW S \in SUBSET Node, Cyclic(S)' PROVE FALSE
    <3>1. Cyclic(S)
      BY <2>1, <2>2 DEF Cyclic, Parents
    <3>2. S # {} /\ S \cap visited = {}
      BY <3>1 DEF NoCycleVisited, Cyclic
    <3> QED
      BY <2>1, <3>2
  <2> QED
    BY <2>1, <2>2
<1>7. ErrorMeansCycle'
  BY <1>5, <1>6 DEF ErrorMeansCycle
<1> QED
  BY <1>1, <1>2, <1>4, <1>7

\* So does the exchange of the layers.
LEMMA NextLayerStep ==
  ASSUME Inv, NextLayer
  PROVE  Inv'
<1> USE DEF Inv
<1>1. TypeOK'
  BY DEF TypeOK, NextLayer, Empty, Bag
<1>2. \A n \in Node : /\ layer[n] = 0 /\ layer'[n] = next_layer[n]
                      /\ next_layer'[n] = 0 /\ next_layer[n] \in Nat
                      /\ Parents(n)' = Parents(n)
  BY DEF TypeOK, NextLayer, Empty, Bag, Parents
<1>3. Once'
  BY <1>2 DEF Once, NextLayer
<1>4. Levels'
  <2> SUFFICES ASSUME NEW m \in Node
               PROVE  /\ m \in visited' => level'[m] <= depth'
                      /\ layer'[m] > 0 =>
                           /\ \A p \in Parents(m)' : level'[p] < depth'
                           /\ depth' > 0 => \E p \in Parents(m)' : level'[p] = depth' - 1
                      /\ next_layer'[m] > 0 => \E p \in Parents(m)' : level'[p] = depth'
    BY DEF Levels
  <2>1. depth' = depth + 1 /\ depth \in Nat /\ UNCHANGED <<level, visited>>
    BY DEF NextLayer, TypeOK
  <2>2. \A p \in visited : level[p] \in Nat /\ level[p] <= depth
    BY DEF Levels, TypeOK, Bag
  <2>3. ASSUME layer'[m] > 0
        PROVE  Parents(m) \subseteq visited
    BY <1>2, <2>3 DEF Once
  <2> QED
    BY <1>2, <2>1, <2>2, <2>3 DEF Levels
<1>5. /\ Counted' /\ LayersFollowParents' /\ NoCycleVisited'
      /\ NoUnknownError' /\ ErrorMeansCycle'
  BY DEF NextLayer, Counted, LayersFollowParents, NoCycleVisited,
         NoUnknownError, ErrorMeansCycle, Parents, Cyclic
<1> QED
  BY <1>1, <1>3, <1>4, <1>5

\* The strengthening is kept by every step.
LEMMA InvStep == Inv /\ [Next \/ Terminated]_vars => Inv'
<1> SUFFICES ASSUME Inv, [Next \/ Terminated]_vars PROVE Inv'
  OBVIOUS
<1>1. CASE UNCHANGED vars
  BY <1>1 DEF vars, Inv, TypeOK, Bag, Once, Counted, Levels,
              LayersFollowParents, NoCycleVisited, NoUnknownError,
              ErrorMeansCycle, Parents, Cyclic
<1> QED
  BY <1>1, VisitStep, FinishStep, NextLayerStep DEF Next, Terminated

\* The strengthening is an invariant.
LEMMA Invariant == Spec => []Inv
BY InvInit, InvStep, PTL DEF Spec

-----------------------------------------------------------------------------
\* The type invariant of topsorted_layers.
THEOREM TypeCorrect == Spec => []TypeOK
BY Invariant, PTL DEF Inv

\* The error of which line 141 says that it should never happen does not.
THEOREM NeverUnknown == Spec => []NoUnknownError
BY Invariant, PTL DEF Inv

\* Every node is in the layer after the last of its parents.
THEOREM LayersAreOrdered == Spec => []LayersFollowParents
BY Invariant, PTL DEF Inv

\* The nodes are sorted exactly when their graph has no cycle.
THEOREM CyclesAreFound == Spec => []ErrorMeansCycle
BY Invariant, PTL DEF Inv

\* The loop visits at most Cardinality(Node) nodes in at most as many layers, for
\* every graph: the bound that makes it end.
THEOREM LoopIsBounded == Spec => []WorkIsBounded
<1>1. Init => Progress
  BY DEF Init, Progress
<1>2. TypeOK /\ Progress /\ [Next \/ Terminated]_vars => Progress'
  <2> SUFFICES ASSUME TypeOK, Progress, [Next \/ Terminated]_vars PROVE Progress'
    OBVIOUS
  <2>1. depth \in Nat /\ count \in Nat
    BY DEF TypeOK
  <2>2. ASSUME NEW n \in Node, Visit(n) PROVE Progress'
    <3>1. depth' = depth /\ count' = count + 1 /\ depth <= count
      BY <2>2 DEF Visit, Progress
    <3> QED
      BY <2>1, <3>1 DEF Progress
  <2>3. CASE NextLayer
    <3>1. /\ depth' = depth + 1 /\ count' = count /\ depth < count
          /\ next_layer' = Empty
      BY <2>3 DEF NextLayer, Progress
    <3>2. Empty' = Empty
      BY DEF Empty
    <3> QED
      BY <2>1, <3>1, <3>2 DEF Progress
  <2>4. CASE Finish \/ UNCHANGED vars
    BY <2>4 DEF Finish, vars, Progress, Empty
  <2> QED
    BY <2>2, <2>3, <2>4 DEF Next, Terminated
<1>3. Inv /\ Progress => WorkIsBounded
  <2> SUFFICES ASSUME Inv PROVE count <= Cardinality(Node)
    BY DEF Progress, WorkIsBounded
  <2>1. visited \subseteq Node /\ count = Cardinality(visited)
    BY DEF Inv, TypeOK, Counted
  <2>2. Cardinality(visited) <= Cardinality(Node)
    BY <2>1, NodeAssumption, FS_Subset
  <2> QED
    BY <2>1, <2>2
<1>4. Inv => TypeOK
  BY DEF Inv
<1> QED
  BY <1>1, <1>2, <1>3, <1>4, Invariant, PTL DEF Spec
=============================================================================
