---------------------------- MODULE MCDagRunner -----------------------------
(* Instances of DagRunner for TLC.                                         *)
EXTENDS DagRunner, Integers

CONSTANTS NNodes, NThreads

MCNode == 1..NNodes
MCThread == 0..NThreads

\* Every graph: cyclic ones too, which the constructor accepts.
AllGraphs == [MCNode -> SUBSET MCNode]

\* Which upstream nodes n has, as a number: node 1, n itself, the node o.
Rank(g, n, o) == (IF 1 \in g[n] THEN 4 ELSE 0) + (IF n \in g[n] THEN 2 ELSE 0)
                   + (IF o \in g[n] THEN 1 ELSE 0)

\* Every graph up to the names of nodes 2 and 3, which nothing else tells apart
\* as long as both or neither are in Faulty.
DistinctGraphs == {g \in AllGraphs : Rank(g, 2, 3) <= Rank(g, 3, 2)}

\* Two upstream nodes with a common downstream node, and one more below the
\* second of them.
SharedChild == {[n \in MCNode |-> CASE n = 3 -> {1, 2} [] n = 4 -> {2}
                                    [] OTHER -> {}]}
=============================================================================
