------------------------------ MODULE MCTopsort -----------------------------
(* Instances of Topsort for TLC.                                           *)
EXTENDS Topsort

MCNode == 1..4
MCUnknown == {0}

\* All the graphs of four nodes, one of which may have an unknown parent.
MCGraphs == {g \in [MCNode -> SUBSET (MCNode \cup MCUnknown)] :
               \A n \in MCNode \ {1} : 0 \notin g[n]}
=============================================================================
