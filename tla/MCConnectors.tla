---------------------------- MODULE MCConnectors ----------------------------
(* Two threads that answer requests about one connector, with four secrets  *)
(* to give out: a chain of replacements, and requests that overlap with     *)
(* several of another thread.                                               *)
EXTENDS Connectors, TLC

CONSTANTS t1, t2, c1, s1, s2, s3, s4

Threads == {t1, t2}
Connectors1 == {c1}
Secrets == {s1, s2, s3, s4}
Symmetry == Permutations(Threads) \cup Permutations(Secrets)
=============================================================================
