----------------------------- MODULE MCRunStore -----------------------------
(* Instances of RunStore for TLC.                                          *)
EXTENDS RunStore

\* Three launchers of run r1, two of which compute the same name, and one of
\* run r2.
MCCaller == 1..4
MCRequest == <<[id |-> "r1", name |-> "n1"], [id |-> "r1", name |-> "n2"],
               [id |-> "r1", name |-> "n1"], [id |-> "r2", name |-> "n3"]>>

\* Two runs with a run name without placeholders.
FixedNameCaller == 1..2
FixedNameRequest == <<[id |-> "r1", name |-> "n1"], [id |-> "r2", name |-> "n1"]>>
=============================================================================
