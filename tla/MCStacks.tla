------------------------------- MODULE MCStacks -------------------------------
(***************************************************************************)
(* Two requests at a time and two of everything.  An update asks for one   *)
(* change, which is what each command of the CLI does.                     *)
(***************************************************************************)
EXTENDS Stacks, TLC, Naturals

\* zenml stack rename, share and update, and Client.update_stack with no component
\* for the type.
OneChange ==
  LET Of(name, shared, components, strips) ==
        [name : name, shared : shared, components : components, strips : strips]
  IN  Of(Name, {FALSE}, {{}}, {FALSE})
      \cup Of({None}, {TRUE}, {{}}, {FALSE})
      \cup Of({None}, {FALSE}, {{k} : k \in Component}, {FALSE})
      \cup Of({None}, {FALSE}, {{}}, {TRUE})

Symmetry == Permutations(Client) \cup Permutations(User) \cup Permutations(Name)
            \cup Permutations(Stack) \cup Permutations(Component)

\* Bound: after an overtaken request has written a stack, requests go one by one,
\* and once such requests have written both stacks nothing is said of them.
FewRaced == Cardinality(raced) <= 1 /\ (raced # {} => Cardinality(Busy) <= 1)
=============================================================================
