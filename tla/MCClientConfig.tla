--------------------------- MODULE MCClientConfig ---------------------------
(* Instances of ClientConfig for TLC.                                      *)
EXTENDS ClientConfig, TLC

\* Two stacks in the default workspace, the first of them its default stack,
\* and the default stack of another workspace.
MCWorkspaceOf == [s \in {"default", "local", "remote"} |->
                    IF s = "remote" THEN "team" ELSE "home"]
MCDefaultStack == [w \in {"home", "team"} |->
                     IF w = "home" THEN "default" ELSE "remote"]

Clients == Permutations(Client)
=============================================================================
