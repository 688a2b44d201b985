------------------------------- MODULE Stacks -------------------------------
(***************************************************************************)
(* Stacks and their components (client.py, zen_stores/sql_zen_store.py).   *)
(* A client reads the store, decides whether a change is allowed, and      *)
(* sends it; the server reads the store again, decides on its own, and     *)
(* commits.  What must hold of the table is not declared to the database:  *)
(* it rests on these checks, some of which only the client makes, and      *)
(* nothing keeps what they have read from changing before the commit.      *)
(*                                                                         *)
(* Components are orchestrators; every stack has an artifact store that is *)
(* never touched.  Their names are left out, and so are the default stack, *)
(* active stacks and the deletion of users and workspaces.                 *)
(***************************************************************************)
EXTENDS FiniteSets

CONSTANTS Client,     \* processes with a request of their own
          User,
          Name,       \* names of stacks
          Stack,      \* ids
          Component,  \* ids
          Changes,    \* what an update may ask for
          None        \* no name, no id

\* None and {} leave what is there, and so does FALSE: nothing is unshared.  With
\* strips the update holds a list of orchestrators and the list is empty: the stack
\* is to have none.
Change == {ch \in [name : Name \cup {None}, shared : BOOLEAN,
                   components : SUBSET Component, strips : BOOLEAN] :
             ch.strips => ch.components = {}}

ASSUME NoneAssumption == None \notin Name \cup User \cup Stack \cup Component
ASSUME ChangesAssumption == Changes \subseteq Change

Row == [name : Name \cup {None}, owner : User \cup {None}, shared : BOOLEAN,
        components : SUBSET Component]

Kind == {"create stack", "update stack", "delete stack", "create component",
         "update component", "delete component"}

\* A request about a stack and what its row is to be, or about a component.
Request == [kind : Kind, stack : Stack \cup {None}, row : Row,
            component : Component \cup {None}, strips : BOOLEAN]

VARIABLES
  there,      \* the stacks in the table
  rows,       \* their rows
  component,  \* of each component: absent, private or shared
  pc,         \* where each request is: idle, sent, accepted
  req,        \* the request
  loaded,     \* the row that the server has loaded for it
  stale,      \* history: requests during which another one was committed
  raced,      \* history: stacks written, or robbed of a component, by these
  stripped    \* history: stacks whose components an update took, naming no others

vars == <<there, rows, component, pc, req, loaded, stale, raced, stripped>>
tables == <<there, rows, component>>

NoRow == [name |-> None, owner |-> None, shared |-> FALSE, components |-> {}]

OfStack(kind, s, row, strips) ==
  [kind |-> kind, stack |-> s, row |-> row, component |-> None, strips |-> strips]

OfComponent(kind, c, shared) ==
  [kind |-> kind, stack |-> None, component |-> c, strips |-> FALSE,
   row |-> [name |-> None, owner |-> None, shared |-> shared, components |-> {}]]

NoRequest == OfStack("delete stack", None, NoRow, FALSE)

Init ==
  /\ there = {} /\ rows = [s \in Stack |-> NoRow]
  /\ component = [c \in Component |-> "absent"]
  /\ pc = [t \in Client |-> "idle"]
  /\ req = [t \in Client |-> NoRequest]
  /\ loaded = [t \in Client |-> NoRow]
  /\ stale = {} /\ raced = {} /\ stripped = {}

Exists(c) == component[c] # "absent"

-----------------------------------------------------------------------------
(* The client.                                                             *)

\* Ids are drawn at random: an id that nobody has is as good as a new one.
UnusedStack(s) == s \notin there /\ \A t \in Client : req[t].stack # s
UnusedComponent(c) ==
  /\ ~Exists(c) /\ \A s \in there : c \notin rows[s].components
  /\ \A t \in Client : /\ req[t].component # c
                       /\ c \notin req[t].row.components \cup loaded[t].components

\* list_stacks with a name and a flag: of private stacks one's own.
Listed(name, shared, owner) ==
  \E s \in there : /\ rows[s].name = name /\ rows[s].shared = shared
                   /\ shared \/ rows[s].owner = owner

\* Mutant of RegistersStack: the check that a shared stack has no private components is missing.
RegistersAnyStack(row) == \A c \in row.components : Exists(c)

\* create_stack of the client.
RegistersStack(row) ==
  \A c \in row.components : Exists(c) /\ (row.shared => component[c] = "shared")

\* Mutant of RenamesTo: the flag of the stack itself is forgotten.
RenamesByRequest(now, change) == ~Listed(change.name, change.shared, now.owner)

RenamesTo(now, change) == ~Listed(change.name, change.shared \/ now.shared, now.owner)

\* update_stack of the client, for a stack whose row is now.
UpdatesStack(now, change) ==
  /\ change.name # None => RenamesTo(now, change)
  /\ change.shared =>
       /\ ~Listed(IF change.name # None THEN change.name ELSE now.name, TRUE, now.owner)
       /\ \A c \in now.components : Exists(c) => component[c] = "shared"
  /\ \A c \in change.components : Exists(c)

Send(t, r) ==
  /\ pc[t] = "idle"
  /\ pc' = [pc EXCEPT ![t] = "sent"]
  /\ req' = [req EXCEPT ![t] = r]
  /\ UNCHANGED <<tables, loaded, stale, raced, stripped>>

\* A stack is registered with one component of each kind.
CreateStack(t) ==
  \E s \in Stack, row \in [name : Name, owner : User, shared : BOOLEAN,
                           components : {{c} : c \in Component}] :
    /\ UnusedStack(s) /\ RegistersStack(row)
    /\ Send(t, OfStack("create stack", s, row, FALSE))

\* Only the owner's updates get through, so only they are sent.
UpdateStack(t) ==
  \E s \in there, change \in Changes :
    /\ UpdatesStack(rows[s], change)
    /\ Send(t, OfStack("update stack", s,
                       [name |-> change.name, owner |-> rows[s].owner,
                        shared |-> change.shared, components |-> change.components],
                       change.strips))

DeleteStack(t) ==
  \E s \in there : Send(t, OfStack("delete stack", s, NoRow, FALSE))

CreateComponent(t) ==
  \E c \in Component, shared \in BOOLEAN :
    /\ UnusedComponent(c)
    /\ Send(t, OfComponent("create component", c, shared))

UpdateComponent(t) ==
  \E c \in Component, shared \in BOOLEAN :
    /\ Exists(c)
    /\ Send(t, OfComponent("update component", c, shared))

DeleteComponent(t) ==
  \E c \in Component :
    /\ Exists(c)
    /\ Send(t, OfComponent("delete component", c, FALSE))

-----------------------------------------------------------------------------
(* The server reads.                                                       *)

\* Mutant of NameExistsForUser: only private stacks are looked at.
PrivateNameExistsForUser(name, user) ==
  \E s \in there : rows[s].name = name /\ rows[s].owner = user /\ ~rows[s].shared

NameExistsForUser(name, user) ==
  \E s \in there : rows[s].name = name /\ rows[s].owner = user

NameAlreadyShared(name) == \E s \in there : rows[s].name = name /\ rows[s].shared

AcceptsStack(row) ==
  /\ ~NameExistsForUser(row.name, row.owner)
  /\ row.shared => ~NameAlreadyShared(row.name)

\* Without a new name, the second check looks for a stack without a name.
AcceptsChange(s, row) ==
  /\ s \in there /\ rows[s].owner = row.owner
  /\ row.name \notin {None, rows[s].name} => ~NameExistsForUser(row.name, row.owner)
  /\ row.shared /\ ~rows[s].shared => ~NameAlreadyShared(row.name)

\* Mutant of AcceptsDeletion: only shared stacks keep a component.
AcceptsDeletionOfUnshared(c) ==
  Exists(c) /\ \A s \in there : c \in rows[s].components => ~rows[s].shared

AcceptsDeletion(c) == Exists(c) /\ \A s \in there : c \notin rows[s].components

Accepts(r) ==
  /\ r.kind = "create stack" => AcceptsStack(r.row)
  /\ r.kind = "update stack" => AcceptsChange(r.stack, r.row)
  /\ r.kind = "delete stack" => r.stack \in there
  /\ r.kind = "update component" => Exists(r.component)
  /\ r.kind = "delete component" => AcceptsDeletion(r.component)

Loads(r) == IF r.kind = "update stack" THEN rows[r.stack] ELSE NoRow

\* Of the components that the request names those that are found: the others
\* are not missed.  An update without a list of them keeps what the stack has, one
\* whose list is empty is not refused.
Found(r) ==
  IF r.kind = "update stack" /\ r.row.components = {} /\ ~r.strips
  THEN rows[r.stack].components
  ELSE {c \in r.row.components : Exists(c)}

Accept(t) ==
  /\ pc[t] = "sent" /\ Accepts(req[t])
  /\ pc' = [pc EXCEPT ![t] = "accepted"]
  /\ req' = [req EXCEPT ![t].row.components = Found(req[t])]
  /\ loaded' = [loaded EXCEPT ![t] = Loads(req[t])]
  /\ UNCHANGED <<tables, stale, raced, stripped>>

-----------------------------------------------------------------------------
(* The server commits.                                                     *)

Busy == {t \in Client : pc[t] # "idle"}

\* The request ends; others have read what is no more.
End(t, outdated) ==
  /\ pc' = [pc EXCEPT ![t] = "idle"]
  /\ req' = [req EXCEPT ![t] = NoRequest]
  /\ loaded' = [loaded EXCEPT ![t] = NoRow]
  /\ stale' = (stale \cup outdated) \ {t}

Commit(t, kind) ==
  /\ pc[t] = "accepted" /\ req[t].kind = kind
  /\ End(t, Busy)

Raced(t, stacks) == raced' = IF t \in stale THEN raced \cup stacks ELSE raced

InsertStack(t) ==
  /\ Commit(t, "create stack")
  /\ there' = there \cup {req[t].stack}
  /\ rows' = [rows EXCEPT ![req[t].stack] = req[t].row]
  /\ Raced(t, {req[t].stack})
  /\ UNCHANGED <<component, stripped>>

Links(old, change) == change.components \ old.components
Unlinks(old, change) == old.components \ change.components

\* Mutant of Merge: the fields that the request leaves out are written too.
MergeUnset(now, old, change) ==
  [name |-> change.name, owner |-> now.owner, shared |-> change.shared,
   components |-> (now.components \ Unlinks(old, change)) \cup Links(old, change)]

\* The ORM writes the columns and the links that differ from the loaded row.
Merge(now, old, change) ==
  [name |-> IF change.name \in {None, old.name} THEN now.name ELSE change.name,
   owner |-> now.owner,
   shared |-> now.shared \/ change.shared,
   components |-> (now.components \ Unlinks(old, change)) \cup Links(old, change)]

\* A link is written once and deleted once: otherwise the commit raises.
UpdateStackRow(t) ==
  LET s == req[t].stack
  IN  /\ Commit(t, "update stack")
      /\ s \in there
      /\ Unlinks(loaded[t], req[t].row) \subseteq rows[s].components
      /\ Links(loaded[t], req[t].row) \cap rows[s].components = {}
      /\ rows' = [rows EXCEPT ![s] = Merge(rows[s], loaded[t], req[t].row)]
      /\ Raced(t, {s})
      /\ stripped' = {r \in there : /\ rows'[r].components = {}
                                    /\ r \in stripped \/ (r = s /\ req[t].strips)}
      /\ UNCHANGED <<there, component>>

DeleteStackRow(t) ==
  /\ Commit(t, "delete stack")
  /\ there' = there \ {req[t].stack}
  /\ rows' = [rows EXCEPT ![req[t].stack] = NoRow]
  /\ raced' = raced \ {req[t].stack} /\ stripped' = stripped \ {req[t].stack}
  /\ UNCHANGED component

WriteComponent(t, kind, state) ==
  /\ Commit(t, kind)
  /\ component' = [component EXCEPT ![req[t].component] = state]
  /\ UNCHANGED <<there, rows, stripped>>

SharedOr(t) == IF req[t].row.shared THEN "shared" ELSE "private"

InsertComponent(t) == WriteComponent(t, "create component", SharedOr(t)) /\ UNCHANGED raced

UpdateComponentRow(t) ==
  /\ WriteComponent(t, "update component", SharedOr(t)) /\ UNCHANGED raced
  /\ Exists(req[t].component)

\* A link to a component that is gone is removed with it, or leads nowhere.
DeleteComponentRow(t) ==
  /\ WriteComponent(t, "delete component", "absent")
  /\ Raced(t, {s \in there : req[t].component \in rows[s].components})

\* The request is refused, or a call raises (the row that is to be updated is gone,
\* a component that is to be linked is gone, the store is out of reach).
Fail(t) ==
  /\ pc[t] # "idle"
  /\ End(t, {})
  /\ UNCHANGED <<tables, raced, stripped>>

-----------------------------------------------------------------------------
Asks(t) ==
  \/ CreateStack(t) \/ UpdateStack(t) \/ DeleteStack(t)
  \/ CreateComponent(t) \/ UpdateComponent(t) \/ DeleteComponent(t)

Commits(t) ==
  \/ InsertStack(t) \/ UpdateStackRow(t) \/ DeleteStackRow(t)
  \/ InsertComponent(t) \/ UpdateComponentRow(t) \/ DeleteComponentRow(t)

Next == \E t \in Client : Asks(t) \/ Accept(t) \/ Commits(t) \/ Fail(t)

Spec == Init /\ [][Next]_vars

-----------------------------------------------------------------------------
\* The types of the tables and of the requests; a stack has a name and an owner.
TypeOK ==
  /\ there \subseteq Stack /\ rows \in [Stack -> Row]
  /\ \A s \in there : rows[s].name # None /\ rows[s].owner # None
  /\ component \in [Component -> {"absent", "private", "shared"}]
  /\ pc \in [Client -> {"idle", "sent", "accepted"}]
  /\ req \in [Client -> Request] /\ loaded \in [Client -> Row]
  /\ stale \subseteq Client /\ raced \subseteq Stack /\ stripped \subseteq Stack

\* No user has two stacks of one name, unless one of them was written by a
\* request that another one overtook.
OwnNamesDiffer ==
  \A s, r \in there \ raced :
    s # r => rows[s].name # rows[r].name \/ rows[s].owner # rows[r].owner

\* No two shared stacks have one name, under the same proviso.  The server does
\* not see to it when a shared stack is renamed or a stack is shared.
SharedNamesDiffer ==
  \A s, r \in there \ raced :
    s # r /\ rows[s].shared /\ rows[r].shared => rows[s].name # rows[r].name

\* A stack has an orchestrator, and the ones it is linked to exist, under the
\* same proviso.  It has none as long as it is stripped: an update with an empty
\* list took it and no later one named another, which neither the client nor the
\* server refuses.  No other request of the client leaves a stack without.
StacksAreComplete ==
  \A s \in there \ raced :
    /\ rows[s].components # {} \/ s \in stripped
    /\ \A c \in rows[s].components : Exists(c)

\* A stack that is shared, and keeps its components while it is, has shared
\* components only; the stacks that are written by overtaken requests aside.
SharesOnlyShared ==
  [][\A s \in there' \ raced' :
       /\ rows'[s].shared /\ (s \in there => ~rows[s].shared)
       /\ s \in there => rows'[s].components = rows[s].components
       => \A c \in rows'[s].components : component'[c] = "shared"]_vars
=============================================================================
