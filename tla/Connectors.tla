----------------------------- MODULE Connectors -----------------------------
(***************************************************************************)
(* Service connectors and their secrets (zen_stores/sql_zen_store.py).     *)
(* The credentials of a connector are in the secrets store, the connector  *)
(* is a row of the database: a request changes two stores, in an order of  *)
(* its own, and nothing undoes one change when the other fails.  The       *)
(* server answers requests in threads that share nothing else.             *)
(*                                                                         *)
(* What is checked before anything is changed (names, the configuration,   *)
(* components that use the connector) only refuses a request; the model    *)
(* lets every request through.                                             *)
(***************************************************************************)
EXTENDS FiniteSets

CONSTANTS Thread,      \* the threads of the server
          Connector,   \* ids of connectors, each given out once
          Secret,      \* ids of secrets, each given out once
          None         \* no secret

ASSUME NoneAssumption == None \notin Secret \cup Connector

\* The columns of a connector that matter here.
Row == [secret : Secret \cup {None}, shared : BOOLEAN]

VARIABLES
  born,     \* the connectors whose creation was requested
  there,    \* those in the table
  rows,     \* their rows
  scope,    \* of each secret: unused and deleted are no secrets
  owner,    \* history: the connector that a secret was created for
  pc,       \* what each thread does
  kind,     \* the request it answers
  on,       \* the connector of the request
  read,     \* the row as the request has found it
  write,    \* the row as the request will write it
  touched,  \* history: the threads that changed a secret and did not commit yet
  stale,    \* history: the threads whose row has changed since it was read
  torn,     \* history: connectors, a request about which failed half-way
  lost      \* history: connectors with a write to a row read too early

vars == <<born, there, rows, scope, owner, pc, kind, on, read, write, touched,
          stale, torn, lost>>
db == <<there, rows>>
request == <<kind, on, read>>
history == <<stale, torn, lost>>

NoRow == [secret |-> None, shared |-> FALSE]

Init ==
  /\ born = {} /\ there = {}
  /\ rows = [c \in Connector |-> NoRow]
  /\ scope = [s \in Secret |-> "unused"]
  /\ owner = [s \in Secret |-> None]
  /\ pc = [t \in Thread |-> "idle"]
  /\ kind \in [Thread -> {"create"}]
  /\ on \in [Thread -> {None}]
  /\ read = [t \in Thread |-> NoRow]
  /\ write = [t \in Thread |-> NoRow]
  /\ touched = {} /\ stale = {} /\ torn = {} /\ lost = {}

Goto(t, where) == pc' = [pc EXCEPT ![t] = where]

\* A request arrives, finds the row old and means to write new.
Begin(t, request_kind, c, old, new) ==
  /\ pc[t] = "idle"
  /\ kind' = [kind EXCEPT ![t] = request_kind]
  /\ on' = [on EXCEPT ![t] = c]
  /\ read' = [read EXCEPT ![t] = old]
  /\ write' = [write EXCEPT ![t] = new]
  /\ UNCHANGED <<there, rows, scope, owner, touched, stale, torn, lost>>

\* A request is answered, or ends with an exception; the other requests about
\* the connector may have read a row that is no more.
AnswerAnd(t, outdated) ==
  /\ Goto(t, "idle")
  /\ kind' = [kind EXCEPT ![t] = "create"]
  /\ on' = [on EXCEPT ![t] = None]
  /\ read' = [read EXCEPT ![t] = NoRow]
  /\ write' = [write EXCEPT ![t] = NoRow]
  /\ touched' = touched \ {t}
  /\ stale' = (stale \cup outdated) \ {t}
  /\ UNCHANGED born

Answer(t) == AnswerAnd(t, {})
Others(t) == {u \in Thread : pc[u] # "idle" /\ on[u] = on[t]}

\* A request ends with an exception: what it did to the secrets is not undone.
Raise(t) ==
  /\ torn' = IF t \in touched THEN torn \cup {on[t]} ELSE torn
  /\ Answer(t)
  /\ UNCHANGED <<there, rows, scope, owner, lost>>

-----------------------------------------------------------------------------
(* The three requests.                                                     *)

CreateServiceConnector(t, c, shared, secrets) ==
  /\ c \notin born /\ born' = born \cup {c}
  /\ LET new == [secret |-> None, shared |-> shared]
     IN  Begin(t, "create", c, new, new)
  /\ Goto(t, IF secrets THEN "create secret" ELSE "commit")

\* Mutant of SecretUpdate: the scope of a secret that is kept stays.
SecretUpdateKeepsScope(row, shared, secrets) ==
  CASE secrets = "new" /\ row.secret # None -> "replace secret"
    [] secrets = "empty" /\ row.secret # None -> "drop secret"
    [] secrets = "new" /\ row.secret = None -> "create secret"
    [] OTHER -> "commit"

\* _update_connector_secret, up to its first call: what is done with the
\* secret.  secrets is None ("keep"), {} ("empty") or new credentials ("new").
SecretUpdate(row, shared, secrets) ==
  CASE secrets = "keep" /\ row.secret # None /\ shared # row.shared -> "update scope"
    [] secrets = "new" /\ row.secret # None -> "replace secret"
    [] secrets = "empty" /\ row.secret # None -> "drop secret"
    [] secrets = "new" /\ row.secret = None -> "create secret"
    [] OTHER -> "commit"

UpdateServiceConnector(t, c, shared, secrets) ==
  /\ c \in there
  /\ LET kept == IF secrets = "keep" THEN rows[c].secret ELSE None
     IN  Begin(t, "update", c, rows[c], [secret |-> kept, shared |-> shared])
  /\ Goto(t, SecretUpdate(rows[c], shared, secrets))
  /\ UNCHANGED born

DeleteServiceConnector(t, c) ==
  /\ c \in there
  /\ Begin(t, "delete", c, rows[c], rows[c])
  /\ Goto(t, IF rows[c].secret # None THEN "drop secret" ELSE "commit")
  /\ UNCHANGED born

-----------------------------------------------------------------------------
(* Calls of the secrets store; each one commits.                           *)

\* Mutant of ScopeOf: the name of the flag is taken for that of a scope.
ScopeNamedShared(shared) == IF shared THEN "is_shared" ELSE "user"

ScopeOf(shared) == IF shared THEN "workspace" ELSE "user"

\* _create_connector_secret, with a name that is free.
CreateSecret(t) ==
  /\ pc[t] = "create secret"
  /\ \E s \in Secret :
       /\ scope[s] = "unused"
       /\ scope' = [scope EXCEPT ![s] = ScopeOf(write[t].shared)]
       /\ owner' = [owner EXCEPT ![s] = on[t]]
       /\ write' = [write EXCEPT ![t].secret = s]
  /\ touched' = touched \cup {t}
  /\ Goto(t, "commit")
  /\ UNCHANGED <<born, db, request, history>>

Exists(s) == scope[s] \in {"user", "workspace"}

UpdateScope(t) ==
  /\ pc[t] = "update scope" /\ Exists(read[t].secret)
  /\ scope' = [scope EXCEPT ![read[t].secret] = ScopeOf(write[t].shared)]
  /\ touched' = touched \cup {t}
  /\ Goto(t, "commit")
  /\ UNCHANGED <<born, db, owner, request, write, history>>

\* update_secret: the KeyError of a secret that is gone ends the request.
UpdateScopeRaises(t) ==
  /\ pc[t] = "update scope" /\ ~Exists(read[t].secret)
  /\ Raise(t)

\* The old secret goes first; the KeyError of one that is gone is ignored.
DeleteSecret(t) ==
  /\ pc[t] \in {"replace secret", "drop secret"}
  /\ scope' = [scope EXCEPT ![read[t].secret] = "deleted"]
  /\ touched' = touched \cup {t}
  /\ Goto(t, IF pc[t] = "replace secret" THEN "create secret" ELSE "commit")
  /\ UNCHANGED <<born, db, owner, request, write, history>>

-----------------------------------------------------------------------------
(* The commits of the database.                                            *)

\* The row is in the table, and the request has what it will read back.
Insert(t) ==
  /\ pc[t] = "commit" /\ kind[t] = "create"
  /\ there' = there \cup {on[t]}
  /\ rows' = [rows EXCEPT ![on[t]] = write[t]]
  /\ read' = [read EXCEPT ![t] = write[t]]
  /\ touched' = touched \ {t}
  /\ Goto(t, "refresh")
  /\ UNCHANGED <<born, scope, owner, kind, on, write, history>>

\* session.refresh, if nobody has deleted the row since.
Refresh(t) ==
  /\ pc[t] = "refresh" /\ on[t] \in there
  /\ Answer(t)
  /\ UNCHANGED <<db, scope, owner, torn, lost>>

\* Mutant of InsertRaises: the secret is forgotten.
InsertRaisesOnly(t) ==
  /\ pc[t] \in {"commit", "refresh"} /\ kind[t] = "create"
  /\ Answer(t)
  /\ UNCHANGED <<db, scope, owner, torn, lost>>

\* The commit of a new connector fails, or its reply is lost, or the refresh
\* behind it fails: the handler of all three will delete the secret.
InsertRaises(t) ==
  /\ pc[t] \in {"commit", "refresh"} /\ kind[t] = "create"
  /\ IF write[t].secret = None THEN Answer(t)
     ELSE Goto(t, "clean up") /\ UNCHANGED <<born, request, write, touched, stale>>
  /\ UNCHANGED <<db, scope, owner, torn, lost>>

\* The row of the connector names the secret, which exists.
InUse(c, s) == c \in there /\ rows[c].secret = s /\ Exists(s)

\* The handler does not know whether the row is in the table: then it stays
\* there without its secret.
CleanUp(t) ==
  /\ pc[t] = "clean up"
  /\ scope' = [scope EXCEPT ![write[t].secret] = "deleted"]
  /\ torn' = IF InUse(on[t], write[t].secret) THEN torn \cup {on[t]} ELSE torn
  /\ Answer(t)
  /\ UNCHANGED <<db, owner, lost>>

\* Mutant of Merge: it writes all of the row.
MergeAll(row, old, new) == new

\* The ORM writes the columns whose value differs from the one it has read.
Merge(row, old, new) ==
  [secret |-> IF new.secret = old.secret THEN row.secret ELSE new.secret,
   shared |-> IF new.shared = old.shared THEN row.shared ELSE new.shared]

Update(t) ==
  /\ pc[t] = "commit" /\ kind[t] = "update" /\ on[t] \in there
  /\ rows' = [rows EXCEPT ![on[t]] = Merge(rows[on[t]], read[t], write[t])]
  /\ AnswerAnd(t, IF write[t] = read[t] THEN {} ELSE Others(t))
  /\ lost' = IF t \in stale /\ write[t] # read[t] THEN lost \cup {on[t]} ELSE lost
  /\ UNCHANGED <<there, scope, owner, torn>>

\* An update that finds no row raises, and leaves the secrets as they are.
UpdateRaises(t) ==
  /\ pc[t] = "commit" /\ kind[t] = "update" /\ on[t] \notin there
  /\ Raise(t)

\* A row that another request has deleted already is no error.
Delete(t) ==
  /\ pc[t] = "commit" /\ kind[t] = "delete"
  /\ there' = there \ {on[t]}
  /\ rows' = [rows EXCEPT ![on[t]] = NoRow]
  /\ AnswerAnd(t, Others(t))
  /\ lost' = IF t \in stale THEN lost \cup {on[t]} ELSE lost
  /\ UNCHANGED <<scope, owner, torn>>

\* A call raises (the secrets store or the database is out of reach, or the
\* random name is taken), or the server is killed.
Fail(t) ==
  /\ pc[t] # "idle"
  /\ Raise(t)

-----------------------------------------------------------------------------
Request(t) ==
  \E c \in Connector :
    \/ \E shared, secrets \in BOOLEAN : CreateServiceConnector(t, c, shared, secrets)
    \/ \E shared \in BOOLEAN, secrets \in {"keep", "empty", "new"} :
         UpdateServiceConnector(t, c, shared, secrets)
    \/ DeleteServiceConnector(t, c)

SecretsStore(t) ==
  CreateSecret(t) \/ UpdateScope(t) \/ UpdateScopeRaises(t) \/ DeleteSecret(t)

Database(t) ==
  \/ Insert(t) \/ Refresh(t) \/ InsertRaises(t) \/ CleanUp(t)
  \/ Update(t) \/ UpdateRaises(t) \/ Delete(t)

Next == \E t \in Thread : Request(t) \/ SecretsStore(t) \/ Database(t) \/ Fail(t)

Spec == Init /\ [][Next]_vars

-----------------------------------------------------------------------------
\* The types of the tables, of the secrets store and of the threads.
TypeOK ==
  /\ born \subseteq Connector /\ there \subseteq Connector
  /\ rows \in [Connector -> Row]
  /\ scope \in [Secret -> {"unused", "user", "workspace", "deleted"}]
  /\ owner \in [Secret -> Connector \cup {None}]
  /\ pc \in [Thread -> {"idle", "create secret", "update scope",
                        "replace secret", "drop secret", "commit", "refresh", "clean up"}]
  /\ kind \in [Thread -> {"create", "update", "delete"}]
  /\ on \in [Thread -> Connector \cup {None}]
  /\ \A t \in Thread : pc[t] # "idle" => on[t] \in Connector
  /\ read \in [Thread -> Row] /\ write \in [Thread -> Row]
  /\ touched \subseteq Thread /\ stale \subseteq Thread
  /\ torn \subseteq Connector /\ lost \subseteq Connector

Working(t, c) == pc[t] # "idle" /\ on[t] = c

\* The request has deleted the secret s and will take it out of the row.
Replacing(t, s) ==
  /\ pc[t] \in {"create secret", "commit"} /\ t \in touched
  /\ kind[t] \in {"update", "delete"} /\ read[t].secret = s
  /\ kind[t] = "update" => write[t].secret # s

\* However many requests change a connector at once, and however their writes
\* overtake each other: the secret that its row names exists, unless some
\* request is about to replace it, or one has failed half-way.  One that has,
\* too, is a creation that raised behind its commit: its handler takes the
\* secret from a row that stays, and from no other.
SecretPresent ==
  \A c \in there \ torn, s \in Secret :
    rows[c].secret = s /\ ~Exists(s) =>
      \E t \in Thread : on[t] = c /\ Replacing(t, s)

\* No secret is left behind: it is in its connector's row, or a request still
\* has it, unless a request about the connector failed half-way or wrote over
\* what another had written.  A creation whose commit fails leaves none.
NoOrphan ==
  \A s \in Secret :
    Exists(s) /\ owner[s] \notin torn \cup lost =>
      \/ owner[s] \in there /\ rows[owner[s]].secret = s
      \/ \E t \in Thread : Working(t, owner[s]) /\ write[t].secret = s

\* A secret is visible to whom its connector is: when no request about the
\* connector is at work, under the same proviso.
ScopeMatches ==
  \A c \in there \ (torn \cup lost) :
    rows[c].secret # None /\ ~(\E t \in Thread : Working(t, c)) =>
      scope[rows[c].secret] = ScopeOf(rows[c].shared)

-----------------------------------------------------------------------------
(* The inductive forms of the three.                                       *)

\* The secret that the request will write is one it has created.
Fresh(t) == write[t].secret # None /\ write[t].secret # read[t].secret

\* The request has changed the scope of the secret that it keeps.
Dirty(t) ==
  kind[t] = "update" /\ write[t].secret = read[t].secret /\ t \in touched

\* The request takes the secret that it has read out of the row.
Drops(t) ==
  /\ kind[t] \in {"update", "delete"} /\ read[t].secret # None
  /\ kind[t] = "update" => write[t].secret # read[t].secret

\* The connector of the request is not in the table, and no other request knows it.
Inserting(t) ==
  /\ kind[t] = "create" /\ pc[t] \in {"create secret", "commit", "clean up"}
  /\ pc[t] = "clean up" => read[t].secret = None

\* What a thread holds at each point of a request.
Local(t) ==
  /\ pc[t] = "idle" =>
       /\ kind[t] = "create" /\ on[t] = None
       /\ read[t] = NoRow /\ write[t] = NoRow /\ t \notin touched /\ t \notin stale
  /\ pc[t] # "idle" => on[t] \in born
  /\ kind[t] = "create" =>
       /\ pc[t] \in {"idle", "create secret", "commit", "refresh", "clean up"}
       /\ pc[t] = "clean up" => write[t].secret # None
  /\ Inserting(t) => read[t].secret = None /\ on[t] \notin there
  /\ kind[t] = "delete" => write[t] = read[t] /\ pc[t] \in {"drop secret", "commit"}
  /\ pc[t] \in {"refresh", "clean up"} => kind[t] = "create"
  /\ pc[t] = "refresh" => read[t] = write[t]
  /\ pc[t] \in {"create secret", "replace secret"} => write[t].secret = None
  /\ pc[t] = "replace secret" => kind[t] = "update"
  /\ pc[t] = "drop secret" /\ kind[t] = "update" => write[t].secret = None
  /\ pc[t] \in {"replace secret", "drop secret", "update scope"} => read[t].secret # None
  /\ pc[t] = "update scope" =>
       /\ kind[t] = "update" /\ t \notin touched
       /\ write[t].secret = read[t].secret /\ write[t].shared # read[t].shared
  /\ Fresh(t) => t \in touched
  /\ Dirty(t) => write[t].shared # read[t].shared /\ pc[t] = "commit"
  /\ Drops(t) /\ pc[t] \in {"create secret", "commit"} =>
       t \in touched /\ scope[read[t].secret] = "deleted"
  /\ pc[t] = "commit" /\ kind[t] = "update" /\ write[t].secret = read[t].secret
       /\ read[t].secret # None /\ write[t].shared # read[t].shared => t \in touched

\* What the secrets that it has read and created are, and who else has them.
Holds(t) ==
  /\ read[t].secret # None =>
       owner[read[t].secret] = on[t] /\ scope[read[t].secret] # "unused"
  /\ Fresh(t) =>
       /\ owner[write[t].secret] = on[t]
       /\ scope[write[t].secret] = ScopeOf(write[t].shared)
       /\ on[t] \in there => rows[on[t]].secret # write[t].secret
       /\ \A u \in Thread \ {t} : /\ read[u].secret # write[t].secret
                                  /\ write[u].secret # write[t].secret
  /\ Inserting(t) => \A u \in Thread \ {t} : on[u] # on[t]
  /\ kind[t] # "create" /\ t \notin stale =>
       on[t] \in there /\ rows[on[t]] = read[t]

RowInv ==
  /\ there \subseteq born
  /\ \A t \in Thread : Local(t) /\ Holds(t)
  /\ \A c \in there : rows[c].secret # None =>
       owner[rows[c].secret] = c /\ scope[rows[c].secret] # "unused"

OrphanInv ==
  \A s \in Secret :
    Exists(s) /\ owner[s] \notin torn \cup lost =>
      \/ owner[s] \in there /\ rows[owner[s]].secret = s
      \/ \E t \in Thread : Fresh(t) /\ write[t].secret = s

\* The scope of a secret is that of the row, or the one that the requests will
\* write, unless one of these has read the row too early: it loses its connector.
ScopeInv ==
  \A c \in there \ (torn \cup lost), s \in Secret :
    /\ rows[c].secret = s /\ Exists(s)
    /\ \A t \in Thread : on[t] = c /\ Dirty(t) => t \notin stale
    => /\ \A t \in Thread : on[t] = c /\ Dirty(t) => scope[s] = ScopeOf(write[t].shared)
       /\ \/ scope[s] = ScopeOf(rows[c].shared)
          \/ \E t \in Thread : on[t] = c /\ Dirty(t)
=============================================================================
