---------------------------- MODULE StacksProofs ----------------------------
(***************************************************************************)
(* What keeps the stacks in order, for any number of clients, stacks and   *)
(* components.  A request that no commit has overtaken finds the tables as *)
(* the client and the server have read them (Fresh): so the checks of both *)
(* still hold when it is committed.  A request that has been overtaken may *)
(* write anything, and the stack it writes is one of raced.                *)
(***************************************************************************)
EXTENDS Stacks, TLAPS

\* A request names what it is about, and a new stack has a name and an owner.
Formed(r) ==
  /\ r.kind \in {"create stack", "update stack", "delete stack"} => r.stack \in Stack
  /\ r.kind \in {"create component", "update component", "delete component"}
       => r.component \in Component
  /\ r.kind = "create stack" => r.row.name # None /\ r.row.owner # None

AllFormed == \A t \in Client : pc[t] # "idle" => Formed(req[t])

\* What the client has seen to, of the names and the sharing.
Checked(r) ==
  /\ r.kind = "create stack" => RegistersStack(r.row) /\ r.row.components # {}
  /\ r.kind = "update stack" =>
       /\ r.stack \in there
       /\ r.row.name # None => RenamesTo(rows[r.stack], r.row)
       /\ r.row.shared =>
            /\ ~Listed(IF r.row.name # None THEN r.row.name ELSE rows[r.stack].name,
                       TRUE, rows[r.stack].owner)
            /\ \A c \in rows[r.stack].components : Exists(c) => component[c] = "shared"

\* The components of an update exist; once it is accepted there are some, unless it
\* strips the stack or the stack is stripped.
Complete(r) ==
  r.stack \notin raced =>
    /\ r.row.components # {} \/ r.strips \/ r.stack \in stripped
    /\ \A c \in r.row.components : Exists(c)

Fresh(t) ==
  /\ Checked(req[t])
  /\ (pc[t] = "sent" /\ req[t].kind = "update stack")
       => \A c \in req[t].row.components : Exists(c)
  /\ pc[t] = "accepted" =>
       /\ Accepts(req[t]) /\ loaded[t] = Loads(req[t])
       /\ req[t].kind = "update stack" => Complete(req[t])

AllFresh == \A t \in Client : pc[t] # "idle" /\ t \notin stale => Fresh(t)

TypeInv == TypeOK /\ AllFormed

-----------------------------------------------------------------------------
\* Whatever a client sends is a request that names what it is about, and the
\* client has seen to it.
LEMMA WhatIsSent ==
  ASSUME TypeInv, NEW t \in Client, Asks(t)
  PROVE  \E r \in Request :
           /\ Send(t, r) /\ Formed(r) /\ Checked(r)
           /\ r.kind = "update stack" => \A c \in r.row.components : Exists(c)
<1> DEFINE Goal == \E r \in Request :
           /\ Send(t, r) /\ Formed(r) /\ Checked(r)
           /\ r.kind = "update stack" => \A c \in r.row.components : Exists(c)
<1>0. NoRow \in Row BY DEF NoRow, Row
<1>1. CreateStack(t) => Goal
  <2> SUFFICES ASSUME CreateStack(t) PROVE Goal OBVIOUS
  <2>1. PICK s \in Stack, row \in [name : Name, owner : User, shared : BOOLEAN,
                                   components : {{c} : c \in Component}] :
          RegistersStack(row) /\ Send(t, OfStack("create stack", s, row, FALSE))
    BY DEF CreateStack
  <2>2. row \in Row /\ row.components # {} /\ row.name # None /\ row.owner # None
    BY NoneAssumption DEF Row
  <2> DEFINE r == OfStack("create stack", s, row, FALSE)
  <2>3. r \in Request BY <2>2 DEF OfStack, Request, Kind
  <2>4. Formed(r) /\ Checked(r) /\ r.kind # "update stack"
    BY <2>1, <2>2 DEF OfStack, Formed, Checked
  <2> QED BY <2>1, <2>3, <2>4
<1>2. UpdateStack(t) => Goal
  <2> SUFFICES ASSUME UpdateStack(t) PROVE Goal OBVIOUS
  <2>1. PICK s \in there, change \in Changes :
          /\ UpdatesStack(rows[s], change)
          /\ Send(t, OfStack("update stack", s,
                            [name |-> change.name, owner |-> rows[s].owner,
                             shared |-> change.shared, components |-> change.components],
                            change.strips))
    BY DEF UpdateStack
  <2> DEFINE row == [name |-> change.name, owner |-> rows[s].owner,
                     shared |-> change.shared, components |-> change.components]
             r == OfStack("update stack", s, row, change.strips)
  <2>2. s \in Stack /\ rows[s] \in Row BY DEF TypeInv, TypeOK
  <2>3. change \in Change BY ChangesAssumption
  <2>4. row \in Row /\ change.strips \in BOOLEAN BY <2>2, <2>3 DEF Row, Change
  <2>5. r \in Request BY <2>2, <2>4 DEF OfStack, Request, Kind
  <2>6. Formed(r) BY <2>2 DEF OfStack, Formed
  <2>7. Checked(r) BY <2>1 DEF OfStack, Checked, UpdatesStack, RenamesTo
  <2>8. \A c \in r.row.components : Exists(c) BY <2>1 DEF OfStack, UpdatesStack
  <2> QED BY <2>1, <2>5, <2>6, <2>7, <2>8
<1>3. DeleteStack(t) => Goal
  <2> SUFFICES ASSUME DeleteStack(t) PROVE Goal OBVIOUS
  <2>1. PICK s \in there : Send(t, OfStack("delete stack", s, NoRow, FALSE)) BY DEF DeleteStack
  <2> DEFINE r == OfStack("delete stack", s, NoRow, FALSE)
  <2>2. s \in Stack BY DEF TypeInv, TypeOK
  <2>3. r \in Request /\ Formed(r) /\ Checked(r) /\ r.kind # "update stack"
    BY <1>0, <2>2 DEF OfStack, Request, Kind, Formed, Checked
  <2> QED BY <2>1, <2>3
<1>4. ASSUME NEW kind \in {"create component", "update component", "delete component"},
             NEW c \in Component, NEW b \in BOOLEAN
      PROVE  LET r == OfComponent(kind, c, b)
             IN  r \in Request /\ Formed(r) /\ Checked(r) /\ r.kind # "update stack"
  BY DEF OfComponent, Request, Row, Kind, Formed, Checked
<1>5. CreateComponent(t) => Goal BY <1>4 DEF CreateComponent
<1>6. UpdateComponent(t) => Goal BY <1>4 DEF UpdateComponent
<1>7. DeleteComponent(t) => Goal BY <1>4 DEF DeleteComponent
<1> HIDE DEF Goal
<1>8. Goal BY <1>1, <1>2, <1>3, <1>5, <1>6, <1>7 DEF Asks
<1> QED BY <1>8 DEF Goal

\* A request that is accepted keeps its kind, its stack and its component; of the
\* components of its row, those that are found are left.
LEMMA WhatIsAccepted ==
  ASSUME TypeInv, NEW t \in Client, Accept(t)
  PROVE  /\ req[t] \in Request /\ req'[t] \in Request
         /\ req' = [req EXCEPT ![t] = req'[t]]
         /\ req'[t].kind = req[t].kind /\ req'[t].stack = req[t].stack
         /\ req'[t].component = req[t].component /\ req'[t].strips = req[t].strips
         /\ req'[t].row.name = req[t].row.name /\ req'[t].row.owner = req[t].row.owner
         /\ req'[t].row.shared = req[t].row.shared
         /\ req'[t].row.components = Found(req[t])
         /\ Loads(req[t]) \in Row
<1>1. req[t] \in Request /\ req \in [Client -> Request] /\ rows \in [Stack -> Row]
  BY DEF TypeInv, TypeOK
<1>2. req' = [req EXCEPT ![t].row.components = Found(req[t])] /\ pc[t] = "sent"
  BY DEF Accept
<1>3. req[t].row \in Row BY <1>1 DEF Request
<1>4. req[t].kind = "update stack" => req[t].stack \in Stack
  BY <1>2 DEF TypeInv, AllFormed, Formed
<1>5. Found(req[t]) \in SUBSET Component BY <1>1, <1>3, <1>4 DEF Found, Row
<1>6. Loads(req[t]) \in Row BY <1>1, <1>4 DEF Loads, NoRow, Row
<1>7. req'[t] = [req[t] EXCEPT !.row.components = Found(req[t])] BY <1>1, <1>2
<1> HIDE DEF Found
<1>8. req'[t].row = [req[t].row EXCEPT !.components = Found(req[t])]
  BY <1>1, <1>7 DEF Request
<1>9. req'[t].row \in Row BY <1>3, <1>5, <1>8 DEF Row
<1>10. req'[t] = [req[t] EXCEPT !.row = req'[t].row] BY <1>1, <1>7 DEF Request
<1>11. req'[t] \in Request BY <1>1, <1>9, <1>10 DEF Request
<1>12. req' = [req EXCEPT ![t] = req'[t]] BY <1>1, <1>2
<1> QED BY <1>1, <1>3, <1>6, <1>8, <1>10, <1>11, <1>12 DEF Request, Row

\* A request that ends leaves the types as they are.
LEMMA EndsWell ==
  ASSUME TypeInv, NEW t \in Client, NEW outdated \in SUBSET Client, End(t, outdated)
  PROVE  /\ pc' \in [Client -> {"idle", "sent", "accepted"}]
         /\ req' \in [Client -> Request] /\ loaded' \in [Client -> Row]
         /\ stale' \subseteq Client /\ AllFormed'
<1>1. NoRow \in Row /\ NoRequest \in Request
  BY DEF NoRow, NoRequest, OfStack, Row, Request, Kind
<1>2. \A u \in Client \ {t} : pc'[u] = pc[u] /\ req'[u] = req[u]
  BY DEF End, TypeInv, TypeOK
<1>3. pc'[t] = "idle" BY DEF End, TypeInv, TypeOK
<1>4. AllFormed' BY <1>2, <1>3 DEF TypeInv, AllFormed, Formed
<1> QED BY <1>1, <1>4 DEF End, TypeInv, TypeOK

\* Every step keeps the types.
LEMMA TypeStep == TypeInv /\ [Next]_vars => TypeInv'
<1> SUFFICES ASSUME TypeInv, [Next]_vars PROVE TypeInv' OBVIOUS
<1> USE DEF tables
<1>1. ASSUME NEW t \in Client, Asks(t) PROVE TypeInv'
  <2>1. PICK r \in Request : Send(t, r) /\ Formed(r) BY <1>1, WhatIsSent
  <2>2. AllFormed' BY <2>1 DEF Send, TypeInv, TypeOK, AllFormed, Formed
  <2> QED BY <2>1, <2>2 DEF Send, TypeInv, TypeOK
<1>2. ASSUME NEW t \in Client, Accept(t) PROVE TypeInv'
  <2>1. /\ req'[t] \in Request /\ req' = [req EXCEPT ![t] = req'[t]]
        /\ req'[t].kind = req[t].kind /\ req'[t].stack = req[t].stack
        /\ req'[t].component = req[t].component
        /\ req'[t].row.name = req[t].row.name /\ req'[t].row.owner = req[t].row.owner
        /\ Loads(req[t]) \in Row
    BY <1>2, WhatIsAccepted
  <2>2. /\ pc[t] = "sent" /\ pc' = [pc EXCEPT ![t] = "accepted"]
        /\ loaded' = [loaded EXCEPT ![t] = Loads(req[t])]
        /\ UNCHANGED <<there, rows, component, stale, raced, stripped>>
    BY <1>2 DEF Accept
  <2>3. TypeOK' BY <2>1, <2>2 DEF TypeInv, TypeOK
  <2>4. Formed(req'[t]) BY <2>1, <2>2 DEF TypeInv, AllFormed, Formed
  <2>5. \A u \in Client \ {t} : req'[u] = req[u] /\ pc'[u] = pc[u]
    BY <2>1, <2>2 DEF TypeInv, TypeOK
  <2>6. AllFormed' BY <2>4, <2>5 DEF TypeInv, AllFormed, Formed
  <2> QED BY <2>3, <2>6 DEF TypeInv
<1>3. ASSUME NEW t \in Client, NEW kind, Commit(t, kind)
      PROVE  /\ pc' \in [Client -> {"idle", "sent", "accepted"}]
             /\ req' \in [Client -> Request] /\ loaded' \in [Client -> Row]
             /\ stale' \subseteq Client /\ AllFormed'
             /\ Formed(req[t]) /\ req[t].kind = kind
             /\ req[t] \in Request /\ req[t].row \in Row /\ loaded[t] \in Row
  <2>1. End(t, Busy) /\ pc[t] = "accepted" /\ req[t].kind = kind BY <1>3 DEF Commit
  <2>2. Busy \in SUBSET Client BY DEF Busy
  <2>3. Formed(req[t]) BY <2>1 DEF TypeInv, AllFormed
  <2>4. req[t] \in Request /\ req[t].row \in Row /\ loaded[t] \in Row
    BY DEF TypeInv, TypeOK, Request
  <2> QED BY <2>1, <2>2, <2>3, <2>4, EndsWell
<1>4. ASSUME NEW t \in Client, InsertStack(t) PROVE TypeInv'
  <2>1. Commit(t, "create stack") BY <1>4 DEF InsertStack
  <2>2. req[t].stack \in Stack /\ req[t].row.name # None /\ req[t].row.owner # None
    BY <1>3, <2>1 DEF Formed
  <2>3. req[t].row \in Row BY <1>3, <2>1
  <2>4. /\ there' = there \cup {req[t].stack}
        /\ rows' = [rows EXCEPT ![req[t].stack] = req[t].row]
        /\ raced' \subseteq raced \cup {req[t].stack}
        /\ UNCHANGED <<component, stripped>>
    BY <1>4 DEF InsertStack, Raced
  <2>5. /\ there' \subseteq Stack /\ rows' \in [Stack -> Row] /\ raced' \subseteq Stack
        /\ stripped' \subseteq Stack
        /\ \A s \in there' : rows'[s].name # None /\ rows'[s].owner # None
    BY <2>2, <2>3, <2>4 DEF TypeInv, TypeOK
  <2> QED BY <1>3, <2>1, <2>4, <2>5 DEF TypeInv, TypeOK
<1>5. ASSUME NEW t \in Client, UpdateStackRow(t) PROVE TypeInv'
  <2> DEFINE s == req[t].stack
             new == Merge(rows[s], loaded[t], req[t].row)
  <2>1. /\ Commit(t, "update stack") /\ s \in there
        /\ rows' = [rows EXCEPT ![s] = new]
        /\ raced' \subseteq raced \cup {s} /\ UNCHANGED <<there, component>>
        /\ stripped' \subseteq there
    BY <1>5 DEF UpdateStackRow, Raced
  <2>2. req[t].row \in Row /\ loaded[t] \in Row BY <1>3, <2>1
  <2>3. s \in Stack /\ rows[s] \in Row /\ rows[s].name # None /\ rows[s].owner # None
    BY <2>1 DEF TypeInv, TypeOK
  <2>4. new \in Row /\ new.name # None /\ new.owner # None
    BY <2>2, <2>3 DEF Merge, Links, Unlinks, Row
  <2> HIDE DEF s, new
  <2>5. /\ there' \subseteq Stack /\ rows' \in [Stack -> Row] /\ raced' \subseteq Stack
        /\ stripped' \subseteq Stack
        /\ \A r \in there' : rows'[r].name # None /\ rows'[r].owner # None
    BY <2>1, <2>3, <2>4 DEF TypeInv, TypeOK
  <2> QED BY <1>3, <2>1, <2>5 DEF TypeInv, TypeOK
<1>6. ASSUME NEW t \in Client, DeleteStackRow(t) PROVE TypeInv'
  <2>1. /\ Commit(t, "delete stack")
        /\ there' = there \ {req[t].stack} /\ rows' = [rows EXCEPT ![req[t].stack] = NoRow]
        /\ raced' = raced \ {req[t].stack} /\ stripped' = stripped \ {req[t].stack}
        /\ component' = component
    BY <1>6 DEF DeleteStackRow
  <2>2. NoRow \in Row BY DEF NoRow, Row
  <2>3. /\ there' \subseteq Stack /\ rows' \in [Stack -> Row] /\ raced' \subseteq Stack
        /\ stripped' \subseteq Stack
        /\ \A s \in there' : rows'[s].name # None /\ rows'[s].owner # None
    BY <2>1, <2>2 DEF TypeInv, TypeOK
  <2> QED BY <1>3, <2>1, <2>3 DEF TypeInv, TypeOK
<1>7. ASSUME NEW t \in Client, NEW kind,
             NEW state \in {"absent", "private", "shared"},
             WriteComponent(t, kind, state), raced' \subseteq Stack
      PROVE  TypeInv'
  <2>1. /\ Commit(t, kind) /\ UNCHANGED <<there, rows, stripped>>
        /\ component' = [component EXCEPT ![req[t].component] = state]
    BY <1>7 DEF WriteComponent
  <2>2. component' \in [Component -> {"absent", "private", "shared"}]
    BY <2>1 DEF TypeInv, TypeOK
  <2> QED BY <1>3, <1>7, <2>1, <2>2 DEF TypeInv, TypeOK
<1>8. ASSUME NEW t \in Client, InsertComponent(t) \/ UpdateComponentRow(t) PROVE TypeInv'
  <2>1. SharedOr(t) \in {"absent", "private", "shared"} BY DEF SharedOr
  <2>2. raced' \subseteq Stack
    BY <1>8 DEF InsertComponent, UpdateComponentRow, TypeInv, TypeOK
  <2> QED BY <1>7, <1>8, <2>1, <2>2 DEF InsertComponent, UpdateComponentRow
<1>9. ASSUME NEW t \in Client, DeleteComponentRow(t) PROVE TypeInv'
  <2>1. raced' \subseteq Stack BY <1>9 DEF DeleteComponentRow, Raced, TypeInv, TypeOK
  <2> QED BY <1>7, <1>9, <2>1 DEF DeleteComponentRow
<1>10. ASSUME NEW t \in Client, Fail(t) PROVE TypeInv'
  <2>1. End(t, {}) /\ UNCHANGED <<there, rows, component, raced, stripped>> BY <1>10 DEF Fail
  <2>2. /\ pc' \in [Client -> {"idle", "sent", "accepted"}]
        /\ req' \in [Client -> Request] /\ loaded' \in [Client -> Row]
        /\ stale' \subseteq Client /\ AllFormed'
    BY <2>1, EndsWell
  <2> QED BY <2>1, <2>2 DEF TypeInv, TypeOK
<1>11. CASE UNCHANGED vars BY <1>11 DEF vars, TypeInv, TypeOK, AllFormed, Formed
<1> QED BY <1>1, <1>2, <1>4, <1>5, <1>6, <1>8, <1>9, <1>10, <1>11 DEF Next, Commits

-----------------------------------------------------------------------------
\* As long as nothing is committed, what has been checked of a request holds.
LEMMA StaysFresh ==
  ASSUME UNCHANGED <<there, rows, component, raced, stripped>>, NEW u \in Client,
         pc'[u] = pc[u], req'[u] = req[u], loaded'[u] = loaded[u], Fresh(u)
  PROVE  Fresh(u)'
<1>1. Checked(req[u])' = Checked(req[u])
  BY DEF Checked, RegistersStack, RenamesTo, Listed, Exists
<1>2. Accepts(req[u])' = Accepts(req[u])
  BY DEF Accepts, AcceptsStack, AcceptsChange, AcceptsDeletion, NameExistsForUser,
         NameAlreadyShared, Exists
<1>3. Loads(req[u])' = Loads(req[u]) BY DEF Loads
<1>4. Complete(req[u])' = Complete(req[u]) BY DEF Complete, Exists
<1>5. \A c \in Component : Exists(c)' = Exists(c) BY DEF Exists
<1> QED BY <1>1, <1>2, <1>3, <1>4 DEF Fresh, Exists

\* A commit leaves no request that the next one has not overtaken.
LEMMA CommitOvertakes ==
  ASSUME TypeInv, NEW t \in Client, NEW kind, Commit(t, kind)
  PROVE  AllFresh'
<1>1. /\ pc' = [pc EXCEPT ![t] = "idle"] /\ stale' = (stale \cup Busy) \ {t}
  BY DEF Commit, End
<1>2. ASSUME NEW u \in Client, pc'[u] # "idle", u \notin stale' PROVE FALSE
  BY <1>1, <1>2 DEF Busy, TypeInv, TypeOK
<1> QED BY <1>2 DEF AllFresh

\* Every step keeps what is known of the requests that no commit has overtaken.
LEMMA FreshStep == TypeInv /\ StacksAreComplete /\ AllFresh /\ [Next]_vars => AllFresh'
<1> SUFFICES ASSUME TypeInv, StacksAreComplete, AllFresh, [Next]_vars PROVE AllFresh'
  OBVIOUS
<1>1. ASSUME NEW t \in Client, Asks(t) PROVE AllFresh'
  <2>1. PICK r \in Request :
          /\ Send(t, r) /\ Checked(r)
          /\ r.kind = "update stack" => \A c \in r.row.components : Exists(c)
    BY <1>1, WhatIsSent
  <2>2. /\ pc' = [pc EXCEPT ![t] = "sent"] /\ req' = [req EXCEPT ![t] = r]
        /\ UNCHANGED <<there, rows, component, loaded, stale, raced, stripped>>
    BY <2>1 DEF Send, tables
  <2>3. pc'[t] = "sent" /\ req'[t] = r BY <2>2 DEF TypeInv, TypeOK
  <2>4. Checked(r)' = Checked(r)
    BY <2>2 DEF Checked, RegistersStack, RenamesTo, Listed, Exists
  <2>5. Fresh(t)' BY <2>1, <2>2, <2>3, <2>4 DEF Fresh, Exists
  <2>6. \A u \in Client \ {t} : pc'[u] = pc[u] /\ req'[u] = req[u] /\ loaded'[u] = loaded[u]
    BY <2>2 DEF TypeInv, TypeOK
  <2>7. ASSUME NEW u \in Client, pc'[u] # "idle", u \notin stale' PROVE Fresh(u)'
    BY <2>2, <2>5, <2>6, <2>7, StaysFresh DEF AllFresh
  <2> QED BY <2>7 DEF AllFresh
<1>2. ASSUME NEW t \in Client, Accept(t) PROVE AllFresh'
  <2> DEFINE r == req[t]
  <2>0. PICK n \in Request : n = req'[t] BY <1>2, WhatIsAccepted
  <2>1. /\ req' = [req EXCEPT ![t] = n] /\ n.kind = r.kind /\ n.stack = r.stack
        /\ n.component = r.component /\ n.strips = r.strips /\ n.row.name = r.row.name /\ n.row.owner = r.row.owner
        /\ n.row.shared = r.row.shared /\ n.row.components = Found(r)
    BY <1>2, <2>0, WhatIsAccepted
  <2>2. /\ pc[t] = "sent" /\ Accepts(r) /\ pc' = [pc EXCEPT ![t] = "accepted"]
        /\ loaded' = [loaded EXCEPT ![t] = Loads(r)]
        /\ UNCHANGED <<there, rows, component, stale, raced, stripped>>
    BY <1>2 DEF Accept, tables
  <2>3. \A u \in Client \ {t} : pc'[u] = pc[u] /\ req'[u] = req[u] /\ loaded'[u] = loaded[u]
    BY <2>1, <2>2 DEF TypeInv, TypeOK
  <2>4. ASSUME t \notin stale PROVE Fresh(t)'
    <3>1. Fresh(t) BY <2>2, <2>4 DEF AllFresh
    <3>2. pc'[t] = "accepted" /\ loaded'[t] = Loads(r) BY <2>2 DEF TypeInv, TypeOK
    <3>3. Loads(n)' = Loads(r) BY <2>1, <2>2 DEF Loads
    <3>4. Accepts(n)
      BY <2>1, <2>2 DEF Accepts, AcceptsStack, AcceptsChange, AcceptsDeletion
    <3>5. Accepts(n)'
      BY <2>2, <3>4 DEF Accepts, AcceptsStack, AcceptsChange, AcceptsDeletion,
                        NameExistsForUser, NameAlreadyShared, Exists
    <3>6. Checked(r) /\ (r.kind = "update stack" => \A c \in r.row.components : Exists(c))
      BY <2>2, <3>1 DEF Fresh
    <3>7. r.kind = "create stack" => Found(r) = r.row.components
      BY <3>6 DEF Checked, Found, RegistersStack
    <3>8. Checked(n)
      BY <2>1, <3>6, <3>7 DEF Checked, RegistersStack, RenamesTo
    <3>9. Checked(n)'
      BY <2>2, <3>8 DEF Checked, RegistersStack, RenamesTo, Listed, Exists
    <3>10. r.kind = "update stack" => Complete(n)
      BY <2>1, <3>6 DEF Complete, Checked, Found, StacksAreComplete
    <3>11. r.kind = "update stack" => Complete(n)'
      BY <2>2, <3>10 DEF Complete, Exists
    <3>12. pc'[t] # "sent" BY <3>2
    <3>13. n.kind = r.kind BY <2>1
    <3> HIDE DEF r
    <3> QED BY <2>0, <3>2, <3>3, <3>5, <3>9, <3>11, <3>12, <3>13 DEF Fresh
  <2>5. ASSUME NEW u \in Client, pc'[u] # "idle", u \notin stale' PROVE Fresh(u)'
    BY <2>2, <2>3, <2>4, <2>5, StaysFresh DEF AllFresh
  <2> QED BY <2>5 DEF AllFresh
<1>3. ASSUME NEW t \in Client, Commits(t) PROVE AllFresh'
  BY <1>3, CommitOvertakes
  DEF Commits, InsertStack, UpdateStackRow, DeleteStackRow, InsertComponent,
      UpdateComponentRow, DeleteComponentRow, WriteComponent
<1>4. ASSUME NEW t \in Client, Fail(t) PROVE AllFresh'
  <2>1. /\ pc' = [pc EXCEPT ![t] = "idle"] /\ req' = [req EXCEPT ![t] = NoRequest]
        /\ loaded' = [loaded EXCEPT ![t] = NoRow] /\ stale' = (stale \cup {}) \ {t}
        /\ UNCHANGED <<there, rows, component, raced, stripped>>
    BY <1>4 DEF Fail, End, tables
  <2>2. \A u \in Client \ {t} : pc'[u] = pc[u] /\ req'[u] = req[u] /\ loaded'[u] = loaded[u]
    BY <2>1 DEF TypeInv, TypeOK
  <2>3. pc'[t] = "idle" BY <2>1 DEF TypeInv, TypeOK
  <2>4. ASSUME NEW u \in Client, pc'[u] # "idle", u \notin stale' PROVE Fresh(u)'
    BY <2>1, <2>2, <2>3, <2>4, StaysFresh DEF AllFresh
  <2> QED BY <2>4 DEF AllFresh
<1>5. CASE UNCHANGED vars
  <2>1. ASSUME NEW u \in Client, pc'[u] # "idle", u \notin stale' PROVE Fresh(u)'
    BY <1>5, <2>1, StaysFresh DEF AllFresh, vars
  <2> QED BY <2>1 DEF AllFresh
<1> QED BY <1>1, <1>2, <1>3, <1>4, <1>5 DEF Next

-----------------------------------------------------------------------------
\* Only three actions write a stack.
LEMMA OtherSteps ==
  ASSUME [Next]_vars,
         \A t \in Client : ~InsertStack(t) /\ ~UpdateStackRow(t) /\ ~DeleteStackRow(t)
  PROVE  there' = there /\ rows' = rows /\ raced \subseteq raced'
<1> USE DEF tables
<1>1. ASSUME NEW t \in Client, Asks(t)
      PROVE  there' = there /\ rows' = rows /\ raced \subseteq raced'
  BY <1>1 DEF Asks, CreateStack, UpdateStack, DeleteStack, CreateComponent, UpdateComponent,
              DeleteComponent, Send
<1>2. ASSUME NEW t \in Client, Accept(t) \/ Fail(t)
      PROVE  there' = there /\ rows' = rows /\ raced \subseteq raced'
  BY <1>2 DEF Accept, Fail
<1>3. ASSUME NEW t \in Client, Commits(t)
      PROVE  there' = there /\ rows' = rows /\ raced \subseteq raced'
  BY <1>3 DEF Commits, InsertComponent, UpdateComponentRow, DeleteComponentRow, WriteComponent,
              Raced
<1> QED BY <1>1, <1>2, <1>3 DEF Next, vars

\* A stack that is inserted by a request that was not overtaken has passed the
\* checks of the server and of the client; the others are raced.
LEMMA Inserts ==
  ASSUME TypeInv, AllFresh, NEW t \in Client, InsertStack(t)
  PROVE  /\ req[t].stack \in Stack
         /\ there' = there \cup {req[t].stack}
         /\ rows' = [rows EXCEPT ![req[t].stack] = req[t].row]
         /\ UNCHANGED <<component, stripped>> /\ raced \subseteq raced'
         /\ req[t].stack \notin raced' =>
              /\ AcceptsStack(req[t].row) /\ RegistersStack(req[t].row)
              /\ req[t].row.components # {}
<1>1. /\ pc[t] = "accepted" /\ req[t].kind = "create stack"
      /\ there' = there \cup {req[t].stack}
      /\ rows' = [rows EXCEPT ![req[t].stack] = req[t].row]
      /\ UNCHANGED <<component, stripped>>
      /\ raced' = IF t \in stale THEN raced \cup {req[t].stack} ELSE raced
  BY DEF InsertStack, Commit, Raced
<1>2. req[t].stack \in Stack BY <1>1 DEF TypeInv, AllFormed, Formed
<1>3. ASSUME req[t].stack \notin raced'
      PROVE  /\ AcceptsStack(req[t].row) /\ RegistersStack(req[t].row)
             /\ req[t].row.components # {}
  <2>1. Fresh(t) BY <1>1, <1>3 DEF AllFresh
  <2> QED BY <1>1, <2>1 DEF Fresh, Accepts, Checked
<1> QED BY <1>1, <1>2, <1>3

\* The same of a stack that is updated.
LEMMA Updates ==
  ASSUME TypeInv, AllFresh, NEW t \in Client, UpdateStackRow(t)
  PROVE  LET s   == req[t].stack
             row == req[t].row
             new == Merge(rows[s], loaded[t], row)
         IN  /\ s \in there /\ s \in Stack /\ there' = there
             /\ rows' = [rows EXCEPT ![s] = new]
             /\ component' = component /\ raced \subseteq raced'
             /\ stripped' = {r \in there : /\ rows'[r].components = {}
                                           /\ r \in stripped \/ (r = s /\ req[t].strips)}
             /\ s \notin raced' =>
                  /\ loaded[t] = rows[s] /\ AcceptsChange(s, row)
                  /\ row.components # {} \/ req[t].strips \/ s \in stripped
                  /\ \A c \in row.components : Exists(c)
                  /\ row.name # None => RenamesTo(rows[s], row)
                  /\ row.shared =>
                       /\ ~Listed(IF row.name # None THEN row.name ELSE rows[s].name,
                                  TRUE, rows[s].owner)
                       /\ \A c \in rows[s].components : Exists(c) => component[c] = "shared"
<1> DEFINE s   == req[t].stack
           row == req[t].row
           new == Merge(rows[s], loaded[t], row)
<1>1. /\ pc[t] = "accepted" /\ req[t].kind = "update stack"
      /\ s \in there /\ there' = there /\ component' = component
      /\ rows' = [rows EXCEPT ![s] = new]
      /\ raced' = IF t \in stale THEN raced \cup {s} ELSE raced
      /\ stripped' = {r \in there : /\ rows'[r].components = {}
                                    /\ r \in stripped \/ (r = s /\ req[t].strips)}
  BY DEF UpdateStackRow, Commit, Raced
<1>2. s \in Stack BY <1>1 DEF TypeInv, TypeOK
<1>3. ASSUME s \notin raced'
      PROVE  /\ loaded[t] = rows[s] /\ AcceptsChange(s, row)
             /\ row.components # {} \/ req[t].strips \/ s \in stripped
             /\ \A c \in row.components : Exists(c)
             /\ Checked(req[t])
  <2>1. Fresh(t) BY <1>1, <1>3 DEF AllFresh
  <2>2. s \notin raced BY <1>1, <1>3
  <2> QED BY <1>1, <2>1, <2>2 DEF Fresh, Accepts, Loads, Complete
<1>4. Checked(req[t]) =>
        /\ row.name # None => RenamesTo(rows[s], row)
        /\ row.shared =>
             /\ ~Listed(IF row.name # None THEN row.name ELSE rows[s].name,
                        TRUE, rows[s].owner)
             /\ \A c \in rows[s].components : Exists(c) => component[c] = "shared"
  BY <1>1 DEF Checked
<1> HIDE DEF new
<1> QED BY <1>1, <1>2, <1>3, <1>4 DEF new

\* What a deletion leaves is what it found.
LEMMA Deletes ==
  ASSUME TypeInv, NEW t \in Client, DeleteStackRow(t)
  PROVE  /\ there' \ raced' \subseteq there \ raced
         /\ \A s \in there' : rows'[s] = rows[s] /\ (s \in stripped => s \in stripped')
         /\ component' = component
BY DEF DeleteStackRow, TypeInv, TypeOK

Inv == TypeInv /\ AllFresh /\ OwnNamesDiffer /\ SharedNamesDiffer /\ StacksAreComplete

\* No step gives a user two stacks of one name.
LEMMA OwnNamesStep == Inv /\ [Next]_vars => OwnNamesDiffer'
<1> SUFFICES ASSUME Inv, [Next]_vars PROVE OwnNamesDiffer' OBVIOUS
<1> USE DEF OwnNamesDiffer
<1>0. TypeInv /\ AllFresh /\ OwnNamesDiffer BY DEF Inv
<1>1. ASSUME NEW t \in Client, InsertStack(t) PROVE OwnNamesDiffer'
  BY <1>0, <1>1, Inserts DEF AcceptsStack, NameExistsForUser, TypeInv, TypeOK
<1>2. ASSUME NEW t \in Client, UpdateStackRow(t) PROVE OwnNamesDiffer'
  <2> DEFINE s == req[t].stack
             new == Merge(rows[s], loaded[t], req[t].row)
  <2>1. /\ s \in there /\ there' = there /\ rows' = [rows EXCEPT ![s] = new]
        /\ s \in Stack /\ raced \subseteq raced'
        /\ s \notin raced' => loaded[t] = rows[s] /\ AcceptsChange(s, req[t].row)
    BY <1>0, <1>2, Updates
  <2>2. ASSUME s \notin raced', NEW r \in there \ raced, r # s
        PROVE  new.name # rows[r].name \/ new.owner # rows[r].owner
    BY <1>0, <2>1, <2>2 DEF Merge, AcceptsChange, NameExistsForUser
  <2> HIDE DEF s, new
  <2> QED BY <1>0, <2>1, <2>2 DEF TypeInv, TypeOK
<1>3. ASSUME NEW t \in Client, DeleteStackRow(t) PROVE OwnNamesDiffer'
  BY <1>0, <1>3, Deletes
<1> QED BY <1>0, <1>1, <1>2, <1>3, OtherSteps

\* No step gives two shared stacks one name.
LEMMA SharedNamesStep == Inv /\ [Next]_vars => SharedNamesDiffer'
<1> SUFFICES ASSUME Inv, [Next]_vars PROVE SharedNamesDiffer' OBVIOUS
<1> USE DEF SharedNamesDiffer
<1>0. TypeInv /\ AllFresh /\ SharedNamesDiffer BY DEF Inv
<1>1. ASSUME NEW t \in Client, InsertStack(t) PROVE SharedNamesDiffer'
  BY <1>0, <1>1, Inserts DEF AcceptsStack, NameAlreadyShared, TypeInv, TypeOK
<1>2. ASSUME NEW t \in Client, UpdateStackRow(t) PROVE SharedNamesDiffer'
  <2> DEFINE s == req[t].stack
             row == req[t].row
             new == Merge(rows[s], loaded[t], row)
  <2>1. /\ s \in there /\ there' = there /\ rows' = [rows EXCEPT ![s] = new]
        /\ s \in Stack /\ raced \subseteq raced'
        /\ s \notin raced' =>
             /\ loaded[t] = rows[s]
             /\ row.name # None => RenamesTo(rows[s], row)
             /\ row.shared => ~Listed(IF row.name # None THEN row.name ELSE rows[s].name,
                                      TRUE, rows[s].owner)
    BY <1>0, <1>2, Updates
  <2>2. row.shared \in BOOLEAN /\ rows[s].shared \in BOOLEAN
    BY <1>0, <2>1 DEF TypeInv, TypeOK, Request, Row
  <2>3. ASSUME s \notin raced', NEW r \in there \ raced, r # s, new.shared, rows[r].shared
        PROVE  new.name # rows[r].name
    <3>1. new.shared = (rows[s].shared \/ row.shared) BY DEF Merge
    <3>2. new.name = IF row.name \in {None, rows[s].name} THEN rows[s].name ELSE row.name
      BY <2>1, <2>3 DEF Merge
    <3>3. CASE row.shared BY <2>1, <2>3, <3>2, <3>3 DEF Listed
    <3>4. CASE ~row.shared /\ row.name \notin {None, rows[s].name}
      BY <2>1, <2>2, <2>3, <3>1, <3>2, <3>4 DEF RenamesTo, Listed
    <3>5. CASE ~row.shared /\ row.name \in {None, rows[s].name}
      BY <1>0, <2>1, <2>3, <3>1, <3>2, <3>5
    <3> QED BY <3>3, <3>4, <3>5
  <2> HIDE DEF s, row, new
  <2> QED BY <1>0, <2>1, <2>3 DEF TypeInv, TypeOK
<1>3. ASSUME NEW t \in Client, DeleteStackRow(t) PROVE SharedNamesDiffer'
  BY <1>0, <1>3, Deletes
<1> QED BY <1>0, <1>1, <1>2, <1>3, OtherSteps

\* No step takes from a stack a component that it needs, but to strip it.
LEMMA CompleteStep == Inv /\ [Next]_vars => StacksAreComplete'
<1> SUFFICES ASSUME Inv, [Next]_vars PROVE StacksAreComplete' OBVIOUS
<1> USE DEF StacksAreComplete
<1>0. TypeInv /\ AllFresh /\ StacksAreComplete BY DEF Inv
<1>1. ASSUME NEW t \in Client, InsertStack(t) PROVE StacksAreComplete'
  <2>1. /\ req[t].stack \in Stack /\ there' = there \cup {req[t].stack}
        /\ rows' = [rows EXCEPT ![req[t].stack] = req[t].row]
        /\ UNCHANGED <<component, stripped>> /\ raced \subseteq raced'
        /\ req[t].stack \notin raced' =>
             RegistersStack(req[t].row) /\ req[t].row.components # {}
    BY <1>0, <1>1, Inserts
  <2> QED BY <1>0, <2>1 DEF RegistersStack, Exists, TypeInv, TypeOK
<1>2. ASSUME NEW t \in Client, UpdateStackRow(t) PROVE StacksAreComplete'
  <2> DEFINE s == req[t].stack
             row == req[t].row
             new == Merge(rows[s], loaded[t], row)
  <2>1. /\ s \in there /\ there' = there /\ rows' = [rows EXCEPT ![s] = new]
        /\ s \in Stack /\ raced \subseteq raced' /\ component' = component
        /\ stripped' = {r \in there : /\ rows'[r].components = {}
                                      /\ r \in stripped \/ (r = s /\ req[t].strips)}
        /\ s \notin raced' =>
             /\ loaded[t] = rows[s]
             /\ row.components # {} \/ req[t].strips \/ s \in stripped
             /\ \A c \in row.components : Exists(c)
    BY <1>0, <1>2, Updates
  <2>2. loaded[t] = rows[s] => new.components = row.components
    BY DEF Merge, Links, Unlinks
  <2> HIDE DEF s, row, new
  <2> QED BY <1>0, <2>1, <2>2 DEF Exists, TypeInv, TypeOK
<1>3. ASSUME NEW t \in Client, DeleteStackRow(t) PROVE StacksAreComplete'
  BY <1>0, <1>3, Deletes DEF Exists
<1>4. ASSUME NEW t \in Client, InsertComponent(t) \/ UpdateComponentRow(t)
      PROVE  StacksAreComplete'
  <2>1. /\ there' = there /\ rows' = rows /\ raced' = raced /\ stripped' = stripped
        /\ component' = [component EXCEPT ![req[t].component] = SharedOr(t)]
    BY <1>4 DEF InsertComponent, UpdateComponentRow, WriteComponent
  <2>2. SharedOr(t) # "absent" BY DEF SharedOr
  <2>3. \A s \in there : rows[s].components \subseteq Component
    BY <1>0 DEF TypeInv, TypeOK, Row
  <2>4. \A c \in Component : Exists(c) => Exists(c)'
    BY <1>0, <2>1, <2>2 DEF Exists, TypeInv, TypeOK
  <2> QED BY <1>0, <2>1, <2>3, <2>4
<1>5. ASSUME NEW t \in Client, DeleteComponentRow(t) PROVE StacksAreComplete'
  <2> DEFINE gone == req[t].component
  <2>1. /\ there' = there /\ rows' = rows /\ stripped' = stripped
        /\ component' = [component EXCEPT ![gone] = "absent"]
        /\ raced' = IF t \in stale THEN raced \cup {s \in there : gone \in rows[s].components}
                    ELSE raced
        /\ pc[t] = "accepted" /\ req[t].kind = "delete component"
    BY <1>5 DEF DeleteComponentRow, WriteComponent, Commit, Raced
  <2>2. t \notin stale => AcceptsDeletion(gone)
    BY <1>0, <2>1 DEF AllFresh, Fresh, Accepts
  <2>3. \A s \in there \ raced' : gone \notin rows[s].components
    BY <2>1, <2>2 DEF AcceptsDeletion
  <2>4. \A s \in there : rows[s].components \subseteq Component
    BY <1>0 DEF TypeInv, TypeOK, Row
  <2>5. \A c \in Component \ {gone} : Exists(c) => Exists(c)'
    BY <1>0, <2>1 DEF Exists, TypeInv, TypeOK
  <2>6. raced \subseteq raced' BY <2>1
  <2> HIDE DEF gone
  <2> QED BY <1>0, <2>1, <2>3, <2>4, <2>5, <2>6
<1>6. ASSUME NEW t \in Client, Asks(t) \/ Accept(t) \/ Fail(t) PROVE StacksAreComplete'
  <2>1. UNCHANGED <<there, rows, component, raced, stripped>>
    BY <1>6 DEF Asks, CreateStack, UpdateStack, DeleteStack, CreateComponent, UpdateComponent,
                DeleteComponent, Send, Accept, Fail, tables
  <2> QED BY <1>0, <2>1 DEF Exists
<1>7. CASE UNCHANGED vars BY <1>0, <1>7 DEF vars, Exists
<1> QED BY <1>1, <1>2, <1>3, <1>4, <1>5, <1>6, <1>7 DEF Next, Commits

\* A step that shares a stack shares none with a private component.
LEMMA SharesStep ==
  ASSUME Inv, [Next]_vars, NEW s \in there' \ raced',
         rows'[s].shared, s \in there => ~rows[s].shared,
         s \in there => rows'[s].components = rows[s].components
  PROVE  \A c \in rows'[s].components : component'[c] = "shared"
<1> DEFINE Goal == \A c \in rows'[s].components : component'[c] = "shared"
<1>0. TypeInv /\ AllFresh /\ StacksAreComplete BY DEF Inv
<1>1. ASSUME NEW t \in Client, InsertStack(t) PROVE Goal
  <2>1. /\ req[t].stack \in Stack /\ there' = there \cup {req[t].stack}
        /\ rows' = [rows EXCEPT ![req[t].stack] = req[t].row]
        /\ component' = component
        /\ req[t].stack \notin raced' => RegistersStack(req[t].row)
    BY <1>0, <1>1, Inserts
  <2>2. s = req[t].stack BY <1>0, <2>1 DEF TypeInv, TypeOK
  <2>3. rows'[s] = req[t].row BY <1>0, <2>1, <2>2 DEF TypeInv, TypeOK
  <2> QED BY <2>1, <2>2, <2>3 DEF RegistersStack
<1>2. ASSUME NEW t \in Client, UpdateStackRow(t) PROVE Goal
  <2>1. /\ req[t].stack \in Stack /\ there' = there
        /\ rows' = [rows EXCEPT ![req[t].stack] =
                      Merge(rows[req[t].stack], loaded[t], req[t].row)]
        /\ component' = component /\ raced \subseteq raced'
        /\ req[t].stack \notin raced' /\ req[t].row.shared =>
             \A c \in rows[req[t].stack].components : Exists(c) => component[c] = "shared"
    BY <1>0, <1>2, Updates
  <2>2. s = req[t].stack BY <1>0, <2>1 DEF TypeInv, TypeOK
  <2>3. rows'[s] = Merge(rows[s], loaded[t], req[t].row)
    BY <1>0, <2>1, <2>2 DEF TypeInv, TypeOK
  <2>4. req[t].row.shared
    <3>1. s \in there BY <2>1
    <3>2. ~rows[s].shared BY <3>1
    <3> DEFINE new == Merge(rows[s], loaded[t], req[t].row)
    <3>3. new.shared = (rows[s].shared \/ req[t].row.shared) BY DEF Merge
    <3>4. new.shared BY <2>3
    <3> QED BY <3>2, <3>3, <3>4
  <2>5. \A c \in rows[s].components : Exists(c) BY <1>0, <2>1 DEF StacksAreComplete
  <2> QED BY <2>1, <2>2, <2>4, <2>5
<1>3. ASSUME NEW t \in Client, DeleteStackRow(t) PROVE Goal
  <2>1. s \in there /\ rows'[s] = rows[s]
    BY <1>0, <1>3 DEF DeleteStackRow, TypeInv, TypeOK
  <2> QED BY <2>1
<1>4. CASE \A t \in Client : ~InsertStack(t) /\ ~UpdateStackRow(t) /\ ~DeleteStackRow(t)
  <2>1. there' = there /\ rows' = rows BY <1>4, OtherSteps
  <2>2. s \in there BY <2>1
  <2>3. rows'[s] = rows[s] BY <2>1
  <2> QED BY <2>2, <2>3
<1> QED BY <1>1, <1>2, <1>3, <1>4

\* The inductive invariant.
THEOREM Invariance == Spec => []Inv
<1>1. Init => Inv
  <2>1. Init => TypeInv
    <3>1. NoRow \in Row BY DEF NoRow, Row
    <3>2. NoRequest \in Request BY <3>1 DEF NoRequest, OfStack, Request, Kind
    <3> QED BY <3>1, <3>2 DEF Init, TypeInv, TypeOK, AllFormed
  <2>2. Init => AllFresh BY DEF Init, AllFresh
  <2>3. Init => OwnNamesDiffer /\ SharedNamesDiffer /\ StacksAreComplete
    BY DEF Init, OwnNamesDiffer, SharedNamesDiffer, StacksAreComplete
  <2> QED BY <2>1, <2>2, <2>3 DEF Inv
<1>2. Inv /\ [Next]_vars => Inv'
  BY TypeStep, FreshStep, OwnNamesStep, SharedNamesStep, CompleteStep DEF Inv
<1> QED BY <1>1, <1>2, PTL DEF Spec

\* The tables and the requests keep their types; a stack has a name and an owner.
THEOREM TypeCorrect == Spec => []TypeOK
<1>1. Inv => TypeOK BY DEF Inv, TypeInv
<1> QED BY <1>1, Invariance, PTL

\* No user has two stacks of one name, the raced ones aside.
THEOREM OwnNames == Spec => []OwnNamesDiffer
<1>1. Inv => OwnNamesDiffer BY DEF Inv
<1> QED BY <1>1, Invariance, PTL

\* No two shared stacks have one name, the raced ones aside.
THEOREM SharedNames == Spec => []SharedNamesDiffer
<1>1. Inv => SharedNamesDiffer BY DEF Inv
<1> QED BY <1>1, Invariance, PTL

\* A stack has an orchestrator unless it is stripped, and its components exist, those
\* of the raced ones aside.
THEOREM Completeness == Spec => []StacksAreComplete
<1>1. Inv => StacksAreComplete BY DEF Inv
<1> QED BY <1>1, Invariance, PTL

\* A stack is not shared with a private component, the raced ones aside.
THEOREM Sharing == Spec => SharesOnlyShared
<1>1. Inv /\ [Next]_vars =>
        [\A s \in there' \ raced' :
           /\ rows'[s].shared /\ (s \in there => ~rows[s].shared)
           /\ s \in there => rows'[s].components = rows[s].components
           => \A c \in rows'[s].components : component'[c] = "shared"]_vars
  BY SharesStep
<1> QED BY <1>1, Invariance, PTL DEF Spec, SharesOnlyShared
=============================================================================
