---------------------- MODULE AccountProvisioningProofs -----------------------
(***************************************************************************)
(* Proofs about AccountProvisioning for any clients, emails, numbers of    *)
(* accounts and of faults.  What holds two systems without a transaction   *)
(* together is the email: the invariant ties accounts, users of the panel  *)
(* and requests in progress to it.                                         *)
(***************************************************************************)
EXTENDS AccountProvisioning, WellFoundedInduction, TLAPS

------------------------------------------------------------------------------
(* Types.                                                                     *)

\* AccountTypeOK in its parts, and the records of it under a name.
AccountRowType == [email : Emails \cup {NoEmail}, link : Ids \cup {NoId}]

ClientLabels ==
  {"out", "create", "settings", "provision", "lookup", "rollback", "link", "in",
   "reprovision", "relink"}

ClientType ==
  [at : ClientLabels, email : Emails, id : Ids \cup {NoId}, user : Ids \cup {NoId}]

AccountTypes == account \in [Ids -> AccountRowType]
PanelTypes == panel \in [Ids -> Emails \cup {NoEmail}]
ClientTypes ==
  /\ client \in [Clients -> ClientType]
  /\ \A c \in Clients : client[c].at \notin {"out", "create"} => client[c].id # NoId
FaultTypes ==
  /\ dbFaults \in 0..MaxDbFaults
  /\ panelFaults \in 0..MaxPanelFaults
  /\ deletes \in 0..MaxDeletes

\* AccountTypeOK is the conjunction of its parts.
LEMMA AccountTypesInParts ==
  AccountTypeOK <=> AccountTypes /\ PanelTypes /\ ClientTypes /\ FaultTypes
BY DEF AccountTypeOK, AccountTypes, PanelTypes, ClientTypes, FaultTypes, AccountRowType,
       ClientType, ClientLabels

\* What the assumption says of ids and numbers.
LEMMA Bounds ==
  /\ NoEmail \notin Emails /\ Ids \subseteq Nat \ {0} /\ NoId = 0 /\ NoId \notin Ids
  /\ MaxDbFaults \in Nat /\ MaxPanelFaults \in Nat /\ MaxDeletes \in Nat
BY AccountAssumption DEF Ids, NoId

\* The id InsertAccount takes is one of the unused ones.
LEMMA NewIdUnused ==
  ASSUME UnusedIds # {}
  PROVE  NewId \in UnusedIds /\ NewId \in Ids
<1>1. UnusedIds \in SUBSET Nat /\ UnusedIds \subseteq Ids
  BY Bounds DEF UnusedIds
<1>2. PICK x \in UnusedIds : \A y \in UnusedIds : ~ (<<y, x>> \in OpToRel(<, Nat))
  BY <1>1, WFMin, NatLessThanWellFounded, Zenon
<1>3. \A y \in UnusedIds : ~ (y < x)
  BY <1>1, <1>2 DEF OpToRel
<1>4. \E a \in UnusedIds : \A b \in UnusedIds : a <= b
  BY <1>1, <1>3
<1> QED BY <1>1, <1>4 DEF NewId

\* A client's request at another step, for an account, or with a panel user.
AtStep(s, l) == [s EXCEPT !.at = l]
ForAccount(s, l, a) == [s EXCEPT !.at = l, !.id = a]
WithUser(s, l, u) == [s EXCEPT !.at = l, !.user = u]
Out(s) == [s EXCEPT !.at = "out", !.id = NoId, !.user = NoId]

\* An update of a request leaves a request, and the fields it does not name.
LEMMA ClientRecords ==
  ASSUME NEW s \in ClientType, NEW l \in ClientLabels, NEW a \in Ids \cup {NoId}
  PROVE  /\ AtStep(s, l) \in ClientType /\ AtStep(s, l).at = l
         /\ AtStep(s, l).email = s.email /\ AtStep(s, l).id = s.id /\ AtStep(s, l).user = s.user
         /\ ForAccount(s, l, a) \in ClientType /\ ForAccount(s, l, a).at = l
         /\ ForAccount(s, l, a).email = s.email /\ ForAccount(s, l, a).id = a
         /\ ForAccount(s, l, a).user = s.user
         /\ WithUser(s, l, a) \in ClientType /\ WithUser(s, l, a).at = l
         /\ WithUser(s, l, a).email = s.email /\ WithUser(s, l, a).id = s.id
         /\ WithUser(s, l, a).user = a
<1> USE DEF ClientType
<1>1. /\ AtStep(s, l) \in ClientType /\ AtStep(s, l).at = l
      /\ AtStep(s, l).email = s.email /\ AtStep(s, l).id = s.id /\ AtStep(s, l).user = s.user
  BY DEF AtStep
<1>2. ForAccount(s, l, a) \in ClientType
  BY DEF ForAccount
<1>3. ForAccount(s, l, a).at = l /\ ForAccount(s, l, a).email = s.email
  BY DEF ForAccount
<1>4. ForAccount(s, l, a).id = a
  BY DEF ForAccount
<1>5. ForAccount(s, l, a).user = s.user
  BY DEF ForAccount
<1>6. WithUser(s, l, a) \in ClientType
  BY DEF WithUser
<1>7. WithUser(s, l, a).at = l /\ WithUser(s, l, a).email = s.email
  BY DEF WithUser
<1>8. WithUser(s, l, a).id = s.id
  BY DEF WithUser
<1>9. WithUser(s, l, a).user = a
  BY DEF WithUser
<1> QED BY <1>1, <1>2, <1>3, <1>4, <1>5, <1>6, <1>7, <1>8, <1>9

\* A refused client holds nothing but its email.
LEMMA OutRecord ==
  ASSUME NEW s \in ClientType
  PROVE  Out(s) \in ClientType /\ Out(s).at = "out" /\ Out(s).email = s.email /\ Out(s).id = NoId
<1>1. PICK l \in ClientLabels : l = "out"
  BY DEF ClientLabels
<1>2. PICK n \in Ids \cup {NoId} : n = NoId
  OBVIOUS
<1> USE DEF ClientType
<1>3. PICK t \in ClientType : t = [s EXCEPT !.at = l, !.id = n]
  OBVIOUS
<1>4. Out(s) = [t EXCEPT !.user = n]
  BY <1>1, <1>2, <1>3 DEF Out
<1>5. Out(s) \in ClientType
  BY <1>4
<1>6. Out(s).at = "out"
  BY DEF Out
<1>7. Out(s).email = s.email
  BY DEF Out
<1>8. Out(s).id = NoId
  BY DEF Out
<1> QED BY <1>5, <1>6, <1>7, <1>8

------------------------------------------------------------------------------
(* What each step does to the client that takes it.                           *)

\* Only c's request goes on, to one of the steps in L; its email stays.
Moves(c, L) ==
  /\ client' \in [Clients -> ClientType]
  /\ \A d \in Clients : d # c => client'[d] = client[d]
  /\ client'[c].email = client[c].email /\ client'[c].at \in L

\* The request of one client is replaced.
LEMMA ClientMoves ==
  ASSUME client \in [Clients -> ClientType], NEW c \in Clients, NEW s \in ClientType,
         client' = [client EXCEPT ![c] = s]
  PROVE  /\ client' \in [Clients -> ClientType] /\ client'[c] = s
         /\ \A d \in Clients : d # c => client'[d] = client[d]
OBVIOUS

\* Goes keeps the account and the user.
LEMMA GoesMoves ==
  ASSUME client \in [Clients -> ClientType], NEW c \in Clients, NEW l \in ClientLabels, Goes(c, l)
  PROVE  Moves(c, {l}) /\ client'[c].id = client[c].id /\ client'[c].user = client[c].user
<1> DEFINE s == AtStep(client[c], l)
<1>1. client' = [client EXCEPT ![c] = s]
  BY DEF Goes, AtStep
<1>2. /\ s \in ClientType /\ s.at = l /\ s.email = client[c].email /\ s.id = client[c].id
      /\ s.user = client[c].user
  BY ClientRecords
<1> HIDE DEF s
<1> QED BY <1>1, <1>2 DEF Moves

\* Refused forgets the account.
LEMMA RefusedMoves ==
  ASSUME client \in [Clients -> ClientType], NEW c \in Clients, Refused(c)
  PROVE  Moves(c, {"out"}) /\ client'[c].id = NoId
<1> DEFINE s == Out(client[c])
<1>1. client' = [client EXCEPT ![c] = s]
  BY DEF Refused, Out
<1>2. s \in ClientType /\ s.at = "out" /\ s.email = client[c].email /\ s.id = NoId
  BY OutRecord
<1> HIDE DEF s
<1> QED BY <1>1, <1>2 DEF Moves

\* A request gets a panel user.
LEMMA WithUserMoves ==
  ASSUME client \in [Clients -> ClientType], NEW c \in Clients, NEW l \in ClientLabels,
         NEW u \in Ids \cup {NoId},
         client' = [client EXCEPT ![c].at = l, ![c].user = u]
  PROVE  Moves(c, {l}) /\ client'[c].id = client[c].id /\ client'[c].user = u
<1> DEFINE s == WithUser(client[c], l, u)
<1>1. client' = [client EXCEPT ![c] = s]
  BY DEF WithUser
<1>2. /\ s \in ClientType /\ s.at = l /\ s.email = client[c].email /\ s.id = client[c].id
      /\ s.user = u
  BY ClientRecords
<1> HIDE DEF s
<1> QED BY <1>1, <1>2 DEF Moves

\* A request gets an account.
LEMMA ForAccountMoves ==
  ASSUME client \in [Clients -> ClientType], NEW c \in Clients, NEW l \in ClientLabels,
         NEW a \in Ids \cup {NoId},
         client' = [client EXCEPT ![c].at = l, ![c].id = a]
  PROVE  Moves(c, {l}) /\ client'[c].id = a /\ client'[c].user = client[c].user
<1> DEFINE s == ForAccount(client[c], l, a)
<1>1. client' = [client EXCEPT ![c] = s]
  BY DEF ForAccount
<1>2. /\ s \in ClientType /\ s.at = l /\ s.email = client[c].email /\ s.id = a
      /\ s.user = client[c].user
  BY ClientRecords
<1> HIDE DEF s
<1> QED BY <1>1, <1>2 DEF Moves

\* Served keeps the account.
LEMMA ServedMoves ==
  ASSUME client \in [Clients -> ClientType], NEW c \in Clients, Served(c)
  PROVE  Moves(c, {"in"}) /\ client'[c].id = client[c].id /\ client'[c].user = NoId
<1>1. PICK l \in ClientLabels : l = "in"
  BY DEF ClientLabels
<1>2. PICK u \in Ids \cup {NoId} : u = NoId
  OBVIOUS
<1>3. client' = [client EXCEPT ![c].at = l, ![c].user = u]
  BY <1>1, <1>2 DEF Served
<1> QED BY <1>1, <1>2, <1>3, WithUserMoves

\* An account's row, before and after: unchanged, gone, new with no link, or with
\* a link to u.
LinkedTo(s, u) == [s EXCEPT !.link = u]
NewRow(e) == [NoAccountRow EXCEPT !.email = e]

\* No row has neither email nor link.
LEMMA NoRowRecord ==
  /\ NoAccountRow \in AccountRowType
  /\ NoAccountRow.email = NoEmail /\ NoAccountRow.link = NoId
BY DEF AccountRowType, NoAccountRow

\* A new row has an email and no link.
LEMMA NewRowRecord ==
  ASSUME NEW e \in Emails \cup {NoEmail}
  PROVE  NewRow(e) \in AccountRowType /\ NewRow(e).email = e /\ NewRow(e).link = NoId
BY DEF AccountRowType, NoAccountRow, NewRow

\* A link leaves the email.
LEMMA LinkedRecord ==
  ASSUME NEW s \in AccountRowType, NEW u \in Ids \cup {NoId}
  PROVE  /\ LinkedTo(s, u) \in AccountRowType /\ LinkedTo(s, u).email = s.email
         /\ LinkedTo(s, u).link = u
BY DEF AccountRowType, LinkedTo

\* SetRemnawaveLink writes one row or none.
LEMMA LinkedRow ==
  ASSUME AccountTypes, NEW a \in Ids \cup {NoId}, NEW u \in Ids \cup {NoId}, account' = Linked(a, u)
  PROVE  /\ AccountTypes'
         /\ \/ account' = account /\ ~(Exists(a) /\ Unique(a, u))
            \/ /\ a \in Ids /\ Exists(a) /\ Unique(a, u)
               /\ \A b \in Ids : b # a => account'[b] = account[b]
               /\ account'[a].email = account[a].email /\ account'[a].link = u
<1>1. CASE Exists(a) /\ Unique(a, u)
  <2>1. a \in Ids
    BY <1>1 DEF Exists
  <2> DEFINE s == LinkedTo(account[a], u)
  <2>2. account' = [account EXCEPT ![a] = s]
    BY <1>1 DEF Linked, LinkedTo
  <2>3. s \in AccountRowType /\ s.email = account[a].email /\ s.link = u
    BY <2>1, LinkedRecord DEF AccountTypes
  <2> HIDE DEF s
  <2> QED BY <1>1, <2>1, <2>2, <2>3 DEF AccountTypes
<1>2. CASE ~(Exists(a) /\ Unique(a, u))
  BY <1>2 DEF Linked, AccountTypes
<1> QED BY <1>1, <1>2

------------------------------------------------------------------------------
(* The invariant.                                                             *)

\* No email has two accounts, and none two users of the panel.
EmailsInv ==
  /\ \A a, b \in Ids : Exists(a) /\ account[a].email = account[b].email => a = b
  /\ \A u, v \in Ids : panel[u] # NoEmail /\ panel[u] = panel[v] => u = v

\* A request is for the account with the email of its client, if it still is
\* there, and the user it is about to link has that email too.
ClientInv ==
  \A c \in Clients :
    /\ Exists(client[c].id) => account[client[c].id].email = client[c].email
    /\ client[c].at \in {"link", "relink"} =>
         client[c].user \in Ids /\ panel[client[c].user] = client[c].email

\* A link leads to the user with the account's email.
LinkInv ==
  \A a \in Ids : account[a].link # NoId =>
    Exists(a) /\ account[a].link \in Ids /\ panel[account[a].link] = account[a].email

\* As long as the database has not failed, the registration of an account that
\* has no link is still under way.
Registering == {"settings", "provision", "lookup", "rollback", "link"}
Worked(a) == \E c \in Clients : client[c].id = a /\ client[c].at \in Registering
WorkInv == dbFaults = 0 => \A a \in Ids : Exists(a) /\ account[a].link = NoId => Worked(a)

AccountInv == AccountTypeOK /\ EmailsInv /\ ClientInv /\ LinkInv /\ WorkInv

\* No accounts, no users, nobody at work.
LEMMA InitAccounts == AccountInit => AccountInv
<1> SUFFICES ASSUME AccountInit PROVE AccountInv
  OBVIOUS
<1>1. AccountTypes
  BY NoRowRecord DEF AccountInit, AccountTypes, AccountRowType, NoAccountRow
<1>2. PanelTypes /\ FaultTypes
  BY Bounds DEF AccountInit, PanelTypes, FaultTypes
<1>3. ClientTypes
  BY DEF AccountInit, ClientTypes, ClientType, ClientLabels
<1>4. \A c \in Clients : client[c].at = "out" /\ client[c].id = NoId
  BY DEF AccountInit
<1>5. \A a \in Ids : account[a].email = NoEmail /\ account[a].link = NoId /\ panel[a] = NoEmail
  BY DEF AccountInit, NoAccountRow
<1> QED BY <1>1, <1>2, <1>3, <1>4, <1>5, AccountTypesInParts
        DEF AccountInv, EmailsInv, ClientInv, LinkInv, WorkInv, Exists

------------------------------------------------------------------------------
(* What a step does.                                                          *)

\* c's request, after its step.
Moved(c) ==
  /\ Moves(c, ClientLabels)
  /\ \/ client'[c].id = client[c].id
     \/ client'[c].id = NoId
     \/ client'[c].id \in Ids /\ account'[client'[c].id].email = client[c].email
  /\ client'[c].id \in Ids \/ client'[c].at \in {"out", "create"}
  /\ client'[c].at \in {"link", "relink"} =>
       client'[c].user \in Ids /\ panel'[client'[c].user] = client[c].email

\* Requests start and end.
LEMMA StartsMove ==
  ASSUME AccountTypeOK, NEW c \in Clients,
         RegisterAccount(c) \/ Login(c) \/ Reprovision(c) \/ Logout(c) \/ Dies(c)
  PROVE  Moved(c)
<1>1. ClientTypes /\ client \in [Clients -> ClientType]
  BY AccountTypesInParts DEF ClientTypes
<1>2. \A l \in {"create", "in", "reprovision", "out"} : l \in ClientLabels
  BY DEF ClientLabels
<1>3. CASE RegisterAccount(c)
  BY <1>1, <1>2, <1>3, GoesMoves DEF RegisterAccount, Moved, Moves
<1>4. CASE Login(c)
  <2>1. PICK a \in Ids : /\ account[a].email = client[c].email /\ account' = account
                         /\ client' = [client EXCEPT ![c].at = "in", ![c].id = a]
    BY <1>4 DEF Login, WithEmail
  <2>2. Moves(c, {"in"}) /\ client'[c].id = a
    BY <1>1, <1>2, <2>1, ForAccountMoves
  <2> QED BY <1>2, <2>1, <2>2 DEF Moved, Moves
<1>5. CASE Reprovision(c)
  <2>1. client[c].id \in Ids
    BY <1>1, <1>5, Bounds DEF Reprovision, Exists, ClientType
  <2> QED BY <1>1, <1>2, <1>5, <2>1, GoesMoves DEF Reprovision, Moved, Moves
<1>6. CASE Logout(c) \/ Dies(c)
  BY <1>1, <1>2, <1>6, RefusedMoves DEF Logout, Dies, Moved, Moves
<1> QED BY <1>3, <1>4, <1>5, <1>6

\* Register, step by step.
LEMMA RegistrationMoves ==
  ASSUME AccountTypeOK, NEW c \in Clients,
         \/ InsertAccount(c) \/ InsertRefused(c) \/ InsertSettings(c)
         \/ Provision(c) \/ ProvisionConflict(c) \/ ProvisionFails(c)
         \/ Relink(c) \/ LookupFails(c) \/ Rollback(c) \/ Link(c)
  PROVE  Moved(c)
<1>1. ClientTypes /\ client \in [Clients -> ClientType] /\ PanelTypes /\ AccountTypes
  BY AccountTypesInParts DEF ClientTypes
<1>2. \A l \in ClientLabels \ {"out", "create"} : client[c].at = l => client[c].id \in Ids
  BY <1>1, Bounds DEF ClientTypes, ClientType
<1>3. ASSUME NEW l \in ClientLabels \ {"link", "relink"}, Goes(c, l), client[c].id \in Ids
      PROVE  Moved(c)
  BY <1>1, <1>3, GoesMoves DEF Moved, Moves
<1>4. ASSUME Refused(c) PROVE Moved(c)
  BY <1>1, <1>4, RefusedMoves DEF Moved, Moves, ClientLabels
<1>5. CASE InsertAccount(c)
  <2>1. /\ NewId \in Ids /\ account' = [account EXCEPT ![NewId] = NewRow(client[c].email)]
        /\ client' = [client EXCEPT ![c].at = "settings", ![c].id = NewId]
    BY <1>5, NewIdUnused DEF InsertAccount, NewRow
  <2>2. account'[NewId].email = client[c].email
    BY <1>1, <2>1, NewRowRecord DEF AccountTypes, ClientType
  <2>3. PICK l \in ClientLabels : l = "settings"
    BY DEF ClientLabels
  <2>4. Moves(c, {"settings"}) /\ client'[c].id = NewId
    BY <1>1, <2>1, <2>3, ForAccountMoves
  <2> QED BY <2>1, <2>2, <2>3, <2>4 DEF Moved, Moves
<1>6. CASE InsertRefused(c) \/ Rollback(c)
  BY <1>4, <1>6 DEF InsertRefused, Rollback
<1>7. CASE InsertSettings(c)
  BY <1>2, <1>3, <1>4, <1>7 DEF InsertSettings, ClientLabels
<1>8. CASE Provision(c)
  <2>1. client[c].id \in Ids
    BY <1>2, <1>8 DEF Provision, ClientLabels
  <2>2. panel'[client[c].id] = client[c].email
    BY <1>1, <1>8, <2>1 DEF Provision, UserCreated, PanelTypes
  <2>3. PICK l \in ClientLabels : l = "link"
    BY DEF ClientLabels
  <2>4. Moves(c, {"link"}) /\ client'[c].id = client[c].id /\ client'[c].user = client[c].id
    <3>1. PICK u \in Ids \cup {NoId} : u = client[c].id
      BY <2>1
    <3>2. client' = [client EXCEPT ![c].at = l, ![c].user = u]
      BY <1>8, <2>3, <3>1 DEF Provision
    <3>3. Moves(c, {l}) /\ client'[c].id = client[c].id /\ client'[c].user = u
      BY <1>1, <3>2, WithUserMoves
    <3> QED BY <2>3, <3>1, <3>3
  <2> QED BY <2>1, <2>2, <2>3, <2>4 DEF Moved, Moves
<1>9. CASE ProvisionConflict(c)
  BY <1>2, <1>3, <1>9 DEF ProvisionConflict, ClientLabels
<1>10. CASE ProvisionFails(c)
  BY <1>2, <1>3, <1>10 DEF ProvisionFails, ClientLabels
<1>11. CASE Relink(c)
  <2>1. client[c].id \in Ids
    BY <1>2, <1>11 DEF Relink, ClientLabels
  <2>2. PICK u \in Ids : /\ panel[u] = client[c].email /\ panel' = panel
                         /\ client' = [client EXCEPT ![c].at = "link", ![c].user = u]
    BY <1>11 DEF Relink, Orphan, UserOf
  <2>3. PICK l \in ClientLabels : l = "link"
    BY DEF ClientLabels
  <2>4. Moves(c, {"link"}) /\ client'[c].id = client[c].id /\ client'[c].user = u
    BY <1>1, <2>2, <2>3, WithUserMoves
  <2> QED BY <2>1, <2>2, <2>3, <2>4 DEF Moved, Moves
<1>12. CASE LookupFails(c)
  BY <1>2, <1>3, <1>12 DEF LookupFails, ClientLabels
<1>13. CASE Link(c)
  <2>1. client[c].id \in Ids
    BY <1>2, <1>13 DEF Link, ClientLabels
  <2>2. Moves(c, {"in"}) /\ client'[c].id = client[c].id
    BY <1>1, <1>13, ServedMoves DEF Link
  <2> QED BY <2>1, <2>2 DEF Moved, Moves, ClientLabels
<1> QED BY <1>5, <1>6, <1>7, <1>8, <1>9, <1>10, <1>11, <1>12, <1>13

\* Reprovision, step by step.
LEMMA ReprovisionMoves ==
  ASSUME AccountTypeOK, NEW c \in Clients, ReprovisionUser(c) \/ ReprovisionLink(c)
  PROVE  Moved(c)
<1>1. ClientTypes /\ client \in [Clients -> ClientType] /\ PanelTypes
  BY AccountTypesInParts DEF ClientTypes
<1>2. client[c].id \in Ids
  BY <1>1, Bounds DEF ClientTypes, ClientType, ReprovisionUser, ReprovisionLink
<1>3. ASSUME Served(c) PROVE Moved(c)
  <2>1. Moves(c, {"in"}) /\ client'[c].id = client[c].id
    BY <1>1, <1>3, ServedMoves
  <2> QED BY <1>2, <2>1 DEF Moved, Moves, ClientLabels
<1>4. ASSUME UserCreated(c), client' = [client EXCEPT ![c].at = "relink", ![c].user = client[c].id]
      PROVE  Moved(c)
  <2>1. panel'[client[c].id] = client[c].email
    BY <1>1, <1>2, <1>4 DEF UserCreated, PanelTypes
  <2>2. PICK l \in ClientLabels : l = "relink"
    BY DEF ClientLabels
  <2>3. Moves(c, {"relink"}) /\ client'[c].id = client[c].id /\ client'[c].user = client[c].id
    BY <1>1, <1>2, <1>4, <2>2, WithUserMoves
  <2> QED BY <1>2, <2>1, <2>2, <2>3 DEF Moved, Moves
<1> QED BY <1>3, <1>4 DEF ReprovisionUser, ReprovisionLink

\* Every step of a client is one of those, and the operator moves nobody.
LEMMA RequestsMove ==
  ASSUME AccountTypeOK, AccountNext
  PROVE  client' = client \/ \E c \in Clients : Moved(c)
<1>1. ASSUME NEW a \in Ids, AdminDelete(a) PROVE client' = client
  BY <1>1 DEF AdminDelete
<1> QED BY <1>1, StartsMove, RegistrationMoves, ReprovisionMoves DEF AccountNext, HandleAccount

\* The panel gets at most the one user a request asked for.
PanelGrows ==
  \/ panel' = panel
  \/ \E u \in Ids, e \in Emails :
       /\ panel[u] = NoEmail /\ \A v \in Ids : panel[v] # e
       /\ panel' = [panel EXCEPT ![u] = e]

\* The panel creates a user only when name and email are free.
LEMMA PanelSteps ==
  ASSUME AccountTypeOK, AccountNext
  PROVE  PanelGrows
<1>1. ClientTypes
  BY AccountTypesInParts
<1>2. ASSUME NEW c \in Clients, UserCreated(c), client[c].at \in {"provision", "reprovision"}
      PROVE  PanelGrows
  <2>1. client[c].id \in Ids /\ client[c].email \in Emails
    BY <1>1, <1>2, Bounds DEF ClientTypes, ClientType
  <2> QED BY <1>2, <2>1 DEF UserCreated, Taken, UserOf, PanelGrows
<1>3. ASSUME NEW c \in Clients, Provision(c) \/ ProvisionConflict(c) \/ ProvisionFails(c) \/ ReprovisionUser(c)
      PROVE  PanelGrows
  BY <1>2, <1>3 DEF Provision, ProvisionConflict, ProvisionFails, ReprovisionUser, NoAnswer,
                    Conflict, PanelGrows
<1>4. ASSUME NEW c \in Clients,
             \/ RegisterAccount(c) \/ Login(c) \/ Reprovision(c) \/ Logout(c) \/ Dies(c)
             \/ InsertAccount(c) \/ InsertRefused(c) \/ InsertSettings(c)
             \/ Relink(c) \/ LookupFails(c) \/ Rollback(c) \/ Link(c) \/ ReprovisionLink(c)
      PROVE  panel' = panel
  BY <1>4 DEF RegisterAccount, Login, Reprovision, Logout, Dies, InsertAccount, InsertRefused,
              InsertSettings, Relink, LookupFails, Rollback, Link, ReprovisionLink
<1>5. ASSUME NEW a \in Ids, AdminDelete(a) PROVE panel' = panel
  BY <1>5 DEF AdminDelete
<1> QED BY <1>3, <1>4, <1>5 DEF AccountNext, HandleAccount, PanelGrows

\* At most one row of accounts is written: it goes, it is new, or it gets a link
\* to the user that has its email.
RowWritten(a) ==
  /\ \A b \in Ids : b # a => account'[b] = account[b]
  /\ \/ account'[a] = NoAccountRow
     \/ /\ ~Exists(a) /\ account'[a].link = NoId /\ account'[a].email \in Emails
        /\ \A b \in Ids : account[b].email # account'[a].email
        /\ \A c \in Clients : client[c].id # a
        /\ \E c \in Clients : client'[c].id = a /\ client'[c].at = "settings"
     \/ /\ Exists(a) /\ account'[a].email = account[a].email
        /\ account'[a].link \in Ids /\ panel[account'[a].link] = account[a].email

\* A row is deleted.
LEMMA RowGone ==
  ASSUME AccountTypes, NEW a \in Ids \cup {NoId}, account' = [account EXCEPT ![a] = NoAccountRow]
  PROVE  AccountTypes' /\ (account' = account \/ (a \in Ids /\ RowWritten(a)))
<1>1. account \in [Ids -> AccountRowType] /\ NoAccountRow \in AccountRowType
  BY NoRowRecord DEF AccountTypes
<1>2. account' \in [Ids -> AccountRowType] /\ \A b \in Ids : b # a => account'[b] = account[b]
  BY <1>1
<1>3. CASE a \in Ids
  <2>1. account'[a] = NoAccountRow
    BY <1>1, <1>3
  <2> QED BY <1>2, <1>3, <2>1 DEF AccountTypes, RowWritten
<1>4. CASE a = NoId
  <2>1. \A b \in Ids : account'[b] = account[b]
    BY <1>2, <1>4, Bounds
  <2>2. account' = account
    BY <1>1, <1>2, <2>1
  <2> QED BY <1>2, <2>2 DEF AccountTypes
<1> QED BY <1>3, <1>4

\* SetRemnawaveLink, by a request that is about to.
LEMMA RowLinked ==
  ASSUME AccountTypeOK, ClientInv, NEW c \in Clients, client[c].at \in {"link", "relink"},
         account' = Linked(client[c].id, client[c].user)
  PROVE  AccountTypes' /\ (account' = account \/ \E a \in Ids : RowWritten(a))
<1>1. /\ AccountTypes /\ client[c].id \in Ids \cup {NoId} /\ client[c].user \in Ids
      /\ panel[client[c].user] = client[c].email
      /\ Exists(client[c].id) => account[client[c].id].email = client[c].email
  BY AccountTypesInParts DEF ClientTypes, ClientType, ClientInv
<1>2. PICK a \in Ids \cup {NoId} : a = client[c].id
  BY <1>1
<1>3. PICK u \in Ids : u = client[c].user
  BY <1>1
<1>4. /\ AccountTypes'
      /\ \/ account' = account
         \/ /\ a \in Ids /\ Exists(a)
            /\ \A b \in Ids : b # a => account'[b] = account[b]
            /\ account'[a].email = account[a].email /\ account'[a].link = u
  BY <1>1, <1>2, <1>3, LinkedRow
<1> QED BY <1>1, <1>2, <1>3, <1>4 DEF RowWritten

\* Every step writes one row of accounts at most.
LEMMA AccountSteps ==
  ASSUME AccountTypeOK, ClientInv, AccountNext
  PROVE  AccountTypes' /\ (account' = account \/ \E a \in Ids : RowWritten(a))
<1>1. AccountTypes /\ ClientTypes
  BY AccountTypesInParts
<1>2. ASSUME account' = account PROVE AccountTypes'
  BY <1>1, <1>2 DEF AccountTypes
<1>3. ASSUME NEW c \in Clients, InsertAccount(c)
      PROVE  AccountTypes' /\ \E a \in Ids : RowWritten(a)
  <2>1. PICK n \in Ids : n = NewId /\ n \in UnusedIds
    BY <1>3, NewIdUnused DEF InsertAccount
  <2>2. PICK e \in Emails : e = client[c].email
    BY <1>1 DEF ClientTypes, ClientType
  <2> DEFINE s == NewRow(e)
  <2>3. account' = [account EXCEPT ![n] = s] /\ \A b \in Ids : account[b].email # e
    <3>1. account' = [account EXCEPT ![NewId] = NewRow(client[c].email)]
      BY <1>3 DEF InsertAccount, NewRow
    <3>2. \A b \in Ids : account[b].email # client[c].email
      BY <1>3 DEF InsertAccount, WithEmail
    <3>3. account' = [account EXCEPT ![n] = NewRow(e)]
      BY <2>1, <2>2, <3>1
    <3>4. \A b \in Ids : account[b].email # e
      BY <2>2, <3>2
    <3> QED BY <3>3, <3>4
  <2>4. s \in AccountRowType /\ s.email = e /\ s.link = NoId
    BY NewRowRecord
  <2>5. client'[c].id = n /\ client'[c].at = "settings"
    <3>1. PICK l \in ClientLabels : l = "settings"
      BY DEF ClientLabels
    <3>2. Moves(c, {l}) /\ client'[c].id = n
      BY <1>1, <1>3, <2>1, <3>1, ForAccountMoves DEF InsertAccount, ClientTypes
    <3> QED BY <3>1, <3>2 DEF Moves
  <2>6. ~Exists(n) /\ \A d \in Clients : client[d].id # n
    BY <2>1 DEF UnusedIds
  <2> HIDE DEF s
  <2> QED BY <1>1, <2>2, <2>3, <2>4, <2>5, <2>6 DEF AccountTypes, RowWritten
<1>4. ASSUME NEW c \in Clients, Rollback(c)
      PROVE  AccountTypes' /\ (account' = account \/ \E a \in Ids : RowWritten(a))
  <2>1. client[c].id \in Ids \cup {NoId}
    BY <1>1 DEF ClientTypes, ClientType
  <2> QED BY <1>1, <1>2, <1>4, <2>1, RowGone DEF Rollback, WithoutRow
<1>5. ASSUME NEW c \in Clients, Link(c) \/ ReprovisionLink(c)
      PROVE  AccountTypes' /\ (account' = account \/ \E a \in Ids : RowWritten(a))
  BY <1>2, <1>5, RowLinked DEF Link, ReprovisionLink
<1>6. ASSUME NEW a \in Ids, AdminDelete(a)
      PROVE  AccountTypes' /\ (account' = account \/ \E b \in Ids : RowWritten(b))
  BY <1>1, <1>6, RowGone DEF AdminDelete
<1>7. ASSUME NEW c \in Clients,
             \/ RegisterAccount(c) \/ Login(c) \/ Reprovision(c) \/ Logout(c) \/ Dies(c)
             \/ InsertRefused(c) \/ InsertSettings(c)
             \/ Provision(c) \/ ProvisionConflict(c) \/ ProvisionFails(c)
             \/ Relink(c) \/ LookupFails(c) \/ ReprovisionUser(c)
      PROVE  account' = account
  BY <1>7 DEF RegisterAccount, Login, Reprovision, Logout, Dies, InsertRefused, InsertSettings,
              Provision, ProvisionConflict, ProvisionFails, Relink, LookupFails, ReprovisionUser
<1> QED BY <1>2, <1>3, <1>4, <1>5, <1>6, <1>7 DEF AccountNext, HandleAccount

------------------------------------------------------------------------------
(* The invariant is inductive.                                                *)

\* Faults are counted, never forgotten.
LEMMA FaultSteps ==
  ASSUME AccountTypeOK, AccountNext
  PROVE  FaultTypes' /\ (dbFaults' = 0 => dbFaults = 0)
<1>1. FaultTypes
  BY AccountTypesInParts
<1>2. CASE UNCHANGED <<dbFaults, panelFaults, deletes>>
  BY <1>1, <1>2 DEF FaultTypes
<1>3. ASSUME DbFault \/ UNCHANGED dbFaults, UNCHANGED <<panelFaults, deletes>>
      PROVE  FaultTypes' /\ (dbFaults' = 0 => dbFaults = 0)
  BY <1>1, <1>3, Bounds DEF FaultTypes, DbFault
<1>4. ASSUME PanelFault \/ UNCHANGED panelFaults, UNCHANGED <<dbFaults, deletes>>
      PROVE  FaultTypes' /\ (dbFaults' = 0 => dbFaults = 0)
  BY <1>1, <1>4, Bounds DEF FaultTypes, PanelFault
<1>5. ASSUME NEW c \in Clients,
             \/ RegisterAccount(c) \/ Login(c) \/ Reprovision(c) \/ Logout(c)
             \/ InsertAccount(c) \/ Provision(c) \/ ProvisionConflict(c) \/ Relink(c)
      PROVE  UNCHANGED <<dbFaults, panelFaults, deletes>>
  BY <1>5 DEF RegisterAccount, Login, Reprovision, Logout, InsertAccount, Provision,
              ProvisionConflict, Relink
<1>6. ASSUME NEW c \in Clients,
             \/ Dies(c) \/ InsertRefused(c) \/ InsertSettings(c) \/ Rollback(c) \/ Link(c)
             \/ ReprovisionLink(c)
      PROVE  (DbFault \/ UNCHANGED dbFaults) /\ UNCHANGED <<panelFaults, deletes>>
  BY <1>6 DEF Dies, InsertRefused, InsertSettings, Rollback, Link, ReprovisionLink
<1>7. ASSUME NEW c \in Clients, ProvisionFails(c) \/ LookupFails(c) \/ ReprovisionUser(c)
      PROVE  (PanelFault \/ UNCHANGED panelFaults) /\ UNCHANGED <<dbFaults, deletes>>
  BY <1>7 DEF ProvisionFails, LookupFails, ReprovisionUser, NoAnswer, PanelFault
<1>8. ASSUME NEW a \in Ids, AdminDelete(a) PROVE FaultTypes' /\ (dbFaults' = 0 => dbFaults = 0)
  BY <1>1, <1>8, Bounds DEF AdminDelete, FaultTypes
<1> QED BY <1>2, <1>3, <1>4, <1>5, <1>6, <1>7, <1>8 DEF AccountNext, HandleAccount

\* Users of the panel stay as they are.
LEMMA PanelStays ==
  ASSUME AccountTypeOK, PanelGrows
  PROVE  /\ PanelTypes'
         /\ \A u \in Ids : panel[u] # NoEmail => panel'[u] = panel[u]
BY AccountTypesInParts DEF PanelTypes, PanelGrows

\* The types are kept.
LEMMA StepAccountTypes ==
  ASSUME AccountTypeOK, ClientInv, AccountNext
  PROVE  AccountTypeOK'
<1>1. ClientTypes'
  <2>1. CASE client' = client
    BY <2>1, AccountTypesInParts DEF ClientTypes
  <2>2. ASSUME NEW c \in Clients, Moved(c) PROVE ClientTypes'
    BY <2>2, AccountTypesInParts, Bounds DEF ClientTypes, Moved, Moves
  <2> QED BY <2>1, <2>2, RequestsMove
<1>2. AccountTypes' /\ PanelTypes' /\ FaultTypes'
  BY AccountSteps, PanelSteps, PanelStays, FaultSteps
<1> QED BY <1>1, <1>2
        DEF AccountTypeOK, AccountTypes, PanelTypes, ClientTypes, FaultTypes, AccountRowType,
            ClientType, ClientLabels

\* No step gives an email a second account or a second user.
LEMMA StepEmails ==
  ASSUME AccountTypeOK, EmailsInv, ClientInv, AccountNext
  PROVE  EmailsInv'
<1>1. ASSUME NEW a \in Ids, NEW b \in Ids, Exists(a)', account'[a].email = account'[b].email
      PROVE  a = b
  <2>1. CASE account' = account
    BY <1>1, <2>1 DEF EmailsInv, Exists
  <2>2. ASSUME NEW x \in Ids, RowWritten(x) PROVE a = b
    BY <1>1, <2>2, NoRowRecord, Bounds DEF EmailsInv, Exists, RowWritten
  <2> QED BY <2>1, <2>2, AccountSteps
<1>2. ASSUME NEW u \in Ids, NEW v \in Ids, panel'[u] # NoEmail, panel'[u] = panel'[v] PROVE u = v
  BY <1>2, PanelSteps, AccountTypesInParts DEF EmailsInv, PanelGrows, PanelTypes
<1> QED BY <1>1, <1>2 DEF EmailsInv

\* The email of a row is the same as long as it is there.
LEMMA SameEmail ==
  ASSUME AccountTypeOK, ClientInv, AccountNext, NEW a \in Ids, Exists(a)'
  PROVE  \/ Exists(a) /\ account'[a].email = account[a].email
         \/ ~Exists(a) /\ \A c \in Clients : client[c].id # a
<1>1. CASE account' = account
  BY <1>1 DEF Exists
<1>2. ASSUME NEW x \in Ids, RowWritten(x)
      PROVE  \/ Exists(a) /\ account'[a].email = account[a].email
             \/ ~Exists(a) /\ \A c \in Clients : client[c].id # a
  BY <1>2, NoRowRecord DEF RowWritten, Exists
<1> QED BY <1>1, <1>2, AccountSteps

\* Requests keep to the email of their client.
LEMMA StepClientInv ==
  ASSUME AccountTypeOK, ClientInv, AccountNext
  PROVE  ClientInv'
<1> SUFFICES ASSUME NEW c \in Clients
             PROVE  /\ Exists(client[c].id)' => account'[client'[c].id].email = client'[c].email
                    /\ client'[c].at \in {"link", "relink"} =>
                         client'[c].user \in Ids /\ panel'[client'[c].user] = client'[c].email
  BY DEF ClientInv
<1>1. ClientTypes /\ client[c].email \in Emails
  BY AccountTypesInParts DEF ClientTypes, ClientType
<1>2. ASSUME client'[c].id = client[c].id, client'[c].email = client[c].email
      PROVE  Exists(client[c].id)' => account'[client'[c].id].email = client'[c].email
  <2>1. client[c].id \in Ids \cup {NoId}
    BY <1>1 DEF ClientTypes, ClientType
  <2>2. PICK a \in Ids \cup {NoId} : a = client[c].id
    BY <2>1
  <2>3. ASSUME a \in Ids, Exists(a)' PROVE account'[a].email = client[c].email
    BY <2>2, <2>3, SameEmail DEF ClientInv
  <2> QED BY <1>2, <2>2, <2>3 DEF Exists
<1>3. ASSUME client'[c] = client[c]
      PROVE  client'[c].at \in {"link", "relink"} =>
               client'[c].user \in Ids /\ panel'[client'[c].user] = client'[c].email
  BY <1>1, <1>3, PanelSteps, PanelStays, Bounds DEF ClientInv
<1>4. CASE client'[c] = client[c]
  BY <1>2, <1>3, <1>4
<1>5. CASE Moved(c)
  BY <1>2, <1>5 DEF Moved, Moves, Exists
<1>6. client'[c] = client[c] \/ Moved(c)
  BY RequestsMove DEF Moved, Moves
<1> QED BY <1>4, <1>5, <1>6

\* Links lead where they led: rows and users keep their emails.
LEMMA StepLinks ==
  ASSUME AccountTypeOK, ClientInv, LinkInv, AccountNext
  PROVE  LinkInv'
<1> SUFFICES ASSUME NEW a \in Ids, account'[a].link # NoId
             PROVE  /\ Exists(a)' /\ account'[a].link \in Ids
                    /\ panel'[account'[a].link] = account'[a].email
  BY DEF LinkInv
<1>1. \A u \in Ids : panel[u] # NoEmail => panel'[u] = panel[u]
  BY PanelSteps, PanelStays
<1>2. CASE account'[a] = account[a]
  BY <1>1, <1>2 DEF LinkInv, Exists
<1>3. CASE RowWritten(a)
  BY <1>1, <1>3, NoRowRecord DEF RowWritten, Exists
<1>4. account'[a] = account[a] \/ RowWritten(a)
  BY AccountSteps DEF RowWritten
<1> QED BY <1>2, <1>3, <1>4

\* SetRemnawaveLink finds the user free: who else could be linked to it would
\* have the same email.
LEMMA LinkStores ==
  ASSUME AccountInv, NEW c \in Clients, client[c].at = "link", Exists(client[c].id)
  PROVE  Unique(client[c].id, client[c].user) /\ client[c].user \in Ids
<1>1. /\ client[c].user \in Ids /\ panel[client[c].user] = client[c].email
      /\ account[client[c].id].email = client[c].email
  BY DEF AccountInv, ClientInv
<1>2. client[c].id \in Ids
  BY AccountTypesInParts DEF AccountInv, ClientTypes, ClientType, Exists
<1>3. ASSUME NEW b \in Ids \ {client[c].id}, account[b].link = client[c].user PROVE FALSE
  <2>1. account[b].link # NoId
    BY <1>1, <1>3, Bounds
  <2>2. Exists(b) /\ panel[account[b].link] = account[b].email
    BY <2>1 DEF AccountInv, LinkInv
  <2>3. account[b].email = account[client[c].id].email
    BY <1>1, <1>3, <2>2
  <2> QED BY <1>2, <2>2, <2>3 DEF AccountInv, EmailsInv
<1> QED BY <1>1, <1>3 DEF Unique

\* The registration of a goes on, unless it ends with a link or without a row.
LEMMA WorkGoesOn ==
  ASSUME AccountInv, AccountNext, dbFaults = 0, dbFaults' = 0,
         NEW a \in Ids, Worked(a), Exists(a)', account'[a].link = NoId
  PROVE  Worked(a)'
<1>1. PICK c \in Clients : client[c].id = a /\ client[c].at \in Registering
  BY DEF Worked
<1>2. AccountTypeOK /\ client \in [Clients -> ClientType] /\ AccountTypes
  BY AccountTypesInParts DEF AccountInv, ClientTypes
<1>3. ~DbFault
  BY DEF DbFault
<1>4. CASE client'[c] = client[c]
  BY <1>1, <1>4 DEF Worked
<1>5. ASSUME NEW l \in Registering, Moves(c, {l}), client'[c].id = client[c].id PROVE Worked(a)'
  BY <1>1, <1>5 DEF Worked, Moves
<1>6. ASSUME NEW l \in Registering, Goes(c, l) PROVE Worked(a)'
  <2>1. l \in ClientLabels
    BY DEF Registering, ClientLabels
  <2> QED BY <1>2, <1>5, <1>6, <2>1, GoesMoves
<1>7. CASE InsertSettings(c) \/ ProvisionConflict(c) \/ ProvisionFails(c) \/ LookupFails(c)
  BY <1>3, <1>6, <1>7
     DEF InsertSettings, ProvisionConflict, ProvisionFails, LookupFails, Registering
<1>8. CASE Provision(c) \/ Relink(c)
  <2>1. PICK u \in Ids \cup {NoId}, l \in ClientLabels :
          l = "link" /\ client' = [client EXCEPT ![c].at = l, ![c].user = u]
    BY <1>1, <1>8 DEF Provision, Relink, Orphan, UserOf, ClientLabels
  <2>2. Moves(c, {l}) /\ client'[c].id = client[c].id /\ l \in Registering
    BY <1>2, <2>1, WithUserMoves DEF Registering
  <2> QED BY <1>5, <2>2
<1>9. ~Rollback(c)
  <2>1. ASSUME account' = WithoutRow(client[c].id) PROVE FALSE
    BY <1>1, <1>2, <2>1, NoRowRecord DEF WithoutRow, Exists, AccountTypes
  <2> QED BY <1>3, <2>1 DEF Rollback
<1>10. ~Link(c)
  <2>1. ASSUME client[c].at = "link", account' = Linked(client[c].id, client[c].user) PROVE FALSE
    <3>1. client[c].user \in Ids
      BY <2>1 DEF AccountInv, ClientInv
    <3>2. PICK u \in Ids : u = client[c].user
      BY <3>1
    <3>3. \/ account' = account /\ ~(Exists(a) /\ Unique(a, u))
          \/ account'[a].link = u
      BY <1>1, <1>2, <2>1, <3>2, LinkedRow
    <3>4. Exists(a) => Unique(a, u)
      BY <1>1, <2>1, <3>2, LinkStores
    <3> QED BY <3>3, <3>4, Bounds DEF Exists
  <2> QED BY <1>3, <2>1 DEF Link
<1>11. ~Dies(c) /\ ~RegisterAccount(c) /\ ~Login(c) /\ ~Reprovision(c) /\ ~Logout(c)
       /\ ~InsertAccount(c) /\ ~InsertRefused(c) /\ ~ReprovisionUser(c) /\ ~ReprovisionLink(c)
  BY <1>1, <1>3 DEF Registering, Dies, RegisterAccount, Login, Reprovision, Logout, InsertAccount,
                    InsertRefused, ReprovisionUser, ReprovisionLink
<1>12. ASSUME NEW d \in Clients, d # c,
              RegisterAccount(d) \/ Login(d) \/ Reprovision(d) \/ Logout(d) \/ Dies(d)
              \/ HandleAccount(d)
       PROVE  client'[c] = client[c]
  <2>1. Moved(d)
    BY <1>2, <1>12, StartsMove, RegistrationMoves, ReprovisionMoves DEF HandleAccount
  <2> QED BY <1>12, <2>1 DEF Moved, Moves
<1>13. ASSUME NEW b \in Ids, AdminDelete(b) PROVE client'[c] = client[c]
  BY <1>13 DEF AdminDelete
<1> QED BY <1>4, <1>7, <1>8, <1>9, <1>10, <1>11, <1>12, <1>13 DEF AccountNext, HandleAccount

\* Whoever loses a link or gets a row without one is worked for.
LEMMA StepWork ==
  ASSUME AccountInv, AccountNext
  PROVE  WorkInv'
<1> SUFFICES ASSUME dbFaults' = 0, NEW a \in Ids, Exists(a)', account'[a].link = NoId
             PROVE  Worked(a)'
  BY DEF WorkInv
<1>1. AccountTypeOK /\ ClientInv /\ dbFaults = 0
  BY FaultSteps DEF AccountInv
<1>2. CASE account'[a] = account[a]
  <2>1. Worked(a)
    BY <1>1, <1>2 DEF AccountInv, WorkInv, Exists
  <2> QED BY <1>1, <2>1, WorkGoesOn
<1>3. CASE RowWritten(a)
  <2>1. \E c \in Clients : client'[c].id = a /\ client'[c].at = "settings"
    BY <1>3, NoRowRecord, Bounds DEF RowWritten, Exists
  <2> QED BY <2>1 DEF Worked, Registering
<1>4. account'[a] = account[a] \/ RowWritten(a)
  BY <1>1, AccountSteps DEF RowWritten
<1> QED BY <1>2, <1>3, <1>4

\* AccountInv is inductive.
LEMMA StepAccounts == AccountInv /\ [AccountNext]_accountVars => AccountInv'
<1>1. ASSUME AccountInv, AccountNext PROVE AccountInv'
  BY <1>1, StepAccountTypes, StepEmails, StepClientInv, StepLinks, StepWork DEF AccountInv
<1>2. ASSUME AccountInv, UNCHANGED accountVars PROVE AccountInv'
  BY <1>2 DEF accountVars, AccountInv, AccountTypeOK, EmailsInv, ClientInv, LinkInv, WorkInv,
              Worked, Exists
<1> QED BY <1>1, <1>2

\* AccountInv is an invariant.
LEMMA AccountInvariant == AccountSpec => []AccountInv
BY InitAccounts, StepAccounts, PTL DEF AccountSpec

------------------------------------------------------------------------------
(* The theorems.                                                              *)

(* AccountTypeOK, and a request past its first statement has an account.     *)
THEOREM AccountTypesHold == AccountSpec => []AccountTypeOK
<1>1. AccountInv => AccountTypeOK
  BY DEF AccountInv
<1> QED BY <1>1, AccountInvariant, PTL

(* QuotaOwn: an account that is linked is shown the traffic of the user with
   its own email, and nobody else is.                                         *)
THEOREM QuotaIsOwn == AccountSpec => []QuotaOwn
<1>1. AccountInv => QuotaOwn
  <2> SUFFICES ASSUME AccountInv, NEW a \in Ids, account[a].link # NoId
               PROVE  /\ \E u \in Quota(a) : panel[u] = account[a].email
                      /\ \A b \in Ids : b # a => Quota(a) \cap Quota(b) = {}
    BY DEF QuotaOwn
  <2>1. /\ Exists(a) /\ account[a].link \in Ids /\ panel[account[a].link] = account[a].email
        /\ account[a].email # NoEmail
    BY DEF AccountInv, LinkInv, Exists
  <2>2. Quota(a) = {account[a].link}
    BY <2>1 DEF Quota
  <2>3. ASSUME NEW b \in Ids, account[a].link \in Quota(b) PROVE b = a
    <3>1. account[b].link # NoId /\ account[b].link = account[a].link
      BY <2>3 DEF Quota
    <3>2. panel[account[b].link] = account[b].email
      BY <3>1 DEF AccountInv, LinkInv
    <3> QED BY <2>1, <3>1, <3>2 DEF AccountInv, EmailsInv
  <2> QED BY <2>1, <2>2, <2>3
<1> QED BY <1>1, AccountInvariant, PTL

(* QuietMeansLinked: unless the database failed or a request died, whatever
   the panel does leaves no account without a user behind.                    *)
THEOREM QuietAccountsAreLinked == AccountSpec => []QuietMeansLinked
<1>1. AccountInv => QuietMeansLinked
  BY DEF AccountInv, WorkInv, Worked, Registering, QuietMeansLinked
<1> QED BY <1>1, AccountInvariant, PTL

\* A request that is about to store a link has found the user there is.
LEMMA LinksStay ==
  ASSUME AccountInv, AccountNext, NEW a \in Ids, account[a].link # NoId
  PROVE  account'[a].link = account[a].link \/ account'[a] = NoAccountRow
<1>1. AccountTypeOK /\ ClientInv
  BY DEF AccountInv
<1>2. /\ Exists(a) /\ account[a].link \in Ids /\ panel[account[a].link] = account[a].email
      /\ account[a].email # NoEmail
  BY DEF AccountInv, LinkInv, Exists
<1>3. account'[a] = account[a] \/ RowWritten(a)
  BY <1>1, AccountSteps DEF RowWritten
<1>4. CASE RowWritten(a)
  BY <1>2, <1>4 DEF RowWritten, AccountInv, EmailsInv
<1> QED BY <1>3, <1>4

(* LinkStable: a link is stored once.                                          *)
THEOREM LinksAreStable == AccountSpec => LinkStable
<1>1. AccountInv /\ [AccountNext]_accountVars
        => [\A a \in Ids : account[a].link # NoId =>
              account'[a].link = account[a].link \/ account'[a] = NoAccountRow]_accountVars
  BY LinksStay
<1> QED BY <1>1, AccountInvariant, PTL DEF AccountSpec, LinkStable
===============================================================================
