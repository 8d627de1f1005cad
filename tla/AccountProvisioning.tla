------------------------ MODULE AccountProvisioning ------------------------
(***************************************************************************)
(* An account of the control plane and its user on the Remnawave panel:    *)
(* two systems written one after the other, with no transaction, while     *)
(* statements fail, answers of the panel get lost and clients try again.   *)
(*                                                                         *)
(*   control-plane/handler/auth.go       Register, Login                   *)
(*   control-plane/handler/devices.go    Quota, Reprovision                *)
(*   control-plane/db/account_repo.go    accounts                          *)
(*   control-plane/remnawave/client.go   the panel, seen by its answers    *)
(*                                                                         *)
(* An account is its id, which is also its user name on the panel, and a   *)
(* panel user is known by that name.  A client has one request in progress *)
(* at a time.                                                              *)
(***************************************************************************)
EXTENDS Integers, FiniteSets

CONSTANTS
  Clients,          \* apps that register, log in and ask for a subscription
  Emails, NoEmail,
  MaxIds,           \* bound: ids are 1..MaxIds
  MaxDbFaults,      \* bound: statements that fail, requests that die half-way
  MaxPanelFaults,   \* bound: calls of the panel that fail, or whose answer is lost
  MaxDeletes        \* bound: accounts the operator deletes

ASSUME AccountAssumption ==
  /\ NoEmail \notin Emails
  /\ MaxIds \in Nat \ {0}
  /\ {MaxDbFaults, MaxPanelFaults, MaxDeletes} \subseteq Nat

Ids == 1..MaxIds
NoId == 0           \* no account, no user, a NULL remnawave_uuid

VARIABLES
  account,          \* the rows of accounts: email (NoEmail: no row) and link
  panel,            \* the users of the panel: the email of each user name
  client,           \* per client its email, and the request it has in progress
  dbFaults, panelFaults, deletes

accountVars == <<account, panel, client, dbFaults, panelFaults, deletes>>

------------------------------------------------------------------------------
NoAccountRow == [email |-> NoEmail, link |-> NoId]

AccountInit ==
  /\ account = [a \in Ids |-> NoAccountRow]
  /\ panel = [a \in Ids |-> NoEmail]
  /\ client \in [Clients -> [at : {"out"}, email : Emails, id : {NoId}, user : {NoId}]]
  /\ dbFaults = 0 /\ panelFaults = 0 /\ deletes = 0

Exists(a) == a # NoId /\ account[a].email # NoEmail
WithEmail(e) == {a \in Ids : account[a].email = e}
UserOf(e) == {u \in Ids : panel[u] = e}

\* uuid_generate_v4: an id that was never given to an account before.
UnusedIds ==
  {a \in Ids : /\ ~Exists(a) /\ panel[a] = NoEmail
               /\ \A c \in Clients : client[c].id # a}
NewId == CHOOSE a \in UnusedIds : \A b \in UnusedIds : a <= b

------------------------------------------------------------------------------
\* Steps of a request: c goes on to step at; a step that fails uses up a fault.

Goes(c, at) == client' = [client EXCEPT ![c].at = at]

DbFault == dbFaults < MaxDbFaults /\ dbFaults' = dbFaults + 1
PanelFault == panelFaults < MaxPanelFaults /\ panelFaults' = panelFaults + 1

\* Answers: the client holds a token (201, 200), or does not.
Refused(c) == client' = [client EXCEPT ![c].at = "out", ![c].id = NoId, ![c].user = NoId]
Served(c) == client' = [client EXCEPT ![c].at = "in", ![c].user = NoId]

\* POST /auth/register, by a client that holds no token.
RegisterAccount(c) ==
  /\ client[c].at = "out"
  /\ Goes(c, "create")
  /\ UNCHANGED <<account, panel, dbFaults, panelFaults, deletes>>

\* Create's first statement; emails are unique, and every error answers 409.
InsertAccount(c) ==
  /\ client[c].at = "create" /\ WithEmail(client[c].email) = {} /\ UnusedIds # {}
  /\ account' = [account EXCEPT ![NewId] = [NoAccountRow EXCEPT !.email = client[c].email]]
  /\ client' = [client EXCEPT ![c].at = "settings", ![c].id = NewId]
  /\ UNCHANGED <<panel, dbFaults, panelFaults, deletes>>

InsertRefused(c) ==
  /\ client[c].at = "create"
  /\ \/ WithEmail(client[c].email) # {} /\ UNCHANGED dbFaults
     \/ DbFault
  /\ Refused(c)
  /\ UNCHANGED <<account, panel, panelFaults, deletes>>

\* Create's second statement, the account's settings: when it fails the
\* account stays, and the answer is 409 all the same.
InsertSettings(c) ==
  /\ client[c].at = "settings"
  /\ \/ Goes(c, "provision") /\ UNCHANGED dbFaults
     \/ DbFault /\ Refused(c)
  /\ UNCHANGED <<account, panel, panelFaults, deletes>>

------------------------------------------------------------------------------
\* The panel's answers to CreateUser, for the account with this id.

Taken(a, e) == panel[a] # NoEmail \/ UserOf(e) # {}

UserCreated(c) ==
  /\ ~Taken(client[c].id, client[c].email)
  /\ panel' = [panel EXCEPT ![client[c].id] = client[c].email]

\* 400 or 409: the name or the email is in use.
Conflict(c) == Taken(client[c].id, client[c].email) /\ UNCHANGED panel

\* The panel cannot be reached, or it answers after the 15 seconds.
NoAnswer(c) == PanelFault /\ (UserCreated(c) \/ UNCHANGED panel)

Provision(c) ==
  /\ client[c].at = "provision" /\ UserCreated(c)
  /\ client' = [client EXCEPT ![c].at = "link", ![c].user = client[c].id]
  /\ UNCHANGED <<account, dbFaults, panelFaults, deletes>>

ProvisionConflict(c) ==
  /\ client[c].at = "provision" /\ Conflict(c)
  /\ Goes(c, "lookup")
  /\ UNCHANGED <<account, dbFaults, panelFaults, deletes>>

ProvisionFails(c) ==
  /\ client[c].at = "provision" /\ NoAnswer(c)
  /\ Goes(c, "rollback")
  /\ UNCHANGED <<account, dbFaults, deletes>>

\* Fault: any user of the panel is taken.
FaultyOrphan(e) == {u \in Ids : panel[u] # NoEmail}

\* Fault: the lookup finds nobody.
FaultyNoOrphan(e) == {}

\* GetUserByEmail: the user an earlier account with this email has left.
Orphan(e) == UserOf(e)

Relink(c) ==
  /\ client[c].at = "lookup"
  /\ \E u \in Orphan(client[c].email) :
       client' = [client EXCEPT ![c].at = "link", ![c].user = u]
  /\ UNCHANGED <<account, panel, dbFaults, panelFaults, deletes>>

\* No user is found, or the panel does not answer.
LookupFails(c) ==
  /\ client[c].at = "lookup"
  /\ Orphan(client[c].email) = {} \/ panelFaults < MaxPanelFaults
  /\ panelFaults' = IF Orphan(client[c].email) = {} THEN panelFaults ELSE panelFaults + 1
  /\ Goes(c, "rollback")
  /\ UNCHANGED <<account, panel, dbFaults, deletes>>

\* Fault: the account is not deleted.
FaultyWithoutRow(a) == account

\* accounts.Delete, by the id the request created; 502 whether it succeeds.
WithoutRow(a) == [account EXCEPT ![a] = NoAccountRow]

Rollback(c) ==
  /\ client[c].at = "rollback"
  /\ \/ account' = WithoutRow(client[c].id) /\ UNCHANGED dbFaults
     \/ DbFault /\ UNCHANGED account
  /\ Refused(c)
  /\ UNCHANGED <<panel, panelFaults, deletes>>

\* remnawave_uuid is unique among the accounts that have one.
Unique(a, u) == \A b \in Ids \ {a} : account[b].link # u

\* SetRemnawaveLink: updates the row if there still is one.
Linked(a, u) ==
  IF Exists(a) /\ Unique(a, u) THEN [account EXCEPT ![a].link = u] ELSE account

\* Register answers 201 even when the link could not be stored.
Link(c) ==
  /\ client[c].at = "link"
  /\ \/ account' = Linked(client[c].id, client[c].user) /\ UNCHANGED dbFaults
     \/ DbFault /\ UNCHANGED account
  /\ Served(c)
  /\ UNCHANGED <<panel, panelFaults, deletes>>

------------------------------------------------------------------------------
\* POST /auth/login: a token for the account, in whatever state it is.
Login(c) ==
  /\ client[c].at = "out"
  /\ \E a \in WithEmail(client[c].email) :
       client' = [client EXCEPT ![c].at = "in", ![c].id = a]
  /\ UNCHANGED <<account, panel, dbFaults, panelFaults, deletes>>

\* POST /accounts/me/reprovision; tokens outlive accounts.
Reprovision(c) ==
  /\ client[c].at = "in"
  /\ Exists(client[c].id) /\ account[client[c].id].link = NoId
  /\ Goes(c, "reprovision")
  /\ UNCHANGED <<account, panel, dbFaults, panelFaults, deletes>>

\* Every error of CreateUser answers 502, a conflict too: unlike Register,
\* Reprovision does not look for the user there is.
ReprovisionUser(c) ==
  /\ client[c].at = "reprovision"
  /\ \/ /\ UserCreated(c) /\ UNCHANGED panelFaults
        /\ client' = [client EXCEPT ![c].at = "relink", ![c].user = client[c].id]
     \/ /\ \/ Conflict(c) /\ UNCHANGED panelFaults
           \/ NoAnswer(c)
        /\ Served(c)
  /\ UNCHANGED <<account, dbFaults, deletes>>

ReprovisionLink(c) ==
  /\ client[c].at = "relink"
  /\ \/ account' = Linked(client[c].id, client[c].user) /\ UNCHANGED dbFaults
     \/ DbFault /\ UNCHANGED account
  /\ Served(c)
  /\ UNCHANGED <<panel, panelFaults, deletes>>

\* The app forgets its token.
Logout(c) ==
  /\ client[c].at = "in" /\ Refused(c)
  /\ UNCHANGED <<account, panel, dbFaults, panelFaults, deletes>>

\* The control plane stops in the middle of a request.
Dies(c) ==
  /\ client[c].at \notin {"out", "in"} /\ DbFault
  /\ Refused(c)
  /\ UNCHANGED <<account, panel, panelFaults, deletes>>

\* The operator deletes an account: its panel user stays.
AdminDelete(a) ==
  /\ Exists(a) /\ deletes < MaxDeletes /\ deletes' = deletes + 1
  /\ account' = [account EXCEPT ![a] = NoAccountRow]
  /\ UNCHANGED <<panel, client, dbFaults, panelFaults>>

------------------------------------------------------------------------------
HandleAccount(c) ==
  \/ InsertAccount(c) \/ InsertRefused(c) \/ InsertSettings(c)
  \/ Provision(c) \/ ProvisionConflict(c) \/ ProvisionFails(c)
  \/ Relink(c) \/ LookupFails(c) \/ Rollback(c) \/ Link(c)
  \/ ReprovisionUser(c) \/ ReprovisionLink(c)

AccountNext ==
  \/ \E c \in Clients :
       \/ RegisterAccount(c) \/ Login(c) \/ Reprovision(c) \/ Logout(c) \/ Dies(c)
       \/ HandleAccount(c)
  \/ \E a \in Ids : AdminDelete(a)

AccountSpec == AccountInit /\ [][AccountNext]_accountVars

\* A request in progress goes on; a client that is told "try again" does, and
\* one whose account turns out to be gone starts over.
StartsOver(c) == Logout(c) /\ ~Exists(client[c].id)
Progress(c) == HandleAccount(c) \/ RegisterAccount(c) \/ StartsOver(c)
AccountFairness == \A c \in Clients : WF_accountVars(Progress(c))

------------------------------------------------------------------------------
(* Type invariant.                                                           *)
AccountTypeOK ==
  /\ account \in [Ids -> [email : Emails \cup {NoEmail}, link : Ids \cup {NoId}]]
  /\ panel \in [Ids -> Emails \cup {NoEmail}]
  /\ client \in [Clients ->
       [at : {"out", "create", "settings", "provision", "lookup", "rollback", "link",
              "in", "reprovision", "relink"},
        email : Emails, id : Ids \cup {NoId}, user : Ids \cup {NoId}]]
  /\ dbFaults \in 0..MaxDbFaults
  /\ panelFaults \in 0..MaxPanelFaults
  /\ deletes \in 0..MaxDeletes
  /\ \A c \in Clients : client[c].at \notin {"out", "create"} => client[c].id # NoId

\* GET /accounts/me/quota: the panel user whose traffic an account is shown.
Quota(a) ==
  IF account[a].link # NoId THEN {account[a].link} \cap {u \in Ids : panel[u] # NoEmail} ELSE {}

(* devices.go, migration 010: an account that is linked is shown the traffic of
   the panel user with its own email, also one taken over from an account that
   is gone, and no two accounts are shown the same.                          *)
QuotaOwn ==
  \A a \in Ids : account[a].link # NoId =>
    /\ \E u \in Quota(a) : panel[u] = account[a].email
    /\ \A b \in Ids : b # a => Quota(a) \cap Quota(b) = {}

(* auth.go: provisioning is part of registration. Unless the database failed or
   a request died, an account that no request is working on has its user,
   whatever the panel did and whatever requests overlapped.                  *)
QuietMeansLinked ==
  dbFaults = 0 =>
    \A a \in Ids : Exists(a) /\ (\A c \in Clients : client[c].id = a => client[c].at = "in")
      => account[a].link # NoId

(* A link, once stored, is not moved to another panel user by a request that
   read the account before.                                                  *)
LinkStable ==
  [][\A a \in Ids : account[a].link # NoId =>
       account'[a].link = account[a].link \/ account'[a] = NoAccountRow]_accountVars

(* auth.go: a failed registration is rolled back "so the next register attempt
   is clean": a client that keeps trying ends with an account that is linked,
   although the panel fails now and then, loses answers, or has users left from
   deleted accounts. Only a fault of the database can end that.              *)
RetriesEndLinked ==
  \A c \in Clients :
    client[c].at = "out" ~>
      \/ \E a \in WithEmail(client[c].email) : account[a].link # NoId
      \/ dbFaults > 0
=============================================================================
