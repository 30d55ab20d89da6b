----------------------------- MODULE Workspace -----------------------------
(***************************************************************************)
(* Organizations, their members, invitations, provider connections and     *)
(* repositories, and the HTTP requests that change them.  A request signs  *)
(* in, then opens a transaction of its own for its use case.  Every        *)
(* transaction is READ COMMITTED and locks no row it reads: each statement *)
(* sees what was committed before it, an object read once is not read      *)
(* again in the same session, and what is written is what the use case     *)
(* decided from its reads.  The database adds unique keys, foreign keys    *)
(* and cascades.                                                           *)
(*                                                                         *)
(* Requests that only list are left out, and so are the fields no rule     *)
(* looks at: names, notes, windows.  The key of a connection is decrypted  *)
(* or not whatever it is: it is not in the model.                          *)
(***************************************************************************)
EXTENDS Tenancy, FiniteSets, Sequences

CONSTANTS
    People,         \* identities of the provider
    Organizations,  \* the slugs people may ask for, hence the organizations
    Names,          \* of connections, and of repositories
    Servers,        \* of models
    Requests,       \* bound: requests there will ever be
    MaxAccounts,    \* bound: accounts ever opened
    MaxRows,        \* bound: invitations, connections and repositories ever made
    Home, Team,     \* an organization and, in order, the people already in it
    Nobody, NoRow

Switch == {"on", "off"}

AccountIds == 1..MaxAccounts
RowIds == 1..MaxRows

Accounts == [id : AccountIds, who : People, org : Organizations, role : Roles]
Invitations == [org : Organizations, email : People, role : Roles, by : AccountIds,
                status : InvitationStatuses, old : BOOLEAN]
Connections == [org : Organizations, name : Names, url : Servers,
                catalogue : Servers \cup {"none"}, enabled : BOOLEAN]
Repositories == [org : Organizations, name : Names]

(* The instances begin with an invitation and a connection: two rows.      *)
ASSUME WorkspaceAssumption ==
    /\ MaxAccounts \in Nat /\ MaxRows \in Nat \ {0, 1}
    /\ Nobody \notin People
    /\ ({"nothing", "none"} \cup Switch) \cap Servers = {}
    /\ Home \in Organizations /\ Team \in Seq(People) /\ Len(Team) \in 1..MaxAccounts
ASSUME NoRowAssumption == NoRow \notin Accounts \cup Invitations \cup Connections

VARIABLES
    orgs,         \* organizations created
    accounts,     \* user_account: by id, NoRow if there is none or no longer
    invitations,  \* tenant_invitation
    connections,  \* provider_connection
    repositories, \* repository
    reqs,         \* the requests
    opened, made  \* ids given out

tables == <<orgs, accounts, invitations, connections, repositories, opened, made>>
vars == <<tables, reqs>>

(***************************************************************************)
(* Rows and what a statement reads.                                        *)

Rows(table) == {i \in DOMAIN table : table[i] # NoRow}
AccountsOf(p) == {a \in Rows(accounts) : accounts[a].who = p}
MembersOf(o) == {a \in Rows(accounts) : accounts[a].org = o}
PendingOf(o) == {i \in Rows(invitations) :
                    invitations[i].org = o /\ invitations[i].status = "pending"}
ConnectionsOf(o) == {c \in Rows(connections) : connections[c].org = o}
TenantModels(o) == Resolved({connections[c] : c \in ConnectionsOf(o)})
RepositoriesOf(o) == {x \in Rows(repositories) : repositories[x].org = o}

Signed == {"invite", "revoke", "role", "remove", "connect", "edit", "refresh", "disconnect",
           "ask", "register", "unregister"}
OwnersOnly == Signed \ {"ask", "register", "unregister"}

(* What a request may ask for: its endpoint, the row or name it is about   *)
(* and the value it brings.                                                *)
Asks ==
    [kind : {"create"}, about : Organizations, with : {"none"}] \cup
    [kind : {"accept", "revoke"}, about : RowIds, with : {"none"}] \cup
    [kind : {"invite"}, about : People, with : Roles] \cup
    [kind : {"role"}, about : AccountIds, with : Roles] \cup
    [kind : {"remove"}, about : AccountIds, with : {"none"}] \cup
    [kind : {"connect"}, about : Names, with : Servers] \cup
    [kind : {"edit"}, about : RowIds, with : Servers \cup Switch] \cup
    [kind : {"refresh", "disconnect"}, about : RowIds, with : {"none"}] \cup
    [kind : {"ask"}, about : {Nobody}, with : {"none"}] \cup
    [kind : {"register"}, about : Names, with : {"none"}] \cup
    [kind : {"unregister"}, about : RowIds, with : {"none"}]

(* Ids and tokens reach people in answers: of a row that was never there   *)
(* nobody knows the id, and asking for it changes nothing.                 *)
IsKnown(ask) ==
    /\ ask.kind \in {"accept", "revoke"} => ask.about \in Rows(invitations)
    /\ ask.kind \in {"role", "remove"} => ask.about \in Rows(accounts)
    /\ ask.kind \in {"edit", "refresh", "disconnect"} => ask.about \in Rows(connections)
    /\ ask.kind = "unregister" => ask.about \in Rows(repositories)

NoAsk == [kind |-> "ask", about |-> Nobody, with |-> "none"]
Unsent == [step |-> "unsent", who |-> Nobody, ask |-> NoAsk, member |-> NoRow, actor |-> NoRow,
           read |-> NoRow, listed |-> "none", models |-> {}, ended |-> "no"]

Step(r) == reqs[r].step
Kind(r) == reqs[r].ask.kind
About(r) == reqs[r].ask.about
With(r) == reqs[r].ask.with
Email(r) == reqs[r].who

(* The organization a request acts in comes from the account it signed in  *)
(* with, or from the actor its use case read.                              *)
Org(r) == IF reqs[r].actor # NoRow THEN reqs[r].actor.org ELSE reqs[r].member.org

Proceed(r, change) == reqs' = [reqs EXCEPT ![r] = change]
End(r, how) == Proceed(r, [reqs[r] EXCEPT !.step = "done", !.ended = how])
Refuse(r) == End(r, "refused") /\ UNCHANGED tables
Goes(r, step) == Proceed(r, [reqs[r] EXCEPT !.step = step])
OnlyReads == UNCHANGED tables

(***************************************************************************)
(* Signing in.                                                             *)

(* A verified identity makes a request.  Creating and accepting need no    *)
(* membership; the others resolve it first, in a transaction of their own. *)
Send(r, p, ask) ==
    /\ Step(r) = "unsent"
    /\ IsKnown(ask)
    /\ Proceed(r, [Unsent EXCEPT !.who = p, !.ask = ask,
                                 !.step = IF ask.kind \in Signed THEN "signing" ELSE "joining"])
    /\ OnlyReads

(* find_by_identity; without an account there is nothing to update.        *)
SignIn(r) ==
    /\ Step(r) = "signing"
    /\ IF AccountsOf(reqs[r].who) = {} THEN Refuse(r)
       ELSE \E a \in AccountsOf(reqs[r].who) :
               /\ Proceed(r, [reqs[r] EXCEPT !.member = accounts[a], !.step = "seen"])
               /\ OnlyReads

\* mutant: the row is written whole, with the role that was read
SaveWhole(r) ==
    /\ Step(r) = "seen"
    /\ LET me == reqs[r].member IN
       IF accounts[me.id] = NoRow THEN End(r, "failed") /\ UNCHANGED accounts
       ELSE /\ accounts' = [accounts EXCEPT ![me.id] = me]
            /\ IF Kind(r) \in OwnersOnly /\ ~IsOwner(me) THEN End(r, "refused")
               ELSE Goes(r, "acting")
    /\ UNCHANGED <<orgs, invitations, connections, repositories, opened, made>>

(* The time and the address are saved, which fails when the row is gone;   *)
(* the account read, and not the row, is who the request is from now on.   *)
SaveSeen(r) ==
    /\ Step(r) = "seen"
    /\ LET me == reqs[r].member IN
       IF accounts[me.id] = NoRow THEN End(r, "failed")
       ELSE IF Kind(r) \in OwnersOnly /\ ~IsOwner(me) THEN End(r, "refused")
       ELSE Goes(r, "acting")
    /\ OnlyReads

(***************************************************************************)
(* The use cases of owners: first the actor is read again.                 *)

ReadActor(r) ==
    /\ Step(r) = "acting"
    /\ Kind(r) \in OwnersOnly
    /\ LET row == accounts[reqs[r].member.id] IN
       IF row = NoRow \/ (~IsOwner(row) /\ ~(Kind(r) = "refresh" /\ reqs[r].listed = "none"))
       THEN Refuse(r)
       ELSE /\ Proceed(r, [reqs[r] EXCEPT !.actor = row, !.step = "reading"])
            /\ OnlyReads

(* The members as this session sees them: rows, except that the actor is   *)
(* the object read before.                                                 *)
Seen(r) ==
    {IF a = reqs[r].actor.id THEN reqs[r].actor ELSE accounts[a] : a \in MembersOf(Org(r))}

Decide(r, read) == Proceed(r, [reqs[r] EXCEPT !.read = read, !.step = "committing"])

ReadInvite(r) ==
    /\ Step(r) = "reading" /\ Kind(r) = "invite"
    /\ IF \E i \in PendingOf(Org(r)) : invitations[i].email = About(r) /\ IsValid(invitations[i])
       THEN Refuse(r)
       ELSE Decide(r, NoRow) /\ OnlyReads

ReadRevoke(r) ==
    /\ Step(r) = "reading" /\ Kind(r) = "revoke"
    /\ LET row == invitations[About(r)] IN
       IF row = NoRow \/ row.org # Org(r) \/ row.status = "accepted"
       THEN Refuse(r)
       ELSE Decide(r, row) /\ OnlyReads

\* mutant: the owner who goes is counted among those who remain
ReadRoleOfAny(r) ==
    /\ Step(r) = "reading" /\ Kind(r) \in {"role", "remove"}
    /\ LET found == {m \in Seen(r) : m.id = About(r)} IN
       IF found = {} THEN Refuse(r)
       ELSE \E m \in found : Decide(r, m) /\ OnlyReads

ReadRole(r) ==
    /\ Step(r) = "reading" /\ Kind(r) \in {"role", "remove"}
    /\ LET found == {m \in Seen(r) : m.id = About(r)} IN
       IF \/ found = {}
          \/ /\ With(r) # "owner"
             /\ \E m \in found : ~OwnerRemains(Seen(r), m)
       THEN Refuse(r)
       ELSE \E m \in found : Decide(r, m) /\ OnlyReads

ReadConnection(r) ==
    /\ Step(r) = "reading" /\ Kind(r) \in {"edit", "refresh", "disconnect"}
    /\ IF About(r) \notin ConnectionsOf(Org(r)) THEN Refuse(r)
       ELSE IF Kind(r) = "refresh" /\ reqs[r].listed = "none"
            THEN /\ Proceed(r, [reqs[r] EXCEPT !.read = connections[About(r)], !.step = "probing"])
                 /\ OnlyReads
            ELSE Decide(r, connections[About(r)]) /\ OnlyReads

ReadNames(r) ==
    /\ Step(r) = "reading" /\ Kind(r) = "connect"
    /\ IF \E c \in ConnectionsOf(Org(r)) : connections[c].name = About(r) THEN Refuse(r)
       ELSE Decide(r, NoRow) /\ OnlyReads

(* Between two transactions the server is asked for its models: it does    *)
(* not answer, or lists them, or only proves that it answers.              *)
Probe(r) ==
    /\ Step(r) = "probing"
    /\ \/ Refuse(r)
       \/ \E listed \in {reqs[r].read.url, "nothing"} :
             /\ Proceed(r, [reqs[r] EXCEPT !.listed = listed, !.step = "acting"])
             /\ OnlyReads

(***************************************************************************)
(* The use cases without an owner.                                         *)

\* mutant: any invitation to this address will do
JoinByAny(r) ==
    /\ Step(r) = "joining"
    /\ IF \/ AccountsOf(reqs[r].who) # {}
          \/ Kind(r) = "create" /\ About(r) \in orgs
          \/ /\ Kind(r) = "accept"
             /\ LET row == invitations[About(r)] IN row = NoRow \/ row.email # Email(r)
       THEN Refuse(r)
       ELSE /\ Decide(r, IF Kind(r) = "accept" THEN invitations[About(r)] ELSE NoRow)
            /\ OnlyReads

(* Creating and accepting look for a membership of the identity and for    *)
(* the slug or the invitation.                                             *)
Join(r) ==
    /\ Step(r) = "joining"
    /\ IF \/ AccountsOf(reqs[r].who) # {}
          \/ Kind(r) = "create" /\ About(r) \in orgs
          \/ /\ Kind(r) = "accept"
             /\ LET row == invitations[About(r)] IN
                row = NoRow \/ ~IsValid(row) \/ row.email # Email(r)
       THEN Refuse(r)
       ELSE /\ Decide(r, IF Kind(r) = "accept" THEN invitations[About(r)] ELSE NoRow)
            /\ OnlyReads

(* Opening a socket or starting a run loads the models once.               *)
LoadModels(r) ==
    /\ Step(r) = "acting" /\ Kind(r) = "ask"
    /\ Proceed(r, [reqs[r] EXCEPT
                     !.models = TenantModels(Org(r)),
                     !.step = "done", !.ended = "served"])
    /\ OnlyReads

ReadRepository(r) ==
    /\ Step(r) = "acting"
    /\ \/ /\ Kind(r) = "register"
          /\ IF \E x \in RepositoriesOf(Org(r)) : repositories[x].name = About(r)
             THEN Refuse(r)
             ELSE Decide(r, NoRow) /\ OnlyReads
       \/ /\ Kind(r) = "unregister"
          /\ IF About(r) \notin RepositoriesOf(Org(r))
             THEN Refuse(r)
             ELSE Decide(r, repositories[About(r)]) /\ OnlyReads

(***************************************************************************)
(* Commits.                                                                *)

Committing(r, kind) == Step(r) = "committing" /\ Kind(r) = kind
Read(r) == reqs[r].read

(* The events of the aggregates, which nobody outside waits for, are left  *)
(* out.                                                                    *)
Succeed(r) == End(r, "committed")

(* A violated key, or an UPDATE of a row that is gone, fails the request.  *)
Abort(r) == End(r, "failed")

CommitCreate(r) ==
    /\ Committing(r, "create")
    /\ opened < MaxAccounts
    /\ IF About(r) \in orgs \/ AccountsOf(reqs[r].who) # {}
       THEN Abort(r) /\ UNCHANGED <<orgs, accounts, opened>>
       ELSE /\ orgs' = orgs \cup {About(r)}
            /\ accounts' = [accounts EXCEPT ![opened + 1] =
                                Account(opened + 1, reqs[r].who, About(r), "owner")]
            /\ opened' = opened + 1
            /\ Succeed(r)
    /\ UNCHANGED <<invitations, connections, repositories, made>>

\* mutant: an update that finds no invitation is no error
AdmitUninvited(r) ==
    /\ Committing(r, "accept")
    /\ opened < MaxAccounts
    /\ AccountsOf(reqs[r].who) = {}
    /\ accounts' = [accounts EXCEPT ![opened + 1] =
                        Account(opened + 1, reqs[r].who, Read(r).org, Read(r).role)]
    /\ invitations' = [invitations EXCEPT ![About(r)] =
                           IF @ = NoRow THEN @ ELSE [@ EXCEPT !.status = "accepted"]]
    /\ opened' = opened + 1
    /\ Succeed(r)
    /\ UNCHANGED <<orgs, connections, repositories, made>>

CommitAccept(r) ==
    /\ Committing(r, "accept")
    /\ opened < MaxAccounts
    /\ IF invitations[About(r)] = NoRow \/ AccountsOf(reqs[r].who) # {}
       THEN Abort(r) /\ UNCHANGED <<accounts, invitations, opened>>
       ELSE /\ accounts' = [accounts EXCEPT ![opened + 1] =
                                Account(opened + 1, reqs[r].who, Read(r).org, Read(r).role)]
            /\ invitations' = [invitations EXCEPT ![About(r)].status = "accepted"]
            /\ opened' = opened + 1
            /\ Succeed(r)
    /\ UNCHANGED <<orgs, connections, repositories, made>>

(* The inviter must still have a row.                                      *)
CommitInvite(r) ==
    /\ Committing(r, "invite")
    /\ made < MaxRows
    /\ IF accounts[reqs[r].actor.id] = NoRow
       THEN Abort(r) /\ UNCHANGED <<invitations, made>>
       ELSE /\ invitations' = [invitations EXCEPT ![made + 1] =
                                   Issued(Org(r), About(r), With(r), reqs[r].actor.id)]
            /\ made' = made + 1
            /\ Succeed(r)
    /\ UNCHANGED <<orgs, accounts, connections, repositories, opened>>

CommitRevoke(r) ==
    /\ Committing(r, "revoke")
    /\ IF Read(r).status = "revoked" THEN Succeed(r) /\ UNCHANGED invitations
       ELSE IF invitations[About(r)] = NoRow THEN Abort(r) /\ UNCHANGED invitations
       ELSE /\ invitations' = [invitations EXCEPT ![About(r)].status = "revoked"]
            /\ Succeed(r)
    /\ UNCHANGED <<orgs, accounts, connections, repositories, opened, made>>

CommitRole(r) ==
    /\ Committing(r, "role")
    /\ IF Read(r).role = With(r) THEN Succeed(r) /\ UNCHANGED accounts
       ELSE IF accounts[About(r)] = NoRow THEN Abort(r) /\ UNCHANGED accounts
       ELSE /\ accounts' = [accounts EXCEPT ![About(r)].role = With(r)]
            /\ Succeed(r)
    /\ UNCHANGED <<orgs, invitations, connections, repositories, opened, made>>

(* Deleting a row that is gone is no error.  The invitations a member      *)
(* wrote go with the account; those it accepted stay.                      *)
CommitRemove(r) ==
    /\ Committing(r, "remove")
    /\ accounts' = [accounts EXCEPT ![About(r)] = NoRow]
    /\ invitations' = [i \in RowIds |->
                          IF invitations[i] # NoRow /\ invitations[i].by = About(r) THEN NoRow
                          ELSE invitations[i]]
    /\ Succeed(r)
    /\ UNCHANGED <<orgs, connections, repositories, opened, made>>

CommitConnect(r) ==
    /\ Committing(r, "connect")
    /\ made < MaxRows
    /\ IF \E c \in ConnectionsOf(Org(r)) : connections[c].name = About(r)
       THEN Abort(r) /\ UNCHANGED <<connections, made>>
       ELSE /\ connections' = [connections EXCEPT ![made + 1] = Created(Org(r), About(r), With(r))]
            /\ made' = made + 1
            /\ Succeed(r)
    /\ UNCHANGED <<orgs, accounts, invitations, repositories, opened>>

(* Only the columns whose value differs from the one read are written.     *)
Field(r) == IF With(r) \in Switch THEN "enabled" ELSE "url"
Value(r) == IF With(r) \in Switch THEN With(r) = "on" ELSE With(r)

CommitEdit(r) ==
    /\ Committing(r, "edit")
    /\ IF connections[About(r)] = NoRow THEN Abort(r) /\ UNCHANGED connections
       ELSE /\ connections' = [connections EXCEPT ![About(r)] =
                   IF Read(r)[Field(r)] = Value(r) THEN @ ELSE Edited(@, Field(r), Value(r))]
            /\ Succeed(r)
    /\ UNCHANGED <<orgs, accounts, invitations, repositories, opened, made>>

\* mutant: the whole row that was read is written with its new catalogue
RefreshWhole(r) ==
    /\ Committing(r, "refresh")
    /\ IF connections[About(r)] = NoRow THEN Abort(r) /\ UNCHANGED connections
       ELSE /\ connections' = [connections EXCEPT ![About(r)] = Refreshed(Read(r), reqs[r].listed)]
            /\ Succeed(r)
    /\ UNCHANGED <<orgs, accounts, invitations, repositories, opened, made>>

CommitRefresh(r) ==
    /\ Committing(r, "refresh")
    /\ IF connections[About(r)] = NoRow THEN Abort(r) /\ UNCHANGED connections
       ELSE /\ connections' = [connections EXCEPT ![About(r)] =
                   IF Refreshed(Read(r), reqs[r].listed) = Read(r) THEN @
                   ELSE Refreshed(@, reqs[r].listed)]
            /\ Succeed(r)
    /\ UNCHANGED <<orgs, accounts, invitations, repositories, opened, made>>

CommitDisconnect(r) ==
    /\ Committing(r, "disconnect")
    /\ connections' = [connections EXCEPT ![About(r)] = NoRow]
    /\ Succeed(r)
    /\ UNCHANGED <<orgs, accounts, invitations, repositories, opened, made>>

CommitRegister(r) ==
    /\ Committing(r, "register")
    /\ made < MaxRows
    /\ IF \E x \in RepositoriesOf(Org(r)) : repositories[x].name = About(r)
       THEN Abort(r) /\ UNCHANGED <<repositories, made>>
       ELSE /\ repositories' = [repositories EXCEPT ![made + 1] =
                                    [org |-> Org(r), name |-> About(r)]]
            /\ made' = made + 1
            /\ Succeed(r)
    /\ UNCHANGED <<orgs, accounts, invitations, connections, opened>>

CommitUnregister(r) ==
    /\ Committing(r, "unregister")
    /\ repositories' = [repositories EXCEPT ![About(r)] = NoRow]
    /\ Succeed(r)
    /\ UNCHANGED <<orgs, accounts, invitations, connections, opened, made>>

(* An invitation runs out.                                                 *)
Expire(i) ==
    /\ invitations[i] # NoRow
    /\ ~invitations[i].old
    /\ invitations' = [invitations EXCEPT ![i].old = TRUE]
    /\ UNCHANGED <<orgs, accounts, connections, repositories, opened, made, reqs>>

(***************************************************************************)
(* An organization its requests may have led to: the first of the team     *)
(* created it, the others joined; somebody may be invited and a connection *)
(* may exist.                                                              *)
Init ==
    /\ orgs = {Home}
    /\ \E roles \in {f \in [1..Len(Team) -> Roles] : f[1] = "owner"} :
          accounts = [a \in AccountIds |->
                         IF a \in DOMAIN Team THEN Account(a, Team[a], Home, roles[a]) ELSE NoRow]
    /\ \E invited \in SUBSET People :
          /\ \A p \in invited : \A a \in DOMAIN Team : Team[a] # p
          /\ Cardinality(invited) \leq 1
          /\ \E role \in Roles : invitations = [i \in RowIds |->
                 IF i = 1 /\ invited # {} THEN Issued(Home, CHOOSE p \in invited : TRUE, role, 1)
                 ELSE NoRow]
    /\ \E n \in Names, s \in Servers :
          connections = [c \in RowIds |-> IF c = 2 THEN Created(Home, n, s) ELSE NoRow]
    /\ repositories = [x \in RowIds |-> NoRow]
    /\ reqs = [r \in Requests |-> Unsent]
    /\ opened = Len(Team) /\ made = 2

Commit(r) ==
    \/ CommitCreate(r) \/ CommitAccept(r) \/ CommitInvite(r) \/ CommitRevoke(r)
    \/ CommitRole(r) \/ CommitRemove(r) \/ CommitConnect(r) \/ CommitEdit(r)
    \/ CommitRefresh(r) \/ CommitDisconnect(r) \/ CommitRegister(r) \/ CommitUnregister(r)

UseCase(r) ==
    \/ ReadActor(r) \/ ReadInvite(r) \/ ReadRevoke(r) \/ ReadRole(r) \/ ReadConnection(r)
    \/ ReadNames(r) \/ Probe(r) \/ Join(r) \/ LoadModels(r) \/ ReadRepository(r)

Next ==
    \/ \E r \in Requests :
          \/ \E p \in People, ask \in Asks : Send(r, p, ask)
          \/ SignIn(r) \/ SaveSeen(r) \/ UseCase(r) \/ Commit(r)
    \/ \E i \in RowIds : Expire(i)

Spec == Init /\ [][Next]_vars

(***************************************************************************)
(* Properties.                                                             *)

Steps == {"unsent", "signing", "seen", "acting", "reading", "probing", "joining", "committing",
          "done"}
Reqs == [step : Steps, who : People \cup {Nobody}, ask : Asks,
         member : Accounts \cup {NoRow}, actor : Accounts \cup {NoRow},
         read : Accounts \cup Invitations \cup Connections \cup Repositories \cup {NoRow},
         listed : Servers \cup {"none", "nothing"},
         models : SUBSET [name : Names, url : Servers, catalogue : Servers \cup {"none"}],
         ended : {"no", "refused", "failed", "served", "committed"}]

(* Rows and requests have their columns, an id names its account, and a    *)
(* pending or accepted invitation still has the account that wrote it.     *)
TypeOK ==
    /\ orgs \subseteq Organizations
    /\ accounts \in [AccountIds -> Accounts \cup {NoRow}]
    /\ invitations \in [RowIds -> Invitations \cup {NoRow}]
    /\ connections \in [RowIds -> Connections \cup {NoRow}]
    /\ repositories \in [RowIds -> Repositories \cup {NoRow}]
    /\ DOMAIN reqs = Requests /\ \A r \in Requests : reqs[r] \in Reqs
    /\ opened \in 0..MaxAccounts /\ made \in 0..MaxRows
    /\ \A a \in Rows(accounts) : accounts[a].id = a /\ accounts[a].org \in orgs
    /\ \A i \in Rows(invitations) : invitations[i].by \in Rows(accounts)

(* Whoever joins an organization that is there does so by an accept of its *)
(* own (AcceptInvitation): the invitation was to this address, pending and *)
(* not run out when the request read it; it is still there when the        *)
(* account is opened, with the organization and the role it granted, and   *)
(* the same commit uses it up.  A removal of the inviter, which takes the  *)
(* invitation away, cannot overlap with it unnoticed; a revocation can.    *)
JoinsAreInvited ==
    [][\A a \in AccountIds : accounts[a] = NoRow /\ accounts'[a] # NoRow =>
          \/ accounts'[a].org \notin orgs /\ IsOwner(accounts'[a])
          \/ \E r \in Requests :
                /\ Committing(r, "accept") /\ reqs'[r].ended = "committed"
                /\ Email(r) = accounts'[a].who
                /\ Read(r).email = Email(r) /\ IsValid(Read(r))
                /\ Read(r).org = accounts'[a].org /\ Read(r).role = accounts'[a].role
                /\ invitations[About(r)] # NoRow
                /\ invitations'[About(r)].status = "accepted"]_vars

(* A role changes only by the request of somebody who was an owner when    *)
(* it was read and only to the role asked for; the account row is also     *)
(* written at every request of its person (ResolveSignedInUser), which     *)
(* never brings an old role back.                                          *)
RolesChangeByOwners ==
    [][\A a \in AccountIds :
          accounts[a] # NoRow /\ accounts'[a] # NoRow /\ accounts'[a].role # accounts[a].role =>
             \E r \in Requests :
                /\ Step(r) = "committing" /\ reqs'[r].step = "done"
                /\ Kind(r) = "role" /\ About(r) = a
                /\ IsOwner(reqs[r].actor) /\ reqs[r].actor.org = accounts[a].org
                /\ accounts'[a].role = With(r)]_vars

(* The server and the switch of a connection are as the last edits that    *)
(* were committed left them: a refresh of the catalogue that read the      *)
(* connection before it asked the server undoes no edit made meanwhile.    *)
EditsSurviveRefresh ==
    [][\A c \in RowIds :
          (/\ connections[c] # NoRow /\ connections'[c] # NoRow
           /\ \/ connections'[c].enabled # connections[c].enabled
              \/ connections'[c].url # connections[c].url) =>
                   \E r \in Requests : /\ Kind(r) = "edit" /\ About(r) = c
                                       /\ Step(r) = "committing" /\ reqs'[r].step = "done"]_vars

(* One request alone never leaves an organization without an owner         *)
(* (ensure_owner_remains): it takes two, each of which took the other's    *)
(* account for the owner who remains.                                      *)
OwnersFallOnlyTogether ==
    LET demotes(r, o) == /\ Kind(r) \in {"role", "remove"} /\ With(r) # "owner"
                         /\ reqs[r].ended = "committed" /\ Org(r) = o
    IN \A o \in orgs :
          (\A a \in MembersOf(o) : ~IsOwner(accounts[a])) =>
             \E r, s \in Requests : demotes(r, o) /\ demotes(s, o) /\ About(r) # About(s)
=============================================================================
