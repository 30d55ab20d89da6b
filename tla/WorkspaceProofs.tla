--------------------------- MODULE WorkspaceProofs ---------------------------
(***************************************************************************)
(* Proofs about Workspace, for any people, organizations, requests and     *)
(* bounds.                                                                 *)
(***************************************************************************)
EXTENDS Workspace, TLAPS

-----------------------------------------------------------------------------
(* What a request is about follows from its endpoint.                      *)

LEMMA AskShape ==
    ASSUME NEW ask \in Asks
    PROVE  /\ ask.kind \in {"create", "accept"} \cup Signed
           /\ ask.kind = "create" => ask.about \in Organizations
           /\ ask.kind = "accept" => ask.about \in RowIds
           /\ ask.kind = "revoke" => ask.about \in RowIds
           /\ ask.kind = "invite" => ask.about \in People /\ ask.with \in Roles
           /\ ask.kind = "role" => ask.about \in AccountIds /\ ask.with \in Roles
           /\ ask.kind = "remove" => ask.about \in AccountIds /\ ask.with = "none"
           /\ ask.kind = "connect" => ask.about \in Names /\ ask.with \in Servers
           /\ ask.kind = "edit" => ask.about \in RowIds /\ ask.with \in Servers \cup Switch
           /\ ask.kind \in {"refresh", "disconnect", "unregister"} => ask.about \in RowIds
           /\ ask.kind = "register" => ask.about \in Names
  BY DEF Asks, Signed

Listings == Servers \cup {"none", "nothing"}
Offers == SUBSET [name : Names, url : Servers, catalogue : Servers \cup {"none"}]
Found == Accounts \cup Invitations \cup Connections \cup Repositories \cup {NoRow}
Endings == {"no", "refused", "failed", "served", "committed"}

(* A request moves on by changing some of its fields.                      *)
LEMMA Moves ==
    ASSUME NEW q \in Reqs
    PROVE  /\ \A st \in Steps : [q EXCEPT !.step = st] \in Reqs
           /\ \A how \in Endings : [q EXCEPT !.step = "done", !.ended = how] \in Reqs
           /\ \A a \in Accounts : [q EXCEPT !.member = a, !.step = "seen"] \in Reqs
           /\ \A a \in Accounts :
                 [q EXCEPT !.actor = a, !.step = "reading"] \in Reqs
           /\ \A x \in Found, st \in {"committing", "probing"} :
                 [q EXCEPT !.read = x, !.step = st] \in Reqs
           /\ \A l \in Listings : [q EXCEPT !.listed = l, !.step = "acting"] \in Reqs
           /\ \A m \in Offers :
                 [q EXCEPT !.models = m, !.step = "done", !.ended = "served"] \in Reqs
<1>1. {"done", "seen", "reading", "committing", "probing", "acting"} \subseteq Steps
  BY DEF Steps
<1>2. \A st \in Steps : [q EXCEPT !.step = st] \in Reqs
  BY DEF Reqs
<1>3. \A how \in Endings : [q EXCEPT !.step = "done", !.ended = how] \in Reqs
  BY <1>1 DEF Reqs, Endings
<1>4. \A a \in Accounts : [q EXCEPT !.member = a, !.step = "seen"] \in Reqs
  BY <1>1 DEF Reqs
<1>5. \A a \in Accounts : [q EXCEPT !.actor = a, !.step = "reading"] \in Reqs
  BY <1>1 DEF Reqs
<1>6. \A x \in Found, st \in {"committing", "probing"} : [q EXCEPT !.read = x, !.step = st] \in Reqs
  BY <1>1 DEF Reqs, Found
<1>7. \A l \in Listings : [q EXCEPT !.listed = l, !.step = "acting"] \in Reqs
  BY <1>1 DEF Reqs, Listings
<1>8. \A m \in Offers : [q EXCEPT !.models = m, !.step = "done", !.ended = "served"] \in Reqs
  BY <1>1 DEF Reqs, Offers
<1>9. QED
  BY <1>2, <1>3, <1>4, <1>5, <1>6, <1>7, <1>8
-----------------------------------------------------------------------------
(* The invariant.                                                          *)

RequestsTyped == DOMAIN reqs = Requests /\ \A r \in Requests : reqs[r] \in Reqs

TablesTyped ==
    /\ orgs \subseteq Organizations
    /\ accounts \in [AccountIds -> Accounts \cup {NoRow}]
    /\ invitations \in [RowIds -> Invitations \cup {NoRow}]
    /\ connections \in [RowIds -> Connections \cup {NoRow}]
    /\ repositories \in [RowIds -> Repositories \cup {NoRow}]
    /\ opened \in 0..MaxAccounts /\ made \in 0..MaxRows
    /\ \A a \in Rows(accounts) : accounts[a].id = a /\ accounts[a].org \in orgs
    /\ \A i \in Rows(invitations) : invitations[i].by \in Rows(accounts)

(* Ids are given out in order and never twice, and an invitation is to the *)
(* organization of its author.                                             *)
Numbered ==
    /\ \A a \in Rows(accounts) : a <= opened
    /\ \A i \in Rows(invitations) : i <= made
    /\ \A c \in Rows(connections) : c <= made
    /\ \A i \in Rows(invitations) : accounts[invitations[i].by].org = invitations[i].org

(* What a request has read, as far as it still can be true: the row read   *)
(* may be gone or changed, but never became a row of somebody else.        *)
StillOf(id, org) == accounts[id] = NoRow \/ accounts[id].org = org
StillInvites(id, row) ==
    \/ invitations[id] = NoRow
    \/ /\ invitations[id].org = row.org
       /\ invitations[id].email = row.email
       /\ invitations[id].role = row.role

Signing(q) == q.ask.kind \in Signed
Owning(q) == q.ask.kind \in OwnersOnly

Sound(q) ==
    /\ q.step # "unsent" =>
          /\ q.who \in People
          /\ q.ask.kind = "accept" => q.ask.about <= made
          /\ q.ask.kind \in {"role", "remove"} => q.ask.about <= opened
    /\ q.actor # NoRow => q.actor.id <= opened /\ StillOf(q.actor.id, q.actor.org)
    /\ q.step \in {"signing", "seen", "acting", "reading", "probing"} => Signing(q)
    /\ q.step \in {"seen", "acting", "reading", "probing"} => q.member # NoRow
    /\ q.step \in {"reading", "probing"} => Owning(q) /\ q.actor # NoRow
    /\ q.step = "reading" => q.ask.kind = "refresh" \/ IsOwner(q.actor)
    /\ q.step = "joining" => q.ask.kind \in {"create", "accept"}
    /\ q.step = "probing" => q.read \in Connections
    /\ q.step = "committing" =>
          /\ Signing(q) => q.member # NoRow
          /\ Owning(q) => q.actor # NoRow
          /\ q.ask.kind \in {"role", "remove"} =>
                IsOwner(q.actor) /\ StillOf(q.ask.about, q.actor.org)
          /\ q.ask.kind = "accept" =>
                /\ q.read \in Invitations /\ q.read.email = q.who /\ IsValid(q.read)
                /\ StillInvites(q.ask.about, q.read)

Inv == RequestsTyped /\ TablesTyped /\ Numbered /\ \A r \in Requests : Sound(reqs[r])

(* What other requests may do to the rows a request has read.              *)
Monotone ==
    /\ opened <= opened' /\ made <= made'
    /\ \A a \in AccountIds : a <= opened /\ accounts'[a] # NoRow =>
          accounts[a] # NoRow /\ accounts'[a].org = accounts[a].org
    /\ \A i \in RowIds : i <= made /\ invitations'[i] # NoRow =>
          /\ invitations[i] # NoRow
          /\ invitations'[i].org = invitations[i].org
          /\ invitations'[i].email = invitations[i].email
          /\ invitations'[i].role = invitations[i].role

LEMMA SoundStays ==
    ASSUME Monotone, TablesTyped, TablesTyped', NEW q \in Reqs, Sound(q)
    PROVE  Sound(q)'
<1> USE DEF TablesTyped
<1>1. ASSUME NEW id \in AccountIds, id <= opened, NEW org, StillOf(id, org)
      PROVE  StillOf(id, org)'
  BY <1>1 DEF Monotone, StillOf
<1>2. ASSUME NEW id \in RowIds, id <= made, NEW row, StillInvites(id, row)
      PROVE  StillInvites(id, row)'
  BY <1>2 DEF Monotone, StillInvites
<1>3. q.ask \in Asks /\ q.actor \in Accounts \cup {NoRow}
  BY DEF Reqs
<1>4. q.actor # NoRow => q.actor.id \in AccountIds
  BY <1>3 DEF Accounts
<1>5. q.ask.kind = "accept" => q.ask.about \in RowIds
  BY <1>3, AskShape
<1>6. q.ask.kind \in {"role", "remove"} => q.ask.about \in AccountIds
  BY <1>3, AskShape
<1>7. \A n : (n \in RowIds /\ n <= made => n <= made') /\ (n \in AccountIds /\ n <= opened => n <= opened')
  BY DEF Monotone, RowIds, AccountIds
<1> QED
  BY <1>1, <1>2, <1>4, <1>5, <1>6, <1>7 DEF Sound, Signing, Owning, IsOwner
-----------------------------------------------------------------------------
(* How a request moves on.  What it becomes is sound with the tables as    *)
(* they were: for a step that only reads nothing else is needed.           *)

Becomes(r, c) == Proceed(r, c) /\ c \in Reqs /\ Sound(c)

LEMMA MovesFrom ==
    ASSUME Inv, NEW r \in Requests, Step(r) # "unsent"
    PROVE  /\ reqs[r] \in Reqs
           /\ reqs[r].ask \in Asks
           /\ reqs[r].member \in Accounts \cup {NoRow}
           /\ reqs[r].actor \in Accounts \cup {NoRow}
           /\ Sound(reqs[r])
           /\ \A c \in Reqs :
                 /\ c.who = reqs[r].who /\ c.ask = reqs[r].ask /\ c.actor = reqs[r].actor
                 /\ c.step = "done"
                 => Sound(c)
<1>1. reqs[r] \in Reqs /\ Sound(reqs[r])
  BY DEF Inv, RequestsTyped
<1>2. \A c \in Reqs : /\ c.who = reqs[r].who /\ c.ask = reqs[r].ask /\ c.actor = reqs[r].actor
                      /\ c.step = "done"
                      => Sound(c)
  BY <1>1 DEF Sound, Step
<1>3. QED
  BY <1>1, <1>2 DEF Reqs

(* A request that ends.                                                    *)
LEMMA Ending ==
    ASSUME Inv, NEW r \in Requests, Step(r) # "unsent"
    PROVE  \A how \in Endings : End(r, how) => \E c : Becomes(r, c) /\ c.step = "done"
<1>1. ASSUME NEW how \in Endings, End(r, how)
      PROVE  \E c : Becomes(r, c) /\ c.step = "done"
  <2> DEFINE c == [reqs[r] EXCEPT !.step = "done", !.ended = how]
  <2>1. c \in Reqs
    BY MovesFrom, Moves
  <2>2. c.who = reqs[r].who /\ c.ask = reqs[r].ask /\ c.actor = reqs[r].actor /\ c.step = "done"
    BY MovesFrom DEF Reqs
  <2>3. Becomes(r, c)
    BY <1>1, <2>1, <2>2, MovesFrom DEF Becomes, End
  <2>4. QED
    BY <2>2, <2>3
<1>2. QED
  BY <1>1

LEMMA SendStep ==
    ASSUME Inv, NEW r \in Requests, NEW p \in People, NEW ask \in Asks, Send(r, p, ask)
    PROVE  \E c : Becomes(r, c)
<1> DEFINE st == IF ask.kind \in Signed THEN "signing" ELSE "joining"
           c == [Unsent EXCEPT !.who = p, !.ask = ask, !.step = st]
<1>1. /\ c.step = st /\ c.who = p /\ c.ask = ask /\ c.actor = NoRow
      /\ st \in {"signing", "joining"}
  BY DEF Unsent
<1>2. c \in Reqs
  <2>1. ASSUME NEW x \in Steps PROVE [Unsent EXCEPT !.who = p, !.ask = ask, !.step = x] \in Reqs
    BY DEF Unsent, Reqs
  <2>2. st \in Steps
    BY DEF Steps
  <2>3. QED
    BY <2>1, <2>2
<1>3. ask.kind \in {"create", "accept"} \cup Signed
  BY AskShape
<1>4. ask.kind = "accept" => ask.about <= made
  BY DEF Send, IsKnown, Inv, Numbered
<1>5. ask.kind \in {"role", "remove"} => ask.about <= opened
  BY DEF Send, IsKnown, Inv, Numbered
<1>6. Sound(c)
  BY <1>1, <1>3, <1>4, <1>5 DEF Sound, Signing
<1>7. QED
  BY <1>2, <1>6 DEF Send, Becomes

(* Signing in, and reading the actor.                                      *)
LEMMA SigningStep ==
    ASSUME Inv, NEW r \in Requests, SignIn(r) \/ SaveSeen(r) \/ ReadActor(r)
    PROVE  \E c : Becomes(r, c)
<1> DEFINE q == reqs[r]
<1>1. Step(r) \in {"signing", "seen", "acting"}
  BY DEF SignIn, SaveSeen, ReadActor
<1>2. /\ q \in Reqs /\ Sound(q) /\ q.ask \in Asks
      /\ q.member \in Accounts \cup {NoRow} /\ q.actor \in Accounts \cup {NoRow}
  BY <1>1, MovesFrom
<1>3. \A how \in Endings : End(r, how) => \E c : Becomes(r, c)
  BY <1>1, Ending
<1>4. {"refused", "failed"} \subseteq Endings
  BY DEF Endings
<1>5. \A a \in Rows(accounts) : accounts[a] \in Accounts /\ a \in AccountIds
                                /\ accounts[a].id = a /\ a <= opened
  BY DEF Inv, TablesTyped, Numbered, Rows
<1>6. CASE SignIn(r)
  <2>1. ASSUME NEW a \in AccountsOf(q.who), Proceed(r, [q EXCEPT !.member = accounts[a], !.step = "seen"])
        PROVE  \E c : Becomes(r, c)
    <3> DEFINE c == [q EXCEPT !.member = accounts[a], !.step = "seen"]
    <3>1. accounts[a] \in Accounts /\ accounts[a] # NoRow
      BY <1>5 DEF AccountsOf, Rows
    <3>2. c \in Reqs
      BY <1>2, <3>1, Moves
    <3>3. /\ c.step = "seen" /\ c.member # NoRow
          /\ c.who = q.who /\ c.ask = q.ask /\ c.actor = q.actor
      BY <1>2, <3>1 DEF Reqs
    <3>4. Sound(c)
      BY <1>2, <1>6, <3>3 DEF Sound, Signing, SignIn, Step
    <3>5. QED
      BY <2>1, <3>2, <3>4 DEF Becomes
  <2>2. QED
    BY <1>3, <1>4, <1>6, <2>1 DEF SignIn, Refuse
<1>7. CASE SaveSeen(r)
  <2>1. ASSUME Goes(r, "acting")
        PROVE  \E c : Becomes(r, c)
    <3> DEFINE c == [q EXCEPT !.step = "acting"]
    <3>1. c \in Reqs
      BY <1>2, Moves DEF Steps
    <3>2. /\ c.step = "acting" /\ c.member = q.member
          /\ c.who = q.who /\ c.ask = q.ask /\ c.actor = q.actor
      BY <1>2 DEF Reqs
    <3>3. Sound(c)
      BY <1>2, <1>7, <3>2 DEF Sound, Signing, SaveSeen, Step
    <3>4. QED
      BY <2>1, <3>1, <3>3 DEF Becomes, Goes
  <2>2. QED
    BY <1>3, <1>4, <1>7, <2>1 DEF SaveSeen
<1>8. CASE ReadActor(r)
  <2> DEFINE row == accounts[q.member.id]
             c == [q EXCEPT !.actor = row, !.step = "reading"]
  <2>1. ASSUME row # NoRow, IsOwner(row) \/ q.ask.kind = "refresh", Proceed(r, c)
        PROVE  Becomes(r, c)
    <3>1. q.member.id \in Rows(accounts)
      <4>1. q.member # NoRow
        BY <1>2, <1>8 DEF Sound, ReadActor, Step
      <4>2. q.member.id \in AccountIds
        BY <1>2, <4>1 DEF Accounts
      <4>3. QED
        BY <2>1, <4>2 DEF Rows, Inv, TablesTyped
    <3>2. row \in Accounts /\ row.id = q.member.id /\ row.id <= opened
      BY <1>5, <3>1
    <3>3. c \in Reqs
      BY <1>2, <3>2, Moves
    <3>4. /\ c.step = "reading" /\ c.member = q.member
          /\ c.who = q.who /\ c.ask = q.ask /\ c.actor = row
      BY <1>2 DEF Reqs
    <3>5. StillOf(row.id, row.org)
      BY <3>2 DEF StillOf
    <3>6. Sound(c)
      BY <1>2, <1>8, <2>1, <3>2, <3>4, <3>5 DEF Sound, Signing, Owning, ReadActor, Step, Kind
    <3>7. QED
      BY <2>1, <3>3, <3>6 DEF Becomes
  <2>2. QED
    BY <1>3, <1>4, <1>8, <2>1 DEF ReadActor, Refuse, Kind
<1>9. QED
  BY <1>6, <1>7, <1>8

(* Reading, in the transaction that will commit.                           *)
LEMMA Decided ==
    ASSUME Inv, NEW r \in Requests, NEW row \in Found, Decide(r, row),
           Step(r) \in {"acting", "reading", "joining"},
           Step(r) = "acting" => ~Owning(reqs[r]),
           Step(r) = "joining" => ~Signing(reqs[r]),
           Kind(r) \in {"role", "remove"} =>
               IsOwner(reqs[r].actor) /\ StillOf(About(r), reqs[r].actor.org),
           Kind(r) = "accept" =>
               /\ row \in Invitations /\ row.email = reqs[r].who
               /\ IsValid(row) /\ StillInvites(About(r), row)
    PROVE  \E c : Becomes(r, c) /\ c.step = "committing"
<1> DEFINE q == reqs[r]
           c == [q EXCEPT !.read = row, !.step = "committing"]
<1>1. q \in Reqs /\ Sound(q) /\ q.ask \in Asks
  BY MovesFrom
<1>2. c \in Reqs
  BY <1>1, Moves
<1>3. /\ c.step = "committing" /\ c.read = row /\ c.member = q.member
      /\ c.who = q.who /\ c.ask = q.ask /\ c.actor = q.actor
  BY <1>1 DEF Reqs
<1>4. Owning(q) => q.actor # NoRow
  BY <1>1 DEF Sound, Step, Owning, Signing, OwnersOnly
<1>5. Signing(q) => q.member # NoRow
  BY <1>1 DEF Sound, Step, Signing
<1>6. Sound(c)
  BY <1>1, <1>3, <1>4, <1>5 DEF Sound, Signing, Owning, Step, Kind, About
<1>7. QED
  BY <1>2, <1>3, <1>6 DEF Becomes, Decide

LEMMA ReadingStep ==
    ASSUME Inv, NEW r \in Requests,
           ReadInvite(r) \/ ReadRevoke(r) \/ ReadNames(r) \/ ReadRepository(r)
    PROVE  \E c : Becomes(r, c)
<1>1. Step(r) \in {"acting", "reading"}
  BY DEF ReadInvite, ReadRevoke, ReadNames, ReadRepository
<1>2. Refuse(r) => \E c : Becomes(r, c)
  BY <1>1, Ending DEF Endings, Refuse
<1>3. Step(r) = "acting" => ~Owning(reqs[r])
  BY DEF ReadInvite, ReadRevoke, ReadNames, ReadRepository, Owning, OwnersOnly, Kind
<1>4. Kind(r) \notin {"role", "remove", "accept"}
  BY DEF ReadInvite, ReadRevoke, ReadNames, ReadRepository
<1>5. \A row \in Found : Decide(r, row) => \E c : Becomes(r, c)
  BY <1>1, <1>3, <1>4, Decided
<1>6. \/ Refuse(r)
      \/ \E row \in Found : Decide(r, row)
  <2>1. reqs[r].ask \in Asks
    BY <1>1, MovesFrom
  <2>2. Kind(r) = "revoke" => invitations[About(r)] \in Found
    BY <2>1, AskShape DEF Kind, About, Inv, TablesTyped, Found
  <2>3. Kind(r) = "unregister" => repositories[About(r)] \in Found
    BY <2>1, AskShape DEF Kind, About, Inv, TablesTyped, Found
  <2>4. NoRow \in Found
    BY DEF Found
  <2>5. QED
    BY <2>2, <2>3, <2>4 DEF ReadInvite, ReadRevoke, ReadNames, ReadRepository
<1>7. QED
  BY <1>2, <1>5, <1>6

LEMMA ReadRoleStep ==
    ASSUME Inv, NEW r \in Requests, ReadRole(r)
    PROVE  \E c : Becomes(r, c)
<1> DEFINE q == reqs[r]
<1>1. /\ q \in Reqs /\ Sound(q) /\ q.ask \in Asks /\ q.actor \in Accounts \cup {NoRow}
  BY MovesFrom DEF ReadRole
<1>2. Refuse(r) => \E c : Becomes(r, c)
  BY Ending DEF Endings, Refuse, ReadRole
<1>3. q.actor \in Accounts /\ IsOwner(q.actor) /\ Org(r) = q.actor.org
  BY <1>1 DEF Sound, ReadRole, Step, Kind, Org
<1>4. ASSUME NEW m \in Seen(r), m.id = About(r)
      PROVE  m \in Found /\ StillOf(About(r), q.actor.org)
  <2>1. PICK a \in MembersOf(Org(r)) : m = IF a = q.actor.id THEN q.actor ELSE accounts[a]
    BY <1>4 DEF Seen
  <2>2. accounts[a] \in Accounts /\ accounts[a].id = a /\ accounts[a].org = q.actor.org
    BY <1>3, <2>1 DEF MembersOf, Rows, Inv, TablesTyped
  <2>3. m.id = a /\ m \in Accounts
    BY <1>3, <2>1, <2>2
  <2>4. QED
    BY <1>4, <2>2, <2>3 DEF Found, StillOf
<1>5. ASSUME NEW m \in Seen(r), m.id = About(r), Decide(r, m)
      PROVE  \E c : Becomes(r, c)
  BY <1>3, <1>4, <1>5, Decided DEF ReadRole, Step, Kind
<1>6. QED
  BY <1>2, <1>5 DEF ReadRole

LEMMA ReadConnectionStep ==
    ASSUME Inv, NEW r \in Requests, ReadConnection(r)
    PROVE  \E c : Becomes(r, c)
<1> DEFINE q == reqs[r]
           row == connections[About(r)]
           p == [q EXCEPT !.read = row, !.step = "probing"]
<1>1. /\ q \in Reqs /\ Sound(q) /\ q.ask \in Asks
  BY MovesFrom DEF ReadConnection
<1>2. Refuse(r) => \E c : Becomes(r, c)
  BY Ending DEF Endings, Refuse, ReadConnection
<1>3. About(r) \in ConnectionsOf(Org(r)) => row \in Connections /\ row \in Found
  BY DEF ConnectionsOf, Rows, Inv, TablesTyped, Found
<1>4. ASSUME row \in Connections, row \in Found, Proceed(r, p) PROVE Becomes(r, p)
  <2>1. p \in Reqs
    BY <1>1, <1>4, Moves
  <2>2. /\ p.step = "probing" /\ p.read = row /\ p.member = q.member
        /\ p.who = q.who /\ p.ask = q.ask /\ p.actor = q.actor
    BY <1>1 DEF Reqs
  <2>3. Sound(p)
    BY <1>1, <1>4, <2>2 DEF Sound, Signing, Owning, ReadConnection, Step
  <2>4. QED
    BY <1>4, <2>1, <2>3 DEF Becomes
<1>5. ASSUME row \in Found, Decide(r, row) PROVE \E c : Becomes(r, c)
  BY <1>5, Decided DEF ReadConnection, Step, Kind
<1>6. QED
  BY <1>2, <1>3, <1>4, <1>5 DEF ReadConnection

LEMMA ProbeStep ==
    ASSUME Inv, NEW r \in Requests, Probe(r)
    PROVE  \E c : Becomes(r, c)
<1> DEFINE q == reqs[r]
<1>1. /\ q \in Reqs /\ Sound(q)
  BY MovesFrom DEF Probe
<1>2. Refuse(r) => \E c : Becomes(r, c)
  BY Ending DEF Endings, Refuse, Probe
<1>3. q.read \in Connections
  BY <1>1 DEF Sound, Probe, Step
<1>4. ASSUME NEW l \in {q.read.url, "nothing"}, Proceed(r, [q EXCEPT !.listed = l, !.step = "acting"])
      PROVE  \E c : Becomes(r, c)
  <2> DEFINE c == [q EXCEPT !.listed = l, !.step = "acting"]
  <2>1. l \in Listings
    BY <1>3 DEF Connections, Listings
  <2>2. c \in Reqs
    BY <1>1, <2>1, Moves
  <2>3. /\ c.step = "acting" /\ c.member = q.member
        /\ c.who = q.who /\ c.ask = q.ask /\ c.actor = q.actor
    BY <1>1 DEF Reqs
  <2>4. Sound(c)
    BY <1>1, <2>3 DEF Sound, Signing, Owning, Probe, Step
  <2>5. QED
    BY <1>4, <2>2, <2>4 DEF Becomes
<1>5. QED
  BY <1>2, <1>4 DEF Probe

LEMMA JoinStep ==
    ASSUME Inv, NEW r \in Requests, Join(r)
    PROVE  \E c : Becomes(r, c)
<1> DEFINE q == reqs[r]
           row == invitations[About(r)]
<1>1. /\ q \in Reqs /\ Sound(q) /\ q.ask \in Asks
  BY MovesFrom DEF Join
<1>2. Refuse(r) => \E c : Becomes(r, c)
  BY Ending DEF Endings, Refuse, Join
<1>3. Kind(r) \in {"create", "accept"} /\ ~Signing(q)
  BY <1>1 DEF Sound, Join, Step, Kind, Signing, Signed
<1>4. Kind(r) = "accept" => row \in Invitations \cup {NoRow}
  BY <1>1, AskShape DEF Kind, About, Inv, TablesTyped
<1>5. StillInvites(About(r), row)
  BY DEF StillInvites
<1>6. ASSUME NEW x \in Found, Decide(r, x),
             Kind(r) = "accept" => x = row /\ x \in Invitations /\ x.email = q.who /\ IsValid(x)
      PROVE  \E c : Becomes(r, c)
  BY <1>3, <1>5, <1>6, Decided DEF Join, Step
<1>7. NoRow \in Found /\ Invitations \subseteq Found
  BY DEF Found
<1>8. QED
  BY <1>2, <1>3, <1>4, <1>6, <1>7 DEF Join, Email

LEMMA LoadModelsStep ==
    ASSUME Inv, NEW r \in Requests, LoadModels(r)
    PROVE  \E c : Becomes(r, c)
<1> DEFINE q == reqs[r]
           m == TenantModels(Org(r))
           c == [q EXCEPT !.models = m, !.step = "done", !.ended = "served"]
<1>1. q \in Reqs
  BY MovesFrom DEF LoadModels
<1>2. m \in Offers
  <2>1. \A x \in ConnectionsOf(Org(r)) : connections[x] \in Connections
    BY DEF ConnectionsOf, Rows, Inv, TablesTyped
  <2>2. QED
    BY <2>1 DEF TenantModels, Resolved, Offers, Connections
<1>3. c \in Reqs
  BY <1>1, <1>2, Moves
<1>4. c.who = q.who /\ c.ask = q.ask /\ c.actor = q.actor /\ c.step = "done"
  BY <1>1 DEF Reqs
<1>5. Sound(c)
  BY <1>3, <1>4, MovesFrom DEF LoadModels
<1>6. QED
  BY <1>3, <1>5 DEF LoadModels, Becomes

-----------------------------------------------------------------------------
(* What a commit writes.                                                   *)

Kept == TablesTyped' /\ Numbered' /\ Monotone

LEMMA NothingWritten ==
    ASSUME Inv, UNCHANGED tables
    PROVE  Kept
  BY DEF Inv, TablesTyped, Numbered, Monotone, tables, Rows, Kept

(* The facts about a request that commits.                                 *)
LEMMA CommittingFacts ==
    ASSUME Inv, NEW r \in Requests, Step(r) = "committing"
    PROVE  /\ reqs[r].who \in People
           /\ reqs[r].ask \in Asks
           /\ Signing(reqs[r]) => Org(r) \in Organizations
           /\ Owning(reqs[r]) =>
                 /\ reqs[r].actor \in Accounts /\ Org(r) = reqs[r].actor.org
                 /\ reqs[r].actor.id <= opened
                 /\ StillOf(reqs[r].actor.id, Org(r))
           /\ Kind(r) \in {"role", "remove"} =>
                 /\ IsOwner(reqs[r].actor)
                 /\ About(r) \in AccountIds /\ About(r) <= opened
                 /\ StillOf(About(r), Org(r))
           /\ Kind(r) = "accept" =>
                 /\ Read(r) \in Invitations /\ Read(r).email = reqs[r].who
                 /\ IsValid(Read(r))
                 /\ About(r) \in RowIds /\ About(r) <= made
                 /\ StillInvites(About(r), Read(r))
<1> DEFINE q == reqs[r]
<1>1. /\ q \in Reqs /\ Sound(q) /\ q.ask \in Asks
      /\ q.member \in Accounts \cup {NoRow} /\ q.actor \in Accounts \cup {NoRow}
  BY MovesFrom
<1>2. q.who \in People
  BY <1>1 DEF Sound, Step
<1>3. Signing(q) => Org(r) \in Organizations
  BY <1>1 DEF Sound, Step, Org, Accounts
<1>4. Owning(q) => /\ q.actor \in Accounts /\ Org(r) = q.actor.org
                   /\ q.actor.id <= opened /\ StillOf(q.actor.id, Org(r))
  BY <1>1 DEF Sound, Step, Org
<1>5. Kind(r) \in {"role", "remove"} =>
          /\ IsOwner(q.actor) /\ About(r) \in AccountIds
          /\ About(r) <= opened /\ StillOf(About(r), q.actor.org) /\ Owning(q)
  BY <1>1, AskShape DEF Sound, Step, Kind, About, Owning, OwnersOnly, Signed
<1>6. Kind(r) = "accept" =>
          /\ Read(r) \in Invitations /\ Read(r).email = q.who /\ IsValid(Read(r))
          /\ About(r) \in RowIds /\ About(r) <= made /\ StillInvites(About(r), Read(r))
  BY <1>1, AskShape DEF Sound, Step, Kind, About, Read
<1>7. QED
  BY <1>1, <1>2, <1>3, <1>4, <1>5, <1>6

(* A commit whose request is refused by a key or by a lost row.            *)
LEMMA AbortKeeps ==
    ASSUME Inv, NEW r \in Requests, Abort(r), UNCHANGED tables
    PROVE  Kept
  BY NothingWritten

(* A new account: of the founder of an organization, or of who accepts.    *)
LEMMA OpeningKeeps ==
    ASSUME Inv, NEW who \in People, NEW org \in Organizations, NEW role \in Roles,
           opened < MaxAccounts,
           accounts' = [accounts EXCEPT ![opened + 1] = Account(opened + 1, who, org, role)],
           opened' = opened + 1, org \in orgs', orgs \subseteq orgs', orgs' \subseteq Organizations,
           \/ UNCHANGED invitations
           \/ \E i \in Rows(invitations) :
                 invitations' = [invitations EXCEPT ![i].status = "accepted"],
           UNCHANGED <<connections, repositories, made>>
    PROVE  Kept
<1> DEFINE new == Account(opened + 1, who, org, role)
<1> USE DEF Inv, TablesTyped
<1>1. opened + 1 \in AccountIds /\ opened \in Nat /\ opened' \in 0..MaxAccounts
  BY WorkspaceAssumption DEF AccountIds
<1>2. /\ new \in Accounts /\ new # NoRow
      /\ new.id = opened + 1 /\ new.org = org
  BY <1>1, NoRowAssumption DEF Account, Accounts
<1>3. /\ accounts' \in [AccountIds -> Accounts \cup {NoRow}]
      /\ Rows(accounts') = Rows(accounts) \cup {opened + 1}
      /\ accounts'[opened + 1] = new
      /\ \A a \in Rows(accounts) : accounts'[a] = accounts[a] /\ a <= opened /\ a \in Nat
  BY <1>1, <1>2 DEF Rows, Numbered, AccountIds
<1>4. /\ invitations' \in [RowIds -> Invitations \cup {NoRow}]
      /\ Rows(invitations') = Rows(invitations)
      /\ \A i \in Rows(invitations) :
            /\ invitations'[i].org = invitations[i].org
            /\ invitations'[i].by = invitations[i].by
            /\ invitations'[i].email = invitations[i].email
            /\ invitations'[i].role = invitations[i].role
  <2>1. CASE UNCHANGED invitations
    BY <2>1
  <2>2. ASSUME NEW i \in Rows(invitations),
               invitations' = [invitations EXCEPT ![i].status = "accepted"]
        PROVE  <1>4!:
    <3>1. /\ invitations[i] \in Invitations /\ i \in RowIds
          /\ [invitations[i] EXCEPT !.status = "accepted"] \in Invitations
      BY <2>2 DEF Rows, Invitations, InvitationStatuses
    <3>2. invitations' = [invitations EXCEPT ![i] = [invitations[i] EXCEPT !.status = "accepted"]]
      BY <2>2
    <3>3. QED
      BY <3>1, <3>2, NoRowAssumption DEF Rows, Invitations
  <2>3. QED
    BY <2>1, <2>2
<1>5. TablesTyped'
  BY <1>1, <1>2, <1>3, <1>4 DEF Rows
<1>6. Numbered'
  <2>1. \A a \in Rows(accounts') : a <= opened'
    BY <1>1, <1>3
  <2>2. \A i \in Rows(invitations') : i <= made'
    BY <1>4 DEF Numbered
  <2>3. \A c \in Rows(connections') : c <= made'
    BY DEF Numbered
  <2>4. \A i \in Rows(invitations) : accounts'[invitations'[i].by].org = invitations'[i].org
    BY <1>3, <1>4 DEF Numbered
  <2>5. QED
    BY <1>4, <2>1, <2>2, <2>3, <2>4 DEF Numbered
<1>7. Monotone
  BY <1>1, <1>3, <1>4 DEF Rows, Monotone
<1>8. QED
  BY <1>5, <1>6, <1>7 DEF Kept

LEMMA CommitCreateKeeps ==
    ASSUME Inv, NEW r \in Requests, CommitCreate(r)
    PROVE  Kept
<1>1. CASE Abort(r) /\ UNCHANGED <<orgs, accounts, opened>>
  BY <1>1, AbortKeeps DEF CommitCreate, tables
<1>2. CASE ~(About(r) \in orgs \/ AccountsOf(reqs[r].who) # {})
  <2>1. reqs[r].who \in People /\ About(r) \in Organizations /\ "owner" \in Roles
    BY CommittingFacts, AskShape DEF CommitCreate, Committing, Kind, About, Roles
  <2>2. Succeed(r)
    BY <1>2 DEF CommitCreate
  <2>3. orgs' = orgs \cup {About(r)} /\ orgs' \subseteq Organizations
    BY <1>2, <2>1 DEF CommitCreate, Inv, TablesTyped
  <2>4. QED
    BY <1>2, <2>1, <2>3, OpeningKeeps DEF CommitCreate
<1>3. QED
  BY <1>1, <1>2 DEF CommitCreate

LEMMA CommitAcceptKeeps ==
    ASSUME Inv, NEW r \in Requests, CommitAccept(r)
    PROVE  Kept
<1>1. CASE Abort(r) /\ UNCHANGED <<accounts, invitations, opened>>
  BY <1>1, AbortKeeps DEF CommitAccept, tables
<1>2. CASE ~(invitations[About(r)] = NoRow \/ AccountsOf(reqs[r].who) # {})
  <2>1. /\ reqs[r].who \in People /\ About(r) \in RowIds
        /\ Read(r) \in Invitations /\ StillInvites(About(r), Read(r))
    BY CommittingFacts DEF CommitAccept, Committing
  <2>2. About(r) \in Rows(invitations)
    BY <1>2, <2>1 DEF Rows, Inv, TablesTyped
  <2>3. Read(r).org \in orgs /\ Read(r).org \in Organizations /\ Read(r).role \in Roles
    <3>1. Read(r).org = invitations[About(r)].org
      BY <1>2, <2>1 DEF StillInvites
    <3>2. invitations[About(r)].org \in orgs
      BY <2>2 DEF Inv, TablesTyped, Numbered, Rows
    <3>3. QED
      BY <2>1, <3>1, <3>2 DEF Invitations
  <2>4. Succeed(r)
    BY <1>2 DEF CommitAccept
  <2>5. orgs' = orgs /\ orgs' \subseteq Organizations
    BY DEF CommitAccept, Inv, TablesTyped
  <2>6. QED
    BY <1>2, <2>1, <2>2, <2>3, <2>5, OpeningKeeps DEF CommitAccept
<1>3. QED
  BY <1>1, <1>2 DEF CommitAccept

LEMMA CommitInviteKeeps ==
    ASSUME Inv, NEW r \in Requests, CommitInvite(r)
    PROVE  Kept
<1> USE DEF Inv, TablesTyped
<1>1. CASE Abort(r) /\ UNCHANGED <<invitations, made>>
  BY <1>1, AbortKeeps DEF CommitInvite, tables
<1>2. CASE accounts[reqs[r].actor.id] # NoRow
  <2> DEFINE by == reqs[r].actor.id
             new == Issued(Org(r), About(r), With(r), by)
  <2>1. /\ Owning(reqs[r]) /\ Signing(reqs[r])
        /\ About(r) \in People /\ With(r) \in Roles
    BY MovesFrom, AskShape
       DEF CommitInvite, Committing, Kind, About, With, Owning, OwnersOnly, Signing, Signed
  <2>2. /\ Org(r) \in Organizations /\ by \in AccountIds
        /\ accounts[by].org = Org(r) /\ by \in Rows(accounts)
    <3>1. /\ reqs[r].actor \in Accounts /\ Org(r) \in Organizations
          /\ StillOf(by, Org(r))
      BY <2>1, CommittingFacts DEF CommitInvite, Committing
    <3>2. by \in AccountIds
      BY <3>1 DEF Accounts
    <3>3. QED
      BY <1>2, <3>1, <3>2 DEF StillOf, Rows
  <2>3. made + 1 \in RowIds /\ made \in Nat /\ made' = made + 1 /\ made' \in 0..MaxRows
    BY <1>2, WorkspaceAssumption DEF CommitInvite, RowIds
  <2>4. new \in Invitations /\ new # NoRow /\ new.by = by /\ new.org = Org(r)
    <3>1. About(r) \in People /\ With(r) \in Roles /\ Org(r) \in Organizations /\ by \in AccountIds
      BY <2>1, <2>2
    <3>2. new \in Invitations /\ new.by = by /\ new.org = Org(r)
      BY <3>1 DEF Issued, Invitations, InvitationStatuses
    <3>3. QED
      BY <3>2, NoRowAssumption
  <2>5. invitations' = [invitations EXCEPT ![made + 1] = new]
    BY <1>2 DEF CommitInvite
  <2>6. /\ invitations' \in [RowIds -> Invitations \cup {NoRow}]
        /\ Rows(invitations') = Rows(invitations) \cup {made + 1}
        /\ invitations'[made + 1] = new
        /\ \A i \in Rows(invitations) : invitations'[i] = invitations[i] /\ i <= made /\ i \in Nat
    BY <2>3, <2>4, <2>5 DEF Rows, Numbered, RowIds
  <2>7. UNCHANGED <<orgs, accounts, connections, repositories, opened>>
    BY DEF CommitInvite
  <2>8. \A c \in Rows(connections) : c \in Nat
    BY DEF Rows, RowIds
  <2>9. TablesTyped'
    BY <2>2, <2>3, <2>4, <2>6, <2>7
  <2>10. Numbered'
    BY <2>2, <2>3, <2>4, <2>6, <2>7, <2>8 DEF Numbered
  <2>11. Monotone
    BY <2>3, <2>6, <2>7 DEF Monotone, Rows, RowIds
  <2>12. QED
    BY <2>9, <2>10, <2>11 DEF Kept
<1>3. QED
  BY <1>1, <1>2 DEF CommitInvite

LEMMA CommitRevokeKeeps ==
    ASSUME Inv, NEW r \in Requests, CommitRevoke(r)
    PROVE  Kept
<1> USE DEF Inv, TablesTyped
<1>1. CASE Abort(r) /\ UNCHANGED invitations
  BY <1>1, AbortKeeps DEF CommitRevoke, tables
<1>2. CASE Succeed(r) /\ UNCHANGED invitations
  BY <1>2, NothingWritten DEF CommitRevoke, tables
<1>3. CASE /\ invitations[About(r)] # NoRow /\ Succeed(r)
           /\ invitations' = [invitations EXCEPT ![About(r)].status = "revoked"]
  <2> DEFINE id == About(r)
             new == [invitations[id] EXCEPT !.status = "revoked"]
  <2>1. id \in RowIds /\ invitations[id] \in Invitations
    BY <1>3, MovesFrom, AskShape DEF CommitRevoke, Committing, Kind, About
  <2>2. /\ new \in Invitations /\ new # NoRow
        /\ new.org = invitations[id].org /\ new.email = invitations[id].email
        /\ new.role = invitations[id].role /\ new.by = invitations[id].by
    BY <2>1, NoRowAssumption DEF Invitations, InvitationStatuses
  <2>3. invitations' = [invitations EXCEPT ![id] = new]
    BY <1>3
  <2>4. /\ invitations' \in [RowIds -> Invitations \cup {NoRow}]
        /\ Rows(invitations') = Rows(invitations)
        /\ \A i \in Rows(invitations) :
              /\ invitations'[i].org = invitations[i].org
              /\ invitations'[i].by = invitations[i].by
              /\ invitations'[i].email = invitations[i].email
              /\ invitations'[i].role = invitations[i].role
    BY <1>3, <2>1, <2>2, <2>3 DEF Rows
  <2>5. UNCHANGED <<orgs, accounts, connections, repositories, opened, made>>
    BY DEF CommitRevoke
  <2>6. TablesTyped'
    BY <2>4, <2>5
  <2>7. Numbered'
    BY <2>4, <2>5 DEF Numbered
  <2>8. Monotone
    BY <2>4, <2>5 DEF Monotone, Rows
  <2>9. QED
    BY <2>6, <2>7, <2>8 DEF Kept
<1>4. QED
  BY <1>1, <1>2, <1>3 DEF CommitRevoke

LEMMA CommitRoleKeeps ==
    ASSUME Inv, NEW r \in Requests, CommitRole(r)
    PROVE  Kept
<1> USE DEF Inv, TablesTyped
<1>1. CASE Abort(r) /\ UNCHANGED accounts
  BY <1>1, AbortKeeps DEF CommitRole, tables
<1>2. CASE Succeed(r) /\ UNCHANGED accounts
  BY <1>2, NothingWritten DEF CommitRole, tables
<1>3. CASE /\ accounts[About(r)] # NoRow /\ Succeed(r)
           /\ accounts' = [accounts EXCEPT ![About(r)].role = With(r)]
  <2> DEFINE id == About(r)
             new == [accounts[id] EXCEPT !.role = With(r)]
  <2>1. id \in AccountIds /\ accounts[id] \in Accounts /\ With(r) \in Roles
    BY <1>3, MovesFrom, AskShape DEF CommitRole, Committing, Kind, About, With
  <2>2. /\ new \in Accounts /\ new # NoRow
        /\ new.org = accounts[id].org /\ new.id = accounts[id].id
    BY <2>1, NoRowAssumption DEF Accounts
  <2>3. accounts' = [accounts EXCEPT ![id] = new]
    BY <1>3
  <2>4. /\ accounts' \in [AccountIds -> Accounts \cup {NoRow}]
        /\ Rows(accounts') = Rows(accounts)
        /\ \A a \in Rows(accounts) :
              accounts'[a].org = accounts[a].org /\ accounts'[a].id = accounts[a].id
    BY <1>3, <2>1, <2>2, <2>3 DEF Rows
  <2>5. UNCHANGED <<orgs, invitations, connections, repositories, opened, made>>
    BY DEF CommitRole
  <2>6. TablesTyped'
    BY <2>4, <2>5
  <2>7. Numbered'
    BY <2>4, <2>5 DEF Numbered
  <2>8. Monotone
    BY <2>4, <2>5 DEF Monotone, Rows
  <2>9. QED
    BY <2>6, <2>7, <2>8 DEF Kept
<1>4. QED
  BY <1>1, <1>2, <1>3 DEF CommitRole

LEMMA CommitRemoveKeeps ==
    ASSUME Inv, NEW r \in Requests, CommitRemove(r)
    PROVE  Kept
<1> USE DEF Inv, TablesTyped
<1>1. /\ accounts' \in [AccountIds -> Accounts \cup {NoRow}]
      /\ Rows(accounts') = Rows(accounts) \ {About(r)}
      /\ \A a \in Rows(accounts') : accounts'[a] = accounts[a]
  BY DEF CommitRemove, Rows
<1>2. /\ invitations' \in [RowIds -> Invitations \cup {NoRow}]
      /\ Rows(invitations') = {i \in Rows(invitations) : invitations[i].by # About(r)}
      /\ \A i \in Rows(invitations') : invitations'[i] = invitations[i]
  BY DEF CommitRemove, Rows
<1>3. UNCHANGED <<orgs, connections, repositories, opened, made>>
  BY DEF CommitRemove
<1>4. TablesTyped'
  BY <1>1, <1>2, <1>3
<1>5. Numbered'
  BY <1>1, <1>2, <1>3 DEF Numbered
<1>6. Monotone
  BY <1>1, <1>2, <1>3 DEF Monotone, Rows
<1>7. QED
  BY <1>4, <1>5, <1>6 DEF Kept

(* Connections and repositories are nobody's author and nobody's member.   *)
LEMMA OtherTablesKeep ==
    ASSUME Inv, UNCHANGED <<orgs, accounts, invitations, opened>>,
           connections' \in [RowIds -> Connections \cup {NoRow}],
           repositories' \in [RowIds -> Repositories \cup {NoRow}],
           made \leq made', made' \in 0..MaxRows,
           \A c \in Rows(connections') : c \leq made'
    PROVE  Kept
<1> USE DEF Inv, TablesTyped
<1>1. TablesTyped'
  OBVIOUS
<1>2. \A i \in Rows(invitations) : i \leq made'
  BY DEF Numbered, Rows, RowIds
<1>3. Numbered'
  BY <1>2 DEF Numbered
<1>4. Monotone
  BY DEF Monotone
<1>5. QED
  BY <1>1, <1>3, <1>4 DEF Kept

LEMMA CommitConnectKeeps ==
    ASSUME Inv, NEW r \in Requests, CommitConnect(r)
    PROVE  Kept
<1>1. CASE Abort(r) /\ UNCHANGED <<connections, made>>
  BY <1>1, AbortKeeps DEF CommitConnect, tables
<1>2. CASE ~(\E c \in ConnectionsOf(Org(r)) : connections[c].name = About(r))
  <2> DEFINE new == Created(Org(r), About(r), With(r))
  <2>1. /\ Org(r) \in Organizations /\ About(r) \in Names /\ With(r) \in Servers
    BY CommittingFacts, AskShape
       DEF CommitConnect, Committing, Kind, About, With, Signing, Signed
  <2>2. new \in Connections
    BY <2>1 DEF Created, Connections
  <2>3. made + 1 \in RowIds /\ made \in Nat /\ made' = made + 1 /\ made' \in 0..MaxRows
    BY <1>2, WorkspaceAssumption DEF CommitConnect, RowIds, Inv, TablesTyped
  <2>4. connections' = [connections EXCEPT ![made + 1] = new]
    BY <1>2 DEF CommitConnect
  <2>5. /\ connections' \in [RowIds -> Connections \cup {NoRow}]
        /\ \A c \in Rows(connections') : c \leq made'
    BY <2>2, <2>3, <2>4 DEF Rows, Inv, TablesTyped, Numbered, RowIds
  <2>6. QED
    BY <2>3, <2>5, OtherTablesKeep DEF CommitConnect, Inv, TablesTyped
<1>3. QED
  BY <1>1, <1>2 DEF CommitConnect

(* A refresh is of a catalogue that some server listed, and an edit is of  *)
(* the server or of the switch.                                            *)
LEMMA ChangedConnections ==
    ASSUME NEW x \in Connections
    PROVE  /\ \A l \in Listings : Refreshed(x, l) \in Connections
           /\ \A l : Refreshed(x, l).url = x.url /\ Refreshed(x, l).enabled = x.enabled
           /\ \A v \in Servers : Edited(x, "url", v) \in Connections
           /\ \A v \in BOOLEAN : Edited(x, "enabled", v) \in Connections
<1>1. \A l \in Listings : Refreshed(x, l) \in Connections
  BY DEF Refreshed, Listings, Connections
<1>2. \A l : Refreshed(x, l).url = x.url /\ Refreshed(x, l).enabled = x.enabled
  BY DEF Refreshed, Connections
<1>3. \A v \in Servers : Edited(x, "url", v) \in Connections
  BY DEF Edited, Connections
<1>4. \A v \in BOOLEAN : Edited(x, "enabled", v) \in Connections
  BY DEF Edited, Connections
<1>5. QED
  BY <1>1, <1>2, <1>3, <1>4

LEMMA CommitEditKeeps ==
    ASSUME Inv, NEW r \in Requests, CommitEdit(r) \/ CommitRefresh(r)
    PROVE  Kept
<1> DEFINE id == About(r)
<1>1. id \in RowIds /\ reqs[r].listed \in Listings
      /\ (Kind(r) = "edit" => With(r) \in Servers \cup Switch)
  BY MovesFrom, AskShape
     DEF CommitEdit, CommitRefresh, Committing, Kind, About, With, Reqs, Listings
<1>2. CASE Abort(r) /\ UNCHANGED connections
  BY <1>2, AbortKeeps DEF CommitEdit, CommitRefresh, tables
<1>3. CASE connections[id] # NoRow
  <2>1. connections[id] \in Connections /\ id \in Rows(connections)
    BY <1>1, <1>3 DEF Inv, TablesTyped, Rows
  <2>2. \E new \in Connections : connections' = [connections EXCEPT ![id] = new]
    <3>1. CASE CommitRefresh(r)
      <4>1. connections' = [connections EXCEPT ![id] =
                IF Refreshed(Read(r), reqs[r].listed) = Read(r) THEN connections[id]
                ELSE Refreshed(connections[id], reqs[r].listed)]
        BY <1>3, <3>1 DEF CommitRefresh
      <4>2. QED
        BY <1>1, <2>1, <4>1, ChangedConnections
    <3>2. CASE CommitEdit(r)
      <4>1. connections' = [connections EXCEPT ![id] =
                IF Read(r)[Field(r)] = Value(r) THEN connections[id]
                ELSE Edited(connections[id], Field(r), Value(r))]
        BY <1>3, <3>2 DEF CommitEdit
      <4>2. Edited(connections[id], Field(r), Value(r)) \in Connections
        <5>1. With(r) \in Servers \cup Switch
          BY <1>1, <3>2 DEF CommitEdit, Committing
        <5>2. CASE With(r) \in Switch
          BY <2>1, <5>2, ChangedConnections DEF Field, Value
        <5>3. CASE With(r) \notin Switch
          BY <2>1, <5>1, <5>3, ChangedConnections DEF Field, Value
        <5>4. QED
          BY <5>2, <5>3
      <4>3. QED
        BY <2>1, <4>1, <4>2
    <3>3. QED
      BY <3>1, <3>2
  <2>3. /\ connections' \in [RowIds -> Connections \cup {NoRow}]
        /\ Rows(connections') = Rows(connections)
    BY <1>1, <2>1, <2>2, NoRowAssumption DEF Rows, Inv, TablesTyped
  <2>4. UNCHANGED <<orgs, accounts, invitations, repositories, opened, made>>
    BY DEF CommitEdit, CommitRefresh
  <2>5. made \in Nat /\ made \in 0..MaxRows /\ \A c \in Rows(connections') : c \leq made'
    BY <2>3, <2>4 DEF Inv, Numbered, TablesTyped
  <2>6. QED
    BY <2>3, <2>4, <2>5, OtherTablesKeep DEF Inv, TablesTyped
<1>4. QED
  BY <1>2, <1>3 DEF CommitEdit, CommitRefresh

LEMMA CommitDisconnectKeeps ==
    ASSUME Inv, NEW r \in Requests, CommitDisconnect(r)
    PROVE  Kept
<1>1. /\ connections' \in [RowIds -> Connections \cup {NoRow}]
      /\ Rows(connections') \subseteq Rows(connections)
  BY DEF CommitDisconnect, Rows, Inv, TablesTyped
<1>2. UNCHANGED <<orgs, accounts, invitations, repositories, opened, made>>
  BY DEF CommitDisconnect
<1>3. made \in Nat /\ made \in 0..MaxRows /\ \A c \in Rows(connections') : c \leq made'
  BY <1>1, <1>2 DEF Inv, Numbered, TablesTyped
<1>4. QED
  BY <1>1, <1>2, <1>3, OtherTablesKeep DEF Inv, TablesTyped

LEMMA CommitRegisterKeeps ==
    ASSUME Inv, NEW r \in Requests, CommitRegister(r)
    PROVE  Kept
<1>1. CASE Abort(r) /\ UNCHANGED <<repositories, made>>
  BY <1>1, AbortKeeps DEF CommitRegister, tables
<1>2. CASE ~(\E x \in RepositoriesOf(Org(r)) : repositories[x].name = About(r))
  <2>1. Org(r) \in Organizations /\ About(r) \in Names
    BY CommittingFacts, AskShape
       DEF CommitRegister, Committing, Kind, About, Signing, Signed
  <2>2. [org |-> Org(r), name |-> About(r)] \in Repositories
    BY <2>1 DEF Repositories
  <2>3. made + 1 \in RowIds /\ made \in Nat /\ made' = made + 1 /\ made' \in 0..MaxRows
    BY <1>2, WorkspaceAssumption DEF CommitRegister, RowIds, Inv, TablesTyped
  <2>4. repositories' \in [RowIds -> Repositories \cup {NoRow}]
    BY <1>2, <2>2 DEF CommitRegister, Inv, TablesTyped
  <2>5. \A c \in Rows(connections') : c \leq made'
    BY <2>3 DEF CommitRegister, Inv, TablesTyped, Numbered, Rows, RowIds
  <2>6. QED
    BY <2>3, <2>4, <2>5, OtherTablesKeep DEF CommitRegister, Inv, TablesTyped
<1>3. QED
  BY <1>1, <1>2 DEF CommitRegister

LEMMA CommitUnregisterKeeps ==
    ASSUME Inv, NEW r \in Requests, CommitUnregister(r)
    PROVE  Kept
<1>1. repositories' \in [RowIds -> Repositories \cup {NoRow}]
  BY DEF CommitUnregister, Inv, TablesTyped
<1>2. UNCHANGED <<orgs, accounts, invitations, connections, opened, made>>
  BY DEF CommitUnregister
<1>3. made \in Nat /\ made \in 0..MaxRows /\ \A c \in Rows(connections') : c \leq made'
  BY <1>2 DEF Inv, Numbered, TablesTyped
<1>4. QED
  BY <1>1, <1>2, <1>3, OtherTablesKeep DEF Inv, TablesTyped

LEMMA ExpireKeeps ==
    ASSUME Inv, NEW i \in RowIds, Expire(i)
    PROVE  Kept
<1> USE DEF Inv, TablesTyped
<1> DEFINE new == [invitations[i] EXCEPT !.old = TRUE]
<1>1. invitations[i] \in Invitations /\ invitations' = [invitations EXCEPT ![i] = new]
  BY DEF Expire
<1>2. /\ new \in Invitations /\ new # NoRow
      /\ new.org = invitations[i].org /\ new.email = invitations[i].email
      /\ new.role = invitations[i].role /\ new.by = invitations[i].by
  BY <1>1, NoRowAssumption DEF Invitations
<1>3. /\ invitations' \in [RowIds -> Invitations \cup {NoRow}]
      /\ Rows(invitations') = Rows(invitations)
      /\ \A j \in Rows(invitations) :
            /\ invitations'[j].org = invitations[j].org
            /\ invitations'[j].by = invitations[j].by
            /\ invitations'[j].email = invitations[j].email
            /\ invitations'[j].role = invitations[j].role
  BY <1>1, <1>2 DEF Rows, Expire
<1>4. UNCHANGED <<orgs, accounts, connections, repositories, opened, made>>
  BY DEF Expire
<1>5. TablesTyped'
  BY <1>3, <1>4
<1>6. Numbered'
  BY <1>3, <1>4 DEF Numbered
<1>7. Monotone
  BY <1>3, <1>4 DEF Monotone, Rows
<1>8. QED
  BY <1>5, <1>6, <1>7 DEF Kept

-----------------------------------------------------------------------------
(* The invariant holds initially and every step keeps it.                  *)

LEMMA InitInv == Init => Inv
<1> SUFFICES ASSUME Init PROVE Inv
  OBVIOUS
<1> USE WorkspaceAssumption
<1>1. PICK roles \in {f \in [1..Len(Team) -> Roles] : f[1] = "owner"} :
         accounts = [a \in AccountIds |->
                        IF a \in DOMAIN Team THEN Account(a, Team[a], Home, roles[a]) ELSE NoRow]
  BY DEF Init
<1>2. PICK invited \in SUBSET People, role \in Roles :
         invitations = [i \in RowIds |->
             IF i = 1 /\ invited # {} THEN Issued(Home, CHOOSE p \in invited : TRUE, role, 1)
             ELSE NoRow]
  BY DEF Init
<1>3. PICK n \in Names, s \in Servers :
         connections = [c \in RowIds |-> IF c = 2 THEN Created(Home, n, s) ELSE NoRow]
  BY DEF Init
<1>4. /\ DOMAIN Team = 1..Len(Team) /\ DOMAIN Team \subseteq AccountIds /\ 1 \in DOMAIN Team
      /\ \A a \in DOMAIN Team : Team[a] \in People /\ roles[a] \in Roles
  BY DEF AccountIds
<1>5. /\ accounts \in [AccountIds -> Accounts \cup {NoRow}]
      /\ Rows(accounts) = DOMAIN Team
      /\ \A a \in Rows(accounts) : accounts[a].id = a /\ accounts[a].org = Home
  <2>1. \A a \in DOMAIN Team : /\ accounts[a] = Account(a, Team[a], Home, roles[a])
                               /\ accounts[a] \in Accounts
                               /\ accounts[a].id = a /\ accounts[a].org = Home
    BY <1>1, <1>4 DEF Account, Accounts
  <2>2. \A a \in AccountIds \ DOMAIN Team : accounts[a] = NoRow
    BY <1>1
  <2>3. accounts = [a \in AccountIds |-> accounts[a]]
    BY <1>1
  <2>4. accounts \in [AccountIds -> Accounts \cup {NoRow}]
    <3>1. \A a \in AccountIds : accounts[a] \in Accounts \cup {NoRow}
      BY <2>1, <2>2
    <3>2. QED
      BY <2>3, <3>1
  <2>5. QED
    BY <1>4, <2>1, <2>2, <2>4, NoRowAssumption DEF Rows
<1>6. /\ invitations \in [RowIds -> Invitations \cup {NoRow}]
      /\ Rows(invitations) \subseteq {1}
      /\ \A i \in Rows(invitations) : invitations[i].org = Home /\ invitations[i].by = 1
  <2>1. CASE invited = {}
    <3>1. invitations = [i \in RowIds |-> NoRow]
      BY <1>2, <2>1
    <3>2. QED
      BY <3>1 DEF Rows
  <2>2. CASE invited # {}
    <3> DEFINE p == CHOOSE x \in invited : TRUE
               new == Issued(Home, p, role, 1)
    <3>1. p \in People
      BY <2>2
    <3>2. 1 \in AccountIds /\ role \in Roles /\ Home \in Organizations
      BY <1>4
    <3> HIDE DEF p
    <3>3. new \in Invitations /\ new.org = Home /\ new.by = 1
      BY <3>1, <3>2 DEF Issued, Invitations, InvitationStatuses
    <3>4. invitations = [i \in RowIds |-> IF i = 1 THEN new ELSE NoRow]
      BY <1>2, <2>2 DEF p
    <3> HIDE DEF new
    <3>5. QED
      BY <3>3, <3>4 DEF Rows
  <2>3. QED
    BY <2>1, <2>2
<1>7. /\ connections \in [RowIds -> Connections \cup {NoRow}]
      /\ \A c \in Rows(connections) : c = 2
  <2>1. Created(Home, n, s) \in Connections
    BY DEF Created, Connections
  <2>2. QED
    BY <1>3, <2>1 DEF Rows
<1>8. repositories \in [RowIds -> Repositories \cup {NoRow}]
  BY DEF Init
<1>9. /\ orgs = {Home} /\ opened = Len(Team) /\ made = 2
      /\ opened \in 0..MaxAccounts /\ made \in 0..MaxRows
  BY DEF Init
<1>10. TablesTyped
  BY <1>4, <1>5, <1>6, <1>7, <1>8, <1>9 DEF TablesTyped
<1>11. Numbered
  BY <1>4, <1>5, <1>6, <1>7, <1>9 DEF Numbered
<1>12. Unsent \in Reqs
  <2>1. NoAsk \in Asks
    BY DEF NoAsk, Asks
  <2>2. QED
    BY <2>1 DEF Unsent, Reqs, Steps
<1>13. Sound(Unsent)
  BY DEF Unsent, Sound
<1>14. QED
  BY <1>10, <1>11, <1>12, <1>13 DEF Inv, RequestsTyped, Init

(* One request becomes something sound and the tables stay in order.       *)
LEMMA StepKeeps ==
    ASSUME Inv, NEW r \in Requests, NEW c, Becomes(r, c), Kept
    PROVE  Inv'
<1>1. TablesTyped /\ TablesTyped' /\ Monotone /\ Numbered'
  BY DEF Inv, Kept
<1>2. /\ DOMAIN reqs' = Requests
      /\ \A s \in Requests : reqs'[s] \in Reqs /\ Sound(reqs'[s])
  BY DEF Becomes, Proceed, Inv, RequestsTyped
<1>3. \A q \in Reqs : Sound(q) => Sound(q)'
  BY <1>1, SoundStays
<1>4. \A s \in Requests : Sound(reqs[s])'
  <2>1. ASSUME NEW q \in Reqs, Sound(q), NEW s \in Requests, q = reqs'[s]
        PROVE  Sound(reqs[s])'
    <3>1. Sound(q)'
      BY <2>1, <1>3
    <3>2. QED
      BY <2>1, <3>1 DEF Sound, Signing, Owning, StillOf, StillInvites
  <2>2. QED
    BY <1>2, <2>1
<1>5. QED
  BY <1>1, <1>2, <1>4 DEF Inv, RequestsTyped

(* Steps that write no table.                                              *)
LEMMA ReadsKeep ==
    ASSUME Inv, NEW r \in Requests,
           \/ \E p \in People, ask \in Asks : Send(r, p, ask)
           \/ SignIn(r) \/ SaveSeen(r) \/ UseCase(r)
    PROVE  Kept /\ \E c : Becomes(r, c)
<1>1. \E c : Becomes(r, c)
  BY SendStep, SigningStep, ReadingStep, ReadRoleStep, ReadConnectionStep, ProbeStep, JoinStep,
     LoadModelsStep DEF UseCase
<1>2. UNCHANGED tables
  BY DEF UseCase, Send, SignIn, SaveSeen, ReadActor, ReadInvite, ReadRevoke, ReadRole,
         ReadConnection, ReadNames, Probe, Join, LoadModels, ReadRepository, OnlyReads, Refuse
<1>3. Kept
  BY <1>2, NothingWritten DEF Inv, TablesTyped
<1>4. QED
  BY <1>1, <1>3

LEMMA CommitsKeep ==
    ASSUME Inv, NEW r \in Requests, Commit(r)
    PROVE  Kept /\ \E c : Becomes(r, c)
<1>1. Kept
  BY CommitCreateKeeps, CommitAcceptKeeps, CommitInviteKeeps, CommitRevokeKeeps, CommitRoleKeeps,
     CommitRemoveKeeps, CommitConnectKeeps, CommitEditKeeps, CommitDisconnectKeeps,
     CommitRegisterKeeps, CommitUnregisterKeeps DEF Commit
<1>2. Step(r) = "committing"
  BY DEF Commit, CommitCreate, CommitAccept, CommitInvite, CommitRevoke, CommitRole, CommitRemove,
         CommitConnect, CommitEdit, CommitRefresh, CommitDisconnect, CommitRegister,
         CommitUnregister, Committing
<1>3. Abort(r) \/ Succeed(r)
  BY DEF Commit, CommitCreate, CommitAccept, CommitInvite, CommitRevoke, CommitRole, CommitRemove,
         CommitConnect, CommitEdit, CommitRefresh, CommitDisconnect, CommitRegister,
         CommitUnregister
<1>4. \E c : Becomes(r, c)
  BY <1>2, <1>3, Ending DEF Abort, Succeed, Endings
<1>5. QED
  BY <1>1, <1>4

LEMMA InvStep == Inv /\ [Next]_vars => Inv'
<1> SUFFICES ASSUME Inv, [Next]_vars PROVE Inv'
  OBVIOUS
<1>1. ASSUME NEW r \in Requests,
             \/ \E p \in People, ask \in Asks : Send(r, p, ask)
             \/ SignIn(r) \/ SaveSeen(r) \/ UseCase(r) \/ Commit(r)
      PROVE  Inv'
  BY <1>1, ReadsKeep, CommitsKeep, StepKeeps
<1>2. ASSUME UNCHANGED reqs, Kept
      PROVE  Inv'
  <2>1. ASSUME NEW r \in Requests
        PROVE  Sound(reqs[r])'
    <3>1. ASSUME NEW q \in Reqs, Sound(q), q = reqs'[r]
          PROVE  Sound(reqs[r])'
      <4>1. Sound(q)'
        BY <1>2, <3>1, SoundStays DEF Inv, Kept
      <4>2. QED
        BY <3>1, <4>1 DEF Sound, Signing, Owning, StillOf, StillInvites
    <3>2. QED
      BY <1>2, <3>1 DEF Inv, RequestsTyped
  <2>2. QED
    BY <1>2, <2>1 DEF Inv, Kept, RequestsTyped
<1>3. ASSUME NEW i \in RowIds, Expire(i)
      PROVE  Inv'
  BY <1>2, <1>3, ExpireKeeps DEF Expire
<1>4. CASE UNCHANGED vars
  BY <1>2, <1>4, NothingWritten DEF vars, Inv, TablesTyped
<1>5. QED
  BY <1>1, <1>3, <1>4 DEF Next

(* A request keeps its shape and the tables their rows, whatever the       *)
(* organization, the people and the requests (the state of Workspace).     *)
THEOREM AlwaysSound == Spec => []Inv
<1>1. QED
  BY InitInv, InvStep, PTL DEF Spec

(* Rows and requests have their columns, an id names its account, and a    *)
(* pending or accepted invitation still has the account that wrote it:     *)
(* the cascades of the database are those of CommitRemove.                 *)
THEOREM TypesKept == Spec => []TypeOK
<1>1. Inv => TypeOK
  BY DEF Inv, TablesTyped, RequestsTyped, TypeOK
<1>2. QED
  BY <1>1, AlwaysSound, PTL

-----------------------------------------------------------------------------
(* What a step may change of the tables, and whose step it is.             *)

LEMMA WhoCommits ==
    ASSUME NEW r \in Requests, Inv, Commit(r), ~Abort(r)
    PROVE  /\ Step(r) = "committing" /\ reqs'[r].step = "done"
           /\ reqs'[r].ended = "committed"
           /\ reqs'[r].ask = reqs[r].ask /\ reqs'[r].actor = reqs[r].actor
<1>1. Step(r) = "committing" /\ reqs[r] \in Reqs
  BY MovesFrom DEF Commit, CommitCreate, CommitAccept, CommitInvite, CommitRevoke, CommitRole,
         CommitRemove, CommitConnect, CommitEdit, CommitRefresh, CommitDisconnect, CommitRegister,
         CommitUnregister, Committing
<1>2. Succeed(r)
  BY DEF Commit, CommitCreate, CommitAccept, CommitInvite, CommitRevoke, CommitRole, CommitRemove,
         CommitConnect, CommitEdit, CommitRefresh, CommitDisconnect, CommitRegister,
         CommitUnregister
<1>3. QED
  BY <1>1, <1>2 DEF Succeed, End, Proceed, Reqs, Inv, RequestsTyped

(* Every step but a commit leaves accounts, connections and organizations. *)
LEMMA OnlyCommitsWrite ==
    ASSUME [Next]_vars, UNCHANGED <<orgs, accounts, connections>> => FALSE
    PROVE  \E r \in Requests : Commit(r)
  BY DEF Next, vars, tables, UseCase, Send, SignIn, SaveSeen, ReadActor, ReadInvite, ReadRevoke,
         ReadRole, ReadConnection, ReadNames, Probe, Join, LoadModels, ReadRepository, OnlyReads,
         Refuse, Expire

LEMMA ServersChange ==
    ASSUME Inv, [Next]_vars, NEW c \in RowIds, connections[c] # NoRow, connections'[c] # NoRow,
           \/ connections'[c].enabled # connections[c].enabled
           \/ connections'[c].url # connections[c].url
    PROVE  \E r \in Requests : CommitEdit(r) /\ ~Abort(r) /\ About(r) = c
<1>1. PICK r \in Requests : Commit(r)
  BY OnlyCommitsWrite
<1>2. connections[c] \in Connections /\ c \leq made /\ c \in Nat /\ made \in Nat
      /\ connections \in [RowIds -> Connections \cup {NoRow}]
  BY DEF Inv, TablesTyped, Numbered, Rows, RowIds
<1>3. CASE CommitConnect(r)
  <2>1. connections' = connections \/ connections' = [connections EXCEPT ![made + 1] =
                                                         Created(Org(r), About(r), With(r))]
    BY <1>3 DEF CommitConnect
  <2>2. connections'[c] = connections[c]
    BY <1>2, <2>1
  <2>3. QED
    BY <2>2
<1>4. CASE CommitRefresh(r)
  <2>1. connections' = connections \/ connections' = [connections EXCEPT ![About(r)] =
            IF Refreshed(Read(r), reqs[r].listed) = Read(r) THEN @
            ELSE Refreshed(@, reqs[r].listed)]
    BY <1>4 DEF CommitRefresh
  <2>2. \/ connections'[c] = connections[c]
        \/ connections'[c] = Refreshed(connections[c], reqs[r].listed)
    BY <1>2, <2>1
  <2>3. QED
    BY <1>2, <2>2, ChangedConnections
<1>5. CASE CommitDisconnect(r)
  BY <1>2, <1>5 DEF CommitDisconnect
<1>6. CASE CommitEdit(r)
  <2>1. ~Abort(r) /\ connections' # connections
        /\ connections' = [connections EXCEPT ![About(r)] = connections'[About(r)]]
    <3>1. connections' # connections
      OBVIOUS
    <3>2. connections' = [connections EXCEPT ![About(r)] =
              IF Read(r)[Field(r)] = Value(r) THEN @ ELSE Edited(@, Field(r), Value(r))]
      BY <1>6, <3>1 DEF CommitEdit
    <3>3. Succeed(r) /\ reqs[r] \in Reqs
      BY <1>6, <3>1, MovesFrom DEF CommitEdit, Committing
    <3>4. ~Abort(r)
      <4>1. reqs'[r].ended = "committed"
        BY <3>3 DEF Succeed, End, Proceed, Inv, RequestsTyped, Reqs
      <4>2. ASSUME Abort(r) PROVE FALSE
        <5>1. reqs'[r].ended = "failed"
          BY <3>3, <4>2 DEF Abort, End, Proceed, Inv, RequestsTyped, Reqs
        <5>2. QED
          BY <4>1, <5>1
      <4>3. QED
        BY <4>2
    <3>5. QED
      BY <1>2, <3>1, <3>2, <3>4
  <2>2. About(r) = c
    BY <1>2, <2>1
  <2>3. QED
    BY <1>6, <2>1, <2>2
<1>7. CASE UNCHANGED connections
  BY <1>7
<1>8. QED
  BY <1>1, <1>3, <1>4, <1>5, <1>6, <1>7
     DEF Commit, CommitCreate, CommitAccept, CommitInvite, CommitRevoke, CommitRole, CommitRemove,
         CommitRegister, CommitUnregister

(* A refresh of the catalogue that read the connection before it asked the *)
(* server undoes no edit: only the commit of an edit of this connection    *)
(* changes its server or its switch (RefreshProviderConnection).           *)
THEOREM RefreshesKeepEdits == Spec => EditsSurviveRefresh
<1> DEFINE Untouched ==
        \A c \in RowIds :
          (/\ connections[c] # NoRow /\ connections'[c] # NoRow
           /\ \/ connections'[c].enabled # connections[c].enabled
              \/ connections'[c].url # connections[c].url) =>
                   \E r \in Requests : /\ Kind(r) = "edit" /\ About(r) = c
                                       /\ Step(r) = "committing" /\ reqs'[r].step = "done"
<1>1. Inv /\ [Next]_vars => Untouched
  <2> SUFFICES ASSUME Inv, [Next]_vars, NEW c \in RowIds,
                      connections[c] # NoRow, connections'[c] # NoRow,
                      \/ connections'[c].enabled # connections[c].enabled
                      \/ connections'[c].url # connections[c].url
               PROVE  \E r \in Requests : /\ Kind(r) = "edit" /\ About(r) = c
                                          /\ Step(r) = "committing" /\ reqs'[r].step = "done"
    OBVIOUS
  <2>1. PICK r \in Requests : CommitEdit(r) /\ ~Abort(r) /\ About(r) = c
    BY ServersChange
  <2>2. QED
    BY <2>1, WhoCommits DEF Commit, CommitEdit, Committing
<1>2. Inv /\ [Next]_vars => [Untouched]_vars
  BY <1>1
<1>3. QED
  BY <1>2, AlwaysSound, PTL DEF Spec, EditsSurviveRefresh

(* Accounts are opened, given another role, or removed.                    *)
LEMMA AccountsChange ==
    ASSUME Inv, [Next]_vars, NEW a \in AccountIds, accounts'[a] # accounts[a]
    PROVE  \E r \in Requests :
              /\ Commit(r) /\ ~Abort(r)
              /\ \/ /\ CommitCreate(r) /\ a = opened + 1 /\ About(r) \notin orgs
                    /\ accounts'[a] = Account(a, reqs[r].who, About(r), "owner")
                 \/ /\ CommitAccept(r) /\ a = opened + 1
                    /\ invitations[About(r)] # NoRow
                    /\ accounts'[a] = Account(a, reqs[r].who, Read(r).org, Read(r).role)
                    /\ invitations' = [invitations EXCEPT ![About(r)].status = "accepted"]
                 \/ /\ CommitRole(r) /\ About(r) = a /\ accounts[a] # NoRow
                    /\ accounts'[a] = [accounts[a] EXCEPT !.role = With(r)]
                 \/ CommitRemove(r) /\ About(r) = a /\ accounts'[a] = NoRow
<1>1. PICK r \in Requests : Commit(r)
  BY OnlyCommitsWrite
<1>2. accounts \in [AccountIds -> Accounts \cup {NoRow}]
  BY DEF Inv, TablesTyped
<1>3. ASSUME Succeed(r), Abort(r)
      PROVE  FALSE
  <2>1. reqs[r] \in Reqs /\ DOMAIN reqs = Requests
    BY DEF Inv, RequestsTyped
  <2>2. reqs'[r].ended = "committed"
    BY <1>3, <2>1 DEF Succeed, End, Proceed, Reqs
  <2>3. reqs'[r].ended = "failed"
    BY <1>3, <2>1 DEF Abort, End, Proceed, Reqs
  <2>4. QED
    BY <2>2, <2>3
<1>4. CASE CommitCreate(r)
  <2>1. /\ ~(About(r) \in orgs \/ AccountsOf(reqs[r].who) # {})
        /\ accounts' = [accounts EXCEPT ![opened + 1] =
                           Account(opened + 1, reqs[r].who, About(r), "owner")]
        /\ Succeed(r)
    BY <1>4 DEF CommitCreate
  <2>2. a = opened + 1
    BY <1>2, <2>1
  <2>3. QED
    BY <1>1, <1>2, <1>3, <1>4, <2>1, <2>2
<1>5. CASE CommitAccept(r)
  <2>1. /\ invitations[About(r)] # NoRow
        /\ accounts' = [accounts EXCEPT ![opened + 1] =
                           Account(opened + 1, reqs[r].who, Read(r).org, Read(r).role)]
        /\ invitations' = [invitations EXCEPT ![About(r)].status = "accepted"]
        /\ Succeed(r)
    BY <1>5 DEF CommitAccept
  <2>2. a = opened + 1
    BY <1>2, <2>1
  <2>3. QED
    BY <1>1, <1>2, <1>3, <1>5, <2>1, <2>2
<1>6. CASE CommitRole(r)
  <2>1. /\ accounts[About(r)] # NoRow
        /\ accounts' = [accounts EXCEPT ![About(r)].role = With(r)]
        /\ Succeed(r)
    BY <1>6 DEF CommitRole
  <2>2. About(r) = a
    BY <1>2, <2>1
  <2>3. QED
    BY <1>1, <1>2, <1>3, <1>6, <2>1, <2>2
<1>7. CASE CommitRemove(r)
  <2>1. accounts' = [accounts EXCEPT ![About(r)] = NoRow] /\ Succeed(r)
    BY <1>7 DEF CommitRemove
  <2>2. About(r) = a
    BY <1>2, <2>1
  <2>3. QED
    BY <1>1, <1>2, <1>3, <1>7, <2>1, <2>2
<1>8. QED
  BY <1>1, <1>4, <1>5, <1>6, <1>7
     DEF Commit, CommitInvite, CommitRevoke, CommitConnect, CommitEdit, CommitRefresh,
         CommitDisconnect, CommitRegister, CommitUnregister

(* Whoever joins an organization that is there does so by an accept of its *)
(* own, of an invitation to this address that was in force when it was     *)
(* read, is still there, and is used up by the same commit                 *)
(* (AcceptInvitation).                                                     *)
THEOREM NobodyJoinsUninvited == Spec => JoinsAreInvited
<1> DEFINE Invited(a) ==
        \/ accounts'[a].org \notin orgs /\ IsOwner(accounts'[a])
        \/ \E r \in Requests :
              /\ Committing(r, "accept") /\ reqs'[r].ended = "committed"
              /\ Email(r) = accounts'[a].who
              /\ Read(r).email = Email(r) /\ IsValid(Read(r))
              /\ Read(r).org = accounts'[a].org /\ Read(r).role = accounts'[a].role
              /\ invitations[About(r)] # NoRow
              /\ invitations'[About(r)].status = "accepted"
           Joins == \A a \in AccountIds : accounts[a] = NoRow /\ accounts'[a] # NoRow => Invited(a)
<1>1. Inv /\ [Next]_vars => Joins
  <2> SUFFICES ASSUME Inv, [Next]_vars, NEW a \in AccountIds,
                      accounts[a] = NoRow, accounts'[a] # NoRow
               PROVE  Invited(a)
    OBVIOUS
  <2>1. PICK r \in Requests :
           /\ ~Abort(r)
           /\ \/ /\ CommitCreate(r) /\ About(r) \notin orgs
                 /\ accounts'[a] = Account(a, reqs[r].who, About(r), "owner")
              \/ /\ CommitAccept(r) /\ invitations[About(r)] # NoRow
                 /\ accounts'[a] = Account(a, reqs[r].who, Read(r).org, Read(r).role)
                 /\ invitations' = [invitations EXCEPT ![About(r)].status = "accepted"]
    BY AccountsChange
  <2>2. CASE CommitCreate(r)
    <3>1. /\ About(r) \notin orgs
          /\ accounts'[a] = Account(a, reqs[r].who, About(r), "owner")
      BY <2>1, <2>2 DEF CommitCreate, CommitAccept, Committing
    <3>2. QED
      BY <3>1 DEF Account, IsOwner
  <2>3. CASE CommitAccept(r)
    <3>1. /\ invitations[About(r)] # NoRow
          /\ accounts'[a] = Account(a, reqs[r].who, Read(r).org, Read(r).role)
          /\ invitations' = [invitations EXCEPT ![About(r)].status = "accepted"]
      BY <2>1, <2>3 DEF CommitCreate, CommitAccept, Committing
    <3>2. /\ Read(r) \in Invitations /\ Read(r).email = reqs[r].who
          /\ IsValid(Read(r)) /\ About(r) \in RowIds
      BY <2>3, CommittingFacts DEF CommitAccept, Committing
    <3>3. invitations[About(r)] \in Invitations
          /\ invitations \in [RowIds -> Invitations \cup {NoRow}]
      BY <3>1, <3>2 DEF Inv, TablesTyped
    <3>4. invitations'[About(r)].status = "accepted"
      BY <3>1, <3>2, <3>3 DEF Invitations
    <3>5. /\ accounts'[a].who = reqs[r].who
          /\ accounts'[a].org = Read(r).org /\ accounts'[a].role = Read(r).role
      BY <3>1 DEF Account
    <3>6. Succeed(r) /\ Committing(r, "accept")
      BY <2>1, <2>3 DEF CommitAccept
    <3>7. reqs[r] \in Reqs /\ DOMAIN reqs = Requests
      BY DEF Inv, RequestsTyped
    <3>8. reqs'[r].ended = "committed"
      BY <3>6, <3>7 DEF Succeed, End, Proceed, Reqs
    <3>9. QED
      BY <3>1, <3>2, <3>4, <3>5, <3>6, <3>8 DEF Email
  <2>4. QED
    BY <2>1, <2>2, <2>3
<1>2. Inv /\ [Next]_vars => [Joins]_vars
  BY <1>1
<1>3. QED
  BY <1>2, AlwaysSound, PTL DEF Spec, JoinsAreInvited

(* A role changes only by the request of somebody who was an owner of the  *)
(* same organization when the request read it, and only to the role asked  *)
(* for (ChangeMemberRole); no other write of the row brings a role back.   *)
THEOREM OwnersChangeRoles == Spec => RolesChangeByOwners
<1> DEFINE Asked ==
        \A a \in AccountIds :
          accounts[a] # NoRow /\ accounts'[a] # NoRow /\ accounts'[a].role # accounts[a].role =>
             \E r \in Requests :
                /\ Step(r) = "committing" /\ reqs'[r].step = "done"
                /\ Kind(r) = "role" /\ About(r) = a
                /\ IsOwner(reqs[r].actor) /\ reqs[r].actor.org = accounts[a].org
                /\ accounts'[a].role = With(r)
<1>1. Inv /\ [Next]_vars => Asked
  <2> SUFFICES ASSUME Inv, [Next]_vars, NEW a \in AccountIds,
                      accounts[a] # NoRow, accounts'[a] # NoRow,
                      accounts'[a].role # accounts[a].role
               PROVE  \E r \in Requests :
                         /\ Step(r) = "committing" /\ reqs'[r].step = "done"
                         /\ Kind(r) = "role" /\ About(r) = a
                         /\ IsOwner(reqs[r].actor) /\ reqs[r].actor.org = accounts[a].org
                         /\ accounts'[a].role = With(r)
    OBVIOUS
  <2>1. accounts[a] \in Accounts /\ a \leq opened /\ a \in Nat /\ opened \in Nat
    BY DEF Inv, TablesTyped, Numbered, Rows, AccountIds
  <2>2. PICK r \in Requests :
           /\ Commit(r) /\ ~Abort(r) /\ CommitRole(r) /\ About(r) = a
           /\ accounts'[a] = [accounts[a] EXCEPT !.role = With(r)]
    BY <2>1, AccountsChange
  <2>3. Step(r) = "committing" /\ Kind(r) = "role" /\ reqs'[r].step = "done"
    BY <2>2, WhoCommits DEF CommitRole, Committing
  <2>4. /\ IsOwner(reqs[r].actor) /\ StillOf(a, Org(r)) /\ reqs[r].actor \in Accounts
        /\ Org(r) = reqs[r].actor.org
    BY <2>2, <2>3, CommittingFacts DEF Owning, OwnersOnly, Signed, Kind
  <2>5. accounts'[a].role = With(r)
    BY <2>1, <2>2 DEF Accounts
  <2>6. QED
    BY <2>2, <2>3, <2>4, <2>5 DEF StillOf
<1>2. Inv /\ [Next]_vars => [Asked]_vars
  BY <1>1
<1>3. QED
  BY <1>2, AlwaysSound, PTL DEF Spec, RolesChangeByOwners

-----------------------------------------------------------------------------
(* Owners.  An owner a request has read is an owner still, or another      *)
(* committed request has demoted or removed it since; who demotes itself   *)
(* has read such an owner besides itself.                                  *)

Owns(a, o) == accounts[a] # NoRow /\ accounts[a].org = o /\ IsOwner(accounts[a])

Demotes(r, o) ==
    /\ Kind(r) \in {"role", "remove"} /\ With(r) # "owner"
    /\ reqs[r].ended = "committed" /\ Org(r) = o
Demoted(a, o) == \E r \in Requests : Demotes(r, o) /\ About(r) = a

OwnedOrLost(a, o) == Owns(a, o) \/ Demoted(a, o)

Finished == \A r \in Requests : reqs[r].ended # "no" => Step(r) = "done"
ActorsOwned ==
    \A r \in Requests : reqs[r].actor # NoRow /\ IsOwner(reqs[r].actor) =>
                           OwnedOrLost(reqs[r].actor.id, reqs[r].actor.org)
OthersOwn ==
    \A r \in Requests :
       /\ Step(r) = "committing" /\ Kind(r) \in {"role", "remove"}
       /\ With(r) # "owner" /\ reqs[r].actor.id = About(r)
       => \E b \in AccountIds : b # About(r) /\ OwnedOrLost(b, reqs[r].actor.org)


(* How the part of a request that the invariant looks at changes.          *)
Moved(r) ==
    /\ Step(r) # "done"
    /\ reqs'[r].ended # "no" => reqs'[r].step = "done"
    /\ \/ reqs'[r].actor \in {reqs[r].actor, NoRow}
       \/ ReadActor(r) /\ reqs'[r].actor = accounts[reqs[r].member.id]
    /\ reqs'[r].step = "committing" /\ reqs'[r].ask.kind \in {"role", "remove"} =>
          /\ ReadRole(r) /\ ~Refuse(r)
          /\ reqs'[r].ask = reqs[r].ask /\ reqs'[r].actor = reqs[r].actor

LEMMA RequestsMove ==
    ASSUME Inv, Finished, [Next]_vars, NEW r \in Requests
    PROVE  reqs'[r] = reqs[r] \/ Moved(r)
<1> DEFINE q == reqs[r]
<1>1. DOMAIN reqs = Requests /\ q \in Reqs
  BY DEF Inv, RequestsTyped
<1>2. Step(r) # "done" => q.ended = "no"
  BY DEF Finished
<1>3. ASSUME Refuse(r) \/ (\E how \in Endings : End(r, how)) \/ Abort(r)
             \/ Succeed(r), Step(r) # "done"
      PROVE  Moved(r)
  <2>1. reqs'[r].step = "done" /\ reqs'[r].actor = q.actor
    BY <1>1, <1>3 DEF Refuse, End, Abort, Succeed, Proceed, Reqs
  <2>2. QED
    BY <1>3, <2>1 DEF Moved
<1>4. ASSUME NEW p \in People, NEW ask \in Asks, Send(r, p, ask)
      PROVE  Moved(r)
  <2>1. /\ reqs'[r].step \in {"signing", "joining"} /\ reqs'[r].actor = NoRow
        /\ reqs'[r].ended = "no"
    BY <1>1, <1>4 DEF Send, Proceed, Unsent
  <2>2. QED
    BY <1>4, <2>1 DEF Moved, Send
<1>5. CASE SignIn(r)
  <2>1. CASE Refuse(r)
    BY <1>3, <1>5, <2>1 DEF SignIn
  <2>2. CASE ~Refuse(r)
    <3>1. \E a \in AccountsOf(q.who) : Proceed(r, [q EXCEPT !.member = accounts[a], !.step = "seen"])
      BY <1>5, <2>2 DEF SignIn
    <3>2. reqs'[r].step = "seen" /\ reqs'[r].actor = q.actor /\ reqs'[r].ended = q.ended
      BY <1>1, <3>1 DEF Proceed, Reqs
    <3>3. QED
      BY <1>2, <1>5, <3>2 DEF Moved, SignIn
  <2>3. QED
    BY <2>1, <2>2
<1>6. CASE SaveSeen(r)
  <2>1. Step(r) # "done" /\ ((\E how \in Endings : End(r, how)) \/ Goes(r, "acting"))
    BY <1>6 DEF SaveSeen, Endings
  <2>2. ASSUME Goes(r, "acting") PROVE Moved(r)
    <3>1. reqs'[r].step = "acting" /\ reqs'[r].actor = q.actor /\ reqs'[r].ended = q.ended
      BY <1>1, <2>2 DEF Goes, Proceed, Reqs
    <3>2. QED
      BY <1>2, <2>1, <3>1 DEF Moved
  <2>3. QED
    BY <1>3, <2>1, <2>2
<1>7. CASE ReadActor(r)
  <2>1. CASE Refuse(r)
    BY <1>3, <1>7, <2>1 DEF ReadActor
  <2>2. CASE ~Refuse(r)
    <3> DEFINE row == accounts[q.member.id]
    <3>1. Proceed(r, [q EXCEPT !.actor = row, !.step = "reading"])
      BY <1>7, <2>2 DEF ReadActor
    <3> HIDE DEF row
    <3>2. reqs'[r].step = "reading" /\ reqs'[r].actor = row /\ reqs'[r].ended = q.ended
      BY <1>1, <3>1 DEF Proceed, Reqs
    <3>3. QED
      BY <1>2, <1>7, <3>2 DEF Moved, ReadActor, row
  <2>3. QED
    BY <2>1, <2>2
<1>8. ASSUME NEW row, Decide(r, row), Step(r) # "done",
             Kind(r) \in {"role", "remove"} => ReadRole(r) /\ ~Refuse(r)
      PROVE  Moved(r)
  <2>1. /\ reqs'[r].step = "committing" /\ reqs'[r].ask = q.ask /\ reqs'[r].actor = q.actor
        /\ reqs'[r].ended = q.ended
    BY <1>1, <1>8 DEF Decide, Proceed, Reqs
  <2>2. QED
    BY <1>2, <1>8, <2>1 DEF Moved, Kind
<1>9. CASE ReadInvite(r) \/ ReadRevoke(r) \/ ReadNames(r) \/ ReadRepository(r)
  <2>1. Step(r) # "done" /\ Kind(r) \notin {"role", "remove"}
    BY <1>9 DEF ReadInvite, ReadRevoke, ReadNames, ReadRepository
  <2>2. Refuse(r) \/ \E row : Decide(r, row)
    BY <1>9 DEF ReadInvite, ReadRevoke, ReadNames, ReadRepository
  <2>3. QED
    BY <1>3, <1>8, <2>1, <2>2
<1>10. CASE ReadRole(r)
  <2>1. Step(r) # "done" /\ (Refuse(r) \/ \E row : Decide(r, row))
    BY <1>10 DEF ReadRole
  <2>2. QED
    BY <1>3, <1>8, <1>10, <2>1
<1>11. CASE ReadConnection(r)
  <2>1. Step(r) # "done" /\ Kind(r) \notin {"role", "remove"}
    BY <1>11 DEF ReadConnection
  <2>2. \/ Refuse(r) \/ \E row : Decide(r, row)
        \/ Proceed(r, [q EXCEPT !.read = connections[About(r)], !.step = "probing"])
    BY <1>11 DEF ReadConnection
  <2>3. ASSUME Proceed(r, [q EXCEPT !.read = connections[About(r)], !.step = "probing"])
        PROVE  Moved(r)
    <3>1. reqs'[r].step = "probing" /\ reqs'[r].actor = q.actor /\ reqs'[r].ended = q.ended
      BY <1>1, <2>3 DEF Proceed, Reqs
    <3>2. QED
      BY <1>2, <2>1, <3>1 DEF Moved
  <2>4. QED
    BY <1>3, <1>8, <2>1, <2>2, <2>3
<1>12. CASE Probe(r)
  <2>1. CASE Refuse(r)
    BY <1>3, <1>12, <2>1 DEF Probe
  <2>2. CASE ~Refuse(r)
    <3>1. \E l : Proceed(r, [q EXCEPT !.listed = l, !.step = "acting"])
      BY <1>12, <2>2 DEF Probe
    <3>2. reqs'[r].step = "acting" /\ reqs'[r].actor = q.actor /\ reqs'[r].ended = q.ended
      BY <1>1, <3>1 DEF Proceed, Reqs
    <3>3. QED
      BY <1>2, <1>12, <3>2 DEF Moved, Probe
  <2>3. QED
    BY <2>1, <2>2
<1>13. CASE Join(r)
  <2>1. Step(r) # "done" /\ Kind(r) \notin {"role", "remove"}
    BY <1>1, <1>13 DEF Join, Inv, Sound, Step, Kind
  <2>2. Refuse(r) \/ \E row : Decide(r, row)
    BY <1>13 DEF Join
  <2>3. QED
    BY <1>3, <1>8, <2>1, <2>2
<1>14. CASE LoadModels(r)
  <2>1. Proceed(r, [q EXCEPT !.models = TenantModels(Org(r)), !.step = "done", !.ended = "served"])
    BY <1>14 DEF LoadModels
  <2>2. reqs'[r].step = "done" /\ reqs'[r].actor = q.actor
    BY <1>1, <2>1 DEF Proceed, Reqs
  <2>3. QED
    BY <1>14, <2>2 DEF Moved, LoadModels
<1>15. CASE Commit(r)
  <2>1. Step(r) = "committing"
    BY <1>15 DEF Commit, CommitCreate, CommitAccept, CommitInvite, CommitRevoke, CommitRole,
           CommitRemove, CommitConnect, CommitEdit, CommitRefresh, CommitDisconnect,
           CommitRegister, CommitUnregister, Committing
  <2>2. Abort(r) \/ Succeed(r)
    BY <1>15 DEF Commit, CommitCreate, CommitAccept, CommitInvite, CommitRevoke, CommitRole,
           CommitRemove, CommitConnect, CommitEdit, CommitRefresh, CommitDisconnect,
           CommitRegister, CommitUnregister
  <2>3. QED
    BY <1>3, <2>1, <2>2
<1>16. ASSUME NEW s \in Requests, s # r,
              \/ \E p \in People, ask \in Asks : Send(s, p, ask)
              \/ SignIn(s) \/ SaveSeen(s) \/ UseCase(s) \/ Commit(s)
       PROVE  reqs'[r] = q
  <2>1. \E c : Becomes(s, c)
    BY <1>16, ReadsKeep, CommitsKeep
  <2>2. QED
    BY <1>1, <1>16, <2>1 DEF Becomes, Proceed
<1>17. CASE UNCHANGED reqs
  BY <1>17
<1>18. QED
  BY <1>4, <1>5, <1>6, <1>7, <1>9, <1>10, <1>11, <1>12, <1>13, <1>14, <1>15, <1>16, <1>17
     DEF Next, UseCase, Expire, vars

(* A demotion that was committed is never taken back.                      *)
LEMMA DemotionsStay ==
    ASSUME Inv, Finished, [Next]_vars, NEW a, NEW o, NEW r \in Requests,
           Demotes(r, o), About(r) = a
    PROVE  Demotes(r, o)' /\ About(r)' = a
<1>1. reqs'[r] = reqs[r]
  BY RequestsMove DEF Finished, Demotes, Moved
<1>2. QED
  BY <1>1 DEF Demotes, Kind, With, Org, About

(* An owner is lost only by a request that demotes or removes it.          *)
LEMMA OwnersAreDemoted ==
    ASSUME Inv, [Next]_vars, NEW a \in AccountIds, NEW o, Owns(a, o), ~Owns(a, o)'
    PROVE  \E r \in Requests :
              /\ Step(r) = "committing" /\ Kind(r) \in {"role", "remove"}
              /\ With(r) # "owner" /\ About(r) = a
              /\ Demotes(r, o)' /\ About(r)' = a
              /\ reqs[r].actor \in Accounts /\ reqs[r].actor.org = o /\ IsOwner(reqs[r].actor)
              /\ \A b \in AccountIds \ {a} : accounts'[b] = accounts[b]
<1>1. /\ accounts[a] \in Accounts /\ a \leq opened /\ a \in Nat /\ opened \in Nat
      /\ accounts \in [AccountIds -> Accounts \cup {NoRow}]
  BY DEF Inv, TablesTyped, Numbered, Rows, AccountIds, Owns
<1>2. accounts'[a] # accounts[a]
  BY DEF Owns, IsOwner
<1>3. PICK r \in Requests :
         /\ Commit(r) /\ ~Abort(r) /\ About(r) = a
         /\ \/ CommitRole(r) /\ accounts'[a] = [accounts[a] EXCEPT !.role = With(r)]
            \/ CommitRemove(r)
  BY <1>1, <1>2, AccountsChange
<1>4. /\ Step(r) = "committing" /\ Kind(r) \in {"role", "remove"}
      /\ reqs'[r].ended = "committed"
      /\ reqs'[r].ask = reqs[r].ask /\ reqs'[r].actor = reqs[r].actor
  BY <1>3, WhoCommits DEF CommitRole, CommitRemove, Committing
<1>5. With(r) # "owner"
  <2>1. CASE CommitRole(r)
    <3>1. accounts'[a] = [accounts[a] EXCEPT !.role = With(r)]
      BY <1>3, <2>1 DEF CommitRole, CommitRemove, Committing
    <3>2. With(r) = "owner" => Owns(a, o)'
      BY <1>1, <3>1, NoRowAssumption DEF Owns, IsOwner, Accounts, Roles
    <3>3. QED
      BY <3>2
  <2>2. CASE CommitRemove(r)
    BY <2>2, <1>4, MovesFrom, AskShape DEF CommitRemove, Committing, Kind, With
  <2>3. QED
    BY <1>3, <2>1, <2>2
<1>6. /\ IsOwner(reqs[r].actor) /\ reqs[r].actor \in Accounts
      /\ Org(r) = reqs[r].actor.org /\ StillOf(a, Org(r))
  BY <1>3, <1>4, CommittingFacts DEF Owning, OwnersOnly, Signed, Kind
<1>7. Org(r) = o /\ Org(r)' = o
  BY <1>4, <1>6, NoRowAssumption DEF StillOf, Owns, Org
<1>8. Demotes(r, o)' /\ About(r)' = a
  BY <1>3, <1>4, <1>5, <1>7 DEF Demotes, Kind, With, About
<1>9. \A b \in AccountIds \ {a} : accounts'[b] = accounts[b]
  BY <1>1, <1>3 DEF CommitRole, CommitRemove
<1>10. QED
  BY <1>3, <1>4, <1>5, <1>6, <1>7, <1>8, <1>9

LEMMA OwnedOrLostStays ==
    ASSUME Inv, Finished, [Next]_vars, NEW a \in AccountIds, NEW o, OwnedOrLost(a, o)
    PROVE  OwnedOrLost(a, o)'
<1>1. CASE Owns(a, o)
  <2>1. CASE Owns(a, o)'
    BY <2>1 DEF OwnedOrLost
  <2>2. CASE ~Owns(a, o)'
    BY <1>1, <2>2, OwnersAreDemoted DEF OwnedOrLost, Demoted
  <2>3. QED
    BY <2>1, <2>2
<1>2. CASE Demoted(a, o)
  BY <1>2, DemotionsStay DEF OwnedOrLost, Demoted
<1>3. QED
  BY <1>1, <1>2 DEF OwnedOrLost

LEMMA ActorsStayOwned ==
    ASSUME Inv, Finished, ActorsOwned, OthersOwn, [Next]_vars
    PROVE  ActorsOwned'
<1> SUFFICES ASSUME NEW r \in Requests, reqs'[r].actor # NoRow, IsOwner(reqs'[r].actor)
             PROVE  OwnedOrLost(reqs[r].actor.id, reqs[r].actor.org)'
  BY DEF ActorsOwned
<1>1. reqs[r] \in Reqs /\ reqs[r].actor \in Accounts \cup {NoRow}
  BY DEF Inv, RequestsTyped, Reqs
<1>2. Finished /\ ActorsOwned
  OBVIOUS
<1>3. CASE reqs'[r].actor = reqs[r].actor
  <2> DEFINE id == reqs[r].actor.id
             org == reqs[r].actor.org
  <2>1. OwnedOrLost(id, org) /\ id \in AccountIds
    BY <1>1, <1>2, <1>3 DEF ActorsOwned, Accounts
  <2>2. ASSUME NEW a \in AccountIds, NEW o, a = reqs'[r].actor.id, o = reqs'[r].actor.org,
               OwnedOrLost(a, o)'
        PROVE  OwnedOrLost(reqs[r].actor.id, reqs[r].actor.org)'
    BY <2>2 DEF OwnedOrLost, Owns, Demoted, Demotes
  <2>3. QED
    BY <1>2, <1>3, <2>1, <2>2, OwnedOrLostStays
<1>4. CASE ReadActor(r) /\ reqs'[r].actor = accounts[reqs[r].member.id]
  <2> DEFINE id == reqs[r].member.id
  <2>1. id \in AccountIds
    BY <1>1, <1>4 DEF Inv, Sound, ReadActor, Step, Reqs, Accounts
  <2>2. accounts[id] # NoRow /\ accounts[id].id = id /\ UNCHANGED accounts
    BY <1>1, <1>4, <2>1
       DEF Inv, TablesTyped, Rows, ReadActor, OnlyReads, Refuse, tables
  <2>3. ASSUME NEW a, NEW o, a = id, o = accounts[id].org
        PROVE  OwnedOrLost(a, o)' /\ a = reqs'[r].actor.id /\ o = reqs'[r].actor.org
    BY <1>4, <2>2, <2>3 DEF OwnedOrLost, Owns
  <2>4. QED
    BY <2>3 DEF OwnedOrLost, Owns, Demoted, Demotes
<1>5. QED
  BY <1>2, <1>3, <1>4, RequestsMove DEF Moved

LEMMA OthersStillOwn ==
    ASSUME Inv, Finished, ActorsOwned, OthersOwn, [Next]_vars
    PROVE  OthersOwn'
<1> SUFFICES ASSUME NEW r \in Requests,
                    reqs'[r].step = "committing", reqs'[r].ask.kind \in {"role", "remove"},
                    reqs'[r].ask.with # "owner", reqs'[r].actor.id = reqs'[r].ask.about
             PROVE  \E b \in AccountIds : /\ b # reqs'[r].ask.about
                                          /\ OwnedOrLost(b, reqs[r].actor.org)'
  BY DEF OthersOwn, Step, Kind, With, About
<1>1. Finished /\ OthersOwn
  OBVIOUS
<1>2. ASSUME NEW b \in AccountIds, NEW o, o = reqs'[r].actor.org, OwnedOrLost(b, o)'
      PROVE  OwnedOrLost(b, reqs[r].actor.org)'
  BY <1>2 DEF OwnedOrLost, Owns, Demoted, Demotes
<1>3. CASE reqs'[r] = reqs[r]
  <2>1. PICK b \in AccountIds : b # About(r) /\ OwnedOrLost(b, reqs[r].actor.org)
    BY <1>1, <1>3 DEF OthersOwn, Step, Kind, With, About
  <2>2. QED
    BY <1>1, <1>2, <1>3, <2>1, OwnedOrLostStays DEF About
<1>4. CASE /\ ReadRole(r) /\ ~Refuse(r)
           /\ reqs'[r].ask = reqs[r].ask /\ reqs'[r].actor = reqs[r].actor
  <2>1. PICK m \in Seen(r) : m.id = About(r) /\ OwnerRemains(Seen(r), m)
    BY <1>4 DEF ReadRole, With
  <2>2. /\ reqs[r].actor \in Accounts /\ IsOwner(reqs[r].actor) /\ Org(r) = reqs[r].actor.org
        /\ reqs[r].actor.id = About(r)
    BY <1>4 DEF Inv, RequestsTyped, Reqs, Sound, ReadRole, Step, Kind, Org, About
  <2>3. \A a \in MembersOf(Org(r)) :
           a \in AccountIds /\ accounts[a].id = a /\ accounts[a].org = Org(r) /\ accounts[a] # NoRow
    BY DEF MembersOf, Rows, Inv, TablesTyped
  <2>4. m = reqs[r].actor
    BY <2>1, <2>2, <2>3 DEF Seen
  <2>5. PICK n \in Seen(r) : IsOwner(n) /\ n.id # About(r)
    BY <2>1, <2>2, <2>4 DEF OwnerRemains
  <2>6. PICK b \in MembersOf(Org(r)) : n = accounts[b] /\ b # About(r)
    BY <2>2, <2>3, <2>5 DEF Seen
  <2>7. Owns(b, reqs[r].actor.org) /\ b \in AccountIds
    BY <2>2, <2>3, <2>5, <2>6 DEF Owns
  <2>8. QED
    BY <1>1, <1>2, <1>4, <2>6, <2>7, OwnedOrLostStays DEF OwnedOrLost, About
<1>5. QED
  BY <1>1, <1>3, <1>4, RequestsMove DEF Moved

(* The property in the terms of the invariant.                             *)
Together ==
    \A o \in orgs : \/ \E a \in AccountIds : Owns(a, o)
                    \/ \E a, b \in AccountIds : a # b /\ Demoted(a, o) /\ Demoted(b, o)

LEMMA TogetherIsEnough ==
    ASSUME Inv, Together
    PROVE  OwnersFallOnlyTogether
<1> SUFFICES ASSUME NEW o \in orgs, \A a \in MembersOf(o) : ~IsOwner(accounts[a])
             PROVE  \E r, s \in Requests : Demotes(r, o) /\ Demotes(s, o) /\ About(r) # About(s)
  BY DEF OwnersFallOnlyTogether, Demotes
<1>1. \A a \in AccountIds : ~Owns(a, o)
  BY DEF Owns, MembersOf, Rows, Inv, TablesTyped
<1>2. QED
  BY <1>1 DEF Together, Demoted

OwnersKept == Finished /\ ActorsOwned /\ OthersOwn /\ Together

LEMMA OwnersInit == Init => OwnersKept
<1> SUFFICES ASSUME Init PROVE OwnersKept
  OBVIOUS
<1>1. \A r \in Requests : reqs[r] = Unsent
  BY DEF Init
<1>2. Finished /\ ActorsOwned /\ OthersOwn
  BY <1>1 DEF Unsent, Finished, ActorsOwned, OthersOwn, Step
<1>3. Owns(1, Home) /\ 1 \in AccountIds
  <2>1. PICK roles \in {f \in [1..Len(Team) -> Roles] : f[1] = "owner"} :
           accounts = [a \in AccountIds |->
                          IF a \in DOMAIN Team THEN Account(a, Team[a], Home, roles[a]) ELSE NoRow]
    BY DEF Init
  <2>2. 1 \in DOMAIN Team /\ 1 \in AccountIds
    BY WorkspaceAssumption DEF AccountIds
  <2>3. accounts[1] = Account(1, Team[1], Home, "owner")
    BY <2>1, <2>2
  <2>4. accounts[1] # NoRow
    BY <2>2, InitInv, <2>3, WorkspaceAssumption, NoRowAssumption DEF Account, Accounts, Roles
  <2>5. QED
    BY <2>2, <2>3, <2>4 DEF Owns, Account, IsOwner
<1>4. Together
  BY <1>3 DEF Together, Init
<1>5. QED
  BY <1>2, <1>4 DEF OwnersKept

LEMMA FinishedStays ==
    ASSUME Inv, Finished, [Next]_vars
    PROVE  Finished'
  BY RequestsMove DEF Finished, Moved, Step

(* The last owner goes: whoever sent the request was an owner, and either  *)
(* it was somebody else and has been demoted meanwhile, or it had read     *)
(* another owner who has.                                                  *)
LEMMA LastOwnerGoes ==
    ASSUME Inv, Finished, ActorsOwned, OthersOwn, [Next]_vars,
           NEW o \in orgs, NEW a \in AccountIds, Owns(a, o), \A b \in AccountIds : ~Owns(b, o)'
    PROVE  \E b \in AccountIds : b # a /\ Demoted(a, o)' /\ Demoted(b, o)'
<1>1. PICK r \in Requests :
         /\ Step(r) = "committing" /\ Kind(r) \in {"role", "remove"}
         /\ With(r) # "owner" /\ About(r) = a
         /\ Demotes(r, o)' /\ About(r)' = a
         /\ reqs[r].actor \in Accounts /\ reqs[r].actor.org = o /\ IsOwner(reqs[r].actor)
  BY OwnersAreDemoted
<1>2. Demoted(a, o)'
  BY <1>1 DEF Demoted
<1>3. \E b \in AccountIds : b # a /\ OwnedOrLost(b, o)
  <2>1. CASE reqs[r].actor.id = a
    BY <1>1, <2>1 DEF OthersOwn
  <2>2. CASE reqs[r].actor.id # a
    <3>1. reqs[r].actor # NoRow /\ reqs[r].actor.id \in AccountIds
      BY <1>1, NoRowAssumption DEF Accounts
    <3>2. QED
      BY <1>1, <2>2, <3>1 DEF ActorsOwned
  <2>3. QED
    BY <2>1, <2>2
<1>4. PICK b \in AccountIds : b # a /\ OwnedOrLost(b, o)'
  BY <1>3, OwnedOrLostStays
<1>5. Demoted(b, o)'
  BY <1>4 DEF OwnedOrLost
<1>6. QED
  BY <1>2, <1>4, <1>5

LEMMA TogetherStays ==
    ASSUME Inv, OwnersKept, [Next]_vars
    PROVE  Together'
<1> USE DEF OwnersKept
<1> SUFFICES ASSUME NEW o \in orgs', \A a \in AccountIds : ~Owns(a, o)'
             PROVE  \E a, b \in AccountIds : a # b /\ Demoted(a, o)' /\ Demoted(b, o)'
  BY DEF Together
<1>1. o \in orgs
  <2>1. ASSUME o \notin orgs PROVE FALSE
    <3>1. PICK r \in Requests : Commit(r)
      BY <2>1, OnlyCommitsWrite
    <3>2. /\ CommitCreate(r) /\ orgs' = orgs \cup {About(r)} /\ o = About(r)
          /\ accounts' = [accounts EXCEPT ![opened + 1] =
                             Account(opened + 1, reqs[r].who, About(r), "owner")]
      BY <2>1, <3>1 DEF Commit, CommitCreate, CommitAccept, CommitInvite, CommitRevoke,
         CommitRole, CommitRemove, CommitConnect, CommitEdit, CommitRefresh, CommitDisconnect,
         CommitRegister, CommitUnregister
    <3>3. opened + 1 \in AccountIds /\ accounts \in [AccountIds -> Accounts \cup {NoRow}]
      BY <3>2, WorkspaceAssumption DEF CommitCreate, AccountIds, Inv, TablesTyped
    <3>4. /\ reqs[r].who \in People /\ About(r) \in Organizations /\ "owner" \in Roles
      BY <3>2, CommittingFacts, AskShape DEF CommitCreate, Committing, Kind, About, Roles
    <3>5. accounts'[opened + 1] = Account(opened + 1, reqs[r].who, o, "owner")
      BY <3>2, <3>3
    <3>6. accounts'[opened + 1] \in Accounts
      BY <3>2, <3>3, <3>4, <3>5 DEF Account, Accounts
    <3>7. /\ accounts'[opened + 1] # NoRow /\ accounts'[opened + 1].org = o
          /\ IsOwner(accounts'[opened + 1])
      BY <3>5, <3>6, NoRowAssumption DEF Account, IsOwner
    <3>8. ASSUME NEW n \in AccountIds, n = opened + 1 PROVE Owns(n, o)'
      BY <3>7, <3>8 DEF Owns, IsOwner
    <3>9. QED
      BY <3>3, <3>8
  <2>2. QED
    BY <2>1
<1>2. CASE \E a \in AccountIds : Owns(a, o)
  BY <1>1, <1>2, LastOwnerGoes
<1>3. CASE \E a, b \in AccountIds : a # b /\ Demoted(a, o) /\ Demoted(b, o)
  BY <1>3, DemotionsStay DEF Demoted
<1>4. QED
  BY <1>1, <1>2, <1>3 DEF Together

(* One request alone never leaves an organization without an owner: it     *)
(* takes two whose guards (ensure_owner_remains) each counted the other's  *)
(* account as the owner who remains.                                       *)
THEOREM OneRequestKeepsAnOwner == Spec => []OwnersFallOnlyTogether
<1>1. Inv /\ OwnersKept /\ [Next]_vars => OwnersKept'
  BY FinishedStays, ActorsStayOwned, OthersStillOwn, TogetherStays DEF OwnersKept
<1>2. Inv /\ OwnersKept => OwnersFallOnlyTogether
  BY TogetherIsEnough DEF OwnersKept
<1>3. QED
  BY OwnersInit, <1>1, <1>2, AlwaysSound, PTL DEF Spec
=============================================================================
