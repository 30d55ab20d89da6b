------------------------------ MODULE Tenancy ------------------------------
(***************************************************************************)
(* The rules of an organization: who may act in it, what an invitation     *)
(* grants, what a connection offers.  Rows are records; nothing here has   *)
(* state (core/tenancy, core/llm/provider_connection).                     *)
(***************************************************************************)
EXTENDS Naturals

Roles == {"owner", "member"}
InvitationStatuses == {"pending", "accepted", "revoked"}

IsOwner(account) == account.role = "owner"

(* Demoting and removing are refused when nobody else among the members    *)
(* given is an owner.                                                      *)
OwnerRemains(members, changing) ==
    \/ ~IsOwner(changing)
    \/ \E m \in members : IsOwner(m) /\ m.id # changing.id

Account(id, who, org, role) == [id |-> id, who |-> who, org |-> org, role |-> role]

(* An invitation is for an address; each person here has one.              *)
Issued(org, email, role, by) ==
    [org |-> org, email |-> email, role |-> role, by |-> by, status |-> "pending", old |-> FALSE]

IsValid(invitation) == invitation.status = "pending" /\ ~invitation.old

(* A connection: the server it names and the server whose list of models   *)
(* it stores ("none": the one model that was named by hand).               *)
Created(org, name, url) ==
    [org |-> org, name |-> name, url |-> url, catalogue |-> "none", enabled |-> TRUE]

(* An edit changes one field of the form and leaves the others; an empty   *)
(* list of models does not erase the catalogue.                            *)
Edited(connection, field, value) ==
    IF field = "url"     THEN [connection EXCEPT !.url = value]
    ELSE                      [connection EXCEPT !.enabled = value]
Refreshed(connection, listed) ==
    IF listed = "nothing" THEN connection ELSE [connection EXCEPT !.catalogue = listed]

(* What the router gets: every model of every enabled connection, under    *)
(* the connection's name.                                                  *)
Resolved(connections) ==
    {[name |-> c.name, url |-> c.url, catalogue |-> c.catalogue] :
        c \in {d \in connections : d.enabled}}
=============================================================================
