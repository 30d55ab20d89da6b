---------------------------- MODULE ModelRouter ----------------------------
(***************************************************************************)
(* Which model a request goes to.  A model is what ModelChoice says of it: *)
(* how far the code travels to reach it, whether it calls tools, and its   *)
(* context window, 0 when unknown.  A request states its requirements.     *)
(***************************************************************************)
EXTENDS Selection

CONSTANTS
    Local,        \* the installation's own model
    Remotes,      \* the remote models in the order of the registry
    Nameless      \* no model was preferred

TrustRanks == 0..2          \* local, private_remote, training_remote
TrainingRemote == 2

Models == {Local} \cup {Remotes[i] : i \in DOMAIN Remotes}

ASSUME RemotesAssumption ==
    Remotes \in Seq(Models) /\ \A i \in DOMAIN Remotes : Remotes[i] # Local
ASSUME NamelessAssumption == Nameless \notin Models

ModelChoice(windows) == [trust : TrustRanks, tools : BOOLEAN, window : windows]

AllowedRemotes(choice, limit) ==
    {m \in {Remotes[i] : i \in DOMAIN Remotes} : choice[m].trust <= limit}

Catalogue(choice, limit) == {Local} \cup AllowedRemotes(choice, limit)

SupportsToolCalling(choice, limit) ==
    \E m \in Catalogue(choice, limit) : choice[m].tools

Satisfies(c, needs) ==
    /\ needs.tools => c.tools
    /\ c.window # 0 => needs.context <= c.window
    /\ c.trust <= needs.trust

\* mutant: the person's choice is looked up among all models
NamedAnywhere(choice, needs) == needs.preferred \in Models

Named(choice, needs) ==
    /\ needs.preferred \in Catalogue(choice, needs.trust)
    /\ Satisfies(choice[needs.preferred], needs)

(* The first remote model, in the order of the registry, that satisfies    *)
(* the node; the policy is part of what it must satisfy.  The local one,   *)
(* whatever it can do, when there is none.                                 *)
FirstRemote(choice, needs) ==
    LET fitting == {i \in DOMAIN Remotes : Satisfies(choice[Remotes[i]], needs)} IN
    IF fitting = {} THEN Local
    ELSE Remotes[CHOOSE i \in fitting : \A j \in fitting : i <= j]

(* The named model; the local one, unless the node asks for deep           *)
(* reasoning; the first remote one that fits.                              *)
Select(choice, needs) ==
    IF Named(choice, needs) THEN needs.preferred
    ELSE IF ~needs.deep /\ Satisfies(choice[Local], needs) THEN Local
    ELSE FirstRemote(choice, needs)

Alternatives(choice, needs, besides) ==
    Only(<<Local>> \o Remotes,
         {m \in Catalogue(choice, needs.trust) : m # besides /\ Satisfies(choice[m], needs)})
=============================================================================
