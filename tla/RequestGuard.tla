---------------------------- MODULE RequestGuard ----------------------------
(***************************************************************************)
(* The request path: the plugin hooks of native/main.go over the sessions  *)
(* of internal/registry/runtime.go.                                        *)
(*                                                                         *)
(* A request pins the snapshot published when its pre-hook runs, whatever  *)
(* is saved while it is in flight.  The pre-hook resolves the names it     *)
(* calls; Bifrost's governance then stamps each provider attempt with the  *)
(* identity of the virtual key, and routing picks where the attempt goes.  *)
(* Neither is trusted: the LLM hooks check both for every attempt, and     *)
(* attempts of one request (a listing fans out over the providers) share   *)
(* one identity state.                                                     *)
(***************************************************************************)
EXTENDS RegistryConfig, Sequences

CONSTANTS
    Requests,
    Slots,          \* attempts a request may make
    Tokens,         \* virtual key credentials
    Endpoints,      \* inference endpoints
    Serves,         \* Serves[m]: the endpoints access m declares
    Attempts,       \* "provider/model" pairs an attempt can go to
    AttemptProvider,
    NativeOf,       \* NativeOf[m]: the "provider/alias" of access m
    Targets,        \* Targets[m]: the routing targets of passthrough access m
    Snapshots,      \* compiled registries, with the credential and kept providers of each key
    Asked,          \* the names clients ask for
    MaxNames        \* bound on the names in one request (the model and its fallbacks)

Short(a) == [bare |-> TRUE, id |-> a]
Full(t) == [bare |-> FALSE, id |-> t]
Names == {Short(a) : a \in Aliases} \cup {Full(t) : t \in Attempts}

\* "other": a path, a method or a header the guard does not take.  A body it refuses is a
\* call without names, and so is a listing.
Paths == Endpoints \cup {"models", "other"}
Lists == UNION {[1..n -> Asked] : n \in 0..MaxNames}
Calls == [token: Tokens, endpoint: Endpoints, names: Lists]
         \cup [token: Tokens, endpoint: {"models", "other"}, names: {<< >>}]

ASSUME GuardAssumption ==
    /\ Endpoints \cap {"models", "other"} = {}
    /\ Serves \in [Models -> SUBSET Endpoints]
    /\ AttemptProvider \in [Attempts -> Providers]
    /\ NativeOf \in [Models -> Attempts]
    /\ Targets \in [Models -> SUBSET Attempts]
    /\ \A m \in Models \ Passthrough : Targets[m] = {}
    /\ \A m \in Models : AttemptProvider[NativeOf[m]] = Provider[m]
    /\ \A m, n \in Models : NativeOf[m] = NativeOf[n] => m = n
    /\ Snapshots \subseteq [cfg: Configs, token: [Keys -> Tokens], kept: [Keys -> SUBSET Providers]]
    /\ \A s \in Snapshots :
         /\ Compiles(s.cfg)
         /\ \A j, k \in Managed(s.cfg) : s.token[j] = s.token[k] => j = k
    /\ \A S \in {Snapshots, Keys, Attempts, Calls} : None \notin S
    /\ Asked \subseteq Names
    /\ MaxNames \in Nat \ {0}

VARIABLES
    current,   \* the published snapshot, None while the plugin is not initialized
    call,      \* call[r]: what the client sent, None before it arrives
    sess,      \* sess[r]: the session in the request context, None if there is none
    identity,  \* identity[r]: 0 unknown, 1 confirmed, 2 rejected
    att,       \* att[r][i]: attempt i: phase, the stamped key, where it goes
    answer     \* answer[r]: what the client got

vars == <<current, call, sess, identity, att, answer>>

GuardRoutes == [via: SUBSET Models, kept: BOOLEAN]
\* allowed: the attempts the names of the request authorize, and by which route.
Sessions ==
    [snap: Snapshots, key: Keys \cup {None}, endpoint: Paths,
     allowed: [Attempts -> GuardRoutes \cup {None}]]

\* Compile refuses an access that declares no endpoint.
ASSUME ServiceAssumption ==
    /\ Endpoints # {}
    /\ \A m \in Models : Serves[m] # {}
    /\ None \notin GuardRoutes
    /\ None \notin Sessions

\* blocked: by the pre-hook; failed: by the provider; rejected: by the post-hook.
Phases == {"none", "pre", "blocked", "sent", "stamped", "failed", "rejected", "done"}
AttemptRecords == [phase: Phases, id: Keys \cup {None}, to: Attempts \cup {None}]
Answers == [kind: {"none", "error", "content", "list"}, names: SUBSET Names]

TypeOK ==
    /\ current \in Snapshots \cup {None}
    /\ DOMAIN call = Requests
    /\ \A r \in Requests : call[r] = None \/ call[r] \in Calls
    /\ sess \in [Requests -> Sessions \cup {None}]
    /\ identity \in [Requests -> 0..2]
    /\ att \in [Requests -> [Slots -> AttemptRecords]]
    /\ answer \in [Requests -> Answers]

Init ==
    /\ current \in Snapshots
    /\ call = [r \in Requests |-> None]
    /\ sess = [r \in Requests |-> None]
    /\ identity = [r \in Requests |-> 0]
    /\ att = [r \in Requests |-> [i \in Slots |-> [phase |-> "none", id |-> None, to |-> None]]]
    /\ answer = [r \in Requests |-> [kind |-> "none", names |-> {}]]

-----------------------------------------------------------------------------
(* Prepare: from the names of a call to a session.                         *)

PolicyOf(s, k) == s.cfg.policies[k]
ViewRoutes(s, k) == Routes(s.cfg, PolicyOf(s, k))

\* The name of a route, as a client writes it.
NameOf(r) == IF r.bare THEN Short(r.alias) ELSE Full(NativeOf[CHOOSE m \in r.via : TRUE])

\* index, then keptRoute: the route a name resolves to, None when it is hidden.
Lookup(s, k, n) ==
    LET found == {r \in ViewRoutes(s, k) : NameOf(r) = n}
    IN  IF found # {} THEN [via |-> (CHOOSE r \in found : TRUE).via, kept |-> FALSE]
        ELSE IF ~n.bare /\ AttemptProvider[n.id] \in s.kept[k] THEN [via |-> {}, kept |-> TRUE]
        ELSE None

Shared(g) == Several(g.via)
Offered(g, e) == g.kept \/ \E m \in g.via : e \in Serves[m]

Resolves(s, k, c) ==
    \A j \in DOMAIN c.names :
        LET g == Lookup(s, k, c.names[j]) IN g # None /\ Offered(g, c.endpoint)

\* Mutant of Opens: a shared route opens one of its providers.
OpensOne(g, n) ==
    IF g.kept THEN {n.id}
    ELSE IF Shared(g) THEN {NativeOf[CHOOSE m \in g.via : TRUE]}
    ELSE UNION {{NativeOf[m]} \cup Targets[m] : m \in g.via}

\* The attempts a resolved name puts in session.allowed.
Opens(g, n) ==
    IF g.kept THEN {n.id}
    ELSE IF Shared(g) THEN {NativeOf[m] : m \in g.via}
    ELSE UNION {{NativeOf[m]} \cup Targets[m] : m \in g.via}

\* Names are resolved in order, and a later one overwrites what an earlier one allowed.
Opening(s, k, names, t) == {j \in DOMAIN names : t \in Opens(Lookup(s, k, names[j]), names[j])}
Latest(js) == CHOOSE j \in js : \A i \in js : i <= j
AllowedBy(s, k, names) ==
    [t \in Attempts |-> LET js == Opening(s, k, names, t)
                        IN  IF js = {} THEN None ELSE Lookup(s, k, names[Latest(js)])]

Nothing == [t \in Attempts |-> None]

\* Snapshot.Prepare: the session the request gets, None when it is refused.
Prepare(s, c) ==
    LET bound == {k \in Managed(s.cfg) : s.token[k] = c.token}
        k == IF bound = {} THEN None ELSE CHOOSE j \in bound : TRUE
        open == [snap |-> s, key |-> k, endpoint |-> c.endpoint, allowed |-> Nothing]
    IN  IF bound = {} THEN open
        ELSE IF ~PolicyOf(s, k).on \/ c.endpoint = "other" THEN None
        ELSE IF c.endpoint = "models" THEN open
        ELSE IF c.names = << >> \/ ~Resolves(s, k, c) THEN None
        ELSE [open EXCEPT !.allowed = AllowedBy(s, k, c.names)]

-----------------------------------------------------------------------------
(* What a session answers to the hooks.                                    *)

\* Mutant of VerifyIdentity: any key may use a session without a policy.
VerifyManagedOnly(ss, id) == id # None /\ (ss.key # None => id = ss.key)

VerifyIdentity(ss, id) ==
    /\ id # None
    /\ IF ss.key = None THEN id \notin Managed(ss.snap.cfg) ELSE id = ss.key

\* view.native: the unshared direct routes, by their native name.
ExposedAs(ss, t) ==
    {m \in Models \ Passthrough : /\ NativeOf[m] = t
                                  /\ \E r \in ViewRoutes(ss.snap, ss.key) : r.via = {m}}

\* Mutant of Accepts: the endpoints of a shared route are those of all its providers.
AcceptsAnyProvider(ss, g, t) ==
    \/ g.kept
    \/ /\ Offered(g, ss.endpoint)
       /\ Shared(g) => \E m \in g.via : Provider[m] = AttemptProvider[t]

Accepts(ss, g, t) ==
    \/ g.kept
    \/ \E m \in g.via : /\ ss.endpoint \in Serves[m]
                        /\ Shared(g) => Provider[m] = AttemptProvider[t]

\* Session.CheckAttempt: the attempts of the request, else those of the policy.
CheckAttempt(ss, t) ==
    \/ ss.key = None
    \/ ss.endpoint = "models"
    \/ ss.allowed[t] # None /\ Accepts(ss, ss.allowed[t], t)
    \/ ss.allowed[t] = None /\ \E m \in ExposedAs(ss, t) : ss.endpoint \in Serves[m]

\* Session.Project: the routes of the view that Bifrost lists, plus its kept entries.
Listing(r) == {Full(NativeOf[m]) : m \in r.via} \cup IF Several(r.via) THEN {Short(r.alias)} ELSE {}
Project(ss, native) ==
    {NameOf(r) : r \in {v \in ViewRoutes(ss.snap, ss.key) : Listing(v) \cap native # {}}}
    \cup {n \in native : ~n.bare /\ AttemptProvider[n.id] \in ss.snap.kept[ss.key]}

-----------------------------------------------------------------------------
(* The plugin and its hooks.                                               *)

\* Init: a snapshot is published once the store is open.
Start == /\ current = None
         /\ current' \in Snapshots
         /\ UNCHANGED <<call, sess, identity, att, answer>>

\* Cleanup: requests in flight keep their session.
Cleanup == /\ current # None
           /\ current' = None
           /\ UNCHANGED <<call, sess, identity, att, answer>>

\* A save publishes another snapshot: nothing that is in flight changes.
Publish == /\ current # None
           /\ current' \in Snapshots \ {current}
           /\ UNCHANGED <<call, sess, identity, att, answer>>

Reply(r, kind, names) == answer' = [answer EXCEPT ![r] = [kind |-> kind, names |-> names]]

\* HTTPTransportPreHook: 503 while the plugin is down, else what Prepare says.
PreHook(r, c) ==
    /\ call[r] = None
    /\ call' = [call EXCEPT ![r] = c]
    /\ sess' = [sess EXCEPT ![r] = IF current = None THEN None ELSE Prepare(current, c)]
    /\ IF sess'[r] = None THEN Reply(r, "error", {}) ELSE UNCHANGED answer
    /\ UNCHANGED <<current, identity, att>>

Open(r) == sess[r] # None /\ answer[r].kind = "none"
Move(r, i, rec) == att' = [att EXCEPT ![r] = [@ EXCEPT ![i] = rec]]
Phase(r, i, ph) == Move(r, i, [phase |-> ph, id |-> att[r][i].id, to |-> att[r][i].to])

\* Governance stamps some identity, or none, and routing picks any provider and model.  A
\* listing asks the providers side by side; a fallback follows an attempt its provider failed.
Attempt(r, i, id, t) ==
    /\ Open(r)
    /\ att[r][i].phase = "none"
    /\ sess[r].endpoint \in Endpoints => \A j \in Slots : att[r][j].phase \in {"none", "failed"}
    /\ Move(r, i, [phase |-> "pre", id |-> id, to |-> t])
    /\ UNCHANGED <<current, call, sess, identity, answer>>

PreLLM(r, i) ==
    /\ att[r][i].phase = "pre"
    /\ Phase(r, i, IF VerifyIdentity(sess[r], att[r][i].id) /\ CheckAttempt(sess[r], att[r][i].to)
                   THEN "sent" ELSE "blocked")
    /\ UNCHANGED <<current, call, sess, identity, answer>>

\* Mutant of CompareAndSwap: a confirmed attempt overwrites a rejection.
StoreConfirmed(v) == 1

\* identityState.CompareAndSwap(0, 1).
CompareAndSwap(v) == IF v = 0 THEN 1 ELSE v

\* PostLLMHook: the check and the compare-and-swap (ok: the provider answered).  It also
\* runs for an attempt the pre-hook blocked, unless the request ended first.
PostLLM(r, i, ok) ==
    /\ Open(r)
    /\ att[r][i].phase \in {"sent", "blocked"}
    /\ IF VerifyIdentity(sess[r], att[r][i].id)
       THEN /\ identity' = [identity EXCEPT ![r] = CompareAndSwap(@)]
            /\ Phase(r, i, IF att[r][i].phase = "blocked" THEN "rejected"
                           ELSE IF ok THEN "stamped" ELSE "failed")
       ELSE /\ identity' = [identity EXCEPT ![r] = 2]
            /\ Phase(r, i, "rejected")
    /\ UNCHANGED <<current, call, sess, answer>>

\* ... and the load that follows it, after which the result goes up.
PostLLMLoad(r, i) ==
    /\ att[r][i].phase = "stamped"
    /\ Phase(r, i, IF identity[r] = 2 THEN "rejected" ELSE "done")
    /\ UNCHANGED <<current, call, sess, identity, answer>>

\* HTTPTransportPostHook, on a 2xx answer.  The context of the transport may show the
\* identity an attempt was stamped with.
Settled(r) ==
    /\ Open(r)
    /\ \A i \in Slots : att[r][i].phase \in {"none", "blocked", "failed", "rejected", "done"}
Answered(r) == Settled(r) /\ \E i \in Slots : att[r][i].phase = "done"
Seen(r) == {None} \cup {att[r][i].id : i \in Slots}
Mismatch(r, seen) == seen # None /\ ~VerifyIdentity(sess[r], seen)

\* An unmanaged path may be one that Bifrost answers without any attempt.
AnswerUnmanaged(r, seen) ==
    /\ Settled(r) /\ sess[r].key = None
    /\ seen \in Seen(r)
    /\ Reply(r, IF \/ identity[r] = 2 \/ Mismatch(r, seen)
                   \/ seen = None /\ identity[r] # 1
                THEN "error" ELSE "content", {})
    /\ UNCHANGED <<current, call, sess, identity, att>>

AnswerInference(r, seen) ==
    /\ Answered(r) /\ sess[r].key # None /\ sess[r].endpoint # "models"
    /\ seen \in Seen(r)
    /\ Reply(r, IF Mismatch(r, seen) THEN "error" ELSE "content", {})
    /\ UNCHANGED <<current, call, sess, identity, att>>

\* native: what Bifrost lists.
AnswerListing(r, seen, native) ==
    /\ Answered(r) /\ sess[r].key # None /\ sess[r].endpoint = "models"
    /\ seen \in Seen(r)
    /\ identity' = [identity EXCEPT ![r] = IF Mismatch(r, seen) THEN 2 ELSE @]
    /\ IF identity'[r] = 2 \/ (seen = None /\ identity[r] # 1)
       THEN Reply(r, "error", {})
       ELSE Reply(r, "list", Project(sess[r], native))
    /\ UNCHANGED <<current, call, sess, att>>

\* Bifrost answers with an error of its own.
Fail(r) ==
    /\ Settled(r)
    /\ \A i \in Slots : att[r][i].phase # "done"
    /\ Reply(r, "error", {})
    /\ UNCHANGED <<current, call, sess, identity, att>>

Next ==
    \/ Start \/ Cleanup \/ Publish
    \/ \E r \in Requests :
         \/ \E c \in Calls : PreHook(r, c)
         \/ \E i \in Slots : \/ \E id \in Keys \cup {None}, t \in Attempts : Attempt(r, i, id, t)
                             \/ PreLLM(r, i)
                             \/ \E ok \in BOOLEAN : PostLLM(r, i, ok)
                             \/ PostLLMLoad(r, i)
         \/ \E seen \in Keys \cup {None} :
              \/ AnswerUnmanaged(r, seen)
              \/ AnswerInference(r, seen)
              \/ \E native \in SUBSET Names : AnswerListing(r, seen, native)
         \/ Fail(r)

Spec == Init /\ [][Next]_vars

-----------------------------------------------------------------------------
(* Properties.                                                             *)

Reached(r) == {i \in Slots : att[r][i].phase \in {"sent", "stamped", "failed", "done"}}
Inference(r) == sess[r] # None /\ sess[r].key # None /\ sess[r].endpoint # "models"

\* What the pinned policy lets an attempt at this endpoint reach.
Reach(ss) ==
    LET ms == {m \in Allowlist(ss.snap.cfg, PolicyOf(ss.snap, ss.key)) : ss.endpoint \in Serves[m]}
    IN  {NativeOf[m] : m \in ms} \cup (UNION {Targets[m] : m \in ms})
        \cup {t \in Attempts : AttemptProvider[t] \in ss.snap.kept[ss.key]}

\* The identity the pinned snapshot stands for: the bound key, or a key without a policy.
Confirmed(ss, id) ==
    id # None /\ IF ss.key = None THEN ss.snap.cfg.policies[id] = None ELSE id = ss.key

\* No provider is reached for another identity, or outside the policy the request was
\* accepted under: at its endpoint, whatever names are mixed in one request, whatever is
\* saved meanwhile and whichever credential a managed key has now.
SentWithinPolicy ==
    \A r \in Requests : \A i \in Reached(r) :
        /\ Confirmed(sess[r], att[r][i].id)
        /\ Inference(r) => att[r][i].to \in Reach(sess[r])

\* An answer goes up only if some attempt confirmed the identity and none that came back
\* contradicted it, in whatever order attempts of the same request came back.
AnswerIsConfirmed ==
    \A r \in Requests : answer[r].kind \in {"content", "list"} =>
        /\ \E i \in Slots : Confirmed(sess[r], att[r][i].id)
        /\ \A i \in Slots : att[r][i].phase \in {"failed", "rejected", "done"} =>
                              Confirmed(sess[r], att[r][i].id)

\* What a listing shows can be called: the guard takes the name at some endpoint, and then
\* takes an attempt for it.
ListedIsCallable ==
    \A r \in Requests : \A n \in answer[r].names :
        \E e \in Endpoints :
            LET ss == Prepare(sess[r].snap, [token |-> call[r].token, endpoint |-> e, names |-> <<n>>])
            IN  ss # None /\ \E t \in Attempts : CheckAttempt(ss, t)

\* The guard does not deny what it offered: a name it lists can be called, and an attempt at the
\* endpoint to an access that a name of the request stands for passes, whatever the other names
\* of the request are.
AcceptedIsServed ==
    /\ ListedIsCallable
    /\ \A r \in Requests : Inference(r) =>
         \A j \in DOMAIN call[r].names :
             LET g == Lookup(sess[r].snap, sess[r].key, call[r].names[j])
             IN  \A m \in g.via : sess[r].endpoint \in Serves[m] => CheckAttempt(sess[r], NativeOf[m])

\* docs/SECURITY.md:15: "A provider attempt must be one of the routes explicitly accepted
\* for that request."
AttemptExplicitlyAccepted ==
    \A r \in Requests : Inference(r) =>
        \A i \in Reached(r) : sess[r].allowed[att[r][i].to] # None
=============================================================================
