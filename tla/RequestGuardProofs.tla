------------------------- MODULE RequestGuardProofs -------------------------
(***************************************************************************)
(* The guard lets no attempt out of the policy its request was accepted    *)
(* under, for any tables, snapshots and names and any number of requests   *)
(* and attempts.                                                           *)
(*                                                                         *)
(* What a session allows is only safe because of where it came from: every *)
(* entry of its table is a route of the pinned view that reaches the pair, *)
(* or a provider the key keeps in Bifrost.  That is Grants, which holds    *)
(* when Prepare builds the table, and nothing changes a session later.     *)
(***************************************************************************)
EXTENDS RequestGuard, WellFoundedInduction, TLAPS

Granted(s, k) == Allowlist(s.cfg, PolicyOf(s, k))

\* What makes an entry of session.allowed right.
Grants(s, k, g, t) ==
    IF g.kept THEN AttemptProvider[t] \in s.kept[k]
    ELSE /\ g.via \subseteq Granted(s, k) \cap Models
         /\ IF Several(g.via)
            THEN /\ \E m \in g.via : NativeOf[m] = t
                 /\ \A m, n \in g.via : Alias[m] = Alias[n]
            ELSE \A m \in g.via : t = NativeOf[m] \/ t \in Targets[m]

SessionOk(ss) ==
    ss.key # None =>
        /\ ss.key \in Managed(ss.snap.cfg)
        /\ \A t \in Attempts : ss.allowed[t] # None => Grants(ss.snap, ss.key, ss.allowed[t], t)

GuardInv ==
    /\ TypeOK
    /\ \A r \in Requests :
         /\ sess[r] # None => SessionOk(sess[r])
         /\ call[r] = None => sess[r] = None
         /\ sess[r] = None => \A i \in Slots : att[r][i].phase = "none"
    /\ \A r \in Requests, i \in Slots : att[r][i].phase # "none" => att[r][i].to \in Attempts
    /\ SentWithinPolicy

-----------------------------------------------------------------------------
(* The last of the names that open a pair.                                 *)

LEMMA LatestExists ==
    ASSUME NEW n \in Nat, NEW js \in SUBSET (1..n), js # {}
    PROVE  Latest(js) \in js
<1> DEFINE T == {x \in Nat : n - x \in js}
<1>1. T \subseteq Nat /\ T # {}
  <2>1. PICK j \in js : TRUE
    OBVIOUS
  <2>2. n - j \in Nat /\ n - (n - j) = j
    OBVIOUS
  <2> QED BY <2>1, <2>2
<1>2. PICK x \in T : \A y \in T : ~ (<<y, x>> \in OpToRel(<, Nat))
  BY <1>1, WFMin, NatLessThanWellFounded, Zenon
<1>3. \A y \in T : ~(y < x)
  BY <1>1, <1>2 DEF OpToRel
<1>4. ASSUME NEW i \in js
      PROVE  i <= n - x
  <2>1. n - i \in Nat /\ n - (n - i) = i
    OBVIOUS
  <2> QED BY <2>1, <1>3
<1>5. \E j \in js : \A i \in js : i <= j
  BY <1>4
<1> QED BY <1>5 DEF Latest

-----------------------------------------------------------------------------
(* Routes.                                                                 *)

LEMMA SnapshotTyped ==
    ASSUME NEW s \in Snapshots, NEW k \in Managed(s.cfg)
    PROVE  /\ s.cfg \in Configs
           /\ PolicyOf(s, k) \in Policies
           /\ k \in Keys
<1>1. s.cfg \in Configs
  BY GuardAssumption
<1>2. s.cfg.policies \in [Keys -> Policies \cup {None}]
  BY <1>1 DEF Configs
<1> QED BY <1>1, <1>2 DEF Managed, PolicyOf

LEMMA ExposedTyped ==
    ASSUME NEW c, NEW p \in Policies
    PROVE  Exposed(c, p) \subseteq Models
<1>1. ASSUME NEW a \in Aliases
      PROVE  Chosen(c, p, a) \subseteq Models
  <2>1. Offers(c, p, a) \subseteq Models
    BY DEF Offers, Offering
  <2>2. p.select[a] = None \/ p.select[a].added \subseteq Models
    BY DEF Policies, Selectors
  <2> QED BY <2>1, <2>2 DEF Chosen
<1> QED BY <1>1 DEF Exposed

\* Every route of a view reaches accesses the policy grants, and several only by one alias.
LEMMA RouteShape ==
    ASSUME NEW s \in Snapshots, NEW k \in Managed(s.cfg), NEW r \in ViewRoutes(s, k)
    PROVE  /\ r.via \subseteq Granted(s, k) \cap Models
           /\ r.via # {}
           /\ Several(r.via) => \A m, n \in r.via : Alias[m] = Alias[n]
           /\ r.bare => r.alias \in Aliases
<1> DEFINE c == s.cfg
           p == PolicyOf(s, k)
<1>1. p \in Policies
  BY SnapshotTyped
<1>2. Exposed(c, p) \subseteq Models
  BY <1>1, ExposedTyped
<1>3. r \in Routes(c, p)
  BY DEF ViewRoutes
<1>4. r.via \subseteq Granted(s, k)
  BY <1>3 DEF Granted, Allowlist
<1>5. r \in Qualified(c, p) \/ r \in Bare(c, p)
  BY <1>3 DEF Routes
<1>6. CASE r \in Qualified(c, p)
  <2>1. PICK m \in Exposed(c, p) : r = [bare |-> FALSE, alias |-> Alias[m], via |-> {m}]
    BY <1>6 DEF Qualified
  <2>2. r.via = {m} /\ r.bare = FALSE /\ m \in Models
    BY <2>1, <1>2
  <2> QED BY <2>2, <1>4 DEF Several
<1>7. CASE r \in Bare(c, p)
  <2>1. PICK a \in Aliases : /\ Exposed(c, p) \cap Offering(a) # {}
                             /\ r = [bare |-> TRUE, alias |-> a, via |-> Target(c, p, a)]
    BY <1>7 DEF Bare
  <2>2. r.via = Target(c, p, a) /\ r.alias = a
    BY <2>1
  <2>3. p.prefer[a] = None \/ p.prefer[a] \in Models
    BY <1>1 DEF Policies
  <2>4. CASE Several(Exposed(c, p) \cap Offering(a)) /\ p.prefer[a] # None
    <3>1. r.via = {p.prefer[a]}
      BY <2>2, <2>4 DEF Target
    <3> QED BY <3>1, <2>2, <2>3, <2>4, <1>4 DEF Several
  <2>5. CASE ~(Several(Exposed(c, p) \cap Offering(a)) /\ p.prefer[a] # None)
    <3>1. r.via = Exposed(c, p) \cap Offering(a)
      BY <2>2, <2>5 DEF Target
    <3> QED BY <3>1, <2>1, <2>2, <1>2, <1>4 DEF Offering
  <2> QED BY <2>4, <2>5
<1> QED BY <1>5, <1>6, <1>7

LEMMA NameTyped ==
    ASSUME NEW s \in Snapshots, NEW k \in Managed(s.cfg), NEW r \in ViewRoutes(s, k)
    PROVE  NameOf(r) \in Names
<1>1. r.via \subseteq Models /\ r.via # {} /\ (r.bare => r.alias \in Aliases)
  BY RouteShape
<1>2. (CHOOSE m \in r.via : TRUE) \in Models
  BY <1>1
<1>3. NativeOf[CHOOSE m \in r.via : TRUE] \in Attempts
  BY <1>2, GuardAssumption
<1> QED BY <1>1, <1>3 DEF NameOf, Names

\* A name that resolves grants every pair it opens.
LEMMA LookupGrants ==
    ASSUME NEW s \in Snapshots, NEW k \in Managed(s.cfg), NEW n \in Names, NEW t \in Attempts,
           Lookup(s, k, n) # None, t \in Opens(Lookup(s, k, n), n)
    PROVE  Grants(s, k, Lookup(s, k, n), t)
<1> DEFINE found == {r \in ViewRoutes(s, k) : NameOf(r) = n}
           g == Lookup(s, k, n)
<1>1. CASE found # {}
  <2>1. PICK r \in found : g = [via |-> r.via, kept |-> FALSE]
    BY <1>1, Zenon DEF Lookup
  <2>2. g.via = r.via /\ g.kept = FALSE
    BY <2>1
  <2>3. /\ r.via \subseteq Granted(s, k) \cap Models
        /\ Several(r.via) => \A m, o \in r.via : Alias[m] = Alias[o]
    BY RouteShape
  <2>4. CASE Several(r.via)
    <3>1. t \in {NativeOf[m] : m \in r.via}
      BY <2>2, <2>4 DEF Opens, Shared
    <3> QED BY <3>1, <2>2, <2>3, <2>4 DEF Grants
  <2>5. CASE ~Several(r.via)
    <3>1. t \in UNION {{NativeOf[m]} \cup Targets[m] : m \in r.via}
      BY <2>2, <2>5 DEF Opens, Shared
    <3>2. \A m \in r.via : t = NativeOf[m] \/ t \in Targets[m]
      BY <3>1, <2>5 DEF Several
    <3> QED BY <3>2, <2>2, <2>3, <2>5 DEF Grants
  <2> QED BY <2>4, <2>5
<1>2. CASE found = {}
  <2>1. /\ ~n.bare
        /\ AttemptProvider[n.id] \in s.kept[k]
        /\ g = [via |-> {}, kept |-> TRUE]
    BY <1>2 DEF Lookup
  <2>2. t = n.id /\ g.kept = TRUE
    BY <2>1 DEF Opens
  <2> QED BY <2>1, <2>2 DEF Grants
<1> QED BY <1>1, <1>2

LEMMA LookupTyped ==
    ASSUME NEW s \in Snapshots, NEW k \in Managed(s.cfg), NEW n
    PROVE  Lookup(s, k, n) \in GuardRoutes \cup {None}
<1> DEFINE found == {r \in ViewRoutes(s, k) : NameOf(r) = n}
<1>1. CASE found # {}
  <2>1. PICK r \in found : Lookup(s, k, n) = [via |-> r.via, kept |-> FALSE]
    BY <1>1, Zenon DEF Lookup
  <2>2. r.via \subseteq Models
    BY RouteShape
  <2> QED BY <2>1, <2>2 DEF GuardRoutes
<1>2. CASE found = {}
  BY <1>2 DEF Lookup, GuardRoutes
<1> QED BY <1>1, <1>2

-----------------------------------------------------------------------------
(* Sessions.                                                               *)

LEMMA PrepareIsOk ==
    ASSUME NEW s \in Snapshots, NEW c \in Calls, Prepare(s, c) # None
    PROVE  /\ Prepare(s, c) \in Sessions
           /\ SessionOk(Prepare(s, c))
<1> DEFINE bound == {k \in Managed(s.cfg) : s.token[k] = c.token}
           k == IF bound = {} THEN None ELSE CHOOSE j \in bound : TRUE
           open == [snap |-> s, key |-> k, endpoint |-> c.endpoint, allowed |-> Nothing]
           full == [open EXCEPT !.allowed = AllowedBy(s, k, c.names)]
<1>1. c.endpoint \in Paths
  BY DEF Calls, Paths
<1>2. k = None \/ (k \in Managed(s.cfg) /\ k \in Keys)
  BY DEF Managed
<1>3. Nothing \in [Attempts -> GuardRoutes \cup {None}] /\ \A t \in Attempts : Nothing[t] = None
  BY DEF Nothing
<1>4. open \in Sessions /\ SessionOk(open)
  BY <1>1, <1>2, <1>3 DEF Sessions, SessionOk
<1>5. \/ Prepare(s, c) = open
      \/ /\ Prepare(s, c) = full
         /\ k \in Managed(s.cfg) /\ c.endpoint \in Endpoints /\ Resolves(s, k, c)
  BY <1>2 DEF Prepare, Calls
<1>6. CASE /\ Prepare(s, c) = full
           /\ k \in Managed(s.cfg) /\ c.endpoint \in Endpoints /\ Resolves(s, k, c)
  <2> HIDE DEF k
  <2>1. PICK n \in Nat : c.names \in [1..n -> Asked]
    BY <1>6, GuardAssumption DEF Calls, Lists
  <2>2. ASSUME NEW t \in Attempts, Opening(s, k, c.names, t) # {}
        PROVE  \E j \in 1..n : /\ t \in Opens(Lookup(s, k, c.names[j]), c.names[j])
                               /\ AllowedBy(s, k, c.names)[t] = Lookup(s, k, c.names[j])
    <3> DEFINE js == Opening(s, k, c.names, t)
    <3>1. js \subseteq 1..n
      BY <2>1 DEF Opening
    <3>2. Latest(js) \in js
      BY <2>2, <3>1, LatestExists
    <3>3. AllowedBy(s, k, c.names)[t] = Lookup(s, k, c.names[Latest(js)])
      BY <2>2 DEF AllowedBy
    <3>4. t \in Opens(Lookup(s, k, c.names[Latest(js)]), c.names[Latest(js)])
      BY <3>2 DEF Opening
    <3> QED BY <3>1, <3>2, <3>3, <3>4
  <2>3. ASSUME NEW t \in Attempts, Opening(s, k, c.names, t) = {}
        PROVE  AllowedBy(s, k, c.names)[t] = None
    BY <2>3 DEF AllowedBy
  <2>4. ASSUME NEW t \in Attempts
        PROVE  /\ AllowedBy(s, k, c.names)[t] \in GuardRoutes \cup {None}
               /\ AllowedBy(s, k, c.names)[t] # None => Grants(s, k, AllowedBy(s, k, c.names)[t], t)
    <3>1. CASE Opening(s, k, c.names, t) = {}
      BY <3>1, <2>3
    <3>2. CASE Opening(s, k, c.names, t) # {}
      <4>1. PICK j \in 1..n : /\ t \in Opens(Lookup(s, k, c.names[j]), c.names[j])
                              /\ AllowedBy(s, k, c.names)[t] = Lookup(s, k, c.names[j])
        BY <2>2, <3>2
      <4>2. c.names[j] \in Names
        BY <2>1, GuardAssumption
      <4>3. Lookup(s, k, c.names[j]) # None
        BY <1>6, <2>1 DEF Resolves
      <4>4. Grants(s, k, Lookup(s, k, c.names[j]), t)
        BY <1>6, <4>1, <4>2, <4>3, LookupGrants
      <4> QED BY <1>6, <4>1, <4>4, LookupTyped
    <3> QED BY <3>1, <3>2
  <2>5. AllowedBy(s, k, c.names) \in [Attempts -> GuardRoutes \cup {None}]
    <3>1. AllowedBy(s, k, c.names) = [t \in Attempts |-> AllowedBy(s, k, c.names)[t]]
      BY DEF AllowedBy
    <3> QED BY <2>4, <3>1
  <2>6. /\ full.snap = s /\ full.key = k /\ full.endpoint = c.endpoint
        /\ full.allowed = AllowedBy(s, k, c.names)
        /\ full = [snap |-> s, key |-> k, endpoint |-> c.endpoint, allowed |-> AllowedBy(s, k, c.names)]
    OBVIOUS
  <2>7. full \in Sessions
    BY <1>1, <1>2, <2>5, <2>6 DEF Sessions
  <2>8. SessionOk(full)
    BY <1>6, <2>4, <2>6 DEF SessionOk
  <2> QED BY <1>6, <2>7, <2>8
<1> QED BY <1>4, <1>5, <1>6

\* What the checks of an attempt let through is within the pinned policy.
LEMMA CheckedIsInReach ==
    ASSUME NEW ss \in Sessions, SessionOk(ss), NEW t \in Attempts,
           ss.key # None, ss.endpoint # "models", CheckAttempt(ss, t)
    PROVE  t \in Reach(ss)
<1> DEFINE s == ss.snap
           k == ss.key
           g == ss.allowed[t]
<1>1. s \in Snapshots /\ k \in Managed(s.cfg)
  BY DEF Sessions, SessionOk
<1>2. ASSUME NEW m \in Granted(s, k) \cap Models, ss.endpoint \in Serves[m],
             t = NativeOf[m] \/ t \in Targets[m]
      PROVE  t \in Reach(ss)
  BY <1>2 DEF Reach, Granted
<1>3. CASE g # None /\ Accepts(ss, g, t)
  <2>1. Grants(s, k, g, t)
    BY <1>3 DEF SessionOk
  <2>2. CASE g.kept
    BY <2>1, <2>2 DEF Grants, Reach
  <2>3. CASE ~g.kept
    <3>1. PICK m \in g.via : /\ ss.endpoint \in Serves[m]
                             /\ Several(g.via) => Provider[m] = AttemptProvider[t]
      BY <1>3, <2>3 DEF Accepts, Shared
    <3>2. g.via \subseteq Granted(s, k) \cap Models
      BY <2>1, <2>3 DEF Grants
    <3>3. CASE Several(g.via)
      <4>1. PICK n \in g.via : NativeOf[n] = t
        BY <2>1, <2>3, <3>3 DEF Grants
      <4>2. Alias[m] = Alias[n]
        BY <2>1, <2>3, <3>3 DEF Grants
      <4>3. Provider[m] = Provider[n]
        BY <3>1, <3>2, <3>3, <4>1, GuardAssumption
      <4>4. m = n
        BY <3>2, <4>2, <4>3, NativeNamesAssumption
      <4> QED BY <3>1, <3>2, <4>1, <4>4, <1>2
    <3>4. CASE ~Several(g.via)
      <4>1. t = NativeOf[m] \/ t \in Targets[m]
        BY <2>1, <2>3, <3>4 DEF Grants
      <4> QED BY <3>1, <3>2, <4>1, <1>2
    <3> QED BY <3>3, <3>4
  <2> QED BY <2>2, <2>3
<1>4. CASE \E m \in ExposedAs(ss, t) : ss.endpoint \in Serves[m]
  <2>1. PICK m \in ExposedAs(ss, t) : ss.endpoint \in Serves[m]
    BY <1>4
  <2>2. PICK r \in ViewRoutes(s, k) : r.via = {m}
    BY <2>1 DEF ExposedAs
  <2>3. m \in Granted(s, k) \cap Models
    BY <1>1, <2>2, RouteShape
  <2>4. NativeOf[m] = t
    BY <2>1 DEF ExposedAs
  <2> QED BY <2>1, <2>3, <2>4, <1>2
<1> QED BY <1>3, <1>4 DEF CheckAttempt

LEMMA VerifiedIsConfirmed ==
    ASSUME NEW ss \in Sessions, NEW id \in Keys \cup {None}, VerifyIdentity(ss, id)
    PROVE  Confirmed(ss, id)
BY DEF VerifyIdentity, Confirmed, Managed

-----------------------------------------------------------------------------
(* Steps.                                                                  *)

Records == [Requests -> [Slots -> AttemptRecords]]

LEMMA PhaseShape ==
    ASSUME att \in Records, NEW r \in Requests, NEW i \in Slots, NEW ph \in Phases, Phase(r, i, ph)
    PROVE  /\ att' \in Records
           /\ \A q \in Requests, j \in Slots :
                /\ att'[q][j].id = att[q][j].id
                /\ att'[q][j].to = att[q][j].to
                /\ att'[q][j].phase = IF q = r /\ j = i THEN ph ELSE att[q][j].phase
<1>1. att[r] \in [Slots -> AttemptRecords] /\ att[r][i] \in AttemptRecords
  BY DEF Records
<1> DEFINE rec == [phase |-> ph, id |-> att[r][i].id, to |-> att[r][i].to]
<1>2. rec \in AttemptRecords /\ rec.id = att[r][i].id /\ rec.to = att[r][i].to /\ rec.phase = ph
  BY <1>1 DEF AttemptRecords
<1>3. att' = [att EXCEPT ![r] = [att[r] EXCEPT ![i] = rec]]
  BY DEF Phase, Move
<1> HIDE DEF rec
<1>4. [att[r] EXCEPT ![i] = rec] \in [Slots -> AttemptRecords]
  BY <1>1, <1>2
<1>5. att' \in Records
  BY <1>3, <1>4 DEF Records
<1>6. \A q \in Requests, j \in Slots : att'[q][j] = IF q = r /\ j = i THEN rec ELSE att[q][j]
  BY <1>1, <1>3 DEF Records
<1> QED BY <1>2, <1>5, <1>6

LEMMA AttemptShape ==
    ASSUME att \in Records, NEW r \in Requests, NEW i \in Slots,
           NEW id \in Keys \cup {None}, NEW t \in Attempts, Attempt(r, i, id, t)
    PROVE  /\ att' \in Records
           /\ \A q \in Requests, j \in Slots :
                IF q = r /\ j = i THEN att'[q][j] = [phase |-> "pre", id |-> id, to |-> t]
                ELSE att'[q][j] = att[q][j]
<1> DEFINE rec == [phase |-> "pre", id |-> id, to |-> t]
<1>1. att[r] \in [Slots -> AttemptRecords] /\ rec \in AttemptRecords
  BY DEF Records, AttemptRecords, Phases
<1>2. att' = [att EXCEPT ![r] = [att[r] EXCEPT ![i] = rec]]
  BY DEF Attempt, Move
<1> HIDE DEF rec
<1>3. [att[r] EXCEPT ![i] = rec] \in [Slots -> AttemptRecords]
  BY <1>1
<1>4. att' \in Records
  BY <1>2, <1>3 DEF Records
<1>5. \A q \in Requests, j \in Slots : att'[q][j] = IF q = r /\ j = i THEN rec ELSE att[q][j]
  BY <1>1, <1>2 DEF Records
<1> QED BY <1>4, <1>5 DEF rec

\* The actions of a request that move one attempt to another phase: to "sent" only by
\* the pre-hook, and to the others of Reached only from one of them.
Moves(r, i) ==
    \/ PreLLM(r, i)
    \/ \E ok \in BOOLEAN : PostLLM(r, i, ok)
    \/ PostLLMLoad(r, i)

Gone == {"sent", "stamped", "failed", "done"}

LEMMA MoveShape ==
    ASSUME att \in Records, NEW r \in Requests, NEW i \in Slots, Moves(r, i)
    PROVE  \E ph \in Phases :
             /\ Phase(r, i, ph)
             /\ ph # "none" /\ att[r][i].phase # "none"
             /\ ph \in Gone =>
                  \/ att[r][i].phase \in Gone
                  \/ /\ VerifyIdentity(sess[r], att[r][i].id)
                     /\ CheckAttempt(sess[r], att[r][i].to)
<1>1. CASE PreLLM(r, i)
  BY <1>1 DEF PreLLM, Phases, Gone
<1>2. ASSUME NEW ok \in BOOLEAN, PostLLM(r, i, ok) PROVE
             \E ph \in Phases : /\ Phase(r, i, ph)
                                /\ ph # "none" /\ att[r][i].phase # "none"
                                /\ ph \in Gone => att[r][i].phase \in Gone
  BY <1>2 DEF PostLLM, Phases, Gone
<1>3. CASE PostLLMLoad(r, i)
  BY <1>3 DEF PostLLMLoad, Phases, Gone
<1> QED BY <1>1, <1>2, <1>3 DEF Moves

\* The actions after which every session and attempt is as before.
Elsewhere ==
    \/ Start \/ Cleanup \/ Publish
    \/ \E r \in Requests :
         \/ \E seen \in Keys \cup {None} :
              \/ AnswerUnmanaged(r, seen)
              \/ AnswerInference(r, seen)
              \/ \E native \in SUBSET Names : AnswerListing(r, seen, native)
         \/ Fail(r)
    \/ UNCHANGED vars

LEMMA StepKinds ==
    ASSUME [Next]_vars
    PROVE  \/ Elsewhere
           \/ \E r \in Requests, c \in Calls : PreHook(r, c)
           \/ \E r \in Requests, i \in Slots, id \in Keys \cup {None}, t \in Attempts :
                Attempt(r, i, id, t)
           \/ \E r \in Requests, i \in Slots : Moves(r, i)
BY DEF Next, Elsewhere, Moves

LEMMA ElsewhereKeeps ==
    ASSUME Elsewhere
    PROVE  UNCHANGED <<call, sess, att>>
BY DEF Elsewhere, Start, Cleanup, Publish, AnswerUnmanaged, AnswerInference, AnswerListing, Fail, vars

LEMMA ProjectTyped ==
    ASSUME NEW ss \in Sessions, SessionOk(ss), ss.key # None, NEW native \in SUBSET Names
    PROVE  Project(ss, native) \subseteq Names
<1>1. ss.snap \in Snapshots /\ ss.key \in Managed(ss.snap.cfg)
  BY DEF Sessions, SessionOk
<1>2. \A r \in ViewRoutes(ss.snap, ss.key) : NameOf(r) \in Names
  BY <1>1, NameTyped
<1> QED BY <1>2 DEF Project

LEMMA TypeStep ==
    ASSUME GuardInv, [Next]_vars
    PROVE  TypeOK'
<1>1. TypeOK /\ att \in Records
  BY DEF GuardInv, TypeOK, Records
<1>2. CASE Elsewhere
  <2>1. CASE Start \/ Cleanup \/ Publish \/ UNCHANGED vars
    BY <1>1, <2>1 DEF TypeOK, Start, Cleanup, Publish, vars
  <2>2. ASSUME NEW r \in Requests, Fail(r) PROVE TypeOK'
    <3>1. answer' \in [Requests -> Answers]
      BY <1>1, <2>2 DEF TypeOK, Fail, Reply, Answers
    <3> QED BY <1>1, <2>2, <3>1 DEF TypeOK, Fail
  <2>3. ASSUME NEW r \in Requests, NEW seen, AnswerUnmanaged(r, seen) PROVE TypeOK'
    <3>1. answer' \in [Requests -> Answers]
      BY <1>1, <2>3 DEF TypeOK, AnswerUnmanaged, Reply, Answers
    <3> QED BY <1>1, <2>3, <3>1 DEF TypeOK, AnswerUnmanaged
  <2>4. ASSUME NEW r \in Requests, NEW seen, AnswerInference(r, seen) PROVE TypeOK'
    <3>1. answer' \in [Requests -> Answers]
      BY <1>1, <2>4 DEF TypeOK, AnswerInference, Reply, Answers
    <3> QED BY <1>1, <2>4, <3>1 DEF TypeOK, AnswerInference
  <2>5. ASSUME NEW r \in Requests, NEW seen, NEW native \in SUBSET Names,
               AnswerListing(r, seen, native)
        PROVE  TypeOK'
    <3>1. sess[r] \in Sessions /\ SessionOk(sess[r]) /\ sess[r].key # None
      BY <1>1, <2>5 DEF GuardInv, TypeOK, AnswerListing, Answered, Settled, Open
    <3>2. Project(sess[r], native) \in SUBSET Names
      BY <3>1, ProjectTyped
    <3> DEFINE listed == Project(sess[r], native)
    <3>3. Reply(r, "error", {}) \/ Reply(r, "list", listed)
      BY <2>5 DEF AnswerListing
    <3> HIDE DEF listed
    <3>4. listed \in SUBSET Names
      BY <3>2 DEF listed
    <3>5. answer' \in [Requests -> Answers]
      BY <1>1, <3>3, <3>4 DEF TypeOK, Reply, Answers
    <3>6. identity' \in [Requests -> 0..2]
      BY <1>1, <2>5 DEF TypeOK, AnswerListing
    <3> QED BY <1>1, <2>5, <3>5, <3>6 DEF TypeOK, AnswerListing
  <2> QED BY <1>2, <2>1, <2>2, <2>3, <2>4, <2>5 DEF Elsewhere
<1>3. ASSUME NEW r \in Requests, NEW c \in Calls, PreHook(r, c) PROVE TypeOK'
  <2>1. sess'[r] \in Sessions \cup {None}
    <3>1. current # None => current \in Snapshots
      BY <1>1 DEF TypeOK
    <3>2. sess'[r] = None \/ (current \in Snapshots /\ sess'[r] = Prepare(current, c))
      BY <1>1, <1>3, <3>1 DEF PreHook, TypeOK
    <3> QED BY <3>2, PrepareIsOk
  <2>2. sess' \in [Requests -> Sessions \cup {None}]
    BY <1>1, <1>3, <2>1 DEF PreHook, TypeOK
  <2>3. DOMAIN call' = Requests /\ \A q \in Requests : call'[q] = None \/ call'[q] \in Calls
    BY <1>1, <1>3 DEF PreHook, TypeOK
  <2>4. answer' \in [Requests -> Answers]
    BY <1>1, <1>3 DEF PreHook, TypeOK, Reply, Answers
  <2> QED BY <1>1, <1>3, <2>2, <2>3, <2>4 DEF PreHook, TypeOK
<1>4. ASSUME NEW r \in Requests, NEW i \in Slots, NEW id \in Keys \cup {None}, NEW t \in Attempts,
             Attempt(r, i, id, t)
      PROVE  TypeOK'
  <2>1. att' \in Records
    BY <1>1, <1>4, AttemptShape
  <2> QED BY <1>1, <1>4, <2>1 DEF TypeOK, Attempt, Records
<1>5. ASSUME NEW r \in Requests, NEW i \in Slots, Moves(r, i) PROVE TypeOK'
  <2>1. att' \in Records
    <3>1. PICK ph \in Phases : Phase(r, i, ph)
      BY <1>1, <1>5, MoveShape
    <3> QED BY <1>1, <3>1, PhaseShape
  <2>2. identity' \in [Requests -> 0..2]
    BY <1>1, <1>5 DEF Moves, TypeOK, PreLLM, PostLLM, PostLLMLoad, CompareAndSwap
  <2>3. UNCHANGED <<current, call, sess, answer>>
    BY <1>5 DEF Moves, PreLLM, PostLLM, PostLLMLoad
  <2> QED BY <1>1, <2>1, <2>2, <2>3 DEF TypeOK, Records
<1> QED BY <1>2, <1>3, <1>4, <1>5, StepKinds

\* No session, call or attempt changes: so do the facts about them.
LEMMA SentDepends ==
    ASSUME SentWithinPolicy, UNCHANGED <<call, sess, att>>
    PROVE  SentWithinPolicy'
BY ZenonT(40) DEF SentWithinPolicy, Reached, Inference, Confirmed, Reach

LEMMA SessionStep ==
    ASSUME GuardInv, [Next]_vars
    PROVE  (\A r \in Requests :
              /\ sess[r] # None => SessionOk(sess[r])
              /\ call[r] = None => sess[r] = None
              /\ sess[r] = None => \A i \in Slots : att[r][i].phase = "none")'
<1>1. /\ att \in Records
      /\ \A r \in Requests :
           /\ sess[r] # None => SessionOk(sess[r])
           /\ call[r] = None => sess[r] = None
           /\ sess[r] = None => \A i \in Slots : att[r][i].phase = "none"
      /\ sess \in [Requests -> Sessions \cup {None}]
      /\ DOMAIN call = Requests
      /\ current \in Snapshots \cup {None}
  BY DEF GuardInv, TypeOK, Records
<1>2. CASE Elsewhere
  BY <1>1, <1>2, ElsewhereKeeps DEF SessionOk
<1>3. ASSUME NEW r \in Requests, NEW c \in Calls, PreHook(r, c)
      PROVE  \A q \in Requests :
               /\ sess'[q] # None => SessionOk(sess'[q])
               /\ call'[q] = None => sess'[q] = None
               /\ sess'[q] = None => \A i \in Slots : att'[q][i].phase = "none"
  <2>1. /\ att' = att
        /\ \A q \in Requests \ {r} : sess'[q] = sess[q] /\ call'[q] = call[q]
        /\ call'[r] = c /\ call[r] = None
        /\ sess'[r] = IF current = None THEN None ELSE Prepare(current, c)
    BY <1>1, <1>3 DEF PreHook
  <2>2. c # None
    BY GuardAssumption
  <2>3. sess'[r] # None => SessionOk(sess'[r])
    BY <1>1, <2>1, PrepareIsOk
  <2> QED BY <1>1, <2>1, <2>2, <2>3
<1>4. ASSUME NEW r \in Requests, NEW i \in Slots, NEW id \in Keys \cup {None}, NEW t \in Attempts,
             Attempt(r, i, id, t)
      PROVE  UNCHANGED <<call, sess>> /\ sess[r] # None
             /\ \A q \in Requests \ {r}, j \in Slots : att'[q][j] = att[q][j]
  <2>1. ASSUME NEW q \in Requests, q # r, NEW j \in Slots
        PROVE  att'[q][j] = att[q][j]
    <3>1. IF q = r /\ j = i THEN att'[q][j] = [phase |-> "pre", id |-> id, to |-> t]
          ELSE att'[q][j] = att[q][j]
      BY <1>1, <1>4, AttemptShape
    <3> QED BY <2>1, <3>1
  <2> QED BY <1>4, <2>1 DEF Attempt, Open
<1>5. ASSUME NEW r \in Requests, NEW i \in Slots, Moves(r, i)
      PROVE  UNCHANGED <<call, sess>> /\ sess[r] # None
             /\ \A q \in Requests \ {r}, j \in Slots : att'[q][j].phase = att[q][j].phase
  <2>1. PICK ph \in Phases : Phase(r, i, ph) /\ att[r][i].phase # "none"
    BY <1>1, <1>5, MoveShape
  <2>2. UNCHANGED <<call, sess>>
    BY <1>5 DEF Moves, PreLLM, PostLLM, PostLLMLoad
  <2> QED BY <1>1, <2>1, <2>2, PhaseShape
<1>6. ASSUME NEW r \in Requests, UNCHANGED <<call, sess>>, sess[r] # None,
             \A q \in Requests \ {r}, j \in Slots : att'[q][j].phase = att[q][j].phase
      PROVE  \A q \in Requests :
               /\ sess'[q] # None => SessionOk(sess'[q])
               /\ call'[q] = None => sess'[q] = None
               /\ sess'[q] = None => \A i \in Slots : att'[q][i].phase = "none"
  BY <1>1, <1>6
<1>7. \/ Elsewhere
      \/ \A q \in Requests :
           /\ sess'[q] # None => SessionOk(sess'[q])
           /\ call'[q] = None => sess'[q] = None
           /\ sess'[q] = None => \A i \in Slots : att'[q][i].phase = "none"
  BY <1>3, <1>4, <1>5, <1>6, StepKinds
<1> QED BY <1>2, <1>7 DEF SessionOk

LEMMA AimStep ==
    ASSUME GuardInv, [Next]_vars
    PROVE  (\A r \in Requests, i \in Slots : att[r][i].phase # "none" => att[r][i].to \in Attempts)'
<1>1. /\ att \in Records
      /\ \A r \in Requests, i \in Slots : att[r][i].phase # "none" => att[r][i].to \in Attempts
  BY DEF GuardInv, TypeOK, Records
<1>2. CASE Elsewhere
  BY <1>1, <1>2, ElsewhereKeeps
<1>3. ASSUME NEW r \in Requests, NEW c \in Calls, PreHook(r, c) PROVE att' = att
  BY <1>3 DEF PreHook
<1>4. ASSUME NEW r \in Requests, NEW i \in Slots, NEW id \in Keys \cup {None}, NEW t \in Attempts,
             Attempt(r, i, id, t), NEW q \in Requests, NEW j \in Slots, att'[q][j].phase # "none"
      PROVE  att'[q][j].to \in Attempts
  <2>1. IF q = r /\ j = i THEN att'[q][j] = [phase |-> "pre", id |-> id, to |-> t]
        ELSE att'[q][j] = att[q][j]
    BY <1>1, <1>4, AttemptShape
  <2> QED BY <1>1, <1>4, <2>1
<1>5. ASSUME NEW r \in Requests, NEW i \in Slots, Moves(r, i),
             NEW q \in Requests, NEW j \in Slots, att'[q][j].phase # "none"
      PROVE  att'[q][j].to \in Attempts
  <2>1. PICK ph \in Phases : Phase(r, i, ph) /\ att[r][i].phase # "none"
    BY <1>1, <1>5, MoveShape
  <2>2. /\ att'[q][j].to = att[q][j].to
        /\ att'[q][j].phase = IF q = r /\ j = i THEN ph ELSE att[q][j].phase
    BY <1>1, <2>1, PhaseShape
  <2> QED BY <1>1, <1>5, <2>1, <2>2
<1> QED BY <1>1, <1>2, <1>3, <1>4, <1>5, StepKinds

LEMMA SentStep ==
    ASSUME GuardInv, [Next]_vars
    PROVE  SentWithinPolicy'
<1>1. /\ att \in Records /\ SentWithinPolicy
      /\ sess \in [Requests -> Sessions \cup {None}]
      /\ \A r \in Requests :
           /\ sess[r] # None => SessionOk(sess[r])
           /\ call[r] = None => sess[r] = None
           /\ sess[r] = None => \A i \in Slots : att[r][i].phase = "none"
      /\ \A r \in Requests, i \in Slots : att[r][i].phase # "none" => att[r][i].to \in Attempts
  BY DEF GuardInv, TypeOK, Records
<1> DEFINE Fine(r, a) == /\ Confirmed(sess[r], a.id)
                         /\ Inference(r) => a.to \in Reach(sess[r])
<1>2. \A r \in Requests, i \in Slots : att[r][i].phase \in Gone => Fine(r, att[r][i])
  BY <1>1 DEF SentWithinPolicy, Reached, Gone
<1>3. CASE Elsewhere
  BY <1>1, <1>3, ElsewhereKeeps, SentDepends
<1>4. ASSUME NEW r \in Requests, NEW c \in Calls, PreHook(r, c)
      PROVE  SentWithinPolicy'
  <2>1. att' = att /\ \A q \in Requests \ {r} : sess'[q] = sess[q]
    BY <1>1, <1>4 DEF PreHook
  <2>2. \A i \in Slots : att[r][i].phase = "none"
    BY <1>1, <1>4 DEF PreHook
  <2>3. ASSUME NEW q \in Requests, NEW i \in Slots, att'[q][i].phase \in Gone
        PROVE  /\ q # r
               /\ Fine(q, att[q][i])
    BY <1>2, <2>1, <2>2, <2>3 DEF Gone
  <2>4. ASSUME NEW q \in Requests, NEW i \in Slots, att'[q][i].phase \in Gone
        PROVE  /\ Confirmed(sess'[q], att'[q][i].id)
               /\ Inference(q)' => att'[q][i].to \in Reach(sess'[q])
    BY <2>1, <2>3, <2>4 DEF Inference
  <2> QED BY <2>4 DEF SentWithinPolicy, Reached, Gone
<1>5. ASSUME NEW r \in Requests, NEW i \in Slots, NEW id \in Keys \cup {None}, NEW t \in Attempts,
             Attempt(r, i, id, t)
      PROVE  SentWithinPolicy'
  <2>1. sess' = sess
    BY <1>5 DEF Attempt
  <2>2. ASSUME NEW q \in Requests, NEW j \in Slots, att'[q][j].phase \in Gone
        PROVE  att'[q][j] = att[q][j]
    <3>1. IF q = r /\ j = i THEN att'[q][j] = [phase |-> "pre", id |-> id, to |-> t]
          ELSE att'[q][j] = att[q][j]
      BY <1>1, <1>5, AttemptShape
    <3> QED BY <2>2, <3>1 DEF Gone
  <2>3. ASSUME NEW q \in Requests, NEW j \in Slots, att'[q][j].phase \in Gone
        PROVE  /\ Confirmed(sess'[q], att'[q][j].id)
               /\ Inference(q)' => att'[q][j].to \in Reach(sess'[q])
    BY <1>2, <2>1, <2>2, <2>3 DEF Inference
  <2> QED BY <2>3 DEF SentWithinPolicy, Reached, Gone
<1>6. ASSUME NEW r \in Requests, NEW i \in Slots, Moves(r, i)
      PROVE  SentWithinPolicy'
  <2>1. PICK ph \in Phases :
             /\ Phase(r, i, ph)
             /\ att[r][i].phase # "none"
             /\ ph \in Gone =>
                  \/ att[r][i].phase \in Gone
                  \/ /\ VerifyIdentity(sess[r], att[r][i].id)
                     /\ CheckAttempt(sess[r], att[r][i].to)
    BY <1>1, <1>6, MoveShape
  <2>2. sess' = sess
    BY <1>6 DEF Moves, PreLLM, PostLLM, PostLLMLoad
  <2>3. \A q \in Requests, j \in Slots :
          /\ att'[q][j].id = att[q][j].id
          /\ att'[q][j].to = att[q][j].to
          /\ att'[q][j].phase = IF q = r /\ j = i THEN ph ELSE att[q][j].phase
    BY <1>1, <2>1, PhaseShape
  <2>4. ASSUME ph \in Gone
        PROVE  Fine(r, att[r][i])
    <3>1. CASE att[r][i].phase \in Gone
      BY <1>2, <3>1
    <3>2. CASE VerifyIdentity(sess[r], att[r][i].id) /\ CheckAttempt(sess[r], att[r][i].to)
      <4>1. sess[r] \in Sessions /\ SessionOk(sess[r])
        BY <1>1, <2>1
      <4>2. att[r][i].id \in Keys \cup {None} /\ att[r][i].to \in Attempts \cup {None}
        BY <1>1 DEF Records, AttemptRecords
      <4>3. Confirmed(sess[r], att[r][i].id)
        BY <3>2, <4>1, <4>2, VerifiedIsConfirmed
      <4>4. att[r][i].to \in Attempts
        BY <1>1, <2>1
      <4>5. Inference(r) => att[r][i].to \in Reach(sess[r])
        BY <3>2, <4>1, <4>4, CheckedIsInReach DEF Inference
      <4> QED BY <4>3, <4>5
    <3> QED BY <2>1, <2>4, <3>1, <3>2
  <2>5. ASSUME NEW q \in Requests, NEW j \in Slots, att'[q][j].phase \in Gone
        PROVE  /\ Confirmed(sess'[q], att'[q][j].id)
               /\ Inference(q)' => att'[q][j].to \in Reach(sess'[q])
    BY <1>2, <2>2, <2>3, <2>4, <2>5 DEF Inference
  <2> QED BY <2>5 DEF SentWithinPolicy, Reached, Gone
<1> QED BY <1>3, <1>4, <1>5, <1>6, StepKinds

-----------------------------------------------------------------------------
THEOREM GuardInvariant == Spec => []GuardInv
<1>1. Init => GuardInv
  <2> SUFFICES ASSUME Init PROVE GuardInv
    OBVIOUS
  <2>1. \A r \in Requests, i \in Slots : att[r][i].phase = "none"
    BY DEF Init
  <2>2. TypeOK
    BY DEF Init, TypeOK, AttemptRecords, Phases, Answers
  <2>3. \A r \in Requests : sess[r] = None
    BY DEF Init
  <2> QED BY <2>1, <2>2, <2>3 DEF GuardInv, SentWithinPolicy, Reached
<1>2. GuardInv /\ [Next]_vars => GuardInv'
  BY TypeStep, SessionStep, AimStep, SentStep DEF GuardInv
<1> QED BY <1>1, <1>2, PTL DEF Spec

\* Sessions, attempts and answers keep their type; in particular a listing shows names of
\* the registry only.
THEOREM GuardTypeCorrect == Spec => []TypeOK
<1>1. GuardInv => TypeOK
  BY DEF GuardInv
<1> QED BY <1>1, GuardInvariant, PTL

\* A provider is only reached for the identity the request was bound to, and within the
\* policy that was published when it arrived.
THEOREM SentIsWithinPolicy == Spec => []SentWithinPolicy
<1>1. GuardInv => SentWithinPolicy
  BY DEF GuardInv
<1> QED BY <1>1, GuardInvariant, PTL

-----------------------------------------------------------------------------
(* What is offered is served.                                              *)

\* A session is what Prepare made of the call under the snapshot it pins.
PreparedInv ==
    \A r \in Requests : sess[r] # None =>
        call[r] \in Calls /\ sess[r].snap \in Snapshots /\ sess[r] = Prepare(sess[r].snap, call[r])

LEMMA PrepareShape ==
    ASSUME NEW s \in Snapshots, NEW c \in Calls, NEW ss, ss = Prepare(s, c), ss # None
    PROVE  /\ ss.snap = s /\ ss.endpoint = c.endpoint
           /\ ss.key # None =>
                /\ ss.key = CHOOSE j \in {k \in Managed(s.cfg) : s.token[k] = c.token} : TRUE
                /\ {k \in Managed(s.cfg) : s.token[k] = c.token} # {}
                /\ ss.key \in Managed(s.cfg)
                /\ PolicyOf(s, ss.key).on /\ c.endpoint # "other"
                /\ c.endpoint # "models" =>
                     /\ c.endpoint \in Endpoints /\ Resolves(s, ss.key, c)
                     /\ ss.allowed = AllowedBy(s, ss.key, c.names)
<1> DEFINE bound == {k \in Managed(s.cfg) : s.token[k] = c.token}
           k == IF bound = {} THEN None ELSE CHOOSE j \in bound : TRUE
           open == [snap |-> s, key |-> k, endpoint |-> c.endpoint, allowed |-> Nothing]
           full == [open EXCEPT !.allowed = AllowedBy(s, k, c.names)]
<1>1. /\ open.snap = s /\ open.key = k /\ open.endpoint = c.endpoint
      /\ full.snap = s /\ full.key = k /\ full.endpoint = c.endpoint
      /\ full.allowed = AllowedBy(s, k, c.names)
  OBVIOUS
<1>2. \/ bound = {} /\ ss = open
      \/ /\ bound # {} /\ PolicyOf(s, k).on /\ c.endpoint # "other"
         /\ \/ c.endpoint = "models" /\ ss = open
            \/ c.endpoint # "models" /\ Resolves(s, k, c) /\ ss = full
  BY DEF Prepare
<1>3. c.endpoint \in Endpoints \cup {"models", "other"}
  BY DEF Calls
<1>4. bound # {} => k \in bound
  OBVIOUS
<1> HIDE DEF open, full
<1> QED BY <1>1, <1>2, <1>3, <1>4

LEMMA LookupFound ==
    ASSUME NEW s \in Snapshots, NEW k \in Managed(s.cfg), NEW r \in ViewRoutes(s, k)
    PROVE  /\ Lookup(s, k, NameOf(r)).kept = FALSE
           /\ Lookup(s, k, NameOf(r)).via \subseteq Models
           /\ Lookup(s, k, NameOf(r)).via # {}
           /\ Lookup(s, k, NameOf(r)) # None
<1> DEFINE found == {v \in ViewRoutes(s, k) : NameOf(v) = NameOf(r)}
<1>1. PICK v \in found : Lookup(s, k, NameOf(r)) = [via |-> v.via, kept |-> FALSE]
  <2>1. found # {}
    OBVIOUS
  <2> QED BY <2>1, Zenon DEF Lookup
<1>2. v.via \subseteq Models /\ v.via # {}
  BY RouteShape
<1>3. [via |-> v.via, kept |-> FALSE] \in GuardRoutes
  BY <1>2 DEF GuardRoutes
<1>4. Lookup(s, k, NameOf(r)) # None
  BY <1>1, <1>3, ServiceAssumption
<1>5. Lookup(s, k, NameOf(r)).via = v.via /\ Lookup(s, k, NameOf(r)).kept = FALSE
  BY <1>1
<1> QED BY <1>2, <1>4, <1>5

\* The session of a call that names one thing it may call.
LEMMA OneNameIsServed ==
    ASSUME NEW s \in Snapshots, NEW token \in Tokens, NEW e \in Endpoints, NEW n, NEW t \in Attempts,
           NEW k \in Managed(s.cfg), PolicyOf(s, k).on,
           {j \in Managed(s.cfg) : s.token[j] = token} # {},
           k = CHOOSE j \in {j \in Managed(s.cfg) : s.token[j] = token} : TRUE,
           NEW g, g = Lookup(s, k, n), g # None, Offered(g, e), t \in Opens(g, n),
           g.kept \/ \E m \in g.via : e \in Serves[m] /\ (Shared(g) => Provider[m] = AttemptProvider[t])
    PROVE  LET ss == Prepare(s, [token |-> token, endpoint |-> e, names |-> <<n>>])
           IN  ss # None /\ CheckAttempt(ss, t)
<1> DEFINE c == [token |-> token, endpoint |-> e, names |-> <<n>>]
           bound == {j \in Managed(s.cfg) : s.token[j] = token}
           full == [snap |-> s, key |-> k, endpoint |-> e, allowed |-> AllowedBy(s, k, <<n>>)]
<1>1. e # "other" /\ e # "models"
  BY GuardAssumption
<1>2. DOMAIN <<n>> = {1} /\ <<n>>[1] = n /\ <<n>> # << >>
  OBVIOUS
<1>3. Resolves(s, k, c)
  BY <1>2 DEF Resolves
<1>4. c.token = token /\ c.endpoint = e /\ c.names = <<n>>
  OBVIOUS
<1>5. Prepare(s, c) = full
  <2> HIDE DEF c
  <2>1. bound # {} /\ k = CHOOSE j \in bound : TRUE
    OBVIOUS
  <2> DEFINE open == [snap |-> s, key |-> k, endpoint |-> e, allowed |-> Nothing]
  <2>2. Prepare(s, c) = [open EXCEPT !.allowed = AllowedBy(s, k, <<n>>)]
    BY <1>1, <1>2, <1>3, <1>4, <2>1 DEF Prepare
  <2> QED BY <2>2
<1>6. Opening(s, k, <<n>>, t) = {1}
  BY <1>2 DEF Opening
<1>7. Latest({1}) = 1
  BY DEF Latest
<1>8. AllowedBy(s, k, <<n>>)[t] = g
  BY <1>2, <1>6, <1>7 DEF AllowedBy
<1>9. full.allowed[t] = g /\ full.endpoint = e
  BY <1>8
<1>10. Accepts(full, g, t)
  BY <1>9 DEF Accepts
<1>11. CheckAttempt(full, t)
  BY <1>9, <1>10 DEF CheckAttempt
<1>12. full # None
  <2>1. full.endpoint = e /\ k \in Keys /\ e \in Paths
    BY DEF Managed, Paths
  <2>2. AllowedBy(s, k, <<n>>) \in [Attempts -> GuardRoutes \cup {None}]
    BY LookupTyped DEF AllowedBy
  <2>3. full \in Sessions
    BY <2>1, <2>2 DEF Sessions
  <2> QED BY <2>3, ServiceAssumption
<1> QED BY <1>5, <1>11, <1>12

\* What a listing shows, a call of the same key may name.
LEMMA ProjectIsCallable ==
    ASSUME NEW s \in Snapshots, NEW c \in Calls, NEW ss, ss = Prepare(s, c), ss # None, ss.key # None,
           NEW native \in SUBSET Names, NEW n \in Project(ss, native)
    PROVE  \E e \in Endpoints :
             LET sn == Prepare(s, [token |-> c.token, endpoint |-> e, names |-> <<n>>])
             IN  sn # None /\ \E t \in Attempts : CheckAttempt(sn, t)
<1> DEFINE k == ss.key
           bound == {j \in Managed(s.cfg) : s.token[j] = c.token}
           g == Lookup(s, k, n)
<1>1. /\ ss.snap = s /\ k \in Managed(s.cfg) /\ PolicyOf(s, k).on
      /\ bound # {} /\ k = CHOOSE j \in bound : TRUE
  BY PrepareShape
<1>2. c.token \in Tokens
  BY DEF Calls
<1> HIDE DEF k
<1>3. \/ \E r \in ViewRoutes(s, k) : n = NameOf(r)
      \/ n \in native /\ ~n.bare /\ AttemptProvider[n.id] \in s.kept[k]
  BY <1>1 DEF Project, k
<1>4. CASE \E r \in ViewRoutes(s, k) : n = NameOf(r)
  <2>1. g.kept = FALSE /\ g.via \subseteq Models /\ g.via # {} /\ g # None
    <3>1. PICK r \in ViewRoutes(s, k) : n = NameOf(r)
      BY <1>4
    <3>2. /\ Lookup(s, k, NameOf(r)).kept = FALSE
          /\ Lookup(s, k, NameOf(r)).via \subseteq Models
          /\ Lookup(s, k, NameOf(r)).via # {}
          /\ Lookup(s, k, NameOf(r)) # None
      BY <1>1, LookupFound, ZenonT(40)
    <3> QED BY <3>1, <3>2
  <2>2. PICK m \in g.via : TRUE
    BY <2>1
  <2>3. PICK e \in Endpoints : e \in Serves[m]
    BY <2>1, <2>2, GuardAssumption, ServiceAssumption
  <2>4. Offered(g, e)
    BY <2>2, <2>3 DEF Offered
  <2>5. NativeOf[m] \in Attempts /\ AttemptProvider[NativeOf[m]] = Provider[m]
    BY <2>1, <2>2, GuardAssumption
  <2>6. NativeOf[m] \in Opens(g, n)
    BY <2>1, <2>2 DEF Opens
  <2> HIDE DEF g
  <2>7. g = Lookup(s, k, n)
    BY DEF g
  <2>8. LET sn == Prepare(s, [token |-> c.token, endpoint |-> e, names |-> <<n>>])
        IN  sn # None /\ CheckAttempt(sn, NativeOf[m])
    BY <1>1, <1>2, <2>1, <2>2, <2>3, <2>4, <2>5, <2>6, <2>7, OneNameIsServed
  <2> QED BY <2>5, <2>8
<1>5. CASE ~\E r \in ViewRoutes(s, k) : n = NameOf(r)
  <2>1. n \in native /\ ~n.bare /\ AttemptProvider[n.id] \in s.kept[k]
    BY <1>3, <1>5
  <2>2. g = [via |-> {}, kept |-> TRUE]
    BY <1>5, <2>1 DEF Lookup
  <2>3. n.id \in Attempts
    BY <2>1 DEF Names, Short, Full
  <2>4. g # None /\ g.kept
    <3>1. g \in GuardRoutes
      BY <2>2 DEF GuardRoutes
    <3>2. g # None
      BY <3>1, ServiceAssumption
    <3> QED BY <2>2, <3>2
  <2>5. PICK e \in Endpoints : TRUE
    BY ServiceAssumption
  <2>6. Offered(g, e) /\ n.id \in Opens(g, n)
    BY <2>4 DEF Offered, Opens
  <2> HIDE DEF g
  <2>7. g = Lookup(s, k, n)
    BY DEF g
  <2>8. LET sn == Prepare(s, [token |-> c.token, endpoint |-> e, names |-> <<n>>])
        IN  sn # None /\ CheckAttempt(sn, n.id)
    BY <1>1, <1>2, <2>3, <2>4, <2>6, <2>7, OneNameIsServed
  <2> QED BY <2>3, <2>8
<1> QED BY <1>4, <1>5

\* A later name may overwrite what an earlier one opened, but only with a route that serves the
\* same pair at the same endpoint.
LEMMA NamedIsServed ==
    ASSUME NEW s \in Snapshots, NEW c \in Calls, NEW ss, ss = Prepare(s, c), ss # None,
           ss.key # None, ss.endpoint # "models",
           NEW j \in DOMAIN c.names, NEW m \in Lookup(s, ss.key, c.names[j]).via,
           ss.endpoint \in Serves[m]
    PROVE  CheckAttempt(ss, NativeOf[m])
<1> DEFINE k == ss.key
           e == ss.endpoint
           t == NativeOf[m]
           At(i) == Lookup(s, k, c.names[i])
           js == Opening(s, k, c.names, t)
<1>1. /\ ss.snap = s /\ k \in Managed(s.cfg) /\ e = c.endpoint /\ e \in Endpoints
      /\ Resolves(s, k, c) /\ ss.allowed = AllowedBy(s, k, c.names)
  BY PrepareShape
<1>2. PICK len \in Nat : c.names \in [1..len -> Asked]
  BY <1>1, GuardAssumption DEF Calls, Lists
<1>3. DOMAIN c.names = 1..len
  BY <1>2
<1>4. \A i \in 1..len : At(i) # None /\ Offered(At(i), e) /\ At(i) \in GuardRoutes
  BY <1>1, <1>3, LookupTyped DEF Resolves
<1>5. m \in Models /\ t \in Attempts /\ AttemptProvider[t] = Provider[m]
  BY <1>3, <1>4, GuardAssumption DEF GuardRoutes
<1>6. ~At(j).kept
  <2>1. At(j) = [via |-> {}, kept |-> TRUE] \/ ~At(j).kept
    BY <1>3, <1>4, Zenon DEF Lookup
  <2> QED BY <2>1
<1>7. t \in Opens(At(j), c.names[j])
  BY <1>6 DEF Opens
<1>8. j \in js /\ js \in SUBSET (1..len)
  BY <1>3, <1>7 DEF Opening
<1>9. Latest(js) \in js
  BY <1>8, LatestExists
<1> DEFINE i == Latest(js)
<1>10. i \in 1..len /\ t \in Opens(At(i), c.names[i]) /\ AllowedBy(s, k, c.names)[t] = At(i)
  BY <1>3, <1>5, <1>8, <1>9 DEF Opening, AllowedBy
<1>11. ss.allowed[t] = At(i) /\ At(i) # None /\ Offered(At(i), e) /\ At(i).via \subseteq Models
  BY <1>1, <1>4, <1>10 DEF GuardRoutes
<1> HIDE DEF At, i, js, t, e, k
<1>12. Accepts(ss, At(i), t)
  <2>1. CASE At(i).kept
    BY <2>1 DEF Accepts
  <2>2. CASE ~At(i).kept /\ Shared(At(i))
    <3>1. PICK o \in At(i).via : NativeOf[o] = t
      BY <1>10, <2>2 DEF Opens
    <3>2. o = m
      BY <1>5, <1>11, <3>1, GuardAssumption DEF t
    <3> QED BY <1>5, <3>1, <3>2 DEF Accepts
  <2>3. CASE ~At(i).kept /\ ~Shared(At(i))
    BY <1>11, <2>3 DEF Accepts, Offered, e
  <2> QED BY <2>1, <2>2, <2>3
<1> QED BY <1>11, <1>12 DEF CheckAttempt, t

-----------------------------------------------------------------------------
(* Whose identity is confirmed.                                            *)

\* The phases of an attempt whose identity its post-hook has looked at.
Checked == {"stamped", "failed", "rejected", "done"}

\* One request, from its session, its identity, its attempts and its answer.  The identity is 2
\* once an attempt contradicted it and 1 only if one confirmed it; attempts of an inference request
\* follow each other; what a listing shows is a projection of the session.
IdentityOk(ss, v, a) ==
    /\ \A i \in Slots : a[i].phase = "rejected" /\ ~Confirmed(ss, a[i].id) => v = 2
    /\ v = 1 => \E i \in Slots : a[i].phase \in Checked /\ Confirmed(ss, a[i].id)
Sequential(ss, a) ==
    ss # None /\ ss.endpoint \in Endpoints =>
        \A i, j \in Slots : i # j /\ a[i].phase \notin {"none", "failed"} => a[j].phase \in {"none", "failed"}
AnswerOk(ss, ans) ==
    /\ ans.kind \in {"content", "list"} => ss # None
    /\ ans.names # {} => /\ ss # None /\ ss.key # None
                        /\ \E native \in SUBSET Names : ans.names = Project(ss, native)
ConfirmedAnswer(ss, a, ans) ==
    ans.kind \in {"content", "list"} =>
        /\ \E i \in Slots : Confirmed(ss, a[i].id)
        /\ \A i \in Slots : a[i].phase \in {"failed", "rejected", "done"} => Confirmed(ss, a[i].id)

RequestOk(ss, v, a, ans) ==
    IdentityOk(ss, v, a) /\ Sequential(ss, a) /\ AnswerOk(ss, ans) /\ ConfirmedAnswer(ss, a, ans)
RequestsInv == \A r \in Requests : RequestOk(sess[r], identity[r], att[r], answer[r])

ServiceInv == GuardInv /\ PreparedInv /\ RequestsInv

LEMMA ConfirmedIsVerified ==
    ASSUME NEW ss \in Sessions, NEW id \in Keys \cup {None}
    PROVE  VerifyIdentity(ss, id) <=> Confirmed(ss, id)
BY DEF VerifyIdentity, Confirmed, Managed

LEMMA PreparedStep ==
    ASSUME GuardInv, PreparedInv, [Next]_vars
    PROVE  PreparedInv'
<1>1. CASE UNCHANGED <<call, sess>>
  BY <1>1 DEF PreparedInv
<1>2. ASSUME NEW r \in Requests, NEW c \in Calls, PreHook(r, c) PROVE PreparedInv'
  <2>1. /\ DOMAIN call = Requests /\ sess \in [Requests -> Sessions \cup {None}]
        /\ current \in Snapshots \cup {None}
    BY DEF GuardInv, TypeOK
  <2>2. \A q \in Requests \ {r} : sess'[q] = sess[q] /\ call'[q] = call[q]
    BY <1>2, <2>1 DEF PreHook
  <2>3. call'[r] = c /\ sess'[r] = IF current = None THEN None ELSE Prepare(current, c)
    BY <1>2, <2>1 DEF PreHook
  <2>4. sess'[r] # None => current \in Snapshots /\ sess'[r] = Prepare(current, c) /\ sess'[r].snap = current
    BY <2>1, <2>3, PrepareShape
  <2> QED BY <2>2, <2>3, <2>4 DEF PreparedInv
<1>3. ASSUME NEW r \in Requests, NEW i \in Slots, NEW id, NEW t, Attempt(r, i, id, t)
      PROVE  UNCHANGED <<call, sess>>
  BY <1>3 DEF Attempt
<1>4. ASSUME NEW r \in Requests, NEW i \in Slots, Moves(r, i) PROVE UNCHANGED <<call, sess>>
  BY <1>4 DEF Moves, PreLLM, PostLLM, PostLLMLoad
<1> QED BY <1>1, <1>2, <1>3, <1>4, ElsewhereKeeps, StepKinds

\* Only phases and identities of attempts matter.
LEMMA RequestDepends ==
    ASSUME NEW ss, NEW v, NEW a, NEW b, NEW ans, RequestOk(ss, v, a, ans),
           \A i \in Slots : b[i].phase = a[i].phase /\ b[i].id = a[i].id
    PROVE  RequestOk(ss, v, b, ans)
BY DEF RequestOk, IdentityOk, Sequential, AnswerOk, ConfirmedAnswer

\* A step of request r leaves the others as they are.
LEMMA OthersStep ==
    ASSUME GuardInv, RequestsInv, NEW r \in Requests,
           \A q \in Requests \ {r} :
              /\ sess'[q] = sess[q] /\ identity'[q] = identity[q] /\ answer'[q] = answer[q]
              /\ \A i \in Slots : att'[q][i].phase = att[q][i].phase /\ att'[q][i].id = att[q][i].id,
           RequestOk(sess'[r], identity'[r], att'[r], answer'[r])
    PROVE  RequestsInv'
<1>1. ASSUME NEW q \in Requests, q # r PROVE RequestOk(sess'[q], identity'[q], att'[q], answer'[q])
  <2>1. RequestOk(sess[q], identity[q], att[q], answer[q])
    BY DEF RequestsInv
  <2>2. /\ sess'[q] = sess[q] /\ identity'[q] = identity[q] /\ answer'[q] = answer[q]
        /\ \A i \in Slots : att'[q][i].phase = att[q][i].phase /\ att'[q][i].id = att[q][i].id
    BY <1>1
  <2>3. RequestOk(sess[q], identity[q], att'[q], answer[q])
    BY <2>1, <2>2, RequestDepends
  <2> QED BY <2>2, <2>3
<1> QED BY <1>1 DEF RequestsInv

\* What is known of a request in a state of the invariant.
LEMMA RequestFacts ==
    ASSUME GuardInv, RequestsInv, NEW r \in Requests
    PROVE  /\ sess[r] \in Sessions \cup {None} /\ identity[r] \in 0..2 /\ answer[r] \in Answers
           /\ \A i \in Slots : att[r][i] \in AttemptRecords
           /\ RequestOk(sess[r], identity[r], att[r], answer[r])
           /\ \A i \in Slots : att[r][i].phase \in Gone => Confirmed(sess[r], att[r][i].id)
           /\ sess[r] # None =>
                \A i \in Slots : VerifyIdentity(sess[r], att[r][i].id) <=> Confirmed(sess[r], att[r][i].id)
<1>1. /\ sess[r] \in Sessions \cup {None} /\ identity[r] \in 0..2 /\ answer[r] \in Answers
      /\ \A i \in Slots : att[r][i] \in AttemptRecords
  BY DEF GuardInv, TypeOK
<1>2. \A i \in Slots : att[r][i].phase \in Gone => Confirmed(sess[r], att[r][i].id)
  BY DEF GuardInv, SentWithinPolicy, Reached, Gone
<1>3. \A i \in Slots : att[r][i].id \in Keys \cup {None}
  BY <1>1 DEF AttemptRecords
<1>4. sess[r] # None =>
        \A i \in Slots : VerifyIdentity(sess[r], att[r][i].id) <=> Confirmed(sess[r], att[r][i].id)
  BY <1>1, <1>3, ConfirmedIsVerified
<1> QED BY <1>1, <1>2, <1>4 DEF RequestsInv

LEMMA PreHookStep ==
    ASSUME GuardInv, RequestsInv, NEW r \in Requests, NEW c \in Calls, PreHook(r, c)
    PROVE  RequestsInv'
<1>1. /\ DOMAIN call = Requests /\ sess \in [Requests -> Sessions \cup {None}]
      /\ answer \in [Requests -> Answers]
      /\ sess[r] = None /\ \A i \in Slots : att[r][i].phase = "none"
  BY DEF GuardInv, TypeOK, PreHook
<1>2. RequestOk(sess[r], identity[r], att[r], answer[r])
  BY RequestFacts
<1>3. identity[r] # 1 /\ answer[r].kind \notin {"content", "list"} /\ answer[r].names = {}
  BY <1>1, <1>2 DEF RequestOk, IdentityOk, AnswerOk, Checked
<1>4. UNCHANGED <<att, identity>>
  BY DEF PreHook
<1>5. answer'[r].kind \notin {"content", "list"} /\ answer'[r].names = {}
  BY <1>1, <1>3 DEF PreHook, Reply
<1>6. RequestOk(sess'[r], identity'[r], att'[r], answer'[r])
  BY <1>1, <1>3, <1>4, <1>5 DEF RequestOk, IdentityOk, Sequential, AnswerOk, ConfirmedAnswer
<1>7. \A q \in Requests \ {r} : sess'[q] = sess[q] /\ answer'[q] = answer[q]
  BY <1>1 DEF PreHook, Reply
<1> QED BY <1>4, <1>6, <1>7, OthersStep

LEMMA AttemptStep ==
    ASSUME GuardInv, RequestsInv, NEW r \in Requests, NEW i \in Slots,
           NEW id \in Keys \cup {None}, NEW t \in Attempts, Attempt(r, i, id, t)
    PROVE  RequestsInv'
<1>1. att \in Records
  BY DEF GuardInv, TypeOK, Records
<1>2. \A q \in Requests, j \in Slots :
         IF q = r /\ j = i THEN att'[q][j] = [phase |-> "pre", id |-> id, to |-> t]
         ELSE att'[q][j] = att[q][j]
  BY <1>1, AttemptShape
<1>3. /\ att[r][i].phase = "none" /\ answer[r].kind = "none"
      /\ sess[r].endpoint \in Endpoints => \A j \in Slots : att[r][j].phase \in {"none", "failed"}
      /\ UNCHANGED <<sess, identity, answer>>
  BY DEF Attempt, Open
<1>4. RequestOk(sess[r], identity[r], att[r], answer[r])
  BY RequestFacts
<1>5. att'[r][i].phase = "pre" /\ \A j \in Slots \ {i} : att'[r][j] = att[r][j]
  BY <1>2
<1>6. IdentityOk(sess[r], identity[r], att'[r])
  BY <1>3, <1>4, <1>5 DEF RequestOk, IdentityOk, Checked
<1>7. Sequential(sess[r], att'[r])
  BY <1>3, <1>5 DEF Sequential
<1>8. AnswerOk(sess[r], answer[r]) /\ ConfirmedAnswer(sess[r], att'[r], answer[r])
  BY <1>3, <1>4 DEF RequestOk, ConfirmedAnswer
<1>9. RequestOk(sess'[r], identity'[r], att'[r], answer'[r])
  BY <1>3, <1>6, <1>7, <1>8 DEF RequestOk
<1>10. \A q \in Requests \ {r} : \A j \in Slots :
          att'[q][j].phase = att[q][j].phase /\ att'[q][j].id = att[q][j].id
  BY <1>2
<1> QED BY <1>3, <1>9, <1>10, OthersStep

LEMMA MovesStep ==
    ASSUME GuardInv, RequestsInv, NEW r \in Requests, NEW i \in Slots, Moves(r, i)
    PROVE  RequestsInv'
<1> DEFINE old == att[r]
           new == att'[r]
           ss == sess[r]
<1>1. att \in Records /\ identity \in [Requests -> 0..2]
  BY DEF GuardInv, TypeOK, Records
<1>2. UNCHANGED <<sess, answer>>
  BY DEF Moves, PreLLM, PostLLM, PostLLMLoad
<1>3. PICK ph \in Phases : Phase(r, i, ph) /\ ph # "none" /\ att[r][i].phase # "none"
  BY <1>1, MoveShape
<1>4. \A q \in Requests, j \in Slots :
         /\ att'[q][j].id = att[q][j].id
         /\ att'[q][j].phase = IF q = r /\ j = i THEN ph ELSE att[q][j].phase
  BY <1>1, <1>3, PhaseShape
<1>5. /\ new[i].phase = ph /\ \A j \in Slots : new[j].id = old[j].id
      /\ \A j \in Slots \ {i} : new[j].phase = old[j].phase
  BY <1>4
<1>6. /\ identity[r] \in 0..2
      /\ RequestOk(ss, identity[r], old, answer[r])
      /\ \A j \in Slots : old[j].phase \in Gone => Confirmed(ss, old[j].id)
      /\ ss # None => \A j \in Slots : VerifyIdentity(ss, old[j].id) <=> Confirmed(ss, old[j].id)
  BY RequestFacts
<1>7. \A q \in Requests \ {r} : identity'[q] = identity[q]
  BY <1>1 DEF Moves, PreLLM, PostLLM, PostLLMLoad
<1>8. ss # None
  BY <1>3 DEF GuardInv
<1>10. /\ old[i].phase \notin {"none", "failed"}
       /\ IdentityOk(ss, identity'[r], new)
       /\ ConfirmedAnswer(ss, new, answer[r])
  <2>1. ASSUME PreLLM(r, i)
        PROVE  old[i].phase = "pre" /\ new[i].phase \in {"sent", "blocked"} /\ identity'[r] = identity[r]
    <3>1. PICK p \in {"sent", "blocked"} : Phase(r, i, p)
      BY <2>1 DEF PreLLM
    <3>2. new[i].phase = p
      BY <1>1, <3>1, PhaseShape DEF Phases
    <3> QED BY <2>1, <3>1, <3>2 DEF PreLLM
  <2>2. CASE PreLLM(r, i)
    BY <1>5, <1>6, <2>1, <2>2 DEF RequestOk, IdentityOk, ConfirmedAnswer, Checked
  <2>3. ASSUME NEW ok \in BOOLEAN, PostLLM(r, i, ok)
        PROVE  /\ old[i].phase \in {"sent", "blocked"} /\ answer[r].kind = "none"
               /\ new[i].phase \in {"rejected", "stamped", "failed"}
               /\ identity'[r] = IF Confirmed(ss, old[i].id) THEN CompareAndSwap(identity[r]) ELSE 2
               /\ Confirmed(ss, old[i].id) \/ new[i].phase = "rejected"
    <3>1. CASE VerifyIdentity(ss, old[i].id)
      <4> DEFINE p == IF att[r][i].phase = "blocked" THEN "rejected"
                      ELSE IF ok THEN "stamped" ELSE "failed"
      <4>1. p \in {"rejected", "stamped", "failed"}
        OBVIOUS
      <4>2. /\ old[i].phase \in {"sent", "blocked"} /\ answer[r].kind = "none"
            /\ identity' = [identity EXCEPT ![r] = CompareAndSwap(@)]
            /\ Phase(r, i, p)
        BY <2>3, <3>1 DEF PostLLM, Open
      <4> HIDE DEF p
      <4>3. new[i].phase = p
        BY <1>1, <4>1, <4>2, PhaseShape DEF Phases
      <4>4. Confirmed(ss, old[i].id)
        BY <1>6, <1>8, <3>1
      <4> QED BY <1>1, <4>1, <4>2, <4>3, <4>4
    <3>2. CASE ~VerifyIdentity(ss, old[i].id)
      <4>1. Phase(r, i, "rejected")
        BY <2>3, <3>2 DEF PostLLM
      <4>2. new[i].phase = "rejected"
        BY <1>1, <4>1, PhaseShape DEF Phases
      <4> QED BY <1>1, <1>6, <1>8, <2>3, <3>2, <4>2 DEF PostLLM, Open
    <3> QED BY <3>1, <3>2
  <2>4. CASE \E ok \in BOOLEAN : PostLLM(r, i, ok)
    <3>1. /\ old[i].phase \in {"sent", "blocked"} /\ answer[r].kind = "none"
          /\ new[i].phase \in {"rejected", "stamped", "failed"}
          /\ identity'[r] = IF Confirmed(ss, old[i].id) THEN CompareAndSwap(identity[r]) ELSE 2
          /\ Confirmed(ss, old[i].id) \/ new[i].phase = "rejected"
      BY <2>3, <2>4
    <3>2. IdentityOk(ss, identity[r], old)
      BY <1>6 DEF RequestOk
    <3> HIDE DEF old, new, ss
    <3>3. ASSUME NEW j \in Slots, new[j].phase = "rejected", ~Confirmed(ss, new[j].id)
          PROVE  identity'[r] = 2
      <4>1. CASE j = i
        BY <1>5, <3>1, <3>3, <4>1
      <4>2. CASE j # i
        <5>1. identity[r] = 2
          BY <1>5, <3>2, <3>3, <4>2 DEF IdentityOk
        <5> QED BY <3>1, <5>1 DEF CompareAndSwap
      <4> QED BY <4>1, <4>2
    <3>4. ASSUME identity'[r] = 1
          PROVE  \E j \in Slots : new[j].phase \in Checked /\ Confirmed(ss, new[j].id)
      BY <1>5, <3>1, <3>4 DEF Checked
    <3>5. IdentityOk(ss, identity'[r], new)
      BY <3>3, <3>4 DEF IdentityOk
    <3> QED BY <3>1, <3>5 DEF ConfirmedAnswer
  <2>5. ASSUME PostLLMLoad(r, i)
        PROVE  old[i].phase = "stamped" /\ new[i].phase \in {"rejected", "done"} /\ identity'[r] = identity[r]
    <3>1. PICK p \in {"rejected", "done"} : Phase(r, i, p)
      BY <2>5 DEF PostLLMLoad
    <3>2. new[i].phase = p
      BY <1>1, <3>1, PhaseShape DEF Phases
    <3> QED BY <2>5, <3>1, <3>2 DEF PostLLMLoad
  <2>6. CASE PostLLMLoad(r, i)
    BY <1>5, <1>6, <2>5, <2>6 DEF RequestOk, IdentityOk, ConfirmedAnswer, Checked, Gone
  <2> QED BY <2>2, <2>4, <2>6, <2>1, <2>3, <2>5 DEF Moves
<1>11. Sequential(ss, new)
  BY <1>3, <1>5, <1>6, <1>10 DEF RequestOk, Sequential
<1>12. RequestOk(sess'[r], identity'[r], att'[r], answer'[r])
  BY <1>2, <1>6, <1>10, <1>11 DEF RequestOk
<1>13. \A q \in Requests \ {r} : \A j \in Slots :
          att'[q][j].phase = att[q][j].phase /\ att'[q][j].id = att[q][j].id
  BY <1>4
<1> QED BY <1>2, <1>7, <1>12, <1>13, OthersStep

\* What a request that is about to be answered has confirmed.
LEMMA SettledIsConfirmed ==
    ASSUME GuardInv, RequestsInv, NEW r \in Requests, Settled(r), identity[r] # 2
    PROVE  \A i \in Slots : att[r][i].phase \in {"failed", "rejected", "done"} => Confirmed(sess[r], att[r][i].id)
<1>1. /\ RequestOk(sess[r], identity[r], att[r], answer[r])
      /\ \A i \in Slots : att[r][i].phase \in Gone => Confirmed(sess[r], att[r][i].id)
  BY RequestFacts
<1>2. ASSUME NEW i \in Slots, att[r][i].phase \in {"failed", "rejected", "done"}
      PROVE  Confirmed(sess[r], att[r][i].id)
  <2>1. CASE att[r][i].phase = "rejected"
    BY <1>1, <2>1 DEF RequestOk, IdentityOk
  <2>2. CASE att[r][i].phase # "rejected"
    BY <1>1, <1>2, <2>2 DEF Gone
  <2> QED BY <2>1, <2>2
<1> QED BY <1>2

\* A step that answers one request, with its conditions.
LEMMA AnswerStep ==
    ASSUME GuardInv, RequestsInv, NEW r \in Requests, UNCHANGED <<sess, att>>,
           NEW kind \in {"error", "content", "list"}, NEW names, Reply(r, kind, names),
           identity' = identity \/ identity' = [identity EXCEPT ![r] = 2],
           sess[r] # None,
           AnswerOk(sess[r], [kind |-> kind, names |-> names]),
           kind \in {"content", "list"} =>
             /\ \E i \in Slots : Confirmed(sess[r], att[r][i].id)
             /\ \A i \in Slots : att[r][i].phase \in {"failed", "rejected", "done"} => Confirmed(sess[r], att[r][i].id)
    PROVE  RequestsInv'
<1> DEFINE ans == [kind |-> kind, names |-> names]
<1>1. identity \in [Requests -> 0..2] /\ answer \in [Requests -> Answers]
  BY DEF GuardInv, TypeOK
<1>2. answer'[r] = ans /\ \A q \in Requests \ {r} : answer'[q] = answer[q] /\ identity'[q] = identity[q]
  BY <1>1 DEF Reply
<1>3. identity'[r] = identity[r] \/ identity'[r] = 2
  BY <1>1
<1>4. RequestOk(sess[r], identity[r], att[r], answer[r])
  BY RequestFacts
<1>5. IdentityOk(sess[r], identity'[r], att[r])
  BY <1>3, <1>4 DEF RequestOk, IdentityOk
<1>6. ConfirmedAnswer(sess[r], att[r], ans)
  BY DEF ConfirmedAnswer
<1> HIDE DEF ans
<1>7. AnswerOk(sess[r], ans)
  BY DEF ans
<1>8. RequestOk(sess'[r], identity'[r], att'[r], answer'[r])
  BY <1>2, <1>4, <1>5, <1>6, <1>7 DEF RequestOk
<1> QED BY <1>2, <1>8, OthersStep

LEMMA UnmanagedStep ==
    ASSUME GuardInv, RequestsInv, NEW r \in Requests, NEW seen, AnswerUnmanaged(r, seen)
    PROVE  RequestsInv'
<1>1. Settled(r) /\ sess[r] # None /\ seen \in Seen(r) /\ UNCHANGED <<sess, identity, att>>
  BY DEF AnswerUnmanaged, Settled, Open
<1> DEFINE refused == \/ identity[r] = 2 \/ Mismatch(r, seen)
                      \/ seen = None /\ identity[r] # 1
           kind == IF refused THEN "error" ELSE "content"
<1>2. Reply(r, kind, {})
  BY DEF AnswerUnmanaged
<1>3. kind \in {"error", "content", "list"} /\ (kind = "content" => ~refused) /\ kind # "list"
  OBVIOUS
<1>4. ASSUME ~refused
      PROVE  /\ \E i \in Slots : Confirmed(sess[r], att[r][i].id)
             /\ \A i \in Slots : att[r][i].phase \in {"failed", "rejected", "done"} => Confirmed(sess[r], att[r][i].id)
  <2>1. /\ RequestOk(sess[r], identity[r], att[r], answer[r])
        /\ \A i \in Slots : VerifyIdentity(sess[r], att[r][i].id) <=> Confirmed(sess[r], att[r][i].id)
    BY <1>1, RequestFacts
  <2>2. \A i \in Slots : att[r][i].phase \in {"failed", "rejected", "done"} => Confirmed(sess[r], att[r][i].id)
    BY <1>1, <1>4, SettledIsConfirmed
  <2>3. CASE seen = None
    <3>1. identity[r] = 1
      BY <1>4, <2>3
    <3> QED BY <2>1, <2>2, <3>1 DEF RequestOk, IdentityOk
  <2>4. CASE seen # None
    <3>1. PICK i \in Slots : seen = att[r][i].id
      BY <1>1, <2>4 DEF Seen
    <3>2. VerifyIdentity(sess[r], seen)
      BY <1>4, <2>4 DEF Mismatch
    <3> QED BY <2>1, <2>2, <3>1, <3>2
  <2> QED BY <2>3, <2>4
<1> HIDE DEF kind, refused
<1>5. AnswerOk(sess[r], [kind |-> kind, names |-> {}])
  BY <1>1 DEF AnswerOk
<1> QED BY <1>1, <1>2, <1>3, <1>4, <1>5, AnswerStep

LEMMA InferenceStep ==
    ASSUME GuardInv, PreparedInv, RequestsInv, NEW r \in Requests, NEW seen, AnswerInference(r, seen)
    PROVE  RequestsInv'
<1>1. /\ Settled(r) /\ sess[r] # None /\ sess[r].key # None /\ sess[r].endpoint # "models"
      /\ UNCHANGED <<sess, identity, att>>
  BY DEF AnswerInference, Answered, Settled, Open
<1> DEFINE kind == IF Mismatch(r, seen) THEN "error" ELSE "content"
<1>2. Reply(r, kind, {})
  BY DEF AnswerInference
<1>3. kind \in {"error", "content", "list"} /\ kind # "list"
  OBVIOUS
<1> HIDE DEF kind
<1>4. PICK d \in Slots : att[r][d].phase = "done"
  BY DEF AnswerInference, Answered
<1>5. sess[r].endpoint \in Endpoints
  <2>1. /\ sess[r].snap \in Snapshots /\ call[r] \in Calls
        /\ sess[r] = Prepare(sess[r].snap, call[r])
    BY <1>1 DEF PreparedInv
  <2> QED BY <1>1, <2>1, PrepareShape
<1>6. /\ RequestOk(sess[r], identity[r], att[r], answer[r])
      /\ \A i \in Slots : att[r][i].phase \in Gone => Confirmed(sess[r], att[r][i].id)
  BY RequestFacts
<1>7. \A i \in Slots \ {d} : att[r][i].phase \in {"none", "failed"}
  BY <1>1, <1>4, <1>5, <1>6 DEF RequestOk, Sequential
<1>8. /\ \E i \in Slots : Confirmed(sess[r], att[r][i].id)
      /\ \A i \in Slots : att[r][i].phase \in {"failed", "rejected", "done"} => Confirmed(sess[r], att[r][i].id)
  BY <1>4, <1>6, <1>7 DEF Gone
<1>9. AnswerOk(sess[r], [kind |-> kind, names |-> {}])
  BY <1>1 DEF AnswerOk
<1> QED BY <1>1, <1>2, <1>3, <1>8, <1>9, AnswerStep

LEMMA ListingStep ==
    ASSUME GuardInv, RequestsInv, NEW r \in Requests, NEW seen, NEW native \in SUBSET Names,
           AnswerListing(r, seen, native)
    PROVE  RequestsInv'
<1>1. Settled(r) /\ sess[r] # None /\ sess[r].key # None /\ UNCHANGED <<sess, att>>
  BY DEF AnswerListing, Answered, Settled, Open
<1>2. identity \in [Requests -> 0..2]
  BY DEF GuardInv, TypeOK
<1>3. identity' = identity \/ identity' = [identity EXCEPT ![r] = 2]
  <2>1. CASE Mismatch(r, seen)
    BY <2>1 DEF AnswerListing
  <2>2. CASE ~Mismatch(r, seen)
    BY <1>2, <2>2 DEF AnswerListing
  <2> QED BY <2>1, <2>2
<1> DEFINE listed == Project(sess[r], native)
<1>4. \/ Reply(r, "error", {})
      \/ Reply(r, "list", listed) /\ identity'[r] # 2
  BY DEF AnswerListing
<1>5. AnswerOk(sess[r], [kind |-> "list", names |-> listed])
  BY <1>1 DEF AnswerOk
<1> HIDE DEF listed
<1>6. CASE Reply(r, "error", {})
  <2>1. AnswerOk(sess[r], [kind |-> "error", names |-> {}])
    BY <1>1 DEF AnswerOk
  <2> QED BY <1>1, <1>3, <1>6, <2>1, AnswerStep
<1>7. CASE Reply(r, "list", listed) /\ identity'[r] # 2
  <2>1. PICK d \in Slots : att[r][d].phase = "done"
    BY DEF AnswerListing, Answered
  <2>2. identity[r] # 2
    BY <1>2, <1>3, <1>7
  <2>3. \A i \in Slots : att[r][i].phase \in {"failed", "rejected", "done"} => Confirmed(sess[r], att[r][i].id)
    BY <1>1, <2>2, SettledIsConfirmed
  <2> QED BY <1>1, <1>3, <1>5, <1>7, <2>1, <2>3, AnswerStep
<1> QED BY <1>4, <1>6, <1>7

LEMMA ElsewhereStep ==
    ASSUME GuardInv, PreparedInv, RequestsInv, Elsewhere
    PROVE  RequestsInv'
<1>1. CASE Start \/ Cleanup \/ Publish \/ UNCHANGED vars
  <2>1. UNCHANGED <<sess, identity, att, answer>>
    BY <1>1 DEF Start, Cleanup, Publish, vars
  <2> QED BY <2>1 DEF RequestsInv
<1>2. ASSUME NEW r \in Requests, Fail(r) PROVE RequestsInv'
  <2>1. Reply(r, "error", {}) /\ sess[r] # None /\ UNCHANGED <<sess, identity, att>>
    BY <1>2 DEF Fail, Settled, Open
  <2>2. AnswerOk(sess[r], [kind |-> "error", names |-> {}])
    BY <2>1 DEF AnswerOk
  <2> QED BY <2>1, <2>2, AnswerStep
<1> QED BY <1>1, <1>2, UnmanagedStep, InferenceStep, ListingStep DEF Elsewhere

\* What an attempt, its request and its answer know of each other holds in every behaviour: the
\* invariant behind the two theorems below.
THEOREM ServiceInvariant == Spec => []ServiceInv
<1>1. Init => PreparedInv /\ RequestsInv
  <2> SUFFICES ASSUME Init PROVE PreparedInv /\ RequestsInv
    OBVIOUS
  <2>1. ASSUME NEW r \in Requests
        PROVE  /\ sess[r] = None /\ identity[r] = 0 /\ \A i \in Slots : att[r][i].phase = "none"
               /\ answer[r].kind = "none" /\ answer[r].names = {}
    BY DEF Init
  <2>2. ASSUME NEW r \in Requests PROVE RequestOk(sess[r], identity[r], att[r], answer[r])
    BY <2>1 DEF RequestOk, IdentityOk, Sequential, AnswerOk, ConfirmedAnswer
  <2> QED BY <2>1, <2>2 DEF PreparedInv, RequestsInv
<1>2. GuardInv /\ PreparedInv /\ RequestsInv /\ [Next]_vars => RequestsInv'
  BY StepKinds, ElsewhereStep, PreHookStep, AttemptStep, MovesStep
<1>3. GuardInv /\ PreparedInv /\ [Next]_vars => PreparedInv'
  BY PreparedStep
<1> QED BY <1>1, <1>2, <1>3, GuardInvariant, PTL DEF Spec, ServiceInv

\* An answer goes up only if some attempt confirmed the identity of the request and none that
\* came back contradicted it, in whatever order they came back.
THEOREM AnswersAreConfirmed == Spec => []AnswerIsConfirmed
<1>1. ServiceInv => AnswerIsConfirmed
  BY DEF ServiceInv, RequestsInv, RequestOk, ConfirmedAnswer, AnswerIsConfirmed
<1> QED BY <1>1, ServiceInvariant, PTL

\* The guard serves what it offered: a listed name can be called, and an attempt to an access that
\* a name of the request stands for passes, whatever the other names of the request are.
THEOREM AcceptedServed == Spec => []AcceptedIsServed
<1>1. ASSUME ServiceInv PROVE AcceptedIsServed
  <2>1. ASSUME NEW r \in Requests, sess[r] # None
        PROVE  /\ sess[r].snap \in Snapshots /\ call[r] \in Calls
               /\ sess[r] = Prepare(sess[r].snap, call[r])
    BY <1>1, <2>1 DEF ServiceInv, PreparedInv
  <2>2. ASSUME NEW r \in Requests, NEW n \in answer[r].names
        PROVE  \E e \in Endpoints :
                 LET ss == Prepare(sess[r].snap, [token |-> call[r].token, endpoint |-> e, names |-> <<n>>])
                 IN  ss # None /\ \E t \in Attempts : CheckAttempt(ss, t)
    <3>1. AnswerOk(sess[r], answer[r])
      BY <1>1 DEF ServiceInv, RequestsInv, RequestOk
    <3>2. sess[r] # None /\ sess[r].key # None
      BY <2>2, <3>1 DEF AnswerOk
    <3>3. PICK native \in SUBSET Names : n \in Project(sess[r], native)
      BY <2>2, <3>1 DEF AnswerOk
    <3> QED BY <2>1, <3>2, <3>3, ProjectIsCallable
  <2>3. ASSUME NEW r \in Requests, Inference(r), NEW j \in DOMAIN call[r].names,
               NEW m \in Lookup(sess[r].snap, sess[r].key, call[r].names[j]).via,
               sess[r].endpoint \in Serves[m]
        PROVE  CheckAttempt(sess[r], NativeOf[m])
    <3>1. sess[r] # None /\ sess[r].key # None /\ sess[r].endpoint # "models"
      BY <2>3 DEF Inference
    <3> QED BY <2>1, <2>3, <3>1, NamedIsServed
  <2> QED BY <2>2, <2>3 DEF AcceptedIsServed, ListedIsCallable
<1> QED BY <1>1, ServiceInvariant, PTL
=============================================================================
