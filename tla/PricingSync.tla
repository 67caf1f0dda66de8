---------------------------- MODULE PricingSync ----------------------------
(***************************************************************************)
(* Price corrections kept in step with Bifrost: applyPricingOverrides in   *)
(* internal/admin/pricing_overrides.go, run by every publish.              *)
(*                                                                         *)
(* The registry holds a corrected price per access; Bifrost bills by an    *)
(* override per provider key and model.  A pass lists what Bifrost has,    *)
(* creates, updates and deletes overrides one call at a time, reads each   *)
(* back, and records what it could not do.  What it may touch it knows     *)
(* from the override itself (its name and where it applies), so that a     *)
(* restart forgets nothing.  A pass works for the configuration its        *)
(* publish saved; other saves do not start one.                            *)
(***************************************************************************)
EXTENDS Integers

CONSTANTS
    PKeys,       \* provider keys
    Accesses,    \* provider and upstream model
    Slots,       \* pairs of a provider key and an access of its provider
    KeyOf, AccessOf,
    Prices,      \* what a correction may say (input and output cost)
    Ids,         \* Bifrost's IDs: a bound on the overrides there are at once
    None,
    MaxPasses,   \* bound on publishes
    MaxOutside   \* bound on other saves and on changes others make in Bifrost

\* on: the slots of the accesses that are enabled, configured and assigned the key.
Configs == [price: [Accesses -> Prices \cup {None}], on: SUBSET Slots]
\* slot: the one the name says.  owned: scope, key, match and pattern agree with the name.
Overrides == [slot: Slots, price: Prices, owned: BOOLEAN]

ASSUME PricingAssumption ==
    /\ KeyOf \in [Slots -> PKeys]
    /\ AccessOf \in [Slots -> Accesses]
    /\ None \notin Prices /\ None \notin Ids /\ None \notin PKeys /\ None \notin Slots
    /\ \A o \in Overrides : o # None
    /\ MaxPasses \in Nat /\ MaxOutside \in Nat

\* The code keeps the state only; the price it was verified at is a history of the model.
Proofs == [state: {"none", "failed", "verified"}, price: Prices \cup {None}]
NoProof == [state |-> "none", price |-> None]
Failed == [state |-> "failed", price |-> None]
Verified(p) == [state |-> "verified", price |-> p]

Pcs == {"idle", "aliases", "discover", "keys", "write", "check"}
\* plan: the configuration saved.  ids: the overrides listed for the key, by name.
Jobs == [pc: Pcs, plan: Configs, keys: SUBSET PKeys, key: PKeys \cup {None},
         ids: [Slots -> Ids \cup {None}], todo: SUBSET Slots, stale: SUBSET Slots,
         slot: Slots \cup {None}]

VARIABLES
    cfg,        \* the configuration in the store
    native,     \* native[i]: the override Bifrost has under i
    proofs,     \* proofs[s]: what the panel knows of slot s
    keyProofs,  \* provider keys whose list could not be read
    blind,      \* the discovery of what Bifrost has failed
    job,
    passes, outside,
    touched,    \* slots others changed in Bifrost since the pass started
    lapsed,     \* slots others changed since they were verified
    made,       \* slots for which an override was created outside a pass, or after its call
                \* timed out
    clean       \* every call of the pass succeeded

vars == <<cfg, native, proofs, keyProofs, blind, job, passes, outside,
          touched, lapsed, made, clean>>
known == <<proofs, keyProofs, blind>>
bounds == <<passes, outside>>
others == <<touched, lapsed, made>>

Nowhere == [s \in Slots |-> None]
NoPlan == [price |-> [a \in Accesses |-> None], on |-> {}]
Idle == [pc |-> "idle", plan |-> NoPlan, keys |-> {}, key |-> None, ids |-> Nowhere,
         todo |-> {}, stale |-> {}, slot |-> None]

TypeOK ==
    /\ cfg \in Configs
    /\ DOMAIN native = Ids
    /\ \A i \in Ids : native[i] = None \/ native[i] \in Overrides
    /\ proofs \in [Slots -> Proofs]
    /\ keyProofs \subseteq PKeys
    /\ blind \in BOOLEAN
    /\ job \in Jobs
    /\ passes \in 0..MaxPasses /\ outside \in 0..MaxOutside
    /\ clean \in BOOLEAN
    /\ touched \subseteq Slots /\ lapsed \subseteq Slots /\ made \subseteq Slots

Init ==
    /\ cfg = NoPlan
    /\ native = [i \in Ids |-> None]
    /\ proofs = [s \in Slots |-> NoProof]
    /\ keyProofs = {} /\ blind = FALSE
    /\ job = Idle
    /\ passes = 0 /\ outside = 0
    /\ touched = {} /\ lapsed = {} /\ made = {} /\ clean = FALSE

----------------------------------------------------------------------------
(* What the registry wants, and what Bifrost lists.                        *)

Price(c, s) == c.price[AccessOf[s]]

Expected(c) == {s \in c.on : Price(c, s) # None}

\* ownedPricingOverride
Owned(i) == native[i] # None /\ native[i].owned
Has(s) == {i \in Ids : Owned(i) /\ native[i].slot = s}
Named(s) == {i \in Ids : native[i] # None /\ native[i].slot = s}
OfKey(k) == {s \in Slots : KeyOf[s] = k}

----------------------------------------------------------------------------
(* A publish saves, installs aliases and starts a pass.                    *)

Publish(c) ==
    /\ job.pc = "idle"
    /\ passes < MaxPasses
    /\ passes' = passes + 1
    /\ cfg' = c
    /\ job' = [Idle EXCEPT !.pc = "aliases", !.plan = c]
    /\ touched' = {} /\ clean' = TRUE
    /\ UNCHANGED <<native, known, outside, lapsed, made>>

\* installAliases fails, and the publish ends before the pass.
AliasesFail ==
    /\ job.pc = "aliases"
    /\ job' = Idle
    /\ clean' = FALSE
    /\ UNCHANGED <<cfg, native, known, bounds, others>>

AliasesDone ==
    /\ job.pc = "aliases"
    /\ job' = [job EXCEPT !.pc = "discover"]
    /\ UNCHANGED <<cfg, native, known, bounds, others, clean>>

\* Mutant of Discover: a key without accesses is not synced.
DiscoverConfigured ==
    /\ job.pc = "discover"
    /\ LET there == {native[i].slot : i \in {j \in Ids : Owned(j)}}
       IN  /\ job' = [job EXCEPT !.pc = "keys",
                                 !.keys = {KeyOf[s] : s \in job.plan.on}]
           /\ proofs' = [s \in Slots |-> IF s \in Expected(job.plan) \cup there
                                         THEN proofs[s] ELSE NoProof]
    /\ keyProofs' = {} /\ blind' = FALSE
    /\ UNCHANGED <<cfg, native, bounds, others, clean>>

\* The unfiltered list: keys that only have overrides left are synced too, and what is said
\* of slots that are neither wanted nor there is forgotten.
Discover ==
    /\ job.pc = "discover"
    /\ LET there == {native[i].slot : i \in {j \in Ids : Owned(j)}}
       IN  /\ job' = [job EXCEPT !.pc = "keys",
                                 !.keys = {KeyOf[s] : s \in job.plan.on \cup there}]
           /\ proofs' = [s \in Slots |-> IF s \in Expected(job.plan) \cup there
                                         THEN proofs[s] ELSE NoProof]
    /\ keyProofs' = {} /\ blind' = FALSE
    /\ UNCHANGED <<cfg, native, bounds, others, clean>>

\* Everything known of these slots is not verified any more.
Refuted(S) == [s \in Slots |-> IF s \in S /\ proofs[s] # NoProof THEN Failed ELSE proofs[s]]

DiscoverFails ==
    /\ job.pc = "discover"
    /\ job' = [job EXCEPT !.pc = "keys", !.keys = {KeyOf[s] : s \in job.plan.on}]
    /\ proofs' = Refuted(Slots)
    /\ blind' = TRUE /\ clean' = FALSE
    /\ UNCHANGED <<cfg, native, keyProofs, bounds, others>>

\* The list of one key.  Of overrides with the same name, any one is kept.
ListKey(k) ==
    /\ job.pc = "keys" /\ k \in job.keys
    /\ LET mine == {s \in OfKey(k) : Has(s) # {}}
       IN  \E ids \in [Slots -> Ids \cup {None}] :
             /\ \A s \in Slots : IF s \in mine THEN ids[s] \in Has(s) ELSE ids[s] = None
             /\ job' = [job EXCEPT !.pc = "write", !.keys = @ \ {k}, !.key = k, !.ids = ids,
                                   !.todo = Expected(job.plan) \cap OfKey(k),
                                   !.stale = mine \ Expected(job.plan)]
    /\ keyProofs' = keyProofs \ {k}
    /\ UNCHANGED <<cfg, native, proofs, blind, bounds, others, clean>>

ListKeyFails(k) ==
    /\ job.pc = "keys" /\ k \in job.keys
    /\ job' = [job EXCEPT !.keys = @ \ {k}]
    /\ proofs' = Refuted(OfKey(k))
    /\ keyProofs' = keyProofs \cup {k}
    /\ clean' = FALSE
    /\ UNCHANGED <<cfg, native, blind, bounds, others>>

\* An ID is not used again while the pass holds it.
Fresh == {i \in Ids : native[i] = None} \ {job.ids[t] : t \in Slots}

\* PUT of the override listed, else POST of a new one.  PUT of one that is gone fails.
Target(s) ==
    IF job.ids[s] = None THEN Fresh
    ELSE {i \in {job.ids[s]} : native[i] # None}

Written(s, i) ==
    [native EXCEPT ![i] = [slot |-> s, price |-> Price(job.plan, s), owned |-> TRUE]]

Write(s) ==
    /\ job.pc = "write" /\ s \in job.todo
    /\ \E i \in Target(s) : native' = Written(s, i)
    /\ job' = [job EXCEPT !.pc = "check", !.slot = s]
    /\ UNCHANGED <<cfg, known, bounds, others, clean>>

\* The call fails: it was not done, or it was and the answer is lost.
WriteFails(s) ==
    /\ job.pc = "write" /\ s \in job.todo
    /\ native' \in {native} \cup {Written(s, i) : i \in Target(s)}
    /\ job' = [job EXCEPT !.todo = @ \ {s}]
    /\ proofs' = [proofs EXCEPT ![s] = Failed]
    /\ clean' = FALSE
    /\ UNCHANGED <<cfg, keyProofs, blind, bounds, others>>

\* The readback takes the first override with the name, whoever owns it.
Confirms(s) == \E i \in Named(s) : native[i].price = Price(job.plan, s)
Denies(s) == \/ Named(s) = {}
             \/ \E i \in Named(s) : native[i].price # Price(job.plan, s)

Check ==
    /\ job.pc = "check" /\ Confirms(job.slot)
    /\ job' = [job EXCEPT !.pc = "write", !.todo = @ \ {job.slot}, !.slot = None]
    /\ proofs' = [proofs EXCEPT ![job.slot] = Verified(Price(job.plan, job.slot))]
    /\ lapsed' = (lapsed \ {job.slot}) \cup (touched \cap {job.slot})
    /\ UNCHANGED <<cfg, native, keyProofs, blind, bounds, touched, made, clean>>

\* Missing or different, or the list could not be read.
CheckFails ==
    /\ job.pc = "check"
    /\ job' = [job EXCEPT !.pc = "write", !.todo = @ \ {job.slot}, !.slot = None]
    /\ proofs' = [proofs EXCEPT ![job.slot] = Failed]
    /\ clean' \in {FALSE, clean /\ Denies(job.slot)}
    /\ UNCHANGED <<cfg, native, keyProofs, blind, bounds, others>>

Delete(s) ==
    /\ job.pc = "write" /\ job.todo = {} /\ s \in job.stale
    /\ native[job.ids[s]] # None
    /\ native' = [native EXCEPT ![job.ids[s]] = None]
    /\ job' = [job EXCEPT !.stale = @ \ {s}]
    /\ proofs' = [proofs EXCEPT ![s] = NoProof]
    /\ UNCHANGED <<cfg, keyProofs, blind, bounds, others, clean>>

\* Mutant of DeleteFails: nobody is told.
DeleteFailsSilently(s) ==
    /\ job.pc = "write" /\ job.todo = {} /\ s \in job.stale
    /\ native' \in {native, [native EXCEPT ![job.ids[s]] = None]}
    /\ job' = [job EXCEPT !.stale = @ \ {s}]
    /\ proofs' = [proofs EXCEPT ![s] = NoProof]
    /\ clean' = FALSE
    /\ UNCHANGED <<cfg, keyProofs, blind, bounds, others>>

DeleteFails(s) ==
    /\ job.pc = "write" /\ job.todo = {} /\ s \in job.stale
    /\ native' \in {native, [native EXCEPT ![job.ids[s]] = None]}
    /\ job' = [job EXCEPT !.stale = @ \ {s}]
    /\ proofs' = [proofs EXCEPT ![s] = Failed]
    /\ clean' = FALSE
    /\ UNCHANGED <<cfg, keyProofs, blind, bounds, others>>

KeyDone ==
    /\ job.pc = "write" /\ job.todo = {} /\ job.stale = {}
    /\ job' = [job EXCEPT !.pc = "keys", !.key = None, !.ids = Nowhere]
    /\ UNCHANGED <<cfg, native, known, bounds, others, clean>>

PassDone ==
    /\ job.pc = "keys" /\ job.keys = {}
    /\ job' = Idle
    /\ UNCHANGED <<cfg, native, known, bounds, others, clean>>

----------------------------------------------------------------------------
(* Around a pass.                                                          *)

\* /api/config, a restored snapshot, /api/catalog/override: saved, not synced.
ConfigWrite(c) ==
    /\ outside < MaxOutside
    /\ c # cfg
    /\ cfg' = c
    /\ outside' = outside + 1
    /\ UNCHANGED <<native, known, job, passes, others, clean>>

\* An operator changes an override, or a call that timed out is done after all.
External(i, o) ==
    /\ outside < MaxOutside
    /\ o # native[i]
    /\ native' = [native EXCEPT ![i] = o]
    /\ outside' = outside + 1
    /\ LET changed == {q.slot : q \in {native[i], o} \ {None}}
       IN  /\ touched' = touched \cup changed
           /\ lapsed' = lapsed \cup changed
           /\ made' = IF o = None THEN made ELSE made \cup {o.slot}
    /\ UNCHANGED <<cfg, known, job, passes, clean>>

Restart ==
    /\ proofs' = [s \in Slots |-> NoProof]
    /\ keyProofs' = {} /\ blind' = FALSE
    /\ job' = Idle
    /\ clean' = FALSE
    /\ UNCHANGED <<cfg, native, bounds, others>>

Pass ==
    \/ AliasesFail \/ AliasesDone \/ Discover \/ DiscoverFails
    \/ \E k \in PKeys : ListKey(k) \/ ListKeyFails(k)
    \/ \E s \in Slots : Write(s) \/ WriteFails(s) \/ Delete(s) \/ DeleteFails(s)
    \/ Check \/ CheckFails \/ KeyDone \/ PassDone

Next ==
    \/ Pass
    \/ \E c \in Configs : Publish(c) \/ ConfigWrite(c)
    \/ \E i \in Ids, o \in Overrides \cup {None} : External(i, o)
    \/ Restart

Spec == Init /\ [][Next]_vars

----------------------------------------------------------------------------
Billed(s) == {native[i].price : i \in Has(s)}
Wanted(s) == IF s \in Expected(job.plan) THEN {Price(job.plan, s)} ELSE {}
AtEnd == job.pc = "keys" /\ job.keys = {}
Reported(s) == proofs[s].state = "failed" \/ KeyOf[s] \in keyProofs \/ blind

\* What is recorded as verified is billed by Bifrost, whatever failed, was retried, deleted
\* or saved since, unless others changed it (pricing_overrides.go:190-277).
VerifiedIsBilled ==
    \A s \in Slots \ lapsed :
        proofs[s].state = "verified" /\ s # job.slot => proofs[s].price \in Billed(s)

\* A pass ends with every override as the registry wants it, or with a failure recorded for
\* its slot, its provider key or the discovery, also for a slot the registry forgot in a
\* restart (docs/design/model-card-bifrost-contract.md:289).
WrongIsReported ==
    AtEnd => \A s \in Slots \ (touched \cup made) : Billed(s) = Wanted(s) \/ Reported(s)

\* The registry knows what Bifrost bills: what it calls verified is billed, and what a finished
\* pass left otherwise has a failure on record.
ReportsAreTrue == VerifiedIsBilled /\ WrongIsReported

\* A pass whose calls all succeed leaves exactly the overrides the registry wants, each
\* verified, and nothing recorded of the others, whatever earlier passes left undone.
CleanPassConverges ==
    AtEnd /\ clean =>
        \A s \in Slots \ (touched \cup made) :
            /\ Billed(s) = Wanted(s)
            /\ proofs[s] = IF s \in Expected(job.plan) THEN Verified(Price(job.plan, s)) ELSE NoProof

\* A pass that retries what an earlier one did without learning of it creates nothing twice,
\* also across a restart (pricing_overrides.go:176-189).
RetryDoesNotDuplicate == \A s \in Slots \ made : \A i, j \in Has(s) : i = j

\* An override that only bears a name of the registry is neither changed nor deleted by it
\* (ownedPricingOverride).
ForeignIsUntouched ==
    [][\A i \in Ids :
         native[i] # None /\ ~native[i].owned /\ native[i].slot \notin touched /\ job' # job
            => native'[i] = native[i]]_vars

\* pricingApplicationState of the panel: "Applied to Bifrost" beside the price of an access.
ShownApplied(a) ==
    LET S == {s \in Slots : AccessOf[s] = a}
    IN  /\ job.pc = "idle" /\ cfg.price[a] # None
        /\ \A s \in S : proofs[s].state # "failed"
        /\ \E s \in S : proofs[s].state = "verified"

\* docs/design/model-card-bifrost-contract.md:292: "applied" requires a native readback, and
\* a failure stays visible.
AppliedIsApplied ==
    \A a \in Accesses : ShownApplied(a) =>
        \A s \in cfg.on \ lapsed : AccessOf[s] = a => cfg.price[a] \in Billed(s)
=============================================================================
