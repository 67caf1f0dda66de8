------------------------- MODULE PricingSyncProofs -------------------------
(* What a pass over the price overrides guarantees for any keys, accesses  *)
(* and prices.                                                             *)
EXTENDS PricingSync, TLAPS

OnKey == job.pc \in {"write", "check"}
InPass == job.pc \in {"keys", "write", "check"}
Open(s) == s \in job.todo \cup job.stale

\* What a pass holds at each of its steps.
JobInv ==
    /\ ~OnKey => job.todo = {} /\ job.stale = {}
    /\ job.pc # "check" => job.slot = None
    /\ OnKey =>
          /\ job.key \in PKeys /\ job.key \notin job.keys
          /\ job.todo \subseteq Expected(job.plan) \cap OfKey(job.key)
          /\ job.stale \subseteq OfKey(job.key) \ Expected(job.plan)
          /\ \A s \in job.stale : job.ids[s] # None
    /\ job.pc = "check" => job.slot \in job.todo

\* The IDs of the list still stand for their slots, unless others changed them.
IdsInv ==
    OnKey =>
        /\ \A s, t \in Slots : job.ids[s] # None /\ job.ids[s] = job.ids[t] => s = t
        /\ \A s \in Slots : job.ids[s] # None =>
              \/ native[job.ids[s]] = None
              \/ native[job.ids[s]].slot \in touched
              \/ Owned(job.ids[s]) /\ native[job.ids[s]].slot = s
        /\ \A s \in Slots \ made : Open(s) /\ s # job.slot => Has(s) \subseteq {job.ids[s]}

\* An override is owned, or others made it.
OthersInv ==
    /\ touched \subseteq lapsed
    /\ \A i \in Ids : native[i] # None /\ ~native[i].owned => native[i].slot \in made

CheckInv ==
    job.pc = "check" /\ job.slot \notin touched => Price(job.plan, job.slot) \in Billed(job.slot)

\* A slot is still to be seen to, or is as wanted, or what is wrong is reported.
ReportInv ==
    InPass => \A s \in Slots \ (touched \cup made) :
        \/ KeyOf[s] \in job.keys
        \/ Open(s)
        \/ Billed(s) = Wanted(s)
        \/ Reported(s)

\* The same while every call has succeeded, with what is recorded of the slot.
CleanInv ==
    InPass /\ clean => \A s \in Slots \ (touched \cup made) :
        /\ KeyOf[s] \in job.keys =>
              s \in Expected(job.plan) \/ Has(s) # {} \/ proofs[s] = NoProof
        /\ \/ KeyOf[s] \in job.keys
           \/ Open(s)
           \/ /\ Billed(s) = Wanted(s)
              /\ proofs[s] = IF s \in Expected(job.plan)
                             THEN Verified(Price(job.plan, s)) ELSE NoProof

PassInv == TypeOK /\ JobInv /\ IdsInv /\ OthersInv /\ CheckInv
PricingInv == /\ PassInv /\ RetryDoesNotDuplicate /\ VerifiedIsBilled
              /\ ReportInv /\ CleanInv

----------------------------------------------------------------------------
(* The configurations, jobs and overrides a step builds.                   *)

LEMMA JobTyped ==
    ASSUME NEW j \in Jobs
    PROVE  /\ j.pc \in Pcs /\ j.plan \in Configs /\ j.keys \subseteq PKeys
           /\ j.key \in PKeys \cup {None} /\ j.ids \in [Slots -> Ids \cup {None}]
           /\ j.todo \subseteq Slots /\ j.stale \subseteq Slots /\ j.slot \in Slots \cup {None}
           /\ j = [pc |-> j.pc, plan |-> j.plan, keys |-> j.keys, key |-> j.key, ids |-> j.ids,
                   todo |-> j.todo, stale |-> j.stale, slot |-> j.slot]
BY DEF Jobs

LEMMA IdleTyped == Idle \in Jobs /\ NoPlan \in Configs
BY PricingAssumption DEF Idle, Jobs, NoPlan, Configs, Nowhere, Pcs

LEMMA ExpectedTyped ==
    ASSUME NEW c \in Configs
    PROVE  /\ c.on \subseteq Slots /\ Expected(c) \subseteq c.on
           /\ \A s \in Expected(c) : Price(c, s) \in Prices /\ s \in Slots
BY PricingAssumption DEF Configs, Expected, Price

\* A write leaves an owned override with the price of the plan.
LEMMA WrittenTyped ==
    ASSUME TypeOK, NEW i \in Ids, NEW s \in Expected(job.plan), native' = Written(s, i)
    PROVE  /\ native'[i] \in Overrides /\ native'[i] # None
           /\ native'[i].slot = s /\ native'[i].owned /\ native'[i].price = Price(job.plan, s)
           /\ \A j \in Ids \ {i} : native'[j] = native[j]
           /\ DOMAIN native' = Ids
<1>1. job.plan \in Configs
  BY JobTyped DEF TypeOK
<1>2. s \in Slots /\ Price(job.plan, s) \in Prices
  BY <1>1, ExpectedTyped
<1>3. native'[i] = [slot |-> s, price |-> Price(job.plan, s), owned |-> TRUE]
  BY DEF Written, TypeOK
<1>4. native'[i] \in Overrides
  BY <1>2, <1>3 DEF Overrides
<1>5. native'[i] # None
  BY <1>4, PricingAssumption
<1> QED
  BY <1>3, <1>4, <1>5 DEF Written, TypeOK

\* An override that is changed or removed leaves the other slots as they are.
LEMMA Frame ==
    ASSUME NEW i \in Ids, NEW s \in Slots,
           \A j \in Ids \ {i} : native'[j] = native[j],
           native[i] = None \/ native[i].slot # s,
           native'[i] = None \/ native'[i].slot # s
    PROVE  Has(s)' = Has(s) /\ Billed(s)' = Billed(s) /\ Named(s)' = Named(s)
<1>1. Has(s)' = Has(s) /\ Named(s)' = Named(s)
  BY DEF Has, Owned, Named
<1>2. \A j \in Has(s) : native'[j] = native[j]
  BY DEF Has, Owned
<1> QED
  BY <1>1, <1>2 DEF Billed

LEMMA FrameAll ==
    ASSUME native' = native, NEW s \in Slots
    PROVE  Has(s)' = Has(s) /\ Billed(s)' = Billed(s) /\ Named(s)' = Named(s)
BY DEF Has, Owned, Billed, Named

----------------------------------------------------------------------------
(* Types.                                                                  *)

LEMMA TypeInit == Init => TypeOK
<1> SUFFICES ASSUME Init PROVE TypeOK
  OBVIOUS
<1>1. NoPlan \in Configs /\ Idle \in Jobs
  BY IdleTyped
<1>2. proofs \in [Slots -> Proofs]
  BY DEF Init, Proofs, NoProof
<1>3. passes \in 0..MaxPasses /\ outside \in 0..MaxOutside
  BY PricingAssumption DEF Init
<1>4. blind \in BOOLEAN /\ clean \in BOOLEAN
  BY DEF Init
<1> QED
  BY <1>1, <1>2, <1>3, <1>4 DEF Init, TypeOK

LEMMA ProofsTyped ==
    /\ NoProof \in Proofs /\ Failed \in Proofs
    /\ \A p \in Prices : Verified(p) \in Proofs
BY DEF Proofs, NoProof, Failed, Verified

LEMMA JobMoved ==
    ASSUME NEW j \in Jobs, NEW p \in Pcs, NEW K \in SUBSET PKeys, NEW T \in SUBSET Slots
    PROVE  /\ [j EXCEPT !.pc = p, !.keys = K] \in Jobs
           /\ [j EXCEPT !.pc = p, !.todo = T, !.slot = None] \in Jobs
BY JobTyped DEF Jobs

LEMMA JobListed ==
    ASSUME NEW j \in Jobs, NEW k \in PKeys, NEW K \in SUBSET PKeys, NEW T \in SUBSET Slots,
           NEW S \in SUBSET Slots, NEW ids \in [Slots -> Ids \cup {None}]
    PROVE  [j EXCEPT !.pc = "write", !.keys = K, !.key = k, !.ids = ids,
                     !.todo = T, !.stale = S] \in Jobs
BY JobTyped DEF Jobs, Pcs

\* The configuration, the job and the overrides keep their type.
LEMMA JobStays == TypeOK /\ JobInv /\ Next => job' \in Jobs
<1> SUFFICES ASSUME TypeOK, JobInv, Next PROVE job' \in Jobs
  OBVIOUS
<1> USE IdleTyped, JobTyped DEF TypeOK
<1>1. ASSUME NEW c \in Configs, Publish(c) PROVE job' \in Jobs
  BY <1>1 DEF Publish, Jobs, Pcs
<1>2. CASE AliasesFail \/ PassDone \/ Restart
  BY <1>2 DEF AliasesFail, PassDone, Restart
<1>3. CASE AliasesDone
  BY <1>3 DEF AliasesDone, Jobs, Pcs
<1>4. ASSUME Discover \/ DiscoverFails PROVE job' \in Jobs
  <2>1. \A s \in Slots : KeyOf[s] \in PKeys
    BY PricingAssumption
  <2>2. job.plan.on \subseteq Slots
    BY ExpectedTyped
  <2>3. \A i \in Ids : Owned(i) => native[i].slot \in Slots
    BY DEF Owned, Overrides
  <2>4. PICK K \in SUBSET PKeys : job' = [job EXCEPT !.pc = "keys", !.keys = K]
    <3>1. CASE Discover
      <4> DEFINE K == {KeyOf[s] : s \in job.plan.on \cup {native[i].slot : i \in {j \in Ids : Owned(j)}}}
      <4>1. K \in SUBSET PKeys
        BY <2>1, <2>2, <2>3
      <4>2. job' = [job EXCEPT !.pc = "keys", !.keys = K]
        BY <3>1 DEF Discover
      <4> QED
        BY <4>1, <4>2
    <3>2. CASE DiscoverFails
      <4> DEFINE K == {KeyOf[s] : s \in job.plan.on}
      <4>1. K \in SUBSET PKeys
        BY <2>1, <2>2
      <4>2. job' = [job EXCEPT !.pc = "keys", !.keys = K]
        BY <3>2 DEF DiscoverFails
      <4> QED
        BY <4>1, <4>2
    <3> QED
      BY <1>4, <3>1, <3>2
  <2> QED
    BY <2>4, JobMoved DEF Pcs
<1>5. ASSUME NEW k \in PKeys, ListKey(k) PROVE job' \in Jobs
  <2> DEFINE mine == {s \in OfKey(k) : Has(s) # {}}
  <2>1. PICK ids \in [Slots -> Ids \cup {None}] :
            job' = [job EXCEPT !.pc = "write", !.keys = @ \ {k}, !.key = k, !.ids = ids,
                               !.todo = Expected(job.plan) \cap OfKey(k),
                               !.stale = mine \ Expected(job.plan)]
    BY <1>5 DEF ListKey
  <2> DEFINE T == Expected(job.plan) \cap OfKey(k)
             S == mine \ Expected(job.plan)
             K == job.keys \ {k}
  <2>2. K \in SUBSET PKeys /\ T \in SUBSET Slots /\ S \in SUBSET Slots
    BY DEF OfKey
  <2>3. job' = [job EXCEPT !.pc = "write", !.keys = K, !.key = k, !.ids = ids,
                           !.todo = T, !.stale = S]
    BY <2>1
  <2> HIDE DEF T, S, K
  <2> QED
    BY <2>2, <2>3, JobListed
<1>6. ASSUME NEW k \in PKeys, ListKeyFails(k) PROVE job' \in Jobs
  BY <1>6 DEF ListKeyFails, Jobs
<1>7. ASSUME NEW s \in Slots, Write(s) PROVE job' \in Jobs
  BY <1>7 DEF Write, Jobs, Pcs
<1>8. ASSUME NEW s \in Slots, WriteFails(s) PROVE job' \in Jobs
  BY <1>8 DEF WriteFails, Jobs
<1>9. ASSUME NEW s \in Slots, Delete(s) \/ DeleteFails(s) PROVE job' \in Jobs
  BY <1>9 DEF Delete, DeleteFails, Jobs
<1>10. CASE Check \/ CheckFails
  <2>1. job' = [job EXCEPT !.pc = "write", !.todo = @ \ {job.slot}, !.slot = None]
    BY <1>10 DEF Check, CheckFails
  <2>2. "write" \in Pcs /\ job.todo \ {job.slot} \subseteq Slots
    BY DEF Pcs
  <2> QED
    BY <2>1, <2>2, JobMoved
<1>11. CASE KeyDone
  BY <1>11 DEF KeyDone, Jobs, Pcs, Nowhere
<1>12. CASE (\E c \in Configs : ConfigWrite(c)) \/ \E i \in Ids, o \in Overrides \cup {None} : External(i, o)
  BY <1>12 DEF ConfigWrite, External
<1> QED
  BY <1>1, <1>2, <1>3, <1>4, <1>5, <1>6, <1>7, <1>8, <1>9, <1>10, <1>11, <1>12 DEF Next, Pass

\* Which ID a write may take.
LEMMA TargetOf ==
    ASSUME PassInv, NEW s \in Slots, job.pc = "write", s \in job.todo, NEW i \in Target(s)
    PROVE  /\ i \in Ids /\ s \in Expected(job.plan) /\ s \in OfKey(job.key)
           /\ \/ native[i] = None
              \/ native[i].slot \in touched
              \/ Owned(i) /\ native[i].slot = s
           /\ job.ids[s] # None => i = job.ids[s]
           /\ job.ids[s] = None => \A t \in Slots : job.ids[t] # i
<1>1. job.ids \in [Slots -> Ids \cup {None}]
  BY JobTyped DEF PassInv, TypeOK
<1> QED
  BY <1>1 DEF PassInv, JobInv, IdsInv, OnKey, Target, Fresh, Owned

LEMMA NativeStays ==
    PassInv /\ Next => /\ DOMAIN native' = Ids
                       /\ \A i \in Ids : native'[i] = None \/ native'[i] \in Overrides
<1> DEFINE Ok == /\ DOMAIN native' = Ids
                 /\ \A i \in Ids : native'[i] = None \/ native'[i] \in Overrides
<1> SUFFICES ASSUME PassInv, Next PROVE Ok
  OBVIOUS
<1>0. TypeOK
  BY DEF PassInv
<1>1. ASSUME NEW s \in Slots, Write(s) \/ WriteFails(s) PROVE Ok
  <2>1. CASE native' = native
    BY <1>0, <2>1 DEF TypeOK
  <2>2. ASSUME NEW i \in Target(s), native' = Written(s, i) PROVE Ok
    <3>1. job.pc = "write" /\ s \in job.todo
      BY <1>1 DEF Write, WriteFails
    <3>2. i \in Ids /\ s \in Expected(job.plan)
      BY <3>1, TargetOf
    <3> QED
      BY <1>0, <2>2, <3>2, WrittenTyped DEF TypeOK
  <2> QED
    BY <1>1, <2>1, <2>2 DEF Write, WriteFails
<1>2. ASSUME NEW s \in Slots, Delete(s) \/ DeleteFails(s) PROVE Ok
  BY <1>0, <1>2 DEF Delete, DeleteFails, TypeOK
<1>3. ASSUME NEW i \in Ids, NEW o \in Overrides \cup {None}, External(i, o) PROVE Ok
  BY <1>0, <1>3 DEF External, TypeOK
<1>4. ASSUME native' = native PROVE Ok
  BY <1>0, <1>4 DEF TypeOK
<1>5. ASSUME NEW k \in PKeys, ListKey(k) \/ ListKeyFails(k) PROVE Ok
  BY <1>4, <1>5 DEF ListKey, ListKeyFails
<1>6. ASSUME NEW c \in Configs, Publish(c) \/ ConfigWrite(c) PROVE Ok
  BY <1>4, <1>6 DEF Publish, ConfigWrite
<1>7. CASE AliasesFail \/ AliasesDone \/ Discover \/ DiscoverFails \/ Check \/ CheckFails
           \/ KeyDone \/ PassDone \/ Restart
  BY <1>4, <1>7 DEF AliasesFail, AliasesDone, Discover, DiscoverFails, Check, CheckFails,
                    KeyDone, PassDone, Restart
<1> QED
  BY <1>1, <1>2, <1>3, <1>5, <1>6, <1>7 DEF Next, Pass

LEMMA KnownStays ==
    PassInv /\ Next => proofs' \in [Slots -> Proofs] /\ keyProofs' \subseteq PKeys
<1> DEFINE Ok == proofs' \in [Slots -> Proofs] /\ keyProofs' \subseteq PKeys
<1> SUFFICES ASSUME PassInv, Next PROVE Ok
  OBVIOUS
<1>0. proofs \in [Slots -> Proofs] /\ keyProofs \subseteq PKeys /\ job \in Jobs
  BY DEF PassInv, TypeOK
<1>1. \A S : Refuted(S) \in [Slots -> Proofs]
  BY <1>0, ProofsTyped DEF Refuted
<1>2. CASE Discover \/ DiscoverFails \/ Restart
  BY <1>0, <1>1, <1>2, ProofsTyped DEF Discover, DiscoverFails, Restart
<1>3. ASSUME NEW k \in PKeys, ListKey(k) \/ ListKeyFails(k) PROVE Ok
  BY <1>0, <1>1, <1>3 DEF ListKey, ListKeyFails
<1>4. ASSUME NEW s \in Slots, Write(s) \/ WriteFails(s) \/ Delete(s) \/ DeleteFails(s) PROVE Ok
  BY <1>0, <1>4, ProofsTyped DEF Write, WriteFails, Delete, DeleteFails, known
<1>5. CASE Check
  <2>1. Price(job.plan, job.slot) \in Prices
    BY <1>0, <1>5, JobTyped, ExpectedTyped DEF Check, PassInv, JobInv, OnKey
  <2> QED
    BY <1>0, <1>5, <2>1, ProofsTyped DEF Check
<1>6. CASE CheckFails
  BY <1>0, <1>6, ProofsTyped DEF CheckFails
<1>7. CASE UNCHANGED known
  BY <1>0, <1>7 DEF known
<1>8. CASE AliasesFail \/ AliasesDone \/ KeyDone \/ PassDone
  BY <1>7, <1>8 DEF AliasesFail, AliasesDone, KeyDone, PassDone
<1>9. ASSUME NEW c \in Configs, Publish(c) \/ ConfigWrite(c) PROVE Ok
  BY <1>7, <1>9 DEF Publish, ConfigWrite
<1>10. ASSUME NEW i \in Ids, NEW o \in Overrides \cup {None}, External(i, o) PROVE Ok
  BY <1>7, <1>10 DEF External
<1> QED
  BY <1>2, <1>3, <1>4, <1>5, <1>6, <1>8, <1>9, <1>10 DEF Next, Pass

LEMMA OthersStay ==
    PassInv /\ Next => /\ touched' \subseteq lapsed' /\ lapsed' \subseteq Slots /\ made' \subseteq Slots
                       /\ made \subseteq made'
                       /\ ~(\E c \in Configs : Publish(c)) => touched \subseteq touched'
<1> DEFINE Ok == /\ touched' \subseteq lapsed' /\ lapsed' \subseteq Slots /\ made' \subseteq Slots
                 /\ made \subseteq made'
<1> SUFFICES ASSUME PassInv, Next
             PROVE  Ok /\ (~(\E c \in Configs : Publish(c)) => touched \subseteq touched')
  OBVIOUS
<1>0. /\ touched \subseteq lapsed /\ lapsed \subseteq Slots /\ made \subseteq Slots
      /\ \A i \in Ids : native[i] # None => native[i].slot \in Slots
  BY DEF PassInv, OthersInv, TypeOK, Overrides
<1>1. ASSUME NEW c \in Configs, Publish(c) PROVE Ok
  BY <1>0, <1>1 DEF Publish
<1>2. ASSUME Check PROVE Ok /\ touched \subseteq touched'
  BY <1>0, <1>2 DEF Check
<1>3. ASSUME NEW i \in Ids, NEW o \in Overrides \cup {None}, External(i, o)
      PROVE  Ok /\ touched \subseteq touched'
  <2>1. o # None => o.slot \in Slots
    BY DEF Overrides
  <2>2. {q.slot : q \in {native[i], o} \ {None}} \subseteq Slots
    BY <1>0, <2>1
  <2>3. made' \subseteq Slots /\ made \subseteq made'
    BY <1>0, <1>3, <2>1 DEF External
  <2> QED
    BY <1>0, <1>3, <2>2, <2>3 DEF External
<1>4. CASE UNCHANGED others
  BY <1>0, <1>4 DEF others
<1>5. ASSUME NEW k \in PKeys, ListKey(k) \/ ListKeyFails(k) PROVE UNCHANGED others
  BY <1>5 DEF ListKey, ListKeyFails
<1>6. ASSUME NEW s \in Slots, Write(s) \/ WriteFails(s) \/ Delete(s) \/ DeleteFails(s)
      PROVE  UNCHANGED others
  BY <1>6 DEF Write, WriteFails, Delete, DeleteFails
<1>7. ASSUME NEW c \in Configs, ConfigWrite(c) PROVE UNCHANGED others
  BY <1>7 DEF ConfigWrite
<1>8. ASSUME \/ AliasesFail \/ AliasesDone \/ Discover \/ DiscoverFails
             \/ CheckFails \/ KeyDone \/ PassDone \/ Restart
      PROVE  UNCHANGED others
  BY <1>8 DEF AliasesFail, AliasesDone, Discover, DiscoverFails, CheckFails, KeyDone, PassDone,
              Restart
<1> QED
  BY <1>1, <1>2, <1>3, <1>4, <1>5, <1>6, <1>7, <1>8 DEF Next, Pass, others

LEMMA BoundsStay ==
    TypeOK /\ Next => passes' \in 0..MaxPasses /\ outside' \in 0..MaxOutside
<1> DEFINE Ok == passes' \in 0..MaxPasses /\ outside' \in 0..MaxOutside
<1> SUFFICES ASSUME TypeOK, Next PROVE Ok
  OBVIOUS
<1>0. passes \in 0..MaxPasses /\ outside \in 0..MaxOutside /\ MaxPasses \in Nat /\ MaxOutside \in Nat
  BY PricingAssumption DEF TypeOK
<1>1. ASSUME NEW c \in Configs, Publish(c) PROVE Ok
  BY <1>0, <1>1 DEF Publish
<1>2. ASSUME NEW c \in Configs, ConfigWrite(c) PROVE Ok
  BY <1>0, <1>2 DEF ConfigWrite
<1>3. ASSUME NEW i \in Ids, NEW o \in Overrides \cup {None}, External(i, o) PROVE Ok
  BY <1>0, <1>3 DEF External
<1>4. CASE Pass
  <2>1. UNCHANGED bounds
    BY <1>4 DEF Pass, AliasesFail, AliasesDone, Discover, DiscoverFails, ListKey, ListKeyFails,
                Write, WriteFails, Delete, DeleteFails, Check, CheckFails, KeyDone, PassDone
  <2> QED
    BY <1>0, <2>1 DEF bounds
<1>5. CASE Restart
  BY <1>0, <1>5 DEF Restart, bounds
<1> QED
  BY <1>1, <1>2, <1>3, <1>4, <1>5 DEF Next

LEMMA TypeNext == PassInv /\ [Next]_vars => TypeOK'
<1>1. ASSUME PassInv, Next PROVE TypeOK'
  <2>0. TypeOK /\ JobInv
    BY <1>1 DEF PassInv
  <2>1. cfg' \in Configs
    BY <1>1, <2>0 DEF TypeOK, Next, Pass, Publish, ConfigWrite, External, Restart, AliasesFail,
        AliasesDone, Discover, DiscoverFails, ListKey, ListKeyFails, Write, WriteFails, Delete,
        DeleteFails, Check, CheckFails, KeyDone, PassDone
  <2>2. blind' \in BOOLEAN /\ clean' \in BOOLEAN
    <3>1. blind' \in {TRUE, FALSE, blind}
      BY <1>1 DEF Next, Pass, Publish, ConfigWrite, External, Restart, AliasesFail, AliasesDone,
        Discover, DiscoverFails, ListKey, ListKeyFails, Write, WriteFails, Delete, DeleteFails,
        Check, CheckFails, KeyDone, PassDone, known
    <3>2. clean' \in {TRUE, FALSE, clean, clean /\ Denies(job.slot)}
      BY <1>1 DEF Next, Pass, Publish, ConfigWrite, External, Restart, AliasesFail, AliasesDone,
        Discover, DiscoverFails, ListKey, ListKeyFails, Write, WriteFails, Delete, DeleteFails,
        Check, CheckFails, KeyDone, PassDone
    <3> QED
      BY <2>0, <3>1, <3>2 DEF TypeOK
  <2>3. job' \in Jobs
    BY <1>1, <2>0, JobStays
  <2>4. DOMAIN native' = Ids /\ \A i \in Ids : native'[i] = None \/ native'[i] \in Overrides
    BY <1>1, NativeStays
  <2>5. proofs' \in [Slots -> Proofs] /\ keyProofs' \subseteq PKeys
    BY <1>1, KnownStays
  <2>6. touched' \subseteq Slots /\ lapsed' \subseteq Slots /\ made' \subseteq Slots
    BY <1>1, OthersStay
  <2>7. passes' \in 0..MaxPasses /\ outside' \in 0..MaxOutside
    BY <1>1, <2>0, BoundsStay
  <2> QED
    BY <2>1, <2>2, <2>3, <2>4, <2>5, <2>6, <2>7 DEF TypeOK
<1>2. ASSUME PassInv, UNCHANGED vars PROVE TypeOK'
  BY <1>2 DEF PassInv, TypeOK, vars, known, bounds, others
<1> QED
  BY <1>1, <1>2

----------------------------------------------------------------------------
(* What a step does to the job, once for all the invariants.               *)

SameJob == /\ job'.plan = job.plan /\ job'.keys = job.keys /\ job'.key = job.key
           /\ job'.ids = job.ids
SameOthers == UNCHANGED <<touched, made>>

LEMMA ListEffect ==
    ASSUME TypeOK, NEW k \in PKeys, ListKey(k)
    PROVE  /\ job.pc = "keys" /\ k \in job.keys /\ SameOthers /\ UNCHANGED <<native, lapsed>>
           /\ job'.pc = "write" /\ job'.key = k /\ job'.keys = job.keys \ {k}
           /\ job'.plan = job.plan /\ job'.slot = job.slot
           /\ job'.todo = Expected(job.plan) \cap OfKey(k)
           /\ job'.stale = {s \in OfKey(k) : Has(s) # {}} \ Expected(job.plan)
           /\ job'.ids \in [Slots -> Ids \cup {None}]
           /\ \A s \in Slots : IF s \in OfKey(k) /\ Has(s) # {}
                               THEN job'.ids[s] \in Has(s) ELSE job'.ids[s] = None
BY JobTyped DEF TypeOK, ListKey, SameOthers, others

LEMMA WriteEffect ==
    ASSUME TypeOK, NEW s \in Slots, Write(s) \/ WriteFails(s)
    PROVE  /\ job.pc = "write" /\ s \in job.todo /\ SameJob /\ SameOthers /\ lapsed' = lapsed
           /\ job'.stale = job.stale
           /\ native' = native \/ \E i \in Target(s) : native' = Written(s, i)
           /\ Write(s) => /\ job'.pc = "check" /\ job'.slot = s /\ job'.todo = job.todo
                          /\ \E i \in Target(s) : native' = Written(s, i)
           /\ WriteFails(s) => /\ job'.pc = "write" /\ job'.slot = job.slot
                               /\ job'.todo = job.todo \ {s}
<1>1. job.pc = "write" /\ s \in job.todo /\ SameOthers /\ lapsed' = lapsed
  BY DEF Write, WriteFails, SameOthers, others
<1>2. ASSUME Write(s)
      PROVE  /\ SameJob /\ job'.pc = "check" /\ job'.slot = s /\ job'.todo = job.todo /\ job'.stale = job.stale
             /\ \E i \in Target(s) : native' = Written(s, i)
  <2>1. job' = [job EXCEPT !.pc = "check", !.slot = s]
    BY <1>2 DEF Write
  <2>2. SameJob /\ job'.pc = "check" /\ job'.slot = s /\ job'.todo = job.todo /\ job'.stale = job.stale
    BY <2>1, JobTyped DEF TypeOK, SameJob
  <2> QED BY <1>2, <2>2 DEF Write
<1>3. ASSUME WriteFails(s)
      PROVE  /\ SameJob /\ job'.pc = "write" /\ job'.slot = job.slot /\ job'.todo = job.todo \ {s}
             /\ job'.stale = job.stale
             /\ native' = native \/ \E i \in Target(s) : native' = Written(s, i)
  <2>1. job' = [job EXCEPT !.todo = job.todo \ {s}]
    BY <1>3 DEF WriteFails
  <2>2. /\ SameJob /\ job'.pc = job.pc /\ job'.slot = job.slot /\ job'.todo = job.todo \ {s}
        /\ job'.stale = job.stale
    BY <2>1, JobTyped DEF TypeOK, SameJob
  <2>3. native' = native \/ \E i \in Target(s) : native' = Written(s, i)
    BY <1>3 DEF WriteFails
  <2> QED BY <1>1, <2>2, <2>3
<1> QED BY <1>1, <1>2, <1>3

LEMMA DeleteEffect ==
    ASSUME TypeOK, NEW s \in Slots, Delete(s) \/ DeleteFails(s)
    PROVE  /\ job.pc = "write" /\ s \in job.stale /\ SameJob /\ SameOthers /\ lapsed' = lapsed
           /\ job'.pc = "write" /\ job'.slot = job.slot /\ job'.todo = job.todo
           /\ job'.stale = job.stale \ {s}
           /\ native' \in {native, [native EXCEPT ![job.ids[s]] = None]}
           /\ Delete(s) => native' = [native EXCEPT ![job.ids[s]] = None]
<1>1. job.pc = "write" /\ s \in job.stale /\ SameOthers /\ lapsed' = lapsed
  BY DEF Delete, DeleteFails, SameOthers, others
<1>2. job' = [job EXCEPT !.stale = job.stale \ {s}]
  BY DEF Delete, DeleteFails
<1>3. /\ SameJob /\ job'.pc = job.pc /\ job'.slot = job.slot /\ job'.todo = job.todo
      /\ job'.stale = job.stale \ {s}
  BY <1>2, JobTyped DEF TypeOK, SameJob
<1>4. /\ native' \in {native, [native EXCEPT ![job.ids[s]] = None]}
      /\ Delete(s) => native' = [native EXCEPT ![job.ids[s]] = None]
  BY DEF Delete, DeleteFails
<1> QED BY <1>1, <1>3, <1>4

LEMMA CheckEffect ==
    ASSUME TypeOK, Check \/ CheckFails
    PROVE  /\ job.pc = "check" /\ SameJob /\ SameOthers /\ native' = native
           /\ job'.pc = "write" /\ job'.slot = None /\ job'.todo = job.todo \ {job.slot}
           /\ job'.stale = job.stale
<1>1. job.pc = "check" /\ SameOthers /\ native' = native
  BY DEF Check, CheckFails, SameOthers, others
<1>2. job' = [job EXCEPT !.pc = "write", !.slot = None, !.todo = job.todo \ {job.slot}]
  BY DEF Check, CheckFails
<1>3. /\ SameJob /\ job'.pc = "write" /\ job'.slot = None /\ job'.todo = job.todo \ {job.slot}
      /\ job'.stale = job.stale
  BY <1>2, JobTyped DEF TypeOK, SameJob
<1> QED BY <1>1, <1>3

\* Every other step leaves Bifrost alone, and has no key on hand afterwards.
Moves == \/ \E c \in Configs : Publish(c)
         \/ AliasesFail \/ AliasesDone \/ Discover \/ DiscoverFails
         \/ (\E k \in PKeys : ListKeyFails(k)) \/ KeyDone \/ PassDone \/ Restart

LEMMA MoveEffect ==
    ASSUME TypeOK, JobInv, Moves
    PROVE  /\ native' = native /\ made' = made /\ lapsed' = lapsed
           /\ job'.pc \in {"idle", "aliases", "discover", "keys"}
           /\ job'.todo = {} /\ job'.stale = {} /\ job'.slot = None
<1> DEFINE Effect == /\ native' = native /\ made' = made /\ lapsed' = lapsed
                     /\ job'.pc \in {"idle", "aliases", "discover", "keys"}
                     /\ job'.todo = {} /\ job'.stale = {} /\ job'.slot = None
<1>0. job \in Jobs /\ JobInv
  BY DEF TypeOK
<1> USE JobTyped DEF OnKey, others
<1>1. ASSUME NEW c \in Configs, Publish(c) PROVE Effect
  BY <1>1 DEF Publish, Idle
<1>2. CASE AliasesFail \/ PassDone \/ Restart
  BY <1>2 DEF AliasesFail, PassDone, Restart, Idle
<1>3. CASE AliasesDone
  BY <1>0, <1>3 DEF AliasesDone, JobInv
<1>4. CASE Discover
  BY <1>0, <1>4 DEF Discover, JobInv
<1>5. CASE DiscoverFails
  BY <1>0, <1>5 DEF DiscoverFails, JobInv
<1>6. ASSUME NEW k \in PKeys, ListKeyFails(k) PROVE Effect
  BY <1>0, <1>6 DEF ListKeyFails, JobInv
<1>7. CASE KeyDone
  BY <1>0, <1>7 DEF KeyDone, JobInv
<1> QED
  BY <1>1, <1>2, <1>3, <1>4, <1>5, <1>6, <1>7 DEF Moves

Around == \/ \E c \in Configs : ConfigWrite(c)
          \/ \E i \in Ids, o \in Overrides \cup {None} : External(i, o)
          \/ UNCHANGED vars

\* What others do in Bifrost is seen to.
LEMMA AroundEffect ==
    ASSUME TypeOK, Around
    PROVE  /\ UNCHANGED <<job, proofs, keyProofs, blind, clean>>
           /\ touched \subseteq touched' /\ made \subseteq made' /\ lapsed \subseteq lapsed'
           /\ \A i \in Ids : \/ native'[i] = native[i]
                             \/ /\ native[i] = None \/ native[i].slot \in touched' \cap lapsed'
                                /\ \/ native'[i] = None
                                   \/ native'[i].slot \in touched' \cap lapsed' \cap made'
<1>1. ASSUME NEW i \in Ids, NEW o \in Overrides \cup {None}, External(i, o)
      PROVE  \A j \in Ids : \/ native'[j] = native[j]
                            \/ /\ native[j] = None \/ native[j].slot \in touched' \cap lapsed'
                               /\ \/ native'[j] = None
                                  \/ native'[j].slot \in touched' \cap lapsed' \cap made'
  <2>1. native'[i] = o /\ \A j \in Ids \ {i} : native'[j] = native[j]
    BY <1>1 DEF External, TypeOK
  <2> QED
    BY <1>1, <2>1 DEF External
<1>2. ASSUME NEW i \in Ids, NEW o \in Overrides \cup {None}, External(i, o)
      PROVE  /\ UNCHANGED <<job, proofs, keyProofs, blind, clean>>
             /\ touched \subseteq touched' /\ made \subseteq made' /\ lapsed \subseteq lapsed'
  BY <1>2 DEF External, known
<1>3. ASSUME NEW c \in Configs, ConfigWrite(c)
      PROVE  UNCHANGED <<native, job, proofs, keyProofs, blind, clean, touched, made, lapsed>>
  BY <1>3 DEF ConfigWrite, known, others
<1>4. CASE UNCHANGED vars
  BY <1>4 DEF vars, known, others
<1>5. CASE \E i \in Ids, o \in Overrides \cup {None} : External(i, o)
  <2>1. PICK i \in Ids, o \in Overrides \cup {None} : External(i, o)
    BY <1>5
  <2> QED
    BY <1>1, <1>2, <2>1
<1>6. CASE (\E c \in Configs : ConfigWrite(c)) \/ UNCHANGED vars
  BY <1>3, <1>4, <1>6
<1> QED
  BY <1>5, <1>6 DEF Around

LEMMA StepCases ==
    ASSUME [Next]_vars
    PROVE  \/ Moves \/ Around \/ Check \/ CheckFails
           \/ \E k \in PKeys : ListKey(k)
           \/ \E s \in Slots : Write(s) \/ WriteFails(s)
           \/ \E s \in Slots : Delete(s) \/ DeleteFails(s)
BY DEF Next, Pass, Moves, Around

----------------------------------------------------------------------------
(* What a pass holds.                                                      *)

LEMMA JobInvNext == PassInv /\ [Next]_vars => JobInv'
<1> SUFFICES ASSUME PassInv, [Next]_vars PROVE JobInv'
  OBVIOUS
<1>0. TypeOK /\ job \in Jobs /\ JobInv
  BY DEF PassInv, TypeOK
<1> USE DEF OnKey
<1>1. CASE Moves
  BY <1>0, <1>1, MoveEffect DEF JobInv
<1>2. CASE Around
  BY <1>0, <1>2, AroundEffect DEF JobInv, Expected, Price
<1>3. CASE Check \/ CheckFails
  BY <1>0, <1>3, CheckEffect DEF JobInv, SameJob, Expected, Price
<1>4. ASSUME NEW k \in PKeys, ListKey(k) PROVE JobInv'
  <2>1. \A s \in job'.stale : job'.ids[s] # None
    BY <1>0, <1>4, ListEffect, PricingAssumption DEF Has, OfKey
  <2>2. Expected(job.plan)' = Expected(job.plan)
    BY <1>0, <1>4, ListEffect
  <2> QED
    BY <1>0, <1>4, <2>1, <2>2, ListEffect DEF JobInv
<1>5. ASSUME NEW s \in Slots, Write(s) \/ WriteFails(s) PROVE JobInv'
  BY <1>0, <1>5, WriteEffect DEF JobInv, SameJob, Expected, Price
<1>6. ASSUME NEW s \in Slots, Delete(s) \/ DeleteFails(s) PROVE JobInv'
  BY <1>0, <1>6, DeleteEffect DEF JobInv, SameJob, Expected, Price
<1> QED
  BY <1>1, <1>2, <1>3, <1>4, <1>5, <1>6, StepCases

\* What a step does to the overrides of a slot it is not about.
Kept(t) == Has(t)' = Has(t) /\ Billed(t)' = Billed(t) /\ Named(t)' = Named(t)

LEMMA WriteFrame ==
    ASSUME PassInv, NEW s \in Slots, Write(s) \/ WriteFails(s), NEW t \in Slots, t # s
    PROVE  Has(t)' \subseteq Has(t) /\ (t \notin touched => Kept(t))
<1>0. TypeOK
  BY DEF PassInv
<1>1. CASE native' = native
  BY <1>1, FrameAll DEF Kept
<1>2. ASSUME NEW i \in Target(s), native' = Written(s, i)
      PROVE  Has(t)' \subseteq Has(t) /\ (t \notin touched => Kept(t))
  <2>1. /\ i \in Ids /\ s \in Expected(job.plan)
        /\ native[i] = None \/ native[i].slot = s \/ native[i].slot \in touched
    BY <1>0, WriteEffect, TargetOf
  <2>2. native'[i] # None /\ native'[i].slot = s /\ \A j \in Ids \ {i} : native'[j] = native[j]
    BY <1>0, <1>2, <2>1, WrittenTyped
  <2>3. Has(t)' \subseteq Has(t)
    BY <2>2 DEF Has, Owned
  <2>4. t \notin touched => Kept(t)
    BY <2>1, <2>2, Frame DEF Kept
  <2> QED
    BY <2>3, <2>4
<1> QED
  BY <1>0, <1>1, <1>2, WriteEffect

LEMMA DeleteFrame ==
    ASSUME PassInv, NEW s \in Slots, Delete(s) \/ DeleteFails(s), NEW t \in Slots
    PROVE  Has(t)' \subseteq Has(t) /\ (t # s /\ t \notin touched => Kept(t))
<1>0. TypeOK /\ JobInv /\ IdsInv
  BY DEF PassInv
<1>1. CASE native' = native
  BY <1>1, FrameAll DEF Kept
<1>2. CASE native' = [native EXCEPT ![job.ids[s]] = None]
  <2> DEFINE i == job.ids[s]
  <2>1. /\ i \in Ids
        /\ native[i] = None \/ native[i].slot = s \/ native[i].slot \in touched
    BY <1>0, DeleteEffect, JobTyped DEF TypeOK, JobInv, IdsInv, OnKey
  <2>2. native'[i] = None /\ \A j \in Ids \ {i} : native'[j] = native[j]
    BY <1>0, <1>2, <2>1 DEF TypeOK
  <2> HIDE DEF i
  <2>3. Has(t)' \subseteq Has(t)
    BY <2>1, <2>2 DEF Has, Owned
  <2>4. t # s /\ t \notin touched => Kept(t)
    BY <2>1, <2>2, Frame DEF Kept
  <2> QED
    BY <2>3, <2>4
<1> QED
  BY <1>0, <1>1, <1>2, DeleteEffect

LEMMA AroundFrame ==
    ASSUME TypeOK, Around, NEW t \in Slots
    PROVE  /\ t \notin made' => Has(t)' \subseteq Has(t)
           /\ t \notin touched' \cap lapsed' => Kept(t)
<1>1. ASSUME t \notin made' PROVE Has(t)' \subseteq Has(t)
  BY <1>1, AroundEffect DEF Has, Owned
<1>2. ASSUME t \notin touched' \cap lapsed' PROVE Kept(t)
  <2>1. Has(t)' = Has(t) /\ Named(t)' = Named(t)
    BY <1>2, AroundEffect DEF Has, Owned, Named
  <2>2. \A j \in Has(t) : native'[j] = native[j]
    BY <1>2, <2>1, AroundEffect DEF Has, Owned
  <2> QED
    BY <2>1, <2>2 DEF Billed, Kept
<1> QED
  BY <1>1, <1>2

LEMMA OthersInvNext == PassInv /\ [Next]_vars => OthersInv'
<1> SUFFICES ASSUME PassInv, [Next]_vars PROVE OthersInv'
  OBVIOUS
<1>0. TypeOK /\ JobInv /\ OthersInv
  BY DEF PassInv
<1>1. touched' \subseteq lapsed' /\ made \subseteq made'
  BY <1>0, OthersStay DEF vars, OthersInv
<1> DEFINE Made == \A i \in Ids : native'[i] # None /\ ~native'[i].owned => native'[i].slot \in made'
<1>2. CASE native' = native
  BY <1>0, <1>1, <1>2 DEF OthersInv
<1>3. CASE Around
  BY <1>0, <1>1, <1>3, AroundEffect DEF OthersInv
<1>4. ASSUME NEW s \in Slots, Write(s) \/ WriteFails(s) PROVE Made
  <2>1. ASSUME NEW i \in Target(s), native' = Written(s, i) PROVE Made
    <3>1. i \in Ids /\ s \in Expected(job.plan)
      BY <1>0, <1>4, WriteEffect, TargetOf
    <3> QED
      BY <1>0, <1>1, <2>1, <3>1, WrittenTyped DEF OthersInv
  <2> QED
    BY <1>0, <1>1, <1>4, <2>1, WriteEffect DEF OthersInv
<1>5. ASSUME NEW s \in Slots, Delete(s) \/ DeleteFails(s) PROVE Made
  BY <1>0, <1>1, <1>5, DeleteEffect DEF OthersInv, TypeOK
<1> QED
  BY <1>0, <1>1, <1>2, <1>3, <1>4, <1>5, StepCases, MoveEffect, CheckEffect, ListEffect DEF OthersInv

LEMMA IdsInvNext == PassInv /\ RetryDoesNotDuplicate /\ [Next]_vars => IdsInv'
<1> SUFFICES ASSUME PassInv, RetryDoesNotDuplicate, [Next]_vars PROVE IdsInv'
  OBVIOUS
<1>0. TypeOK /\ JobInv /\ IdsInv /\ OthersInv
  BY DEF PassInv
<1>1. job.ids \in [Slots -> Ids \cup {None}] /\ job.todo \subseteq Slots /\ job.stale \subseteq Slots
  BY <1>0, JobTyped DEF TypeOK
<1> USE DEF OnKey, Open
<1>2. CASE Moves
  BY <1>0, <1>2, MoveEffect DEF IdsInv
<1>3. CASE Around
  <2>1. \A t \in Slots : t \notin made' => Has(t)' \subseteq Has(t)
    BY <1>0, <1>3, AroundFrame
  <2> QED
    BY <1>0, <1>1, <1>3, <2>1, AroundEffect DEF IdsInv, Owned
<1>4. CASE Check \/ CheckFails
  <2>1. \A t \in Slots : Has(t)' = Has(t)
    BY <1>0, <1>4, CheckEffect, FrameAll
  <2>2. \A t \in Slots : Owned(job.ids[t])' = Owned(job.ids[t])
    BY <1>0, <1>4, CheckEffect DEF Owned, SameJob
  <2> QED
    BY <1>0, <1>1, <1>4, <2>1, <2>2, CheckEffect DEF IdsInv, JobInv, SameJob, SameOthers
<1>5. ASSUME NEW k \in PKeys, ListKey(k) PROVE IdsInv'
  <2>1. \A s \in Slots : job'.ids[s] # None =>
            job'.ids[s] \in Ids /\ Owned(job'.ids[s]) /\ native[job'.ids[s]].slot = s
    BY <1>0, <1>5, ListEffect DEF Has
  <2>2. \A s \in Slots \ made : s \in OfKey(k) => \A i \in Has(s) : i = job'.ids[s]
    BY <1>0, <1>5, ListEffect DEF RetryDoesNotDuplicate
  <2>3. \A s \in job'.todo \cup job'.stale : s \in OfKey(k)
    BY <1>0, <1>5, ListEffect
  <2>4. native' = native /\ made' = made /\ job'.pc = "write" /\ \A s \in Slots : Has(s)' = Has(s)
    BY <1>0, <1>5, ListEffect, FrameAll DEF SameOthers
  <2> QED
    BY <2>1, <2>2, <2>3, <2>4 DEF IdsInv, Owned
<1>6. ASSUME NEW s \in Slots, Write(s) \/ WriteFails(s) PROVE IdsInv'
  <2>1. /\ job.pc = "write" /\ s \in job.todo /\ job'.ids = job.ids /\ job.slot = None
        /\ touched' = touched /\ made' = made /\ s \notin job.stale
    BY <1>0, <1>6, WriteEffect DEF SameJob, SameOthers, JobInv
  <2>2. \A t \in Slots : job.ids[t] # None =>
              \/ native'[job.ids[t]] = None
              \/ native'[job.ids[t]].slot \in touched
              \/ Owned(job.ids[t])' /\ native'[job.ids[t]].slot = t
    <3>1. CASE native' = native
      BY <1>0, <2>1, <3>1 DEF IdsInv, Owned
    <3>2. ASSUME NEW i \in Target(s), native' = Written(s, i), NEW t \in Slots, job.ids[t] # None
          PROVE  \/ native'[job.ids[t]] = None
                 \/ native'[job.ids[t]].slot \in touched
                 \/ Owned(job.ids[t])' /\ native'[job.ids[t]].slot = t
      <4>1. /\ i \in Ids /\ s \in Expected(job.plan)
            /\ job.ids[s] # None => i = job.ids[s]
            /\ job.ids[s] = None => job.ids[t] # i
        BY <2>1, TargetOf
      <4>2. CASE job.ids[t] = i
        <5>1. t = s
          BY <1>0, <2>1, <4>1, <4>2 DEF IdsInv
        <5> QED
          BY <1>0, <2>1, <3>2, <4>1, <4>2, <5>1, WrittenTyped DEF Owned
      <4>3. CASE job.ids[t] # i
        <5>1. native'[job.ids[t]] = native[job.ids[t]]
          BY <1>0, <1>1, <3>2, <4>1, <4>3, WrittenTyped
        <5> QED
          BY <1>0, <2>1, <3>2, <5>1 DEF IdsInv, Owned
      <4> QED
        BY <4>2, <4>3
    <3> QED
      BY <1>0, <1>6, <3>1, <3>2, WriteEffect
  <2>3. \A t \in Slots \ {s} : Has(t)' \subseteq Has(t)
    BY <1>6, WriteFrame
  <2>4. job'.slot = s \/ job'.todo = job.todo \ {s}
    BY <1>0, <1>6, WriteEffect
  <2>5. job'.todo \subseteq job.todo /\ job'.stale = job.stale
    BY <1>0, <1>6, WriteEffect
  <2>6. \A t \in Slots \ made : (t \in job'.todo \cup job'.stale) /\ t # job'.slot => t # s /\ t # job.slot
    BY <2>1, <2>4, <2>5, PricingAssumption
  <2>7. \A t \in Slots \ made : (t \in job'.todo \cup job'.stale) /\ t # job'.slot => Has(t)' \subseteq {job.ids[t]}
    BY <1>0, <2>1, <2>3, <2>5, <2>6 DEF IdsInv
  <2> QED
    BY <1>0, <2>1, <2>2, <2>7 DEF IdsInv, Owned
<1>7. ASSUME NEW s \in Slots, Delete(s) \/ DeleteFails(s) PROVE IdsInv'
  <2>1. \A t \in Slots : Has(t)' \subseteq Has(t)
    BY <1>7, DeleteFrame
  <2>2. \A t \in Slots : job.ids[t] # None =>
              native'[job.ids[t]] = None \/ native'[job.ids[t]] = native[job.ids[t]]
    BY <1>0, <1>1, <1>7, DeleteEffect DEF TypeOK
  <2> QED
    BY <1>0, <1>7, <2>1, <2>2, DeleteEffect DEF IdsInv, SameJob, SameOthers, Owned
<1> QED
  BY <1>2, <1>3, <1>4, <1>5, <1>6, <1>7, StepCases

\* A write is billed, and is the only override of its slot unless others made one.
LEMMA WroteBilled ==
    ASSUME PassInv, NEW s \in Slots, Write(s) \/ WriteFails(s),
           NEW i \in Target(s), native' = Written(s, i)
    PROVE  /\ Price(job.plan, s) \in Billed(s)'
           /\ s \notin made => Has(s)' \subseteq {i}
<1>0. TypeOK /\ JobInv /\ IdsInv
  BY DEF PassInv
<1>1. job.pc = "write" /\ s \in job.todo /\ job.slot = None
  BY <1>0, WriteEffect DEF JobInv
<1>2. /\ i \in Ids /\ s \in Expected(job.plan)
      /\ job.ids[s] # None => i = job.ids[s]
  BY <1>1, TargetOf
<1>3. /\ native'[i] # None /\ native'[i].slot = s /\ native'[i].owned
      /\ native'[i].price = Price(job.plan, s)
      /\ \A j \in Ids \ {i} : native'[j] = native[j]
  BY <1>0, <1>2, WrittenTyped
<1>4. i \in Has(s)' /\ Has(s)' \subseteq Has(s) \cup {i}
  BY <1>2, <1>3 DEF Has, Owned
<1>5. Price(job.plan, s) \in Billed(s)'
  BY <1>3, <1>4 DEF Billed
<1>6. ASSUME s \notin made PROVE Has(s)' \subseteq {i}
  <2>1. Has(s) \subseteq {job.ids[s]} /\ Has(s) \subseteq Ids
    BY <1>0, <1>1, <1>6, PricingAssumption DEF IdsInv, OnKey, Open, Has
  <2> QED
    BY <1>2, <1>4, <2>1, PricingAssumption
<1> QED
  BY <1>5, <1>6

LEMMA CheckInvNext == PassInv /\ [Next]_vars => CheckInv'
<1> SUFFICES ASSUME PassInv, [Next]_vars PROVE CheckInv'
  OBVIOUS
<1>0. TypeOK /\ JobInv /\ CheckInv
  BY DEF PassInv
<1>1. CASE Around
  <2>1. job' = job /\ touched \subseteq touched' /\ Price(job.plan, job.slot)' = Price(job.plan, job.slot)
    BY <1>0, <1>1, AroundEffect DEF Price
  <2>2. ASSUME job.pc = "check", job.slot \notin touched'
        PROVE  Price(job.plan, job.slot) \in Billed(job.slot)'
    <3>1. job.slot \in Slots /\ job.slot \notin touched
      BY <1>0, <2>1, <2>2, JobTyped DEF TypeOK, JobInv
    <3>2. \A t \in Slots : t \notin touched' => Billed(t)' = Billed(t)
      BY <1>0, <1>1, AroundFrame DEF Kept
    <3>3. Billed(job.slot)' = {native'[i].price : i \in {j \in Ids : Owned(j)' /\ native'[j].slot = job.slot}}
      BY <2>1 DEF Billed, Has
    <3> QED
      BY <1>0, <2>2, <3>1, <3>2, <3>3 DEF CheckInv, Billed, Has
  <2> QED
    BY <2>1, <2>2 DEF CheckInv
<1>2. ASSUME NEW s \in Slots, Write(s) PROVE CheckInv'
  <2>1. PICK i \in Target(s) : native' = Written(s, i)
    BY <1>0, <1>2, WriteEffect
  <2>2. Price(job.plan, s) \in Billed(s)'
    BY <1>2, <2>1, WroteBilled
  <2>3. job'.slot = s /\ job'.plan = job.plan
    BY <1>0, <1>2, WriteEffect DEF SameJob
  <2> QED
    BY <2>2, <2>3 DEF CheckInv, Price, Billed, Has, Owned
<1>3. ASSUME job'.pc # "check" PROVE CheckInv'
  BY <1>3 DEF CheckInv
<1>4. ASSUME NEW s \in Slots, WriteFails(s) \/ Delete(s) \/ DeleteFails(s) PROVE CheckInv'
  BY <1>0, <1>3, <1>4, WriteEffect, DeleteEffect
<1> QED
  BY <1>0, <1>1, <1>2, <1>3, <1>4, StepCases, MoveEffect, CheckEffect, ListEffect

LEMMA RetryNext == PassInv /\ RetryDoesNotDuplicate /\ [Next]_vars => RetryDoesNotDuplicate'
<1> SUFFICES ASSUME PassInv, RetryDoesNotDuplicate, [Next]_vars PROVE RetryDoesNotDuplicate'
  OBVIOUS
<1>0. TypeOK /\ JobInv
  BY DEF PassInv
<1>1. ASSUME made' = made, \A t \in Slots : Has(t)' \subseteq Has(t) PROVE RetryDoesNotDuplicate'
  BY <1>1 DEF RetryDoesNotDuplicate
<1>2. CASE native' = native /\ made' = made
  BY <1>1, <1>2, FrameAll
<1>3. CASE Around
  BY <1>0, <1>3, AroundFrame, AroundEffect DEF RetryDoesNotDuplicate
<1>4. ASSUME NEW s \in Slots, Write(s) \/ WriteFails(s) PROVE RetryDoesNotDuplicate'
  <2>1. ASSUME NEW i \in Target(s), native' = Written(s, i) PROVE RetryDoesNotDuplicate'
    <3>1. made' = made /\ \A t \in Slots \ {s} : Has(t)' \subseteq Has(t)
      BY <1>0, <1>4, WriteEffect, WriteFrame DEF SameOthers
    <3>2. s \notin made => Has(s)' \subseteq {i}
      BY <1>4, <2>1, WroteBilled
    <3> QED
      BY <3>1, <3>2 DEF RetryDoesNotDuplicate
  <2> QED
    BY <1>0, <1>2, <1>4, <2>1, WriteEffect DEF SameOthers
<1>5. ASSUME NEW s \in Slots, Delete(s) \/ DeleteFails(s) PROVE RetryDoesNotDuplicate'
  BY <1>0, <1>1, <1>5, DeleteEffect, DeleteFrame DEF SameOthers
<1> QED
  BY <1>0, <1>2, <1>3, <1>4, <1>5, StepCases, MoveEffect, CheckEffect, ListEffect DEF SameOthers

----------------------------------------------------------------------------
(* What is verified is billed.                                             *)

LEMMA VerifiedNext == PassInv /\ VerifiedIsBilled /\ [Next]_vars => VerifiedIsBilled'
<1> SUFFICES ASSUME PassInv, VerifiedIsBilled, [Next]_vars PROVE VerifiedIsBilled'
  OBVIOUS
<1>0. TypeOK /\ JobInv /\ OthersInv /\ CheckInv
  BY DEF PassInv
<1>1. /\ proofs \in [Slots -> Proofs] /\ None \notin Slots /\ touched \subseteq lapsed
      /\ NoProof.state # "verified" /\ Failed.state # "verified"
  BY <1>0, PricingAssumption DEF TypeOK, OthersInv, NoProof, Failed
<1>2. CASE Moves
  <2>1. native' = native /\ lapsed' = lapsed /\ \A t \in Slots : Billed(t)' = Billed(t)
    BY <1>0, <1>2, MoveEffect, FrameAll
  <2>2. \/ \A t \in Slots : proofs'[t].state # "verified"
        \/ job.slot = None /\ \A t \in Slots : proofs'[t] = proofs[t] \/ proofs'[t].state # "verified"
    <3>1. CASE Restart
      BY <1>1, <3>1 DEF Restart
    <3>2. CASE Discover \/ DiscoverFails
      BY <1>0, <1>1, <3>2 DEF Discover, DiscoverFails, Refuted, JobInv
    <3>3. ASSUME NEW k \in PKeys, ListKeyFails(k)
          PROVE  job.slot = None /\ \A t \in Slots : proofs'[t] = proofs[t] \/ proofs'[t].state # "verified"
      BY <1>0, <1>1, <3>3 DEF ListKeyFails, Refuted, JobInv
    <3>4. ASSUME \/ \E c \in Configs : Publish(c)
                 \/ AliasesFail \/ AliasesDone \/ KeyDone \/ PassDone
          PROVE  job.slot = None /\ proofs' = proofs
      BY <1>0, <3>4 DEF Publish, AliasesFail, AliasesDone, KeyDone, PassDone, JobInv, known
    <3> QED
      BY <1>2, <3>1, <3>2, <3>3, <3>4 DEF Moves
  <2> QED
    BY <1>1, <2>1, <2>2 DEF VerifiedIsBilled
<1>3. CASE Around
  <2>1. \A t \in Slots \ lapsed' : t \notin lapsed /\ Billed(t)' = Billed(t)
    BY <1>0, <1>3, AroundEffect, AroundFrame DEF Kept
  <2> QED
    BY <1>0, <1>3, <2>1, AroundEffect DEF VerifiedIsBilled
<1>4. CASE Check
  <2>1. /\ job.pc = "check" /\ job'.slot = None /\ \A t \in Slots : Billed(t)' = Billed(t)
    BY <1>0, <1>4, CheckEffect, FrameAll
  <2>2. /\ proofs' = [proofs EXCEPT ![job.slot] = Verified(Price(job.plan, job.slot))]
        /\ lapsed' = (lapsed \ {job.slot}) \cup (touched \cap {job.slot})
    BY <1>4 DEF Check
  <2>3. ASSUME NEW t \in Slots \ lapsed', proofs'[t].state = "verified"
        PROVE  proofs'[t].price \in Billed(t)'
    <3>1. CASE t = job.slot
      BY <1>0, <1>1, <2>1, <2>2, <2>3, <3>1 DEF CheckInv, Verified
    <3>2. CASE t # job.slot
      BY <1>0, <1>1, <2>1, <2>2, <2>3, <3>2 DEF VerifiedIsBilled
    <3> QED
      BY <3>1, <3>2
  <2> QED
    BY <2>3 DEF VerifiedIsBilled
<1>5. CASE CheckFails
  <2>1. \A t \in Slots : Billed(t)' = Billed(t)
    BY <1>0, <1>5, CheckEffect, FrameAll
  <2>2. lapsed' = lapsed /\ proofs' = [proofs EXCEPT ![job.slot] = Failed]
    BY <1>5 DEF CheckFails, others
  <2> QED
    BY <1>1, <2>1, <2>2 DEF VerifiedIsBilled
<1>6. ASSUME NEW k \in PKeys, ListKey(k) PROVE VerifiedIsBilled'
  <2>1. /\ job'.slot = job.slot /\ lapsed' = lapsed /\ \A t \in Slots : Billed(t)' = Billed(t)
    BY <1>0, <1>6, ListEffect, FrameAll
  <2>2. proofs' = proofs
    BY <1>6 DEF ListKey
  <2> QED
    BY <2>1, <2>2 DEF VerifiedIsBilled
<1>7. ASSUME NEW s \in Slots, Write(s) \/ WriteFails(s) PROVE VerifiedIsBilled'
  <2>1. \A t \in Slots \ lapsed : t # s => Billed(t)' = Billed(t)
    BY <1>1, <1>7, WriteFrame DEF Kept
  <2>2. /\ lapsed' = lapsed /\ job.slot = None
        /\ job'.slot = s \/ proofs'[s].state # "verified"
        /\ \A t \in Slots \ {s} : proofs'[t] = proofs[t]
    BY <1>0, <1>1, <1>7, WriteEffect DEF Write, WriteFails, known, JobInv
  <2> QED
    BY <1>1, <2>1, <2>2 DEF VerifiedIsBilled
<1>8. ASSUME NEW s \in Slots, Delete(s) \/ DeleteFails(s) PROVE VerifiedIsBilled'
  <2>1. \A t \in Slots \ lapsed : t # s => Billed(t)' = Billed(t)
    BY <1>1, <1>8, DeleteFrame DEF Kept
  <2>2. /\ lapsed' = lapsed /\ job'.slot = job.slot
        /\ proofs'[s].state # "verified" /\ \A t \in Slots \ {s} : proofs'[t] = proofs[t]
    BY <1>0, <1>1, <1>8, DeleteEffect DEF Delete, DeleteFails
  <2> QED
    BY <2>1, <2>2 DEF VerifiedIsBilled
<1> QED
  BY <1>2, <1>3, <1>4, <1>5, <1>6, <1>7, <1>8, StepCases

----------------------------------------------------------------------------
(* What is wrong is reported.                                              *)

LEMMA ReportNext ==
    PassInv /\ RetryDoesNotDuplicate /\ ReportInv /\ [Next]_vars => ReportInv'
<1> SUFFICES ASSUME PassInv, RetryDoesNotDuplicate, ReportInv, [Next]_vars PROVE ReportInv'
  OBVIOUS
<1>0. /\ TypeOK /\ JobInv /\ IdsInv /\ OthersInv /\ CheckInv
      /\ proofs \in [Slots -> Proofs] /\ Failed.state = "failed" /\ None \notin Slots
  BY PricingAssumption DEF PassInv, TypeOK, Failed
<1> DEFINE Fine(t) == KeyOf[t] \in job.keys \/ Open(t) \/ Billed(t) = Wanted(t) \/ Reported(t)
<1>1. CASE Moves
  <2>1. /\ native' = native /\ made' = made
        /\ \A t \in Slots : Billed(t)' = Billed(t) /\ Has(t)' = Has(t)
    BY <1>0, <1>1, MoveEffect, FrameAll
  <2>2. CASE Discover
    <3>1. job'.plan = job.plan /\ job.plan \in Configs
      BY <1>0, <2>2, JobTyped DEF Discover, TypeOK
    <3>2. \A t \in Slots : KeyOf[t] \in job'.keys \/ (t \notin job.plan.on /\ Has(t) = {})
      BY <1>0, <2>2, JobTyped DEF Discover, TypeOK, Has
    <3>3. \A t \in Slots : Has(t) = {} => Billed(t) = {}
      BY DEF Billed
    <3> QED
      BY <2>1, <3>1, <3>2, <3>3, ExpectedTyped DEF ReportInv, Wanted, Expected, Price
  <2>3. CASE DiscoverFails
    BY <2>3 DEF DiscoverFails, ReportInv, Reported
  <2>4. ASSUME NEW k \in PKeys, ListKeyFails(k) PROVE ReportInv'
    <3>1. /\ job.pc = "keys" /\ job'.keys = job.keys \ {k} /\ job'.plan = job.plan
          /\ job.todo = {} /\ job.stale = {} /\ touched' = touched
          /\ keyProofs' = keyProofs \cup {k} /\ blind' = blind
          /\ proofs' = Refuted(OfKey(k))
      BY <1>0, <2>4, JobTyped DEF ListKeyFails, TypeOK, JobInv, OnKey, others
    <3>2. \A t \in Slots : Reported(t) => Reported(t)'
      BY <1>0, <3>1 DEF Reported, Refuted
    <3>3. \A t \in Slots : KeyOf[t] = k => Reported(t)'
      BY <3>1 DEF Reported
    <3>4. \A t \in Slots : Wanted(t)' = Wanted(t)
      BY <3>1 DEF Wanted, Expected, Price
    <3> QED
      BY <2>1, <3>1, <3>2, <3>3, <3>4 DEF ReportInv, InPass, Open
  <2>5. CASE KeyDone
    <3>1. /\ job.pc = "write" /\ job'.keys = job.keys /\ job'.plan = job.plan
          /\ job.todo = {} /\ job.stale = {} /\ touched' = touched
          /\ UNCHANGED <<proofs, keyProofs, blind>>
      BY <1>0, <2>5, JobTyped DEF KeyDone, TypeOK, others, known
    <3>2. \A t \in Slots : Wanted(t)' = Wanted(t) /\ Reported(t)' = Reported(t)
      BY <3>1 DEF Wanted, Expected, Price, Reported
    <3> QED
      BY <2>1, <3>1, <3>2 DEF ReportInv, InPass, Open
  <2>6. ASSUME job'.pc \in {"idle", "aliases", "discover"} PROVE ReportInv'
    BY <2>6 DEF ReportInv, InPass
  <2>7. ASSUME NEW c \in Configs, Publish(c) PROVE ReportInv'
    BY <2>6, <2>7 DEF Publish, Idle
  <2>8. CASE AliasesFail \/ PassDone \/ Restart
    BY <2>6, <2>8 DEF AliasesFail, PassDone, Restart, Idle
  <2>9. CASE AliasesDone
    BY <1>0, <2>6, <2>9, JobTyped DEF AliasesDone, TypeOK
  <2> QED
    BY <1>1, <2>2, <2>3, <2>4, <2>5, <2>7, <2>8, <2>9 DEF Moves
<1>2. CASE Around
  <2>1. UNCHANGED <<job, proofs, keyProofs, blind>> /\ touched \subseteq touched' /\ made \subseteq made'
    BY <1>0, <1>2, AroundEffect
  <2>2. \A t \in Slots \ touched' : Billed(t)' = Billed(t)
    BY <1>0, <1>2, AroundFrame DEF Kept
  <2>3. \A t \in Slots : Wanted(t)' = Wanted(t) /\ Reported(t)' = Reported(t)
    BY <2>1 DEF Wanted, Expected, Price, Reported
  <2> QED
    BY <2>1, <2>2, <2>3 DEF ReportInv, InPass, Open
<1>3. ASSUME NEW s \in Slots, InPass, SameJob, SameOthers, job'.stale \cup {s} = job.stale \cup {s},
             job'.todo \cup {s} = job.todo \cup {s}, keyProofs' = keyProofs, blind' = blind,
             \A t \in Slots \ {s} : proofs'[t] = proofs[t],
             \A t \in Slots : t # s /\ t \notin touched => Billed(t)' = Billed(t),
             \/ s \in touched \cup made
             \/ s \in job'.todo \cup job'.stale
             \/ Billed(s)' = Wanted(s)
             \/ proofs'[s].state = "failed"
      PROVE  ReportInv'
  <2>1. \A t \in Slots : Wanted(t)' = Wanted(t)
    BY <1>3 DEF SameJob, Wanted, Expected, Price
  <2>2. \A t \in Slots \ {s} : Reported(t)' = Reported(t) /\ Open(t)' = Open(t)
    BY <1>3 DEF Reported, Open
  <2>3. \A t \in Slots \ (touched \cup made) : t # s => Fine(t) /\ Fine(t)'
    BY <1>3, <2>1, <2>2 DEF ReportInv, SameJob
  <2>4. s \notin touched \cup made => Fine(s)'
    BY <1>3, <2>1 DEF Open, Reported
  <2> QED
    BY <1>3, <2>3, <2>4 DEF ReportInv, SameOthers
<1> USE DEF InPass
<1>4. CASE Check
  <2>1. /\ job.pc = "check" /\ SameJob /\ SameOthers /\ job.slot \in job.todo /\ job.slot \in Slots
        /\ job'.stale = job.stale /\ job'.todo = job.todo \ {job.slot}
        /\ \A t \in Slots : Billed(t)' = Billed(t)
    BY <1>0, <1>4, CheckEffect, FrameAll, JobTyped DEF JobInv, TypeOK
  <2>2. keyProofs' = keyProofs /\ blind' = blind /\ \A t \in Slots \ {job.slot} : proofs'[t] = proofs[t]
    BY <1>0, <1>4 DEF Check
  <2>3. job.slot \in touched \cup made \/ Billed(job.slot) = Wanted(job.slot)
    BY <1>0, <2>1 DEF JobInv, OnKey, CheckInv, RetryDoesNotDuplicate, Billed, Wanted
  <2> QED
    BY <1>3, <2>1, <2>2, <2>3
<1>5. CASE CheckFails
  <2>1. /\ job.pc = "check" /\ SameJob /\ SameOthers /\ job.slot \in Slots
        /\ job'.stale = job.stale /\ job'.todo = job.todo \ {job.slot}
        /\ \A t \in Slots : Billed(t)' = Billed(t)
    BY <1>0, <1>5, CheckEffect, FrameAll, JobTyped DEF JobInv, TypeOK
  <2>2. /\ keyProofs' = keyProofs /\ blind' = blind /\ proofs'[job.slot].state = "failed"
        /\ \A t \in Slots \ {job.slot} : proofs'[t] = proofs[t]
    BY <1>0, <1>5, <2>1 DEF CheckFails
  <2> QED
    BY <1>3, <2>1, <2>2
<1>6. ASSUME NEW k \in PKeys, ListKey(k) PROVE ReportInv'
  <2>1. /\ job.pc = "keys" /\ job.todo = {} /\ job.stale = {}
        /\ job'.keys = job.keys \ {k} /\ job'.plan = job.plan /\ SameOthers
        /\ job'.todo = Expected(job.plan) \cap OfKey(k)
        /\ job'.stale = {s \in OfKey(k) : Has(s) # {}} \ Expected(job.plan)
        /\ \A t \in Slots : Billed(t)' = Billed(t) /\ Has(t)' = Has(t)
    BY <1>0, <1>6, ListEffect, FrameAll DEF JobInv, OnKey
  <2>2. keyProofs' = keyProofs \ {k} /\ blind' = blind /\ proofs' = proofs
    BY <1>6 DEF ListKey
  <2>3. \A t \in Slots : Wanted(t)' = Wanted(t) /\ (KeyOf[t] # k => Reported(t)' = Reported(t))
    BY <2>1, <2>2 DEF Wanted, Expected, Price, Reported
  <2>4. \A t \in OfKey(k) : Open(t)' \/ Billed(t) = Wanted(t)
    BY <2>1 DEF Open, Billed, Wanted
  <2> QED
    BY <2>1, <2>3, <2>4 DEF ReportInv, SameOthers, OfKey, Open
<1>7. ASSUME NEW s \in Slots, Write(s) \/ WriteFails(s) PROVE ReportInv'
  <2>1. /\ job.pc = "write" /\ SameJob /\ SameOthers /\ s \in job.todo /\ job'.stale = job.stale
        /\ job'.todo = job.todo \/ job'.todo = job.todo \ {s}
    BY <1>0, <1>7, WriteEffect
  <2>2. /\ keyProofs' = keyProofs /\ blind' = blind
        /\ s \in job'.todo \/ proofs'[s].state = "failed"
        /\ \A t \in Slots \ {s} : proofs'[t] = proofs[t]
    BY <1>0, <1>7, <2>1, WriteEffect DEF Write, WriteFails, known
  <2>3. \A t \in Slots : t # s /\ t \notin touched => Billed(t)' = Billed(t)
    BY <1>7, WriteFrame DEF Kept
  <2> QED
    BY <1>3, <2>1, <2>2, <2>3
<1>8. ASSUME NEW s \in Slots, Delete(s) PROVE ReportInv'
  <2>1. /\ job.pc = "write" /\ SameJob /\ SameOthers /\ s \in job.stale /\ job'.todo = job.todo
        /\ job'.stale = job.stale \ {s} /\ native' = [native EXCEPT ![job.ids[s]] = None]
        /\ job.slot = None
    BY <1>0, <1>8, DeleteEffect DEF JobInv
  <2>2. /\ keyProofs' = keyProofs /\ blind' = blind
        /\ \A t \in Slots \ {s} : proofs'[t] = proofs[t]
    BY <1>0, <1>8 DEF Delete
  <2>3. \A t \in Slots : t # s /\ t \notin touched => Billed(t)' = Billed(t)
    BY <1>8, DeleteFrame DEF Kept
  <2>4. s \in made \/ Billed(s)' = Wanted(s)
    <3>1. s \notin made => Has(s) \subseteq {job.ids[s]}
      BY <1>0, <2>1 DEF IdsInv, OnKey, Open
    <3>2. s \notin made => Has(s)' = {}
      BY <1>0, <2>1, <3>1 DEF Has, Owned, TypeOK
    <3>3. Wanted(s) = {}
      BY <1>0, <2>1 DEF JobInv, OnKey, Wanted
    <3> QED
      BY <3>2, <3>3 DEF Billed
  <2> QED
    BY <1>3, <2>1, <2>2, <2>3, <2>4
<1>9. ASSUME NEW s \in Slots, DeleteFails(s) PROVE ReportInv'
  <2>1. /\ job.pc = "write" /\ SameJob /\ SameOthers /\ job'.todo = job.todo
        /\ job'.stale = job.stale \ {s}
    BY <1>0, <1>9, DeleteEffect
  <2>2. /\ keyProofs' = keyProofs /\ blind' = blind /\ proofs'[s].state = "failed"
        /\ \A t \in Slots \ {s} : proofs'[t] = proofs[t]
    BY <1>0, <1>9 DEF DeleteFails
  <2>3. \A t \in Slots : t # s /\ t \notin touched => Billed(t)' = Billed(t)
    BY <1>9, DeleteFrame DEF Kept
  <2> QED
    BY <1>3, <2>1, <2>2, <2>3
<1> QED
  BY <1>1, <1>2, <1>4, <1>5, <1>6, <1>7, <1>8, <1>9, StepCases

----------------------------------------------------------------------------
(* A clean pass converges.                                                 *)

LEMMA CleanNext ==
    PassInv /\ RetryDoesNotDuplicate /\ CleanInv /\ [Next]_vars => CleanInv'
<1> SUFFICES ASSUME PassInv, RetryDoesNotDuplicate, CleanInv, [Next]_vars, clean'
             PROVE  CleanInv'
  BY DEF CleanInv
<1> DEFINE Right(t) == proofs[t] = IF t \in Expected(job.plan)
                                   THEN Verified(Price(job.plan, t)) ELSE NoProof
           Fine(t) == KeyOf[t] \in job.keys \/ Open(t) \/ (Billed(t) = Wanted(t) /\ Right(t))
           Known(t) == KeyOf[t] \in job.keys =>
                          t \in Expected(job.plan) \/ Has(t) # {} \/ proofs[t] = NoProof
<1>0. /\ TypeOK /\ JobInv /\ IdsInv /\ OthersInv /\ CheckInv
      /\ proofs \in [Slots -> Proofs] /\ None \notin Slots
  BY PricingAssumption DEF PassInv, TypeOK
<1>1. CASE Moves
  <2>1. /\ native' = native /\ made' = made
        /\ \A t \in Slots : Billed(t)' = Billed(t) /\ Has(t)' = Has(t)
    BY <1>0, <1>1, MoveEffect, FrameAll
  <2>2. CASE Discover
    <3>1. job'.plan = job.plan /\ job.plan \in Configs
      BY <1>0, <2>2, JobTyped DEF Discover, TypeOK
    <3>2. \A t \in Slots : KeyOf[t] \in job'.keys \/ (t \notin job.plan.on /\ Has(t) = {})
      BY <1>0, <2>2, JobTyped DEF Discover, TypeOK, Has
    <3>3. \A t \in Slots : t \in Expected(job.plan) \/ Has(t) # {} \/ proofs'[t] = NoProof
      BY <2>2 DEF Discover, Has
    <3>4. \A t \in Slots : Has(t) = {} => Billed(t) = {}
      BY DEF Billed
    <3>5. Expected(job.plan)' = Expected(job.plan) /\ Expected(job.plan) \subseteq job.plan.on
      BY <3>1, ExpectedTyped
    <3> QED
      BY <2>1, <3>2, <3>3, <3>4, <3>5 DEF CleanInv, Wanted
  <2>3. CASE KeyDone
    <3>1. /\ job.pc = "write" /\ job'.keys = job.keys /\ job'.plan = job.plan
          /\ job.todo = {} /\ job.stale = {} /\ touched' = touched
          /\ proofs' = proofs /\ clean
      BY <1>0, <2>3, JobTyped DEF KeyDone, TypeOK, others, known
    <3>2. \A t \in Slots : Wanted(t)' = Wanted(t) /\ Right(t)' = Right(t)
      BY <3>1 DEF Wanted, Expected, Price
    <3>3. Expected(job.plan)' = Expected(job.plan)
      BY <3>1
    <3> QED
      BY <2>1, <3>1, <3>2, <3>3 DEF CleanInv, InPass, Open
  <2>4. ASSUME job'.pc \in {"idle", "aliases", "discover"} PROVE CleanInv'
    BY <2>4 DEF CleanInv, InPass
  <2>5. ASSUME NEW c \in Configs, Publish(c) PROVE CleanInv'
    BY <2>4, <2>5 DEF Publish, Idle
  <2>6. CASE AliasesFail \/ PassDone \/ Restart
    BY <2>4, <2>6 DEF AliasesFail, PassDone, Restart, Idle
  <2>7. CASE AliasesDone
    BY <1>0, <2>4, <2>7, JobTyped DEF AliasesDone, TypeOK
  <2>8. ASSUME DiscoverFails \/ \E k \in PKeys : ListKeyFails(k) PROVE FALSE
    BY <2>8 DEF DiscoverFails, ListKeyFails
  <2> QED
    BY <1>1, <2>2, <2>3, <2>5, <2>6, <2>7, <2>8 DEF Moves
<1>2. CASE Around
  <2>1. UNCHANGED <<job, proofs, clean>> /\ touched \subseteq touched' /\ made \subseteq made'
    BY <1>0, <1>2, AroundEffect
  <2>2. \A t \in Slots \ touched' : Billed(t)' = Billed(t) /\ Has(t)' = Has(t)
    BY <1>0, <1>2, AroundFrame DEF Kept
  <2>3. \A t \in Slots : Wanted(t)' = Wanted(t) /\ Right(t)' = Right(t)
    BY <2>1 DEF Wanted, Expected, Price
  <2>4. Expected(job.plan)' = Expected(job.plan)
    BY <2>1
  <2> QED
    BY <2>1, <2>2, <2>3, <2>4 DEF CleanInv, InPass, Open
<1>3. ASSUME NEW s \in Slots, InPass, clean, SameJob, SameOthers, KeyOf[s] \notin job.keys,
             job'.stale \cup {s} = job.stale \cup {s}, job'.todo \cup {s} = job.todo \cup {s},
             \A t \in Slots \ {s} : proofs'[t] = proofs[t],
             \A t \in Slots : t # s /\ t \notin touched => Kept(t),
             \/ s \in touched \cup made
             \/ s \in job'.todo \cup job'.stale
             \/ /\ Billed(s)' = Wanted(s)
                /\ proofs'[s] = IF s \in Expected(job.plan)
                                THEN Verified(Price(job.plan, s)) ELSE NoProof
      PROVE  CleanInv'
  <2>1. \A t \in Slots : Wanted(t)' = Wanted(t)
    BY <1>3 DEF SameJob, Wanted, Expected, Price
  <2>2. \A t \in Slots \ {s} : Open(t)' = Open(t) /\ Right(t)' = Right(t)
    BY <1>3 DEF Open, SameJob, Expected, Price
  <2>3. Expected(job.plan)' = Expected(job.plan) /\ job'.keys = job.keys
    BY <1>3 DEF SameJob
  <2>4. \A t \in Slots \ (touched \cup made) : t # s => (Fine(t) /\ Known(t)) /\ (Fine(t) /\ Known(t))'
    BY <1>3, <2>1, <2>2, <2>3 DEF CleanInv, Kept
  <2>5. s \notin touched \cup made => Fine(s)' /\ Known(s)'
    BY <1>3, <2>1, <2>3 DEF Open, SameJob, Expected, Price
  <2> QED
    BY <1>3, <2>4, <2>5 DEF CleanInv, SameOthers
<1> USE DEF InPass
<1>4. \A s \in job.todo \cup job.stale : OnKey => s \in Slots /\ KeyOf[s] \notin job.keys
  BY <1>0 DEF JobInv, OfKey
<1>5. CASE Check
  <2>1. /\ job.pc = "check" /\ SameJob /\ SameOthers /\ job.slot \in job.todo /\ job.slot \in Slots
        /\ job'.stale = job.stale /\ job'.todo = job.todo \ {job.slot}
        /\ \A t \in Slots : Billed(t)' = Billed(t) /\ Kept(t)
    BY <1>0, <1>5, CheckEffect, FrameAll, JobTyped DEF JobInv, TypeOK, Kept
  <2>2. /\ clean /\ \A t \in Slots \ {job.slot} : proofs'[t] = proofs[t]
        /\ proofs'[job.slot] = Verified(Price(job.plan, job.slot))
    BY <1>0, <1>5, <2>1 DEF Check
  <2>3. /\ job.slot \in Expected(job.plan)
        /\ job.slot \in touched \cup made \/ Billed(job.slot) = Wanted(job.slot)
    BY <1>0, <2>1 DEF JobInv, OnKey, CheckInv, RetryDoesNotDuplicate, Billed, Wanted
  <2> QED
    BY <1>3, <1>4, <2>1, <2>2, <2>3 DEF OnKey
<1>6. CASE CheckFails
  <2>1. /\ job.pc = "check" /\ SameJob /\ SameOthers /\ job.slot \in job.todo /\ job.slot \in Slots
        /\ job'.stale = job.stale /\ job'.todo = job.todo \ {job.slot}
        /\ \A t \in Slots : Kept(t)
    BY <1>0, <1>6, CheckEffect, FrameAll, JobTyped DEF JobInv, TypeOK, Kept
  <2>2. /\ clean /\ Denies(job.slot) /\ \A t \in Slots \ {job.slot} : proofs'[t] = proofs[t]
    BY <1>0, <1>6, <2>1 DEF CheckFails
  <2>3. job.slot \in touched \cup made
    <3>1. SUFFICES ASSUME job.slot \notin touched \cup made PROVE FALSE
      OBVIOUS
    <3>2. PICK i \in Has(job.slot) : native[i].price = Price(job.plan, job.slot)
      BY <1>0, <2>1, <3>1 DEF CheckInv, Billed
    <3>3. Named(job.slot) = Has(job.slot)
      BY <1>0, <3>1 DEF OthersInv, Named, Has, Owned
    <3>4. \A j \in Has(job.slot) : j = i
      BY <2>1, <3>1, <3>2 DEF RetryDoesNotDuplicate
    <3> QED
      BY <2>2, <3>2, <3>3, <3>4 DEF Denies
  <2> QED
    BY <1>3, <1>4, <2>1, <2>2, <2>3 DEF OnKey
<1>7. ASSUME NEW k \in PKeys, ListKey(k) PROVE CleanInv'
  <2>1. /\ job.pc = "keys" /\ job.todo = {} /\ job.stale = {}
        /\ job'.keys = job.keys \ {k} /\ job'.plan = job.plan /\ SameOthers
        /\ job'.todo = Expected(job.plan) \cap OfKey(k)
        /\ job'.stale = {s \in OfKey(k) : Has(s) # {}} \ Expected(job.plan)
        /\ k \in job.keys
        /\ \A t \in Slots : Billed(t)' = Billed(t) /\ Has(t)' = Has(t)
    BY <1>0, <1>7, ListEffect, FrameAll DEF JobInv, OnKey
  <2>2. proofs' = proofs /\ clean
    BY <1>7 DEF ListKey
  <2>3. \A t \in Slots : Wanted(t)' = Wanted(t) /\ Right(t)' = Right(t)
    BY <2>1, <2>2 DEF Wanted, Expected, Price
  <2>4. \A t \in OfKey(k) \ (touched \cup made) : Open(t)' \/ (Billed(t) = Wanted(t) /\ Right(t))
    BY <2>1, <2>2 DEF Open, Billed, Wanted, CleanInv, OfKey
  <2>5. Expected(job.plan)' = Expected(job.plan)
    BY <2>1
  <2> QED
    BY <2>1, <2>2, <2>3, <2>4, <2>5 DEF CleanInv, SameOthers, OfKey, Open
<1>8. ASSUME NEW s \in Slots, Write(s) \/ WriteFails(s) PROVE CleanInv'
  <2>1. ~WriteFails(s)
    BY DEF WriteFails
  <2>2. /\ job.pc = "write" /\ SameJob /\ SameOthers /\ s \in job.todo /\ job'.stale = job.stale
        /\ job'.todo = job.todo
    BY <1>0, <1>8, <2>1, WriteEffect
  <2>3. clean /\ proofs' = proofs
    BY <1>8, <2>1 DEF Write, known
  <2>4. \A t \in Slots : t # s /\ t \notin touched => Kept(t)
    BY <1>8, WriteFrame
  <2> QED
    BY <1>3, <1>4, <2>2, <2>3, <2>4 DEF OnKey
<1>9. ASSUME NEW s \in Slots, Delete(s) \/ DeleteFails(s) PROVE CleanInv'
  <2>1. ~DeleteFails(s)
    BY DEF DeleteFails
  <2>2. /\ job.pc = "write" /\ SameJob /\ SameOthers /\ s \in job.stale /\ job'.todo = job.todo
        /\ job'.stale = job.stale \ {s} /\ native' = [native EXCEPT ![job.ids[s]] = None]
        /\ job.slot = None
    BY <1>0, <1>9, <2>1, DeleteEffect DEF JobInv
  <2>3. /\ clean /\ proofs'[s] = NoProof /\ \A t \in Slots \ {s} : proofs'[t] = proofs[t]
    BY <1>0, <1>9, <2>1 DEF Delete
  <2>4. \A t \in Slots : t # s /\ t \notin touched => Kept(t)
    BY <1>9, DeleteFrame
  <2>5. s \in made \/ Billed(s)' = Wanted(s)
    <3>1. s \notin made => Has(s) \subseteq {job.ids[s]}
      BY <1>0, <2>2 DEF IdsInv, OnKey, Open
    <3>2. s \notin made => Has(s)' = {}
      BY <1>0, <2>2, <3>1 DEF Has, Owned, TypeOK
    <3>3. Wanted(s) = {}
      BY <1>0, <2>2 DEF JobInv, OnKey, Wanted
    <3> QED
      BY <3>2, <3>3 DEF Billed
  <2>6. s \notin Expected(job.plan)
    BY <1>0, <2>2 DEF JobInv, OnKey
  <2> QED
    BY <1>3, <1>4, <2>2, <2>3, <2>4, <2>5, <2>6 DEF OnKey
<1> QED
  BY <1>1, <1>2, <1>5, <1>6, <1>7, <1>8, <1>9, StepCases

----------------------------------------------------------------------------
(* What holds of every behaviour.                                          *)

LEMMA PricingInit == Init => PricingInv
<1> SUFFICES ASSUME Init PROVE PricingInv
  OBVIOUS
<1>1. TypeOK
  BY TypeInit
<1>2. job = Idle /\ job.pc = "idle" /\ job.todo = {} /\ job.stale = {} /\ job.slot = None
  BY DEF Init, Idle
<1>3. \A i \in Ids : native[i] = None
  BY DEF Init
<1>4. \A s \in Slots : proofs[s].state = "none"
  BY DEF Init, NoProof
<1>5. JobInv /\ IdsInv /\ CheckInv /\ ReportInv /\ CleanInv
  BY <1>2 DEF JobInv, IdsInv, CheckInv, ReportInv, CleanInv, OnKey, InPass
<1>6. OthersInv
  BY <1>3 DEF OthersInv, Init
<1>7. RetryDoesNotDuplicate /\ VerifiedIsBilled
  BY <1>3, <1>4 DEF RetryDoesNotDuplicate, VerifiedIsBilled, Has, Owned
<1> QED
  BY <1>1, <1>5, <1>6, <1>7 DEF PricingInv, PassInv

LEMMA PricingNext == PricingInv /\ [Next]_vars => PricingInv'
BY TypeNext, JobInvNext, IdsInvNext, OthersInvNext, CheckInvNext, RetryNext, VerifiedNext,
   ReportNext, CleanNext DEF PricingInv, PassInv

THEOREM PricingHolds == Spec => []PricingInv
BY PricingInit, PricingNext, PTL DEF Spec

\* The state keeps its type: only prices the registry wants are written.
THEOREM PricingTypeCorrect == Spec => []TypeOK
<1>1. PricingInv => TypeOK
  BY DEF PricingInv, PassInv
<1> QED
  BY <1>1, PricingHolds, PTL

\* However calls fail and passes are cut short, what is recorded as verified is billed
\* unless others changed it.
THEOREM VerifiedHolds == Spec => []VerifiedIsBilled
<1>1. PricingInv => VerifiedIsBilled
  BY DEF PricingInv
<1> QED
  BY <1>1, PricingHolds, PTL

\* A pass ends with the overrides the registry wants, or with a recorded failure.
THEOREM WrongHolds == Spec => []WrongIsReported
<1>1. PricingInv => WrongIsReported
  BY DEF PricingInv, PassInv, JobInv, OnKey, ReportInv, InPass, Open, WrongIsReported, AtEnd
<1> QED
  BY <1>1, PricingHolds, PTL

\* Together: the registry knows what Bifrost bills.
THEOREM ReportsHold == Spec => []ReportsAreTrue
BY VerifiedHolds, WrongHolds, PTL DEF ReportsAreTrue

\* One pass without a failing call is enough, from any state an earlier pass left.
THEOREM CleanHolds == Spec => []CleanPassConverges
<1>1. PricingInv => CleanPassConverges
  BY DEF PricingInv, PassInv, JobInv, OnKey, CleanInv, InPass, Open, CleanPassConverges, AtEnd
<1> QED
  BY <1>1, PricingHolds, PTL

\* The registry creates no override twice.
THEOREM RetryHolds == Spec => []RetryDoesNotDuplicate
<1>1. PricingInv => RetryDoesNotDuplicate
  BY DEF PricingInv
<1> QED
  BY <1>1, PricingHolds, PTL

\* The registry changes and deletes only what it owns.
THEOREM ForeignHolds == Spec => ForeignIsUntouched
<1> DEFINE Untouched ==
        \A i \in Ids :
            native[i] # None /\ ~native[i].owned /\ native[i].slot \notin touched /\ job' # job
                => native'[i] = native[i]
<1>1. PricingInv /\ [Next]_vars => [Untouched]_vars
  <2> SUFFICES ASSUME PassInv, [Next]_vars PROVE Untouched
    BY DEF PricingInv
  <2>0. TypeOK /\ JobInv /\ IdsInv
    BY DEF PassInv
  <2>1. CASE native' = native \/ job' = job
    BY <2>1
  <2>2. ASSUME NEW s \in Slots, Write(s) \/ WriteFails(s), NEW i \in Target(s), native' = Written(s, i)
        PROVE  Untouched
    <3>1. /\ i \in Ids /\ s \in Expected(job.plan)
          /\ native[i] = None \/ native[i].slot \in touched \/ Owned(i)
      BY <2>0, <2>2, WriteEffect, TargetOf
    <3> QED
      BY <2>0, <2>2, <3>1, WrittenTyped DEF Owned
  <2>3. ASSUME NEW s \in Slots, Delete(s) \/ DeleteFails(s) PROVE Untouched
    <3>1. LET i == job.ids[s] IN native[i] = None \/ native[i].slot \in touched \/ Owned(i)
      BY <2>0, <2>3, DeleteEffect DEF JobInv, IdsInv, OnKey
    <3> QED
      BY <2>0, <2>3, <3>1, DeleteEffect DEF Owned, TypeOK
  <2> QED
    BY <2>0, <2>1, <2>2, <2>3, StepCases, MoveEffect, AroundEffect, CheckEffect, ListEffect, WriteEffect
<1> QED
  BY <1>1, PricingHolds, PTL DEF Spec, ForeignIsUntouched
=============================================================================
