----------------------- MODULE RegistryConfigProofs -----------------------
(***************************************************************************)
(* The safety properties of the two modules that save a registry file:     *)
(* ConfigEdits, where any edit that compiles is saved, and WorkspaceEdits, *)
(* where the panel edits what it is shown and the server rebuilds the file *)
(* from what comes back.  They share the operators of RegistryConfig and   *)
(* no variable, for any tables of accesses, groups and keys and any number *)
(* of edits.                                                               *)
(*                                                                         *)
(* ConfigEdits.  The inductive invariant is that the published             *)
(* configuration compiles: Save checks it, and what Compile refuses is     *)
(* what the properties need.                                               *)
(*                                                                         *)
(* WorkspaceEdits.  WorkspaceInv: the file loads, and a draft is a policy  *)
(* of a managed key.  Every save is one of a Sendable workspace            *)
(* (SavesCommit), which comes back as it was sent (SavedIsShown); and who  *)
(* is eligible is the same formula over what the panel sees before and     *)
(* after (EligibleNow, EligibleNext).                                      *)
(***************************************************************************)
EXTENDS ConfigEdits, WorkspaceEdits, TLAPS

THEOREM SpecCompiles == EditsSpec => []Compiles(saved)
<1>1. EditsInit => Compiles(saved)
  BY DEF EditsInit
<1>2. Compiles(saved) /\ [EditsNext]_editsVars => Compiles(saved)'
  <2> SUFFICES ASSUME Compiles(saved), [EditsNext]_editsVars PROVE Compiles(saved')
    OBVIOUS
  <2>1. CASE UNCHANGED editsVars
    <3>1. saved' = saved
      BY <2>1 DEF editsVars
    <3>2. QED
      BY <3>1
  <2>2. ASSUME NEW c, Save(c) PROVE Compiles(saved')
    BY <2>2 DEF Save
  <2>3. ASSUME EditsNext PROVE \E c : Save(c)
    BY <2>3 DEF EditsNext, SwitchModel, EditGroup, EditSelectors, EditAccess, EditNaming, Adopt
  <2>4. QED
    BY <2>1, <2>2, <2>3
<1>3. QED
  BY <1>1, <1>2, PTL DEF EditsSpec

-----------------------------------------------------------------------------
(* Types: every edit of a well-formed configuration is one.                 *)

LEMMA StepSaves ==
  ASSUME EditsTypeOK, EditsNext
  PROVE  \E c \in Configs : Save(c)
<1>1. CASE \E m \in Models : SwitchModel(m)
  BY <1>1 DEF SwitchModel, EditsTypeOK, Configs, Toggle
<1>2. CASE \E g \in Groups : EditGroup(g)
  <2>1. PICK g \in Groups : EditGroup(g)
    BY <1>2
  <2> DEFINE grp == saved.groups[g]
  <2>a. grp \in GroupRecords
    BY DEF EditsTypeOK, Configs
  <2>b. ASSUME NEW rec \in GroupRecords
        PROVE  [saved EXCEPT !.groups[g] = rec] \in Configs
    BY DEF EditsTypeOK, Configs
  <2>2. ASSUME NEW m \in Models
        PROVE  /\ [saved EXCEPT !.groups[g].ids = Toggle(@, m)] \in Configs
               /\ [saved EXCEPT !.groups[g].exclude = Toggle(@, m)] \in Configs
    <3>1. [grp EXCEPT !.ids = Toggle(@, m)] \in GroupRecords
      BY <2>a DEF GroupRecords, Toggle
    <3>2. [grp EXCEPT !.exclude = Toggle(@, m)] \in GroupRecords
      BY <2>a DEF GroupRecords, Toggle
    <3>3. QED
      BY <2>b, <3>1, <3>2
  <2>3. ASSUME NEW v \in Providers
        PROVE  [saved EXCEPT !.groups[g].sources = Toggle(@, v)] \in Configs
    <3>1. [grp EXCEPT !.sources = Toggle(@, v)] \in GroupRecords
      BY <2>a DEF GroupRecords, Toggle
    <3>2. QED
      BY <2>b, <3>1
  <2>4. QED
    BY <2>1, <2>2, <2>3 DEF EditGroup
<1>3. CASE \E k \in Keys : EditSelectors(k) \/ EditAccess(k) \/ EditNaming(k)
  <2>1. PICK k \in Keys : EditSelectors(k) \/ EditAccess(k) \/ EditNaming(k)
    BY <1>3
  <2>2. k \in Managed(saved) /\ saved.policies[k] \in Policies
    BY <2>1 DEF EditSelectors, EditAccess, EditNaming, Managed, EditsTypeOK, Configs
  <2> DEFINE pol == saved.policies[k]
  <2>a. ASSUME NEW rec \in Policies
        PROVE  [saved EXCEPT !.policies[k] = rec] \in Configs
    BY DEF EditsTypeOK, Configs
  <2>3. CASE EditSelectors(k)
    <3>1. ASSUME NEW g \in Groups
          PROVE  [saved EXCEPT !.policies[k].groups = Toggle(@, g)] \in Configs
      <4>1. [pol EXCEPT !.groups = Toggle(@, g)] \in Policies
        BY <2>2 DEF Policies, Toggle
      <4> QED BY <2>2, <2>a, <4>1
    <3>2. ASSUME NEW m \in Models
          PROVE  [saved EXCEPT !.policies[k].added = Toggle(@, m)] \in Configs
      <4>1. [pol EXCEPT !.added = Toggle(@, m)] \in Policies
        BY <2>2 DEF Policies, Toggle
      <4> QED BY <2>2, <2>a, <4>1
    <3>3. ASSUME NEW m \in Models
          PROVE  [saved EXCEPT !.policies[k].excluded = Toggle(@, m)] \in Configs
      <4>1. [pol EXCEPT !.excluded = Toggle(@, m)] \in Policies
        BY <2>2 DEF Policies, Toggle
      <4> QED BY <2>2, <2>a, <4>1
    <3>4. ASSUME NEW v \in Providers
          PROVE  [saved EXCEPT !.policies[k].sources = Toggle(@, v)] \in Configs
      <4>1. [pol EXCEPT !.sources = Toggle(@, v)] \in Policies
        BY <2>2 DEF Policies, Toggle
      <4> QED BY <2>2, <2>a, <4>1
    <3>5. QED
      BY <2>3, <3>1, <3>2, <3>3, <3>4 DEF EditSelectors
  <2>4. CASE EditAccess(k)
    <3>1. ASSUME NEW a \in Aliases,
                 NEW sel \in [added: SUBSET Offering(a), excluded: SUBSET Offering(a)] \cup {None}
          PROVE  [saved EXCEPT !.policies[k].select[a] = sel] \in Configs
      <4>1. sel \in Selectors \cup {None}
        BY DEF Selectors, Offering
      <4>2. QED
        BY <2>2, <4>1 DEF EditsTypeOK, Configs, Policies
    <3>2. ASSUME NEW a \in Aliases, NEW m \in Offering(a) \cup {None}
          PROVE  [saved EXCEPT !.policies[k].prefer[a] = m] \in Configs
      BY <2>2 DEF EditsTypeOK, Configs, Policies, Offering
    <3>3. QED
      BY <2>4, <3>1, <3>2 DEF EditAccess
  <2>5. CASE EditNaming(k)
    <3>1. [saved EXCEPT !.policies[k].on = ~@] \in Configs
      BY <2>2 DEF EditsTypeOK, Configs, Policies
    <3>2. ASSUME NEW n \in Namings
          PROVE  [saved EXCEPT !.policies[k].naming = n] \in Configs
      BY <2>2 DEF EditsTypeOK, Configs, Policies
    <3>3. QED
      BY <2>5, <3>1, <3>2 DEF EditNaming
  <2>6. QED
    BY <2>1, <2>3, <2>4, <2>5
<1>4. CASE \E k \in Keys, S \in SUBSET Models : Adopt(k, S)
  <2>1. PICK k \in Keys, S \in SUBSET Models : Adopt(k, S)
    BY <1>4
  <2> DEFINE sel == [a \in Aliases |-> IF S \cap Offering(a) # {} /\ Offering(a) \ S # {}
                                      THEN [added |-> {}, excluded |-> Offering(a) \ S] ELSE None]
  <2>2. sel \in [Aliases -> Selectors \cup {None}]
    BY DEF Selectors, Offering
  <2> HIDE DEF sel
  <2> DEFINE q == [on |-> TRUE, naming |-> "provider/model", groups |-> {}, added |-> S, excluded |-> {},
                   sources |-> {}, select |-> sel, prefer |-> [a \in Aliases |-> None],
                   adopted |-> TRUE, ceiling |-> S]
  <2>3. q \in Policies
    BY <2>2 DEF Policies, Namings
  <2> HIDE DEF q
  <2>4. [saved EXCEPT !.policies[k] = q] \in Configs
    BY <2>3 DEF EditsTypeOK, Configs
  <2>5. Save([saved EXCEPT !.policies[k] = q])
    BY <2>1 DEF Adopt, q, sel
  <2>6. QED
    BY <2>4, <2>5
<1>5. QED
  BY <1>1, <1>2, <1>3, <1>4 DEF EditsNext

\* The published configuration is a well-formed one whatever is edited (EditsTypeOK).
THEOREM EditsTypeCorrect == EditsSpec => []EditsTypeOK
<1>1. EditsInit => EditsTypeOK
  BY EditAssumption DEF EditsInit, EditsTypeOK
<1>2. EditsTypeOK /\ [EditsNext]_editsVars => EditsTypeOK'
  BY StepSaves DEF EditsTypeOK, editsVars, Save
<1>3. QED
  BY <1>1, <1>2, PTL DEF EditsSpec

-----------------------------------------------------------------------------
(* From eligible accesses to exposed ones.                                 *)

\* A selection narrows what the key is offered, and never to nothing.
LEMMA ChosenNarrows ==
  ASSUME NEW c, NEW p, NEW a \in Aliases, PolicyOk(c, p), Offers(c, p, a) # {}
  PROVE  /\ Chosen(c, p, a) \subseteq Offers(c, p, a)
         /\ a \notin Withheld(c, p) => Chosen(c, p, a) # {}
         /\ a \in Withheld(c, p) => Chosen(c, p, a) = {}
<1>1. CASE p.select[a] = None
  BY <1>1 DEF Chosen
<1>2. CASE p.select[a] # None
  BY <1>2 DEF Chosen, PolicyOk, SelectionOk, Withheld
<1>3. QED
  BY <1>1, <1>2

\* What a key is served of an alias is what was chosen for that alias.
LEMMA ExposedByAlias ==
  ASSUME NEW c, NEW p, NEW a \in Aliases, PolicyOk(c, p)
  PROVE  Exposed(c, p) \cap Offering(a) = IF Offers(c, p, a) # {} THEN Chosen(c, p, a) ELSE {}
<1>1. ASSUME NEW b \in Aliases, Offers(c, p, b) # {}, NEW m \in Chosen(c, p, b)
      PROVE  m \in Offering(b)
  BY <1>1, ChosenNarrows DEF Offers
<1>2. ASSUME NEW m \in Exposed(c, p) \cap Offering(a)
      PROVE  Offers(c, p, a) # {} /\ m \in Chosen(c, p, a)
  <2>1. PICK b \in Aliases : Offers(c, p, b) # {} /\ m \in Chosen(c, p, b)
    BY <1>2 DEF Exposed
  <2>2. b = a
    BY <1>1, <1>2, <2>1 DEF Offering
  <2>3. QED
    BY <2>1, <2>2
<1>3. ASSUME NEW m \in Chosen(c, p, a), Offers(c, p, a) # {}
      PROVE  m \in Exposed(c, p) \cap Offering(a)
  BY <1>1, <1>3 DEF Exposed
<1>4. QED
  BY <1>2, <1>3

LEMMA ExposedIsOffered ==
  ASSUME NEW c, NEW p, PolicyOk(c, p), NEW m \in Exposed(c, p)
  PROVE  Alias[m] \in Aliases /\ m \in Offers(c, p, Alias[m]) /\ m \in Chosen(c, p, Alias[m])
<1>1. PICK a \in Aliases : Offers(c, p, a) # {} /\ m \in Chosen(c, p, a)
  BY DEF Exposed
<1>2. m \in Offers(c, p, a)
  BY <1>1, ChosenNarrows
<1>3. Alias[m] = a
  BY <1>2 DEF Offers, Offering
<1>4. QED
  BY <1>1, <1>2, <1>3

LEMMA ExposedIsGranted ==
  ASSUME NEW c, NEW p, PolicyOk(c, p), NEW m \in Exposed(c, p)
  PROVE  Granted(c, p, m)
<1>1. m \in Eligible(c, p) /\ m \in Models /\ m \in Chosen(c, p, Alias[m])
  BY ExposedIsOffered DEF Offers, Offering
<1>2. m \in Selected(c, p) /\ m \in c.live
  BY <1>1 DEF Eligible
<1>3. m \in p.added \/ \E g \in p.groups : m \in Members(c, g)
  BY <1>2 DEF Selected
<1>4. \/ m \in p.added
      \/ \E g \in p.groups : /\ m \in c.groups[g].ids \/ Provider[m] \in c.groups[g].sources
                             /\ m \notin c.groups[g].exclude
  BY <1>3 DEF Members
<1>5. p.select[Alias[m]] # None => m \notin p.select[Alias[m]].excluded
  BY <1>1 DEF Chosen
<1>6. m \notin p.excluded
  BY <1>2 DEF Selected
<1>7. (p.sources # {} => Provider[m] \in p.sources) /\ (p.adopted => m \in p.ceiling)
  BY <1>1 DEF Eligible
<1>8. QED
  BY <1>2, <1>4, <1>5, <1>6, <1>7 DEF Granted

\* The preferred access of a bare name is one of those the key is served.
LEMMA TargetIsExposed ==
  ASSUME NEW c, NEW p, PolicyOk(c, p), NEW a \in Aliases, Exposed(c, p) \cap Offering(a) # {}
  PROVE  Target(c, p, a) # {} /\ Target(c, p, a) \subseteq Exposed(c, p) \cap Offering(a)
<1>1. a \notin Withheld(c, p)
  BY ExposedByAlias, ChosenNarrows
<1>2. CASE p.prefer[a] = None
  BY <1>2 DEF Target
<1>3. CASE p.prefer[a] # None
  <2>1. p.prefer[a] \in Exposed(c, p) \cap Offering(a)
    BY <1>1, <1>3 DEF PolicyOk, PreferOk
  <2>2. QED
    BY <2>1 DEF Target
<1>4. QED
  BY <1>2, <1>3

-----------------------------------------------------------------------------
(* The properties.                                                         *)

LEMMA RouteCases ==
  ASSUME NEW c, NEW p, NEW r \in Routes(c, p)
  PROVE  /\ p.on
         /\ \/ \E m \in Exposed(c, p) : r.alias = Alias[m] /\ r.via = {m}
            \/ \E a \in Aliases : /\ Exposed(c, p) \cap Offering(a) # {}
                                  /\ r.alias = a
                                  /\ r.via = Target(c, p, a)
BY DEF Routes, Qualified, Bare

\* Every name a key may call reaches granted accesses only (property RoutesWithinGrant).
THEOREM RoutesAreGranted == EditsSpec => []RoutesWithinGrant
<1>1. Compiles(saved) => RoutesWithinGrant
  <2> SUFFICES ASSUME Compiles(saved), NEW k \in Managed(saved), NEW r \in Routes(saved, saved.policies[k])
               PROVE  /\ saved.policies[k].on
                      /\ r.via # {}
                      /\ \A m \in r.via : Alias[m] = r.alias /\ Granted(saved, saved.policies[k], m)
    BY DEF RoutesWithinGrant
  <2> DEFINE p == saved.policies[k]
  <2>1. PolicyOk(saved, p)
    BY DEF Compiles
  <2> HIDE DEF p
  <2>2. saved.policies[k] = p
    BY DEF p
  <2>3. r \in Routes(saved, p)
    BY <2>2
  <2>4. CASE \E m \in Exposed(saved, p) : r.alias = Alias[m] /\ r.via = {m}
    BY <2>1, <2>2, <2>3, <2>4, RouteCases, ExposedIsGranted
  <2>5. CASE \E a \in Aliases : /\ Exposed(saved, p) \cap Offering(a) # {}
                                /\ r.alias = a
                                /\ r.via = Target(saved, p, a)
    <3>1. PICK a \in Aliases : /\ Exposed(saved, p) \cap Offering(a) # {}
                               /\ r.alias = a
                               /\ r.via = Target(saved, p, a)
      BY <2>5
    <3>2. r.via # {} /\ r.via \subseteq Exposed(saved, p) /\ \A m \in r.via : Alias[m] = a
      BY <2>1, <3>1, TargetIsExposed DEF Offering
    <3>3. QED
      BY <2>1, <2>2, <2>3, <3>1, <3>2, RouteCases, ExposedIsGranted
  <2>6. QED
    BY <2>3, <2>4, <2>5, RouteCases
<1>2. QED
  BY <1>1, SpecCompiles, PTL

\* A model a key is entitled to is served or withheld, never lost (property NoSilentLoss).
THEOREM NothingIsLost == EditsSpec => []NoSilentLoss
<1>1. Compiles(saved) => NoSilentLoss
  BY ExposedByAlias, ChosenNarrows DEF NoSilentLoss, Compiles
<1>2. QED
  BY <1>1, SpecCompiles, PTL

\* Together: a key may call what its policy grants, and is told of the rest (property
\* NamesAreServed).
THEOREM NamesServed == EditsSpec => []NamesAreServed
BY RoutesAreGranted, NothingIsLost, PTL DEF NamesAreServed

\* A bare name is shared only where the key chose several accesses (property SharedOnlyByChoice).
THEOREM SharingIsChosen == EditsSpec => []SharedOnlyByChoice
<1>1. Compiles(saved) => SharedOnlyByChoice
  <2> SUFFICES ASSUME Compiles(saved), NEW k \in Managed(saved),
                      NEW r \in Routes(saved, saved.policies[k]), Several(r.via)
               PROVE  /\ saved.policies[k].select[r.alias] # None
                      /\ saved.policies[k].prefer[r.alias] = None
    BY DEF SharedOnlyByChoice
  <2> DEFINE p == saved.policies[k]
  <2>1. PolicyOk(saved, p)
    BY DEF Compiles
  <2> HIDE DEF p
  <2>2. saved.policies[k] = p
    BY DEF p
  <2>3. PICK a \in Aliases : /\ Exposed(saved, p) \cap Offering(a) # {}
                             /\ r.alias = a
                             /\ r.via = Target(saved, p, a)
    BY <2>2, RouteCases DEF Several
  <2>4. p.prefer[a] = None /\ Several(Exposed(saved, p) \cap Offering(a))
    BY <2>3 DEF Target, Several
  <2>5. a \notin Withheld(saved, p) /\ Several(Offers(saved, p, a))
    <3>1. /\ Offers(saved, p, a) # {}
          /\ Exposed(saved, p) \cap Offering(a) = Chosen(saved, p, a)
      BY <2>1, <2>3, ExposedByAlias
    <3>2. Chosen(saved, p, a) \subseteq Offers(saved, p, a) /\ a \notin Withheld(saved, p)
      BY <2>1, <2>3, <3>1, ChosenNarrows
    <3>3. QED
      BY <2>4, <3>1, <3>2 DEF Several
  <2>6. p.select[a] # None
    BY <2>5 DEF Withheld
  <2>7. QED
    BY <2>2, <2>3, <2>4, <2>6
<1>2. QED
  BY <1>1, SpecCompiles, PTL

\* An edit never makes a working model disappear for a key that stays eligible for it
\* and did not drop it (property ServiceIsKept).
THEOREM WorkingModelsStay == EditsSpec => ServiceIsKept
<1> DEFINE Kept ==
      \A k \in Managed(saved) \cap Managed(saved') :
         LET p == saved.policies[k]  q == saved'.policies[k]
         IN  \A m \in Exposed(saved, p) \cap Eligible(saved', q) :
                \/ m \in Exposed(saved', q)
                \/ q.select[Alias[m]] # None /\ m \in q.select[Alias[m]].excluded
<1>1. Compiles(saved) /\ Compiles(saved)' /\ [EditsNext]_editsVars => [Kept]_editsVars
  <2> SUFFICES ASSUME Compiles(saved), Compiles(saved'), EditsNext,
                      NEW k \in Managed(saved), k \in Managed(saved')
               PROVE  \A m \in Exposed(saved, saved.policies[k]) \cap Eligible(saved', saved'.policies[k]) :
                        \/ m \in Exposed(saved', saved'.policies[k])
                        \/ /\ saved'.policies[k].select[Alias[m]] # None
                           /\ m \in saved'.policies[k].select[Alias[m]].excluded
    BY DEF Kept, editsVars
  <2> DEFINE p == saved.policies[k]
             q == saved'.policies[k]
  <2>1. NoNewAmbiguity(saved', saved)
    <3>1. ASSUME NEW c, Save(c) PROVE NoNewAmbiguity(saved', saved)
      BY <3>1 DEF Save
    <3>2. \E c : Save(c)
      BY DEF EditsNext, SwitchModel, EditGroup, EditSelectors, EditAccess, EditNaming, Adopt
    <3>3. QED
      BY <3>1, <3>2
  <2>2. PolicyOk(saved, p) /\ PolicyOk(saved', q)
    BY DEF Compiles
  <2>3. \A a \in Aliases : a \in Withheld(saved', q) => a \in Withheld(saved, p)
    <3> SUFFICES ASSUME NEW a \in Withheld(saved', q) PROVE a \in Withheld(saved, p)
      OBVIOUS
    <3>1. <<k, a>> \in Ambiguities(saved')
      BY DEF Ambiguities
    <3>2. <<k, a>> \in Ambiguities(saved)
      BY <2>1, <3>1 DEF NoNewAmbiguity
    <3>3. PICK j \in Managed(saved) : <<k, a>> \in {j} \X Withheld(saved, saved.policies[j])
      BY <3>2 DEF Ambiguities
    <3>4. QED
      BY <3>3
  <2> HIDE DEF p, q
  <2>4. saved.policies[k] = p /\ saved'.policies[k] = q
    BY DEF p, q
  <2> SUFFICES ASSUME NEW m \in Exposed(saved, p), m \in Eligible(saved', q)
               PROVE  \/ m \in Exposed(saved', q)
                      \/ q.select[Alias[m]] # None /\ m \in q.select[Alias[m]].excluded
    BY <2>4
  <2> DEFINE a == Alias[m]
  <2>5. a \in Aliases /\ m \in Offering(a) /\ m \in Chosen(saved, p, a) /\ Offers(saved, p, a) # {}
    BY <2>2, ExposedIsOffered DEF Offers
  <2>6. m \in Offers(saved', q, a)
    BY <2>5 DEF Offers
  <2>7. a \notin Withheld(saved', q)
    BY <2>2, <2>3, <2>5, ChosenNarrows
  <2>8. \/ m \in Chosen(saved', q, a)
        \/ q.select[a] # None /\ m \in q.select[a].excluded
    BY <2>6, <2>7 DEF Chosen
  <2>9. QED
    BY <2>2, <2>5, <2>6, <2>8, ExposedByAlias
<1>2. QED
  BY <1>1, SpecCompiles, PTL DEF EditsSpec, ServiceIsKept

-----------------------------------------------------------------------------
(* Repairs and adoption.                                                    *)

\* Keeping some accesses of a withheld alias, under the preference w: what is served of it, whether
\* the policy stands, and that no other alias is disturbed.
LEMMA KeepingRepairs ==
  ASSUME NEW c \in Configs, NEW p \in Policies, PolicyOk(c, p),
         NEW a \in Withheld(c, p), NEW S \in (SUBSET Offers(c, p, a)) \ {{}},
         NEW w \in Models \cup {None}
  PROVE  LET q == [Keeping(p, a, S) EXCEPT !.prefer[a] = w]
         IN  /\ q \in Policies
             /\ Exposed(c, q) \cap Offering(a) = S
             /\ PolicyOk(c, q) <=> w \in S \cup {None}
             /\ w \in S => Target(c, q, a) = {w}
             /\ Withheld(c, q) \subseteq Withheld(c, p)
<1> DEFINE s == [added |-> {}, excluded |-> Offering(a) \ S]
           q == [Keeping(p, a, S) EXCEPT !.prefer[a] = w]
<1>1. /\ a \in Aliases /\ S \subseteq Offering(a) /\ S \subseteq Offers(c, p, a) /\ S # {}
      /\ p.select[a] = None
  BY DEF Withheld, Offers
<1>2. s # None /\ s \in Selectors
  <2>1. s \in Selectors
    BY <1>1 DEF Selectors, Offering
  <2>2. QED
    BY <2>1, ConfigAssumption
<1>3. /\ q \in Policies
      /\ q.select[a] = s /\ q.prefer[a] = w
      /\ \A b \in Aliases \ {a} : q.select[b] = p.select[b] /\ q.prefer[b] = p.prefer[b]
      /\ q.adopted = p.adopted /\ q.ceiling = p.ceiling
      /\ q.groups = p.groups /\ q.added = p.added /\ q.excluded = p.excluded /\ q.sources = p.sources
  <2>1. /\ p.select \in [Aliases -> Selectors \cup {None}] /\ p.prefer \in [Aliases -> Models \cup {None}]
    BY DEF Policies
  <2>2. q = [p EXCEPT !.select = [@ EXCEPT ![a] = s], !.prefer = [@ EXCEPT ![a] = w]]
    BY DEF Policies, Keeping
  <2>3. /\ [p.select EXCEPT ![a] = s] \in [Aliases -> Selectors \cup {None}]
        /\ [p.prefer EXCEPT ![a] = w] \in [Aliases -> Models \cup {None}]
    BY <1>1, <1>2, <2>1
  <2>4. /\ q.select = [p.select EXCEPT ![a] = s] /\ q.prefer = [p.prefer EXCEPT ![a] = w]
        /\ q.adopted = p.adopted /\ q.ceiling = p.ceiling
        /\ q.groups = p.groups /\ q.added = p.added /\ q.excluded = p.excluded /\ q.sources = p.sources
    BY <2>2 DEF Policies
  <2>5. q \in Policies
    BY <2>2, <2>3 DEF Policies
  <2> HIDE DEF q, s
  <2>6. QED
    BY <1>1, <2>1, <2>4, <2>5
<1>4. s.added = {} /\ s.excluded = Offering(a) \ S
  OBVIOUS
<1> HIDE DEF q, s
<1>5. Eligible(c, q) = Eligible(c, p)
  BY <1>3 DEF Eligible, Selected
<1>6. \A b \in Aliases : Offers(c, q, b) = Offers(c, p, b)
  BY <1>5 DEF Offers
<1>7. a \notin Withheld(c, q) /\ \A b \in Aliases \ {a} : b \in Withheld(c, q) <=> b \in Withheld(c, p)
  BY <1>2, <1>3, <1>6 DEF Withheld
<1>8. Chosen(c, q, a) = S
  BY <1>1, <1>2, <1>3, <1>4, <1>6 DEF Chosen, Offers
<1>9. \A b \in Aliases \ {a} : Chosen(c, q, b) = Chosen(c, p, b)
  BY <1>3, <1>6, <1>7 DEF Chosen
<1>10. \A b \in Aliases : SelectionOk(c, q, b)
  <2>1. SelectionOk(c, q, a)
    BY <1>1, <1>3, <1>4, <1>6, <1>8 DEF SelectionOk
  <2>2. ASSUME NEW b \in Aliases \ {a} PROVE SelectionOk(c, q, b)
    BY <1>3, <1>6, <1>9 DEF SelectionOk, PolicyOk
  <2>3. QED
    BY <2>1, <2>2
<1>11. Exposed(c, q) \cap Offering(a) = S
  <2>1. ASSUME NEW b \in Aliases, Offers(c, q, b) # {}, NEW n \in Chosen(c, q, b)
        PROVE  n \in Offering(b)
    <3>1. CASE b = a
      BY <1>1, <1>8, <2>1, <3>1
    <3>2. CASE b # a
      BY <1>6, <1>9, <2>1, <3>2, ChosenNarrows DEF Offers
    <3>3. QED
      BY <3>1, <3>2
  <2>2. S \subseteq Exposed(c, q)
    BY <1>1, <1>6, <1>8 DEF Exposed
  <2>3. ASSUME NEW n \in Exposed(c, q) \cap Offering(a) PROVE n \in S
    <3>1. PICK b \in Aliases : Offers(c, q, b) # {} /\ n \in Chosen(c, q, b)
      BY DEF Exposed
    <3>2. b = a
      BY <2>1, <2>3, <3>1 DEF Offering
    <3>3. QED
      BY <1>8, <3>1, <3>2
  <2>4. QED
    BY <1>1, <2>2, <2>3
<1>12. ASSUME NEW b \in Aliases \ {a}
       PROVE  Exposed(c, q) \cap Offering(b) = Exposed(c, p) \cap Offering(b)
  <2>1. ASSUME NEW n \in Offering(b), NEW d \in Aliases, n \in Chosen(c, q, d) \/ n \in Chosen(c, p, d),
               Offers(c, p, d) # {}
        PROVE  d = b
    <3>1. CASE d = a
      BY <1>1, <1>8, <2>1, <3>1, ChosenNarrows DEF Offering, Offers
    <3>2. CASE d # a
      BY <1>9, <2>1, <3>2, ChosenNarrows DEF Offering, Offers
    <3>3. QED
      BY <3>1, <3>2
  <2>2. QED
    BY <1>6, <1>9, <2>1 DEF Exposed
<1>13. ASSUME NEW b \in Aliases \ {a} PROVE PreferOk(c, q, b)
  BY <1>3, <1>7, <1>12 DEF PreferOk, PolicyOk
<1>14. PreferOk(c, q, a) <=> w \in S \cup {None}
  BY <1>3, <1>7, <1>11 DEF PreferOk
<1>15. PolicyOk(c, q) <=> w \in S \cup {None}
  <2>1. q.adopted <=> (q.ceiling # {})
    BY <1>3, Zenon DEF PolicyOk
  <2>2. PolicyOk(c, q) <=> PreferOk(c, q, a)
    BY <1>1, <1>10, <1>13, <2>1, Zenon DEF PolicyOk
  <2>3. QED
    BY <1>14, <2>2
<1>16. w \in S => Target(c, q, a) = {w}
  <2> SUFFICES ASSUME w \in S PROVE Target(c, q, a) = {w}
    OBVIOUS
  <2>1. w # None
    BY <1>1, ConfigAssumption DEF Offering
  <2>2. QED
    BY <1>3, <1>11, <2>1 DEF Target, Several
<1>17. Withheld(c, q) \subseteq Withheld(c, p)
  BY <1>7 DEF Withheld
<1>18. QED
  BY <1>3, <1>11, <1>15, <1>16, <1>17 DEF q

\* What a policy is offered and what is refused of it is read off the tables.
LEMMA SameTables ==
  ASSUME NEW c, NEW d, d.live = c.live, d.groups = c.groups, NEW p
  PROVE  /\ PolicyOk(d, p) <=> PolicyOk(c, p)
         /\ Withheld(d, p) = Withheld(c, p)
<1>1. Selected(d, p) = Selected(c, p)
  BY DEF Selected, Members
<1>2. Eligible(d, p) = Eligible(c, p)
  BY <1>1 DEF Eligible
<1>3. \A a : Offers(d, p, a) = Offers(c, p, a)
  BY <1>2 DEF Offers
<1>4. Withheld(d, p) = Withheld(c, p)
  BY <1>3 DEF Withheld
<1>5. \A a : Chosen(d, p, a) = Chosen(c, p, a)
  BY <1>3, <1>4 DEF Chosen
<1>6. Exposed(d, p) = Exposed(c, p)
  BY <1>3, <1>5 DEF Exposed
<1>7. \A a : SelectionOk(d, p, a) <=> SelectionOk(c, p, a)
  BY <1>3, <1>5 DEF SelectionOk
<1>8. \A a : PreferOk(d, p, a) <=> PreferOk(c, p, a)
  BY <1>4, <1>6 DEF PreferOk
<1> QED BY <1>4, <1>7, <1>8, Zenon DEF PolicyOk

\* A policy that withholds nothing more is saved exactly when it stands.
LEMMA SavedIfItStands ==
  ASSUME saved \in Configs, Compiles(saved), NEW k \in Managed(saved), NEW q \in Policies,
         Withheld(saved, q) \subseteq Withheld(saved, saved.policies[k])
  PROVE  Saveable(k, q) <=> PolicyOk(saved, q)
<1> DEFINE c == [saved EXCEPT !.policies[k] = q]
<1>1. /\ k \in Keys /\ q # None
      /\ c.live = saved.live /\ c.groups = saved.groups
      /\ c.policies[k] = q /\ \A j \in Keys \ {k} : c.policies[j] = saved.policies[j]
  BY ConfigAssumption DEF Managed, Configs
<1> HIDE DEF c
<1>2. Managed(c) = Managed(saved)
  BY <1>1 DEF Managed
<1>3. \A p : (PolicyOk(c, p) <=> PolicyOk(saved, p)) /\ Withheld(c, p) = Withheld(saved, p)
  BY <1>1, SameTables
<1>4. Compiles(c) <=> PolicyOk(saved, q)
  <2>1. \A g \in Groups : GroupOk(c.groups[g])
    BY <1>1 DEF Compiles
  <2>2. \A j \in Managed(saved) \ {k} : PolicyOk(c, c.policies[j])
    <3> SUFFICES ASSUME NEW j \in Managed(saved) \ {k} PROVE PolicyOk(c, c.policies[j])
      OBVIOUS
    <3>1. c.policies[j] = saved.policies[j] /\ PolicyOk(saved, saved.policies[j])
      BY <1>1 DEF Managed, Compiles
    <3> QED BY <1>3, <3>1, Zenon
  <2>3. PolicyOk(c, c.policies[k]) <=> PolicyOk(saved, q)
    BY <1>1, <1>3, Zenon
  <2> QED BY <1>2, <2>1, <2>2, <2>3, Zenon DEF Compiles
<1>5. NoNewAmbiguity(c, saved)
  <2>1. ASSUME NEW j \in Managed(saved) PROVE Withheld(c, c.policies[j]) \subseteq Withheld(saved, saved.policies[j])
    BY <1>1, <1>3 DEF Managed
  <2> QED BY <1>2, <2>1 DEF NoNewAmbiguity, Ambiguities
<1> QED BY <1>4, <1>5, Zenon DEF Saveable, c

\* A withheld alias is repaired by keeping any of its accesses, and only a stored preference for an
\* access that is not kept can refuse it (property ChoiceRepairs).
THEOREM ChoicesRepair == EditsSpec => []ChoiceRepairs
<1>1. EditsTypeOK /\ Compiles(saved) => ChoiceRepairs
  <2> SUFFICES ASSUME EditsTypeOK, Compiles(saved), NEW k \in Managed(saved),
                      NEW a \in Withheld(saved, saved.policies[k]),
                      NEW S \in (SUBSET Offers(saved, saved.policies[k], a)) \ {{}}
               PROVE  LET p == saved.policies[k]
                          q == Keeping(p, a, S)
                      IN  /\ Exposed(saved, q) \cap Offering(a) = S
                          /\ Saveable(k, q) <=> p.prefer[a] \in S \cup {None}
                          /\ \A m \in S : LET r == [q EXCEPT !.prefer[a] = m]
                                          IN  Saveable(k, r) /\ Target(saved, r, a) = {m}
    BY DEF ChoiceRepairs
  <2> DEFINE p == saved.policies[k]
             q == Keeping(p, a, S)
  <2>1. saved \in Configs /\ p \in Policies /\ PolicyOk(saved, p)
    BY DEF EditsTypeOK, Configs, Managed, Compiles
  <2>2. a \in Aliases /\ S \subseteq Models
    BY DEF Withheld, Offers, Offering
  <2>3. p.prefer[a] \in Models \cup {None}
    BY <2>1, <2>2 DEF Policies
  <2>4. q = [q EXCEPT !.prefer[a] = p.prefer[a]]
    BY <2>1, <2>2 DEF Policies, Keeping
  <2> HIDE DEF p, q
  <2>5. ASSUME NEW w \in Models \cup {None}
        PROVE  LET r == [q EXCEPT !.prefer[a] = w]
               IN  /\ Exposed(saved, r) \cap Offering(a) = S
                   /\ Saveable(k, r) <=> w \in S \cup {None}
                   /\ w \in S => Target(saved, r, a) = {w}
    <3> DEFINE r == [q EXCEPT !.prefer[a] = w]
    <3>1. /\ r \in Policies
          /\ Exposed(saved, r) \cap Offering(a) = S
          /\ PolicyOk(saved, r) <=> w \in S \cup {None}
          /\ w \in S => Target(saved, r, a) = {w}
          /\ Withheld(saved, r) \subseteq Withheld(saved, p)
      BY <2>1, KeepingRepairs DEF p, q
    <3> HIDE DEF r
    <3>2. Saveable(k, r) <=> PolicyOk(saved, r)
      BY <2>1, <3>1, SavedIfItStands DEF p
    <3> QED BY <3>1, <3>2, Zenon DEF r
  <2>6. /\ Exposed(saved, q) \cap Offering(a) = S
        /\ Saveable(k, q) <=> p.prefer[a] \in S \cup {None}
    BY <2>3, <2>4, <2>5
  <2>7. ASSUME NEW m \in S
        PROVE  Saveable(k, [q EXCEPT !.prefer[a] = m]) /\ Target(saved, [q EXCEPT !.prefer[a] = m], a) = {m}
    BY <2>2, <2>5, <2>7
  <2>8. QED
    BY <2>6, <2>7 DEF p, q
<1>2. QED
  BY <1>1, EditsTypeCorrect, SpecCompiles, PTL

\* What a policy bound to the accesses S alone is served.
LEMMA AdoptedIsServed ==
  ASSUME NEW c, NEW S \in SUBSET (Models \ Passthrough), S \subseteq c.live,
         \A m, n \in S : Alias[m] = Alias[n] => m = n,
         NEW p, p.on = TRUE, p.naming = "provider/model", p.groups = {}, p.added = S, p.excluded = {},
         p.sources = {}, p.ceiling = S,
         p.select = [a \in Aliases |-> IF S \cap Offering(a) # {} /\ Offering(a) \ S # {}
                                      THEN [added |-> {}, excluded |-> Offering(a) \ S] ELSE None]
  PROVE  Allowlist(c, p) = S
<1>1. Selected(c, p) = S
  BY DEF Selected
<1>2. Eligible(c, p) = S
  BY <1>1 DEF Eligible
<1>3. ASSUME NEW a \in Aliases PROVE Chosen(c, p, a) = S \cap Offering(a)
  <2>1. Offers(c, p, a) = S \cap Offering(a)
    BY <1>2 DEF Offers
  <2>2. a \notin Withheld(c, p)
    BY <2>1 DEF Withheld, Several, Offering
  <2>3. CASE S \cap Offering(a) # {} /\ Offering(a) \ S # {}
    <3>1. p.select[a] = [added |-> {}, excluded |-> Offering(a) \ S]
      BY <2>3
    <3>2. p.select[a] # None
      <4>1. [added |-> {}, excluded |-> Offering(a) \ S] \in Selectors
        BY DEF Selectors, Offering
      <4>2. None \notin Selectors
        BY ConfigAssumption
      <4>3. QED
        BY <3>1, <4>1, <4>2
    <3>3. QED
      BY <2>1, <3>1, <3>2 DEF Chosen
  <2>4. CASE ~(S \cap Offering(a) # {} /\ Offering(a) \ S # {})
    BY <2>1, <2>2, <2>4 DEF Chosen
  <2>5. QED
    BY <2>3, <2>4
<1>4. ASSUME NEW m \in S PROVE Alias[m] \in Aliases /\ m \in Offering(Alias[m]) /\ m \in Offers(c, p, Alias[m])
  BY <1>2, ConfigAssumption DEF Offering, Offers
<1>5. Exposed(c, p) = S
  BY <1>3, <1>4 DEF Exposed
<1>6. Routes(c, p) = {[bare |-> FALSE, alias |-> Alias[m], via |-> {m}] : m \in S}
  BY <1>5 DEF Routes, Qualified, Bare
<1>7. \A m \in S : [bare |-> FALSE, alias |-> Alias[m], via |-> {m}].via = {m}
  OBVIOUS
<1>8. ASSUME NEW m \in S PROVE m \in Allowlist(c, p)
  <2> DEFINE RouteTo(n) == [bare |-> FALSE, alias |-> Alias[n], via |-> {n}]
  <2>a. Routes(c, p) = {RouteTo(n) : n \in S}
    BY <1>6
  <2>b. RouteTo(m).via = {m}
    OBVIOUS
  <2> HIDE DEF RouteTo
  <2>1. RouteTo(m) \in Routes(c, p)
    BY <2>a
  <2>2. m \in RouteTo(m).via
    BY <2>b
  <2>3. \E r \in Routes(c, p) : m \in r.via
    BY <2>1, <2>2
  <2>4. QED
    BY <2>3 DEF Allowlist
<1>9. ASSUME NEW m \in Allowlist(c, p) PROVE m \in S
  BY <1>6, <1>7 DEF Allowlist
<1>10. QED
  BY <1>8, <1>9

\* A key that is adopted may call exactly the accesses it had in Bifrost, and no other key
\* becomes managed (property AdoptionPreserves).
THEOREM AdoptionsPreserve == EditsSpec => AdoptionPreserves
<1> DEFINE Same == \A k \in Managed(saved') \ Managed(saved) :
                     Allowlist(saved', saved'.policies[k]) = saved'.policies[k].ceiling
<1>1. EditsTypeOK /\ [EditsNext]_editsVars => [Same]_editsVars
  <2> SUFFICES ASSUME EditsTypeOK, EditsNext, NEW k \in Managed(saved'), k \notin Managed(saved)
               PROVE  Allowlist(saved', saved'.policies[k]) = saved'.policies[k].ceiling
    BY DEF Same
  <2>1. k \in Keys /\ saved.policies[k] = None /\ saved'.policies[k] # None
    BY DEF Managed
  <2>2. PICK j \in Keys, S \in SUBSET Models : Adopt(j, S)
    <3>1. ASSUME NEW j \in Keys, EditSelectors(j) \/ EditAccess(j) \/ EditNaming(j)
          PROVE  FALSE
      <4>1. j # k
        BY <3>1 DEF EditSelectors, EditAccess, EditNaming
      <4>2. saved'.policies[k] = saved.policies[k]
        BY <2>1, <3>1, <4>1, ZenonT(40) DEF EditSelectors, EditAccess, EditNaming, Save, EditsTypeOK, Configs
      <4>3. QED
        BY <2>1, <4>2
    <3>2. ASSUME NEW m \in Models, SwitchModel(m) PROVE FALSE
      BY <2>1, <3>2 DEF SwitchModel, Save, EditsTypeOK, Configs
    <3>3. ASSUME NEW g \in Groups, EditGroup(g) PROVE FALSE
      BY <2>1, <3>3 DEF EditGroup, Save, EditsTypeOK, Configs
    <3>4. QED
      BY <3>1, <3>2, <3>3 DEF EditsNext
  <2> DEFINE q == [on |-> TRUE, naming |-> "provider/model", groups |-> {}, added |-> S, excluded |-> {},
                   sources |-> {}, select |-> [a \in Aliases |->
                     IF S \cap Offering(a) # {} /\ Offering(a) \ S # {}
                     THEN [added |-> {}, excluded |-> Offering(a) \ S] ELSE None],
                   prefer |-> [a \in Aliases |-> None], adopted |-> TRUE, ceiling |-> S]
  <2>3. saved' = [saved EXCEPT !.policies[j] = q] /\ Adoptable(S)
    BY <2>2 DEF Adopt, Save
  <2>4. q.on = TRUE /\ q.naming = "provider/model" /\ q.groups = {} /\ q.added = S /\ q.excluded = {}
        /\ q.sources = {} /\ q.ceiling = S
        /\ q.select = [a \in Aliases |-> IF S \cap Offering(a) # {} /\ Offering(a) \ S # {}
                                         THEN [added |-> {}, excluded |-> Offering(a) \ S] ELSE None]
    OBVIOUS
  <2> HIDE DEF q
  <2>5. k = j /\ saved'.policies[k] = q /\ saved'.live = saved.live
    BY <2>1, <2>3 DEF EditsTypeOK, Configs
  <2>6. /\ S \in SUBSET (Models \ Passthrough) /\ S \subseteq saved'.live
        /\ \A m, n \in S : Alias[m] = Alias[n] => m = n
    BY <2>3, <2>5 DEF Adoptable, EditsTypeOK, Configs
  <2>7. Allowlist(saved', q) = S
    BY <2>4, <2>6, AdoptedIsServed
  <2>8. QED
    BY <2>4, <2>5, <2>7
<1>2. QED
  BY <1>1, EditsTypeCorrect, PTL DEF EditsSpec, AdoptionPreserves

-----------------------------------------------------------------------------
(* What the panel is shown, and the file it sends back, are well formed.    *)

Workspaces ==
    [cards: [Aliases -> SUBSET Models], listed: SUBSET Groups, members: [Groups -> SUBSET Aliases],
     keys: [Keys -> Drafts \cup {None}]]

\* Selectors as the server shows them: none that names nothing.
Plain(q) == \A a \in Aliases : ShownSelector(q.select[a]) = q.select[a]

\* A workspace that may be sent back for f: its keys are those of f.
Sendable(f, ws) ==
    /\ ws \in Workspaces
    /\ \A a \in Aliases : ws.cards[a] \subseteq Offering(a)
    /\ \A g \in Groups \ ws.listed : ws.members[g] = {}
    /\ \A k \in Managed(f.conf) : ws.keys[k] \in Drafts /\ Plain(ws.keys[k])
    /\ \A k \in Keys \ Managed(f.conf) : ws.keys[k] = None

LEMMA ShownSelectors ==
  ASSUME NEW sel \in Selectors \cup {None}
  PROVE  /\ ShownSelector(sel) \in Selectors \cup {None}
         /\ ShownSelector(ShownSelector(sel)) = ShownSelector(sel)
BY DEF ShownSelector

LEMMA ShownPolicies ==
  ASSUME NEW p \in Policies
  PROVE  ShownPolicy(p) \in Drafts /\ Plain(ShownPolicy(p))
<1>1. Members2Cards(p.added) \in SUBSET Aliases /\ Members2Cards(p.excluded) \in SUBSET Aliases
  BY ConfigAssumption DEF Members2Cards, Policies
<1>2. /\ [a \in Aliases |-> ShownSelector(p.select[a])] \in [Aliases -> Selectors \cup {None}]
      /\ \A a \in Aliases : ShownSelector(ShownSelector(p.select[a])) = ShownSelector(p.select[a])
  BY ShownSelectors DEF Policies
<1>3. p.groups \in SUBSET Groups /\ p.naming \in Namings /\ p.prefer \in [Aliases -> Models \cup {None}]
  BY DEF Policies
<1> QED BY <1>1, <1>2, <1>3 DEF ShownPolicy, Drafts, Plain

LEMMA ShownIsSendable ==
  ASSUME NEW f \in FileRecords
  PROVE  Sendable(f, Workspace(f))
<1> DEFINE ws == Workspace(f)
<1>1. f.conf \in Configs /\ f.table \in SUBSET Models /\ f.listed \in SUBSET Groups
  BY DEF FileRecords
<1>2. Cards(f) \in [Aliases -> SUBSET Models] /\ \A a \in Aliases : Cards(f)[a] \subseteq Offering(a)
  BY DEF Cards, Offering
<1>3. \A g \in Groups : GroupCards(f, g) \in SUBSET Aliases
  BY <1>1, ConfigAssumption DEF GroupCards, Members2Cards, Configs, GroupRecords
<1>4. \A k \in Managed(f.conf) : f.conf.policies[k] \in Policies
  BY <1>1 DEF Managed, Configs
<1>5. \A k \in Managed(f.conf) : ShownPolicy(f.conf.policies[k]) \in Drafts /\ Plain(ShownPolicy(f.conf.policies[k]))
  BY <1>4, ShownPolicies
<1>7. ws \in Workspaces
  BY <1>1, <1>2, <1>3, <1>5 DEF Workspace, Workspaces
<1>8. \A k \in Managed(f.conf) : k \in Keys
  BY DEF Managed
<1>9. \A k \in Managed(f.conf) : ws.keys[k] = ShownPolicy(f.conf.policies[k])
  BY <1>8 DEF Workspace
<1>10. \A k \in Keys \ Managed(f.conf) : ws.keys[k] = None
  BY DEF Workspace
<1>11. \A g \in Groups \ ws.listed : ws.members[g] = {}
  BY DEF Workspace
<1>12. \A a \in Aliases : ws.cards[a] \subseteq Offering(a)
  BY <1>2 DEF Workspace
<1> QED BY <1>5, <1>7, <1>9, <1>10, <1>11, <1>12 DEF Sendable

LEMMA TableOf ==
  ASSUME NEW f \in FileRecords, NEW ws, Sendable(f, ws), NEW m
  PROVE  /\ m \in Table(ws) <=> m \in Models /\ m \in ws.cards[Alias[m]]
         /\ \A as \in SUBSET Aliases :
              m \in Expand(ws, as) <=> m \in Models /\ m \in ws.cards[Alias[m]] /\ Alias[m] \in as
<1>1. \A a \in Aliases : m \in ws.cards[a] => m \in Models /\ Alias[m] = a
  BY DEF Sendable, Offering
<1>2. m \in Models => Alias[m] \in Aliases
  BY ConfigAssumption
<1> QED BY <1>1, <1>2 DEF Table, Expand

\* The record a key gets of a save, spelled out.
LEMMA NewPolicyIs ==
  ASSUME NEW f \in FileRecords, NEW ws, Sendable(f, ws), NEW on \in [Keys -> BOOLEAN], NEW k \in Managed(f.conf)
  PROVE  LET p == f.conf.policies[k]
             q == NewPolicy(f, ws, on, k)
         IN  /\ q \in Policies
             /\ q.on = on[k] /\ q.naming = ws.keys[k].naming /\ q.groups = ws.keys[k].groups
             /\ q.added = Expand(ws, ws.keys[k].added) /\ q.excluded = Expand(ws, ws.keys[k].excluded)
             /\ \A a \in Aliases : q.select[a] = ws.keys[k].select[a]
             /\ q.prefer = ws.keys[k].prefer
             /\ q.sources = p.sources /\ q.adopted = p.adopted /\ q.ceiling = p.ceiling
<1> DEFINE p == f.conf.policies[k]
           q == NewPolicy(f, ws, on, k)
           r == ws.keys[k]
<1>1. p \in Policies
  BY DEF Managed, FileRecords, Configs
<1>2. k \in Keys /\ r \in Drafts /\ on[k] \in BOOLEAN /\ Plain(r)
  BY DEF Managed, Sendable, Workspaces
<1>3. \A a \in Aliases : r.select[a] \in Selectors \cup {None} /\ ShownSelector(r.select[a]) = r.select[a]
  BY <1>2 DEF Drafts, Plain
<1>4. Expand(ws, r.added) \in SUBSET Models /\ Expand(ws, r.excluded) \in SUBSET Models
  BY <1>2, TableOf DEF Drafts
<1>5. r.naming \in Namings /\ r.groups \in SUBSET Groups /\ r.prefer \in [Aliases -> Models \cup {None}]
  BY <1>2 DEF Drafts
<1> DEFINE sel == [a \in Aliases |-> ShownSelector(r.select[a])]
<1>6. sel \in [Aliases -> Selectors \cup {None}] /\ \A a \in Aliases : sel[a] = r.select[a]
  BY <1>3
<1>7. q = [p EXCEPT !.on = on[k], !.naming = r.naming, !.groups = r.groups, !.added = Expand(ws, r.added),
                    !.excluded = Expand(ws, r.excluded), !.select = sel, !.prefer = r.prefer]
  BY DEF NewPolicy
<1> HIDE DEF sel, q, r, p
<1>8. /\ q \in Policies
      /\ q.on = on[k] /\ q.naming = r.naming /\ q.groups = r.groups
      /\ q.added = Expand(ws, r.added) /\ q.excluded = Expand(ws, r.excluded)
      /\ q.select = sel /\ q.prefer = r.prefer
      /\ q.sources = p.sources /\ q.adopted = p.adopted /\ q.ceiling = p.ceiling
  BY <1>1, <1>2, <1>4, <1>5, <1>6, <1>7 DEF Policies
<1> QED BY <1>6, <1>8 DEF p, q, r

LEMMA NewFileTyped ==
  ASSUME NEW f \in FileRecords, NEW ws, Sendable(f, ws), NEW on \in [Keys -> BOOLEAN]
  PROVE  /\ NewFile(f, ws, on) \in FileRecords
         /\ Managed(NewFile(f, ws, on).conf) = Managed(f.conf)
         /\ \A k \in Managed(f.conf) : NewFile(f, ws, on).conf.policies[k] = NewPolicy(f, ws, on, k)
<1>1. Table(ws) \in SUBSET Models /\ ws.listed \in SUBSET Groups
  BY TableOf DEF Sendable, Workspaces
<1>2. ASSUME NEW g \in Groups PROVE NewGroup(f, ws, g) \in GroupRecords
  <2>1. f.conf.groups[g] \in GroupRecords
    BY DEF FileRecords, Configs
  <2>2. ws.members[g] \in SUBSET Aliases
    BY DEF Sendable, Workspaces
  <2>3. Expand(ws, ws.members[g]) \in SUBSET Models
    BY <2>2, TableOf
  <2> QED BY <2>1, <2>3 DEF NewGroup, GroupRecords
<1>3. \A k \in Managed(f.conf) : NewPolicy(f, ws, on, k) \in Policies
  BY NewPolicyIs
<1>4. Managed(f.conf) \subseteq Keys
  BY DEF Managed
<1> DEFINE c == NewFile(f, ws, on).conf
<1>5. /\ NewFile(f, ws, on).table = Table(ws) /\ NewFile(f, ws, on).listed = ws.listed
      /\ c = [live |-> Table(ws), groups |-> [g \in Groups |-> NewGroup(f, ws, g)],
              policies |-> [k \in Keys |-> IF k \in Managed(f.conf) THEN NewPolicy(f, ws, on, k) ELSE None]]
      /\ NewFile(f, ws, on) = [table |-> Table(ws), listed |-> ws.listed, conf |-> c]
  BY DEF NewFile
<1> HIDE DEF c
<1>6. c \in Configs /\ c.live = Table(ws)
  BY <1>1, <1>2, <1>3, <1>5 DEF Configs
<1>7. NewFile(f, ws, on) \in FileRecords
  BY <1>1, <1>5, <1>6 DEF FileRecords
<1>8. \A k \in Managed(f.conf) : c.policies[k] = NewPolicy(f, ws, on, k)
  BY <1>4, <1>5
<1>9. Managed(c) = Managed(f.conf)
  BY <1>3, <1>5, ConfigAssumption DEF Managed
<1> QED BY <1>7, <1>8, <1>9 DEF c

-----------------------------------------------------------------------------
(* A saved workspace is shown again as it was sent.                         *)

LEMMA GroupsKeep ==
  ASSUME NEW f \in FileRecords, NEW ws, Sendable(f, ws), NEW on \in [Keys -> BOOLEAN], Resolves(ws), LocksKept(f, ws), NEW g \in ws.listed
  PROVE  GroupCards(NewFile(f, ws, on), g) = ws.members[g]
<1>1. g \in Groups
  BY DEF Sendable, Workspaces
<1>2. NewFile(f, ws, on).conf.groups[g] = NewGroup(f, ws, g)
  BY <1>1 DEF NewFile
<1>3. CASE g \in f.listed /\ Locked(f, g)
  BY <1>2, <1>3 DEF NewGroup, LocksKept, GroupCards
<1>4. CASE ~(g \in f.listed /\ Locked(f, g))
  <2>1. GroupCards(NewFile(f, ws, on), g) = Members2Cards(Expand(ws, ws.members[g]))
    BY <1>2, <1>4 DEF NewGroup, GroupCards
  <2>2. ws.members[g] \in SUBSET Aliases
    BY <1>1 DEF Sendable, Workspaces
  <2>3. \A a \in ws.members[g] : ws.cards[a] # {} /\ \A m \in ws.cards[a] : m \in Models /\ Alias[m] = a
    BY <2>2 DEF Resolves, Sendable, Offering
  <2> QED BY <2>1, <2>2, <2>3, TableOf DEF Members2Cards
<1> QED BY <1>3, <1>4

LEMMA CardsKeep ==
  ASSUME NEW f \in FileRecords, NEW ws, Sendable(f, ws), NEW S \in SUBSET {a \in Aliases : ws.cards[a] # {}}
  PROVE  Members2Cards(Expand(ws, S)) = S
<1>1. S \in SUBSET Aliases /\ \A a \in S : ws.cards[a] # {} /\ \A m \in ws.cards[a] : m \in Models /\ Alias[m] = a
  BY DEF Sendable, Offering
<1> QED BY <1>1, TableOf DEF Members2Cards

LEMMA PoliciesKeep ==
  ASSUME NEW f \in FileRecords, NEW ws, Sendable(f, ws), NEW on \in [Keys -> BOOLEAN], Resolves(ws), NEW k \in Managed(f.conf)
  PROVE  ShownPolicy(NewPolicy(f, ws, on, k)) = ws.keys[k]
<1> DEFINE q == NewPolicy(f, ws, on, k)
           r == ws.keys[k]
<1>1. k \in Keys /\ r \in Drafts /\ Plain(r) /\ r # None
  BY WorkspaceAssumption DEF Managed, Sendable
<1>2. /\ q.naming = r.naming /\ q.groups = r.groups
      /\ q.added = Expand(ws, r.added) /\ q.excluded = Expand(ws, r.excluded)
      /\ \A a \in Aliases : q.select[a] = r.select[a]
      /\ q.prefer = r.prefer
  BY NewPolicyIs
<1>3. r.added \cup r.excluded \subseteq {a \in Aliases : ws.cards[a] # {}}
  BY <1>1 DEF Resolves
<1>4. Members2Cards(q.added) = r.added /\ Members2Cards(q.excluded) = r.excluded
  BY <1>2, <1>3, CardsKeep
<1>5. [a \in Aliases |-> ShownSelector(q.select[a])] = r.select
  BY <1>1, <1>2 DEF Plain, Drafts
<1>6. r = [groups |-> r.groups, added |-> r.added, excluded |-> r.excluded, naming |-> r.naming,
           select |-> r.select, prefer |-> r.prefer]
  BY <1>1 DEF Drafts
<1> HIDE DEF q, r
<1>7. ShownPolicy(q) = r
  BY <1>2, <1>4, <1>5, <1>6 DEF ShownPolicy
<1> QED BY <1>7 DEF q, r

LEMMA SavedIsShown ==
  ASSUME NEW f \in FileRecords, NEW ws, Sendable(f, ws), NEW on \in [Keys -> BOOLEAN], Resolves(ws), LocksKept(f, ws)
  PROVE  Workspace(NewFile(f, ws, on)) = ws
<1> DEFINE n == NewFile(f, ws, on)
<1>1. n.table = Table(ws) /\ n.listed = ws.listed
  BY DEF NewFile
<1>2. Managed(n.conf) = Managed(f.conf) /\ \A k \in Managed(f.conf) : n.conf.policies[k] = NewPolicy(f, ws, on, k)
  BY NewFileTyped
<1>3. ASSUME NEW a \in Aliases PROVE Offering(a) \cap Table(ws) = ws.cards[a]
  <2>1. ws.cards[a] \subseteq Offering(a)
    BY DEF Sendable
  <2>2. \A m \in Offering(a) : m \in Models /\ Alias[m] = a
    BY DEF Offering
  <2> QED BY <2>1, <2>2, TableOf
<1>4. Cards(n) = ws.cards
  BY <1>1, <1>3 DEF Cards, Sendable, Workspaces
<1>5. [g \in Groups |-> IF g \in n.listed THEN GroupCards(n, g) ELSE {}] = ws.members
  BY <1>1, GroupsKeep DEF Sendable, Workspaces
<1>6. \A k \in Managed(f.conf) : ShownPolicy(n.conf.policies[k]) = ws.keys[k]
  BY <1>2, PoliciesKeep
<1>7. [k \in Keys |-> IF k \in Managed(n.conf) THEN ShownPolicy(n.conf.policies[k]) ELSE None] = ws.keys
  BY <1>2, <1>6 DEF Sendable, Workspaces
<1>9. ws = [cards |-> ws.cards, listed |-> ws.listed, members |-> ws.members, keys |-> ws.keys]
  BY DEF Sendable, Workspaces
<1> HIDE DEF n
<1>10. Workspace(n) = ws
  BY <1>1, <1>4, <1>5, <1>7, <1>9 DEF Workspace
<1> QED BY <1>10 DEF n

-----------------------------------------------------------------------------
(* Who is eligible, in the panel's terms.                                   *)

\* A group gives m: a locked one by its record, another whole cards.
Gives(f, ws, g, m) ==
    IF g \in f.listed /\ Locked(f, g) THEN m \in Members(f.conf, g) ELSE Alias[m] \in ws.members[g]

\* What of a policy the panel never touches.
Within(p, m) ==
    /\ p.sources = {} \/ Provider[m] \in p.sources
    /\ p.adopted => m \in p.ceiling

\* q takes m in, in workspace ws.
Takes(f, ws, q, m) ==
    /\ Alias[m] \in q.added \/ \E g \in q.groups : Gives(f, ws, g, m)
    /\ Alias[m] \notin q.excluded

LEMMA LockedGives ==
  ASSUME NEW f \in FileRecords, Loads(f), NEW g \in f.listed, NEW m \in f.table
  PROVE  m \in Members(f.conf, g) <=> Gives(f, Workspace(f), g, m)
<1> DEFINE grp == f.conf.groups[g]
<1>1. m \in Models /\ Alias[m] \in Aliases /\ g \in Groups
  BY ConfigAssumption DEF FileRecords
<1>2. CASE ~Locked(f, g)
  <2>1. grp.sources = {} /\ grp.exclude = {} /\ \A a \in GroupCards(f, g) : Cards(f)[a] \subseteq grp.ids
    BY <1>2 DEF Locked
  <2>2. m \in Members(f.conf, g) <=> m \in grp.ids
    BY <2>1 DEF Members
  <2>3. Workspace(f).members[g] = GroupCards(f, g)
    BY <1>1 DEF Workspace
  <2>4. m \in grp.ids => Alias[m] \in GroupCards(f, g)
    BY DEF GroupCards, Members2Cards
  <2>5. Alias[m] \in GroupCards(f, g) => m \in grp.ids
    BY <1>1, <2>1 DEF Cards, Offering
  <2> QED BY <1>2, <2>2, <2>3, <2>4, <2>5 DEF Gives
<1>3. CASE Locked(f, g)
  BY <1>3 DEF Gives
<1> QED BY <1>2, <1>3

LEMMA EligibleNow ==
  ASSUME NEW f \in FileRecords, Loads(f), NEW k \in Managed(f.conf), NEW m,
         Expand(Workspace(f), Members2Cards(Policy(f, k).excluded)) = Policy(f, k).excluded,
         Settled(f, k)
  PROVE  m \in Eligible(f.conf, Policy(f, k)) <=>
             m \in f.table /\ Within(Policy(f, k), m) /\ Takes(f, Workspace(f), Workspace(f).keys[k], m)
<1> DEFINE p == Policy(f, k)
           ws == Workspace(f)
           q == ws.keys[k]
<1>1. p \in Policies /\ k \in Keys
  BY DEF Policy, Managed, FileRecords, Configs
<1>2. q = ShownPolicy(p)
  BY <1>1 DEF Workspace, Policy
<1>3. q.groups = p.groups /\ q.added = Members2Cards(p.added) /\ q.excluded = Members2Cards(p.excluded)
  BY <1>2 DEF ShownPolicy
<1>4. p.groups \subseteq f.listed /\ p.added \cup p.excluded \subseteq f.table
  BY DEF Loads, Policy
<1>5. Sendable(f, ws)
  BY ShownIsSendable
<1>6. \A a \in Aliases : ws.cards[a] = Offering(a) \cap f.table
  BY DEF Workspace, Cards
<1>7. m \in f.table => m \in Models /\ Alias[m] \in Aliases /\ m \in ws.cards[Alias[m]]
  BY <1>6, ConfigAssumption DEF FileRecords, Offering
<1>8. Members2Cards(p.added) \in SUBSET Aliases /\ Members2Cards(p.excluded) \in SUBSET Aliases
  BY <1>1, ConfigAssumption DEF Members2Cards, Policies
<1>9. m \in f.table => (m \in p.excluded <=> Alias[m] \in q.excluded)
  BY <1>3, <1>5, <1>7, <1>8, TableOf
<1>10. m \in f.table /\ Within(p, m) => (m \in p.added <=> Alias[m] \in q.added)
  <2>1. m \in f.table => (m \in Expand(ws, q.added) <=> Alias[m] \in q.added)
    BY <1>3, <1>5, <1>7, <1>8, TableOf
  <2>2. Within(p, m) => (m \in Expand(ws, q.added) <=> m \in p.added)
    BY <1>3 DEF Settled, Within, Policy
  <2> QED BY <2>1, <2>2
<1>11. m \in f.table => \A g \in p.groups : m \in Members(f.conf, g) <=> Gives(f, ws, g, m)
  BY <1>4, LockedGives
<1>12. m \in Selected(f.conf, p) <=> (m \in p.added \/ \E g \in p.groups : m \in Members(f.conf, g)) /\ m \notin p.excluded
  BY DEF Selected
<1>13. m \in Eligible(f.conf, p) <=> m \in f.table /\ Within(p, m) /\ m \in Selected(f.conf, p)
  BY DEF Eligible, Within, Settled
<1> HIDE DEF p, q, ws
<1>14. m \in Eligible(f.conf, p) <=> m \in f.table /\ Within(p, m) /\ Takes(f, ws, q, m)
  BY <1>3, <1>9, <1>10, <1>11, <1>12, <1>13 DEF Takes
<1> QED BY <1>14 DEF p, q, ws

LEMMA EligibleNext ==
  ASSUME NEW f \in FileRecords, NEW ws, Sendable(f, ws), NEW on \in [Keys -> BOOLEAN], NEW k \in Managed(f.conf), NEW m
  PROVE  m \in Eligible(NewFile(f, ws, on).conf, NewPolicy(f, ws, on, k)) <=>
             /\ m \in Models /\ m \in ws.cards[Alias[m]]
             /\ Within(Policy(f, k), m) /\ Takes(f, ws, ws.keys[k], m)
<1> DEFINE n == NewFile(f, ws, on)
           p == Policy(f, k)
           q == NewPolicy(f, ws, on, k)
           r == ws.keys[k]
<1>1. /\ q.groups = r.groups /\ q.added = Expand(ws, r.added) /\ q.excluded = Expand(ws, r.excluded)
      /\ q.sources = p.sources /\ q.adopted = p.adopted /\ q.ceiling = p.ceiling
  BY NewPolicyIs DEF Policy
<1>2. r \in Drafts /\ r.added \in SUBSET Aliases /\ r.excluded \in SUBSET Aliases /\ r.groups \in SUBSET Groups
  BY DEF Sendable, Drafts
<1>3. n.conf.live = Table(ws) /\ \A g \in Groups : n.conf.groups[g] = NewGroup(f, ws, g)
  BY DEF NewFile
<1>4. m \in Table(ws) <=> m \in Models /\ m \in ws.cards[Alias[m]]
  BY TableOf
<1>5. m \in Table(ws) => /\ m \in q.added <=> Alias[m] \in r.added
                         /\ m \in q.excluded <=> Alias[m] \in r.excluded
  BY <1>1, <1>2, <1>4, TableOf
<1>6. ASSUME m \in Table(ws), NEW g \in r.groups
      PROVE  m \in Members(n.conf, g) <=> Gives(f, ws, g, m)
  <2>1. g \in Groups /\ ws.members[g] \in SUBSET Aliases
    BY <1>2, <1>6 DEF Sendable, Workspaces
  <2>2. CASE g \in f.listed /\ Locked(f, g)
    BY <1>3, <2>1, <2>2 DEF Members, NewGroup, Gives
  <2>3. CASE ~(g \in f.listed /\ Locked(f, g))
    <3>1. n.conf.groups[g] = [ids |-> Expand(ws, ws.members[g]), sources |-> {}, exclude |-> {}]
      BY <1>3, <2>1, <2>3 DEF NewGroup
    <3>2. m \in Members(n.conf, g) <=> m \in Expand(ws, ws.members[g])
      BY <3>1 DEF Members
    <3> QED BY <1>4, <1>6, <2>1, <2>3, <3>2, TableOf DEF Gives
  <2> QED BY <2>2, <2>3
<1>7. m \in Eligible(n.conf, q) <=> m \in Table(ws) /\ Within(p, m) /\ m \in Selected(n.conf, q)
  BY <1>1, <1>3, <1>4 DEF Eligible, Within, Table
<1>8. m \in Selected(n.conf, q) <=> (m \in q.added \/ \E g \in r.groups : m \in Members(n.conf, g)) /\ m \notin q.excluded
  BY <1>1 DEF Selected
<1> HIDE DEF n, p, q, r
<1>9. m \in Eligible(n.conf, q) <=> m \in Table(ws) /\ Within(p, m) /\ Takes(f, ws, r, m)
  BY <1>5, <1>6, <1>7, <1>8 DEF Takes
<1> QED BY <1>4, <1>9 DEF n, p, q, r

-----------------------------------------------------------------------------
(* Names: what the file offers, and what the panel plans.                   *)

LEMMA PolicyAt ==
  ASSUME NEW f \in FileRecords, Loads(f), NEW k \in Managed(f.conf)
  PROVE  /\ Policy(f, k) \in Policies /\ PolicyOk(f.conf, Policy(f, k))
         /\ k \in Keys /\ Workspace(f).keys[k] = ShownPolicy(Policy(f, k))
BY DEF Loads, Policy, Managed, FileRecords, Configs, Workspace

LEMMA OfferedAre ==
  ASSUME NEW f, NEW k, NEW n
  PROVE  LET p == Policy(f, k)
         IN  n \in OfferedNames(f, k) <=>
               /\ p.on
               /\ \/ p.naming # "model" /\ \E m \in Exposed(f.conf, p) \ Passthrough : n = AccessName(m)
                  \/ p.naming # "provider/model" /\ \E a \in Aliases :
                        Exposed(f.conf, p) \cap Offering(a) # {} /\ n = BareName(a)
<1> DEFINE p == Policy(f, k)
           name(r) == IF r.bare THEN BareName(r.alias) ELSE AccessName(CHOOSE m \in r.via : TRUE)
<1>1. OfferedNames(f, k) = {name(r) : r \in Routes(f.conf, p)}
  BY DEF OfferedNames
<1>2. n \in OfferedNames(f, k) <=> p.on /\ (\/ \E r \in Qualified(f.conf, p) : n = name(r)
                                           \/ \E r \in Bare(f.conf, p) : n = name(r))
  BY <1>1 DEF Routes
<1>3. \A m : name([bare |-> FALSE, alias |-> Alias[m], via |-> {m}]) = AccessName(m)
  <2> TAKE m
  <2>1. (CHOOSE x \in {m} : TRUE) = m
    OBVIOUS
  <2> QED BY <2>1
<1>4. \A a : name([bare |-> TRUE, alias |-> a, via |-> Target(f.conf, p, a)]) = BareName(a)
  OBVIOUS
<1> HIDE DEF name, p
<1>5. (\E r \in Qualified(f.conf, p) : n = name(r))
        <=> p.naming # "model" /\ \E m \in Exposed(f.conf, p) \ Passthrough : n = AccessName(m)
  BY <1>3 DEF Qualified
<1>6. (\E r \in Bare(f.conf, p) : n = name(r))
        <=> p.naming # "provider/model" /\ \E a \in Aliases : Exposed(f.conf, p) \cap Offering(a) # {} /\ n = BareName(a)
  BY <1>4 DEF Bare
<1>7. n \in OfferedNames(f, k) <=>
        /\ p.on
        /\ \/ p.naming # "model" /\ \E m \in Exposed(f.conf, p) \ Passthrough : n = AccessName(m)
           \/ p.naming # "provider/model" /\ \E a \in Aliases : Exposed(f.conf, p) \cap Offering(a) # {} /\ n = BareName(a)
  BY <1>2, <1>5, <1>6
<1> QED BY <1>7 DEF p

LEMMA PlannedAre ==
  ASSUME NEW ws, NEW q, NEW n
  PROVE  n \in PlannedNames(ws, q) <=>
           \E a \in CardsOf(ws, q) :
              \/ q.naming # "provider/model" /\ Retained(ws, q, a) # {} /\ n = BareName(a)
              \/ q.naming # "model" /\ \E m \in Retained(ws, q, a) : n = AccessName(m)
BY DEF PlannedNames

LEMMA NamesDiffer ==
  /\ \A a, m : BareName(a) # AccessName(m)
  /\ \A a, b : BareName(a) = BareName(b) => a = b
  /\ \A m, n : AccessName(m) = AccessName(n) => m = n
  /\ \A a : CardOf(BareName(a)) = a
  /\ \A m : CardOf(AccessName(m)) = Alias[m]
<1>1. \A a : BareName(a).bare = TRUE /\ BareName(a).of = a
  BY DEF BareName
<1>2. \A m : AccessName(m).bare = FALSE /\ AccessName(m).of = m
  BY DEF AccessName
<1> QED BY <1>1, <1>2 DEF CardOf

\* What the panel says is retained of a card that the key is offered whole is what is chosen.
LEMMA ChosenIsRetained ==
  ASSUME NEW c, NEW p, PolicyOk(c, p), NEW ws, NEW q, NEW a \in Aliases,
         q.select[a] = ShownSelector(p.select[a]),
         Offers(c, p, a) = ws.cards[a], Offers(c, p, a) # {}
  PROVE  /\ Retained(ws, q, a) = IF a \in Withheld(c, p) THEN Offers(c, p, a) ELSE Chosen(c, p, a)
         /\ Retained(ws, q, a) # {}
<1>1. CASE p.select[a] = None
  BY <1>1 DEF Retained, Chosen, ShownSelector
<1>2. CASE p.select[a] # None /\ p.select[a].added \cup p.select[a].excluded = {}
  BY <1>2 DEF Retained, Chosen, ShownSelector, Withheld
<1>3. CASE p.select[a] # None /\ p.select[a].added \cup p.select[a].excluded # {}
  BY <1>3 DEF Retained, Chosen, ShownSelector, Withheld, PolicyOk, SelectionOk
<1> QED BY <1>1, <1>2, <1>3

LEMMA WholeCards ==
  ASSUME NEW f, NEW ws, NEW q, NEW m, \A g \in q.groups : ~(g \in f.listed /\ Locked(f, g))
  PROVE  Takes(f, ws, q, m) <=> Alias[m] \in CardsOf(ws, q)
<1>1. (\E g \in q.groups : Gives(f, ws, g, m)) <=> Alias[m] \in Inherited(ws, q)
  BY DEF Gives, Inherited
<1> QED BY <1>1 DEF Takes, CardsOf

LEMMA WholeOffers ==
  ASSUME NEW f \in FileRecords, Loads(f), NEW k \in Managed(f.conf), Whole(f, k), NEW a \in Aliases
  PROVE  LET ws == Workspace(f)
             q == ws.keys[k]
         IN  Offers(f.conf, Policy(f, k), a) = IF a \in CardsOf(ws, q) THEN ws.cards[a] ELSE {}
<1> DEFINE p == Policy(f, k)
           ws == Workspace(f)
           q == ws.keys[k]
<1>1. p.sources = {} /\ ~p.adopted /\ f.conf.live = f.table
      /\ Expand(ws, Members2Cards(p.added)) = p.added /\ Expand(ws, Members2Cards(p.excluded)) = p.excluded
      /\ \A g \in p.groups : ~Locked(f, g)
  BY DEF Whole
<1>2. Settled(f, k)
  BY <1>1 DEF Settled
<1>3. q.groups = p.groups
  <2>1. q = ShownPolicy(p)
    BY PolicyAt
  <2> HIDE DEF q
  <2> QED BY <2>1 DEF ShownPolicy
<1>4. ASSUME NEW m PROVE m \in Eligible(f.conf, p) <=> m \in f.table /\ Alias[m] \in CardsOf(ws, q)
  <2>1. m \in Eligible(f.conf, p) <=> m \in f.table /\ Within(p, m) /\ Takes(f, ws, q, m)
    BY <1>1, <1>2, EligibleNow
  <2>2. Within(p, m)
    BY <1>1 DEF Within
  <2>3. Takes(f, ws, q, m) <=> Alias[m] \in CardsOf(ws, q)
    BY <1>1, <1>3, WholeCards
  <2> QED BY <2>1, <2>2, <2>3
<1>5. ws.cards[a] = Offering(a) \cap f.table
  BY DEF Workspace, Cards
<1>6. \A m \in Offering(a) : Alias[m] = a
  BY DEF Offering
<1> HIDE DEF p, q, ws
<1>7. Offers(f.conf, p, a) = IF a \in CardsOf(ws, q) THEN ws.cards[a] ELSE {}
  BY <1>4, <1>5, <1>6 DEF Offers
<1> QED BY <1>7 DEF p, q, ws

LEMMA WholePreview ==
  ASSUME NEW f \in FileRecords, Loads(f), NEW k \in Managed(f.conf), Whole(f, k), Policy(f, k).on
  PROVE  LET ws == Workspace(f)
             p == Policy(f, k)
             q == ws.keys[k]
         IN  /\ OfferedNames(f, k) =
                  PlannedNames(ws, q) \ (WithheldNames(f, k) \cup {AccessName(m) : m \in Passthrough})
             /\ \A r \in Bare(f.conf, p) : (Badge(ws, q, r.alias) = "shared") <=> Several(r.via)
<1> DEFINE ws == Workspace(f)
           p == Policy(f, k)
           q == ws.keys[k]
           c == f.conf
           shown(a) == a \in CardsOf(ws, q) /\ ws.cards[a] # {}
<1>1. PolicyOk(c, p) /\ q = ShownPolicy(p) /\ p \in Policies
  BY PolicyAt
<1>2. q.naming = p.naming /\ q.prefer = p.prefer /\ \A a \in Aliases : q.select[a] = ShownSelector(p.select[a])
  BY <1>1 DEF ShownPolicy
<1>3. \A a \in Aliases : Offers(c, p, a) = IF a \in CardsOf(ws, q) THEN ws.cards[a] ELSE {}
  BY WholeOffers
<1>4. Sendable(f, ws)
  BY ShownIsSendable
<1>5. CardsOf(ws, q) \subseteq Aliases
  <2>1. q \in Drafts /\ ws \in Workspaces
    BY <1>4 DEF Sendable
  <2> QED BY <2>1 DEF CardsOf, Inherited, Drafts, Workspaces
<1>6. ASSUME NEW a \in Aliases
      PROVE  /\ a \in CardsOf(ws, q) /\ Retained(ws, q, a) # {} <=> Offers(c, p, a) # {}
             /\ Offers(c, p, a) # {} =>
                  Retained(ws, q, a) = IF a \in Withheld(c, p) THEN Offers(c, p, a) ELSE Exposed(c, p) \cap Offering(a)
             /\ Exposed(c, p) \cap Offering(a) # {} <=> Offers(c, p, a) # {} /\ a \notin Withheld(c, p)
  <2>1. Exposed(c, p) \cap Offering(a) = IF Offers(c, p, a) # {} THEN Chosen(c, p, a) ELSE {}
    BY <1>1, ExposedByAlias
  <2>2. Retained(ws, q, a) \subseteq ws.cards[a]
    BY DEF Retained
  <2>3. Offers(c, p, a) # {} => /\ Offers(c, p, a) = ws.cards[a] /\ a \in CardsOf(ws, q)
    BY <1>3
  <2>4. Offers(c, p, a) # {} =>
          /\ Retained(ws, q, a) = IF a \in Withheld(c, p) THEN Offers(c, p, a) ELSE Chosen(c, p, a)
          /\ Retained(ws, q, a) # {}
    BY <1>1, <1>2, <2>3, ChosenIsRetained
  <2>5. a \in CardsOf(ws, q) /\ Retained(ws, q, a) # {} => Offers(c, p, a) # {}
    BY <1>3, <2>2
  <2>6. Offers(c, p, a) # {} => (Chosen(c, p, a) # {} <=> a \notin Withheld(c, p))
    BY <1>1, ChosenNarrows
  <2> HIDE DEF ws, p, q, c
  <2> QED BY <2>1, <2>3, <2>4, <2>5, <2>6
<1>7. \A m \in Models : Alias[m] \in Aliases /\ m \in Offering(Alias[m])
  BY ConfigAssumption DEF Offering
<1>8. \A m \in Exposed(c, p) : m \in Models
  BY <1>1, ExposedIsOffered DEF Offers, Offering
<1>9. \A a \in Aliases : Offers(c, p, a) \subseteq Offering(a) /\ \A m \in Offering(a) : m \in Models /\ Alias[m] = a
  BY DEF Offers, Offering
<1>10. \A a : BareName(a) \in WithheldNames(f, k) <=> a \in Withheld(c, p)
  BY NamesDiffer DEF WithheldNames
<1>11. \A m \in Models : AccessName(m) \in WithheldNames(f, k) <=> Alias[m] \in Withheld(c, p)
  BY NamesDiffer DEF WithheldNames
<1>12. \A n : n \in OfferedNames(f, k) <=>
               \/ p.naming # "model" /\ \E m \in Exposed(c, p) \ Passthrough : n = AccessName(m)
               \/ p.naming # "provider/model" /\ \E a \in Aliases : Exposed(c, p) \cap Offering(a) # {} /\ n = BareName(a)
  BY OfferedAre
<1>13. \A n : n \in PlannedNames(ws, q) <=>
           \E a \in CardsOf(ws, q) :
              \/ q.naming # "provider/model" /\ Retained(ws, q, a) # {} /\ n = BareName(a)
              \/ q.naming # "model" /\ \E m \in Retained(ws, q, a) : n = AccessName(m)
  BY PlannedAre
<1>14. \A a, m : BareName(a) # AccessName(m)
  BY NamesDiffer
<1>15. \A m, n : AccessName(m) = AccessName(n) => m = n
  BY NamesDiffer
<1>16. \A r \in Bare(c, p) : r.alias \in Aliases /\ Exposed(c, p) \cap Offering(r.alias) # {} /\ r.via = Target(c, p, r.alias)
  BY DEF Bare
<1> HIDE DEF ws, p, q, c
<1>17. ASSUME NEW n PROVE n \in OfferedNames(f, k) => n \in PlannedNames(ws, q) \ (WithheldNames(f, k) \cup {AccessName(m) : m \in Passthrough})
  <2>1. CASE p.naming # "model" /\ \E m \in Exposed(c, p) \ Passthrough : n = AccessName(m)
    <3>1. PICK m \in Exposed(c, p) \ Passthrough : n = AccessName(m)
      BY <2>1
    <3>2. m \in Models /\ Alias[m] \in Aliases /\ m \in Exposed(c, p) \cap Offering(Alias[m])
      BY <1>7, <1>8
    <3>3. Alias[m] \notin Withheld(c, p) /\ m \in Retained(ws, q, Alias[m]) /\ Alias[m] \in CardsOf(ws, q)
      BY <1>6, <3>2
    <3>4. n \in PlannedNames(ws, q)
      BY <1>2, <1>13, <2>1, <3>1, <3>3
    <3>5. n \notin WithheldNames(f, k) /\ n \notin {AccessName(x) : x \in Passthrough}
      BY <1>11, <1>15, <3>1, <3>2, <3>3
    <3> QED BY <3>4, <3>5
  <2>2. CASE p.naming # "provider/model" /\ \E a \in Aliases : Exposed(c, p) \cap Offering(a) # {} /\ n = BareName(a)
    <3>1. PICK a \in Aliases : Exposed(c, p) \cap Offering(a) # {} /\ n = BareName(a)
      BY <2>2
    <3>2. a \notin Withheld(c, p) /\ a \in CardsOf(ws, q) /\ Retained(ws, q, a) # {}
      BY <1>6, <3>1
    <3>3. n \in PlannedNames(ws, q)
      BY <1>2, <1>13, <2>2, <3>1, <3>2
    <3>4. n \notin WithheldNames(f, k) /\ n \notin {AccessName(x) : x \in Passthrough}
      BY <1>10, <1>14, <3>1, <3>2
    <3> QED BY <3>3, <3>4
  <2> QED BY <1>12, <2>1, <2>2
<1>18. ASSUME NEW n, n \in PlannedNames(ws, q), n \notin WithheldNames(f, k), n \notin {AccessName(m) : m \in Passthrough}
       PROVE  n \in OfferedNames(f, k)
  <2>1. PICK a \in CardsOf(ws, q) :
              \/ q.naming # "provider/model" /\ Retained(ws, q, a) # {} /\ n = BareName(a)
              \/ q.naming # "model" /\ \E m \in Retained(ws, q, a) : n = AccessName(m)
    BY <1>13, <1>18
  <2>2. a \in Aliases /\ Retained(ws, q, a) # {} /\ Offers(c, p, a) # {}
    BY <1>5, <1>6, <2>1
  <2>3. CASE q.naming # "provider/model" /\ Retained(ws, q, a) # {} /\ n = BareName(a)
    <3>1. a \notin Withheld(c, p)
      BY <1>10, <1>18, <2>3
    <3>2. Exposed(c, p) \cap Offering(a) # {}
      BY <1>6, <2>2, <3>1
    <3> QED BY <1>2, <1>12, <2>2, <2>3, <3>2
  <2>4. CASE q.naming # "model" /\ \E m \in Retained(ws, q, a) : n = AccessName(m)
    <3>1. PICK m \in Retained(ws, q, a) : n = AccessName(m)
      BY <2>4
    <3>2. m \in Models /\ Alias[m] = a
      BY <1>6, <1>9, <2>2
    <3>3. a \notin Withheld(c, p)
      BY <1>11, <1>18, <3>1, <3>2
    <3>4. m \in Exposed(c, p) /\ m \notin Passthrough
      BY <1>6, <1>18, <2>2, <3>1, <3>3
    <3> QED BY <1>2, <1>12, <2>4, <3>1, <3>4
  <2> QED BY <2>1, <2>3, <2>4
<1>19. ASSUME NEW r \in Bare(c, p)
       PROVE  (Badge(ws, q, r.alias) = "shared") <=> Several(r.via)
  <2> DEFINE a == r.alias
             ms == Exposed(c, p) \cap Offering(a)
  <2>1. a \in Aliases /\ ms # {} /\ Retained(ws, q, a) = ms
    BY <1>6, <1>16
  <2>2. r.via = IF Several(ms) /\ p.prefer[a] # None THEN {p.prefer[a]} ELSE ms
    BY <1>16 DEF Target
  <2>3. ~Several({p.prefer[a]})
    BY DEF Several
  <2> HIDE DEF a, ms
  <2>4. (Badge(ws, q, a) = "shared") <=> p.prefer[a] = None /\ Several(ms)
    BY <1>2, <2>1 DEF Badge
  <2>5. Several(r.via) <=> p.prefer[a] = None /\ Several(ms)
    BY <2>2, <2>3
  <2> QED BY <2>4, <2>5 DEF a
<1>20. OfferedNames(f, k) = PlannedNames(ws, q) \ (WithheldNames(f, k) \cup {AccessName(m) : m \in Passthrough})
  BY <1>17, <1>18
<1> QED BY <1>19, <1>20 DEF ws, p, q, c

-----------------------------------------------------------------------------
(* Whatever the panel sends back is a workspace of the file.                *)

LEMMA ShownIs ==
  ASSUME NEW f \in FileRecords
  PROVE  LET ws == Workspace(f)
         IN  /\ ws \in Workspaces /\ ws.listed = f.listed
             /\ \A k \in Keys : ws.keys[k] # None <=> k \in Managed(f.conf)
             /\ \A k \in Managed(f.conf) : k \in Keys /\ ws.keys[k] \in Drafts /\ Plain(ws.keys[k])
BY ShownIsSendable, WorkspaceAssumption DEF Sendable, Workspace, Managed

LEMMA PublishedIsSendable ==
  ASSUME NEW f \in FileRecords, NEW k \in Managed(f.conf), NEW q \in Drafts, Plain(q)
  PROVE  Sendable(f, [Workspace(f) EXCEPT !.keys[k] = q])
<1> DEFINE ws == Workspace(f)
           next == [ws EXCEPT !.keys[k] = q]
<1>1. Sendable(f, ws) /\ k \in Keys
  BY ShownIsSendable DEF Managed
<1> HIDE DEF ws
<1>2. /\ next \in Workspaces
      /\ next.cards = ws.cards /\ next.listed = ws.listed /\ next.members = ws.members
      /\ next.keys[k] = q /\ \A j \in Keys \ {k} : next.keys[j] = ws.keys[j]
  BY <1>1 DEF Sendable, Workspaces
<1>3. Managed(f.conf) \subseteq Keys
  BY DEF Managed
<1> HIDE DEF next
<1>4. Sendable(f, next)
  BY <1>1, <1>2, <1>3 DEF Sendable
<1> QED BY <1>4 DEF next, ws

LEMMA GroupIsSendable ==
  ASSUME NEW f \in FileRecords, NEW g \in Groups, NEW as \in SUBSET Aliases
  PROVE  Sendable(f, GroupSaved(Workspace(f), g, as))
<1> DEFINE ws == Workspace(f)
           next == GroupSaved(ws, g, as)
<1>1. Sendable(f, ws)
  BY ShownIsSendable
<1> HIDE DEF ws
<1>2. /\ next \in Workspaces
      /\ next.cards = ws.cards /\ next.listed = ws.listed \cup {g} /\ next.keys = ws.keys
      /\ \A h \in Groups \ {g} : next.members[h] = ws.members[h]
  BY <1>1 DEF Sendable, Workspaces, GroupSaved
<1> HIDE DEF next
<1>4. Sendable(f, next)
  BY <1>1, <1>2 DEF Sendable
<1> QED BY <1>4 DEF next, ws

\* The policies of the managed keys, and the others.
LEMMA KeysOf ==
  ASSUME NEW f \in FileRecords, NEW ws, Sendable(f, ws)
  PROVE  /\ Managed(f.conf) \subseteq Keys
         /\ \A k \in Managed(f.conf) : ws.keys[k] \in Drafts /\ Plain(ws.keys[k]) /\ ws.keys[k] # None
         /\ \A k \in Keys \ Managed(f.conf) : ws.keys[k] = None
BY WorkspaceAssumption DEF Sendable, Managed

LEMMA EditedDrafts ==
  ASSUME NEW q \in Drafts, Plain(q), NEW a \in Aliases, NEW g, NEW gone \in SUBSET Models
  PROVE  /\ Ungrouped(q, g) \in Drafts /\ Plain(Ungrouped(q, g))
         /\ Relinked(q, a, gone) \in Drafts /\ Plain(Relinked(q, a, gone))
         /\ Dropped(q, a) \in Drafts /\ Plain(Dropped(q, a))
<1>1. Ungrouped(q, g) \in Drafts /\ Ungrouped(q, g).select = q.select
  BY DEF Ungrouped, Drafts
<1>2. /\ Unlinked(q.select[a], gone) \in Selectors \cup {None}
      /\ ShownSelector(Unlinked(q.select[a], gone)) = Unlinked(q.select[a], gone)
  <2>1. q.select[a] \in Selectors \cup {None} /\ ShownSelector(q.select[a]) = q.select[a]
    BY DEF Drafts, Plain
  <2> QED BY <2>1 DEF Unlinked, Selectors, ShownSelector
<1>3. /\ Relinked(q, a, gone) \in Drafts
      /\ \A b \in Aliases : Relinked(q, a, gone).select[b] = IF b = a THEN Unlinked(q.select[a], gone) ELSE q.select[b]
  BY <1>2 DEF Relinked, Drafts
<1>4. /\ Dropped(q, a) \in Drafts
      /\ \A b \in Aliases : Dropped(q, a).select[b] = IF b = a THEN None ELSE q.select[b]
  BY DEF Dropped, Drafts
<1>5. ShownSelector(None) = None
  BY DEF ShownSelector
<1> QED BY <1>1, <1>2, <1>3, <1>4, <1>5 DEF Plain

LEMMA GroupDeletedIs ==
  ASSUME NEW f \in FileRecords, NEW g \in Groups
  PROVE  LET ws == Workspace(f)
             next == GroupDeleted(ws, g)
         IN  /\ Sendable(f, next)
             /\ next.cards = ws.cards /\ next.listed = ws.listed \ {g}
             /\ next.members[g] = {} /\ \A h \in Groups \ {g} : next.members[h] = ws.members[h]
             /\ \A k \in Managed(f.conf) : next.keys[k] = Ungrouped(ws.keys[k], g)
<1> DEFINE ws == Workspace(f)
           keys == [k \in Keys |-> IF ws.keys[k] = None THEN None ELSE Ungrouped(ws.keys[k], g)]
           next == GroupDeleted(ws, g)
<1>1. Sendable(f, ws)
  BY ShownIsSendable
<1>2. \A q \in Drafts : Plain(q) => Ungrouped(q, g) \in Drafts /\ Plain(Ungrouped(q, g))
  <2>1. ASSUME NEW q \in Drafts, Plain(q) PROVE Ungrouped(q, g) \in Drafts /\ Ungrouped(q, g).select = q.select
    BY DEF Ungrouped, Drafts
  <2> QED BY <2>1 DEF Plain
<1>3. /\ keys \in [Keys -> Drafts \cup {None}]
      /\ \A k \in Managed(f.conf) : keys[k] \in Drafts /\ Plain(keys[k]) /\ keys[k] = Ungrouped(ws.keys[k], g)
      /\ \A k \in Keys \ Managed(f.conf) : keys[k] = None
  <2> HIDE DEF ws
  <2> QED BY <1>1, <1>2, KeysOf
<1>4. next = [ws EXCEPT !.listed = @ \ {g}, !.members[g] = {}, !.keys = keys]
  BY DEF GroupDeleted
<1> HIDE DEF ws, keys, next
<1>5. /\ next \in Workspaces
      /\ next.cards = ws.cards /\ next.listed = ws.listed \ {g} /\ next.keys = keys
      /\ next.members[g] = {} /\ \A h \in Groups \ {g} : next.members[h] = ws.members[h]
  BY <1>1, <1>3, <1>4 DEF Sendable, Workspaces
<1>6. Sendable(f, next)
  BY <1>1, <1>3, <1>5 DEF Sendable
<1> QED BY <1>3, <1>5, <1>6 DEF ws, next

LEMMA CardSavedIs ==
  ASSUME NEW f \in FileRecords, NEW a \in Aliases, NEW ms \in SUBSET Offering(a)
  PROVE  LET ws == Workspace(f)
             next == CardSaved(ws, a, ms)
         IN  /\ Sendable(f, next)
             /\ next.cards[a] = ms /\ \A b \in Aliases \ {a} : next.cards[b] = ws.cards[b]
             /\ next.listed = ws.listed /\ next.members = ws.members
             /\ \A k \in Managed(f.conf) : next.keys[k] = Relinked(ws.keys[k], a, ws.cards[a] \ ms)
<1> DEFINE ws == Workspace(f)
           gone == ws.cards[a] \ ms
           keys == [k \in Keys |-> IF ws.keys[k] = None THEN None ELSE Relinked(ws.keys[k], a, gone)]
           next == CardSaved(ws, a, ms)
<1>1. Sendable(f, ws) /\ gone \in SUBSET Models /\ ms \in SUBSET Models
  BY ShownIsSendable DEF Sendable, Offering
<1> HIDE DEF gone
<1>2. \A q \in Drafts : Plain(q) => Relinked(q, a, gone) \in Drafts /\ Plain(Relinked(q, a, gone))
  BY <1>1, EditedDrafts
<1>3. /\ keys \in [Keys -> Drafts \cup {None}]
      /\ \A k \in Managed(f.conf) : keys[k] \in Drafts /\ Plain(keys[k]) /\ keys[k] = Relinked(ws.keys[k], a, gone)
      /\ \A k \in Keys \ Managed(f.conf) : keys[k] = None
  <2> HIDE DEF ws
  <2> QED BY <1>1, <1>2, KeysOf
<1>4. next = [ws EXCEPT !.cards[a] = ms, !.keys = keys]
  BY DEF CardSaved, gone
<1> HIDE DEF ws, keys, next
<1>5. /\ next \in Workspaces
      /\ next.cards[a] = ms /\ \A b \in Aliases \ {a} : next.cards[b] = ws.cards[b]
      /\ next.listed = ws.listed /\ next.members = ws.members /\ next.keys = keys
  BY <1>1, <1>3, <1>4 DEF Sendable, Workspaces
<1>6. Sendable(f, next)
  BY <1>1, <1>3, <1>5 DEF Sendable
<1> QED BY <1>3, <1>5, <1>6 DEF ws, next, gone

LEMMA CardSavedKeys ==
  ASSUME NEW f \in FileRecords, NEW a \in Aliases, NEW ms \in SUBSET Offering(a)
  PROVE  \A k \in Managed(f.conf) :
           CardSaved(Workspace(f), a, ms).keys[k] = Relinked(Workspace(f).keys[k], a, Workspace(f).cards[a] \ ms)
BY CardSavedIs

LEMMA CardSavedRest ==
  ASSUME NEW f \in FileRecords, NEW a \in Aliases, NEW ms \in SUBSET Offering(a)
  PROVE  /\ \A b \in Aliases \ {a} : CardSaved(Workspace(f), a, ms).cards[b] = Workspace(f).cards[b]
         /\ CardSaved(Workspace(f), a, ms).members = Workspace(f).members
BY CardSavedIs

LEMMA CardDeletedIs ==
  ASSUME NEW f \in FileRecords, NEW a \in Aliases
  PROVE  LET ws == Workspace(f)
             next == CardDeleted(ws, a)
         IN  /\ Sendable(f, next)
             /\ next.cards[a] = {} /\ \A b \in Aliases \ {a} : next.cards[b] = ws.cards[b]
             /\ next.listed = ws.listed
             /\ \A g \in Groups : next.members[g] = ws.members[g] \ {a}
             /\ \A k \in Managed(f.conf) : next.keys[k] = Dropped(ws.keys[k], a)
<1> DEFINE ws == Workspace(f)
           keys == [k \in Keys |-> IF ws.keys[k] = None THEN None ELSE Dropped(ws.keys[k], a)]
           members == [g \in Groups |-> ws.members[g] \ {a}]
           next == CardDeleted(ws, a)
<1>1. Sendable(f, ws)
  BY ShownIsSendable
<1>2. \A q \in Drafts : Plain(q) => Dropped(q, a) \in Drafts /\ Plain(Dropped(q, a))
  BY EditedDrafts
<1>3. /\ keys \in [Keys -> Drafts \cup {None}]
      /\ \A k \in Managed(f.conf) : keys[k] \in Drafts /\ Plain(keys[k]) /\ keys[k] = Dropped(ws.keys[k], a)
      /\ \A k \in Keys \ Managed(f.conf) : keys[k] = None
  <2> HIDE DEF ws
  <2> QED BY <1>1, <1>2, KeysOf
<1>4. next = [ws EXCEPT !.cards[a] = {}, !.members = members, !.keys = keys]
  BY DEF CardDeleted
<1> HIDE DEF ws, keys, next
<1>5. members \in [Groups -> SUBSET Aliases]
  BY <1>1 DEF Sendable, Workspaces
<1> HIDE DEF members
<1>6. /\ next \in Workspaces
      /\ next.cards[a] = {} /\ \A b \in Aliases \ {a} : next.cards[b] = ws.cards[b]
      /\ next.listed = ws.listed /\ next.members = members /\ next.keys = keys
  BY <1>1, <1>3, <1>4, <1>5 DEF Sendable, Workspaces
<1>7. \A g \in Groups : next.members[g] = ws.members[g] \ {a}
  BY <1>6 DEF members
<1>8. Sendable(f, next)
  BY <1>1, <1>3, <1>6, <1>7 DEF Sendable
<1> QED BY <1>3, <1>6, <1>7, <1>8 DEF ws, next

-----------------------------------------------------------------------------
(* The file always loads, and a draft is a policy of a managed key.         *)

DraftOk == editing # None => editing \in Managed(file.conf) /\ draft \in Drafts /\ Plain(draft)

WorkspaceInv == TypeOK /\ Loads(file) /\ DraftOk

LEMMA ToggledDrafts ==
  ASSUME NEW ws \in Workspaces, NEW q \in Drafts, Plain(q), NEW a \in Aliases, NEW m \in Models
  PROVE  ToggleAccess(ws, q, a, m) \in Drafts /\ Plain(ToggleAccess(ws, q, a, m))
<1> DEFINE sel == IF q.select[a] = None THEN [added |-> {}, excluded |-> {}] ELSE q.select[a]
           next == [added |-> sel.added \ {m},
                    excluded |-> IF m \in sel.excluded THEN sel.excluded \ {m} ELSE sel.excluded \cup {m}]
           one == IF ws.cards[a] \cap next.excluded = {} THEN None ELSE next
<1>1. q.select \in [Aliases -> Selectors \cup {None}] /\ ShownSelector(None) = None
  BY DEF Drafts, ShownSelector
<1>2. sel \in Selectors
  BY <1>1 DEF Selectors
<1>3. next \in Selectors
  BY <1>2 DEF Selectors
<1>4. one \in Selectors \cup {None} /\ ShownSelector(one) = one
  BY <1>1, <1>3 DEF ShownSelector
<1>5. ToggleAccess(ws, q, a, m) = [q EXCEPT !.select[a] = one]
  BY DEF ToggleAccess
<1> HIDE DEF one
<1>6. /\ [q EXCEPT !.select[a] = one] \in Drafts
      /\ \A b \in Aliases : [q EXCEPT !.select[a] = one].select[b] = IF b = a THEN one ELSE q.select[b]
  BY <1>1, <1>4 DEF Drafts
<1> QED BY <1>4, <1>5, <1>6 DEF Plain

LEMMA TouchKeeps ==
  ASSUME WorkspaceInv, NEW q \in Drafts, Plain(q), Touch(q)
  PROVE  WorkspaceInv' /\ UNCHANGED <<file, saves>>
BY DEF WorkspaceInv, TypeOK, DraftOk, Touch, flags

\* The keys as the panel holds them, with k switched.
Switched(k) == [seen EXCEPT ![k] = ~@]

LEMMA FlagsTyped ==
  ASSUME WorkspaceInv
  PROVE  /\ seen \in [Keys -> BOOLEAN] /\ active \in [Keys -> BOOLEAN]
         /\ \A k \in Keys : /\ Switched(k) \in [Keys -> BOOLEAN]
                            /\ \A j \in Keys \ {k} : Switched(k)[j] = seen[j]
BY DEF WorkspaceInv, TypeOK, Switched

\* What a save does.
LEMMA CommitIs ==
  ASSUME NEW ws, NEW on, NEW about, NEW k, NEW ids, Commit(ws, on, about, k, ids)
  PROVE  /\ Accepts(file, ws, on) /\ file' = NewFile(file, ws, on)
         /\ last'.about = about /\ last'.key = k
         /\ last'.whole => last'.reread = ids /\ seen' = Applied(Written(file), on)
<1>1. PICK W \in SUBSET Written(file), whole \in BOOLEAN :
        /\ IF whole THEN W = Written(file) /\ UNCHANGED trouble
           ELSE trouble < MaxTrouble /\ trouble' = trouble + 1
        /\ active' = Applied(W, on)
        /\ last' = [about |-> about, key |-> k, reread |-> IF whole THEN ids ELSE {}, whole |-> whole]
  BY DEF Commit
<1>2. Accepts(file, ws, on) /\ file' = NewFile(file, ws, on) /\ seen' = active'
  BY DEF Commit
<1> QED BY <1>1, <1>2

LEMMA CommitKeeps ==
  ASSUME WorkspaceInv, NEW ws, Sendable(file, ws), NEW on \in [Keys -> BOOLEAN],
         NEW about \in Saves, NEW k \in Keys \cup {None},
         NEW ids \in SUBSET Keys, Commit(ws, on, about, k, ids)
  PROVE  WorkspaceInv'
<1>1. file' = NewFile(file, ws, on) /\ Loads(file')
  BY CommitIs DEF Accepts
<1>2. file' \in FileRecords /\ Managed(file'.conf) = Managed(file.conf)
  BY <1>1, NewFileTyped DEF WorkspaceInv, TypeOK
<1>3. TypeOK'
  <2>1. PICK W \in SUBSET Written(file), whole \in BOOLEAN :
          /\ IF whole THEN W = Written(file) /\ UNCHANGED trouble
             ELSE trouble < MaxTrouble /\ trouble' = trouble + 1
          /\ active' = Applied(W, on)
          /\ last' = [about |-> about, key |-> k, reread |-> IF whole THEN ids ELSE {}, whole |-> whole]
    BY DEF Commit
  <2>2. saves' = saves + 1 /\ seen' = active' /\ UNCHANGED <<editing, draft, touches>>
    BY DEF Commit
  <2>3. active' \in [Keys -> BOOLEAN] /\ trouble' \in Nat
    BY <2>1 DEF Applied, WorkspaceInv, TypeOK
  <2>4. last' \in [about: Saves, key: Keys \cup {None}, reread: SUBSET Keys, whole: BOOLEAN]
    BY <2>1
  <2> QED BY <1>2, <2>2, <2>3, <2>4 DEF WorkspaceInv, TypeOK
<1>4. DraftOk'
  <2>1. UNCHANGED <<editing, draft>>
    BY DEF Commit
  <2> QED BY <1>2, <2>1 DEF WorkspaceInv, DraftOk
<1> QED BY <1>1, <1>3, <1>4 DEF WorkspaceInv

\* What the steps are: an edit of the draft, or one of the saves.
LEMMA StepIs ==
  ASSUME WorkspaceInv, Next
  PROVE  \/ WorkspaceInv' /\ UNCHANGED <<file, saves>>
         \/ /\ PublishKey /\ editing \in Managed(file.conf) /\ draft \in Drafts /\ Plain(draft)
         \/ \E k \in Managed(file.conf) : SwitchKey(k)
         \/ SaveAside
         \/ \E g \in Groups, as \in SUBSET Aliases : SaveGroup(g, as)
         \/ \E g \in Groups : DeleteGroup(g)
         \/ \E a \in Aliases : \E ms \in SUBSET Offering(a) : SaveCard(a, ms)
         \/ \E a \in Aliases : DeleteCard(a)
<1>1. /\ Shown \in Workspaces /\ Shown.listed = file.listed
      /\ \A k \in Keys : Shown.keys[k] # None <=> k \in Managed(file.conf)
      /\ \A k \in Managed(file.conf) : k \in Keys /\ Shown.keys[k] \in Drafts /\ Plain(Shown.keys[k])
  BY ShownIs DEF WorkspaceInv, TypeOK, Shown
<1>2. ASSUME NEW k \in Keys, OpenKey(k) PROVE WorkspaceInv' /\ UNCHANGED <<file, saves>>
  BY <1>1, <1>2 DEF OpenKey, WorkspaceInv, TypeOK, DraftOk, flags
<1>3. ASSUME NEW k \in Keys, SwitchKey(k) PROVE k \in Managed(file.conf)
  BY <1>1, <1>3 DEF SwitchKey
<1>4. ASSUME editing # None PROVE draft \in Drafts /\ Plain(draft) /\ editing \in Managed(file.conf)
  BY <1>4 DEF WorkspaceInv, DraftOk
<1>5. ASSUME NEW g \in Groups, ComposeGroup(g) PROVE WorkspaceInv' /\ UNCHANGED <<file, saves>>
  <2> DEFINE q == [draft EXCEPT !.groups = IF g \in @ THEN @ \ {g} ELSE @ \cup {g}]
  <2>1. Touch(q) /\ draft \in Drafts /\ Plain(draft)
    BY <1>4, <1>5 DEF ComposeGroup
  <2>2. q \in Drafts /\ q.select = draft.select
    BY <2>1 DEF Drafts
  <2> HIDE DEF q
  <2> QED BY <2>1, <2>2, TouchKeeps DEF Plain
<1>6. ASSUME NEW flip \in SUBSET Aliases, ComposeModels(flip) PROVE WorkspaceInv' /\ UNCHANGED <<file, saves>>
  <2> DEFINE q == ToggleModels(Shown, draft, flip)
  <2>1. Touch(q) /\ draft \in Drafts /\ Plain(draft)
    BY <1>4, <1>6 DEF ComposeModels
  <2>2. q \in Drafts /\ q.select = draft.select
    BY <2>1 DEF Drafts, ToggleModels
  <2> HIDE DEF q
  <2> QED BY <2>1, <2>2, TouchKeeps DEF Plain
<1>7. ASSUME NEW a \in Aliases, NEW m \in Offering(a), ComposeAccess(a, m) PROVE WorkspaceInv' /\ UNCHANGED <<file, saves>>
  <2>1. Touch(ToggleAccess(Shown, draft, a, m)) /\ draft \in Drafts /\ Plain(draft) /\ m \in Models
    BY <1>4, <1>7 DEF ComposeAccess, Offering
  <2> QED BY <1>1, <2>1, ToggledDrafts, TouchKeeps
<1>8. ASSUME NEW n \in Namings, ComposeNaming(n) PROVE WorkspaceInv' /\ UNCHANGED <<file, saves>>
  <2> DEFINE q == [draft EXCEPT !.naming = n]
  <2>1. Touch(q) /\ draft \in Drafts /\ Plain(draft)
    BY <1>4, <1>8 DEF ComposeNaming
  <2>2. q \in Drafts /\ q.select = draft.select
    BY <2>1 DEF Drafts
  <2> HIDE DEF q
  <2> QED BY <2>1, <2>2, TouchKeeps DEF Plain
<1>9. ASSUME CloseKey \/ DiscardKey PROVE WorkspaceInv' /\ UNCHANGED <<file, saves>>
  BY <1>1, <1>4, <1>9 DEF CloseKey, DiscardKey, WorkspaceInv, TypeOK, DraftOk, flags
<1>10. ASSUME PublishKey PROVE editing \in Managed(file.conf) /\ draft \in Drafts /\ Plain(draft)
  BY <1>4, <1>10 DEF PublishKey, CanPublish
<1>11. ASSUME Reload \/ \E k \in Keys : SwitchInBifrost(k) PROVE WorkspaceInv' /\ UNCHANGED <<file, saves>>
  <2>1. /\ UNCHANGED <<file, editing, draft, touches, last, saves>>
        /\ seen' \in {seen, active} /\ trouble' \in {trouble, trouble + 1}
        /\ active' = active \/ \E k \in Keys : active' = [active EXCEPT ![k] = ~@]
    BY <1>11 DEF Reload, SwitchInBifrost
  <2>2. active' \in [Keys -> BOOLEAN]
    <3>1. active \in [Keys -> BOOLEAN]
      BY FlagsTyped
    <3>2. ASSUME NEW k \in Keys PROVE [active EXCEPT ![k] = ~@] \in [Keys -> BOOLEAN]
      BY <3>1
    <3> QED BY <2>1, <3>1, <3>2
  <2>3. seen' \in [Keys -> BOOLEAN] /\ trouble' \in Nat
    BY <2>1 DEF WorkspaceInv, TypeOK
  <2> QED BY <2>1, <2>2, <2>3 DEF WorkspaceInv, TypeOK, DraftOk
<1> QED BY <1>2, <1>3, <1>5, <1>6, <1>7, <1>8, <1>9, <1>10, <1>11 DEF Next

\* Each save is a commit of a workspace of the file.
LEMMA SavesCommit ==
  ASSUME WorkspaceInv
  PROVE  /\ PublishKey /\ editing \in Managed(file.conf) /\ draft \in Drafts /\ Plain(draft) =>
              LET ws == [Shown EXCEPT !.keys[editing] = draft]
              IN  Sendable(file, ws) /\ Commit(ws, seen, "key", editing, {editing})
         /\ \A k \in Managed(file.conf) : SwitchKey(k) =>
              Sendable(file, Shown) /\ Commit(Shown, Switched(k), "switch", k, {k})
         /\ SaveAside => Sendable(file, Shown) /\ Commit(Shown, seen, "aside", None, {})
         /\ \A g \in Groups, as \in SUBSET Aliases : SaveGroup(g, as) =>
              LET ws == GroupSaved(Shown, g, as)
              IN  Sendable(file, ws) /\ Commit(ws, seen, "group", None, KeysChanged(Shown, ws))
         /\ \A g \in Groups : DeleteGroup(g) =>
              LET ws == GroupDeleted(Shown, g)
              IN  Sendable(file, ws) /\ Commit(ws, seen, "group", None, LinkedKeys(Shown, g))
         /\ \A a \in Aliases : \A ms \in SUBSET Offering(a) : SaveCard(a, ms) =>
              LET ws == CardSaved(Shown, a, ms)
              IN  Sendable(file, ws) /\ Commit(ws, seen, "card", None, KeysWith(Shown, a))
         /\ \A a \in Aliases : DeleteCard(a) =>
              LET ws == CardDeleted(Shown, a)
              IN  Sendable(file, ws) /\ Commit(ws, seen, "card", None, KeysWith(Shown, a))
<1>1. file \in FileRecords /\ Shown = Workspace(file)
  BY DEF WorkspaceInv, TypeOK, Shown
<1>2. ASSUME PublishKey, editing \in Managed(file.conf), draft \in Drafts, Plain(draft)
      PROVE  LET ws == [Shown EXCEPT !.keys[editing] = draft]
             IN  Sendable(file, ws) /\ Commit(ws, seen, "key", editing, {editing})
  BY <1>1, <1>2, PublishedIsSendable DEF PublishKey
<1>3. ASSUME NEW k \in Managed(file.conf), SwitchKey(k)
      PROVE  Sendable(file, Shown) /\ Commit(Shown, Switched(k), "switch", k, {k})
  BY <1>1, <1>3, ShownIsSendable DEF SwitchKey, Switched
<1>4. ASSUME SaveAside PROVE Sendable(file, Shown) /\ Commit(Shown, seen, "aside", None, {})
  BY <1>1, <1>4, ShownIsSendable DEF SaveAside
<1>5. ASSUME NEW g \in Groups, NEW as \in SUBSET Aliases, SaveGroup(g, as)
      PROVE  LET ws == GroupSaved(Shown, g, as)
             IN  Sendable(file, ws) /\ Commit(ws, seen, "group", None, KeysChanged(Shown, ws))
  BY <1>1, <1>5, GroupIsSendable DEF SaveGroup
<1>6. ASSUME NEW g \in Groups, DeleteGroup(g)
      PROVE  LET ws == GroupDeleted(Shown, g)
             IN  Sendable(file, ws) /\ Commit(ws, seen, "group", None, LinkedKeys(Shown, g))
  BY <1>1, <1>6, GroupDeletedIs DEF DeleteGroup
<1>7. ASSUME NEW a \in Aliases, NEW ms \in SUBSET Offering(a), SaveCard(a, ms)
      PROVE  LET ws == CardSaved(Shown, a, ms)
             IN  Sendable(file, ws) /\ Commit(ws, seen, "card", None, KeysWith(Shown, a))
  BY <1>1, <1>7, CardSavedIs DEF SaveCard
<1>8. ASSUME NEW a \in Aliases, DeleteCard(a)
      PROVE  LET ws == CardDeleted(Shown, a)
             IN  Sendable(file, ws) /\ Commit(ws, seen, "card", None, KeysWith(Shown, a))
  BY <1>1, <1>8, CardDeletedIs DEF DeleteCard
<1> QED BY <1>2, <1>3, <1>4, <1>5, <1>6, <1>7, <1>8

\* The file the panel works on always loads, whatever is saved and left in drafts, and the panel's
\* state is well formed (putWorkspace compiles what it builds before it replaces the file).
THEOREM WorkspaceInvariant == Spec => []WorkspaceInv
<1>1. Init => WorkspaceInv
  <2> SUFFICES ASSUME Init PROVE WorkspaceInv
    OBVIOUS
  <2>1. file \in FileRecords /\ Loads(file)
    BY WorkspaceAssumption DEF Init
  <2>2. /\ editing = None /\ draft = None /\ touches \in Nat /\ saves \in Nat
        /\ last \in [about: Saves, key: Keys \cup {None}, reread: SUBSET Keys, whole: BOOLEAN]
        /\ active \in [Keys -> BOOLEAN] /\ seen \in [Keys -> BOOLEAN] /\ trouble \in Nat
    BY WorkspaceAssumption DEF Init, Nothing, Saves
  <2> QED BY <2>1, <2>2 DEF WorkspaceInv, TypeOK, DraftOk
<1>2. WorkspaceInv /\ [Next]_vars => WorkspaceInv'
  <2> SUFFICES ASSUME WorkspaceInv, [Next]_vars PROVE WorkspaceInv'
    OBVIOUS
  <2>1. CASE UNCHANGED vars
    BY <2>1 DEF vars, flags, WorkspaceInv, TypeOK, DraftOk
  <2>2. seen \in [Keys -> BOOLEAN] /\ Managed(file.conf) \subseteq Keys
    BY FlagsTyped DEF Managed
  <2>3. CASE PublishKey /\ editing \in Managed(file.conf) /\ draft \in Drafts /\ Plain(draft)
    <3> DEFINE ws == [Shown EXCEPT !.keys[editing] = draft]
    <3>1. Sendable(file, ws) /\ Commit(ws, seen, "key", editing, {editing})
      BY <2>3, SavesCommit
    <3> HIDE DEF ws
    <3> QED BY <2>2, <2>3, <3>1, CommitKeeps DEF Saves
  <2>4. ASSUME NEW k \in Managed(file.conf), SwitchKey(k) PROVE WorkspaceInv'
    <3>1. Sendable(file, Shown) /\ Commit(Shown, Switched(k), "switch", k, {k})
      BY <2>4, SavesCommit
    <3>2. Switched(k) \in [Keys -> BOOLEAN]
      BY <2>2, FlagsTyped
    <3> QED BY <2>2, <2>4, <3>1, <3>2, CommitKeeps DEF Saves
  <2>5. CASE SaveAside
    BY <2>2, <2>5, SavesCommit, CommitKeeps DEF Saves
  <2>6. ASSUME NEW g \in Groups, NEW as \in SUBSET Aliases, SaveGroup(g, as) PROVE WorkspaceInv'
    <3> DEFINE ws == GroupSaved(Shown, g, as)
    <3>1. Sendable(file, ws) /\ Commit(ws, seen, "group", None, KeysChanged(Shown, ws))
      BY <2>6, SavesCommit
    <3>2. KeysChanged(Shown, ws) \in SUBSET Keys
      BY DEF KeysChanged
    <3> HIDE DEF ws
    <3> QED BY <2>2, <3>1, <3>2, CommitKeeps DEF Saves
  <2>7. ASSUME NEW g \in Groups, DeleteGroup(g) PROVE WorkspaceInv'
    <3> DEFINE ws == GroupDeleted(Shown, g)
    <3>1. Sendable(file, ws) /\ Commit(ws, seen, "group", None, LinkedKeys(Shown, g))
      BY <2>7, SavesCommit
    <3>2. LinkedKeys(Shown, g) \in SUBSET Keys
      BY DEF LinkedKeys
    <3> HIDE DEF ws
    <3> QED BY <2>2, <3>1, <3>2, CommitKeeps DEF Saves
  <2>8. \A a : KeysWith(Shown, a) \in SUBSET Keys
    BY DEF KeysWith
  <2>9. ASSUME NEW a \in Aliases, NEW ms \in SUBSET Offering(a), SaveCard(a, ms) PROVE WorkspaceInv'
    <3> DEFINE ws == CardSaved(Shown, a, ms)
    <3>1. Sendable(file, ws) /\ Commit(ws, seen, "card", None, KeysWith(Shown, a))
      BY <2>9, SavesCommit
    <3> HIDE DEF ws
    <3> QED BY <2>2, <2>8, <3>1, CommitKeeps DEF Saves
  <2>10. ASSUME NEW a \in Aliases, DeleteCard(a) PROVE WorkspaceInv'
    <3> DEFINE ws == CardDeleted(Shown, a)
    <3>1. Sendable(file, ws) /\ Commit(ws, seen, "card", None, KeysWith(Shown, a))
      BY <2>10, SavesCommit
    <3> HIDE DEF ws
    <3> QED BY <2>2, <2>8, <3>1, CommitKeeps DEF Saves
  <2>11. CASE Next
    BY <2>3, <2>4, <2>5, <2>6, <2>7, <2>9, <2>10, <2>11, StepIs
  <2> QED BY <2>1, <2>11
<1> QED BY <1>1, <1>2, PTL DEF Spec

\* What the panel says a key will offer is what the compiler makes of the file, for every file,
\* key and naming, and through any saves (property PreviewMatchesRoutes).
THEOREM PreviewsMatch == Spec => []PreviewMatchesRoutes
<1>1. WorkspaceInv => PreviewMatchesRoutes
  BY WholePreview DEF WorkspaceInv, TypeOK, PreviewMatchesRoutes, Shown
<1> QED BY <1>1, WorkspaceInvariant, PTL
-----------------------------------------------------------------------------
(* What an operator chose survives every save.                              *)

\* From workspace ws to next, key k loses no exclusion of an access that next still has.
KeepsExclusions(ws, next, k) ==
    \A a \in Aliases :
        /\ a \in ws.keys[k].excluded /\ next.cards[a] # {} => a \in next.keys[k].excluded
        /\ \A m \in next.cards[a] :
             ws.keys[k].select[a] # None /\ m \in ws.keys[k].select[a].excluded =>
                 next.keys[k].select[a] # None /\ m \in next.keys[k].select[a].excluded

LEMMA ExcludedStaysOut ==
  ASSUME NEW f \in FileRecords, Loads(f), NEW k \in Managed(f.conf), NEW m \in Models, Excluded(f, k, m)
  PROVE  m \notin Allowlist(f.conf, Policy(f, k))
<1> DEFINE p == Policy(f, k)
<1>1. PolicyOk(f.conf, p)
  BY PolicyAt
<1>2. SUFFICES ASSUME m \in Allowlist(f.conf, p) PROVE FALSE
  OBVIOUS
<1>3. PICK r \in Routes(f.conf, p) : m \in r.via
  BY <1>2 DEF Allowlist
<1>4. m \in Exposed(f.conf, p)
  <2>1. CASE \E n \in Exposed(f.conf, p) : r.via = {n}
    BY <1>3, <2>1
  <2>2. CASE \E a \in Aliases : Exposed(f.conf, p) \cap Offering(a) # {} /\ r.via = Target(f.conf, p, a)
    BY <1>1, <1>3, <2>2, TargetIsExposed
  <2> QED BY <2>1, <2>2, RouteCases
<1>5. Alias[m] \in Aliases /\ m \in Offers(f.conf, p, Alias[m]) /\ m \in Chosen(f.conf, p, Alias[m])
  BY <1>1, <1>4, ExposedIsOffered
<1>6. m \notin p.excluded
  BY <1>5 DEF Offers, Eligible, Selected
<1>7. p.select[Alias[m]] # None => m \notin p.select[Alias[m]].excluded
  BY <1>5 DEF Chosen
<1> QED BY <1>6, <1>7 DEF Excluded

LEMMA ExclusionsKept ==
  ASSUME NEW f \in FileRecords, Loads(f), NEW ws, Sendable(f, ws), NEW on \in [Keys -> BOOLEAN], NEW k \in Managed(f.conf),
         KeepsExclusions(Workspace(f), ws, k),
         NEW m \in f.table \cap Table(ws), Excluded(f, k, m)
  PROVE  Excluded(NewFile(f, ws, on), k, m)
<1> DEFINE p == Policy(f, k)
           q == Workspace(f).keys[k]
           new == Policy(NewFile(f, ws, on), k)
           a == Alias[m]
<1>1. m \in Models /\ a \in Aliases /\ m \in ws.cards[a]
  BY TableOf, ConfigAssumption DEF FileRecords
<1>2. q = ShownPolicy(p) /\ p \in Policies
  BY PolicyAt
<1>3. new = NewPolicy(f, ws, on, k)
  BY NewFileTyped DEF Policy
<1>4. /\ new.excluded = Expand(ws, ws.keys[k].excluded)
      /\ \A b \in Aliases : new.select[b] = ws.keys[k].select[b]
      /\ ws.keys[k].excluded \in SUBSET Aliases
  BY <1>3, NewPolicyIs DEF Sendable, Drafts
<1>5. CASE m \in p.excluded
  <2>1. a \in q.excluded
    BY <1>2, <1>5 DEF ShownPolicy, Members2Cards
  <2>2. a \in ws.keys[k].excluded
    BY <1>1, <2>1 DEF KeepsExclusions
  <2>3. m \in new.excluded
    BY <1>1, <1>4, <2>2, TableOf
  <2> QED BY <2>3 DEF Excluded
<1>6. CASE p.select[a] # None /\ m \in p.select[a].excluded
  <2>1. q.select[a] = p.select[a]
    BY <1>1, <1>2, <1>6 DEF ShownPolicy, ShownSelector
  <2>2. ws.keys[k].select[a] # None /\ m \in ws.keys[k].select[a].excluded
    BY <1>1, <1>6, <2>1 DEF KeepsExclusions
  <2> QED BY <1>1, <1>4, <2>2 DEF Excluded
<1> QED BY <1>5, <1>6 DEF Excluded

\* An access that leaves a card leaves the selectors; the other exclusions stay.
LEMMA UnlinkedKeeps ==
  ASSUME NEW sel \in Selectors \cup {None}, NEW gone, NEW m, m \notin gone,
         sel # None, m \in sel.excluded
  PROVE  Unlinked(sel, gone) # None /\ m \in Unlinked(sel, gone).excluded
<1> DEFINE left == [added |-> sel.added \ gone, excluded |-> sel.excluded \ gone]
<1>1. m \in left.excluded /\ left \in Selectors
  BY DEF Selectors
<1>2. left # None
  BY <1>1, ConfigAssumption
<1>3. ShownSelector(left) = left
  BY <1>1 DEF ShownSelector
<1> QED BY <1>1, <1>2, <1>3 DEF Unlinked

\* What a save does to the file, and to the choices of the keys it is not about.
LEMMA SavesKeepChoices ==
  ASSUME WorkspaceInv, [Next]_vars, saves' # saves
  PROVE  \E ws : \E on \in [Keys -> BOOLEAN] :
                 /\ Sendable(file, ws) /\ Accepts(file, ws, on) /\ file' = NewFile(file, ws, on)
                 /\ last'.about = "key" => ws.keys[editing] = draft
                 /\ \A k \in Managed(file.conf) :
                      KeepsExclusions(Shown, ws, k) \/ (last'.about = "key" /\ last'.key = k)
<1>1. file \in FileRecords /\ Shown = Workspace(file) /\ seen \in [Keys -> BOOLEAN]
  BY DEF WorkspaceInv, TypeOK, Shown
<1>2. /\ Sendable(file, Shown) /\ Managed(file.conf) \subseteq Keys
      /\ \A k \in Managed(file.conf) : Shown.keys[k] \in Drafts /\ Shown.keys[k] # None
      /\ \A k \in Managed(file.conf), a \in Aliases : Shown.keys[k].select[a] \in Selectors \cup {None}
  BY <1>1, ShownIsSendable, KeysOf DEF Drafts
<1>3. ASSUME NEW ws, NEW k, ws.keys[k].excluded = Shown.keys[k].excluded,
             ws.keys[k].select = Shown.keys[k].select
      PROVE  KeepsExclusions(Shown, ws, k)
  BY <1>3 DEF KeepsExclusions
<1>4. CASE PublishKey /\ editing \in Managed(file.conf) /\ draft \in Drafts /\ Plain(draft)
  <2> DEFINE ws == [Shown EXCEPT !.keys[editing] = draft]
  <2>1. Sendable(file, ws) /\ Commit(ws, seen, "key", editing, {editing})
    BY <1>4, SavesCommit
  <2>2. /\ ws.keys[editing] = draft
        /\ \A k \in Managed(file.conf) \ {editing} : ws.keys[k] = Shown.keys[k]
    BY <1>2, <1>4 DEF Sendable, Workspaces
  <2> HIDE DEF ws
  <2> QED BY <1>1, <1>3, <2>1, <2>2, CommitIs
<1>5. CASE \E k \in Managed(file.conf) : SwitchKey(k)
  <2>1. PICK k \in Managed(file.conf) : SwitchKey(k)
    BY <1>5
  <2>2. Sendable(file, Shown) /\ Commit(Shown, Switched(k), "switch", k, {k})
    BY <2>1, SavesCommit
  <2>3. Switched(k) \in [Keys -> BOOLEAN]
    BY <1>2, FlagsTyped
  <2> QED BY <1>3, <2>2, <2>3, CommitIs
<1>6. CASE SaveAside
  BY <1>1, <1>2, <1>3, <1>6, SavesCommit, CommitIs
<1>7. CASE \E g \in Groups, as \in SUBSET Aliases : SaveGroup(g, as)
  <2>1. PICK g \in Groups, as \in SUBSET Aliases : SaveGroup(g, as)
    BY <1>7
  <2> DEFINE ws == GroupSaved(Shown, g, as)
  <2>2. Sendable(file, ws) /\ Commit(ws, seen, "group", None, KeysChanged(Shown, ws))
    BY <2>1, SavesCommit
  <2>3. ws.keys = Shown.keys
    BY <1>2 DEF Sendable, Workspaces, GroupSaved
  <2> HIDE DEF ws
  <2> QED BY <1>1, <1>3, <2>2, <2>3, CommitIs
<1>8. CASE \E g \in Groups : DeleteGroup(g)
  <2>1. PICK g \in Groups : DeleteGroup(g)
    BY <1>8
  <2> DEFINE ws == GroupDeleted(Shown, g)
  <2>2. Sendable(file, ws) /\ Commit(ws, seen, "group", None, LinkedKeys(Shown, g))
    BY <2>1, SavesCommit
  <2>3. \A k \in Managed(file.conf) : ws.keys[k] = Ungrouped(Shown.keys[k], g)
    BY <1>1, GroupDeletedIs
  <2>4. \A k \in Managed(file.conf) : /\ Ungrouped(Shown.keys[k], g).excluded = Shown.keys[k].excluded
                                      /\ Ungrouped(Shown.keys[k], g).select = Shown.keys[k].select
    BY <1>2 DEF Ungrouped, Drafts
  <2> HIDE DEF ws
  <2> QED BY <1>1, <1>3, <2>2, <2>3, <2>4, CommitIs
<1>9. CASE \E a \in Aliases : \E ms \in SUBSET Offering(a) : SaveCard(a, ms)
  <2>0. PICK a \in Aliases : \E ms \in SUBSET Offering(a) : SaveCard(a, ms)
    BY <1>9
  <2>1. PICK ms \in SUBSET Offering(a) : SaveCard(a, ms)
    BY <2>0
  <2> DEFINE ws == CardSaved(Shown, a, ms)
             gone == Shown.cards[a] \ ms
  <2>2. Sendable(file, ws) /\ Commit(ws, seen, "card", None, KeysWith(Shown, a))
    BY <2>1, SavesCommit
  <2>3. ws.cards[a] = ms /\ \A k \in Managed(file.conf) : ws.keys[k] = Relinked(Shown.keys[k], a, gone)
    <3>1. Shown = Workspace(file) /\ file \in FileRecords
      BY <1>1
    <3>2. LET now == CardSaved(Workspace(file), a, ms)
          IN /\ now.cards[a] = ms
             /\ \A k \in Managed(file.conf) :
                    now.keys[k] = Relinked(Workspace(file).keys[k], a, Workspace(file).cards[a] \ ms)
      BY <3>1, CardSavedIs
    <3> QED BY <3>1, <3>2
  <2> HIDE DEF ws, gone
  <2>4. ASSUME NEW k \in Managed(file.conf) PROVE KeepsExclusions(Shown, ws, k)
    <3>1. /\ ws.keys[k].excluded = Shown.keys[k].excluded
          /\ ws.keys[k].select[a] = Unlinked(Shown.keys[k].select[a], gone)
          /\ \A b \in Aliases \ {a} : ws.keys[k].select[b] = Shown.keys[k].select[b]
      <4>1. \A q \in Drafts : /\ Relinked(q, a, gone).excluded = q.excluded
                              /\ Relinked(q, a, gone).select[a] = Unlinked(q.select[a], gone)
                              /\ \A b \in Aliases \ {a} : Relinked(q, a, gone).select[b] = q.select[b]
        BY DEF Relinked, Drafts
      <4> QED BY <1>2, <2>3, <4>1
    <3>2. ASSUME NEW m \in ws.cards[a], Shown.keys[k].select[a] # None, m \in Shown.keys[k].select[a].excluded
          PROVE  ws.keys[k].select[a] # None /\ m \in ws.keys[k].select[a].excluded
      <4>1. m \notin gone
        BY <2>3, <3>2 DEF gone
      <4> QED BY <1>2, <3>1, <3>2, <4>1, UnlinkedKeeps
    <3> QED BY <3>1, <3>2 DEF KeepsExclusions
  <2> QED BY <1>1, <2>2, <2>4, CommitIs
<1>10. CASE \E a \in Aliases : DeleteCard(a)
  <2>1. PICK a \in Aliases : DeleteCard(a)
    BY <1>10
  <2> DEFINE ws == CardDeleted(Shown, a)
  <2>2. Sendable(file, ws) /\ Commit(ws, seen, "card", None, KeysWith(Shown, a))
    BY <2>1, SavesCommit
  <2>3. ws.cards[a] = {} /\ \A k \in Managed(file.conf) : ws.keys[k] = Dropped(Shown.keys[k], a)
    BY <1>1, CardDeletedIs
  <2> HIDE DEF ws
  <2>4. ASSUME NEW k \in Managed(file.conf) PROVE KeepsExclusions(Shown, ws, k)
    <3>1. /\ ws.keys[k].excluded = Shown.keys[k].excluded \ {a}
          /\ \A b \in Aliases \ {a} : ws.keys[k].select[b] = Shown.keys[k].select[b]
      <4>1. \A q \in Drafts : /\ Dropped(q, a).excluded = q.excluded \ {a}
                              /\ \A b \in Aliases \ {a} : Dropped(q, a).select[b] = q.select[b]
        BY DEF Dropped, Drafts
      <4> QED BY <1>2, <2>3, <4>1
    <3> QED BY <2>3, <3>1 DEF KeepsExclusions
  <2> QED BY <1>1, <2>2, <2>4, CommitIs
<1>11. Next
  BY DEF vars
<1> QED BY <1>4, <1>5, <1>6, <1>7, <1>8, <1>9, <1>10, <1>11, StepIs

\* A published draft comes back as it was sent, and an access excluded for a key stays out of it
\* whatever is edited around it (property ChoicesSurvive; putWorkspace, updateModel).
THEOREM OperatorChoicesSurvive == Spec => ChoicesSurvive
<1>1. WorkspaceInv /\ [Next]_vars =>
        [saves' # saves =>
           /\ last'.about = "key" => Workspace(file').keys[editing] = draft
           /\ \A k \in Managed(file.conf), m \in file.table \cap file'.table :
                 Excluded(file, k, m) /\ ~(last'.about = "key" /\ last'.key = k)
                   => m \notin Allowlist(file'.conf, Policy(file', k))]_vars
  <2> SUFFICES ASSUME WorkspaceInv, [Next]_vars, saves' # saves
               PROVE  /\ last'.about = "key" => Workspace(file').keys[editing] = draft
                      /\ \A k \in Managed(file.conf), m \in file.table \cap file'.table :
                           Excluded(file, k, m) /\ ~(last'.about = "key" /\ last'.key = k)
                             => m \notin Allowlist(file'.conf, Policy(file', k))
    OBVIOUS
  <2>1. file \in FileRecords /\ Loads(file) /\ Shown = Workspace(file)
    BY DEF WorkspaceInv, TypeOK, Shown
  <2>0. PICK ws : \E on \in [Keys -> BOOLEAN] :
                  /\ Sendable(file, ws) /\ Accepts(file, ws, on) /\ file' = NewFile(file, ws, on)
                  /\ last'.about = "key" => ws.keys[editing] = draft
                  /\ \A k \in Managed(file.conf) :
                       KeepsExclusions(Shown, ws, k) \/ (last'.about = "key" /\ last'.key = k)
    BY SavesKeepChoices
  <2>2. PICK on \in [Keys -> BOOLEAN] :
                  /\ Sendable(file, ws) /\ Accepts(file, ws, on) /\ file' = NewFile(file, ws, on)
                  /\ last'.about = "key" => ws.keys[editing] = draft
                  /\ \A k \in Managed(file.conf) :
                       KeepsExclusions(Shown, ws, k) \/ (last'.about = "key" /\ last'.key = k)
    BY <2>0
  <2>3. /\ Resolves(ws) /\ LocksKept(file, ws) /\ Loads(file')
        /\ file' \in FileRecords /\ Managed(file'.conf) = Managed(file.conf) /\ file'.table = Table(ws)
    BY <2>1, <2>2, NewFileTyped DEF Accepts, NewFile
  <2>4. Workspace(file') = ws
    BY <2>1, <2>2, <2>3, SavedIsShown
  <2>5. ASSUME NEW k \in Managed(file.conf), NEW m \in file.table \cap file'.table, Excluded(file, k, m),
               ~(last'.about = "key" /\ last'.key = k)
        PROVE  m \notin Allowlist(file'.conf, Policy(file', k))
    <3>1. Excluded(file', k, m)
      BY <2>1, <2>2, <2>3, <2>5, ExclusionsKept
    <3>2. m \in Models
      BY <2>1 DEF FileRecords
    <3> QED BY <2>3, <3>1, <3>2, ExcludedStaysOut
  <2> QED BY <2>2, <2>4, <2>5
<1> QED BY <1>1, WorkspaceInvariant, PTL DEF Spec, ChoicesSurvive
-----------------------------------------------------------------------------
(* The keys a save changes are read back.                                   *)

\* The same choice from the same offers keeps the same accesses, where nothing is newly withheld.
LEMMA SameChoice ==
  ASSUME NEW c, NEW p, NEW d, NEW q, NEW a \in Aliases, Offers(d, q, a) = Offers(c, p, a),
         q.select[a] = ShownSelector(p.select[a]),
         a \in Withheld(d, q) => a \in Withheld(c, p)
  PROVE  Chosen(c, p, a) = Chosen(d, q, a)
<1>1. CASE p.select[a] = None
  <2>1. q.select[a] = None
    BY <1>1 DEF ShownSelector
  <2>2. a \in Withheld(c, p) <=> a \in Withheld(d, q)
    BY <1>1, <2>1 DEF Withheld
  <2> QED BY <1>1, <2>1, <2>2 DEF Chosen
<1>2. CASE p.select[a] # None /\ p.select[a].added \cup p.select[a].excluded = {}
  <2>1. q.select[a] = None /\ p.select[a].added = {} /\ p.select[a].excluded = {}
    BY <1>2 DEF ShownSelector
  <2>2. a \notin Withheld(c, p)
    BY <1>2 DEF Withheld
  <2>3. a \notin Withheld(d, q)
    BY <2>2
  <2>4. Chosen(d, q, a) = Offers(d, q, a)
    BY <2>1, <2>3 DEF Chosen
  <2>5. Chosen(c, p, a) = Offers(c, p, a)
    BY <1>2, <2>1 DEF Chosen
  <2> QED BY <2>4, <2>5
<1>3. CASE p.select[a] # None /\ p.select[a].added \cup p.select[a].excluded # {}
  <2>1. q.select[a] = p.select[a]
    BY <1>3 DEF ShownSelector
  <2> QED BY <1>3, <2>1 DEF Chosen
<1> QED BY <1>1, <1>2, <1>3

\* Routes come from what is offered and from the choices made where something is.
LEMMA SameRoutes ==
  ASSUME NEW c, NEW p, NEW d, NEW q, p.on = q.on, p.naming = q.naming, p.prefer = q.prefer,
         \A a \in Aliases : Offers(d, q, a) = Offers(c, p, a),
         \A a \in Aliases : Offers(c, p, a) # {} => q.select[a] = ShownSelector(p.select[a]),
         Withheld(d, q) \subseteq Withheld(c, p)
  PROVE  Routes(c, p) = Routes(d, q)
<1>1. ASSUME NEW a \in Aliases, Offers(c, p, a) # {} PROVE Chosen(c, p, a) = Chosen(d, q, a)
  BY <1>1, SameChoice
<1>2. Exposed(c, p) = Exposed(d, q)
  <2>1. {b \in Aliases : Offers(c, p, b) # {}} = {b \in Aliases : Offers(d, q, b) # {}}
    OBVIOUS
  <2> QED BY <1>1, <2>1 DEF Exposed
<1>3. Qualified(c, p) = Qualified(d, q)
  BY <1>2 DEF Qualified
<1>4. \A a : Target(c, p, a) = Target(d, q, a)
  BY <1>2 DEF Target
<1>5. Bare(c, p) = Bare(d, q)
  BY <1>2, <1>4 DEF Bare
<1> QED BY <1>3, <1>5 DEF Routes

\* Saving ws, with on active, leaves key k switched as it was, and offers it what it had with the
\* choices it had made there.
KeepsOffers(f, ws, on, k) ==
    LET p == Policy(f, k)
        q == Workspace(f).keys[k]
        r == ws.keys[k]
    IN  /\ on[k] = p.on /\ r.naming = q.naming /\ r.prefer = q.prefer
        /\ \A a \in Aliases : Offers(NewFile(f, ws, on).conf, NewPolicy(f, ws, on, k), a) = Offers(f.conf, p, a)
        /\ \A a \in Aliases : Offers(f.conf, p, a) # {} => r.select[a] = q.select[a]

LEMMA KeptRoutes ==
  ASSUME NEW f \in FileRecords, Loads(f), NEW ws, Sendable(f, ws), NEW on \in [Keys -> BOOLEAN], Accepts(f, ws, on),
         NEW k \in Managed(f.conf), KeepsOffers(f, ws, on, k)
  PROVE  Routes(f.conf, Policy(f, k)) = Routes(NewFile(f, ws, on).conf, Policy(NewFile(f, ws, on), k))
<1> DEFINE c == f.conf
           d == NewFile(f, ws, on).conf
           p == Policy(f, k)
           q == NewPolicy(f, ws, on, k)
<1>1. Policy(NewFile(f, ws, on), k) = q /\ k \in Managed(d)
  BY NewFileTyped DEF Policy
<1>2. Workspace(f).keys[k] = ShownPolicy(p) /\ k \in Keys
  BY PolicyAt
<1>3. p.on = q.on /\ p.naming = q.naming /\ p.prefer = q.prefer
  <2>1. on[k] = p.on
    BY DEF KeepsOffers
  <2>2. q.on = on[k] /\ q.naming = ws.keys[k].naming /\ q.prefer = ws.keys[k].prefer
    BY NewPolicyIs
  <2> QED BY <1>2, <2>1, <2>2 DEF KeepsOffers, ShownPolicy
<1>4. \A a \in Aliases : Offers(d, q, a) = Offers(c, p, a)
  BY DEF KeepsOffers
<1>5. ASSUME NEW a \in Aliases, Offers(c, p, a) # {} PROVE q.select[a] = ShownSelector(p.select[a])
  <2>1. q.select[a] = ws.keys[k].select[a]
    BY NewPolicyIs
  <2>2. ws.keys[k].select[a] = ShownPolicy(p).select[a]
    BY <1>2, <1>5 DEF KeepsOffers
  <2> QED BY <2>1, <2>2 DEF ShownPolicy
<1>6. Withheld(d, q) \subseteq Withheld(c, p)
  <2>1. Ambiguities(d) \subseteq Ambiguities(c)
    BY DEF Accepts, NoNewAmbiguity
  <2>2. d.policies[k] = q /\ c.policies[k] = p
    BY <1>1 DEF Policy
  <2>3. \A a \in Withheld(d, q) : <<k, a>> \in Ambiguities(d)
    BY <1>1, <2>2 DEF Ambiguities
  <2>4. \A a : <<k, a>> \in Ambiguities(c) => a \in Withheld(c, p)
    BY <2>2 DEF Ambiguities
  <2> QED BY <2>1, <2>3, <2>4
<1> HIDE DEF c, d, p, q
<1>7. Routes(c, p) = Routes(d, q)
  BY <1>3, <1>4, <1>5, <1>6, SameRoutes
<1> QED BY <1>1, <1>7 DEF c, d, p, q

LEMMA OffersStay ==
  ASSUME NEW f \in FileRecords, Loads(f), NEW ws, Sendable(f, ws), NEW on \in [Keys -> BOOLEAN], NEW k \in Managed(f.conf),
         InSight(f, k), Settled(f, k), NEW a \in Aliases,
         \A m \in Offering(a) :
            m \in Workspace(f).cards[a] /\ Takes(f, Workspace(f), Workspace(f).keys[k], m)
              <=> m \in ws.cards[a] /\ Takes(f, ws, ws.keys[k], m)
  PROVE  Offers(NewFile(f, ws, on).conf, NewPolicy(f, ws, on, k), a) = Offers(f.conf, Policy(f, k), a)
<1>1. \A m : m \in Eligible(f.conf, Policy(f, k)) <=>
             m \in f.table /\ Within(Policy(f, k), m) /\ Takes(f, Workspace(f), Workspace(f).keys[k], m)
  BY EligibleNow DEF InSight
<1>2. \A m : m \in Eligible(NewFile(f, ws, on).conf, NewPolicy(f, ws, on, k)) <=>
             /\ m \in Models /\ m \in ws.cards[Alias[m]]
             /\ Within(Policy(f, k), m) /\ Takes(f, ws, ws.keys[k], m)
  BY EligibleNext
<1>3. \A m \in Offering(a) : /\ m \in Models /\ Alias[m] = a
                             /\ m \in f.table <=> m \in Workspace(f).cards[a]
  BY DEF Offering, Workspace, Cards
<1> QED BY <1>1, <1>2, <1>3 DEF Offers

\* What the panel sees of a key is all it has.
LEMMA TakesACard ==
  ASSUME NEW f \in FileRecords, Loads(f), NEW k \in Managed(f.conf), InSight(f, k),
         NEW m \in Models, Takes(f, Workspace(f), Workspace(f).keys[k], m)
  PROVE  Alias[m] \in CardsOf(Workspace(f), Workspace(f).keys[k])
<1> DEFINE ws == Workspace(f)
           q == ws.keys[k]
<1>1. q = ShownPolicy(Policy(f, k)) /\ q.groups \subseteq f.listed /\ f.listed \subseteq Groups
  <2>1. q = ShownPolicy(Policy(f, k))
    BY PolicyAt
  <2>2. q.groups = Policy(f, k).groups
    BY <2>1 DEF ShownPolicy
  <2>3. Policy(f, k).groups \subseteq f.listed
    BY DEF Loads, Policy
  <2> QED BY <2>1, <2>2, <2>3 DEF FileRecords
<1>2. ASSUME NEW g \in q.groups, Gives(f, ws, g, m) PROVE Alias[m] \in ws.members[g]
  <2>1. f.conf.groups[g].sources = {} /\ g \in f.listed /\ g \in Groups
    BY <1>1 DEF InSight, ShownPolicy
  <2>2. CASE Locked(f, g)
    <3>1. m \in f.conf.groups[g].ids
      BY <1>2, <2>1, <2>2 DEF Gives, Members
    <3> QED BY <2>1, <3>1 DEF Workspace, GroupCards, Members2Cards
  <2> QED BY <1>2, <2>2 DEF Gives
<1> HIDE DEF ws, q
<1>3. Alias[m] \in CardsOf(ws, q)
  <2>1. Takes(f, ws, q, m)
    BY DEF ws, q
  <2> QED BY <1>2, <2>1 DEF Takes, CardsOf, Inherited
<1> QED BY <1>3 DEF ws, q
LEMMA UntouchedKeys ==
  ASSUME NEW f \in FileRecords, Loads(f), NEW ws, Sendable(f, ws), NEW on \in [Keys -> BOOLEAN], NEW k \in Managed(f.conf),
         InSight(f, k), Settled(f, k), ws.cards = Workspace(f).cards,
         \A g \in Workspace(f).keys[k].groups : ws.members[g] = Workspace(f).members[g],
         ws.keys[k] = Workspace(f).keys[k], on[k] = Policy(f, k).on
  PROVE  KeepsOffers(f, ws, on, k)
<1>1. ASSUME NEW m PROVE Takes(f, Workspace(f), Workspace(f).keys[k], m) <=> Takes(f, ws, ws.keys[k], m)
  BY DEF Takes, Gives
<1>2. \A a \in Aliases : Offers(NewFile(f, ws, on).conf, NewPolicy(f, ws, on, k), a) = Offers(f.conf, Policy(f, k), a)
  BY <1>1, OffersStay
<1> QED BY <1>2 DEF KeepsOffers

LEMMA OffersAreOnCards ==
  ASSUME NEW f \in FileRecords, NEW ws, Sendable(f, ws), NEW k \in Managed(f.conf), NEW a \in Aliases
  PROVE  /\ Offers(f.conf, Policy(f, k), a) \subseteq Workspace(f).cards[a]
         /\ \A on \in [Keys -> BOOLEAN] :
              Offers(NewFile(f, ws, on).conf, NewPolicy(f, ws, on, k), a) \subseteq ws.cards[a]
<1>1. f.conf.live \subseteq f.table /\ \A m \in Offering(a) : Alias[m] = a
  BY DEF FileRecords, Offering
<1>2. Offers(f.conf, Policy(f, k), a) \subseteq Workspace(f).cards[a]
  BY <1>1 DEF Offers, Eligible, Workspace, Cards
<1>3. \A on \in [Keys -> BOOLEAN] :
        Offers(NewFile(f, ws, on).conf, NewPolicy(f, ws, on, k), a) \subseteq ws.cards[a]
  BY <1>1, EligibleNext DEF Offers
<1> QED BY <1>2, <1>3

\* Compile refuses a selection that keeps nothing of what is offered.
LEMMA NothingKept ==
  ASSUME NEW c, NEW p, NEW a \in Aliases, PolicyOk(c, p), p.select[a] # None,
         Offers(c, p, a) \subseteq p.select[a].excluded
  PROVE  Offers(c, p, a) = {}
<1>1. SUFFICES ASSUME Offers(c, p, a) # {} PROVE FALSE
  OBVIOUS
<1>2. p.select[a].added \subseteq Offers(c, p, a) /\ Chosen(c, p, a) # {}
  BY <1>1 DEF PolicyOk, SelectionOk
<1> QED BY <1>2 DEF Chosen

\* The plan tells a card with something to retain.
LEMMA PlanTells ==
  ASSUME NEW ws, \A a \in Aliases : ws.cards[a] \subseteq Offering(a),
         NEW q, CardsOf(ws, q) \subseteq Aliases, NEW a \in Aliases, NEW m \in Retained(ws, q, a)
  PROVE  a \in CardsOf(ws, q) <=>
           (IF q.naming = "provider/model" THEN AccessName(m) ELSE BareName(a)) \in PlannedNames(ws, q)
<1>1. \A b \in Aliases : Retained(ws, q, b) \subseteq ws.cards[b]
  BY DEF Retained
<1>2. \A b \in Aliases : m \in Retained(ws, q, b) => b = a
  BY <1>1 DEF Offering
<1>3. CASE q.naming = "provider/model"
  <2>1. AccessName(m) \in PlannedNames(ws, q) <=> \E b \in CardsOf(ws, q) : m \in Retained(ws, q, b)
    BY <1>3, PlannedAre, NamesDiffer
  <2> QED BY <1>2, <1>3, <2>1
<1>4. CASE q.naming # "provider/model"
  <2>1. BareName(a) \in PlannedNames(ws, q) <=> \E b \in CardsOf(ws, q) : Retained(ws, q, b) # {} /\ a = b
    BY <1>4, PlannedAre, NamesDiffer
  <2> QED BY <1>4, <2>1
<1> QED BY <1>3, <1>4

LEMMA UnchangedPlans ==
  ASSUME NEW f \in FileRecords, Loads(f), NEW ws, Sendable(f, ws), NEW on \in [Keys -> BOOLEAN], Accepts(f, ws, on), NEW k \in Managed(f.conf),
         InSight(f, k), Settled(f, k), \A g \in Policy(f, k).groups : ~Locked(f, g),
         ws.cards = Workspace(f).cards, ws.keys[k] = Workspace(f).keys[k], on[k] = Policy(f, k).on,
         PlannedNames(Workspace(f), ws.keys[k]) = PlannedNames(ws, ws.keys[k])
  PROVE  KeepsOffers(f, ws, on, k)
<1> DEFINE old == Workspace(f)
           q == ws.keys[k]
           p == Policy(f, k)
           c == f.conf
           d == NewFile(f, ws, on).conf
           new == NewPolicy(f, ws, on, k)
<1>1. Sendable(f, old) /\ q \in Drafts /\ q = ShownPolicy(p) /\ PolicyOk(c, p) /\ q = old.keys[k]
  BY ShownIsSendable, PolicyAt DEF Sendable
<1>2. \A m : /\ Takes(f, old, q, m) <=> Alias[m] \in CardsOf(old, q)
             /\ Takes(f, ws, q, m) <=> Alias[m] \in CardsOf(ws, q)
  <2>1. q.groups = p.groups
    BY <1>1 DEF ShownPolicy
  <2> QED BY <2>1, WholeCards
<1>3. CardsOf(old, q) \subseteq Aliases /\ CardsOf(ws, q) \subseteq Aliases
  BY <1>1 DEF CardsOf, Inherited, Sendable, Workspaces, Drafts
<1>4. \A a \in Aliases : ws.cards[a] \subseteq Offering(a) /\ old.cards[a] \subseteq Offering(a)
  BY <1>1 DEF Sendable
<1>5. PolicyOk(d, new)
  <2>1. Loads(NewFile(f, ws, on)) /\ NewFile(f, ws, on) \in FileRecords /\ k \in Managed(d)
    BY NewFileTyped DEF Accepts
  <2>2. d.policies[k] = new
    BY NewFileTyped
  <2> QED BY <2>1, <2>2 DEF Loads
<1>6. ASSUME NEW a \in Aliases PROVE Offers(d, new, a) = Offers(c, p, a)
  <2>1. CASE Retained(ws, q, a) # {}
    <3>1. PICK m : m \in Retained(ws, q, a)
      BY <2>1
    <3>2. m \in Retained(old, q, a)
      BY <3>1 DEF Retained
    <3>3. a \in CardsOf(ws, q) <=> a \in CardsOf(old, q)
      BY <1>3, <1>4, <3>1, <3>2, PlanTells
    <3>4. \A n \in Offering(a) : Takes(f, old, q, n) <=> Takes(f, ws, q, n)
      BY <1>2, <3>3 DEF Offering
    <3> QED BY <1>1, <3>4, OffersStay
  <2>2. CASE Retained(ws, q, a) = {}
    <3>1. Offers(c, p, a) \subseteq ws.cards[a] /\ Offers(d, new, a) \subseteq ws.cards[a]
      BY OffersAreOnCards
    <3>2. CASE q.select[a] = None
      BY <2>2, <3>1, <3>2 DEF Retained
    <3>3. CASE q.select[a] # None
      <4>1. ws.cards[a] \subseteq q.select[a].excluded
        BY <2>2, <3>3 DEF Retained
      <4>2. p.select[a] = q.select[a]
        BY <1>1, <3>3 DEF ShownPolicy, ShownSelector
      <4>3. new.select[a] = q.select[a]
        BY NewPolicyIs
      <4>4. Offers(c, p, a) = {}
        BY <1>1, <3>1, <3>3, <4>1, <4>2, NothingKept
      <4>5. Offers(d, new, a) = {}
        BY <1>5, <3>1, <3>3, <4>1, <4>3, NothingKept
      <4> QED BY <4>4, <4>5
    <3> QED BY <3>2, <3>3
  <2> QED BY <2>1, <2>2
<1> QED BY <1>6 DEF KeepsOffers

LEMMA OtherGroups ==
  ASSUME NEW f \in FileRecords, Loads(f), NEW k \in Managed(f.conf), InSight(f, k), Settled(f, k),
         NEW on \in [Keys -> BOOLEAN], on[k] = Policy(f, k).on,
         NEW g \in Groups, k \notin LinkedKeys(Workspace(f), g)
  PROVE  KeepsOffers(f, GroupDeleted(Workspace(f), g), on, k)
<1> DEFINE old == Workspace(f)
           ws == GroupDeleted(old, g)
           q == old.keys[k]
<1>1. Sendable(f, old) /\ k \in Keys /\ q \in Drafts /\ q # None
  BY ShownIsSendable, KeysOf
<1>2. /\ Sendable(f, ws) /\ ws.cards = old.cards
      /\ \A h \in Groups \ {g} : ws.members[h] = old.members[h]
      /\ ws.keys[k] = Ungrouped(q, g)
  BY GroupDeletedIs
<1>3. g \notin q.groups /\ q.groups \subseteq Groups
  BY <1>1 DEF LinkedKeys, Drafts
<1>4. Ungrouped(q, g) = q
  <2> HIDE DEF q
  <2>1. q.groups \ {g} = q.groups
    BY <1>3
  <2> QED BY <1>1, <2>1 DEF Ungrouped, Drafts
<1> QED BY <1>1, <1>2, <1>3, <1>4, UntouchedKeys

LEMMA OtherCards ==
  ASSUME NEW f \in FileRecords, Loads(f), NEW k \in Managed(f.conf), InSight(f, k), Settled(f, k),
         NEW a \in Aliases, k \notin KeysWith(Workspace(f), a),
         NEW ws, Sendable(f, ws), NEW on \in [Keys -> BOOLEAN], on[k] = Policy(f, k).on,
         \A b \in Aliases \ {a} : /\ ws.cards[b] = Workspace(f).cards[b]
                                  /\ ws.keys[k].select[b] = Workspace(f).keys[k].select[b]
                                  /\ \A g \in Groups : b \in ws.members[g] <=> b \in Workspace(f).members[g]
                                  /\ b \in ws.keys[k].added <=> b \in Workspace(f).keys[k].added
                                  /\ b \in ws.keys[k].excluded <=> b \in Workspace(f).keys[k].excluded,
         ws.keys[k].groups = Workspace(f).keys[k].groups,
         ws.keys[k].naming = Workspace(f).keys[k].naming,
         ws.keys[k].prefer = Workspace(f).keys[k].prefer,
         ws.cards[a] = {} \/ (/\ ws.members = Workspace(f).members
                              /\ ws.keys[k].added = Workspace(f).keys[k].added
                              /\ ws.keys[k].excluded = Workspace(f).keys[k].excluded)
  PROVE  KeepsOffers(f, ws, on, k)
<1> DEFINE old == Workspace(f)
           q == old.keys[k]
           r == ws.keys[k]
<1>1. Sendable(f, old) /\ k \in Keys /\ q \in Drafts /\ q # None /\ q.groups \in SUBSET Groups
  BY ShownIsSendable, KeysOf DEF Drafts
<1>2. a \notin CardsOf(old, q)
  BY <1>1 DEF KeysWith
<1>3. \A m \in Offering(a) : ~Takes(f, old, q, m)
  BY <1>2, TakesACard DEF Offering
<1>4. Offers(f.conf, Policy(f, k), a) = {}
  BY <1>3, EligibleNow DEF Offers, InSight
<1>5. ASSUME NEW b \in Aliases \ {a}, NEW m \in Offering(b) PROVE Takes(f, old, q, m) <=> Takes(f, ws, r, m)
  <2>1. Alias[m] = b
    BY DEF Offering
  <2>2. \A g \in q.groups : Gives(f, old, g, m) <=> Gives(f, ws, g, m)
    BY <1>1, <2>1 DEF Gives
  <2> QED BY <2>1, <2>2 DEF Takes
<1>6. \A b \in Aliases \ {a} :
        Offers(NewFile(f, ws, on).conf, NewPolicy(f, ws, on, k), b) = Offers(f.conf, Policy(f, k), b)
  BY <1>5, OffersStay
<1>7. ASSUME NEW m \in Offering(a), m \in ws.cards[a] PROVE ~Takes(f, ws, r, m)
  <2>1. Takes(f, ws, r, m) <=> Takes(f, old, q, m)
    BY <1>7 DEF Takes, Gives
  <2> QED BY <1>3, <2>1
<1>8. Offers(NewFile(f, ws, on).conf, NewPolicy(f, ws, on, k), a) = Offers(f.conf, Policy(f, k), a)
  BY <1>3, <1>7, OffersStay
<1> QED BY <1>4, <1>6, <1>8 DEF KeepsOffers
\* A key in step that a save does not read back is offered what it was.
LEMMA UnreadKeysKeep ==
  ASSUME WorkspaceInv, [Next]_vars, saves' # saves, last'.whole
  PROVE  \E ws : \E on \in [Keys -> BOOLEAN] :
                 /\ Sendable(file, ws) /\ Accepts(file, ws, on) /\ file' = NewFile(file, ws, on)
                 /\ \A k \in Managed(file.conf) :
                      /\ InSight(file, k) /\ Settled(file, k) /\ InStep(k)
                      /\ last'.about = "group" => \A g \in Policy(file, k).groups : ~Locked(file, g)
                      => KeepsOffers(file, ws, on, k) \/ k \in last'.reread
<1>1. file \in FileRecords /\ Loads(file) /\ Shown = Workspace(file) /\ seen \in [Keys -> BOOLEAN]
  BY DEF WorkspaceInv, TypeOK, Shown
<1>2. /\ Sendable(file, Shown) /\ Managed(file.conf) \subseteq Keys
      /\ \A k \in Managed(file.conf) : Shown.keys[k] \in Drafts /\ Shown.keys[k] # None
  BY <1>1, ShownIsSendable, KeysOf
<1>3. CASE PublishKey /\ editing \in Managed(file.conf) /\ draft \in Drafts /\ Plain(draft)
  <2> DEFINE ws == [Shown EXCEPT !.keys[editing] = draft]
  <2>1. Sendable(file, ws) /\ Commit(ws, seen, "key", editing, {editing})
    BY <1>3, SavesCommit
  <2>2. /\ ws.cards = Shown.cards /\ ws.members = Shown.members
        /\ \A k \in Managed(file.conf) \ {editing} : ws.keys[k] = Shown.keys[k]
    BY <1>2, <1>3 DEF Sendable, Workspaces
  <2> HIDE DEF ws
  <2>3. \A k \in Managed(file.conf) \ {editing} :
          InSight(file, k) /\ Settled(file, k) /\ InStep(k) => KeepsOffers(file, ws, seen, k)
    BY <1>1, <2>1, <2>2, UntouchedKeys DEF InStep
  <2>4. last'.reread = {editing}
    BY <2>1, CommitIs
  <2> QED BY <1>1, <2>1, <2>3, <2>4, CommitIs
<1>4. CASE \E k \in Managed(file.conf) : SwitchKey(k)
  <2>1. PICK k \in Managed(file.conf) : SwitchKey(k)
    BY <1>4
  <2>2. Sendable(file, Shown) /\ Commit(Shown, Switched(k), "switch", k, {k})
    BY <2>1, SavesCommit
  <2>3. Switched(k) \in [Keys -> BOOLEAN] /\ \A j \in Keys \ {k} : Switched(k)[j] = seen[j]
    BY <1>2, FlagsTyped
  <2>4. \A j \in Managed(file.conf) \ {k} :
          InSight(file, j) /\ Settled(file, j) /\ InStep(j) => KeepsOffers(file, Shown, Switched(k), j)
    BY <1>1, <1>2, <2>3, UntouchedKeys DEF InStep
  <2> QED BY <1>1, <2>2, <2>3, <2>4, CommitIs
<1>5. CASE SaveAside
  <2>1. Commit(Shown, seen, "aside", None, {})
    BY <1>5, SavesCommit
  <2>2. \A k \in Managed(file.conf) : InSight(file, k) /\ Settled(file, k) /\ InStep(k) =>
          KeepsOffers(file, Shown, seen, k)
    BY <1>1, <1>2, UntouchedKeys DEF InStep
  <2> QED BY <1>1, <1>2, <2>1, <2>2, CommitIs
<1>6. CASE \E g \in Groups, as \in SUBSET Aliases : SaveGroup(g, as)
  <2>1. PICK g \in Groups, as \in SUBSET Aliases : SaveGroup(g, as)
    BY <1>6
  <2> DEFINE ws == GroupSaved(Shown, g, as)
  <2>2. Sendable(file, ws) /\ Commit(ws, seen, "group", None, KeysChanged(Shown, ws))
    BY <2>1, SavesCommit
  <2>3. ws.keys = Shown.keys /\ ws.cards = Shown.cards
    BY <1>2 DEF Sendable, Workspaces, GroupSaved
  <2> HIDE DEF ws
  <2>4. Accepts(file, ws, seen) /\ last'.about = "group" /\ last'.reread = KeysChanged(Shown, ws)
    BY <2>2, CommitIs
  <2>5. ASSUME NEW k \in Managed(file.conf), InSight(file, k), Settled(file, k), InStep(k),
               \A h \in Policy(file, k).groups : ~Locked(file, h), k \notin last'.reread
        PROVE  KeepsOffers(file, ws, seen, k)
    <3>1. PlannedNames(Shown, ws.keys[k]) = PlannedNames(ws, ws.keys[k])
      BY <1>2, <2>3, <2>4, <2>5 DEF KeysChanged
    <3> QED BY <1>1, <2>2, <2>3, <2>4, <2>5, <3>1, UnchangedPlans DEF InStep
  <2> QED BY <1>1, <2>2, <2>4, <2>5, CommitIs
<1>7. CASE \E g \in Groups : DeleteGroup(g)
  <2>1. PICK g \in Groups : DeleteGroup(g)
    BY <1>7
  <2> DEFINE ws == GroupDeleted(Shown, g)
  <2>2. Sendable(file, ws) /\ Commit(ws, seen, "group", None, LinkedKeys(Shown, g))
    BY <2>1, SavesCommit
  <2>3. \A k \in Managed(file.conf) :
          InSight(file, k) /\ Settled(file, k) /\ InStep(k) /\ k \notin LinkedKeys(Shown, g) =>
            KeepsOffers(file, ws, seen, k)
    BY <1>1, OtherGroups DEF InStep
  <2> HIDE DEF ws
  <2>4. last'.reread = LinkedKeys(Shown, g)
    BY <2>2, CommitIs
  <2> QED BY <1>1, <2>2, <2>3, <2>4, CommitIs
<1>8. CASE \E a \in Aliases : \E ms \in SUBSET Offering(a) : SaveCard(a, ms)
  <2>1. PICK a \in Aliases : \E ms \in SUBSET Offering(a) : SaveCard(a, ms)
    BY <1>8
  <2>2. PICK ms \in SUBSET Offering(a) : SaveCard(a, ms)
    BY <2>1
  <2> DEFINE ws == CardSaved(Shown, a, ms)
             gone == Shown.cards[a] \ ms
  <2>3. Sendable(file, ws) /\ Commit(ws, seen, "card", None, KeysWith(Shown, a))
    BY <2>2, SavesCommit
  <2>4. /\ \A b \in Aliases \ {a} : ws.cards[b] = Shown.cards[b]
        /\ ws.members = Shown.members
        /\ \A k \in Managed(file.conf) : ws.keys[k] = Relinked(Shown.keys[k], a, gone)
    <3>1. Shown = Workspace(file) /\ file \in FileRecords
      BY <1>1
    <3> DEFINE now == CardSaved(Workspace(file), a, ms)
    <3>2. \A b \in Aliases \ {a} : now.cards[b] = Workspace(file).cards[b]
      BY <3>1, CardSavedRest
    <3>3. now.members = Workspace(file).members
      BY <3>1, CardSavedRest
    <3>4. \A k \in Managed(file.conf) :
            now.keys[k] = Relinked(Workspace(file).keys[k], a, Workspace(file).cards[a] \ ms)
      BY <3>1, CardSavedKeys
    <3> QED BY <3>1, <3>2, <3>3, <3>4
  <2> HIDE DEF ws, gone
  <2>5. last'.reread = KeysWith(Shown, a)
    BY <2>3, CommitIs
  <2>6. ASSUME NEW k \in Managed(file.conf), InSight(file, k), Settled(file, k), InStep(k), k \notin KeysWith(Shown, a)
        PROVE  KeepsOffers(file, ws, seen, k)
    <3>1. \A q \in Drafts : LET r == Relinked(q, a, gone)
                            IN  /\ r.groups = q.groups /\ r.added = q.added /\ r.excluded = q.excluded
                                /\ r.naming = q.naming /\ r.prefer = q.prefer
                                /\ \A b \in Aliases \ {a} : r.select[b] = q.select[b]
      BY DEF Relinked, Drafts
    <3>2. LET q == Shown.keys[k]
              r == ws.keys[k]
          IN  /\ r.groups = q.groups /\ r.added = q.added /\ r.excluded = q.excluded
              /\ r.naming = q.naming /\ r.prefer = q.prefer
              /\ \A b \in Aliases \ {a} : r.select[b] = q.select[b]
      BY <1>2, <2>4, <3>1
    <3> QED BY <1>1, <2>3, <2>4, <2>6, <3>2, OtherCards DEF InStep
  <2> QED BY <1>1, <2>3, <2>5, <2>6, CommitIs
<1>9. CASE \E a \in Aliases : DeleteCard(a)
  <2>1. PICK a \in Aliases : DeleteCard(a)
    BY <1>9
  <2> DEFINE ws == CardDeleted(Shown, a)
  <2>2. Sendable(file, ws) /\ Commit(ws, seen, "card", None, KeysWith(Shown, a))
    BY <2>1, SavesCommit
  <2>3. /\ ws.cards[a] = {} /\ \A b \in Aliases \ {a} : ws.cards[b] = Shown.cards[b]
        /\ \A g \in Groups : ws.members[g] = Shown.members[g] \ {a}
        /\ \A k \in Managed(file.conf) : ws.keys[k] = Dropped(Shown.keys[k], a)
    BY <1>1, CardDeletedIs
  <2> HIDE DEF ws
  <2>4. last'.reread = KeysWith(Shown, a)
    BY <2>2, CommitIs
  <2>5. ASSUME NEW k \in Managed(file.conf), InSight(file, k), Settled(file, k), InStep(k), k \notin KeysWith(Shown, a)
        PROVE  KeepsOffers(file, ws, seen, k)
    <3>1. \A q \in Drafts : LET r == Dropped(q, a)
                            IN  /\ r.groups = q.groups /\ r.naming = q.naming /\ r.prefer = q.prefer
                                /\ r.added = q.added \ {a} /\ r.excluded = q.excluded \ {a}
                                /\ \A b \in Aliases \ {a} : r.select[b] = q.select[b]
      BY DEF Dropped, Drafts
    <3>2. LET q == Shown.keys[k]
              r == ws.keys[k]
          IN  /\ r.groups = q.groups /\ r.naming = q.naming /\ r.prefer = q.prefer
              /\ r.added = q.added \ {a} /\ r.excluded = q.excluded \ {a}
              /\ \A b \in Aliases \ {a} : r.select[b] = q.select[b]
      BY <1>2, <2>3, <3>1
    <3>3. \A b \in Aliases \ {a} :
            /\ ws.cards[b] = Shown.cards[b]
            /\ ws.keys[k].select[b] = Shown.keys[k].select[b]
            /\ \A g \in Groups : b \in ws.members[g] <=> b \in Shown.members[g]
            /\ b \in ws.keys[k].added <=> b \in Shown.keys[k].added
            /\ b \in ws.keys[k].excluded <=> b \in Shown.keys[k].excluded
      BY <2>3, <3>2
    <3> QED BY <1>1, <2>2, <2>3, <2>5, <3>2, <3>3, OtherCards DEF InStep
  <2> QED BY <1>1, <2>2, <2>4, <2>5, CommitIs
<1>10. Next
  BY DEF vars
<1> QED BY <1>3, <1>4, <1>5, <1>6, <1>7, <1>8, <1>9, <1>10, StepIs

\* A save that reached its end changes the routes of no key that it did not have read back, of those
\* that the panel can express and that are in step.
LEMMA ChangesReread ==
  ASSUME WorkspaceInv, [Next]_vars, saves' # saves
  PROVE  ChangesAreReread
<1> SUFFICES ASSUME last'.whole, NEW k \in Managed(file.conf),
                    InSight(file, k), Settled(file, k), InStep(k),
                    last'.about = "group" => \A g \in Policy(file, k).groups : ~Locked(file, g),
                    k \notin last'.reread
             PROVE  Routes(file.conf, Policy(file, k)) = Routes(file'.conf, Policy(file', k))
  BY DEF ChangesAreReread
<1>1. file \in FileRecords /\ Loads(file)
  BY DEF WorkspaceInv, TypeOK
<1>2. PICK ws : \E on \in [Keys -> BOOLEAN] :
        /\ Sendable(file, ws) /\ Accepts(file, ws, on) /\ file' = NewFile(file, ws, on)
        /\ KeepsOffers(file, ws, on, k)
  BY UnreadKeysKeep
<1> QED BY <1>1, <1>2, KeptRoutes

\* What is sent as active: what the panel holds, but for the key that is switched.
LEMMA SentFlags ==
  ASSUME WorkspaceInv, [Next]_vars, saves' # saves
  PROVE  \E ws : \E on \in [Keys -> BOOLEAN] :
           /\ Sendable(file, ws) /\ file' = NewFile(file, ws, on)
           /\ last'.whole => seen' = Applied(Written(file), on)
           /\ \A k \in Managed(file.conf) : on[k] = seen[k] \/ (last'.about = "switch" /\ last'.key = k)
<1>1. seen \in [Keys -> BOOLEAN] /\ Managed(file.conf) \subseteq Keys
  BY FlagsTyped DEF Managed
<1>2. ASSUME NEW ws, Sendable(file, ws), NEW about, NEW k, NEW ids, Commit(ws, seen, about, k, ids)
      PROVE  \E v : \E on \in [Keys -> BOOLEAN] :
               /\ Sendable(file, v) /\ file' = NewFile(file, v, on)
               /\ last'.whole => seen' = Applied(Written(file), on)
               /\ \A j \in Managed(file.conf) : on[j] = seen[j] \/ (last'.about = "switch" /\ last'.key = j)
  BY <1>1, <1>2, CommitIs
<1>3. CASE PublishKey /\ editing \in Managed(file.conf) /\ draft \in Drafts /\ Plain(draft)
  <2> DEFINE ws == [Shown EXCEPT !.keys[editing] = draft]
  <2>1. Sendable(file, ws) /\ Commit(ws, seen, "key", editing, {editing})
    BY <1>3, SavesCommit
  <2> HIDE DEF ws
  <2> QED BY <1>2, <2>1
<1>4. CASE \E k \in Managed(file.conf) : SwitchKey(k)
  <2>1. PICK k \in Managed(file.conf) : SwitchKey(k)
    BY <1>4
  <2>2. Sendable(file, Shown) /\ Commit(Shown, Switched(k), "switch", k, {k})
    BY <2>1, SavesCommit
  <2>3. Switched(k) \in [Keys -> BOOLEAN] /\ \A j \in Keys \ {k} : Switched(k)[j] = seen[j]
    BY <1>1, FlagsTyped
  <2> QED BY <1>1, <2>2, <2>3, CommitIs
<1>5. CASE SaveAside
  BY <1>2, <1>5, SavesCommit
<1>6. CASE \E g \in Groups, as \in SUBSET Aliases : SaveGroup(g, as)
  <2>1. PICK g \in Groups, as \in SUBSET Aliases : SaveGroup(g, as)
    BY <1>6
  <2> DEFINE ws == GroupSaved(Shown, g, as)
  <2>2. Sendable(file, ws) /\ Commit(ws, seen, "group", None, KeysChanged(Shown, ws))
    BY <2>1, SavesCommit
  <2> HIDE DEF ws
  <2> QED BY <1>2, <2>2
<1>7. CASE \E g \in Groups : DeleteGroup(g)
  <2>1. PICK g \in Groups : DeleteGroup(g)
    BY <1>7
  <2> DEFINE ws == GroupDeleted(Shown, g)
  <2>2. Sendable(file, ws) /\ Commit(ws, seen, "group", None, LinkedKeys(Shown, g))
    BY <2>1, SavesCommit
  <2> HIDE DEF ws
  <2> QED BY <1>2, <2>2
<1>8. CASE \E a \in Aliases : \E ms \in SUBSET Offering(a) : SaveCard(a, ms)
  <2>1. PICK a \in Aliases : \E ms \in SUBSET Offering(a) : SaveCard(a, ms)
    BY <1>8
  <2>2. PICK ms \in SUBSET Offering(a) : SaveCard(a, ms)
    BY <2>1
  <2> DEFINE ws == CardSaved(Shown, a, ms)
  <2>3. Sendable(file, ws) /\ Commit(ws, seen, "card", None, KeysWith(Shown, a))
    BY <2>2, SavesCommit
  <2> HIDE DEF ws
  <2> QED BY <1>2, <2>3
<1>9. CASE \E a \in Aliases : DeleteCard(a)
  <2>1. PICK a \in Aliases : DeleteCard(a)
    BY <1>9
  <2> DEFINE ws == CardDeleted(Shown, a)
  <2>2. Sendable(file, ws) /\ Commit(ws, seen, "card", None, KeysWith(Shown, a))
    BY <2>1, SavesCommit
  <2> HIDE DEF ws
  <2> QED BY <1>2, <2>2
<1>10. Next
  BY DEF vars
<1> QED BY <1>3, <1>4, <1>5, <1>6, <1>7, <1>8, <1>9, <1>10, StepIs

\* A save puts a key out of step only where the panel did not know of a switch, where it ends early,
\* and where it switches an adopted key.
LEMMA StepIsLost ==
  ASSUME WorkspaceInv, [Next]_vars, saves' # saves
  PROVE  StepIsLostOnlySo
<1> SUFFICES ASSUME NEW k \in Managed(file.conf), InStep(k), active[k] = seen[k], last'.whole,
                    ~(last'.about = "switch" /\ last'.key = k /\ Policy(file, k).adopted)
             PROVE  seen'[k] = Policy(file', k).on
  BY DEF StepIsLostOnlySo, InStep
<1>1. file \in FileRecords /\ k \in Keys
  BY DEF WorkspaceInv, TypeOK, Managed
<1>2. PICK ws : \E on \in [Keys -> BOOLEAN] :
        /\ Sendable(file, ws) /\ file' = NewFile(file, ws, on)
        /\ last'.whole => seen' = Applied(Written(file), on)
        /\ \A j \in Managed(file.conf) : on[j] = seen[j] \/ (last'.about = "switch" /\ last'.key = j)
  BY SentFlags
<1>3. PICK on \in [Keys -> BOOLEAN] :
        /\ Sendable(file, ws) /\ file' = NewFile(file, ws, on)
        /\ last'.whole => seen' = Applied(Written(file), on)
        /\ \A j \in Managed(file.conf) : on[j] = seen[j] \/ (last'.about = "switch" /\ last'.key = j)
  BY <1>2
<1>4. Policy(file', k).on = on[k]
  <2>1. Policy(file', k) = NewPolicy(file, ws, on, k)
    BY <1>1, <1>3, NewFileTyped DEF Policy
  <2> QED BY <1>1, <1>3, <2>1, NewPolicyIs
<1>5. seen'[k] = IF k \in Written(file) THEN on[k] ELSE active[k]
  BY <1>1, <1>3 DEF Applied
<1>6. k \notin Written(file) => Policy(file, k).adopted
  BY DEF Written, Policy
<1> QED BY <1>3, <1>4, <1>5, <1>6

\* Every key a save changes is read back: once it reached its end in Bifrost, no group edit, card
\* edit or rename has changed the routes of a key the panel does not check, and it leaves no key in
\* the panel's hands switched otherwise than the file says, but where it must (property
\* ChangedKeysAreReread; keyImpact, the keys that each caller of commit has it verify, and the keys
\* putWorkspace writes).
THEOREM EveryChangeIsReread == Spec => ChangedKeysAreReread
<1>1. WorkspaceInv /\ [Next]_vars => [saves' # saves => ChangesAreReread /\ StepIsLostOnlySo]_vars
  <2> SUFFICES ASSUME WorkspaceInv, [Next]_vars, saves' # saves
               PROVE  ChangesAreReread /\ StepIsLostOnlySo
    OBVIOUS
  <2> QED BY ChangesReread, StepIsLost
<1> QED BY <1>1, WorkspaceInvariant, PTL DEF Spec, ChangedKeysAreReread
-----------------------------------------------------------------------------
(* A save takes nothing that was not announced.                             *)

\* The names of a card are those of the accesses exposed for it.
LEMMA NamesByCard ==
  ASSUME NEW f, NEW k, PolicyOk(f.conf, Policy(f, k)), NEW n
  PROVE  LET p == Policy(f, k)
             a == CardOf(n)
             ms == Exposed(f.conf, p) \cap Offering(a)
         IN  n \in OfferedNames(f, k) <=>
               /\ p.on /\ a \in Aliases
               /\ \/ p.naming # "model" /\ \E m \in ms \ Passthrough : n = AccessName(m)
                  \/ p.naming # "provider/model" /\ ms # {} /\ n = BareName(a)
<1> DEFINE p == Policy(f, k)
           a == CardOf(n)
           E == Exposed(f.conf, p)
<1>1. \A m \in E : Alias[m] \in Aliases /\ m \in Offering(Alias[m])
  BY ExposedIsOffered DEF Offers
<1>2. (\E m \in E \ Passthrough : n = AccessName(m))
        <=> (a \in Aliases /\ \E m \in (E \cap Offering(a)) \ Passthrough : n = AccessName(m))
  BY <1>1, NamesDiffer
<1>3. (\E b \in Aliases : E \cap Offering(b) # {} /\ n = BareName(b))
        <=> (a \in Aliases /\ E \cap Offering(a) # {} /\ n = BareName(a))
  BY NamesDiffer
<1>4. n \in OfferedNames(f, k) <=>
        /\ p.on
        /\ \/ p.naming # "model" /\ \E m \in E \ Passthrough : n = AccessName(m)
           \/ p.naming # "provider/model" /\ \E b \in Aliases : E \cap Offering(b) # {} /\ n = BareName(b)
  BY OfferedAre
<1> HIDE DEF p, a, E
<1>5. n \in OfferedNames(f, k) <=>
        /\ p.on /\ a \in Aliases
        /\ \/ p.naming # "model" /\ \E m \in (E \cap Offering(a)) \ Passthrough : n = AccessName(m)
           \/ p.naming # "provider/model" /\ E \cap Offering(a) # {} /\ n = BareName(a)
  BY <1>2, <1>3, <1>4
<1> QED BY <1>5 DEF p, a, E

\* A key the panel sees offers nothing but retained accesses of its cards.
LEMMA OfferedAreRetained ==
  ASSUME NEW f \in FileRecords, Loads(f), NEW k \in Managed(f.conf), InSight(f, k),
         NEW m \in Exposed(f.conf, Policy(f, k))
  PROVE  LET ws == Workspace(f)
             q == ws.keys[k]
         IN  Alias[m] \in CardsOf(ws, q) /\ m \in Retained(ws, q, Alias[m])
<1> DEFINE ws == Workspace(f)
           p == Policy(f, k)
           q == ws.keys[k]
           a == Alias[m]
<1>1. p \in Policies /\ PolicyOk(f.conf, p) /\ q = ShownPolicy(p)
  BY PolicyAt
<1>2. a \in Aliases /\ m \in Offers(f.conf, p, a) /\ m \in Chosen(f.conf, p, a)
  BY <1>1, ExposedIsOffered
<1>3. m \in Selected(f.conf, p) /\ m \in Models /\ Sendable(f, ws)
  BY <1>2, ShownIsSendable DEF Offers, Eligible, Offering
<1>4. m \in ws.cards[a]
  BY <1>2, <1>3, OffersAreOnCards
<1>5. a \notin q.excluded
  <2>1. q.excluded = Members2Cards(p.excluded) /\ q.excluded \in SUBSET Aliases
    BY <1>1, ShownPolicies DEF ShownPolicy, Drafts
  <2>2. a \in q.excluded => m \in Expand(ws, q.excluded)
    BY <1>3, <1>4, <2>1, TableOf
  <2>3. Expand(ws, q.excluded) = p.excluded
    BY <2>1 DEF InSight
  <2> QED BY <1>3, <2>2, <2>3 DEF Selected
<1>6. a \in Inherited(ws, q) \cup q.added
  <2>1. CASE m \in p.added
    BY <1>1, <2>1 DEF ShownPolicy, Members2Cards
  <2>2. CASE \E g \in p.groups : m \in Members(f.conf, g)
    <3>1. PICK g \in p.groups : m \in Members(f.conf, g)
      BY <2>2
    <3>2. g \in f.listed /\ g \in Groups /\ g \in q.groups
      <4>1. p.groups \subseteq f.listed
        BY DEF Loads, Policy
      <4>2. f.listed \subseteq Groups
        BY DEF FileRecords
      <4>3. q.groups = p.groups
        BY <1>1 DEF ShownPolicy
      <4> QED BY <4>1, <4>2, <4>3
    <3>3. m \in f.conf.groups[g].ids
      BY <3>1 DEF InSight, Members
    <3>4. a \in ws.members[g]
      BY <3>2, <3>3 DEF Workspace, GroupCards, Members2Cards
    <3> QED BY <3>2, <3>4 DEF Inherited
  <2> QED BY <1>3, <2>1, <2>2 DEF Selected
<1>7. q.select[a] # None => q.select[a] = p.select[a]
  BY <1>1, <1>2 DEF ShownPolicy, ShownSelector
<1>8. m \in Retained(ws, q, a)
  BY <1>2, <1>4, <1>7 DEF Retained, Chosen
<1> QED BY <1>5, <1>6, <1>8 DEF CardsOf

LEMMA OfferedArePlanned ==
  ASSUME NEW f \in FileRecords, Loads(f), NEW k \in Managed(f.conf), InSight(f, k)
  PROVE  OfferedNames(f, k) \subseteq PlannedNames(Workspace(f), Workspace(f).keys[k])
<1> DEFINE ws == Workspace(f)
           p == Policy(f, k)
           q == ws.keys[k]
<1>1. PolicyOk(f.conf, p) /\ q.naming = p.naming
  <2>1. PolicyOk(f.conf, p) /\ q = ShownPolicy(p)
    BY PolicyAt
  <2>2. ShownPolicy(p).naming = p.naming
    BY DEF ShownPolicy
  <2> QED BY <2>1, <2>2
<1>2. ASSUME NEW n \in OfferedNames(f, k) PROVE n \in PlannedNames(ws, q)
  <2>1. PICK m \in Exposed(f.conf, p) : /\ m \in Offering(CardOf(n))
                                        /\ \/ p.naming # "model" /\ n = AccessName(m)
                                           \/ p.naming # "provider/model" /\ n = BareName(CardOf(n))
    BY <1>1, <1>2, NamesByCard
  <2>2. Alias[m] = CardOf(n)
    BY <2>1 DEF Offering
  <2>3. Alias[m] \in CardsOf(ws, q) /\ m \in Retained(ws, q, Alias[m])
    BY OfferedAreRetained
  <2> HIDE DEF ws, p, q
  <2> QED BY <1>1, <2>1, <2>2, <2>3, PlannedAre
<1> QED BY <1>2

\* Taking nothing away from an alias that is served keeps its names.
LEMMA PlannedStay ==
  ASSUME NEW f \in FileRecords, Loads(f), NEW ws, Sendable(f, ws), NEW on \in [Keys -> BOOLEAN], Accepts(f, ws, on), NEW k \in Managed(f.conf),
         ws.cards = Workspace(f).cards, on[k] = Policy(f, k).on,
         \A g \in ws.keys[k].groups : ~(g \in f.listed /\ Locked(f, g)),
         NEW n \in OfferedNames(f, k), n \in PlannedNames(ws, ws.keys[k])
  PROVE  n \in OfferedNames(NewFile(f, ws, on), k)
<1> DEFINE new == NewFile(f, ws, on)
           c == f.conf
           d == new.conf
           p == Policy(f, k)
           q == NewPolicy(f, ws, on, k)
           r == ws.keys[k]
           a == CardOf(n)
<1>1. PolicyOk(c, p) /\ p \in Policies /\ k \in Keys
  BY PolicyAt
<1>2. Policy(new, k) = q /\ k \in Managed(d) /\ PolicyOk(d, q)
  <2>1. Loads(new) /\ new \in FileRecords /\ k \in Managed(d) /\ d.policies[k] = q
    BY NewFileTyped DEF Accepts
  <2> QED BY <2>1, PolicyAt DEF Policy
<1>3. /\ p.on /\ a \in Aliases
      /\ \/ \E m \in (Exposed(c, p) \cap Offering(a)) \ Passthrough : n = AccessName(m)
         \/ Exposed(c, p) \cap Offering(a) # {} /\ n = BareName(a)
  BY <1>1, NamesByCard
<1>4. q.on = p.on /\ q.naming = r.naming /\ q.select[a] = r.select[a]
  <2>1. on[k] = p.on
    OBVIOUS
  <2>2. q.on = on[k] /\ q.naming = r.naming /\ \A b \in Aliases : q.select[b] = r.select[b]
    BY NewPolicyIs
  <2> QED BY <1>3, <2>1, <2>2
<1>5. /\ a \in CardsOf(ws, r)
      /\ \/ r.naming # "provider/model" /\ n = BareName(a)
         \/ r.naming # "model" /\ \E m \in Retained(ws, r, a) : n = AccessName(m)
  <2>1. PICK b \in CardsOf(ws, r) : \/ r.naming # "provider/model" /\ n = BareName(b)
                                    \/ r.naming # "model" /\ \E m \in Retained(ws, r, b) : n = AccessName(m)
    BY PlannedAre
  <2>2. ASSUME NEW m \in Retained(ws, r, b), n = AccessName(m) PROVE b = a
    <3>1. CardsOf(ws, r) \subseteq Aliases
      BY DEF CardsOf, Inherited, Sendable, Workspaces, Drafts
    <3>2. Alias[m] = b
      BY <2>2, <3>1 DEF Retained, Sendable, Offering
    <3> QED BY <2>2, <3>2, NamesDiffer
  <2> QED BY <2>1, <2>2, NamesDiffer
<1>6. Exposed(c, p) \cap Offering(a) # {} /\ Offers(c, p, a) # {} /\ a \notin Withheld(c, p)
      /\ Exposed(c, p) \cap Offering(a) \subseteq Offers(c, p, a)
  <2>1. Exposed(c, p) \cap Offering(a) # {}
    BY <1>3
  <2>2. Offers(c, p, a) # {} /\ Exposed(c, p) \cap Offering(a) = Chosen(c, p, a)
    BY <1>1, <1>3, <2>1, ExposedByAlias
  <2>3. Chosen(c, p, a) \subseteq Offers(c, p, a) /\ (a \in Withheld(c, p) => Chosen(c, p, a) = {})
    BY <1>1, <1>3, <2>2, ChosenNarrows
  <2> QED BY <2>1, <2>2, <2>3
<1>7. Offers(c, p, a) \subseteq Offers(d, q, a)
  <2>1. ASSUME NEW m \in Offers(c, p, a) PROVE m \in Eligible(d, q)
    <3>1. m \in Models /\ Alias[m] = a /\ Within(p, m)
      BY DEF Offers, Eligible, Offering, Within
    <3>2. m \in ws.cards[a]
      BY <1>3, OffersAreOnCards
    <3>3. Takes(f, ws, r, m)
      BY <1>5, <3>1, WholeCards
    <3> QED BY <3>1, <3>2, <3>3, EligibleNext
  <2> QED BY <2>1 DEF Offers
<1>8. a \notin Withheld(d, q)
  <2>1. Ambiguities(d) \subseteq Ambiguities(c)
    BY DEF Accepts, NoNewAmbiguity
  <2>2. d.policies[k] = q /\ c.policies[k] = p
    BY <1>2 DEF Policy
  <2>3. a \in Withheld(d, q) => <<k, a>> \in Ambiguities(d)
    BY <1>2, <2>2 DEF Ambiguities
  <2>4. <<k, a>> \in Ambiguities(c) => a \in Withheld(c, p)
    BY <2>2 DEF Ambiguities
  <2> QED BY <1>6, <2>1, <2>3, <2>4
<1>9. Exposed(d, q) \cap Offering(a) = Chosen(d, q, a) /\ Chosen(d, q, a) # {}
  <2>1. Offers(d, q, a) # {}
    BY <1>6, <1>7
  <2> QED BY <1>2, <1>3, <1>8, <2>1, ExposedByAlias, ChosenNarrows
<1>10. \A m \in Exposed(c, p) \cap Offering(a) : m \in Retained(ws, r, a) => m \in Chosen(d, q, a)
  <2>1. ASSUME NEW m \in Offers(d, q, a), m \in Retained(ws, r, a) PROVE m \in Chosen(d, q, a)
    BY <1>4, <1>8, <2>1 DEF Chosen, Retained
  <2> QED BY <1>6, <1>7, <2>1
<1>11. /\ q.on
       /\ \/ q.naming # "model" /\ \E m \in (Exposed(d, q) \cap Offering(a)) \ Passthrough : n = AccessName(m)
          \/ q.naming # "provider/model" /\ Exposed(d, q) \cap Offering(a) # {} /\ n = BareName(a)
  BY <1>3, <1>4, <1>5, <1>9, <1>10, NamesDiffer
<1> QED BY <1>2, <1>3, <1>11, NamesByCard
\* An edit of groups moves the names of the cards that enter or leave the key, and no other.
LEMMA GroupChange ==
  ASSUME NEW f \in FileRecords, Loads(f), NEW ws, Sendable(f, ws), NEW on \in [Keys -> BOOLEAN], Accepts(f, ws, on), NEW k \in Managed(f.conf),
         Whole(f, k), ws.cards = Workspace(f).cards, on[k] = Policy(f, k).on,
         ws.keys[k].naming = Workspace(f).keys[k].naming, ws.keys[k].select = Workspace(f).keys[k].select,
         ws.keys[k].groups \subseteq Workspace(f).keys[k].groups,
         NEW n
  PROVE  LET old == CardsOf(Workspace(f), Workspace(f).keys[k])
             next == CardsOf(ws, ws.keys[k])
             before == OfferedNames(f, k)
             after == OfferedNames(NewFile(f, ws, on), k)
         IN  /\ n \in before \ after => CardOf(n) \in old \ next
             /\ n \in after \ before => CardOf(n) \in next \ old
<1> DEFINE new == NewFile(f, ws, on)
           c == f.conf
           d == new.conf
           p == Policy(f, k)
           s == NewPolicy(f, ws, on, k)
           q == Workspace(f).keys[k]
           r == ws.keys[k]
           a == CardOf(n)
           old == CardsOf(Workspace(f), q)
           next == CardsOf(ws, r)
<1>1. PolicyOk(c, p) /\ p \in Policies /\ k \in Keys /\ q = ShownPolicy(p)
  BY PolicyAt
<1>2. Policy(new, k) = s /\ k \in Managed(d) /\ PolicyOk(d, s)
  <2>1. Loads(new) /\ new \in FileRecords /\ k \in Managed(d) /\ d.policies[k] = s
    BY NewFileTyped DEF Accepts
  <2> QED BY <2>1, PolicyAt DEF Policy
<1>3. s.on = p.on /\ s.naming = p.naming /\ \A b \in Aliases : s.select[b] = ShownSelector(p.select[b])
  <2>1. on[k] = p.on
    OBVIOUS
  <2>2. s.on = on[k] /\ s.naming = r.naming /\ \A b \in Aliases : s.select[b] = r.select[b]
    BY NewPolicyIs
  <2>3. q.naming = p.naming /\ \A b \in Aliases : q.select[b] = ShownSelector(p.select[b])
    BY <1>1 DEF ShownPolicy
  <2> QED BY <2>1, <2>2, <2>3
<1>4. \A b \in Aliases : Offers(c, p, b) = IF b \in old THEN ws.cards[b] ELSE {}
  BY WholeOffers
<1>5. ASSUME NEW b \in Aliases PROVE Offers(d, s, b) = IF b \in next THEN ws.cards[b] ELSE {}
  <2>1. \A m : Takes(f, ws, r, m) <=> Alias[m] \in next
    <3>1. q.groups = p.groups
      BY <1>1 DEF ShownPolicy
    <3> QED BY <3>1, WholeCards DEF Whole
  <2>2. \A m : Within(p, m)
    BY DEF Whole, Within
  <2>3. \A m : m \in Eligible(d, s) <=> m \in Models /\ m \in ws.cards[Alias[m]] /\ Alias[m] \in next
    <3> HIDE DEF next
    <3> QED BY <2>1, <2>2, EligibleNext
  <2>4. ws.cards[b] \subseteq Offering(b)
    BY DEF Sendable
  <2> HIDE DEF next, d, s
  <2> QED BY <2>3, <2>4 DEF Offers, Offering
<1>6. n \in OfferedNames(f, k) => a \in Aliases /\ Offers(c, p, a) # {}
  BY <1>1, NamesByCard, ExposedByAlias
<1>7. n \in OfferedNames(new, k) => a \in Aliases /\ Offers(d, s, a) # {}
  BY <1>2, NamesByCard, ExposedByAlias
<1>8. ASSUME a \in Aliases, a \in old, a \in next
      PROVE  n \in OfferedNames(f, k) <=> n \in OfferedNames(new, k)
  <2>1. Offers(d, s, a) = Offers(c, p, a)
    BY <1>4, <1>5, <1>8
  <2>2. a \in Withheld(d, s) => a \in Withheld(c, p)
    <3>1. Ambiguities(d) \subseteq Ambiguities(c)
      BY DEF Accepts, NoNewAmbiguity
    <3>2. d.policies[k] = s /\ c.policies[k] = p
      BY <1>2 DEF Policy
    <3>3. a \in Withheld(d, s) => <<k, a>> \in Ambiguities(d)
      BY <1>2, <3>2 DEF Ambiguities
    <3>4. <<k, a>> \in Ambiguities(c) => a \in Withheld(c, p)
      BY <3>2 DEF Ambiguities
    <3> QED BY <3>1, <3>3, <3>4
  <2>3. Chosen(c, p, a) = Chosen(d, s, a)
    BY <1>3, <1>8, <2>1, <2>2, SameChoice
  <2>4. Exposed(c, p) \cap Offering(a) = IF Offers(c, p, a) # {} THEN Chosen(c, p, a) ELSE {}
    BY <1>1, <1>8, ExposedByAlias
  <2>5. Exposed(d, s) \cap Offering(a) = IF Offers(d, s, a) # {} THEN Chosen(d, s, a) ELSE {}
    BY <1>2, <1>8, ExposedByAlias
  <2>6. Exposed(c, p) \cap Offering(a) = Exposed(d, s) \cap Offering(a)
    BY <2>1, <2>3, <2>4, <2>5
  <2> DEFINE Named(o) == /\ p.on /\ a \in Aliases
                         /\ \/ p.naming # "model" /\ \E m \in o \ Passthrough : n = AccessName(m)
                            \/ p.naming # "provider/model" /\ o # {} /\ n = BareName(a)
  <2>7. n \in OfferedNames(f, k) <=> Named(Exposed(c, p) \cap Offering(a))
    BY <1>1, NamesByCard
  <2>8. n \in OfferedNames(new, k) <=> Named(Exposed(d, s) \cap Offering(a))
    BY <1>2, <1>3, NamesByCard
  <2> HIDE DEF Named
  <2> QED BY <2>6, <2>7, <2>8
<1> HIDE DEF new, c, d, p, s, q, r, a, old, next
<1>9. /\ n \in OfferedNames(f, k) \ OfferedNames(new, k) => a \in old \ next
      /\ n \in OfferedNames(new, k) \ OfferedNames(f, k) => a \in next \ old
  BY <1>4, <1>5, <1>6, <1>7, <1>8
<1> QED BY <1>9 DEF new, c, d, p, s, q, r, a, old, next

LEMMA WholeIsSettled ==
  ASSUME NEW f, NEW k, Whole(f, k)
  PROVE  InSight(f, k) /\ Settled(f, k)
BY DEF Whole, InSight, Settled, Locked
LEMMA OfferedAreNames ==
  ASSUME NEW f \in FileRecords, Loads(f), NEW k \in Managed(f.conf)
  PROVE  OfferedNames(f, k) \in SUBSET [bare: BOOLEAN, of: Aliases \cup Models] /\ OfferedNames(f, k) # None
<1>1. PolicyOk(f.conf, Policy(f, k))
  BY PolicyAt
<1>2. ASSUME NEW n \in OfferedNames(f, k) PROVE n \in [bare: BOOLEAN, of: Aliases \cup Models]
  <2>1. CASE n = BareName(CardOf(n))
    <3>1. CardOf(n) \in Aliases
      BY <1>1, NamesByCard
    <3>2. \A a \in Aliases : BareName(a) \in [bare: BOOLEAN, of: Aliases \cup Models]
      BY DEF BareName
    <3> QED BY <2>1, <3>1, <3>2
  <2>2. CASE \E m \in Offering(CardOf(n)) : n = AccessName(m)
    BY <2>2 DEF AccessName, Offering
  <2> QED BY <1>1, <2>1, <2>2, NamesByCard
<1> QED BY <1>2, WorkspaceAssumption

\* The composer's losses.
LEMMA PublishTells ==
  ASSUME WorkspaceInv, PublishKey, editing \in Managed(file.conf), draft \in Drafts, Plain(draft)
  PROVE  KeyLosses
<1> DEFINE ws == [Shown EXCEPT !.keys[editing] = draft]
<1>1. file \in FileRecords /\ Loads(file) /\ Shown = Workspace(file)
  BY DEF WorkspaceInv, TypeOK, Shown
<1>2. Sendable(file, ws) /\ Commit(ws, seen, "key", editing, {editing})
  BY SavesCommit
<1>3. /\ ws.cards = Shown.cards /\ ws.members = Shown.members
      /\ ws.keys[editing] = draft
  <2>1. Sendable(file, Shown) /\ editing \in Keys
    BY <1>1, ShownIsSendable, KeysOf
  <2> QED BY <2>1 DEF Sendable, Workspaces
<1> HIDE DEF ws
<1>4. Accepts(file, ws, seen) /\ file' = NewFile(file, ws, seen) /\ last'.key = editing
  BY <1>2, CommitIs
<1>5. PlannedNames(ws, draft) = PlannedNames(Shown, draft)
  <2>1. CardsOf(ws, draft) = CardsOf(Shown, draft) /\ \A a : Retained(ws, draft, a) = Retained(Shown, draft, a)
    BY <1>3 DEF CardsOf, Inherited, Retained
  <2> QED BY <2>1 DEF PlannedNames
<1>6. SUFFICES ASSUME InStep(editing), \A g \in draft.groups : ~Locked(file, g),
                      NEW readback \in {OfferedNames(file, editing)}
                                         \cup (IF InSight(file, editing) THEN {None} ELSE {}),
                      NEW n \in OfferedNames(file, editing) \ OfferedNames(file', editing)
               PROVE  n \in Removed(Shown, editing, draft, readback)
  BY <1>4 DEF KeyLosses
<1>7. n \notin PlannedNames(Shown, draft)
  <2>1. seen \in [Keys -> BOOLEAN] /\ seen[editing] = Policy(file, editing).on
    BY <1>6, FlagsTyped DEF InStep
  <2> HIDE DEF Shown
  <2> QED BY <1>1, <1>2, <1>3, <1>4, <1>5, <1>6, <2>1, PlannedStay
<1>8. n \in Baseline(Shown, editing, readback)
  <2>1. CASE readback = OfferedNames(file, editing)
    BY <1>1, <2>1, OfferedAreNames DEF Baseline
  <2>2. CASE InSight(file, editing) /\ readback = None
    BY <1>1, <2>2, OfferedArePlanned DEF Baseline
  <2> QED BY <2>1, <2>2
<1> QED BY <1>7, <1>8 DEF Removed

\* The impact of a group.
LEMMA GroupEditTells ==
  ASSUME WorkspaceInv, NEW ws, Sendable(file, ws), Accepts(file, ws, seen), file' = NewFile(file, ws, seen),
         ws.cards = Shown.cards,
         \A k \in Managed(file.conf) :
            /\ ws.keys[k].naming = Shown.keys[k].naming /\ ws.keys[k].select = Shown.keys[k].select
            /\ ws.keys[k].groups \subseteq Shown.keys[k].groups
            /\ CardsOf(ws, ws.keys[k]) = CardsOf(ws, Shown.keys[k])
            /\ \/ ws.keys[k] = Shown.keys[k]
               \/ \E g \in Shown.keys[k].groups : g \in Shown.listed /\ g \notin ws.listed
  PROVE  GroupLosses
<1> DEFINE edited == {g \in Shown.listed : g \notin ws.listed \/ Shown.members[g] # ws.members[g]}
           Told(k) == IF \E g \in edited : k \in LinkedKeys(Shown, g) THEN GroupImpact(Shown, ws, k)
                      ELSE [added |-> {}, removed |-> {}]
<1>1. file \in FileRecords /\ Loads(file) /\ Shown = Workspace(file)
  BY DEF WorkspaceInv, TypeOK, Shown
<1>0. seen \in [Keys -> BOOLEAN]
  BY FlagsTyped
<1>2. Workspace(file') = ws
  BY <1>0, <1>1, SavedIsShown DEF Accepts
<1>3. ASSUME NEW k \in Managed(file.conf), Whole(file, k), InStep(k), NEW n
      PROVE  /\ n \in OfferedNames(file, k) \ OfferedNames(file', k) => CardOf(n) \in Told(k).removed
             /\ n \in OfferedNames(file', k) \ OfferedNames(file, k) => CardOf(n) \in Told(k).added
  <2>1. CASE \E g \in edited : k \in LinkedKeys(Shown, g)
    <3>1. Told(k) = [added |-> CardsOf(ws, Shown.keys[k]) \ CardsOf(Shown, Shown.keys[k]),
                     removed |-> CardsOf(Shown, Shown.keys[k]) \ CardsOf(ws, Shown.keys[k])]
      BY <2>1 DEF GroupImpact
    <3> HIDE DEF Told
    <3>2. CardsOf(ws, ws.keys[k]) = CardsOf(ws, Shown.keys[k])
      OBVIOUS
    <3>3. /\ n \in OfferedNames(file, k) \ OfferedNames(file', k)
                => CardOf(n) \in CardsOf(Shown, Shown.keys[k]) \ CardsOf(ws, ws.keys[k])
          /\ n \in OfferedNames(file', k) \ OfferedNames(file, k)
                => CardOf(n) \in CardsOf(ws, ws.keys[k]) \ CardsOf(Shown, Shown.keys[k])
      BY <1>0, <1>1, <1>3, GroupChange DEF InStep
    <3> QED BY <3>1, <3>2, <3>3
  <2>2. CASE ~\E g \in edited : k \in LinkedKeys(Shown, g)
    <3>1. k \in Keys /\ Shown.keys[k] # None /\ Shown.keys[k].groups \subseteq Shown.listed
      <4>1. k \in Keys /\ Shown.keys[k] # None /\ Shown.keys[k] = ShownPolicy(Policy(file, k))
        BY <1>1, ShownIsSendable, KeysOf, PolicyAt
      <4>2. Policy(file, k).groups \subseteq file.listed /\ Shown.listed = file.listed
        BY <1>1 DEF Loads, Policy, Workspace
      <4> QED BY <4>1, <4>2 DEF ShownPolicy
    <3>2. \A g \in Shown.keys[k].groups : g \notin edited
      BY <2>2, <3>1 DEF LinkedKeys
    <3>3. \A g \in Shown.keys[k].groups : g \in ws.listed /\ ws.members[g] = Shown.members[g]
      BY <3>1, <3>2
    <3>4. ws.keys[k] = Shown.keys[k]
      BY <3>3
    <3>5. KeepsOffers(file, ws, seen, k)
      <4>1. InSight(file, k) /\ Settled(file, k)
        BY <1>3, WholeIsSettled
      <4> HIDE DEF Shown
      <4> QED BY <1>0, <1>1, <1>3, <3>3, <3>4, <4>1, UntouchedKeys DEF InStep
    <3>6. OfferedNames(file, k) = OfferedNames(file', k)
      <4>1. Routes(file.conf, Policy(file, k)) = Routes(file'.conf, Policy(file', k))
        BY <1>0, <1>1, <3>5, KeptRoutes
      <4> QED BY <4>1 DEF OfferedNames
    <3> QED BY <3>6
  <2> QED BY <2>1, <2>2
<1> QED BY <1>2, <1>3 DEF GroupLosses

LEMMA GroupSaveTells ==
  ASSUME WorkspaceInv, NEW g \in Groups, NEW as \in SUBSET Aliases, SaveGroup(g, as)
  PROVE  GroupLosses
<1> DEFINE ws == GroupSaved(Shown, g, as)
<1>1. file \in FileRecords /\ Shown = Workspace(file)
  BY DEF WorkspaceInv, TypeOK, Shown
<1>2. Sendable(file, ws) /\ Commit(ws, seen, "group", None, KeysChanged(Shown, ws))
  BY SavesCommit
<1>3. ws.cards = Shown.cards /\ ws.keys = Shown.keys
  <2>1. Sendable(file, Shown)
    BY <1>1, ShownIsSendable
  <2> QED BY <2>1 DEF Sendable, Workspaces, GroupSaved
<1> HIDE DEF ws
<1> QED BY <1>2, <1>3, GroupEditTells, CommitIs

LEMMA GroupDeleteTells ==
  ASSUME WorkspaceInv, NEW g \in Groups, DeleteGroup(g)
  PROVE  GroupLosses
<1> DEFINE ws == GroupDeleted(Shown, g)
<1>1. file \in FileRecords /\ Shown = Workspace(file)
  BY DEF WorkspaceInv, TypeOK, Shown
<1>2. Sendable(file, ws) /\ Commit(ws, seen, "group", None, LinkedKeys(Shown, g))
  BY SavesCommit
<1>3. /\ ws.cards = Shown.cards /\ ws.listed = Shown.listed \ {g}
      /\ ws.members[g] = {} /\ \A k \in Managed(file.conf) : ws.keys[k] = Ungrouped(Shown.keys[k], g)
  BY <1>1, GroupDeletedIs
<1>4. /\ \A k \in Managed(file.conf) : Shown.keys[k] \in Drafts
      /\ g \in Shown.listed
  BY <1>1, ShownIsSendable, KeysOf DEF DeleteGroup
<1> HIDE DEF ws
<1>5. ASSUME NEW q \in Drafts
      PROVE  LET r == Ungrouped(q, g)
             IN  /\ r.naming = q.naming /\ r.select = q.select /\ r.groups = q.groups \ {g}
                 /\ r.added = q.added /\ r.excluded = q.excluded
                 /\ r = q \/ g \in q.groups
  <2>1. g \notin q.groups => q.groups \ {g} = q.groups
    OBVIOUS
  <2> QED BY <2>1 DEF Ungrouped, Drafts
<1>6. ASSUME NEW q, NEW r, r.groups = q.groups \ {g}, r.added = q.added, r.excluded = q.excluded
      PROVE  CardsOf(ws, r) = CardsOf(ws, q)
  <2>1. Inherited(ws, r) = Inherited(ws, q)
    BY <1>3, <1>6 DEF Inherited
  <2> QED BY <1>6, <2>1 DEF CardsOf
<1>7. ASSUME NEW k \in Managed(file.conf)
      PROVE  /\ ws.keys[k].naming = Shown.keys[k].naming /\ ws.keys[k].select = Shown.keys[k].select
             /\ ws.keys[k].groups \subseteq Shown.keys[k].groups
             /\ CardsOf(ws, ws.keys[k]) = CardsOf(ws, Shown.keys[k])
             /\ \/ ws.keys[k] = Shown.keys[k]
                \/ \E h \in Shown.keys[k].groups : h \in Shown.listed /\ h \notin ws.listed
  <2> DEFINE q == Shown.keys[k]
             r == ws.keys[k]
  <2>1. q \in Drafts /\ r = Ungrouped(q, g)
    BY <1>3, <1>4
  <2> HIDE DEF q, r
  <2>2. /\ r.naming = q.naming /\ r.select = q.select /\ r.groups = q.groups \ {g}
        /\ r.added = q.added /\ r.excluded = q.excluded
        /\ r = q \/ g \in q.groups
    BY <1>5, <2>1
  <2>3. CardsOf(ws, r) = CardsOf(ws, q)
    BY <1>6, <2>2
  <2>4. /\ r.naming = q.naming /\ r.select = q.select /\ r.groups \subseteq q.groups
        /\ CardsOf(ws, r) = CardsOf(ws, q)
        /\ r = q \/ \E h \in q.groups : h \in Shown.listed /\ h \notin ws.listed
    BY <1>3, <1>4, <2>2, <2>3
  <2> QED BY <2>4 DEF q, r
<1>8. Accepts(file, ws, seen) /\ file' = NewFile(file, ws, seen)
  BY <1>2, CommitIs
<1> QED BY <1>2, <1>3, <1>7, <1>8, GroupEditTells

\* Publishing a key, or saving or deleting a group, takes no name from an application that was
\* not announced before (property LossesAreShown; keyBaseline and modelImpact).
THEOREM AnnouncedLosses == Spec => LossesAreShown
<1>1. WorkspaceInv /\ [Next]_vars => [saves' # saves => KeyLosses /\ GroupLosses]_vars
  <2> SUFFICES ASSUME WorkspaceInv, [Next]_vars, saves' # saves PROVE KeyLosses /\ GroupLosses
    OBVIOUS
  <2>1. CASE PublishKey /\ editing \in Managed(file.conf) /\ draft \in Drafts /\ Plain(draft)
    <3>1. KeyLosses
      BY <2>1, PublishTells
    <3>2. last'.about = "key"
      BY <2>1, SavesCommit, CommitIs
    <3> QED BY <3>1, <3>2 DEF GroupLosses
  <2>2. CASE \E k \in Managed(file.conf) : SwitchKey(k)
    <3>1. PICK k \in Managed(file.conf) : SwitchKey(k)
      BY <2>2
    <3>2. Commit(Shown, Switched(k), "switch", k, {k})
      BY <3>1, SavesCommit
    <3>3. last'.about = "switch"
      BY <3>2, CommitIs
    <3> QED BY <3>3 DEF KeyLosses, GroupLosses
  <2>3. CASE SaveAside
    <3>1. last'.about = "aside"
      BY <2>3, SavesCommit, CommitIs
    <3> QED BY <3>1 DEF KeyLosses, GroupLosses
  <2>4. CASE \E g \in Groups, as \in SUBSET Aliases : SaveGroup(g, as)
    <3>1. PICK g \in Groups, as \in SUBSET Aliases : SaveGroup(g, as)
      BY <2>4
    <3>2. GroupLosses
      BY <3>1, GroupSaveTells
    <3>3. LET ws == GroupSaved(Shown, g, as)
          IN  Commit(ws, seen, "group", None, KeysChanged(Shown, ws))
      BY <3>1, SavesCommit
    <3>4. last'.about = "group"
      BY <3>3, CommitIs
    <3> QED BY <3>2, <3>4 DEF KeyLosses
  <2>5. CASE \E g \in Groups : DeleteGroup(g)
    <3>1. GroupLosses
      BY <2>5, GroupDeleteTells
    <3>2. last'.about = "group"
      BY <2>5, SavesCommit, CommitIs
    <3> QED BY <3>1, <3>2 DEF KeyLosses
  <2>6. CASE \E a \in Aliases : \E ms \in SUBSET Offering(a) : SaveCard(a, ms)
    <3>1. last'.about = "card"
      BY <2>6, SavesCommit, CommitIs
    <3> QED BY <3>1 DEF KeyLosses, GroupLosses
  <2>7. CASE \E a \in Aliases : DeleteCard(a)
    <3>1. last'.about = "card"
      BY <2>7, SavesCommit, CommitIs
    <3> QED BY <3>1 DEF KeyLosses, GroupLosses
  <2>8. Next
    BY DEF vars
  <2> QED BY <2>1, <2>2, <2>3, <2>4, <2>5, <2>6, <2>7, <2>8, StepIs
<1> QED BY <1>1, WorkspaceInvariant, PTL DEF Spec, LossesAreShown
=============================================================================
