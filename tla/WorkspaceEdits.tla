---------------------------- MODULE WorkspaceEdits ----------------------------
(***************************************************************************)
(* The panel's view of a registry file and what its saves do to it.        *)
(*                                                                         *)
(* The panel never sees the file: the server projects it (workspace) onto  *)
(* model cards, groups of cards and one policy per key, the panel edits    *)
(* that projection (ui/src/domain/registry.ts, KeyComposer.state.ts) and   *)
(* sends all of it back, and the server rebuilds the whole file from it    *)
(* (putWorkspace).  Every save therefore rewrites every record, also those *)
(* nobody edited, and the panel computes by itself, from the projection,   *)
(* the names a key will offer and the keys a save changes.                 *)
(*                                                                         *)
(* Whether a key is active is shown from Bifrost, not from the file, and   *)
(* comes back into the file with every save; the save then writes it to    *)
(* Bifrost, but for the adopted keys, which are never written.             *)
(*                                                                         *)
(* One panel at a time: two panels and a moving server are PanelSession's. *)
(***************************************************************************)
EXTENDS RegistryConfig

CONSTANTS
    Files,      \* registry files the panel may be opened on
    Discovered, \* accesses Bifrost lists
    MaxTouches, \* bound on the changes made to one draft
    MaxSaves,   \* bound on saves
    Actives,    \* the keys Bifrost may have active at first
    MaxTrouble  \* bound on the keys switched in Bifrost itself and the saves that end early

\* table: the accesses in the file; listed: the groups in it.
FileRecords ==
    {f \in [table: SUBSET Models, listed: SUBSET Groups, conf: Configs] : f.conf.live \subseteq f.table}

\* A key's policy as the panel edits it: whole models, and access selections.
Drafts ==
    [groups: SUBSET Groups, added: SUBSET Aliases, excluded: SUBSET Aliases, naming: Namings,
     select: [Aliases -> Selectors \cup {None}], prefer: [Aliases -> Models \cup {None}]]

ASSUME WorkspaceAssumption ==
    /\ Files \subseteq FileRecords
    /\ Discovered \subseteq Models
    /\ MaxTouches \in Nat /\ MaxSaves \in Nat
    /\ Actives \subseteq [Keys -> BOOLEAN] /\ MaxTrouble \in Nat
    /\ None \notin Drafts
    /\ \A names \in SUBSET [bare: BOOLEAN, of: Aliases \cup Models] : names # None

VARIABLES
    file,     \* the registry file
    active,   \* whether each key is active in Bifrost
    seen,     \* the same, as the workspace the panel holds has it
    editing,  \* the key whose composer is open, or None
    draft,    \* its draft
    touches,
    last,     \* the last save: what it was about, the keys read back after it, and whether it
              \* reached its end in Bifrost
    saves, trouble

flags == <<active, seen>>
vars == <<file, flags, editing, draft, touches, last, saves, trouble>>

-----------------------------------------------------------------------------
(* What the server shows (workspace).                                      *)

\* A selector that names nothing is not shown.
ShownSelector(sel) == IF sel # None /\ sel.added \cup sel.excluded = {} THEN None ELSE sel

Members2Cards(ids) == {Alias[m] : m \in ids}

Cards(f) == [a \in Aliases |-> Offering(a) \cap f.table]

GroupCards(f, g) == Members2Cards(f.conf.groups[g].ids)

\* workspaceGroup: a group the panel cannot express is shown, but not editable.
Locked(f, g) ==
    LET grp == f.conf.groups[g]
    IN  \/ grp.sources # {}
        \/ grp.exclude # {}
        \/ \E a \in GroupCards(f, g) : ~(Cards(f)[a] \subseteq grp.ids)

ShownPolicy(p) ==
    [groups |-> p.groups, added |-> Members2Cards(p.added),
     excluded |-> Members2Cards(p.excluded), naming |-> p.naming,
     select |-> [a \in Aliases |-> ShownSelector(p.select[a])], prefer |-> p.prefer]

\* What it tells of the file; the active keys are Bifrost's (seen).
Workspace(f) ==
    [cards |-> Cards(f),
     listed |-> f.listed,
     members |-> [g \in Groups |-> IF g \in f.listed THEN GroupCards(f, g) ELSE {}],
     keys |-> [k \in Keys |-> IF k \in Managed(f.conf) THEN ShownPolicy(f.conf.policies[k]) ELSE None]]

-----------------------------------------------------------------------------
(* What the panel computes on it (ui/src/domain/registry.ts).              *)

Inherited(ws, q) == UNION {ws.members[g] : g \in q.groups}

CardsOf(ws, q) == (Inherited(ws, q) \cup q.added) \ q.excluded

\* Mutant of Retained: a selection keeps what it added.
RetainedAdded(ws, q, a) ==
    IF q.select[a] = None THEN ws.cards[a] ELSE ws.cards[a] \cap q.select[a].added

Retained(ws, q, a) ==
    IF q.select[a] = None THEN ws.cards[a] ELSE ws.cards[a] \ q.select[a].excluded

BareName(a) == [bare |-> TRUE, of |-> a]
AccessName(m) == [bare |-> FALSE, of |-> m]

\* exposed: the names the key offers according to the panel.
PlannedNames(ws, q) ==
    UNION {(IF q.naming = "provider/model" THEN {} ELSE {BareName(a)})
             \cup (IF q.naming = "model" THEN {} ELSE {AccessName(m) : m \in Retained(ws, q, a)}) :
             a \in {b \in CardsOf(ws, q) : Retained(ws, q, b) # {}}}

\* aliasStatus: how the preview says a common name is routed.
Badge(ws, q, a) ==
    IF q.prefer[a] # None THEN "pinned" ELSE IF Several(Retained(ws, q, a)) THEN "shared" ELSE "mono"

\* keyBaseline: what the composer compares the draft with, given the last verified readback or
\* None; a readback is trusted first, and its names under a kept provider are Bifrost's.
Baseline(ws, k, readback) ==
    IF readback # None THEN readback ELSE PlannedNames(ws, ws.keys[k])

\* Mutant of Removed: only the common names are compared.
RemovedModels(ws, k, q, readback) ==
    {n \in Baseline(ws, k, readback) : n.bare /\ n.of \notin CardsOf(ws, q)}

\* The names the composer announces as lost.
Removed(ws, k, q, readback) == Baseline(ws, k, readback) \ PlannedNames(ws, q)

\* toggleModel for each card of flip: a selected one that comes from a group is excluded,
\* one added here is dropped; an excluded one is restored, any other is added.
ToggleModels(ws, q, flip) ==
    LET chosen == CardsOf(ws, q)
        inherited == Inherited(ws, q)
    IN  [q EXCEPT !.added = (@ \ flip) \cup (flip \ (chosen \cup inherited)),
                  !.excluded = (@ \ flip) \cup (flip \cap chosen \cap inherited)]

\* toggleAccess: keeping every access again takes the selector away.
ToggleAccess(ws, q, a, m) ==
    LET sel == IF q.select[a] = None THEN [added |-> {}, excluded |-> {}] ELSE q.select[a]
        next == [added |-> sel.added \ {m},
                 excluded |-> IF m \in sel.excluded THEN sel.excluded \ {m}
                                                    ELSE sel.excluded \cup {m}]
    IN  [q EXCEPT !.select[a] = IF ws.cards[a] \cap next.excluded = {} THEN None ELSE next]

\* Mutant of KeysChanged: only the keys that lose a name are read back.
KeysLosing(ws, next) ==
    {k \in Keys : ws.keys[k] # None /\
        ~(PlannedNames(ws, ws.keys[k]) \subseteq PlannedNames(next, ws.keys[k]))}

\* keyImpact, for the keys Registry manages.
KeysChanged(ws, next) ==
    {k \in Keys : ws.keys[k] # None /\ PlannedNames(ws, ws.keys[k]) # PlannedNames(next, ws.keys[k])}

\* modelImpact: what the group editor tells about each key before it saves.
GroupImpact(ws, next, k) ==
    [added |-> CardsOf(next, ws.keys[k]) \ CardsOf(ws, ws.keys[k]),
     removed |-> CardsOf(ws, ws.keys[k]) \ CardsOf(next, ws.keys[k])]

\* The keys it tells it of.
LinkedKeys(ws, g) == {k \in Keys : ws.keys[k] # None /\ g \in ws.keys[k].groups}

KeysWith(ws, a) == {k \in Keys : ws.keys[k] # None /\ a \in CardsOf(ws, ws.keys[k])}

-----------------------------------------------------------------------------
(* What the server makes of a workspace (putWorkspace).                    *)

Table(ws) == UNION {ws.cards[a] : a \in Aliases}

Expand(ws, as) == UNION {ws.cards[a] : a \in as}

NewGroup(f, ws, g) ==
    IF g \in f.listed /\ Locked(f, g) THEN f.conf.groups[g]
    ELSE [ids |-> Expand(ws, ws.members[g]), sources |-> {}, exclude |-> {}]

\* on: the keys the workspace sent has as active.
NewPolicy(f, ws, on, k) ==
    [f.conf.policies[k] EXCEPT
        !.on = on[k], !.naming = ws.keys[k].naming, !.groups = ws.keys[k].groups,
        !.added = Expand(ws, ws.keys[k].added), !.excluded = Expand(ws, ws.keys[k].excluded),
        !.select = [a \in Aliases |-> ShownSelector(ws.keys[k].select[a])],
        !.prefer = ws.keys[k].prefer]

\* Every access on a card is switched on; keys Registry does not manage are skipped.
NewFile(f, ws, on) ==
    [table |-> Table(ws),
     listed |-> ws.listed,
     conf |-> [live |-> Table(ws),
               groups |-> [g \in Groups |-> NewGroup(f, ws, g)],
               policies |-> [k \in Keys |-> IF k \in Managed(f.conf) THEN NewPolicy(f, ws, on, k) ELSE None]]]

\* References to models, accesses and groups the workspace does not have.
Resolves(ws) ==
    LET shown == {a \in Aliases : ws.cards[a] # {}}
    IN  /\ \A g \in ws.listed : ws.members[g] \subseteq shown
        /\ \A k \in Keys : ws.keys[k] # None =>
             /\ ws.keys[k].groups \subseteq ws.listed
             /\ ws.keys[k].added \cup ws.keys[k].excluded \subseteq shown
             /\ \A a \in Aliases : ws.keys[k].select[a] # None =>
                  /\ a \in shown
                  /\ ws.keys[k].select[a].added \cup ws.keys[k].select[a].excluded \subseteq ws.cards[a]

\* A locked group comes back as it was shown, and keeps the accesses it names.
LocksKept(f, ws) ==
    \A g \in f.listed \cap ws.listed : Locked(f, g) =>
        /\ ws.members[g] = GroupCards(f, g)
        /\ (f.conf.groups[g].ids \cup f.conf.groups[g].exclude) \cap f.table \subseteq Table(ws)

\* validateAdoptedWorkspaceModels: an adopted key's own routes stay on their cards.
AdoptedKept(f, ws) ==
    \A k \in Managed(f.conf) : f.conf.policies[k].ceiling \subseteq Table(ws)

\* Compile on a file whose groups and accesses come and go.
Loads(f) ==
    /\ \A g \in f.listed :
         /\ GroupOk(f.conf.groups[g])
         /\ f.conf.groups[g].ids \cup f.conf.groups[g].exclude \subseteq f.table
    /\ \A k \in Managed(f.conf) :
         /\ PolicyOk(f.conf, f.conf.policies[k])
         /\ f.conf.policies[k].groups \subseteq f.listed
         /\ f.conf.policies[k].added \cup f.conf.policies[k].excluded \subseteq f.table
         /\ \A a \in Aliases : f.conf.policies[k].select[a] # None =>
              f.conf.policies[k].select[a].added \cup f.conf.policies[k].select[a].excluded
                  \subseteq f.table

Accepts(f, ws, on) ==
    LET new == NewFile(f, ws, on)
    IN  /\ Table(ws) \subseteq Discovered
        /\ Resolves(ws)
        /\ LocksKept(f, ws)
        /\ AdoptedKept(f, ws)
        /\ Loads(new)
        /\ NoNewAmbiguity(new.conf, f.conf)

\* The keys a save then writes to Bifrost: an adopted key's own permissions are never touched.
Written(f) == {k \in Managed(f.conf) : ~f.conf.policies[k].adopted}

\* applyVirtualKey, of the keys of W.
Applied(W, on) == [k \in Keys |-> IF k \in W THEN on[k] ELSE active[k]]

-----------------------------------------------------------------------------
\* What a save is about.
Saves == {"nothing", "key", "switch", "aside", "group", "card"}

Nothing == [about |-> "nothing", key |-> None, reread |-> {}, whole |-> TRUE]

Init ==
    /\ file \in {f \in Files : Loads(f)}
    /\ active \in Actives /\ seen = active
    /\ editing = None /\ draft = None
    /\ touches = 0
    /\ last = Nothing
    /\ saves = 0 /\ trouble = 0

Shown == Workspace(file)

\* commit: send the workspace; once it is saved and written to Bifrost, read back the keys of ids.
\* A save that fails on the way (aliases, native_apply) has written some keys and reads back none;
\* the panel loads the workspace again either way.
Commit(ws, on, about, k, ids) ==
    /\ saves < MaxSaves
    /\ Accepts(file, ws, on)
    /\ file' = NewFile(file, ws, on)
    /\ \E W \in SUBSET Written(file), whole \in BOOLEAN :
         /\ IF whole THEN W = Written(file) /\ UNCHANGED trouble
            ELSE trouble < MaxTrouble /\ trouble' = trouble + 1
         /\ active' = Applied(W, on)
         /\ last' = [about |-> about, key |-> k, reread |-> IF whole THEN ids ELSE {}, whole |-> whole]
    /\ seen' = active'
    /\ saves' = saves + 1
    /\ UNCHANGED <<editing, draft, touches>>

\* The panel reads the workspace again, by itself or on demand.
Reload ==
    /\ seen # active
    /\ seen' = active
    /\ UNCHANGED <<file, active, editing, draft, touches, last, saves, trouble>>

\* A key is switched in Bifrost itself.
SwitchInBifrost(k) ==
    /\ trouble < MaxTrouble
    /\ active' = [active EXCEPT ![k] = ~@]
    /\ trouble' = trouble + 1
    /\ UNCHANGED <<file, seen, editing, draft, touches, last, saves>>

\* Edit selection: the composer opens on a copy of the key's policy.
OpenKey(k) ==
    /\ editing = None
    /\ Shown.keys[k] # None
    /\ editing' = k /\ draft' = Shown.keys[k]
    /\ UNCHANGED <<file, flags, touches, last, saves, trouble>>

Touch(q) ==
    /\ editing # None
    /\ touches < MaxTouches
    /\ q # draft
    /\ draft' = q
    /\ touches' = touches + 1
    /\ UNCHANGED <<file, flags, editing, last, saves, trouble>>

ComposeGroup(g) ==
    /\ editing # None
    /\ g \in Shown.listed
    /\ Touch([draft EXCEPT !.groups = IF g \in @ THEN @ \ {g} ELSE @ \cup {g}])

\* One card, or all the cards of a bulk selection that are not as it wants them.
ComposeModels(flip) ==
    LET ws == Shown
    IN  /\ editing # None
        /\ flip \subseteq {a \in Aliases : ws.cards[a] # {}}
        /\ Touch(ToggleModels(ws, draft, flip))

\* The checkboxes show for a selected card with several accesses, or with a selector.
ComposeAccess(a, m) ==
    LET ws == Shown
    IN  /\ editing # None
        /\ a \in CardsOf(ws, draft) /\ m \in ws.cards[a]
        /\ Several(ws.cards[a]) \/ draft.select[a] # None
        /\ Touch(ToggleAccess(ws, draft, a, m))

ComposeNaming(n) ==
    /\ editing # None
    /\ Touch([draft EXCEPT !.naming = n])

CloseKey ==
    /\ editing # None
    /\ editing' = None /\ draft' = None
    /\ touches' = 0
    /\ UNCHANGED <<file, flags, last, saves, trouble>>

DiscardKey ==
    /\ editing # None
    /\ Shown.keys[editing] \notin {None, draft}
    /\ draft' = Shown.keys[editing]
    /\ UNCHANGED <<file, flags, editing, touches, last, saves, trouble>>

\* Publish and Discard are offered on a draft that differs from the saved policy.
CanPublish == editing # None /\ Shown.keys[editing] \notin {None, draft}

PublishKey ==
    LET ws == Shown
    IN  /\ CanPublish
        /\ Commit([ws EXCEPT !.keys[editing] = draft], seen, "key", editing, {editing})

\* Disable or Enable, as the panel was told the key is.
SwitchKey(k) ==
    LET ws == Shown
    IN  /\ ws.keys[k] # None
        /\ Commit(ws, [seen EXCEPT ![k] = ~@], "switch", k, {k})

\* A rename, or a documentary reference: the file is rebuilt all the same.
SaveAside == Commit(Shown, seen, "aside", None, {})

\* The members of a locked group cannot be edited; those of another are cards.
MemberChoices(f, ws, g) ==
    IF g \in ws.listed /\ Locked(f, g) THEN {ws.members[g]}
    ELSE SUBSET {a \in Aliases : ws.cards[a] # {}}

GroupReady(f, ws, g, as) == as # {} \/ (g \in ws.listed /\ Locked(f, g))

GroupSaved(ws, g, as) == [ws EXCEPT !.listed = @ \cup {g}, !.members[g] = as]

SaveGroup(g, as) ==
    LET ws == Shown
        next == GroupSaved(ws, g, as)
    IN  /\ as \in MemberChoices(file, ws, g)
        /\ GroupReady(file, ws, g, as)
        /\ Commit(next, seen, "group", None, KeysChanged(ws, next))

Ungrouped(q, g) == [q EXCEPT !.groups = @ \ {g}]

GroupDeleted(ws, g) ==
    [ws EXCEPT !.listed = @ \ {g}, !.members[g] = {},
               !.keys = [k \in Keys |-> IF @[k] = None THEN None ELSE Ungrouped(@[k], g)]]

DeleteGroup(g) ==
    LET ws == Shown
    IN  /\ g \in ws.listed
        /\ Commit(GroupDeleted(ws, g), seen, "group", None, LinkedKeys(ws, g))

\* Mutant of Unlinked: a selector that names a removed access goes away whole.
UnlinkedWhole(sel, gone) ==
    IF sel = None \/ (sel.added \cup sel.excluded) \cap gone = {} THEN sel ELSE None

\* updateModel: a removed access leaves the selectors; never discard a surviving exclusion.
Unlinked(sel, gone) ==
    IF sel = None \/ (sel.added \cup sel.excluded) \cap gone = {} THEN sel
    ELSE ShownSelector([added |-> sel.added \ gone, excluded |-> sel.excluded \ gone])

Relinked(q, a, gone) == [q EXCEPT !.select[a] = Unlinked(@, gone)]

CardSaved(ws, a, ms) ==
    LET gone == ws.cards[a] \ ms
    IN  [ws EXCEPT !.cards[a] = ms,
                   !.keys = [k \in Keys |-> IF @[k] = None THEN None ELSE Relinked(@[k], a, gone)]]

SaveCard(a, ms) ==
    LET ws == Shown
    IN  /\ ms # {} /\ ms \subseteq Discovered
        /\ Commit(CardSaved(ws, a, ms), seen, "card", None, KeysWith(ws, a))

Dropped(q, a) == [q EXCEPT !.added = @ \ {a}, !.excluded = @ \ {a}, !.select[a] = None]

CardDeleted(ws, a) ==
    [ws EXCEPT !.cards[a] = {},
               !.members = [g \in Groups |-> @[g] \ {a}],
               !.keys = [k \in Keys |-> IF @[k] = None THEN None ELSE Dropped(@[k], a)]]

DeleteCard(a) ==
    LET ws == Shown
    IN  /\ ws.cards[a] # {}
        /\ \A g \in ws.listed : ws.members[g] # {a}
        /\ Commit(CardDeleted(ws, a), seen, "card", None, KeysWith(ws, a))

Next ==
    \/ \E k \in Keys : OpenKey(k) \/ SwitchKey(k) \/ SwitchInBifrost(k)
    \/ \E g \in Groups : ComposeGroup(g) \/ DeleteGroup(g)
    \/ \E flip \in SUBSET Aliases : ComposeModels(flip)
    \/ \E a \in Aliases : DeleteCard(a) \/ (\E m \in Offering(a) : ComposeAccess(a, m))
    \/ \E n \in Namings : ComposeNaming(n)
    \/ CloseKey \/ DiscardKey \/ PublishKey \/ SaveAside \/ Reload
    \/ \E g \in Groups, as \in SUBSET Aliases : SaveGroup(g, as)
    \/ \E a \in Aliases : \E ms \in SUBSET Offering(a) : SaveCard(a, ms)

Spec == Init /\ [][Next]_vars

-----------------------------------------------------------------------------
(* Safety.                                                                 *)

TypeOK ==
    /\ file \in FileRecords
    /\ active \in [Keys -> BOOLEAN] /\ seen \in [Keys -> BOOLEAN]
    /\ editing \in Keys \cup {None}
    /\ draft \in Drafts \cup {None}
    /\ touches \in Nat /\ saves \in Nat /\ trouble \in Nat
    /\ last \in [about: Saves, key: Keys \cup {None}, reread: SUBSET Keys, whole: BOOLEAN]

Policy(f, k) == f.conf.policies[k]

\* What the file says the key offers.
OfferedNames(f, k) ==
    {IF r.bare THEN BareName(r.alias) ELSE AccessName(CHOOSE m \in r.via : TRUE) :
        r \in Routes(f.conf, Policy(f, k))}

WithheldNames(f, k) ==
    {BareName(a) : a \in Withheld(f.conf, Policy(f, k))}
      \cup {AccessName(m) : m \in {n \in Models : Alias[n] \in Withheld(f.conf, Policy(f, k))}}

\* Files the panel can express: no access is switched off, policies name whole cards and
\* no filter or permission of Bifrost narrows the key.
Whole(f, k) ==
    LET p == Policy(f, k)
    IN  /\ f.conf.live = f.table
        /\ p.sources = {} /\ ~p.adopted
        /\ Expand(Workspace(f), Members2Cards(p.added)) = p.added
        /\ Expand(Workspace(f), Members2Cards(p.excluded)) = p.excluded
        /\ \A g \in p.groups : ~Locked(f, g)

\* The panel's preview and the compiler agree: for a key the panel can express, the names it
\* plans are the ones the file serves and the ones it withholds until an access is chosen
\* (exposed and retainedAccesses against Compile), save the direct names of a routing rule's
\* accesses, which the compiler never offers; and a common name is shared between accesses
\* exactly when its badge says so (aliasStatus).
PreviewMatchesRoutes ==
    \A k \in Managed(file.conf) :
        Whole(file, k) /\ Policy(file, k).on =>
            /\ OfferedNames(file, k) =
                 PlannedNames(Shown, Shown.keys[k])
                     \ (WithheldNames(file, k) \cup {AccessName(m) : m \in Passthrough})
            /\ \A r \in Bare(file.conf, Policy(file, k)) :
                 (Badge(Shown, Shown.keys[k], r.alias) = "shared") <=> Several(r.via)

\* Nothing hides from the panel what the key has: no filter of a group, and no exclusion of one
\* access of a card, which it takes for the card's.
InSight(f, k) ==
    /\ Expand(Workspace(f), Members2Cards(Policy(f, k).excluded)) = Policy(f, k).excluded
    /\ \A g \in Policy(f, k).groups : f.conf.groups[g].sources = {}

\* A save gives the key nothing by the way: it switches no access on, and widens no addition
\* to a card beyond what an adopted key had.
Settled(f, k) ==
    LET p == Policy(f, k)
        within(S) == IF p.adopted THEN S \cap p.ceiling ELSE S
    IN  /\ f.conf.live = f.table
        /\ within(Expand(Workspace(f), Members2Cards(p.added))) = within(p.added)

\* The panel was told that the key is on exactly when the file has it on.
InStep(k) == seen[k] = Policy(file, k).on

\* Keys the panel cannot express are left out, and for an edit of a group those of a locked one: a
\* model that one group stops to give is still shown whole for a key that a partial group gives
\* some of its accesses.  Left out too is a key out of step, which any save switches to what
\* Bifrost said of it.
ChangesAreReread ==
    last'.whole => \A k \in Managed(file.conf) :
        /\ InSight(file, k) /\ Settled(file, k) /\ InStep(k)
        /\ last'.about = "group" => \A g \in Policy(file, k).groups : ~Locked(file, g)
        /\ Routes(file.conf, Policy(file, k)) # Routes(file'.conf, Policy(file', k))
        => k \in last'.reread

\* What a save puts out of step: a key switched in Bifrost that the panel did not know of, one that
\* a save ending early did not write, and an adopted key that the panel switches, which Bifrost is
\* never told.
StepIsLostOnlySo ==
    \A k \in Managed(file.conf) : InStep(k) /\ ~InStep(k)' =>
        \/ active[k] # seen[k]
        \/ ~last'.whole
        \/ last'.about = "switch" /\ last'.key = k /\ Policy(file, k).adopted

\* Every key a save changes is read back: once it reached its end in Bifrost, a group edit, a card
\* edit or a rename has not changed the routes of a key the panel does not check; and it leaves no
\* key in the panel's hands switched otherwise than the file says, but where it must.
ChangedKeysAreReread == [][saves' # saves => ChangesAreReread /\ StepIsLostOnlySo]_vars

CardOf(n) == IF n.bare THEN n.of ELSE Alias[n.of]

Excluded(f, k, m) ==
    \/ m \in Policy(f, k).excluded
    \/ Policy(f, k).select[Alias[m]] # None /\ m \in Policy(f, k).select[Alias[m]].excluded

\* What an operator chose stands until the key is published again: a published draft comes back
\* as it was sent, so the composer is clean and the next publish starts from it; and an access
\* excluded for a key stays out of it, whatever is edited around it ("never discard a surviving
\* exclusion").
ChoicesSurvive ==
    [][saves' # saves =>
         /\ last'.about = "key" => Workspace(file').keys[editing] = draft
         /\ \A k \in Managed(file.conf), m \in file.table \cap file'.table :
               Excluded(file, k, m) /\ ~(last'.about = "key" /\ last'.key = k)
                 => m \notin Allowlist(file'.conf, Policy(file', k))]_vars

\* The composer's losses, whether the draft was compared with the last readback or, for a key the
\* panel sees, with the last plan.
KeyLosses ==
    last'.about = "key" /\ InStep(editing) /\ (\A g \in draft.groups : ~Locked(file, g)) =>
        LET k == last'.key
        IN  \A readback \in {OfferedNames(file, k)} \cup (IF InSight(file, k) THEN {None} ELSE {}) :
              OfferedNames(file, k) \ OfferedNames(file', k) \subseteq Removed(Shown, k, draft, readback)

\* The impact of a group (modelImpact): a key it is shown for loses and gains names of the
\* models listed for it and of no other, and any other key keeps what it has.
GroupLosses ==
    last'.about = "group" =>
      LET next == Workspace(file')
          edited == {g \in Shown.listed : g \notin next.listed \/ Shown.members[g] # next.members[g]}
      IN  \A k \in Managed(file.conf) :
        Whole(file, k) /\ InStep(k) =>
          LET told == IF \E g \in edited : k \in LinkedKeys(Shown, g) THEN GroupImpact(Shown, next, k)
                      ELSE [added |-> {}, removed |-> {}]
              before == OfferedNames(file, k)
              after == OfferedNames(file', k)
          IN  /\ \A n \in before \ after : CardOf(n) \in told.removed
              /\ \A n \in after \ before : CardOf(n) \in told.added

\* Publishing a key, or saving or deleting a group, takes no name from an application that was
\* not announced before.  Left out are a group the panel cannot express, which shows as whole models
\* and gives some accesses, and a key out of step, which any save switches.
LossesAreShown == [][saves' # saves => KeyLosses /\ GroupLosses]_vars

\* The guide and the panel: a disabled key is rejected, until it is enabled again.
DisabledStaysOff ==
    [][saves' # saves => \A k \in Managed(file.conf) :
         ~Policy(file, k).on /\ ~(last'.about = "switch" /\ last'.key = k) => ~Policy(file', k).on]_vars

\* The guide: a selected model includes all its linked accesses by default.
SelectedMeansAll ==
    last.about = "key" =>
        \A a \in CardsOf(Shown, Shown.keys[last.key]) :
            Shown.keys[last.key].select[a] = None /\ Policy(file, last.key).on /\ Whole(file, last.key)
              => Shown.cards[a] \subseteq Allowlist(file.conf, Policy(file, last.key))
=============================================================================
