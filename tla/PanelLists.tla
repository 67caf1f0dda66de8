------------------------------- MODULE PanelLists -------------------------------
(***************************************************************************)
(* The lists of the panel and what an operator sees of them: the models    *)
(* page in its two scopes (ModelLibraryPage.tsx, ReferenceCatalogBrowser   *)
(* .tsx, ModelBrowser.tsx), the keys and the groups (KeyLibrary.tsx,       *)
(* GroupLibrary.tsx), the model list of the key and group editors, and the *)
(* captured gateway (GatewayInventory.tsx).                                *)
(*                                                                         *)
(* One page is on screen at a time: leaving it forgets its own state,      *)
(* while the session memory (lib/session-state.ts), the overrides of the   *)
(* view and the preferences stay until the sign-out.  The data may be      *)
(* replaced under any page.  What is typed in a search is one of a few     *)
(* terms, and Says is the set of terms a row's text contains.              *)
(***************************************************************************)
EXTENDS FiniteSets, Naturals

CONSTANTS
    Keys, Models, Groups, Providers, Clients,
    Aggregators,  \* providers whose models the To add list folds into shelves
    By,           \* the providers of each model
    Named,        \* sort -> model -> its place in that order
    Terms,        \* what may be typed in a search
    Says,         \* the terms found in the text of a key, group, model or provider
    Unsaved,      \* the accesses each key lacks a card for
    Worlds,       \* what the server may have
    Starts,       \* and what it starts with
    Inventory,    \* the captured gateway: its providers with their keys and aliases,
    Rules,        \* and its routing rules
    KeyOptions,   \* the options of the key filters and order that are tried
    Choices,      \* how a list may be viewed: field -> its options
    Preferred,    \* the preferences the browser remembers
    PageSize,     \* tiles of a section shown before "Show more" (60)
    Sessions,     \* what a session may use: its pages, and "reload", "others", "views", "order",
                  \* "key filters", "model filters", "secret", "card"
    All, None     \* a filter that is off; nothing

Scopes == {"registry", "to-add"}
Shelves == {"managed", "adopt", "empty"}
Sorts == {"default", "name", "recent"}
Fields == DOMAIN Choices

ASSUME ListsAssumption ==
    /\ Aggregators \subseteq Providers /\ PageSize \in Nat \ {0}
    /\ \A m \in Models : By[m] \in (SUBSET Providers) \ {{}}
    /\ "logo" \in Fields /\ \A f \in Fields : Preferred[f] \in Choices[f]
    /\ DOMAIN Preferred = Fields
    /\ Named \in [Sorts -> [Models -> Nat]]
    /\ None \notin Keys /\ IsFiniteSet(Keys) /\ IsFiniteSet(Models)
    /\ Starts \subseteq Worlds
    /\ \A w \in Worlds :
          /\ w.keys \subseteq Keys /\ w.groups \subseteq Groups
          /\ w.cards \cup w.found \subseteq Models /\ w.cards \cap w.found = {}
          /\ \A g \in w.groups : w.has[g] \subseteq Models
          /\ \A k \in w.keys : w.policy[k] \in [groups : SUBSET Groups, added : SUBSET Models, excluded : SUBSET Models]
    \* A key of the gateway has an id of its own, whichever provider it is for.
    /\ \A p, q \in Inventory : \A k \in p.keys, h \in q.keys : k.id = h.id => p.name = q.name

VARIABLES
    session,  \* the pages and controls this session uses
    world,    \* the data the panel has: keys, groups, cards and models to add
    page,     \* the page on screen
    at,       \* the key on the key page, or None
    scope,    \* the scope of the models page
    memory,   \* the session memory
    shown,    \* the filters, sort, grouping and view of the list on screen
    folds,    \* shelves opened and closed, and how far sections were extended
    prefs,    \* the preferences of the view
    views,    \* its overrides on the keys and the groups
    draft,    \* the selection being edited
    wanted,   \* what the operator last set for each list
    picked,   \* the last option of a view chosen, while nothing else replaced it
    shut      \* the shelves closed on the page, each while browsing or while searching

listVars == <<memory, shown, folds, wanted, shut>>
viewVars == <<prefs, views, picked>>
vars == <<session, world, page, at, scope, listVars, viewVars, draft>>

-----------------------------------------------------------------------------
(* The keys and their selections.                                          *)

Members(p, w) == ((UNION {w.has[g] : g \in w.groups \cap p.groups}) \cup p.added) \ p.excluded

Inherited(m, p, w) == \E g \in w.groups \cap p.groups : m \in w.has[g]

\* toggleModel, of each of the models given.
Flipped(p, flips, w) ==
    LET on == Members(p, w)
    IN [p EXCEPT
          !.added = (@ \ flips) \cup {m \in flips \ on : ~Inherited(m, p, w)},
          !.excluded = (@ \ flips) \cup {m \in flips \cap on : Inherited(m, p, w)}]

\* toggleVisibleModels: of the models the list is made of, those not as asked.
FlipTo(p, listed, target, w) ==
    Flipped(p, {m \in listed : (m \in Members(p, w)) # (m \in target)}, w)

ShelfOf(k, w) ==
    IF w.readiness[k] \in {"managed", "empty"} THEN w.readiness[k] ELSE "adopt"

\* filterKeys, its order aside.
MatchingKeys(f, w) ==
    { k \in w.keys :
        /\ f.search # None => \/ f.search \in Says[k] \/ f.search = w.client[k]
                              \/ \E x \in w.policy[k].groups \cup Members(w.policy[k], w) : f.search \in Says[x]
        /\ f.group \in {All} \cup w.policy[k].groups
        /\ f.client \in {All, w.client[k]}
        /\ f.readiness \in {All, w.readiness[k]} }

FilteringKeys(f) == f.search # None \/ {f.group, f.client, f.readiness} # {All}

MatchingGroups(search, w) ==
    { g \in w.groups :
        search # None =>
            \/ search \in Says[g]
            \/ \E m \in w.has[g] : search \in Says[m] \cup UNION {Says[p] : p \in By[m]}
            \/ \E k \in w.keys : w.readiness[k] = "managed" /\ g \in w.policy[k].groups /\ search \in Says[k] }

-----------------------------------------------------------------------------
(* The models and their sections.  The filters on the creator, the task,   *)
(* the modalities and the capabilities work as the one on the provider.    *)

NoFilters == [search |-> None, provider |-> None, routes |-> {}]

MatchingModels(listed, f) ==
    { m \in listed :
        /\ f.search # None => f.search \in Says[m] \cup UNION {Says[p] : p \in By[m]}
        /\ f.provider # None => f.provider \in By[m]
        /\ f.routes # {} => \E p \in By[m] : <<p, m>> \in f.routes }

Listed(s, w) == IF s = "registry" THEN w.cards ELSE w.found

\* A model is in a section of each of its providers; only To add folds aggregators.
SectionsOf(models, groupBy, s) ==
    IF groupBy = "none" THEN {[key |-> None, shelf |-> FALSE, items |-> models]}
    ELSE { [key |-> p, shelf |-> s = "to-add" /\ p \in Aggregators, items |-> {m \in models : p \in By[m]}] :
             p \in UNION {By[m] : m \in models} }

\* A "recent" order chosen among the cards does not follow to a list that has none.
SortInForce(s) == IF shown.sort = "recent" /\ s = "to-add" THEN "name" ELSE shown.sort

First(items, n, sort) ==
    { m \in items : Cardinality({x \in items : Named[sort][x] < Named[sort][m]}) < n }

Chosen(id, default) == IF id \in DOMAIN folds.open THEN folds.open[id] ELSE default

FilteringModels(f) == f # NoFilters

SectionOpen(sec) ==
    sec.shelf => Chosen(<<FilteringModels(shown.filters), shown.groupBy, sec.key>>, FilteringModels(shown.filters))

Extent(sec) ==
    IF <<shown.groupBy, sec.key>> \in DOMAIN folds.more THEN folds.more[<<shown.groupBy, sec.key>>] ELSE PageSize

VisibleIn(sec, s) ==
    IF SectionOpen(sec) THEN First(sec.items, Extent(sec), SortInForce(s)) ELSE {}

\* Mutant of ShelfId: closed while browsing, closed while searching.
ShelfIdAlways(shelf) == <<FALSE, shelf>>

\* The keys page: a key shelf is open by the operator's choice, else while searching, and
\* "To adopt" always.
ShelfId(shelf) == <<FilteringKeys(shown), shelf>>

ShelfOpen(shelf) ==
    shelf = "managed" \/ Chosen(ShelfId(shelf), FilteringKeys(shown) \/ shelf = "adopt")

KeysOnScreen == {k \in MatchingKeys(shown, world) : ShelfOpen(ShelfOf(k, world))}
Collapsed == {k \in MatchingKeys(shown, world) : ~ShelfOpen(ShelfOf(k, world))}

\* shownCount: every model once; where it is not on screen, in a closed shelf or behind "Show more".
CountLine(sections, s) ==
    LET all == UNION {sec.items : sec \in sections}
        seen == UNION {VisibleIn(sec, s) : sec \in sections}
        shelved == (UNION {sec.items : sec \in {x \in sections : ~SectionOpen(x)}}) \ seen
    IN [total |-> Cardinality(all), shown |-> Cardinality(seen), shelved |-> Cardinality(shelved),
        paged |-> Cardinality(all) - Cardinality(seen) - Cardinality(shelved)]

TileSections == SectionsOf(MatchingModels(Listed(scope, world), shown.filters), shown.groupBy, scope)

-----------------------------------------------------------------------------
(* What the session remembers of the lists.                                *)

Fresh ==
    [keys |-> [search |-> None, group |-> All, client |-> All, readiness |-> All, sort |-> "readiness"],
     groups |-> [search |-> None],
     filters |-> [s \in Scopes |-> NoFilters],
     groupBy |-> "provider", sort |-> "name", view |-> <<>>]

\* useSessionState: what a list has on screen is read from the memory when it is mounted.
Mounted(p, s, mem) ==
    CASE p = "models" -> [filters |-> mem.filters[s], groupBy |-> mem.groupBy,
                          sort |-> mem.sort, view |-> mem.view]
      [] p = "keys" -> mem.keys
      [] p = "groups" -> mem.groups
      [] p = "edit" -> [filters |-> NoFilters, groupBy |-> "provider", sort |-> "default",
                        view |-> <<>>, only |-> FALSE]
      [] p = "gateway" -> [section |-> "providers", search |-> None, layout |-> "tree"]
      [] OTHER -> <<>>

NoFolds == [open |-> <<>>, more |-> <<>>]

ListsInit ==
    /\ session \in Sessions /\ world \in Starts
    /\ page = "start" /\ at = None /\ scope = "registry"
    /\ memory = Fresh /\ shown = <<>> /\ folds = NoFolds
    /\ prefs = Preferred /\ views = [l \in {"keys", "groups"} |-> <<>>]
    /\ draft = None /\ wanted = Fresh /\ picked = None /\ shut = {}

\* navigate: the page left is unmounted.
Shows(p, s, mem) ==
    /\ page' = p
    /\ shown' = Mounted(p, s, mem)
    /\ folds' = NoFolds /\ shut' = {}

Go(p) ==
    /\ p \in session /\ page # p
    /\ Shows(p, scope, memory)
    /\ at' = None /\ draft' = None
    /\ UNCHANGED <<session, world, scope, memory, wanted, viewVars>>

\* The data are loaded again, or replaced by the answer of a save; a key page whose key is
\* gone shows the keys.
DataArrive(w) ==
    /\ "reload" \in session /\ w # world /\ world' = w
    /\ IF at \in w.keys \cup {None} THEN UNCHANGED <<page, at, draft, listVars>>
       ELSE /\ Shows("keys", scope, memory) /\ at' = None /\ draft' = None
            /\ UNCHANGED <<memory, wanted>>
    /\ UNCHANGED <<session, scope, viewVars>>

\* signOut; requestSignOut asks for a confirmation first where there is a draft.
SignOut ==
    /\ page # "start"
    /\ page' = "start" /\ at' = None /\ scope' = "registry"
    /\ memory' = Fresh /\ wanted' = Fresh /\ shown' = <<>> /\ folds' = NoFolds /\ shut' = {}
    /\ views' = [l \in {"keys", "groups"} |-> <<>>] /\ picked' = None
    /\ draft' = None
    /\ UNCHANGED <<session, world, prefs>>

-----------------------------------------------------------------------------
(* The keys page.                                                          *)

KeySearch(v) ==
    /\ "key filters" \in session /\ page = "keys" /\ v \in Terms \cup {None}
    /\ shown' = [shown EXCEPT !.search = v]
    /\ memory' = [memory EXCEPT !.keys = shown'] /\ wanted' = [wanted EXCEPT !.keys.search = v]
    /\ UNCHANGED <<session, world, page, at, scope, folds, shut, viewVars, draft>>

\* The group, client and adoption state to filter on, and the order; a filter may still name
\* a group that has since been deleted.
KeyFilter(field, v) ==
    /\ "key filters" \in session /\ page = "keys" /\ v \in KeyOptions[field]
    /\ field = "group" => v \in {All} \cup world.groups
    /\ field = "client" => v \in {All} \cup ({world.client[k] : k \in world.keys} \ {None})
    /\ shown' = [shown EXCEPT ![field] = v]
    /\ memory' = [memory EXCEPT !.keys = shown'] /\ wanted' = [wanted EXCEPT !.keys[field] = v]
    /\ UNCHANGED <<session, world, page, at, scope, folds, shut, viewVars, draft>>

\* { ...f, [x]: v }.
With(f, x, v) == [y \in DOMAIN f \cup {x} |-> IF y = x THEN v ELSE f[y]]

Folded(id, mode, shelf, open) ==
    /\ folds' = [folds EXCEPT !.open = With(@, id, ~open)]
    /\ shut' = IF open THEN shut \cup {<<mode, shelf>>} ELSE shut \ {<<mode, shelf>>}

FoldKeys(shelf) ==
    /\ page = "keys" /\ shelf # "managed"
    /\ \E k \in MatchingKeys(shown, world) : ShelfOf(k, world) = shelf
    /\ Folded(ShelfId(shelf), FilteringKeys(shown), shelf, ShelfOpen(shelf))
    /\ UNCHANGED <<session, world, page, at, scope, memory, shown, wanted, viewVars, draft>>

OpenKey(k) ==
    /\ page = "keys" /\ "key" \in session /\ k \in KeysOnScreen
    /\ at' = k /\ Shows("key", scope, memory)
    /\ UNCHANGED <<session, world, scope, memory, wanted, viewVars, draft>>

\* KeyAdoptionDialog: the models a key lacks, shown in the To add list.
AddMissing ==
    /\ page = "key" /\ "models" \in session /\ Unsaved[at] # {}
    /\ memory' = [memory EXCEPT !.filters["to-add"] = [NoFilters EXCEPT !.routes = Unsaved[at]]]
    /\ wanted' = [wanted EXCEPT !.filters["to-add"] = [NoFilters EXCEPT !.routes = Unsaved[at]]]
    /\ scope' = "to-add" /\ at' = None /\ Shows("models", "to-add", memory')
    /\ UNCHANGED <<session, world, viewVars, draft>>

-----------------------------------------------------------------------------
(* The groups, and the models page.                                        *)

GroupSearch(v) ==
    /\ "key filters" \in session /\ page = "groups" /\ world.groups # {} /\ v \in Terms \cup {None}
    /\ shown' = [search |-> v]
    /\ memory' = [memory EXCEPT !.groups = shown'] /\ wanted' = [wanted EXCEPT !.groups.search = v]
    /\ UNCHANGED <<session, world, page, at, scope, folds, shut, viewVars, draft>>

\* Mutant of Switch: the list stays mounted, with the filters of the other scope.
SwitchInPlace(s) ==
    /\ page = "models" /\ scope # s
    /\ scope' = s
    /\ UNCHANGED <<session, world, page, at, memory, shown, folds, shut, wanted, viewVars, draft>>

\* The switch between the cards and the models to add: the list has its scope for a key.
Switch(s) ==
    /\ page = "models" /\ scope # s
    /\ scope' = s
    /\ shown' = Mounted("models", s, memory)
    /\ UNCHANGED <<session, world, page, at, memory, folds, shut, wanted, viewVars, draft>>

\* A list that keeps its state: the models page, and no other that has these controls.
Remember(what) ==
    IF page = "models" THEN memory' = what ELSE UNCHANGED memory

Filtered(f) ==
    /\ shown' = [shown EXCEPT !.filters = f]
    /\ Remember([memory EXCEPT !.filters[scope] = f])
    /\ UNCHANGED <<session, world, page, at, scope, folds, shut, viewVars, draft>>

Wants(f) == IF page = "models" THEN wanted' = [wanted EXCEPT !.filters[scope] = f] ELSE UNCHANGED wanted

ModelSearch(v) ==
    /\ "model filters" \in session /\ page \in {"models", "edit"} /\ v \in Terms \cup {None}
    /\ Filtered([shown.filters EXCEPT !.search = v])
    /\ Wants([wanted.filters[scope] EXCEPT !.search = v])

\* The models of the list a filter is chosen for: those of the page, or of the editor.
ListOnScreen ==
    IF page = "models" THEN Listed(scope, world)
    ELSE IF shown.only THEN world.cards \cap Members(draft, world) ELSE world.cards

OfferedProviders == UNION {By[m] : m \in ListOnScreen}

ProviderFilter(p) ==
    /\ "model filters" \in session /\ page \in {"models", "edit"} /\ p \in {None} \cup OfferedProviders
    /\ Filtered([shown.filters EXCEPT !.provider = p])
    /\ Wants([wanted.filters[scope] EXCEPT !.provider = p])

\* The chips of the active filters, and "Clear all".
ClearFilters(fields) ==
    /\ page \in {"models", "edit"} /\ shown.filters # NoFilters
    /\ fields = DOMAIN NoFilters \/ \E f \in DOMAIN NoFilters : fields = {f} /\ shown.filters[f] # NoFilters[f]
    /\ Filtered([f \in DOMAIN NoFilters |-> IF f \in fields THEN NoFilters[f] ELSE shown.filters[f]])
    /\ Wants([f \in DOMAIN NoFilters |-> IF f \in fields THEN NoFilters[f] ELSE wanted.filters[scope][f]])

GroupModels(v) ==
    /\ "order" \in session /\ page \in {"models", "edit"} /\ v \in {"none", "provider"}
    /\ shown' = [shown EXCEPT !.groupBy = v]
    /\ Remember([memory EXCEPT !.groupBy = v])
    /\ IF page = "models" THEN wanted' = [wanted EXCEPT !.groupBy = v] ELSE UNCHANGED wanted
    /\ UNCHANGED <<session, world, page, at, scope, folds, shut, viewVars, draft>>

SortModels(v) ==
    /\ "order" \in session /\ page \in {"models", "edit"}
    /\ v \in {"default", "name"} \cup (IF page = "models" /\ scope = "registry" THEN {"recent"} ELSE {})
    /\ shown' = [shown EXCEPT !.sort = v]
    /\ Remember([memory EXCEPT !.sort = v])
    /\ IF page = "models" THEN wanted' = [wanted EXCEPT !.sort = v] ELSE UNCHANGED wanted
    /\ UNCHANGED <<session, world, page, at, scope, folds, shut, viewVars, draft>>

FoldSection(sec) ==
    /\ page = "models" /\ sec \in TileSections /\ sec.shelf
    /\ Folded(<<FilteringModels(shown.filters), shown.groupBy, sec.key>>,
              FilteringModels(shown.filters), sec.key, SectionOpen(sec))
    /\ UNCHANGED <<session, world, page, at, scope, memory, shown, wanted, viewVars, draft>>

ShowMore(sec) ==
    /\ page = "models" /\ sec \in TileSections /\ SectionOpen(sec)
    /\ VisibleIn(sec, scope) # sec.items
    /\ folds' = [folds EXCEPT
         !.more = With(@, <<shown.groupBy, sec.key>>, Cardinality(VisibleIn(sec, scope)) + PageSize)]
    /\ UNCHANGED <<session, world, page, at, scope, memory, shown, shut, wanted, viewVars, draft>>

-----------------------------------------------------------------------------
(* How a list is viewed.                                                   *)

ViewOf(override, base) == [f \in Fields |-> IF f \in DOMAIN override THEN override[f] ELSE base[f]]

\* updateViewOverride.
Overridden(base, previous, next) ==
    LET changed == {f \in Fields : next[f] # ViewOf(previous, base)[f]}
    IN [f \in (DOMAIN previous \cup changed) \ {f \in changed : next[f] = base[f]} |->
          IF f \in changed THEN next[f] ELSE previous[f]]

OverrideOf(l) == IF l = "models" THEN memory.view ELSE views[l]

\* A control of the view.  On the models page the logo is a preference of the whole panel;
\* other lists do not offer it.
ChooseView(f, v) ==
    /\ "views" \in session /\ page \in {"models", "keys", "groups", "edit"} /\ v \in Choices[f]
    /\ f = "logo" => page = "models"
    /\ page = "groups" => world.groups # {}
    /\ LET override == IF page \in {"keys", "groups"} THEN views[page] ELSE shown.view
           seen == ViewOf(override, prefs)
           next == Overridden(prefs, override, [seen EXCEPT ![f] = IF f = "logo" THEN seen[f] ELSE v])
       IN /\ seen[f] # v
          /\ prefs' = IF f = "logo" THEN [prefs EXCEPT !.logo = v] ELSE prefs
          /\ IF page \in {"keys", "groups"}
             THEN /\ views' = [views EXCEPT ![page] = next]
                  /\ UNCHANGED <<memory, shown>>
             ELSE /\ shown' = [shown EXCEPT !.view = next]
                  /\ Remember([memory EXCEPT !.view = next])
                  /\ UNCHANGED views
    /\ picked' = IF page = "edit" THEN None ELSE [list |-> page, field |-> f, value |-> v]
    /\ UNCHANGED <<session, world, page, at, scope, folds, shut, wanted, draft>>

ResetView ==
    /\ page \in {"models", "keys", "groups"} /\ OverrideOf(page) # <<>>
    /\ page = "groups" => world.groups # {}
    /\ IF page = "models" THEN /\ shown' = [shown EXCEPT !.view = <<>>]
                               /\ memory' = [memory EXCEPT !.view = <<>>]
                               /\ UNCHANGED views
       ELSE views' = [views EXCEPT ![page] = <<>>] /\ UNCHANGED <<memory, shown>>
    /\ picked' = None
    /\ UNCHANGED <<session, world, page, at, scope, folds, shut, wanted, prefs, draft>>

\* The display section of the settings: the preferences themselves.
SetPreference(f, v) ==
    /\ page = "settings" /\ v \in Choices[f] /\ prefs[f] # v
    /\ prefs' = [prefs EXCEPT ![f] = v]
    /\ picked' = None
    /\ UNCHANGED <<session, world, page, at, scope, listVars, views, draft>>

-----------------------------------------------------------------------------
(* The captured gateway, searched in one section at a time and laid out as *)
(* a tree or as a table.  A provider has a name and keys; a key its id,    *)
(* the names of its aliases, and whether those could be read.              *)

ProviderKeys == UNION { {[provider |-> p.name, key |-> k] : k \in p.keys} : p \in Inventory }

Aliases == UNION { {[provider |-> h.provider, key |-> h.key.id, name |-> n] : n \in h.key.aliases} : h \in ProviderKeys }

Unreadable == {[provider |-> h.provider, key |-> h.key.id] : h \in {x \in ProviderKeys : ~x.key.readable}}

Matches(row, search) == search # None => \E f \in DOMAIN row : search \in Says[row[f]]

FoundAliases == {a \in Aliases : Matches(a, shown.search)}
FoundUnreadable == {u \in Unreadable : Matches(u, shown.search)}

\* The tree: the providers with something found, and under each its keys, told apart by their
\* ids alone.
AliasTree ==
    { [provider |-> p.name,
       keys |-> { [key |-> k.id,
                   names |-> {a.name : a \in {x \in FoundAliases : x.provider = p.name /\ x.key = k.id}},
                   flagged |-> \E u \in FoundUnreadable : u.key = k.id] :
                     k \in {x \in p.keys : \/ \E a \in FoundAliases : a.provider = p.name /\ a.key = x.id
                                          \/ \E u \in FoundUnreadable : u.key = x.id} }] :
        p \in {x \in Inventory : \/ \E a \in FoundAliases : a.provider = x.name
                                 \/ \E u \in FoundUnreadable : u.provider = x.name} }

\* The cards of the providers, each with those of its keys that are found themselves.
KeyMatches(k) == shown.search # None => shown.search \in Says[k.id] \cup UNION {Says[n] : n \in k.aliases}

ProviderCards ==
    { [provider |-> p.name, keys |-> {k.id : k \in {x \in p.keys : KeyMatches(x)}}] :
        p \in {x \in Inventory : (shown.search # None => shown.search \in Says[x.name]) \/ \E k \in x.keys : KeyMatches(k)} }

FoundRules == {r \in Rules : shown.search # None => shown.search \in Says[r]}
FoundCaptured == {k \in Keys : shown.search # None => shown.search \in Says[k]}

OnGateway ==
    CASE shown.section = "providers" -> ProviderCards
      [] shown.section = "aliases" -> IF shown.layout = "tree" THEN AliasTree ELSE FoundAliases \cup FoundUnreadable
      [] shown.section = "routing" -> FoundRules
      [] OTHER -> FoundCaptured

\* "No ... match this search": the tables of aliases and rules do not say it.
SaysNothingFound ==
    IF shown.section \in {"aliases", "routing"} /\ shown.layout # "tree" THEN FALSE
    ELSE CASE shown.section = "aliases" -> FoundAliases = {} /\ FoundUnreadable = {}
           [] OTHER -> OnGateway = {}

GatewaySection(sec) ==
    /\ page = "gateway" /\ sec \in {"providers", "aliases", "routing", "keys"}
    /\ shown' = [section |-> sec, search |-> None, layout |-> "tree"]
    /\ UNCHANGED <<session, world, page, at, scope, memory, folds, wanted, shut, viewVars, draft>>

GatewaySearch(v) ==
    /\ page = "gateway" /\ v \in Terms \cup {None}
    /\ shown' = [shown EXCEPT !.search = v]
    /\ UNCHANGED <<session, world, page, at, scope, memory, folds, wanted, shut, viewVars, draft>>

GatewayLayout(v) ==
    /\ page = "gateway" /\ shown.section \in {"aliases", "routing"} /\ v \in {"tree", "details"}
    /\ shown' = [shown EXCEPT !.layout = v]
    /\ UNCHANGED <<session, world, page, at, scope, memory, folds, wanted, shut, viewVars, draft>>

-----------------------------------------------------------------------------
(* The selection of a key or a group, edited in a list that forgets its    *)
(* filters.                                                                *)

EditKey ==
    /\ page = "key" /\ "edit" \in session /\ world.readiness[at] = "managed"
    /\ draft' = world.policy[at] /\ Shows("edit", scope, memory)
    /\ UNCHANGED <<session, world, at, scope, memory, wanted, viewVars>>

\* The groups found, as cards or as a table.
GroupsOnScreen == MatchingGroups(shown.search, world)

\* A group's members are what a key that has no group adds.
EditGroup(g) ==
    /\ page = "groups" /\ "edit" \in session /\ g \in GroupsOnScreen
    /\ draft' = [groups |-> {}, added |-> world.has[g], excluded |-> {}]
    /\ Shows("edit", scope, memory)
    /\ UNCHANGED <<session, world, at, scope, memory, wanted, viewVars>>

InResults == MatchingModels(ListOnScreen, shown.filters)

\* The results as they are drawn, each where it can be checked and unchecked.
EditSections == SectionsOf(InResults, shown.groupBy, "registry")

\* The chips above the results name the others.
OutsideResults == Members(draft, world) \ InResults

ShowSelected ==
    /\ page = "edit" /\ at # None /\ shown' = [shown EXCEPT !.only = ~@]
    /\ UNCHANGED <<session, world, page, at, scope, memory, folds, wanted, shut, viewVars, draft>>

Toggle(m) ==
    /\ page = "edit" /\ m \in (UNION {sec.items : sec \in EditSections}) \cup OutsideResults
    /\ draft' = Flipped(draft, {m}, world)
    /\ UNCHANGED <<session, world, page, at, scope, listVars, viewVars>>

\* The composition of a key: what is selected may be taken out, what is excluded put back.
Compose(m) ==
    /\ page = "edit" /\ at # None /\ m \in Members(draft, world) \cup draft.excluded
    /\ draft' = Flipped(draft, {m}, world)
    /\ UNCHANGED <<session, world, page, at, scope, listVars, viewVars>>

\* Mutant of WithVisible: what is not among the results is dropped.
VisibleAlone(selected, visible, checked) == IF checked THEN visible ELSE selected \ visible

\* setVisibleSelection.
WithVisible(selected, visible, checked) == IF checked THEN selected \cup visible ELSE selected \ visible

SelectVisible ==
    /\ page = "edit" /\ InResults # {}
    /\ draft' = FlipTo(draft, world.cards,
                       WithVisible(Members(draft, world), InResults, ~InResults \subseteq Members(draft, world)),
                       world)
    /\ UNCHANGED <<session, world, page, at, scope, listVars, viewVars>>

\* The editor is closed, saved or not: the page it was opened from.
StopEditing ==
    /\ page = "edit"
    /\ draft' = None /\ Shows(IF at = None THEN "groups" ELSE "key", scope, memory)
    /\ UNCHANGED <<session, world, at, scope, memory, wanted, viewVars>>

AddGroup(g) ==
    /\ page = "edit" /\ at # None /\ g \in world.groups
    /\ draft' = [draft EXCEPT !.groups = IF g \in @ THEN @ \ {g} ELSE @ \cup {g}]
    /\ UNCHANGED <<session, world, page, at, scope, listVars, viewVars>>

-----------------------------------------------------------------------------
\* Going to a page, from a page, and what the server sends.
Moves ==
    \/ \E p \in session \ {"key", "edit", "card"} : Go(p)
    \/ \E w \in Worlds : DataArrive(w)
    \/ SignOut
    \/ \E k \in Keys : OpenKey(k)
    \/ AddMissing
    \/ \E s \in Scopes : Switch(s)
    \/ EditKey \/ StopEditing
    \/ \E g \in Groups : EditGroup(g)

\* What an operator does with a list.
Controls ==
    \/ \E v \in Terms \cup {None} : KeySearch(v) \/ GroupSearch(v) \/ ModelSearch(v) \/ GatewaySearch(v)
    \/ \E field \in DOMAIN KeyOptions : \E v \in KeyOptions[field] : KeyFilter(field, v)
    \/ \E shelf \in Shelves : FoldKeys(shelf)
    \/ \E p \in Providers \cup {None} : ProviderFilter(p)
    \/ \E fs \in {DOMAIN NoFilters} \cup {{f} : f \in DOMAIN NoFilters} : ClearFilters(fs)
    \/ \E v \in {"none", "provider"} : GroupModels(v)
    \/ \E v \in Sorts : SortModels(v)
    \/ page = "models" /\ \E sec \in TileSections : FoldSection(sec) \/ ShowMore(sec)
    \/ \E f \in Fields : \E v \in Choices[f] : ChooseView(f, v)
    \/ ResetView
    \/ \E sec \in {"providers", "aliases", "routing", "keys"} : GatewaySection(sec)
    \/ \E v \in {"tree", "details"} : GatewayLayout(v)
    \/ ShowSelected \/ SelectVisible
    \/ \E g \in Groups : AddGroup(g)
    \/ \E m \in Models : Toggle(m) \/ Compose(m)

-----------------------------------------------------------------------------
(* A search or a filter opens the shelves, so results are never hidden     *)
(* (KeyLibrary.tsx:64, ReferenceCatalogBrowser.tsx:630): what passes the   *)
(* filters is on screen, unless the operator closed that very shelf while  *)
(* searching, too, since the page was opened, or while browsing for a      *)
(* shelf that is folded by default; on the models page it may also be      *)
(* behind "Show more" of an open section.  What is not on screen is        *)
(* counted, each model once.  In the gateway, the tree and the table hold  *)
(* the same aliases and flag the same keys, a key found is on a card, and  *)
(* "nothing matches" is said only where nothing is.                        *)
ResultsAreNotHidden ==
    /\ page = "keys" =>
         /\ \A k \in MatchingKeys(shown, world) \ KeysOnScreen :
               \/ <<FilteringKeys(shown), ShelfOf(k, world)>> \in shut
               \/ ~FilteringKeys(shown) /\ ShelfOf(k, world) = "empty"
         /\ Cardinality(MatchingKeys(shown, world)) = Cardinality(KeysOnScreen) + Cardinality(Collapsed)
    /\ page = "models" =>
         LET sections == TileSections
             count == CountLine(sections, scope)
         IN /\ UNION {sec.items : sec \in sections} = MatchingModels(Listed(scope, world), shown.filters)
            /\ \A sec \in sections : \A m \in sec.items :
                 \/ m \in VisibleIn(sec, scope)
                 \/ SectionOpen(sec) /\ Cardinality(sec.items) > Extent(sec)
                 \/ <<FilteringModels(shown.filters), sec.key>> \in shut
                 \/ sec.shelf /\ ~FilteringModels(shown.filters)
            /\ count.total = count.shown + count.shelved + count.paged
            /\ count.paged = Cardinality({m \in UNION {sec.items : sec \in sections} :
                  \A sec \in sections : m \in sec.items => SectionOpen(sec) /\ m \notin VisibleIn(sec, scope)})
    /\ page = "edit" => UNION {sec.items : sec \in EditSections} = InResults
    /\ page = "gateway" =>
         LET tree == AliasTree
         IN /\ SaysNothingFound => OnGateway = {}
            /\ {h.key.id : h \in {x \in ProviderKeys : KeyMatches(x.key)}} = UNION {c.keys : c \in ProviderCards}
            /\ FoundAliases = UNION { UNION { {[provider |-> p.provider, key |-> k.key, name |-> n] : n \in k.names} :
                                                k \in p.keys} : p \in tree}
            /\ FoundUnreadable = UNION { {[provider |-> p.provider, key |-> k.key] : k \in {x \in p.keys : x.flagged}} :
                                            p \in tree}

\* Every list shows what the operator last set for it and nothing set for another, whatever
\* was opened in between: each scope of the models page has filters of its own, an adoption
\* sets those of the To add list beforehand, and only the sign-out forgets them.  An option
\* chosen for a view is the one shown, and the primary logo is never one list's own.
ListsKeepTheirState ==
    /\ page = "models" => /\ shown.filters = wanted.filters[scope]
                          /\ shown.groupBy = wanted.groupBy /\ shown.sort = wanted.sort
                          /\ SortInForce(scope) = "recent" => scope = "registry"
    /\ page = "keys" => shown = wanted.keys
    /\ page = "groups" => shown = wanted.groups
    /\ picked # None => ViewOf(OverrideOf(picked.list), prefs)[picked.field] = picked.value
    /\ \A l \in {"models", "keys", "groups"} : "logo" \notin DOMAIN OverrideOf(l)
    /\ page = "models" => shown.view = memory.view

\* A change of the selection is one the operator sees: it moves models among the results, or
\* one that is named beside them, as selected outside the results or as excluded.
SelectionIsVisible ==
    [][ /\ page = "edit" /\ page' = "edit" /\ world' = world
        /\ draft' # draft /\ draft'.groups = draft.groups
        => LET before == Members(draft, world)
               after == Members(draft', world)
               moved == (before \ after) \cup (after \ before)
           IN moved \subseteq InResults \/ \E m \in before \cup draft.excluded : moved = {m} ]_vars
=============================================================================
