------------------------------ MODULE CatalogPages ------------------------------
(***************************************************************************)
(* The pages on which models are registered and the catalogue corrected:   *)
(* ModelLibraryPage.tsx with ReferenceCatalogBrowser.tsx, and              *)
(* CatalogMetadata.tsx, over the panel's two copies of the registry file,  *)
(* the cards (workspace) and the catalogue, which are fetched and replaced *)
(* apart (App.tsx, useReferenceCatalog.ts).  The server's part is          *)
(* catalogHandler and, for cards, putWorkspace.                            *)
(*                                                                         *)
(* Every change of the file gives it a new revision.  A catalogue request, *)
(* its handling and its answer are steps of their own, and so are the      *)
(* three of a catalogue's loading; a save of cards is one step (late and   *)
(* lost answers of those are PanelSession's).                              *)
(***************************************************************************)
EXTENDS ModelLibrary

CONSTANTS
    FactValues,     \* what a fact of a record can be
    Malformed,      \* what is typed that no fact can be
    RegistryFiles,  \* registry files the panel may be opened on
    MaxChanges,     \* bound on the changes of the file
    MaxElsewhere,   \* bound on those made elsewhere, refreshes of the sources included
    MaxGets,        \* bound on the loadings of the catalogue under way
    MaxVisits,      \* bound on the openings of the metadata page
    Looked          \* bound on the records looked at there, and corrected elsewhere

Targets == Accesses \cup References
Links == References \cup {Nil}

\* link, chosen: the reference of each access and whether an operator chose it; own: the
\* correction of each record's fact.
Catalogues ==
    [listed : SUBSET Accesses, configured : SUBSET Accesses, refs : SUBSET References,
     link : [Accesses -> Links], chosen : SUBSET Accesses, own : [Targets -> FactValues \cup {Nil}]]

ASSUME CatalogPagesAssumption ==
    /\ Nil \notin FactValues /\ Malformed \notin FactValues \cup {Nil}
    /\ MaxChanges \in Nat /\ MaxElsewhere \in Nat /\ MaxGets \in Nat /\ MaxVisits \in Nat
    /\ \A f \in RegistryFiles :
          /\ f.cards \in [Ids -> SUBSET Accesses]
          /\ f.cat \in Catalogues
          /\ \A a \in f.cat.listed : f.cat.link[a] \in f.cat.refs \cup {Nil}
          /\ \A a \in Accesses \ f.cat.listed : f.cat.link[a] = Nil

VARIABLES
    registry,   \* the registry file: rev, cards, cat
    elsewhere,  \* changes made elsewhere
    workspace,  \* the panel's cards: rev, cards, link
    catalogue,  \* the panel's catalogue: rev and the catalogue's fields, or Nil
    failed,     \* there is none because it could not be loaded
    gets,       \* loadings of the catalogue under way: asked, or read
    opened,     \* the library: nothing, the choice, the cards to pick from, or the editor
    metadata,   \* the metadata page, or Nil
    visits,
    request     \* the catalogue request under way, or Nil

libraryVars == <<registry, elsewhere, workspace, catalogue, failed, gets, opened, metadata, visits, request>>
metadataVars == <<metadata, visits, request>>

Nothing == [shows |-> "nothing"]

-----------------------------------------------------------------------------
(* The registry file and its copies.                                       *)

\* catalogView.
CatalogueOf(f) ==
    [rev |-> f.rev, listed |-> f.cat.listed, configured |-> f.cat.configured, refs |-> f.cat.refs,
     link |-> f.cat.link, chosen |-> f.cat.chosen, own |-> f.cat.own]

\* workspace, as far as cards are concerned: each access with its reference.
WorkspaceOf(f) ==
    [rev |-> f.rev, cards |-> f.cards,
     link |-> [a \in Accesses |-> IF a \in f.cat.listed THEN f.cat.link[a] ELSE Nil]]

Changed(cards, cat) ==
    /\ registry.rev < MaxChanges
    /\ registry' = [rev |-> registry.rev + 1, cards |-> cards, cat |-> cat]

\* The effect of App on the revision: a catalogue of another revision is loaded again.
LoadIfOther(rev, c) ==
    IF c # Nil /\ c.rev = rev THEN UNCHANGED gets
    ELSE /\ Cardinality({g \in gets : g.state = "read"}) < MaxGets
         /\ gets' = gets \cup {[state |-> "asked", snap |-> Nil]}

\* applyWorkspace.
ApplyWorkspace(f) ==
    /\ workspace' = WorkspaceOf(f)
    /\ IF f.rev # workspace.rev THEN LoadIfOther(f.rev, catalogue) ELSE UNCHANGED gets

LoadWorkspace ==
    /\ workspace.rev # registry.rev
    /\ ApplyWorkspace(registry)
    /\ UNCHANGED <<registry, elsewhere, catalogue, failed, opened, metadataVars>>

CatalogueRead ==
    \E g \in gets :
        /\ g.state = "asked"
        /\ gets' = (gets \ {g}) \cup {[state |-> "read", snap |-> CatalogueOf(registry)]}
        /\ UNCHANGED <<registry, elsewhere, workspace, catalogue, failed, opened, metadataVars>>

\* loadReferenceCatalog: an answer replaces the catalogue there is; a failure keeps it.
CatalogueArrives ==
    \E g \in gets :
        /\ g.state = "read"
        /\ gets' = gets \ {g}
        /\ catalogue' = g.snap
        /\ failed' = FALSE
        /\ UNCHANGED <<registry, elsewhere, workspace, opened, metadataVars>>

CatalogueFails ==
    \E g \in gets :
        /\ gets' = gets \ {g}
        /\ failed' = (catalogue = Nil)
        /\ UNCHANGED <<registry, elsewhere, workspace, catalogue, opened, metadataVars>>

\* Another operator, or the sources: a link chosen, or suggested where there was none.
LinkedElsewhere(a, r, byOperator) ==
    /\ elsewhere < MaxElsewhere
    /\ a \in registry.cat.listed /\ r \in registry.cat.refs \cup {Nil} /\ registry.cat.link[a] # r
    /\ ~byOperator => registry.cat.link[a] = Nil /\ a \notin registry.cat.chosen
    /\ Changed(registry.cards, [registry.cat EXCEPT !.link[a] = r,
                                            !.chosen = IF byOperator THEN @ \cup {a} ELSE @])
    /\ elsewhere' = elsewhere + 1
    /\ UNCHANGED <<workspace, catalogue, failed, gets, opened, metadataVars>>

CorrectedElsewhere(t, v) ==
    /\ elsewhere < MaxElsewhere
    /\ t \in registry.cat.listed \cup registry.cat.refs /\ registry.cat.own[t] # v
    /\ Changed(registry.cards, [registry.cat EXCEPT !.own[t] = v])
    /\ elsewhere' = elsewhere + 1
    /\ UNCHANGED <<workspace, catalogue, failed, gets, opened, metadataVars>>

-----------------------------------------------------------------------------
(* The library.                                                            *)

Browsing == metadata = Nil /\ opened = Nothing

Show(o) ==
    /\ opened' = o
    /\ UNCHANGED <<registry, elsewhere, workspace, catalogue, failed, gets, metadataVars>>

\* ModelLibraryPage's onOpen: a saved identifier opens its card.
CardOpened(i) == [shows |-> "card", id |-> i]
DraftOpened(d, w, c) ==
    [shows |-> "draft", draft |-> d, rev |-> w.rev, fresh |-> c # Nil /\ c.rev = w.rev]
Opening(g, i, w, c) ==
    IF i \in Saved(workspace) THEN CardOpened(i)
    ELSE DraftOpened(IF Combines(g, workspace) THEN DraftFor(g, i, w, c) ELSE DraftAlone(i, w), w, c)

ToAddTiles == Tiles(Entries(ToAdd(workspace)), workspace, catalogue)

\* What the button of a tile says.
Label(tile) ==
    IF Joinable(Complete(tile, workspace, catalogue), workspace, catalogue) # {} THEN "Add to card"
    ELSE "Register"

\* open, on a tile of To add: joins a saved card, asks for the card or the identifier, or opens
\* the editor.
OpenTile(tile) ==
    /\ LET g == Complete(tile, workspace, catalogue)
           cards == Joinable(g, workspace, catalogue)
       IN  \/ Cardinality(cards) > 1 /\ Show([shows |-> "cards", cards |-> cards])
           \/ Cardinality(cards) = 1 /\ \E i \in cards : Show(CardOpened(i))
           \/ /\ cards = {} /\ NeedsChoice(g, workspace)
              /\ Show([shows |-> "choice", group |-> g, w |-> workspace, c |-> catalogue])
           \/ /\ cards = {} /\ ~NeedsChoice(g, workspace)
              /\ \E i \in IF RegisteredIn(g, workspace) # {} THEN RegisteredIn(g, workspace) ELSE IdsOf(g) :
                    Show(Opening(g, i, workspace, catalogue))

\* The dialog "Add to which card?".
Pick(i) ==
    /\ opened.shows = "cards" /\ i \in opened.cards
    /\ Show(CardOpened(i))

\* The dialog "Choose the model identifier".
Choose(i) ==
    /\ opened.shows = "choice" /\ i \in IdsOf(opened.group)
    /\ Show(Opening(opened.group, i, opened.w, opened.c))

\* Without a catalogue that could be loaded, each model opens by itself.
OpenAlone(i) ==
    /\ Browsing /\ catalogue = Nil /\ failed
    /\ i \in Saved(workspace) \/ ToAdd(workspace)[i] # {}
    /\ Show(IF i \in Saved(workspace) THEN CardOpened(i)
            ELSE DraftOpened(DraftAlone(i, workspace), workspace, Nil))

CloseLibrary == opened # Nothing /\ Show(Nothing)

\* Mutant of Relinked: the link that is there becomes the operator's.
RelinkedAnyway(cat, ref) ==
    [cat EXCEPT !.link = [a \in Accesses |-> IF ref[a] # Nil THEN ref[a] ELSE @[a]],
                !.chosen = @ \cup {a \in Accesses : ref[a] # Nil},
                !.listed = @ \cup {a \in Accesses : ref[a] # Nil}]

\* setWorkspaceReference, for each access sent with a reference.
Relinked(cat, ref) ==
    LET new == {a \in Accesses : ref[a] # Nil /\ (a \notin cat.listed \/ ref[a] # cat.link[a])}
    IN  [cat EXCEPT !.link = [a \in Accesses |-> IF a \in new THEN ref[a] ELSE @[a]],
                    !.chosen = @ \cup new,
                    !.listed = @ \cup new,
                    !.configured = @ \cup (new \ cat.listed)]

\* updateModel, commit and putWorkspace: the whole workspace of a revision, or nothing.
SaveCard(i, accesses, ref) ==
    /\ ~SameProvider(accesses)
    /\ workspace.rev = registry.rev
    /\ Changed([registry.cards EXCEPT ![i] = accesses], Relinked(registry.cat, ref))
    /\ ApplyWorkspace(registry')
    /\ opened' = Nothing
    /\ UNCHANGED <<elsewhere, catalogue, failed, metadataVars>>

\* The draft as it was opened.
SaveDraft ==
    /\ opened.shows = "draft"
    /\ LET d == opened.draft
       IN  /\ d.id \notin Saved(workspace)
           /\ \A a \in d.accesses : a \notin Held(workspace)
           /\ SaveCard(d.id, d.accesses, d.ref)

\* An access added to the card from "Also available", with the catalogue's link.
Join(a) ==
    /\ opened.shows = "card" /\ opened.id \in Saved(workspace) /\ catalogue # Nil
    /\ a \in AlsoAvailable(opened.id, workspace, catalogue)
    /\ SaveCard(opened.id, workspace.cards[opened.id] \cup {a},
                [b \in Accesses |-> IF b = a THEN catalogue.link[a] ELSE Nil])

\* canAssociate.
Associable(i) == i \in Saved(workspace) /\ \A a \in workspace.cards[i] : workspace.link[a] = Nil

\* associateReference.
Associated(i, r) == [a \in Accesses |-> IF a \in workspace.cards[i] THEN r ELSE Nil]

Associate(i, r) ==
    /\ Browsing /\ catalogue # Nil
    /\ Associable(i) /\ r \in catalogue.refs /\ r \in registry.cat.refs
    /\ SaveCard(i, workspace.cards[i], Associated(i, r))

-----------------------------------------------------------------------------
(* The metadata page.                                                      *)

At(mode, selected, matchId) ==
    [mode |-> mode, selected |-> selected, matchId |-> matchId, edit |-> Nil, typed |-> Nil,
     says |-> "nothing", busy |-> FALSE]

LinkIn(c, t) == IF c = Nil \/ t \notin Accesses THEN Nil ELSE c.link[t]

ModeOf(t) == IF t \in References THEN "reference" ELSE "access"

Records(c) == IF metadata.mode = "reference" THEN c.refs ELSE c.listed

\* From the navigation, or from a tile's metadata, on the record it names.
OpenPage(t) ==
    /\ visits < MaxVisits /\ registry.rev < MaxChanges
    /\ metadata = Nil /\ opened = Nothing
    /\ t = Nil \/ catalogue # Nil
    /\ IF t = Nil THEN TRUE ELSE t \in catalogue.listed \cup catalogue.refs
    /\ metadata' = At(ModeOf(t), t, LinkIn(catalogue, t))
    /\ visits' = visits + 1
    /\ UNCHANGED <<registry, elsewhere, workspace, catalogue, failed, gets, opened, request>>

LeavePage ==
    /\ metadata # Nil /\ metadata.edit = Nil
    /\ metadata' = Nil
    /\ UNCHANGED <<registry, elsewhere, workspace, catalogue, failed, gets, opened, visits, request>>

\* (Nothing is started once the file has changed MaxChanges times.)
OnPage == registry.rev < MaxChanges /\ metadata # Nil /\ catalogue # Nil

Turn(p) ==
    /\ metadata' = p
    /\ UNCHANGED <<registry, elsewhere, workspace, catalogue, failed, gets, opened, visits, request>>

SwitchMode(mode) ==
    /\ OnPage /\ metadata.edit = Nil
    /\ Turn([metadata EXCEPT !.mode = mode, !.selected = Nil])

Inspect(t) == Turn([metadata EXCEPT !.mode = ModeOf(t), !.selected = t, !.matchId = LinkIn(catalogue, t)])

Select(t) ==
    /\ OnPage /\ metadata.edit = Nil
    /\ t \in Records(catalogue)
    /\ Inspect(t)

\* "Edit access metadata", from a reference to an access linked to it.
SelectLinked(a) ==
    /\ OnPage /\ metadata.edit = Nil
    /\ metadata.mode = "reference" /\ metadata.selected \in catalogue.refs
    /\ a \in catalogue.listed /\ catalogue.link[a] = metadata.selected
    /\ Inspect(a)

ChooseMatch(r) ==
    /\ OnPage /\ metadata.edit = Nil
    /\ metadata.mode = "access" /\ metadata.selected \in catalogue.listed
    /\ r \in catalogue.refs /\ r # metadata.matchId
    /\ Turn([metadata EXCEPT !.matchId = r])

BeginEdit ==
    /\ OnPage /\ metadata.edit = Nil /\ ~metadata.busy /\ metadata.says # "conflict"
    /\ metadata.selected \in Records(catalogue)
    /\ Turn([metadata EXCEPT !.edit = metadata.selected, !.typed = catalogue.own[metadata.selected],
                         !.says = "nothing"])

Type(v) ==
    /\ OnPage /\ metadata.edit # Nil /\ metadata.typed # v
    /\ Turn([metadata EXCEPT !.typed = v])

CancelEdit ==
    /\ OnPage /\ metadata.edit # Nil /\ ~metadata.busy
    /\ Turn([metadata EXCEPT !.edit = Nil, !.typed = Nil])

\* mutate: one request at a time, at the revision of the catalogue shown.
Mutate(kind, target, value) ==
    /\ OnPage /\ ~metadata.busy /\ metadata.says # "conflict"
    /\ request = Nil
    /\ metadata' = [metadata EXCEPT !.busy = TRUE]
    /\ request' = [kind |-> kind, target |-> target, value |-> value, rev |-> catalogue.rev,
                   shown |-> catalogue, state |-> "asked", snap |-> Nil, from |-> visits]
    /\ UNCHANGED <<registry, elsewhere, workspace, catalogue, failed, gets, opened, visits>>

SaveEdit ==
    /\ OnPage /\ metadata.edit # Nil
    /\ metadata.typed \in FactValues
    /\ Mutate("override", metadata.edit, metadata.typed)

Revert ==
    /\ OnPage /\ metadata.edit = Nil
    /\ metadata.selected \in Records(catalogue) /\ catalogue.own[metadata.selected] # Nil
    /\ Mutate("override", metadata.selected, Nil)

ConfirmMatch ==
    /\ OnPage /\ metadata.edit = Nil
    /\ metadata.mode = "access" /\ metadata.selected \in catalogue.listed
    /\ metadata.matchId \in catalogue.refs
    /\ ~(metadata.matchId = catalogue.link[metadata.selected] /\ metadata.selected \in catalogue.chosen)
    /\ Mutate("match", metadata.selected, metadata.matchId)

Unlink ==
    /\ OnPage /\ metadata.edit = Nil
    /\ metadata.mode = "access" /\ metadata.selected \in catalogue.listed
    /\ catalogue.link[metadata.selected] # Nil
    /\ Mutate("match", metadata.selected, Nil)

\* "New datasheet": the form, filled and sent.
CreateReference(r) ==
    /\ OnPage /\ metadata.edit = Nil /\ metadata.mode = "reference" /\ r \notin catalogue.refs
    /\ Mutate("reference", r, Nil)

RefreshSources ==
    /\ OnPage /\ metadata.edit = Nil
    /\ Mutate("refresh", Nil, Nil)

\* catalogHandler, once the revision is right: what the request makes of the catalogue, or {}
\* where it is refused.
Made(cat, q) ==
    CASE q.kind = "override" ->
           IF q.target \notin cat.listed \cup cat.refs THEN {}
           ELSE {[cat EXCEPT !.own[q.target] = q.value]}
      [] q.kind = "match" ->
           IF q.target \notin cat.listed \/ (q.value # Nil /\ q.value \notin cat.refs) THEN {}
           ELSE {[cat EXCEPT !.link[q.target] = q.value, !.chosen = @ \cup {q.target}]}
      [] q.kind = "reference" ->
           IF q.target \in cat.refs THEN {} ELSE {[cat EXCEPT !.refs = @ \cup {q.target}]}
      [] q.kind = "refresh" ->
           {cat} \cup {[cat EXCEPT !.link[a] = r] :
              a \in {b \in cat.listed \ cat.chosen : cat.link[b] = Nil}, r \in cat.refs}

Answered(state) == request' = [request EXCEPT !.state = state, !.snap = CatalogueOf(registry')]

\* If-Match.
InTime(q) == q.rev = registry.rev

Serve ==
    /\ request # Nil /\ request.state = "asked"
    /\ IF ~InTime(request) THEN UNCHANGED registry /\ Answered("conflict")
       ELSE \/ /\ Made(registry.cat, request) = {}
               /\ UNCHANGED registry
               /\ Answered("refused")
            \/ \E cat \in Made(registry.cat, request) : Changed(registry.cards, cat) /\ Answered("done")
    /\ UNCHANGED <<elsewhere, workspace, catalogue, failed, gets, opened, metadata, visits>>

\* The page the request came from, if it is still there, is done with it.
Mine == metadata # Nil /\ request.from = visits

Quiet == [metadata EXCEPT !.busy = FALSE, !.says = "nothing"]

\* done.
Finished(q) ==
    CASE q.kind = "override" /\ q.target = metadata.edit ->
           [Quiet EXCEPT !.edit = Nil, !.typed = Nil]
      [] q.kind = "match" /\ q.value = Nil -> [Quiet EXCEPT !.matchId = Nil]
      [] q.kind = "reference" -> [Quiet EXCEPT !.selected = q.target]
      [] OTHER -> Quiet

\* The answer's catalogue replaces the panel's; onChanged loads the cards.
MutationDone ==
    /\ request # Nil /\ request.state = "done"
    /\ catalogue' = request.snap
    /\ request' = Nil
    /\ metadata' = IF Mine THEN Finished(request) ELSE metadata
    /\ UNCHANGED <<registry, elsewhere, workspace, failed, gets, opened, visits>>

\* report: a conflict stops the page until it is reloaded.
Refused(says) == [metadata EXCEPT !.busy = FALSE, !.says = says]

\* An identifier already taken is a conflict too.
MutationRefused ==
    /\ request # Nil /\ request.state \in {"conflict", "refused"}
    /\ request' = Nil
    /\ metadata' = IF ~Mine THEN metadata
               ELSE Refused(IF request.state = "conflict" \/ request.kind = "reference" THEN "conflict"
                            ELSE "error")
    /\ UNCHANGED <<registry, elsewhere, workspace, catalogue, failed, gets, opened, visits>>

\* The network failed, before or after the server handled the request.
MutationLost ==
    /\ request # Nil
    /\ request' = Nil
    /\ metadata' = IF Mine THEN Refused("error") ELSE metadata
    /\ UNCHANGED <<registry, elsewhere, workspace, catalogue, failed, gets, opened, visits>>

\* Reload revision, Retry (without an answer, nothing changes).
ReloadRevision ==
    /\ metadata # Nil /\ ~metadata.busy /\ metadata.says # "nothing"
    /\ catalogue' = CatalogueOf(registry) /\ failed' = FALSE
    /\ metadata' = [metadata EXCEPT !.says = "nothing"]
    /\ UNCHANGED <<registry, elsewhere, workspace, gets, opened, visits, request>>

-----------------------------------------------------------------------------

LibraryInit ==
    /\ \E f \in RegistryFiles : registry = [rev |-> 0, cards |-> f.cards, cat |-> f.cat]
    /\ elsewhere = 0
    /\ workspace = WorkspaceOf(registry)
    /\ catalogue = Nil
    /\ failed = FALSE
    /\ gets = {[state |-> "asked", snap |-> Nil]}
    /\ opened = Nothing
    /\ metadata = Nil
    /\ visits = 0
    /\ request = Nil

Library ==
    \/ Browsing /\ catalogue # Nil /\ \E tile \in ToAddTiles : OpenTile(tile)
    \/ \E i \in Ids : Pick(i)
    \/ \E i \in Ids : Choose(i)
    \/ \E i \in Ids : OpenAlone(i)
    \/ CloseLibrary
    \/ SaveDraft
    \/ \E a \in Accesses : Join(a)
    \/ \E i \in Ids, r \in References : Associate(i, r)

Metadata ==
    \/ \E t \in Looked \cup {Nil} : OpenPage(t)
    \/ LeavePage
    \/ \E mode \in {"access", "reference"} : SwitchMode(mode)
    \/ \E t \in Looked : Select(t)
    \/ \E a \in Looked \cap Accesses : SelectLinked(a)
    \/ \E r \in References : ChooseMatch(r)
    \/ BeginEdit
    \/ \E v \in FactValues \cup {Malformed} : Type(v)
    \/ CancelEdit
    \/ SaveEdit
    \/ Revert
    \/ ConfirmMatch
    \/ Unlink
    \/ \E r \in References : CreateReference(r)
    \/ RefreshSources
    \/ ReloadRevision

Network ==
    \/ LoadWorkspace
    \/ CatalogueRead
    \/ CatalogueArrives
    \/ CatalogueFails
    \/ Serve
    \/ MutationDone
    \/ MutationRefused
    \/ MutationLost

Elsewhere ==
    \/ \E a \in Looked \cap Accesses, r \in Links, byOperator \in BOOLEAN : LinkedElsewhere(a, r, byOperator)
    \/ \E t \in Looked \cap References, v \in FactValues \cup {Nil} : CorrectedElsewhere(t, v)

LibraryNext == Library \/ Metadata \/ Network \/ Elsewhere

LibrarySpec == LibraryInit /\ [][LibraryNext]_libraryVars

-----------------------------------------------------------------------------
(* Properties.                                                             *)

\* Each access Bifrost lists is held by a card or on one tile of To add (unsavedModels,
\* groupReferenceModels): none disappears from the library because of a card of its identifier.
EveryAccessOnce ==
    Browsing =>
    LET tiles == ToAddTiles
    IN  \A i \in Ids : \A a \in Discovered[i] :
            Cardinality({g \in tiles : a \in AccessesOf(g)}) = IF a \in Held(workspace) THEN 0 ELSE 1

\* "so a count of tiles does not move when it arrives" (groupReferenceModels): the tiles of To add
\* are the same before the catalogue of the revision shown is there, and hold every access.
TilesStayPut ==
    /\ EveryAccessOnce
    /\ Browsing /\ catalogue # Nil /\ catalogue.rev = workspace.rev =>
         ToAddTiles = Tiles(Entries(ToAdd(workspace)), workspace, Nil)

\* A tile that says it joins a saved card opens one whose editor offers an access of the tile
\* (joinableCards, "the access waits under Also available").
JoinableOffers ==
    Browsing /\ catalogue # Nil =>
        \A tile \in {t \in ToAddTiles : Label(t) = "Add to card"} :
            \A i \in Joinable(Complete(tile, workspace, catalogue), workspace, catalogue) :
                AlsoAvailable(i, workspace, catalogue) \cap AccessesOf(tile) # {}

\* The editor opens as a new card only what can be registered: under an identifier no card has,
\* accesses no card holds, and, when it says it combines them, one of each provider.
DraftIsRegistrable ==
    opened.shows = "draft" /\ opened.rev = workspace.rev =>
        LET d == opened.draft
        IN  /\ d.id \notin Saved(workspace)
            /\ d.accesses # {} /\ d.accesses \cap Held(workspace) = {}
            /\ d.combined => ~SameProvider(d.accesses)

\* What a tile offers is what opening it does: the card joined takes the access, and the new card
\* can be registered.
OfferIsKept == JoinableOffers /\ DraftIsRegistrable

\* The shelf of models to add can be relied on: its tiles stay put and hold every access, and what
\* a tile offers is what opening it does.
TilesAreTrue == TilesStayPut /\ OfferIsKept

\* Registering a model from a tile is no choice of references: opened on a catalogue of the
\* revision saved, the draft changes none and makes none the operator's (draftFor,
\* setWorkspaceReference).
RegisteringKeepsLinks ==
    opened.shows = "draft" /\ opened # opened' /\ registry' # registry =>
        (opened.fresh /\ opened.rev = registry.rev => registry'.cat = registry.cat)

\* "every access of the card is linked to it" (AssociateReference): and no access of another card.
AssociationIsExact ==
    opened = Nothing /\ registry' # registry /\ workspace' # workspace =>
        LET moved == {a \in Accesses : registry'.cat.link[a] # registry.cat.link[a]}
        IN  /\ moved \in {registry.cards[i] : i \in Saved(registry)}
            /\ Cardinality({registry'.cat.link[a] : a \in moved}) = 1
            /\ registry'.cat.chosen = registry.cat.chosen \cup moved
            /\ registry'.cards = registry.cards

\* A save of the library changes the links its operator asked to change, and no other.
LinksChangeByChoice == [][RegisteringKeepsLinks /\ AssociationIsExact]_libraryVars

\* The catalogue is changed only from what the operator was shown (mutate, If-Match).
ChangesWhatWasShown ==
    [][ request # Nil /\ request' # request /\ registry' # registry
        => request.shown = CatalogueOf(registry) ]_libraryVars

\* A correction being typed survives everything but its own success: conflicts, errors, lost
\* answers and catalogues that arrive (mutate, report, reload).
CorrectionIsKept ==
    [][metadata # Nil /\ (request' # request \/ catalogue' # catalogue) =>
          IF metadata.edit = Nil THEN TRUE
          ELSE \/ metadata'.edit = metadata.edit /\ metadata'.typed = metadata.typed
               \/ request.state = "done" /\ catalogue'.own[metadata.edit] = request.value]_libraryVars

\* Links change by the operator's choice alone; a correction changes what its operator was
\* shown, or stays in the form.
LibraryChangesAreChosen == LinksChangeByChoice /\ ChangesWhatWasShown /\ CorrectionIsKept
=============================================================================
