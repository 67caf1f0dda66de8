------------------------------- MODULE CardEditor -------------------------------
(***************************************************************************)
(* The editor of a model card (ui/src/features/catalog/ModelEditor.tsx).   *)
(*                                                                         *)
(* It edits a copy of one card: which accesses it groups, the reference    *)
(* that describes each, the requests they take, and corrections of the     *)
(* catalogue's facts, staged until the card is saved.  From its own copy   *)
(* of the catalogue it works out what the accesses offered to the card     *)
(* are, what every access will read after a correction, and what a save    *)
(* changes; the server works all of this out again from its file           *)
(* (putWorkspace, setWorkspaceReference, EffectiveAccessCatalogFields).    *)
(* The catalogue is fetched apart from the cards and may be older.         *)
(*                                                                         *)
(* One fact stands for the six that can be corrected: none depends on      *)
(* another.  Late and lost answers of a save, and what another panel saves *)
(* meanwhile, are PanelSession's.                                          *)
(***************************************************************************)
EXTENDS Naturals, Sequences, FiniteSets, SequencesExt

CONSTANTS
    Accesses,    \* pairs of a provider and a model of its own
    ProviderOf,  \* ProviderOf[a]
    Called,      \* Called[a]: its model's name, aggregator's prefix and punctuation aside
    Prefixed,    \* accesses whose name has an aggregator's prefix
    Declared,    \* Declared[a]: the endpoints its mode or outputs imply
    Endpoints,
    References,
    Values,
    Names,       \* display names
    Ids,         \* identifiers of new cards
    CardName,    \* CardName[i]: the name identifier i stands for
    TakenIds,    \* identifiers of other cards
    Files,       \* registry files the panel may be opened on
    Nothing,     \* no value; of a row's reference: as the catalogue has it
    Unlinked,    \* a row's reference: none, and none to be found
    MaxEdits,    \* bound on the edits of a draft, changes made elsewhere included
    MaxSaves,    \* bound on the saves
    MaxElsewhere \* bound on the changes made elsewhere

Targets == Accesses \cup References
Links == References \cup {Nothing}

\* own: the fact of each record; link, chosen: the reference of each access and whether an
\* operator chose it; omits: accesses that do not inherit the fact.
Catalogues ==
    [listed : SUBSET Accesses, configured : SUBSET Accesses, own : [Targets -> Values \cup {Nothing}],
     link : [Accesses -> Links], chosen : SUBSET Accesses, omits : SUBSET Accesses]

Rows == [access : Accesses \cup {Nothing}, takes : SUBSET Endpoints,
         ref : Links \cup {Unlinked}, status : {"Configured", "Unknown"}]

\* may: the accesses a key's groups, sources and adoption let through.
Selections == [added : SUBSET Accesses, excluded : SUBSET Accesses] \cup {Nothing}
KeyUses == [may : SUBSET Accesses, chose : Selections, prefer : Accesses \cup {Nothing}]

\* held: what each other card groups; tied: accesses an adopted key, or a group whose members are
\* locked, names; rekeyed: those of adopted keys Bifrost serves by other provider keys today.
\* An access is on one card, once.
ASSUME EditorAssumption ==
    /\ Declared \in [Accesses -> SUBSET Endpoints]
    /\ MaxEdits \in Nat /\ MaxSaves \in Nat /\ MaxElsewhere \in Nat
    /\ Accesses \cap References = {}
    /\ Unlinked \notin Links /\ Nothing \notin Targets /\ Nothing \notin Values
    /\ \A f \in Files :
        /\ f \in [id : {f.id}, name : {f.name},
                  rows : Seq([access : Accesses, takes : SUBSET Endpoints]),
                  held : [TakenIds -> SUBSET Accesses], cat : Catalogues,
                  discovered : SUBSET Accesses, keys : SUBSET KeyUses,
                  tied : SUBSET Accesses, rekeyed : SUBSET Accesses]
        /\ f.id \notin TakenIds
        /\ \A i \in DOMAIN f.rows, c \in TakenIds : f.rows[i].access \notin f.held[c]
        /\ \A i, j \in DOMAIN f.rows : f.rows[i].access = f.rows[j].access => i = j

VARIABLES
    file,       \* the registry file: the card, what other cards hold, the catalogue
    catalogue,  \* the panel's copy of the catalogue
    card,       \* the draft: the card being edited, or Nothing
    staged,     \* the corrections staged with it
    edits,
    last,       \* the last save
    saves,
    elsewhere   \* changes made elsewhere

editorVars == <<file, catalogue, card, staged, edits, last, saves, elsewhere>>

BlankRow == [access |-> Nothing, takes |-> {}, ref |-> Nothing, status |-> "Unknown"]
NoCorrection == [t \in Targets |-> Nothing]
NoSave == [ok |-> TRUE]

-----------------------------------------------------------------------------
(* What the panel computes.                                                *)

Creating == file.rows = <<>>

\* The rows of the card as the workspace shows them.
Saved == [i \in DOMAIN file.rows |->
            [access |-> file.rows[i].access, takes |-> file.rows[i].takes,
             ref |-> file.cat.link[file.rows[i].access], status |-> "Configured"]]

RowAccesses(rows) == {rows[i].access : i \in DOMAIN rows}
Held(rows) == RowAccesses(rows) \ {Nothing}

\* The accesses of the cards that are not the one named id; no card is named Nothing.
HeldBeside(id) == UNION {file.held[c] : c \in TakenIds \ {id}}
HeldByOthers == UNION {file.held[c] : c \in TakenIds}

\* viewCatalog: the panel's catalogue with the staged corrections.
View == [catalogue EXCEPT !.own = [t \in Targets |-> IF staged[t] # Nothing THEN staged[t] ELSE @[t]]]

\* A row's reference: its own, else the catalogue's.
LinkOf(cat, row) ==
    IF row.ref # Nothing THEN row.ref
    ELSE IF row.access \in cat.listed THEN cat.link[row.access] ELSE Nothing

\* Mutant of Inherited: an access inherits what it omits.
InheritedAnyway(cat, a, ref) == IF ref \notin References THEN Nothing ELSE cat.own[ref]

Inherited(cat, a, ref) ==
    IF ref \notin References \/ a \in cat.omits THEN Nothing ELSE cat.own[ref]

\* catalogFact: the access's own fact, else its reference's.
Fact(cat, a, ref) == IF cat.own[a] # Nothing THEN cat.own[a] ELSE Inherited(cat, a, ref)

RowOf(rows, a) == rows[CHOOSE i \in DOMAIN rows : rows[i].access = a]

\* accessFact: what the editor shows of the accesses of the card.
ShownFacts ==
    [a \in Held(card.rows) \cap catalogue.listed |-> Fact(View, a, LinkOf(View, RowOf(card.rows, a)))]

\* Mutant of LinkInDraft: the links of the draft are not looked at.
LinkInCatalogue(cat, rows, a) == cat.link[a]

LinkInDraft(cat, rows, a) ==
    IF a \in RowAccesses(rows) THEN LinkOf(cat, RowOf(rows, a)) ELSE cat.link[a]

\* previewRows: the accesses a correction reaches.
Reached(t) ==
    {a \in catalogue.listed : IF t \in References THEN LinkInDraft(View, card.rows, a) = t ELSE a = t}

\* proposedAccessValue: what such an access reads once t is corrected to v.
Proposed(t, v, a) ==
    LET ref == LinkInDraft(View, card.rows, a)
    IN  IF a = t \/ (ref = t /\ View.own[a] = Nothing /\ a \notin catalogue.omits) THEN v
        ELSE Fact(View, a, ref)

\* What a dialog shows of t before it is corrected.
ShownValue(t) ==
    IF t \in References THEN View.own[t] ELSE Fact(View, t, LinkInDraft(View, card.rows, t))

\* PreviewRows: "Applies to".
Affected(t, v) ==
    {a \in Reached(t) : Proposed(t, v, a) # Fact(View, a, LinkInDraft(View, card.rows, a))}

\* The reference all the accesses of the card share.
DisplayedReferences ==
    {r \in References : /\ Held(card.rows) # {}
                        /\ \A i \in DOMAIN card.rows :
                             card.rows[i].access # Nothing => LinkOf(View, card.rows[i]) = r}

\* editButton: the records whose fact can be corrected.
Correctable == DisplayedReferences \cup (Held(card.rows) \cap catalogue.listed)

\* Mutant of Matching: an access of another card is offered too.
MatchingAny(cat, named, known) ==
    {a \in cat.configured :
        \/ Called[a] \in named \cup {Called[b] : b \in Held(known)}
        \/ a \in Held(known)
        \/ /\ cat.link[a] \in {known[i].ref : i \in DOMAIN known} \cap References
           /\ a \notin Prefixed}

\* matchingAccesses: the configured accesses that are this model.  Those of a saved card are left
\* out, except where that card has the identifier the draft has.
Matching(cat, named, known) ==
    {a \in cat.configured :
        /\ \/ Called[a] \in named \cup {Called[b] : b \in Held(known)}
           \/ a \in Held(known)
           \/ /\ cat.link[a] \in {known[i].ref : i \in DOMAIN known} \cap References
              /\ a \notin Prefixed
        /\ a \notin HeldBeside(card.id)}

CardNames == IF card.id = Nothing THEN {} ELSE {CardName[card.id]}

\* alsoAvailable: those the card does not have, and those just taken off it.
AlsoAvailable == Matching(View, CardNames, card.rows \o Saved) \ Held(card.rows)

\* A new card has one blank row until an access is added.
Filled(rows) == IF rows = <<BlankRow>> THEN <<>> ELSE rows

\* Where the saved card has an access; a new one goes after them.
PlaceOf(a) == IF \E i \in DOMAIN Saved : Saved[i].access = a
                THEN CHOOSE i \in DOMAIN Saved : Saved[i].access = a ELSE Len(Saved) + 1

\* Mutant of Orders: an access comes back at the end of the card.
Unordered(rows) == {[i \in DOMAIN rows |-> i]}

\* The order that sorts the rows by their places, and leaves those of one place as they are.
Orders(rows) ==
    {p \in [DOMAIN rows -> DOMAIN rows] :
        \A i, j \in DOMAIN rows : i < j =>
            LET before == PlaceOf(rows[p[i]].access)
                after == PlaceOf(rows[p[j]].access)
            IN  before < after \/ (before = after /\ p[i] < p[j])}

Placed(rows, p) == [i \in DOMAIN rows |-> rows[p[i]]]

NewRow(a) ==
    [access |-> a, takes |-> Declared[a], ref |-> View.link[a], status |-> "Configured"]

SavedRows(a) == {Saved[i] : i \in {j \in DOMAIN Saved : Saved[j].access = a}}

\* firstRegistrationIssue.
Complete(d) ==
    /\ d.id # Nothing
    /\ d.name # Nothing
    /\ d.rows # <<>>
    /\ \A i \in DOMAIN d.rows : d.rows[i].access # Nothing /\ d.rows[i].takes # {}

CanSave == Complete(card)

NothingToSave ==
    ~Creating /\ staged = NoCorrection /\ card.rows = Saved /\ card.name = file.name

\* updateModel's own check: the card's accesses are named by their providers.
UniqueIds(rows) ==
    \A i, j \in DOMAIN rows : i # j => ProviderOf[rows[i].access] # ProviderOf[rows[j].access]

LinkChanges(rows) ==
    {rows[i].access : i \in {j \in DOMAIN rows :
        \E s \in SavedRows(rows[j].access) : s.ref # rows[j].ref}}

\* reviewChanges, accessChanges and the staged corrections: what the review lists.
Review ==
    [name |-> card.name # file.name,
     accesses |-> (RowAccesses(card.rows) \ RowAccesses(Saved))
                    \cup (RowAccesses(Saved) \ RowAccesses(card.rows)),
     links |-> LinkChanges(card.rows),
     requests |-> {card.rows[i].access : i \in {j \in DOMAIN card.rows :
                      \E s \in SavedRows(card.rows[j].access) : s.takes # card.rows[j].takes}},
     corrections |-> {t \in Targets : staged[t] # Nothing}]

EmptyReview == [name |-> FALSE, accesses |-> {}, links |-> {}, requests |-> {}, corrections |-> {}]

-----------------------------------------------------------------------------
(* What is sent, and what the server does with it.                         *)

\* Mutant of Sent: a reference taken away is not sent.
SentLinks(rows) ==
    [i \in DOMAIN rows |->
        IF rows[i].ref = Unlinked \/ \E s \in SavedRows(rows[i].access) : s.ref = rows[i].ref
          THEN Nothing ELSE rows[i].ref]

\* omitUnchangedReferenceIds: no value leaves the catalogue's link alone.
Sent(rows) ==
    [i \in DOMAIN rows |->
        IF \E s \in SavedRows(rows[i].access) : s.ref = rows[i].ref THEN Nothing ELSE rows[i].ref]

\* putWorkspace reads every card again: accesses Bifrost does not list, of this card or another.
NotListed(rows) == (RowAccesses(rows) \cup HeldByOthers) \ file.discovered

\* "Duplicate model access".
HeldTwice(rows) == RowAccesses(rows) \cap HeldByOthers

TakenOff(rows) == RowAccesses(file.rows) \ RowAccesses(rows)

\* validateAdoptedWorkspaceModels, and the groups whose members are locked.
Untied(rows) == (file.tied \cap TakenOff(rows)) \cup file.rekeyed

\* updateModel: an access taken off leaves the selections; an empty one chooses nothing.
ChoiceLeft(k, rows) ==
    LET left == [added |-> k.chose.added \ TakenOff(rows), excluded |-> k.chose.excluded \ TakenOff(rows)]
    IN  IF k.chose = Nothing \/ left = k.chose THEN k.chose
        ELSE IF left.added \cup left.excluded = {} THEN Nothing ELSE left

Withheld(offers, chose) == chose = Nothing /\ \E a, b \in offers : a # b

\* Compile and NewAmbiguity: keys that have the card by a choice that does not hold any more, or
\* that would now have to make one.
Unserved(rows) ==
    {k \in file.keys :
        LET offers == RowAccesses(rows) \cap k.may
            chose == ChoiceLeft(k, rows)
            kept == IF chose = Nothing THEN offers ELSE offers \ chose.excluded
        IN  \/ Withheld(offers, chose) /\ ~Withheld(RowAccesses(file.rows) \cap k.may, k.chose)
            \/ chose # Nothing /\ offers # {} /\ (kept = {} \/ ~(chose.added \subseteq offers))
            \/ ~Withheld(offers, chose) /\ k.prefer \notin kept \cup {Nothing}}

\* putWorkspace, as far as a card is concerned.
Accepts(rows) ==
    /\ NotListed(rows) = {} /\ HeldTwice(rows) = {} /\ Untied(rows) = {} /\ Unserved(rows) = {}
    /\ UniqueIds(rows)

LinkAsked(sent) == IF sent = Unlinked THEN Nothing ELSE sent

\* The rows of an access that name its reference.
Naming(rows, a) == {i \in DOMAIN rows : rows[i].access = a /\ Sent(rows)[i] # Nothing}
Named(rows, a) == LinkAsked(Sent(rows)[CHOOSE i \in Naming(rows, a) : TRUE])

\* setWorkspaceReference: an explicit reference is the operator's, except where it is the one
\* there is.
Linked(cat, rows) ==
    LET new == {a \in Accesses : Naming(rows, a) # {} /\ Named(rows, a) # cat.link[a]}
        added == {a \in Accesses \ cat.listed : Naming(rows, a) # {}}
    IN  [cat EXCEPT !.link = [a \in Accesses |-> IF a \in new THEN Named(rows, a) ELSE @[a]],
                    !.chosen = @ \cup new \cup added,
                    !.listed = @ \cup added,
                    !.configured = @ \cup added]

\* EffectiveAccessCatalogFields.
Effective(cat, a) ==
    IF cat.own[a] # Nothing THEN cat.own[a]
    ELSE IF cat.link[a] = Nothing \/ a \in cat.omits THEN Nothing ELSE cat.own[cat.link[a]]

\* applyCatalogOverride.
Corrected(cat) == [cat EXCEPT !.own = [t \in Targets |-> IF staged[t] # Nothing THEN staged[t] ELSE @[t]]]

-----------------------------------------------------------------------------
(* The operator at the editor.                                             *)

SavedCard ==
    [id |-> file.id, name |-> file.name, rows |-> Saved, typed |-> FALSE, borrowed |-> {}]

\* openModel, newModel.
Open ==
    /\ card = Nothing
    /\ card' = IF Creating THEN [id |-> Nothing, name |-> Nothing, rows |-> <<BlankRow>>,
                                   typed |-> FALSE, borrowed |-> {}]
                            ELSE SavedCard
    /\ staged' = NoCorrection
    /\ edits' = 0
    /\ UNCHANGED <<file, catalogue, last, saves, elsewhere>>

Editing == card # Nothing /\ edits + elsewhere < MaxEdits /\ saves < MaxSaves

Edit(d) ==
    /\ edits' = edits + 1
    /\ card' = d
    /\ UNCHANGED <<file, catalogue, last, saves, elsewhere>>

\* prefillFromReference: a missing name is the reference's, if it has one.
Prefilled(name) == {name} \cup (IF name = Nothing THEN Names ELSE {})

\* chooseModelId.
ChooseId(i, name) ==
    /\ Editing /\ Creating
    /\ card.id # i
    /\ name \in Prefilled(card.name)
    /\ Edit([card EXCEPT !.id = i, !.name = name])
    /\ UNCHANGED staged

\* The name field of a new card, and the identity dialog, which keeps no empty name.
TypeName(name) ==
    /\ Editing
    /\ name # card.name
    /\ name = Nothing => Creating
    /\ Edit([card EXCEPT !.name = name])
    /\ UNCHANGED staged

\* What the saved card under this identifier groups.
HeldAs(id) == IF id \in TakenIds THEN file.held[id] ELSE {}

\* toggleCatalogAccess: a saved access comes back as saved.
AddOffered(a) ==
    /\ Editing
    /\ a \in AlsoAvailable
    /\ \E row \in (IF SavedRows(a) # {} THEN SavedRows(a) ELSE {NewRow(a)}) :
          LET rows == Append(Filled(card.rows), row)
          IN  \E p \in Orders(rows) :
                 Edit([card EXCEPT !.rows = Placed(rows, p),
                                   !.borrowed = @ \cup ({a} \cap HeldAs(card.id))])
    /\ UNCHANGED staged

RemoveRow(i) ==
    /\ Editing
    /\ i \in DOMAIN card.rows /\ card.rows[i].access # Nothing
    /\ Edit([card EXCEPT !.rows = RemoveAt(@, i)])
    /\ UNCHANGED staged

\* The access dialog also takes off an access, but never the last one.
DialogRemove(i) ==
    /\ card # Nothing
    /\ Len(card.rows) > 1
    /\ RemoveRow(i)

SetEndpoints(i, takes) ==
    /\ Editing
    /\ i \in DOMAIN card.rows /\ card.rows[i].access # Nothing
    /\ takes # card.rows[i].takes
    /\ Edit([card EXCEPT !.rows[i].takes = takes])
    /\ UNCHANGED staged

\* stageCatalogOverride: restoring the record's own fact takes the correction away.
StageCorrection(t, v) == staged' = [staged EXCEPT ![t] = IF v = catalogue.own[t] THEN Nothing ELSE v]

CanKeep(rows, i) ==
    /\ rows[i].takes # {}
    /\ \A j \in DOMAIN rows : rows[j].access # Nothing

SameModel(a, b) == Called[a] = Called[b] /\ (a \in Prefixed <=> b \in Prefixed)

\* The access dialog, kept: another provider, reference or status, and a typed correction.  The
\* model of a discovered access is read-only, so another provider's is a row typed by hand.
KeepAccess(i, a, ref, status, v) ==
    /\ Editing
    /\ i \in DOMAIN card.rows
    /\ LET old == card.rows[i]
           row == [access |-> a, takes |-> old.takes, ref |-> ref, status |-> status]
           rows == [card.rows EXCEPT ![i] = row]
       IN  /\ row # old \/ v # Nothing
           /\ CanKeep(rows, i)
           /\ IF old.access \in catalogue.listed THEN SameModel(row.access, old.access) ELSE TRUE
           /\ row.ref = Unlinked => old.ref \in References \cup {Unlinked}
           /\ row.ref = Nothing => old.ref = Nothing
           /\ IF v = Nothing THEN UNCHANGED staged
              ELSE /\ row.access \in catalogue.listed
                   /\ v # Fact(View, row.access, LinkOf(View, row))
                   /\ StageCorrection(row.access, v)
           /\ \E name \in IF ref \in References \ {old.ref} THEN Prefilled(card.name) ELSE {card.name} :
                 Edit([card EXCEPT !.name = name, !.rows = rows,
                                    !.typed = @ \/ row.access # old.access])

\* Enter access manually.
EnterManually(a, takes) ==
    /\ Editing
    /\ takes # {}
    /\ Edit([card EXCEPT !.rows = Append(Filled(@),
                [access |-> a, takes |-> takes, ref |-> Nothing, status |-> "Unknown"]),
             !.typed = TRUE])
    /\ UNCHANGED staged

\* saveProperty, keepValueEdits: a correction of the shared reference or of an access.
Correct(t, v) ==
    /\ Editing
    /\ t \in Correctable
    /\ v # ShownValue(t)
    /\ StageCorrection(t, v)
    /\ Edit(card)

\* revert: Cancel in the editor of a saved card.
Discard ==
    /\ card # Nothing /\ ~Creating
    /\ card' = SavedCard
    /\ staged' = NoCorrection
    /\ edits' = 0
    /\ UNCHANGED <<file, catalogue, last, saves, elsewhere>>

Close ==
    /\ card # Nothing
    /\ card' = Nothing /\ staged' = NoCorrection /\ edits' = 0
    /\ UNCHANGED <<file, catalogue, last, saves, elsewhere>>

\* updateModel and putWorkspace.
Save ==
    /\ card # Nothing
    /\ saves < MaxSaves
    /\ CanSave /\ ~NothingToSave
    /\ UniqueIds(card.rows)
    /\ Creating => card.id \notin TakenIds
    /\ saves' = saves + 1
    /\ LET next == Linked(Corrected(file.cat), card.rows)
           ok == Accepts(card.rows)
           rows == [i \in DOMAIN card.rows |->
                      [access |-> card.rows[i].access, takes |-> card.rows[i].takes]]
       IN  /\ last' = [ok |-> ok, typed |-> card.typed, fresh |-> catalogue = file.cat,
                       review |-> Review, shown |-> ShownFacts,
                       lost |-> NotListed(card.rows), twice |-> HeldTwice(card.rows),
                       untied |-> Untied(card.rows), unserved |-> Unserved(card.rows),
                       borrowed |-> card.borrowed,
                       sent |-> {card.rows[i].access : i \in {j \in DOMAIN card.rows :
                                    Sent(card.rows)[j] = Unlinked}},
                       before |-> [rows |-> file.rows, cat |-> file.cat, name |-> file.name],
                       after |-> IF ok THEN next ELSE file.cat]
           /\ IF ok
                THEN /\ file' = [file EXCEPT !.id = card.id, !.name = card.name, !.rows = rows,
                                             !.cat = next, !.keys = {[k EXCEPT !.chose = ChoiceLeft(k, card.rows)] : k \in @}]
                     /\ card' = Nothing /\ staged' = NoCorrection /\ edits' = 0
                ELSE UNCHANGED <<file, card, staged, edits>>
    /\ UNCHANGED <<catalogue, elsewhere>>

\* loadReferenceCatalog, whenever the revision moved.
LoadCatalogue ==
    /\ catalogue # file.cat
    /\ catalogue' = file.cat
    /\ UNCHANGED <<file, card, staged, edits, last, saves, elsewhere>>

\* A link set on another page, or by a refresh; the panel has reloaded the cards.
ChangedElsewhere(a, r, byOperator) ==
    /\ card = Nothing
    /\ elsewhere < MaxElsewhere /\ saves < MaxSaves
    /\ a \in file.cat.listed /\ file.cat.link[a] # r
    /\ ~byOperator => file.cat.link[a] = Nothing /\ a \notin file.cat.chosen
    /\ file' = [file EXCEPT !.cat.link[a] = r,
                            !.cat.chosen = IF byOperator THEN @ \cup {a} ELSE @]
    /\ elsewhere' = elsewhere + 1
    /\ UNCHANGED <<catalogue, card, staged, edits, last, saves>>

EditorInit ==
    /\ file \in Files
    /\ catalogue = file.cat
    /\ card = Nothing
    /\ staged = NoCorrection
    /\ edits = 0
    /\ last = NoSave
    /\ saves = 0
    /\ elsewhere = 0

EditorNext ==
    \/ Open
    \/ \E i \in Ids, name \in Names \cup {Nothing} : ChooseId(i, name)
    \/ \E name \in Names \cup {Nothing} : TypeName(name)
    \/ \E a \in Accesses : AddOffered(a)
    \/ \E i \in 1 .. Cardinality(Accesses) : RemoveRow(i) \/ DialogRemove(i)
    \/ \E i \in 1 .. Cardinality(Accesses), takes \in SUBSET Endpoints : SetEndpoints(i, takes)
    \/ \E i \in 1 .. Cardinality(Accesses), a \in Accesses, ref \in Links \cup {Unlinked},
         status \in {"Configured", "Unknown"}, v \in Values \cup {Nothing} :
            KeepAccess(i, a, ref, status, v)
    \/ \E a \in Accesses, takes \in SUBSET Endpoints : EnterManually(a, takes)
    \/ \E t \in Targets, v \in Values : Correct(t, v)
    \/ Discard
    \/ Close
    \/ Save
    \/ LoadCatalogue
    \/ \E a \in Accesses, r \in Links, by \in BOOLEAN : ChangedElsewhere(a, r, by)

EditorSpec == EditorInit /\ [][EditorNext]_editorVars

-----------------------------------------------------------------------------
(* Properties.                                                             *)

SavedOk == last.ok /\ last # NoSave

\* The facts the editor showed for the accesses of the card when it was saved are those the
\* server composes from the file it wrote: corrections, links and omissions agree on both sides.
ShownIsApplied ==
    SavedOk /\ last.fresh =>
        \A a \in DOMAIN last.shown : last.shown[a] = Effective(last.after, a)

\* A draft in which nothing was typed by hand has another card's access only where the editor
\* offered it while the new card carried that card's identifier.  Beside those, the server refuses
\* it only for what the editor does not look at: an access of this or of another card Bifrost lists
\* no more, or serves an adopted key by other provider keys; one taken off that an adopted key or a
\* locked group names; or a key the card's accesses leave with none, or with one to choose.
OfferedIsAccepted ==
    last # NoSave /\ ~last.typed =>
        /\ last.twice \subseteq last.borrowed
        /\ last.ok \/ last.twice # {} \/ last.lost # {} \/ last.untied # {} \/ last.unserved # {}

\* Whatever a save changed, the review it was confirmed on listed: the links of accesses the card
\* keeps, every corrected record and, however old the panel's catalogue, nothing of other cards.
ReviewListsChanges ==
    SavedOk =>
        LET was == last.before.cat
            now == last.after
            kept == {last.before.rows[i].access : i \in DOMAIN last.before.rows}
        IN  /\ {t \in Targets : was.own[t] # now.own[t]} \subseteq last.review.corrections
            /\ {a \in Accesses : was.link[a] # now.link[a]}
                 \subseteq last.review.links \cup (last.review.accesses \ kept)

\* What was confirmed is what was done: the facts shown are those in force after, and the review
\* listed every change.
SavedIsAsShown == ShownIsApplied /\ ReviewListsChanges

\* An access taken off a card and added back leaves the card as saved, wherever it was in it.
ComesBackAsSaved ==
    card # Nothing /\ ~Creating =>
        (({card.rows[i] : i \in DOMAIN card.rows} = {Saved[i] : i \in DOMAIN Saved}
            /\ Len(card.rows) = Len(Saved) /\ ~card.typed)
           => card.rows = Saved)

FactsInDraft ==
    [a \in catalogue.listed |->
        IF a \in DOMAIN ShownFacts THEN ShownFacts[a] ELSE Fact(View, a, catalogue.link[a])]

\* A correction kept in the draft changes what the preview said, access by access, and nothing
\* else: for those of other cards too.
KeptAsPreviewed ==
    (card # Nothing /\ card' = card /\ edits' = edits + 1 /\ staged' # staged) =>
        \A t \in {u \in Targets : staged'[u] # staged[u]} :
            LET v == View'.own[t]
                affected == Affected(t, v)
                now == FactsInDraft
            IN  FactsInDraft' =
                    [a \in catalogue.listed |-> IF a \in affected THEN Proposed(t, v, a) ELSE now[a]]

KeepMatchesPreview == [][KeptAsPreviewed]_editorVars

\* "An access another card holds is never offered (Bifrost routes one access to one card)."
NeverOffersHeld == card # Nothing => AlsoAvailable \cap HeldByOthers = {}

\* "Changes are added to the draft after confirmation, then reviewed before saving."
EditsAreReviewed ==
    card # Nothing /\ ~Creating /\ card.rows # Saved => Review # EmptyReview

\* "An explicit empty reference records a manual unlink so a later source refresh cannot rematch it."
UnlinkIsRecorded == SavedOk => last.sent \subseteq last.after.chosen
=============================================================================
