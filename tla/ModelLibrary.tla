------------------------------ MODULE ModelLibrary ------------------------------
(***************************************************************************)
(* What the pages of models compute (ui/src/features/catalog/):            *)
(* reference-groups.ts groups the accesses Bifrost lists into tiles, and   *)
(* ReferenceCatalogBrowser.tsx says what opening a tile does.  No state:   *)
(* a workspace w is the panel's copy of the cards, with the reference of   *)
(* each access (w.cards, w.link), and a catalogue c its copy of the        *)
(* catalogue, or Nil while it loads.                                       *)
(***************************************************************************)
EXTENDS Naturals, FiniteSets

CONSTANTS
    Accesses,    \* pairs of a provider and a model of its own
    ProviderOf,  \* ProviderOf[a]
    Called,      \* Called[a]: its model's name, aggregator's prefix and punctuation aside
    Prefixed,    \* accesses whose name has an aggregator's prefix
    Ids,         \* identifiers of cards
    CardName,    \* CardName[i]: the name identifier i stands for
    Discovered,  \* Discovered[i]: the accesses Bifrost lists under identifier i
    References,
    Nil

ASSUME LibraryAssumption ==
    /\ Discovered \in [Ids -> SUBSET Accesses]
    /\ \A i, j \in Ids : i # j => Discovered[i] \cap Discovered[j] = {}
    /\ Nil \notin References /\ Nil \notin Ids

Saved(w) == {i \in Ids : w.cards[i] # {}}
Held(w) == UNION {w.cards[i] : i \in Ids}

-----------------------------------------------------------------------------
(* Tiles: sets of entries, an entry being an access and the identifier it  *)
(* is under.                                                               *)

Entries(models) == UNION {{[id |-> i, access |-> a] : a \in models[i]} : i \in Ids}

\* unsavedModels: what no card holds keeps the identifier it was discovered under.
ToAdd(w) == [i \in Ids |-> Discovered[i] \ Held(w)]

\* Saved cards and what is left to add.
Known(w) == Entries(w.cards) \cup Entries(ToAdd(w))

\* The reference of an access: the catalogue's, or the one it carries until it is loaded.
ReferenceOf(w, c, a) ==
    IF c = Nil THEN w.link[a] ELSE IF a \in c.listed THEN c.link[a] ELSE Nil

\* The key of a tile: the reference, else the identifier.
KeyOf(w, c, e) ==
    LET ref == ReferenceOf(w, c, e.access)
    IN  [reference |-> ref, model |-> IF ref = Nil THEN e.id ELSE Nil]

\* groupReferenceModels.
Tiles(entries, w, c) == {{e \in entries : KeyOf(w, c, e) = k} : k \in {KeyOf(w, c, e) : e \in entries}}

\* The complete group of a tile, across saved cards and models to add.
Complete(tile, w, c) == UNION {g \in Tiles(Known(w), w, c) : tile \subseteq g}

IdsOf(g) == {e.id : e \in g}
AccessesOf(g) == {e.access : e \in g}
RegisteredIn(g, w) == IdsOf(g) \cap Saved(w)

\* cardEntries, cardsHolding: the same identifier and the same access.
Holding(g, w) == {i \in Ids : \E e \in g : e.id = i /\ e.access \in w.cards[i]}
Available(g, w) == {e \in g : e.access \notin w.cards[e.id]}

\* matchingAccesses: the configured accesses that are the model of card i.
Offered(i, w, c) ==
    {a \in c.configured :
        /\ \/ Called[a] \in {CardName[i]} \cup {Called[b] : b \in w.cards[i]}
           \/ a \in w.cards[i]
           \/ c.link[a] \in {w.link[b] : b \in w.cards[i]} \ {Nil} /\ a \notin Prefixed
        /\ \A j \in Ids \ {i} : a \notin w.cards[j]}

\* alsoAvailable: what the editor of a saved card offers to add.
AlsoAvailable(i, w, c) == Offered(i, w, c) \ w.cards[i]

\* Mutant of Joinable: every card that holds the model.
JoinableHolding(g, w, c) == Holding(g, w)

\* joinableCards: they hold the model, and the editor would offer them one of its accesses.
Joinable(g, w, c) ==
    {i \in Holding(g, w) : Offered(i, w, c) \cap AccessesOf(Available(g, w)) \cap c.listed # {}}

-----------------------------------------------------------------------------
(* Opening a tile.                                                         *)

SameProvider(accesses) == \E a, b \in accesses : a # b /\ ProviderOf[a] = ProviderOf[b]

\* A card that holds another model of a provider of the group.
Conflicting(g, w) ==
    \E i \in RegisteredIn(g, w) : \E a \in w.cards[i], b \in AccessesOf(g) :
        ProviderOf[a] = ProviderOf[b] /\ a # b

\* The operator has to choose the identifier.
NeedsChoice(g, w) ==
    \/ Cardinality(RegisteredIn(g, w)) > 1
    \/ SameProvider(AccessesOf(g))
    \/ Cardinality(RegisteredIn(g, w)) = 1 /\ Conflicting(g, w)
    \/ RegisteredIn(g, w) = {} /\ Cardinality(IdsOf(g)) > 1

\* "combines the accesses", else "opens separately".
Combines(g, w) == RegisteredIn(g, w) = {} /\ ~SameProvider(AccessesOf(g))

\* draftFor: all the accesses of the group, under one identifier; a reference it does not carry
\* is the catalogue's.
DraftFor(g, i, w, c) ==
    [id |-> i, combined |-> TRUE, accesses |-> AccessesOf(g),
     ref |-> [a \in Accesses |-> IF a \notin AccessesOf(g) THEN Nil
                                 ELSE IF w.link[a] # Nil THEN w.link[a] ELSE ReferenceOf(w, c, a)]]

\* A model as discovered, less what cards hold.
DraftAlone(i, w) ==
    [id |-> i, combined |-> FALSE, accesses |-> ToAdd(w)[i],
     ref |-> [a \in Accesses |-> IF a \in ToAdd(w)[i] THEN w.link[a] ELSE Nil]]
=============================================================================
