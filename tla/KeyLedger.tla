------------------------------- MODULE KeyLedger --------------------------------
(***************************************************************************)
(* What an adopted key can call, as its page says it                       *)
(* (ui/src/features/keys/KeySummary.tsx), over the check of the server     *)
(* (readback, internal/admin/live.go, expectedRoutes and diffModels in     *)
(* adoption.go).  It continues KeyAdoption: a key is adopted by the dialog *)
(* or elsewhere, then its page is shown, its selection published, its      *)
(* models read back.                                                       *)
(*                                                                         *)
(* The page counts models from four things that age apart: the selection   *)
(* and the cards of the last workspace read, Bifrost's permissions of that *)
(* read, and the model ids Bifrost listed when the key was last checked.   *)
(* Bifrost may change, another program may save, the server may restart,   *)
(* between any two of them and between the reads of a check.               *)
(*                                                                         *)
(* A name is both a native model and the common id of its card; an id is   *)
(* <<provider, name>>, or <<TheKey, name>> for a common id.  The groups,   *)
(* the display names, the local copy (snapshotMode) and the blacklists are *)
(* left out; no model waits for a choice, as an adopted key takes one      *)
(* access of each; a save that fails halfway is PanelSession's.            *)
(***************************************************************************)
EXTENDS KeyAdoption

CONSTANTS
    EmptyAllows,  \* whether this Bifrost reads an empty list as every model
    Changes,      \* what Bifrost may become after the adoption, cards aside
    MaxSaves      \* bound on the saves after the adoption

ASSUME LedgerAssumption == EmptyAllows \in BOOLEAN /\ Changes \subseteq Worlds /\ MaxSaves \in Nat

Namings == {"model", "provider/model", "both"}

VARIABLES
    selection,  \* the policy's part the operator edits, None until adopted
    revision,   \* of the configuration
    proof,      \* the server's last check, in memory; None after a restart
    check,      \* the check under way
    page        \* the workspace the panel shows, None until it shows the key managed

keyPage == <<selection, revision, proof, check, page>>
ledgerVars == <<vars, keyPage>>

(***************************************************************************)
(* The server and Bifrost.                                                 *)
(***************************************************************************)
Accesses(cards, n) == {x \in DOMAIN cards : x[2] = n /\ cards[x] # "none"}

\* The ids a key exposes for an access of a card.
NamedIds(naming, x) ==
    When(naming # "provider/model", {<<TheKey, x[2]>>}) \cup When(naming # "model", {x})

\* The adopted key takes one access of each card and excludes the others.
AdoptedSelection(cards, added) ==
    [members |-> {x[2] : x \in added}, naming |-> "provider/model",
     excluded |-> (UNION {Accesses(cards, x[2]) : x \in added}) \ added]

\* The Registry routes of a selection: never beyond what was adopted.
RoutesOf(s) == {x \in policy.added : x[2] \in s.members} \ s.excluded

Exposed == UNION {NamedIds(selection.naming, x) : x \in RoutesOf(selection)}

\* The explicit routes of the kept providers.
KeptRoutes(rows, keep) == {x \in (keep \cap DOMAIN rows) \X Names : x[2] \in Static(rows, x[1])}

Expected(rows) == Exposed \cup KeptRoutes(rows, policy.keptNative)

\* What Bifrost lists for the key: the models a provider lists and its row
\* allows, projected by the plugin.
Native(w) == {x \in w.disc : IF x[1] \in DOMAIN w.rows /\ w.rows[x[1]] = {}
                             THEN EmptyAllows ELSE Allows(w, x[1], x[2])}

Callable ==
    (UNION {NamedIds(selection.naming, x) : x \in RoutesOf(selection) \cap Native(world)})
      \cup {x \in Native(world) : x[1] \in policy.keptNative}

\* diffModels: a kept provider's routes are neither missing nor unexpected.
Besides(ids) == {x \in ids : x \in Exposed \/ x[1] \notin policy.keptNative}

Unread == [state |-> "not_verified", revision |-> revision, actual |-> None,
           missing |-> {}, unexpected |-> {}, since |-> foreign]

\* The check of the workspace's answer: one of another revision only keeps
\* the ids it read.
ProofShown ==
    IF proof = None THEN Unread
    ELSE IF proof.revision # revision THEN [Unread EXCEPT !.actual = proof.actual] ELSE proof

Workspace ==
    [revision |-> revision, cards |-> world.cards, all |-> world.all, rows |-> world.rows,
     selection |-> selection, kept |-> policy.keptNative, publication |-> ProofShown]

(***************************************************************************)
(* The page.                                                               *)
(***************************************************************************)
\* The ids the ledger confirms routes with: none before a verdict.
Actual(s) == IF s.publication.state = "not_verified" THEN None ELSE s.publication.actual

ListedOn(s, ids) == Actual(s) = None \/ Actual(s) \cap ids # {}

\* The accesses of the selection, by whether Bifrost listed one of their ids.
RegistryOn(s, n, listed) ==
    {x[1] : x \in {y \in Accesses(s.cards, n) \ s.selection.excluded :
                      /\ n \in s.selection.members
                      /\ ListedOn(s, NamedIds(s.selection.naming, y)) = listed}}

\* Why a kept provider leaves the total open: not read, every model, or
\* what the Bifrost version makes of an empty list.
OpenOn(s) ==
    {p \in s.kept : IF p \in DOMAIN s.rows THEN Star \in s.rows[p] \/ s.rows[p] = {} ELSE TRUE}

\* Mutant: the kept routes are counted as Bifrost's permissions have them.
KeptAsAllowed(s, n, listed) ==
    {x[1] : x \in {y \in KeptRoutes(s.rows, s.kept \ OpenOn(s)) : y[2] = n /\ listed}}

KeptOn(s, n, listed) ==
    {x[1] : x \in {y \in KeptRoutes(s.rows, s.kept \ OpenOn(s)) :
                      y[2] = n /\ ListedOn(s, {y}) = listed}}

\* keyLedger: a provider already counted for the model is not flagged as well.
Via(s, n) == RegistryOn(s, n, TRUE) \cup KeptOn(s, n, TRUE)
NotListed(s, n) == RegistryOn(s, n, FALSE) \cup (KeptOn(s, n, FALSE) \ RegistryOn(s, n, TRUE))

Counted(s) == {n \in Names : Via(s, n) # {}}
Differences(s) == {x \in Provs \X Names : x[1] \in NotListed(s, x[2])}

\* The chip: a verified key with differences never reads as plainly verified.
Badge(s) ==
    CASE s.publication.state = "verified" ->
            IF Differences(s) = {} THEN "verified" ELSE "differences"
      [] s.publication.state = "drift"    -> "drift"
      [] OTHER                            -> "unchecked"

\* The sentence of the page: how many models, at least or exactly, and
\* whether Bifrost was asked.
Headline(s) ==
    [count |-> Counted(s), atLeast |-> OpenOn(s) # {}, asked |-> Badge(s) # "unchecked"]

\* The rows under it: the providers of each model, and those Bifrost does
\* not list it for.
Told(s) ==
    [n \in {m \in Names : Via(s, m) \cup NotListed(s, m) # {}} |->
        [via |-> Via(s, n), notListed |-> NotListed(s, n)]]

\* The publication card: the ids last listed, whatever the verdict, and
\* what differs when they do.
PublicationCard(s) ==
    [badge |-> Badge(s),
     ids |-> IF s.publication.actual = None THEN {} ELSE s.publication.actual,
     missing |-> s.publication.missing, unexpected |-> s.publication.unexpected]

\* A check that gave the panel no answer takes the verdict off the page.
Failed(s, actual) ==
    [s EXCEPT !.publication = [@ EXCEPT !.state = "not_verified", !.actual = actual,
                                        !.missing = {}, !.unexpected = {}]]

(***************************************************************************)
(* Steps.                                                                  *)
(***************************************************************************)
\* The dialog's steps, until the page shows the key managed.  What Registry
\* adopted stays in the configuration.
Adopting ==
    /\ page = None /\ Next
    /\ policy # None => world'.cards = world.cards
    /\ selection' = IF policy' # policy
                    THEN AdoptedSelection(world'.cards, policy'.added) ELSE selection
    /\ UNCHANGED <<revision, proof, check, page>>

\* The managed key's page replaces the dialog.
ShowManaged ==
    /\ page = None /\ policy # None /\ ~open
    /\ page' = Workspace
    /\ shown' = None /\ kept' = {} /\ edited' = {} /\ stale' = FALSE /\ preselected' = FALSE
    /\ ask' = None /\ edit' = None /\ editShown' = None /\ editStale' = FALSE
    /\ editAsk' = None /\ receipt' = FALSE
    /\ UNCHANGED <<server, open, bounds, selection, revision, proof, check>>

Reload ==
    /\ page # None /\ check = None
    /\ page' = Workspace
    /\ UNCHANGED <<vars, selection, revision, proof, check>>

\* A check reads the key, then the ids it lists; the server answers no one
\* else meanwhile, Bifrost does.
Started(r) == [phase |-> "key", revision |-> r, rows |-> None, since |-> foreign, found |-> None]

Check ==
    /\ page # None /\ check = None
    /\ check' = Started(revision)
    /\ UNCHANGED <<vars, selection, revision, proof, page>>

\* The key cannot be read, expects nothing, or has another secret.
ReadKey ==
    /\ check # None /\ check.phase = "key"
    /\ \/ /\ Expected(world.rows) # {}
          /\ check' = [check EXCEPT !.phase = "models", !.rows = world.rows]
       \/ check' = [check EXCEPT !.phase = "end"]
    /\ UNCHANGED <<vars, selection, revision, proof, page>>

ReadModels ==
    /\ check # None /\ check.phase = "models"
    /\ \E ids \in {Callable, None} : check' = [check EXCEPT !.phase = "end", !.found = ids]
    /\ UNCHANGED <<vars, selection, revision, proof, page>>

\* The proof the check leaves; one without ids keeps the ids read before.
Proved ==
    LET missing == Besides(Expected(check.rows) \ check.found)
        unexpected == Besides(check.found \ Expected(check.rows))
    IN IF check.found = None
       THEN [Unread EXCEPT !.revision = check.revision,
                           !.actual = IF proof = None THEN None ELSE proof.actual]
       ELSE [state |-> IF missing \cup unexpected = {} THEN "verified" ELSE "drift",
             revision |-> check.revision, actual |-> check.found,
             missing |-> missing, unexpected |-> unexpected, since |-> check.since]

\* The proof is kept, then the workspace read for the answer; without it,
\* the panel marks the key itself.
EndCheck ==
    /\ check # None /\ check.phase = "end"
    /\ UNCHANGED <<vars, selection, revision>>
    /\ proof' = Proved /\ check' = None
    /\ \/ page' = Workspace'
       \/ \E actual \in {Proved.actual, page.publication.actual} : page' = Failed(page, actual)

CanSave == page # None /\ check = None /\ page.revision = revision /\ revision < MaxSaves

\* A save leaves no check standing, and the panel asks for one.  It changes the models or
\* one access, and the naming.
Save(members, naming, x) ==
    LET toggled == IF x \in selection.excluded THEN selection.excluded \ {x}
                   ELSE selection.excluded \cup {x}
        next == [members |-> members, naming |-> naming,
                 excluded |-> IF x = None THEN selection.excluded ELSE toggled]
    IN /\ next # selection
       /\ x # None => members = selection.members /\ x[2] \in members /\ x \in Accesses(page.cards, x[2])
       /\ \A y \in policy.added : y[2] \in members => y \notin next.excluded
       /\ UNCHANGED vars
       /\ selection' = next /\ revision' = revision + 1
       /\ proof' = [Unread EXCEPT !.revision = revision',
                                  !.actual = IF proof = None THEN None ELSE proof.actual]
       /\ page' = Workspace' /\ check' = Started(revision')

\* Another save of Registry: a card gains an access.
SaveElsewhere ==
    /\ page # None /\ revision < MaxSaves
    /\ \E x \in Provs \X Names :
          /\ world.cards[x] = "none"
          /\ world' = [world EXCEPT !.cards = [@ EXCEPT ![x] = "fit"]]
    /\ revision' = revision + 1
    /\ UNCHANGED <<policy, dialog, editing, bounds, selection, proof, check, page>>

ChangeInBifrost ==
    /\ page # None /\ foreign < MaxForeign /\ foreign' = foreign + 1
    /\ \E w \in Changes : world' = [w EXCEPT !.cards = world.cards]
    /\ UNCHANGED <<policy, dialog, editing, edits, keyPage>>

\* The checks are in memory.
Restart ==
    /\ page # None /\ (proof # None \/ check # None)
    /\ proof' = None /\ check' = None
    /\ page' = IF check = None THEN page ELSE Failed(page, page.publication.actual)
    /\ UNCHANGED <<vars, selection, revision>>

LedgerInit ==
    /\ Init
    /\ selection = None /\ revision = 0 /\ proof = None /\ check = None /\ page = None

LedgerNext ==
    \/ Adopting \/ ShowManaged \/ Reload
    \/ Check \/ ReadKey \/ ReadModels \/ EndCheck
    \/ /\ CanSave
       /\ \E members \in SUBSET Names, naming \in Namings, x \in (Provs \X Names) \cup {None} :
             Save(members, naming, x)
    \/ SaveElsewhere \/ ChangeInBifrost \/ Restart

LedgerSpec == LedgerInit /\ [][LedgerNext]_ledgerVars

(***************************************************************************)
(* Properties.                                                             *)
(***************************************************************************)
Ids == (Provs \cup {TheKey}) \X Names
Selections == [members: SUBSET Names, naming: Namings, excluded: SUBSET (Provs \X Names)]
Verdicts ==
    [state: {"verified", "drift", "not_verified"}, revision: Nat, actual: (SUBSET Ids) \cup {None},
     missing: SUBSET Ids, unexpected: SUBSET Ids, since: Nat]
Checks ==
    [phase: {"key", "models", "end"}, revision: Nat, rows: RowMaps \cup {None}, since: Nat,
     found: (SUBSET Ids) \cup {None}]
Pages ==
    [revision: Nat, cards: CardMaps, all: BOOLEAN, rows: RowMaps, selection: Selections,
     kept: SUBSET Provs, publication: Verdicts]
ASSUME PageAssumption == None \notin Pages

LedgerTypeOK ==
    /\ TypeOK
    /\ selection \in Selections \cup {None} /\ revision \in Nat
    /\ proof \in Verdicts \cup {None} /\ check \in Checks \cup {None} /\ page \in Pages \cup {None}

\* A verdict is of now: what the page shows was saved last, and Bifrost has
\* not changed since the check began.
Standing(s) ==
    /\ s.revision = revision /\ s.publication.since = foreign
    /\ s.publication.state \in {"verified", "drift"}

\* A verified key can call the models its page counts, no more and no fewer
\* unless the page says "at least": the ledger adds up the selection, the
\* permissions and the ids of three different reads (KeySummary.tsx:26-90,
\* ADR 0001).  A kept route Bifrost does not list is flagged, unless the page
\* counts its provider for the same model through the selection.  The card of
\* the editor lists the ids the key answers to.
LedgerIsTrue ==
    page # None /\ Standing(page) /\ Badge(page) \in {"verified", "differences"} =>
        LET callable == {id[2] : id \in Callable}
            explicit == KeptRoutes(world.rows, policy.keptNative \ OpenOn(page))
        IN /\ Headline(page).asked /\ Headline(page).count \subseteq callable
           /\ ~Headline(page).atLeast => Headline(page).count = callable
           /\ PublicationCard(page).ids = Callable /\ Exposed \subseteq Callable
           /\ \A x \in explicit \ Callable :
                 /\ x[2] \in DOMAIN Told(page)
                 /\ x[1] \in Told(page)[x[2]].notListed \cup RegistryOn(page, x[2], TRUE)

=============================================================================
