------------------------------ MODULE KeyAdoption -------------------------------
(***************************************************************************)
(* The dialog that adopts a key of Bifrost, decision by decision           *)
(* (ui/src/features/keys/AdoptionDialog.tsx and its parts), over the       *)
(* server's plans (internal/admin/readiness.go, adoption.go,               *)
(* native_permissions.go).                                                 *)
(*                                                                         *)
(* A key lists providers, in their order, each with the models it allows   *)
(* or with Star.  Registry takes over what it can represent: a model that   *)
(* is discovered and has a fit card, through one provider.  For the rest   *)
(* the dialog offers choices: keep a provider in Bifrost, or edit the key  *)
(* there after a preview of its own.  Previews, edits and the adoption are *)
(* calls that answer late.  The server makes a plan from several reads of  *)
(* Bifrost and writes what it planned after them: the key, the catalogue,  *)
(* the cards and the policies may change between any two of these steps.   *)
(*                                                                         *)
(* Adopting an unmanaged key with evidence from a live Bifrost is modelled *)
(* (not rebinding, not snapshots).  The reasons' wording, blacklists and   *)
(* the duplicates Bifrost refuses are left out.                            *)
(***************************************************************************)
EXTENDS Naturals, FiniteSets, Functions

CONSTANTS
    Provs,       \* providers, numbers, in the order keys and plans list them
    Names,       \* native model names
    Star,         \* the entry "*" of an allowed_models list
    None,
    Worlds,      \* what Bifrost and Registry may hold, see Possible
    MaxForeign,  \* bound on the changes made outside the dialog
    MaxEdits     \* bound on the edits of the key confirmed in the dialog

TheKey == 0      \* the "" provider: what concerns the key as a whole
Entries == Names \cup {Star}

\* all: allow_all_providers; rows: the listed providers and what each allows;
\* cards: Registry's; disc: what Bifrost lists; off: providers without an
\* enabled key; inactive: the key; differs: what the key lists differs.
RowMaps == UNION {[S -> SUBSET Entries] : S \in SUBSET Provs}
CardMaps == [Provs \X Names -> {"none", "fit", "unfit"}]
Possible ==
    {w \in [all: BOOLEAN, inactive: BOOLEAN, differs: BOOLEAN, rows: RowMaps, cards: CardMaps,
             off: SUBSET Provs, disc: SUBSET (Provs \X Names)] :
        w.disc \subseteq (Provs \ w.off) \X Names}

ASSUME AdoptionAssumption ==
    /\ Provs \subseteq Nat \ {TheKey} /\ Star \notin Names
    /\ Worlds \subseteq Possible
    /\ MaxForeign \in Nat /\ MaxEdits \in Nat

Operations == {"remove-models", "replace-all-models", "replace-all-providers"}
Requests == [op: Operations, provider: Provs \cup {TheKey}]

VARIABLES
    world, policy,          \* the server's side; policy is None until the key is managed
    open, shown, kept,      \* the dialog: the preview shown, as the world and the choice it was made for
    edited, stale, preselected,
    ask,                    \* its call in flight, or None
    edit, editShown, editStale, editAsk, receipt,  \* the edit dialog on top of it
    foreign, edits

\* A call: status says how far it is, read what the server read of it so far, since the
\* outside changes it began after (for the properties).
server == <<world, policy>>
dialog == <<open, shown, kept, edited, stale, preselected, ask>>
editing == <<edit, editShown, editStale, editAsk, receipt>>
bounds == <<foreign, edits>>
vars == <<server, dialog, editing, bounds>>

(***************************************************************************)
(* The server's plan of an adoption.                                       *)
(***************************************************************************)
Static(rows, p) == rows[p] \ {Star}

ModelKind(w, p, n) ==
    CASE <<p, n>> \notin w.disc           -> "undiscovered"
      [] w.cards[<<p, n>>] = "none"       -> "unsaved"
      [] w.cards[<<p, n>>] = "unfit"      -> "other"
      [] OTHER                            -> "fit"

\* The accesses of these rows Registry can hold, and the one per name it takes.
FitIn(w, rows, keep) ==
    {x \in (DOMAIN rows \ keep) \X Names : x[2] \in rows[x[1]] /\ ModelKind(w, x[1], x[2]) = "fit"}

SelectedIn(w, rows, keep) ==
    LET fit == FitIn(w, rows, keep)
    IN {a \in fit : \A b \in fit : b[2] = a[2] => a[1] <= b[1]}

Holder(selected, n) == CHOOSE p \in Provs : <<p, n>> \in selected

Blocker(p, kind, n, with, keep) ==
    [provider |-> p, kind |-> kind, model |-> n, with |-> with, kept |-> p \in keep]

When(condition, S) == IF condition THEN S ELSE {}

RowBlockers(w, keep, p) ==
    LET fit == FitIn(w, w.rows, keep)
        selected == SelectedIn(w, w.rows, keep)
        whole(kind) == {Blocker(p, kind, None, TheKey, keep)}
    IN  When(w.rows[p] = {}, whole("other"))
        \cup When(Star \in w.rows[p], whole("dynamic"))
        \cup {Blocker(p, ModelKind(w, p, n), n, TheKey, keep) :
                 n \in {x \in Static(w.rows, p) : ModelKind(w, p, x) # "fit"}}
        \cup {Blocker(p, "collision", n, Holder(selected, n), keep) :
                 n \in {x \in Names : <<p, x>> \in fit \ selected}}

SelectionBlockers(w, keep) ==
    When(w.all, {Blocker(TheKey, "all-providers", None, TheKey, keep)})
    \cup UNION {RowBlockers(w, keep, p) : p \in DOMAIN w.rows}

\* Reasons of the key as a whole; the last but one is a consequence of the
\* others when there are others.
KeyReasons(w, keep) ==
    LET none == SelectedIn(w, w.rows, keep) = {}
    IN  When(w.inactive, {"inactive"})
        \cup When(~(keep \subseteq DOMAIN w.rows), {"kept-not-on-key"})
        \cup When(none, {"none-representable"})
        \cup When(w.differs /\ ~none /\ (\A b \in SelectionBlockers(w, keep) : b.kept),
                  {"listing-differs"})

CanApply(w, keep) ==
    KeyReasons(w, keep) = {} /\ \A b \in SelectionBlockers(w, keep) : b.kept

Empty(w) == ~w.all /\ DOMAIN w.rows = {}

\* The grouped verdict sent with the preview; an empty key has no blockers.
Readiness(w, keep) ==
    LET of == SelectionBlockers(w, keep)
        own == KeyReasons(w, keep)
        told == IF (\E b \in of : ~b.kept) \/ own # {"none-representable"}
                THEN own \ {"none-representable"} ELSE own
    IN IF Empty(w) THEN {}
       ELSE of \cup {Blocker(TheKey, "other", r, TheKey, keep) : r \in told}

\* The new policy of an adoption.
Adoption(w, keep) == [added |-> SelectedIn(w, w.rows, keep), keptNative |-> keep]

\* The key itself, as a token covers it and an edit writes it.
Key(w) == <<w.all, w.rows, w.inactive>>

\* The previews an adoption is confirmed for: what its token covers.
Token(w, keep) ==
    [cards |-> w.cards, key |-> Key(w), disc |-> w.disc,
     differs |-> w.differs, selected |-> SelectedIn(w, w.rows, keep), keep |-> keep]

(***************************************************************************)
(* The server's plan of an edit of the key in Bifrost.                     *)
(***************************************************************************)
Gone(w, p) == {n \in Static(w.rows, p) : ModelKind(w, p, n) = "undiscovered"}

\* What a row with Star allows today, and what is left once its models are
\* the ones Registry can hold and no other row of the key holds.
Today(w, p) == Static(w.rows, p) \cup {n \in Names : <<p, n>> \in w.disc}

Held(w, rows) == {a[2] : a \in SelectedIn(w, rows, {})}

\* Mutant: a name another row of the key holds is kept as well.
HoldableAlone(w, p) == {n \in Today(w, p) : ModelKind(w, p, n) = "fit"}

Holdable(w, p) ==
    {n \in Today(w, p) : ModelKind(w, p, n) = "fit"
                         /\ n \notin Held(w, Restrict(w.rows, DOMAIN w.rows \ {p}))}

\* For a key that allows every provider: the rows of the providers it does
\* not list, one provider per name, none for a name a listed row holds.
Unlisted(w) == {p \in Provs : \E n \in Names : <<p, n>> \in w.disc} \ DOMAIN w.rows

Explicit(w, p) ==
    LET candidate == [q \in Unlisted(w) |-> {n \in Names : <<q, n>> \in w.disc}]
    IN {n \in Names : <<p, n>> \in SelectedIn(w, candidate, {}) /\ n \notin Held(w, w.rows)}

EditBlocked(w, e) ==
    CASE e.op = "remove-models" ->
            w.all \/ e.provider \notin DOMAIN w.rows \/ Gone(w, e.provider) = {}
      [] e.op = "replace-all-models" ->
            w.all \/ e.provider \notin DOMAIN w.rows \/ Star \notin w.rows[e.provider]
      [] OTHER -> ~w.all

\* The rows the edit leaves; a provider with no model left is dropped.
WithRow(rows, p, names) ==
    IF names = {} THEN Restrict(rows, DOMAIN rows \ {p}) ELSE [rows EXCEPT ![p] = names]

EditedRows(w, e) ==
    CASE e.op = "remove-models" ->
            WithRow(w.rows, e.provider, w.rows[e.provider] \ Gone(w, e.provider))
      [] e.op = "replace-all-models" ->
            WithRow(w.rows, e.provider, Holdable(w, e.provider))
      [] OTHER ->
            [p \in DOMAIN w.rows \cup {q \in Unlisted(w) : Explicit(w, q) # {}} |->
                IF p \in DOMAIN w.rows THEN w.rows[p] ELSE Explicit(w, p)]

Edited(w, e) == [w EXCEPT !.all = FALSE, !.rows = EditedRows(w, e)]

\* The models the preview lists as removed.
Removed(w, e) ==
    CASE e.op = "remove-models"      -> {e.provider} \X Gone(w, e.provider)
      [] e.op = "replace-all-models" ->
            {e.provider} \X (Today(w, e.provider) \ Holdable(w, e.provider))
      [] OTHER -> {a \in w.disc : a[1] \in Unlisted(w) /\ a[2] \notin Explicit(w, a[1])}

EditToken(w, e) ==
    [cards |-> w.cards, key |-> Key(w), edit |-> e,
     payload |-> EditedRows(w, e), remove |-> Removed(w, e)]

(***************************************************************************)
(* What the panel makes of a preview's verdict.                            *)
(***************************************************************************)
KeepableKinds == {"undiscovered", "dynamic", "collision"}

\* Not kept, and not for the models page to settle.
OpenBlockers(r) == {b \in r : ~b.kept /\ b.kind # "unsaved"}

\* The rows of decisions, by provider.
Rows(r) ==
    {b.provider : b \in {c \in OpenBlockers(r) : c.kind \in KeepableKinds \/ c.kind = "all-providers"}}

Decisions(r) ==
    {b \in OpenBlockers(r) : b.kind = "all-providers" \/ b.provider \in Rows(r) \ {TheKey}}

Prerequisites(r) == OpenBlockers(r) \ Decisions(r)

\* Models the models page registers.
ToAdd(r) == {b \in r : b.kind = "unsaved" /\ ~b.kept}

\* The footer's "n of N decided", and whether it names a prerequisite.
Decided(r, keep, done) == ({b.provider : b \in {c \in r : c.kept}} \cup keep \cup done) \ Rows(r)
Pending(r) == Rows(r)
Prerequisite(r) == ToAdd(r) # {} \/ Prerequisites(r) # {}

DisabledProviders(w, r) ==
    {b.provider : b \in {c \in r : ~c.kept /\ c.kind = "undiscovered" /\ c.provider \in w.off}}

\* The edit a blocker offers: none while the key allows every provider, but
\* the one that ends it.
EditFor(b, r) ==
    LET allProviders == \E c \in r : c.kind = "all-providers"
    IN CASE b.kind = "all-providers" -> {[op |-> "replace-all-providers", provider |-> TheKey]}
         [] b.kind = "undiscovered" /\ ~allProviders ->
               {[op |-> "remove-models", provider |-> b.provider]}
         [] b.kind = "dynamic" /\ ~allProviders ->
               {[op |-> "replace-all-models", provider |-> b.provider]}
         [] OTHER -> {}

\* The choices of a row: keep its provider, or one a collision shares its
\* models with; or an edit.
RowBlockersOf(r, p) == {b \in Decisions(r) : b.provider = p}

KeepChoices(r, p) ==
    LET keepable == {b \in RowBlockersOf(r, p) : b.kind \in KeepableKinds}
    IN When(keepable # {}, {p}) \cup {b.with : b \in {c \in keepable : c.kind = "collision"}}

EditChoices(r, p) == UNION {EditFor(b, r) : b \in RowBlockersOf(r, p)}

\* The providers the dialog lists as kept, each with a way back.
KeptShown(r, keep) == {b.provider : b \in {c \in r : c.kept}} \cup keep

Verdict == Readiness(shown.world, shown.keep)

(***************************************************************************)
(* The dialog and its calls.                                               *)
(***************************************************************************)
Busy == ask # None
Applying == Busy /\ ask.kind = "adopt"

Send(kind, keep, saw) ==
    ask' = [kind |-> kind, keep |-> keep, saw |-> saw, status |-> "sent",
            read |-> None, since |-> 0]

Refresh(keep) == ~Busy /\ Send("preview", keep, None)

Open ==
    /\ ~open
    /\ open' = TRUE /\ shown' = None /\ kept' = {} /\ edited' = {}
    /\ stale' = FALSE /\ preselected' = FALSE
    /\ Send("preview", {}, None)
    /\ UNCHANGED <<server, editing, bounds>>

\* A preview still loading is dropped with the dialog; a write holds it open.
Close ==
    /\ open /\ edit = None /\ ~Applying
    /\ open' = FALSE /\ ask' = None
    /\ UNCHANGED <<server, shown, kept, edited, stale, preselected, editing, bounds>>

RefreshPreview ==
    /\ open /\ edit = None /\ Refresh(kept)
    /\ UNCHANGED <<server, open, shown, kept, edited, stale, preselected, editing, bounds>>

\* A choice of a row, or the way back from one: the preview is asked for the
\* new choice, which is the dialog's only once it answers.
Keep(p, on) ==
    /\ open /\ edit = None /\ shown # None
    /\ LET r == Verdict
       IN  IF on THEN \E row \in Rows(r) : p \in KeepChoices(r, row) ELSE p \in KeptShown(r, kept)
    /\ Refresh(IF on THEN kept \cup {p} ELSE kept \ {p})
    /\ UNCHANGED <<server, open, shown, kept, edited, stale, preselected, editing, bounds>>

Apply ==
    /\ open /\ edit = None /\ shown # None /\ CanApply(shown.world, shown.keep)
    /\ ~Busy /\ ~stale
    /\ Send("adopt", kept, shown)
    /\ UNCHANGED <<server, open, shown, kept, edited, stale, preselected, editing, bounds>>

\* The server carries out one call at a time, from its first read to its answer; Bifrost
\* and the saves of the whole configuration wait for none.
Underway(call) == call # None /\ call.status \in {"key", "models", "planned", "written"}
Locked == Underway(ask) \/ Underway(editAsk)

Answer(status) == ask' = [ask EXCEPT !.status = status, !.read = None, !.since = 0]
\* What the server's work on a call leaves alone.
besidesAsk == <<open, shown, kept, edited, stale, preselected, editing, bounds>>

\* The configuration, with the revision an adoption was confirmed for; then the key.
ServeKey ==
    /\ Busy /\ ask.status = "sent" /\ ~Locked
    /\ LET current == policy = None /\ (Applying => world.cards = ask.saw.world.cards)
       IN \/ current /\ ask' = [ask EXCEPT !.status = "key", !.read = world, !.since = foreign]
          \/ ~current /\ Answer("conflict")
          \/ Answer("error")
    /\ UNCHANGED <<server, besidesAsk>>

\* The providers and what they list.
ServeModels ==
    /\ Busy /\ ask.status = "key"
    /\ \/ ask' = [ask EXCEPT !.status = "models",
                             !.read = [@ EXCEPT !.disc = world.disc, !.off = world.off]]
       \/ Answer("error")
    /\ UNCHANGED <<server, besidesAsk>>

\* The ids Bifrost lists for the key, the plan's last read.
Plan == [ask.read EXCEPT !.differs = world.differs]

ServePreview ==
    /\ Busy /\ ask.kind = "preview" /\ ask.status = "models"
    /\ \/ ask' = [ask EXCEPT !.status = "ok", !.saw = Plan, !.read = None, !.since = 0]
       \/ Answer("error")
    /\ UNCHANGED <<server, besidesAsk>>

\* Mutant: the revision alone is compared, not the preview's token.
ConfirmedByRevision(plan) == plan.cards = ask.saw.world.cards

\* The plan made again for the choice sent must be the one confirmed.
Confirmed(plan) == Token(plan, ask.keep) = Token(ask.saw.world, ask.saw.keep)

ServeAdopt ==
    /\ Applying /\ ask.status = "models"
    /\ \/ /\ Confirmed(Plan) /\ CanApply(Plan, ask.keep)
          /\ ask' = [ask EXCEPT !.status = "planned", !.read = Plan]
       \/ ~Confirmed(Plan) /\ Answer("conflict")
       \/ Answer("error")
    /\ UNCHANGED <<server, besidesAsk>>

\* The plan is saved if the configuration is still the one it was made from.
AdoptSave ==
    /\ Applying /\ ask.status = "planned"
    /\ LET current == policy = None /\ world.cards = ask.read.cards
       IN \/ /\ current /\ policy' = Adoption(ask.read, ask.keep)
             /\ \E status \in {"ok", "error"} : Answer(status)
          \/ ~current /\ Answer("conflict") /\ UNCHANGED policy
          \/ Answer("error") /\ UNCHANGED policy
    /\ UNCHANGED <<world, besidesAsk>>

Answered == Busy /\ ask.status \in {"ok", "conflict", "error"}

\* The first preview keeps the disabled providers from the start, and only it.
PreviewAnswered ==
    /\ Answered /\ ask.kind = "preview" /\ ask.status = "ok"
    /\ preselected' = TRUE
    /\ LET disabled == When(~preselected, DisabledProviders(ask.saw, Readiness(ask.saw, ask.keep)))
       IN IF disabled # {}
          THEN Send("preview", ask.keep \cup disabled, None) /\ UNCHANGED <<shown, kept, stale>>
          ELSE /\ shown' = [world |-> ask.saw, keep |-> ask.keep]
               /\ kept' = ask.keep /\ stale' = FALSE /\ ask' = None
    /\ UNCHANGED <<server, open, edited, editing, bounds>>

AdoptAnswered ==
    /\ Answered /\ ask.kind = "adopt" /\ ask.status = "ok"
    /\ open' = FALSE /\ ask' = None
    /\ UNCHANGED <<server, shown, kept, edited, stale, preselected, editing, bounds>>

Report ==
    /\ Answered /\ ask.status \in {"conflict", "error"}
    /\ stale' = (stale \/ ask.status = "conflict") /\ ask' = None
    /\ UNCHANGED <<server, open, shown, kept, edited, preselected, editing, bounds>>

(***************************************************************************)
(* The dialog of an edit of the key in Bifrost, on top of it.              *)
(***************************************************************************)
EditSend(kind, saw) ==
    editAsk' = [kind |-> kind, saw |-> saw, status |-> "sent", read |-> None, since |-> 0]

\* A row offers it while the preview under it may still be loading.
OpenEdit ==
    /\ open /\ edit = None /\ shown # None
    /\ LET r == Verdict
       IN  \E row \in Rows(r) : edit' \in EditChoices(r, row)
    /\ editShown' = None /\ editStale' = FALSE /\ receipt' = FALSE
    /\ EditSend("preview", None)
    /\ UNCHANGED <<server, dialog, bounds>>

EditRefresh ==
    /\ edit # None /\ editStale /\ ~receipt /\ editAsk = None
    /\ EditSend("preview", None)
    /\ UNCHANGED <<server, dialog, edit, editShown, editStale, receipt, bounds>>

EditConfirm ==
    /\ edit # None /\ editShown # None /\ ~EditBlocked(editShown, edit)
    /\ editAsk = None /\ ~editStale /\ ~receipt /\ edits < MaxEdits
    /\ EditSend("confirm", editShown) /\ edits' = edits + 1
    /\ UNCHANGED <<server, dialog, edit, editShown, editStale, receipt, foreign>>

CloseEdit ==
    /\ edit # None /\ editAsk = None
    /\ edit' = None
    /\ UNCHANGED <<server, dialog, editShown, editStale, editAsk, receipt, bounds>>

EditAnswer(status) == editAsk' = [editAsk EXCEPT !.status = status, !.read = None, !.since = 0]

\* Bifrost gave no answer, or the panel got none.
EditFails ==
    \E status \in {"unconfirmed", "error"} :
        (status = "unconfirmed" => editAsk.kind = "confirm") /\ EditAnswer(status)

besidesEditAsk == <<dialog, edit, editShown, editStale, receipt, bounds>>

\* The policies, then the key.
EditServeKey ==
    /\ editAsk # None /\ editAsk.status = "sent" /\ ~Locked
    /\ \/ policy = None /\ editAsk' = [editAsk EXCEPT !.status = "key", !.read = world, !.since = foreign]
       \/ policy # None /\ EditAnswer("conflict")
       \/ EditFails
    /\ UNCHANGED <<server, besidesEditAsk>>

\* What the providers list, the plan's last read.
EditPlan == [editAsk.read EXCEPT !.disc = world.disc, !.off = world.off]

EditServePreview ==
    /\ editAsk # None /\ editAsk.kind = "preview" /\ editAsk.status = "key"
    /\ \/ editAsk' = [editAsk EXCEPT !.status = "ok", !.saw = EditPlan, !.read = None, !.since = 0]
       \/ EditFails
    /\ UNCHANGED <<server, besidesEditAsk>>

EditAllowed(plan) == ~EditBlocked(plan, edit) /\ EditToken(plan, edit) = EditToken(editAsk.saw, edit)

EditServe ==
    /\ editAsk # None /\ editAsk.kind = "confirm" /\ editAsk.status = "key"
    /\ \/ EditAllowed(EditPlan) /\ editAsk' = [editAsk EXCEPT !.status = "planned", !.read = EditPlan]
       \/ ~EditAllowed(EditPlan) /\ EditAnswer("conflict")
       \/ EditFails
    /\ UNCHANGED <<server, besidesEditAsk>>

\* The whole key is written as it was read and edited, over what changed since; Bifrost
\* takes it or not, and may say so or not.
EditWrite ==
    /\ editAsk # None /\ editAsk.status = "planned"
    /\ \/ /\ world' = [world EXCEPT !.all = FALSE, !.rows = EditedRows(editAsk.read, edit),
                                    !.inactive = editAsk.read.inactive]
          /\ editAsk' = [editAsk EXCEPT !.status = "written"] \/ EditFails
       \/ EditFails /\ UNCHANGED world
    /\ UNCHANGED <<policy, besidesEditAsk>>

\* The readback compares what the key allows with the plan.
EditReadBack ==
    /\ editAsk # None /\ editAsk.status = "written"
    /\ \/ /\ ~world.all /\ world.rows = EditedRows(editAsk.read, edit)
          /\ EditAnswer("ok")
       \/ EditFails
    /\ UNCHANGED <<server, besidesEditAsk>>

EditPreviewAnswered ==
    /\ editAsk # None /\ editAsk.kind = "preview" /\ editAsk.status = "ok"
    /\ editShown' = editAsk.saw /\ editStale' = FALSE /\ editAsk' = None
    /\ UNCHANGED <<server, dialog, edit, receipt, bounds>>

\* onEdited: the row counts as decided, and the dialog below refreshes
\* unless a preview of its own is loading.
EditConfirmed ==
    /\ editAsk # None /\ editAsk.kind = "confirm" /\ editAsk.status \in {"ok", "unconfirmed"}
    /\ receipt' = (editAsk.status = "ok") /\ editAsk' = None
    /\ edited' = edited \cup {edit.provider}
    /\ IF Busy THEN UNCHANGED ask ELSE Refresh(kept)
    /\ UNCHANGED <<server, open, shown, kept, stale, preselected, edit, editShown, editStale, bounds>>

EditReport ==
    /\ editAsk # None /\ editAsk.status \in {"conflict", "error"}
    /\ editStale' = (editStale \/ editAsk.status = "conflict") /\ editAsk' = None
    /\ UNCHANGED <<server, dialog, edit, editShown, receipt, bounds>>

\* Bifrost, the cards or the key's policy change outside the dialog, whatever it waits for.
Foreign ==
    /\ foreign < MaxForeign /\ foreign' = foreign + 1
    /\ \/ world' \in Worlds /\ UNCHANGED policy
       \/ /\ policy = None /\ UNCHANGED world
          /\ \E keep \in SUBSET Provs : CanApply(world, keep) /\ policy' = Adoption(world, keep)
    /\ UNCHANGED <<dialog, editing, edits>>

Init ==
    /\ world \in Worlds /\ policy = None
    /\ open = FALSE /\ shown = None /\ kept = {} /\ edited = {}
    /\ stale = FALSE /\ preselected = FALSE /\ ask = None
    /\ edit = None /\ editShown = None /\ editStale = FALSE /\ editAsk = None /\ receipt = FALSE
    /\ foreign = 0 /\ edits = 0

Operator ==
    \/ Open \/ Close \/ RefreshPreview \/ Apply
    \/ \E p \in Provs, on \in BOOLEAN : Keep(p, on)
    \/ OpenEdit \/ EditRefresh \/ EditConfirm \/ CloseEdit

Answers ==
    \/ ServeKey \/ ServeModels \/ ServePreview \/ ServeAdopt \/ AdoptSave
    \/ PreviewAnswered \/ AdoptAnswered \/ Report
    \/ EditServeKey \/ EditServePreview \/ EditServe \/ EditWrite \/ EditReadBack
    \/ EditPreviewAnswered \/ EditConfirmed \/ EditReport

Next == Operator \/ Answers \/ Foreign

Spec == Init /\ [][Next]_vars

(***************************************************************************)
(* Properties.                                                             *)
(***************************************************************************)
Adoptions == [added: SUBSET (Provs \X Names), keptNative: SUBSET Provs]
Previews == [world: Possible, keep: SUBSET Provs]
Asks ==
    [kind: {"preview", "adopt"}, keep: SUBSET Provs, saw: Possible \cup Previews \cup {None},
     status: {"sent", "key", "models", "planned", "ok", "conflict", "error"},
     read: Possible \cup {None}, since: Nat]
EditAsks ==
    [kind: {"preview", "confirm"}, saw: Possible \cup {None},
     status: {"sent", "key", "planned", "written", "ok", "unconfirmed", "conflict", "error"},
     read: Possible \cup {None}, since: Nat]

TypeOK ==
    /\ world \in Possible /\ policy \in Adoptions \cup {None}
    /\ open \in BOOLEAN /\ stale \in BOOLEAN /\ preselected \in BOOLEAN
    /\ shown \in Previews \cup {None} /\ kept \subseteq Provs /\ edited \subseteq Provs \cup {TheKey}
    /\ ask \in Asks \cup {None} /\ edit \in Requests \cup {None}
    /\ editShown \in Possible \cup {None} /\ editAsk \in EditAsks \cup {None}
    /\ editStale \in BOOLEAN /\ receipt \in BOOLEAN
    /\ foreign \in Nat /\ edits \in Nat

\* A preview that cannot be applied says what to do: a decision, each with a
\* choice, something to do before, or that the key is empty (the doc's "every
\* row is required", AdoptionBlockers.tsx:112, with nothing else that blocks).
RefusalIsExplained ==
    open /\ shown # None /\ ask = None =>
        LET r == Verdict
        IN  /\ \/ CanApply(shown.world, shown.keep) \/ Empty(shown.world)
               \/ Pending(r) # {} \/ Prerequisite(r)
            /\ \A p \in Rows(r) : KeepChoices(r, p) # {} \/ EditChoices(r, p) # {}
            /\ Decided(r, kept, edited) \cap Pending(r) = {}

\* What is left to decide, blocker by blocker.
Undecided(w, keep) ==
    {<<b.provider, b.kind, b.model>> : b \in Decisions(Readiness(w, keep))}

\* Every choice the dialog offers is one the server carries out, and takes
\* something off what is left to decide without adding to it.
ChoiceTakesOff ==
    open /\ shown # None /\ ask = None /\ edit = None =>
        LET r == Verdict
            left == Undecided(shown.world, shown.keep)
            settles(S) == S \subseteq left /\ S # left
        IN \A p \in Rows(r) :
              /\ \A q \in KeepChoices(r, p) :
                    settles(Undecided(shown.world, shown.keep \cup {q}))
              /\ \A e \in EditChoices(r, p) :
                    /\ ~EditBlocked(shown.world, e)
                    /\ settles(Undecided(Edited(shown.world, e), shown.keep))

\* The choices of the dialog lead to an adoption: a refusal always shows what to do, and no
\* sequence of choices goes round in circles.
ChoicesSettle == RefusalIsExplained /\ ChoiceTakesOff

\* What the dialog adopts is what its preview shows, whatever changed before or during the
\* call: the same models, the same providers kept, for a key still unmanaged and cards that
\* are still those.  The key is as it was shown, unless something outside changed during
\* the call itself: nothing reads the key again at the save.
AdoptsWhatIsShown ==
    [][policy' # policy /\ foreign' = foreign =>
          /\ policy = None /\ policy' = Adoption(shown.world, shown.keep)
          /\ world.cards = shown.world.cards
          /\ ask.since = foreign => Key(world) = Key(shown.world)]_vars

\* What a row allows: a provider without a row is allowed by a key that
\* allows every provider; an empty list may mean everything.
Allows(w, p, n) ==
    IF p \in DOMAIN w.rows THEN w.rows[p] = {} \/ w.rows[p] \cap {n, Star} # {} ELSE w.all

\* An edit made in the dialog leaves the key its preview showed, whatever changed before or
\* during the call.  Unless something outside changed during the call itself, it takes off an
\* unmanaged key only what its preview lists as removed, of what is known today, and never
\* opens the key (otherwise it writes over that change, see NeverAnAdoptedKey).  What it
\* lists is refused afterwards, unless the row goes on allowing Star (see RemovedIsRefused).
EditsTakeWhatTheyShow ==
    [][Key(world)' # Key(world) /\ foreign' = foreign =>
          LET lost == {x \in Provs \X Names : Allows(world, x[1], x[2]) /\ ~Allows(world', x[1], x[2])}
              known == world.disc \cup {x \in Provs \X Names :
                           x[1] \in DOMAIN world.rows /\ x[2] \in world.rows[x[1]]}
          IN /\ Key(world)' = Key(Edited(editShown, edit))
             /\ editAsk.since = foreign =>
                   /\ policy = None
                   /\ lost \cap known \subseteq Removed(editShown, edit)
                   /\ \A x \in Removed(editShown, edit) \ lost :
                         x[1] \in DOMAIN world'.rows /\ Star \in world'.rows[x[1]]
                   /\ \A p \in Provs, n \in Entries : Allows(world', p, n) => Allows(world, p, n)]_vars

\* The dialog does what it shows: an adoption takes over the key its preview is of, and an edit
\* before it leaves the key its own preview announced, less the models it listed.
DoesWhatItShows == AdoptsWhatIsShown /\ EditsTakeWhatTheyShow

\* "Requests that use these models will be refused"
\* (NativePermissionEdit.tsx:234), of the models an edit removes: not on a row
\* that lists them beside Star, which the edit leaves there.
RemovedIsRefused ==
    [][Key(world)' # Key(world) /\ foreign' = foreign =>
          \A x \in Removed(editShown, edit) : ~Allows(world', x[1], x[2])]_vars

\* "the Registry never edits a key on its own, and never an adopted one"
\* (native_permissions.go:23): the policies are read before the plan, and the key written after it.
NeverAnAdoptedKey ==
    [][Key(world)' # Key(world) /\ foreign' = foreign => policy = None]_vars

==============================================================================
