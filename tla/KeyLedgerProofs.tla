---------------------------- MODULE KeyLedgerProofs ----------------------------
(***************************************************************************)
(* Proofs about KeyAdoption and KeyLedger.  What the dialog adopts and     *)
(* edits is what its previews were made of; every choice it offers takes   *)
(* a decision off; and a verdict on the key's page is of the ids Bifrost   *)
(* lists now, whatever aged between the reads it is put together from.     *)
(***************************************************************************)
EXTENDS KeyLedger, TLAPS, WellFoundedInduction

\* A call of the dialog is about what it shows.
AskInv ==
    /\ ask # None /\ ask.kind = "preview" /\ ask.status = "ok" => ask.saw \in Possible
    /\ Applying => ask.saw = shown
    /\ editAsk # None /\ editAsk.kind = "preview" /\ editAsk.status = "ok" => editAsk.saw \in Possible
    /\ editAsk # None /\ editAsk.kind = "confirm" => editAsk.saw = editShown /\ editShown # None
    /\ editAsk # None => edit \in Requests
    /\ Underway(ask) => ask.read \in Possible
    /\ Underway(editAsk) => editAsk.read \in Possible
    /\ editAsk # None /\ editAsk.status \in {"planned", "written"} => editAsk.kind = "confirm"
    /\ editAsk # None /\ editAsk.status = "planned" => ~EditBlocked(editAsk.read, edit)

\* A plan under way is of the key as it is, unless something outside changed since its first
\* read: no other call of the dialog is carried out meanwhile.  A plan that will be written
\* is the one shown.
PlanInv ==
    /\ ~(Underway(ask) /\ Underway(editAsk))
    /\ Underway(ask) =>
          /\ ask.since <= foreign
          /\ ask.since = foreign => Key(ask.read) = Key(world)
    /\ Applying /\ ask.status = "planned" => Token(ask.read, ask.keep) = Token(shown.world, shown.keep)
    /\ editAsk # None /\ editAsk.status \in {"key", "planned"} =>
          /\ editAsk.since <= foreign
          /\ editAsk.since = foreign => policy = None /\ Key(editAsk.read) = Key(world)
    /\ editAsk # None /\ editAsk.status = "planned" =>
          /\ EditToken(editAsk.read, edit) = EditToken(editShown, edit)
          /\ editAsk.since = foreign => editAsk.read.disc = world.disc

\* A managed key has a selection, and takes accesses of cards only.
PolicyInv ==
    policy # None =>
        /\ selection \in Selections
        /\ \A x \in policy.added : world.cards[x] # "none"

\* A read made since the last change in Bifrost is of the key as it is, a verified one of the
\* selection as well.
CheckInv ==
    check # None =>
        /\ check.since <= foreign /\ check.revision <= revision
        /\ check.since = foreign /\ check.found # None => check.found = Callable

ProofInv ==
    proof # None =>
        /\ proof.since <= foreign /\ proof.revision <= revision
        /\ proof.state = "verified" /\ proof.since = foreign /\ proof.revision = revision =>
              proof.actual # None /\ proof.actual = Callable /\ Exposed \subseteq Callable

ReadInv == CheckInv /\ ProofInv /\ (page = None => proof = None /\ check = None)

\* A workspace read before, with the verdict it showed.
ReadBefore(s) ==
    /\ s.kept = policy.keptNative
    /\ \A x \in policy.added : s.cards[x] # "none"
    /\ s.revision <= revision /\ (s.revision = revision => s.selection = selection)
    /\ s.publication.since <= foreign
    /\ s.publication.since = foreign => s.rows = world.rows
    /\ s.publication.state = "verified" /\ s.publication.since = foreign /\ s.revision = revision =>
          /\ s.publication.actual # None
          /\ s.publication.actual = Callable /\ Exposed \subseteq Callable

PageInv == page # None => policy # None /\ ReadBefore(page)

LedgerInv == LedgerTypeOK /\ AskInv /\ PlanInv /\ PolicyInv /\ ReadInv /\ PageInv

-----------------------------------------------------------------------------
(* The plans and their types.                                              *)

LEMMA RowMapFacts ==
    ASSUME NEW rows \in RowMaps
    PROVE  DOMAIN rows \subseteq Provs /\ \A p \in DOMAIN rows : rows[p] \subseteq Entries
BY DEF RowMaps

LEMMA RowMapIntro ==
    ASSUME NEW S \in SUBSET Provs, NEW rows \in [S -> SUBSET Entries]
    PROVE  rows \in RowMaps
BY DEF RowMaps

LEMMA PossibleFacts ==
    ASSUME NEW w \in Possible
    PROVE  /\ w.all \in BOOLEAN /\ w.rows \in RowMaps /\ w.cards \in CardMaps
           /\ w.off \in SUBSET Provs /\ w.disc \in SUBSET (Provs \X Names)
           /\ DOMAIN w.rows \subseteq Provs /\ \A p \in DOMAIN w.rows : w.rows[p] \subseteq Entries
BY RowMapFacts DEF Possible

\* Only an access of a fit card is taken over.
LEMMA SelectedFacts ==
    ASSUME NEW w \in Possible, NEW rows \in RowMaps, NEW keep
    PROVE  /\ FitIn(w, rows, keep) \subseteq Provs \X Names
           /\ SelectedIn(w, rows, keep) \subseteq FitIn(w, rows, keep)
           /\ \A x \in FitIn(w, rows, keep) :
                 /\ x[1] \in DOMAIN rows \ keep /\ x[2] \in rows[x[1]] /\ x[2] \in Names
                 /\ ModelKind(w, x[1], x[2]) = "fit" /\ w.cards[x] # "none"
<1>1. DOMAIN rows \subseteq Provs
  BY RowMapFacts
<1>2. FitIn(w, rows, keep) \subseteq Provs \X Names /\ SelectedIn(w, rows, keep) \subseteq FitIn(w, rows, keep)
  BY <1>1 DEF FitIn, SelectedIn
<1>3. ASSUME NEW x \in FitIn(w, rows, keep)
      PROVE  /\ x[1] \in DOMAIN rows \ keep /\ x[2] \in rows[x[1]] /\ x[2] \in Names
             /\ ModelKind(w, x[1], x[2]) = "fit" /\ w.cards[x] # "none"
  <2>1. x \in (DOMAIN rows \ keep) \X Names /\ x[2] \in rows[x[1]] /\ ModelKind(w, x[1], x[2]) = "fit"
    BY <1>3 DEF FitIn
  <2>2. x = <<x[1], x[2]>>
    BY <2>1
  <2>3. w.cards[<<x[1], x[2]>>] # "none"
    BY <2>1 DEF ModelKind
  <2> QED BY <2>1, <2>2, <2>3
<1> QED BY <1>2, <1>3

LEMMA AdoptionTyped ==
    ASSUME NEW w \in Possible, NEW keep \in SUBSET Provs
    PROVE  /\ Adoption(w, keep) \in Adoptions
           /\ \A x \in Adoption(w, keep).added : w.cards[x] # "none"
<1>1. w.rows \in RowMaps
  BY PossibleFacts
<1>2. /\ SelectedIn(w, w.rows, keep) \subseteq Provs \X Names
      /\ \A x \in SelectedIn(w, w.rows, keep) : w.cards[x] # "none"
  BY <1>1, SelectedFacts
<1> QED BY <1>2 DEF Adoption, Adoptions

LEMMA WithRowTyped ==
    ASSUME NEW rows \in RowMaps, NEW p \in DOMAIN rows, NEW names \in SUBSET Entries
    PROVE  WithRow(rows, p, names) \in RowMaps
<1>1. DOMAIN rows \subseteq Provs /\ \A q \in DOMAIN rows : rows[q] \subseteq Entries
  BY RowMapFacts
<1>2. rows \in [DOMAIN rows -> SUBSET Entries]
  BY <1>1 DEF RowMaps
<1>3. CASE names = {}
  <2>1. Restrict(rows, DOMAIN rows \ {p}) \in [DOMAIN rows \ {p} -> SUBSET Entries]
    BY <1>1 DEF Restrict
  <2> QED BY <1>1, <1>3, <2>1, RowMapIntro DEF WithRow
<1>4. CASE names # {}
  <2>1. [rows EXCEPT ![p] = names] \in [DOMAIN rows -> SUBSET Entries]
    BY <1>2
  <2> QED BY <1>1, <1>4, <2>1, RowMapIntro DEF WithRow
<1> QED BY <1>3, <1>4

LEMMA EditedRowsTyped ==
    ASSUME NEW w \in Possible, NEW e, ~EditBlocked(w, e)
    PROVE  EditedRows(w, e) \in RowMaps
<1>1. w.rows \in RowMaps /\ DOMAIN w.rows \subseteq Provs /\ \A p \in DOMAIN w.rows : w.rows[p] \subseteq Entries
  BY PossibleFacts
<1>2. CASE e.op = "remove-models"
  <2>1. e.provider \in DOMAIN w.rows
    BY <1>2 DEF EditBlocked
  <2>2. EditedRows(w, e) = WithRow(w.rows, e.provider, w.rows[e.provider] \ Gone(w, e.provider))
    BY <1>2 DEF EditedRows
  <2>3. w.rows[e.provider] \ Gone(w, e.provider) \in SUBSET Entries
    BY <1>1, <2>1
  <2> QED BY <1>1, <2>1, <2>2, <2>3, WithRowTyped
<1>3. CASE e.op = "replace-all-models"
  <2>1. e.provider \in DOMAIN w.rows
    BY <1>3 DEF EditBlocked
  <2>2. EditedRows(w, e) = WithRow(w.rows, e.provider, Holdable(w, e.provider))
    BY <1>3 DEF EditedRows
  <2>3. Holdable(w, e.provider) \in SUBSET Entries
    BY <1>1, <2>1 DEF Holdable, Today, Static, Entries
  <2> QED BY <1>1, <2>1, <2>2, <2>3, WithRowTyped
<1>4. CASE e.op \notin {"remove-models", "replace-all-models"}
  <2> DEFINE S == DOMAIN w.rows \cup {q \in Unlisted(w) : Explicit(w, q) # {}}
             rows == [p \in S |-> IF p \in DOMAIN w.rows THEN w.rows[p] ELSE Explicit(w, p)]
  <2>1. EditedRows(w, e) = rows
    BY <1>4 DEF EditedRows
  <2>2. S \in SUBSET Provs
    BY <1>1 DEF Unlisted
  <2>3. \A p : Explicit(w, p) \subseteq Entries
    BY DEF Explicit, Entries
  <2> HIDE DEF S
  <2>4. rows \in [S -> SUBSET Entries]
    BY <1>1, <2>2, <2>3
  <2> QED BY <2>1, <2>2, <2>4, RowMapIntro
<1> QED BY <1>2, <1>3, <1>4

\* An edit changes the permissions of the key and nothing else.
LEMMA EditedTyped ==
    ASSUME NEW w \in Possible, NEW e, ~EditBlocked(w, e)
    PROVE  /\ Edited(w, e) \in Possible
           /\ Edited(w, e).all = FALSE /\ Edited(w, e).rows = EditedRows(w, e)
           /\ Edited(w, e).cards = w.cards /\ Edited(w, e).disc = w.disc
           /\ Edited(w, e).inactive = w.inactive /\ Edited(w, e).differs = w.differs
<1>1. EditedRows(w, e) \in RowMaps
  BY EditedRowsTyped
<1> QED BY <1>1 DEF Edited, Possible

-----------------------------------------------------------------------------
(* The blockers of a preview.                                              *)

LEMMA WhenFacts == ASSUME NEW c, NEW S, NEW x PROVE x \in When(c, S) <=> c /\ x \in S
BY DEF When

LEMMA BlockerFacts ==
    ASSUME NEW p, NEW kind, NEW n, NEW with, NEW keep
    PROVE  /\ Blocker(p, kind, n, with, keep).provider = p /\ Blocker(p, kind, n, with, keep).kind = kind
           /\ Blocker(p, kind, n, with, keep).model = n /\ Blocker(p, kind, n, with, keep).with = with
           /\ Blocker(p, kind, n, with, keep).kept <=> p \in keep
BY DEF Blocker

Fit(w, keep) == FitIn(w, w.rows, keep)
Selected(w, keep) == SelectedIn(w, w.rows, keep)

LEMMA RowBlockerFacts ==
    ASSUME NEW w \in Possible, NEW keep \in SUBSET Provs, NEW p \in DOMAIN w.rows, NEW b
    PROVE  b \in RowBlockers(w, keep, p) <=>
             \/ w.rows[p] = {} /\ b = Blocker(p, "other", None, TheKey, keep)
             \/ Star \in w.rows[p] /\ b = Blocker(p, "dynamic", None, TheKey, keep)
             \/ \E n \in Static(w.rows, p) :
                   ModelKind(w, p, n) # "fit" /\ b = Blocker(p, ModelKind(w, p, n), n, TheKey, keep)
             \/ \E n \in Names :
                   /\ <<p, n>> \in Fit(w, keep) \ Selected(w, keep)
                   /\ b = Blocker(p, "collision", n, Holder(Selected(w, keep), n), keep)
<1> DEFINE whole(kind) == {Blocker(p, kind, None, TheKey, keep)}
           empty == When(w.rows[p] = {}, whole("other"))
           star == When(Star \in w.rows[p], whole("dynamic"))
           models == {Blocker(p, ModelKind(w, p, n), n, TheKey, keep) :
                        n \in {x \in Static(w.rows, p) : ModelKind(w, p, x) # "fit"}}
           taken == {Blocker(p, "collision", n, Holder(Selected(w, keep), n), keep) :
                        n \in {x \in Names : <<p, x>> \in Fit(w, keep) \ Selected(w, keep)}}
<1>1. RowBlockers(w, keep, p) = empty \cup star \cup models \cup taken
  BY DEF RowBlockers, Fit, Selected
<1>2. b \in empty <=> w.rows[p] = {} /\ b = Blocker(p, "other", None, TheKey, keep)
  BY DEF When
<1>3. b \in star <=> Star \in w.rows[p] /\ b = Blocker(p, "dynamic", None, TheKey, keep)
  BY DEF When
<1>4. b \in models <=>
        \E n \in Static(w.rows, p) :
           ModelKind(w, p, n) # "fit" /\ b = Blocker(p, ModelKind(w, p, n), n, TheKey, keep)
  OBVIOUS
<1>5. b \in taken <=>
        \E n \in Names :
           /\ <<p, n>> \in Fit(w, keep) \ Selected(w, keep)
           /\ b = Blocker(p, "collision", n, Holder(Selected(w, keep), n), keep)
  OBVIOUS
<1> HIDE DEF empty, star, models, taken
<1> QED BY <1>1, <1>2, <1>3, <1>4, <1>5

LEMMA KindFacts ==
    ASSUME NEW w, NEW p, NEW n
    PROVE  ModelKind(w, p, n) \in {"undiscovered", "unsaved", "other", "fit"}
BY DEF ModelKind

LEMMA ReadinessFacts ==
    ASSUME NEW w \in Possible, NEW keep \in SUBSET Provs, ~Empty(w), NEW b
    PROVE  /\ b \in SelectionBlockers(w, keep) <=>
                \/ w.all /\ b = Blocker(TheKey, "all-providers", None, TheKey, keep)
                \/ \E p \in DOMAIN w.rows : b \in RowBlockers(w, keep, p)
           /\ b \in Readiness(w, keep) =>
                \/ b \in SelectionBlockers(w, keep)
                \/ b.provider = TheKey /\ b.kind = "other" /\ ~b.kept
           /\ b \in SelectionBlockers(w, keep) => b \in Readiness(w, keep)
<1>1. b \in SelectionBlockers(w, keep) <=>
                \/ w.all /\ b = Blocker(TheKey, "all-providers", None, TheKey, keep)
                \/ \E p \in DOMAIN w.rows : b \in RowBlockers(w, keep, p)
  BY WhenFacts DEF SelectionBlockers
<1>2. TheKey \notin keep
  BY AdoptionAssumption
<1>3. b \in Readiness(w, keep) =>
        b \in SelectionBlockers(w, keep) \/ \E reason : b = Blocker(TheKey, "other", reason, TheKey, keep)
  BY DEF Readiness
<1>4. b \in SelectionBlockers(w, keep) => b \in Readiness(w, keep)
  BY DEF Readiness
<1>5. ASSUME NEW reason, b = Blocker(TheKey, "other", reason, TheKey, keep)
      PROVE  b.provider = TheKey /\ b.kind = "other" /\ ~b.kept
  BY <1>2, <1>5, BlockerFacts
<1> QED BY <1>1, <1>3, <1>4, <1>5

\* Who a blocker is of, and what kind it may be of whom.
LEMMA ReadinessKinds ==
    ASSUME NEW w \in Possible, NEW keep \in SUBSET Provs, NEW b \in Readiness(w, keep)
    PROVE  /\ ~Empty(w)
           /\ b.provider \in DOMAIN w.rows \cup {TheKey}
           /\ b.provider = TheKey => b.kind \in {"all-providers", "other"} /\ ~b.kept
           /\ b.kind = "all-providers" => b.provider = TheKey /\ w.all
           /\ b.kind \in {"undiscovered", "unsaved", "dynamic", "collision"} => b.provider \in DOMAIN w.rows
           /\ b.kept <=> b.provider \in keep
<1>1. ~Empty(w)
  BY DEF Readiness
<1>2. DOMAIN w.rows \subseteq Provs /\ TheKey \notin Provs
  BY PossibleFacts, AdoptionAssumption
<1>3. CASE b \in SelectionBlockers(w, keep)
  <2>1. CASE w.all /\ b = Blocker(TheKey, "all-providers", None, TheKey, keep)
    <3>1. b.provider = TheKey /\ b.kind = "all-providers" /\ (b.kept <=> TheKey \in keep)
      BY <2>1, BlockerFacts
    <3> QED BY <1>1, <1>2, <2>1, <3>1
  <2>2. ASSUME NEW p \in DOMAIN w.rows, b \in RowBlockers(w, keep, p)
        PROVE  /\ b.provider = p /\ (b.kept <=> p \in keep)
               /\ b.kind \in {"other", "dynamic", "undiscovered", "unsaved", "collision"}
    <3>1. CASE b = Blocker(p, "other", None, TheKey, keep) \/ b = Blocker(p, "dynamic", None, TheKey, keep)
      BY <3>1, BlockerFacts
    <3>2. ASSUME NEW n \in Static(w.rows, p), ModelKind(w, p, n) # "fit",
                 b = Blocker(p, ModelKind(w, p, n), n, TheKey, keep)
          PROVE  /\ b.provider = p /\ (b.kept <=> p \in keep)
                 /\ b.kind \in {"other", "undiscovered", "unsaved"}
      BY <3>2, BlockerFacts, KindFacts
    <3>3. ASSUME NEW n, NEW with, b = Blocker(p, "collision", n, with, keep)
          PROVE  b.provider = p /\ (b.kept <=> p \in keep) /\ b.kind = "collision"
      BY <3>3, BlockerFacts
    <3>4. \/ w.rows[p] = {} /\ b = Blocker(p, "other", None, TheKey, keep)
          \/ Star \in w.rows[p] /\ b = Blocker(p, "dynamic", None, TheKey, keep)
          \/ \E n \in Static(w.rows, p) :
                ModelKind(w, p, n) # "fit" /\ b = Blocker(p, ModelKind(w, p, n), n, TheKey, keep)
          \/ \E n \in Names :
                /\ <<p, n>> \in Fit(w, keep) \ Selected(w, keep)
                /\ b = Blocker(p, "collision", n, Holder(Selected(w, keep), n), keep)
      <4>1. b \in RowBlockers(w, keep, p)
        BY <2>2
      <4> HIDE <2>2
      <4> QED BY <4>1, RowBlockerFacts
    <3> QED BY <3>1, <3>2, <3>3, <3>4
  <2> QED BY <1>1, <1>2, <1>3, <2>1, <2>2, ReadinessFacts
<1>4. CASE b.provider = TheKey /\ b.kind = "other" /\ ~b.kept
  BY <1>1, <1>2, <1>4
<1> QED BY <1>1, <1>3, <1>4, ReadinessFacts

-----------------------------------------------------------------------------
(* The dialog's steps.                                                     *)

LEMMA SendTyped ==
    ASSUME NEW kind \in {"preview", "adopt"}, NEW keep \in SUBSET Provs, NEW saw \in Previews \cup {None},
           Send(kind, keep, saw)
    PROVE  /\ ask' \in Asks /\ ask'.status = "sent" /\ ask'.kind = kind /\ ask'.saw = saw
BY DEF Send, Asks, TypeOK

LEMMA EditSendTyped ==
    ASSUME NEW kind \in {"preview", "confirm"}, NEW saw \in Possible \cup {None}, EditSend(kind, saw)
    PROVE  /\ editAsk' \in EditAsks /\ editAsk'.status = "sent" /\ editAsk'.kind = kind /\ editAsk'.saw = saw
BY DEF EditSend, EditAsks, TypeOK

LEMMA OfferedTyped ==
    ASSUME NEW w \in Possible, NEW keep \in SUBSET Provs, NEW row \in Rows(Readiness(w, keep))
    PROVE  /\ EditChoices(Readiness(w, keep), row) \subseteq Requests
<1> DEFINE r == Readiness(w, keep)
<1>1. ASSUME NEW b \in RowBlockersOf(r, row) PROVE EditFor(b, r) \subseteq Requests
  <2>1. b \in r
    BY <1>1 DEF RowBlockersOf, Decisions, OpenBlockers
  <2>2. b.provider \in Provs \cup {TheKey}
    BY <2>1, ReadinessKinds, PossibleFacts
  <2> HIDE DEF r
  <2> QED BY <2>2 DEF EditFor, Requests, Operations
<1> QED BY <1>1 DEF EditChoices

\* The dialog's own state, when the server's does not change.
LEMMA AskStep ==
    ASSUME TypeOK, AskInv, Open \/ Close \/ RefreshPreview \/ Apply \/ (\E p \in Provs, on \in BOOLEAN : Keep(p, on))
    PROVE  TypeOK' /\ AskInv'
<1>1. UNCHANGED <<server, editing, bounds>>
  BY DEF Open, Close, RefreshPreview, Apply, Keep
<1>2. /\ open' \in BOOLEAN /\ stale' \in BOOLEAN /\ preselected' \in BOOLEAN
      /\ kept' \subseteq Provs /\ edited' \subseteq Provs \cup {TheKey}
  BY DEF TypeOK, Open, Close, RefreshPreview, Apply, Keep
<1>3. shown' \in {shown, None}
  BY DEF Open, Close, RefreshPreview, Apply, Keep
<1>4. \/ ask' = None
      \/ \E keep \in SUBSET Provs : Send("preview", keep, None)
      \/ Send("adopt", kept, shown) /\ shown' = shown /\ shown # None
  <2>1. CASE Open \/ Close \/ RefreshPreview
    BY <2>1 DEF Open, Close, RefreshPreview, Refresh, TypeOK
  <2>2. CASE Apply
    BY <2>2 DEF Apply
  <2>3. ASSUME NEW p \in Provs, NEW on \in BOOLEAN, Keep(p, on)
        PROVE  \E keep \in SUBSET Provs : Send("preview", keep, None)
    <3>1. Send("preview", IF on THEN kept \cup {p} ELSE kept \ {p}, None)
      BY <2>3 DEF Keep, Refresh
    <3>2. (IF on THEN kept \cup {p} ELSE kept \ {p}) \in SUBSET Provs
      BY DEF TypeOK
    <3> QED BY <3>1, <3>2
  <2> QED BY <2>1, <2>2, <2>3
<1>5. /\ ask' \in Asks \cup {None}
      /\ ask' # None => ask'.status = "sent" /\ (ask'.kind = "adopt" => ask'.saw = shown')
  <2>1. CASE ask' = None
    BY <2>1
  <2>2. CASE \E keep \in SUBSET Provs : Send("preview", keep, None)
    BY <2>2, SendTyped
  <2>3. CASE Send("adopt", kept, shown) /\ shown' = shown
    BY <2>3, SendTyped DEF TypeOK
  <2> QED BY <1>4, <2>1, <2>2, <2>3
<1>6. TypeOK'
  BY <1>1, <1>2, <1>3, <1>5 DEF TypeOK, server, editing, bounds
<1>7. AskInv'
  BY <1>1, <1>5 DEF AskInv, Applying, Busy, editing, Underway
<1> QED BY <1>6, <1>7

LEMMA EditAskStep ==
    ASSUME TypeOK, AskInv, OpenEdit \/ EditRefresh \/ EditConfirm \/ CloseEdit
    PROVE  TypeOK' /\ AskInv'
<1>1. UNCHANGED <<server, dialog>> /\ foreign' = foreign /\ edits' \in {edits, edits + 1}
  BY DEF OpenEdit, EditRefresh, EditConfirm, CloseEdit, bounds
<1>2. editStale' \in BOOLEAN /\ receipt' \in BOOLEAN /\ editShown' \in {editShown, None}
  BY DEF TypeOK, OpenEdit, EditRefresh, EditConfirm, CloseEdit
<1>3. edit' \in Requests \cup {None} /\ (editAsk' # None => edit' \in Requests)
  <2>1. CASE OpenEdit
    <3>1. shown \in Previews /\ \E row \in Rows(Verdict) : edit' \in EditChoices(Verdict, row)
      BY <2>1 DEF OpenEdit, TypeOK
    <3>2. shown.world \in Possible /\ shown.keep \in SUBSET Provs
      BY <3>1 DEF Previews
    <3> QED BY <3>1, <3>2, OfferedTyped DEF Verdict
  <2>2. CASE EditRefresh \/ EditConfirm
    BY <2>2 DEF TypeOK, EditRefresh, EditConfirm
  <2>3. CASE CloseEdit
    BY <2>3 DEF CloseEdit
  <2> QED BY <2>1, <2>2, <2>3
<1>4. \/ EditSend("preview", None)
      \/ EditSend("confirm", editShown) /\ editShown' = editShown /\ editShown # None
      \/ editAsk' = None
  BY DEF OpenEdit, EditRefresh, EditConfirm, CloseEdit
<1>5. editAsk' \in EditAsks \cup {None}
  BY <1>4, EditSendTyped DEF TypeOK
<1>6. TypeOK'
  BY <1>1, <1>2, <1>3, <1>5 DEF TypeOK, server, dialog
<1>7. AskInv'
  <2>1. CASE EditSend("preview", None)
    BY <1>1, <1>3, <2>1, EditSendTyped DEF AskInv, Applying, Busy, dialog, Underway
  <2>2. CASE EditSend("confirm", editShown) /\ editShown' = editShown /\ editShown # None
    BY <1>1, <1>3, <2>2, EditSendTyped DEF AskInv, Applying, Busy, dialog, TypeOK, Underway
  <2>3. CASE editAsk' = None
    BY <1>1, <1>3, <2>3 DEF AskInv, Applying, Busy, dialog, Underway
  <2> QED BY <1>4, <2>1, <2>2, <2>3
<1> QED BY <1>6, <1>7

\* A world put together from reads of several moments.
LEMMA Mixed ==
    ASSUME NEW v \in Possible, NEW w \in Possible
    PROVE  /\ [v EXCEPT !.disc = w.disc, !.off = w.off] \in Possible
           /\ [v EXCEPT !.differs = w.differs] \in Possible
           /\ \A rows \in RowMaps :
                 [w EXCEPT !.all = FALSE, !.rows = rows, !.inactive = v.inactive] \in Possible
BY DEF Possible

LEMMA AnswerTyped ==
    ASSUME ask \in Asks, NEW status \in {"ok", "conflict", "error"}, Answer(status)
    PROVE  /\ ask' \in Asks /\ ask'.kind = ask.kind /\ ask'.saw = ask.saw /\ ask'.keep = ask.keep
           /\ ask'.status = status /\ ~Underway(ask)'
BY DEF Answer, Asks, Underway

Serving == ServeKey \/ ServeModels \/ ServePreview \/ ServeAdopt \/ AdoptSave

\* What the server does with a call of the dialog: it answers, or goes on reading, or both
\* keeps the plan it made.
LEMMA ServeCases ==
    ASSUME TypeOK, AskInv, Serving
    PROVE  /\ UNCHANGED <<world, open, shown, kept, edited, stale, preselected, editing, bounds>>
           /\ ask # None /\ ask \in Asks
           /\ ask' \in Asks /\ ask'.kind = ask.kind /\ ask'.keep = ask.keep
           /\ ask.kind = "adopt" => ask'.saw = ask.saw
           /\ ask.kind = "preview" /\ ask'.status = "ok" => ask'.saw \in Possible
           /\ Underway(ask)' => ask'.read \in Possible
<1>1. /\ UNCHANGED <<world, open, shown, kept, edited, stale, preselected, editing, bounds>>
      /\ ask # None /\ ask \in Asks /\ world \in Possible
  BY DEF Serving, ServeKey, ServeModels, ServePreview, ServeAdopt, AdoptSave, Applying, Busy, server, besidesAsk, TypeOK
<1> DEFINE Goal == /\ ask' \in Asks /\ ask'.kind = ask.kind /\ ask'.keep = ask.keep
                   /\ ask.kind = "adopt" => ask'.saw = ask.saw
                   /\ ask.kind = "preview" /\ ask'.status = "ok" => ask'.saw \in Possible
                   /\ Underway(ask)' => ask'.read \in Possible
<1>2. ASSUME NEW status \in {"ok", "conflict", "error"}, Answer(status), status = "ok" => ask.kind = "adopt"
      PROVE  Goal
  BY <1>1, <1>2, AnswerTyped
<1>3. ASSUME ServeKey PROVE Goal
  <2>1. \/ ask' = [ask EXCEPT !.status = "key", !.read = world, !.since = foreign]
        \/ Answer("conflict") \/ Answer("error")
    BY <1>3 DEF ServeKey
  <2>2. CASE ask' = [ask EXCEPT !.status = "key", !.read = world, !.since = foreign]
    BY <1>1, <2>2 DEF Asks, TypeOK
  <2> QED BY <1>2, <2>1, <2>2
<1>4. ASSUME ServeModels PROVE Goal
  <2> DEFINE read == [ask.read EXCEPT !.disc = world.disc, !.off = world.off]
  <2>1. ask' = [ask EXCEPT !.status = "models", !.read = read] \/ Answer("error")
    BY <1>4 DEF ServeModels
  <2>2. read \in Possible
    BY <1>1, <1>4, Mixed DEF ServeModels, AskInv, Underway
  <2> HIDE DEF read
  <2>3. CASE ask' = [ask EXCEPT !.status = "models", !.read = read]
    BY <1>1, <2>2, <2>3 DEF Asks
  <2> QED BY <1>2, <2>1, <2>3
<1>5. ask.status = "models" => Plan \in Possible
  BY <1>1, Mixed DEF Plan, AskInv, Underway
<1>6. ASSUME ServePreview PROVE Goal
  <2>1. ask.kind = "preview" /\ Plan \in Possible
    BY <1>5, <1>6 DEF ServePreview
  <2>2. ask' = [ask EXCEPT !.status = "ok", !.saw = Plan, !.read = None, !.since = 0] \/ Answer("error")
    BY <1>6 DEF ServePreview
  <2>3. CASE ask' = [ask EXCEPT !.status = "ok", !.saw = Plan, !.read = None, !.since = 0]
    BY <1>1, <2>1, <2>3 DEF Asks, Underway
  <2> QED BY <1>2, <2>2, <2>3
<1>7. ASSUME ServeAdopt PROVE Goal
  <2>1. ask.kind = "adopt" /\ Plan \in Possible
    BY <1>5, <1>7 DEF ServeAdopt, Applying
  <2>2. \/ ask' = [ask EXCEPT !.status = "planned", !.read = Plan]
        \/ Answer("conflict") \/ Answer("error")
    BY <1>7 DEF ServeAdopt
  <2>3. CASE ask' = [ask EXCEPT !.status = "planned", !.read = Plan]
    BY <1>1, <2>1, <2>3 DEF Asks
  <2> QED BY <1>2, <2>2, <2>3
<1>8. ASSUME AdoptSave PROVE Goal
  <2>1. ask.kind = "adopt" /\ \E status \in {"ok", "conflict", "error"} : Answer(status)
    BY <1>8 DEF AdoptSave, Applying
  <2> QED BY <1>2, <2>1
<1> QED BY <1>1, <1>3, <1>4, <1>6, <1>7, <1>8 DEF Serving

LEMMA ServeStep ==
    ASSUME TypeOK, AskInv, Serving
    PROVE  TypeOK' /\ AskInv'
<1>1. policy' \in Adoptions \cup {None}
  <2>1. CASE UNCHANGED policy
    BY <2>1 DEF TypeOK
  <2>2. CASE AdoptSave /\ policy' = Adoption(ask.read, ask.keep)
    <3>1. ask \in Asks /\ Underway(ask)
      BY <2>2 DEF AdoptSave, Applying, Busy, Underway, TypeOK
    <3>2. ask.keep \in SUBSET Provs /\ ask.read \in Possible
      BY <3>1 DEF Asks, AskInv
    <3> QED BY <2>2, <3>2, AdoptionTyped
  <2> QED BY <2>1, <2>2 DEF Serving, ServeKey, ServeModels, ServePreview, ServeAdopt, AdoptSave, server
<1>2. TypeOK'
  BY <1>1, ServeCases DEF TypeOK, editing, bounds
<1>3. AskInv'
  BY ServeCases DEF AskInv, Applying, Busy, editing, Underway
<1> QED BY <1>2, <1>3

LEMMA AnsweredStep ==
    ASSUME TypeOK, AskInv, PreviewAnswered \/ AdoptAnswered \/ Report
    PROVE  TypeOK' /\ AskInv'
<1>1. /\ UNCHANGED <<server, edited, editing, bounds>>
      /\ ask # None /\ ask \in Asks
  BY DEF PreviewAnswered, AdoptAnswered, Report, Answered, Busy, TypeOK
<1>2. open' \in BOOLEAN /\ stale' \in BOOLEAN /\ preselected' \in BOOLEAN
  BY DEF PreviewAnswered, AdoptAnswered, Report, TypeOK
<1>3. /\ kept' \subseteq Provs /\ shown' \in Previews \cup {None}
      /\ ask' = None \/ \E keep \in SUBSET Provs : Send("preview", keep, None)
  <2>1. CASE PreviewAnswered
    <3>1. ask.kind = "preview" /\ ask.status = "ok"
      BY <2>1 DEF PreviewAnswered
    <3>2. ask.saw \in Possible /\ ask.keep \in SUBSET Provs
      BY <1>1, <3>1 DEF AskInv, Asks
    <3> DEFINE disabled == When(~preselected, DisabledProviders(ask.saw, Readiness(ask.saw, ask.keep)))
    <3>3. disabled \subseteq Provs
      BY <3>2, PossibleFacts DEF When, DisabledProviders
    <3>4. \/ Send("preview", ask.keep \cup disabled, None) /\ UNCHANGED <<shown, kept, stale>>
          \/ shown' = [world |-> ask.saw, keep |-> ask.keep] /\ kept' = ask.keep /\ ask' = None
      BY <2>1 DEF PreviewAnswered
    <3> HIDE DEF disabled
    <3>5. CASE Send("preview", ask.keep \cup disabled, None) /\ UNCHANGED <<shown, kept, stale>>
      <4>1. ask.keep \cup disabled \in SUBSET Provs
        BY <3>2, <3>3
      <4> QED BY <3>5, <4>1 DEF TypeOK
    <3>6. CASE shown' = [world |-> ask.saw, keep |-> ask.keep] /\ kept' = ask.keep /\ ask' = None
      BY <3>2, <3>6 DEF Previews
    <3> QED BY <3>4, <3>5, <3>6
  <2>2. CASE AdoptAnswered \/ Report
    BY <2>2 DEF AdoptAnswered, Report, TypeOK
  <2> QED BY <2>1, <2>2
<1>4. ask' \in Asks \cup {None} /\ (ask' # None => ask'.kind = "preview" /\ ask'.status = "sent")
  BY <1>3, SendTyped
<1>5. TypeOK'
  BY <1>1, <1>2, <1>3, <1>4 DEF TypeOK, server, editing, bounds
<1>6. AskInv'
  BY <1>1, <1>4 DEF AskInv, Applying, Busy, editing, Underway
<1> QED BY <1>5, <1>6

EditServing == EditServeKey \/ EditServePreview \/ EditServe \/ EditWrite \/ EditReadBack

LEMMA EditAnswerTyped ==
    ASSUME editAsk \in EditAsks, NEW status \in {"ok", "unconfirmed", "conflict", "error"}, EditAnswer(status)
    PROVE  /\ editAsk' \in EditAsks /\ editAsk'.kind = editAsk.kind /\ editAsk'.saw = editAsk.saw
           /\ editAsk'.status = status /\ ~Underway(editAsk)'
BY DEF EditAnswer, EditAsks, Underway

\* What the server does with a call of the edit dialog.
LEMMA EditServeCases ==
    ASSUME TypeOK, AskInv, EditServing
    PROVE  /\ UNCHANGED <<policy, dialog, edit, editShown, editStale, receipt, bounds>>
           /\ editAsk # None /\ editAsk \in EditAsks
           /\ editAsk' \in EditAsks /\ editAsk'.kind = editAsk.kind
           /\ editAsk.kind = "confirm" => editAsk'.saw = editAsk.saw
           /\ editAsk.kind = "preview" /\ editAsk'.status = "ok" => editAsk'.saw \in Possible
           /\ Underway(editAsk)' => editAsk'.read \in Possible
           /\ editAsk'.status \in {"planned", "written"} => editAsk.kind = "confirm"
           /\ editAsk'.status = "planned" => ~EditBlocked(editAsk'.read, edit)
<1>1. /\ UNCHANGED <<policy, dialog, edit, editShown, editStale, receipt, bounds>>
      /\ editAsk # None /\ editAsk \in EditAsks /\ world \in Possible
  BY DEF EditServing, EditServeKey, EditServePreview, EditServe, EditWrite, EditReadBack, server, besidesEditAsk, TypeOK
<1> DEFINE Goal == /\ editAsk' \in EditAsks /\ editAsk'.kind = editAsk.kind
                   /\ editAsk.kind = "confirm" => editAsk'.saw = editAsk.saw
                   /\ editAsk.kind = "preview" /\ editAsk'.status = "ok" => editAsk'.saw \in Possible
                   /\ Underway(editAsk)' => editAsk'.read \in Possible
                   /\ editAsk'.status \in {"planned", "written"} => editAsk.kind = "confirm"
                   /\ editAsk'.status = "planned" => ~EditBlocked(editAsk'.read, edit)
<1>2. ASSUME NEW status \in {"ok", "unconfirmed", "conflict", "error"}, EditAnswer(status),
             status = "ok" => editAsk.kind = "confirm"
      PROVE  Goal
  BY <1>1, <1>2, EditAnswerTyped
<1>3. EditFails => Goal
  BY <1>2 DEF EditFails
<1>4. ASSUME EditServeKey PROVE Goal
  <2>1. \/ editAsk' = [editAsk EXCEPT !.status = "key", !.read = world, !.since = foreign]
        \/ EditAnswer("conflict") \/ EditFails
    BY <1>4 DEF EditServeKey
  <2>2. CASE editAsk' = [editAsk EXCEPT !.status = "key", !.read = world, !.since = foreign]
    BY <1>1, <2>2 DEF EditAsks, TypeOK
  <2> QED BY <1>2, <1>3, <2>1, <2>2
<1>5. editAsk.status = "key" => EditPlan \in Possible
  BY <1>1, Mixed DEF EditPlan, AskInv, Underway
<1>6. ASSUME EditServePreview PROVE Goal
  <2>1. editAsk.kind = "preview" /\ EditPlan \in Possible
    BY <1>5, <1>6 DEF EditServePreview
  <2>2. \/ editAsk' = [editAsk EXCEPT !.status = "ok", !.saw = EditPlan, !.read = None, !.since = 0]
        \/ EditFails
    BY <1>6 DEF EditServePreview
  <2>3. CASE editAsk' = [editAsk EXCEPT !.status = "ok", !.saw = EditPlan, !.read = None, !.since = 0]
    BY <1>1, <2>1, <2>3 DEF EditAsks, Underway
  <2> QED BY <1>3, <2>2, <2>3
<1>7. ASSUME EditServe PROVE Goal
  <2>1. editAsk.kind = "confirm" /\ EditPlan \in Possible
    BY <1>5, <1>7 DEF EditServe
  <2>2. \/ EditAllowed(EditPlan) /\ editAsk' = [editAsk EXCEPT !.status = "planned", !.read = EditPlan]
        \/ EditAnswer("conflict") \/ EditFails
    BY <1>7 DEF EditServe
  <2>3. CASE EditAllowed(EditPlan) /\ editAsk' = [editAsk EXCEPT !.status = "planned", !.read = EditPlan]
    <3>1. ~EditBlocked(EditPlan, edit)
      BY <2>3 DEF EditAllowed
    <3> QED BY <1>1, <2>1, <2>3, <3>1 DEF EditAsks
  <2> QED BY <1>2, <1>3, <2>2, <2>3
<1>8. ASSUME EditWrite PROVE Goal
  <2>1. editAsk.kind = "confirm" /\ editAsk.status = "planned" /\ editAsk.read \in Possible
    BY <1>8 DEF EditWrite, AskInv, Underway
  <2>2. editAsk' = [editAsk EXCEPT !.status = "written"] \/ EditFails
    BY <1>8 DEF EditWrite
  <2>3. CASE editAsk' = [editAsk EXCEPT !.status = "written"]
    BY <1>1, <2>1, <2>3 DEF EditAsks
  <2> QED BY <1>3, <2>2, <2>3
<1>9. ASSUME EditReadBack PROVE Goal
  <2>1. editAsk.kind = "confirm"
    BY <1>9 DEF EditReadBack, AskInv
  <2> QED BY <1>2, <1>3, <1>9, <2>1 DEF EditReadBack
<1> QED BY <1>1, <1>4, <1>6, <1>7, <1>8, <1>9 DEF EditServing

LEMMA EditServeStep ==
    ASSUME TypeOK, AskInv, EditServing
    PROVE  TypeOK' /\ AskInv'
<1>1. world' \in Possible
  <2>1. CASE UNCHANGED world
    BY <2>1 DEF TypeOK
  <2>2. CASE EditWrite /\ world' = [world EXCEPT !.all = FALSE, !.rows = EditedRows(editAsk.read, edit),
                                               !.inactive = editAsk.read.inactive]
    <3>1. /\ editAsk.read \in Possible /\ ~EditBlocked(editAsk.read, edit) /\ edit \in Requests
          /\ world \in Possible
      BY <2>2 DEF EditWrite, AskInv, Underway, TypeOK
    <3>2. EditedRows(editAsk.read, edit) \in RowMaps
      BY <3>1, EditedRowsTyped
    <3> QED BY <2>2, <3>1, <3>2, Mixed
  <2> QED BY <2>1, <2>2
          DEF EditServing, EditServeKey, EditServePreview, EditServe, EditWrite, EditReadBack, server
<1>2. TypeOK'
  BY <1>1, EditServeCases DEF TypeOK, dialog, bounds
<1>3. AskInv'
  BY EditServeCases DEF AskInv, Applying, Busy, dialog, Underway
<1> QED BY <1>2, <1>3

LEMMA EditAnsweredStep ==
    ASSUME TypeOK, AskInv, EditPreviewAnswered \/ EditConfirmed \/ EditReport
    PROVE  TypeOK' /\ AskInv'
<1>1. /\ UNCHANGED <<server, open, shown, kept, stale, preselected, edit, bounds>>
      /\ editAsk' = None /\ editAsk # None /\ editAsk \in EditAsks /\ edit \in Requests
  BY DEF EditPreviewAnswered, EditConfirmed, EditReport, dialog, TypeOK, AskInv
<1>2. editStale' \in BOOLEAN /\ receipt' \in BOOLEAN
  BY DEF EditPreviewAnswered, EditConfirmed, EditReport, TypeOK
<1>3. editShown' \in Possible \cup {None}
  BY DEF EditPreviewAnswered, EditConfirmed, EditReport, TypeOK, AskInv
<1>4. edited' \subseteq Provs \cup {TheKey}
  <2>1. edited' = edited \/ edited' = edited \cup {edit.provider}
    BY DEF EditPreviewAnswered, EditConfirmed, EditReport, dialog
  <2>2. edit.provider \in Provs \cup {TheKey}
    BY <1>1 DEF Requests
  <2> QED BY <2>1, <2>2 DEF TypeOK
<1>5. ask' = ask \/ Send("preview", kept, None)
  BY DEF EditPreviewAnswered, EditConfirmed, EditReport, dialog, Refresh
<1>6. ask' \in Asks \cup {None}
  BY <1>5, SendTyped DEF TypeOK
<1>7. ask' # ask => ask'.kind = "preview" /\ ask'.status = "sent"
  BY <1>5, SendTyped DEF TypeOK
<1>8. TypeOK'
  BY <1>1, <1>2, <1>3, <1>4, <1>6 DEF TypeOK, server, bounds
<1>9. AskInv'
  BY <1>1, <1>7 DEF AskInv, Applying, Busy, Underway
<1> QED BY <1>8, <1>9

LEMMA ForeignStep ==
    ASSUME TypeOK, AskInv, Foreign
    PROVE  TypeOK' /\ AskInv'
<1>1. UNCHANGED <<dialog, editing, edits>> /\ foreign' = foreign + 1
  BY DEF Foreign
<1>2. world' \in Possible
  BY AdoptionAssumption DEF Foreign, TypeOK
<1>3. policy' \in Adoptions \cup {None}
  <2>1. policy' = policy \/ \E keep \in SUBSET Provs : policy' = Adoption(world, keep)
    BY DEF Foreign
  <2> QED BY <2>1, AdoptionTyped DEF TypeOK
<1>4. TypeOK'
  BY <1>1, <1>2, <1>3 DEF TypeOK, dialog, editing
<1>5. AskInv'
  BY <1>1 DEF AskInv, Applying, Busy, dialog, editing, Underway
<1> QED BY <1>4, <1>5

LEMMA DialogStep ==
    ASSUME TypeOK, AskInv, Next
    PROVE  TypeOK' /\ AskInv'
BY AskStep, EditAskStep, ServeStep, AnsweredStep, EditServeStep, EditAnsweredStep, ForeignStep
   DEF Next, Operator, Answers, Serving, EditServing

LEMMA AskPlanStep ==
    ASSUME TypeOK, AskInv, PlanInv, Serving
    PROVE  PlanInv'
<1>1. /\ ~Underway(editAsk) /\ UNCHANGED <<world, shown, editing, bounds>> /\ ask # None
      /\ ask \in Asks /\ ask' \in Asks /\ ask'.keep = ask.keep /\ ask'.kind = ask.kind
  <2>1. ~Underway(editAsk)
    BY DEF Serving, ServeKey, ServeModels, ServePreview, ServeAdopt, AdoptSave, Locked, Applying, Busy,
           PlanInv, Underway
  <2> QED BY <2>1, ServeCases
<1>2. /\ ~(Underway(ask) /\ Underway(editAsk))'
      /\ ~(editAsk # None /\ editAsk.status \in {"key", "planned"})'
  BY <1>1 DEF Underway, editing
<1> DEFINE Goal == /\ Underway(ask)' => ask'.since <= foreign /\ (ask'.since = foreign => Key(ask'.read) = Key(world))
                   /\ Applying' /\ ask'.status = "planned" =>
                         Token(ask'.read, ask'.keep) = Token(shown.world, shown.keep)
<1>3. ASSUME NEW status \in {"ok", "conflict", "error"}, Answer(status) PROVE Goal
  BY <1>1, <1>3, AnswerTyped DEF Underway
<1>4. ASSUME ServeKey PROVE Goal
  <2>1. \/ ask' = [ask EXCEPT !.status = "key", !.read = world, !.since = foreign]
        \/ Answer("conflict") \/ Answer("error")
    BY <1>4 DEF ServeKey
  <2>2. CASE ask' = [ask EXCEPT !.status = "key", !.read = world, !.since = foreign]
    <3>1. ask'.status = "key" /\ ask'.since = foreign /\ ask'.read = world
      BY <1>1, <2>2 DEF Asks
    <3> QED BY <3>1 DEF TypeOK
  <2> QED BY <1>3, <2>1, <2>2
<1>5. Underway(ask) => /\ ask.read \in Possible /\ ask.since <= foreign
                       /\ ask.since = foreign => Key(ask.read) = Key(world)
  BY DEF AskInv, PlanInv
<1>6. ASSUME ServeModels PROVE Goal
  <2>1. \/ ask' = [ask EXCEPT !.status = "models", !.read = [@ EXCEPT !.disc = world.disc, !.off = world.off]]
        \/ Answer("error")
    BY <1>6 DEF ServeModels
  <2>2. CASE ask' = [ask EXCEPT !.status = "models", !.read = [@ EXCEPT !.disc = world.disc, !.off = world.off]]
    <3>1. Underway(ask)
      BY <1>1, <1>6 DEF ServeModels, Underway
    <3>2. /\ ask'.status = "models" /\ ask'.since = ask.since
          /\ ask'.read = [ask.read EXCEPT !.disc = world.disc, !.off = world.off]
      BY <1>1, <2>2 DEF Asks
    <3>3. Key(ask'.read) = Key(ask.read)
      BY <1>5, <3>1, <3>2 DEF Key, Possible
    <3> QED BY <1>5, <3>1, <3>2, <3>3
  <2> QED BY <1>3, <2>1, <2>2
<1>7. ASSUME ServePreview PROVE Goal
  <2>1. ask' = [ask EXCEPT !.status = "ok", !.saw = Plan, !.read = None, !.since = 0] \/ Answer("error")
    BY <1>7 DEF ServePreview
  <2>2. CASE ask' = [ask EXCEPT !.status = "ok", !.saw = Plan, !.read = None, !.since = 0]
    <3>1. ask'.status = "ok"
      BY <1>1, <2>2 DEF Asks
    <3> QED BY <3>1 DEF Underway
  <2> QED BY <1>3, <2>1, <2>2
<1>8. ASSUME ServeAdopt PROVE Goal
  <2>1. \/ Confirmed(Plan) /\ ask' = [ask EXCEPT !.status = "planned", !.read = Plan]
        \/ Answer("conflict") \/ Answer("error")
    BY <1>8 DEF ServeAdopt
  <2>2. CASE Confirmed(Plan) /\ ask' = [ask EXCEPT !.status = "planned", !.read = Plan]
    <3>1. Underway(ask) /\ ask.saw = shown
      BY <1>1, <1>8 DEF ServeAdopt, Underway, AskInv
    <3>2. ask'.status = "planned" /\ ask'.since = ask.since /\ ask'.read = Plan
      BY <1>1, <2>2 DEF Asks
    <3>3. Key(Plan) = Key(ask.read)
      BY <1>5, <3>1 DEF Plan, Key, Possible
    <3>4. Token(Plan, ask.keep) = Token(shown.world, shown.keep)
      BY <2>2, <3>1 DEF Confirmed
    <3> QED BY <1>1, <1>5, <3>1, <3>2, <3>3, <3>4
  <2> QED BY <1>3, <2>1, <2>2
<1>9. ASSUME AdoptSave PROVE Goal
  <2>1. \E status \in {"ok", "conflict", "error"} : Answer(status)
    BY <1>9 DEF AdoptSave
  <2> QED BY <1>3, <2>1
<1>10. Goal
  BY <1>4, <1>6, <1>7, <1>8, <1>9 DEF Serving
<1> HIDE DEF Goal
<1>11. UNCHANGED <<world, shown, foreign>>
  BY <1>1 DEF bounds
<1> QED BY <1>2, <1>10, <1>11, Zenon DEF PlanInv, Goal

LEMMA EditPlanStep ==
    ASSUME TypeOK, AskInv, PlanInv, EditServing
    PROVE  PlanInv'
<1>1. /\ ~Underway(ask) /\ UNCHANGED <<policy, ask, edit, editShown, foreign>> /\ editAsk # None
      /\ editAsk \in EditAsks /\ world \in Possible
  <2>1. ~Underway(ask)
    BY DEF EditServing, EditServeKey, EditServePreview, EditServe, EditWrite, EditReadBack, Locked,
           PlanInv, Underway
  <2> QED BY <2>1, EditServeCases DEF dialog, bounds, TypeOK
<1>2. /\ ~(Underway(ask) /\ Underway(editAsk))' /\ ~Underway(ask)'
      /\ ~(Applying /\ ask.status = "planned")'
  BY <1>1 DEF Underway, Applying, Busy
<1> DEFINE Goal == /\ editAsk'.status \in {"key", "planned"} =>
                         /\ editAsk'.since <= foreign
                         /\ editAsk'.since = foreign => policy = None /\ Key(editAsk'.read) = Key(world')
                   /\ editAsk'.status = "planned" =>
                         /\ EditToken(editAsk'.read, edit) = EditToken(editShown, edit)
                         /\ editAsk'.since = foreign => editAsk'.read.disc = world'.disc
<1>3. ASSUME NEW status \in {"ok", "unconfirmed", "conflict", "error"}, EditAnswer(status) PROVE Goal
  BY <1>1, <1>3, EditAnswerTyped
<1>4. EditFails => Goal
  BY <1>3 DEF EditFails
<1>5. ASSUME EditServeKey PROVE Goal
  <2>1. \/ policy = None /\ editAsk' = [editAsk EXCEPT !.status = "key", !.read = world, !.since = foreign]
        \/ EditAnswer("conflict") \/ EditFails
    BY <1>5 DEF EditServeKey
  <2>2. CASE policy = None /\ editAsk' = [editAsk EXCEPT !.status = "key", !.read = world, !.since = foreign]
    <3>1. editAsk'.status = "key" /\ editAsk'.since = foreign /\ editAsk'.read = world /\ world' = world
      BY <1>1, <1>5, <2>2 DEF EditAsks, EditServeKey, server
    <3> QED BY <2>2, <3>1 DEF TypeOK
  <2> QED BY <1>3, <1>4, <2>1, <2>2
<1>6. ASSUME EditServePreview PROVE Goal
  <2>1. \/ editAsk' = [editAsk EXCEPT !.status = "ok", !.saw = EditPlan, !.read = None, !.since = 0]
        \/ EditFails
    BY <1>6 DEF EditServePreview
  <2>2. CASE editAsk' = [editAsk EXCEPT !.status = "ok", !.saw = EditPlan, !.read = None, !.since = 0]
    <3>1. editAsk'.status = "ok"
      BY <1>1, <2>2 DEF EditAsks
    <3> QED BY <3>1
  <2> QED BY <1>4, <2>1, <2>2
<1>7. ASSUME EditServe PROVE Goal
  <2>1. \/ EditAllowed(EditPlan) /\ editAsk' = [editAsk EXCEPT !.status = "planned", !.read = EditPlan]
        \/ EditAnswer("conflict") \/ EditFails
    BY <1>7 DEF EditServe
  <2>2. CASE EditAllowed(EditPlan) /\ editAsk' = [editAsk EXCEPT !.status = "planned", !.read = EditPlan]
    <3>1. /\ editAsk.status = "key" /\ editAsk.saw = editShown /\ editAsk.read \in Possible /\ world' = world
          /\ editAsk.since <= foreign
          /\ editAsk.since = foreign => policy = None /\ Key(editAsk.read) = Key(world)
      BY <1>1, <1>7 DEF EditServe, AskInv, PlanInv, Underway, server
    <3>2. editAsk'.status = "planned" /\ editAsk'.since = editAsk.since /\ editAsk'.read = EditPlan
      BY <1>1, <2>2 DEF EditAsks
    <3>3. Key(EditPlan) = Key(editAsk.read) /\ EditPlan.disc = world.disc
      BY <3>1 DEF EditPlan, Key, Possible
    <3>4. EditToken(EditPlan, edit) = EditToken(editShown, edit)
      BY <2>2, <3>1 DEF EditAllowed
    <3> QED BY <3>1, <3>2, <3>3, <3>4
  <2> QED BY <1>3, <1>4, <2>1, <2>2
<1>8. ASSUME EditWrite PROVE Goal
  <2>1. editAsk' = [editAsk EXCEPT !.status = "written"] \/ EditFails
    BY <1>8 DEF EditWrite
  <2>2. CASE editAsk' = [editAsk EXCEPT !.status = "written"]
    <3>1. editAsk'.status = "written"
      BY <1>1, <2>2 DEF EditAsks
    <3> QED BY <3>1
  <2> QED BY <1>4, <2>1, <2>2
<1>9. ASSUME EditReadBack PROVE Goal
  BY <1>3, <1>4, <1>9 DEF EditReadBack
<1>10. Goal
  BY <1>5, <1>6, <1>7, <1>8, <1>9 DEF EditServing
<1> HIDE DEF Goal
<1> QED BY <1>1, <1>2, <1>10, Zenon DEF PlanInv, Goal

\* A step beside the calls, and a change outside.
LEMMA PlanSame ==
    ASSUME PlanInv, UNCHANGED <<policy, dialog, editing, foreign>>,
           Key(world)' = Key(world), world'.disc = world.disc
    PROVE  PlanInv'
BY DEF PlanInv, Underway, Applying, Busy, dialog, editing

LEMMA PlanLater ==
    ASSUME TypeOK, PlanInv, UNCHANGED <<dialog, editing>>, foreign' = foreign + 1
    PROVE  PlanInv'
<1>1. /\ Underway(ask) => ask.since \in Nat /\ ask.since <= foreign
      /\ editAsk # None /\ editAsk.status \in {"key", "planned"} => editAsk.since \in Nat /\ editAsk.since <= foreign
  BY DEF PlanInv, Underway, TypeOK, Asks, EditAsks
<1>2. /\ Underway(ask) => ask.since <= foreign' /\ ask.since # foreign'
      /\ editAsk # None /\ editAsk.status \in {"key", "planned"} =>
            editAsk.since <= foreign' /\ editAsk.since # foreign'
  BY <1>1 DEF TypeOK
<1> QED BY <1>2, Zenon DEF PlanInv, Underway, Applying, Busy, dialog, editing

\* A step of the dialog leaves the calls alone, or asks anew; the server carries out one at a time.
LEMMA PlanStep ==
    ASSUME TypeOK, AskInv, PlanInv, Next
    PROVE  PlanInv'
<1>1. ASSUME UNCHANGED <<server, foreign, editAsk, edit, editShown>>,
             \/ ask' = None \/ (ask' = ask /\ shown' = shown) \/ \E kind, keep, saw : Send(kind, keep, saw)
      PROVE  PlanInv'
  <2>1. CASE ask' = ask /\ shown' = shown
    BY <1>1, <2>1, Zenon DEF PlanInv, Underway, Applying, Busy, server
  <2>2. CASE ask' = None \/ \E kind, keep, saw : Send(kind, keep, saw)
    <3>1. ask' = None \/ ask'.status = "sent"
      BY <2>2 DEF Send
    <3>2. ~Underway(ask)' /\ ~(Applying /\ ask.status = "planned")'
      BY <3>1 DEF Underway, Applying, Busy
    <3> QED BY <1>1, <3>2, Zenon DEF PlanInv, Underway, server
  <2> QED BY <1>1, <2>1, <2>2
<1>2. ASSUME UNCHANGED <<server, dialog, foreign>>,
             \/ editAsk' = None \/ UNCHANGED <<editAsk, edit, editShown>> \/ \E kind, saw : EditSend(kind, saw)
      PROVE  PlanInv'
  <2>1. CASE UNCHANGED <<editAsk, edit, editShown>>
    BY <1>1, <1>2, <2>1 DEF dialog
  <2>2. CASE editAsk' = None \/ \E kind, saw : EditSend(kind, saw)
    <3>1. editAsk' = None \/ editAsk'.status = "sent"
      BY <2>2 DEF EditSend
    <3>2. ~Underway(editAsk)' /\ ~(editAsk # None /\ editAsk.status \in {"key", "planned"})'
      BY <3>1 DEF Underway
    <3> QED BY <1>2, <3>2, Zenon DEF PlanInv, Underway, Applying, Busy, dialog, server
  <2> QED BY <1>2, <2>1, <2>2
<1>3. CASE Open \/ Close \/ RefreshPreview \/ Apply \/ \E p \in Provs, on \in BOOLEAN : Keep(p, on)
  BY <1>1, <1>3 DEF Open, Close, RefreshPreview, Apply, Keep, Refresh, editing, bounds
<1>4. CASE OpenEdit \/ EditRefresh \/ EditConfirm \/ CloseEdit
  BY <1>2, <1>4 DEF OpenEdit, EditRefresh, EditConfirm, CloseEdit, bounds
<1>5. CASE PreviewAnswered \/ AdoptAnswered \/ Report
  BY <1>1, <1>5 DEF PreviewAnswered, AdoptAnswered, Report, editing, bounds
<1>6. CASE Serving
  BY <1>6, AskPlanStep
<1>7. CASE EditServing
  BY <1>7, EditPlanStep
<1>8. CASE EditPreviewAnswered \/ EditConfirmed \/ EditReport
  <2>1. /\ editAsk' = None /\ UNCHANGED <<server, foreign, shown>>
        /\ ask' = ask \/ Send("preview", kept, None)
    BY <1>8 DEF EditPreviewAnswered, EditConfirmed, EditReport, Refresh, dialog, bounds
  <2>2. CASE ask' = ask
    BY <2>1, <2>2, Zenon DEF PlanInv, Underway, Applying, Busy, server
  <2>3. CASE Send("preview", kept, None)
    BY <2>1, <2>3 DEF PlanInv, Underway, Applying, Busy, Send
  <2> QED BY <2>1, <2>2, <2>3
<1>9. CASE Foreign
  BY <1>9, PlanLater DEF Foreign
<1> QED BY <1>3, <1>4, <1>5, <1>6, <1>7, <1>8, <1>9 DEF Next, Operator, Answers, Serving, EditServing

LEMMA DialogInit == ASSUME Init PROVE TypeOK /\ AskInv /\ PlanInv
<1>1. TypeOK
  BY AdoptionAssumption DEF Init, TypeOK
<1>2. AskInv
  BY DEF Init, AskInv, Applying, Busy, Underway
<1>3. PlanInv
  BY DEF Init, PlanInv, Applying, Busy, Underway
<1> QED BY <1>1, <1>2, <1>3

-----------------------------------------------------------------------------
(* What the dialog does is what it shows.                                  *)

Lost(w, v) == {x \in Provs \X Names : Allows(w, x[1], x[2]) /\ ~Allows(v, x[1], x[2])}

Known(w) ==
    w.disc \cup {x \in Provs \X Names : x[1] \in DOMAIN w.rows /\ x[2] \in w.rows[x[1]]}

\* An edit as EditsTakeWhatTheyShow has it, whatever the preview it was confirmed for.
TakesWhatItLists(w, e) ==
    LET v == Edited(w, e)
    IN /\ Lost(w, v) \cap Known(w) \subseteq Removed(w, e)
       /\ \A x \in Removed(w, e) \ Lost(w, v) : x[1] \in DOMAIN v.rows /\ Star \in v.rows[x[1]]
       /\ \A p \in Provs, n \in Entries : Allows(v, p, n) => Allows(w, p, n)

\* What a key allows once its row for p is written as names: the rest as before, p by that row.
RowRules(w, v, p, names) ==
    /\ \A q, n : q # p => (Allows(v, q, n) <=> Allows(w, q, n))
    /\ \A n : Allows(v, p, n) <=> names \cap {n, Star} # {}
    /\ \A n : Allows(w, p, n) <=> w.rows[p] \cap {n, Star} # {}
    /\ names # {} => p \in DOMAIN v.rows /\ v.rows[p] = names

\* What a key allows after one of its rows is written again.
LEMMA WithRowAllows ==
    ASSUME NEW w \in Possible, ~w.all, NEW p \in DOMAIN w.rows, w.rows[p] # {},
           NEW names \in SUBSET Entries, NEW v, v.all = FALSE, v.rows = WithRow(w.rows, p, names)
    PROVE  RowRules(w, v, p, names)
<1> SUFFICES /\ \A q, n : q # p => (Allows(v, q, n) <=> Allows(w, q, n))
             /\ \A n : Allows(v, p, n) <=> names \cap {n, Star} # {}
             /\ \A n : Allows(w, p, n) <=> w.rows[p] \cap {n, Star} # {}
             /\ names # {} => p \in DOMAIN v.rows /\ v.rows[p] = names
    BY DEF RowRules
<1>1. \A n : Allows(w, p, n) <=> w.rows[p] \cap {n, Star} # {}
  BY DEF Allows
<1>2. CASE names = {}
  <2>1. v.rows = [q \in DOMAIN w.rows \ {p} |-> w.rows[q]]
    BY <1>2 DEF WithRow, Restrict
  <2>2. \A q : q \in DOMAIN v.rows <=> q \in DOMAIN w.rows /\ q # p
    BY <2>1
  <2>3. \A q \in DOMAIN v.rows : v.rows[q] = w.rows[q]
    BY <2>1
  <2> QED BY <1>1, <1>2, <2>2, <2>3 DEF Allows
<1>3. CASE names # {}
  <2>1. v.rows = [w.rows EXCEPT ![p] = names]
    BY <1>3 DEF WithRow
  <2>2. DOMAIN v.rows = DOMAIN w.rows /\ v.rows[p] = names
    BY <2>1
  <2>3. \A q \in DOMAIN w.rows : q # p => v.rows[q] = w.rows[q]
    BY <2>1
  <2> QED BY <1>1, <1>3, <2>2, <2>3 DEF Allows
<1> QED BY <1>2, <1>3

LEMMA RemoveTakes ==
    ASSUME NEW w \in Possible, NEW e, e.op = "remove-models", ~EditBlocked(w, e)
    PROVE  TakesWhatItLists(w, e)
<1> DEFINE p == e.provider
           v == Edited(w, e)
           names == w.rows[p] \ Gone(w, p)
<1>1. ~w.all /\ p \in DOMAIN w.rows /\ Gone(w, p) # {} /\ Removed(w, e) = {p} \X Gone(w, p)
  BY DEF EditBlocked, Removed
<1>2. w.rows[p] \subseteq Entries /\ p \in Provs
  BY <1>1, PossibleFacts
<1>3. Gone(w, p) \subseteq w.rows[p] /\ Star \notin Gone(w, p)
  BY DEF Gone, Static
<1>4. v.all = FALSE /\ v.rows = WithRow(w.rows, p, names)
  BY EditedTyped DEF EditedRows
<1>5. names \in SUBSET Entries /\ w.rows[p] # {}
  BY <1>1, <1>2, <1>3
<1> HIDE DEF v, names, p
<1>6. /\ \A q, n : q # p => (Allows(v, q, n) <=> Allows(w, q, n))
      /\ \A n : Allows(v, p, n) <=> names \cap {n, Star} # {}
      /\ \A n : Allows(w, p, n) <=> w.rows[p] \cap {n, Star} # {}
      /\ names # {} => p \in DOMAIN v.rows /\ v.rows[p] = names
  <2>1. ~w.all /\ p \in DOMAIN w.rows /\ w.rows[p] # {}
    BY <1>1, <1>5
  <2>2. names \in SUBSET Entries
    BY <1>5
  <2>3. v.all = FALSE
    BY <1>4
  <2>4. v.rows = WithRow(w.rows, p, names)
    BY <1>4
  <2>5. RowRules(w, v, p, names)
    BY <2>1, <2>2, <2>3, <2>4, WithRowAllows
  <2> QED BY <2>5 DEF RowRules
<1>7. ASSUME NEW x \in Lost(w, v) PROVE x \in Removed(w, e)
  <2>1. x \in Provs \X Names /\ Allows(w, x[1], x[2]) /\ ~Allows(v, x[1], x[2])
    BY <1>7 DEF Lost
  <2>2. x[1] = p
    BY <1>6, <2>1
  <2>3. x[2] \in w.rows[p] /\ x[2] \notin names
    BY <1>3, <1>6, <2>1, <2>2 DEF names
  <2> QED BY <1>1, <2>1, <2>2, <2>3 DEF names
<1>8. ASSUME NEW x \in Removed(w, e), x \notin Lost(w, v)
      PROVE  x[1] \in DOMAIN v.rows /\ Star \in v.rows[x[1]]
  <2>1. x[1] = p /\ x[2] \in Gone(w, p) /\ x = <<x[1], x[2]>>
    BY <1>1, <1>8
  <2>2. x[2] \in Names
    BY <1>2, <1>3, <2>1 DEF Entries
  <2>3. Allows(w, p, x[2])
    BY <1>3, <1>6, <2>1
  <2>4. Allows(v, p, x[2])
    BY <1>2, <1>8, <2>1, <2>2, <2>3 DEF Lost
  <2>5. x[2] \notin names
    BY <2>1 DEF names
  <2> QED BY <1>6, <2>1, <2>4, <2>5
<1>9. ASSUME NEW q \in Provs, NEW n \in Entries, Allows(v, q, n) PROVE Allows(w, q, n)
  BY <1>6, <1>9 DEF names
<1> QED BY <1>7, <1>8, <1>9 DEF TakesWhatItLists, v

LEMMA ReplaceModelsTakes ==
    ASSUME NEW w \in Possible, NEW e, e.op = "replace-all-models", ~EditBlocked(w, e)
    PROVE  TakesWhatItLists(w, e)
<1> DEFINE p == e.provider
           v == Edited(w, e)
           names == Holdable(w, p)
<1>1. /\ ~w.all /\ p \in DOMAIN w.rows /\ Star \in w.rows[p]
      /\ Removed(w, e) = {p} \X (Today(w, p) \ names)
  BY DEF EditBlocked, Removed
<1>2. w.rows[p] \subseteq Entries /\ p \in Provs
  BY <1>1, PossibleFacts
<1>3. Today(w, p) \subseteq Names /\ names \subseteq Names
  BY <1>2 DEF Today, Static, Entries, Holdable
<1>4. v.all = FALSE /\ v.rows = WithRow(w.rows, p, names)
  BY EditedTyped DEF EditedRows
<1>5. names \in SUBSET Entries /\ w.rows[p] # {} /\ Star \notin names
  BY <1>1, <1>3, AdoptionAssumption DEF Entries
<1> HIDE DEF v, names, p
<1>6. /\ \A q, n : q # p => (Allows(v, q, n) <=> Allows(w, q, n))
      /\ \A n : Allows(v, p, n) <=> names \cap {n, Star} # {}
      /\ \A n : Allows(w, p, n) <=> w.rows[p] \cap {n, Star} # {}
      /\ names # {} => p \in DOMAIN v.rows /\ v.rows[p] = names
  <2>1. ~w.all /\ p \in DOMAIN w.rows /\ w.rows[p] # {}
    BY <1>1, <1>5
  <2>2. names \in SUBSET Entries
    BY <1>5
  <2>3. v.all = FALSE
    BY <1>4
  <2>4. v.rows = WithRow(w.rows, p, names)
    BY <1>4
  <2>5. RowRules(w, v, p, names)
    BY <2>1, <2>2, <2>3, <2>4, WithRowAllows
  <2> QED BY <2>5 DEF RowRules
<1>7. ASSUME NEW x \in Lost(w, v) \cap Known(w) PROVE x \in Removed(w, e)
  <2>1. x \in Provs \X Names /\ Allows(w, x[1], x[2]) /\ ~Allows(v, x[1], x[2])
    BY <1>7 DEF Lost
  <2>2. x[1] = p /\ x = <<x[1], x[2]>>
    BY <1>6, <2>1
  <2>3. x[2] \notin names
    BY <1>6, <2>1, <2>2
  <2>4. <<p, x[2]>> \in w.disc \/ x[2] \in w.rows[p]
    BY <1>7, <2>2 DEF Known
  <2>5. x[2] \in Today(w, p)
    BY <2>1, <2>4, AdoptionAssumption DEF Today, Static
  <2> QED BY <1>1, <2>2, <2>3, <2>5
<1>8. ASSUME NEW x \in Removed(w, e) PROVE x \in Lost(w, v)
  <2>1. x[1] = p /\ x[2] \in Names /\ x[2] \notin names /\ x = <<x[1], x[2]>>
    BY <1>1, <1>3, <1>8
  <2>2. Allows(w, p, x[2]) /\ ~Allows(v, p, x[2])
    BY <1>1, <1>5, <1>6, <2>1
  <2> QED BY <1>2, <2>1, <2>2 DEF Lost
<1>9. ASSUME NEW q \in Provs, NEW n \in Entries, Allows(v, q, n) PROVE Allows(w, q, n)
  BY <1>1, <1>6, <1>9
<1> QED BY <1>7, <1>8, <1>9 DEF TakesWhatItLists, v

LEMMA ReplaceProvidersTakes ==
    ASSUME NEW w \in Possible, NEW e, e.op = "replace-all-providers", ~EditBlocked(w, e)
    PROVE  TakesWhatItLists(w, e)
<1> DEFINE v == Edited(w, e)
           S == DOMAIN w.rows \cup {q \in Unlisted(w) : Explicit(w, q) # {}}
<1>1. w.all /\ Removed(w, e) = {a \in w.disc : a[1] \in Unlisted(w) /\ a[2] \notin Explicit(w, a[1])}
  BY DEF EditBlocked, Removed
<1>2. v.all = FALSE /\ v.rows = [p \in S |-> IF p \in DOMAIN w.rows THEN w.rows[p] ELSE Explicit(w, p)]
  BY EditedTyped DEF EditedRows
<1>3. \A p : Explicit(w, p) \subseteq Names /\ Star \notin Explicit(w, p)
  BY AdoptionAssumption DEF Explicit
<1>4. \A p : p \in DOMAIN v.rows <=> p \in DOMAIN w.rows \/ (p \in Unlisted(w) /\ Explicit(w, p) # {})
  BY <1>2
<1>5. \A p \in DOMAIN v.rows : v.rows[p] = IF p \in DOMAIN w.rows THEN w.rows[p] ELSE Explicit(w, p)
  BY <1>2
<1>6. v.all = FALSE
  BY <1>2
<1> HIDE DEF v
<1>7. \A p, n : p \in DOMAIN w.rows => (Allows(v, p, n) <=> Allows(w, p, n))
  BY <1>4, <1>5 DEF Allows
<1>8. \A p, n : p \notin DOMAIN w.rows =>
         Allows(w, p, n) /\ (Allows(v, p, n) <=> p \in Unlisted(w) /\ n \in Explicit(w, p))
  BY <1>1, <1>3, <1>4, <1>5, <1>6 DEF Allows
<1>9. w.disc \subseteq Provs \X Names
  BY PossibleFacts
<1>10. ASSUME NEW x \in Lost(w, v) \cap Known(w) PROVE x \in Removed(w, e)
  <2>1. x \in Provs \X Names /\ x[1] \notin DOMAIN w.rows /\ ~Allows(v, x[1], x[2])
    BY <1>7, <1>10 DEF Lost
  <2>2. x \in w.disc /\ x = <<x[1], x[2]>>
    BY <1>10, <2>1 DEF Known
  <2>3. x[1] \in Unlisted(w)
    BY <2>1, <2>2 DEF Unlisted
  <2> QED BY <1>1, <1>8, <2>1, <2>2, <2>3
<1>11. ASSUME NEW x \in Removed(w, e) PROVE x \in Lost(w, v)
  <2>1. x \in w.disc /\ x[1] \in Unlisted(w) /\ x[2] \notin Explicit(w, x[1])
    BY <1>1, <1>11
  <2>2. x[1] \notin DOMAIN w.rows
    BY <2>1 DEF Unlisted
  <2> QED BY <1>8, <1>9, <2>1, <2>2 DEF Lost
<1>12. ASSUME NEW q \in Provs, NEW n \in Entries, Allows(v, q, n) PROVE Allows(w, q, n)
  BY <1>7, <1>8, <1>12
<1> QED BY <1>10, <1>11, <1>12 DEF TakesWhatItLists, v

LEMMA AllowsSame ==
    ASSUME NEW w, NEW v, v.all = w.all, v.rows = w.rows
    PROVE  \A p, n : Allows(v, p, n) <=> Allows(w, p, n)
BY DEF Allows

\* A write of the key is the edit that was shown, of the key as it was read.
LEMMA EditTakes ==
    ASSUME TypeOK, AskInv, PlanInv, EditWrite, world' # world
    PROVE  /\ Key(world)' = Key(Edited(editShown, edit))
           /\ editAsk.since = foreign =>
                 /\ policy = None
                 /\ Lost(world, world') \cap Known(world) \subseteq Removed(editShown, edit)
                 /\ \A x \in Removed(editShown, edit) \ Lost(world, world') :
                       x[1] \in DOMAIN world'.rows /\ Star \in world'.rows[x[1]]
                 /\ \A p \in Provs, n \in Entries : Allows(world', p, n) => Allows(world, p, n)
<1> DEFINE read == editAsk.read
           v == Edited(read, edit)
<1>1. /\ editAsk # None /\ editAsk.status = "planned" /\ editAsk.kind = "confirm"
      /\ world' = [world EXCEPT !.all = FALSE, !.rows = EditedRows(read, edit), !.inactive = read.inactive]
      /\ edit \in Requests /\ ~EditBlocked(read, edit) /\ editShown # None
  BY DEF EditWrite, AskInv
<1>2. read \in Possible /\ world \in Possible /\ editShown \in Possible
  BY <1>1 DEF AskInv, Underway, TypeOK
<1>3. EditToken(read, edit) = EditToken(editShown, edit)
  BY <1>1 DEF PlanInv
<1>4. /\ EditedRows(read, edit) = EditedRows(editShown, edit) /\ Removed(read, edit) = Removed(editShown, edit)
      /\ read.inactive = editShown.inactive
  BY <1>3 DEF EditToken, Key
<1>5. world'.all = FALSE /\ world'.rows = EditedRows(read, edit) /\ world'.inactive = read.inactive
  BY <1>1, <1>2 DEF Possible
<1>6. v.all = FALSE /\ v.rows = EditedRows(read, edit)
  BY <1>2 DEF Edited, Possible
<1>7. Key(world') = Key(Edited(editShown, edit))
  <2>1. Key(Edited(editShown, edit)) = <<FALSE, EditedRows(editShown, edit), editShown.inactive>>
    BY <1>2 DEF Key, Edited, Possible
  <2> QED BY <1>4, <1>5, <2>1 DEF Key
<1>8. ASSUME editAsk.since = foreign
      PROVE  /\ policy = None
             /\ Lost(world, world') \cap Known(world) \subseteq Removed(editShown, edit)
             /\ \A x \in Removed(editShown, edit) \ Lost(world, world') :
                   x[1] \in DOMAIN world'.rows /\ Star \in world'.rows[x[1]]
             /\ \A p \in Provs, n \in Entries : Allows(world', p, n) => Allows(world, p, n)
  <2>1. policy = None /\ Key(read) = Key(world) /\ read.disc = world.disc
    BY <1>1, <1>8 DEF PlanInv
  <2>2. read.all = world.all /\ read.rows = world.rows
    BY <2>1 DEF Key
  <2> HIDE DEF read, v
  <2>3. \A p, n : Allows(world, p, n) <=> Allows(read, p, n)
    BY <2>2, AllowsSame
  <2>4. \A p, n : Allows(world', p, n) <=> Allows(v, p, n)
    BY <1>5, <1>6, AllowsSame
  <2>5. Lost(world, world') = Lost(read, v) /\ Known(world) = Known(read)
    BY <2>1, <2>2, <2>3, <2>4 DEF Lost, Known
  <2>6. TakesWhatItLists(read, edit)
    BY <1>1, <1>2, RemoveTakes, ReplaceModelsTakes, ReplaceProvidersTakes DEF Operations, Requests
  <2>7. /\ Lost(read, v) \cap Known(read) \subseteq Removed(read, edit)
        /\ \A x \in Removed(read, edit) \ Lost(read, v) : x[1] \in DOMAIN v.rows /\ Star \in v.rows[x[1]]
        /\ \A p \in Provs, n \in Entries : Allows(v, p, n) => Allows(read, p, n)
    BY <2>6 DEF TakesWhatItLists, v
  <2> QED BY <1>4, <1>5, <1>6, <2>1, <2>3, <2>4, <2>5, <2>7
<1> QED BY <1>7, <1>8

LEMMA AdoptionTakes ==
    ASSUME TypeOK, AskInv, PlanInv, AdoptSave, policy' # policy
    PROVE  /\ policy = None /\ policy' = Adoption(shown.world, shown.keep)
           /\ world.cards = shown.world.cards
           /\ ask.since = foreign => Key(world) = Key(shown.world)
<1>1. /\ Applying /\ ask.status = "planned" /\ policy = None /\ world.cards = ask.read.cards
      /\ policy' = Adoption(ask.read, ask.keep)
  BY DEF AdoptSave
<1>2. Token(ask.read, ask.keep) = Token(shown.world, shown.keep)
  BY <1>1 DEF PlanInv
<1>3. /\ SelectedIn(ask.read, ask.read.rows, ask.keep) = SelectedIn(shown.world, shown.world.rows, shown.keep)
      /\ ask.keep = shown.keep /\ ask.read.cards = shown.world.cards
      /\ Key(ask.read) = Key(shown.world)
  BY <1>2 DEF Token
<1>4. ask.since = foreign => Key(ask.read) = Key(world)
  BY <1>1 DEF PlanInv, Underway, Applying, Busy
<1> QED BY <1>1, <1>3, <1>4 DEF Adoption

-----------------------------------------------------------------------------
(* The key's page.                                                         *)

\* The types of what a workspace is read from.
Base == TypeOK /\ selection \in Selections \cup {None} /\ revision \in Nat /\ proof \in Verdicts \cup {None}

LEMMA NamedIdsTyped == ASSUME NEW naming, NEW x \in Provs \X Names PROVE NamedIds(naming, x) \subseteq Ids
<1>1. x \in Ids /\ <<TheKey, x[2]>> \in Ids
  BY DEF Ids
<1> QED BY <1>1 DEF NamedIds, When

LEMMA IdsTyped ==
    ASSUME TypeOK, policy # None
    PROVE  /\ policy.added \subseteq Provs \X Names /\ policy.keptNative \subseteq Provs
           /\ \A s : RoutesOf(s) \subseteq policy.added
           /\ Exposed \subseteq Ids /\ Callable \subseteq Ids
           /\ \A rows : Expected(rows) \subseteq Ids
<1>1. policy.added \subseteq Provs \X Names /\ policy.keptNative \subseteq Provs
  BY DEF TypeOK, Adoptions
<1>2. \A s : RoutesOf(s) \subseteq policy.added
  BY DEF RoutesOf
<1>3. Provs \X Names \subseteq Ids
  BY DEF Ids
<1>4. Exposed \subseteq Ids
  BY <1>1, <1>2, NamedIdsTyped DEF Exposed
<1>5. Native(world) \subseteq Provs \X Names
  BY PossibleFacts DEF Native, TypeOK
<1>6. UNION {NamedIds(selection.naming, x) : x \in RoutesOf(selection) \cap Native(world)} \subseteq Ids
  BY <1>5, NamedIdsTyped
<1>7. Callable \subseteq Ids
  BY <1>3, <1>5, <1>6 DEF Callable
<1>8. \A rows : KeptRoutes(rows, policy.keptNative) \subseteq Ids
  BY <1>1, <1>3 DEF KeptRoutes
<1>9. \A rows : Expected(rows) \subseteq Ids
  BY <1>4, <1>8 DEF Expected
<1> QED BY <1>1, <1>2, <1>4, <1>7, <1>9

\* What Bifrost lists depends on neither the cards nor the revision.
LEMMA NativeSame ==
    ASSUME NEW w, NEW v, v.disc = w.disc, v.rows = w.rows, v.all = w.all
    PROVE  Native(v) = Native(w)
BY DEF Native, Allows

\* What the key exposes and what Bifrost lists depend on neither the cards nor the revision.
LEMMA IdsSame ==
    ASSUME policy' = policy, selection' = selection,
           world'.disc = world.disc, world'.rows = world.rows, world'.all = world.all
    PROVE  Callable' = Callable /\ Exposed' = Exposed
<1>1. Native(world') = Native(world)
  BY NativeSame
<1>2. RoutesOf(selection)' = RoutesOf(selection)
  BY DEF RoutesOf
<1> QED BY <1>1, <1>2 DEF Callable, Exposed

LEMMA UnreadTyped ==
    ASSUME Base
    PROVE  Unread \in Verdicts /\ Unread.state = "not_verified" /\ Unread.since = foreign
           /\ Unread.revision = revision
BY DEF Base, TypeOK, Unread, Verdicts

\* What the workspace is answered as, whenever it is read.
LEMMA WorkspaceRead ==
    Base /\ PolicyInv /\ ProofInv /\ policy # None => Workspace \in Pages /\ ReadBefore(Workspace)
<1> SUFFICES ASSUME Base, PolicyInv, ProofInv, policy # None
             PROVE  Workspace \in Pages /\ ReadBefore(Workspace)
  OBVIOUS
<1>1. ProofShown \in Verdicts
  BY UnreadTyped DEF ProofShown, Base, Verdicts
<1>2. /\ ProofShown.since <= foreign
      /\ ProofShown.state = "verified" /\ ProofShown.since = foreign =>
            /\ ProofShown.actual # None
            /\ ProofShown.actual = Callable /\ Exposed \subseteq Callable
  <2>1. CASE proof = None
    BY <2>1, UnreadTyped DEF ProofShown, Base, TypeOK
  <2>2. CASE proof # None /\ proof.revision # revision
    <3>1. ProofShown = [Unread EXCEPT !.actual = proof.actual]
      BY <2>2 DEF ProofShown
    <3>2. ProofShown.since = foreign /\ ProofShown.state = "not_verified"
      BY <3>1 DEF Unread
    <3> QED BY <3>2 DEF Base, TypeOK
  <2>3. CASE proof # None /\ proof.revision = revision
    BY <2>3 DEF ProofShown, ProofInv
  <2> QED BY <2>1, <2>2, <2>3
<1>3. world.cards \in CardMaps /\ world.all \in BOOLEAN /\ world.rows \in RowMaps
  BY PossibleFacts DEF Base, TypeOK
<1>4. selection \in Selections /\ policy.keptNative \in SUBSET Provs /\ revision \in Nat
  BY IdsTyped DEF Base, PolicyInv
<1>5. Workspace \in Pages
  BY <1>1, <1>3, <1>4, Zenon DEF Workspace, Pages
<1>6. ReadBefore(Workspace)
  BY <1>2, <1>4 DEF Workspace, ReadBefore, PolicyInv
<1> QED BY <1>5, <1>6

\* A page whose check gave no answer.
LEMMA FailedRead ==
    ASSUME NEW s \in Pages, NEW actual \in (SUBSET Ids) \cup {None}, ReadBefore(s)
    PROVE  Failed(s, actual) \in Pages /\ ReadBefore(Failed(s, actual))
<1> DEFINE t == Failed(s, actual)
<1>1. s.publication \in Verdicts
  BY DEF Pages
<1>2. /\ t.publication \in Verdicts /\ t.publication.state = "not_verified"
      /\ t.publication.since = s.publication.since
  BY <1>1 DEF Failed, Verdicts, Pages
<1>3. /\ t.revision = s.revision /\ t.cards = s.cards /\ t.rows = s.rows
      /\ t.selection = s.selection /\ t.kept = s.kept
  BY DEF Failed, Pages
<1>4. t \in Pages
  BY <1>1 DEF Failed, Verdicts, Pages
<1> HIDE DEF t
<1>5. ReadBefore(t)
  BY <1>2, <1>3 DEF ReadBefore
<1> QED BY <1>4, <1>5 DEF t

LEMMA ProvedTyped ==
    ASSUME LedgerTypeOK, policy # None, check # None
    PROVE  Proved \in Verdicts
<1>1. check \in Checks /\ Base
  BY DEF LedgerTypeOK, Base
<1>2. CASE check.found = None
  <2>1. (IF proof = None THEN None ELSE proof.actual) \in (SUBSET Ids) \cup {None}
    BY <1>1 DEF Base, Verdicts
  <2>2. Proved = [Unread EXCEPT !.revision = check.revision,
                                !.actual = IF proof = None THEN None ELSE proof.actual]
    BY <1>2 DEF Proved
  <2>3. check.revision \in Nat
    BY <1>1 DEF Checks
  <2> QED BY <1>1, <2>1, <2>2, <2>3, UnreadTyped DEF Verdicts
<1>3. CASE check.found # None
  <2>1. check.found \in SUBSET Ids /\ check.revision \in Nat /\ check.since \in Nat
    BY <1>1, <1>3 DEF Checks
  <2>2. Expected(check.rows) \subseteq Ids
    BY IdsTyped DEF LedgerTypeOK
  <2> QED BY <1>3, <2>1, <2>2 DEF Proved, Besides, Verdicts
<1> QED BY <1>2, <1>3

\* The dialog's part of a ledger step: what is adopted is of cards as they are.
LEMMA PolicyStep ==
    ASSUME TypeOK, AskInv, Next, policy' # policy
    PROVE  /\ UNCHANGED world
           /\ \E w \in Possible, keep \in SUBSET Provs : w.cards = world.cards /\ policy' = Adoption(w, keep)
<1>1. AdoptSave \/ Foreign
  BY DEF Next, Operator, Answers, Open, Close, RefreshPreview, Apply, Keep, OpenEdit, EditRefresh,
         EditConfirm, CloseEdit, ServeKey, ServeModels, ServePreview, ServeAdopt, PreviewAnswered, AdoptAnswered,
         Report, EditServeKey, EditServePreview, EditServe, EditWrite, EditReadBack,
         EditPreviewAnswered, EditConfirmed, EditReport, server
<1>2. CASE AdoptSave
  <2>1. /\ UNCHANGED world /\ policy' = Adoption(ask.read, ask.keep) /\ ask # None
        /\ ask.read.cards = world.cards /\ ask.status = "planned"
    BY <1>2 DEF AdoptSave, Applying, Busy
  <2>2. ask.keep \in SUBSET Provs /\ ask.read \in Possible
    BY <2>1 DEF TypeOK, Asks, AskInv, Underway
  <2> QED BY <2>1, <2>2
<1>3. CASE Foreign
  BY <1>3 DEF Foreign, TypeOK
<1> QED BY <1>1, <1>2, <1>3

LEMMA AdoptingStep ==
    ASSUME LedgerInv, Adopting
    PROVE  LedgerInv'
<1>1. page = None /\ Next /\ UNCHANGED <<revision, proof, check, page>>
  BY DEF Adopting
<1>2. TypeOK' /\ AskInv' /\ PlanInv'
  BY <1>1, DialogStep, PlanStep DEF LedgerInv, LedgerTypeOK
<1>3. PolicyInv' /\ selection' \in Selections \cup {None}
  <2>1. CASE policy' = policy
    <3>1. selection' = selection /\ (policy # None => world'.cards = world.cards)
      BY <2>1 DEF Adopting
    <3> QED BY <2>1, <3>1 DEF LedgerInv, LedgerTypeOK, PolicyInv
  <2>2. CASE policy' # policy
    <3>1. /\ UNCHANGED world
          /\ \E w \in Possible, keep \in SUBSET Provs :
                w.cards = world.cards /\ policy' = Adoption(w, keep)
      BY <1>1, <2>2, PolicyStep DEF LedgerInv, LedgerTypeOK
    <3>2. world \in Possible /\ world.cards \in CardMaps
      BY PossibleFacts DEF LedgerInv, LedgerTypeOK, TypeOK
    <3>3. policy' \in Adoptions /\ \A x \in policy'.added : world.cards[x] # "none"
      BY <3>1, <3>2, AdoptionTyped
    <3>4. selection' = AdoptedSelection(world'.cards, policy'.added)
      BY <2>2 DEF Adopting
    <3>5. policy'.added \subseteq Provs \X Names
      BY <3>3 DEF Adoptions
    <3>6. \A n : Accesses(world'.cards, n) \subseteq Provs \X Names
      BY <3>1, <3>2 DEF Accesses, CardMaps
    <3>7. selection' \in Selections
      <4>1. {x[2] : x \in policy'.added} \in SUBSET Names
        BY <3>5
      <4>2. (UNION {Accesses(world'.cards, x[2]) : x \in policy'.added}) \ policy'.added \in SUBSET (Provs \X Names)
        BY <3>6
      <4> QED BY <3>4, <4>1, <4>2 DEF AdoptedSelection, Selections, Namings
    <3> QED BY <3>1, <3>3, <3>7 DEF PolicyInv
  <2> QED BY <2>1, <2>2
<1>4. proof = None /\ check = None
  BY <1>1 DEF LedgerInv, ReadInv
<1> QED BY <1>1, <1>2, <1>3, <1>4
        DEF LedgerInv, LedgerTypeOK, ReadInv, CheckInv, ProofInv, PageInv

LEMMA LedgerBase == ASSUME LedgerInv PROVE Base /\ PolicyInv /\ ProofInv
BY DEF LedgerInv, LedgerTypeOK, ReadInv, Base

\* A step of the page leaves the dialog alone.
LEMMA DialogStays ==
    ASSUME LedgerInv, UNCHANGED vars
    PROVE  TypeOK' /\ AskInv' /\ PlanInv'
<1>1. TypeOK' /\ AskInv'
  BY DEF vars, server, dialog, editing, bounds, LedgerInv, LedgerTypeOK, TypeOK, AskInv, Applying, Busy, Underway
<1>2. PlanInv'
  BY PlanSame DEF vars, server, bounds, LedgerInv
<1> QED BY <1>1, <1>2

LEMMA ShowManagedStep ==
    ASSUME LedgerInv, ShowManaged
    PROVE  LedgerInv'
<1>1. /\ UNCHANGED <<server, open, bounds, selection, revision, proof, check>>
      /\ policy # None /\ page = None /\ page' = Workspace
      /\ shown' = None /\ kept' = {} /\ edited' = {} /\ stale' = FALSE /\ preselected' = FALSE
      /\ ask' = None /\ edit' = None /\ editShown' = None /\ editStale' = FALSE
      /\ editAsk' = None /\ receipt' = FALSE
  BY DEF ShowManaged
<1>2. TypeOK'
  BY <1>1 DEF LedgerInv, LedgerTypeOK, TypeOK, server, bounds
<1>3. AskInv' /\ PlanInv'
  BY <1>1 DEF AskInv, PlanInv, Applying, Busy, Underway
<1>4. Workspace \in Pages /\ ReadBefore(Workspace)
  BY <1>1, LedgerBase, WorkspaceRead
<1>5. proof = None /\ check = None
  BY <1>1 DEF LedgerInv, ReadInv
<1>6. ReadBefore(page)'
  <2>1. Callable' = Callable /\ Exposed' = Exposed
    BY <1>1, IdsSame DEF server
  <2> QED BY <1>1, <1>4, <2>1 DEF ReadBefore, server, bounds
<1>7. LedgerTypeOK'
  BY <1>1, <1>2, <1>4 DEF LedgerInv, LedgerTypeOK
<1>8. PolicyInv'
  BY <1>1 DEF LedgerInv, PolicyInv, server
<1>9. ReadInv'
  BY <1>1, <1>5 DEF ReadInv, CheckInv, ProofInv
<1> QED BY <1>1, <1>3, <1>6, <1>7, <1>8, <1>9 DEF LedgerInv, PageInv, server

LEMMA CheckStep ==
    ASSUME LedgerInv, Check \/ ReadKey \/ ReadModels
    PROVE  LedgerInv'
<1>1. UNCHANGED <<vars, selection, revision, proof, page>> /\ page # None
  BY DEF Check, ReadKey, ReadModels, LedgerInv, ReadInv
<1>2. UNCHANGED <<policy, selection, world, foreign, revision, proof, page>> /\ TypeOK' /\ AskInv' /\ PlanInv'
  BY <1>1, DialogStays DEF vars, server, bounds
<1>3. Callable' = Callable /\ Exposed' = Exposed
  BY <1>2, IdsSame
<1>4. policy # None /\ foreign \in Nat /\ revision \in Nat /\ world.rows \in RowMaps
  BY <1>1, PossibleFacts DEF LedgerInv, LedgerTypeOK, TypeOK, PageInv
<1>5. check' \in Checks /\ CheckInv'
  <2>1. CASE Check
    <3>1. check' = Started(revision)
      BY <2>1 DEF Check
    <3>2. check' \in Checks /\ check'.since = foreign /\ check'.revision = revision /\ check'.found = None
      BY <1>4, <3>1 DEF Started, Checks
    <3> QED BY <1>2, <1>4, <3>2 DEF CheckInv
  <2>2. CASE ReadKey
    <3>1. check \in Checks /\ CheckInv
      BY <2>2 DEF ReadKey, LedgerInv, LedgerTypeOK, ReadInv
    <3>2. \/ check' = [check EXCEPT !.phase = "models", !.rows = world.rows]
          \/ check' = [check EXCEPT !.phase = "end"]
      BY <2>2 DEF ReadKey
    <3>3. /\ check' \in Checks /\ check'.since = check.since /\ check'.revision = check.revision
          /\ check'.found = check.found
      BY <1>4, <3>1, <3>2 DEF Checks
    <3> QED BY <1>2, <1>3, <2>2, <3>1, <3>3 DEF CheckInv, ReadKey
  <2>3. CASE ReadModels
    <3>1. check \in Checks /\ CheckInv /\ check # None
      BY <2>3 DEF ReadModels, LedgerInv, LedgerTypeOK, ReadInv
    <3>2. PICK ids \in {Callable, None} : check' = [check EXCEPT !.phase = "end", !.found = ids]
      BY <2>3 DEF ReadModels
    <3>3. ids \in (SUBSET Ids) \cup {None}
      BY <1>4, IdsTyped DEF LedgerInv, LedgerTypeOK
    <3>4. /\ check' \in Checks /\ check'.since = check.since /\ check'.revision = check.revision
          /\ check'.found \in {Callable, None}
      <4>1. check' \in Checks
        BY <3>1, <3>2, <3>3 DEF Checks
      <4> QED BY <3>1, <3>2, <4>1 DEF Checks
    <3> QED BY <1>2, <1>3, <3>1, <3>4 DEF CheckInv
  <2> QED BY <2>1, <2>2, <2>3
<1>6. LedgerTypeOK'
  BY <1>2, <1>5 DEF LedgerInv, LedgerTypeOK
<1>7. PolicyInv' /\ ProofInv' /\ PageInv'
  BY <1>2, <1>3 DEF LedgerInv, PolicyInv, ReadInv, ProofInv, PageInv, ReadBefore
<1> QED BY <1>1, <1>2, <1>5, <1>6, <1>7 DEF LedgerInv, ReadInv

\* The proof a check leaves.
LEMMA ProvedOk ==
    ASSUME LedgerInv, policy # None, check # None
    PROVE  /\ Proved \in Verdicts
           /\ Proved.since <= foreign /\ Proved.revision <= revision
           /\ Proved.state = "verified" /\ Proved.since = foreign =>
                 Proved.actual # None /\ Proved.actual = Callable /\ Exposed \subseteq Callable
<1>1. Proved \in Verdicts
  BY ProvedTyped DEF LedgerInv
<1>2. CheckInv /\ foreign \in Nat /\ revision \in Nat /\ check \in Checks
  BY DEF LedgerInv, LedgerTypeOK, TypeOK, ReadInv
<1>3. CASE check.found = None
  <2>1. Proved.since = foreign /\ Proved.revision = check.revision /\ Proved.state = "not_verified"
    BY <1>3 DEF Proved, Unread
  <2> QED BY <1>1, <1>2, <2>1 DEF CheckInv
<1>4. CASE check.found # None
  <2> DEFINE missing == Besides(Expected(check.rows) \ check.found)
             unexpected == Besides(check.found \ Expected(check.rows))
  <2>1. Proved = [state |-> IF missing \cup unexpected = {} THEN "verified" ELSE "drift",
                  revision |-> check.revision, actual |-> check.found,
                  missing |-> missing, unexpected |-> unexpected, since |-> check.since]
    BY <1>4 DEF Proved
  <2>2. Exposed \ check.found \subseteq missing
    BY DEF Besides, Expected
  <2> HIDE DEF missing, unexpected
  <2>3. /\ Proved.since = check.since /\ Proved.revision = check.revision /\ Proved.actual = check.found
        /\ Proved.state = "verified" => missing = {}
    BY <2>1
  <2> QED BY <1>1, <1>2, <1>4, <2>2, <2>3 DEF CheckInv
<1> QED BY <1>3, <1>4

LEMMA EndCheckStep ==
    ASSUME LedgerInv, EndCheck
    PROVE  LedgerInv'
<1>1. UNCHANGED <<vars, selection, revision>> /\ check # None /\ proof' = Proved /\ check' = None
  BY DEF EndCheck
<1>2. UNCHANGED <<policy, selection, world, foreign, revision>> /\ TypeOK' /\ AskInv' /\ PlanInv'
  BY <1>1, DialogStays DEF vars, server, bounds
<1>3. Callable' = Callable /\ Exposed' = Exposed
  BY <1>2, IdsSame
<1>4. page # None /\ policy # None /\ page \in Pages /\ ReadBefore(page)
  BY <1>1 DEF LedgerInv, LedgerTypeOK, ReadInv, PageInv
<1>5. ProofInv' /\ proof' \in Verdicts
  BY <1>1, <1>2, <1>3, <1>4, ProvedOk DEF ProofInv
<1>6. Base' /\ PolicyInv' /\ policy' # None
  BY <1>2, <1>4, <1>5 DEF Base, LedgerInv, LedgerTypeOK, PolicyInv
<1>7. (Base /\ PolicyInv /\ ProofInv /\ policy # None => Workspace \in Pages /\ ReadBefore(Workspace))'
  BY WorkspaceRead, PTL
<1>8. page' \in Pages /\ ReadBefore(page)'
  <2>1. CASE page' = Workspace'
    BY <1>5, <1>6, <1>7, <2>1 DEF ReadBefore
  <2>2. CASE \E actual \in {Proved.actual, page.publication.actual} : page' = Failed(page, actual)
    <3>1. PICK actual \in {Proved.actual, page.publication.actual} : page' = Failed(page, actual)
      BY <2>2
    <3>2. actual \in (SUBSET Ids) \cup {None}
      BY <1>1, <1>4, <1>5 DEF Pages, Verdicts
    <3>3. Failed(page, actual) \in Pages /\ ReadBefore(Failed(page, actual))
      BY <1>4, <3>2, FailedRead
    <3> QED BY <1>2, <1>3, <3>1, <3>3 DEF ReadBefore
  <2> QED BY <2>1, <2>2 DEF EndCheck
<1>9. LedgerTypeOK'
  BY <1>1, <1>6, <1>8 DEF LedgerTypeOK, Base
<1>10. ReadInv' /\ PageInv'
  BY <1>1, <1>5, <1>6, <1>8, PageAssumption DEF ReadInv, CheckInv, PageInv
<1> QED BY <1>2, <1>6, <1>9, <1>10 DEF LedgerInv

LEMMA ReloadStep ==
    ASSUME LedgerInv, Reload
    PROVE  LedgerInv'
<1>1. /\ UNCHANGED <<policy, selection, world, foreign, revision, proof, check>> /\ TypeOK' /\ AskInv' /\ PlanInv'
      /\ page # None /\ page' = Workspace
  BY DialogStays DEF Reload, vars, server, bounds
<1>2. Callable' = Callable /\ Exposed' = Exposed
  BY <1>1, IdsSame
<1>3. page' \in Pages /\ ReadBefore(page') /\ policy # None
  BY <1>1, LedgerBase, WorkspaceRead DEF LedgerInv, PageInv
<1>4. LedgerTypeOK' /\ PolicyInv'
  BY <1>1, <1>3 DEF LedgerInv, LedgerTypeOK, PolicyInv
<1>5. ReadInv' /\ PageInv'
  BY <1>1, <1>2, <1>3, PageAssumption
     DEF LedgerInv, ReadInv, CheckInv, ProofInv, PageInv, ReadBefore
<1> QED BY <1>1, <1>4, <1>5 DEF LedgerInv

LEMMA SaveStep ==
    ASSUME LedgerInv, CanSave, NEW members \in SUBSET Names, NEW naming \in Namings,
           NEW x \in (Provs \X Names) \cup {None}, Save(members, naming, x)
    PROVE  LedgerInv'
<1>1. /\ UNCHANGED <<policy, world, foreign>> /\ TypeOK' /\ AskInv' /\ PlanInv'
      /\ page # None /\ policy # None /\ revision' = revision + 1 /\ revision \in Nat /\ foreign \in Nat
      /\ proof' = [Unread EXCEPT !.revision = revision',
                                 !.actual = IF proof = None THEN None ELSE proof.actual]
      /\ page' = Workspace' /\ check' = Started(revision')
  BY DialogStays DEF Save, CanSave, vars, server, bounds, LedgerInv, LedgerTypeOK, PageInv, TypeOK
<1>2. selection' \in Selections
  <2>1. selection \in Selections /\ selection.excluded \in SUBSET (Provs \X Names)
    BY <1>1 DEF LedgerInv, PolicyInv, Selections
  <2>2. \E excluded \in SUBSET (Provs \X Names) :
           selection' = [members |-> members, naming |-> naming, excluded |-> excluded]
    <3>1. CASE x = None
      BY <2>1, <3>1 DEF Save
    <3>2. CASE x # None
      BY <2>1, <3>2 DEF Save
    <3> QED BY <3>1, <3>2
  <2> QED BY <2>2 DEF Selections
<1>3. /\ proof' \in Verdicts /\ proof'.state = "not_verified" /\ proof'.since = foreign
      /\ proof'.revision = revision'
  <2>1. (IF proof = None THEN None ELSE proof.actual) \in (SUBSET Ids) \cup {None}
    BY DEF LedgerInv, LedgerTypeOK, Verdicts
  <2>2. Unread \in Verdicts /\ Unread.state = "not_verified" /\ Unread.since = foreign
    BY UnreadTyped, LedgerBase
  <2>3. revision' \in Nat
    BY <1>1
  <2>4. proof' = [Unread EXCEPT !.revision = revision',
                                !.actual = IF proof = None THEN None ELSE proof.actual]
    BY <1>1
  <2> QED BY <2>1, <2>2, <2>3, <2>4 DEF Verdicts
<1>4. check' \in Checks /\ CheckInv'
  <2>1. /\ check' \in Checks /\ check'.since = foreign /\ check'.revision = revision' /\ check'.found = None
    BY <1>1 DEF Started, Checks
  <2> QED BY <1>1, <2>1 DEF CheckInv
<1>5. ProofInv'
  BY <1>1, <1>3 DEF ProofInv
<1>6. Base' /\ PolicyInv' /\ policy' # None
  BY <1>1, <1>2, <1>3 DEF Base, LedgerInv, PolicyInv
<1>7. (Base /\ PolicyInv /\ ProofInv /\ policy # None => Workspace \in Pages /\ ReadBefore(Workspace))'
  BY WorkspaceRead, PTL
<1>8. page' \in Pages /\ ReadBefore(page)'
  BY <1>1, <1>5, <1>6, <1>7 DEF ReadBefore
<1>9. LedgerTypeOK'
  BY <1>4, <1>6, <1>8 DEF LedgerTypeOK, Base
<1>10. ReadInv' /\ PageInv'
  BY <1>4, <1>5, <1>6, <1>8, PageAssumption DEF ReadInv, PageInv
<1> QED BY <1>1, <1>6, <1>9, <1>10 DEF LedgerInv

LEMMA SaveElsewhereStep ==
    ASSUME LedgerInv, SaveElsewhere
    PROVE  LedgerInv'
<1>1. /\ UNCHANGED <<policy, dialog, editing, bounds, selection, proof, check, page>>
      /\ page # None /\ revision' = revision + 1 /\ revision \in Nat
      /\ policy # None
  BY DEF SaveElsewhere, LedgerInv, LedgerTypeOK, PageInv
<1>2. PICK x \in Provs \X Names :
         world' = [world EXCEPT !.cards = [@ EXCEPT ![x] = "fit"]]
  BY DEF SaveElsewhere
<1>3. world \in Possible /\ world.cards \in CardMaps
  BY PossibleFacts DEF LedgerInv, LedgerTypeOK, TypeOK
<1>4. [world.cards EXCEPT ![x] = "fit"] \in CardMaps
  BY <1>3 DEF CardMaps
<1>5. /\ world' \in Possible /\ world'.cards = [world.cards EXCEPT ![x] = "fit"]
      /\ world'.disc = world.disc /\ world'.rows = world.rows /\ world'.all = world.all
  BY <1>2, <1>3, <1>4 DEF Possible
<1>6. TypeOK' /\ AskInv' /\ PlanInv'
  <2>1. TypeOK' /\ AskInv'
    BY <1>1, <1>5 DEF dialog, editing, bounds, LedgerInv, LedgerTypeOK, TypeOK, AskInv, Applying, Busy, Underway
  <2>2. PlanInv'
    <3>1. Key(world)' = Key(world)
      BY <1>2, <1>3, <1>4, <1>5 DEF Key, Possible
    <3> QED BY <1>1, <1>5, <3>1, PlanSame DEF bounds, LedgerInv
  <2> QED BY <2>1, <2>2
<1>7. Callable' = Callable /\ Exposed' = Exposed
  BY <1>1, <1>5, IdsSame
<1>8. LedgerTypeOK'
  BY <1>1, <1>6 DEF LedgerInv, LedgerTypeOK
<1>9. PolicyInv'
  <2>1. \A y \in policy.added : world'.cards[y] # "none"
    <3>1. policy.added \subseteq Provs \X Names
      BY <1>1, IdsTyped DEF LedgerInv, LedgerTypeOK
    <3>2. \A y \in Provs \X Names : world'.cards[y] = IF y = x THEN "fit" ELSE world.cards[y]
      BY <1>3, <1>5 DEF CardMaps
    <3> QED BY <1>1, <3>1, <3>2 DEF LedgerInv, PolicyInv
  <2> QED BY <1>1, <2>1 DEF LedgerInv, PolicyInv
<1>10. ReadInv'
  <2>1. CheckInv /\ ProofInv /\ foreign' = foreign
    BY <1>1 DEF LedgerInv, ReadInv, bounds
  <2>2. check # None => check.revision \in Nat
    BY DEF LedgerInv, LedgerTypeOK, Checks
  <2>3. proof # None => proof.revision \in Nat
    BY DEF LedgerInv, LedgerTypeOK, Verdicts
  <2>4. CheckInv'
    BY <1>1, <1>7, <2>1, <2>2 DEF CheckInv
  <2>5. ProofInv'
    BY <1>1, <1>7, <2>1, <2>3 DEF ProofInv
  <2> QED BY <1>1, <2>4, <2>5 DEF ReadInv
<1>11. PageInv'
  <2>1. page.revision \in Nat /\ ReadBefore(page) /\ foreign' = foreign
    BY <1>1 DEF LedgerInv, LedgerTypeOK, Pages, PageInv, bounds
  <2>2. page.revision <= revision' /\ page.revision # revision'
    BY <1>1, <2>1 DEF ReadBefore
  <2> QED BY <1>1, <1>5, <2>1, <2>2 DEF PageInv, ReadBefore
<1> QED BY <1>6, <1>8, <1>9, <1>10, <1>11 DEF LedgerInv

LEMMA ChangeInBifrostStep ==
    ASSUME LedgerInv, ChangeInBifrost
    PROVE  LedgerInv'
<1>1. /\ UNCHANGED <<policy, dialog, editing, edits, keyPage>>
      /\ page # None /\ policy # None /\ foreign' = foreign + 1 /\ foreign \in Nat
  BY DEF ChangeInBifrost, LedgerInv, LedgerTypeOK, TypeOK, PageInv
<1>2. PICK w \in Changes : world' = [w EXCEPT !.cards = world.cards]
  BY DEF ChangeInBifrost
<1>3. world' \in Possible /\ world'.cards = world.cards
  <2>1. w \in Possible /\ world \in Possible
    BY AdoptionAssumption, LedgerAssumption DEF LedgerInv, LedgerTypeOK, TypeOK
  <2> QED BY <1>2, <2>1 DEF Possible
<1>4. TypeOK' /\ AskInv' /\ PlanInv'
  <2>1. TypeOK' /\ AskInv'
    BY <1>1, <1>3 DEF dialog, editing, LedgerInv, LedgerTypeOK, TypeOK, AskInv, Applying, Busy, Underway
  <2>2. PlanInv'
    BY <1>1, PlanLater DEF LedgerInv, LedgerTypeOK
  <2> QED BY <2>1, <2>2
<1>5. LedgerTypeOK' /\ PolicyInv'
  BY <1>1, <1>3, <1>4 DEF LedgerInv, LedgerTypeOK, PolicyInv, keyPage
<1>6. ReadInv'
  <2>1. check # None => check.since \in Nat
    BY DEF LedgerInv, LedgerTypeOK, Checks
  <2>2. proof # None => proof.since \in Nat
    BY DEF LedgerInv, LedgerTypeOK, Verdicts
  <2>3. CheckInv'
    BY <1>1, <2>1 DEF LedgerInv, ReadInv, CheckInv, keyPage
  <2>4. ProofInv'
    BY <1>1, <2>2 DEF LedgerInv, ReadInv, ProofInv, keyPage
  <2> QED BY <1>1, <2>3, <2>4 DEF LedgerInv, ReadInv, keyPage
<1>7. PageInv'
  <2>1. page.publication.since \in Nat /\ ReadBefore(page)
    BY <1>1 DEF LedgerInv, LedgerTypeOK, Pages, Verdicts, PageInv
  <2>2. page.publication.since <= foreign' /\ page.publication.since # foreign'
    BY <1>1, <2>1 DEF ReadBefore
  <2> QED BY <1>1, <2>1, <2>2 DEF PageInv, ReadBefore, keyPage
<1> QED BY <1>4, <1>5, <1>6, <1>7 DEF LedgerInv

LEMMA RestartStep ==
    ASSUME LedgerInv, Restart
    PROVE  LedgerInv'
<1>1. /\ UNCHANGED <<policy, selection, world, foreign, revision>> /\ TypeOK' /\ AskInv' /\ PlanInv'
      /\ page # None /\ policy # None /\ proof' = None /\ check' = None
      /\ page' = page \/ page' = Failed(page, page.publication.actual)
  BY DialogStays DEF Restart, vars, server, bounds, LedgerInv, PageInv
<1>2. Callable' = Callable /\ Exposed' = Exposed
  BY <1>1, IdsSame
<1>3. page \in Pages /\ ReadBefore(page)
  BY <1>1 DEF LedgerInv, LedgerTypeOK, PageInv
<1>4. page.publication.actual \in (SUBSET Ids) \cup {None}
  BY <1>3 DEF Pages, Verdicts
<1>5. page' \in Pages /\ ReadBefore(page')
  BY <1>1, <1>3, <1>4, FailedRead
<1>6. LedgerTypeOK' /\ PolicyInv'
  BY <1>1, <1>5 DEF LedgerInv, LedgerTypeOK, PolicyInv
<1>7. ReadInv' /\ PageInv'
  BY <1>1, <1>2, <1>5, PageAssumption DEF ReadInv, CheckInv, ProofInv, PageInv, ReadBefore
<1> QED BY <1>1, <1>6, <1>7 DEF LedgerInv

LEMMA LedgerStep ==
    ASSUME LedgerInv, [LedgerNext]_ledgerVars
    PROVE  LedgerInv'
<1>1. CASE UNCHANGED ledgerVars
  <2>1. /\ UNCHANGED <<policy, selection, world, foreign, revision, proof, check, page>>
        /\ TypeOK' /\ AskInv' /\ PlanInv'
    BY <1>1, DialogStays DEF ledgerVars, keyPage, vars, server, bounds
  <2>2. Callable' = Callable /\ Exposed' = Exposed
    BY <2>1, IdsSame
  <2>3. LedgerTypeOK' /\ PolicyInv'
    BY <2>1 DEF LedgerInv, LedgerTypeOK, PolicyInv
  <2>4. ReadInv' /\ PageInv'
    BY <2>1, <2>2 DEF LedgerInv, ReadInv, CheckInv, ProofInv, PageInv, ReadBefore
  <2> QED BY <2>1, <2>3, <2>4 DEF LedgerInv
<1>2. CASE LedgerNext
  BY <1>2, AdoptingStep, ShowManagedStep, ReloadStep, CheckStep, EndCheckStep, SaveStep,
     SaveElsewhereStep, ChangeInBifrostStep, RestartStep DEF LedgerNext
<1> QED BY <1>1, <1>2

\* What a page and the reads behind it are of, at any time: the calls of the dialog are about
\* what it shows, a check or a verdict begun since the last change in Bifrost is of the key as it
\* is, and a page of the revision saved last shows that selection.
THEOREM LedgerInvariant == LedgerSpec => []LedgerInv
<1>1. LedgerInit => LedgerInv
  <2> SUFFICES ASSUME LedgerInit PROVE LedgerInv
    OBVIOUS
  <2>1. Init /\ selection = None /\ revision = 0 /\ proof = None /\ check = None /\ page = None
    BY DEF LedgerInit
  <2>2. TypeOK /\ AskInv /\ PlanInv /\ policy = None
    BY <2>1, DialogInit DEF Init
  <2> QED BY <2>1, <2>2
          DEF LedgerInv, LedgerTypeOK, PolicyInv, ReadInv, CheckInv, ProofInv, PageInv
<1>2. LedgerInv /\ [LedgerNext]_ledgerVars => LedgerInv'
  BY LedgerStep
<1> QED BY <1>1, <1>2, PTL DEF LedgerSpec

\* The dialog of a key, its edits and the key's page stay within their types.
THEOREM LedgerTypeCorrect == LedgerSpec => []LedgerTypeOK
<1>1. LedgerInv => LedgerTypeOK
  BY DEF LedgerInv
<1> QED BY <1>1, LedgerInvariant, PTL

\* Who writes the policy, and the permissions of the key.
LEMMA WhoWrites ==
    ASSUME TypeOK, [LedgerNext]_ledgerVars, foreign' = foreign
    PROVE  /\ policy' # policy => AdoptSave
           /\ Key(world)' # Key(world) => EditWrite /\ world' # world
<1>1. foreign \in Nat
  BY DEF TypeOK
<1>2. CASE Adopting
  <2>1. Next /\ ~Foreign
    BY <1>1, <1>2 DEF Adopting, Foreign
  <2>2. \/ AdoptSave /\ UNCHANGED world
        \/ EditWrite /\ UNCHANGED policy
        \/ UNCHANGED server
    BY <2>1 DEF Next, Operator, Answers, Open, Close, RefreshPreview, Apply, Keep, OpenEdit, EditRefresh,
         EditConfirm, CloseEdit, ServeKey, ServeModels, ServePreview, ServeAdopt, AdoptSave, PreviewAnswered,
         AdoptAnswered, Report, EditServeKey, EditServePreview, EditServe, EditWrite, EditReadBack,
         EditPreviewAnswered, EditConfirmed, EditReport
  <2> QED BY <2>2 DEF server, Key
<1>3. CASE SaveElsewhere
  <2>1. UNCHANGED policy
    BY <1>3 DEF SaveElsewhere
  <2>2. PICK x \in Provs \X Names : world' = [world EXCEPT !.cards = [@ EXCEPT ![x] = "fit"]]
    BY <1>3 DEF SaveElsewhere
  <2>3. world \in Possible
    BY DEF TypeOK
  <2>4. Key(world)' = Key(world)
    BY <2>2, <2>3 DEF Possible, Key
  <2> QED BY <2>1, <2>4
<1>4. ~ChangeInBifrost
  BY <1>1 DEF ChangeInBifrost
<1>5. CASE UNCHANGED server
  BY <1>5 DEF server, Key
<1>6. Adopting \/ SaveElsewhere \/ ChangeInBifrost \/ UNCHANGED server
  BY DEF LedgerNext, ShowManaged, Reload, Check, ReadKey, ReadModels, EndCheck, Save, Restart, vars, ledgerVars
<1> QED BY <1>2, <1>3, <1>4, <1>5, <1>6

\* The dialog of a key does what it shows, for every key, choice and change made meanwhile: an
\* adoption is the plan of the preview on the page, of cards and a key that are still those
\* unless changed outside during the call, and an edit of the key in Bifrost leaves the key its
\* preview announced, taking off what it lists and adding nothing.
THEOREM DialogDoesWhatItShows == LedgerSpec => DoesWhatItShows
<1>1. ASSUME LedgerInv, [LedgerNext]_ledgerVars
      PROVE  [policy' # policy /\ foreign' = foreign =>
                 /\ policy = None /\ policy' = Adoption(shown.world, shown.keep)
                 /\ world.cards = shown.world.cards
                 /\ ask.since = foreign => Key(world) = Key(shown.world)]_vars
  <2> SUFFICES ASSUME policy' # policy, foreign' = foreign
               PROVE  /\ policy = None /\ policy' = Adoption(shown.world, shown.keep)
                      /\ world.cards = shown.world.cards
                      /\ ask.since = foreign => Key(world) = Key(shown.world)
    OBVIOUS
  <2>1. TypeOK /\ AskInv /\ PlanInv
    BY <1>1 DEF LedgerInv, LedgerTypeOK
  <2>2. AdoptSave
    BY <1>1, <2>1, WhoWrites
  <2> QED BY <2>1, <2>2, AdoptionTakes
<1>2. ASSUME LedgerInv, [LedgerNext]_ledgerVars
      PROVE  [Key(world)' # Key(world) /\ foreign' = foreign =>
          LET lost == {x \in Provs \X Names : Allows(world, x[1], x[2]) /\ ~Allows(world', x[1], x[2])}
              known == world.disc \cup {x \in Provs \X Names :
                           x[1] \in DOMAIN world.rows /\ x[2] \in world.rows[x[1]]}
          IN /\ Key(world)' = Key(Edited(editShown, edit))
             /\ editAsk.since = foreign =>
                   /\ policy = None
                   /\ lost \cap known \subseteq Removed(editShown, edit)
                   /\ \A x \in Removed(editShown, edit) \ lost :
                         x[1] \in DOMAIN world'.rows /\ Star \in world'.rows[x[1]]
                   /\ \A p \in Provs, n \in Entries : Allows(world', p, n) => Allows(world, p, n)]_vars
  <2> SUFFICES ASSUME Key(world)' # Key(world), foreign' = foreign
               PROVE  /\ Key(world)' = Key(Edited(editShown, edit))
                      /\ editAsk.since = foreign =>
                            /\ policy = None
                            /\ Lost(world, world') \cap Known(world) \subseteq Removed(editShown, edit)
                            /\ \A x \in Removed(editShown, edit) \ Lost(world, world') :
                                  x[1] \in DOMAIN world'.rows /\ Star \in world'.rows[x[1]]
                            /\ \A p \in Provs, n \in Entries : Allows(world', p, n) => Allows(world, p, n)
    BY DEF Lost, Known
  <2>1. TypeOK /\ AskInv /\ PlanInv
    BY <1>2 DEF LedgerInv, LedgerTypeOK
  <2>2. EditWrite /\ world' # world
    BY <1>2, <2>1, WhoWrites
  <2> QED BY <2>1, <2>2, EditTakes
<1> QED BY <1>1, <1>2, LedgerInvariant, PTL
        DEF LedgerSpec, DoesWhatItShows, AdoptsWhatIsShown, EditsTakeWhatTheyShow

-----------------------------------------------------------------------------
(* The ledger of a verified key.                                           *)

\* A page that reads as verified, of now.
Current == page # None /\ Standing(page) /\ Badge(page) \in {"verified", "differences"}

LEMMA CurrentFacts ==
    ASSUME LedgerInv, Current
    PROVE  /\ page \in Pages /\ policy # None /\ selection \in Selections
           /\ page.selection = selection /\ page.rows = world.rows /\ page.kept = policy.keptNative
           /\ page.publication.state = "verified"
           /\ page.publication.actual = Callable /\ Actual(page) = Callable /\ Callable # None
           /\ Exposed \subseteq Callable
           /\ \A x \in policy.added : page.cards[x] # "none"
<1>1. page # None /\ page \in Pages /\ policy # None /\ ReadBefore(page) /\ selection \in Selections
  BY DEF LedgerInv, LedgerTypeOK, PageInv, PolicyInv, Current
<1>2. page.publication \in Verdicts
  BY <1>1 DEF Pages
<1>3. page.publication.state = "verified"
  <2>1. page.publication.state \in {"verified", "drift"}
    BY DEF Current, Standing
  <2>2. page.publication.state = "drift" => Badge(page) = "drift"
    BY DEF Badge
  <2> QED BY <2>1, <2>2 DEF Current
<1>4. page.revision = revision /\ page.publication.since = foreign
  BY DEF Current, Standing
<1>5. page.publication.actual # None /\ page.publication.actual = Callable /\ Exposed \subseteq Callable
  BY <1>1, <1>3, <1>4 DEF ReadBefore
<1>6. Actual(page) = page.publication.actual
  BY <1>3 DEF Actual
<1> QED BY <1>1, <1>3, <1>4, <1>5, <1>6 DEF ReadBefore

\* Whether the ids of a row were listed, on such a page.
LEMMA ListedFacts ==
    ASSUME LedgerInv, Current, NEW ids
    PROVE  /\ ListedOn(page, ids) = TRUE <=> Callable \cap ids # {}
           /\ ListedOn(page, ids) = FALSE <=> Callable \cap ids = {}
BY CurrentFacts DEF ListedOn

LEMMA RegistryOnFacts ==
    ASSUME LedgerInv, Current, NEW n, NEW p
    PROVE  p \in RegistryOn(page, n, TRUE) <=>
              \E x \in Accesses(page.cards, n) \ selection.excluded :
                 /\ x[1] = p /\ n \in selection.members
                 /\ Callable \cap NamedIds(selection.naming, x) # {}
<1>1. page.selection = selection
  BY CurrentFacts
<1>2. \A x : ListedOn(page, NamedIds(selection.naming, x)) = TRUE <=>
                Callable \cap NamedIds(selection.naming, x) # {}
  BY ListedFacts
<1> QED BY <1>1, <1>2 DEF RegistryOn

LEMMA KeptOnFacts ==
    ASSUME LedgerInv, Current, NEW n, NEW p
    PROVE  /\ p \in KeptOn(page, n, TRUE) <=>
                 \E x \in KeptRoutes(world.rows, policy.keptNative \ OpenOn(page)) :
                    x[1] = p /\ x[2] = n /\ x \in Callable
           /\ p \in KeptOn(page, n, FALSE) <=>
                 \E x \in KeptRoutes(world.rows, policy.keptNative \ OpenOn(page)) :
                    x[1] = p /\ x[2] = n /\ x \notin Callable
<1>1. page.rows = world.rows /\ page.kept = policy.keptNative
  BY CurrentFacts
<1>2. \A x : /\ ListedOn(page, {x}) = TRUE <=> x \in Callable
             /\ ListedOn(page, {x}) = FALSE <=> x \notin Callable
  <2> TAKE x
  <2>1. Callable \cap {x} # {} <=> x \in Callable
    OBVIOUS
  <2> QED BY <2>1, ListedFacts
<1> QED BY <1>1, <1>2 DEF KeptOn

LEMMA NamedIdsName == ASSUME NEW naming, NEW x, NEW id \in NamedIds(naming, x) PROVE id[2] = x[2]
BY DEF NamedIds, When

\* A model the page counts is one the key can call.
LEMMA CountedIsCallable ==
    ASSUME LedgerInv, Current
    PROVE  Counted(page) \subseteq {id[2] : id \in Callable}
<1> SUFFICES ASSUME NEW n \in Counted(page) PROVE \E id \in Callable : id[2] = n
  OBVIOUS
<1>1. PICK p : p \in RegistryOn(page, n, TRUE) \/ p \in KeptOn(page, n, TRUE)
  BY DEF Counted, Via
<1>2. CASE p \in RegistryOn(page, n, TRUE)
  <2>1. PICK x \in Accesses(page.cards, n) : Callable \cap NamedIds(selection.naming, x) # {}
    BY <1>2, RegistryOnFacts
  <2>2. x[2] = n
    BY <2>1 DEF Accesses
  <2> QED BY <2>1, <2>2, NamedIdsName
<1>3. CASE p \in KeptOn(page, n, TRUE)
  BY <1>3, KeptOnFacts
<1> QED BY <1>1, <1>2, <1>3

\* And the other way round, unless a kept provider leaves the total open.
LEMMA CallableIsCounted ==
    ASSUME LedgerInv, Current, OpenOn(page) = {}
    PROVE  {id[2] : id \in Callable} \subseteq Counted(page)
<1> SUFFICES ASSUME NEW id \in Callable PROVE id[2] \in Names /\ Via(page, id[2]) # {}
  BY DEF Counted
<1>1. TypeOK /\ world \in Possible /\ policy # None
  BY CurrentFacts DEF LedgerInv, LedgerTypeOK, TypeOK
<1>2. CASE \E x \in RoutesOf(selection) \cap Native(world) : id \in NamedIds(selection.naming, x)
  <2>1. PICK x \in RoutesOf(selection) : id \in NamedIds(selection.naming, x)
    BY <1>2
  <2>2. x \in policy.added /\ x[2] \in selection.members /\ x \notin selection.excluded
    BY <2>1 DEF RoutesOf
  <2>3. x \in Provs \X Names /\ page.cards[x] # "none" /\ DOMAIN page.cards = Provs \X Names
    BY <1>1, <2>2, IdsTyped, CurrentFacts DEF Pages, CardMaps
  <2>4. id[2] = x[2]
    BY <2>1, NamedIdsName
  <2>5. x \in Accesses(page.cards, x[2])
    BY <2>3 DEF Accesses
  <2>6. x[1] \in RegistryOn(page, x[2], TRUE)
    BY <2>1, <2>2, <2>5, RegistryOnFacts
  <2> QED BY <2>3, <2>4, <2>6 DEF Via
<1>3. CASE id \in Native(world) /\ id[1] \in policy.keptNative
  <2>1. page.rows = world.rows /\ page.kept = policy.keptNative
    BY CurrentFacts
  <2>2. /\ id[1] \in DOMAIN world.rows
        /\ Star \notin world.rows[id[1]] /\ world.rows[id[1]] # {}
    BY <1>3, <2>1 DEF OpenOn
  <2>3. id \in Provs \X Names
    BY <1>1, <1>3, PossibleFacts DEF Native
  <2>4. id[2] \in world.rows[id[1]]
    BY <1>3, <2>2 DEF Native, Allows
  <2>5. id \in KeptRoutes(world.rows, policy.keptNative \ OpenOn(page))
    BY <1>3, <2>2, <2>3, <2>4 DEF KeptRoutes, Static
  <2>6. id[1] \in KeptOn(page, id[2], TRUE)
    BY <2>5, KeptOnFacts
  <2> QED BY <2>3, <2>6 DEF Via
<1> QED BY <1>2, <1>3 DEF Callable

\* A route of a kept provider Bifrost does not list is told.
LEMMA UnlistedIsTold ==
    ASSUME LedgerInv, Current,
           NEW x \in KeptRoutes(world.rows, policy.keptNative \ OpenOn(page)), x \notin Callable
    PROVE  /\ x[2] \in DOMAIN Told(page)
           /\ x[1] \in Told(page)[x[2]].notListed \cup RegistryOn(page, x[2], TRUE)
<1>1. x[1] \in KeptOn(page, x[2], FALSE) /\ x[2] \in Names
  BY KeptOnFacts DEF KeptRoutes
<1>2. x[1] \in NotListed(page, x[2]) \cup RegistryOn(page, x[2], TRUE)
  BY <1>1 DEF NotListed
<1>3. x[2] \in DOMAIN Told(page)
  BY <1>1, <1>2 DEF Told, Via
<1>4. Told(page)[x[2]].notListed = NotListed(page, x[2])
  BY <1>3 DEF Told
<1> QED BY <1>2, <1>3, <1>4

\* The page of a key that reads as verified tells the truth, for every catalogue, selection and
\* permission, and however the reads behind it interleave with changes: it counts the models the
\* key can call, and says "at least" when a kept provider allows more than it lists.
THEOREM LedgerHolds == LedgerSpec => []LedgerIsTrue
<1>1. ASSUME LedgerInv PROVE LedgerIsTrue
  <2> SUFFICES ASSUME Current
               PROVE  /\ Headline(page).asked /\ Headline(page).count \subseteq {id[2] : id \in Callable}
                      /\ ~Headline(page).atLeast => Headline(page).count = {id[2] : id \in Callable}
                      /\ PublicationCard(page).ids = Callable /\ Exposed \subseteq Callable
                      /\ \A x \in KeptRoutes(world.rows, policy.keptNative \ OpenOn(page)) \ Callable :
                            /\ x[2] \in DOMAIN Told(page)
                            /\ x[1] \in Told(page)[x[2]].notListed \cup RegistryOn(page, x[2], TRUE)
    BY DEF LedgerIsTrue, Current
  <2>1. /\ Headline(page).count = Counted(page)
        /\ Headline(page).asked <=> Badge(page) # "unchecked"
        /\ Headline(page).atLeast <=> OpenOn(page) # {}
    BY DEF Headline
  <2>2. Badge(page) # "unchecked"
    BY DEF Current
  <2>3. page.publication.actual = Callable /\ Callable # None /\ Exposed \subseteq Callable
    BY <1>1, CurrentFacts
  <2>4. PublicationCard(page).ids = Callable
    BY <2>3 DEF PublicationCard
  <2>5. Counted(page) \subseteq {id[2] : id \in Callable}
    BY <1>1, CountedIsCallable
  <2>6. OpenOn(page) = {} => {id[2] : id \in Callable} \subseteq Counted(page)
    BY <1>1, CallableIsCounted
  <2>7. \A x \in KeptRoutes(world.rows, policy.keptNative \ OpenOn(page)) \ Callable :
           /\ x[2] \in DOMAIN Told(page)
           /\ x[1] \in Told(page)[x[2]].notListed \cup RegistryOn(page, x[2], TRUE)
    BY <1>1, UnlistedIsTold
  <2> QED BY <2>1, <2>2, <2>3, <2>4, <2>5, <2>6, <2>7
<1> QED BY <1>1, LedgerInvariant, PTL

-----------------------------------------------------------------------------
(* Every choice of the dialog takes a decision off.                        *)

LEMMA Minimum ==
    ASSUME NEW S, S \subseteq Nat, S # {}
    PROVE  \E m \in S : \A x \in S : m <= x
<1>1. PICK m \in S : \A y \in S : ~(<<y, m>> \in OpToRel(<, Nat))
  BY NatLessThanWellFounded, WFMin, Zenon
<1>2. \A y \in S : ~(y < m)
  BY <1>1 DEF OpToRel
<1> QED BY <1>2

LEMMA InFit ==
    ASSUME NEW w, NEW rows, NEW keep, NEW p, NEW n
    PROVE  <<p, n>> \in FitIn(w, rows, keep) <=>
              /\ p \in DOMAIN rows /\ p \notin keep /\ n \in Names /\ n \in rows[p]
              /\ ModelKind(w, p, n) = "fit"
BY DEF FitIn

LEMMA InSelected ==
    ASSUME NEW w, NEW rows \in RowMaps, NEW keep, NEW p, NEW n
    PROVE  <<p, n>> \in SelectedIn(w, rows, keep) <=>
              /\ <<p, n>> \in FitIn(w, rows, keep)
              /\ \A q : <<q, n>> \in FitIn(w, rows, keep) => p <= q
<1> DEFINE F == FitIn(w, rows, keep)
<1>1. \A a \in F : a = <<a[1], a[2]>>
  BY DEF FitIn
<1>2. SelectedIn(w, rows, keep) = {a \in F : \A b \in F : b[2] = a[2] => a[1] <= b[1]}
  BY DEF SelectedIn
<1> HIDE DEF F
<1>3. ASSUME <<p, n>> \in F, \A b \in F : b[2] = n => p <= b[1]
      PROVE  \A q : <<q, n>> \in F => p <= q
  BY <1>3
<1>4. ASSUME <<p, n>> \in F, \A q : <<q, n>> \in F => p <= q, NEW b \in F, b[2] = n
      PROVE  p <= b[1]
  BY <1>1, <1>4
<1> QED BY <1>2, <1>3, <1>4 DEF F

\* Of the accesses of a name, one is selected, and only one.
LEMMA OneSelected ==
    ASSUME NEW w, NEW rows \in RowMaps, NEW keep, NEW p, NEW n, <<p, n>> \in FitIn(w, rows, keep)
    PROVE  /\ \E q \in Provs : <<q, n>> \in SelectedIn(w, rows, keep)
           /\ \A q, r : <<q, n>> \in SelectedIn(w, rows, keep) /\ <<r, n>> \in SelectedIn(w, rows, keep) => q = r
<1> DEFINE S == {q \in Provs : <<q, n>> \in FitIn(w, rows, keep)}
<1>1. DOMAIN rows \subseteq Provs /\ Provs \subseteq Nat
  BY RowMapFacts, AdoptionAssumption
<1>2. \A q : <<q, n>> \in FitIn(w, rows, keep) => q \in S
  BY <1>1, InFit
<1>3. S \subseteq Nat /\ S # {}
  BY <1>1, <1>2
<1>4. PICK m \in S : \A x \in S : m <= x
  BY <1>3, Minimum
<1>5. <<m, n>> \in SelectedIn(w, rows, keep)
  BY <1>2, <1>4, InSelected
<1>6. ASSUME NEW q, NEW r, <<q, n>> \in SelectedIn(w, rows, keep), <<r, n>> \in SelectedIn(w, rows, keep)
      PROVE  q = r
  <2>1. q \in Nat /\ r \in Nat
    BY <1>2, <1>3, <1>6, InSelected
  <2>2. q <= r /\ r <= q
    BY <1>6, InSelected
  <2> QED BY <2>1, <2>2
<1> QED BY <1>4, <1>5, <1>6

LEMMA InHeld ==
    ASSUME NEW w, NEW rows \in RowMaps, NEW keep, NEW p, NEW n, <<p, n>> \in FitIn(w, rows, keep)
    PROVE  n \in Held(w, rows)
<1>1. <<p, n>> \in FitIn(w, rows, {})
  BY InFit
<1>2. PICK q \in Provs : <<q, n>> \in SelectedIn(w, rows, {})
  BY <1>1, OneSelected
<1> QED BY <1>2 DEF Held

LEMMA HolderSelected ==
    ASSUME NEW w, NEW rows \in RowMaps, NEW keep, NEW p, NEW n, <<p, n>> \in FitIn(w, rows, keep)
    PROVE  <<Holder(SelectedIn(w, rows, keep), n), n>> \in SelectedIn(w, rows, keep)
<1>1. \E q \in Provs : <<q, n>> \in SelectedIn(w, rows, keep)
  BY OneSelected
<1> QED BY <1>1 DEF Holder

-----------------------------------------------------------------------------
(* What is left to decide, provider by provider.                           *)

Stuck(w, keep, p, kind, n) ==
    /\ p \in DOMAIN w.rows /\ p \notin keep
    /\ \/ w.rows[p] = {} /\ kind = "other" /\ n = None
       \/ Star \in w.rows[p] /\ kind = "dynamic" /\ n = None
       \/ n \in Static(w.rows, p) /\ kind = ModelKind(w, p, n) /\ kind # "fit"
       \/ n \in Names /\ kind = "collision" /\ <<p, n>> \in Fit(w, keep) \ Selected(w, keep)

\* A provider the dialog has a row of decisions for.
HasRow(w, keep, p) == \E kind \in KeepableKinds : \E n : Stuck(w, keep, p, kind, n)

LEMMA StuckHasBlocker ==
    ASSUME NEW w \in Possible, NEW keep \in SUBSET Provs, NEW p, NEW kind, NEW n, Stuck(w, keep, p, kind, n)
    PROVE  p \in DOMAIN w.rows /\ \E b \in RowBlockers(w, keep, p) : ~b.kept /\ b.kind = kind /\ b.model = n
<1> DEFINE of(with) == Blocker(p, kind, n, with, keep)
<1>1. p \in DOMAIN w.rows
  BY DEF Stuck
<1>2. \A with : ~of(with).kept /\ of(with).kind = kind /\ of(with).model = n
  BY BlockerFacts DEF Stuck
<1>3. of(TheKey) \in RowBlockers(w, keep, p) \/ of(Holder(Selected(w, keep), n)) \in RowBlockers(w, keep, p)
  <2>1. CASE w.rows[p] = {} /\ kind = "other" /\ n = None
    BY <1>1, <2>1, RowBlockerFacts
  <2>2. CASE Star \in w.rows[p] /\ kind = "dynamic" /\ n = None
    BY <1>1, <2>2, RowBlockerFacts
  <2>3. CASE n \in Static(w.rows, p) /\ kind = ModelKind(w, p, n) /\ kind # "fit"
    BY <1>1, <2>3, RowBlockerFacts
  <2>4. CASE n \in Names /\ kind = "collision" /\ <<p, n>> \in Fit(w, keep) \ Selected(w, keep)
    BY <1>1, <2>4, RowBlockerFacts
  <2> QED BY <2>1, <2>2, <2>3, <2>4 DEF Stuck
<1> HIDE DEF of
<1> QED BY <1>1, <1>2, <1>3

LEMMA BlockerIsStuck ==
    ASSUME NEW w \in Possible, NEW keep \in SUBSET Provs, NEW p \in DOMAIN w.rows,
           NEW b \in RowBlockers(w, keep, p), ~b.kept
    PROVE  Stuck(w, keep, p, b.kind, b.model)
<1>1. \/ w.rows[p] = {} /\ b = Blocker(p, "other", None, TheKey, keep)
      \/ Star \in w.rows[p] /\ b = Blocker(p, "dynamic", None, TheKey, keep)
      \/ \E m \in Static(w.rows, p) :
            ModelKind(w, p, m) # "fit" /\ b = Blocker(p, ModelKind(w, p, m), m, TheKey, keep)
      \/ \E m \in Names :
            /\ <<p, m>> \in Fit(w, keep) \ Selected(w, keep)
            /\ b = Blocker(p, "collision", m, Holder(Selected(w, keep), m), keep)
  BY RowBlockerFacts
<1>2. ASSUME NEW k, NEW m, NEW with, b = Blocker(p, k, m, with, keep)
      PROVE  p \notin keep /\ b.kind = k /\ b.model = m
  BY <1>2, BlockerFacts
<1>3. CASE w.rows[p] = {} /\ b = Blocker(p, "other", None, TheKey, keep)
  BY <1>2, <1>3 DEF Stuck
<1>4. CASE Star \in w.rows[p] /\ b = Blocker(p, "dynamic", None, TheKey, keep)
  BY <1>2, <1>4 DEF Stuck
<1>5. ASSUME NEW m \in Static(w.rows, p), ModelKind(w, p, m) # "fit",
             b = Blocker(p, ModelKind(w, p, m), m, TheKey, keep)
      PROVE  Stuck(w, keep, p, b.kind, b.model)
  BY <1>2, <1>5 DEF Stuck
<1>6. ASSUME NEW m \in Names, <<p, m>> \in Fit(w, keep) \ Selected(w, keep),
             b = Blocker(p, "collision", m, Holder(Selected(w, keep), m), keep)
      PROVE  Stuck(w, keep, p, b.kind, b.model)
  BY <1>2, <1>6 DEF Stuck
<1> QED BY <1>1, <1>3, <1>4, <1>5, <1>6

\* Every blocker is a provider's own, or the key's.
LEMMA RowsOfReadiness ==
    ASSUME NEW w \in Possible, NEW keep \in SUBSET Provs
    PROVE  /\ \A p \in DOMAIN w.rows : \A b \in RowBlockers(w, keep, p) :
                 b \in Readiness(w, keep) /\ b.provider = p
           /\ \A b \in Readiness(w, keep) : b.provider # TheKey =>
                 b.provider \in DOMAIN w.rows /\ b \in RowBlockers(w, keep, b.provider)
           /\ \A b \in Readiness(w, keep) : b.kind = "all-providers" =>
                 w.all /\ b = Blocker(TheKey, "all-providers", None, TheKey, keep)
           /\ w.all => Blocker(TheKey, "all-providers", None, TheKey, keep) \in Readiness(w, keep)
<1>1. ASSUME NEW p \in DOMAIN w.rows, NEW b \in RowBlockers(w, keep, p)
      PROVE  /\ b.provider = p /\ b.kind # "all-providers"
  <2>1. ASSUME NEW kind, NEW n, NEW with, kind # "all-providers", b = Blocker(p, kind, n, with, keep)
        PROVE  b.provider = p /\ b.kind # "all-providers"
    BY <2>1, BlockerFacts
  <2>2. CASE b = Blocker(p, "other", None, TheKey, keep) \/ b = Blocker(p, "dynamic", None, TheKey, keep)
    BY <2>1, <2>2
  <2>3. ASSUME NEW n \in Static(w.rows, p), b = Blocker(p, ModelKind(w, p, n), n, TheKey, keep)
        PROVE  b.provider = p /\ b.kind # "all-providers"
    BY <2>1, <2>3, KindFacts
  <2>4. ASSUME NEW n \in Names, b = Blocker(p, "collision", n, Holder(Selected(w, keep), n), keep)
        PROVE  b.provider = p /\ b.kind # "all-providers"
    BY <2>1, <2>4
  <2>5. b \in RowBlockers(w, keep, p)
    BY <1>1
  <2>6. \/ w.rows[p] = {} /\ b = Blocker(p, "other", None, TheKey, keep)
        \/ Star \in w.rows[p] /\ b = Blocker(p, "dynamic", None, TheKey, keep)
        \/ \E m \in Static(w.rows, p) :
              ModelKind(w, p, m) # "fit" /\ b = Blocker(p, ModelKind(w, p, m), m, TheKey, keep)
        \/ \E m \in Names :
              /\ <<p, m>> \in Fit(w, keep) \ Selected(w, keep)
              /\ b = Blocker(p, "collision", m, Holder(Selected(w, keep), m), keep)
    BY <2>5, RowBlockerFacts
  <2> QED BY <2>2, <2>3, <2>4, <2>6
<1>2. ASSUME ~Empty(w), NEW b
      PROVE  /\ b \in SelectionBlockers(w, keep) <=>
                \/ w.all /\ b = Blocker(TheKey, "all-providers", None, TheKey, keep)
                \/ \E p \in DOMAIN w.rows : b \in RowBlockers(w, keep, p)
             /\ b \in Readiness(w, keep) =>
                \/ b \in SelectionBlockers(w, keep)
                \/ b.provider = TheKey /\ b.kind = "other" /\ ~b.kept
             /\ b \in SelectionBlockers(w, keep) => b \in Readiness(w, keep)
  BY <1>2, ReadinessFacts
<1>3. ASSUME NEW p \in DOMAIN w.rows, NEW b \in RowBlockers(w, keep, p)
      PROVE  b \in Readiness(w, keep)
  <2>1. ~Empty(w)
    BY <1>3 DEF Empty
  <2> QED BY <1>2, <1>3, <2>1
<1>4. ASSUME NEW b \in Readiness(w, keep)
      PROVE  /\ b.provider # TheKey => b.provider \in DOMAIN w.rows /\ b \in RowBlockers(w, keep, b.provider)
             /\ b.kind = "all-providers" => w.all /\ b = Blocker(TheKey, "all-providers", None, TheKey, keep)
  <2>1. ~Empty(w)
    BY <1>4 DEF Readiness
  <2>2. Blocker(TheKey, "all-providers", None, TheKey, keep).provider = TheKey
    BY BlockerFacts
  <2>3. \/ w.all /\ b = Blocker(TheKey, "all-providers", None, TheKey, keep)
        \/ \E p \in DOMAIN w.rows : b \in RowBlockers(w, keep, p)
        \/ b.provider = TheKey /\ b.kind = "other"
    BY <1>2, <1>4, <2>1
  <2> QED BY <1>1, <2>2, <2>3
<1>5. ASSUME w.all PROVE Blocker(TheKey, "all-providers", None, TheKey, keep) \in Readiness(w, keep)
  <2>1. ~Empty(w)
    BY <1>5 DEF Empty
  <2> QED BY <1>2, <1>5, <2>1
<1> QED BY <1>1, <1>3, <1>4, <1>5

\* A provider has a row when something of it can be kept in Bifrost.
LEMMA RowsFacts ==
    ASSUME NEW w \in Possible, NEW keep \in SUBSET Provs, NEW p, p # TheKey
    PROVE  p \in Rows(Readiness(w, keep)) <=> HasRow(w, keep, p)
<1> DEFINE r == Readiness(w, keep)
<1>1. ASSUME p \in Rows(r) PROVE HasRow(w, keep, p)
  <2>1. PICK b \in OpenBlockers(r) : b.provider = p /\ (b.kind \in KeepableKinds \/ b.kind = "all-providers")
    BY <1>1 DEF Rows
  <2>2. b \in r /\ ~b.kept
    BY <2>1 DEF OpenBlockers
  <2>3. p \in DOMAIN w.rows /\ b \in RowBlockers(w, keep, p)
    BY <2>1, <2>2, RowsOfReadiness
  <2>4. b.kind # "all-providers"
    BY <2>1, <2>2, RowsOfReadiness, BlockerFacts
  <2>5. Stuck(w, keep, p, b.kind, b.model)
    BY <2>2, <2>3, BlockerIsStuck
  <2> QED BY <2>1, <2>4, <2>5 DEF HasRow
<1>2. ASSUME HasRow(w, keep, p) PROVE p \in Rows(r)
  <2>1. PICK kind : kind \in KeepableKinds /\ \E n : Stuck(w, keep, p, kind, n)
    BY <1>2 DEF HasRow
  <2>6. PICK n : Stuck(w, keep, p, kind, n)
    BY <2>1
  <2>2. p \in DOMAIN w.rows /\ \E b \in RowBlockers(w, keep, p) : ~b.kept /\ b.kind = kind /\ b.model = n
    BY <2>6, StuckHasBlocker
  <2>3. PICK b \in RowBlockers(w, keep, p) : ~b.kept /\ b.kind = kind
    BY <2>2
  <2>4. b \in r /\ b.provider = p
    BY <2>2, <2>3, RowsOfReadiness
  <2>5. b.kind # "unsaved"
    BY <2>1, <2>3 DEF KeepableKinds
  <2> HIDE DEF r
  <2> QED BY <2>1, <2>3, <2>4, <2>5 DEF Rows, OpenBlockers
<1> QED BY <1>1, <1>2

LEMMA UndecidedFacts ==
    ASSUME NEW w \in Possible, NEW keep \in SUBSET Provs, NEW t
    PROVE  t \in Undecided(w, keep) <=>
              \/ w.all /\ t = <<TheKey, "all-providers", None>>
              \/ \E p, kind, n : /\ t = <<p, kind, n>> /\ kind # "unsaved"
                                 /\ Stuck(w, keep, p, kind, n) /\ HasRow(w, keep, p)
<1> DEFINE r == Readiness(w, keep)
<1>1. TheKey \notin keep /\ TheKey \notin Provs /\ DOMAIN w.rows \subseteq Provs
  BY PossibleFacts, AdoptionAssumption
<1>2. ASSUME NEW b \in Decisions(r), t = <<b.provider, b.kind, b.model>>
      PROVE  \/ w.all /\ t = <<TheKey, "all-providers", None>>
             \/ \E p, kind, n : /\ t = <<p, kind, n>> /\ kind # "unsaved"
                                /\ Stuck(w, keep, p, kind, n) /\ HasRow(w, keep, p)
  <2>1. /\ b \in r /\ ~b.kept /\ b.kind # "unsaved"
        /\ b.kind = "all-providers" \/ b.provider \in Rows(r) \ {TheKey}
    BY <1>2 DEF Decisions, OpenBlockers
  <2>2. CASE b.kind = "all-providers"
    <3>1. w.all /\ b = Blocker(TheKey, "all-providers", None, TheKey, keep)
      BY <2>1, <2>2, RowsOfReadiness
    <3> QED BY <1>2, <3>1, BlockerFacts
  <2>3. CASE b.provider \in Rows(r) \ {TheKey}
    <3>1. b.provider \in DOMAIN w.rows /\ b \in RowBlockers(w, keep, b.provider)
      BY <2>1, <2>3, RowsOfReadiness
    <3>2. Stuck(w, keep, b.provider, b.kind, b.model)
      BY <2>1, <3>1, BlockerIsStuck
    <3>3. HasRow(w, keep, b.provider)
      BY <2>3, RowsFacts
    <3> QED BY <1>2, <2>1, <3>2, <3>3
  <2> QED BY <2>1, <2>2, <2>3
<1>3. ASSUME w.all, t = <<TheKey, "all-providers", None>>
      PROVE  \E b \in Decisions(r) : t = <<b.provider, b.kind, b.model>>
  <2> DEFINE b == Blocker(TheKey, "all-providers", None, TheKey, keep)
  <2>1. b \in r
    BY <1>3, RowsOfReadiness
  <2>2. b.provider = TheKey /\ b.kind = "all-providers" /\ b.model = None /\ ~b.kept
    BY <1>1, BlockerFacts
  <2> HIDE DEF b, r
  <2>3. b \in Decisions(r)
    BY <2>1, <2>2 DEF Decisions, OpenBlockers
  <2> QED BY <1>3, <2>2, <2>3
<1>4. ASSUME NEW p, NEW kind, NEW n, t = <<p, kind, n>>, kind # "unsaved",
             Stuck(w, keep, p, kind, n), HasRow(w, keep, p)
      PROVE  \E b \in Decisions(r) : t = <<b.provider, b.kind, b.model>>
  <2>1. p \in DOMAIN w.rows /\ \E b \in RowBlockers(w, keep, p) : ~b.kept /\ b.kind = kind /\ b.model = n
    BY <1>4, StuckHasBlocker
  <2>2. PICK b \in RowBlockers(w, keep, p) : ~b.kept /\ b.kind = kind /\ b.model = n
    BY <2>1
  <2>3. b \in r /\ b.provider = p /\ p # TheKey
    BY <1>1, <2>1, <2>2, RowsOfReadiness
  <2>4. p \in Rows(r)
    BY <1>4, <2>3, RowsFacts
  <2> HIDE DEF r
  <2>5. b \in Decisions(r)
    BY <1>4, <2>2, <2>3, <2>4 DEF Decisions, OpenBlockers
  <2> QED BY <1>4, <2>2, <2>3, <2>5
<1>5. t \in Undecided(w, keep) <=> \E b \in Decisions(r) : t = <<b.provider, b.kind, b.model>>
  BY DEF Undecided
<1> QED BY <1>2, <1>3, <1>4, <1>5

LEMMA Shrinks ==
    ASSUME NEW w \in Possible, NEW v \in Possible, NEW keep \in SUBSET Provs, NEW more \in SUBSET Provs,
           v.all => w.all,
           \A p, kind, n : Stuck(v, more, p, kind, n) => Stuck(w, keep, p, kind, n)
    PROVE  Undecided(v, more) \subseteq Undecided(w, keep)
<1> SUFFICES ASSUME NEW t \in Undecided(v, more) PROVE t \in Undecided(w, keep)
  OBVIOUS
<1>1. CASE v.all /\ t = <<TheKey, "all-providers", None>>
  BY <1>1, UndecidedFacts
<1>2. ASSUME NEW p, NEW kind, NEW n, t = <<p, kind, n>>, kind # "unsaved",
             Stuck(v, more, p, kind, n), HasRow(v, more, p)
      PROVE  t \in Undecided(w, keep)
  <2>1. HasRow(w, keep, p)
    BY <1>2 DEF HasRow
  <2>2. Stuck(w, keep, p, kind, n)
    BY <1>2
  <2> QED BY <1>2, <2>1, <2>2, UndecidedFacts
<1>3. \/ v.all /\ t = <<TheKey, "all-providers", None>>
      \/ \E p, kind, n : /\ t = <<p, kind, n>> /\ kind # "unsaved"
                         /\ Stuck(v, more, p, kind, n) /\ HasRow(v, more, p)
  BY UndecidedFacts
<1> QED BY <1>1, <1>2, <1>3

\* A decision of a provider, by its triple.
LEMMA UndecidedOf ==
    ASSUME NEW w \in Possible, NEW keep \in SUBSET Provs, NEW p, p # TheKey, NEW kind, NEW n
    PROVE  <<p, kind, n>> \in Undecided(w, keep) <=>
              kind # "unsaved" /\ Stuck(w, keep, p, kind, n) /\ HasRow(w, keep, p)
<1>1. ASSUME <<p, kind, n>> \in Undecided(w, keep)
      PROVE  kind # "unsaved" /\ Stuck(w, keep, p, kind, n) /\ HasRow(w, keep, p)
  <2>1. \/ <<p, kind, n>> = <<TheKey, "all-providers", None>>
        \/ \E q, k, m : /\ <<p, kind, n>> = <<q, k, m>> /\ k # "unsaved"
                        /\ Stuck(w, keep, q, k, m) /\ HasRow(w, keep, q)
    BY <1>1, UndecidedFacts
  <2>2. \A q, k, m : <<p, kind, n>> = <<q, k, m>> => p = q /\ kind = k /\ n = m
    OBVIOUS
  <2> QED BY <2>1, <2>2
<1>2. ASSUME kind # "unsaved" /\ Stuck(w, keep, p, kind, n) /\ HasRow(w, keep, p)
      PROVE  <<p, kind, n>> \in Undecided(w, keep)
  BY <1>2, UndecidedFacts
<1> QED BY <1>1, <1>2

LEMMA KeptMore ==
    ASSUME NEW w \in Possible, NEW keep, NEW q, NEW p, NEW kind, NEW n,
           Stuck(w, keep \cup {q}, p, kind, n)
    PROVE  Stuck(w, keep, p, kind, n)
<1>1. w.rows \in RowMaps
  BY PossibleFacts
<1>2. CASE kind = "collision" /\ n \in Names /\ <<p, n>> \in Fit(w, keep \cup {q}) \ Selected(w, keep \cup {q})
  <2>1. <<p, n>> \in Fit(w, keep)
    BY <1>2, InFit DEF Fit
  <2>2. \A x : <<x, n>> \in Fit(w, keep \cup {q}) => <<x, n>> \in Fit(w, keep)
    BY InFit DEF Fit
  <2>3. <<p, n>> \notin Selected(w, keep)
    BY <1>1, <1>2, <2>2, InSelected DEF Fit, Selected
  <2> QED BY <1>2, <2>1, <2>3 DEF Stuck
<1> QED BY <1>2 DEF Stuck

\* A decision a row offers to keep.
LEMMA RowDecision ==
    ASSUME NEW w \in Possible, NEW keep \in SUBSET Provs, NEW row, NEW b \in RowBlockersOf(Readiness(w, keep), row)
    PROVE  /\ b \in Readiness(w, keep) /\ ~b.kept /\ b.provider = row
           /\ b.kind # "all-providers" =>
                 /\ row \in DOMAIN w.rows /\ row # TheKey /\ b \in RowBlockers(w, keep, row)
                 /\ Stuck(w, keep, row, b.kind, b.model) /\ HasRow(w, keep, row)
                 /\ <<row, b.kind, b.model>> \in Undecided(w, keep)
<1> DEFINE r == Readiness(w, keep)
<1>1. /\ b \in r /\ ~b.kept /\ b.provider = row /\ b.kind # "unsaved"
      /\ b.kind = "all-providers" \/ row \in Rows(r) \ {TheKey}
  BY DEF RowBlockersOf, Decisions, OpenBlockers
<1>2. CASE b.kind # "all-providers"
  <2>1. row \in Rows(r) /\ row # TheKey
    BY <1>1, <1>2
  <2>2. row \in DOMAIN w.rows /\ b \in RowBlockers(w, keep, row)
    BY <1>1, <2>1, RowsOfReadiness
  <2>3. Stuck(w, keep, row, b.kind, b.model)
    BY <1>1, <2>2, BlockerIsStuck
  <2>4. HasRow(w, keep, row)
    BY <2>1, RowsFacts
  <2> QED BY <1>1, <2>1, <2>2, <2>3, <2>4, UndecidedOf
<1> QED BY <1>1, <1>2

LEMMA CollisionFacts ==
    ASSUME NEW w \in Possible, NEW keep \in SUBSET Provs, NEW p \in DOMAIN w.rows,
           NEW b \in RowBlockers(w, keep, p), b.kind = "collision"
    PROVE  /\ <<p, b.model>> \in Fit(w, keep) \ Selected(w, keep)
           /\ b.with = Holder(Selected(w, keep), b.model)
<1>1. \/ w.rows[p] = {} /\ b = Blocker(p, "other", None, TheKey, keep)
      \/ Star \in w.rows[p] /\ b = Blocker(p, "dynamic", None, TheKey, keep)
      \/ \E m \in Static(w.rows, p) :
            ModelKind(w, p, m) # "fit" /\ b = Blocker(p, ModelKind(w, p, m), m, TheKey, keep)
      \/ \E m \in Names :
            /\ <<p, m>> \in Fit(w, keep) \ Selected(w, keep)
            /\ b = Blocker(p, "collision", m, Holder(Selected(w, keep), m), keep)
  BY RowBlockerFacts
<1>2. ASSUME NEW k, NEW m, NEW with, b = Blocker(p, k, m, with, keep)
      PROVE  k = "collision" /\ b.model = m /\ b.with = with
  BY <1>2, BlockerFacts
<1>3. ~(b = Blocker(p, "other", None, TheKey, keep)) /\ ~(b = Blocker(p, "dynamic", None, TheKey, keep))
  BY <1>2
<1>4. \A m : ~(b = Blocker(p, ModelKind(w, p, m), m, TheKey, keep))
  BY <1>2, KindFacts
<1>5. PICK m \in Names : /\ <<p, m>> \in Fit(w, keep) \ Selected(w, keep)
                         /\ b = Blocker(p, "collision", m, Holder(Selected(w, keep), m), keep)
  BY <1>1, <1>3, <1>4
<1> QED BY <1>2, <1>5

\* Keeping a provider a row offers takes a decision off, and adds none.
LEMMA KeepingSettles ==
    ASSUME NEW w \in Possible, NEW keep \in SUBSET Provs, NEW row,
           NEW q \in KeepChoices(Readiness(w, keep), row)
    PROVE  /\ Undecided(w, keep \cup {q}) \subseteq Undecided(w, keep)
           /\ Undecided(w, keep \cup {q}) # Undecided(w, keep)
<1> DEFINE r == Readiness(w, keep)
<1>1. w.rows \in RowMaps /\ DOMAIN w.rows \subseteq Provs /\ TheKey \notin Provs
  BY PossibleFacts, AdoptionAssumption
<1>2. \E b \in RowBlockersOf(r, row) :
         b.kind \in KeepableKinds /\ (q = row \/ (b.kind = "collision" /\ q = b.with))
  <2> HIDE DEF r
  <2> SUFFICES ASSUME q \in KeepChoices(r, row)
               PROVE  \E b \in RowBlockersOf(r, row) :
                         b.kind \in KeepableKinds /\ (q = row \/ (b.kind = "collision" /\ q = b.with))
    BY DEF r
  <2> QED BY DEF KeepChoices, When
<1>3. PICK b \in RowBlockersOf(r, row) :
         b.kind \in KeepableKinds /\ (q = row \/ (b.kind = "collision" /\ q = b.with))
  BY <1>2
<1>4. b.kind # "all-providers"
  BY <1>3 DEF KeepableKinds
<1>5. /\ row \in DOMAIN w.rows /\ row # TheKey /\ b \in RowBlockers(w, keep, row)
      /\ <<row, b.kind, b.model>> \in Undecided(w, keep)
  BY <1>3, <1>4, RowDecision
<1>6. q \in Provs /\ \E t : t \in Undecided(w, keep) /\ (q \in Provs => t \notin Undecided(w, keep \cup {q}))
  <2>1. CASE q = row
    <3>1. ~Stuck(w, keep \cup {q}, row, b.kind, b.model)
      BY <2>1 DEF Stuck
    <3> QED BY <1>1, <1>5, <2>1, <3>1, UndecidedOf
  <2>2. CASE b.kind = "collision" /\ q = b.with
    <3> DEFINE n == b.model
    <3>1. /\ <<row, n>> \in Fit(w, keep) \ Selected(w, keep)
          /\ q = Holder(Selected(w, keep), n)
      BY <1>5, <2>2, CollisionFacts
    <3> HIDE DEF n
    <3>2. <<q, n>> \in Selected(w, keep) /\ q # row
      BY <1>1, <3>1, HolderSelected DEF Fit, Selected
    <3>3. <<row, n>> \in Fit(w, keep \cup {q})
      BY <3>1, <3>2, InFit DEF Fit
    <3>4. PICK p \in Provs : <<p, n>> \in Selected(w, keep \cup {q})
      BY <1>1, <3>3, OneSelected DEF Fit, Selected
    <3>5. <<p, n>> \in Fit(w, keep) /\ p # q /\ n \in Names /\ p \in DOMAIN w.rows /\ p \notin keep
      BY <1>1, <3>4, InSelected, InFit DEF Fit, Selected
    <3>6. <<p, n>> \notin Selected(w, keep)
      BY <1>1, <3>1, <3>2, <3>5, OneSelected DEF Fit, Selected
    <3>7. Stuck(w, keep, p, "collision", n)
      BY <3>5, <3>6 DEF Stuck
    <3>8. <<p, "collision", n>> \in Undecided(w, keep)
      BY <1>1, <3>4, <3>7, UndecidedOf DEF HasRow, KeepableKinds
    <3>9. ~Stuck(w, keep \cup {q}, p, "collision", n)
      BY <3>4, KindFacts DEF Stuck
    <3>10. q \in Provs
      <4>1. <<q, n>> \in FitIn(w, w.rows, keep)
        BY <3>2 DEF Selected, SelectedIn
      <4>2. q \in DOMAIN w.rows
        BY <4>1, InFit
      <4> QED BY <1>1, <4>2
    <3> QED BY <1>1, <3>4, <3>8, <3>9, <3>10, UndecidedOf
  <2> QED BY <1>3, <2>1, <2>2
<1>7. keep \cup {q} \in SUBSET Provs
  BY <1>6
<1>8. Undecided(w, keep \cup {q}) \subseteq Undecided(w, keep)
  BY <1>7, KeptMore, Shrinks
<1> QED BY <1>6, <1>8

LEMMA KindSame ==
    ASSUME NEW w \in Possible, NEW e, ~EditBlocked(w, e), NEW p, NEW n
    PROVE  ModelKind(Edited(w, e), p, n) = ModelKind(w, p, n)
<1>1. Edited(w, e).disc = w.disc /\ Edited(w, e).cards = w.cards
  BY EditedTyped
<1> QED BY <1>1 DEF ModelKind

LEMMA RowWritten ==
    ASSUME NEW rows \in RowMaps, NEW p \in DOMAIN rows, NEW names
    PROVE  /\ \A q : q \in DOMAIN WithRow(rows, p, names) <=> q \in DOMAIN rows /\ (q # p \/ names # {})
           /\ \A q \in DOMAIN WithRow(rows, p, names) :
                 WithRow(rows, p, names)[q] = IF q = p THEN names ELSE rows[q]
<1>1. CASE names = {}
  <2>1. WithRow(rows, p, names) = [q \in DOMAIN rows \ {p} |-> rows[q]]
    BY <1>1 DEF WithRow, Restrict
  <2> QED BY <1>1, <2>1
<1>2. CASE names # {}
  <2>1. WithRow(rows, p, names) = [rows EXCEPT ![p] = names]
    BY <1>2 DEF WithRow
  <2> QED BY <1>2, <2>1
<1> QED BY <1>1, <1>2

LEMMA RemovingShrinks ==
    ASSUME NEW w \in Possible, NEW keep \in SUBSET Provs, NEW e, e.op = "remove-models", ~EditBlocked(w, e)
    PROVE  /\ \A p, kind, n : Stuck(Edited(w, e), keep, p, kind, n) => Stuck(w, keep, p, kind, n)
           /\ \A n : ~Stuck(Edited(w, e), keep, e.provider, "undiscovered", n)
<1> DEFINE v == Edited(w, e)
           x == e.provider
           names == w.rows[x] \ Gone(w, x)
<1>1. w.rows \in RowMaps /\ x \in DOMAIN w.rows
  BY PossibleFacts DEF EditBlocked
<1>2. v \in Possible /\ v.rows = WithRow(w.rows, x, names)
  BY EditedTyped DEF EditedRows
<1>3. v.rows \in RowMaps
  BY <1>2, PossibleFacts
<1>4. /\ \A q : q \in DOMAIN v.rows <=> q \in DOMAIN w.rows /\ (q # x \/ names # {})
      /\ \A q \in DOMAIN v.rows : v.rows[q] = IF q = x THEN names ELSE w.rows[q]
  BY <1>1, <1>2, RowWritten
<1>5. \A p, n : ModelKind(v, p, n) = ModelKind(w, p, n)
  BY KindSame
<1>6. \A n : n \in Gone(w, x) <=> n \in Static(w.rows, x) /\ ModelKind(w, x, n) = "undiscovered"
  BY DEF Gone
<1>7. \A n \in names : n \in w.rows[x] /\ ~(n # Star /\ ModelKind(w, x, n) = "undiscovered")
  BY <1>6 DEF Static
<1>8. \A n \in Names : n \in w.rows[x] /\ ModelKind(w, x, n) = "fit" => n \in names
  BY <1>6
<1> HIDE DEF v, x, names
<1>9. \A p, n : <<p, n>> \in Fit(v, keep) <=> <<p, n>> \in Fit(w, keep)
  <2> TAKE p, n
  <2>1. <<p, n>> \in Fit(v, keep) <=>
           p \in DOMAIN v.rows /\ p \notin keep /\ n \in Names /\ n \in v.rows[p] /\ ModelKind(v, p, n) = "fit"
    BY InFit DEF Fit
  <2>2. <<p, n>> \in Fit(w, keep) <=>
           p \in DOMAIN w.rows /\ p \notin keep /\ n \in Names /\ n \in w.rows[p] /\ ModelKind(w, p, n) = "fit"
    BY InFit DEF Fit
  <2> QED BY <1>4, <1>5, <1>7, <1>8, <2>1, <2>2
<1>10. \A p, n : <<p, n>> \in Selected(v, keep) <=> <<p, n>> \in Selected(w, keep)
  BY <1>1, <1>3, <1>9, InSelected DEF Fit, Selected
<1>11. ASSUME NEW p, NEW kind, NEW n, Stuck(v, keep, p, kind, n)
       PROVE  Stuck(w, keep, p, kind, n)
  <2>1. p \in DOMAIN v.rows /\ p \notin keep /\ p \in DOMAIN w.rows
    BY <1>4, <1>11 DEF Stuck
  <2>2. CASE v.rows[p] = {} /\ kind = "other" /\ n = None
    BY <1>4, <2>1, <2>2 DEF Stuck
  <2>3. CASE Star \in v.rows[p] /\ kind = "dynamic" /\ n = None
    BY <1>4, <1>7, <2>1, <2>3 DEF Stuck
  <2>4. CASE n \in Static(v.rows, p) /\ kind = ModelKind(v, p, n) /\ kind # "fit"
    BY <1>4, <1>5, <1>7, <2>1, <2>4 DEF Stuck, Static
  <2>5. CASE n \in Names /\ kind = "collision" /\ <<p, n>> \in Fit(v, keep) \ Selected(v, keep)
    BY <1>9, <1>10, <2>1, <2>5 DEF Stuck
  <2> QED BY <1>11, <2>2, <2>3, <2>4, <2>5 DEF Stuck
<1>12. ASSUME NEW n, Stuck(v, keep, x, "undiscovered", n)
       PROVE  FALSE
  <2>1. x \in DOMAIN v.rows /\ n \in Static(v.rows, x) /\ ModelKind(v, x, n) = "undiscovered"
    BY <1>12 DEF Stuck
  <2> QED BY <1>4, <1>5, <1>7, <2>1 DEF Static
<1> QED BY <1>11, <1>12 DEF v, x

LEMMA ReplacingShrinks ==
    ASSUME NEW w \in Possible, NEW keep \in SUBSET Provs, NEW e, e.op = "replace-all-models", ~EditBlocked(w, e)
    PROVE  /\ \A p, kind, n : Stuck(Edited(w, e), keep, p, kind, n) => Stuck(w, keep, p, kind, n)
           /\ \A kind, n : ~Stuck(Edited(w, e), keep, e.provider, kind, n)
<1> DEFINE v == Edited(w, e)
           x == e.provider
           names == Holdable(w, x)
           others == Restrict(w.rows, DOMAIN w.rows \ {x})
<1>1. w.rows \in RowMaps /\ x \in DOMAIN w.rows
  BY PossibleFacts DEF EditBlocked
<1>2. v \in Possible /\ v.rows = WithRow(w.rows, x, names)
  BY EditedTyped DEF EditedRows
<1>3. v.rows \in RowMaps
  BY <1>2, PossibleFacts
<1>4. /\ \A q : q \in DOMAIN v.rows <=> q \in DOMAIN w.rows /\ (q # x \/ names # {})
      /\ \A q \in DOMAIN v.rows : v.rows[q] = IF q = x THEN names ELSE w.rows[q]
  BY <1>1, <1>2, RowWritten
<1>5. \A p, n : ModelKind(v, p, n) = ModelKind(w, p, n)
  BY KindSame
<1>6. w.rows[x] \subseteq Entries
  BY <1>1, PossibleFacts
<1>7. \A n \in names : n \in Names /\ n # Star /\ ModelKind(w, x, n) = "fit" /\ n \notin Held(w, others)
  BY <1>6, AdoptionAssumption DEF Holdable, Today, Static, Entries
<1>8. others \in RowMaps /\ DOMAIN others = DOMAIN w.rows \ {x} /\ \A q \in DOMAIN others : others[q] = w.rows[q]
  <2>1. others = [q \in DOMAIN w.rows \ {x} |-> w.rows[q]]
    BY DEF Restrict
  <2>2. DOMAIN w.rows \subseteq Provs /\ \A q \in DOMAIN w.rows : w.rows[q] \subseteq Entries
    BY PossibleFacts
  <2>3. others \in [DOMAIN w.rows \ {x} -> SUBSET Entries] /\ DOMAIN w.rows \ {x} \in SUBSET Provs
    BY <2>1, <2>2
  <2> QED BY <2>1, <2>3, RowMapIntro
<1> HIDE DEF v, x, names, others
<1>9. \A p, n : p # x => (<<p, n>> \in Fit(v, keep) <=> <<p, n>> \in Fit(w, keep))
  <2> TAKE p, n
  <2>1. <<p, n>> \in Fit(v, keep) <=>
           p \in DOMAIN v.rows /\ p \notin keep /\ n \in Names /\ n \in v.rows[p] /\ ModelKind(v, p, n) = "fit"
    BY InFit DEF Fit
  <2>2. <<p, n>> \in Fit(w, keep) <=>
           p \in DOMAIN w.rows /\ p \notin keep /\ n \in Names /\ n \in w.rows[p] /\ ModelKind(w, p, n) = "fit"
    BY InFit DEF Fit
  <2> QED BY <1>4, <1>5, <2>1, <2>2
<1>10. \A n : <<x, n>> \in Fit(v, keep) => n \in names
  BY <1>4, InFit DEF Fit
<1>11. \A p, n : p # x /\ <<p, n>> \in Fit(w, keep) => n \notin names
  <2> SUFFICES ASSUME NEW p, NEW n, p # x, <<p, n>> \in Fit(w, keep) PROVE n \notin names
    OBVIOUS
  <2>1. <<p, n>> \in FitIn(w, others, keep)
    BY <1>8, InFit DEF Fit
  <2>2. n \in Held(w, others)
    BY <1>8, <2>1, InHeld
  <2> QED BY <1>7, <2>2
<1>12. ASSUME NEW p, NEW n, p # x, <<p, n>> \in Fit(v, keep) \ Selected(v, keep)
       PROVE  <<p, n>> \in Fit(w, keep) \ Selected(w, keep)
  <2>1. <<p, n>> \in Fit(w, keep)
    BY <1>9, <1>12
  <2>2. PICK q : <<q, n>> \in Fit(v, keep) /\ ~(p <= q)
    BY <1>3, <1>12, InSelected DEF Fit, Selected
  <2>3. q # x
    BY <1>10, <1>11, <1>12, <2>1, <2>2
  <2>4. <<q, n>> \in Fit(w, keep)
    BY <1>9, <2>2, <2>3
  <2> QED BY <1>1, <2>1, <2>2, <2>4, InSelected DEF Fit, Selected
<1>13. ASSUME NEW n, <<x, n>> \in Fit(v, keep)
       PROVE  <<x, n>> \in Selected(v, keep)
  <2>1. \A q : <<q, n>> \in Fit(v, keep) => q = x
    BY <1>9, <1>10, <1>11, <1>13
  <2>2. x \in Nat
    BY <1>1, PossibleFacts, AdoptionAssumption
  <2> QED BY <1>3, <1>13, <2>1, <2>2, InSelected DEF Fit, Selected
<1>14. ASSUME NEW kind, NEW n, Stuck(v, keep, x, kind, n) PROVE FALSE
  <2>1. x \in DOMAIN v.rows /\ v.rows[x] = names /\ names # {}
    BY <1>4, <1>14 DEF Stuck
  <2>2. ~(n \in Static(v.rows, x) /\ kind = ModelKind(v, x, n) /\ kind # "fit")
    BY <1>5, <1>7, <2>1 DEF Static
  <2>3. Star \notin v.rows[x]
    BY <1>7, <2>1
  <2> QED BY <1>13, <1>14, <2>1, <2>2, <2>3 DEF Stuck
<1>15. ASSUME NEW p, NEW kind, NEW n, Stuck(v, keep, p, kind, n)
       PROVE  Stuck(w, keep, p, kind, n)
  <2>1. p # x /\ p \in DOMAIN v.rows /\ p \notin keep
    BY <1>14, <1>15 DEF Stuck
  <2>2. p \in DOMAIN w.rows /\ v.rows[p] = w.rows[p]
    BY <1>4, <2>1
  <2>3. CASE n \in Names /\ kind = "collision" /\ <<p, n>> \in Fit(v, keep) \ Selected(v, keep)
    BY <1>12, <2>1, <2>2, <2>3 DEF Stuck
  <2>4. CASE ~(n \in Names /\ kind = "collision" /\ <<p, n>> \in Fit(v, keep) \ Selected(v, keep))
    BY <1>5, <1>15, <2>1, <2>2, <2>4 DEF Stuck, Static
  <2> QED BY <2>3, <2>4
<1> QED BY <1>14, <1>15 DEF v, x

\* The rows an edit writes for the providers a key allows without listing them: each name under
\* one provider, and none a listed row holds.
LEMMA ExplicitFacts ==
    ASSUME NEW w \in Possible
    PROVE  /\ \A p, n : n \in Explicit(w, p) =>
                 /\ n \in Names /\ n # Star /\ p \in Unlisted(w) /\ p \notin DOMAIN w.rows
                 /\ ModelKind(w, p, n) = "fit" /\ n \notin Held(w, w.rows)
           /\ \A p, q, n : n \in Explicit(w, p) /\ n \in Explicit(w, q) => p = q
<1> DEFINE candidate == [q \in Unlisted(w) |-> {n \in Names : <<q, n>> \in w.disc}]
<1>1. \A p, n : n \in Explicit(w, p) <=>
                   /\ n \in Names /\ <<p, n>> \in SelectedIn(w, candidate, {}) /\ n \notin Held(w, w.rows)
  BY DEF Explicit
<1>2. candidate \in RowMaps
  <2>1. Unlisted(w) \in SUBSET Provs
    BY DEF Unlisted
  <2>2. candidate \in [Unlisted(w) -> SUBSET Entries]
    BY DEF Entries
  <2> HIDE DEF candidate
  <2> QED BY <2>1, <2>2, RowMapIntro
<1>3. DOMAIN candidate = Unlisted(w)
  OBVIOUS
<1> HIDE DEF candidate
<1>4. ASSUME NEW p, NEW n, n \in Explicit(w, p)
      PROVE  /\ <<p, n>> \in FitIn(w, candidate, {})
             /\ n \in Names /\ n # Star /\ p \in Unlisted(w) /\ p \notin DOMAIN w.rows
             /\ ModelKind(w, p, n) = "fit" /\ n \notin Held(w, w.rows)
  <2>1. <<p, n>> \in FitIn(w, candidate, {}) /\ n \in Names /\ n \notin Held(w, w.rows)
    BY <1>1, <1>2, <1>4, InSelected
  <2>2. p \in Unlisted(w) /\ ModelKind(w, p, n) = "fit"
    BY <1>3, <2>1, InFit
  <2> QED BY <2>1, <2>2, AdoptionAssumption DEF Unlisted
<1>5. ASSUME NEW p, NEW q, NEW n, n \in Explicit(w, p), n \in Explicit(w, q)
      PROVE  p = q
  <2>1. <<p, n>> \in FitIn(w, candidate, {})
    BY <1>4, <1>5
  <2>2. <<p, n>> \in SelectedIn(w, candidate, {}) /\ <<q, n>> \in SelectedIn(w, candidate, {})
    BY <1>1, <1>5
  <2> QED BY <1>2, <2>1, <2>2, OneSelected
<1> QED BY <1>4, <1>5

LEMMA ListingShrinks ==
    ASSUME NEW w \in Possible, NEW keep \in SUBSET Provs, NEW e, e.op = "replace-all-providers", ~EditBlocked(w, e)
    PROVE  \A p, kind, n : Stuck(Edited(w, e), keep, p, kind, n) => Stuck(w, keep, p, kind, n)
<1> DEFINE v == Edited(w, e)
           S == DOMAIN w.rows \cup {q \in Unlisted(w) : Explicit(w, q) # {}}
<1>1. w.rows \in RowMaps /\ DOMAIN w.rows \subseteq Provs /\ Provs \subseteq Nat
  BY PossibleFacts, AdoptionAssumption
<1>2. v \in Possible /\ v.rows = [p \in S |-> IF p \in DOMAIN w.rows THEN w.rows[p] ELSE Explicit(w, p)]
  BY EditedTyped DEF EditedRows
<1>3. v.rows \in RowMaps
  BY <1>2, PossibleFacts
<1>4. \A p : p \in DOMAIN v.rows <=> p \in DOMAIN w.rows \/ (p \in Unlisted(w) /\ Explicit(w, p) # {})
  BY <1>2
<1>5. \A p \in DOMAIN v.rows : v.rows[p] = IF p \in DOMAIN w.rows THEN w.rows[p] ELSE Explicit(w, p)
  BY <1>2
<1>6. \A p, n : ModelKind(v, p, n) = ModelKind(w, p, n)
  BY KindSame
<1> HIDE DEF v
<1>7. \A p, n : p \in DOMAIN w.rows => (<<p, n>> \in Fit(v, keep) <=> <<p, n>> \in Fit(w, keep))
  <2> TAKE p, n
  <2>1. <<p, n>> \in Fit(v, keep) <=>
           p \in DOMAIN v.rows /\ p \notin keep /\ n \in Names /\ n \in v.rows[p] /\ ModelKind(v, p, n) = "fit"
    BY InFit DEF Fit
  <2>2. <<p, n>> \in Fit(w, keep) <=>
           p \in DOMAIN w.rows /\ p \notin keep /\ n \in Names /\ n \in w.rows[p] /\ ModelKind(w, p, n) = "fit"
    BY InFit DEF Fit
  <2> QED BY <1>4, <1>5, <1>6, <2>1, <2>2
<1>8. \A p, n : p \notin DOMAIN w.rows /\ <<p, n>> \in Fit(v, keep) => n \in Explicit(w, p)
  BY <1>5, InFit DEF Fit
<1>9. ASSUME NEW p, NEW q, NEW n, p \in DOMAIN w.rows, <<p, n>> \in Fit(v, keep), n \in Explicit(w, q)
      PROVE  FALSE
  <2>1. <<p, n>> \in FitIn(w, w.rows, keep)
    BY <1>7, <1>9 DEF Fit
  <2>2. n \in Held(w, w.rows)
    BY <1>1, <2>1, InHeld
  <2> QED BY <1>9, <2>2, ExplicitFacts
<1>10. ASSUME NEW p, NEW n, p \in DOMAIN w.rows, <<p, n>> \in Fit(v, keep) \ Selected(v, keep)
       PROVE  <<p, n>> \in Fit(w, keep) \ Selected(w, keep)
  <2>1. PICK q : <<q, n>> \in Fit(v, keep) /\ ~(p <= q)
    BY <1>3, <1>10, InSelected DEF Fit, Selected
  <2>2. q \in DOMAIN w.rows
    BY <1>8, <1>9, <1>10, <2>1
  <2>3. <<q, n>> \in Fit(w, keep)
    BY <1>7, <2>1, <2>2
  <2> QED BY <1>1, <1>7, <1>10, <2>1, <2>3, InSelected DEF Fit, Selected
<1>11. ASSUME NEW p, NEW n, p \notin DOMAIN w.rows, <<p, n>> \in Fit(v, keep)
       PROVE  <<p, n>> \in Selected(v, keep)
  <2>1. \A q : <<q, n>> \in Fit(v, keep) => q = p
    BY <1>8, <1>9, <1>11, ExplicitFacts
  <2>2. p \in Nat
    BY <1>1, <1>8, <1>11, ExplicitFacts DEF Unlisted
  <2> QED BY <1>3, <1>11, <2>1, <2>2, InSelected DEF Fit, Selected
<1>12. ASSUME NEW p, NEW kind, NEW n, Stuck(v, keep, p, kind, n)
       PROVE  Stuck(w, keep, p, kind, n)
  <2>1. p \in DOMAIN v.rows /\ p \notin keep
    BY <1>12 DEF Stuck
  <2>2. CASE p \in DOMAIN w.rows
    <3>1. v.rows[p] = w.rows[p]
      BY <1>5, <2>1, <2>2
    <3>2. CASE n \in Names /\ kind = "collision" /\ <<p, n>> \in Fit(v, keep) \ Selected(v, keep)
      BY <1>10, <2>1, <2>2, <3>2 DEF Stuck
    <3>3. CASE ~(n \in Names /\ kind = "collision" /\ <<p, n>> \in Fit(v, keep) \ Selected(v, keep))
      BY <1>6, <1>12, <2>1, <2>2, <3>1, <3>3 DEF Stuck, Static
    <3> QED BY <3>2, <3>3
  <2>3. CASE p \notin DOMAIN w.rows
    <3>1. v.rows[p] = Explicit(w, p) /\ Explicit(w, p) # {}
      BY <1>4, <1>5, <2>1, <2>3
    <3>2. ~(n \in Static(v.rows, p) /\ kind = ModelKind(v, p, n) /\ kind # "fit")
      BY <1>6, <3>1, ExplicitFacts DEF Static
    <3>3. Star \notin v.rows[p]
      BY <3>1, ExplicitFacts
    <3> QED BY <1>11, <1>12, <2>3, <3>1, <3>2, <3>3 DEF Stuck
  <2> QED BY <2>2, <2>3
<1> QED BY <1>12 DEF v

\* An edit a row offers is one the server carries out, takes a decision off and adds none.
LEMMA EditingSettles ==
    ASSUME NEW w \in Possible, NEW keep \in SUBSET Provs, NEW row,
           NEW e \in EditChoices(Readiness(w, keep), row)
    PROVE  /\ ~EditBlocked(w, e)
           /\ Undecided(Edited(w, e), keep) \subseteq Undecided(w, keep)
           /\ Undecided(Edited(w, e), keep) # Undecided(w, keep)
<1> DEFINE r == Readiness(w, keep)
<1>1. PICK b \in RowBlockersOf(r, row) : e \in EditFor(b, r)
  <2> HIDE DEF r
  <2>1. \A req : req \in EditChoices(r, row) <=> \E b \in RowBlockersOf(r, row) : req \in EditFor(b, r)
    BY DEF EditChoices
  <2>2. e \in EditChoices(r, row)
    BY DEF r
  <2> QED BY <2>1, <2>2
<1>2. /\ b.kind = "all-providers" => e = [op |-> "replace-all-providers", provider |-> TheKey]
      /\ b.kind # "all-providers" =>
            /\ \A c \in r : c.kind # "all-providers"
            /\ \/ b.kind = "undiscovered" /\ e = [op |-> "remove-models", provider |-> b.provider]
               \/ b.kind = "dynamic" /\ e = [op |-> "replace-all-models", provider |-> b.provider]
  <2> HIDE DEF r
  <2>1. e \in EditFor(b, r)
    BY <1>1
  <2> QED BY <2>1 DEF EditFor
<1>3. b \in r /\ ~b.kept /\ b.provider = row
  BY <1>1 DEF RowBlockersOf, Decisions, OpenBlockers
<1>4. w.all \in BOOLEAN /\ DOMAIN w.rows \subseteq Provs /\ TheKey \notin Provs
  BY PossibleFacts, AdoptionAssumption
<1>5. CASE b.kind = "all-providers"
  <2>1. e.op = "replace-all-providers" /\ w.all
    BY <1>2, <1>3, <1>5, RowsOfReadiness
  <2>2. ~EditBlocked(w, e)
    BY <2>1 DEF EditBlocked
  <2>3. Edited(w, e) \in Possible /\ Edited(w, e).all = FALSE
    BY <2>2, EditedTyped
  <2>4. Undecided(Edited(w, e), keep) \subseteq Undecided(w, keep)
    BY <2>1, <2>2, <2>3, ListingShrinks, Shrinks
  <2>5. <<TheKey, "all-providers", None>> \in Undecided(w, keep)
    BY <2>1, UndecidedFacts
  <2>6. <<TheKey, "all-providers", None>> \notin Undecided(Edited(w, e), keep)
    <3>1. \A p, kind, n : Stuck(Edited(w, e), keep, p, kind, n) => p # TheKey
      BY <1>4, <2>3, PossibleFacts DEF Stuck
    <3> QED BY <2>3, <3>1, UndecidedFacts
  <2> QED BY <2>2, <2>4, <2>5, <2>6
<1>6. CASE b.kind # "all-providers"
  <2>1. ~w.all
    <3>1. Blocker(TheKey, "all-providers", None, TheKey, keep).kind = "all-providers"
      BY BlockerFacts
    <3> QED BY <1>2, <1>6, <3>1, RowsOfReadiness
  <2>2. /\ row \in DOMAIN w.rows /\ row # TheKey /\ Stuck(w, keep, row, b.kind, b.model)
        /\ <<row, b.kind, b.model>> \in Undecided(w, keep)
    BY <1>6, RowDecision
  <2>3. CASE b.kind = "undiscovered" /\ e = [op |-> "remove-models", provider |-> b.provider]
    <3>1. e.op = "remove-models" /\ e.provider = row
      BY <1>3, <2>3
    <3>2. b.model \in Static(w.rows, row) /\ ModelKind(w, row, b.model) = "undiscovered"
      BY <2>2, <2>3 DEF Stuck
    <3>3. Gone(w, row) # {}
      BY <3>2 DEF Gone
    <3>4. ~EditBlocked(w, e)
      BY <2>1, <2>2, <3>1, <3>3 DEF EditBlocked
    <3>5. Edited(w, e) \in Possible /\ Edited(w, e).all = FALSE
      BY <3>4, EditedTyped
    <3>6. Undecided(Edited(w, e), keep) \subseteq Undecided(w, keep)
      BY <3>1, <3>4, <3>5, RemovingShrinks, Shrinks
    <3>7. <<row, b.kind, b.model>> \notin Undecided(Edited(w, e), keep)
      BY <2>2, <2>3, <3>1, <3>4, <3>5, RemovingShrinks, UndecidedOf
    <3> QED BY <2>2, <3>4, <3>6, <3>7
  <2>4. CASE b.kind = "dynamic" /\ e = [op |-> "replace-all-models", provider |-> b.provider]
    <3>1. e.op = "replace-all-models" /\ e.provider = row
      BY <1>3, <2>4
    <3>2. Star \in w.rows[row]
      <4>1. ModelKind(w, row, b.model) # "dynamic"
        BY KindFacts
      <4> QED BY <2>2, <2>4, <4>1 DEF Stuck
    <3>3. ~EditBlocked(w, e)
      BY <2>1, <2>2, <3>1, <3>2 DEF EditBlocked
    <3>4. Edited(w, e) \in Possible /\ Edited(w, e).all = FALSE
      BY <3>3, EditedTyped
    <3>5. Undecided(Edited(w, e), keep) \subseteq Undecided(w, keep)
      BY <3>1, <3>3, <3>4, ReplacingShrinks, Shrinks
    <3>6. <<row, b.kind, b.model>> \notin Undecided(Edited(w, e), keep)
      <4>1. ~Stuck(Edited(w, e), keep, row, b.kind, b.model)
        BY <3>1, <3>3, ReplacingShrinks
      <4> QED BY <2>2, <3>4, <4>1, UndecidedOf
    <3> QED BY <2>2, <3>3, <3>5, <3>6
  <2> QED BY <1>2, <1>6, <2>3, <2>4
<1> QED BY <1>5, <1>6

\* A preview that cannot be applied says what to do.
LEMMA SaysWhatToDo ==
    ASSUME NEW w \in Possible, NEW keep \in SUBSET Provs, ~CanApply(w, keep), ~Empty(w)
    PROVE  Rows(Readiness(w, keep)) # {} \/ Prerequisite(Readiness(w, keep))
<1> DEFINE r == Readiness(w, keep)
<1>1. ASSUME NEW b \in r, ~b.kept
      PROVE  Rows(r) # {} \/ Prerequisite(r)
  <2> HIDE DEF r
  <2>1. CASE b.kind = "unsaved"
    BY <1>1, <2>1 DEF Prerequisite, ToAdd
  <2>2. CASE b.kind # "unsaved"
    <3>1. b \in OpenBlockers(r)
      BY <1>1, <2>2 DEF OpenBlockers
    <3>2. CASE b.kind = "all-providers"
      BY <3>1, <3>2 DEF Rows
    <3>3. CASE b.kind # "all-providers" /\ b.provider \in Rows(r)
      BY <3>3
    <3>4. CASE b.kind # "all-providers" /\ b.provider \notin Rows(r)
      <4>1. b \in Prerequisites(r)
        BY <3>1, <3>4 DEF Prerequisites, Decisions
      <4> QED BY <4>1 DEF Prerequisite
    <3> QED BY <3>2, <3>3, <3>4
  <2> QED BY <2>1, <2>2
<1>2. CASE \E b \in SelectionBlockers(w, keep) : ~b.kept
  <2>1. PICK b \in SelectionBlockers(w, keep) : ~b.kept
    BY <1>2
  <2>2. b \in r
    BY <2>1, ReadinessFacts
  <2> QED BY <1>1, <2>1, <2>2
<1>3. CASE ~\E b \in SelectionBlockers(w, keep) : ~b.kept
  <2> DEFINE own == KeyReasons(w, keep)
             told == IF (\E b \in SelectionBlockers(w, keep) : ~b.kept) \/ own # {"none-representable"}
                     THEN own \ {"none-representable"} ELSE own
  <2>1. own # {}
    BY <1>3 DEF CanApply
  <2>2. r = SelectionBlockers(w, keep) \cup {Blocker(TheKey, "other", x, TheKey, keep) : x \in told}
    BY DEF Readiness
  <2> HIDE DEF own, r
  <2>3. told # {}
    <3>1. CASE own = {"none-representable"}
      BY <1>3, <3>1
    <3>2. CASE own # {"none-representable"}
      BY <2>1, <3>2
    <3> QED BY <3>1, <3>2
  <2>4. PICK x : x \in told
    BY <2>3
  <2> HIDE DEF told
  <2>5. Blocker(TheKey, "other", x, TheKey, keep) \in r
    BY <2>2, <2>4
  <2>6. TheKey \notin keep
    BY AdoptionAssumption
  <2>7. ~Blocker(TheKey, "other", x, TheKey, keep).kept
    BY <2>6, BlockerFacts
  <2> QED BY <1>1, <2>5, <2>7 DEF r
<1> QED BY <1>2, <1>3

\* Every row of decisions has a choice.
LEMMA RowsHaveChoices ==
    ASSUME NEW w \in Possible, NEW keep \in SUBSET Provs, NEW p \in Rows(Readiness(w, keep))
    PROVE  KeepChoices(Readiness(w, keep), p) # {} \/ EditChoices(Readiness(w, keep), p) # {}
<1> DEFINE r == Readiness(w, keep)
<1>1. PICK b \in OpenBlockers(r) : b.provider = p /\ (b.kind \in KeepableKinds \/ b.kind = "all-providers")
  BY DEF Rows
<1>2. b \in r
  BY <1>1 DEF OpenBlockers
<1>3. b.kind \in KeepableKinds => p # TheKey
  <2>1. b.kind \in KeepableKinds => b.provider \in DOMAIN w.rows
    BY <1>2, ReadinessKinds DEF KeepableKinds
  <2> QED BY <1>1, <2>1, PossibleFacts, AdoptionAssumption
<1>4. p \in Rows(r)
  OBVIOUS
<1> HIDE DEF r
<1>5. b \in RowBlockersOf(r, p)
  BY <1>1, <1>3, <1>4 DEF RowBlockersOf, Decisions
<1>6. CASE b.kind \in KeepableKinds
  <2>1. p \in KeepChoices(r, p)
    BY <1>5, <1>6 DEF KeepChoices, When
  <2> QED BY <2>1 DEF r
<1>7. CASE b.kind = "all-providers"
  <2>1. EditFor(b, r) = {[op |-> "replace-all-providers", provider |-> TheKey]}
    BY <1>7 DEF EditFor
  <2>2. [op |-> "replace-all-providers", provider |-> TheKey] \in EditChoices(r, p)
    BY <1>5, <2>1 DEF EditChoices
  <2> QED BY <2>2 DEF r
<1> QED BY <1>1, <1>6, <1>7

\* The choices of the dialog lead to an adoption, for every key, catalogue and set of cards: a
\* preview that cannot be applied says what to do, and each choice it offers takes a decision off
\* without adding one, so no sequence of choices goes round.
THEOREM ChoicesLead == LedgerSpec => []ChoicesSettle
<1>1. ASSUME LedgerTypeOK PROVE RefusalIsExplained
  <2> SUFFICES ASSUME shown # None
               PROVE  /\ \/ CanApply(shown.world, shown.keep) \/ Empty(shown.world)
                         \/ Pending(Verdict) # {} \/ Prerequisite(Verdict)
                      /\ \A p \in Rows(Verdict) : KeepChoices(Verdict, p) # {} \/ EditChoices(Verdict, p) # {}
                      /\ Decided(Verdict, kept, edited) \cap Pending(Verdict) = {}
    BY DEF RefusalIsExplained
  <2>1. shown.world \in Possible /\ shown.keep \in SUBSET Provs
    BY <1>1 DEF LedgerTypeOK, TypeOK, Previews
  <2>2. Verdict = Readiness(shown.world, shown.keep)
    BY DEF Verdict
  <2>3. Decided(Verdict, kept, edited) \cap Pending(Verdict) = {}
    BY DEF Decided, Pending
  <2> QED BY <2>1, <2>2, <2>3, SaysWhatToDo, RowsHaveChoices DEF Pending
<1>2. ASSUME LedgerTypeOK PROVE ChoiceTakesOff
  <2> SUFFICES ASSUME shown # None, NEW p \in Rows(Verdict)
               PROVE  /\ \A q \in KeepChoices(Verdict, p) :
                            /\ Undecided(shown.world, shown.keep \cup {q}) \subseteq Undecided(shown.world, shown.keep)
                            /\ Undecided(shown.world, shown.keep \cup {q}) # Undecided(shown.world, shown.keep)
                      /\ \A e \in EditChoices(Verdict, p) :
                            /\ ~EditBlocked(shown.world, e)
                            /\ Undecided(Edited(shown.world, e), shown.keep) \subseteq Undecided(shown.world, shown.keep)
                            /\ Undecided(Edited(shown.world, e), shown.keep) # Undecided(shown.world, shown.keep)
    BY DEF ChoiceTakesOff
  <2>1. shown.world \in Possible /\ shown.keep \in SUBSET Provs
    BY <1>2 DEF LedgerTypeOK, TypeOK, Previews
  <2>2. Verdict = Readiness(shown.world, shown.keep)
    BY DEF Verdict
  <2> QED BY <2>1, <2>2, KeepingSettles, EditingSettles
<1>3. LedgerTypeOK => ChoicesSettle
  BY <1>1, <1>2 DEF ChoicesSettle
<1> QED BY <1>3, LedgerTypeCorrect, PTL
=============================================================================
