------------------------ MODULE CatalogSourcesProofs ------------------------
(***************************************************************************)
(* The catalogue keeps what its operator decided and tells no more than    *)
(* its sources said, for any accesses, references, snapshots and clients.  *)
(*                                                                         *)
(* A request carries the catalogue it started from and the one it will     *)
(* save.  The invariant is that both are Good, and that the second is what *)
(* one edit, or the refreshes done so far, make of the first (Derived);    *)
(* the save compares the first with the store, so the same holds of the    *)
(* step of the store.                                                      *)
(***************************************************************************)
EXTENDS CatalogSources, TLAPS

\* Nothing a snapshot lists or describes is missing: what is created later was not in it.
Complete(c) ==
    /\ c.listed # None => \A a \in Accesses : c.listed[a] # None => c.accs[a] # None
    /\ c.release # None => \A r \in References : c.release.refs[r] # None => c.refs[r] # None

Good(c) == c \in Catalogs /\ DataAre(c) /\ Valid(c) /\ Complete(c)

\* The variables of CatalogLayers in a catalogue.
CorrectedOf(c) == [t \in Targets |-> CorrectedIn(c, t)]
LinkOf(c) == [a \in Accesses |-> IF c.accs[a] = None THEN None ELSE c.accs[a].link]
ChosenOf(c) == {a \in HasAccess(c) : c.accs[a].manual}
ToldOf(c) == [s \in Sources |-> Told(c, s)]

Edited(c, d) ==
    \/ d = c
    \/ \E t \in Targets, v \in Maybe :
          /\ CorrectedOf(d) = [CorrectedOf(c) EXCEPT ![t] = v]
          /\ HasRef(d) = HasRef(c) /\ LinkOf(d) = LinkOf(c) /\ ChosenOf(d) = ChosenOf(c)
          /\ ToldOf(d) = ToldOf(c) /\ d.failed = c.failed
    \/ \E a \in Accesses, r \in HasRef(c) \cup {None} :
          /\ LinkOf(d) = [LinkOf(c) EXCEPT ![a] = r] /\ ChosenOf(d) = ChosenOf(c) \cup {a}
          /\ HasRef(d) = HasRef(c) /\ CorrectedOf(d) = CorrectedOf(c)
          /\ ToldOf(d) = ToldOf(c) /\ d.failed = c.failed
    \/ \E r \in References \ HasRef(c), t \in Targets, v \in Values :
          /\ HasRef(d) = HasRef(c) \cup {r}
          /\ CorrectedOf(d) = [CorrectedOf(c) EXCEPT ![t] = v]
          /\ LinkOf(d) = LinkOf(c) /\ ChosenOf(d) = ChosenOf(c)
          /\ ToldOf(d) = ToldOf(c) /\ d.failed = c.failed

Refreshed(c, d, good, bad) ==
    /\ d.failed = [s \in Sources |-> IF s \in good THEN FALSE
                                     ELSE IF s \in bad THEN TRUE ELSE c.failed[s]]
    /\ CorrectedOf(d) = CorrectedOf(c) /\ ChosenOf(d) = ChosenOf(c)
    /\ HasRef(c) \subseteq HasRef(d)
    /\ \A a \in Accesses : \/ LinkOf(d)[a] = LinkOf(c)[a]
                           \/ /\ "models.dev" \in good /\ LinkOf(c)[a] = None /\ a \notin ChosenOf(c)
                              /\ LinkOf(d)[a] \in HasRef(d)
    /\ \A s \in Sources \ good : Told(d, s) = Told(c, s)

Rest(todo) == {todo[i] : i \in DOMAIN todo}

Derived(c, d, todo) ==
    \/ todo = << >> /\ Edited(c, d)
    \/ \E good, bad \in SUBSET Sources :
          /\ good \cap bad = {} /\ (good \cup bad) \cap Rest(todo) = {}
          /\ Refreshed(c, d, good, bad)

JobOk(j) == j # None => /\ j \in Jobs /\ Good(j.on) /\ Good(j.cfg)
                        /\ Derived(j.on, j.cfg, j.todo)
CatalogInv == TypeOK /\ Good(cat) /\ \A c \in Clients : JobOk(job[c])

-----------------------------------------------------------------------------
(* What each change does to a catalogue, field by field.                   *)

LEMMA NewTyped == NewAccess \in AccessRecords /\ NewReference \in ReferenceRecords
  BY DEF NewAccess, NewReference, AccessRecords, ReferenceRecords, Maybe

LEMMA Taken ==
  ASSUME NEW c \in Catalogs
  PROVE  /\ \A a \in Accesses : c.accs[a] \in AccessRecords \cup {None}
         /\ \A r \in References : c.refs[r] \in ReferenceRecords \cup {None}
         /\ c.refs \in [References -> ReferenceRecords \cup {None}]
         /\ c.accs \in [Accesses -> AccessRecords \cup {None}]
         /\ c.failed \in [Sources -> BOOLEAN]
         /\ c.listed \in Gateways \cup {None} /\ c.release \in Releases \cup {None}
  BY DEF Catalogs

LEMMA RecordsAreNot == None \notin AccessRecords /\ None \notin ReferenceRecords
  BY CatalogAssumption

LEMMA SaidTyped ==
  ASSUME NEW x \in AccessRecords, NEW s \in Sources, NEW v \in Maybe
  PROVE  /\ Said(x, s, v) \in [Sources -> Maybe]
         /\ Said(x, s, v)[s] = v
         /\ \A z \in Sources \ {s} : Said(x, s, v)[z] = x.from[z]
  BY DEF Said, AccessRecords

LEMMA AttemptedTyped ==
  ASSUME NEW c \in Catalogs, NEW s \in Sources, NEW b \in BOOLEAN
  PROVE  /\ Attempted(c, s, b) \in [Sources -> BOOLEAN]
         /\ Attempted(c, s, b)[s] = b
         /\ \A z \in Sources \ {s} : Attempted(c, s, b)[z] = c.failed[z]
  BY Taken DEF Attempted

LEMMA SourcesAre == "bifrost" \in Sources /\ "models.dev" \in Sources
                    /\ \A s \in Sources : s = "bifrost" \/ s = "models.dev"
  BY DEF Sources

\* The catalogue after Bifrost answered.
LEMMA ListedAccessIs ==
  ASSUME NEW c \in Catalogs, NEW g \in Gateways, NEW a \in Accesses
  PROVE  LET y == ListedAccess(c, g, a)
         IN  /\ y = None <=> (c.accs[a] = None /\ g[a] = None)
             /\ y # None =>
                  /\ y \in AccessRecords
                  /\ y.from["bifrost"] = IF g[a] = None THEN None ELSE g[a].value
                  /\ y.from["models.dev"] = AccessOf(c, a).from["models.dev"]
                  /\ y.link = AccessOf(c, a).link /\ y.manual = AccessOf(c, a).manual
                  /\ y.omits = AccessOf(c, a).omits /\ y.over = AccessOf(c, a).over
<1> DEFINE y == ListedAccess(c, g, a)
<1> y = ListedAccess(c, g, a)
  OBVIOUS
<1> HIDE DEF y
<1> DEFINE x == AccessOf(c, a)
<1>1. x \in AccessRecords
  BY Taken, NewTyped DEF AccessOf
<1>2. g[a] # None => g[a].value \in Maybe
  BY CatalogAssumption DEF Rows
<1>3. CASE g[a] # None
  <2>1. y = [x EXCEPT !.on = TRUE, !.from = Said(x, "bifrost", g[a].value)]
    BY <1>3 DEF ListedAccess
  <2> HIDE DEF x
  <2>2. /\ y \in AccessRecords /\ y.from = Said(x, "bifrost", g[a].value)
        /\ y.link = x.link /\ y.manual = x.manual /\ y.omits = x.omits /\ y.over = x.over
    <3>1. Said(x, "bifrost", g[a].value) \in [Sources -> Maybe]
      BY <1>1, <1>2, <1>3, SaidTyped, SourcesAre
    <3> QED BY <1>1, <2>1, <3>1 DEF AccessRecords
  <2>3. y.from["bifrost"] = g[a].value /\ y.from["models.dev"] = x.from["models.dev"]
    <3>1. /\ Said(x, "bifrost", g[a].value)["bifrost"] = g[a].value
          /\ Said(x, "bifrost", g[a].value)["models.dev"] = x.from["models.dev"]
      BY <1>1, <1>2, <1>3, SaidTyped, SourcesAre
    <3> QED BY <2>2, <3>1
  <2> QED BY <1>3, <2>2, <2>3, RecordsAreNot DEF x
<1>4. CASE g[a] = None /\ c.accs[a] = None
  BY <1>4 DEF ListedAccess
<1>5. CASE g[a] = None /\ c.accs[a] # None
  <2>1. y = [x EXCEPT !.on = FALSE, !.from = Said(x, "bifrost", None)]
    BY <1>5 DEF ListedAccess, AccessOf
  <2>2. None \in Maybe
    BY DEF Maybe
  <2> HIDE DEF x
  <2>3. /\ y \in AccessRecords /\ y.from = Said(x, "bifrost", None)
        /\ y.link = x.link /\ y.manual = x.manual /\ y.omits = x.omits /\ y.over = x.over
    <3>1. Said(x, "bifrost", None) \in [Sources -> Maybe]
      BY <1>1, <2>2, SaidTyped, SourcesAre
    <3> QED BY <1>1, <2>1, <3>1 DEF AccessRecords
  <2>4. y.from["bifrost"] = None /\ y.from["models.dev"] = x.from["models.dev"]
    BY <1>1, <2>2, <2>3, SaidTyped, SourcesAre
  <2> QED BY <1>5, <2>3, <2>4, RecordsAreNot DEF x
<1> QED BY <1>3, <1>4, <1>5 DEF y

LEMMA GatewayIs ==
  ASSUME NEW c \in Catalogs, NEW g \in Gateways
  PROVE  LET d == LearnGateway(c, g)
         IN  /\ d \in Catalogs
             /\ d.refs = c.refs /\ d.listed = g /\ d.release = c.release
             /\ d.failed = Attempted(c, "bifrost", FALSE)
             /\ \A a \in Accesses : d.accs[a] = ListedAccess(c, g, a)
<1> DEFINE d == LearnGateway(c, g)
<1> d = LearnGateway(c, g)
  OBVIOUS
<1> HIDE DEF d
<1> DEFINE accs == [a \in Accesses |-> ListedAccess(c, g, a)]
           failed == Attempted(c, "bifrost", FALSE)
<1>1. d = [c EXCEPT !.accs = accs, !.failed = failed, !.listed = g]
  BY DEF LearnGateway
<1>2. accs \in [Accesses -> AccessRecords \cup {None}]
  BY ListedAccessIs
<1>3. failed \in [Sources -> BOOLEAN]
  BY AttemptedTyped, SourcesAre
<1>4. \A a \in Accesses : accs[a] = ListedAccess(c, g, a)
  OBVIOUS
<1> HIDE DEF accs, failed
<1>5. /\ d \in Catalogs /\ d.refs = c.refs /\ d.listed = g /\ d.release = c.release
      /\ d.failed = failed /\ d.accs = accs
  BY <1>1, <1>2, <1>3 DEF Catalogs
<1> QED BY <1>4, <1>5 DEF failed, d

\* The catalogue after the snapshot was read.
LEMMA ReleaseIs ==
  ASSUME NEW r \in Releases
  PROVE  /\ r.refs \in [References -> Maybe]
         /\ \A a \in Accesses : r.offers[a] # None => r.offers[a] \in Offers
         /\ \A a \in Accesses : r.offers[a] # None =>
                /\ r.offers[a].value \in Maybe /\ r.offers[a].omits \in BOOLEAN
                /\ Base(r, a) \in References \cup {None}
                /\ Base(r, a) # None => r.refs[Base(r, a)] # None
<1>1. r \in ReleaseType
  BY CatalogAssumption
<1>2. r.refs \in [References -> Maybe] /\ r.offers \in [Accesses -> Offers \cup {None}]
  BY <1>1 DEF ReleaseType, Describes
<1>3. \A a \in Accesses : r.offers[a] # None => r.offers[a] \in Offers
  BY <1>2
<1> QED BY <1>2, <1>3 DEF Offers, Base

LEMMA EnrichedIs ==
  ASSUME NEW c \in Catalogs, NEW r \in Releases, NEW a \in HasAccess(c), NEW y, y = Enriched(c, r, a)
  PROVE  /\ y \in AccessRecords
         /\ y.on = c.accs[a].on /\ y.manual = c.accs[a].manual /\ y.over = c.accs[a].over
         /\ y.from["bifrost"] = c.accs[a].from["bifrost"]
         /\ a \in Offered(c, r) =>
                /\ y.from["models.dev"] = r.offers[a].value /\ y.omits = r.offers[a].omits
                /\ y.link = Relinked(c.accs[a], Base(r, a))
                /\ y.conflict = Conflict(c.accs[a], Base(r, a))
         /\ a \notin Offered(c, r) =>
                /\ y.from["models.dev"] = None /\ ~y.omits /\ y.link = c.accs[a].link
<1> DEFINE x == c.accs[a]
           base == Base(r, a)
<1>0. a \in Accesses /\ x \in AccessRecords
  BY Taken DEF HasAccess
<1>1. CASE a \in Offered(c, r)
  <2> DEFINE f == Said(x, "models.dev", r.offers[a].value)
             l == Relinked(x, base)
             k == Conflict(x, base)
             o == r.offers[a].omits
  <2>1. y = [x EXCEPT !.from = f, !.omits = o, !.link = l, !.conflict = k]
    BY <1>1 DEF Enriched
  <2>2. r.offers[a] # None
    BY <1>1 DEF Offered
  <2>3. /\ f \in [Sources -> Maybe] /\ f["models.dev"] = r.offers[a].value
        /\ f["bifrost"] = x.from["bifrost"] /\ o \in BOOLEAN
    BY <1>0, <2>2, ReleaseIs, SaidTyped, SourcesAre DEF Sources
  <2>4. l \in References \cup {None} /\ k \in References \cup {None, Missing}
    BY <1>0, <2>2, ReleaseIs DEF Relinked, Conflict, Free, AccessRecords
  <2> HIDE DEF f, l, k, o, x
  <2>5. /\ y \in AccessRecords /\ y.on = x.on /\ y.manual = x.manual /\ y.over = x.over
        /\ y.from = f /\ y.omits = o /\ y.link = l /\ y.conflict = k
    BY <1>0, <2>1, <2>3, <2>4 DEF AccessRecords
  <2> QED BY <1>1, <2>3, <2>5 DEF f, l, k, o, x
<1>2. CASE a \notin Offered(c, r)
  <2> DEFINE f == Said(x, "models.dev", None)
  <2>1. y = [x EXCEPT !.from = f, !.omits = FALSE]
    BY <1>2 DEF Enriched
  <2>2. /\ f \in [Sources -> Maybe] /\ f["models.dev"] = None
        /\ f["bifrost"] = x.from["bifrost"]
    <3>1. None \in Maybe
      BY DEF Maybe
    <3> QED BY <1>0, <3>1, SaidTyped, SourcesAre DEF Sources
  <2> HIDE DEF f, x
  <2>3. /\ y \in AccessRecords /\ y.on = x.on /\ y.manual = x.manual /\ y.over = x.over
        /\ y.from = f /\ y.omits = FALSE /\ y.link = x.link
    BY <1>0, <2>1, <2>2 DEF AccessRecords
  <2> QED BY <1>2, <2>2, <2>3 DEF x
<1> QED BY <1>1, <1>2

LEMMA MatchedIs ==
  ASSUME NEW x \in AccessRecords, NEW r \in Releases, NEW a \in Accesses, NEW y, y = Matched(x, r, a)
  PROVE  /\ y \in AccessRecords
         /\ y.on = x.on /\ y.manual = x.manual /\ y.over = x.over /\ y.from = x.from
         /\ y.omits = x.omits /\ y.conflict = x.conflict
         /\ \/ y.link = x.link
            \/ Free(x) /\ y.link \in References /\ r.refs[y.link] # None
  BY DEF Matched, AccessRecords

\* What a snapshot makes of an access there is.
LEMMA LearnedIs ==
  ASSUME NEW c \in Catalogs, NEW r \in Releases, NEW a \in HasAccess(c)
  PROVE  LET y == Matched(Enriched(c, r, a), r, a)
         IN  /\ y \in AccessRecords
             /\ y.on = c.accs[a].on /\ y.manual = c.accs[a].manual /\ y.over = c.accs[a].over
             /\ y.from["bifrost"] = c.accs[a].from["bifrost"]
             /\ \/ y.from["models.dev"] = None /\ ~y.omits
                \/ /\ r.offers[a] # None /\ y.from["models.dev"] = r.offers[a].value
                   /\ y.omits = r.offers[a].omits
             /\ \/ y.link = c.accs[a].link
                \/ /\ c.accs[a].link = None /\ ~c.accs[a].manual
                   /\ y.link \in References /\ r.refs[y.link] # None
             /\ a \in Offered(c, r) /\ Base(r, a) # None
                    => y.link = Base(r, a) \/ y.conflict = Base(r, a)
<1> DEFINE y == Matched(Enriched(c, r, a), r, a)
<1> y = Matched(Enriched(c, r, a), r, a)
  OBVIOUS
<1> HIDE DEF y
<1> DEFINE x == c.accs[a]
           e == Enriched(c, r, a)
<1>1. a \in Accesses /\ x \in AccessRecords
  BY Taken DEF HasAccess
<1>2. /\ e \in AccessRecords
      /\ e.on = x.on /\ e.manual = x.manual /\ e.over = x.over
      /\ e.from["bifrost"] = x.from["bifrost"]
      /\ a \in Offered(c, r) =>
            /\ e.from["models.dev"] = r.offers[a].value /\ e.omits = r.offers[a].omits
            /\ e.link = Relinked(x, Base(r, a)) /\ e.conflict = Conflict(x, Base(r, a))
      /\ a \notin Offered(c, r) =>
            e.from["models.dev"] = None /\ ~e.omits /\ e.link = x.link
  BY EnrichedIs
<1> HIDE DEF e, x
<1>3. /\ y \in AccessRecords
      /\ y.on = e.on /\ y.manual = e.manual /\ y.over = e.over /\ y.from = e.from
      /\ y.omits = e.omits /\ y.conflict = e.conflict
      /\ \/ y.link = e.link
         \/ Free(e) /\ y.link \in References /\ r.refs[y.link] # None
  BY <1>1, <1>2, MatchedIs DEF e
<1>4. a \in Offered(c, r) => /\ r.offers[a] # None /\ Base(r, a) \in References \cup {None}
                             /\ Base(r, a) # None => r.refs[Base(r, a)] # None
  BY <1>1, ReleaseIs DEF Offered
<1>5. \/ y.from["models.dev"] = None /\ ~y.omits
      \/ /\ r.offers[a] # None /\ y.from["models.dev"] = r.offers[a].value
         /\ y.omits = r.offers[a].omits
  BY <1>2, <1>3, <1>4
<1>6. \/ y.link = x.link
      \/ /\ x.link = None /\ ~x.manual
         /\ y.link \in References /\ r.refs[y.link] # None
  BY <1>2, <1>3, <1>4 DEF Relinked, Free
<1>7. a \in Offered(c, r) /\ Base(r, a) # None
        => y.link = Base(r, a) \/ y.conflict = Base(r, a)
  BY <1>2, <1>3 DEF Relinked, Conflict, Free
<1> QED BY <1>2, <1>3, <1>5, <1>6, <1>7 DEF x, y

LEMMA DescribedIs ==
  ASSUME NEW c \in Catalogs, NEW r \in Releases, NEW q \in References
  PROVE  LET y == Described(c, r, q)
         IN  /\ y = None <=> (c.refs[q] = None /\ r.refs[q] = None)
             /\ y # None => /\ y \in ReferenceRecords
                            /\ y.md = r.refs[q] /\ y.over = RefOf(c, q).over
<1> DEFINE y == Described(c, r, q)
<1> y = Described(c, r, q)
  OBVIOUS
<1> HIDE DEF y
<1>1. RefOf(c, q) \in ReferenceRecords /\ r.refs[q] \in Maybe /\ None \in Maybe
  BY Taken, NewTyped, ReleaseIs DEF RefOf, Maybe
<1>2. c.refs[q] # None => RefOf(c, q) = c.refs[q]
  BY DEF RefOf
<1>3. CASE r.refs[q] # None
  <2>1. y = [RefOf(c, q) EXCEPT !.md = r.refs[q]]
    BY <1>3 DEF Described
  <2> QED BY <1>1, <1>3, <2>1, RecordsAreNot DEF ReferenceRecords
<1>4. CASE r.refs[q] = None /\ c.refs[q] # None
  <2>1. y = [RefOf(c, q) EXCEPT !.md = None]
    BY <1>2, <1>4 DEF Described
  <2> QED BY <1>1, <1>4, <2>1, RecordsAreNot DEF ReferenceRecords
<1>5. CASE r.refs[q] = None /\ c.refs[q] = None
  BY <1>5 DEF Described
<1> QED BY <1>3, <1>4, <1>5 DEF y

LEMMA ModelsDevIs ==
  ASSUME NEW c \in Catalogs, NEW r \in Releases
  PROVE  LET d == LearnModelsDev(c, r)
         IN  /\ d \in Catalogs
             /\ d.listed = c.listed /\ d.release = r
             /\ d.failed = Attempted(c, "models.dev", FALSE)
             /\ \A q \in References : d.refs[q] = Described(c, r, q)
             /\ \A a \in Accesses : d.accs[a] = IF c.accs[a] = None THEN None
                                                 ELSE Matched(Enriched(c, r, a), r, a)
<1> DEFINE d == LearnModelsDev(c, r)
<1> d = LearnModelsDev(c, r)
  OBVIOUS
<1> HIDE DEF d
<1> DEFINE accs == [a \in Accesses |-> IF c.accs[a] = None THEN None
                                        ELSE Matched(Enriched(c, r, a), r, a)]
           refs == [q \in References |-> Described(c, r, q)]
           failed == Attempted(c, "models.dev", FALSE)
<1>1. d = [c EXCEPT !.refs = refs, !.accs = accs, !.failed = failed, !.release = r]
  BY DEF LearnModelsDev
<1>2. accs \in [Accesses -> AccessRecords \cup {None}]
  BY LearnedIs DEF HasAccess
<1>3. refs \in [References -> ReferenceRecords \cup {None}]
  BY DescribedIs
<1>4. failed \in [Sources -> BOOLEAN]
  BY AttemptedTyped, SourcesAre
<1>5. /\ \A a \in Accesses : accs[a] = IF c.accs[a] = None THEN None
                                        ELSE Matched(Enriched(c, r, a), r, a)
      /\ \A q \in References : refs[q] = Described(c, r, q)
  OBVIOUS
<1> HIDE DEF accs, refs, failed
<1>6. /\ d \in Catalogs /\ d.refs = refs /\ d.listed = c.listed /\ d.release = r
      /\ d.failed = failed /\ d.accs = accs
  BY <1>1, <1>2, <1>3, <1>4 DEF Catalogs
<1> QED BY <1>5, <1>6 DEF failed, d

LEMMA FailedIs ==
  ASSUME NEW c \in Catalogs, NEW s \in Sources,
         NEW d, d = [c EXCEPT !.failed = Attempted(c, s, TRUE)]
  PROVE  /\ d \in Catalogs
         /\ d.refs = c.refs /\ d.accs = c.accs /\ d.listed = c.listed /\ d.release = c.release
         /\ d.failed = Attempted(c, s, TRUE)
<1> DEFINE failed == Attempted(c, s, TRUE)
<1>1. failed \in [Sources -> BOOLEAN]
  BY AttemptedTyped
<1> HIDE DEF failed
<1>2. d = [c EXCEPT !.failed = failed]
  BY DEF failed
<1>3. /\ d \in Catalogs /\ d.refs = c.refs /\ d.accs = c.accs /\ d.listed = c.listed
      /\ d.release = c.release /\ d.failed = failed
  BY <1>1, <1>2 DEF Catalogs
<1> QED BY <1>3 DEF failed

-----------------------------------------------------------------------------
(* A refresh keeps a catalogue Good and is a refresh of CatalogLayers.     *)

LEMMA GatewayGood ==
  ASSUME NEW c \in Catalogs, Good(c), NEW g \in Gateways, NEW d, d = LearnGateway(c, g)
  PROVE  Good(d) /\ Refreshed(c, d, {"bifrost"}, {})
<1>1. c \in Catalogs /\ DataAre(c) /\ Valid(c) /\ Complete(c) /\ g # None
  BY CatalogAssumption DEF Good
<1>2. /\ d \in Catalogs
      /\ d.refs = c.refs /\ d.listed = g /\ d.release = c.release
      /\ d.failed = Attempted(c, "bifrost", FALSE)
      /\ \A a \in Accesses : d.accs[a] = ListedAccess(c, g, a)
  BY <1>1, GatewayIs
<1>3. \A a \in Accesses :
         /\ d.accs[a] = None <=> (c.accs[a] = None /\ g[a] = None)
         /\ d.accs[a] # None =>
              /\ d.accs[a] \in AccessRecords
              /\ d.accs[a].from["bifrost"] = IF g[a] = None THEN None ELSE g[a].value
              /\ d.accs[a].from["models.dev"] = AccessOf(c, a).from["models.dev"]
              /\ d.accs[a].link = AccessOf(c, a).link
              /\ d.accs[a].manual = AccessOf(c, a).manual
              /\ d.accs[a].omits = AccessOf(c, a).omits
              /\ d.accs[a].over = AccessOf(c, a).over
  <2> TAKE a \in Accesses
  <2>1. d.accs[a] = ListedAccess(c, g, a)
    BY <1>2
  <2> HIDE DEF ListedAccess, AccessOf
  <2> QED BY <2>1, ListedAccessIs
<1>4. HasRef(d) = HasRef(c)
  BY <1>2 DEF HasRef
<1>5. \A a \in Accesses : c.accs[a] = None =>
         /\ ~AccessOf(c, a).manual /\ ~AccessOf(c, a).omits
         /\ AccessOf(c, a).link = None /\ AccessOf(c, a).over = None
         /\ AccessOf(c, a).from["models.dev"] = None
  BY SourcesAre DEF AccessOf, NewAccess
<1>6. \A a \in Accesses : c.accs[a] # None => AccessOf(c, a) = c.accs[a]
  BY DEF AccessOf
<1>7. DataAre(d)
  <2>1. ASSUME NEW a \in HasAccess(d)
        PROVE  AccessIsOf(d, a)
    <3>1. a \in Accesses /\ d.accs[a] # None
      BY DEF HasAccess
    <3>2. d.accs[a].from["bifrost"] = ListedValue(d, a)
      BY <1>1, <1>2, <1>3, <3>1 DEF ListedValue
    <3>3. OfferOf(d, a) = OfferOf(c, a)
      BY <1>2 DEF OfferOf
    <3>4. \/ AccessOf(c, a).from["models.dev"] = None /\ ~AccessOf(c, a).omits
          \/ /\ OfferOf(c, a) # None /\ AccessOf(c, a).from["models.dev"] = OfferOf(c, a).value
             /\ AccessOf(c, a).omits = OfferOf(c, a).omits
      BY <1>1, <1>5, <1>6, <3>1 DEF DataAre, AccessIsOf, HasAccess
    <3> QED BY <1>3, <3>1, <3>2, <3>3, <3>4 DEF AccessIsOf
  <2>2. \A q \in HasRef(d) : d.refs[q].md = ReferenceValue(d, q)
    BY <1>1, <1>2, <1>4 DEF DataAre, ReferenceValue
  <2> QED BY <2>1, <2>2 DEF DataAre
<1>8. Valid(d)
  BY <1>1, <1>3, <1>4, <1>5, <1>6, ZenonT(40) DEF Valid, HasAccess
<1>9. Complete(d)
  BY <1>1, <1>2, <1>3 DEF Complete
<1>10. Refreshed(c, d, {"bifrost"}, {})
  <2>1. d.failed = [s \in Sources |-> IF s \in {"bifrost"} THEN FALSE
                                     ELSE IF s \in {} THEN TRUE ELSE c.failed[s]]
    BY <1>1, <1>2, Taken DEF Attempted
  <2>2. CorrectedOf(d) = CorrectedOf(c)
    <3>1. ASSUME NEW t \in Targets
          PROVE  CorrectedIn(d, t) = CorrectedIn(c, t)
      BY <1>2, <1>3, <1>5, <1>6 DEF CorrectedIn, Targets
    <3> QED BY <3>1 DEF CorrectedOf
  <2>3. ChosenOf(d) = ChosenOf(c)
    BY <1>3, <1>5, <1>6 DEF ChosenOf, HasAccess
  <2>4. \A a \in Accesses : LinkOf(d)[a] = LinkOf(c)[a]
    BY <1>3, <1>5, <1>6 DEF LinkOf
  <2>5. Told(d, "models.dev") = Told(c, "models.dev")
    <3>1. ASSUME NEW a \in Accesses
          PROVE  (IF d.accs[a] = None THEN None ELSE d.accs[a].from["models.dev"])
                 = (IF c.accs[a] = None THEN None ELSE c.accs[a].from["models.dev"])
      BY <1>3, <1>5, <1>6
    <3> QED BY <1>2, <3>1 DEF Told
  <2>6. \A s \in Sources \ {"bifrost"} : Told(d, s) = Told(c, s)
    BY <2>5, SourcesAre
  <2> QED BY <1>4, <2>1, <2>2, <2>3, <2>4, <2>6 DEF Refreshed
<1> QED BY <1>2, <1>7, <1>8, <1>9, <1>10 DEF Good

LEMMA ModelsDevGood ==
  ASSUME NEW c \in Catalogs, Good(c), NEW r \in Releases, NEW d, d = LearnModelsDev(c, r)
  PROVE  Good(d) /\ Refreshed(c, d, {"models.dev"}, {})
<1>1. c \in Catalogs /\ DataAre(c) /\ Valid(c) /\ Complete(c) /\ r # None
  BY CatalogAssumption DEF Good
<1>2. /\ d \in Catalogs
      /\ d.listed = c.listed /\ d.release = r
      /\ d.failed = Attempted(c, "models.dev", FALSE)
  BY <1>1, ModelsDevIs
<1>3. \A a \in Accesses :
         /\ d.accs[a] = None <=> c.accs[a] = None
         /\ d.accs[a] # None =>
              /\ d.accs[a].manual = c.accs[a].manual /\ d.accs[a].over = c.accs[a].over
              /\ d.accs[a].from["bifrost"] = c.accs[a].from["bifrost"]
              /\ \/ d.accs[a].from["models.dev"] = None /\ ~d.accs[a].omits
                 \/ /\ r.offers[a] # None /\ d.accs[a].from["models.dev"] = r.offers[a].value
                    /\ d.accs[a].omits = r.offers[a].omits
              /\ \/ d.accs[a].link = c.accs[a].link
                 \/ /\ c.accs[a].link = None /\ ~c.accs[a].manual
                    /\ d.accs[a].link \in References /\ r.refs[d.accs[a].link] # None
  <2> SUFFICES ASSUME NEW a \in Accesses, c.accs[a] # None
               PROVE  /\ d.accs[a] # None
                      /\ d.accs[a].manual = c.accs[a].manual /\ d.accs[a].over = c.accs[a].over
                      /\ d.accs[a].from["bifrost"] = c.accs[a].from["bifrost"]
                      /\ \/ d.accs[a].from["models.dev"] = None /\ ~d.accs[a].omits
                         \/ /\ r.offers[a] # None /\ d.accs[a].from["models.dev"] = r.offers[a].value
                            /\ d.accs[a].omits = r.offers[a].omits
                      /\ \/ d.accs[a].link = c.accs[a].link
                         \/ /\ c.accs[a].link = None /\ ~c.accs[a].manual
                            /\ d.accs[a].link \in References /\ r.refs[d.accs[a].link] # None
    <3> TAKE a \in Accesses
    <3>1. d.accs[a] = None <=> c.accs[a] = None
      <4>1. c.accs[a] = None => d.accs[a] = None
        BY ModelsDevIs, ZenonT(40)
      <4>2. c.accs[a] # None => d.accs[a] # None
        OBVIOUS
      <4> QED BY <4>1, <4>2
    <3> QED BY <3>1
  <2>1. a \in HasAccess(c) /\ d.accs[a] = Matched(Enriched(c, r, a), r, a)
    BY <1>1, ModelsDevIs DEF HasAccess
  <2> QED BY <1>1, <2>1, LearnedIs, RecordsAreNot
<1>4. \A q \in References :
         /\ d.refs[q] = None <=> (c.refs[q] = None /\ r.refs[q] = None)
         /\ d.refs[q] # None => d.refs[q].md = r.refs[q] /\ d.refs[q].over = RefOf(c, q).over
  <2> TAKE q \in References
  <2>1. d.refs[q] = Described(c, r, q)
    BY ModelsDevIs
  <2> QED BY <2>1, DescribedIs
<1>5. HasRef(c) \subseteq HasRef(d)
  BY <1>4 DEF HasRef
<1>6. DataAre(d)
  <2>1. ASSUME NEW a \in HasAccess(d)
        PROVE  AccessIsOf(d, a)
    <3>1. a \in Accesses /\ d.accs[a] # None /\ a \in HasAccess(c)
      BY <1>3 DEF HasAccess
    <3>2. d.accs[a].from["bifrost"] = ListedValue(d, a)
      BY <1>1, <1>2, <1>3, <3>1 DEF ListedValue, DataAre, AccessIsOf
    <3>3. OfferOf(d, a) = r.offers[a]
      BY <1>1, <1>2 DEF OfferOf
    <3> QED BY <1>3, <3>1, <3>2, <3>3 DEF AccessIsOf
  <2>2. \A q \in HasRef(d) : d.refs[q].md = ReferenceValue(d, q)
    BY <1>1, <1>2, <1>4 DEF HasRef, ReferenceValue
  <2> QED BY <2>1, <2>2 DEF DataAre
<1>7. Valid(d)
  <2> SUFFICES ASSUME NEW a \in HasAccess(d)
               PROVE  d.accs[a].link \in HasRef(d) \cup {None}
    BY DEF Valid
  <2>1. a \in Accesses /\ d.accs[a] # None /\ a \in HasAccess(c)
    BY <1>3 DEF HasAccess
  <2>2. CASE d.accs[a].link = c.accs[a].link
    BY <1>1, <1>5, <2>1, <2>2 DEF Valid
  <2>3. CASE d.accs[a].link \in References /\ r.refs[d.accs[a].link] # None
    BY <1>4, <2>3 DEF HasRef
  <2> QED BY <1>3, <2>1, <2>2, <2>3
<1>8. Complete(d)
  BY <1>1, <1>2, <1>3, <1>4 DEF Complete
<1>9. Refreshed(c, d, {"models.dev"}, {})
  <2>1. d.failed = [s \in Sources |-> IF s \in {"models.dev"} THEN FALSE
                                     ELSE IF s \in {} THEN TRUE ELSE c.failed[s]]
    BY <1>1, <1>2, Taken DEF Attempted
  <2>2. CorrectedOf(d) = CorrectedOf(c)
    <3>1. ASSUME NEW t \in Targets
          PROVE  CorrectedIn(d, t) = CorrectedIn(c, t)
      <4>1. \A q \in References : (IF d.refs[q] = None THEN None ELSE d.refs[q].over)
                                  = (IF c.refs[q] = None THEN None ELSE c.refs[q].over)
        BY <1>4 DEF RefOf, NewReference
      <4> QED BY <1>3, <4>1 DEF CorrectedIn, Targets
    <3> QED BY <3>1 DEF CorrectedOf
  <2>3. ChosenOf(d) = ChosenOf(c)
    BY <1>3 DEF ChosenOf, HasAccess
  <2>4. \A a \in Accesses :
           \/ LinkOf(d)[a] = LinkOf(c)[a]
           \/ LinkOf(c)[a] = None /\ a \notin ChosenOf(c) /\ LinkOf(d)[a] \in HasRef(d)
    <3> SUFFICES ASSUME NEW a \in Accesses, LinkOf(d)[a] # LinkOf(c)[a]
                 PROVE  LinkOf(c)[a] = None /\ a \notin ChosenOf(c) /\ LinkOf(d)[a] \in HasRef(d)
      OBVIOUS
    <3>1. /\ d.accs[a] # None /\ c.accs[a] # None
          /\ LinkOf(d)[a] = d.accs[a].link /\ LinkOf(c)[a] = c.accs[a].link
      BY <1>3 DEF LinkOf
    <3>2. /\ c.accs[a].link = None /\ ~c.accs[a].manual
          /\ d.accs[a].link \in References /\ r.refs[d.accs[a].link] # None
      BY <1>3, <3>1
    <3> QED BY <1>4, <3>1, <3>2 DEF HasRef, ChosenOf
  <2>5. Told(d, "bifrost") = Told(c, "bifrost")
    <3>1. ASSUME NEW a \in Accesses
          PROVE  (IF d.accs[a] = None THEN None ELSE d.accs[a].from["bifrost"])
                 = (IF c.accs[a] = None THEN None ELSE c.accs[a].from["bifrost"])
      BY <1>3
    <3> QED BY <3>1 DEF Told
  <2>6. \A s \in Sources \ {"models.dev"} : Told(d, s) = Told(c, s)
    BY <2>5, SourcesAre
  <2> QED BY <1>5, <2>1, <2>2, <2>3, <2>4, <2>6 DEF Refreshed
<1> QED BY <1>2, <1>6, <1>7, <1>8, <1>9 DEF Good

LEMMA FailedGood ==
  ASSUME NEW c \in Catalogs, Good(c), NEW s \in Sources,
         NEW d, d = [c EXCEPT !.failed = Attempted(c, s, TRUE)]
  PROVE  Good(d) /\ Refreshed(c, d, {}, {s})
<1>1. /\ d \in Catalogs
      /\ d.refs = c.refs /\ d.accs = c.accs /\ d.listed = c.listed /\ d.release = c.release
      /\ d.failed = Attempted(c, s, TRUE)
  BY FailedIs
<1>2. HasRef(d) = HasRef(c) /\ HasAccess(d) = HasAccess(c)
  BY <1>1 DEF HasRef, HasAccess
<1>3. DataAre(d)
  <2>1. \A a \in Accesses : ListedValue(d, a) = ListedValue(c, a) /\ OfferOf(d, a) = OfferOf(c, a)
    BY <1>1 DEF ListedValue, OfferOf
  <2>2. \A q \in References : ReferenceValue(d, q) = ReferenceValue(c, q)
    BY <1>1 DEF ReferenceValue
  <2>3. HasAccess(c) \subseteq Accesses /\ HasRef(c) \subseteq References /\ DataAre(c)
    BY DEF HasAccess, HasRef, Good
  <2>4. ASSUME NEW a \in HasAccess(d)
        PROVE  AccessIsOf(d, a)
    <3>1. a \in Accesses /\ a \in HasAccess(c) /\ d.accs[a] = c.accs[a]
      BY <1>1, <1>2, <2>3
    <3>2. AccessIsOf(c, a)
      BY <2>3, <3>1 DEF DataAre
    <3> HIDE DEF ListedValue, OfferOf
    <3> QED BY <2>1, <3>1, <3>2 DEF AccessIsOf
  <2>5. ASSUME NEW q \in HasRef(d)
        PROVE  d.refs[q].md = ReferenceValue(d, q)
    BY <1>1, <1>2, <2>2, <2>3 DEF DataAre
  <2> QED BY <2>4, <2>5 DEF DataAre
<1>4. Valid(d) /\ Complete(d)
  BY <1>1, <1>2 DEF Good, Valid, Complete
<1>5. d.failed = [z \in Sources |-> IF z \in {} THEN FALSE
                                   ELSE IF z \in {s} THEN TRUE ELSE c.failed[z]]
  BY <1>1, Taken DEF Attempted
<1>6. /\ CorrectedOf(d) = CorrectedOf(c) /\ ChosenOf(d) = ChosenOf(c) /\ LinkOf(d) = LinkOf(c)
      /\ \A z \in Sources : Told(d, z) = Told(c, z)
  BY <1>1, <1>2 DEF CorrectedOf, CorrectedIn, ChosenOf, LinkOf, Told
<1>7. Refreshed(c, d, {}, {s})
  BY <1>2, <1>5, <1>6 DEF Refreshed
<1> QED BY <1>1, <1>3, <1>4, <1>7 DEF Good

LEMMA NoRefresh ==
  ASSUME NEW c \in Catalogs
  PROVE  Refreshed(c, c, {}, {})
  BY Taken DEF Refreshed

\* Refreshes of different sources, one after the other, are one.
LEMMA RefreshesChain ==
  ASSUME NEW c, NEW d, NEW e,
         NEW g1 \in SUBSET Sources, NEW b1 \in SUBSET Sources,
         NEW g2 \in SUBSET Sources, NEW b2 \in SUBSET Sources,
         (g1 \cup b1) \cap (g2 \cup b2) = {}, g1 \cap b1 = {}, g2 \cap b2 = {},
         Refreshed(c, d, g1, b1), Refreshed(d, e, g2, b2)
  PROVE  Refreshed(c, e, g1 \cup g2, b1 \cup b2)
<1>1. e.failed = [s \in Sources |-> IF s \in g1 \cup g2 THEN FALSE
                                   ELSE IF s \in b1 \cup b2 THEN TRUE ELSE c.failed[s]]
  <2>1. d.failed = [s \in Sources |-> IF s \in g1 THEN FALSE
                                     ELSE IF s \in b1 THEN TRUE ELSE c.failed[s]]
    BY DEF Refreshed
  <2>2. e.failed = [s \in Sources |-> IF s \in g2 THEN FALSE
                                     ELSE IF s \in b2 THEN TRUE ELSE d.failed[s]]
    BY DEF Refreshed
  <2>3. ASSUME NEW s \in Sources
        PROVE  (IF s \in g2 THEN FALSE ELSE IF s \in b2 THEN TRUE ELSE d.failed[s])
               = (IF s \in g1 \cup g2 THEN FALSE
                  ELSE IF s \in b1 \cup b2 THEN TRUE ELSE c.failed[s])
    BY <2>1
  <2> QED BY <2>2, <2>3
<1>2. /\ CorrectedOf(e) = CorrectedOf(c) /\ ChosenOf(e) = ChosenOf(c)
      /\ HasRef(c) \subseteq HasRef(e) /\ HasRef(d) \subseteq HasRef(e)
  BY DEF Refreshed
<1>3. ASSUME NEW a \in Accesses
      PROVE  \/ LinkOf(e)[a] = LinkOf(c)[a]
             \/ /\ "models.dev" \in g1 \cup g2 /\ LinkOf(c)[a] = None /\ a \notin ChosenOf(c)
                /\ LinkOf(e)[a] \in HasRef(e)
  <2>1. \/ LinkOf(d)[a] = LinkOf(c)[a]
        \/ /\ "models.dev" \in g1 /\ LinkOf(c)[a] = None /\ a \notin ChosenOf(c)
           /\ LinkOf(d)[a] \in HasRef(d)
    BY DEF Refreshed
  <2>2. \/ LinkOf(e)[a] = LinkOf(d)[a]
        \/ /\ "models.dev" \in g2 /\ LinkOf(d)[a] = None /\ a \notin ChosenOf(d)
           /\ LinkOf(e)[a] \in HasRef(e)
    BY DEF Refreshed
  <2>3. ChosenOf(d) = ChosenOf(c)
    BY DEF Refreshed
  <2> QED BY <1>2, <2>1, <2>2, <2>3
<1>4. ASSUME NEW s \in Sources \ (g1 \cup g2)
      PROVE  Told(e, s) = Told(c, s)
  <2>1. Told(e, s) = Told(d, s) /\ Told(d, s) = Told(c, s)
    BY DEF Refreshed
  <2> QED BY <2>1
<1> QED BY <1>1, <1>2, <1>3, <1>4 DEF Refreshed

LEMMA TodosAre ==
  ASSUME NEW t \in Todos
  PROVE  /\ t # << >> /\ Head(t) \in Sources /\ Tail(t) \in Todos \cup {<< >>}
         /\ Rest(Tail(t)) \subseteq Rest(t) /\ Head(t) \in Rest(t)
         /\ Head(t) \notin Rest(Tail(t))
<1>1. CASE t = <<"bifrost", "models.dev">>
  <2>1. Tail(t) = <<"models.dev">> /\ Head(t) = "bifrost"
    BY <1>1
  <2>2. Rest(t) = {"bifrost", "models.dev"} /\ Rest(Tail(t)) = {"models.dev"}
    BY <1>1, <2>1 DEF Rest
  <2> QED BY <1>1, <2>1, <2>2 DEF Todos, Sources
<1>2. CASE t = <<"models.dev", "bifrost">>
  <2>1. Tail(t) = <<"bifrost">> /\ Head(t) = "models.dev"
    BY <1>2
  <2>2. Rest(t) = {"bifrost", "models.dev"} /\ Rest(Tail(t)) = {"bifrost"}
    BY <1>2, <2>1 DEF Rest
  <2> QED BY <1>2, <2>1, <2>2 DEF Todos, Sources
<1>3. CASE t = <<"bifrost">>
  <2>1. Tail(t) = << >> /\ Head(t) = "bifrost"
    BY <1>3
  <2>2. Rest(t) = {"bifrost"} /\ Rest(Tail(t)) = {}
    BY <1>3, <2>1 DEF Rest
  <2> QED BY <1>3, <2>1, <2>2 DEF Todos, Sources
<1>4. CASE t = <<"models.dev">>
  <2>1. Tail(t) = << >> /\ Head(t) = "models.dev"
    BY <1>4
  <2>2. Rest(t) = {"models.dev"} /\ Rest(Tail(t)) = {}
    BY <1>4, <2>1 DEF Rest
  <2> QED BY <1>4, <2>1, <2>2 DEF Todos, Sources
<1> QED BY <1>1, <1>2, <1>3, <1>4 DEF Todos

\* One more source: the request stays derived from the catalogue it started from.
LEMMA StillDerived ==
  ASSUME NEW c \in Catalogs, NEW d, NEW e, NEW t \in Todos, Derived(c, d, t),
         \/ Refreshed(d, e, {Head(t)}, {})
         \/ Refreshed(d, e, {}, {Head(t)})
  PROVE  Derived(c, e, Tail(t))
<1>1. /\ t # << >> /\ Head(t) \in Sources /\ Rest(Tail(t)) \subseteq Rest(t)
      /\ Head(t) \in Rest(t) /\ Head(t) \notin Rest(Tail(t))
  BY TodosAre
<1>2. PICK good \in SUBSET Sources, bad \in SUBSET Sources :
         /\ good \cap bad = {} /\ (good \cup bad) \cap Rest(t) = {}
         /\ Refreshed(c, d, good, bad)
  BY <1>1 DEF Derived
<1>3. CASE Refreshed(d, e, {Head(t)}, {})
  <2>1. Refreshed(c, e, good \cup {Head(t)}, bad \cup {})
    BY <1>1, <1>2, <1>3, RefreshesChain
  <2>2. /\ good \cup {Head(t)} \in SUBSET Sources /\ bad \cup {} \in SUBSET Sources
        /\ (good \cup {Head(t)}) \cap (bad \cup {}) = {}
        /\ ((good \cup {Head(t)}) \cup (bad \cup {})) \cap Rest(Tail(t)) = {}
    BY <1>1, <1>2
  <2> QED BY <2>1, <2>2 DEF Derived
<1>4. CASE Refreshed(d, e, {}, {Head(t)})
  <2>1. Refreshed(c, e, good \cup {}, bad \cup {Head(t)})
    BY <1>1, <1>2, <1>4, RefreshesChain
  <2>2. /\ good \cup {} \in SUBSET Sources /\ bad \cup {Head(t)} \in SUBSET Sources
        /\ (good \cup {}) \cap (bad \cup {Head(t)}) = {}
        /\ ((good \cup {}) \cup (bad \cup {Head(t)})) \cap Rest(Tail(t)) = {}
    BY <1>1, <1>2
  <2> QED BY <2>1, <2>2 DEF Derived
<1> QED BY <1>3, <1>4

-----------------------------------------------------------------------------
(* An edit keeps a catalogue Good and is an edit of CatalogLayers.         *)

LEMMA TargetsAre ==
  /\ \A a \in Accesses : <<"access", a>> \in Targets
  /\ \A r \in References : <<"reference", r>> \in Targets
  /\ \A t \in Targets : \/ \E a \in Accesses : t = <<"access", a>>
                        \/ \E r \in References : t = <<"reference", r>>
<1>1. ASSUME NEW t \in {"access"} \X Accesses
      PROVE  \E a \in Accesses : t = <<"access", a>>
  <2>1. t = <<t[1], t[2]>> /\ t[1] = "access" /\ t[2] \in Accesses
    OBVIOUS
  <2> QED BY <2>1
<1>2. ASSUME NEW t \in {"reference"} \X References
      PROVE  \E r \in References : t = <<"reference", r>>
  <2>1. t = <<t[1], t[2]>> /\ t[1] = "reference" /\ t[2] \in References
    OBVIOUS
  <2> QED BY <2>1
<1>3. /\ \A a \in Accesses : <<"access", a>> \in {"access"} \X Accesses
      /\ \A r \in References : <<"reference", r>> \in {"reference"} \X References
  OBVIOUS
<1>4. \A t : t \in Targets <=> t \in {"access"} \X Accesses \/ t \in {"reference"} \X References
  BY Zenon DEF Targets
<1>5. /\ \A a \in Accesses : <<"access", a>> \in Targets
      /\ \A r \in References : <<"reference", r>> \in Targets
  BY <1>3, <1>4
<1>6. ASSUME NEW t \in Targets
      PROVE  \/ \E a \in Accesses : t = <<"access", a>>
             \/ \E r \in References : t = <<"reference", r>>
  <2>1. CASE t \in {"access"} \X Accesses
    BY <1>1, <2>1
  <2>2. CASE t \in {"reference"} \X References
    BY <1>2, <2>2
  <2>3. t \in {"access"} \X Accesses \/ t \in {"reference"} \X References
    BY <1>4
  <2> QED BY <2>1, <2>2, <2>3
<1> QED BY <1>5, <1>6

\* A record that says of its sources what was said already.
LEMMA AccessEdit ==
  ASSUME NEW c \in Catalogs, Good(c), NEW a \in Accesses, NEW x \in AccessRecords,
         x.link \in HasRef(c) \cup {None},
         x.from = AccessOf(c, a).from, x.omits = AccessOf(c, a).omits,
         NEW d, d = WithAccess(c, a, x)
  PROVE  /\ Good(d)
         /\ HasRef(d) = HasRef(c) /\ ToldOf(d) = ToldOf(c) /\ d.failed = c.failed
         /\ CorrectedOf(d) = [CorrectedOf(c) EXCEPT ![<<"access", a>>] = x.over]
         /\ LinkOf(d) = [LinkOf(c) EXCEPT ![a] = x.link]
         /\ ChosenOf(d) = IF x.manual THEN ChosenOf(c) \cup {a} ELSE ChosenOf(c) \ {a}
<1>1. /\ d \in Catalogs /\ d.refs = c.refs /\ d.failed = c.failed
      /\ d.listed = c.listed /\ d.release = c.release
      /\ d.accs = [c.accs EXCEPT ![a] = x]
  <2> DEFINE accs == [c.accs EXCEPT ![a] = x]
  <2>1. accs \in [Accesses -> AccessRecords \cup {None}]
    BY Taken
  <2>2. d = [c EXCEPT !.accs = accs]
    BY DEF WithAccess
  <2> HIDE DEF accs
  <2>3. /\ d \in Catalogs /\ d.refs = c.refs /\ d.failed = c.failed
        /\ d.listed = c.listed /\ d.release = c.release /\ d.accs = accs
    BY <2>1, <2>2 DEF Catalogs
  <2> QED BY <2>3 DEF accs
<1>2. d.accs[a] = x /\ x # None /\ \A b \in Accesses \ {a} : d.accs[b] = c.accs[b]
  BY <1>1, Taken, RecordsAreNot
<1>3. HasRef(d) = HasRef(c) /\ HasAccess(d) = HasAccess(c) \cup {a}
  BY <1>1, <1>2 DEF HasRef, HasAccess
<1>4. c.accs[a] = None => /\ AccessOf(c, a).from = [s \in Sources |-> None]
                          /\ ~AccessOf(c, a).omits /\ AccessOf(c, a).link = None
                          /\ ~AccessOf(c, a).manual /\ AccessOf(c, a).over = None
  BY DEF AccessOf, NewAccess
<1>5. c.accs[a] # None => AccessOf(c, a) = c.accs[a]
  BY DEF AccessOf
<1>6. DataAre(c) /\ Valid(c) /\ Complete(c)
  BY DEF Good
<1>7. DataAre(d)
  <2>1. \A b \in Accesses : ListedValue(d, b) = ListedValue(c, b) /\ OfferOf(d, b) = OfferOf(c, b)
    BY <1>1 DEF ListedValue, OfferOf
  <2>2. \A q \in References : ReferenceValue(d, q) = ReferenceValue(c, q)
    BY <1>1 DEF ReferenceValue
  <2>3. AccessIsOf(d, a)
    <3>1. CASE c.accs[a] = None
      <4>1. x.from["bifrost"] = None /\ x.from["models.dev"] = None /\ ~x.omits
        BY <1>4, <3>1, SourcesAre
      <4>2. ListedValue(c, a) = None
        BY <1>6, <3>1 DEF Complete, ListedValue
      <4> QED BY <1>2, <2>1, <4>1, <4>2 DEF AccessIsOf
    <3>2. CASE c.accs[a] # None
      <4>1. AccessIsOf(c, a)
        BY <1>6, <3>2 DEF DataAre, HasAccess
      <4> HIDE DEF ListedValue, OfferOf
      <4> QED BY <1>2, <1>5, <2>1, <3>2, <4>1 DEF AccessIsOf
    <3> QED BY <3>1, <3>2
  <2>4. ASSUME NEW b \in HasAccess(d), b # a
        PROVE  AccessIsOf(d, b)
    <3>1. b \in Accesses /\ b \in HasAccess(c) /\ d.accs[b] = c.accs[b]
      BY <1>2, <1>3, <2>4 DEF HasAccess
    <3>2. AccessIsOf(c, b)
      BY <1>6, <3>1 DEF DataAre
    <3> QED BY <2>1, <3>1, <3>2 DEF AccessIsOf
  <2>5. ASSUME NEW q \in HasRef(d)
        PROVE  d.refs[q].md = ReferenceValue(d, q)
    BY <1>1, <1>3, <1>6, <2>2 DEF DataAre, HasRef
  <2> QED BY <2>3, <2>4, <2>5 DEF DataAre
<1>8. Valid(d)
  BY <1>2, <1>3, <1>6 DEF Valid, HasAccess
<1>9. Complete(d)
  BY <1>1, <1>2, <1>6 DEF Complete
<1>10. ToldOf(d) = ToldOf(c)
  <2>1. ASSUME NEW s \in Sources
        PROVE  Told(d, s) = Told(c, s)
    <3>1. ASSUME NEW b \in Accesses
          PROVE  (IF d.accs[b] = None THEN None ELSE d.accs[b].from[s])
                 = (IF c.accs[b] = None THEN None ELSE c.accs[b].from[s])
      BY <1>2, <1>4, <1>5
    <3> QED BY <1>1, <3>1 DEF Told
  <2> QED BY <2>1 DEF ToldOf
<1>11. CorrectedOf(d) = [CorrectedOf(c) EXCEPT ![<<"access", a>>] = x.over]
  <2>1. \A b \in Accesses : CorrectedIn(d, <<"access", b>>)
            = IF b = a THEN x.over ELSE CorrectedIn(c, <<"access", b>>)
    BY <1>2 DEF CorrectedIn
  <2>2. \A r \in References : CorrectedIn(d, <<"reference", r>>) = CorrectedIn(c, <<"reference", r>>)
    BY <1>1 DEF CorrectedIn
  <2>3. ASSUME NEW t \in Targets
        PROVE  CorrectedIn(d, t) = IF t = <<"access", a>> THEN x.over ELSE CorrectedIn(c, t)
    BY <2>1, <2>2, TargetsAre
  <2> QED BY <2>3, TargetsAre DEF CorrectedOf
<1>12. LinkOf(d) = [LinkOf(c) EXCEPT ![a] = x.link]
  BY <1>2 DEF LinkOf
<1>13. ChosenOf(d) = IF x.manual THEN ChosenOf(c) \cup {a} ELSE ChosenOf(c) \ {a}
  BY <1>2 DEF ChosenOf, HasAccess
<1> QED BY <1>1, <1>3, <1>7, <1>8, <1>9, <1>10, <1>11, <1>12, <1>13 DEF Good

LEMMA ReferenceEdit ==
  ASSUME NEW c \in Catalogs, Good(c), NEW r \in References, NEW x \in ReferenceRecords,
         x.md = RefOf(c, r).md, NEW d, d = WithReference(c, r, x)
  PROVE  /\ Good(d)
         /\ HasRef(d) = HasRef(c) \cup {r} /\ ToldOf(d) = ToldOf(c) /\ d.failed = c.failed
         /\ CorrectedOf(d) = [CorrectedOf(c) EXCEPT ![<<"reference", r>>] = x.over]
         /\ LinkOf(d) = LinkOf(c) /\ ChosenOf(d) = ChosenOf(c)
<1>1. /\ d \in Catalogs /\ d.accs = c.accs /\ d.failed = c.failed
      /\ d.listed = c.listed /\ d.release = c.release
      /\ d.refs = [c.refs EXCEPT ![r] = x]
  <2> DEFINE refs == [c.refs EXCEPT ![r] = x]
  <2>1. refs \in [References -> ReferenceRecords \cup {None}]
    BY Taken
  <2>2. d = [c EXCEPT !.refs = refs]
    BY DEF WithReference
  <2> HIDE DEF refs
  <2>3. /\ d \in Catalogs /\ d.accs = c.accs /\ d.failed = c.failed
        /\ d.listed = c.listed /\ d.release = c.release /\ d.refs = refs
    BY <2>1, <2>2 DEF Catalogs
  <2> QED BY <2>3 DEF refs
<1>2. d.refs[r] = x /\ x # None /\ \A q \in References \ {r} : d.refs[q] = c.refs[q]
  BY <1>1, Taken, RecordsAreNot
<1>3. HasRef(d) = HasRef(c) \cup {r} /\ HasAccess(d) = HasAccess(c)
  BY <1>1, <1>2 DEF HasRef, HasAccess
<1>4. c.refs[r] = None => RefOf(c, r).md = None
  BY DEF RefOf, NewReference
<1>5. c.refs[r] # None => RefOf(c, r) = c.refs[r]
  BY DEF RefOf
<1>6. DataAre(c) /\ Valid(c) /\ Complete(c)
  BY DEF Good
<1>7. DataAre(d)
  <2>1. \A b \in Accesses : ListedValue(d, b) = ListedValue(c, b) /\ OfferOf(d, b) = OfferOf(c, b)
    BY <1>1 DEF ListedValue, OfferOf
  <2>2. \A q \in References : ReferenceValue(d, q) = ReferenceValue(c, q)
    BY <1>1 DEF ReferenceValue
  <2>3. ASSUME NEW b \in HasAccess(d)
        PROVE  AccessIsOf(d, b)
    <3>1. b \in Accesses /\ b \in HasAccess(c) /\ d.accs[b] = c.accs[b]
      BY <1>1, <1>3 DEF HasAccess
    <3>2. AccessIsOf(c, b)
      BY <1>6, <3>1 DEF DataAre
    <3> QED BY <2>1, <3>1, <3>2 DEF AccessIsOf
  <2>4. x.md = ReferenceValue(c, r)
    <3>1. CASE c.refs[r] = None
      BY <1>4, <1>6, <3>1 DEF Complete, ReferenceValue
    <3>2. CASE c.refs[r] # None
      BY <1>5, <1>6, <3>2 DEF DataAre, HasRef
    <3> QED BY <3>1, <3>2
  <2>5. ASSUME NEW q \in HasRef(d)
        PROVE  d.refs[q].md = ReferenceValue(d, q)
    <3>1. q \in References /\ (q # r => q \in HasRef(c))
      BY <1>3 DEF HasRef
    <3> QED BY <1>2, <1>6, <2>2, <2>4, <3>1 DEF DataAre
  <2> QED BY <2>3, <2>5 DEF DataAre
<1>8. Valid(d)
  BY <1>1, <1>3, <1>6 DEF Valid
<1>9. Complete(d)
  BY <1>1, <1>2, <1>6 DEF Complete
<1>10. ToldOf(d) = ToldOf(c)
  <2>1. ASSUME NEW q \in References
        PROVE  (IF d.refs[q] = None THEN None ELSE d.refs[q].md)
               = (IF c.refs[q] = None THEN None ELSE c.refs[q].md)
    BY <1>2, <1>4, <1>5
  <2>2. ASSUME NEW s \in Sources
        PROVE  Told(d, s) = Told(c, s)
    BY <1>1, <2>1 DEF Told
  <2> QED BY <2>2 DEF ToldOf
<1>11. CorrectedOf(d) = [CorrectedOf(c) EXCEPT ![<<"reference", r>>] = x.over]
  <2>1. \A q \in References : CorrectedIn(d, <<"reference", q>>)
            = IF q = r THEN x.over ELSE CorrectedIn(c, <<"reference", q>>)
    BY <1>2 DEF CorrectedIn
  <2>2. \A a \in Accesses : CorrectedIn(d, <<"access", a>>) = CorrectedIn(c, <<"access", a>>)
    BY <1>1 DEF CorrectedIn
  <2>3. ASSUME NEW t \in Targets
        PROVE  CorrectedIn(d, t) = IF t = <<"reference", r>> THEN x.over ELSE CorrectedIn(c, t)
    BY <2>1, <2>2, TargetsAre
  <2> QED BY <2>3, TargetsAre DEF CorrectedOf
<1>12. LinkOf(d) = LinkOf(c) /\ ChosenOf(d) = ChosenOf(c)
  BY <1>1, <1>3 DEF LinkOf, ChosenOf
<1> QED BY <1>1, <1>3, <1>7, <1>8, <1>9, <1>10, <1>11, <1>12 DEF Good

\* Every edit an operator may ask, of the edits of CatalogLayers.
LEMMA CorrectionsEdit ==
  ASSUME NEW c \in Catalogs, Good(c), NEW d \in Corrections(c)
  PROVE  Good(d) /\ Edited(c, d)
<1>1. ASSUME NEW a \in HasAccess(c), NEW v \in Maybe,
             d = CorrectAccess(c, a, v)
      PROVE  Good(d) /\ Edited(c, d)
  <2> DEFINE x == [c.accs[a] EXCEPT !.over = v]
  <2>1. /\ a \in Accesses /\ c.accs[a] # None /\ c.accs[a] \in AccessRecords
        /\ AccessOf(c, a) = c.accs[a]
    BY Taken DEF HasAccess, AccessOf
  <2>2. /\ x \in AccessRecords /\ x.over = v /\ x.link = c.accs[a].link
        /\ x.manual = c.accs[a].manual /\ x.from = c.accs[a].from /\ x.omits = c.accs[a].omits
    BY <2>1 DEF AccessRecords
  <2>3. x.link \in HasRef(c) \cup {None}
    BY <2>1, <2>2 DEF Good, Valid
  <2> HIDE DEF x
  <2>4. d = WithAccess(c, a, x)
    BY <1>1 DEF x, CorrectAccess
  <2>5. /\ Good(d)
        /\ HasRef(d) = HasRef(c) /\ ToldOf(d) = ToldOf(c) /\ d.failed = c.failed
        /\ CorrectedOf(d) = [CorrectedOf(c) EXCEPT ![<<"access", a>>] = x.over]
        /\ LinkOf(d) = [LinkOf(c) EXCEPT ![a] = x.link]
        /\ ChosenOf(d) = IF x.manual THEN ChosenOf(c) \cup {a} ELSE ChosenOf(c) \ {a}
    BY <2>1, <2>2, <2>3, <2>4, AccessEdit
  <2>6. LinkOf(d) = LinkOf(c)
    BY <2>1, <2>2, <2>5 DEF LinkOf
  <2>7. ChosenOf(d) = ChosenOf(c)
    BY <2>1, <2>2, <2>5 DEF ChosenOf, HasAccess
  <2>8. <<"access", a>> \in Targets
    BY <2>1, TargetsAre
  <2> QED BY <2>2, <2>5, <2>6, <2>7, <2>8 DEF Edited
<1>2. ASSUME NEW r \in HasRef(c), NEW v \in Maybe,
             d = CorrectReference(c, r, v)
      PROVE  Good(d) /\ Edited(c, d)
  <2> DEFINE x == [c.refs[r] EXCEPT !.over = v]
  <2>1. /\ r \in References /\ c.refs[r] # None /\ c.refs[r] \in ReferenceRecords
        /\ RefOf(c, r) = c.refs[r]
    BY Taken DEF HasRef, RefOf
  <2>2. x \in ReferenceRecords /\ x.over = v /\ x.md = c.refs[r].md
    BY <2>1 DEF ReferenceRecords
  <2> HIDE DEF x
  <2>3. d = WithReference(c, r, x)
    BY <1>2 DEF x, CorrectReference
  <2>4. /\ Good(d)
        /\ HasRef(d) = HasRef(c) \cup {r} /\ ToldOf(d) = ToldOf(c) /\ d.failed = c.failed
        /\ CorrectedOf(d) = [CorrectedOf(c) EXCEPT ![<<"reference", r>>] = x.over]
        /\ LinkOf(d) = LinkOf(c) /\ ChosenOf(d) = ChosenOf(c)
    BY <2>1, <2>2, <2>3, ReferenceEdit
  <2>5. HasRef(d) = HasRef(c)
    BY <2>4
  <2>6. <<"reference", r>> \in Targets
    BY <2>1, TargetsAre
  <2> QED BY <2>2, <2>4, <2>5, <2>6 DEF Edited
<1> QED BY <1>1, <1>2 DEF Corrections

LEMMA ChoiceEdit ==
  ASSUME NEW c \in Catalogs, Good(c), NEW a \in Accesses, NEW r \in HasRef(c) \cup {None},
         NEW x \in AccessRecords, x.link = r, x.manual = TRUE,
         x.from = AccessOf(c, a).from, x.omits = AccessOf(c, a).omits,
         x.over = AccessOf(c, a).over,
         NEW d, d = WithAccess(c, a, x)
  PROVE  Good(d) /\ Edited(c, d)
<1>1. /\ Good(d)
      /\ HasRef(d) = HasRef(c) /\ ToldOf(d) = ToldOf(c) /\ d.failed = c.failed
      /\ CorrectedOf(d) = [CorrectedOf(c) EXCEPT ![<<"access", a>>] = x.over]
      /\ LinkOf(d) = [LinkOf(c) EXCEPT ![a] = x.link]
      /\ ChosenOf(d) = IF x.manual THEN ChosenOf(c) \cup {a} ELSE ChosenOf(c) \ {a}
  BY AccessEdit
<1>2. CorrectedOf(d) = CorrectedOf(c)
  <2>1. CorrectedIn(c, <<"access", a>>) = x.over
    BY DEF CorrectedIn, AccessOf, NewAccess
  <2> QED BY <1>1, <2>1 DEF CorrectedOf
<1> QED BY <1>1, <1>2 DEF Edited

LEMMA LinksEdit ==
  ASSUME NEW c \in Catalogs, Good(c), NEW a \in Accesses, NEW r \in HasRef(c) \cup {None}
  PROVE  /\ Good(Choose(c, a, r)) /\ Edited(c, Choose(c, a, r))
         /\ Good(LinkIn(c, a, r)) /\ Edited(c, LinkIn(c, a, r))
<1>1. r \in References \cup {None} /\ AccessOf(c, a) \in AccessRecords
  BY Taken, NewTyped DEF HasRef, AccessOf
<1>2. Good(Choose(c, a, r)) /\ Edited(c, Choose(c, a, r))
  <2> DEFINE o == AccessOf(c, a)
             x == [o EXCEPT !.link = r, !.manual = TRUE]
  <2> HIDE DEF o
  <2>1. o \in AccessRecords
    BY <1>1 DEF o
  <2>2. /\ x \in AccessRecords /\ x.link = r /\ x.manual = TRUE
        /\ x.from = o.from /\ x.omits = o.omits /\ x.over = o.over
    BY <1>1, <2>1 DEF AccessRecords
  <2>3. Choose(c, a, r) = WithAccess(c, a, x)
    BY DEF Choose, o
  <2> HIDE DEF x
  <2> QED BY <2>2, <2>3, ChoiceEdit DEF o
<1>3. c.accs[a] = None => Good(Noted(c, a, r)) /\ Edited(c, Noted(c, a, r))
  <2> SUFFICES ASSUME c.accs[a] = None
               PROVE  Good(Noted(c, a, r)) /\ Edited(c, Noted(c, a, r))
    OBVIOUS
  <2> DEFINE o == NewAccess
             x == [o EXCEPT !.on = TRUE, !.link = r, !.manual = TRUE]
  <2> HIDE DEF o
  <2>1. o \in AccessRecords /\ AccessOf(c, a) = o
    BY NewTyped DEF o, AccessOf
  <2>2. /\ x \in AccessRecords /\ x.link = r /\ x.manual = TRUE
        /\ x.from = o.from /\ x.omits = o.omits /\ x.over = o.over
    BY <1>1, <2>1 DEF AccessRecords
  <2>3. Noted(c, a, r) = WithAccess(c, a, x)
    BY DEF Noted, o
  <2> HIDE DEF x
  <2> QED BY <2>1, <2>2, <2>3, ChoiceEdit
<1>4. Edited(c, c)
  BY DEF Edited
<1> QED BY <1>2, <1>3, <1>4 DEF LinkIn

LEMMA AdditionsEdit ==
  ASSUME NEW c \in Catalogs, Good(c), NEW d \in Additions(c)
  PROVE  Good(d) /\ Edited(c, d)
<1>1. PICK r \in References \ HasRef(c), v \in Values :
         d = WithReference(c, r, [NewReference EXCEPT !.over = v])
  BY DEF Additions
<1> DEFINE o == NewReference
           x == [o EXCEPT !.over = v]
<1> HIDE DEF o
<1>2. o \in ReferenceRecords /\ RefOf(c, r) = o
  BY NewTyped DEF o, RefOf, HasRef
<1>3. x \in ReferenceRecords /\ x.over = v /\ x.md = o.md
  BY <1>2 DEF ReferenceRecords, Maybe
<1>4. d = WithReference(c, r, x)
  BY <1>1 DEF o
<1> HIDE DEF x
<1>5. /\ Good(d)
      /\ HasRef(d) = HasRef(c) \cup {r} /\ ToldOf(d) = ToldOf(c) /\ d.failed = c.failed
      /\ CorrectedOf(d) = [CorrectedOf(c) EXCEPT ![<<"reference", r>>] = x.over]
      /\ LinkOf(d) = LinkOf(c) /\ ChosenOf(d) = ChosenOf(c)
  BY <1>2, <1>3, <1>4, ReferenceEdit
<1>6. <<"reference", r>> \in Targets
  BY TargetsAre
<1> QED BY <1>3, <1>5, <1>6 DEF Edited

LEMMA EditsAreEdits ==
  ASSUME NEW c \in Catalogs, Good(c), NEW d \in Edits(c)
  PROVE  Good(d) /\ Edited(c, d)
<1>1. CASE d \in Corrections(c)
  BY <1>1, CorrectionsEdit
<1>2. CASE d \in Matches(c)
  <2>1. PICK a \in HasAccess(c), r \in HasRef(c) \cup {None} : d = Choose(c, a, r)
    BY <1>2 DEF Matches
  <2> QED BY <2>1, LinksEdit DEF HasAccess
<1>3. CASE d \in Links(c)
  <2>1. PICK a \in Accesses, r \in HasRef(c) \cup {None} : d = LinkIn(c, a, r)
    BY <1>3 DEF Links
  <2> QED BY <2>1, LinksEdit
<1>4. CASE d \in Additions(c)
  BY <1>4, AdditionsEdit
<1> QED BY <1>1, <1>2, <1>3, <1>4 DEF Edits

-----------------------------------------------------------------------------
(* The invariant, and what it implies.                                     *)

LEMMA EmptyIsGood == Good(Empty)
<1>1. Empty \in Catalogs
  BY DEF Empty, Catalogs
<1>2. /\ HasAccess(Empty) = {} /\ HasRef(Empty) = {}
      /\ Empty.listed = None /\ Empty.release = None
  BY DEF HasAccess, HasRef, Empty
<1> QED BY <1>1, <1>2 DEF Good, DataAre, Valid, Complete

LEMMA JobFields ==
  ASSUME NEW x \in Catalogs, NEW y \in Catalogs, NEW t \in Todos \cup {<< >>}
  PROVE  /\ [on |-> x, cfg |-> y, todo |-> t] \in Jobs
         /\ [on |-> x, cfg |-> y, todo |-> t].on = x
         /\ [on |-> x, cfg |-> y, todo |-> t].cfg = y
         /\ [on |-> x, cfg |-> y, todo |-> t].todo = t
  BY DEF Jobs

\* A request that begins or learns leaves the others and the store alone.
LEMMA OneJob ==
  ASSUME CatalogInv, NEW c \in Clients, NEW j \in Jobs, JobOk(j),
         job' = [job EXCEPT ![c] = j], cat' = cat
  PROVE  /\ job' \in [Clients -> Jobs \cup {None}]
         /\ \A b \in Clients : JobOk(job'[b])
<1>1. job \in [Clients -> Jobs \cup {None}]
  BY DEF CatalogInv, TypeOK
<1>2. \A b \in Clients : job'[b] = IF b = c THEN j ELSE job[b]
  BY <1>1
<1>3. \A b \in Clients : JobOk(job[b])
  BY DEF CatalogInv
<1> QED BY <1>1, <1>2, <1>3

LEMMA BeginKeeps ==
  ASSUME CatalogInv, NEW c \in Clients, Begin(c)
  PROVE  CatalogInv'
<1>1. cat \in Catalogs /\ Good(cat) /\ TypeOK /\ None \in Maybe
  BY DEF CatalogInv, TypeOK, Maybe
<1>2. PICK j : j \in Jobs /\ JobOk(j) /\ job' = [job EXCEPT ![c] = j]
  <2>1. CASE \E e \in Edits(cat) : job' = [job EXCEPT ![c] = [on |-> cat, cfg |-> e, todo |-> << >>]]
    <3>1. PICK e \in Edits(cat) : job' = [job EXCEPT ![c] = [on |-> cat, cfg |-> e, todo |-> << >>]]
      BY <2>1
    <3> DEFINE j == [on |-> cat, cfg |-> e, todo |-> << >>]
    <3>2. Good(e) /\ Edited(cat, e)
      BY <1>1, EditsAreEdits
    <3>3. e \in Catalogs
      BY <3>2 DEF Good
    <3>4. j \in Jobs /\ j.on = cat /\ j.cfg = e /\ j.todo = << >>
      BY <1>1, <3>3, JobFields
    <3> HIDE DEF j
    <3>5. JobOk(j)
      BY <1>1, <3>2, <3>4 DEF JobOk, Derived
    <3> QED BY <3>1, <3>4, <3>5 DEF j
  <2>2. CASE \E t \in Todos : job' = [job EXCEPT ![c] = [on |-> cat, cfg |-> cat, todo |-> t]]
    <3>1. PICK t \in Todos : job' = [job EXCEPT ![c] = [on |-> cat, cfg |-> cat, todo |-> t]]
      BY <2>2
    <3> DEFINE j == [on |-> cat, cfg |-> cat, todo |-> t]
    <3>2. j \in Jobs /\ j.on = cat /\ j.cfg = cat /\ j.todo = t
      BY <1>1, JobFields
    <3> HIDE DEF j
    <3>3. Derived(cat, cat, t)
      <4>1. Refreshed(cat, cat, {}, {}) /\ {} \in SUBSET Sources
        BY <1>1, NoRefresh
      <4> QED BY <4>1 DEF Derived
    <3>4. JobOk(j)
      BY <1>1, <3>2, <3>3 DEF JobOk
    <3> QED BY <3>1, <3>2, <3>4 DEF j
  <2> QED BY <2>1, <2>2 DEF Begin
<1>3. cat' = cat /\ gateway' = gateway /\ embedded' = embedded /\ world' = world
      /\ requests' \in 0..MaxRequests
  BY <1>1, CatalogAssumption DEF Begin, TypeOK
<1>4. /\ job' \in [Clients -> Jobs \cup {None}]
      /\ \A b \in Clients : JobOk(job'[b])
  BY <1>2, <1>3, OneJob
<1>5. TypeOK'
  BY <1>1, <1>3, <1>4 DEF TypeOK
<1>6. Good(cat')
  BY <1>1, <1>3
<1> QED BY <1>4, <1>5, <1>6 DEF CatalogInv

\* The three ways a source is done with.
LEMMA LearnsKeeps ==
  ASSUME CatalogInv, NEW c \in Clients, NEW s \in Sources, NEW e, Asks(c, s), Learns(c, e), Good(e),
         Refreshed(job[c].cfg, e, {s}, {}) \/ Refreshed(job[c].cfg, e, {}, {s})
  PROVE  CatalogInv'
<1>1. TypeOK /\ Good(cat) /\ JobOk(job[c]) /\ job[c] \in Jobs
  BY DEF CatalogInv, TypeOK, Asks
<1> DEFINE k == job[c]
           j == [on |-> k.on, cfg |-> e, todo |-> Tail(k.todo)]
<1>2. /\ k \in Jobs /\ k.on \in Catalogs /\ Good(k.on) /\ Derived(k.on, k.cfg, k.todo)
      /\ k.todo \in Todos /\ Head(k.todo) = s /\ job' = [job EXCEPT ![c] = j]
  <2>1. k \in Jobs /\ k # None /\ k.todo # << >> /\ Head(k.todo) = s
    BY <1>1 DEF Asks
  <2>2. k.on \in Catalogs /\ k.todo \in Todos
    BY <2>1 DEF Jobs
  <2>3. Good(k.on) /\ Derived(k.on, k.cfg, k.todo)
    BY <1>1, <2>1 DEF JobOk
  <2>4. job' = [job EXCEPT ![c] = j]
    BY DEF Learns
  <2> QED BY <2>1, <2>2, <2>3, <2>4
<1>3. e \in Catalogs /\ Tail(k.todo) \in Todos \cup {<< >>}
  BY <1>2, TodosAre DEF Good
<1>4. Refreshed(k.cfg, e, {s}, {}) \/ Refreshed(k.cfg, e, {}, {s})
  OBVIOUS
<1> HIDE DEF k
<1>5. j \in Jobs /\ j.on = k.on /\ j.cfg = e /\ j.todo = Tail(k.todo)
  BY <1>2, <1>3, JobFields
<1> HIDE DEF j
<1>6. Derived(k.on, e, Tail(k.todo))
  BY <1>2, <1>4, StillDerived
<1>7. JobOk(j)
  BY <1>2, <1>5, <1>6 DEF JobOk
<1>8. UNCHANGED <<cat, gateway, embedded, requests, world>>
  BY DEF Learns
<1>9. /\ job' \in [Clients -> Jobs \cup {None}]
      /\ \A b \in Clients : JobOk(job'[b])
  BY <1>2, <1>5, <1>7, <1>8, OneJob
<1>10. TypeOK'
  BY <1>1, <1>8, <1>9 DEF TypeOK
<1>11. Good(cat')
  BY <1>1, <1>8
<1> QED BY <1>9, <1>10, <1>11 DEF CatalogInv

LEMMA StepKeeps ==
  ASSUME CatalogInv, [Next]_vars
  PROVE  CatalogInv'
<1> USE DEF CatalogInv
<1>1. ASSUME NEW c \in Clients, Begin(c)
      PROVE  CatalogInv'
  BY <1>1, BeginKeeps
<1>2. ASSUME NEW c \in Clients, FetchBifrost(c)
      PROVE  CatalogInv'
  <2> DEFINE e == LearnGateway(job[c].cfg, gateway)
  <2>1. Asks(c, "bifrost") /\ Learns(c, e) /\ gateway \in Gateways /\ "bifrost" \in Sources
    BY <1>2, SourcesAre DEF FetchBifrost, TypeOK
  <2>2. Good(job[c].cfg) /\ job[c].cfg \in Catalogs
    BY <2>1 DEF Asks, JobOk, Good
  <2>3. Good(e) /\ Refreshed(job[c].cfg, e, {"bifrost"}, {})
    BY <2>1, <2>2, GatewayGood
  <2> HIDE DEF e
  <2> QED BY <2>1, <2>3, LearnsKeeps
<1>3. ASSUME NEW c \in Clients, FetchModelsDev(c)
      PROVE  CatalogInv'
  <2> DEFINE e == LearnModelsDev(job[c].cfg, embedded)
  <2>1. Asks(c, "models.dev") /\ Learns(c, e) /\ embedded \in Releases /\ "models.dev" \in Sources
    BY <1>3, SourcesAre DEF FetchModelsDev, TypeOK
  <2>2. Good(job[c].cfg) /\ job[c].cfg \in Catalogs
    BY <2>1 DEF Asks, JobOk, Good
  <2>3. Good(e) /\ Refreshed(job[c].cfg, e, {"models.dev"}, {})
    BY <2>1, <2>2, ModelsDevGood
  <2> HIDE DEF e
  <2> QED BY <2>1, <2>3, LearnsKeeps
<1>4. ASSUME NEW c \in Clients, FetchFails(c)
      PROVE  CatalogInv'
  <2>1. PICK s \in Sources : /\ Asks(c, s)
                             /\ Learns(c, [job[c].cfg EXCEPT !.failed = Attempted(job[c].cfg, s, TRUE)])
    BY <1>4 DEF FetchFails
  <2> DEFINE e == [job[c].cfg EXCEPT !.failed = Attempted(job[c].cfg, s, TRUE)]
  <2>2. Good(job[c].cfg) /\ job[c].cfg \in Catalogs
    BY <2>1 DEF Asks, JobOk, Good
  <2>3. Good(e) /\ Refreshed(job[c].cfg, e, {}, {s})
    BY <2>2, FailedGood
  <2>4. Learns(c, e)
    BY <2>1
  <2> HIDE DEF e
  <2> QED BY <2>1, <2>3, <2>4, LearnsKeeps
<1>5. ASSUME NEW c \in Clients, Save(c)
      PROVE  CatalogInv'
  <2>1. Good(job[c].cfg) /\ job[c].cfg \in Catalogs
    BY <1>5 DEF Save, JobOk, Good
  <2>2. Good(cat') /\ cat' \in Catalogs
    BY <1>5, <2>1 DEF Save, Good
  <2>3. /\ job' \in [Clients -> Jobs \cup {None}]
        /\ \A b \in Clients : job'[b] = job[b] \/ job'[b] = None
    BY <1>5 DEF Save, TypeOK
  <2>4. \A b \in Clients : JobOk(job'[b])
    BY <2>3 DEF JobOk
  <2>5. TypeOK'
    BY <1>5, <2>2, <2>3 DEF Save, TypeOK
  <2> QED BY <2>2, <2>4, <2>5
<1>6. CASE External
  <2>1. cat' = cat /\ job' = job /\ TypeOK'
    BY <1>6, CatalogAssumption DEF External, TypeOK
  <2> QED BY <2>1
<1>7. CASE Restart
  <2>1. cat' = cat /\ gateway' = gateway /\ requests' = requests /\ job' = [c \in Clients |-> None]
    BY <1>7 DEF Restart
  <2>2. embedded' \in Releases \cup {None} /\ world' \in 0..MaxWorld
    BY <1>7, CatalogAssumption DEF Restart, TypeOK
  <2>3. TypeOK'
    BY <2>1, <2>2 DEF TypeOK
  <2>4. \A b \in Clients : JobOk(job'[b])
    BY <2>1 DEF JobOk
  <2> QED BY <2>1, <2>3, <2>4
<1>8. CASE UNCHANGED vars
  <2>1. cat' = cat /\ job' = job /\ TypeOK'
    BY <1>8 DEF vars, TypeOK
  <2> QED BY <2>1
<1> QED BY <1>1, <1>2, <1>3, <1>4, <1>5, <1>6, <1>7, <1>8 DEF Next, Request

LEMMA InitInv ==
  ASSUME Init
  PROVE  CatalogInv
<1>1. cat = Empty /\ Good(cat) /\ \A c \in Clients : job[c] = None
  BY EmptyIsGood DEF Init
<1>2. TypeOK
  BY <1>1, CatalogAssumption DEF Init, TypeOK, Good
<1> QED BY <1>1, <1>2 DEF CatalogInv, JobOk

LEMMA Invariance == Spec => []CatalogInv
<1>1. Init => CatalogInv
  BY InitInv
<1>2. CatalogInv /\ [Next]_vars => CatalogInv'
  BY StepKeeps
<1> QED BY <1>1, <1>2, PTL DEF Spec

\* The state keeps its type, in the store and in every request under way.
THEOREM CatalogTypeCorrect == Spec => []TypeOK
<1>1. CatalogInv => TypeOK
  BY DEF CatalogInv
<1> QED BY <1>1, Invariance, PTL

\* What the store tells of a source is what the one snapshot whose date is shown said.
THEOREM OneSnapshot == Spec => []DataAreOfOneSnapshot
<1>1. CatalogInv => DataAreOfOneSnapshot
  BY DEF CatalogInv, Good, DataAreOfOneSnapshot
<1> QED BY <1>1, Invariance, PTL

\* No refresh and no edit prepares a link to a reference that is not there.
THEOREM Prepared == Spec => []PreparedIsValid
<1>1. CatalogInv => PreparedIsValid
  BY DEF CatalogInv, JobOk, Good, PreparedIsValid
<1> QED BY <1>1, Invariance, PTL

\* Every value shown is the operator's, or was said by the snapshot whose date is shown, and
\* is not inherited where Models.dev says that the access does not inherit.
THEOREM ShownValuesAreSourced == Spec => []ShownIsSourced
<1>1. ASSUME CatalogInv, NEW a \in HasAccess(cat)
      PROVE  Sourced(cat, a, Shown(cat, a))
  <2> DEFINE x == cat.accs[a]
             o == OfferOf(cat, a)
             ref == cat.refs[x.link]
  <2>1. AccessIsOf(cat, a) /\ x.link \in HasRef(cat) \cup {None}
    BY <1>1 DEF CatalogInv, Good, DataAre, Valid
  <2>2. x.link # None => ref.md = ReferenceValue(cat, x.link)
    BY <1>1, <2>1 DEF CatalogInv, Good, DataAre
  <2>3. /\ x.from["bifrost"] = ListedValue(cat, a)
        /\ \/ x.from["models.dev"] = None /\ ~x.omits
           \/ o # None /\ x.from["models.dev"] = o.value /\ x.omits = o.omits
    BY <2>1 DEF AccessIsOf
  <2>4. Shown(cat, a) = First(Own(x), Inherited(cat, x))
    BY DEF Shown
  <2>5. Inherited(cat, x) # None =>
           /\ x.link # None /\ ~x.omits
           /\ Inherited(cat, x) \in {ref.over, ReferenceValue(cat, x.link)}
    BY <2>2 DEF Inherited, First
  <2> HIDE DEF x, o, ref
  <2>6. CASE x.over # None \/ ListedValue(cat, a) # None
    BY <2>3, <2>4, <2>6 DEF Sourced, Own, First, x
  <2>7. CASE x.over = None /\ ListedValue(cat, a) = None /\ x.from["models.dev"] # None
    BY <2>3, <2>4, <2>7 DEF Sourced, Own, First, x, o
  <2>8. CASE x.over = None /\ ListedValue(cat, a) = None /\ x.from["models.dev"] = None
    <3>1. Shown(cat, a) = Inherited(cat, x)
      BY <2>3, <2>4, <2>8 DEF Own, First
    <3> QED BY <2>3, <2>5, <2>8, <3>1 DEF Sourced, x, o, ref
  <2> QED BY <2>6, <2>7, <2>8
<1>2. CatalogInv => ShownIsSourced
  BY <1>1 DEF ShownIsSourced
<1> QED BY <1>2, Invariance, PTL

\* After a refresh of Models.dev an access the snapshot names a reference for is linked to it
\* or says that it is not.
THEOREM MismatchesAreShown == Spec => MismatchIsShown
<1> DEFINE Shows == \A c \in Clients : FetchModelsDev(c) =>
              \A a \in Accesses :
                  LET x == job'[c].cfg.accs[a]
                  IN  x # None /\ x.on /\ embedded.offers[a] # None /\ Base(embedded, a) # None
                          => x.link = Base(embedded, a) \/ x.conflict = Base(embedded, a)
<1>1. ASSUME CatalogInv, [Next]_vars
      PROVE  Shows
  <2> SUFFICES ASSUME NEW c \in Clients, FetchModelsDev(c), NEW a \in Accesses,
                      job'[c].cfg.accs[a] # None, job'[c].cfg.accs[a].on,
                      embedded.offers[a] # None, Base(embedded, a) # None
               PROVE  \/ job'[c].cfg.accs[a].link = Base(embedded, a)
                      \/ job'[c].cfg.accs[a].conflict = Base(embedded, a)
    OBVIOUS
  <2> DEFINE k == job[c].cfg
             d == LearnModelsDev(k, embedded)
  <2>1. embedded \in Releases /\ Asks(c, "models.dev") /\ Learns(c, d)
    BY <1>1 DEF FetchModelsDev, CatalogInv, TypeOK
  <2>2. k \in Catalogs
    BY <1>1, <2>1 DEF CatalogInv, JobOk, Good, Asks
  <2>3. job'[c].cfg = d
    BY <1>1, <2>1 DEF Learns, CatalogInv, TypeOK
  <2>4. d.accs[a] = IF k.accs[a] = None THEN None ELSE Matched(Enriched(k, embedded, a), embedded, a)
    BY <2>1, <2>2, ModelsDevIs, ZenonT(40)
  <2> HIDE DEF d, k
  <2>5. a \in HasAccess(k) /\ d.accs[a] = Matched(Enriched(k, embedded, a), embedded, a)
    BY <2>3, <2>4 DEF HasAccess
  <2>6. /\ d.accs[a].on = k.accs[a].on
        /\ a \in Offered(k, embedded) /\ Base(embedded, a) # None
              => d.accs[a].link = Base(embedded, a) \/ d.accs[a].conflict = Base(embedded, a)
    BY <2>1, <2>2, <2>5, LearnedIs
  <2>7. a \in Offered(k, embedded)
    BY <2>3, <2>5, <2>6 DEF Offered
  <2> QED BY <2>3, <2>6, <2>7
<1>2. CatalogInv /\ [Next]_vars => [Shows]_vars
  BY <1>1
<1> HIDE DEF Shows
<1>3. Spec => [][Shows]_vars
  BY <1>2, Invariance, PTL DEF Spec
<1> QED BY <1>3 DEF MismatchIsShown, Shows

\* Together: what is shown of an access can be accounted for.
THEOREM ShownHolds == Spec => ShownIsTrue
BY ShownValuesAreSourced, MismatchesAreShown DEF ShownIsTrue

-----------------------------------------------------------------------------
(* The store's catalogue is the operator's.                                *)

LEMMA InitIsLayers == Init => Layers!Init
<1> SUFFICES ASSUME Init
             PROVE  Layers!Init
  OBVIOUS
<1>1. cat = Empty
  BY DEF Init
<1>2. /\ HasRef(cat) = {} /\ HasAccess(cat) = {} /\ cat.failed = [s \in Sources |-> FALSE]
      /\ \A a \in Accesses : cat.accs[a] = None
      /\ \A r \in References : cat.refs[r] = None
  BY <1>1 DEF Empty, HasRef, HasAccess
<1>3. \A t \in Targets : CorrectedIn(cat, t) = None
  BY <1>2, TargetsAre DEF CorrectedIn
<1> QED BY <1>2, <1>3 DEF Layers!Init

LEMMA EditIsLayers ==
  ASSUME Edited(cat, cat'), cat' # cat
  PROVE  Layers!Next
<1>1. CASE \E t \in Targets, v \in Maybe :
              /\ CorrectedOf(cat') = [CorrectedOf(cat) EXCEPT ![t] = v]
              /\ HasRef(cat') = HasRef(cat) /\ LinkOf(cat') = LinkOf(cat)
              /\ ChosenOf(cat') = ChosenOf(cat)
              /\ ToldOf(cat') = ToldOf(cat) /\ (cat').failed = cat.failed
  BY <1>1 DEF Layers!Next, Layers!Correct, Maybe, CorrectedOf, LinkOf, ChosenOf, ToldOf
<1>2. CASE \E a \in Accesses, r \in HasRef(cat) \cup {None} :
              /\ LinkOf(cat') = [LinkOf(cat) EXCEPT ![a] = r]
              /\ ChosenOf(cat') = ChosenOf(cat) \cup {a}
              /\ HasRef(cat') = HasRef(cat) /\ CorrectedOf(cat') = CorrectedOf(cat)
              /\ ToldOf(cat') = ToldOf(cat) /\ (cat').failed = cat.failed
  <2>1. HasRef(cat) \subseteq References
    BY DEF HasRef
  <2> QED BY <1>2, <2>1 DEF Layers!Next, Layers!Choose, CorrectedOf, LinkOf, ChosenOf, ToldOf
<1>3. CASE \E r \in References \ HasRef(cat), t \in Targets, v \in Values :
              /\ HasRef(cat') = HasRef(cat) \cup {r}
              /\ CorrectedOf(cat') = [CorrectedOf(cat) EXCEPT ![t] = v]
              /\ LinkOf(cat') = LinkOf(cat) /\ ChosenOf(cat') = ChosenOf(cat)
              /\ ToldOf(cat') = ToldOf(cat) /\ (cat').failed = cat.failed
  BY <1>3 DEF Layers!Next, Layers!Add, CorrectedOf, LinkOf, ChosenOf, ToldOf
<1> QED BY <1>1, <1>2, <1>3 DEF Edited

LEMMA RefreshIsLayers ==
  ASSUME Good(cat), Good(cat'), NEW good \in SUBSET Sources, NEW bad \in SUBSET Sources,
         good \cap bad = {}, Refreshed(cat, cat', good, bad)
  PROVE  Layers!Next
<1>1. HasRef(cat) \subseteq HasRef(cat') /\ HasRef(cat') \subseteq References
  BY DEF Refreshed, HasRef
<1>2. LinkOf(cat') \in [Accesses -> References \cup {None}]
  <2>1. \A a \in Accesses : (cat').accs[a] # None => (cat').accs[a].link \in HasRef(cat') \cup {None}
    BY DEF Good, Valid, HasAccess
  <2> QED BY <1>1, <2>1 DEF LinkOf
<1>3. \A s \in Sources \ good : ToldOf(cat')[s] = ToldOf(cat)[s]
  BY DEF Refreshed, ToldOf
<1>4. Layers!Refresh(good, bad, "models.dev" \in good)
  BY <1>1, <1>2, <1>3 DEF Layers!Refresh, Layers!MayLink, Refreshed, CorrectedOf, LinkOf, ChosenOf, ToldOf
<1> QED BY <1>4 DEF Layers!Next

\* Corrections and links the operator chose survive every refresh, however long it ran and
\* whatever failed, and a source that fails keeps what it told.
THEOREM CatalogImplementsLayers == Spec => ImplementsLayers
<1>1. ASSUME CatalogInv, [Next]_vars
      PROVE  [Layers!Next]_(Layers!vars)
  <2>1. CASE cat' = cat
    BY <2>1 DEF Layers!vars
  <2>2. CASE cat' # cat
    <3>1. PICK c \in Clients : Save(c)
      BY <1>1, <2>2 DEF Next, Request, vars, Begin, FetchBifrost, FetchModelsDev, FetchFails, Learns,
                        External, Restart
    <3> DEFINE j == job[c]
    <3>2. /\ j # None /\ j.todo = << >> /\ cat = j.on /\ cat' = j.cfg
      BY <2>2, <3>1 DEF Save, Accepted
    <3>3. Good(j.on) /\ Good(j.cfg) /\ Derived(j.on, j.cfg, j.todo)
      BY <1>1, <3>2 DEF CatalogInv, JobOk
    <3> HIDE DEF j
    <3>4. Good(cat) /\ Good(cat') /\ Derived(cat, cat', << >>)
      BY <3>2, <3>3
    <3>5. CASE Edited(cat, cat')
      BY <2>2, <3>5, EditIsLayers
    <3>6. CASE \E good, bad \in SUBSET Sources : good \cap bad = {} /\ Refreshed(cat, cat', good, bad)
      BY <3>4, <3>6, RefreshIsLayers
    <3> QED BY <3>4, <3>5, <3>6 DEF Derived
  <2> QED BY <2>1, <2>2
<1>2. CatalogInv /\ [Next]_vars => [Layers!Next]_(Layers!vars)
  BY <1>1
<1>3. Spec => Layers!Spec
  BY <1>2, InitIsLayers, Invariance, PTL DEF Spec, Layers!Spec
<1> QED BY <1>3 DEF ImplementsLayers
=============================================================================
