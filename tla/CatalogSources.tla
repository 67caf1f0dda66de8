--------------------------- MODULE CatalogSources ---------------------------
(***************************************************************************)
(* The reference catalogue: internal/registry/catalog.go, the handlers of  *)
(* /api/catalog in internal/admin/catalog.go, and setWorkspaceReference.   *)
(*                                                                         *)
(* Two sources describe the accesses of the gateway: Bifrost, asked when   *)
(* the operator refreshes, and a Models.dev snapshot built into the        *)
(* binary, which also describes references an access may be linked to.     *)
(* Every request works on a copy of the catalogue and saves it against     *)
(* the revision it started from; a refresh may take 25 seconds.            *)
(*                                                                         *)
(* Fields are independent, so one stands for all.  That the revision is    *)
(* checked and the copy loaded at one instant is the window AdminLive has  *)
(* (PutStart, PutMerge).  Dates are kept as the snapshot they date.        *)
(***************************************************************************)
EXTENDS Naturals, Sequences

CONSTANTS
    Accesses,     \* IDs "provider/model"
    References,   \* IDs of references; an access may bear the ID of one
    Values,       \* of the field
    Gateways,     \* what Bifrost may list: per access None or [value: ...]
    Releases,     \* the snapshots of the binaries the operator may install
    Clients,
    None, Missing,
    MaxRequests,  \* bound on requests
    MaxWorld      \* bound on changes of the gateway and of the binary

Sources == {"bifrost", "models.dev"}
Maybe == Values \cup {None}

\* refs: what it says of the references it describes.  offers: of accesses, with the base
\* model named and whether the access is said not to inherit the field.
Describes == [References -> Maybe]
Offers == [base: References \cup {None}, value: Maybe, omits: BOOLEAN]
ReleaseType == [refs: Describes, offers: [Accesses -> Offers \cup {None}]]
Rows == [value: Maybe]

\* CatalogReference and CatalogAccess; over: the operator's correction.
ReferenceRecords == [md: Maybe, over: Maybe]
AccessRecords == [on: BOOLEAN, link: References \cup {None}, manual: BOOLEAN,
                  conflict: References \cup {None, Missing}, omits: BOOLEAN,
                  from: [Sources -> Maybe], over: Maybe]

ASSUME CatalogAssumption ==
    /\ None \notin Accesses \cup References \cup Values
    /\ Missing \notin References \cup {None}
    /\ Gateways \subseteq [Accesses -> Rows \cup {None}] /\ None \notin Gateways
    /\ Releases \subseteq ReleaseType /\ None \notin Releases
    /\ \A x \in AccessRecords : x # None
    /\ \A x \in ReferenceRecords : x # None
    /\ \A x \in Rows : x # None
    /\ \A x \in Offers : x # None
    /\ MaxRequests \in Nat /\ MaxWorld \in Nat

\* listed, release: the snapshots the data are of (LastSuccess; Commit and SourceAt).
Catalogs == [refs: [References -> ReferenceRecords \cup {None}],
             accs: [Accesses -> AccessRecords \cup {None}],
             failed: [Sources -> BOOLEAN],
             listed: Gateways \cup {None}, release: Releases \cup {None}]

Todos == {<<"bifrost", "models.dev">>, <<"models.dev", "bifrost">>, <<"bifrost">>, <<"models.dev">>}
\* on: the catalogue the request started from (its revision).  todo: sources to ask.
Jobs == [on: Catalogs, cfg: Catalogs, todo: Todos \cup {<< >>}]

VARIABLES
    cat,       \* the catalogue in the store
    job,       \* job[c]: the request of client c
    gateway,   \* what Bifrost lists, None while it does not answer
    embedded,  \* the snapshot in the binary, None if it cannot be read
    requests, world

vars == <<cat, job, gateway, embedded, requests, world>>

HasRef(c) == {r \in References : c.refs[r] # None}
HasAccess(c) == {a \in Accesses : c.accs[a] # None}
NewReference == [md |-> None, over |-> None]
NewAccess == [on |-> FALSE, link |-> None, manual |-> FALSE, conflict |-> None, omits |-> FALSE,
              from |-> [s \in Sources |-> None], over |-> None]
Empty == [refs |-> [r \in References |-> None], accs |-> [a \in Accesses |-> None],
          failed |-> [s \in Sources |-> FALSE], listed |-> None, release |-> None]

TypeOK ==
    /\ cat \in Catalogs
    /\ job \in [Clients -> Jobs \cup {None}]
    /\ gateway \in Gateways \cup {None}
    /\ embedded \in Releases \cup {None}
    /\ requests \in 0..MaxRequests /\ world \in 0..MaxWorld

Init ==
    /\ cat = Empty
    /\ job = [c \in Clients |-> None]
    /\ gateway \in Gateways
    /\ embedded \in Releases
    /\ requests = 0 /\ world = 0

----------------------------------------------------------------------------
(* ReplaceCatalogSource, per source.                                       *)

AccessOf(c, a) == IF c.accs[a] = None THEN NewAccess ELSE c.accs[a]
Said(x, s, v) == [x.from EXCEPT ![s] = v]
Attempted(c, s, fails) == [c.failed EXCEPT ![s] = fails]

ListedAccess(c, g, a) ==
    IF g[a] # None
    THEN [AccessOf(c, a) EXCEPT !.on = TRUE, !.from = Said(AccessOf(c, a), "bifrost", g[a].value)]
    ELSE IF c.accs[a] = None THEN None
    ELSE [c.accs[a] EXCEPT !.on = FALSE, !.from = Said(c.accs[a], "bifrost", None)]

LearnGateway(c, g) ==
    [c EXCEPT !.accs = [a \in Accesses |-> ListedAccess(c, g, a)],
              !.failed = Attempted(c, "bifrost", FALSE), !.listed = g]

\* modelsDevRows: the offers for accesses that are configured.
Offered(c, r) == {a \in HasAccess(c) : c.accs[a].on /\ r.offers[a] # None}
Base(r, a) == IF r.offers[a].base = None THEN None
              ELSE IF r.refs[r.offers[a].base] = None THEN None ELSE r.offers[a].base

Free(x) == x.link = None /\ ~x.manual

\* The link and the conflict of an access the snapshot offers.
\* Mutant of Conflict: what the operator linked is not compared.
ConflictAuto(x, base) ==
    IF x.manual \/ (base = None /\ x.link = None) \/ (base # None /\ (Free(x) \/ x.link = base)) THEN None
    ELSE IF base = None THEN Missing ELSE base
Conflict(x, base) ==
    IF (base = None /\ x.link = None) \/ (base # None /\ (Free(x) \/ x.link = base)) THEN None
    ELSE IF base = None THEN Missing ELSE base

Relinked(x, base) == IF Free(x) /\ base # None THEN base ELSE x.link

Enriched(c, r, a) ==
    LET x == c.accs[a]
        base == Base(r, a)
    IN  IF a \in Offered(c, r)
        THEN [x EXCEPT !.from = Said(x, "models.dev", r.offers[a].value), !.omits = r.offers[a].omits,
                       !.link = Relinked(x, base), !.conflict = Conflict(x, base)]
        ELSE [x EXCEPT !.from = Said(x, "models.dev", None), !.omits = FALSE]

\* Last, an access nobody linked is linked to the reference that has its ID.
Matched(x, r, a) ==
    IF Free(x) /\ a \in References /\ r.refs[a] # None THEN [x EXCEPT !.link = a] ELSE x

RefOf(c, x) == IF c.refs[x] = None THEN NewReference ELSE c.refs[x]
Described(c, r, x) ==
    IF r.refs[x] # None THEN [RefOf(c, x) EXCEPT !.md = r.refs[x]]
    ELSE IF c.refs[x] = None THEN None ELSE [c.refs[x] EXCEPT !.md = None]

LearnModelsDev(c, r) ==
    [c EXCEPT !.refs = [x \in References |-> Described(c, r, x)],
              !.accs = [a \in Accesses |-> IF c.accs[a] = None THEN None
                                           ELSE Matched(Enriched(c, r, a), r, a)],
              !.failed = Attempted(c, "models.dev", FALSE), !.release = r]

----------------------------------------------------------------------------
(* EffectiveAccessCatalogFields.                                           *)

First(x, y) == IF x # None THEN x ELSE y
Own(x) == First(x.over, First(x.from["bifrost"], x.from["models.dev"]))
Inherited(c, x) ==
    IF x.link = None \/ x.omits THEN None
    ELSE First(c.refs[x.link].over, c.refs[x.link].md)
Shown(c, a) == First(Own(c.accs[a]), Inherited(c, c.accs[a]))

----------------------------------------------------------------------------
(* What an operator may ask.                                               *)

WithAccess(c, a, x) == [c EXCEPT !.accs = [c.accs EXCEPT ![a] = x]]
WithReference(c, r, x) == [c EXCEPT !.refs = [c.refs EXCEPT ![r] = x]]

\* applyCatalogOverride; None takes the correction back.
CorrectAccess(c, a, v) == WithAccess(c, a, [c.accs[a] EXCEPT !.over = v])
CorrectReference(c, r, v) == WithReference(c, r, [c.refs[r] EXCEPT !.over = v])
Corrections(c) ==
    {CorrectAccess(c, a, v) : a \in HasAccess(c), v \in Maybe}
    \cup {CorrectReference(c, r, v) : r \in HasRef(c), v \in Maybe}

Choose(c, a, r) == WithAccess(c, a, [AccessOf(c, a) EXCEPT !.link = r, !.manual = TRUE])

\* /api/catalog/match
Matches(c) == {Choose(c, a, r) : a \in HasAccess(c), r \in HasRef(c) \cup {None}}

\* setWorkspaceReference, for an access Bifrost lists.
Noted(c, a, r) ==
    WithAccess(c, a, [NewAccess EXCEPT !.on = TRUE, !.link = r, !.manual = TRUE])
LinkIn(c, a, r) ==
    IF c.accs[a] = None THEN Noted(c, a, r)
    ELSE IF c.accs[a].link = r THEN c ELSE Choose(c, a, r)
Links(c) ==
    IF gateway = None THEN {}
    ELSE {LinkIn(c, a, r) : a \in {b \in Accesses : gateway[b] # None}, r \in HasRef(c) \cup {None}}

\* /api/catalog/reference
Additions(c) ==
    {WithReference(c, r, [NewReference EXCEPT !.over = v]) : r \in References \ HasRef(c), v \in Values}

Edits(c) == Corrections(c) \cup Matches(c) \cup Links(c) \cup Additions(c)

Begin(c) ==
    /\ job[c] = None /\ requests < MaxRequests
    /\ \/ \E e \in Edits(cat) : job' = [job EXCEPT ![c] = [on |-> cat, cfg |-> e, todo |-> << >>]]
       \/ \E t \in Todos : job' = [job EXCEPT ![c] = [on |-> cat, cfg |-> cat, todo |-> t]]
    /\ requests' = requests + 1
    /\ UNCHANGED <<cat, gateway, embedded, world>>

Asks(c, s) == job[c] # None /\ job[c].todo # << >> /\ Head(job[c].todo) = s
Learns(c, cfg) ==
    /\ job' = [job EXCEPT ![c] = [on |-> job[c].on, cfg |-> cfg, todo |-> Tail(job[c].todo)]]
    /\ UNCHANGED <<cat, gateway, embedded, requests, world>>

FetchBifrost(c) ==
    /\ Asks(c, "bifrost") /\ gateway # None
    /\ Learns(c, LearnGateway(job[c].cfg, gateway))

FetchModelsDev(c) ==
    /\ Asks(c, "models.dev") /\ embedded # None
    /\ Learns(c, LearnModelsDev(job[c].cfg, embedded))

\* Any call to Bifrost may fail; the snapshot in the binary is read or not.
FetchFails(c) ==
    \E s \in Sources :
        /\ Asks(c, s) /\ (s = "models.dev" => embedded = None)
        /\ Learns(c, [job[c].cfg EXCEPT !.failed = Attempted(job[c].cfg, s, TRUE)])

\* validateCatalog: every link leads to a reference there is.
Valid(c) == \A a \in HasAccess(c) : c.accs[a].link \in HasRef(c) \cup {None}

\* Mutant of Accepted: the revision is checked when the request starts only.
AcceptedLate(j) == Valid(j.cfg)
Accepted(j) == cat = j.on /\ Valid(j.cfg)

Save(c) ==
    /\ job[c] # None /\ job[c].todo = << >>
    /\ cat' = IF Accepted(job[c]) THEN job[c].cfg ELSE cat
    /\ job' = [job EXCEPT ![c] = None]
    /\ UNCHANGED <<gateway, embedded, requests, world>>

----------------------------------------------------------------------------
(* The world around.                                                       *)

\* Providers, keys and models change in Bifrost, or it cannot be reached.
External ==
    /\ world < MaxWorld
    /\ gateway' \in (Gateways \cup {None}) \ {gateway}
    /\ world' = world + 1
    /\ UNCHANGED <<cat, job, embedded, requests>>

\* A restart ends every request; it may install another binary.
Restart ==
    /\ job' = [c \in Clients |-> None]
    /\ \/ UNCHANGED <<embedded, world>>
       \/ /\ world < MaxWorld /\ world' = world + 1
          /\ embedded' \in (Releases \cup {None}) \ {embedded}
    /\ UNCHANGED <<cat, gateway, requests>>

Request(c) == Begin(c) \/ FetchBifrost(c) \/ FetchModelsDev(c) \/ FetchFails(c) \/ Save(c)
Next == (\E c \in Clients : Request(c)) \/ External \/ Restart

Spec == Init /\ [][Next]_vars

----------------------------------------------------------------------------
(* Properties.                                                             *)

\* What is stored of each source is what one of its snapshots said, the one whose date is
\* shown: a refresh replaces all of it or nothing, whatever was edited, failed, listed no
\* longer or refreshed by another request meanwhile.
ListedValue(c, a) ==
    IF c.listed = None THEN None ELSE IF c.listed[a] = None THEN None ELSE c.listed[a].value
OfferOf(c, a) == IF c.release = None THEN None ELSE c.release.offers[a]
ReferenceValue(c, r) == IF c.release = None THEN None ELSE c.release.refs[r]

AccessIsOf(c, a) ==
    LET x == c.accs[a]
        o == OfferOf(c, a)
    IN  /\ x.from["bifrost"] = ListedValue(c, a)
        /\ \/ x.from["models.dev"] = None /\ ~x.omits
           \/ o # None /\ x.from["models.dev"] = o.value /\ x.omits = o.omits
DataAre(c) ==
    /\ \A a \in HasAccess(c) : AccessIsOf(c, a)
    /\ \A r \in HasRef(c) : c.refs[r].md = ReferenceValue(c, r)
DataAreOfOneSnapshot == DataAre(cat)

\* Every value the panel shows of an access is the operator's or was said, by the snapshot
\* whose date it shows: of that access, by Bifrost rather than by Models.dev; or else of the
\* reference it is linked to, unless Models.dev says that this access does not inherit it.
Sourced(c, a, v) ==
    LET x == c.accs[a]
        o == OfferOf(c, a)
    IN  IF x.over # None THEN v = x.over
        ELSE IF ListedValue(c, a) # None THEN v = ListedValue(c, a)
        ELSE \/ v = None
             \/ o # None /\ v = o.value
             \/ /\ x.link # None
                /\ v \in {c.refs[x.link].over, ReferenceValue(c, x.link)}
                /\ x.from["models.dev"] = None /\ (o # None => ~(o.omits /\ x.omits))
ShownIsSourced == \A a \in HasAccess(cat) : Sourced(cat, a, Shown(cat, a))

\* No request prepares a catalogue that the store refuses: what an operator waited 25
\* seconds for is lost to another edit only.
PreparedIsValid == \A c \in Clients : job[c] # None => Valid(job[c].cfg)

\* When the snapshot names the reference of an access and the access is linked otherwise, or
\* not at all, the access says so, whoever made the link.
MismatchIsShown ==
    [][\A c \in Clients : FetchModelsDev(c) =>
        \A a \in Accesses :
            LET x == job'[c].cfg.accs[a]
            IN  x # None /\ x.on /\ embedded.offers[a] # None /\ Base(embedded, a) # None
                    => x.link = Base(embedded, a) \/ x.conflict = Base(embedded, a)]_vars

\* What the catalogue shows of an access can be accounted for: each value by its source and date,
\* and each link that the snapshot contradicts by the mismatch shown.
ShownIsTrue == []ShownIsSourced /\ MismatchIsShown

\* A conflict says that the source has no exact reference for an access: no reference of
\* the snapshot bears its ID.
MissingIsMissing ==
    \A a \in HasAccess(cat) :
        cat.accs[a].conflict = Missing /\ a \in References
            => cat.release # None /\ cat.release.refs[a] = None

----------------------------------------------------------------------------
(* The store's catalogue is the operator's: CatalogLayers.                 *)

Targets == ({"access"} \X Accesses) \cup ({"reference"} \X References)
CorrectedIn(c, t) ==
    LET x == IF t[1] = "access" THEN c.accs[t[2]] ELSE c.refs[t[2]]
    IN  IF x = None THEN None ELSE x.over
Told(c, s) ==
    [accs |-> [a \in Accesses |-> IF c.accs[a] = None THEN None ELSE c.accs[a].from[s]],
     refs |-> [r \in References |-> IF c.refs[r] = None \/ s = "bifrost" THEN None ELSE c.refs[r].md]]

Layers == INSTANCE CatalogLayers WITH
    known <- HasRef(cat),
    corrected <- [t \in Targets |-> CorrectedIn(cat, t)],
    link <- [a \in Accesses |-> IF cat.accs[a] = None THEN None ELSE cat.accs[a].link],
    chosen <- {a \in HasAccess(cat) : cat.accs[a].manual},
    told <- [s \in Sources |-> Told(cat, s)],
    failed <- cat.failed

\* Corrections and links the operator chose survive every refresh, one that ran for 25
\* seconds beside them too; a failed source keeps its facts; edits are not lost.
ImplementsLayers == Layers!Spec
=============================================================================
