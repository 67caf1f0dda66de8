# A verification of the Bifrost model registry

The registry is a plugin of the Bifrost AI gateway with an administration panel. It decides
which models each virtual key may call and under which names (the *guard*), keeps that decision
in one JSON file, and carries it over to Bifrost (key permissions, aliases, price overrides). The
panel, a web application, holds its own copy of all this, computes from it what a save will do,
and talks to the server in calls that answer late or never.
This directory models the parts where order, failure, staleness and concurrency decide whether
that holds, checks them with TLC on small instances, and proves the main results, of the server
and of the panel's edits and calls, with TLAPS for every instance.

Paths below are relative to `src/`; `catalog/`, `keys/` and the like are under `ui/src/features/`.

* [The system](#the-system) — components, state, interactions, what is hard
* [The modules](#the-modules) — which module stands for which code
* [The runs](#the-runs) — what each shows, its bounds
* [The proofs](#the-proofs) — what is proved, from what, by which invariant
* [Where code and documents disagree](#where-code-and-documents-disagree)
* [What the code does that a reader may not expect](#what-the-code-does-that-a-reader-may-not-expect)
* [What is not modelled](#what-is-not-modelled)
* [Plan](#plan)

## The system

```
 operator ---> panel (ui/): two copies, workspace and catalogue; drafts; lists
                   |  HTTP, revision of what it read       operator, other programs
                   v                                            |
 internal/admin  --- save(revision) -->  internal/registry: Store --> registry.json
   | live jobs, one at a time               |  compiled snapshot (atomic pointer)
   |                                        v
   |                              native/main.go hooks --> one Session per request
   v                                        ^
 Bifrost API: keys, rows, aliases,          |  pre/post hooks of requests and attempts
 price overrides   <----------- Bifrost ----+
```

| component | code | state | operations | hard part | must hold |
|---|---|---|---|---|---|
| File store | `internal/registry/store.go`, `openOrCreateStore` in `native/main.go` | the file, a compiled snapshot in memory, one mutex per `Store` | open or create, save, save with backup, close | crash between temporary write, rename and directory sync; two stores on one file; failed writes; the mutex on every path | a save replaces only the revision its client read; memory and file agree; never an unreadable file |
| Compiler | `internal/registry/config.go` | none: configuration in, one view per key out | compile, compare with the published ambiguities | groups, additions, exclusions, selections and preferences compose; an edit elsewhere makes an alias ambiguous | a name reaches only granted accesses; no model disappears silently; no edit takes a working model away |
| Guard | `internal/registry/runtime.go`, hooks in `native/main.go` | a session per request (pinned snapshot, authorized attempts), an identity state shared by its attempts | prepare, check attempt, verify identity, project a listing, start, stop | attempts side by side, publishes while requests are in flight, rebound credentials, names mixed in one request | nothing is sent outside the policy; no answer for an unconfirmed identity; what is listed or accepted is served |
| Live administration | `internal/admin/live.go`, `adoption.go`, `native_permissions.go` | publications of keys (memory), one live mutex; Bifrost's keys | publish a workspace, read back, create, adopt, edit native permissions | calls to Bifrost in the middle of each; saves that take no live mutex; content hashes that come back; lost answers | "verified" is true; a published key has what the registry serves; adopted keys are left alone |
| Price corrections | `internal/admin/pricing_overrides.go` | proofs per provider key and access (memory); Bifrost's overrides | discover, list, create, update, read back, delete | any call fails or is done without an answer; restarts forget; foreign overrides with the same name | "verified" is billed; what is wrong is reported; a clean pass repairs |
| Reference catalogue | `internal/registry/catalog.go`, `internal/admin/catalog.go`, `modelsdev_snapshot.go`, `workspace_mapping.go` | references, accesses, links, corrections, per-source facts | refresh either source, correct, link, add | a refresh of 25 seconds beside edits; a source that fails; snapshots that replace each other | the operator's decisions survive; what is shown was said by the snapshot it is dated by |
| Workspace, and the panel's edits of it | `workspace`, `putWorkspace` in `live.go`; `ui/src/domain/registry.ts`, `KeyComposer.state.ts`, `useModelEditing.ts` | drafts of keys, groups and cards | project, toggle, retain, expose, preview, publish, save aside, rebuild the whole file | the browser computes by itself what the compiler will; every save rewrites every record from a projection | what is previewed is served; what an operator chose survives; losses are announced; changed keys are read again |
| Panel session | `ui/src/app/App.tsx` | the last workspace answered, a draft, one operation, flags of doubt | load, sign in and out, navigate, edit, publish, save aside, reread, create, adopt | calls overlap, answer late, fail, or are lost after they were done | a save writes only over what it saw; work outlives answers; no publish while a save is in doubt |
| Adoption of a key | `internal/admin/readiness.go`, `adoption.go`, `native_permissions.go`; `AdoptionDialog.tsx`, `AdoptionBlockers.tsx`, `NativePermissionEdit.tsx` | a preview, choices, an edit with a preview of its own | preview, keep a provider, edit the key, confirm, adopt | previews answer late over a key that changes; the dialog decides which choices to offer, the server what they do | choices settle; what is adopted is what was shown |
| Page of an adopted key | `keys/KeySummary.tsx`, `PublicationCard`; `readback` | the last check's outcome (server memory), the permissions and ids of three different reads | publish, check, reload, restart | the page adds up facts of different ages | what it counts under "Verified" is what the key can call |
| Card editor | `catalog/ModelEditor.tsx` and parts; `setWorkspaceReference`, `EffectiveAccessCatalogFields` | a draft of one card, corrections staged in it | add and remove accesses, link, correct, review, save | previews over a catalogue fetched apart from the cards | what is shown and reviewed is what is saved |
| Model and metadata pages | `catalog/ModelLibraryPage.tsx`, `ReferenceCatalogBrowser.tsx`, `reference-groups.ts`, `CatalogMetadata.tsx`, `useReferenceCatalog.ts`; `catalogHandler` | two copies of the file that age apart; forms | open a tile, register, join, associate, correct, reset | late, refused and lost catalogue calls; one test decides what a tile does | tiles do what they offer; links change by choice; a correction is made or stays in the form |
| Lists | `keys/KeyLibrary.tsx`, `groups/GroupLibrary.tsx`, `catalog/ModelBrowser.tsx`, `gateway/GatewayInventory.tsx`, `ViewOptions.tsx` | filters, shelves, scopes, orders, bulk selections | search, filter, open, sort, select all | what is remembered across pages, searches, sign-outs | nothing found is hidden; a bulk change is one the operator sees |
| Import, assistant, secret | `internal/admin/snapshot.go`, `assistant.go`, `key_secret.go`; `SnapshotTransfer.tsx`, `AssistantSettings.tsx`, `AssistantSuggestion.tsx`, `VirtualKeySecret.tsx` | one pending call each, what it was asked for | choose, preview, apply; load, choose, save; generate, tick, apply; reveal | answers to a question that has changed | what is applied was reviewed; a secret is shown on its own key's page only |
| Native plan and aliases | `internal/registry/plan.go`, `installAliases` in `live.go` | Bifrost's provider keys | merge aliases, repost keys | case-insensitive conflicts, whole-key reposts | an alias never takes another model over |
| HTTP server, command line, review server | `internal/admin/server.go`, `inferred_creator.go`, `cmd/` | a token | authenticate, route; validate, plan, merge, serve | none here | — |
| Drawing; build, scripts, documents | `ui/src/components/`, `packaging/`, `scripts/`, `integration/`, `docs/` | — | — | — | — |

Interactions. Every writer goes through `Store.Save(candidate, expected revision)`: the panel's
handlers, `/api/config`, snapshot apply, the catalogue. A revision is the hash of the content, so
saving old content brings an old revision back (modelled in AdminLive, and the reason catalogue
requests compare whole catalogues). Live jobs serialize on `liveState.mu` and call Bifrost in the
middle, but other saves do not take that mutex. The guard reads the store's snapshot through an
atomic pointer, once per request. The panel fetches the workspace and the catalogue apart, each
with the revision it was read at; every save carries the whole workspace, and the server rebuilds
the whole file from it.

## The modules

A module per component, an abstract specification where there is one promise that covers it,
an `MC` module with the constants of the runs, and a `Proofs` module for the components that are
proved about. Some share one: RegistryStore and AdminLive have ServerProofs, ConfigEdits and
WorkspaceEdits RegistryConfigProofs, PanelSession and CardEditor PanelSessionProofs, and the three
modules of pages (PanelLists, PanelPages, CatalogPages) PagesProofs.
`PROJECT.json` maps every definition to its lines.

### The server

**RegistryStore** (implements **CasRegister**). `save` is the chain of actions `Begin`, `Lock`,
`Check` (revision, then compilation, ambiguity and size: `Verdict`), `Backup`, `WriteTemp`,
`Rename`, `SyncDir`, `Publish`, with `WriteFails` at every I/O step; opening is `Create`, `WriteSeed`, `SeedFails`,
`Open`. `survives` is the set of contents the path may show after a power loss: a rename without
a directory sync leaves both the old and the new, a file created with `O_EXCL` and written
without fsync may be empty. `Stores` may be several, and `ExternalEdit` is another program, whose
writes are counted by `edits`: `Alone` says that there was none. A configuration stands for its
revision.

**RegistryConfig**, **ConfigEdits**. RegistryConfig is the compiler as operators: `Members`,
`Selected`, `Eligible`, `Withheld`, `Chosen`, `Exposed`, `Compiles`, `Routes`. ConfigEdits runs a
registry through accepted saves, from files that compile, old ones included that withhold
aliases. RequestGuard and WorkspaceEdits use the same operators, so the three agree on what a
policy means.

**RequestGuard**. `PreHook` pins `current` and builds the session (`Prepare`); `Attempt` is
Bifrost stamping an identity and routing anywhere, since neither is trusted; `PreLLM`, `PostLLM`
and `PostLLMLoad` are the LLM hooks, the last two apart because the compare-and-swap of the
identity and the load after it are; `AnswerInference`, `AnswerListing`, `AnswerUnmanaged`, `Fail`
are the transport post-hook. `Start`, `Cleanup`, `Publish` run at any time.

**AdminLive**. One job record for the job that holds the live mutex; an action between any two of
its calls to Bifrost. `ConfigWrite` is the other saves, `External` what others do in Bifrost (and
a PUT that timed out and is done later), `Restart` forgets publications. `touched`, `moved`,
`lapsed` are histories: they say when a property excuses the code, and no guard reads them.

**PricingSync**. One pass at a time: `Discover`, then per provider key `ListKey`, `Write` and
`Check` per wanted override, `Delete` per stale one, each with a failing form that was or was not
done. Ownership (`Owned`) is read off the override, so a restart forgets nothing it needs.

**CatalogSources** (implements **CatalogLayers**). A request is a record: the catalogue it started
on, the one it will save, the sources still to ask. `LearnGateway` and `LearnModelsDev` are
`ReplaceCatalogSource` for each source; `Edits` is what an operator may ask; `Save` compares and
replaces. All fields of a record merge independently, so one field stands for all. CatalogLayers
is the promise: each save is one edit or one refresh at one instant, and a refresh touches
neither a correction nor a link the operator chose, links only what nobody linked, and changes
only the facts of sources that answered.

### The panel and the server

**WorkspaceEdits** (on RegistryConfig). `Workspace` is `workspace`: cards, groups of cards and one
policy per key, from the file. Drafts are made of it by the composer (`ComposeGroup`,
`ComposeModels`, `ComposeAccess`, `ComposeNaming`) and the group and card editors; `NewFile` is
`putWorkspace`, from all that the panel sends back. Whether a key is on is not the file's word in a
workspace but Bifrost's: `active` is what Bifrost has, `seen` what the panel was last told, `on`
what a save sends for every key; `Applied` writes it to the keys that are not adopted
(`SwitchInBifrost` is anyone else's switch, `Reload` the panel's next reading, and a `Commit` may
stop before the last key, `whole` = FALSE). `InStep` is a key of which the panel was told what the
file says. `PlannedNames` (the names a key will offer) and
`KeysChanged` are the browser's computations, and the properties compare them with
`Routes` of the file written. `InSight` and `Settled` name the keys that a filter of a group, an
exclusion of one access or a disabled access hides from the panel's computations.

**PanelSession**. The panel against a moving server, call by call. `op` is what runs under
`operation` with its stages (PUT, refresh after a failed PUT, readback of each changed key);
`calls` are the GETs and checks beside it. Every answer is a step of its own, `Serve*` when the
server does it and `*Answered` when it arrives, and any may fail before or after it was done.
`doubt` is a history: the revision that a save of unknown outcome met.

**KeyAdoption**, **KeyLedger**. KeyAdoption is the adoption dialog decision by decision over the
plans of the server (`Adoption`, `Blocker`, `EditedRows`), with its previews, its edit dialog and its
two calls in flight. The server works on a call in the code's steps: it reads the configuration and
the key (`ServeKey`), then what Bifrost lists (`ServeModels`, `Plan`), compares the plan with the
one confirmed (`ServeAdopt`), saves it at the revision confirmed (`AdoptSave`); for an edit it
reads (`EditServeKey`, `EditPlan`), compares (`EditServe`), writes the whole key (`EditWrite`) and
reads it back (`EditReadBack`). `liveHandler` carries out one call at a time (`Locked`); Bifrost
and the saves of `/api/config` wait for none (`Foreign`), so they fall between any two of these
steps. `read` is what the server has read for a call, and `since`, a history, the outside changes
before its first read. KeyLedger extends it with what follows: the page of the adopted key. `page` is
the workspace read last, `proof` the last check in the server's memory, `check` one under way
(`ReadKey`, `ReadModels`, `EndCheck`); `Actual`, `RegistryOn`, `OpenOn`, `KeptOn`, `Via`,
`Counted` are `keyLedger`, and `Badge`, `Headline`, `Told` what the page writes of them.

**CardEditor**. `card` is the draft of the card edited, `staged` its corrections; `View` the catalogue the
editor works on; `KeepAccess`, `EnterManually`, `Correct`, `RemoveRow` its dialogs; `Save` is the
server's part, `putWorkspace` with `setWorkspaceReference`, on a file that may have changed. What
the server looks at and the editor does not is in the file: what other cards group (`held`), what
keys make of the card (`keys`), and the accesses adopted keys and locked groups name (`tied`,
`rekeyed`); `NotListed`, `HeldTwice`, `Untied` and `Unserved` are its grounds for refusing.

**ModelLibrary**, **CatalogPages**. ModelLibrary is pure: how accesses group into tiles and what
opening a tile does. CatalogPages has the pages over the panel's two copies: `Library` (cards
registered, joined, associated), `Metadata` (forms of corrections), `Network` (catalogue requests
and answers, one at a time), `Elsewhere`.

**PanelLists**, **PanelPages**. PanelLists has the lists and what remembers them: `memory` (the
session's), `shown` (the page's own), `folds`, `views` and `prefs`. PanelPages extends it with the
pages that ask the server something and wait; `tool` is the state of the page on screen, with
what its pending call was asked for.

Abstractions worth knowing:

* The revision check and the copy of the catalogue happen at one instant in CatalogSources; the
  window between them is in AdminLive (`PutStart`, `PutMerge`), where it is the same code shape.
* In PricingSync two accesses with one provider and upstream model are one access: they share
  their override in the code as well. The price inside a proof is a history of the model; the
  code keeps the state only.
* A date of a source stands for the snapshot it dates (`listed`, `release`).
* A workspace save that corrects several links is a sequence of catalogue edits in CatalogSources
  (one save in CardEditor); the catalogue replaced as a whole through `/api/config` or a snapshot
  is not an action of it.
* A policy is opaque in PanelSession; what is in one is WorkspaceEdits'. The lateness of calls is
  PanelSession's, CatalogPages' for the catalogue, and left out of WorkspaceEdits and CardEditor,
  where a save is one step.
* One fact of a record stands for the six that can be corrected; in AssistantSuggestion three
  do, since the reference is the accesses' and behaves otherwise.
* In KeyAdoption and KeyLedger a name is both a native model and the common ID of its card. The
  three requests that read what Bifrost lists (providers, models, their keys) are two steps of an
  adoption and one of an edit: what differs between the requests of a step is as if it had been
  read at the last. Configuration and key are read in one step: they are two systems, and nothing
  tells a change of one between the two reads from a change just before or just after both.
* In the lists a search is one of a few terms, filters other than provider, state, group and
  client behave as the provider's, and the tiles to add stand for reference groups.
* The panel at a sign-out forgets its session; a 401 in the middle leaves the page's own state,
  as the code does (`requireLogin`).
* HTTP bodies, headers, stream chunks, formatting and the syntax of fields are left out.

## The runs

`CHECK_DEADLOCK FALSE` stands where the system really stops: the budget of edits, passes or
saves is used up, or (store) a creation that died left an empty file that every later start
refuses. Elsewhere something is always possible and deadlock is checked.

| run | question | bounds, and why they are enough |
|---|---|---|
| `registry_store` | Does every save return, can one bring an ambiguity in, can the file become unreadable, and is the store alone on its file a compare-and-set register? `EverySaveReturns`, `AmbiguityNeverGrows`, `StaysLoadable`, `ImplementsRegister` | 1 store, 2 savers, 1 crash or power loss or failing write (`MaxFaults`), 1 edit by another program; the seed, a plain configuration, an ambiguous and an oversize one: every verdict occurs, and the second saver sees each half-done state of the first |
| `config_edits` | After any edits, is what each key is served granted, complete and stable? `NamesAreServed`, `ChoiceRepairs`, `ServiceIsKept`, `AdoptionPreserves` | 3 accesses (two of one alias, one behind a routing rule), 1 group, a managed and a native key, 4 start files, 3 edits: enough to make an alias ambiguous, choose, and take the choice back |
| `guard_requests` | Is nothing sent or answered outside the pinned policy and identity, and is what is listed or accepted served? `SentWithinPolicy`, `AnswerIsConfirmed`, `AcceptedIsServed` | 1 request, 2 attempts, 2 names, 2 keys, 4 registries. Requests share only `current`, which changes at any step, so one is enough; two attempts are the least that can disagree |
| `admin_live` | Are publications true and native writes backed? `PublishesAreTrue`, `NativeWritesAreBacked` | 2 keys, 2 models, 3 jobs, 2 outside changes: publish, read back, publish again, and bring the first content back |
| `pricing_sync` | Is what is said of prices true, and does a clean pass repair? `ReportsAreTrue`, `CleanPassConverges` | 1 access on 2 provider keys, 2 prices, 3 override IDs, 3 passes, 1 outside change: fail, forget, repair |
| `catalog_refresh` | Do the operator's decisions survive, and is what is shown of one snapshot? `ShownIsTrue`, `ImplementsLayers` | 2 clients, 3 requests, 2 accesses (one bears the ID of a reference), 2 references, 2 snapshots, 2 gateways, 1 change of the world: two refreshes of different snapshots beside an edit |
| `workspace_edits` | Does the panel announce what a save will do, and does a save leave the rest? `PreviewMatchesRoutes`, `ChangedKeysAreReread`, `ChoicesSurvive`, `LossesAreShown` | A model of three accesses and one behind a routing rule, 1 group, a composed and an adopted key; a file with a choice, one from before access selection, one with a group the panel cannot edit; 2 saves with a change in a draft before each (`MaxTouches` is of one draft), 1 key switched in Bifrost or save that ends early (`MaxTrouble`): an edit aside, then a publish; a switch of the adopted key, then another save |
| `panel_session` | Does a save write over nothing unseen, does work outlive answers, is nothing published in doubt? `PublishesOnCertainty`, `SaveReplacesWhatWasSeen`, `WorkSurvives` | 2 keys, 2 policies, 1 write by another operator, 1 change of page, 1 more of each kind of act, every call with up to one overlapping of its kind: each answer overtakes and is overtaken |
| `key_adoption` | Do the dialog's choices settle, does it do what it shows, is the page of the adopted key true? `ChoicesSettle`, `DoesWhatItShows`, `LedgerIsTrue` | 3 providers, 2 models, 11 keys (collisions, every model, unlisted, unsaved, unfit, disabled, empty); 1 change elsewhere (to one of 3 after the adoption), 1 edit of the key, 1 save after the adoption, of the models or of one access, with the naming |
| `card_editor` | Is a saved card what was shown, offered and reviewed? `SavedIsAsShown`, `OfferedIsAccepted`, `ComesBackAsSaved`, `KeepMatchesPreview` | 5 accesses (same name, another provider, a prefix, another card's, unlisted), 2 references, 5 files (a saved access gone from Bifrost; keys that have chosen, prefer or would have to choose an access; an access a group or an adopted key names), identifiers of a new card of which one is another card's; 3 edits, 1 save, 1 change elsewhere: take off, add back, correct; or take another card's identifier, add, and change it again |
| `catalog_pages` | Do tiles do what they offer, and do links and corrections change by choice? `TilesAreTrue`, `LibraryChangesAreChosen` | 4 accesses of 3 identifiers, 2 references, 3 files; 2 changes of the file of which 1 elsewhere, 1 loading of the catalogue under way, 1 visit of the metadata page, which shows an access or a record |
| `panel_pages` | Is nothing found hidden, is a bulk change seen, is what is imported, set, applied or shown what was reviewed, listed, proposed or asked for? `ResultsAreNotHidden`, `ListsKeepTheirState`, `SecretIsOfShownKey`, `SelectionIsVisible`, `ImportIsReviewed`, `SettingsAreAsListed`, `SuggestionIsReviewed` | 3 keys, 4 models, 1 group, one search term, two states of the data; 10 sessions, each mixing the pages and controls that share state; pages of 1 (60 in the code), 2 file reads, 1 write left behind, 1 write of another |

Each property has a mutant in `PROJECT.json`: a plausible bug in one definition (a dropped guard,
a missing reset) under which TLC finds that property violated in the same run. Some properties
are conjunctions of claims that stand and fall together for a reader (`ReportsAreTrue` ==
`VerifiedIsBilled` and `WrongIsReported`); each part is a named definition with its comment.

Symmetry is declared for values no definition or property distinguishes (keys and models of
AdminLive, IDs and prices of PricingSync, attempts, clients), and only in runs without liveness.

In `registry_store` the promises that need the store to be alone on its file have `Alone` as a
premise: `ImplementsRegister` allows any step after a foreign edit and nothing but the register's
before.

Further configurations, beside the runs:

| configuration | module | what TLC finds |
|---|---|---|
| `PanelDivergences.cfg` with `PROPERTIES BusyEnds` for its invariant | MCPanelSession | Passes. Every operation of the panel ends, whatever its calls answer (`BusyEnds`): each stage has one way on, also after a 401, a timeout or a partial failure |
| `GuardAccepted`, `AdminAdopted`, `PricingShown`, `CatalogConflict`, `WorkspaceDefault`, `PanelDivergences`, `KeyRemoved`, `CardDivergences` | the `MC` module of the component | A counterexample each (run with `-continue`, `CardDivergences` three and `WorkspaceDefault` and `KeyRemoved` two; `PanelDivergences`, as its comments say, two): see [below](#where-code-and-documents-disagree) |

**Fairness** is assumed in two places. `FairSpec` of RegistryStore is weak fairness of each
saver's next step (a goroutine inside `save` keeps running) and strong fairness of taking the
mutex (`sync.Mutex` hands itself to a waiter that has starved for a millisecond). `Spec` of
PanelSession is weak fairness of `ServeOp` and `OpAnswered`: a handler
ends, since its calls to Bifrost time out (12 seconds) and so does its server, and a `fetch` ends
with an answer or an error, which are steps of the model alike.
Clients, operators and other programs owe nothing. No other liveness is claimed: the admin jobs
end because their calls have timeouts, which makes "returns" a property of Go's `context`, not of
this code.

## The proofs

`tlapm` checks these for every value of the constants that satisfies the named assumptions
(`StoreAssumption`, `ConfigAssumption`, `EditAssumption`, `NativeNamesAssumption`,
`GuardAssumption`, `ServiceAssumption`, `LiveAssumption`, `PricingAssumption`,
`CatalogAssumption`, `SessionAssumption`, `IdleAssumption`, `AdoptionAssumption`,
`LedgerAssumption`, `PageAssumption`, `WorkspaceAssumption`, `EditorAssumption`,
`ListsAssumption`, `PagesAssumption`, `LibraryAssumption`, `CatalogPagesAssumption`), which TLC
evaluates in the runs. They say that marks such as `None` are not values, that tables have their
types, that bounds are numbers, and besides that (guard) every access serves some endpoint; (lists)
keys and models are finitely many, since they are counted, and a key of the gateway has an id of
its own whichever provider it is for; (library) an access is discovered under one identifier, and
a file has no link for an access it does not list.

| module | theorems | argument |
|---|---|---|
| ServerProofs, of RegistryStore | `TypeCorrect`, `RefusalIsClean`, `AmbiguityMonotone`; with `OneStore`: `LoadableStays`, `UpdatesAreNotLost`, `BackupIsComplete`, `MemoryFollowsFile`, `StoreImplementsRegister` | A saver past `Lock` owns the mutex of its store, so at most one saver of a store is inside; one past `Check` has compared its expected revision with memory and found no new ambiguity; a backup exists only from `Backup` on. With one store and no foreign edit the file is what the owner's step says it is, and otherwise what memory holds. That last part is the strengthening: nothing local to a save says that no other save happened |
| RegistryConfigProofs, of ConfigEdits | `RoutesAreGranted`, `NothingIsLost`, `NamesServed`, `SharingIsChosen`, `WorkingModelsStay`, `ChoicesRepair`, `AdoptionsPreserve` | The published configuration compiles. That is inductive because `Save` compiles; the rest follows from what `Compiles` excludes. A repair compiles because it changes one alias of one key, and what the other aliases are offered does not depend on it |
| RegistryConfigProofs, of WorkspaceEdits | `WorkspaceInvariant`, `PreviewsMatch`, `EveryChangeIsReread`, `OperatorChoicesSurvive`, `AnnouncedLosses` | The file always loads, since `putWorkspace` compiles what it builds (`WorkspaceInv`). A workspace that is accepted comes back as it was sent (`SavedIsShown`), so nothing is lost by rebuilding every record. Who is eligible is one formula over the cards, the members and the policy the panel sees, before a save (`EligibleNow`) and after it (`EligibleNext`): a key a save does not read back has the same formula on both sides, and the same offers with the same choices make the same routes, nothing newly ambiguous being accepted (`SameRoutes`). That a key keeps its switch is needed on top: what is sent for a key in step is what the file has (`SentFlags`), and only the steps named lose that (`StepIsLost`) |
| RequestGuardProofs | `SentIsWithinPolicy`, `AnswersAreConfirmed`, `AcceptedServed`, `ServiceInvariant`, `GuardTypeCorrect` | Every entry of a session's table of attempts was granted by some route of the pinned policy, also one overwritten by a later name; and an attempt past the pre-hook was verified against the session, which never changes |
| ServerProofs, of AdminLive | `NativeWritesBacked`, `VerifiedStaysInForce`, `VerifiedIsMatched`, `PublishedIsApplied`, `PublishesHold`, `AdoptionIsExact`, `LiveTypeCorrect` | A job's plan is the store's configuration from its save on, unless `moved`; keys it has done hold what the plan wants, unless `touched`. A proof whose revision is not in force is still true: a later publish that changes the key clears it, so bringing the old revision back is harmless |
| PricingSyncProofs | `VerifiedHolds`, `WrongHolds`, `ReportsHold`, `CleanHolds`, `RetryHolds`, `ForeignHolds`, `PricingTypeCorrect` | During a pass each slot is either still ahead (its key not yet listed, or in `todo` or `stale`), or done and as wanted, or reported. The IDs listed are owned by the registry and stay so until used, unless `touched` |
| CatalogSourcesProofs | `CatalogImplementsLayers`, `OneSnapshot`, `ShownValuesAreSourced`, `ShownHolds`, `Prepared`, `MismatchesAreShown`, `CatalogTypeCorrect` | The store's catalogue and both catalogues of every request are `Good` (data of one snapshot, links valid, and *complete*: nothing the snapshot lists is missing, without which a record created later could contradict it), and the second is derived from the first by one edit or by the refreshes so far; refreshes of different sources chain into one. `Save` compares the first with the store, so the same holds of the store's step |
| PanelSessionProofs, of PanelSession | `PublishesAreCertain`, `SavesReplaceWhatWasSeen`, `WorkOutlivesAnswers`, `SessionInvariant`, `SessionTypeCorrect` | Whatever the panel holds, and whatever an answer under way brings, is a workspace the server had at the revision it names (`PastInv`); a save sends what its revision held but for its key (`SendsInv`). A doubt closes publishing or signs the panel out, and every call whose answer could open it brings a workspace as new as the doubt, but for a reload the save overtook (`DoubtInv`). The run has one act of each kind, the theorem any number; `SessionInv` is also model-checked with two |
| PanelSessionProofs, of CardEditor | `SavesAreAsShown`, `OffersAreAccepted`, `CorrectionsAreAsPreviewed`, `CardsComeBack` | A row nobody typed is the saved card's or was offered, so no other card has its access unless it was offered while the draft had that card's identifier (`OthersInv`), and such rows stay in the order of the saved card (`OrderInv`): sorted rows that are the saved ones are the saved card (`SortedIsSaved`, by induction on the place). What is sent is the difference between the rows and the saved card, and `Linked` applies it, whatever moved elsewhere: with the panel's catalogue the file's, every fact shown is the fact composed (`SaveAppliesShown`). A correction kept reaches the accesses linked to its record in the draft, and no others (`StagedAsPreviewed`) |
| KeyLedgerProofs | `DialogDoesWhatItShows`, `LedgerHolds`, `ChoicesLead`, `LedgerInvariant`, `LedgerTypeCorrect` | A call of the dialog is about what it shows (`AskInv`), and what the server has read for it was put together before the change it has not seen (`PlanInv`): a plan that passed the comparison has the token of what is shown, so the same selection and the same rows, and with no change since its first read it is the key as it is. A check, a verdict, a page begun since the last change in Bifrost and the last save is of the key as it is (`CheckInv`, `ProofInv`, `PageInv`): the claims of a page that reads as verified are then facts of one state, and its total is a union of disjoint parts of what the key can call. The choices settle because the set of decisions left shrinks with each; a preview with none left, and not empty, can be applied |
| PagesProofs, of PanelPages | `PagesInvariant`, `SecretsAreShownRight`, `ImportsAreReviewed`, `SettingsSavedAreListed`, `ProposalsAreReviewed` | What is kept says what it was asked for, and is dropped when that changes: the one secret is that of the key asked for, which the page still shows (`SecretInv`); a write under way, and one left behind by its page, carries what it was compared with or listed for (`LeftInv`), and the server takes it only over that. Until a second file is chosen while one is read there is one reading, so what is previewed is what is sent (`SnapshotInv`); the models listed are those of the key of the form unless the form was cleared (`AssistantInv`); a row of a proposal is ticked by the operator, or fills a fact the card lacks (`CardInv`) |
| PagesProofs, of PanelLists | `ListsAreRemembered`, `SelectionsAreVisible`, `ResultsAreShown` | A list shows what the memory has for it, and a setting changes the entry of its own list alone, in the memory and in `wanted` alike (`MemoryInv`, `ShownInv`); an option picked stays in force because an override is stored where it differs from the preference and removed where it does not (`ViewInv`). A fold that is closed was closed by the operator, in the mode it is looked at (`FoldsInv`), which leaves what the filters find on screen or behind Show more; keys on screen and keys folded away are disjoint, so they add up. The gateway's tree and table are two foldings of one set of keys: the ids of keys being their own, they list the same |
| PagesProofs, of CatalogPages | `LibraryInvariant`, `ShelfIsTrue`, `ChangesAreChosen` | A copy of the catalogue is older than the file, or the file's; and it has the links of the cards if it has their revision (`Fits`), whatever arrives when, since a step of the file gives it a revision no copy has (`FitsKept`). So tiles do not move when the catalogue of the cards arrives; a draft of the present revision was made of the cards there are, and sends no link that is not in the file; a request accepted was made from the catalogue it changes. That a tile is joined by a card the editor offers it to, and that each access is on one tile, needs no invariant: the complete group of a tile holds, of what is to be added, the tile and nothing else (`CompleteGroup`) |

`AmbiguityMonotone` and `RefusalIsClean` need neither `OneStore` nor `Alone`; the other store
theorems do, and the program promises no more: `docs/SECURITY.md:35`, `docs/INSTALL.md:15` and
`docs/ACCEPTANCE.md:44` forbid two processes on one volume. That an open store does not see a
foreign edit until it is opened again is documented too
(`docs/design/capabilities-inventory.md:92`).

All properties of the runs are stated by a theorem, but `EverySaveReturns`. `NoLostUpdate`,
`BackupHoldsWhatIsReplaced`, `MemoryMatchesFile`, `RefusedSaveWritesNothing`,
`SharedOnlyByChoice`, `VerifiedMeansMatched`, `AdoptionTakesWhatIsThere`, `RetryDoesNotDuplicate`,
`ForeignIsUntouched`, `DataAreOfOneSnapshot`, `PreparedIsValid` and the type invariants are proved
and no longer need a run. `PROJECT.json` lists the theorems a reader should know first; the type
invariants and the parts of a listed theorem are proved beside them.

Only model-checked: `EverySaveReturns` and `BusyEnds`, since liveness is out of the prover's
reach. No recursion over data is claimed: what a model folds or sums is of a bounded size in the
code too. The proofs say nothing of what the models leave out (below), and the bounds of the
models (`MaxChanges`, `MaxGets`, `MaxLeft` and the like) are any numbers in them.

What proving changed in the models: `SecretIsOfShownKey` now covers every closed dialog and not
only that of the page's key; a form, a card with a proposal applied and an overridden view are
records with their fields written out; and that a key of the gateway has an id of its own, on
which the agreement of its tree and its table rests, is now an assumption.

## Where code and documents disagree

Each has a configuration whose counterexample shows it.

* `GuardAccepted`: an attempt that no name of the request authorized passes when the policy
  exposes it directly (`internal/registry/runtime.go:75`); `docs/SECURITY.md:15` says that it must
  be one of the routes accepted for that request. `SentWithinPolicy` shows that it stays inside
  the policy.
* `AdminAdopted`: a publish under way, or a native edit, rewrites a key that `/api/config`
  adopted meanwhile (`internal/admin/native_permissions.go:139`, `live.go:1015` against
  `docs/USER-GUIDE.md:104`).
* `PricingShown`: a provider key whose list failed leaves no proof for a correction never tried
  before, and the panel says "applied" (`internal/admin/pricing_overrides.go:207` against
  `docs/design/model-card-bifrost-contract.md:292`).
* `CatalogConflict`: the second refresh of a snapshot flags as "no exact reference" the accesses
  that the first linked by their ID (`internal/registry/catalog.go:315` against
  `docs/design/core-v1-spec.md:109`).
* `WorkspaceDefault`: `docs/USER-GUIDE.md:35` says that a model is selected with all its accesses
  unless some are excluded; the compiler withholds one with several and no selection
  (`internal/registry/config.go:540`).
* `WorkspaceDefault`, `DisabledStaysOff`: "A disabled key is rejected" (`docs/CONFIGURATION.md:43`),
  and the page of an adopted key offers Disable (`keys/KeyDetailPage.tsx:111-123`), which writes
  `enabled: false` and nothing in Bifrost (`internal/admin/live.go:1015-1020`). The next workspace
  shows the key active, as Bifrost has it (575), and the next save of anything else, on any page,
  sends that back and enables it (962): its names are served again, it is not in the list of keys
  to read back, and nothing says so. `ChangedKeysAreReread` and `LossesAreShown` leave out keys
  out of step (`InStep`), and the first says every way a save puts one there.
* `PanelDivergences`, `ReadFirst`: an answer that arrives after a key's page opened replaces its policy but not
  the draft copied from it (`ui/src/app/App.tsx:522`), so the composer of a key nobody edited is
  dirty with what was read first (`App.tsx:185` says otherwise).
* `PanelDivergences`, `ReloadsBeforePublishing`: "Reload before another write" says the warning of
  a save whose outcome is unknown (`ui/src/app/App.tsx:439`), but a reload begun for one such save
  and overtaken by a second clears the warning of both (`App.tsx:230-238`), and a key can be
  published unread. `PublishesOnCertainty` excepts that reload (`overtaken`) and nothing else.
* `KeyRemoved`: a native edit that takes a model off a row where it stands beside the wildcard
  leaves it callable (`internal/admin/native_permissions.go:187`), though the dialog says that
  requests for it will be refused (`keys/NativePermissionEdit.tsx:234`).
* `KeyRemoved`, `NeverAnAdoptedKey`: "the Registry never edits a key on its own, and never an
  adopted one" says `internal/admin/native_permissions.go:23`; the policies are read once, before
  the key and what Bifrost lists (136-155), and the key is written after (113). `/api/config` waits
  for nothing and may adopt the key in between.
* `CardDivergences`, `UnlinkIsRecorded`: an access saved without the link the catalogue would give it is not recorded as
  unlinked when it had none (`internal/admin/workspace_mapping.go:44-47` against its comment at
  22-23), and the next refresh links it.
* `CardDivergences`, `NeverOffersHeld`: "An access another card holds is never offered" says
  `catalog/model-editor-data.ts:194`; the filter (204) leaves out the card of the draft's own
  identifier, and a new card may carry an existing one's until it is saved. The row stays when the
  identifier changes, and the save is refused as a duplicate (`internal/admin/live.go:843`).
* `CardDivergences`, `EditsAreReviewed`: the editor promises a review of the changes before a save
  (`catalog/ModelEditor.tsx:2280`); a changed status of an access is saved and not listed.
* With no configuration any more: a fallback that resolves after a routing alias overwrites what
  that alias authorized, and its target is denied (`internal/registry/runtime.go:252` against
  `config.go:75`).

## What the code does that a reader may not expect

Met while modelling. The properties state what holds beside these, with the exception written in
the property where there is one.

**Workspace saves.** A save of the panel enables disabled accesses again, and switches every key it
does not touch to what the panel was last told of it: a key switched in Bifrost is switched in the
registry by the next save of anything (the routes of a key the save does not name change), and a
save that ended at the native writes leaves keys of which the next workspace tells the old state. A policy that adds or
excludes one access of a card comes back widened to the card: the card goes from the plan at once
though its other accesses are still served, and any save makes it true. The names a filter of a
group gives are not in the plan the composer compares with. `InSight` leaves both out. A save
enables accesses, and gives an adopted key whatever its permission has of a card it added in part:
`Settled` leaves these out. A partial group shows as whole models, so its losses are not announced
(`LossesAreShown` leaves it out), and when another group stops giving a model that the partial one
gives in part, the key loses accesses, the impact shows no change
(`ui/src/domain/registry.ts:175`) and the key is not read back (`ChangedKeysAreReread` leaves it
out for edits of groups). An adopted key's
draft may add models beyond its ceiling: the preview shows them, the compiler drops them. An
access Bifrost does not list blocks every save; a deleted model stays in `prefer`. Removing an
excluded access of a model with two others is refused until the selection is touched.

**Session.** `reconcileBlocked` disables publishing a key only, though its message says "Reload
before another write" (`App.tsx:439`). A partial failure, a failed refresh and a reload clear the
warning. An older GET or readback can replace a newer PUT's answer on screen: the next save is
refused. After a sign-out the answer of a load under way brings the data back; an old 401 can end a
fresh session. An adoption answered after its page was left sets its policy as the draft of the
next key. A PUT that times out and is done after the refresh is not modelled.

**A plan and its write.** An adoption compares the revision again when it saves, and nothing of
Bifrost: a key changed after it was read is adopted as it was (`internal/admin/adoption.go:148`). An
edit compares nothing again: it writes the whole key as read and edited, its rows and whether it is
active, over a change made since (`native_permissions.go:113`), and its readback finds what it
wrote. `DoesWhatItShows` says what holds whatever happens during the call (what is adopted or
written is what was shown) and what holds when nothing does.

**Adoption and its page.** The first preview of a key adopted meanwhile says that the catalogue
changed. The choice kept for disabled providers is lost when the preview after it fails. With
common-ID naming, an access of a kept provider that is put back in the selection is counted "via"
that provider by its common ID; a kept route of that provider and model that Bifrost does not list
is then not flagged, and the badge is a plain "Verified" (`keys/KeySummary.tsx:31` against the
comment at 106): the last conjunct of `LedgerIsTrue` names the case. With provider/model naming
the same access is flagged as a permission kept though nothing is kept. Explicit names beside the
wildcard of a kept provider are not flagged; the total says "at least".

**Cards and catalogue.** The editor offers what its copy of the catalogue calls configured, and
shows what the card has; the server refuses a save with any access that Bifrost no longer lists, one
the card had before included (`internal/admin/live.go:834`), or with one taken off that an adopted key (977) or a locked group
(898-919) names, or that leaves a key with no access of the card or with one to choose (981-992).
The editor looks at none of these: `OfferedIsAccepted` names each (`lost`, `untied`, `unserved`),
and says of what the editor does look at, the other cards, that nothing of theirs is in a draft but
what was offered under their identifier (`twice` within `borrowed`). An older copy of the catalogue
is no cause. "Revert to inherited" stages the inherited value as a correction of the
access's own. A catalogue older than the cards sends an old link as the operator's choice, on save
(CardEditor) and on registration (CatalogPages). A model listed twice by one provider opens
"separately" with both accesses in one draft. A late catalogue answer can replace a newer
mutation's until the next revision. What is typed while its own save is under way is lost when that
succeeds. A reference that exists already is reported as a revision conflict.

**Lists and imports.** Two file reads that overtake each other can make Apply send content that
was not reviewed (`snapshot/SnapshotTransfer.tsx:88-95`; `crossed` in `ImportIsReviewed`). The
preview of an import does not list the assistant's settings (`internal/admin/snapshot.go:138-157`).
A shelf closed during a search stays closed for the next one, and a filter naming a deleted group
or client goes on hiding keys behind a blank select. A 401 keeps the session's filters; only the
sign-out forgets them. Choosing on one list the option the preference has deletes the list's
override. A failed reload of the assistant's settings leaves the model list loading until Retry.

**Server.** A removed cost may stay in Bifrost when PUT merges (`pricing_overrides.go:310`); a
managed key deleted in Bifrost makes every later publish answer 422 (`live.go:984`);
`MatchConflict` stays on an access a snapshot dropped (`catalog.go:303`); references are never
removed (`catalog.go:95`); `Cleanup` drops the store after five seconds, saves or not
(`native/main.go:120`; the store it leaves beside the next one is `Stores` of RegistryStore); the
readback of prices has an absolute tolerance (`pricing_overrides.go:325`); native aliases are
merged without regard to case in the order of a map (`live.go:1167`); a provider key ID with a
slash makes overrides that the registry never owns.

## What is not modelled

The map covers about a third of the implementation as counted in TypeScript, and the Go server
besides. The rest of the panel is drawing: markup, classes, icons, wording in two languages, help and
the tour, focus, the generic components of `ui/src/components/ui/`. What is left out of parts
that are modelled:

* Native plan and aliases: one pure merge; AdminLive has its call.
* Rebinding of credentials in adoption (RequestGuard has its effect on requests), blacklists,
  regex entries, the local copy (`snapshotMode`), the details of a 401 in the dialogs.
* Stream chunks and the syntax of headers and bodies in the guard: parsing, no order to get wrong
  beyond what `PostLLM` has.
* The eight parallel look-ups of a refresh of Bifrost: CatalogSources has their outcome, an answer
  or a failure.
* Export and CSV, the language model's call and the parsing of its answer, HTTP authentication,
  `cmd/`, packaging and scripts: one step each, pure I/O, or no behaviour of the running registry.
* Overlapping catalogue requests of one panel (the code disables the buttons), the tree view and
  overlay of the group sheet, tours and keyboard focus.
* Two prices closer than the readback's tolerance, the 12,000 references limit and other numeric
  limits beyond any instance TLC can check.

## Plan

The runs are at their useful number; what would be added next, in this order.

1. **AliasMerge**: `MergeAliases` and `installAliases`, case-insensitive conflicts that fail
   closed, over any order of the maps.
2. **RefreshLookups**: eight slots, first error wins, all or nothing, and termination.
3. CatalogPages with the calls of PanelSession, as one composed module: today a save of cards is
   one step beside the catalogue's requests.
