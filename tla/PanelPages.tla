------------------------------- MODULE PanelPages -------------------------------
(***************************************************************************)
(* The panel's pages that ask the server for something and wait: the       *)
(* import of a snapshot (SnapshotTransfer.tsx), the settings of the AI     *)
(* assistant (RegistrySettings.tsx, AssistantSettings.tsx), its proposal   *)
(* for a card (AssistantSuggestion.tsx, assistant-proposal.ts) and the     *)
(* secret of a key (VirtualKeySecret.tsx), on top of the lists.            *)
(*                                                                         *)
(* The registry file is its content and the assistant's settings, and its  *)
(* revision is what it holds (a hash).  A read of the server is one step,  *)
(* when its answer arrives; a write is one step too, its answer received   *)
(* or lost, and goes on when the page that sent it is left.  A read that   *)
(* the page no longer waits for has no effect and is forgotten at once.    *)
(***************************************************************************)
EXTENDS PanelLists

CONSTANTS
    Contents,   \* what a registry file can hold besides the assistant's settings
    Invalid,    \* contents the server refuses
    LModels,    \* models of a language model
    Lists,      \* the models the server may list for each key
    Files,      \* files that can be chosen for an import
    MaxReads,   \* bound on the files being read at once
    MaxLeft,    \* bound on the writes under way whose page was left
    Values,     \* values of a fact of a card
    Drafts,     \* cards that may be opened
    Proposals   \* what the assistant may answer

Cleared == [key |-> None, model |-> None, endpoint |-> None]
Settings == [key : Keys \cup {None}, model : LModels \cup {None}, endpoint : {"set", None}]
Configs == [content : Contents, assistant : Settings]
Facts == {"name", "creator", "reference"}
Cards == [name : Values \cup {None}, creator : Values \cup {None},
          reference : (SUBSET (Values \cup {None})) \ {{}}, byHand : BOOLEAN]

ASSUME PagesAssumption ==
    /\ Invalid \subseteq Contents /\ Files \subseteq Configs /\ {MaxReads, MaxLeft} \subseteq Nat
    /\ \A k \in Keys : Lists[k] \subseteq SUBSET LModels
    /\ None \notin Values /\ Drafts \subseteq Cards
    /\ \A p \in Proposals : p \in [DOMAIN p -> Values] /\ DOMAIN p \subseteq Facts

VARIABLES
    file,     \* the registry file
    written,  \* how often it was written otherwise than by this panel: at most once
    tool,     \* what the page on screen keeps besides its list, or None
    left      \* writes still under way whose page was left

toolVars == <<file, written, tool, left>>
allVars == <<vars, toolVars>>

NoForm == [section |-> "assistance", loaded |-> None, form |-> Cleared, choices |-> None,
           loading |-> FALSE, failed |-> FALSE, error |-> FALSE, conflict |-> FALSE, asked |-> None, busy |-> None]

\* What each page starts with.
ToolOf(p) ==
    CASE p = "snapshot" -> [raw |-> None, reads |-> {}, crossed |-> FALSE, preview |-> None,
                            receipt |-> FALSE, stale |-> FALSE, busy |-> None]
      [] p = "settings" -> [section |-> "general"]
      [] p \in {"key", "edit"} -> [open |-> FALSE, secret |-> None, of |-> None, busy |-> None, key |-> at']
      [] OTHER -> None

PagesInit ==
    /\ ListsInit
    /\ file \in {f \in Files : f.content \notin Invalid /\ f.assistant = Cleared}
    /\ written = 0 /\ tool = None /\ left = {}

Busy == IF tool = None \/ "busy" \notin DOMAIN tool THEN None ELSE tool.busy
IsWrite(r) == r # None /\ r.what \in {"import", "settings"}
Writes == left \cup {r \in {Busy} : IsWrite(r)}

\* A page is left with what it kept; the key page goes on while its key is edited.
PageFollows ==
    IF page' = page \/ ({page, page'} = {"key", "edit"} /\ at' = at) THEN UNCHANGED toolVars
    ELSE /\ tool' = ToolOf(page')
         /\ left' = Writes /\ Cardinality(left') <= MaxLeft
         /\ UNCHANGED <<file, written>>

Unmounted(t) ==
    /\ tool' = t /\ left' = Writes /\ Cardinality(left') <= MaxLeft
    /\ UNCHANGED <<vars, file, written>>
Keeps(t) == tool' = t /\ UNCHANGED <<vars, file, written, left>>

-----------------------------------------------------------------------------
(* The server.                                                             *)

\* Another operator, or the registry itself: any valid file.
WrittenElsewhere(f) ==
    /\ "others" \in session /\ written = 0 /\ f # file /\ f.content \notin Invalid
    /\ file' = f /\ written' = 1
    /\ UNCHANGED <<vars, tool, left>>

\* snapshotHandler and putAssistantSettings: refused with 409 when the file is another than the
\* one the write is over, with 422 when it cannot be served or the model is not one of the
\* key's.
Statuses(r) ==
    IF r.over # file THEN {409}
    ELSE IF r.what = "import" THEN {IF r.body.content \in Invalid THEN 422 ELSE 200}
    ELSE {200} \cup (IF r.body.assistant.model # None THEN {422} ELSE {})

Effect(r, status) == IF status = 200 THEN r.body ELSE file

LeftEnds ==
    \E r \in left : \E status \in Statuses(r) :
        /\ file' = Effect(r, status) /\ left' = left \ {r}
        /\ UNCHANGED <<vars, written, tool>>

-----------------------------------------------------------------------------
(* Import and export.                                                      *)

\* Mutant of ChooseFile: what was there stays until the file is read, and its preview after.
ChooseFileOnly(f, readable) ==
    /\ page = "snapshot" /\ tool.busy = None /\ Cardinality(tool.reads) < MaxReads
    /\ Keeps([tool EXCEPT !.reads = IF readable THEN @ \cup {f} ELSE @, !.crossed = @ \/ tool.reads # {}])

\* choose: what was there is cleared, then the file is read, or refused for its size.
ChooseFile(f, readable) ==
    /\ page = "snapshot" /\ tool.busy = None /\ Cardinality(tool.reads) < MaxReads
    /\ Keeps([tool EXCEPT !.raw = None, !.preview = None, !.receipt = FALSE, !.stale = FALSE,
                !.reads = IF readable THEN @ \cup {f} ELSE @,
                !.crossed = @ \/ tool.reads # {}])

\* A file that was read and is a JSON object, or not; nothing says which choice it was for.
FileRead(f, valid) ==
    /\ page = "snapshot" /\ f \in tool.reads
    /\ Keeps([tool EXCEPT !.reads = @ \ {f}, !.raw = IF valid THEN f ELSE @])

\* run: one request at a time.
PreviewFile ==
    /\ page = "snapshot" /\ tool.busy = None /\ tool.raw # None
    /\ Keeps([tool EXCEPT !.preview = None, !.busy = [what |-> "preview", body |-> tool.raw]])

\* snapshotPreview.
Preview(body) == [of |-> body, over |-> file, unchanged |-> body = file]

PreviewArrives ==
    /\ page = "snapshot" /\ tool.busy # None /\ tool.busy.what = "preview"
    /\ \/ /\ tool.busy.body.content \notin Invalid
          /\ Keeps([tool EXCEPT !.busy = None, !.preview = Preview(tool.busy.body),
                       !.stale = FALSE, !.receipt = FALSE])
       \/ Keeps([tool EXCEPT !.busy = None])

ApplyFile ==
    /\ page = "snapshot" /\ tool.busy = None
    /\ tool.preview # None /\ ~tool.stale /\ ~tool.preview.unchanged
    /\ Keeps([tool EXCEPT !.busy = [what |-> "import", body |-> tool.raw, over |-> tool.preview.over,
                                    seen |-> tool.preview, crossed |-> tool.crossed]])

\* The answer to an import: received, or lost with the file written.
ImportEnds(received) ==
    /\ page = "snapshot" /\ IsWrite(tool.busy)
    /\ \E status \in Statuses(tool.busy) :
          /\ file' = Effect(tool.busy, status)
          /\ tool' = IF received /\ status = 200
                     THEN [tool EXCEPT !.busy = None, !.preview = None, !.receipt = TRUE]
                     ELSE [tool EXCEPT !.busy = None, !.stale = @ \/ (received /\ status = 409)]
    /\ UNCHANGED <<vars, written, left>>

-----------------------------------------------------------------------------
(* The settings of the assistant, loaded with their section.               *)

Assisting == page = "settings" /\ tool.section = "assistance"

LoadSettings(t) == [t EXCEPT !.busy = [what |-> "load"], !.asked = None]

ChooseSection(s) ==
    /\ page = "settings" /\ tool.section # s
    /\ s \in {"general", "display", "sources", "connection", "help"} \cup
             (IF "gateway" \in session THEN {} ELSE {"assistance"})
    /\ Unmounted(IF s = "assistance" THEN LoadSettings(NoForm) ELSE [section |-> s])

\* loadModels and loadChoices: the answer to an earlier one is not waited for any more.
AskModels(t, k) ==
    LET cleared == IF t.choices = None THEN None ELSE [t.choices EXCEPT !.models = {}]
    IN [t EXCEPT !.choices = cleared, !.failed = FALSE, !.loading = k # None,
                 !.asked = IF k = None THEN None ELSE [what |-> "models", key |-> k]]

AskChoices(t, k) ==
    [t EXCEPT !.choices = None, !.failed = FALSE, !.loading = TRUE, !.asked = [what |-> "choices", key |-> k]]

SettingsArrive ==
    /\ Assisting /\ tool.busy = [what |-> "load"]
    /\ \/ Keeps(AskChoices([tool EXCEPT !.busy = None, !.loaded = file, !.form = file.assistant,
                              !.error = FALSE, !.conflict = FALSE],
                           file.assistant.key))
       \/ Keeps([tool EXCEPT !.busy = None, !.error = TRUE])

Reload == Assisting /\ tool.error /\ tool.busy = None /\ Keeps(LoadSettings(tool))

\* The keys that can be asked with, and then the models one of them lists.
ChoicesArrive ==
    /\ Assisting /\ tool.asked # None
    /\ LET k == tool.asked.key
       IN IF tool.asked.what = "choices"
          THEN \/ Keeps(AskModels([tool EXCEPT !.choices = [keys |-> world.keys, models |-> {}, of |-> None]],
                                  k))
               \/ Keeps([tool EXCEPT !.asked = None, !.loading = FALSE, !.failed = TRUE])
          ELSE \/ /\ k \in world.keys
                  /\ \E ms \in Lists[k] :
                       Keeps([tool EXCEPT !.asked = None, !.loading = FALSE,
                                !.choices = [keys |-> world.keys, models |-> ms, of |-> k]])
               \/ Keeps([tool EXCEPT !.asked = None, !.loading = FALSE, !.failed = TRUE])

ChooseKey(k) ==
    /\ Assisting /\ tool.busy = None /\ tool.choices # None /\ k \in tool.choices.keys \cup {None}
    /\ tool.form.key # k
    /\ Keeps(AskModels([tool EXCEPT !.form.key = k, !.form.model = None], k))

ChooseModel(lm) ==
    /\ Assisting /\ tool.busy = None /\ tool.form.key # None
    /\ ~tool.loading /\ ~tool.failed /\ tool.choices # None /\ lm \in tool.choices.models
    /\ Keeps([tool EXCEPT !.form.model = lm])

RetryDiscovery ==
    /\ Assisting /\ tool.failed /\ ~tool.loading
    /\ Keeps(IF tool.choices # None THEN AskModels(tool, tool.form.key) ELSE AskChoices(tool, tool.form.key))

ChooseEndpoint(e) ==
    /\ Assisting /\ tool.busy = None /\ e \in {"set", None} /\ tool.form.endpoint # e
    /\ Keeps([tool EXCEPT !.form.endpoint = e])

ClearSettings ==
    /\ Assisting /\ tool.busy = None /\ tool.loaded # None
    /\ LET t == [tool EXCEPT !.form = Cleared] IN Keeps(IF t.choices # None THEN AskModels(t, None) ELSE t)

\* Mutant of CanSave: the model is not looked for among those listed.
CanSaveAnyModel ==
    /\ tool.loaded # None /\ ~tool.error /\ ~tool.conflict
    /\ \/ tool.form = Cleared
       \/ /\ ~tool.loading /\ ~tool.failed /\ tool.choices # None
          /\ tool.form.endpoint # None /\ tool.form.key \in tool.choices.keys

\* canSaveAssistantSettings, and what else disables Save.
CanSave ==
    /\ tool.loaded # None /\ ~tool.error /\ ~tool.conflict
    /\ \/ tool.form = Cleared
       \/ /\ ~tool.loading /\ ~tool.failed /\ tool.choices # None
          /\ tool.form.endpoint # None
          /\ tool.form.model \in tool.choices.models /\ tool.form.key \in tool.choices.keys

\* The server looks the models of the key up again before it saves.
SaveSettings ==
    /\ Assisting /\ tool.busy = None /\ CanSave
    /\ Keeps([tool EXCEPT !.error = FALSE,
                !.busy = [what |-> "settings", over |-> tool.loaded,
                          body |-> [tool.loaded EXCEPT !.assistant = tool.form], listed |-> tool.choices]])

SettingsEnd(received) ==
    /\ Assisting /\ IsWrite(tool.busy)
    /\ \E status \in Statuses(tool.busy) :
          /\ file' = Effect(tool.busy, status)
          /\ tool' = IF received /\ status = 200
                     THEN [tool EXCEPT !.busy = None, !.loaded = file', !.form = file'.assistant]
                     ELSE [tool EXCEPT !.busy = None, !.error = TRUE, !.conflict = @ \/ (received /\ status = 409)]
    /\ UNCHANGED <<vars, written, left>>

-----------------------------------------------------------------------------
(* A proposal for the card being edited, over the models page.             *)

\* A fact that has no value; the reference of a card is those of its accesses.
Missing(f, d) == d[f] = None

\* suggestionRows: the facts proposed otherwise than they are.
RowsOf(d, proposal) ==
    {f \in DOMAIN proposal : IF f = "reference" THEN d[f] # {proposal[f]} ELSE d[f] # proposal[f]}

Preselected(d, proposal) == {f \in RowsOf(d, proposal) \ {"reference"} : Missing(f, d)}

OpenCard(d) ==
    /\ page = "models" /\ tool = None /\ "card" \in session
    /\ Keeps([draft |-> d, busy |-> None, proposal |-> None, against |-> None, selected |-> {}, ticked |-> {}])

Editing == page = "models" /\ tool # None

CloseCard == Editing /\ Unmounted(None)

\* The card's other controls.
TypeFact(f, v) ==
    /\ Editing /\ f \in {"name", "creator"} /\ v \in Values \cup {None} /\ tool.draft[f] # v
    /\ Keeps([tool EXCEPT !.draft[f] = v, !.draft.byHand = @ \/ f = "creator"])

Generate ==
    /\ Editing /\ tool.busy = None
    /\ Keeps([tool EXCEPT !.busy = [what |-> "suggest", draft |-> tool.draft], !.proposal = None])

\* Dropped when the card has changed meanwhile, or nothing of it is usable.
ProposalArrives ==
    /\ Editing /\ tool.busy # None
    /\ \/ \E p \in Proposals :
            /\ tool.draft = tool.busy.draft /\ RowsOf(tool.draft, p) # {}
            /\ Keeps([tool EXCEPT !.busy = None, !.proposal = p, !.against = tool.draft,
                        !.selected = Preselected(tool.draft, p), !.ticked = {}])
       \/ Keeps([tool EXCEPT !.busy = None])

\* Mutant of Reviewed: whatever was typed since.
ReviewedStill == Editing /\ tool.proposal # None

\* The proposal is on screen while the card is the one it was asked for.
Reviewed == Editing /\ tool.proposal # None /\ tool.draft = tool.against

TickRow(f) ==
    /\ Reviewed /\ f \in RowsOf(tool.draft, tool.proposal)
    /\ Keeps([tool EXCEPT !.selected = IF f \in @ THEN @ \ {f} ELSE @ \cup {f}, !.ticked = @ \cup {f}])

\* applySuggestion: a reference goes to every access, and a creator is the operator's.
Applied(d, proposal, rows) ==
    LET From(f) == IF f \in rows THEN proposal[f] ELSE d[f]
    IN [name |-> From("name"), creator |-> From("creator"),
        reference |-> IF "reference" \in rows THEN {proposal["reference"]} ELSE d.reference,
        byHand |-> d.byHand \/ "creator" \in rows]

ApplyProposal ==
    /\ Reviewed /\ tool.selected # {}
    /\ Keeps([tool EXCEPT !.draft = Applied(@, tool.proposal, tool.selected \cap RowsOf(@, tool.proposal)),
                !.proposal = None, !.against = None, !.selected = {}, !.ticked = {}])

-----------------------------------------------------------------------------
(* The secret of a key, and its page.                                      *)

Secretive == page \in {"key", "edit"} /\ at # None
NoSecret(t) == [t EXCEPT !.secret = None, !.of = None, !.busy = None]

\* Mutant of VisibleSecret: whichever key it was asked for.
AnySecret == IF Secretive THEN tool.secret ELSE None

VisibleSecret == IF Secretive /\ tool.of = at THEN tool.secret ELSE None

OpenSecret ==
    /\ "secret" \in session /\ Secretive /\ tool.key = at /\ ~tool.open
    /\ Keeps([tool EXCEPT !.open = TRUE])

CloseSecret ==
    /\ Secretive /\ tool.open
    /\ Keeps([NoSecret(tool) EXCEPT !.open = FALSE])

Reveal ==
    /\ Secretive /\ tool.key = at /\ tool.open /\ tool.busy = None
    /\ Keeps([NoSecret(tool) EXCEPT !.busy = [what |-> "reveal", key |-> at]])

\* The secret, or an error: it is masked, or could not be had.
SecretArrives ==
    /\ Secretive /\ tool.busy # None
    /\ \/ Keeps([tool EXCEPT !.busy = None, !.secret = tool.busy.key, !.of = tool.busy.key])
       \/ Keeps([tool EXCEPT !.busy = None])

\* The address, or Back: the page of another key, whose secret is cleared once it is drawn.
VisitKey(k) ==
    /\ page = "key" /\ k \in world.keys \ {at}
    /\ at' = k
    /\ UNCHANGED <<session, world, page, scope, listVars, viewVars, draft, toolVars>>

KeyDrawn ==
    /\ Secretive /\ tool.key # at
    /\ Keeps([NoSecret(tool) EXCEPT !.open = FALSE, !.key = at])

\* The server refused the token: the pages are gone, the session memory is not.
LoggedOut ==
    /\ page \notin {"start", "edit"} /\ (tool # None => page \in {"key", "snapshot", "settings"})
    /\ page' = "start" /\ at' = None /\ shown' = <<>> /\ folds' = NoFolds /\ shut' = {}
    /\ tool' = None /\ left' = Writes /\ Cardinality(left') <= MaxLeft
    /\ UNCHANGED <<session, world, scope, memory, wanted, viewVars, draft, file, written>>

-----------------------------------------------------------------------------
PagesNext ==
    \/ (page = "models" => tool = None) /\ Moves /\ PageFollows
    \/ "card" \notin session /\ Controls /\ UNCHANGED toolVars
    \/ /\ page = "settings" /\ tool.section = "display"
       /\ \E f \in Fields : \E v \in Choices[f] : SetPreference(f, v)
       /\ UNCHANGED toolVars
    \/ \E f \in Files : WrittenElsewhere(f)
    \/ LeftEnds
    \/ \E f \in Files : \E ok \in BOOLEAN : ChooseFile(f, ok) \/ FileRead(f, ok)
    \/ PreviewFile \/ PreviewArrives \/ ApplyFile
    \/ \E ok \in BOOLEAN : ImportEnds(ok) \/ SettingsEnd(ok)
    \/ \E s \in {"general", "display", "sources", "connection", "help", "assistance"} : ChooseSection(s)
    \/ SaveSettings \/ SettingsArrive \/ Reload \/ ChoicesArrive \/ RetryDiscovery \/ ClearSettings
    \/ \E k \in Keys \cup {None} : ChooseKey(k)
    \/ \E k \in Keys : VisitKey(k)
    \/ \E lm \in LModels : ChooseModel(lm)
    \/ \E e \in {"set", None} : ChooseEndpoint(e)
    \/ \E d \in Drafts : OpenCard(d)
    \/ CloseCard \/ Generate \/ ProposalArrives \/ ApplyProposal
    \/ \E f \in Facts : TickRow(f) \/ (\E v \in Values \cup {None} : TypeFact(f, v))
    \/ OpenSecret \/ CloseSecret \/ Reveal \/ SecretArrives \/ KeyDrawn
    \/ LoggedOut

PagesSpec == PagesInit /\ [][PagesNext]_allVars

-----------------------------------------------------------------------------
\* An import replaces the file it was compared with, whatever was written meanwhile, and by
\* what was compared, unless a file was chosen while an earlier one was being read: nothing
\* tells their two readings apart (SnapshotTransfer.tsx:77).
ImportIsReviewed ==
    [][ \A r \in Writes \ Writes' :
          r.what = "import" /\ file' # file =>
            /\ r.seen.over = file
            /\ r.crossed \/ (r.seen.of = file' /\ ~r.seen.unchanged) ]_allVars

\* The settings saved replace the ones the form was loaded over, nothing else of the file,
\* and name a model that was listed for the very key they name; or they are cleared.
SettingsAreAsListed ==
    [][ \A r \in Writes \ Writes' :
          r.what = "settings" /\ file' # file =>
            /\ file'.content = file.content /\ r.over = file
            /\ LET s == file'.assistant
               IN s # Cleared => /\ s.key # None /\ s.endpoint # None
                                 /\ r.listed.of = s.key /\ s.model \in r.listed.models ]_allVars

\* A proposal changes only facts the operator kept ticked, of the card it was asked for; one
\* that had a value, or the reference of the accesses, only by the operator's own tick; and
\* what was typed meanwhile is never replaced.
SuggestionIsReviewed ==
    [][ Editing /\ tool' # None /\ tool.proposal # None /\ tool'.proposal = None /\ tool'.draft # tool.draft
        => /\ tool.draft = tool.against
           /\ \A f \in Facts : tool'.draft[f] # tool.draft[f] =>
                /\ f \in tool.selected
                /\ tool'.draft[f] = IF f = "reference" THEN {tool.proposal[f]} ELSE tool.proposal[f]
                /\ ~Missing(f, tool.draft) => f \in tool.ticked
           /\ tool'.draft.creator # tool.draft.creator => tool'.draft.byHand ]_allVars

\* The secret on screen is that of the key whose page it is, and none is kept once its dialog
\* is closed, whichever order pages, requests and answers come in.
SecretIsOfShownKey ==
    /\ VisibleSecret \in {None, at}
    /\ Secretive /\ ~tool.open => tool.secret = None /\ tool.busy = None
=============================================================================
