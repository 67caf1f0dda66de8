---------------------------- MODULE PagesProofs ----------------------------
(***************************************************************************)
(* What the pages of the panel guarantee on any constants, in whichever    *)
(* order pages, requests and answers come: the secret of a key, the import *)
(* of a snapshot, the settings of the assistant and its proposals; what    *)
(* the lists remember, and that a selection is visible; then the shelf of  *)
(* models to add and the changes of the catalogue (CatalogPages).          *)
(***************************************************************************)
EXTENDS PanelPages, CatalogPages, FiniteSetTheorems, TLAPS

\* The key whose page is on screen, and that only its pages have one.
AtInv ==
    /\ at \in Keys \cup {None}
    /\ page = "key" => at # None
    /\ world \in Worlds /\ file \in Configs

\* What the page on screen keeps, page by page.
Previews == [of : Configs, over : Configs, unchanged : BOOLEAN]
Checks == [what : {"preview"}, body : Configs]
Imports == [what : {"import"}, body : Configs, over : Configs, seen : Previews, crossed : BOOLEAN]
SnapshotTools == [raw : Configs \cup {None}, reads : SUBSET Files, crossed : BOOLEAN,
                  preview : Previews \cup {None}, receipt : BOOLEAN, stale : BOOLEAN,
                  busy : {None} \cup Checks \cup Imports]

Offers == [keys : SUBSET Keys, models : SUBSET LModels, of : Keys \cup {None}]
Asks == [what : {"models", "choices"}, key : Keys \cup {None}]
Changes == [what : {"settings"}, over : Configs, body : Configs, listed : Offers \cup {None}]
AssistantTools == [section : {"assistance"}, loaded : Configs \cup {None}, form : Settings,
                   choices : Offers \cup {None}, loading : BOOLEAN, failed : BOOLEAN, error : BOOLEAN,
                   conflict : BOOLEAN, asked : Asks \cup {None},
                   busy : {None} \cup [what : {"load"}] \cup Changes]
OtherSections == [section : {"general", "display", "sources", "connection", "help"}]

Reveals == [what : {"reveal"}, key : Keys]
SecretTools == [open : BOOLEAN, secret : Keys \cup {None}, of : Keys \cup {None}, busy : {None} \cup Reveals,
                key : Keys \cup {None}]

Suggests == [what : {"suggest"}, draft : Cards]
CardTools == [draft : Cards, busy : {None} \cup Suggests, proposal : Proposals \cup {None},
              against : Cards \cup {None}, selected : SUBSET Facts, ticked : SUBSET Facts]

ToolInv ==
    /\ page = "snapshot" => tool \in SnapshotTools
    /\ page = "settings" => tool \in AssistantTools \cup OtherSections
    /\ page \in {"key", "edit"} => tool \in SecretTools
    /\ page = "models" => tool \in CardTools \cup {None}
    /\ page \notin {"snapshot", "settings", "key", "edit", "models"} => tool = None

\* The secret kept is the one of the key asked for, and only an open dialog keeps one.
SecretInv ==
    Secretive => /\ tool.secret \in {None, tool.of}
                 /\ ~tool.open => tool.secret = None /\ tool.busy = None

\* A write under way carries what was compared, or what was listed for its key.
WriteOK(r) ==
    /\ r \in Imports \cup Changes
    /\ r.what = "import" => /\ r.over = r.seen.over /\ ~r.seen.unchanged
                            /\ r.crossed \/ r.body = r.seen.of
    /\ r.what = "settings" =>
          /\ r.body.content = r.over.content
          /\ r.body.assistant # Cleared =>
               /\ r.body.assistant.key # None /\ r.body.assistant.endpoint # None
               /\ r.listed.of = r.body.assistant.key /\ r.body.assistant.model \in r.listed.models

LeftInv == \A r \in left : WriteOK(r)

\* Until a file is chosen while another is read, there is one reading, and nothing else before
\* it ends; what is previewed, or being compared, is the file that was read.
SnapshotInv ==
    page = "snapshot" =>
        /\ tool.preview # None \/ tool.busy \in Checks \ {None} => tool.raw \in Configs
        /\ ~tool.crossed =>
             /\ \A f, h \in tool.reads : f = h
             /\ tool.reads # {} => tool.raw = None /\ tool.preview = None /\ tool.busy = None
             /\ tool.preview # None => tool.preview.of = tool.raw
             /\ tool.busy \in Checks \ {None} => tool.busy.body = tool.raw
        /\ tool.busy \in Imports \ {None} => WriteOK(tool.busy)

\* The models listed are those of the key of the form, unless the form was cleared.
AssistantInv ==
    Assisting =>
        /\ tool.form.key # None /\ tool.asked # None => tool.asked.key = tool.form.key
        /\ tool.asked # None /\ tool.asked.what = "choices" => tool.choices = None
        /\ tool.form.key # None /\ tool.choices # None =>
              tool.choices.models = {} \/ tool.choices.of = tool.form.key
        /\ tool.busy \in Changes \ {None} => WriteOK(tool.busy) /\ tool.form = tool.busy.body.assistant

\* A row is ticked by the operator, or fills a fact the card lacks.
CardInv ==
    Editing /\ tool.proposal # None =>
        tool.against \in Cards /\ tool.selected \ tool.ticked \subseteq Preselected(tool.against, tool.proposal)

PagesInv == AtInv /\ ToolInv /\ SecretInv /\ LeftInv /\ SnapshotInv /\ AssistantInv /\ CardInv

-----------------------------------------------------------------------------
(* What moving between pages and using a list leave alone.                 *)

LEMMA MovesFrame ==
    ASSUME AtInv, Moves
    PROVE  /\ at' \in Keys \cup {None} /\ world' \in Worlds
           /\ page' = "key" => at' # None
           /\ page' = page /\ page \in {"key", "edit"} => at' = at
<1> USE ListsAssumption DEF AtInv, Shows
<1> DEFINE Goal == /\ at' \in Keys \cup {None} /\ world' \in Worlds
                   /\ page' = "key" => at' # None
                   /\ page' = page /\ page \in {"key", "edit"} => at' = at
<1>1. ASSUME NEW p \in session \ {"key", "edit", "card"}, Go(p) PROVE Goal
    BY <1>1 DEF Go
<1>2. ASSUME NEW w \in Worlds, DataArrive(w) PROVE Goal
    BY <1>2 DEF DataArrive
<1>3. ASSUME SignOut PROVE Goal
    BY <1>3 DEF SignOut
<1>4. ASSUME NEW k \in Keys, OpenKey(k) PROVE Goal
    BY <1>4 DEF OpenKey
<1>5. ASSUME AddMissing PROVE Goal
    BY <1>5 DEF AddMissing
<1>6. ASSUME NEW s \in Scopes, Switch(s) PROVE Goal
    BY <1>6 DEF Switch
<1>7. ASSUME EditKey \/ StopEditing PROVE Goal
    BY <1>7 DEF EditKey, StopEditing
<1>8. ASSUME NEW g \in Groups, EditGroup(g) PROVE Goal
    BY <1>8 DEF EditGroup
<1>9. Goal
    BY <1>1, <1>2, <1>3, <1>4, <1>5, <1>6, <1>7, <1>8 DEF Moves
<1> QED BY <1>9

LEMMA ControlsFrame ==
    Controls => UNCHANGED <<session, world, page, at, scope>>
<1> USE DEF Filtered, listVars, viewVars
<1>1. ASSUME NEW v \in Terms \cup {None}, KeySearch(v) \/ GroupSearch(v) \/ ModelSearch(v) \/ GatewaySearch(v)
      PROVE  UNCHANGED <<session, world, page, at, scope>>
    BY <1>1 DEF KeySearch, GroupSearch, ModelSearch, GatewaySearch
<1>2. ASSUME NEW field, NEW v, KeyFilter(field, v) PROVE UNCHANGED <<session, world, page, at, scope>>
    BY <1>2 DEF KeyFilter
<1>3. ASSUME NEW x, FoldKeys(x) \/ ProviderFilter(x) \/ GroupModels(x) \/ SortModels(x) \/ FoldSection(x) \/ ShowMore(x)
      PROVE  UNCHANGED <<session, world, page, at, scope>>
    BY <1>3 DEF FoldKeys, ProviderFilter, GroupModels, SortModels, FoldSection, ShowMore
<1>4. ASSUME NEW fs, ClearFilters(fs) PROVE UNCHANGED <<session, world, page, at, scope>>
    BY <1>4 DEF ClearFilters
<1>5. ASSUME NEW f, NEW v, ChooseView(f, v) PROVE UNCHANGED <<session, world, page, at, scope>>
    BY <1>5 DEF ChooseView
<1>6. ASSUME ResetView \/ ShowSelected \/ SelectVisible PROVE UNCHANGED <<session, world, page, at, scope>>
    BY <1>6 DEF ResetView, ShowSelected, SelectVisible
<1>7. ASSUME NEW x, GatewaySection(x) \/ GatewayLayout(x) \/ AddGroup(x) \/ Toggle(x) \/ Compose(x)
      PROVE  UNCHANGED <<session, world, page, at, scope>>
    BY <1>7 DEF GatewaySection, GatewayLayout, AddGroup, Toggle, Compose
<1> QED BY <1>1, <1>2, <1>3, <1>4, <1>5, <1>6, <1>7 DEF Controls

-----------------------------------------------------------------------------
(* The invariant of the pages, one page at a time.                         *)

LEMMA FreshTool ==
    ASSUME AtInv', LeftInv', tool' = ToolOf(page')
    PROVE  PagesInv'
<1>1. CASE page' = "snapshot"
    <2>1. tool' = [raw |-> None, reads |-> {}, crossed |-> FALSE, preview |-> None,
                   receipt |-> FALSE, stale |-> FALSE, busy |-> None]
        BY <1>1 DEF ToolOf
    <2>2. tool' \in SnapshotTools
        BY <2>1 DEF SnapshotTools
    <2>3. SnapshotInv'
        BY <2>1 DEF SnapshotInv
    <2> QED BY <1>1, <2>2, <2>3 DEF PagesInv, ToolInv, SecretInv, Secretive, AssistantInv, Assisting, CardInv,
           Editing
<1>2. CASE page' = "settings"
    <2>1. tool' = [section |-> "general"]
        BY <1>2 DEF ToolOf
    <2>2. tool' \in OtherSections /\ ~Assisting'
        BY <2>1 DEF OtherSections, Assisting
    <2> QED BY <1>2, <2>2 DEF PagesInv, ToolInv, SecretInv, Secretive, SnapshotInv, AssistantInv, CardInv, Editing
<1>3. CASE page' \in {"key", "edit"}
    <2>1. tool' = [open |-> FALSE, secret |-> None, of |-> None, busy |-> None, key |-> at']
        BY <1>3 DEF ToolOf
    <2>2. tool' \in SecretTools
        BY <2>1 DEF SecretTools, AtInv
    <2>3. SecretInv'
        BY <2>1 DEF SecretInv
    <2> QED BY <1>3, <2>2, <2>3 DEF PagesInv, ToolInv, SnapshotInv, AssistantInv, Assisting, CardInv, Editing
<1>4. CASE page' \notin {"snapshot", "settings", "key", "edit"}
    <2>1. tool' = None
        BY <1>4 DEF ToolOf
    <2> QED BY <1>4, <2>1 DEF PagesInv, ToolInv, SecretInv, Secretive, SnapshotInv, AssistantInv, Assisting,
           CardInv, Editing
<1> QED BY <1>1, <1>2, <1>3, <1>4

LEMMA KeptTool ==
    ASSUME PagesInv, UNCHANGED <<page, at, tool>>, world' \in Worlds, file' \in Configs, LeftInv'
    PROVE  PagesInv'
BY DEF PagesInv, AtInv, ToolInv, SecretInv, SnapshotInv, AssistantInv, CardInv, Secretive, Assisting,
       Editing

LEMMA WritesReviewed ==
    ASSUME PagesInv
    PROVE  \A r \in Writes : WriteOK(r)
<1> USE DEF PagesInv
<1>1. SUFFICES ASSUME IsWrite(Busy) PROVE WriteOK(Busy)
    BY DEF Writes, LeftInv
<1>2. Busy = tool.busy /\ tool # None /\ tool.busy # None /\ tool.busy.what \in {"import", "settings"}
    BY <1>1 DEF Busy, IsWrite
<1>3. CASE page = "snapshot"
    BY <1>2, <1>3 DEF ToolInv, SnapshotTools, SnapshotInv, Checks
<1>4. CASE page = "settings"
    <2>1. tool \in AssistantTools
        BY <1>1, <1>2, <1>4 DEF ToolInv, OtherSections, Busy
    <2>2. tool.busy \in Changes
        BY <2>1, <1>2 DEF AssistantTools, Changes
    <2>3. Assisting
        BY <2>1, <1>4 DEF Assisting, AssistantTools
    <2> QED BY <2>2, <2>3, <1>2 DEF AssistantInv
<1>5. CASE page \in {"key", "edit"}
    BY <1>2, <1>5 DEF ToolInv, SecretTools, Reveals
<1>6. CASE page = "models"
    BY <1>2, <1>6 DEF ToolInv, CardTools, Suggests
<1> QED BY <1>2, <1>3, <1>4, <1>5, <1>6 DEF ToolInv

LEMMA NavigationStep ==
    ASSUME PagesInv, page = "models" => tool = None, Moves, PageFollows
    PROVE  PagesInv'
<1>1. AtInv' /\ (page' = page /\ page \in {"key", "edit"} => at' = at)
    BY MovesFrame DEF PagesInv, AtInv, PageFollows, toolVars
<1>2. CASE page' = page \/ ({page, page'} = {"key", "edit"} /\ at' = at)
    <2>1. UNCHANGED toolVars
        BY <1>2 DEF PageFollows
    <2>2. LeftInv'
        BY <2>1 DEF PagesInv, LeftInv, toolVars
    <2>3. CASE page' = page
        <3>1. page \notin {"key", "edit"} => PagesInv'
            BY <1>1, <2>1, <2>2, <2>3 DEF PagesInv, ToolInv, SecretInv, SnapshotInv, AssistantInv, CardInv,
               Secretive, Assisting, Editing, toolVars
        <3>2. page \in {"key", "edit"} => PagesInv'
            BY <1>1, <2>1, <2>2, <2>3, KeptTool DEF AtInv, toolVars
        <3> QED BY <3>1, <3>2
    <2>4. CASE {page, page'} = {"key", "edit"} /\ at' = at
        <3>1. page \in {"key", "edit"} /\ page' \in {"key", "edit"}
            BY <2>4
        <3> QED BY <1>1, <2>1, <2>2, <2>4, <3>1 DEF PagesInv, ToolInv, SecretInv, SnapshotInv, AssistantInv,
               CardInv, Secretive, Assisting, Editing, toolVars
    <2> QED BY <1>2, <2>3, <2>4
<1>3. CASE ~(page' = page \/ ({page, page'} = {"key", "edit"} /\ at' = at))
    <2>1. tool' = ToolOf(page') /\ left' = Writes
        BY <1>3 DEF PageFollows
    <2>2. LeftInv'
        BY <2>1, WritesReviewed DEF LeftInv, WriteOK
    <2> QED BY <1>1, <2>1, <2>2, FreshTool
<1> QED BY <1>2, <1>3

\* The server's own steps, and the answers to writes whose page was left.
LEMMA ServerStep ==
    ASSUME PagesInv, LeftEnds \/ \E f \in Files : WrittenElsewhere(f)
    PROVE  PagesInv'
<1>1. ASSUME NEW f \in Files, WrittenElsewhere(f) PROVE PagesInv'
    BY <1>1, KeptTool, PagesAssumption DEF WrittenElsewhere, vars, PagesInv, AtInv, LeftInv
<1>2. CASE LeftEnds
    <2> PICK r \in left : \E status \in Statuses(r) :
              file' = Effect(r, status) /\ left' = left \ {r} /\ UNCHANGED <<vars, written, tool>>
        BY <1>2 DEF LeftEnds
    <2>1. r \in Imports \cup Changes
        BY DEF PagesInv, LeftInv, WriteOK
    <2>2. r.body \in Configs
        BY <2>1 DEF Imports, Changes
    <2>3. file' \in Configs /\ LeftInv'
        BY <2>2 DEF Effect, PagesInv, AtInv, LeftInv
    <2> QED BY <2>3, KeptTool DEF vars, PagesInv, AtInv
<1> QED BY <1>1, <1>2

\* The import of a snapshot.
LEMMA SnapshotStep ==
    ASSUME PagesInv,
           \/ \E f \in Files : \E ok \in BOOLEAN : ChooseFile(f, ok) \/ FileRead(f, ok)
           \/ PreviewFile \/ PreviewArrives \/ ApplyFile
           \/ \E ok \in BOOLEAN : ImportEnds(ok)
    PROVE  PagesInv'
<1> USE PagesAssumption DEF PagesInv
<1>0. page = "snapshot"
    BY DEF ChooseFile, FileRead, PreviewFile, PreviewArrives, ApplyFile, ImportEnds
<1>t. tool \in SnapshotTools
    BY <1>0 DEF ToolInv
<1>i. SnapshotInv
    OBVIOUS
<1>s. SUFFICES UNCHANGED <<page, at>> /\ AtInv' /\ LeftInv' /\ tool' \in SnapshotTools /\ SnapshotInv'
    BY <1>0 DEF ToolInv, SecretInv, Secretive, AssistantInv, Assisting, CardInv, Editing
<1>k. ASSUME NEW t, Keeps(t) PROVE UNCHANGED <<page, at>> /\ AtInv' /\ LeftInv' /\ tool' = t
    BY <1>k DEF Keeps, vars, AtInv, LeftInv
<1>1. ASSUME NEW f \in Files, NEW ok \in BOOLEAN, ChooseFile(f, ok)
      PROVE  UNCHANGED <<page, at>> /\ AtInv' /\ LeftInv' /\ tool' \in SnapshotTools /\ SnapshotInv'
    <2> DEFINE t == [tool EXCEPT !.raw = None, !.preview = None, !.receipt = FALSE, !.stale = FALSE,
                        !.reads = IF ok THEN @ \cup {f} ELSE @, !.crossed = @ \/ tool.reads # {}]
    <2>1. tool' = t /\ UNCHANGED <<page, at>> /\ AtInv' /\ LeftInv'
        BY <1>1, <1>k DEF ChooseFile
    <2>2. tool' \in SnapshotTools
        BY <1>t, <2>1 DEF SnapshotTools
    <2>3. /\ tool'.preview = None /\ tool'.raw = None /\ tool'.busy = None
          /\ tool'.crossed = (tool.crossed \/ tool.reads # {})
          /\ tool'.reads \in {tool.reads, tool.reads \cup {f}}
        BY <1>t, <1>1, <2>1 DEF SnapshotTools, ChooseFile
    <2>4. SnapshotInv'
        BY <2>3, <1>i, <1>0 DEF SnapshotInv
    <2> QED BY <2>1, <2>2, <2>4
<1>2. ASSUME NEW f \in Files, NEW ok \in BOOLEAN, FileRead(f, ok)
      PROVE  UNCHANGED <<page, at>> /\ AtInv' /\ LeftInv' /\ tool' \in SnapshotTools /\ SnapshotInv'
    <2> DEFINE t == [tool EXCEPT !.reads = @ \ {f}, !.raw = IF ok THEN f ELSE @]
    <2>1. tool' = t /\ UNCHANGED <<page, at>> /\ AtInv' /\ LeftInv' /\ f \in tool.reads
        BY <1>2, <1>k DEF FileRead
    <2>2. tool' \in SnapshotTools
        BY <1>t, <2>1 DEF SnapshotTools
    <2>3. /\ tool'.reads = tool.reads \ {f} /\ tool'.raw = (IF ok THEN f ELSE tool.raw) /\ f \in Configs
          /\ UNCHANGED <<tool.preview, tool.busy, tool.crossed>>
        BY <1>t, <2>1 DEF SnapshotTools
    <2>4. SnapshotInv'
        BY <2>1, <2>3, <1>i, <1>0 DEF SnapshotInv
    <2> QED BY <2>1, <2>2, <2>4
<1>3. ASSUME PreviewFile
      PROVE  UNCHANGED <<page, at>> /\ AtInv' /\ LeftInv' /\ tool' \in SnapshotTools /\ SnapshotInv'
    <2> DEFINE b == [what |-> "preview", body |-> tool.raw]
               t == [tool EXCEPT !.preview = None, !.busy = b]
    <2>1. tool' = t /\ UNCHANGED <<page, at>> /\ AtInv' /\ LeftInv' /\ tool.raw # None
        BY <1>3, <1>k DEF PreviewFile
    <2>2. b \in Checks /\ b \notin Imports /\ tool.raw \in Configs
        BY <1>t, <2>1 DEF SnapshotTools, Checks, Imports
    <2>3. /\ tool' \in SnapshotTools /\ tool'.preview = None /\ tool'.busy = b
          /\ UNCHANGED <<tool.raw, tool.reads, tool.crossed>>
        BY <1>t, <2>1, <2>2 DEF SnapshotTools
    <2>4. SnapshotInv'
        BY <2>1, <2>2, <2>3, <1>i, <1>0 DEF SnapshotInv
    <2> QED BY <2>1, <2>3, <2>4
<1>4. ASSUME PreviewArrives
      PROVE  UNCHANGED <<page, at>> /\ AtInv' /\ LeftInv' /\ tool' \in SnapshotTools /\ SnapshotInv'
    <2> DEFINE p == Preview(tool.busy.body)
    <2>1. tool.busy # None /\ tool.busy.what = "preview"
        BY <1>4 DEF PreviewArrives
    <2>2. tool.busy \in Checks
        BY <1>t, <2>1 DEF SnapshotTools, Imports
    <2>3. tool.busy.body \in Configs
        BY <2>2 DEF Checks
    <2>4. p \in Previews /\ p.of = tool.busy.body
        BY <2>3 DEF Preview, Previews, AtInv
    <2>5. CASE Keeps([tool EXCEPT !.busy = None])
        <3>1. tool' = [tool EXCEPT !.busy = None] /\ UNCHANGED <<page, at>> /\ AtInv' /\ LeftInv'
            BY <2>5, <1>k
        <3>2. /\ tool' \in SnapshotTools /\ tool'.busy = None
              /\ UNCHANGED <<tool.raw, tool.reads, tool.crossed, tool.preview>>
            BY <1>t, <3>1 DEF SnapshotTools
        <3>3. SnapshotInv'
            BY <3>1, <3>2, <1>i, <1>0 DEF SnapshotInv
        <3> QED BY <3>1, <3>2, <3>3
    <2>6. CASE Keeps([tool EXCEPT !.busy = None, !.preview = p, !.stale = FALSE, !.receipt = FALSE])
        <3>1. /\ tool' = [tool EXCEPT !.busy = None, !.preview = p, !.stale = FALSE, !.receipt = FALSE]
              /\ UNCHANGED <<page, at>> /\ AtInv' /\ LeftInv'
            BY <2>6, <1>k
        <3>2. /\ tool' \in SnapshotTools /\ tool'.busy = None /\ tool'.preview = p
              /\ UNCHANGED <<tool.raw, tool.reads, tool.crossed>>
            BY <1>t, <2>4, <3>1 DEF SnapshotTools
        <3>3. tool.raw \in Configs
            BY <2>1, <2>2, <1>i, <1>0, <1>t DEF SnapshotInv, SnapshotTools
        <3>4. SnapshotInv'
            BY <2>1, <2>2, <2>4, <3>1, <3>2, <3>3, <1>i, <1>0 DEF SnapshotInv
        <3> QED BY <3>1, <3>2, <3>4
    <2> QED BY <1>4, <2>5, <2>6 DEF PreviewArrives
<1>5. ASSUME ApplyFile
      PROVE  UNCHANGED <<page, at>> /\ AtInv' /\ LeftInv' /\ tool' \in SnapshotTools /\ SnapshotInv'
    <2> DEFINE b == [what |-> "import", body |-> tool.raw, over |-> tool.preview.over, seen |-> tool.preview,
                     crossed |-> tool.crossed]
    <2>1. /\ tool' = [tool EXCEPT !.busy = b] /\ UNCHANGED <<page, at>> /\ AtInv' /\ LeftInv'
          /\ tool.busy = None /\ tool.preview # None /\ ~tool.preview.unchanged
        BY <1>5, <1>k DEF ApplyFile
    <2>2. tool.preview \in Previews /\ tool.raw \in Configs
        BY <1>t, <1>i, <1>0, <2>1 DEF SnapshotTools, SnapshotInv
    <2>3. b \in Imports /\ b \notin Checks
        BY <1>t, <2>2 DEF SnapshotTools, Imports, Checks, Previews
    <2>4. WriteOK(b)
        BY <2>1, <2>3, <1>i, <1>0 DEF SnapshotInv, WriteOK
    <2>5. /\ tool' \in SnapshotTools /\ tool'.busy = b
          /\ UNCHANGED <<tool.raw, tool.reads, tool.crossed, tool.preview>>
        BY <1>t, <2>1, <2>3 DEF SnapshotTools
    <2>6. tool.crossed \/ tool.reads = {}
        BY <2>1, <1>i, <1>0 DEF SnapshotInv
    <2>7. SnapshotInv'
        BY <2>1, <2>2, <2>3, <2>4, <2>5, <2>6, <1>i, <1>0 DEF SnapshotInv
    <2> QED BY <2>1, <2>5, <2>7
<1>6. ASSUME NEW ok \in BOOLEAN, ImportEnds(ok)
      PROVE  UNCHANGED <<page, at>> /\ AtInv' /\ LeftInv' /\ tool' \in SnapshotTools /\ SnapshotInv'
    <2> PICK status \in Statuses(tool.busy) :
              /\ file' = Effect(tool.busy, status)
              /\ tool' = IF ok /\ status = 200
                         THEN [tool EXCEPT !.busy = None, !.preview = None, !.receipt = TRUE]
                         ELSE [tool EXCEPT !.busy = None, !.stale = @ \/ (ok /\ status = 409)]
        BY <1>6 DEF ImportEnds
    <2>1. IsWrite(tool.busy) /\ UNCHANGED <<vars, written, left>>
        BY <1>6 DEF ImportEnds
    <2>2. tool.busy \in Imports
        BY <1>t, <2>1 DEF IsWrite, SnapshotTools, Checks
    <2>3. file' \in Configs
        BY <2>2 DEF Effect, Imports, AtInv
    <2>4. /\ tool' \in SnapshotTools /\ tool'.busy = None /\ tool'.preview \in {None, tool.preview}
          /\ UNCHANGED <<tool.raw, tool.reads, tool.crossed>>
        <3>1. CASE ok /\ status = 200
            <4>1. tool' = [tool EXCEPT !.busy = None, !.preview = None, !.receipt = TRUE]
                BY <3>1
            <4> QED BY <4>1, <1>t DEF SnapshotTools
        <3>2. CASE ~(ok /\ status = 200)
            <4> DEFINE st == tool.stale \/ (ok /\ status = 409)
            <4>1. tool' = [tool EXCEPT !.busy = None, !.stale = st]
                BY <3>2
            <4>2. st \in BOOLEAN
                OBVIOUS
            <4> HIDE DEF st
            <4> QED BY <4>1, <4>2, <1>t DEF SnapshotTools
        <3> QED BY <3>1, <3>2
    <2>5. SnapshotInv'
        BY <2>4, <2>1, <1>i, <1>0 DEF SnapshotInv, vars
    <2> QED BY <2>1, <2>3, <2>4, <2>5 DEF vars, AtInv, LeftInv
<1> QED BY <1>1, <1>2, <1>3, <1>4, <1>5, <1>6

\* What asking for models or choices leaves of the form.
LEMMA AskingModels ==
    ASSUME NEW t \in AssistantTools, NEW k \in Keys \cup {None}
    PROVE  LET u == AskModels(t, k)
           IN /\ u \in AssistantTools /\ u.form = t.form /\ u.busy = t.busy
              /\ u.choices # None => t.choices # None /\ u.choices.models = {}
              /\ u.asked # None => u.asked.what = "models" /\ u.asked.key = k
<1> DEFINE cleared == IF t.choices = None THEN None ELSE [t.choices EXCEPT !.models = {}]
           a == IF k = None THEN None ELSE [what |-> "models", key |-> k]
           l == k # None
<1>1. AskModels(t, k) = [t EXCEPT !.choices = cleared, !.failed = FALSE, !.loading = l, !.asked = a]
    BY DEF AskModels
<1>2. cleared \in Offers \cup {None} /\ (cleared # None => t.choices # None /\ cleared.models = {})
    <2>1. CASE t.choices = None
        BY <2>1
    <2>2. CASE t.choices # None
        <3>1. t.choices \in Offers
            BY <2>2 DEF AssistantTools
        <3> QED BY <2>2, <3>1 DEF Offers
    <2> QED BY <2>1, <2>2
<1>3. a \in Asks \cup {None} /\ (a # None => a.what = "models" /\ a.key = k)
    BY DEF Asks
<1>4. l \in BOOLEAN
    OBVIOUS
<1> HIDE DEF cleared, a, l
<1> QED BY <1>1, <1>2, <1>3, <1>4 DEF AssistantTools

LEMMA AskingChoices ==
    ASSUME NEW t \in AssistantTools, NEW k \in Keys \cup {None}
    PROVE  LET u == AskChoices(t, k)
           IN /\ u \in AssistantTools /\ u.form = t.form /\ u.busy = t.busy /\ u.choices = None
              /\ u.asked.key = k
<1> DEFINE a == [what |-> "choices", key |-> k]
<1>1. AskChoices(t, k) = [t EXCEPT !.choices = None, !.failed = FALSE, !.loading = TRUE, !.asked = a]
    BY DEF AskChoices
<1>2. a \in Asks /\ a.key = k
    BY DEF Asks
<1> HIDE DEF a
<1>3. LET u == [t EXCEPT !.choices = None, !.failed = FALSE, !.loading = TRUE, !.asked = a]
      IN /\ u \in AssistantTools /\ u.form = t.form /\ u.busy = t.busy /\ u.choices = None
         /\ u.asked = a
    BY <1>2 DEF AssistantTools
<1> QED BY <1>1, <1>2, <1>3

\* Choosing a section of the settings.
LEMMA SectionStep ==
    ASSUME PagesInv, NEW s \in {"general", "display", "sources", "connection", "help", "assistance"},
           ChooseSection(s)
    PROVE  PagesInv'
<1> USE DEF PagesInv
<1>1. page = "settings" /\ UNCHANGED <<page, at, world, file>> /\ left' = Writes
    BY DEF ChooseSection, Unmounted, vars
<1>2. AtInv' /\ LeftInv'
    BY <1>1, WritesReviewed DEF AtInv, LeftInv, WriteOK
<1>3. CASE s = "assistance"
    <2>1. tool' = LoadSettings(NoForm)
        BY <1>3 DEF ChooseSection, Unmounted
    <2>2. tool' = [section |-> "assistance", loaded |-> None, form |-> Cleared, choices |-> None,
                   loading |-> FALSE, failed |-> FALSE, error |-> FALSE, conflict |-> FALSE,
                   asked |-> None, busy |-> [what |-> "load"]]
        BY <2>1 DEF LoadSettings, NoForm
    <2>3. Cleared \in Settings
        BY DEF Cleared, Settings
    <2>4. tool' \in AssistantTools
        BY <2>2, <2>3 DEF AssistantTools
    <2>5. Cleared.key = None /\ [what |-> "load"] \notin Changes
        BY DEF Cleared, Changes
    <2>6. AssistantInv'
        BY <2>2, <2>5 DEF AssistantInv
    <2> QED BY <1>1, <1>2, <2>4, <2>6 DEF ToolInv, SecretInv, Secretive, SnapshotInv, CardInv, Editing
<1>4. CASE s # "assistance"
    <2>1. tool' = [section |-> s]
        BY <1>4 DEF ChooseSection, Unmounted
    <2>2. tool' \in OtherSections /\ ~Assisting'
        BY <2>1, <1>4 DEF OtherSections, Assisting
    <2> QED BY <1>1, <1>2, <2>2 DEF ToolInv, SecretInv, Secretive, SnapshotInv, AssistantInv, CardInv, Editing
<1> QED BY <1>3, <1>4

\* The form of the assistant's settings.
LEMMA AssistantStep ==
    ASSUME PagesInv,
           \/ SaveSettings \/ SettingsArrive \/ Reload \/ ChoicesArrive \/ RetryDiscovery \/ ClearSettings
           \/ \E k \in Keys \cup {None} : ChooseKey(k)
           \/ \E lm \in LModels : ChooseModel(lm)
           \/ \E e \in {"set", None} : ChooseEndpoint(e)
           \/ \E ok \in BOOLEAN : SettingsEnd(ok)
    PROVE  PagesInv'
<1> USE PagesAssumption DEF PagesInv
<1>0. Assisting
    BY DEF SaveSettings, SettingsArrive, Reload, ChoicesArrive, RetryDiscovery, ClearSettings, ChooseKey,
       ChooseModel, ChooseEndpoint, SettingsEnd
<1>p. page = "settings"
    BY <1>0 DEF Assisting
<1>t. tool \in AssistantTools
    BY <1>0, <1>p DEF ToolInv, Assisting, OtherSections
<1>i. AssistantInv
    OBVIOUS
<1> DEFINE Fits(u) ==
        /\ u.form.key # None /\ u.asked # None => u.asked.key = u.form.key
        /\ u.asked # None /\ u.asked.what = "choices" => u.choices = None
        /\ u.form.key # None /\ u.choices # None => u.choices.models = {} \/ u.choices.of = u.form.key
        /\ u.busy \in Changes \ {None} => WriteOK(u.busy) /\ u.form = u.busy.body.assistant
<1>h. Fits(tool)
    BY <1>0, <1>i DEF AssistantInv
<1>s. SUFFICES UNCHANGED <<page, at>> /\ AtInv' /\ LeftInv' /\ tool' \in AssistantTools /\ Fits(tool')
    BY <1>p DEF ToolInv, SecretInv, Secretive, SnapshotInv, AssistantInv, CardInv, Editing, WriteOK
<1>k. ASSUME NEW u, Keeps(u), u \in AssistantTools, Fits(u)
      PROVE  UNCHANGED <<page, at>> /\ AtInv' /\ LeftInv' /\ tool' \in AssistantTools /\ Fits(tool')
    BY <1>k DEF Keeps, vars, AtInv, LeftInv
<1> DEFINE Goal == UNCHANGED <<page, at>> /\ AtInv' /\ LeftInv' /\ tool' \in AssistantTools /\ Fits(tool')
<1>1. ASSUME Reload PROVE Goal
    <2> DEFINE b == [what |-> "load"]
               u == [tool EXCEPT !.busy = b, !.asked = None]
    <2>1. Keeps(u)
        BY <1>1 DEF Reload, LoadSettings
    <2>2. b \notin Changes /\ b \in [what : {"load"}]
        BY DEF Changes
    <2> HIDE DEF b
    <2>3. u \in AssistantTools /\ u.busy = b /\ u.asked = None /\ u.form = tool.form /\ u.choices = tool.choices
        BY <1>t, <2>2 DEF AssistantTools
    <2>4. Fits(u)
        BY <1>h, <2>2, <2>3
    <2> HIDE DEF Fits
    <2> QED BY <2>1, <2>3, <2>4, <1>k
<1>2. ASSUME SettingsArrive PROVE Goal
    <2> DEFINE v == [tool EXCEPT !.busy = None, !.loaded = file, !.form = file.assistant, !.error = FALSE,
                        !.conflict = FALSE]
               x == [tool EXCEPT !.busy = None, !.error = TRUE]
    <2>1. file \in Configs /\ file.assistant \in Settings /\ file.assistant.key \in Keys \cup {None}
        BY DEF AtInv, Configs, Settings
    <2>2. v \in AssistantTools /\ v.busy = None /\ v.form = file.assistant
        BY <1>t, <2>1 DEF AssistantTools
    <2>3. CASE Keeps(AskChoices(v, file.assistant.key))
        <3> DEFINE u == AskChoices(v, file.assistant.key)
        <3>1. /\ u \in AssistantTools /\ u.form = file.assistant /\ u.busy = None /\ u.choices = None
              /\ u.asked.key = file.assistant.key
            BY <2>1, <2>2, AskingChoices
        <3>2. Fits(u)
            BY <3>1
        <3> HIDE DEF Fits, u
        <3>3. Keeps(u)
            BY <2>3 DEF u
        <3> QED BY <3>1, <3>2, <3>3, <1>k
    <2>4. CASE Keeps(x)
        <3>1. x \in AssistantTools /\ x.busy = None /\ x.form = tool.form /\ x.choices = tool.choices /\ x.asked = tool.asked
            BY <1>t DEF AssistantTools
        <3>2. Fits(x)
            BY <3>1, <1>h
        <3> HIDE DEF Fits
        <3> QED BY <2>4, <3>1, <3>2, <1>k
    <2> QED BY <1>2, <2>3, <2>4 DEF SettingsArrive
<1>3. ASSUME ChoicesArrive PROVE Goal
    <2> DEFINE k == tool.asked.key
               x == [tool EXCEPT !.asked = None, !.loading = FALSE, !.failed = TRUE]
    <2>0. tool.asked # None /\ tool.asked \in Asks /\ k \in Keys \cup {None} /\ world.keys \subseteq Keys
        BY <1>3, <1>t, ListsAssumption DEF ChoicesArrive, AssistantTools, Asks, AtInv
    <2>1. CASE Keeps(x)
        <3>1. x \in AssistantTools /\ x.asked = None /\ x.form = tool.form /\ x.choices = tool.choices
              /\ x.busy = tool.busy
            BY <1>t DEF AssistantTools
        <3>2. Fits(x)
            BY <3>1, <1>h
        <3> HIDE DEF Fits
        <3> QED BY <2>1, <3>1, <3>2, <1>k
    <2>2. ASSUME tool.asked.what = "choices",
                 Keeps(AskModels([tool EXCEPT !.choices = [keys |-> world.keys, models |-> {}, of |-> None]], k))
          PROVE  Goal
        <3> DEFINE o == [keys |-> world.keys, models |-> {}, of |-> None]
                   v == [tool EXCEPT !.choices = o]
                   u == AskModels(v, k)
        <3>1. o \in Offers
            BY <2>0 DEF Offers
        <3>2. v \in AssistantTools /\ v.form = tool.form /\ v.busy = tool.busy
            <4> HIDE DEF o
            <4> QED BY <1>t, <3>1 DEF AssistantTools
        <3> HIDE DEF v
        <3>3. /\ u \in AssistantTools /\ u.form = tool.form /\ u.busy = tool.busy
              /\ u.choices # None => u.choices.models = {}
              /\ u.asked # None => u.asked.what = "models" /\ u.asked.key = k
            BY <2>0, <3>2, AskingModels
        <3>4. Fits(u)
            BY <3>3, <2>0, <1>h
        <3> HIDE DEF Fits, u
        <3>5. Keeps(u)
            BY <2>2 DEF u, v
        <3> QED BY <3>3, <3>4, <3>5, <1>k
    <2>3. ASSUME k \in world.keys, NEW ms \in Lists[k],
                 Keeps([tool EXCEPT !.asked = None, !.loading = FALSE,
                           !.choices = [keys |-> world.keys, models |-> ms, of |-> k]])
          PROVE  Goal
        <3> DEFINE o == [keys |-> world.keys, models |-> ms, of |-> k]
                   u == [tool EXCEPT !.asked = None, !.loading = FALSE, !.choices = o]
        <3>1. ms \subseteq LModels
            BY <2>0, <2>3
        <3>2. o \in Offers /\ o.of = k
            BY <2>0, <3>1 DEF Offers
        <3>3. /\ u \in AssistantTools /\ u.form = tool.form /\ u.busy = tool.busy /\ u.choices = o
              /\ u.asked = None
            <4> HIDE DEF o
            <4> QED BY <1>t, <3>2 DEF AssistantTools
        <3>4. Fits(u)
            BY <3>2, <3>3, <2>0, <1>h
        <3> HIDE DEF Fits
        <3> QED BY <2>3, <3>3, <3>4, <1>k
    <2> QED BY <1>3, <2>1, <2>2, <2>3 DEF ChoicesArrive
<1>4. ASSUME NEW k \in Keys \cup {None}, ChooseKey(k) PROVE Goal
    <2> DEFINE v == [tool EXCEPT !.form.key = k, !.form.model = None]
               u == AskModels(v, k)
    <2>1. [tool.form EXCEPT !.key = k, !.model = None] \in Settings
        BY <1>t DEF AssistantTools, Settings
    <2>2. v \in AssistantTools /\ v.form.key = k /\ v.busy = None
        BY <1>t, <1>4, <2>1 DEF AssistantTools, Settings, ChooseKey
    <2> HIDE DEF v
    <2>3. /\ u \in AssistantTools /\ u.form = v.form /\ u.busy = None
          /\ u.choices # None => u.choices.models = {}
          /\ u.asked # None => u.asked.what = "models" /\ u.asked.key = k
        BY <2>2, AskingModels
    <2>4. Fits(u)
        BY <2>2, <2>3
    <2> HIDE DEF Fits, u
    <2>5. Keeps(u)
        BY <1>4 DEF ChooseKey, u, v
    <2> QED BY <2>3, <2>4, <2>5, <1>k
<1>5. ASSUME NEW lm \in LModels, ChooseModel(lm) PROVE Goal
    <2> DEFINE u == [tool EXCEPT !.form.model = lm]
    <2>1. Keeps(u) /\ tool.busy = None
        BY <1>5 DEF ChooseModel
    <2>2. [tool.form EXCEPT !.model = lm] \in Settings /\ [tool.form EXCEPT !.model = lm].key = tool.form.key
        BY <1>t DEF AssistantTools, Settings
    <2>3. /\ u \in AssistantTools /\ u.form.key = tool.form.key /\ u.busy = None /\ u.asked = tool.asked
          /\ u.choices = tool.choices
        BY <1>t, <2>1, <2>2 DEF AssistantTools
    <2>4. Fits(u)
        BY <1>h, <2>3
    <2> HIDE DEF Fits, u
    <2> QED BY <2>1, <2>3, <2>4, <1>k
<1>6. ASSUME NEW e \in {"set", None}, ChooseEndpoint(e) PROVE Goal
    <2> DEFINE u == [tool EXCEPT !.form.endpoint = e]
    <2>1. Keeps(u) /\ tool.busy = None
        BY <1>6 DEF ChooseEndpoint
    <2>2. [tool.form EXCEPT !.endpoint = e] \in Settings /\ [tool.form EXCEPT !.endpoint = e].key = tool.form.key
        BY <1>t DEF AssistantTools, Settings
    <2>3. /\ u \in AssistantTools /\ u.form.key = tool.form.key /\ u.busy = None /\ u.asked = tool.asked
          /\ u.choices = tool.choices
        BY <1>t, <2>1, <2>2 DEF AssistantTools
    <2>4. Fits(u)
        BY <1>h, <2>3
    <2> HIDE DEF Fits, u
    <2> QED BY <2>1, <2>3, <2>4, <1>k
<1>7. ASSUME RetryDiscovery PROVE Goal
    <2> DEFINE k == tool.form.key
    <2>1. k \in Keys \cup {None}
        BY <1>t DEF AssistantTools, Settings
    <2>2. CASE tool.choices # None
        <3> DEFINE u == AskModels(tool, k)
        <3>1. /\ u \in AssistantTools /\ u.form = tool.form /\ u.busy = tool.busy
              /\ u.choices # None => u.choices.models = {}
              /\ u.asked # None => u.asked.what = "models" /\ u.asked.key = k
            BY <1>t, <2>1, AskingModels
        <3>2. Fits(u)
            BY <3>1, <1>h
        <3> HIDE DEF Fits, u
        <3>3. Keeps(u)
            BY <1>7, <2>2 DEF RetryDiscovery, u
        <3> QED BY <3>1, <3>2, <3>3, <1>k
    <2>3. CASE tool.choices = None
        <3> DEFINE u == AskChoices(tool, k)
        <3>1. u \in AssistantTools /\ u.form = tool.form /\ u.busy = tool.busy /\ u.choices = None /\ u.asked.key = k
            BY <1>t, <2>1, AskingChoices
        <3>2. Fits(u)
            BY <3>1, <1>h
        <3> HIDE DEF Fits, u
        <3>3. Keeps(u)
            BY <1>7, <2>3 DEF RetryDiscovery, u
        <3> QED BY <3>1, <3>2, <3>3, <1>k
    <2> QED BY <2>2, <2>3
<1>8. ASSUME ClearSettings PROVE Goal
    <2> DEFINE v == [tool EXCEPT !.form = Cleared]
               u == IF v.choices # None THEN AskModels(v, None) ELSE v
    <2>1. Cleared \in Settings /\ Cleared.key = None
        BY DEF Cleared, Settings
    <2>2. v \in AssistantTools /\ v.form = Cleared /\ v.busy = None
        BY <1>8, <1>t, <2>1 DEF ClearSettings, AssistantTools
    <2> HIDE DEF v
    <2>3. /\ u \in AssistantTools /\ u.form.key = None /\ u.busy = None
          /\ u.choices # None => u.asked = None \/ u.asked.what = "models"
        <3>1. CASE v.choices # None
            BY <2>1, <2>2, <3>1, AskingModels
        <3>2. CASE v.choices = None
            BY <2>1, <2>2, <3>2
        <3> QED BY <3>1, <3>2
    <2>4. Fits(u)
        BY <2>3
    <2> HIDE DEF Fits, u
    <2>5. Keeps(u)
        BY <1>8 DEF ClearSettings, u, v
    <2> QED BY <2>3, <2>4, <2>5, <1>k
<1>9. ASSUME SaveSettings PROVE Goal
    <2> DEFINE c == [tool.loaded EXCEPT !.assistant = tool.form]
               b == [what |-> "settings", over |-> tool.loaded, body |-> c, listed |-> tool.choices]
               u == [tool EXCEPT !.error = FALSE, !.busy = b]
    <2>1. Keeps(u) /\ CanSave
        BY <1>9 DEF SaveSettings
    <2>2. tool.loaded \in Configs /\ tool.form \in Settings /\ tool.choices \in Offers \cup {None}
        BY <1>t, <2>1 DEF CanSave, AssistantTools
    <2>3. c \in Configs /\ c.content = tool.loaded.content /\ c.assistant = tool.form
        BY <2>2 DEF Configs
    <2> HIDE DEF c
    <2>4. b \in Changes
        BY <2>2, <2>3 DEF Changes
    <2>5. tool.form # Cleared =>
            /\ tool.form.key # None /\ tool.form.endpoint # None
            /\ tool.choices.of = tool.form.key /\ tool.form.model \in tool.choices.models
        <3>1. SUFFICES ASSUME tool.form # Cleared
                       PROVE  /\ tool.form.key # None /\ tool.form.endpoint # None
                              /\ tool.choices.of = tool.form.key /\ tool.form.model \in tool.choices.models
            OBVIOUS
        <3>2. /\ tool.choices # None /\ tool.form.endpoint # None
              /\ tool.form.model \in tool.choices.models /\ tool.form.key \in tool.choices.keys
            BY <2>1, <3>1 DEF CanSave
        <3>3. tool.form.key \in Keys
            BY <2>2, <3>2 DEF Offers
        <3> QED BY <3>2, <3>3, <1>h, ListsAssumption
    <2>6. WriteOK(b)
        BY <2>3, <2>4, <2>5 DEF WriteOK
    <2>7. b.body.assistant = tool.form
        BY <2>3
    <2> HIDE DEF b
    <2>8. u \in AssistantTools /\ u.form = tool.form /\ u.busy = b /\ u.asked = tool.asked /\ u.choices = tool.choices
        BY <1>t, <2>4 DEF AssistantTools
    <2>9. Fits(u)
        BY <1>h, <2>6, <2>7, <2>8
    <2> HIDE DEF Fits, u
    <2> QED BY <2>1, <2>8, <2>9, <1>k
<1>10. ASSUME NEW ok \in BOOLEAN, SettingsEnd(ok) PROVE Goal
    <2> PICK status \in Statuses(tool.busy) :
              /\ file' = Effect(tool.busy, status)
              /\ tool' = IF ok /\ status = 200
                         THEN [tool EXCEPT !.busy = None, !.loaded = file', !.form = file'.assistant]
                         ELSE [tool EXCEPT !.busy = None, !.error = TRUE,
                                           !.conflict = @ \/ (ok /\ status = 409)]
        BY <1>10 DEF SettingsEnd
    <2>1. IsWrite(tool.busy) /\ UNCHANGED <<vars, written, left>>
        BY <1>10 DEF SettingsEnd
    <2>2. tool.busy \in Changes /\ tool.busy # None
        BY <1>t, <2>1 DEF IsWrite, AssistantTools
    <2>3. tool.form = tool.busy.body.assistant /\ tool.busy.body \in Configs
        BY <1>h, <2>2 DEF Changes
    <2>4. file' \in Configs /\ (status = 200 => file' = tool.busy.body)
        BY <2>3 DEF Effect, AtInv
    <2>5. /\ tool' \in AssistantTools /\ tool'.busy = None /\ tool'.form = tool.form
          /\ tool'.asked = tool.asked /\ tool'.choices = tool.choices
        <3>1. CASE ok /\ status = 200
            <4>1. tool' = [tool EXCEPT !.busy = None, !.loaded = file', !.form = tool.form]
                BY <3>1, <2>3, <2>4
            <4>2. tool.form \in Settings
                BY <1>t DEF AssistantTools
            <4> QED BY <4>1, <4>2, <1>t, <2>4 DEF AssistantTools
        <3>2. CASE ~(ok /\ status = 200)
            <4> DEFINE st == tool.conflict \/ (ok /\ status = 409)
            <4>1. tool' = [tool EXCEPT !.busy = None, !.error = TRUE, !.conflict = st]
                BY <3>2
            <4>2. st \in BOOLEAN
                OBVIOUS
            <4> HIDE DEF st
            <4> QED BY <4>1, <4>2, <1>t DEF AssistantTools
        <3> QED BY <3>1, <3>2
    <2>6. Fits(tool')
        BY <1>h, <2>5
    <2> QED BY <2>1, <2>4, <2>5, <2>6 DEF vars, AtInv, LeftInv
<1> QED BY <1>1, <1>2, <1>3, <1>4, <1>5, <1>6, <1>7, <1>8, <1>9, <1>10

\* The proposal for a card.
LEMMA AppliedCard ==
    ASSUME NEW d \in Cards, NEW p \in Proposals, NEW rows, rows \subseteq DOMAIN p
    PROVE  Applied(d, p, rows) \in Cards
<1> DEFINE From(f) == IF f \in rows THEN p[f] ELSE d[f]
           refs == IF "reference" \in rows THEN {p["reference"]} ELSE d.reference
           byHand == d.byHand \/ "creator" \in rows
<1>1. \A f \in rows : p[f] \in Values
    BY PagesAssumption
<1>2. From("name") \in Values \cup {None} /\ From("creator") \in Values \cup {None}
    BY <1>1 DEF Cards
<1>3. refs \in (SUBSET (Values \cup {None})) \ {{}}
    BY <1>1 DEF Cards
<1>4. byHand \in BOOLEAN
    OBVIOUS
<1>5. Applied(d, p, rows) = [name |-> From("name"), creator |-> From("creator"), reference |-> refs, byHand |-> byHand]
    BY DEF Applied
<1> HIDE DEF From, refs, byHand
<1> QED BY <1>2, <1>3, <1>4, <1>5 DEF Cards

LEMMA CardStep ==
    ASSUME PagesInv,
           \/ \E d \in Drafts : OpenCard(d)
           \/ CloseCard \/ Generate \/ ProposalArrives \/ ApplyProposal
           \/ \E f \in Facts : TickRow(f) \/ (\E v \in Values \cup {None} : TypeFact(f, v))
    PROVE  PagesInv'
<1> USE PagesAssumption DEF PagesInv
<1>0. page = "models" /\ UNCHANGED <<page, at, world, file>> /\ left' \in {left, Writes}
    BY DEF OpenCard, CloseCard, Generate, ProposalArrives, ApplyProposal, TickRow, TypeFact, Editing, Reviewed,
       Unmounted, Keeps, vars
<1>1. AtInv' /\ LeftInv'
    BY <1>0, WritesReviewed DEF AtInv, LeftInv, WriteOK
<1> DEFINE Fits(t) ==
        t # None /\ t.proposal # None =>
            t.against \in Cards /\ t.selected \ t.ticked \subseteq Preselected(t.against, t.proposal)
<1>s. SUFFICES tool' \in CardTools \cup {None} /\ Fits(tool')
    BY <1>0, <1>1 DEF ToolInv, SecretInv, Secretive, SnapshotInv, AssistantInv, Assisting, CardInv, Editing,
       Preselected, RowsOf, Missing
<1>t. Editing => tool \in CardTools /\ Fits(tool)
    BY <1>0 DEF ToolInv, Editing, CardInv
<1> DEFINE Goal == tool' \in CardTools \cup {None} /\ Fits(tool')
<1>2. ASSUME NEW d \in Drafts, OpenCard(d) PROVE Goal
    <2>1. tool' = [draft |-> d, busy |-> None, proposal |-> None, against |-> None, selected |-> {}, ticked |-> {}]
        BY <1>2 DEF OpenCard, Keeps
    <2> QED BY <2>1 DEF CardTools
<1>3. ASSUME CloseCard PROVE Goal
    BY <1>3 DEF CloseCard, Unmounted
<1>4. ASSUME Generate PROVE Goal
    <2> DEFINE b == [what |-> "suggest", draft |-> tool.draft]
    <2>1. Editing /\ tool' = [tool EXCEPT !.busy = b, !.proposal = None]
        BY <1>4 DEF Generate, Keeps
    <2>2. b \in Suggests
        BY <1>t, <2>1 DEF CardTools, Suggests
    <2> HIDE DEF b
    <2> QED BY <1>t, <2>1, <2>2 DEF CardTools
<1>5. ASSUME ProposalArrives PROVE Goal
    <2>1. CASE Keeps([tool EXCEPT !.busy = None])
        <3>1. Editing /\ tool' = [tool EXCEPT !.busy = None]
            BY <1>5, <2>1 DEF ProposalArrives, Keeps
        <3>2. /\ tool' \in CardTools /\ tool'.proposal = tool.proposal /\ tool'.against = tool.against
              /\ tool'.selected = tool.selected /\ tool'.ticked = tool.ticked
            BY <1>t, <3>1 DEF CardTools
        <3> QED BY <1>t, <3>1, <3>2 DEF Editing
    <2>2. ASSUME NEW p \in Proposals,
                 Keeps([tool EXCEPT !.busy = None, !.proposal = p, !.against = tool.draft,
                           !.selected = Preselected(tool.draft, p), !.ticked = {}])
          PROVE  Goal
        <3> DEFINE sel == Preselected(tool.draft, p)
        <3>1. Editing /\ tool' = [tool EXCEPT !.busy = None, !.proposal = p, !.against = tool.draft,
                                     !.selected = sel, !.ticked = {}]
            BY <1>5, <2>2 DEF ProposalArrives, Keeps
        <3>2. sel \subseteq Facts /\ tool.draft \in Cards
            BY <1>t, <3>1 DEF CardTools, Preselected, RowsOf
        <3> HIDE DEF sel
        <3>3. /\ tool' \in CardTools /\ tool'.proposal = p /\ tool'.against = tool.draft
              /\ tool'.selected = sel /\ tool'.ticked = {}
            BY <1>t, <3>1, <3>2 DEF CardTools
        <3> QED BY <3>2, <3>3 DEF sel
    <2> QED BY <1>5, <2>1, <2>2 DEF ProposalArrives
<1>6. ASSUME NEW f \in Facts, TickRow(f) PROVE Goal
    <2> DEFINE sel == IF f \in tool.selected THEN tool.selected \ {f} ELSE tool.selected \cup {f}
    <2>1. Editing /\ tool' = [tool EXCEPT !.selected = sel, !.ticked = @ \cup {f}]
        BY <1>6 DEF TickRow, Reviewed, Keeps
    <2>2. sel \in SUBSET Facts /\ sel \ (tool.ticked \cup {f}) \subseteq tool.selected \ tool.ticked
        BY <1>t, <2>1 DEF CardTools
    <2> HIDE DEF sel
    <2>3. /\ tool' \in CardTools /\ tool'.selected = sel /\ tool'.ticked = tool.ticked \cup {f}
          /\ tool'.proposal = tool.proposal /\ tool'.against = tool.against
        BY <1>t, <2>1, <2>2 DEF CardTools
    <2> QED BY <1>t, <2>1, <2>2, <2>3 DEF Editing
<1>7. ASSUME NEW f \in Facts, NEW v \in Values \cup {None}, TypeFact(f, v) PROVE Goal
    <2> DEFINE b == tool.draft.byHand \/ f = "creator"
               d == [tool.draft EXCEPT ![f] = v, !.byHand = b]
    <2>1. Editing /\ f \in {"name", "creator"} /\ tool' = [tool EXCEPT !.draft[f] = v, !.draft.byHand = b]
        BY <1>7 DEF TypeFact, Keeps
    <2>2. tool.draft \in Cards
        BY <1>t, <2>1 DEF CardTools
    <2>3. b \in BOOLEAN
        OBVIOUS
    <2> HIDE DEF b
    <2>4. d \in Cards
        <3>1. CASE f = "name"
            BY <2>2, <2>3, <3>1 DEF Cards
        <3>2. CASE f = "creator"
            BY <2>2, <2>3, <3>2 DEF Cards
        <3> QED BY <2>1, <3>1, <3>2
    <2>5. tool' = [tool EXCEPT !.draft = d]
        BY <1>t, <2>1, <2>2 DEF CardTools, Cards
    <2> HIDE DEF d
    <2>6. /\ tool' \in CardTools /\ tool'.proposal = tool.proposal /\ tool'.against = tool.against
          /\ tool'.selected = tool.selected /\ tool'.ticked = tool.ticked
        BY <1>t, <2>1, <2>4, <2>5 DEF CardTools
    <2> QED BY <1>t, <2>1, <2>6 DEF Editing
<1>8. ASSUME ApplyProposal PROVE Goal
    <2> DEFINE d == Applied(tool.draft, tool.proposal, tool.selected \cap RowsOf(tool.draft, tool.proposal))
    <2>1. /\ Editing /\ tool.proposal # None
          /\ tool' = [tool EXCEPT !.draft = d, !.proposal = None, !.against = None, !.selected = {}, !.ticked = {}]
        BY <1>8 DEF ApplyProposal, Reviewed, Keeps
    <2>2. tool.draft \in Cards /\ tool.proposal \in Proposals
        BY <1>t, <2>1 DEF CardTools
    <2>3. d \in Cards
        BY <2>2, AppliedCard DEF RowsOf
    <2> HIDE DEF d
    <2> QED BY <1>t, <2>1, <2>3 DEF CardTools
<1> QED BY <1>2, <1>3, <1>4, <1>5, <1>6, <1>7, <1>8

\* The secret of a key.
LEMMA SecretStep ==
    ASSUME PagesInv, OpenSecret \/ CloseSecret \/ Reveal \/ SecretArrives \/ KeyDrawn
    PROVE  PagesInv'
<1> USE DEF PagesInv
<1>0. Secretive /\ page \in {"key", "edit"} /\ UNCHANGED <<page, at, world, file, left>>
    BY DEF OpenSecret, CloseSecret, Reveal, SecretArrives, KeyDrawn, Secretive, Keeps, vars
<1>1. AtInv' /\ LeftInv'
    BY <1>0 DEF AtInv, LeftInv, WriteOK
<1>2. tool \in SecretTools
    BY <1>0 DEF ToolInv
<1>3. at \in Keys
    BY <1>0 DEF Secretive, AtInv
<1>4. tool.secret \in {None, tool.of} /\ (~tool.open => tool.secret = None /\ tool.busy = None)
    BY <1>0 DEF SecretInv
<1>s. SUFFICES /\ tool' \in SecretTools /\ tool'.secret \in {None, tool'.of}
               /\ ~tool'.open => tool'.secret = None /\ tool'.busy = None
    BY <1>0, <1>1 DEF ToolInv, SecretInv, SnapshotInv, AssistantInv, Assisting, CardInv, Editing
<1>5. CASE OpenSecret
    BY <1>2, <1>4, <1>5 DEF OpenSecret, Keeps, SecretTools
<1>6. CASE CloseSecret
    BY <1>2, <1>6 DEF CloseSecret, Keeps, NoSecret, SecretTools
<1>7. CASE Reveal
    <2> DEFINE b == [what |-> "reveal", key |-> at]
    <2>1. b \in Reveals
        BY <1>3 DEF Reveals
    <2>2. tool' = [NoSecret(tool) EXCEPT !.busy = b] /\ tool.open
        BY <1>7 DEF Reveal, Keeps
    <2> HIDE DEF b
    <2> QED BY <1>2, <2>1, <2>2 DEF NoSecret, SecretTools
<1>8. CASE SecretArrives
    <2>1. tool.busy \in Reveals
        BY <1>2, <1>8 DEF SecretArrives, SecretTools
    <2>2. tool.busy.key \in Keys
        BY <2>1 DEF Reveals
    <2>3. tool.open
        BY <1>4, <1>8 DEF SecretArrives
    <2> QED BY <1>2, <1>4, <1>8, <2>2, <2>3 DEF SecretArrives, Keeps, SecretTools
<1>9. CASE KeyDrawn
    BY <1>2, <1>3, <1>9 DEF KeyDrawn, Keeps, NoSecret, SecretTools
<1> QED BY <1>5, <1>6, <1>7, <1>8, <1>9

\* The page of another key, and the loss of the session.
LEMMA LeavingStep ==
    ASSUME PagesInv, LoggedOut \/ \E k \in Keys : VisitKey(k)
    PROVE  PagesInv'
<1> USE DEF PagesInv
<1>1. CASE LoggedOut
    <2>1. page' = "start" /\ at' = None /\ tool' = None /\ left' = Writes /\ UNCHANGED <<world, file>>
        BY <1>1 DEF LoggedOut
    <2>2. AtInv' /\ LeftInv'
        BY <2>1, WritesReviewed DEF AtInv, LeftInv, WriteOK
    <2> QED BY <2>1, <2>2 DEF ToolInv, SecretInv, Secretive, SnapshotInv, AssistantInv, Assisting, CardInv,
           Editing
<1>2. ASSUME NEW k \in Keys, VisitKey(k) PROVE PagesInv'
    <2>1. page = "key" /\ at' = k /\ UNCHANGED <<page, world, file, tool, left>>
        BY <1>2 DEF VisitKey, toolVars
    <2>2. AtInv' /\ LeftInv' /\ at # None
        BY <2>1, ListsAssumption DEF AtInv, LeftInv, WriteOK
    <2> QED BY <2>1, <2>2 DEF ToolInv, SecretInv, Secretive, SnapshotInv, AssistantInv, Assisting, CardInv,
           Editing
<1> QED BY <1>1, <1>2

LEMMA PagesInitially == PagesInit => PagesInv
<1> SUFFICES ASSUME PagesInit PROVE PagesInv
    OBVIOUS
<1>1. page = "start" /\ at = None /\ tool = None /\ left = {} /\ world \in Worlds /\ file \in Configs
    BY PagesAssumption, ListsAssumption DEF PagesInit, ListsInit
<1> QED BY <1>1 DEF PagesInv, AtInv, ToolInv, SecretInv, Secretive, LeftInv, SnapshotInv, AssistantInv, Assisting,
       CardInv, Editing

LEMMA PagesStep ==
    ASSUME PagesInv, [PagesNext]_allVars
    PROVE  PagesInv'
<1>1. CASE UNCHANGED allVars
    BY <1>1, KeptTool DEF allVars, vars, toolVars, PagesInv, AtInv, LeftInv
<1>2. CASE (page = "models" => tool = None) /\ Moves /\ PageFollows
    BY <1>2, NavigationStep
<1>3. CASE Controls /\ UNCHANGED toolVars
    BY <1>3, ControlsFrame, KeptTool DEF toolVars, PagesInv, AtInv, LeftInv
<1>4. ASSUME NEW f, NEW v, SetPreference(f, v), UNCHANGED toolVars PROVE PagesInv'
    BY <1>4, KeptTool DEF SetPreference, toolVars, PagesInv, AtInv, LeftInv
<1>5. CASE LeftEnds \/ \E f \in Files : WrittenElsewhere(f)
    BY <1>5, ServerStep
<1>6. CASE \/ \E f \in Files : \E ok \in BOOLEAN : ChooseFile(f, ok) \/ FileRead(f, ok)
           \/ PreviewFile \/ PreviewArrives \/ ApplyFile
           \/ \E ok \in BOOLEAN : ImportEnds(ok)
    BY <1>6, SnapshotStep
<1>7. CASE \E s \in {"general", "display", "sources", "connection", "help", "assistance"} : ChooseSection(s)
    BY <1>7, SectionStep
<1>8. CASE \/ SaveSettings \/ SettingsArrive \/ Reload \/ ChoicesArrive \/ RetryDiscovery \/ ClearSettings
           \/ \E k \in Keys \cup {None} : ChooseKey(k)
           \/ \E lm \in LModels : ChooseModel(lm)
           \/ \E e \in {"set", None} : ChooseEndpoint(e)
           \/ \E ok \in BOOLEAN : SettingsEnd(ok)
    BY <1>8, AssistantStep
<1>9. CASE \/ \E d \in Drafts : OpenCard(d)
           \/ CloseCard \/ Generate \/ ProposalArrives \/ ApplyProposal
           \/ \E f \in Facts : TickRow(f) \/ (\E v \in Values \cup {None} : TypeFact(f, v))
    BY <1>9, CardStep
<1>10. CASE OpenSecret \/ CloseSecret \/ Reveal \/ SecretArrives \/ KeyDrawn
    BY <1>10, SecretStep
<1>11. CASE LoggedOut \/ \E k \in Keys : VisitKey(k)
    BY <1>11, LeavingStep
<1>12. CASE PagesNext
    BY <1>12, <1>2, <1>3, <1>4, <1>5, <1>6, <1>7, <1>8, <1>9, <1>10, <1>11 DEF PagesNext
<1> QED BY <1>1, <1>12

\* The pages keep what they keep, whatever is asked, answered, lost or left.
THEOREM PagesInvariant == PagesSpec => []PagesInv
<1>1. PagesInv /\ [PagesNext]_allVars => PagesInv'
    BY PagesStep
<1> QED BY PagesInitially, <1>1, PTL DEF PagesSpec

\* The secret on screen is that of the key whose page it is, and none is kept once its dialog is
\* closed (VirtualKeySecret.tsx), for any keys and whatever was asked for in between.
THEOREM SecretsAreShownRight == PagesSpec => []SecretIsOfShownKey
<1>1. PagesInv => SecretIsOfShownKey
    BY DEF PagesInv, SecretInv, SecretIsOfShownKey, VisibleSecret
<1> QED BY PagesInvariant, <1>1, PTL

-----------------------------------------------------------------------------
(* What the writes of the pages replace.                                   *)

\* The write that ends in a step that changes the file, and what it did.
LEMMA WritesEnd ==
    ASSUME PagesInv, PagesNext, NEW r \in Writes \ Writes', file' # file
    PROVE  WriteOK(r) /\ r.over = file /\ file' = r.body
<1>1. WriteOK(r)
    BY WritesReviewed
<1>2. ASSUME NEW q, NEW status \in Statuses(q), file' = Effect(q, status), q = r
      PROVE  r.over = file /\ file' = r.body
    BY <1>2 DEF Effect, Statuses
<1>3. CASE LeftEnds
    <2> PICK q \in left : \E status \in Statuses(q) :
              file' = Effect(q, status) /\ left' = left \ {q} /\ UNCHANGED <<vars, written, tool>>
        BY <1>3 DEF LeftEnds
    <2>1. q = r
        BY DEF Writes, Busy, IsWrite
    <2> QED BY <1>1, <1>2, <2>1
<1>4. ASSUME NEW ok \in BOOLEAN, ImportEnds(ok) \/ SettingsEnd(ok) PROVE r.over = file /\ file' = r.body
    <2>1. left' = left
        BY <1>4 DEF ImportEnds, SettingsEnd
    <2>2. r = tool.busy
        BY <2>1 DEF Writes, Busy, IsWrite
    <2> QED BY <1>2, <1>4, <2>2 DEF ImportEnds, SettingsEnd
<1>5. ASSUME NEW f \in Files, WrittenElsewhere(f) PROVE FALSE
    <2>1. UNCHANGED <<tool, left>>
        BY <1>5 DEF WrittenElsewhere
    <2> QED BY <2>1 DEF Writes, Busy, IsWrite
<1>6. \/ LeftEnds
      \/ \E ok \in BOOLEAN : ImportEnds(ok) \/ SettingsEnd(ok)
      \/ \E f \in Files : WrittenElsewhere(f)
    BY DEF PagesNext, PageFollows, toolVars, ChooseFile, FileRead, PreviewFile, PreviewArrives, ApplyFile, Keeps,
       ChooseSection, Unmounted, SaveSettings, SettingsArrive, Reload, ChoicesArrive, RetryDiscovery,
       ClearSettings, ChooseKey, VisitKey, ChooseModel, ChooseEndpoint, OpenCard, CloseCard, Generate,
       ProposalArrives, ApplyProposal, TickRow, TypeFact, OpenSecret, CloseSecret, Reveal, SecretArrives,
       KeyDrawn, LoggedOut
<1> QED BY <1>1, <1>3, <1>4, <1>5, <1>6

\* An import replaces the file it was compared with, by what was compared (SnapshotTransfer.tsx,
\* snapshotHandler), for any files, whoever writes in between, its answer lost or its page left.
THEOREM ImportsAreReviewed == PagesSpec => ImportIsReviewed
<1>1. PagesInv /\ [PagesNext]_allVars =>
        [ \A r \in Writes \ Writes' :
            r.what = "import" /\ file' # file =>
              /\ r.seen.over = file
              /\ r.crossed \/ (r.seen.of = file' /\ ~r.seen.unchanged) ]_allVars
    BY WritesEnd DEF WriteOK
<1> QED BY PagesInvariant, <1>1, PTL DEF PagesSpec, ImportIsReviewed

\* The settings saved name a model that was listed for the very key they name, or are cleared, and
\* replace the ones the form was loaded over, alone (AssistantSettings.tsx, putAssistantSettings).
THEOREM SettingsSavedAreListed == PagesSpec => SettingsAreAsListed
<1>1. PagesInv /\ [PagesNext]_allVars =>
        [ \A r \in Writes \ Writes' :
            r.what = "settings" /\ file' # file =>
              /\ file'.content = file.content /\ r.over = file
              /\ LET s == file'.assistant
                 IN s # Cleared => /\ s.key # None /\ s.endpoint # None
                                   /\ r.listed.of = s.key /\ s.model \in r.listed.models ]_allVars
    BY WritesEnd DEF WriteOK
<1> QED BY PagesInvariant, <1>1, PTL DEF PagesSpec, SettingsAreAsListed

\* What applying a proposal does to the card.
LEMMA ProposalApplied ==
    ASSUME PagesInv, ApplyProposal
    PROVE  /\ tool.draft = tool.against
           /\ \A f \in Facts : tool'.draft[f] # tool.draft[f] =>
                /\ f \in tool.selected
                /\ tool'.draft[f] = IF f = "reference" THEN {tool.proposal[f]} ELSE tool.proposal[f]
                /\ ~Missing(f, tool.draft) => f \in tool.ticked
           /\ tool'.draft.creator # tool.draft.creator => tool'.draft.byHand
<1> DEFINE rows == tool.selected \cap RowsOf(tool.draft, tool.proposal)
           d == Applied(tool.draft, tool.proposal, rows)
<1>1. /\ Editing /\ page = "models" /\ tool.proposal # None /\ tool.draft = tool.against
      /\ tool' = [tool EXCEPT !.draft = d, !.proposal = None, !.against = None, !.selected = {}, !.ticked = {}]
    BY DEF ApplyProposal, Reviewed, Editing, Keeps
<1>2. tool \in CardTools /\ tool.selected \ tool.ticked \subseteq Preselected(tool.against, tool.proposal)
    BY <1>1 DEF PagesInv, ToolInv, Editing, CardInv
<1>3. tool'.draft = d
    BY <1>1, <1>2 DEF CardTools
<1>4. /\ d["name"] = IF "name" \in rows THEN tool.proposal["name"] ELSE tool.draft["name"]
      /\ d["creator"] = IF "creator" \in rows THEN tool.proposal["creator"] ELSE tool.draft["creator"]
      /\ d["reference"] = IF "reference" \in rows THEN {tool.proposal["reference"]} ELSE tool.draft.reference
      /\ "creator" \in rows => d.byHand
    BY DEF Applied
<1>5. \A f \in rows : f \in tool.selected /\ (~Missing(f, tool.draft) => f \in tool.ticked)
    BY <1>1, <1>2 DEF Preselected
<1> HIDE DEF rows, d
<1> QED BY <1>1, <1>3, <1>4, <1>5 DEF Facts

\* A proposal changes only facts the operator kept ticked, and never what was typed meanwhile
\* (AssistantSuggestion.tsx, assistant-proposal.ts), for any cards and proposals.
THEOREM ProposalsAreReviewed == PagesSpec => SuggestionIsReviewed
<1> DEFINE Applying == Editing /\ tool' # None /\ tool.proposal # None /\ tool'.proposal = None /\ tool'.draft # tool.draft
<1>1. ASSUME PagesInv, PagesNext, Applying PROVE ApplyProposal
    <2>1. page = "models" /\ tool # None /\ tool \in CardTools
        BY <1>1 DEF Editing, PagesInv, ToolInv
    <2>2. tool' # tool
        BY <1>1
    <2>3. ASSUME Generate PROVE tool'.draft = tool.draft
        BY <2>1, <2>3 DEF Generate, Keeps, CardTools
    <2>4. ASSUME ProposalArrives PROVE tool'.draft = tool.draft
        BY <2>1, <2>4 DEF ProposalArrives, Keeps, CardTools
    <2>5. ASSUME NEW f, TickRow(f) PROVE tool'.draft = tool.draft
        BY <2>1, <2>5 DEF TickRow, Keeps, CardTools
    <2>6. ASSUME NEW f, NEW v, TypeFact(f, v) PROVE tool'.proposal = tool.proposal
        BY <2>1, <2>6 DEF TypeFact, Keeps, CardTools
    <2>7. ASSUME CloseCard PROVE tool' = None
        BY <2>7 DEF CloseCard, Unmounted
    <2> QED BY <1>1, <2>1, <2>2, <2>3, <2>4, <2>5, <2>6, <2>7
         DEF PagesNext, PageFollows, toolVars, ChooseFile, FileRead, PreviewFile, PreviewArrives, ApplyFile, Keeps,
       ChooseSection, Unmounted, SaveSettings, SettingsArrive, Reload, ChoicesArrive, RetryDiscovery,
       ClearSettings, ChooseKey, VisitKey, ChooseModel, ChooseEndpoint, OpenCard,
       OpenSecret, CloseSecret, Reveal, SecretArrives, WrittenElsewhere, LeftEnds, ImportEnds, SettingsEnd,
       KeyDrawn, LoggedOut, Assisting, Secretive
<1>2. PagesInv /\ [PagesNext]_allVars =>
        [ Applying =>
           /\ tool.draft = tool.against
           /\ \A f \in Facts : tool'.draft[f] # tool.draft[f] =>
                /\ f \in tool.selected
                /\ tool'.draft[f] = IF f = "reference" THEN {tool.proposal[f]} ELSE tool.proposal[f]
                /\ ~Missing(f, tool.draft) => f \in tool.ticked
           /\ tool'.draft.creator # tool.draft.creator => tool'.draft.byHand ]_allVars
    <2> HIDE DEF Applying
    <2> QED BY <1>1, ProposalApplied
<1> QED BY PagesInvariant, <1>2, PTL DEF PagesSpec, SuggestionIsReviewed

\* The session memory holds what was set for every list, and views of its own.
MemoryInv ==
    /\ scope \in Scopes
    /\ wanted = [keys |-> wanted.keys, groups |-> [search |-> wanted.groups.search],
                 filters |-> [s \in Scopes |-> wanted.filters[s]], groupBy |-> wanted.groupBy,
                 sort |-> wanted.sort, view |-> wanted.view]
    /\ memory = [keys |-> wanted.keys, groups |-> wanted.groups, filters |-> wanted.filters,
                 groupBy |-> wanted.groupBy, sort |-> wanted.sort, view |-> memory.view]
    /\ wanted.groupBy \in {"none", "provider"} /\ wanted.sort \in Sorts

\* What a list shows is what the memory has for it.
ShownInv ==
    /\ page = "models" => shown = [filters |-> wanted.filters[scope], groupBy |-> wanted.groupBy,
                                   sort |-> wanted.sort, view |-> memory.view]
    /\ page = "keys" => shown = wanted.keys
    /\ page = "groups" => shown = wanted.groups

\* The option picked for a view is in force, whatever else was overridden.
ViewInv ==
    /\ views = [l \in {"keys", "groups"} |-> views[l]] /\ DOMAIN prefs = Fields
    /\ "logo" \notin DOMAIN views["keys"] \cup DOMAIN views["groups"] \cup DOMAIN memory.view
    /\ picked # None =>
         /\ picked.list \in {"models", "keys", "groups"} /\ picked.field \in Fields
         /\ ViewOf(OverrideOf(picked.list), prefs)[picked.field] = picked.value

ListsInv == MemoryInv /\ ShownInv /\ ViewInv

-----------------------------------------------------------------------------
(* What the lists remember.                                                *)

\* A page shows what the memory has for it (useSessionState): what was set stays where it was.
LEMMA MountedLists ==
    ASSUME ListsInv, scope' \in Scopes, shown' = Mounted(page', scope', memory),
           UNCHANGED <<memory, wanted, viewVars>>
    PROVE  ListsInv'
<1> USE DEF ListsInv, viewVars
<1>1. MemoryInv'
    BY DEF MemoryInv
<1>2. ViewInv'
    BY DEF ViewInv, OverrideOf
<1>3. CASE page' = "models"
    <2>1. shown' = [filters |-> memory.filters[scope'], groupBy |-> memory.groupBy,
                    sort |-> memory.sort, view |-> memory.view]
        BY <1>3 DEF Mounted
    <2>2. memory.filters = wanted.filters /\ memory.groupBy = wanted.groupBy /\ memory.sort = wanted.sort
        BY DEF MemoryInv
    <2> QED BY <1>1, <1>2, <1>3, <2>1, <2>2 DEF ShownInv
<1>4. CASE page' = "keys"
    <2>1. shown' = memory.keys
        BY <1>4 DEF Mounted
    <2> QED BY <1>1, <1>2, <1>4, <2>1 DEF ShownInv, MemoryInv
<1>5. CASE page' = "groups"
    <2>1. shown' = memory.groups
        BY <1>5 DEF Mounted
    <2> QED BY <1>1, <1>2, <1>5, <2>1 DEF ShownInv, MemoryInv
<1> QED BY <1>1, <1>2, <1>3, <1>4, <1>5 DEF ShownInv

\* What is not a list, a view or the scope leaves them alone.
LEMMA KeptLists ==
    ASSUME ListsInv, UNCHANGED <<page, scope, memory, wanted, viewVars>>,
           shown' = shown \/ page \notin {"models", "keys", "groups"}
    PROVE  ListsInv'
BY DEF ListsInv, viewVars, MemoryInv, ShownInv, ViewInv, OverrideOf

\* A view of the memory is as it was while only the other parts are replaced.
LEMMA KeptViews ==
    ASSUME ViewInv, UNCHANGED viewVars, memory'.view = memory.view
    PROVE  ViewInv'
BY DEF ViewInv, viewVars, OverrideOf

LEMMA MovesLists ==
    ASSUME ListsInv, Moves
    PROVE  ListsInv'
<1> USE DEF Shows, listVars
<1>1. scope \in Scopes
    BY DEF ListsInv, MemoryInv
<1>2. ASSUME NEW p, Go(p) PROVE ListsInv'
    BY <1>1, <1>2, MountedLists DEF Go
<1>3. ASSUME NEW w \in Worlds, DataArrive(w) PROVE ListsInv'
    BY <1>1, <1>3, MountedLists, KeptLists DEF DataArrive
<1>4. CASE SignOut
    <2>1. /\ page' = "start" /\ scope' = "registry" /\ memory' = Fresh /\ wanted' = Fresh
          /\ views' = [l \in {"keys", "groups"} |-> <<>>] /\ picked' = None /\ prefs' = prefs
        BY <1>4 DEF SignOut
    <2>2. MemoryInv'
        BY <2>1 DEF MemoryInv, Scopes, Fresh, Sorts
    <2>3. ShownInv'
        BY <2>1 DEF ShownInv
    <2>4. ViewInv'
        BY <2>1 DEF ViewInv, ListsInv, Fresh
    <2> QED BY <2>2, <2>3, <2>4 DEF ListsInv
<1>5. ASSUME NEW k \in Keys, OpenKey(k) PROVE ListsInv'
    BY <1>1, <1>5, MountedLists DEF OpenKey
<1>6. CASE AddMissing
    <2> DEFINE f == [NoFilters EXCEPT !.routes = Unsaved[at]]
    <2>1. /\ memory' = [memory EXCEPT !.filters["to-add"] = f] /\ wanted' = [wanted EXCEPT !.filters["to-add"] = f]
          /\ page' = "models" /\ scope' = "to-add" /\ shown' = Mounted("models", "to-add", memory')
          /\ UNCHANGED viewVars
        BY <1>6 DEF AddMissing
    <2> HIDE DEF f
    <2>2. MemoryInv' /\ memory'.view = memory.view
        BY <2>1 DEF ListsInv, MemoryInv, Scopes
    <2>3. shown' = [filters |-> memory'.filters["to-add"], groupBy |-> memory'.groupBy,
                    sort |-> memory'.sort, view |-> memory'.view]
        BY <2>1 DEF Mounted
    <2>4. ShownInv'
        BY <2>1, <2>2, <2>3 DEF ShownInv, MemoryInv
    <2> QED BY <2>1, <2>2, <2>4, KeptViews DEF ListsInv
<1>7. ASSUME NEW s \in Scopes, Switch(s) PROVE ListsInv'
    BY <1>7, MountedLists DEF Switch
<1>8. CASE EditKey
    BY <1>1, <1>8, MountedLists DEF EditKey
<1>9. CASE StopEditing
    BY <1>1, <1>9, MountedLists DEF StopEditing
<1>10. ASSUME NEW g \in Groups, EditGroup(g) PROVE ListsInv'
    BY <1>1, <1>10, MountedLists DEF EditGroup
<1> QED BY <1>2, <1>3, <1>4, <1>5, <1>6, <1>7, <1>8, <1>9, <1>10 DEF Moves

\* The filters set on the models page are those of its scope, and the editor keeps none.
LEMMA FilteredLists ==
    ASSUME ListsInv, NEW f, NEW g, page \in {"models", "edit"}, Filtered(f), Wants(g), page = "models" => g = f
    PROVE  ListsInv'
<1> USE DEF ListsInv
<1>1. CASE page = "models"
    <2>1. /\ shown' = [shown EXCEPT !.filters = f] /\ memory' = [memory EXCEPT !.filters[scope] = f]
          /\ wanted' = [wanted EXCEPT !.filters[scope] = f] /\ UNCHANGED <<page, scope, viewVars>>
        BY <1>1 DEF Filtered, Remember, Wants
    <2>2. MemoryInv' /\ memory'.view = memory.view
        BY <2>1 DEF MemoryInv, Scopes
    <2>3. ShownInv'
        BY <1>1, <2>1 DEF ShownInv, MemoryInv, Scopes
    <2> QED BY <2>1, <2>2, <2>3, KeptViews
<1>2. CASE page = "edit"
    BY <1>2, KeptLists DEF Filtered, Remember, Wants
<1> QED BY <1>1, <1>2

\* Its order and grouping are the session's, the editor's its own.
LEMMA OrderedLists ==
    ASSUME ListsInv, NEW v,
           \/ v \in {"none", "provider"} /\ GroupModels(v)
           \/ v \in Sorts /\ SortModels(v)
    PROVE  ListsInv'
<1> USE DEF ListsInv
<1>1. CASE page = "edit"
    BY <1>1, KeptLists DEF GroupModels, SortModels, Remember
<1>2. CASE page = "models" /\ v \in {"none", "provider"} /\ GroupModels(v)
    <2>1. /\ shown' = [shown EXCEPT !.groupBy = v] /\ memory' = [memory EXCEPT !.groupBy = v]
          /\ wanted' = [wanted EXCEPT !.groupBy = v] /\ UNCHANGED <<page, scope, viewVars>>
        BY <1>2 DEF GroupModels, Remember
    <2>2. MemoryInv' /\ memory'.view = memory.view
        BY <1>2, <2>1 DEF MemoryInv
    <2>3. ShownInv'
        BY <1>2, <2>1 DEF ShownInv, MemoryInv
    <2> QED BY <2>1, <2>2, <2>3, KeptViews
<1>3. CASE page = "models" /\ v \in Sorts /\ SortModels(v)
    <2>1. /\ shown' = [shown EXCEPT !.sort = v] /\ memory' = [memory EXCEPT !.sort = v]
          /\ wanted' = [wanted EXCEPT !.sort = v] /\ UNCHANGED <<page, scope, viewVars>>
        BY <1>3 DEF SortModels, Remember
    <2>2. MemoryInv' /\ memory'.view = memory.view
        BY <1>3, <2>1 DEF MemoryInv
    <2>3. ShownInv'
        BY <1>3, <2>1 DEF ShownInv, MemoryInv
    <2> QED BY <2>1, <2>2, <2>3, KeptViews
<1> QED BY <1>1, <1>2, <1>3 DEF GroupModels, SortModels

\* The filters of the keys and the search of the groups are the session's.
LEMMA KeyFilteredLists ==
    ASSUME ListsInv, NEW v, KeySearch(v) \/ GroupSearch(v) \/ \E field \in DOMAIN KeyOptions : KeyFilter(field, v)
    PROVE  ListsInv'
<1> USE DEF ListsInv
<1>1. CASE KeySearch(v)
    <2>1. /\ page = "keys" /\ shown' = [shown EXCEPT !.search = v] /\ memory' = [memory EXCEPT !.keys = shown']
          /\ wanted' = [wanted EXCEPT !.keys = [wanted.keys EXCEPT !.search = v]] /\ UNCHANGED <<page, scope, viewVars>>
        BY <1>1 DEF KeySearch
    <2>2. shown' = [wanted.keys EXCEPT !.search = v]
        BY <2>1 DEF ShownInv
    <2> HIDE <1>1
    <2> DEFINE s == shown'
    <2>3. MemoryInv' /\ memory'.view = memory.view /\ wanted'.keys = s
        <3>1. memory' = [memory EXCEPT !.keys = s] /\ wanted' = [wanted EXCEPT !.keys = s] /\ scope' = scope
            BY <2>1, <2>2
        <3> HIDE DEF s
        <3> QED BY <3>1 DEF MemoryInv
    <2>4. ShownInv'
        BY <2>1, <2>3 DEF ShownInv
    <2> QED BY <2>1, <2>3, <2>4, KeptViews
<1>2. ASSUME NEW field \in DOMAIN KeyOptions, KeyFilter(field, v) PROVE ListsInv'
    <2>1. /\ page = "keys" /\ shown' = [shown EXCEPT ![field] = v] /\ memory' = [memory EXCEPT !.keys = shown']
          /\ wanted' = [wanted EXCEPT !.keys = [wanted.keys EXCEPT ![field] = v]] /\ UNCHANGED <<page, scope, viewVars>>
        BY <1>2 DEF KeyFilter
    <2>2. shown' = [wanted.keys EXCEPT ![field] = v]
        BY <2>1 DEF ShownInv
    <2> HIDE <1>2
    <2> DEFINE s == shown'
    <2>3. MemoryInv' /\ memory'.view = memory.view /\ wanted'.keys = s
        <3>1. memory' = [memory EXCEPT !.keys = s] /\ wanted' = [wanted EXCEPT !.keys = s] /\ scope' = scope
            BY <2>1, <2>2
        <3> HIDE DEF s
        <3> QED BY <3>1 DEF MemoryInv
    <2>4. ShownInv'
        BY <2>1, <2>3 DEF ShownInv
    <2> QED BY <2>1, <2>3, <2>4, KeptViews
<1>3. CASE GroupSearch(v)
    <2> DEFINE s == [search |-> v]
    <2>1. /\ page = "groups" /\ shown' = s /\ memory' = [memory EXCEPT !.groups = s]
          /\ wanted' = [wanted EXCEPT !.groups = [wanted.groups EXCEPT !.search = v]]
          /\ UNCHANGED <<page, scope, viewVars>>
        BY <1>3 DEF GroupSearch
    <2>2. [wanted.groups EXCEPT !.search = v] = s
        BY DEF MemoryInv
    <2>3. s = [search |-> s.search]
        OBVIOUS
    <2> HIDE DEF s
    <2>4. MemoryInv' /\ memory'.view = memory.view /\ wanted'.groups = s
        BY <2>1, <2>2, <2>3 DEF MemoryInv
    <2>5. ShownInv'
        BY <2>1, <2>4 DEF ShownInv
    <2> QED BY <2>1, <2>4, <2>5, KeptViews
<1> QED BY <1>1, <1>2, <1>3

\* The view o shows v for the option f, and sets no option that previous does not, but f.
OnlySets(o, previous, base, f, v) ==
    DOMAIN o \subseteq DOMAIN previous \cup {f} /\ ViewOf(o, base)[f] = v

\* updateViewOverride: the option given is in force afterwards, and no other is touched.
LEMMA OverriddenView ==
    ASSUME NEW base, NEW previous, NEW f \in Fields, NEW v, ViewOf(previous, base)[f] # v,
           NEW o, o = Overridden(base, previous, [ViewOf(previous, base) EXCEPT ![f] = v])
    PROVE  OnlySets(o, previous, base, f, v)
<1> DEFINE next == [ViewOf(previous, base) EXCEPT ![f] = v]
           changed == {g \in Fields : next[g] # ViewOf(previous, base)[g]}
<1>1. \A g \in Fields : next[g] = IF g = f THEN v ELSE ViewOf(previous, base)[g]
    BY DEF ViewOf
<1>2. changed = {f} /\ next[f] = v
    BY <1>1
<1>3. o = [g \in (DOMAIN previous \cup changed) \ {g \in changed : next[g] = base[g]} |->
              IF g \in changed THEN next[g] ELSE previous[g]]
    BY DEF Overridden
<1> HIDE DEF changed, next
<1>4. ViewOf(o, base)[f] = IF f \in DOMAIN o THEN o[f] ELSE base[f]
    BY DEF ViewOf
<1>5. /\ DOMAIN o \subseteq DOMAIN previous \cup {f}
      /\ f \in DOMAIN o => o[f] = v
      /\ f \notin DOMAIN o => base[f] = v
    BY <1>2, <1>3
<1> QED BY <1>4, <1>5 DEF OnlySets

\* The primary logo is not overridden.
LEMMA LogoView ==
    ASSUME NEW base, NEW previous
    PROVE  LET o == Overridden(base, previous, ViewOf(previous, base))
           IN DOMAIN o = DOMAIN previous /\ \A f \in DOMAIN o : o[f] = previous[f]
<1> DEFINE next == ViewOf(previous, base)
           changed == {g \in Fields : next[g] # ViewOf(previous, base)[g]}
           o == Overridden(base, previous, next)
<1>1. changed = {}
    OBVIOUS
<1>2. o = [g \in (DOMAIN previous \cup changed) \ {g \in changed : next[g] = base[g]} |->
              IF g \in changed THEN next[g] ELSE previous[g]]
    BY DEF Overridden
<1> HIDE DEF changed, next, o
<1>3. DOMAIN o = DOMAIN previous /\ \A f \in DOMAIN o : o[f] = previous[f]
    BY <1>1, <1>2
<1> QED BY <1>3 DEF o, next

LEMMA ViewChosen ==
    ASSUME ListsInv, NEW f \in Fields, NEW v \in Choices[f], ChooseView(f, v)
    PROVE  ListsInv'
<1> USE DEF ListsInv
<1> DEFINE override == IF page \in {"keys", "groups"} THEN views[page] ELSE shown.view
           seen == ViewOf(override, prefs)
           next == Overridden(prefs, override, [seen EXCEPT ![f] = IF f = "logo" THEN seen[f] ELSE v])
<1>1. /\ page \in {"models", "keys", "groups", "edit"} /\ (f = "logo" => page = "models") /\ seen[f] # v
      /\ prefs' = IF f = "logo" THEN [prefs EXCEPT !.logo = v] ELSE prefs
      /\ page \in {"keys", "groups"} => views' = [views EXCEPT ![page] = next] /\ UNCHANGED <<memory, shown>>
      /\ page = "models" => /\ shown' = [shown EXCEPT !.view = next] /\ memory' = [memory EXCEPT !.view = next]
                            /\ views' = views
      /\ page = "edit" => UNCHANGED <<memory, views>> /\ picked' = None
      /\ page # "edit" => picked' = [list |-> page, field |-> f, value |-> v]
      /\ UNCHANGED <<page, scope, wanted>>
    BY DEF ChooseView, Remember
<1>2. CASE page = "edit"
    <2>1. UNCHANGED <<memory, views, prefs>> /\ picked' = None
        BY <1>1, <1>2
    <2>2. MemoryInv' /\ ShownInv' /\ ViewInv'
        BY <1>1, <1>2, <2>1 DEF MemoryInv, ShownInv, ViewInv
    <2> QED BY <2>2
<1>3. CASE page # "edit"
    <2>1. override = OverrideOf(page)
        BY <1>1, <1>3 DEF OverrideOf, ShownInv
    <2>2. /\ "logo" \notin DOMAIN override => "logo" \notin DOMAIN next
          /\ "logo" \notin DOMAIN override => ViewOf(next, prefs')[f] = v
        <3>1. CASE f # "logo"
            <4>1. next = Overridden(prefs, override, [seen EXCEPT ![f] = v]) /\ prefs' = prefs
                BY <1>1, <3>1
            <4> HIDE DEF next, override
            <4>2. DOMAIN next \subseteq DOMAIN override \cup {f} /\ ViewOf(next, prefs)[f] = v
                <5>1. ViewOf(override, prefs)[f] # v /\ f \in Fields
                    BY <1>1
                <5>2. next = Overridden(prefs, override, [ViewOf(override, prefs) EXCEPT ![f] = v])
                    BY <4>1
                <5>3. OnlySets(next, override, prefs, f, v)
                    BY <5>1, <5>2, OverriddenView
                <5> QED BY <5>3 DEF OnlySets
            <4> QED BY <3>1, <4>1, <4>2
        <3>2. CASE f = "logo"
            <4>1. [seen EXCEPT ![f] = seen[f]] = seen
                BY DEF ViewOf
            <4>2. next = Overridden(prefs, override, seen) /\ prefs' = [prefs EXCEPT !.logo = v]
                BY <1>1, <3>2, <4>1
            <4> HIDE DEF next, override
            <4>3. DOMAIN next = DOMAIN override
                BY <4>2, LogoView
            <4>4. f \in Fields /\ prefs'["logo"] = v
                BY <3>2, <4>2 DEF ViewInv
            <4>5. "logo" \notin DOMAIN next => ViewOf(next, prefs')[f] = prefs'[f]
                BY <3>2 DEF ViewOf
            <4> QED BY <3>2, <4>3, <4>4, <4>5
        <3> QED BY <3>1, <3>2
    <2>3. "logo" \notin DOMAIN override
        BY <1>1, <1>3, <2>1 DEF ViewInv, OverrideOf
    <2> HIDE DEF next, override
    <2>4. MemoryInv' /\ ShownInv'
        BY <1>1, <1>3 DEF MemoryInv, ShownInv
    <2>5. OverrideOf(page)' = next
        BY <1>1, <1>3 DEF OverrideOf, MemoryInv, ViewInv
    <2>6. DOMAIN prefs' = Fields /\ views' = [l \in {"keys", "groups"} |-> views'[l]]
        BY <1>1, <1>3 DEF ViewInv
    <2>7. "logo" \notin DOMAIN views'["keys"] \cup DOMAIN views'["groups"] \cup DOMAIN memory'.view
        BY <1>1, <1>3, <2>2, <2>3, <2>5 DEF ViewInv, MemoryInv
    <2>8. /\ picked'.list = page /\ page \in {"models", "keys", "groups"} /\ picked'.field = f /\ picked'.value = v
          /\ OverrideOf(picked.list)' = next /\ ViewOf(next, prefs')[f] = v
        BY <1>1, <1>3, <2>2, <2>3, <2>5
    <2>9. ViewInv'
        <3>1. ViewOf(OverrideOf(picked.list), prefs)' = ViewOf(next, prefs')
            BY <2>8 DEF ViewOf
        <3> QED BY <2>6, <2>7, <2>8, <3>1 DEF ViewInv
    <2> QED BY <2>4, <2>9
<1> QED BY <1>2, <1>3

LEMMA ViewReset ==
    ASSUME ListsInv, ResetView \/ \E f \in Fields : \E v \in Choices[f] : SetPreference(f, v)
    PROVE  ListsInv'
<1> USE DEF ListsInv
<1>1. CASE ResetView /\ page = "models"
    <2>1. /\ shown' = [shown EXCEPT !.view = <<>>] /\ memory' = [memory EXCEPT !.view = <<>>] /\ picked' = None
          /\ UNCHANGED <<page, scope, wanted, views, prefs>>
        BY <1>1 DEF ResetView
    <2>2. MemoryInv' /\ ShownInv' /\ memory'.view = <<>>
        BY <1>1, <2>1 DEF MemoryInv, ShownInv
    <2>3. ViewInv'
        BY <2>1, <2>2 DEF ViewInv
    <2> QED BY <2>2, <2>3
<1>2. CASE ResetView /\ page \in {"keys", "groups"}
    <2>1. views' = [views EXCEPT ![page] = <<>>] /\ picked' = None /\ UNCHANGED <<page, scope, memory, shown, wanted, prefs>>
        BY <1>2 DEF ResetView
    <2>2. MemoryInv' /\ ShownInv'
        BY <2>1 DEF MemoryInv, ShownInv
    <2>3. ViewInv'
        <3>1. views' = [l \in {"keys", "groups"} |-> IF l = page THEN <<>> ELSE views[l]]
            BY <1>2, <2>1 DEF ViewInv
        <3>2. "logo" \notin DOMAIN views'["keys"] \cup DOMAIN views'["groups"]
            BY <3>1 DEF ViewInv
        <3> QED BY <2>1, <3>1, <3>2 DEF ViewInv
    <2> QED BY <2>2, <2>3
<1>3. ASSUME NEW f \in Fields, NEW v \in Choices[f], SetPreference(f, v) PROVE ListsInv'
    <2>1. prefs' = [prefs EXCEPT ![f] = v] /\ picked' = None /\ UNCHANGED <<page, scope, memory, shown, wanted, views>>
        BY <1>3 DEF SetPreference, listVars
    <2>2. MemoryInv' /\ ShownInv' /\ ViewInv'
        BY <2>1 DEF MemoryInv, ShownInv, ViewInv
    <2> QED BY <2>2
<1> QED BY <1>1, <1>2, <1>3 DEF ResetView

LEMMA ControlsLists ==
    ASSUME ListsInv, Controls
    PROVE  ListsInv'
<1> USE DEF listVars
<1>1. ASSUME NEW v, KeySearch(v) \/ GroupSearch(v) \/ \E field \in DOMAIN KeyOptions : KeyFilter(field, v)
      PROVE  ListsInv'
    BY <1>1, KeyFilteredLists
<1>2. ASSUME NEW v, ModelSearch(v) PROVE ListsInv'
    <2>1. page = "models" => [shown.filters EXCEPT !.search = v] = [wanted.filters[scope] EXCEPT !.search = v]
        BY DEF ListsInv, ShownInv
    <2>2. /\ page \in {"models", "edit"} /\ Filtered([shown.filters EXCEPT !.search = v])
          /\ Wants([wanted.filters[scope] EXCEPT !.search = v])
        BY <1>2 DEF ModelSearch
    <2> QED BY <2>1, <2>2, FilteredLists
<1>3. ASSUME NEW p, ProviderFilter(p) PROVE ListsInv'
    <2>1. page = "models" => [shown.filters EXCEPT !.provider = p] = [wanted.filters[scope] EXCEPT !.provider = p]
        BY DEF ListsInv, ShownInv
    <2>2. /\ page \in {"models", "edit"} /\ Filtered([shown.filters EXCEPT !.provider = p])
          /\ Wants([wanted.filters[scope] EXCEPT !.provider = p])
        BY <1>3 DEF ProviderFilter
    <2> QED BY <2>1, <2>2, FilteredLists
<1>4. ASSUME NEW fs, ClearFilters(fs) PROVE ListsInv'
    <2> DEFINE f == [x \in DOMAIN NoFilters |-> IF x \in fs THEN NoFilters[x] ELSE shown.filters[x]]
               g == [x \in DOMAIN NoFilters |-> IF x \in fs THEN NoFilters[x] ELSE wanted.filters[scope][x]]
    <2>1. page = "models" => shown.filters = wanted.filters[scope]
        BY DEF ListsInv, ShownInv
    <2>2. page = "models" => f = g
        BY <2>1
    <2>3. page \in {"models", "edit"} /\ Filtered(f) /\ Wants(g)
        BY <1>4 DEF ClearFilters
    <2> QED BY <2>2, <2>3, FilteredLists
<1>5. ASSUME NEW v \in {"none", "provider"}, GroupModels(v) PROVE ListsInv'
    BY <1>5, OrderedLists
<1>6. ASSUME NEW v \in Sorts, SortModels(v) PROVE ListsInv'
    BY <1>6, OrderedLists
<1>7. ASSUME NEW f \in Fields, NEW v \in Choices[f], ChooseView(f, v) PROVE ListsInv'
    BY <1>7, ViewChosen
<1>8. CASE ResetView
    BY <1>8, ViewReset
<1>9. ASSUME NEW v, GatewaySearch(v) \/ GatewaySection(v) \/ GatewayLayout(v) PROVE ListsInv'
    BY <1>9, KeptLists DEF GatewaySearch, GatewaySection, GatewayLayout
<1>10. ASSUME NEW sec, FoldKeys(sec) \/ FoldSection(sec) \/ ShowMore(sec) PROVE ListsInv'
    BY <1>10, KeptLists DEF FoldKeys, FoldSection, ShowMore
<1>11. ASSUME NEW x, Toggle(x) \/ Compose(x) \/ AddGroup(x) PROVE ListsInv'
    BY <1>11, KeptLists DEF Toggle, Compose, AddGroup
<1>12. CASE ShowSelected \/ SelectVisible
    BY <1>12, KeptLists DEF ShowSelected, SelectVisible
<1> QED BY <1>1, <1>2, <1>3, <1>4, <1>5, <1>6, <1>7, <1>8, <1>9, <1>10, <1>11, <1>12 DEF Controls

\* What asks the server, and what it answers, leaves the lists alone.
LEMMA PagesNextCases ==
    ASSUME [PagesNext]_allVars
    PROVE  \/ UNCHANGED vars
           \/ Moves \/ Controls
           \/ \E f \in Fields : \E v \in Choices[f] : SetPreference(f, v)
           \/ LoggedOut
           \/ \E k \in Keys : VisitKey(k)
<1> USE DEF Keeps, Unmounted
<1>1. ASSUME NEW f, WrittenElsewhere(f) \/ LeftEnds PROVE UNCHANGED vars
    BY <1>1 DEF WrittenElsewhere, LeftEnds
<1>2. ASSUME NEW f, NEW ok, ChooseFile(f, ok) \/ FileRead(f, ok) PROVE UNCHANGED vars
    BY <1>2 DEF ChooseFile, FileRead
<1>3. ASSUME PreviewFile \/ PreviewArrives \/ ApplyFile \/ \E ok \in BOOLEAN : ImportEnds(ok) \/ SettingsEnd(ok)
      PROVE  UNCHANGED vars
    BY <1>3 DEF PreviewFile, PreviewArrives, ApplyFile, ImportEnds, SettingsEnd
<1>4. ASSUME NEW s, ChooseSection(s) PROVE UNCHANGED vars
    BY <1>4 DEF ChooseSection
<1>5. CASE SaveSettings \/ SettingsArrive \/ Reload \/ RetryDiscovery \/ ClearSettings
    BY <1>5 DEF SaveSettings, SettingsArrive, Reload, RetryDiscovery, ClearSettings
<1>6. CASE ChoicesArrive
    BY <1>6 DEF ChoicesArrive
<1>7. ASSUME NEW x, ChooseKey(x) \/ ChooseModel(x) \/ ChooseEndpoint(x) \/ OpenCard(x) \/ TickRow(x)
             \/ \E v \in Values \cup {None} : TypeFact(x, v)
      PROVE  UNCHANGED vars
    BY <1>7 DEF ChooseKey, ChooseModel, ChooseEndpoint, OpenCard, TickRow, TypeFact
<1>8. CASE CloseCard \/ Generate \/ ProposalArrives \/ ApplyProposal
    BY <1>8 DEF CloseCard, Generate, ProposalArrives, ApplyProposal
<1>9. CASE OpenSecret \/ CloseSecret \/ Reveal \/ SecretArrives \/ KeyDrawn
    BY <1>9 DEF OpenSecret, CloseSecret, Reveal, SecretArrives, KeyDrawn
<1>10. CASE UNCHANGED allVars
    BY <1>10 DEF allVars
<1> HIDE DEF Keeps, Unmounted
<1>11. CASE PagesNext
    BY <1>11, <1>1, <1>2, <1>3, <1>4, <1>5, <1>6, <1>7, <1>8, <1>9 DEF PagesNext
<1> QED BY <1>10, <1>11

LEMMA ListsStep ==
    ASSUME ListsInv, [PagesNext]_allVars
    PROVE  ListsInv'
<1>1. CASE UNCHANGED vars
    BY <1>1, KeptLists DEF vars, listVars
<1>2. CASE LoggedOut
    <2>1. page' = "start" /\ scope' = scope /\ UNCHANGED <<memory, wanted, viewVars>>
        BY <1>2 DEF LoggedOut
    <2> QED BY <2>1 DEF ListsInv, MemoryInv, ShownInv, ViewInv, viewVars, OverrideOf
<1>3. ASSUME NEW k, VisitKey(k) PROVE ListsInv'
    BY <1>3, KeptLists DEF VisitKey, listVars
<1> QED BY <1>1, <1>2, <1>3, MovesLists, ControlsLists, ViewReset, PagesNextCases

LEMMA ListsInitially == PagesInit => ListsInv
<1> SUFFICES ASSUME PagesInit PROVE ListsInv
    OBVIOUS
<1>1. /\ page = "start" /\ scope = "registry" /\ memory = Fresh /\ wanted = Fresh
      /\ prefs = Preferred /\ views = [l \in {"keys", "groups"} |-> <<>>] /\ picked = None
    BY DEF PagesInit, ListsInit
<1>2. MemoryInv
    BY <1>1 DEF MemoryInv, Fresh, Scopes, Sorts
<1>3. ViewInv
    BY <1>1, ListsAssumption DEF ViewInv, Fresh
<1> QED BY <1>1, <1>2, <1>3 DEF ListsInv, ShownInv

\* Every list shows what was last set for it and nothing set for another, and a view the option
\* last picked for it (lib/session-state.ts, ViewOptions.tsx), whatever was opened in between
\* and for any filters, views and preferences.
THEOREM ListsAreRemembered == PagesSpec => []ListsKeepTheirState
<1>1. ListsInv /\ [PagesNext]_allVars => ListsInv'
    BY ListsStep
<1>2. ListsInv => ListsKeepTheirState
    <2> SUFFICES ASSUME ListsInv PROVE ListsKeepTheirState
        OBVIOUS
    <2>1. page = "models" => /\ shown.filters = wanted.filters[scope] /\ shown.groupBy = wanted.groupBy
                             /\ shown.sort = wanted.sort /\ shown.view = memory.view
        BY DEF ListsInv, ShownInv
    <2>2. SortInForce(scope) = "recent" => scope = "registry"
        BY DEF ListsInv, MemoryInv, Scopes, SortInForce
    <2>3. \A l \in {"models", "keys", "groups"} : "logo" \notin DOMAIN OverrideOf(l)
        BY DEF ListsInv, ViewInv, OverrideOf
    <2>4. picked # None => ViewOf(OverrideOf(picked.list), prefs)[picked.field] = picked.value
        BY DEF ListsInv, ViewInv
    <2>5. (page = "keys" => shown = wanted.keys) /\ (page = "groups" => shown = wanted.groups)
        BY DEF ListsInv, ShownInv
    <2> QED BY <2>1, <2>2, <2>3, <2>4, <2>5 DEF ListsKeepTheirState
<1> QED BY ListsInitially, <1>1, <1>2, PTL DEF PagesSpec

\* A key's page is that of a key there is, and what is edited is a selection.
EditInv ==
    /\ at \in world.keys \cup {None}
    /\ world \in Worlds
    /\ page = "key" => at # None
    /\ page = "edit" => draft \in [groups : SUBSET Groups, added : SUBSET Models, excluded : SUBSET Models]

\* toggleModel: the models given change sides, and no other.
LEMMA FlippedMembers ==
    ASSUME NEW p, NEW F, NEW w, p \in [groups : SUBSET Groups, added : SUBSET Models, excluded : SUBSET Models],
           F \subseteq Models
    PROVE  /\ Flipped(p, F, w) \in [groups : SUBSET Groups, added : SUBSET Models, excluded : SUBSET Models]
           /\ Flipped(p, F, w).groups = p.groups
           /\ \A m : m \in Members(Flipped(p, F, w), w) <=> IF m \in F THEN m \notin Members(p, w) ELSE m \in Members(p, w)
<1> DEFINE on == Members(p, w)
           a == (p.added \ F) \cup {m \in F \ on : ~Inherited(m, p, w)}
           e == (p.excluded \ F) \cup {m \in F \cap on : Inherited(m, p, w)}
           r == Flipped(p, F, w)
           u == UNION {w.has[g] : g \in w.groups \cap p.groups}
<1>1. r = [p EXCEPT !.added = a, !.excluded = e]
    BY DEF Flipped
<1>2. a \in SUBSET Models /\ e \in SUBSET Models
    OBVIOUS
<1>3. \A m : Inherited(m, p, w) <=> m \in u
    BY DEF Inherited
<1>4. on = (u \cup p.added) \ p.excluded
    BY DEF Members
<1>5. \A m : m \in a <=> (m \in p.added /\ m \notin F) \/ (m \in F /\ m \notin on /\ m \notin u)
    BY <1>3
<1>6. \A m : m \in e <=> (m \in p.excluded /\ m \notin F) \/ (m \in F /\ m \in on /\ m \in u)
    BY <1>3
<1>7. \A m : m \in on <=> (m \in u \/ m \in p.added) /\ m \notin p.excluded
    BY <1>4
<1> HIDE DEF a, e, on
<1>8. r \in [groups : SUBSET Groups, added : SUBSET Models, excluded : SUBSET Models] /\ r.groups = p.groups
      /\ r.added = a /\ r.excluded = e
    BY <1>1, <1>2
<1> HIDE DEF r
<1>9. Members(r, w) = (u \cup a) \ e
    BY <1>8 DEF Members
<1>10. \A m : m \in Members(r, w) <=> (m \in u \/ m \in a) /\ m \notin e
    BY <1>9
<1> HIDE DEF u
<1>11. \A m : m \in Members(r, w) <=> IF m \in F THEN m \notin on ELSE m \in on
    BY <1>5, <1>6, <1>7, <1>10
<1> QED BY <1>8, <1>11 DEF r, on

-----------------------------------------------------------------------------
(* The selection being edited.                                             *)

LEMMA ResultsAreListed == InResults \subseteq ListOnScreen /\ (UNION {sec.items : sec \in EditSections}) \subseteq InResults
<1>1. InResults \subseteq ListOnScreen
    BY DEF InResults, MatchingModels
<1>2. ASSUME NEW sec \in EditSections PROVE sec.items \subseteq InResults
    BY <1>2 DEF EditSections, SectionsOf
<1> QED BY <1>1, <1>2

\* Every control of the editor flips what is on screen, or one model named beside it.
LEMMA EditedSelections ==
    ASSUME EditInv, page = "edit",
           \/ SelectVisible
           \/ \E m \in Models : Toggle(m) \/ Compose(m)
    PROVE  \E F \in SUBSET Models : /\ draft' = Flipped(draft, F, world)
                                    /\ F \subseteq InResults \/ \E m \in Members(draft, world) \cup draft.excluded : F = {m}
<1>1. CASE SelectVisible
    <2> DEFINE target == WithVisible(Members(draft, world), InResults, ~InResults \subseteq Members(draft, world))
               F == {m \in world.cards : (m \in Members(draft, world)) # (m \in target)}
    <2>1. draft' = Flipped(draft, F, world)
        BY <1>1 DEF SelectVisible, FlipTo
    <2>2. F \subseteq Models
        BY ListsAssumption DEF EditInv
    <2>3. F \subseteq InResults
        BY DEF WithVisible
    <2> QED BY <2>1, <2>2, <2>3
<1>2. ASSUME NEW m \in Models, Toggle(m)
      PROVE  /\ draft' = Flipped(draft, {m}, world)
             /\ {m} \subseteq InResults \/ m \in Members(draft, world) \cup draft.excluded
    BY <1>2, ResultsAreListed DEF Toggle, OutsideResults
<1>3. ASSUME NEW m \in Models, Compose(m)
      PROVE  draft' = Flipped(draft, {m}, world) /\ m \in Members(draft, world) \cup draft.excluded
    BY <1>3 DEF Compose
<1>4. ASSUME NEW m \in Models, Toggle(m) \/ Compose(m)
      PROVE  \E F \in SUBSET Models : /\ draft' = Flipped(draft, F, world)
                                      /\ F \subseteq InResults \/ \E n \in Members(draft, world) \cup draft.excluded : F = {n}
    <2>1. /\ draft' = Flipped(draft, {m}, world)
          /\ {m} \subseteq InResults \/ m \in Members(draft, world) \cup draft.excluded
        BY <1>2, <1>3, <1>4
    <2>2. {m} \subseteq InResults \/ \E n \in Members(draft, world) \cup draft.excluded : {m} = {n}
        BY <2>1
    <2>3. {m} \in SUBSET Models
        OBVIOUS
    <2> WITNESS {m} \in SUBSET Models
    <2> QED BY <2>1, <2>2
<1> QED BY <1>1, <1>4

LEMMA EditMoves ==
    ASSUME EditInv, Moves
    PROVE  EditInv'
<1> USE ListsAssumption DEF EditInv, Shows
<1>1. ASSUME NEW p \in session \ {"key", "edit", "card"}, Go(p) PROVE EditInv'
    BY <1>1 DEF Go
<1>2. ASSUME NEW w \in Worlds, DataArrive(w) PROVE EditInv'
    <2>1. CASE at \in w.keys \cup {None}
        BY <1>2, <2>1 DEF DataArrive
    <2>2. CASE at \notin w.keys \cup {None}
        BY <1>2, <2>2 DEF DataArrive
    <2> QED BY <2>1, <2>2
<1>3. CASE SignOut
    BY <1>3 DEF SignOut
<1>4. ASSUME NEW k \in Keys, OpenKey(k) PROVE EditInv'
    BY <1>4 DEF OpenKey, KeysOnScreen, MatchingKeys
<1>5. CASE AddMissing
    BY <1>5 DEF AddMissing
<1>6. ASSUME NEW s \in Scopes, Switch(s) PROVE EditInv'
    BY <1>6 DEF Switch
<1>7. CASE EditKey
    BY <1>7 DEF EditKey
<1>8. CASE StopEditing
    BY <1>8 DEF StopEditing
<1>9. ASSUME NEW g \in Groups, EditGroup(g) PROVE EditInv'
    BY <1>9 DEF EditGroup, GroupsOnScreen, MatchingGroups
<1> HIDE ListsAssumption DEF EditInv, Shows
<1> QED BY <1>1, <1>2, <1>3, <1>4, <1>5, <1>6, <1>7, <1>8, <1>9 DEF Moves

\* The other controls leave the selection alone.
LEMMA ControlsSelect ==
    ASSUME Controls
    PROVE  \/ draft' = draft
           \/ SelectVisible \/ \E m \in Models : Toggle(m) \/ Compose(m)
           \/ \E g \in Groups : AddGroup(g)
<1> USE DEF listVars, viewVars, Filtered
<1>1. ASSUME NEW v, KeySearch(v) \/ GroupSearch(v) \/ ModelSearch(v) \/ GatewaySearch(v)
                    \/ \E field \in DOMAIN KeyOptions : KeyFilter(field, v)
      PROVE  draft' = draft
    BY <1>1 DEF KeySearch, GroupSearch, ModelSearch, GatewaySearch, KeyFilter
<1>2. ASSUME NEW v, FoldKeys(v) \/ ProviderFilter(v) \/ ClearFilters(v) \/ GroupModels(v) \/ SortModels(v)
      PROVE  draft' = draft
    BY <1>2 DEF FoldKeys, ProviderFilter, ClearFilters, GroupModels, SortModels
<1>3. ASSUME NEW v, FoldSection(v) \/ ShowMore(v) \/ (\E f \in Fields : ChooseView(f, v)) \/ ResetView
                    \/ GatewaySection(v) \/ GatewayLayout(v) \/ ShowSelected
      PROVE  draft' = draft
    BY <1>3 DEF FoldSection, ShowMore, ChooseView, ResetView, GatewaySection, GatewayLayout, ShowSelected
<1> HIDE DEF listVars, viewVars, Filtered
<1> QED BY <1>1, <1>2, <1>3 DEF Controls

LEMMA EditControls ==
    ASSUME EditInv, Controls
    PROVE  EditInv'
<1>1. UNCHANGED <<world, page, at>>
    BY ControlsFrame
<1>2. draft' = draft \/ page # "edit" => EditInv'
    BY <1>1 DEF EditInv
<1>3. CASE page = "edit" /\ (SelectVisible \/ \E m \in Models : Toggle(m) \/ Compose(m))
    <2>1. PICK F \in SUBSET Models : draft' = Flipped(draft, F, world)
        BY <1>3, EditedSelections
    <2>2. draft' \in [groups : SUBSET Groups, added : SUBSET Models, excluded : SUBSET Models]
        BY <1>3, <2>1, FlippedMembers DEF EditInv
    <2> QED BY <1>1, <1>3, <2>2 DEF EditInv
<1>4. ASSUME page = "edit", NEW g \in Groups, AddGroup(g) PROVE EditInv'
    <2> DEFINE gs == IF g \in draft.groups THEN draft.groups \ {g} ELSE draft.groups \cup {g}
    <2>1. draft' = [draft EXCEPT !.groups = gs]
        BY <1>4 DEF AddGroup
    <2>2. gs \in SUBSET Groups
        BY <1>4 DEF EditInv
    <2> HIDE DEF gs
    <2>3. draft' \in [groups : SUBSET Groups, added : SUBSET Models, excluded : SUBSET Models]
        BY <1>4, <2>1, <2>2 DEF EditInv
    <2> QED BY <1>1, <1>4, <2>3 DEF EditInv
<1>5. SelectVisible \/ (\E m \in Models : Toggle(m) \/ Compose(m)) \/ (\E g \in Groups : AddGroup(g)) => page = "edit"
    BY DEF SelectVisible, Toggle, Compose, AddGroup
<1> QED BY <1>2, <1>3, <1>4, <1>5, ControlsSelect

LEMMA EditStep ==
    ASSUME EditInv, [PagesNext]_allVars
    PROVE  EditInv'
<1>1. CASE UNCHANGED vars
    BY <1>1 DEF vars, EditInv
<1>2. ASSUME NEW f, NEW v, SetPreference(f, v) PROVE EditInv'
    BY <1>2 DEF SetPreference, EditInv
<1>3. CASE LoggedOut
    BY <1>3 DEF LoggedOut, EditInv
<1>4. ASSUME NEW k, VisitKey(k) PROVE EditInv'
    BY <1>4, ListsAssumption DEF VisitKey, EditInv
<1> QED BY <1>1, <1>2, <1>3, <1>4, EditMoves, EditControls, PagesNextCases

LEMMA EditInitially == PagesInit => EditInv
BY ListsAssumption DEF PagesInit, ListsInit, EditInv

\* What changes the selection of the editor on screen, its groups and the data kept.
LEMMA SelectionChanges ==
    ASSUME EditInv, [PagesNext]_allVars, page = "edit", page' = "edit", world' = world, draft' # draft,
           draft'.groups = draft.groups
    PROVE  SelectVisible \/ \E m \in Models : Toggle(m) \/ Compose(m)
<1>1. ~Moves
    <2>1. ASSUME NEW p \in session \ {"key", "edit", "card"}, Go(p) PROVE FALSE
        BY <2>1 DEF Go, Shows
    <2>2. ASSUME NEW w, DataArrive(w) PROVE FALSE
        BY <2>2 DEF DataArrive
    <2>3. ASSUME NEW x, SignOut \/ OpenKey(x) \/ AddMissing \/ EditKey \/ EditGroup(x) PROVE FALSE
        BY <2>3 DEF SignOut, OpenKey, AddMissing, EditKey, EditGroup
    <2>4. ASSUME NEW s, Switch(s) \/ StopEditing PROVE FALSE
        BY <2>4 DEF Switch, StopEditing, Shows
    <2> QED BY <2>1, <2>2, <2>3, <2>4 DEF Moves
<1>2. ~LoggedOut /\ \A k : ~VisitKey(k)
    BY DEF LoggedOut, VisitKey
<1>3. ASSUME NEW f, NEW v, SetPreference(f, v) PROVE FALSE
    BY <1>3 DEF SetPreference
<1>4. ~UNCHANGED vars
    BY DEF vars
<1>5. ASSUME NEW g, AddGroup(g) PROVE FALSE
    BY <1>5 DEF AddGroup, EditInv
<1>6. Controls
    BY <1>1, <1>2, <1>3, <1>4, PagesNextCases
<1> QED BY <1>5, <1>6, ControlsSelect

\* A change of the selection is one the operator sees (selection.ts, KeyComposer.state.ts,
\* ModelBrowser.tsx): it moves models among the results, or one that is named beside them, for
\* any groups, additions, exclusions and results.
THEOREM SelectionsAreVisible == PagesSpec => SelectionIsVisible
<1>1. EditInv /\ [PagesNext]_allVars => EditInv'
    BY EditStep
<1> DEFINE moved == (Members(draft, world) \ Members(draft', world)) \cup (Members(draft', world) \ Members(draft, world))
<1>2. ASSUME EditInv, [PagesNext]_allVars, page = "edit", page' = "edit", world' = world, draft' # draft,
             draft'.groups = draft.groups
      PROVE  moved \subseteq InResults \/ \E m \in Members(draft, world) \cup draft.excluded : moved = {m}
    <2>1. SelectVisible \/ \E m \in Models : Toggle(m) \/ Compose(m)
        BY <1>2, SelectionChanges
    <2>2. PICK F \in SUBSET Models : /\ draft' = Flipped(draft, F, world)
                                     /\ F \subseteq InResults \/ \E m \in Members(draft, world) \cup draft.excluded : F = {m}
        BY <1>2, <2>1, EditedSelections
    <2>3. \A m : m \in Members(draft', world) <=> IF m \in F THEN m \notin Members(draft, world) ELSE m \in Members(draft, world)
        BY <1>2, <2>2, FlippedMembers DEF EditInv
    <2>4. moved = F
        BY <2>3
    <2> QED BY <2>2, <2>4
<1> DEFINE Visible == /\ page = "edit" /\ page' = "edit" /\ world' = world
                      /\ draft' # draft /\ draft'.groups = draft.groups
                      => moved \subseteq InResults \/ \E m \in Members(draft, world) \cup draft.excluded : moved = {m}
<1>3. EditInv /\ [PagesNext]_allVars => [Visible]_vars
    BY <1>2
<1>4. PagesSpec => [][Visible]_vars
    BY <1>1, <1>3, EditInitially, PTL DEF PagesSpec
<1> QED BY <1>4, PTL DEF SelectionIsVisible

\* A shelf that was closed on the page is remembered as such.
FoldsInv ==
    /\ folds = [open |-> folds.open, more |-> folds.more]
    /\ \A i \in DOMAIN folds.open : folds.open[i] \in BOOLEAN
    /\ page = "keys" => \A i \in DOMAIN folds.open : ~folds.open[i] => i \in shut
    /\ page = "models" =>
          \A i \in DOMAIN folds.open :
              /\ i = <<i[1], "provider", i[3]>>
              /\ ~folds.open[i] => <<i[1], i[3]>> \in shut
    /\ \A i \in DOMAIN folds.more : folds.more[i] \in Nat

-----------------------------------------------------------------------------
(* What is folded away.                                                    *)

\* Every model is in a section, and nothing else is.
LEMMA SectionsHoldAll ==
    ASSUME NEW models \in SUBSET Models, NEW g, NEW s
    PROVE  UNION {sec.items : sec \in SectionsOf(models, g, s)} = models
<1>1. CASE g = "none"
    <2>1. SectionsOf(models, g, s) = {[key |-> None, shelf |-> FALSE, items |-> models]}
        BY <1>1 DEF SectionsOf
    <2> QED BY <2>1
<1>2. CASE g # "none"
    <2> DEFINE items(p) == {m \in models : p \in By[m]}
               row(p) == [key |-> p, shelf |-> s = "to-add" /\ p \in Aggregators, items |-> items(p)]
    <2>1. SectionsOf(models, g, s) = {row(p) : p \in UNION {By[m] : m \in models}}
        BY <1>2 DEF SectionsOf
    <2>2. \A m \in models : \E p \in By[m] : TRUE
        BY ListsAssumption
    <2>3. \A p : row(p).items = items(p)
        OBVIOUS
    <2>4. ASSUME NEW m \in models PROVE \E sec \in SectionsOf(models, g, s) : m \in sec.items
        <3>1. PICK p \in By[m] : TRUE
            BY <2>2
        <3>2. row(p) \in SectionsOf(models, g, s) /\ m \in items(p)
            BY <2>1, <3>1
        <3> QED BY <2>3, <3>2
    <2>5. ASSUME NEW sec \in SectionsOf(models, g, s) PROVE sec.items \subseteq models
        BY <2>1, <2>3, <2>5
    <2> QED BY <2>4, <2>5
<1> QED BY <1>1, <1>2

LEMMA ListedModels ==
    ASSUME EditInv
    PROVE  /\ Listed(scope, world) \subseteq Models
           /\ \A s, f, g : UNION {sec.items : sec \in SectionsOf(MatchingModels(Listed(scope, world), f), g, s)}
                             = MatchingModels(Listed(scope, world), f)
<1>1. Listed(scope, world) \subseteq Models
    BY ListsAssumption DEF EditInv, Listed
<1>2. \A f : MatchingModels(Listed(scope, world), f) \subseteq Models
    BY <1>1 DEF MatchingModels
<1> QED BY <1>1, <1>2, SectionsHoldAll

LEMMA EditedResults ==
    ASSUME EditInv, page = "edit"
    PROVE  UNION {sec.items : sec \in EditSections} = InResults
<1>1. InResults \subseteq world.cards
    BY DEF InResults, MatchingModels, ListOnScreen
<1>2. InResults \in SUBSET Models
    BY <1>1, ListsAssumption DEF EditInv
<1> QED BY <1>2, SectionsHoldAll DEF EditSections

LEMMA TileSectionsAre ==
    ASSUME EditInv, ListsInv, page = "models", NEW sec \in TileSections
    PROVE  /\ sec.items \subseteq Models /\ IsFiniteSet(sec.items)
           /\ sec.shelf \in BOOLEAN
           /\ sec.shelf => shown.groupBy = "provider"
<1>1. shown.groupBy \in {"none", "provider"}
    BY DEF ListsInv, MemoryInv, ShownInv
<1>2. \A models : \A x \in SectionsOf(models, shown.groupBy, scope) :
          x.items \subseteq models /\ x.shelf \in BOOLEAN /\ (x.shelf => shown.groupBy = "provider")
    <2>1. CASE shown.groupBy = "none"
        <3>1. \A models : SectionsOf(models, shown.groupBy, scope) = {[key |-> None, shelf |-> FALSE, items |-> models]}
            BY <2>1 DEF SectionsOf
        <3> TAKE models
        <3>2. TAKE x \in SectionsOf(models, shown.groupBy, scope)
        <3>3. x = [key |-> None, shelf |-> FALSE, items |-> models]
            BY <3>1, <3>2
        <3>4. x.items = models /\ x.shelf = FALSE
            BY <3>3
        <3> QED BY <3>4
    <2>2. CASE shown.groupBy = "provider"
        <3> TAKE models
        <3>1. TAKE x \in SectionsOf(models, shown.groupBy, scope)
        <3>2. PICK p : x = [key |-> p, shelf |-> scope = "to-add" /\ p \in Aggregators, items |-> {m \in models : p \in By[m]}]
            BY <2>2, <3>1 DEF SectionsOf
        <3>3. x.items = {m \in models : p \in By[m]} /\ x.shelf = (scope = "to-add" /\ p \in Aggregators)
            BY <3>2
        <3> QED BY <2>2, <3>3
    <2> QED BY <1>1, <2>1, <2>2
<1>3. sec.items \subseteq Models
    BY <1>2, ListedModels DEF TileSections, MatchingModels
<1> QED BY <1>2, <1>3, ListsAssumption, FS_Subset DEF TileSections

LEMMA FoldsStep ==
    ASSUME EditInv, ListsInv, FoldsInv, [PagesNext]_allVars
    PROVE  FoldsInv'
<1>1. UNCHANGED <<folds, shut, page>> => FoldsInv'
    BY DEF FoldsInv
<1>2. folds' = NoFolds => FoldsInv'
    BY DEF FoldsInv, NoFolds
<1>3. ASSUME NEW shelf, FoldKeys(shelf) PROVE FoldsInv'
    <2> DEFINE id == <<FilteringKeys(shown), shelf>>
               was == ShelfOpen(shelf)
    <2>1. /\ page = "keys" /\ page' = page /\ folds' = [folds EXCEPT !.open = With(folds.open, id, ~was)]
          /\ shut' = IF was THEN shut \cup {id} ELSE shut \ {id}
        BY <1>3 DEF FoldKeys, Folded, ShelfId
    <2>2. was \in BOOLEAN
        BY DEF ShelfOpen
    <2> HIDE DEF id, was
    <2>3. folds' = [open |-> folds'.open, more |-> folds.more] /\ folds'.open = With(folds.open, id, ~was)
        BY <2>1 DEF FoldsInv
    <2>4. folds'.open = [y \in DOMAIN folds.open \cup {id} |-> IF y = id THEN ~was ELSE folds.open[y]]
        BY <2>3 DEF With
    <2> QED BY <2>1, <2>2, <2>3, <2>4 DEF FoldsInv
<1>4. ASSUME NEW sec, FoldSection(sec) PROVE FoldsInv'
    <2> DEFINE mode == FilteringModels(shown.filters)
               id == <<mode, shown.groupBy, sec.key>>
               was == SectionOpen(sec)
    <2>1. /\ page = "models" /\ page' = page /\ folds' = [folds EXCEPT !.open = With(folds.open, id, ~was)]
          /\ shut' = IF was THEN shut \cup {<<mode, sec.key>>} ELSE shut \ {<<mode, sec.key>>}
          /\ sec \in TileSections /\ sec.shelf
        BY <1>4 DEF FoldSection, Folded
    <2>2. was \in BOOLEAN
        BY DEF SectionOpen
    <2>3. id = <<mode, "provider", sec.key>>
        BY <2>1, TileSectionsAre
    <2> HIDE DEF id, was, mode
    <2>4. folds' = [open |-> folds'.open, more |-> folds.more] /\ folds'.open = With(folds.open, id, ~was)
        BY <2>1 DEF FoldsInv
    <2>5. folds'.open = [y \in DOMAIN folds.open \cup {id} |-> IF y = id THEN ~was ELSE folds.open[y]]
        BY <2>4 DEF With
    <2>6. ASSUME NEW i \in DOMAIN folds'.open
          PROVE  /\ folds'.open[i] \in BOOLEAN /\ i = <<i[1], "provider", i[3]>>
                 /\ ~folds'.open[i] => <<i[1], i[3]>> \in shut'
        <3>1. CASE i = id
            BY <2>1, <2>2, <2>3, <2>5, <3>1
        <3>2. CASE i # id
            <4>1. i \in DOMAIN folds.open /\ folds'.open[i] = folds.open[i]
                BY <2>5, <3>2
            <4>2. i = <<i[1], "provider", i[3]>> /\ (~folds.open[i] => <<i[1], i[3]>> \in shut)
                  /\ folds.open[i] \in BOOLEAN
                BY <2>1, <4>1 DEF FoldsInv
            <4>3. <<i[1], i[3]>> # <<mode, sec.key>>
                BY <2>3, <3>2, <4>2
            <4> QED BY <2>1, <4>1, <4>2, <4>3
        <3> QED BY <3>1, <3>2
    <2> QED BY <2>1, <2>4, <2>6 DEF FoldsInv
<1>5. ASSUME NEW sec, ShowMore(sec) PROVE FoldsInv'
    <2> DEFINE id == <<shown.groupBy, sec.key>>
               n == Cardinality(VisibleIn(sec, scope)) + PageSize
    <2>1. /\ page = "models" /\ page' = page /\ shut' = shut /\ folds' = [folds EXCEPT !.more = With(folds.more, id, n)]
          /\ sec \in TileSections
        BY <1>5 DEF ShowMore
    <2>2. n \in Nat
        <3>1. VisibleIn(sec, scope) \subseteq sec.items
            BY DEF VisibleIn, First
        <3>2. IsFiniteSet(sec.items)
            BY <2>1, TileSectionsAre
        <3> QED BY <3>1, <3>2, FS_Subset, FS_CardinalityType, ListsAssumption
    <2> HIDE DEF id, n
    <2>3. folds' = [open |-> folds.open, more |-> folds'.more] /\ folds'.more = With(folds.more, id, n)
        BY <2>1 DEF FoldsInv
    <2>4. folds'.more = [y \in DOMAIN folds.more \cup {id} |-> IF y = id THEN n ELSE folds.more[y]]
        BY <2>3 DEF With
    <2> QED BY <2>1, <2>2, <2>3, <2>4 DEF FoldsInv
<1>6. CASE Moves
    <2> USE DEF Shows, listVars
    <2>1. ASSUME NEW p, Go(p) PROVE folds' = NoFolds
        BY <2>1 DEF Go
    <2>2. ASSUME NEW w, DataArrive(w) PROVE folds' = NoFolds \/ UNCHANGED <<folds, shut, page>>
        BY <2>2 DEF DataArrive
    <2>3. ASSUME NEW x, SignOut \/ OpenKey(x) \/ AddMissing \/ EditKey \/ EditGroup(x) \/ StopEditing PROVE folds' = NoFolds
        BY <2>3 DEF SignOut, OpenKey, AddMissing, EditKey, EditGroup, StopEditing
    <2>4. ASSUME NEW s, Switch(s) PROVE UNCHANGED <<folds, shut, page>>
        BY <2>4 DEF Switch
    <2> HIDE DEF Shows, listVars
    <2> QED BY <1>1, <1>2, <1>6, <2>1, <2>2, <2>3, <2>4 DEF Moves
<1>7. CASE Controls
    <2> USE DEF listVars, viewVars, Filtered
    <2>1. ASSUME NEW v, KeySearch(v) \/ GroupSearch(v) \/ ModelSearch(v) \/ GatewaySearch(v)
                        \/ \E field \in DOMAIN KeyOptions : KeyFilter(field, v)
          PROVE  UNCHANGED <<folds, shut, page>>
        BY <2>1 DEF KeySearch, GroupSearch, ModelSearch, GatewaySearch, KeyFilter
    <2>2. ASSUME NEW v, ProviderFilter(v) \/ ClearFilters(v) \/ GroupModels(v) \/ SortModels(v)
          PROVE  UNCHANGED <<folds, shut, page>>
        BY <2>2 DEF ProviderFilter, ClearFilters, GroupModels, SortModels
    <2>3. ASSUME NEW v, (\E f \in Fields : ChooseView(f, v)) \/ ResetView \/ GatewaySection(v) \/ GatewayLayout(v)
                        \/ ShowSelected \/ SelectVisible \/ AddGroup(v) \/ Toggle(v) \/ Compose(v)
          PROVE  UNCHANGED <<folds, shut, page>>
        BY <2>3 DEF ChooseView, ResetView, GatewaySection, GatewayLayout, ShowSelected, SelectVisible, AddGroup,
           Toggle, Compose
    <2> HIDE DEF listVars, viewVars, Filtered
    <2> QED BY <1>1, <1>3, <1>4, <1>5, <1>7, <2>1, <2>2, <2>3 DEF Controls
<1>8. CASE UNCHANGED vars
    BY <1>1, <1>8 DEF vars, listVars
<1>9. ASSUME NEW x, NEW v, SetPreference(x, v) \/ VisitKey(x) PROVE FoldsInv'
    BY <1>1, <1>9 DEF SetPreference, VisitKey, listVars
<1>10. CASE LoggedOut
    BY <1>2, <1>10 DEF LoggedOut
<1> QED BY <1>6, <1>7, <1>8, <1>9, <1>10, PagesNextCases

-----------------------------------------------------------------------------
(* What a filter finds is on screen, or folded away by the operator.       *)

\* A part and what it leaves add up.
LEMMA PartsAddUp ==
    ASSUME NEW S, IsFiniteSet(S), NEW T, T \subseteq S
    PROVE  /\ Cardinality(S) = Cardinality(T) + Cardinality(S \ T)
           /\ Cardinality(S) \in Nat /\ Cardinality(T) \in Nat /\ Cardinality(S \ T) \in Nat
           /\ IsFiniteSet(T) /\ IsFiniteSet(S \ T)
<1>1. S \cap T = T
    OBVIOUS
<1>2. IsFiniteSet(T) /\ IsFiniteSet(S \ T)
    BY FS_Subset
<1>3. Cardinality(S \ T) = Cardinality(S) - Cardinality(T)
    BY <1>1, FS_Difference
<1> QED BY <1>2, <1>3, FS_CardinalityType

LEMMA KeysFound ==
    ASSUME EditInv, FoldsInv, page = "keys"
    PROVE  /\ \A k \in MatchingKeys(shown, world) \ KeysOnScreen :
                 \/ <<FilteringKeys(shown), ShelfOf(k, world)>> \in shut
                 \/ ~FilteringKeys(shown) /\ ShelfOf(k, world) = "empty"
           /\ Cardinality(MatchingKeys(shown, world)) = Cardinality(KeysOnScreen) + Cardinality(Collapsed)
<1>1. ASSUME NEW k \in MatchingKeys(shown, world), ~ShelfOpen(ShelfOf(k, world))
      PROVE  \/ <<FilteringKeys(shown), ShelfOf(k, world)>> \in shut
             \/ ~FilteringKeys(shown) /\ ShelfOf(k, world) = "empty"
    <2> DEFINE shelf == ShelfOf(k, world)
               id == <<FilteringKeys(shown), shelf>>
    <2>1. shelf \in {"managed", "adopt", "empty"}
        BY DEF ShelfOf
    <2>2. shelf # "managed" /\ ~Chosen(id, FilteringKeys(shown) \/ shelf = "adopt")
        BY <1>1 DEF ShelfOpen, ShelfId
    <2>3. CASE id \in DOMAIN folds.open
        BY <2>2, <2>3 DEF Chosen, FoldsInv
    <2>4. CASE id \notin DOMAIN folds.open
        BY <2>1, <2>2, <2>4 DEF Chosen
    <2> QED BY <2>3, <2>4
<1>2. KeysOnScreen \subseteq MatchingKeys(shown, world) /\ Collapsed = MatchingKeys(shown, world) \ KeysOnScreen
    BY DEF KeysOnScreen, Collapsed
<1>3. IsFiniteSet(MatchingKeys(shown, world))
    <2>1. MatchingKeys(shown, world) \subseteq Keys
        BY ListsAssumption DEF MatchingKeys, EditInv
    <2> QED BY <2>1, ListsAssumption, FS_Subset
<1>4. \A k \in MatchingKeys(shown, world) \ KeysOnScreen : ~ShelfOpen(ShelfOf(k, world))
    BY DEF KeysOnScreen
<1> QED BY <1>1, <1>2, <1>3, <1>4, PartsAddUp

\* Past what a section shows there are more models than it shows.
LEMMA BeyondExtent ==
    ASSUME NEW items \in SUBSET Models, NEW n \in Nat, NEW sort \in Sorts, NEW m \in items \ First(items, n, sort)
    PROVE  Cardinality(items) > n
<1> DEFINE before == {x \in items : Named[sort][x] < Named[sort][m]}
<1>1. IsFiniteSet(items) /\ before \subseteq items
    BY ListsAssumption, FS_Subset
<1>2. \A x \in items : Named[sort][x] \in Nat
    BY ListsAssumption
<1>3. m \in items \ before
    BY <1>2
<1>4. Cardinality(before) \in Nat /\ ~(Cardinality(before) < n)
    BY <1>1, FS_Subset, FS_CardinalityType DEF First
<1>5. Cardinality(items) = Cardinality(before) + Cardinality(items \ before) /\ IsFiniteSet(items \ before)
      /\ Cardinality(items \ before) \in Nat
    BY <1>1, PartsAddUp
<1> HIDE DEF before
<1>6. Cardinality(items \ before) # 0
    BY <1>3, <1>5, FS_EmptySet
<1> QED BY <1>4, <1>5, <1>6

LEMMA ModelsFound ==
    ASSUME EditInv, ListsInv, FoldsInv, page = "models", NEW sec \in TileSections, NEW m \in sec.items
    PROVE  \/ m \in VisibleIn(sec, scope)
           \/ SectionOpen(sec) /\ Cardinality(sec.items) > Extent(sec)
           \/ <<FilteringModels(shown.filters), sec.key>> \in shut
           \/ sec.shelf /\ ~FilteringModels(shown.filters)
<1>1. CASE SectionOpen(sec) /\ m \notin VisibleIn(sec, scope)
    <2>1. m \in sec.items \ First(sec.items, Extent(sec), SortInForce(scope))
        BY <1>1 DEF VisibleIn
    <2>2. Extent(sec) \in Nat
        BY ListsAssumption DEF Extent, FoldsInv
    <2>3. SortInForce(scope) \in Sorts
        BY DEF SortInForce, ListsInv, MemoryInv, ShownInv, Sorts
    <2>4. sec.items \in SUBSET Models
        BY TileSectionsAre
    <2> QED BY <1>1, <2>1, <2>2, <2>3, <2>4, BeyondExtent
<1>2. CASE ~SectionOpen(sec)
    <2> DEFINE mode == FilteringModels(shown.filters)
               id == <<mode, shown.groupBy, sec.key>>
    <2>1. sec.shelf /\ ~Chosen(id, mode)
        BY <1>2, TileSectionsAre DEF SectionOpen
    <2> HIDE DEF mode
    <2>2. CASE id \in DOMAIN folds.open
        <3>1. ~folds.open[id]
            BY <2>1, <2>2 DEF Chosen
        <3>2. <<id[1], id[3]>> \in shut
            BY <2>2, <3>1 DEF FoldsInv
        <3> QED BY <3>2 DEF mode
    <2>3. CASE id \notin DOMAIN folds.open
        BY <2>1, <2>3 DEF Chosen, mode
    <2> QED BY <2>2, <2>3
<1> QED BY <1>1, <1>2

LEMMA ModelsCounted ==
    ASSUME EditInv, ListsInv, page = "models"
    PROVE  LET sections == TileSections
               count == CountLine(sections, scope)
           IN /\ count.total = count.shown + count.shelved + count.paged
              /\ count.paged = Cardinality({m \in UNION {sec.items : sec \in sections} :
                    \A sec \in sections : m \in sec.items => SectionOpen(sec) /\ m \notin VisibleIn(sec, scope)})
<1> DEFINE sections == TileSections
           all == UNION {sec.items : sec \in sections}
           seen == UNION {VisibleIn(sec, scope) : sec \in sections}
           folded == UNION {sec.items : sec \in {x \in sections : ~SectionOpen(x)}}
           shelved == folded \ seen
           paged == {m \in all : \A sec \in sections : m \in sec.items => SectionOpen(sec) /\ m \notin VisibleIn(sec, scope)}
           count == CountLine(sections, scope)
<1>1. \A sec \in sections : VisibleIn(sec, scope) \subseteq sec.items
    BY DEF VisibleIn, First
<1>2. seen \subseteq all /\ shelved \subseteq all \ seen
    BY <1>1
<1>3. paged = (all \ seen) \ shelved
    <2>1. \A m : m \in seen <=> \E sec \in sections : m \in VisibleIn(sec, scope)
        OBVIOUS
    <2>2. \A m : m \in folded <=> \E sec \in sections : ~SectionOpen(sec) /\ m \in sec.items
        OBVIOUS
    <2>3. \A m : m \in all <=> \E sec \in sections : m \in sec.items
        OBVIOUS
    <2> HIDE DEF seen, folded, all
    <2>4. \A m : m \in paged <=> m \in all /\ \A sec \in sections : m \in sec.items => SectionOpen(sec) /\ m \notin VisibleIn(sec, scope)
        OBVIOUS
    <2> HIDE DEF paged, sections
    <2>5. \A m : m \in paged <=> m \in all /\ m \notin seen /\ m \notin folded
        BY <1>1, <2>1, <2>2, <2>3, <2>4
    <2> QED BY <2>5
<1>4. IsFiniteSet(all)
    <2>1. all \subseteq Models
        BY TileSectionsAre
    <2> QED BY <2>1, ListsAssumption, FS_Subset
<1>5. count = [total |-> Cardinality(all), shown |-> Cardinality(seen), shelved |-> Cardinality(shelved),
               paged |-> Cardinality(all) - Cardinality(seen) - Cardinality(shelved)]
    BY DEF CountLine
<1> HIDE DEF all, seen, shelved, folded, paged, count
<1>6. /\ Cardinality(all) = Cardinality(seen) + Cardinality(all \ seen) /\ IsFiniteSet(all \ seen)
      /\ Cardinality(all) \in Nat /\ Cardinality(seen) \in Nat /\ Cardinality(all \ seen) \in Nat
    BY <1>2, <1>4, PartsAddUp
<1>7. /\ Cardinality(all \ seen) = Cardinality(shelved) + Cardinality(paged)
      /\ Cardinality(shelved) \in Nat /\ Cardinality(paged) \in Nat
    BY <1>2, <1>3, <1>6, PartsAddUp
<1>8. count.total = count.shown + count.shelved + count.paged /\ count.paged = Cardinality(paged)
    BY <1>5, <1>6, <1>7
<1> QED BY <1>8 DEF paged, all, count

LEMMA ProviderCardsComplete ==
    {h.key.id : h \in {x \in ProviderKeys : KeyMatches(x.key)}} = UNION {c.keys : c \in ProviderCards}
<1> DEFINE found == {h.key.id : h \in {x \in ProviderKeys : KeyMatches(x.key)}}
           keysOf(p) == {k.id : k \in {x \in p.keys : KeyMatches(x)}}
           shownOn == {x \in Inventory : (shown.search # None => shown.search \in Says[x.name]) \/ \E k \in x.keys : KeyMatches(k)}
           onCards == UNION {c.keys : c \in ProviderCards}
<1>1. ProviderCards = {[provider |-> p.name, keys |-> keysOf(p)] : p \in shownOn}
    BY DEF ProviderCards
<1>2. \A i : i \in onCards <=> \E p \in shownOn : i \in keysOf(p)
    <2>1. \A p : [provider |-> p.name, keys |-> keysOf(p)].keys = keysOf(p)
        OBVIOUS
    <2> HIDE DEF keysOf, shownOn
    <2>2. ASSUME NEW i \in onCards PROVE \E p \in shownOn : i \in keysOf(p)
        <3>1. PICK c \in ProviderCards : i \in c.keys
            BY <2>2
        <3>2. PICK p \in shownOn : c = [provider |-> p.name, keys |-> keysOf(p)]
            BY <1>1, <3>1
        <3> QED BY <3>1, <3>2
    <2>3. ASSUME NEW p \in shownOn, NEW i \in keysOf(p) PROVE i \in onCards
        <3>1. [provider |-> p.name, keys |-> keysOf(p)] \in ProviderCards
            BY <1>1, <2>3
        <3> QED BY <2>1, <2>3, <3>1
    <2> QED BY <2>2, <2>3
<1>3. \A i : i \in found <=> \E p \in Inventory : \E k \in p.keys : KeyMatches(k) /\ i = k.id
    <2>1. ASSUME NEW i \in found PROVE \E p \in Inventory : \E k \in p.keys : KeyMatches(k) /\ i = k.id
        <3>1. PICK h \in ProviderKeys : KeyMatches(h.key) /\ i = h.key.id
            BY <2>1
        <3>2. PICK p \in Inventory : h \in {[provider |-> p.name, key |-> k] : k \in p.keys}
            BY <3>1 DEF ProviderKeys
        <3>3. PICK k \in p.keys : h = [provider |-> p.name, key |-> k]
            BY <3>2
        <3> QED BY <3>1, <3>3
    <2>2. ASSUME NEW p \in Inventory, NEW k \in p.keys, KeyMatches(k) PROVE k.id \in found
        <3>1. [provider |-> p.name, key |-> k] \in ProviderKeys
            BY <2>2 DEF ProviderKeys
        <3>2. [provider |-> p.name, key |-> k].key = k
            OBVIOUS
        <3> QED BY <2>2, <3>1, <3>2
    <2> QED BY <2>1, <2>2
<1>4. \A i : (\E p \in shownOn : i \in keysOf(p)) <=> \E p \in Inventory : \E k \in p.keys : KeyMatches(k) /\ i = k.id
    OBVIOUS
<1> HIDE DEF found, onCards, keysOf, shownOn
<1>5. found = onCards
    BY <1>2, <1>3, <1>4
<1> QED BY <1>5 DEF found, onCards

\* What is listed of the gateway, spelled out.
LEMMA AliasesAre ==
    /\ \A a : a \in Aliases <=> \E p \in Inventory : \E k \in p.keys : \E n \in k.aliases :
                                    a = [provider |-> p.name, key |-> k.id, name |-> n]
    /\ \A u : u \in Unreadable <=> \E p \in Inventory : \E k \in p.keys :
                                    ~k.readable /\ u = [provider |-> p.name, key |-> k.id]
<1>1. \A h : h \in ProviderKeys <=> \E p \in Inventory : \E k \in p.keys : h = [provider |-> p.name, key |-> k]
    BY DEF ProviderKeys
<1>2. \A p, k : LET h == [provider |-> p, key |-> k] IN h.provider = p /\ h.key = k
    OBVIOUS
<1>3. \A a : a \in Aliases <=> \E h \in ProviderKeys : \E n \in h.key.aliases :
                                   a = [provider |-> h.provider, key |-> h.key.id, name |-> n]
    BY DEF Aliases
<1>4. \A u : u \in Unreadable <=> \E h \in ProviderKeys : ~h.key.readable /\ u = [provider |-> h.provider, key |-> h.key.id]
    BY DEF Unreadable
<1>5. ASSUME NEW a
      PROVE  a \in Aliases <=> \E p \in Inventory : \E k \in p.keys : \E n \in k.aliases :
                                    a = [provider |-> p.name, key |-> k.id, name |-> n]
    <2>1. ASSUME a \in Aliases
          PROVE  \E p \in Inventory : \E k \in p.keys : \E n \in k.aliases : a = [provider |-> p.name, key |-> k.id, name |-> n]
        <3>1. PICK h \in ProviderKeys : \E n \in h.key.aliases : a = [provider |-> h.provider, key |-> h.key.id, name |-> n]
            BY <1>3, <2>1
        <3>2. PICK p \in Inventory : \E k \in p.keys : h = [provider |-> p.name, key |-> k]
            BY <1>1, <3>1
        <3>3. PICK k \in p.keys : h = [provider |-> p.name, key |-> k]
            BY <3>2
        <3> QED BY <3>1, <3>3
    <2>2. ASSUME NEW p \in Inventory, NEW k \in p.keys, NEW n \in k.aliases, a = [provider |-> p.name, key |-> k.id, name |-> n]
          PROVE  a \in Aliases
        <3> DEFINE h == [provider |-> p.name, key |-> k]
        <3>1. h \in ProviderKeys /\ h.provider = p.name /\ h.key = k
            BY <1>1, <2>2
        <3> HIDE DEF h
        <3> QED BY <1>3, <2>2, <3>1
    <2> QED BY <2>1, <2>2
<1>6. ASSUME NEW u
      PROVE  u \in Unreadable <=> \E p \in Inventory : \E k \in p.keys : ~k.readable /\ u = [provider |-> p.name, key |-> k.id]
    <2>1. ASSUME u \in Unreadable
          PROVE  \E p \in Inventory : \E k \in p.keys : ~k.readable /\ u = [provider |-> p.name, key |-> k.id]
        <3>1. PICK h \in ProviderKeys : ~h.key.readable /\ u = [provider |-> h.provider, key |-> h.key.id]
            BY <1>4, <2>1
        <3>2. PICK p \in Inventory : \E k \in p.keys : h = [provider |-> p.name, key |-> k]
            BY <1>1, <3>1
        <3>3. PICK k \in p.keys : h = [provider |-> p.name, key |-> k]
            BY <3>2
        <3> QED BY <3>1, <3>3
    <2>2. ASSUME NEW p \in Inventory, NEW k \in p.keys, ~k.readable, u = [provider |-> p.name, key |-> k.id]
          PROVE  u \in Unreadable
        <3> DEFINE h == [provider |-> p.name, key |-> k]
        <3>1. h \in ProviderKeys /\ h.provider = p.name /\ h.key = k
            BY <1>1, <2>2
        <3> HIDE DEF h
        <3> QED BY <1>4, <2>2, <3>1
    <2> QED BY <2>1, <2>2
<1> QED BY <1>5, <1>6

\* The tree of the aliases, spelled out: its providers, and under each the keys it names.
TreeKey(p, k) ==
    [key |-> k.id, names |-> {a.name : a \in {x \in FoundAliases : x.provider = p.name /\ x.key = k.id}},
     flagged |-> \E u \in FoundUnreadable : u.key = k.id]
TreeKeysOf(p) ==
    {x \in p.keys : \/ \E a \in FoundAliases : a.provider = p.name /\ a.key = x.id
                    \/ \E u \in FoundUnreadable : u.key = x.id}
TreeProviders ==
    {x \in Inventory : \/ \E a \in FoundAliases : a.provider = x.name
                       \/ \E u \in FoundUnreadable : u.provider = x.name}

LEMMA TreeIs ==
    /\ \A t : t \in AliasTree <=>
            \E p \in TreeProviders : t = [provider |-> p.name, keys |-> {TreeKey(p, k) : k \in TreeKeysOf(p)}]
    /\ \A p, k : /\ TreeKey(p, k).key = k.id
                 /\ \A n : n \in TreeKey(p, k).names <=> \E a \in FoundAliases : a.provider = p.name /\ a.key = k.id /\ n = a.name
                 /\ TreeKey(p, k).flagged <=> \E u \in FoundUnreadable : u.key = k.id
<1>1. AliasTree = {[provider |-> p.name, keys |-> {TreeKey(p, k) : k \in TreeKeysOf(p)}] : p \in TreeProviders}
    BY DEF AliasTree, TreeKey, TreeKeysOf, TreeProviders
<1>2. ASSUME NEW p, NEW k
      PROVE  /\ TreeKey(p, k).key = k.id
             /\ \A n : n \in TreeKey(p, k).names <=> \E a \in FoundAliases : a.provider = p.name /\ a.key = k.id /\ n = a.name
             /\ TreeKey(p, k).flagged <=> \E u \in FoundUnreadable : u.key = k.id
    <2> DEFINE names == {a.name : a \in {x \in FoundAliases : x.provider = p.name /\ x.key = k.id}}
               flagged == \E u \in FoundUnreadable : u.key = k.id
    <2>1. TreeKey(p, k) = [key |-> k.id, names |-> names, flagged |-> flagged]
        BY DEF TreeKey
    <2>2. \A n : n \in names <=> \E a \in FoundAliases : a.provider = p.name /\ a.key = k.id /\ n = a.name
        OBVIOUS
    <2>3. flagged \in BOOLEAN
        OBVIOUS
    <2> HIDE DEF names, flagged
    <2>4. TreeKey(p, k).key = k.id /\ TreeKey(p, k).names = names /\ TreeKey(p, k).flagged = flagged
        BY <2>1
    <2> QED BY <2>2, <2>3, <2>4 DEF flagged
<1> QED BY <1>1, <1>2

LEMMA TreeMembers ==
    \A t \in AliasTree : \E p \in TreeProviders :
        /\ t.provider = p.name
        /\ \A h : h \in t.keys <=> \E k \in TreeKeysOf(p) : h = TreeKey(p, k)
<1> TAKE t \in AliasTree
<1>1. PICK p \in TreeProviders : t = [provider |-> p.name, keys |-> {TreeKey(p, k) : k \in TreeKeysOf(p)}]
    BY TreeIs
<1>2. t.provider = p.name /\ t.keys = {TreeKey(p, k) : k \in TreeKeysOf(p)}
    BY <1>1
<1> QED BY <1>2

LEMMA TreeHolds ==
    ASSUME NEW p \in TreeProviders, NEW k \in TreeKeysOf(p)
    PROVE  \E t \in AliasTree : t.provider = p.name /\ TreeKey(p, k) \in t.keys
<1> DEFINE keys == {TreeKey(p, h) : h \in TreeKeysOf(p)}
           t == [provider |-> p.name, keys |-> keys]
<1>1. TreeKey(p, k) \in keys
    OBVIOUS
<1>2. t \in AliasTree
    BY TreeIs
<1> HIDE DEF keys
<1>3. t.provider = p.name /\ t.keys = keys
    OBVIOUS
<1> QED BY <1>1, <1>2, <1>3

LEMMA TreeAliases ==
    FoundAliases = UNION { UNION { {[provider |-> p.provider, key |-> k.key, name |-> n] : n \in k.names} :
                                     k \in p.keys} : p \in AliasTree}
<1> DEFINE inTree == UNION { UNION { {[provider |-> p.provider, key |-> k.key, name |-> n] : n \in k.names} :
                                       k \in p.keys} : p \in AliasTree}
<1>1. \A a : a \in inTree <=> \E t \in AliasTree : \E h \in t.keys : \E n \in h.names :
                                  a = [provider |-> t.provider, key |-> h.key, name |-> n]
    OBVIOUS
<1> HIDE DEF inTree
<1>2. ASSUME NEW a \in FoundAliases PROVE a \in inTree
    <2>1. PICK p \in Inventory : \E k \in p.keys : \E n \in k.aliases : a = [provider |-> p.name, key |-> k.id, name |-> n]
        BY AliasesAre DEF FoundAliases
    <2>2. PICK k \in p.keys : \E n \in k.aliases : a = [provider |-> p.name, key |-> k.id, name |-> n]
        BY <2>1
    <2>3. PICK n \in k.aliases : a = [provider |-> p.name, key |-> k.id, name |-> n]
        BY <2>2
    <2>4. a.provider = p.name /\ a.key = k.id /\ a.name = n
        BY <2>3
    <2>5. p \in TreeProviders /\ k \in TreeKeysOf(p)
        BY <2>4 DEF TreeProviders, TreeKeysOf
    <2>6. PICK t \in AliasTree : t.provider = p.name /\ TreeKey(p, k) \in t.keys
        BY <2>5, TreeHolds
    <2>7. TreeKey(p, k).key = k.id /\ n \in TreeKey(p, k).names
        BY <2>4, TreeIs
    <2> QED BY <1>1, <2>3, <2>6, <2>7
<1>3. ASSUME NEW a \in inTree PROVE a \in FoundAliases
    <2>1. PICK t \in AliasTree : \E h \in t.keys : \E n \in h.names : a = [provider |-> t.provider, key |-> h.key, name |-> n]
        BY <1>1, <1>3
    <2>2. PICK h \in t.keys : \E n \in h.names : a = [provider |-> t.provider, key |-> h.key, name |-> n]
        BY <2>1
    <2>3. PICK n \in h.names : a = [provider |-> t.provider, key |-> h.key, name |-> n]
        BY <2>2
    <2>4. PICK p \in TreeProviders : t.provider = p.name /\ \A x : x \in t.keys <=> \E k \in TreeKeysOf(p) : x = TreeKey(p, k)
        BY TreeMembers
    <2>5. PICK k \in TreeKeysOf(p) : h = TreeKey(p, k)
        BY <2>4
    <2>6. h.key = k.id /\ \E b \in FoundAliases : b.provider = p.name /\ b.key = k.id /\ n = b.name
        BY <2>3, <2>5, TreeIs
    <2>7. PICK b \in FoundAliases : b.provider = p.name /\ b.key = k.id /\ n = b.name
        BY <2>6
    <2>8. b = [provider |-> b.provider, key |-> b.key, name |-> b.name]
        <3>1. PICK q \in Inventory : \E x \in q.keys : \E y \in x.aliases : b = [provider |-> q.name, key |-> x.id, name |-> y]
            BY AliasesAre DEF FoundAliases
        <3>2. PICK x \in q.keys : \E y \in x.aliases : b = [provider |-> q.name, key |-> x.id, name |-> y]
            BY <3>1
        <3> QED BY <3>2
    <2>9. a = b
        BY <2>3, <2>4, <2>6, <2>7, <2>8
    <2> QED BY <2>9
<1>4. FoundAliases = inTree
    BY <1>2, <1>3
<1> QED BY <1>4 DEF inTree

LEMMA TreeFlags ==
    FoundUnreadable = UNION { {[provider |-> p.provider, key |-> k.key] : k \in {x \in p.keys : x.flagged}} : p \in AliasTree}
<1> DEFINE inTree == UNION { {[provider |-> p.provider, key |-> k.key] : k \in {x \in p.keys : x.flagged}} : p \in AliasTree}
<1>1. \A u : u \in inTree <=> \E t \in AliasTree : \E h \in t.keys : h.flagged /\ u = [provider |-> t.provider, key |-> h.key]
    OBVIOUS
<1> HIDE DEF inTree
<1>2. ASSUME NEW u \in FoundUnreadable PROVE u \in inTree
    <2>1. PICK p \in Inventory : \E k \in p.keys : u = [provider |-> p.name, key |-> k.id]
        BY AliasesAre DEF FoundUnreadable
    <2>2. PICK k \in p.keys : u = [provider |-> p.name, key |-> k.id]
        BY <2>1
    <2>3. u.provider = p.name /\ u.key = k.id
        BY <2>2
    <2>4. p \in TreeProviders /\ k \in TreeKeysOf(p)
        BY <2>3 DEF TreeProviders, TreeKeysOf
    <2>5. PICK t \in AliasTree : t.provider = p.name /\ TreeKey(p, k) \in t.keys
        BY <2>4, TreeHolds
    <2>6. TreeKey(p, k).key = k.id /\ TreeKey(p, k).flagged
        BY <2>3, TreeIs
    <2> QED BY <1>1, <2>2, <2>5, <2>6
<1>3. ASSUME NEW u \in inTree PROVE u \in FoundUnreadable
    <2>1. PICK t \in AliasTree : \E h \in t.keys : h.flagged /\ u = [provider |-> t.provider, key |-> h.key]
        BY <1>1, <1>3
    <2>2. PICK h \in t.keys : h.flagged /\ u = [provider |-> t.provider, key |-> h.key]
        BY <2>1
    <2>3. PICK p \in TreeProviders : t.provider = p.name /\ \A x : x \in t.keys <=> \E k \in TreeKeysOf(p) : x = TreeKey(p, k)
        BY TreeMembers
    <2>4. PICK k \in TreeKeysOf(p) : h = TreeKey(p, k)
        BY <2>3
    <2>5. h.key = k.id /\ \E b \in FoundUnreadable : b.key = k.id
        BY <2>2, <2>4, TreeIs
    <2>6. PICK b \in FoundUnreadable : b.key = k.id
        BY <2>5
    <2>7. PICK q \in Inventory : \E x \in q.keys : b = [provider |-> q.name, key |-> x.id]
        BY AliasesAre DEF FoundUnreadable
    <2>8. PICK x \in q.keys : b = [provider |-> q.name, key |-> x.id]
        BY <2>7
    <2>9. x.id = k.id /\ p \in Inventory /\ k \in p.keys
        BY <2>6, <2>8 DEF TreeProviders, TreeKeysOf
    <2>10. q.name = p.name
        BY <2>9, ListsAssumption
    <2> QED BY <2>2, <2>3, <2>5, <2>8, <2>9, <2>10
<1>4. FoundUnreadable = inTree
    BY <1>2, <1>3
<1> QED BY <1>4 DEF inTree

\* "Nothing matches" is said only where nothing is.
LEMMA NothingFound == SaysNothingFound => OnGateway = {}
<1> SUFFICES ASSUME SaysNothingFound PROVE OnGateway = {}
    OBVIOUS
<1>1. ~(shown.section \in {"aliases", "routing"} /\ shown.layout # "tree")
    BY DEF SaysNothingFound
<1>2. CASE shown.section = "aliases"
    <2>1. FoundAliases = {} /\ FoundUnreadable = {}
        BY <1>1, <1>2 DEF SaysNothingFound
    <2>2. OnGateway = AliasTree
        BY <1>1, <1>2 DEF OnGateway
    <2>3. TreeProviders = {}
        BY <2>1 DEF TreeProviders
    <2> QED BY <2>2, <2>3, TreeIs
<1>3. CASE shown.section # "aliases"
    BY <1>1, <1>3 DEF SaysNothingFound
<1> QED BY <1>2, <1>3

\* A search or a filter never hides what it finds (KeyLibrary.tsx:64,
\* ReferenceCatalogBrowser.tsx:630): it is on screen, in a shelf the operator closed while
\* searching, or behind "Show more", and then it is counted; the tree and the tables of the
\* gateway hold the same, for any lists, searches, shelves and sizes.
THEOREM ResultsAreShown == PagesSpec => []ResultsAreNotHidden
<1> DEFINE Inv == EditInv /\ ListsInv /\ FoldsInv
<1>1. PagesInit => Inv
    <2>1. PagesInit => folds = NoFolds /\ page = "start"
        BY DEF PagesInit, ListsInit
    <2>2. PagesInit => FoldsInv
        BY <2>1 DEF FoldsInv, NoFolds
    <2> QED BY <2>2, EditInitially, ListsInitially
<1>2. Inv /\ [PagesNext]_allVars => Inv'
    BY EditStep, ListsStep, FoldsStep
<1>3. Inv => ResultsAreNotHidden
    <2> SUFFICES ASSUME Inv PROVE ResultsAreNotHidden
        OBVIOUS
    <2>1. page = "edit" => UNION {sec.items : sec \in EditSections} = InResults
        BY EditedResults
    <2>2. page = "models" => UNION {sec.items : sec \in TileSections} = MatchingModels(Listed(scope, world), shown.filters)
        BY ListedModels DEF TileSections
    <2>3. page = "models" =>
             \A sec \in TileSections : \A m \in sec.items :
                 \/ m \in VisibleIn(sec, scope)
                 \/ SectionOpen(sec) /\ Cardinality(sec.items) > Extent(sec)
                 \/ <<FilteringModels(shown.filters), sec.key>> \in shut
                 \/ sec.shelf /\ ~FilteringModels(shown.filters)
        BY ModelsFound
    <2> HIDE DEF Inv
    <2> QED BY <2>1, <2>2, <2>3, KeysFound, ModelsCounted, ProviderCardsComplete, TreeAliases, TreeFlags, NothingFound
            DEF ResultsAreNotHidden, Inv
<1> QED BY <1>1, <1>2, <1>3, PTL DEF PagesSpec

-----------------------------------------------------------------------------
(* The library and the catalogue: copies of the registry file that arrive  *)
(* apart.                                                                  *)

\* The reference each access has in a catalogue.
LinksOf(c) == [a \in Accesses |-> IF a \in c.listed THEN c.link[a] ELSE Nil]

CatalogueViews ==
    [rev : Nat, listed : SUBSET Accesses, configured : SUBSET Accesses, refs : SUBSET References,
     link : [Accesses -> Links], chosen : SUBSET Accesses, own : [Targets -> FactValues \cup {Nil}]]
Workspaces == [rev : Nat, cards : [Ids -> SUBSET Accesses], link : [Accesses -> Links]]

\* A copy of the catalogue is the file's if it has its revision, and agrees with a workspace of
\* its own revision.
Fits(c, f, w) ==
    /\ c \in CatalogueViews /\ c.rev <= f.rev
    /\ c.rev = f.rev => c = CatalogueOf(f)
    /\ c.rev = w.rev => w.link = LinksOf(c)

FileInv ==
    /\ registry \in [rev : Nat, cards : [Ids -> SUBSET Accesses], cat : Catalogues]
    /\ \A a \in Accesses \ registry.cat.listed : registry.cat.link[a] = Nil

WorkspaceFits(w, f) == w \in Workspaces /\ w.rev <= f.rev /\ (w.rev = f.rev => w = WorkspaceOf(f))

CopiesInv ==
    /\ WorkspaceFits(workspace, registry)
    /\ catalogue # Nil => Fits(catalogue, registry, workspace)
    /\ \A g \in gets : g.state = "read" => Fits(g.snap, registry, workspace)

\* What can be registered under the identifier of a draft.
Registrable(d, w) ==
    /\ d.id \notin Saved(w) /\ d.accesses # {} /\ d.accesses \cap Held(w) = {}
    /\ d.combined => ~SameProvider(d.accesses)

\* What is open was made of a workspace of the past, and of this one if it has its revision.
OpenedFits(o, f, w) ==
    /\ o.shows = "choice" =>
         /\ o.w \in Workspaces /\ o.w.rev <= w.rev /\ (o.w.rev = w.rev => o.w = w)
         /\ o.group \subseteq Known(o.w) /\ o.group # {}
         /\ o.c # Nil => Fits(o.c, f, w)
    /\ o.shows = "draft" =>
         /\ o.draft.id \in Ids /\ o.draft.accesses \in SUBSET Accesses /\ o.draft.ref \in [Accesses -> Links]
         /\ o.rev \in Nat /\ o.rev <= w.rev
         /\ o.rev = w.rev => Registrable(o.draft, w)
         /\ o.fresh /\ o.rev = f.rev => \A a \in Accesses : o.draft.ref[a] \in {Nil, LinksOf(f.cat)[a]}
    /\ o.shows = "card" => o.id \in Ids

OpenedInv == OpenedFits(opened, registry, workspace)

\* A request carries the catalogue it was made from, and its answer what it made.
RequestFits(q, f, w) ==
    /\ q \in [kind : {"override", "match", "reference", "refresh"}, target : Targets \cup {Nil},
              value : FactValues \cup Links, rev : Nat, shown : CatalogueViews,
              state : {"asked", "done", "conflict", "refused"}, snap : CatalogueViews \cup {Nil}, from : Nat]
    /\ Fits(q.shown, f, w) /\ q.rev = q.shown.rev
    /\ q.kind = "override" => q.value \in FactValues \cup {Nil}
    /\ q.kind = "match" => q.value \in Links
    /\ q.kind = "reference" => q.target \in References
    /\ q.state = "done" => /\ Fits(q.snap, f, w)
                           /\ q.kind = "override" => q.snap.own[q.target] = q.value

RequestInv == request # Nil => RequestFits(request, registry, workspace)

MetadataPages ==
    [mode : {"access", "reference"}, selected : Targets \cup {Nil}, matchId : Links,
     edit : Targets \cup {Nil}, typed : FactValues \cup {Malformed, Nil},
     says : {"nothing", "conflict", "error"}, busy : BOOLEAN]

MetadataInv == visits \in Nat /\ (metadata # Nil => metadata \in MetadataPages)

LibraryInv == FileInv /\ CopiesInv /\ OpenedInv /\ RequestInv /\ MetadataInv

-----------------------------------------------------------------------------
(* A copy of a revision stays that revision's, whatever the file becomes.  *)

FileStates == [rev : Nat, cards : [Ids -> SUBSET Accesses], cat : Catalogues]

\* A step of the file and of the panel's cards: the file keeps its revision or has the next, and
\* the cards stay or are the file's.
Step(f, h, w, v) ==
    /\ f \in FileStates /\ h \in FileStates
    /\ WorkspaceFits(w, f)
    /\ h = f \/ h.rev = f.rev + 1
    /\ v = w \/ v = WorkspaceOf(h)

\* The links of a workspace are those of the catalogue of its file.
LEMMA SameLinks ==
    ASSUME NEW f \in FileStates
    PROVE  WorkspaceOf(f).link = LinksOf(f.cat) /\ LinksOf(CatalogueOf(f)) = LinksOf(f.cat)
BY DEF WorkspaceOf, LinksOf, CatalogueOf

\* What is copied from the file has the type of a copy.
LEMMA CopiesAreTyped ==
    ASSUME NEW f \in FileStates
    PROVE  /\ CatalogueOf(f) \in CatalogueViews /\ CatalogueOf(f).rev = f.rev
           /\ WorkspaceOf(f) \in Workspaces /\ WorkspaceOf(f).rev = f.rev
<1>1. f.rev \in Nat /\ f.cards \in [Ids -> SUBSET Accesses] /\ f.cat \in Catalogues
    BY DEF FileStates
<1>2. CatalogueOf(f) \in CatalogueViews
    BY <1>1 DEF CatalogueOf, CatalogueViews, Catalogues
<1>3. [a \in Accesses |-> IF a \in f.cat.listed THEN f.cat.link[a] ELSE Nil] \in [Accesses -> Links]
    BY <1>1 DEF Catalogues, Links
<1>4. WorkspaceOf(f) \in Workspaces
    BY <1>1, <1>3 DEF WorkspaceOf, Workspaces
<1> QED
    BY <1>2, <1>4 DEF CatalogueOf, WorkspaceOf

\* Read now, a catalogue fits.
LEMMA FitsNew ==
    ASSUME NEW f \in FileStates, NEW w, WorkspaceFits(w, f)
    PROVE  Fits(CatalogueOf(f), f, w)
<1>1. f.rev \in Nat
    BY DEF FileStates
<1>2. f.rev = w.rev => w.link = LinksOf(CatalogueOf(f))
    BY SameLinks DEF WorkspaceFits
<1> QED
    BY <1>1, <1>2, CopiesAreTyped DEF Fits

\* The cards after a step are those of a revision of the file after it.
LEMMA WorkspaceKept ==
    ASSUME NEW f, NEW h, NEW w, NEW v, Step(f, h, w, v)
    PROVE  WorkspaceFits(v, h)
<1>1. f.rev \in Nat /\ h.rev \in Nat
    BY DEF Step, FileStates
<1>2. CASE v = WorkspaceOf(h)
    BY <1>1, <1>2, CopiesAreTyped DEF Step, WorkspaceFits
<1>3. CASE v = w
    <2>1. w \in Workspaces /\ w.rev \in Nat /\ w.rev <= f.rev /\ (w.rev = f.rev => w = WorkspaceOf(f))
        BY DEF Step, WorkspaceFits, Workspaces
    <2>2. CASE h = f
        BY <1>3, <2>1, <2>2 DEF WorkspaceFits
    <2>3. CASE h.rev = f.rev + 1
        BY <1>1, <1>3, <2>1, <2>3 DEF WorkspaceFits
    <2> QED
        BY <2>2, <2>3 DEF Step
<1> QED
    BY <1>2, <1>3 DEF Step

\* What has the revision the file has after a step has the one it had before: nothing changed.
LEMMA OfOldRevision ==
    ASSUME NEW f, NEW h, NEW w, NEW v, Step(f, h, w, v), NEW n \in Nat
    PROVE  /\ n <= f.rev => n <= h.rev /\ (n = h.rev => h = f)
           /\ n <= w.rev => n <= v.rev /\ n <= f.rev /\ (n = v.rev => v = w)
<1>1. f.rev \in Nat /\ h.rev \in Nat /\ w.rev \in Nat /\ w.rev <= f.rev
    BY DEF Step, FileStates, WorkspaceFits, Workspaces
<1>2. n <= f.rev => n <= h.rev /\ (n = h.rev => h = f)
    BY <1>1 DEF Step
<1>3. CASE v = w
    BY <1>1, <1>2, <1>3
<1>4. CASE v = WorkspaceOf(h)
    <2>1. v.rev = h.rev
        BY <1>4, CopiesAreTyped DEF Step
    <2>2. f.rev <= h.rev
        BY <1>1 DEF Step
    <2>3. n <= w.rev => n <= v.rev /\ n <= f.rev
        BY <1>1, <2>1, <2>2
    <2>4. ASSUME n <= w.rev, n = v.rev PROVE v = w
        <3>1. w.rev = f.rev /\ h = f
            BY <1>1, <1>2, <2>1, <2>2, <2>3, <2>4
        <3>2. w = WorkspaceOf(f)
            BY <3>1 DEF Step, WorkspaceFits
        <3> QED
            BY <1>4, <3>1, <3>2
    <2> QED
        BY <1>2, <2>3, <2>4
<1> QED
    BY <1>3, <1>4 DEF Step

\* A copy of the catalogue fits after a step as it did before.
LEMMA FitsKept ==
    ASSUME NEW f, NEW h, NEW w, NEW v, Step(f, h, w, v), NEW c, Fits(c, f, w)
    PROVE  Fits(c, h, v)
<1>1. c \in CatalogueViews /\ c.rev \in Nat /\ c.rev <= f.rev /\ (c.rev = f.rev => c = CatalogueOf(f))
    BY DEF Fits, CatalogueViews
<1>2. c.rev <= h.rev /\ (c.rev = h.rev => h = f)
    BY <1>1, OfOldRevision
<1>3. c.rev = h.rev => c = CatalogueOf(h)
    BY <1>1, <1>2
<1>4. ASSUME c.rev = v.rev PROVE v.link = LinksOf(c)
    <2>1. CASE v = w
        BY <1>4, <2>1 DEF Fits
    <2>2. CASE v = WorkspaceOf(h)
        <3>1. v.rev = h.rev
            BY <2>2, CopiesAreTyped DEF Step
        <3> QED
            BY <1>3, <1>4, <2>2, <3>1, SameLinks DEF Step
    <2> QED
        BY <2>1, <2>2 DEF Step
<1> QED
    BY <1>1, <1>2, <1>3, <1>4 DEF Fits

\* And so does what is open.
LEMMA OpenedKept ==
    ASSUME NEW f, NEW h, NEW w, NEW v, Step(f, h, w, v), NEW o, OpenedFits(o, f, w)
    PROVE  OpenedFits(o, h, v)
<1>1. ASSUME o.shows = "choice"
      PROVE  /\ o.w \in Workspaces /\ o.w.rev <= v.rev /\ (o.w.rev = v.rev => o.w = v)
             /\ o.group \subseteq Known(o.w) /\ o.group # {}
             /\ o.c # Nil => Fits(o.c, h, v)
    <2>1. o.w \in Workspaces /\ o.w.rev \in Nat /\ o.w.rev <= w.rev /\ (o.w.rev = w.rev => o.w = w)
        BY <1>1 DEF OpenedFits, Workspaces
    <2>2. o.w.rev <= v.rev /\ (o.w.rev = v.rev => v = w)
        BY <2>1, OfOldRevision
    <2>3. o.c # Nil => Fits(o.c, h, v)
        BY <1>1, FitsKept DEF OpenedFits
    <2> QED
        BY <1>1, <2>1, <2>2, <2>3 DEF OpenedFits
<1>2. ASSUME o.shows = "draft"
      PROVE  /\ o.draft.id \in Ids /\ o.draft.accesses \in SUBSET Accesses /\ o.draft.ref \in [Accesses -> Links]
             /\ o.rev \in Nat /\ o.rev <= v.rev
             /\ o.rev = v.rev => Registrable(o.draft, v)
             /\ o.fresh /\ o.rev = h.rev => \A a \in Accesses : o.draft.ref[a] \in {Nil, LinksOf(h.cat)[a]}
    <2>1. o.rev \in Nat /\ o.rev <= w.rev
        BY <1>2 DEF OpenedFits
    <2>2. o.rev <= v.rev /\ o.rev <= f.rev /\ (o.rev = v.rev => v = w)
        BY <2>1, OfOldRevision
    <2>3. o.rev = h.rev => h = f
        BY <2>1, <2>2, OfOldRevision
    <2> QED
        BY <1>2, <2>1, <2>2, <2>3 DEF OpenedFits
<1>3. o.shows = "card" => o.id \in Ids
    BY DEF OpenedFits
<1> QED
    BY <1>1, <1>2, <1>3 DEF OpenedFits

\* And the request under way.
LEMMA RequestKept ==
    ASSUME NEW f, NEW h, NEW w, NEW v, Step(f, h, w, v), NEW q, RequestFits(q, f, w)
    PROVE  RequestFits(q, h, v)
<1>1. Fits(q.shown, h, v)
    BY FitsKept DEF RequestFits
<1>2. q.state = "done" => Fits(q.snap, h, v)
    BY FitsKept DEF RequestFits
<1> QED
    BY <1>1, <1>2 DEF RequestFits

-----------------------------------------------------------------------------
(* Tiles, and what opening one shows.                                      *)

\* An entry is of an identifier and one of its accesses.
LEMMA EntryOf ==
    ASSUME NEW models, NEW e
    PROVE  e \in Entries(models) <=> \E i \in Ids : \E a \in models[i] : e = [id |-> i, access |-> a]
BY DEF Entries

\* Every entry of To add is a discovered access no card holds.
LEMMA ToAddIsFree ==
    ASSUME NEW w, NEW e \in Entries(ToAdd(w))
    PROVE  e.id \in Ids /\ e.access \in Discovered[e.id] /\ e.access \in Accesses /\ e.access \notin Held(w)
<1>1. PICK i \in Ids : \E a \in ToAdd(w)[i] : e = [id |-> i, access |-> a]
    BY EntryOf
<1>2. PICK a \in ToAdd(w)[i] : e = [id |-> i, access |-> a]
    BY <1>1
<1>3. a \in Discovered[i] /\ a \notin Held(w)
    BY <1>2 DEF ToAdd
<1> QED
    BY <1>2, <1>3, LibraryAssumption

\* An entry of the cards is of a saved card, which holds its access.
LEMMA CardEntry ==
    ASSUME NEW w, NEW e \in Entries(w.cards)
    PROVE  e.id \in Saved(w) /\ e.access \in w.cards[e.id]
<1>1. PICK i \in Ids : \E a \in w.cards[i] : e = [id |-> i, access |-> a]
    BY EntryOf
<1>2. PICK a \in w.cards[i] : e = [id |-> i, access |-> a]
    BY <1>1
<1> QED
    BY <1>2 DEF Saved

\* Whatever is known is of an identifier and an access.
LEMMA KnownEntry ==
    ASSUME NEW w \in Workspaces, NEW e \in Known(w)
    PROVE  /\ e.id \in Ids /\ e.access \in Accesses
           /\ \/ e.id \in Saved(w) /\ e.access \in w.cards[e.id]
              \/ e \in Entries(ToAdd(w))
<1>1. CASE e \in Entries(w.cards)
    <2>1. e.id \in Saved(w) /\ e.access \in w.cards[e.id]
        BY <1>1, CardEntry
    <2> QED
        BY <2>1 DEF Saved, Workspaces
<1>2. CASE e \in Entries(ToAdd(w))
    BY <1>2, ToAddIsFree
<1> QED
    BY <1>1, <1>2 DEF Known

\* A tile is what has the key of any of its entries.
LEMMA TileOfKey ==
    ASSUME NEW entries, NEW w, NEW c, NEW g \in Tiles(entries, w, c), NEW e \in g
    PROVE  e \in entries /\ g = {x \in entries : KeyOf(w, c, x) = KeyOf(w, c, e)}
BY DEF Tiles

\* The tile of an entry.
LEMMA TileOfEntry ==
    ASSUME NEW entries, NEW w, NEW c, NEW e \in entries
    PROVE  {x \in entries : KeyOf(w, c, x) = KeyOf(w, c, e)} \in Tiles(entries, w, c)
BY DEF Tiles

\* The complete group of a tile of To add holds it, and nothing else that is to be added.
LEMMA CompleteGroup ==
    ASSUME NEW w, NEW c, NEW tile \in Tiles(Entries(ToAdd(w)), w, c)
    PROVE  /\ tile # {} /\ tile \subseteq Complete(tile, w, c)
           /\ Complete(tile, w, c) \subseteq Known(w)
           /\ Complete(tile, w, c) \cap Entries(ToAdd(w)) \subseteq tile
<1> DEFINE S == {g \in Tiles(Known(w), w, c) : tile \subseteq g}
<1>0. Complete(tile, w, c) = UNION S
    BY DEF Complete
<1>1. PICK t \in Entries(ToAdd(w)) : tile = {e \in Entries(ToAdd(w)) : KeyOf(w, c, e) = KeyOf(w, c, t)}
    BY DEF Tiles
<1>2. t \in tile
    BY <1>1
<1>3. DEFINE K == {e \in Known(w) : KeyOf(w, c, e) = KeyOf(w, c, t)}
<1>4. K \in Tiles(Known(w), w, c)
    <2>1. t \in Known(w)
        BY DEF Known
    <2> QED
        BY <2>1, TileOfEntry
<1>5. tile \subseteq K
    BY <1>1 DEF Known
<1>6. \A g \in S : g = K
    BY <1>2, TileOfKey
<1>7. K \in S
    BY <1>4, <1>5
<1>8. UNION S = K
    BY <1>6, <1>7
<1>9. K \cap Entries(ToAdd(w)) \subseteq tile
    BY <1>1
<1> QED
    BY <1>0, <1>2, <1>5, <1>8, <1>9

\* What a workspace the cards were once is, for what is open.
PastOf(w, v) == w \in Workspaces /\ w.rev <= v.rev /\ (w.rev = v.rev => w = v)

\* The reference an access has in a catalogue, or carries.
LEMMA ReferencesAreLinks ==
    ASSUME NEW w \in Workspaces, NEW c, c # Nil => c \in CatalogueViews, NEW a \in Accesses
    PROVE  /\ ReferenceOf(w, c, a) \in Links
           /\ c = Nil => ReferenceOf(w, c, a) = w.link[a]
           /\ c # Nil => ReferenceOf(w, c, a) = LinksOf(c)[a]
<1>1. CASE c = Nil
    BY <1>1 DEF ReferenceOf, Workspaces
<1>2. CASE c # Nil /\ a \in c.listed
    BY <1>2 DEF ReferenceOf, CatalogueViews, LinksOf
<1>3. CASE c # Nil /\ a \notin c.listed
    BY <1>3 DEF ReferenceOf, LinksOf, Links
<1> QED
    BY <1>1, <1>2, <1>3

\* A catalogue of the revision of the file has its links, and so has a workspace of it.
LEMMA LinksOfRevision ==
    ASSUME NEW f \in FileStates, NEW w, WorkspaceFits(w, f)
    PROVE  /\ w.rev = f.rev => w.link = LinksOf(f.cat)
           /\ \A c : Fits(c, f, w) /\ c.rev = f.rev => LinksOf(c) = LinksOf(f.cat)
BY SameLinks DEF WorkspaceFits, Fits

\* The draft of a group combines what no card holds.
LEMMA CombinedDraft ==
    ASSUME NEW f \in FileStates, NEW v, WorkspaceFits(v, f), NEW w, PastOf(w, v),
           NEW c, c # Nil => Fits(c, f, v),
           NEW g, g \subseteq Known(w), NEW i \in IdsOf(g), i \notin Saved(v), Combines(g, v)
    PROVE  OpenedFits(DraftOpened(DraftFor(g, i, w, c), w, c), f, v)
<1> DEFINE d == DraftFor(g, i, w, c)
           o == DraftOpened(d, w, c)
<1>1. /\ o.shows = "draft" /\ o.draft = d /\ o.rev = w.rev /\ (o.fresh => c # Nil /\ c.rev = w.rev)
      /\ d.id = i /\ d.accesses = AccessesOf(g) /\ d.combined = TRUE
    BY DEF DraftOpened, DraftFor
<1>2. w \in Workspaces /\ w.rev \in Nat /\ v.rev \in Nat /\ f.rev \in Nat /\ v.rev <= f.rev
    BY DEF PastOf, Workspaces, WorkspaceFits, FileStates
<1>3. i \in Ids /\ AccessesOf(g) \subseteq Accesses /\ AccessesOf(g) # {}
    BY <1>2, KnownEntry DEF IdsOf, AccessesOf
<1>4. ASSUME w = v PROVE AccessesOf(g) \cap Held(v) = {}
    <2>1. SUFFICES ASSUME NEW e \in g PROVE e.access \notin Held(v)
        BY DEF AccessesOf
    <2>2. e.id \notin Saved(v)
        BY DEF Combines, RegisteredIn, IdsOf
    <2>3. e \in Entries(ToAdd(v))
        BY <1>2, <1>4, <2>2, KnownEntry
    <2> QED
        BY <2>3, ToAddIsFree
<1>5. w.rev = v.rev => Registrable(d, v)
    BY <1>1, <1>3, <1>4 DEF PastOf, Registrable, Combines
<1>6. ASSUME NEW a \in Accesses
      PROVE  /\ d.ref[a] \in Links
             /\ d.ref[a] \in {Nil, w.link[a], ReferenceOf(w, c, a)}
    <2>1. d.ref[a] = IF a \notin AccessesOf(g) THEN Nil
                     ELSE IF w.link[a] # Nil THEN w.link[a] ELSE ReferenceOf(w, c, a)
        BY DEF DraftFor
    <2>2. ReferenceOf(w, c, a) \in Links
        BY <1>2, ReferencesAreLinks DEF Fits
    <2>3. w.link[a] \in Links /\ Nil \in Links
        BY <1>2 DEF Workspaces, Links
    <2> QED
        BY <2>1, <2>2, <2>3
<1>7. d.ref \in [Accesses -> Links]
    <2>1. d.ref = [a \in Accesses |-> IF a \notin AccessesOf(g) THEN Nil
                     ELSE IF w.link[a] # Nil THEN w.link[a] ELSE ReferenceOf(w, c, a)]
        BY DEF DraftFor
    <2> HIDE DEF d
    <2> QED
        BY <1>6, <2>1
<1>8. ASSUME o.fresh, w.rev = f.rev, NEW a \in Accesses PROVE d.ref[a] \in {Nil, LinksOf(f.cat)[a]}
    <2>1. c # Nil /\ c.rev = f.rev /\ Fits(c, f, v) /\ v.rev = f.rev /\ w = v
        BY <1>1, <1>2, <1>8 DEF PastOf
    <2>2. w.link = LinksOf(f.cat) /\ LinksOf(c) = LinksOf(f.cat)
        BY <2>1, LinksOfRevision
    <2>3. ReferenceOf(w, c, a) = LinksOf(c)[a]
        BY <1>2, <2>1, ReferencesAreLinks DEF Fits
    <2> QED
        BY <1>6, <2>2, <2>3
<1> HIDE DEF d, o
<1>9. w.rev <= v.rev
    BY DEF PastOf
<1>10. OpenedFits(o, f, v)
    BY <1>1, <1>2, <1>3, <1>5, <1>7, <1>8, <1>9 DEF OpenedFits
<1> QED
    BY <1>10 DEF o, d

\* The draft of an identifier is of what is left to add under it.
LEMMA SeparateDraft ==
    ASSUME NEW f \in FileStates, NEW v, WorkspaceFits(v, f), NEW w, PastOf(w, v), NEW c,
           NEW i \in Ids, w = v => i \notin Saved(v) /\ ToAdd(v)[i] # {}
    PROVE  OpenedFits(DraftOpened(DraftAlone(i, w), w, c), f, v)
<1> DEFINE d == DraftAlone(i, w)
           o == DraftOpened(d, w, c)
<1>1. /\ o.shows = "draft" /\ o.draft = d /\ o.rev = w.rev
      /\ d.id = i /\ d.accesses = ToAdd(w)[i] /\ d.combined = FALSE
      /\ d.ref = [a \in Accesses |-> IF a \in ToAdd(w)[i] THEN w.link[a] ELSE Nil]
    BY DEF DraftOpened, DraftAlone
<1>2. w \in Workspaces /\ w.rev \in Nat /\ v.rev \in Nat /\ f.rev \in Nat /\ v.rev <= f.rev /\ w.rev <= v.rev
    BY DEF PastOf, Workspaces, WorkspaceFits, FileStates
<1>3. ToAdd(w)[i] = Discovered[i] \ Held(w)
    BY DEF ToAdd
<1>4. ToAdd(w)[i] \subseteq Accesses /\ ToAdd(w)[i] \cap Held(w) = {}
    BY <1>3, LibraryAssumption
<1>5. w.rev = v.rev => Registrable(d, v)
    BY <1>1, <1>4 DEF PastOf, Registrable
<1> HIDE DEF d, o
<1>6. d.ref \in [Accesses -> Links]
    BY <1>1, <1>2 DEF Workspaces, Links
<1>7. ASSUME w.rev = f.rev, NEW a \in Accesses PROVE d.ref[a] \in {Nil, LinksOf(f.cat)[a]}
    <2>1. v.rev = f.rev /\ w = v
        BY <1>2, <1>7 DEF PastOf
    <2>2. w.link = LinksOf(f.cat)
        BY <2>1, LinksOfRevision
    <2> QED
        BY <1>1, <2>2
<1>8. OpenedFits(o, f, v)
    BY <1>1, <1>2, <1>4, <1>5, <1>6, <1>7 DEF OpenedFits
<1> QED
    BY <1>8 DEF o, d

\* What opening a group or an identifier shows.
LEMMA OpeningFits ==
    ASSUME LibraryInv, NEW w, PastOf(w, workspace), NEW c, c # Nil => Fits(c, registry, workspace),
           NEW g, g \subseteq Known(w), NEW i \in IdsOf(g)
    PROVE  OpenedFits(Opening(g, i, w, c), registry, workspace)
<1>1. registry \in FileStates /\ WorkspaceFits(workspace, registry) /\ w \in Workspaces
    BY DEF LibraryInv, FileInv, FileStates, CopiesInv, PastOf
<1>2. i \in Ids
    BY <1>1, KnownEntry DEF IdsOf
<1>3. CASE i \in Saved(workspace)
    <2>1. Opening(g, i, w, c) = CardOpened(i)
        BY <1>3 DEF Opening
    <2> QED
        BY <1>2, <2>1 DEF CardOpened, OpenedFits
<1>4. CASE i \notin Saved(workspace) /\ Combines(g, workspace)
    <2>1. Opening(g, i, w, c) = DraftOpened(DraftFor(g, i, w, c), w, c)
        BY <1>4 DEF Opening
    <2> QED
        BY <1>1, <1>4, <2>1, CombinedDraft
<1>5. CASE i \notin Saved(workspace) /\ ~Combines(g, workspace)
    <2>1. Opening(g, i, w, c) = DraftOpened(DraftAlone(i, w), w, c)
        BY <1>5 DEF Opening
    <2>2. ASSUME w = workspace PROVE ToAdd(workspace)[i] # {}
        <3>1. PICK e \in g : e.id = i
            BY DEF IdsOf
        <3>2. e \in Entries(ToAdd(w))
            BY <1>1, <1>5, <2>2, <3>1, KnownEntry
        <3>3. PICK j \in Ids : \E a \in ToAdd(w)[j] : e = [id |-> j, access |-> a]
            BY <3>2, EntryOf
        <3> QED
            BY <2>2, <3>1, <3>3
    <2> QED
        BY <1>1, <1>2, <1>5, <2>1, <2>2, SeparateDraft
<1> QED
    BY <1>3, <1>4, <1>5

-----------------------------------------------------------------------------
(* The invariant, one part of the state after the other.                   *)

\* What a step leaves alone stays right.
LEMMA Stays ==
    ASSUME LibraryInv, Step(registry, registry', workspace, workspace')
    PROVE  /\ WorkspaceFits(workspace, registry)'
           /\ \A c : Fits(c, registry, workspace) => Fits(c, registry', workspace')
           /\ UNCHANGED <<catalogue, gets>> => CopiesInv'
           /\ UNCHANGED opened => OpenedInv'
           /\ UNCHANGED request => RequestInv'
           /\ UNCHANGED <<metadata, visits>> => MetadataInv'
<1>1. WorkspaceFits(workspace, registry)'
    BY WorkspaceKept
<1>2. \A c : Fits(c, registry, workspace) => Fits(c, registry', workspace')
    BY FitsKept
<1>3. UNCHANGED <<catalogue, gets>> => CopiesInv'
    BY <1>1, <1>2 DEF LibraryInv, CopiesInv
<1>4. UNCHANGED opened => OpenedInv'
    BY OpenedKept DEF LibraryInv, OpenedInv
<1>5. UNCHANGED request => RequestInv'
    BY RequestKept DEF LibraryInv, RequestInv
<1>6. UNCHANGED <<metadata, visits>> => MetadataInv'
    BY DEF LibraryInv, MetadataInv
<1> QED
    BY <1>1, <1>2, <1>3, <1>4, <1>5, <1>6

\* A step that changes neither the file nor the panel's cards.
LEMMA Standing ==
    ASSUME LibraryInv, UNCHANGED <<registry, workspace>>
    PROVE  Step(registry, registry', workspace, workspace') /\ FileInv'
BY DEF LibraryInv, FileInv, FileStates, CopiesInv, Step

\* A change of the file.
LEMMA FileChanges ==
    ASSUME LibraryInv, NEW cards \in [Ids -> SUBSET Accesses], NEW cat \in Catalogues,
           \A a \in Accesses \ cat.listed : cat.link[a] = Nil, Changed(cards, cat),
           workspace' = workspace \/ workspace' = WorkspaceOf(registry')
    PROVE  Step(registry, registry', workspace, workspace') /\ FileInv'
<1>1. registry' = [rev |-> registry.rev + 1, cards |-> cards, cat |-> cat] /\ registry.rev \in Nat
    BY DEF Changed, LibraryInv, FileInv
<1>2. registry' \in FileStates /\ registry'.rev = registry.rev + 1 /\ registry'.cat = cat
    BY <1>1 DEF FileStates
<1>3. registry \in FileStates /\ WorkspaceFits(workspace, registry)
    BY DEF LibraryInv, FileInv, FileStates, CopiesInv
<1> QED
    BY <1>2, <1>3 DEF Step, FileInv, FileStates

\* Asking for the catalogue brings no copy of it.
LEMMA Asking ==
    ASSUME NEW rev, NEW c, LoadIfOther(rev, c)
    PROVE  \A g \in gets' : g.state = "read" => g \in gets
BY DEF LoadIfOther

\* The panel's cards become the file's.
LEMMA CardsLoaded ==
    ASSUME LibraryInv, Step(registry, registry', workspace, workspace'), ApplyWorkspace(registry'),
           UNCHANGED catalogue
    PROVE  CopiesInv'
<1>1. \A g \in gets' : g.state = "read" => g \in gets
    BY Asking DEF ApplyWorkspace
<1>2. /\ WorkspaceFits(workspace, registry)'
      /\ \A c : Fits(c, registry, workspace) => Fits(c, registry', workspace')
    BY Stays
<1> QED
    BY <1>1, <1>2 DEF LibraryInv, CopiesInv

LEMMA LoadWorkspaceStep == LibraryInv /\ LoadWorkspace => LibraryInv'
<1> SUFFICES ASSUME LibraryInv, LoadWorkspace PROVE LibraryInv'
    OBVIOUS
<1>1. UNCHANGED <<registry, catalogue, opened, metadata, visits, request>> /\ workspace' = WorkspaceOf(registry')
    BY DEF LoadWorkspace, ApplyWorkspace, metadataVars
<1>2. Step(registry, registry', workspace, workspace') /\ FileInv'
    BY <1>1 DEF LibraryInv, FileInv, FileStates, CopiesInv, Step
<1>3. ApplyWorkspace(registry')
    BY <1>1 DEF LoadWorkspace
<1> QED
    BY <1>1, <1>2, <1>3, Stays, CardsLoaded DEF LibraryInv

LEMMA CatalogueReadStep == LibraryInv /\ CatalogueRead => LibraryInv'
<1> SUFFICES ASSUME LibraryInv, CatalogueRead PROVE LibraryInv'
    OBVIOUS
<1>1. UNCHANGED <<registry, workspace, catalogue, opened, metadata, visits, request>>
    BY DEF CatalogueRead, metadataVars
<1>2. Step(registry, registry', workspace, workspace') /\ FileInv'
    BY <1>1, Standing
<1>3. PICK g \in gets : gets' = (gets \ {g}) \cup {[state |-> "read", snap |-> CatalogueOf(registry)]}
    BY DEF CatalogueRead
<1>4. registry \in FileStates /\ WorkspaceFits(workspace, registry)
    BY DEF LibraryInv, FileInv, FileStates, CopiesInv
<1>5. Fits(CatalogueOf(registry), registry, workspace)
    BY <1>4, FitsNew
<1>6. CopiesInv'
    BY <1>1, <1>3, <1>5 DEF LibraryInv, CopiesInv
<1> QED
    BY <1>1, <1>2, <1>6, Stays DEF LibraryInv

LEMMA CatalogueArrivesStep == LibraryInv /\ CatalogueArrives => LibraryInv'
<1> SUFFICES ASSUME LibraryInv, CatalogueArrives PROVE LibraryInv'
    OBVIOUS
<1>1. UNCHANGED <<registry, workspace, opened, metadata, visits, request>>
    BY DEF CatalogueArrives, metadataVars
<1>2. Step(registry, registry', workspace, workspace') /\ FileInv'
    BY <1>1, Standing
<1>3. PICK g \in gets : g.state = "read" /\ gets' = gets \ {g} /\ catalogue' = g.snap
    BY DEF CatalogueArrives
<1>4. CopiesInv'
    BY <1>1, <1>3 DEF LibraryInv, CopiesInv
<1> QED
    BY <1>1, <1>2, <1>4, Stays DEF LibraryInv

LEMMA CatalogueFailsStep == LibraryInv /\ CatalogueFails => LibraryInv'
<1> SUFFICES ASSUME LibraryInv, CatalogueFails PROVE LibraryInv'
    OBVIOUS
<1>1. UNCHANGED <<registry, workspace, catalogue, opened, metadata, visits, request>>
    BY DEF CatalogueFails, metadataVars
<1>2. Step(registry, registry', workspace, workspace') /\ FileInv'
    BY <1>1, Standing
<1>3. gets' \subseteq gets
    BY DEF CatalogueFails
<1>4. CopiesInv'
    BY <1>1, <1>3 DEF LibraryInv, CopiesInv
<1> QED
    BY <1>1, <1>2, <1>4, Stays DEF LibraryInv

LEMMA LinkedElsewhereStep ==
    ASSUME LibraryInv, NEW a \in Accesses, NEW r \in Links, NEW byOperator \in BOOLEAN,
           LinkedElsewhere(a, r, byOperator)
    PROVE  LibraryInv'
<1> DEFINE cat == [registry.cat EXCEPT !.link[a] = r, !.chosen = IF byOperator THEN @ \cup {a} ELSE @]
<1>1. /\ UNCHANGED <<workspace, catalogue, gets, opened, metadata, visits, request>>
      /\ a \in registry.cat.listed /\ Changed(registry.cards, cat)
    BY DEF LinkedElsewhere, metadataVars
<1>2. registry.cards \in [Ids -> SUBSET Accesses] /\ registry.cat \in Catalogues
    BY DEF LibraryInv, FileInv
<1>3. /\ cat \in Catalogues /\ cat.listed = registry.cat.listed
      /\ cat.link = [registry.cat.link EXCEPT ![a] = r]
    BY <1>2 DEF Catalogues
<1>4. \A b \in Accesses \ cat.listed : cat.link[b] = Nil
    BY <1>1, <1>2, <1>3 DEF LibraryInv, FileInv, Catalogues
<1> HIDE DEF cat
<1>5. Step(registry, registry', workspace, workspace') /\ FileInv'
    BY <1>1, <1>2, <1>3, <1>4, FileChanges
<1> QED
    BY <1>1, <1>5, Stays DEF LibraryInv

LEMMA CorrectedElsewhereStep ==
    ASSUME LibraryInv, NEW t \in Targets, NEW v \in FactValues \cup {Nil}, CorrectedElsewhere(t, v)
    PROVE  LibraryInv'
<1> DEFINE cat == [registry.cat EXCEPT !.own[t] = v]
<1>1. UNCHANGED <<workspace, catalogue, gets, opened, metadata, visits, request>> /\ Changed(registry.cards, cat)
    BY DEF CorrectedElsewhere, metadataVars
<1>2. registry.cards \in [Ids -> SUBSET Accesses] /\ registry.cat \in Catalogues
    BY DEF LibraryInv, FileInv
<1>3. cat \in Catalogues /\ cat.listed = registry.cat.listed /\ cat.link = registry.cat.link
    BY <1>2 DEF Catalogues
<1>4. \A b \in Accesses \ cat.listed : cat.link[b] = Nil
    BY <1>3 DEF LibraryInv, FileInv
<1> HIDE DEF cat
<1>5. Step(registry, registry', workspace, workspace') /\ FileInv'
    BY <1>1, <1>2, <1>3, <1>4, FileChanges
<1> QED
    BY <1>1, <1>5, Stays DEF LibraryInv

-----------------------------------------------------------------------------
(* What the library opens and saves.                                       *)

\* A step that only shows something else.
LEMMA ShowStep ==
    ASSUME LibraryInv, NEW o, OpenedFits(o, registry, workspace), Show(o)
    PROVE  LibraryInv'
<1>1. UNCHANGED <<registry, workspace, catalogue, gets, metadata, visits, request>> /\ opened' = o
    BY DEF Show, metadataVars
<1>2. Step(registry, registry', workspace, workspace') /\ FileInv'
    BY <1>1, Standing
<1>3. OpenedInv'
    BY <1>1 DEF OpenedInv
<1> QED
    BY <1>1, <1>2, <1>3, Stays DEF LibraryInv

LEMMA OpenTileStep ==
    ASSUME LibraryInv, NEW tile \in ToAddTiles, OpenTile(tile)
    PROVE  LibraryInv'
<1> DEFINE g == Complete(tile, workspace, catalogue)
<1>1. g \subseteq Known(workspace) /\ g # {}
    BY CompleteGroup DEF ToAddTiles
<1>2. workspace \in Workspaces /\ workspace.rev <= workspace.rev /\ PastOf(workspace, workspace)
    BY DEF LibraryInv, CopiesInv, WorkspaceFits, Workspaces, PastOf
<1>3. catalogue # Nil => Fits(catalogue, registry, workspace)
    BY DEF LibraryInv, CopiesInv
<1>4. Joinable(g, workspace, catalogue) \subseteq Ids /\ RegisteredIn(g, workspace) \subseteq IdsOf(g)
    BY DEF Joinable, Holding, RegisteredIn
<1>5. CASE Show([shows |-> "cards", cards |-> Joinable(g, workspace, catalogue)])
    <2>1. OpenedFits([shows |-> "cards", cards |-> Joinable(g, workspace, catalogue)], registry, workspace)
        BY DEF OpenedFits
    <2> QED
        BY <1>5, <2>1, ShowStep
<1>6. CASE \E i \in Joinable(g, workspace, catalogue) : Show(CardOpened(i))
    <2>1. PICK i \in Joinable(g, workspace, catalogue) : Show(CardOpened(i))
        BY <1>6
    <2>2. OpenedFits(CardOpened(i), registry, workspace)
        BY <1>4 DEF OpenedFits, CardOpened
    <2> QED
        BY <2>1, <2>2, ShowStep
<1>7. CASE Show([shows |-> "choice", group |-> g, w |-> workspace, c |-> catalogue])
    <2> DEFINE o == [shows |-> "choice", group |-> g, w |-> workspace, c |-> catalogue]
    <2>1. OpenedFits(o, registry, workspace)
        BY <1>1, <1>2, <1>3 DEF OpenedFits
    <2> QED
        BY <1>7, <2>1, ShowStep
<1>8. CASE \E i \in IF RegisteredIn(g, workspace) # {} THEN RegisteredIn(g, workspace) ELSE IdsOf(g) :
              Show(Opening(g, i, workspace, catalogue))
    <2>1. PICK i \in IdsOf(g) : Show(Opening(g, i, workspace, catalogue))
        BY <1>4, <1>8
    <2>2. OpenedFits(Opening(g, i, workspace, catalogue), registry, workspace)
        BY <1>1, <1>2, <1>3, OpeningFits
    <2> QED
        BY <2>1, <2>2, ShowStep
<1> HIDE DEF g
<1> QED
    BY <1>5, <1>6, <1>7, <1>8 DEF OpenTile, g

LEMMA PickStep ==
    ASSUME LibraryInv, NEW i \in Ids, Pick(i)
    PROVE  LibraryInv'
<1>1. OpenedFits(CardOpened(i), registry, workspace)
    BY DEF OpenedFits, CardOpened
<1> QED
    BY <1>1, ShowStep DEF Pick

LEMMA ChooseStep ==
    ASSUME LibraryInv, NEW i \in Ids, Choose(i)
    PROVE  LibraryInv'
<1>1. opened.shows = "choice" /\ i \in IdsOf(opened.group) /\ Show(Opening(opened.group, i, opened.w, opened.c))
    BY DEF Choose
<1>2. /\ PastOf(opened.w, workspace) /\ opened.group \subseteq Known(opened.w)
      /\ opened.c # Nil => Fits(opened.c, registry, workspace)
    BY <1>1 DEF LibraryInv, OpenedInv, OpenedFits, PastOf
<1>3. OpenedFits(Opening(opened.group, i, opened.w, opened.c), registry, workspace)
    BY <1>1, <1>2, OpeningFits
<1> QED
    BY <1>1, <1>3, ShowStep

LEMMA OpenAloneStep ==
    ASSUME LibraryInv, NEW i \in Ids, OpenAlone(i)
    PROVE  LibraryInv'
<1>1. registry \in FileStates /\ WorkspaceFits(workspace, registry) /\ PastOf(workspace, workspace)
    BY DEF LibraryInv, FileInv, FileStates, CopiesInv, WorkspaceFits, Workspaces, PastOf
<1>2. CASE i \in Saved(workspace)
    <2>1. Show(CardOpened(i))
        BY <1>2 DEF OpenAlone
    <2>2. OpenedFits(CardOpened(i), registry, workspace)
        BY DEF OpenedFits, CardOpened
    <2> QED
        BY <2>1, <2>2, ShowStep
<1>3. CASE i \notin Saved(workspace)
    <2>1. ToAdd(workspace)[i] # {} /\ Show(DraftOpened(DraftAlone(i, workspace), workspace, Nil))
        BY <1>3 DEF OpenAlone
    <2>2. OpenedFits(DraftOpened(DraftAlone(i, workspace), workspace, Nil), registry, workspace)
        BY <1>1, <1>3, <2>1, SeparateDraft
    <2> QED
        BY <2>1, <2>2, ShowStep
<1> QED
    BY <1>2, <1>3

LEMMA CloseLibraryStep == LibraryInv /\ CloseLibrary => LibraryInv'
<1>1. OpenedFits(Nothing, registry, workspace)
    BY DEF OpenedFits, Nothing
<1> QED
    BY <1>1, ShowStep DEF CloseLibrary

\* What a save makes of the links.
LEMMA RelinkedIsTyped ==
    ASSUME NEW cat \in Catalogues, NEW ref \in [Accesses -> Links],
           \A a \in Accesses \ cat.listed : cat.link[a] = Nil
    PROVE  /\ Relinked(cat, ref) \in Catalogues
           /\ \A a \in Accesses \ Relinked(cat, ref).listed : Relinked(cat, ref).link[a] = Nil
<1> DEFINE new == {a \in Accesses : ref[a] # Nil /\ (a \notin cat.listed \/ ref[a] # cat.link[a])}
           link == [a \in Accesses |-> IF a \in new THEN ref[a] ELSE cat.link[a]]
           made == [cat EXCEPT !.link = link, !.chosen = @ \cup new, !.listed = @ \cup new,
                               !.configured = @ \cup (new \ cat.listed)]
<1>1. link \in [Accesses -> Links]
    BY DEF Catalogues
<1>2. Relinked(cat, ref) = made
    BY DEF Relinked
<1>3. new \subseteq Accesses
    OBVIOUS
<1>4. ASSUME NEW a \in Accesses \ (cat.listed \cup new) PROVE link[a] = Nil
    BY <1>4
<1> HIDE DEF new, link
<1>5. made \in Catalogues /\ made.listed = cat.listed \cup new /\ made.link = link
    BY <1>1, <1>3 DEF Catalogues
<1> HIDE DEF made
<1> QED
    BY <1>2, <1>4, <1>5

LEMMA SaveCardStep ==
    ASSUME LibraryInv, NEW i \in Ids, NEW accesses \in SUBSET Accesses, NEW ref \in [Accesses -> Links],
           SaveCard(i, accesses, ref)
    PROVE  LibraryInv'
<1> DEFINE cards == [registry.cards EXCEPT ![i] = accesses]
           cat == Relinked(registry.cat, ref)
<1>1. /\ UNCHANGED <<catalogue, metadata, visits, request>> /\ opened' = Nothing
      /\ Changed(cards, cat) /\ ApplyWorkspace(registry') /\ workspace' = WorkspaceOf(registry')
    BY DEF SaveCard, metadataVars, ApplyWorkspace
<1>2. cards \in [Ids -> SUBSET Accesses]
    BY DEF LibraryInv, FileInv
<1>3. cat \in Catalogues /\ \A a \in Accesses \ cat.listed : cat.link[a] = Nil
    BY RelinkedIsTyped DEF LibraryInv, FileInv
<1> HIDE DEF cards, cat
<1>4. Step(registry, registry', workspace, workspace') /\ FileInv'
    BY <1>1, <1>2, <1>3, FileChanges
<1>5. CopiesInv'
    BY <1>1, <1>4, CardsLoaded
<1>6. OpenedInv'
    BY <1>1 DEF OpenedInv, OpenedFits, Nothing
<1> QED
    BY <1>1, <1>4, <1>5, <1>6, Stays DEF LibraryInv

LEMMA SaveDraftStep == LibraryInv /\ SaveDraft => LibraryInv'
<1> SUFFICES ASSUME LibraryInv, SaveDraft PROVE LibraryInv'
    OBVIOUS
<1>1. opened.shows = "draft" /\ SaveCard(opened.draft.id, opened.draft.accesses, opened.draft.ref)
    BY DEF SaveDraft
<1>2. /\ opened.draft.id \in Ids /\ opened.draft.accesses \in SUBSET Accesses
      /\ opened.draft.ref \in [Accesses -> Links]
    BY <1>1 DEF LibraryInv, OpenedInv, OpenedFits
<1> QED
    BY <1>1, <1>2, SaveCardStep

LEMMA JoinStep ==
    ASSUME LibraryInv, NEW a \in Accesses, Join(a)
    PROVE  LibraryInv'
<1> DEFINE ref == [b \in Accesses |-> IF b = a THEN catalogue.link[a] ELSE Nil]
<1>1. /\ opened.shows = "card" /\ catalogue # Nil
      /\ SaveCard(opened.id, workspace.cards[opened.id] \cup {a}, ref)
    BY DEF Join
<1>2. opened.id \in Ids /\ workspace \in Workspaces /\ catalogue \in CatalogueViews
    BY <1>1 DEF LibraryInv, OpenedInv, OpenedFits, CopiesInv, WorkspaceFits, Fits
<1>3. workspace.cards[opened.id] \cup {a} \in SUBSET Accesses
    BY <1>2 DEF Workspaces
<1>4. ref \in [Accesses -> Links]
    BY <1>2 DEF CatalogueViews, Links
<1> HIDE DEF ref
<1> QED
    BY <1>1, <1>2, <1>3, <1>4, SaveCardStep

LEMMA AssociateStep ==
    ASSUME LibraryInv, NEW i \in Ids, NEW r \in References, Associate(i, r)
    PROVE  LibraryInv'
<1>1. SaveCard(i, workspace.cards[i], Associated(i, r))
    BY DEF Associate
<1>2. workspace.cards[i] \in SUBSET Accesses
    BY DEF LibraryInv, CopiesInv, WorkspaceFits, Workspaces
<1>3. Associated(i, r) \in [Accesses -> Links]
    BY DEF Associated, Links
<1> QED
    BY <1>1, <1>2, <1>3, SaveCardStep

-----------------------------------------------------------------------------
(* The metadata page and its request.                                      *)

\* The catalogue the panel has is one.
LEMMA CatalogueIsTyped ==
    ASSUME LibraryInv, catalogue # Nil
    PROVE  /\ catalogue \in CatalogueViews
           /\ catalogue.listed \subseteq Targets /\ catalogue.refs \subseteq Targets
           /\ \A t \in catalogue.listed \cup catalogue.refs : catalogue.own[t] \in FactValues \cup {Nil}
<1>1. catalogue \in CatalogueViews
    BY DEF LibraryInv, CopiesInv, Fits
<1>2. catalogue.listed \subseteq Accesses /\ catalogue.refs \subseteq References
    BY <1>1 DEF CatalogueViews
<1>3. catalogue.own \in [Targets -> FactValues \cup {Nil}]
    BY <1>1 DEF CatalogueViews
<1> QED
    BY <1>1, <1>2, <1>3 DEF Targets

\* What the page selects of an access is a link.
LEMMA LinkInIsLink ==
    ASSUME LibraryInv, NEW t
    PROVE  LinkIn(catalogue, t) \in Links
<1>1. CASE catalogue = Nil \/ t \notin Accesses
    BY <1>1 DEF LinkIn, Links
<1>2. CASE catalogue # Nil /\ t \in Accesses
    BY <1>2, CatalogueIsTyped DEF LinkIn, CatalogueViews
<1> QED
    BY <1>1, <1>2

\* The page alone changes.
LEMMA TurnStep ==
    ASSUME LibraryInv, NEW p \in MetadataPages, Turn(p)
    PROVE  LibraryInv'
<1>1. UNCHANGED <<registry, workspace, catalogue, gets, opened, visits, request>> /\ metadata' = p
    BY DEF Turn
<1>2. Step(registry, registry', workspace, workspace') /\ FileInv'
    BY <1>1, Standing
<1>3. MetadataInv'
    BY <1>1 DEF LibraryInv, MetadataInv
<1> QED
    BY <1>1, <1>2, <1>3, Stays DEF LibraryInv

LEMMA OpenPageStep ==
    ASSUME LibraryInv, NEW t \in Targets \cup {Nil}, OpenPage(t)
    PROVE  LibraryInv'
<1>1. /\ UNCHANGED <<registry, workspace, catalogue, gets, opened, request>>
      /\ metadata' = At(ModeOf(t), t, LinkIn(catalogue, t)) /\ visits' = visits + 1
    BY DEF OpenPage
<1>2. Step(registry, registry', workspace, workspace') /\ FileInv'
    BY <1>1, Standing
<1>3. ModeOf(t) \in {"access", "reference"} /\ LinkIn(catalogue, t) \in Links
    BY LinkInIsLink DEF ModeOf
<1>4. At(ModeOf(t), t, LinkIn(catalogue, t)) \in MetadataPages
    BY <1>3 DEF At, MetadataPages
<1>5. MetadataInv'
    BY <1>1, <1>4 DEF LibraryInv, MetadataInv
<1> QED
    BY <1>1, <1>2, <1>5, Stays DEF LibraryInv

LEMMA LeavePageStep == LibraryInv /\ LeavePage => LibraryInv'
<1> SUFFICES ASSUME LibraryInv, LeavePage PROVE LibraryInv'
    OBVIOUS
<1>1. UNCHANGED <<registry, workspace, catalogue, gets, opened, visits, request>> /\ metadata' = Nil
    BY DEF LeavePage
<1>2. Step(registry, registry', workspace, workspace') /\ FileInv'
    BY <1>1, Standing
<1>3. MetadataInv'
    BY <1>1 DEF LibraryInv, MetadataInv
<1> QED
    BY <1>1, <1>2, <1>3, Stays DEF LibraryInv

LEMMA SwitchModeStep ==
    ASSUME LibraryInv, NEW mode \in {"access", "reference"}, SwitchMode(mode)
    PROVE  LibraryInv'
<1>1. metadata \in MetadataPages
    BY DEF LibraryInv, MetadataInv, SwitchMode, OnPage
<1>2. [metadata EXCEPT !.mode = mode, !.selected = Nil] \in MetadataPages
    BY <1>1 DEF MetadataPages
<1> QED
    BY <1>2, TurnStep DEF SwitchMode

\* Select and SelectLinked.
LEMMA InspectStep ==
    ASSUME LibraryInv, OnPage, NEW t \in Targets, Inspect(t)
    PROVE  LibraryInv'
<1>1. metadata \in MetadataPages
    BY DEF LibraryInv, MetadataInv, OnPage
<1>2. ModeOf(t) \in {"access", "reference"} /\ LinkIn(catalogue, t) \in Links
    BY LinkInIsLink DEF ModeOf
<1>3. [metadata EXCEPT !.mode = ModeOf(t), !.selected = t, !.matchId = LinkIn(catalogue, t)] \in MetadataPages
    BY <1>1, <1>2 DEF MetadataPages
<1> QED
    BY <1>3, TurnStep DEF Inspect

LEMMA SelectStep ==
    ASSUME LibraryInv, NEW t, Select(t)
    PROVE  LibraryInv'
<1>1. OnPage /\ Inspect(t) /\ t \in catalogue.listed \cup catalogue.refs
    BY DEF Select, Records
<1>2. t \in Targets
    BY <1>1, CatalogueIsTyped DEF OnPage
<1> QED
    BY <1>1, <1>2, InspectStep

LEMMA SelectLinkedStep ==
    ASSUME LibraryInv, NEW a \in Accesses, SelectLinked(a)
    PROVE  LibraryInv'
BY InspectStep DEF SelectLinked, Targets

LEMMA ChooseMatchStep ==
    ASSUME LibraryInv, NEW r \in References, ChooseMatch(r)
    PROVE  LibraryInv'
<1>1. metadata \in MetadataPages
    BY DEF LibraryInv, MetadataInv, ChooseMatch, OnPage
<1>2. [metadata EXCEPT !.matchId = r] \in MetadataPages
    BY <1>1 DEF MetadataPages, Links
<1> QED
    BY <1>2, TurnStep DEF ChooseMatch

LEMMA BeginEditStep == LibraryInv /\ BeginEdit => LibraryInv'
<1> SUFFICES ASSUME LibraryInv, BeginEdit PROVE LibraryInv'
    OBVIOUS
<1>1. metadata \in MetadataPages
    BY DEF LibraryInv, MetadataInv, BeginEdit, OnPage
<1>2. metadata.selected \in Targets /\ catalogue.own[metadata.selected] \in FactValues \cup {Nil}
    BY CatalogueIsTyped DEF BeginEdit, Records, OnPage
<1>3. [metadata EXCEPT !.edit = metadata.selected, !.typed = catalogue.own[metadata.selected],
                       !.says = "nothing"] \in MetadataPages
    BY <1>1, <1>2 DEF MetadataPages
<1> QED
    BY <1>3, TurnStep DEF BeginEdit

LEMMA TypeStep ==
    ASSUME LibraryInv, NEW v \in FactValues \cup {Malformed}, Type(v)
    PROVE  LibraryInv'
<1>1. metadata \in MetadataPages
    BY DEF LibraryInv, MetadataInv, Type, OnPage
<1>2. [metadata EXCEPT !.typed = v] \in MetadataPages
    BY <1>1 DEF MetadataPages
<1> QED
    BY <1>2, TurnStep DEF Type

LEMMA CancelEditStep == LibraryInv /\ CancelEdit => LibraryInv'
<1> SUFFICES ASSUME LibraryInv, CancelEdit PROVE LibraryInv'
    OBVIOUS
<1>1. metadata \in MetadataPages
    BY DEF LibraryInv, MetadataInv, CancelEdit, OnPage
<1>2. [metadata EXCEPT !.edit = Nil, !.typed = Nil] \in MetadataPages
    BY <1>1 DEF MetadataPages
<1> QED
    BY <1>2, TurnStep DEF CancelEdit

\* A request is sent with the catalogue shown.
LEMMA MutateStep ==
    ASSUME LibraryInv, NEW kind \in {"override", "match", "reference", "refresh"},
           NEW target \in Targets \cup {Nil}, NEW value,
           kind = "override" => value \in FactValues \cup {Nil},
           kind # "override" => value \in Links,
           kind = "reference" => target \in References,
           Mutate(kind, target, value)
    PROVE  LibraryInv'
<1> DEFINE q == [kind |-> kind, target |-> target, value |-> value, rev |-> catalogue.rev,
                 shown |-> catalogue, state |-> "asked", snap |-> Nil, from |-> visits]
<1>1. /\ UNCHANGED <<registry, workspace, catalogue, gets, opened, visits>>
      /\ catalogue # Nil /\ metadata # Nil
      /\ metadata' = [metadata EXCEPT !.busy = TRUE] /\ request' = q
    BY DEF Mutate, OnPage
<1>2. Step(registry, registry', workspace, workspace') /\ FileInv'
    BY <1>1, Standing
<1>3. metadata' \in MetadataPages
    <2>1. metadata \in MetadataPages
        BY <1>1 DEF LibraryInv, MetadataInv
    <2> QED
        BY <1>1, <2>1 DEF MetadataPages
<1>4. MetadataInv'
    BY <1>1, <1>3 DEF LibraryInv, MetadataInv
<1>5. RequestFits(q, registry, workspace)
    <2>1. Fits(catalogue, registry, workspace) /\ catalogue \in CatalogueViews /\ catalogue.rev \in Nat
        BY <1>1 DEF LibraryInv, CopiesInv, Fits, CatalogueViews
    <2>2. visits \in Nat
        BY DEF LibraryInv, MetadataInv
    <2>3. value \in FactValues \cup Links
        BY DEF Links
    <2> QED
        BY <2>1, <2>2, <2>3 DEF RequestFits
<1> HIDE DEF q
<1>6. RequestInv'
    BY <1>1, <1>5 DEF RequestInv
<1> QED
    BY <1>1, <1>2, <1>4, <1>6, Stays DEF LibraryInv

\* What the buttons of the page send.
LEMMA MutatingSteps ==
    ASSUME LibraryInv,
           SaveEdit \/ Revert \/ ConfirmMatch \/ Unlink \/ RefreshSources \/ \E r \in References : CreateReference(r)
    PROVE  LibraryInv'
<1> USE DEF Links
<1>1. OnPage
    BY DEF SaveEdit, Revert, ConfirmMatch, Unlink, RefreshSources, CreateReference
<1>2. metadata \in MetadataPages
    BY <1>1 DEF LibraryInv, MetadataInv, OnPage
<1>3. metadata.edit \in Targets \cup {Nil} /\ metadata.selected \in Targets \cup {Nil} /\ metadata.matchId \in Links
    BY <1>2 DEF MetadataPages
<1>4. CASE SaveEdit
    BY <1>3, <1>4, MutateStep DEF SaveEdit
<1>5. CASE Revert
    BY <1>3, <1>5, MutateStep DEF Revert
<1>6. CASE ConfirmMatch
    BY <1>3, <1>6, MutateStep DEF ConfirmMatch
<1>7. CASE Unlink
    BY <1>3, <1>7, MutateStep DEF Unlink
<1>8. CASE RefreshSources
    BY <1>8, MutateStep DEF RefreshSources
<1>9. CASE \E r \in References : CreateReference(r)
    <2>1. PICK r \in References : CreateReference(r)
        BY <1>9
    <2> QED
        BY <2>1, MutateStep DEF CreateReference, Targets
<1> QED
    BY <1>4, <1>5, <1>6, <1>7, <1>8, <1>9

LEMMA ReloadRevisionStep == LibraryInv /\ ReloadRevision => LibraryInv'
<1> SUFFICES ASSUME LibraryInv, ReloadRevision PROVE LibraryInv'
    OBVIOUS
<1>1. /\ UNCHANGED <<registry, workspace, gets, opened, visits, request>> /\ metadata # Nil
      /\ catalogue' = CatalogueOf(registry) /\ metadata' = [metadata EXCEPT !.says = "nothing"]
    BY DEF ReloadRevision
<1>2. Step(registry, registry', workspace, workspace') /\ FileInv'
    BY <1>1, Standing
<1>3. registry \in FileStates /\ WorkspaceFits(workspace, registry)
    BY DEF LibraryInv, FileInv, FileStates, CopiesInv
<1>4. Fits(CatalogueOf(registry), registry, workspace)
    BY <1>3, FitsNew
<1>5. CopiesInv'
    BY <1>1, <1>4 DEF LibraryInv, CopiesInv
<1>6. metadata' \in MetadataPages
    <2>1. metadata \in MetadataPages
        BY <1>1 DEF LibraryInv, MetadataInv
    <2> QED
        BY <1>1, <2>1 DEF MetadataPages
<1>7. MetadataInv'
    BY <1>1, <1>6 DEF LibraryInv, MetadataInv
<1> QED
    BY <1>1, <1>2, <1>5, <1>7, Stays DEF LibraryInv

\* What a request makes of the catalogue is a catalogue, with the correction asked.
LEMMA MadeIsTyped ==
    ASSUME NEW cat \in Catalogues, \A a \in Accesses \ cat.listed : cat.link[a] = Nil,
           NEW f, NEW w, NEW q, RequestFits(q, f, w), NEW made \in Made(cat, q)
    PROVE  /\ made \in Catalogues
           /\ \A a \in Accesses \ made.listed : made.link[a] = Nil
           /\ q.kind = "override" => made.own[q.target] = q.value
<1>0. cat.listed \subseteq Accesses /\ cat.refs \subseteq References /\ cat.link \in [Accesses -> Links]
    BY DEF Catalogues
<1>1. CASE q.kind = "override"
    <2>1. made = [cat EXCEPT !.own[q.target] = q.value] /\ q.target \in Targets
        BY <1>0, <1>1 DEF Made, Targets
    <2>2. q.value \in FactValues \cup {Nil}
        BY <1>1 DEF RequestFits
    <2>3. /\ made \in Catalogues /\ made.listed = cat.listed /\ made.link = cat.link
          /\ made.own[q.target] = q.value
        BY <2>1, <2>2 DEF Catalogues
    <2> QED
        BY <2>3
<1>2. CASE q.kind = "match"
    <2>1. /\ made = [cat EXCEPT !.link[q.target] = q.value, !.chosen = @ \cup {q.target}]
          /\ q.target \in cat.listed /\ q.target \in Accesses
        BY <1>0, <1>2 DEF Made
    <2>2. q.value \in Links
        BY <1>2 DEF RequestFits
    <2>3. made \in Catalogues /\ made.listed = cat.listed /\ made.link = [cat.link EXCEPT ![q.target] = q.value]
        BY <2>1, <2>2 DEF Catalogues
    <2> QED
        BY <1>0, <1>2, <2>1, <2>3
<1>3. CASE q.kind = "reference"
    <2>1. made = [cat EXCEPT !.refs = @ \cup {q.target}]
        BY <1>3 DEF Made
    <2>2. q.target \in References
        BY <1>3 DEF RequestFits
    <2>3. made \in Catalogues /\ made.listed = cat.listed /\ made.link = cat.link
        BY <2>1, <2>2 DEF Catalogues
    <2> QED
        BY <1>3, <2>3
<1>4. CASE q.kind = "refresh"
    <2>1. CASE made = cat
        BY <1>4, <2>1
    <2>2. CASE made # cat
        <3>1. PICK a \in {b \in cat.listed \ cat.chosen : cat.link[b] = Nil} : \E r \in cat.refs :
                  made = [cat EXCEPT !.link[a] = r]
            BY <1>4, <2>2 DEF Made
        <3>2. PICK r \in cat.refs : made = [cat EXCEPT !.link[a] = r]
            BY <3>1
        <3>3. a \in Accesses /\ a \in cat.listed /\ r \in Links
            BY <1>0, <3>1 DEF Links
        <3>4. made \in Catalogues /\ made.listed = cat.listed /\ made.link = [cat.link EXCEPT ![a] = r]
            BY <3>2, <3>3 DEF Catalogues
        <3> QED
            BY <1>0, <1>4, <3>3, <3>4
    <2> QED
        BY <2>1, <2>2
<1> QED
    BY <1>1, <1>2, <1>3, <1>4 DEF RequestFits

\* The server's answer is the catalogue of the file it leaves.
LEMMA AnsweredFits ==
    ASSUME LibraryInv, Step(registry, registry', workspace, workspace'), request # Nil,
           NEW state \in {"done", "conflict", "refused"}, Answered(state),
           state = "done" /\ request.kind = "override" => registry'.cat.own[request.target] = request.value
    PROVE  RequestInv'
<1>1. RequestFits(request, registry', workspace')
    BY RequestKept DEF LibraryInv, RequestInv
<1>2. registry' \in FileStates /\ WorkspaceFits(workspace', registry')
    BY WorkspaceKept DEF Step
<1>3. Fits(CatalogueOf(registry'), registry', workspace') /\ CatalogueOf(registry') \in CatalogueViews
    BY <1>2, FitsNew, CopiesAreTyped
<1>4. CatalogueOf(registry').own = registry'.cat.own
    BY DEF CatalogueOf
<1> DEFINE q == [request EXCEPT !.state = state, !.snap = CatalogueOf(registry')]
<1>5. /\ q \in [kind : {"override", "match", "reference", "refresh"}, target : Targets \cup {Nil},
                value : FactValues \cup Links, rev : Nat, shown : CatalogueViews,
                state : {"asked", "done", "conflict", "refused"}, snap : CatalogueViews \cup {Nil}, from : Nat]
      /\ q.kind = request.kind /\ q.target = request.target /\ q.value = request.value
      /\ q.rev = request.rev /\ q.shown = request.shown /\ q.state = state /\ q.snap = CatalogueOf(registry')
    BY <1>1, <1>3 DEF RequestFits
<1> HIDE DEF q
<1>6. RequestFits(q, registry', workspace')
    BY <1>1, <1>3, <1>4, <1>5 DEF RequestFits
<1> QED
    BY <1>6 DEF RequestInv, Answered, q

LEMMA ServeStep == LibraryInv /\ Serve => LibraryInv'
<1> SUFFICES ASSUME LibraryInv, Serve PROVE LibraryInv'
    OBVIOUS
<1>1. UNCHANGED <<workspace, catalogue, gets, opened, metadata, visits>> /\ request # Nil
    BY DEF Serve
<1>2. ASSUME UNCHANGED registry, NEW state \in {"conflict", "refused"}, Answered(state) PROVE LibraryInv'
    <2>1. Step(registry, registry', workspace, workspace') /\ FileInv'
        BY <1>1, <1>2, Standing
    <2>2. RequestInv'
        BY <1>1, <1>2, <2>1, AnsweredFits
    <2> QED
        BY <1>1, <2>1, <2>2, Stays DEF LibraryInv
<1>3. ASSUME NEW cat \in Made(registry.cat, request), Changed(registry.cards, cat), Answered("done")
      PROVE  LibraryInv'
    <2>1. registry.cards \in [Ids -> SUBSET Accesses] /\ registry.cat \in Catalogues
        BY DEF LibraryInv, FileInv
    <2>2. RequestFits(request, registry, workspace)
        BY <1>1 DEF LibraryInv, RequestInv
    <2>3. /\ cat \in Catalogues /\ \A a \in Accesses \ cat.listed : cat.link[a] = Nil
          /\ request.kind = "override" => cat.own[request.target] = request.value
        BY <2>1, <2>2, MadeIsTyped DEF LibraryInv, FileInv
    <2>4. Step(registry, registry', workspace, workspace') /\ FileInv'
        BY <1>1, <1>3, <2>1, <2>3, FileChanges
    <2>5. registry'.cat = cat
        BY <1>3 DEF Changed
    <2>6. RequestInv'
        BY <1>1, <1>3, <2>3, <2>4, <2>5, AnsweredFits
    <2> QED
        BY <1>1, <2>4, <2>6, Stays DEF LibraryInv
<1> QED
    BY <1>2, <1>3 DEF Serve

\* What is left on the page after its answer.
LEMMA PagesAfterAnswer ==
    ASSUME NEW f, NEW w, NEW q, RequestFits(q, f, w), metadata \in MetadataPages
    PROVE  /\ Finished(q) \in MetadataPages
           /\ \A says \in {"conflict", "error"} : Refused(says) \in MetadataPages
<1>1. Quiet \in MetadataPages
    BY DEF Quiet, MetadataPages
<1>2. [Quiet EXCEPT !.edit = Nil, !.typed = Nil] \in MetadataPages
    BY <1>1 DEF MetadataPages
<1>3. [Quiet EXCEPT !.matchId = Nil] \in MetadataPages
    BY <1>1 DEF MetadataPages, Links
<1>4. [Quiet EXCEPT !.selected = q.target] \in MetadataPages
    BY <1>1 DEF MetadataPages, RequestFits
<1>5. Finished(q) \in MetadataPages
    BY <1>1, <1>2, <1>3, <1>4 DEF Finished
<1>6. \A says \in {"conflict", "error"} : Refused(says) \in MetadataPages
    BY DEF Refused, MetadataPages
<1> QED
    BY <1>5, <1>6

LEMMA MutationDoneStep == LibraryInv /\ MutationDone => LibraryInv'
<1> SUFFICES ASSUME LibraryInv, MutationDone PROVE LibraryInv'
    OBVIOUS
<1>1. /\ UNCHANGED <<registry, workspace, gets, opened, visits>>
      /\ request # Nil /\ request.state = "done" /\ catalogue' = request.snap /\ request' = Nil
      /\ metadata' = IF Mine THEN Finished(request) ELSE metadata
    BY DEF MutationDone
<1>2. Step(registry, registry', workspace, workspace') /\ FileInv'
    BY <1>1, Standing
<1>3. RequestFits(request, registry, workspace)
    BY <1>1 DEF LibraryInv, RequestInv
<1>4. CopiesInv'
    BY <1>1, <1>3 DEF LibraryInv, CopiesInv, RequestFits
<1>5. MetadataInv'
    BY <1>1, <1>3, PagesAfterAnswer DEF LibraryInv, MetadataInv, Mine
<1>6. RequestInv'
    BY <1>1 DEF RequestInv
<1> QED
    BY <1>1, <1>2, <1>4, <1>5, <1>6, Stays DEF LibraryInv

LEMMA MutationFailedStep == LibraryInv /\ (MutationRefused \/ MutationLost) => LibraryInv'
<1> SUFFICES ASSUME LibraryInv, MutationRefused \/ MutationLost PROVE LibraryInv'
    OBVIOUS
<1>1. UNCHANGED <<registry, workspace, catalogue, gets, opened, visits>> /\ request # Nil /\ request' = Nil
    BY DEF MutationRefused, MutationLost
<1>2. Step(registry, registry', workspace, workspace') /\ FileInv'
    BY <1>1, Standing
<1>3. RequestFits(request, registry, workspace)
    BY <1>1 DEF LibraryInv, RequestInv
<1>4. \/ metadata' = metadata
      \/ Mine /\ \E says \in {"conflict", "error"} : metadata' = Refused(says)
    BY DEF MutationRefused, MutationLost
<1>5. MetadataInv'
    BY <1>1, <1>3, <1>4, PagesAfterAnswer DEF LibraryInv, MetadataInv, Mine
<1>6. RequestInv'
    BY <1>1 DEF RequestInv
<1> QED
    BY <1>1, <1>2, <1>5, <1>6, Stays DEF LibraryInv

LEMMA LibraryInitInv == LibraryInit => LibraryInv
<1> SUFFICES ASSUME LibraryInit PROVE LibraryInv
    OBVIOUS
<1>1. PICK f \in RegistryFiles : registry = [rev |-> 0, cards |-> f.cards, cat |-> f.cat]
    BY DEF LibraryInit
<1>2. registry \in FileStates /\ FileInv
    BY <1>1, CatalogPagesAssumption DEF FileInv, FileStates
<1>3. WorkspaceFits(workspace, registry)
    <2>1. workspace = WorkspaceOf(registry) /\ registry.rev \in Nat
        BY <1>2 DEF LibraryInit, FileStates
    <2> QED
        BY <1>2, <2>1, CopiesAreTyped DEF WorkspaceFits
<1>4. CopiesInv
    BY <1>3 DEF LibraryInit, CopiesInv
<1>5. OpenedInv
    BY DEF LibraryInit, OpenedInv, OpenedFits, Nothing
<1>6. RequestInv /\ MetadataInv
    BY DEF LibraryInit, RequestInv, MetadataInv
<1> QED
    BY <1>2, <1>4, <1>5, <1>6 DEF LibraryInv

LEMMA LibraryNextInv == LibraryInv /\ [LibraryNext]_libraryVars => LibraryInv'
<1> SUFFICES ASSUME LibraryInv, [LibraryNext]_libraryVars PROVE LibraryInv'
    OBVIOUS
<1>1. CASE UNCHANGED libraryVars
    <2>1. UNCHANGED <<registry, workspace, catalogue, gets, opened, metadata, visits, request>>
        BY <1>1 DEF libraryVars
    <2>2. Step(registry, registry', workspace, workspace') /\ FileInv'
        BY <2>1, Standing
    <2> QED
        BY <2>1, <2>2, Stays DEF LibraryInv
<1>2. CASE Library
    BY <1>2, OpenTileStep, PickStep, ChooseStep, OpenAloneStep, CloseLibraryStep, SaveDraftStep, JoinStep,
       AssociateStep DEF Library
<1>3. CASE Metadata
    <2>1. ASSUME NEW t \in Looked \cup {Nil}, OpenPage(t) PROVE LibraryInv'
        BY <2>1, OpenPageStep, CatalogueIsTyped DEF OpenPage
    <2> QED
        BY <1>3, <2>1, LeavePageStep, SwitchModeStep, SelectStep, SelectLinkedStep, ChooseMatchStep, BeginEditStep,
           TypeStep, CancelEditStep, MutatingSteps, ReloadRevisionStep DEF Metadata
<1>4. CASE Network
    BY <1>4, LoadWorkspaceStep, CatalogueReadStep, CatalogueArrivesStep, CatalogueFailsStep, ServeStep,
       MutationDoneStep, MutationFailedStep DEF Network
<1>5. CASE Elsewhere
    BY <1>5, LinkedElsewhereStep, CorrectedElsewhereStep DEF Elsewhere, Targets
<1> QED
    BY <1>1, <1>2, <1>3, <1>4, <1>5 DEF LibraryNext

\* The panel's copies of the registry file are of revisions it had, and agree where they have the
\* same; what is open was made of such copies, and so is what is sent.
THEOREM LibraryInvariant == LibrarySpec => []LibraryInv
BY LibraryInitInv, LibraryNextInv, PTL DEF LibrarySpec

-----------------------------------------------------------------------------
(* The shelf of models to add.                                             *)

\* Each discovered access is on as many tiles as it should.
LEMMA OnOneTile == LibraryInv => EveryAccessOnce
<1> SUFFICES ASSUME NEW i \in Ids, NEW a \in Discovered[i]
             PROVE  Cardinality({g \in ToAddTiles : a \in AccessesOf(g)}) = IF a \in Held(workspace) THEN 0 ELSE 1
    BY DEF EveryAccessOnce
<1> DEFINE entries == Entries(ToAdd(workspace))
           e == [id |-> i, access |-> a]
           K == {x \in entries : KeyOf(workspace, catalogue, x) = KeyOf(workspace, catalogue, e)}
           S == {g \in ToAddTiles : a \in AccessesOf(g)}
<1>1. ASSUME NEW g \in S
      PROVE  \E x \in g : x = e /\ x \in entries /\ a \notin Held(workspace)
    <2>1. PICK x \in g : x.access = a
        BY DEF AccessesOf
    <2>2. x \in entries
        BY TileOfKey DEF ToAddTiles
    <2>3. x.id \in Ids /\ a \in Discovered[x.id] /\ a \notin Held(workspace)
        BY <2>1, <2>2, ToAddIsFree
    <2>4. x.id = i
        BY <2>3, LibraryAssumption
    <2>5. x = [id |-> x.id, access |-> x.access]
        <3>1. PICK j \in Ids : \E b \in ToAdd(workspace)[j] : x = [id |-> j, access |-> b]
            BY <2>2, EntryOf
        <3> QED
            BY <3>1
    <2> QED
        BY <2>1, <2>2, <2>3, <2>4, <2>5
<1>2. CASE a \in Held(workspace)
    <2>1. S = {}
        BY <1>1, <1>2
    <2> QED
        BY <1>2, <2>1, FS_EmptySet
<1>3. CASE a \notin Held(workspace)
    <2>1. a \in ToAdd(workspace)[i]
        BY <1>3 DEF ToAdd
    <2>2. e \in entries
        BY <2>1, EntryOf
    <2>3. K \in ToAddTiles
        BY <2>2, TileOfEntry DEF ToAddTiles
    <2>4. a \in AccessesOf(K)
        BY <2>2 DEF AccessesOf
    <2>5. \A g \in S : g = K
        BY <1>1, TileOfKey DEF ToAddTiles
    <2>6. S = {K}
        BY <2>3, <2>4, <2>5
    <2> HIDE DEF K, S
    <2>7. Cardinality(S) = 1
        BY <2>6, FS_Singleton
    <2> QED
        BY <1>3, <2>7 DEF S
<1> QED
    BY <1>2, <1>3

\* A catalogue of the revision of the cards gives every entry the key it had without it.
LEMMA SameKeys ==
    ASSUME LibraryInv, catalogue # Nil, catalogue.rev = workspace.rev, NEW e \in Entries(ToAdd(workspace))
    PROVE  KeyOf(workspace, catalogue, e) = KeyOf(workspace, Nil, e)
<1>1. workspace \in Workspaces /\ catalogue \in CatalogueViews /\ workspace.link = LinksOf(catalogue)
    BY DEF LibraryInv, CopiesInv, WorkspaceFits, Fits
<1>2. e.access \in Accesses
    BY ToAddIsFree
<1>3. ReferenceOf(workspace, catalogue, e.access) = ReferenceOf(workspace, Nil, e.access)
    BY <1>1, <1>2, ReferencesAreLinks
<1> QED
    BY <1>3 DEF KeyOf

LEMMA TilesStay == LibraryInv => TilesStayPut
<1> SUFFICES ASSUME LibraryInv, catalogue # Nil, catalogue.rev = workspace.rev
             PROVE  ToAddTiles = Tiles(Entries(ToAdd(workspace)), workspace, Nil)
    BY OnOneTile DEF TilesStayPut
<1> DEFINE entries == Entries(ToAdd(workspace))
<1>1. \A e \in entries : KeyOf(workspace, catalogue, e) = KeyOf(workspace, Nil, e)
    BY SameKeys
<1>2. {KeyOf(workspace, catalogue, e) : e \in entries} = {KeyOf(workspace, Nil, e) : e \in entries}
    BY <1>1
<1>3. \A k : {e \in entries : KeyOf(workspace, catalogue, e) = k} = {e \in entries : KeyOf(workspace, Nil, e) = k}
    BY <1>1
<1> HIDE DEF entries
<1>4. Tiles(entries, workspace, catalogue) = Tiles(entries, workspace, Nil)
    BY <1>2, <1>3 DEF Tiles
<1> QED
    BY <1>4 DEF entries, ToAddTiles

\* What joins a card to a tile's group is an access of the tile: the rest of the group is held.
LEMMA OffersJoin == LibraryInv => JoinableOffers
<1> SUFFICES ASSUME LibraryInv, NEW tile \in ToAddTiles,
                    NEW i \in Joinable(Complete(tile, workspace, catalogue), workspace, catalogue)
             PROVE  AlsoAvailable(i, workspace, catalogue) \cap AccessesOf(tile) # {}
    BY DEF JoinableOffers
<1> DEFINE g == Complete(tile, workspace, catalogue)
<1>1. i \in Ids /\ Offered(i, workspace, catalogue) \cap AccessesOf(Available(g, workspace)) # {}
    BY DEF Joinable, Holding
<1>2. PICK e \in Available(g, workspace) : e.access \in Offered(i, workspace, catalogue)
    BY <1>1 DEF AccessesOf
<1>3. e \in g /\ e.access \notin workspace.cards[e.id]
    BY <1>2 DEF Available
<1>4. workspace \in Workspaces
    BY DEF LibraryInv, CopiesInv, WorkspaceFits
<1>5. e \in Entries(ToAdd(workspace))
    BY <1>3, <1>4, CompleteGroup, KnownEntry DEF ToAddTiles
<1>6. e \in tile
    BY <1>3, <1>5, CompleteGroup DEF ToAddTiles
<1>7. e.access \notin workspace.cards[i]
    BY <1>1, <1>5, ToAddIsFree DEF Held
<1> QED
    BY <1>2, <1>6, <1>7 DEF AlsoAvailable, AccessesOf

\* TilesAreTrue: the tiles of To add hold each access once and stay when the catalogue arrives;
\* what a tile offers is what opening it does.
THEOREM ShelfIsTrue == LibrarySpec => []TilesAreTrue
<1>1. LibraryInv => DraftIsRegistrable
    BY DEF LibraryInv, OpenedInv, OpenedFits, Registrable, DraftIsRegistrable
<1>2. LibraryInv => TilesAreTrue
    BY <1>1, TilesStay, OffersJoin DEF TilesAreTrue, OfferIsKept
<1> QED
    BY <1>2, LibraryInvariant, PTL

-----------------------------------------------------------------------------
(* What changes the catalogue.                                             *)

\* A save of cards is made of the file's own revision.
LEMMA SavedFromFile ==
    ASSUME LibraryInv, NEW i, NEW accesses, NEW ref, SaveCard(i, accesses, ref)
    PROVE  /\ workspace = WorkspaceOf(registry)
           /\ registry'.cat = Relinked(registry.cat, ref)
           /\ registry'.cards = [registry.cards EXCEPT ![i] = accesses]
           /\ opened' = Nothing /\ UNCHANGED <<request, catalogue>>
BY DEF LibraryInv, CopiesInv, WorkspaceFits, SaveCard, Changed, metadataVars

\* Only a save of cards changes the file and the panel's cards in one step.
LEMMA SavesOfCards ==
    ASSUME LibraryNext, registry' # registry, opened' # opened \/ workspace' # workspace
    PROVE  \/ SaveDraft
           \/ \E a \in Accesses : Join(a)
           \/ \E i \in Ids, r \in References : Associate(i, r)
<1>1. ASSUME Network PROVE FALSE
    BY <1>1 DEF Network, LoadWorkspace, CatalogueRead, CatalogueArrives, CatalogueFails, Serve, MutationDone,
       MutationRefused, MutationLost
<1>2. ASSUME Elsewhere PROVE FALSE
    BY <1>2 DEF Elsewhere, LinkedElsewhere, CorrectedElsewhere
<1>3. ASSUME Metadata PROVE FALSE
    BY <1>3 DEF Metadata, OpenPage, LeavePage, SwitchMode, Select, SelectLinked, Inspect, ChooseMatch, BeginEdit,
       Type, CancelEdit, SaveEdit, Revert, ConfirmMatch, Unlink, CreateReference, RefreshSources, Mutate,
       ReloadRevision, Turn
<1>4. ASSUME Library
      PROVE  SaveDraft \/ (\E a \in Accesses : Join(a)) \/ \E i \in Ids, r \in References : Associate(i, r)
    BY <1>4 DEF Library, OpenTile, Pick, Choose, OpenAlone, CloseLibrary, Show
<1> QED
    BY <1>1, <1>2, <1>3, <1>4 DEF LibraryNext

\* A draft with no reference but the file's links nothing anew.
LEMMA NothingRelinked ==
    ASSUME NEW cat \in Catalogues, NEW ref, \A a \in Accesses : ref[a] \in {Nil, LinksOf(cat)[a]}
    PROVE  Relinked(cat, ref) = cat
<1> DEFINE new == {a \in Accesses : ref[a] # Nil /\ (a \notin cat.listed \/ ref[a] # cat.link[a])}
<1>1. new = {}
    BY DEF LinksOf
<1>2. [a \in Accesses |-> IF a \in new THEN ref[a] ELSE cat.link[a]] = cat.link
    BY <1>1 DEF Catalogues
<1>3. Relinked(cat, ref) = [cat EXCEPT !.link = [a \in Accesses |-> IF a \in new THEN ref[a] ELSE cat.link[a]],
            !.chosen = @ \cup new, !.listed = @ \cup new, !.configured = @ \cup (new \ cat.listed)]
    BY DEF Relinked
<1> HIDE DEF new
<1>4. /\ cat.chosen \cup new = cat.chosen /\ cat.listed \cup new = cat.listed
      /\ cat.configured \cup (new \ cat.listed) = cat.configured
    BY <1>1
<1>5. Relinked(cat, ref) = [cat EXCEPT !.link = cat.link, !.chosen = cat.chosen, !.listed = cat.listed,
                                       !.configured = cat.configured]
    BY <1>2, <1>3, <1>4
<1> QED
    BY <1>5 DEF Catalogues

LEMMA RegisteringStep == LibraryInv /\ LibraryNext => RegisteringKeepsLinks
<1> SUFFICES ASSUME LibraryInv, LibraryNext, opened.shows = "draft", opened # opened', registry' # registry,
                    opened.fresh, opened.rev = registry.rev
             PROVE  registry'.cat = registry.cat
    BY DEF RegisteringKeepsLinks
<1>0. opened # Nothing
    BY DEF Nothing
<1>1. SaveDraft
    BY <1>0, SavesOfCards DEF Join, Associate, Browsing
<1>2. registry'.cat = Relinked(registry.cat, opened.draft.ref)
    BY <1>1 DEF SaveDraft, SaveCard, Changed
<1>3. \A a \in Accesses : opened.draft.ref[a] \in {Nil, LinksOf(registry.cat)[a]}
    BY DEF LibraryInv, OpenedInv, OpenedFits
<1> QED
    BY <1>2, <1>3, NothingRelinked DEF LibraryInv, FileInv

LEMMA AssociatingStep == LibraryInv /\ LibraryNext => AssociationIsExact
<1> SUFFICES ASSUME LibraryInv, LibraryNext, opened = Nothing, registry' # registry, workspace' # workspace
             PROVE  LET moved == {a \in Accesses : registry'.cat.link[a] # registry.cat.link[a]}
                    IN  /\ moved \in {registry.cards[i] : i \in Saved(registry)}
                        /\ Cardinality({registry'.cat.link[a] : a \in moved}) = 1
                        /\ registry'.cat.chosen = registry.cat.chosen \cup moved
                        /\ registry'.cards = registry.cards
    BY DEF AssociationIsExact
<1>1. PICK i \in Ids, r \in References : Associate(i, r)
    BY SavesOfCards DEF SaveDraft, Join, Nothing
<1>2. SaveCard(i, workspace.cards[i], Associated(i, r)) /\ Associable(i)
    BY <1>1 DEF Associate
<1>3. /\ workspace = WorkspaceOf(registry) /\ registry'.cat = Relinked(registry.cat, Associated(i, r))
      /\ registry'.cards = [registry.cards EXCEPT ![i] = workspace.cards[i]]
    BY <1>2, SavedFromFile
<1>4. registry \in FileStates /\ registry.cat \in Catalogues /\ registry.cards \in [Ids -> SUBSET Accesses]
    BY DEF LibraryInv, FileInv, FileStates
<1>5. workspace.cards = registry.cards /\ workspace.link = LinksOf(registry.cat)
    BY <1>3, <1>4, SameLinks DEF WorkspaceOf
<1> DEFINE held == registry.cards[i]
           cat == registry.cat
           ref == Associated(i, r)
           new == {a \in Accesses : ref[a] # Nil /\ (a \notin cat.listed \/ ref[a] # cat.link[a])}
           moved == {a \in Accesses : registry'.cat.link[a] # registry.cat.link[a]}
<1>6. held \subseteq Accesses /\ i \in Saved(registry) /\ held # {}
    BY <1>2, <1>4, <1>5 DEF Associable, Saved
<1>7. \A a \in held : cat.link[a] = Nil
    BY <1>2, <1>5, <1>6 DEF Associable, LinksOf, LibraryInv, FileInv
<1>8. r # Nil /\ \A a \in Accesses : ref[a] = IF a \in held THEN r ELSE Nil
    BY <1>5, LibraryAssumption DEF Associated
<1>9. new = held
    BY <1>6, <1>7, <1>8
<1>10. /\ registry'.cat.link = [a \in Accesses |-> IF a \in new THEN ref[a] ELSE cat.link[a]]
       /\ registry'.cat.chosen = cat.chosen \cup new
    BY <1>3, <1>4 DEF Relinked, Catalogues
<1>11. \A a \in Accesses : registry'.cat.link[a] = IF a \in held THEN r ELSE cat.link[a]
    BY <1>8, <1>9, <1>10
<1>12. moved = held
    BY <1>6, <1>7, <1>8, <1>11
<1>13. {registry'.cat.link[a] : a \in moved} = {r}
    BY <1>6, <1>11, <1>12
<1>14. Cardinality({registry'.cat.link[a] : a \in moved}) = 1
    BY <1>13, FS_Singleton
<1>15. registry'.cards = registry.cards
    BY <1>3, <1>4, <1>5
<1>16. held \in {registry.cards[j] : j \in Saved(registry)}
    BY <1>6
<1>17. registry'.cat.chosen = cat.chosen \cup moved
    BY <1>9, <1>10, <1>12
<1>18. moved \in {registry.cards[j] : j \in Saved(registry)}
    BY <1>12, <1>16
<1> HIDE DEF held, ref, new
<1> QED
    BY <1>14, <1>15, <1>17, <1>18

\* A request is answered as done only if it was made from the file as it is.
LEMMA ChangingStep ==
    ASSUME LibraryInv, LibraryNext, request # Nil, request' # request, registry' # registry
    PROVE  request.shown = CatalogueOf(registry)
<1>1. Serve
    <2>1. ASSUME Library PROVE FALSE
        BY <2>1, SavedFromFile DEF Library, OpenTile, Pick, Choose, OpenAlone, CloseLibrary, Show, metadataVars,
           SaveDraft, Join, Associate
    <2>2. ASSUME Elsewhere PROVE FALSE
        BY <2>2 DEF Elsewhere, LinkedElsewhere, CorrectedElsewhere, metadataVars
    <2>3. ASSUME Metadata PROVE FALSE
        BY <2>3 DEF Metadata, OpenPage, LeavePage, SwitchMode, Select, SelectLinked, Inspect, ChooseMatch,
           BeginEdit, Type, CancelEdit, SaveEdit, Revert, ConfirmMatch, Unlink, CreateReference, RefreshSources,
           Mutate, ReloadRevision, Turn
    <2>4. ASSUME Network PROVE Serve
        BY <2>4 DEF Network, LoadWorkspace, CatalogueRead, CatalogueArrives, CatalogueFails, MutationDone,
           MutationRefused, MutationLost
    <2> QED
        BY <2>1, <2>2, <2>3, <2>4 DEF LibraryNext
<1>2. InTime(request)
    BY <1>1 DEF Serve
<1>3. Fits(request.shown, registry, workspace) /\ request.rev = request.shown.rev
    BY DEF LibraryInv, RequestInv, RequestFits
<1> QED
    BY <1>2, <1>3 DEF InTime, Fits

\* What an answer leaves in the form.
LEMMA FormAfterAnswer ==
    ASSUME metadata \in MetadataPages, metadata.edit # Nil, NEW q
    PROVE  /\ \/ Finished(q).edit = metadata.edit /\ Finished(q).typed = metadata.typed
              \/ q.kind = "override" /\ q.target = metadata.edit
           /\ \A says : Refused(says).edit = metadata.edit /\ Refused(says).typed = metadata.typed
<1>1. /\ Quiet.edit = metadata.edit /\ Quiet.typed = metadata.typed
      /\ Quiet = [metadata EXCEPT !.busy = FALSE, !.says = "nothing"] /\ Quiet \in MetadataPages
    BY DEF Quiet, MetadataPages
<1>2. CASE q.kind = "override" /\ q.target = metadata.edit
    BY <1>2 DEF Refused, MetadataPages
<1>3. CASE ~(q.kind = "override" /\ q.target = metadata.edit)
    <2>1. Finished(q) \in {[Quiet EXCEPT !.matchId = Nil], [Quiet EXCEPT !.selected = q.target], Quiet}
        BY <1>3 DEF Finished
    <2>2. Finished(q).edit = Quiet.edit /\ Finished(q).typed = Quiet.typed
        BY <1>1, <2>1 DEF MetadataPages
    <2> QED
        BY <1>1, <2>2 DEF Refused, MetadataPages
<1> QED
    BY <1>2, <1>3

LEMMA CorrectingStep ==
    ASSUME LibraryInv, LibraryNext, metadata # Nil, request' # request \/ catalogue' # catalogue,
           metadata.edit # Nil
    PROVE  \/ metadata'.edit = metadata.edit /\ metadata'.typed = metadata.typed
           \/ request.state = "done" /\ catalogue'.own[metadata.edit] = request.value
<1>0. metadata \in MetadataPages
    BY DEF LibraryInv, MetadataInv
<1>1. CASE UNCHANGED metadata
    BY <1>1
<1>2. CASE MutationDone
    <2>1. /\ request # Nil /\ request.state = "done" /\ catalogue' = request.snap
          /\ metadata' = IF Mine THEN Finished(request) ELSE metadata
        BY <1>2 DEF MutationDone
    <2>2. request.kind = "override" => request.snap.own[request.target] = request.value
        BY <2>1 DEF LibraryInv, RequestInv, RequestFits
    <2> QED
        BY <1>0, <2>1, <2>2, FormAfterAnswer
<1>3. CASE MutationRefused \/ MutationLost
    <2>1. metadata' = metadata \/ \E says \in {"conflict", "error"} : metadata' = Refused(says)
        BY <1>3 DEF MutationRefused, MutationLost
    <2> QED
        BY <1>0, <2>1, FormAfterAnswer
<1>4. CASE ReloadRevision
    BY <1>0, <1>4 DEF ReloadRevision, MetadataPages
<1>5. ASSUME NEW kind, NEW target, NEW value, Mutate(kind, target, value)
      PROVE  metadata'.edit = metadata.edit /\ metadata'.typed = metadata.typed
    BY <1>0, <1>5 DEF Mutate, MetadataPages
<1>6. CASE Network
    BY <1>1, <1>2, <1>3, <1>6 DEF Network, LoadWorkspace, CatalogueRead, CatalogueArrives, CatalogueFails, Serve,
       metadataVars
<1>7. CASE Elsewhere
    BY <1>1, <1>7 DEF Elsewhere, LinkedElsewhere, CorrectedElsewhere, metadataVars
<1>8. CASE Library
    BY <1>1, <1>8 DEF Library, OpenTile, Pick, Choose, OpenAlone, CloseLibrary, Show, SaveDraft, Join, Associate,
       SaveCard, metadataVars
<1>9. CASE Metadata
    <2>1. CASE SaveEdit \/ Revert \/ ConfirmMatch \/ Unlink \/ RefreshSources \/ \E r \in References : CreateReference(r)
        BY <1>5, <2>1 DEF SaveEdit, Revert, ConfirmMatch, Unlink, RefreshSources, CreateReference
    <2>2. ASSUME NEW t, OpenPage(t) PROVE FALSE
        BY <2>2 DEF OpenPage
    <2>3. ASSUME UNCHANGED <<request, catalogue>> PROVE FALSE
        BY <2>3
    <2> QED
        BY <1>4, <1>9, <2>1, <2>2, <2>3 DEF Metadata, LeavePage, SwitchMode, Select, SelectLinked, Inspect,
           ChooseMatch, BeginEdit, Type, CancelEdit, Turn
<1> QED
    BY <1>6, <1>7, <1>8, <1>9 DEF LibraryNext

\* LibraryChangesAreChosen: a save of the library changes the links its operator asked to change;
\* the catalogue is changed from what was shown; a correction being typed outlives all but its own
\* success.
THEOREM ChangesAreChosen == LibrarySpec => LibraryChangesAreChosen
<1>1. LibraryInv /\ [LibraryNext]_libraryVars => [RegisteringKeepsLinks /\ AssociationIsExact]_libraryVars
    BY RegisteringStep, AssociatingStep
<1>2. LibraryInv /\ [LibraryNext]_libraryVars =>
        [request # Nil /\ request' # request /\ registry' # registry => request.shown = CatalogueOf(registry)]_libraryVars
    BY ChangingStep
<1>3. LibraryInv /\ [LibraryNext]_libraryVars =>
        [metadata # Nil /\ (request' # request \/ catalogue' # catalogue) =>
          IF metadata.edit = Nil THEN TRUE
          ELSE \/ metadata'.edit = metadata.edit /\ metadata'.typed = metadata.typed
               \/ request.state = "done" /\ catalogue'.own[metadata.edit] = request.value]_libraryVars
    BY CorrectingStep
<1>4. LibrarySpec => LinksChangeByChoice
    BY <1>1, LibraryInvariant, PTL DEF LibrarySpec, LinksChangeByChoice
<1>5. LibrarySpec => ChangesWhatWasShown
    BY <1>2, LibraryInvariant, PTL DEF LibrarySpec, ChangesWhatWasShown
<1>6. LibrarySpec => CorrectionIsKept
    BY <1>3, LibraryInvariant, PTL DEF LibrarySpec, CorrectionIsKept
<1> QED
    BY <1>4, <1>5, <1>6 DEF LibraryChangesAreChosen

=============================================================================
