------------------------------ MODULE PanelSession ------------------------------
(***************************************************************************)
(* One panel and its server, call by call (ui/src/app/App.tsx).            *)
(*                                                                         *)
(* The panel holds one answer of the server, a revision with the policies  *)
(* at that revision, and edits a draft of the key on its page.  Saves run  *)
(* one at a time under `operation`, in stages: the PUT, the refresh after  *)
(* a failed PUT, the readback of each changed key.  Reloads, the readback  *)
(* of a key whose page opens, and the refresh after an adoption run beside *)
(* it.  Other operators write to the server meanwhile; every answer is     *)
(* late, and any may be an error.                                          *)
(*                                                                         *)
(* A policy is opaque: what is in one is WorkspaceEdits'.  The outcome of  *)
(* a readback (its publication) is shown and decides nothing, so it is     *)
(* left out; snapshot mode, where keys are not read back, as well.         *)
(***************************************************************************)
EXTENDS Naturals, Sequences, SequencesExt, FiniteSets

CONSTANTS
    Keys, Policies,
    Native,      \* what the panel shows for a key Registry does not manage yet
    Gone,        \* what it shows for a key that is not in Bifrost
    Elsewhere,   \* any page that is not one key's
    None,
    FirstKeys,   \* what the server's keys may be when the panel opens
    FirstPages,  \* the pages it may open on
    Fresh,       \* the policy a created key is bound with
    Foreigns,    \* the changes others may make, pairs of a key and its new content
    MaxForeign,  \* bound on the changes others make
    MaxMoves,    \* bound on the operator's drafts, page changes and adoptions
    MaxActs      \* bound on the operations the operator starts

Contents == Policies \cup {Native, Gone}
Workspaces == [Keys -> Contents]
Pages == Keys \cup {Elsewhere}

ASSUME SessionAssumption ==
    /\ Native \notin Policies /\ Gone \notin Policies /\ Native # Gone
    /\ Elsewhere \notin Keys /\ None \notin Keys /\ None \notin Policies \cup {Native, Gone}
    /\ FirstKeys \subseteq Workspaces /\ FirstPages \subseteq Pages /\ Fresh \in Policies /\ Foreigns \subseteq Keys \X Contents
    /\ MaxForeign \in Nat /\ MaxMoves \in Nat /\ MaxActs \in Nat

VARIABLES
    log,      \* the server's workspaces, oldest first; a revision is an index
    held,     \* data and revision: the answer the panel shows; revision 0 is none
    page,
    draft,    \* the policy edited on the key's page, or None
    stash,    \* pendingKeyDraft: the draft kept while models are registered
    editing,  \* editingKey is the key of the page
    adopting, \* the key whose adoption dialog is open, or None
    op,       \* the operation under way (busyRef), or None
    calls,    \* the other calls in flight, by kind
    needs, blocked, \* needsReconcile, reconcileBlocked
    login, error,
    secret,   \* the key whose secret is displayed, or None
    asked,    \* history: the operator opened this key's composer or edited its draft
    doubt,    \* history: the revision an unconfirmed save met, until one as new is shown
    overtaken,\* history: a reload that ends the block was under way when that save was sent
    foreign, moves, acts

server == <<log, foreign>>
view == <<held, page, draft, stash, editing, asked>>
flags == <<needs, blocked>>
doubts == <<doubt, overtaken>>
bounds == <<moves, acts>>
vars == <<log, held, page, draft, stash, editing, adopting, op, calls, needs, blocked, login, error,
          secret, asked, doubt, overtaken, foreign, moves, acts>>

-----------------------------------------------------------------------------
(* Answers and calls.                                                      *)

Blank == [rev |-> 0, keys |-> [k \in Keys |-> Gone]]
Latest == [rev |-> Len(log), keys |-> Last(log)]

\* why: "ok", or why a call failed; "failed" also stands for an answer that never came.
Whys == {"ok", "unauthorized", "failed", "stale", "partial", "refused"}
Answer(why, ws) == [why |-> why, ws |-> ws]
Failures == {Answer("unauthorized", Blank), Answer("failed", Blank)}
\* What GET workspace and a readback may answer.
Reads == {Answer("ok", Latest)} \cup Failures

\* "load": load(); "signin"; "open": the readback when a key's page opens; "adopted": the refresh
\* after an adoption; "edited": the one after a permission was edited in the dialog.
Kinds == {"load", "signin", "open", "adopted", "edited"}
\* was: what reconcileBlocked was when the call was made; staged: the draft the adoption found.
Call(k, staged) == [of |-> k, staged |-> staged, was |-> blocked, answer |-> None]

\* The operation: the stage it is in, what it sends and the keys it reads back afterwards.
Operation(kind, k, stage, next, verify) ==
    [kind |-> kind, key |-> k, stage |-> stage, rev |-> held.rev, next |-> next, verify |-> verify,
     partial |-> FALSE, answer |-> None]
-----------------------------------------------------------------------------
(* What is on the page.                                                    *)

Current(h, pg) == IF pg \in Keys /\ h.keys[pg] # Gone THEN pg ELSE None
Key == Current(held, page)
ManagedAt(h, pg) == Current(h, pg) # None /\ h.keys[pg] # Native
Dirty == Key # None /\ draft # None /\ draft # held.keys[Key]
KeyEditing == Key # None /\ (editing \/ Dirty)
Ready == ~login /\ held.rev # 0
Busy == op # None

\* Mutant of Show: the draft follows the key's record instead of its id.
ShowRebased(h, pg, d, s, cs) ==
    LET now == Current(h, pg)
    IN  /\ held' = h /\ page' = pg /\ stash' = s
        /\ editing' = (editing /\ now = Key) /\ asked' = (asked /\ now = Key)
        /\ draft' = IF now = None THEN None ELSE IF h.keys[now] = held.keys[now] THEN d ELSE h.keys[now]
        /\ calls' = cs

\* Every change of what is shown runs the effects on [key?.id] and on the page that opened: a
\* handler leaves draft d, stash s and calls cs; another key resets the draft, and a managed key
\* whose page opens is read back (the readback of the page that closed is dropped).
Show(h, pg, d, s, cs) ==
    LET now == Current(h, pg)
        kept == s # None /\ now # None /\ s.key = now
        opened == <<pg, now, ManagedAt(h, pg)>> # <<page, Key, ManagedAt(held, page)>>
    IN  /\ held' = h /\ page' = pg
        /\ IF now = Key THEN draft' = d /\ stash' = s /\ UNCHANGED <<editing, asked>>
           ELSE /\ editing' = FALSE /\ asked' = kept
                /\ draft' = IF kept THEN s.policy ELSE IF now # None THEN h.keys[now]
                            ELSE IF s = None THEN None ELSE d
                /\ stash' = IF kept THEN None ELSE s
        /\ calls' = IF ~opened THEN cs
                    ELSE [cs EXCEPT !["open"] = IF ManagedAt(h, pg) THEN Call(pg, None) ELSE None]

\* doubt ends when a workspace as new as the uncertain save is shown.
Learn(ws) == IF ws.rev >= doubt THEN doubt' = 0 /\ overtaken' = FALSE ELSE UNCHANGED doubts

\* applyWorkspace
Apply(ws, d, cs) == Show(ws, page, d, stash, cs) /\ Learn(ws) /\ error' = FALSE
-----------------------------------------------------------------------------
(* The server, and other operators.                                        *)

Grows(keys) == log' = Append(log, keys)

Foreign(k, c) ==
    /\ foreign < MaxForeign /\ c # Last(log)[k]
    /\ foreign' = foreign + 1
    /\ Grows([Last(log) EXCEPT ![k] = c])
    /\ UNCHANGED <<view, adopting, op, calls, flags, login, error, secret, doubts, bounds>>

\* What a call leaves in the log and answers.
Outcome(w, why, ws) == [log |-> w, answer |-> Answer(why, ws)]
Unwritten(whys) == {Outcome(log, why, Blank) : why \in whys}
Written(keys) == [rev |-> Len(log) + 1, keys |-> keys]

\* Mutant of PutWorkspace: If-Match is not compared.
PutBlindly ==
    {Outcome(Append(log, op.next), "ok", Written(op.next))} \cup Unwritten({"unauthorized", "failed", "refused"})

\* A PUT writes at its revision or not at all; what follows the write (native keys, aliases,
\* refresh) may fail, and so may the answer.
PutWorkspace ==
    (IF op.rev # Len(log) THEN Unwritten({"stale"})
     ELSE {Outcome(Append(log, op.next), "ok", Written(op.next))}
            \cup {Outcome(Append(log, op.next), why, Blank) : why \in {"partial", "failed"}})
      \cup Unwritten({"unauthorized", "failed", "refused"})

\* A created key is bound or not, and the answer may lack the workspace.
CreateNative ==
    LET Created(c) == [Last(log) EXCEPT ![op.key] = c]
    IN  (UNION {{Outcome(Append(log, Created(c)), "ok", ws) : ws \in {Written(Created(c)), Blank}}
                  \cup {Outcome(Append(log, Created(c)), "failed", Blank)} : c \in {Fresh, Native}})
          \cup Unwritten({"unauthorized", "failed", "refused"})

ReadWorkspace == {[log |-> log, answer |-> a] : a \in Reads}

ServeOp ==
    /\ Busy /\ op.answer = None
    /\ \E o \in CASE op.stage = "put" -> PutWorkspace
                   [] op.stage = "create" -> CreateNative
                   [] OTHER -> ReadWorkspace :
          /\ log' = o.log
          /\ op' = [op EXCEPT !.answer = o.answer]
          /\ IF op.stage = "put" /\ o.answer.why \in {"partial", "failed"}
             THEN /\ doubt' = Len(o.log)
                  /\ overtaken' = (overtaken \/ (calls["load"] # None /\ calls["load"].was))
             ELSE UNCHANGED doubts
    /\ UNCHANGED <<view, adopting, calls, flags, login, error, secret, foreign, bounds>>

\* The workspace a call will bring, unless it fails.
ServeCall(kind) ==
    /\ calls[kind] # None /\ calls[kind].answer = None
    /\ calls' = [calls EXCEPT ![kind].answer = Latest]
    /\ UNCHANGED <<server, view, adopting, op, flags, login, error, secret, doubts, bounds>>
-----------------------------------------------------------------------------
(* Answers the panel receives.                                             *)

Done == op' = None
Stage(stage, partial) == op' = [op EXCEPT !.stage = stage, !.answer = None, !.partial = partial]
Stay == UNCHANGED <<view, calls, doubts>>

\* requireLogin
RequireLogin == login' = TRUE

\* A PUT: applied and then checked key by key (verify), or refreshed after a failure that leaves
\* what was written unknown, or refused as it is (commit).
PutAnswered(a) ==
    /\ CASE a.why = "ok" -> /\ Apply(a.ws, draft, calls)
                            /\ needs' = FALSE /\ blocked' = FALSE /\ login' = login
                            /\ IF op.verify = {} THEN Done ELSE Stage("check", FALSE)
         [] a.why \in {"partial", "failed", "stale"} ->
               /\ needs' = TRUE /\ Stage("refresh", a.why = "partial")
               /\ Stay /\ UNCHANGED <<blocked, login, error>>
         [] a.why = "unauthorized" -> RequireLogin /\ Done /\ Stay /\ UNCHANGED <<flags, error>>
         [] OTHER -> error' = TRUE /\ Done /\ Stay /\ UNCHANGED <<flags, login>>

\* Mutant of RefreshAnswered: a failed refresh leaves publishing open.
RefreshOpen(a) ==
    /\ Done
    /\ CASE a.why = "ok" -> /\ Show(a.ws, page, draft, stash, calls) /\ Learn(a.ws) /\ error' = TRUE
                            /\ blocked' = FALSE /\ needs' = op.partial /\ login' = login
         [] a.why = "unauthorized" -> RequireLogin /\ Stay /\ UNCHANGED <<flags, error>>
         [] OTHER -> error' = TRUE /\ Stay /\ UNCHANGED <<flags, login>>

\* The refresh after a failed PUT: needs stays only for a partial one; blocked while it fails.
RefreshAnswered(a) ==
    /\ Done
    /\ CASE a.why = "ok" -> /\ Show(a.ws, page, draft, stash, calls) /\ Learn(a.ws) /\ error' = TRUE
                            /\ blocked' = FALSE /\ needs' = op.partial /\ login' = login
         [] a.why = "unauthorized" -> RequireLogin /\ blocked' = TRUE /\ Stay /\ UNCHANGED <<needs, error>>
         [] OTHER -> error' = TRUE /\ blocked' = TRUE /\ Stay /\ UNCHANGED <<needs, login>>

\* The readback of one changed key (verify) or the one asked for (reread); only a session that
\* ended stops the ones after it.
CheckAnswered(a) ==
    LET left == op.verify \ {CHOOSE k \in op.verify : TRUE}
    IN  /\ UNCHANGED flags
        /\ CASE a.why = "ok" -> Apply(a.ws, draft, calls) /\ login' = login
             [] a.why = "unauthorized" -> RequireLogin /\ Stay /\ UNCHANGED error
             [] OTHER -> Stay /\ login' = login /\ error' = (op.kind = "reread" \/ (error /\ left # {}))
        /\ IF a.why = "unauthorized" \/ left = {} THEN Done
           ELSE op' = [op EXCEPT !.verify = left, !.answer = None]

\* saveKey: the secret is kept and the new key's page opens before anything else is read.
CreateAnswered(a) ==
    /\ UNCHANGED flags
    /\ CASE a.why = "ok" ->
               /\ secret' = op.key /\ login' = login
               /\ IF a.ws.rev # 0
                  THEN /\ Show(a.ws, op.key, draft, stash, calls) /\ Learn(a.ws) /\ Done
                       /\ error' = (a.ws.keys[op.key] = Native)
                  ELSE Show(held, op.key, draft, stash, calls) /\ UNCHANGED <<doubts, error>> /\ Stage("get", FALSE)
         [] a.why = "unauthorized" -> RequireLogin /\ Done /\ Stay /\ UNCHANGED <<error, secret>>
         [] OTHER -> error' = TRUE /\ Done /\ Stay /\ UNCHANGED <<login, secret>>

\* The workspace read after a creation whose answer had none; a key that was not bound is an error.
GetAnswered(a) ==
    /\ UNCHANGED flags /\ Done
    /\ CASE a.why = "ok" -> /\ Show(a.ws, page, draft, stash, calls) /\ Learn(a.ws) /\ login' = login
                            /\ error' = (a.ws.keys[op.key] = Native)
         [] a.why = "unauthorized" -> RequireLogin /\ Stay /\ UNCHANGED error
         [] OTHER -> error' = TRUE /\ Stay /\ login' = login

OpAnswered ==
    /\ Busy /\ op.answer # None
    /\ CASE op.stage = "put" -> PutAnswered(op.answer) /\ UNCHANGED secret
         [] op.stage = "refresh" -> RefreshAnswered(op.answer) /\ UNCHANGED secret
         [] op.stage = "check" -> CheckAnswered(op.answer) /\ UNCHANGED secret
         [] op.stage = "create" -> CreateAnswered(op.answer)
         [] op.stage = "get" -> GetAnswered(op.answer) /\ UNCHANGED secret
    /\ UNCHANGED <<server, adopting, bounds>>

\* load: a reload started while publishing was blocked opens it again.
LoadAnswered(c, a, others) ==
    CASE a.why = "ok" -> /\ Apply(a.ws, draft, others) /\ login' = login
                                /\ IF c.was THEN blocked' = FALSE /\ needs' = FALSE ELSE UNCHANGED flags
      [] a.why = "unauthorized" -> /\ RequireLogin /\ calls' = others
                                          /\ UNCHANGED <<view, doubts, flags, error>>
      [] OTHER -> error' = TRUE /\ calls' = others /\ UNCHANGED <<view, doubts, flags, login>>

\* signIn
SignInAnswered(c, a, others) ==
    /\ UNCHANGED flags
    /\ IF a.why = "ok" THEN Apply(a.ws, draft, others) /\ login' = FALSE
       ELSE calls' = others /\ UNCHANGED <<view, doubts, login, error>>

\* The refresh after an adoption sets the draft of the page shown now from the adopted key's policy:
\* on top of it the draft staged when the adoption was applied, merged (preserveAdoptionDraft).
AdoptedAnswered(c, a, others) ==
    /\ UNCHANGED flags
    /\ CASE a.why = "ok" ->
               LET adopted == a.ws.keys[c.of]
               IN  /\ \E d \in IF adopted = Gone THEN {c.staged}
                               ELSE IF c.staged = None THEN {adopted} ELSE Policies :
                          Apply(a.ws, d, others)
                   /\ login' = login
         [] a.why = "unauthorized" -> RequireLogin /\ calls' = others /\ UNCHANGED <<view, doubts, error>>
         [] OTHER -> error' = TRUE /\ calls' = others /\ UNCHANGED <<view, doubts, login>>

\* The readback of an opening page and the refresh after a permission edit: only a success or the
\* end of the session shows.
QuietAnswered(c, a, others) ==
    /\ UNCHANGED flags
    /\ CASE a.why = "ok" -> Apply(a.ws, draft, others) /\ login' = login
         [] a.why = "unauthorized" -> RequireLogin /\ calls' = others /\ UNCHANGED <<view, doubts, error>>
         [] OTHER -> calls' = others /\ UNCHANGED <<view, doubts, login, error>>

CallAnswered(kind) ==
    /\ calls[kind] # None
    /\ LET c == calls[kind]  others == [calls EXCEPT ![kind] = None]
       IN  \E a \in Failures \cup (IF c.answer = None THEN {} ELSE {Answer("ok", c.answer)}) :
              CASE kind = "load" -> LoadAnswered(c, a, others)
                [] kind = "signin" -> SignInAnswered(c, a, others)
                [] kind = "adopted" -> AdoptedAnswered(c, a, others)
                [] OTHER -> QuietAnswered(c, a, others)
    /\ UNCHANGED <<server, adopting, op, secret, bounds>>
-----------------------------------------------------------------------------
(* The operator.                                                           *)

Moves == moves < MaxMoves /\ moves' = moves + 1 /\ acts' = acts
\* The app is shown, and nothing modal is over it.
Free == Ready /\ adopting = None /\ secret = None
Send(kind, k, staged) == calls' = [calls EXCEPT ![kind] = Call(k, staged)]

\* "Reload workspace" of the error banner, Retry, and what the snapshot and catalogue pages call.
Load ==
    /\ ~login /\ ~Busy /\ calls["load"] = None
    /\ error \/ page = Elsewhere
    /\ Send("load", None, None)
    /\ UNCHANGED <<server, view, adopting, op, flags, login, error, secret, doubts, bounds>>

SignIn ==
    /\ login /\ calls["load"] = None /\ calls["signin"] = None
    /\ Send("signin", None, None)
    /\ UNCHANGED <<server, view, adopting, op, flags, login, error, secret, doubts, bounds>>

\* signOut, confirmed when there is a draft: everything read is forgotten, calls in flight are not.
SignOut ==
    /\ Free /\ ~Busy /\ calls["load"] = None
    /\ Show(Blank, Elsewhere, None, None, calls)
    /\ login' = TRUE /\ error' = FALSE /\ needs' = FALSE /\ blocked' = FALSE
    /\ secret' = None /\ adopting' = None
    /\ UNCHANGED <<server, op, doubts, bounds>>

\* go, the browser's own navigation, the discarding of a draft confirmed.
Go(pg) ==
    /\ Ready /\ pg # page /\ Moves
    /\ Dirty => ~Busy
    /\ Show(held, pg, draft, stash, calls)
    /\ UNCHANGED <<server, adopting, op, flags, login, error, secret, doubts>>

\* "Edit selection"
EditSelection ==
    /\ Free /\ ManagedAt(held, page) /\ ~KeyEditing /\ ~Busy
    /\ editing' = TRUE /\ asked' = TRUE
    /\ UNCHANGED <<server, held, page, draft, stash, calls, adopting, op, flags, login, error, secret, doubts, bounds>>

\* Any edit in the composer.
Touch(p) ==
    /\ Free /\ ManagedAt(held, page) /\ KeyEditing /\ ~Busy /\ p # draft /\ Moves
    /\ draft' = p /\ asked' = TRUE
    /\ UNCHANGED <<server, held, page, stash, editing, calls, adopting, op, flags, login, error, secret, doubts>>

\* Cancel with a draft, confirmed; "Close editor" without.
CloseEditor ==
    /\ Free /\ ManagedAt(held, page) /\ KeyEditing /\ ~Busy
    /\ draft' = IF Dirty THEN held.keys[page] ELSE draft
    /\ editing' = FALSE /\ asked' = FALSE
    /\ UNCHANGED <<server, held, page, stash, calls, adopting, op, flags, login, error, secret, doubts, bounds>>

\* The publish button of the composer.
CanPublish == Free /\ ManagedAt(held, page) /\ KeyEditing /\ ~Busy /\ ~blocked /\ (Dirty \/ needs)

Start(operation) ==
    /\ acts < MaxActs /\ acts' = acts + 1
    /\ op' = operation
    /\ UNCHANGED <<moves, server, view, calls, adopting, flags, login, error, secret, doubts>>

\* publishKey: a draft taken before the key was adopted holds the policy of its native permissions.
PublishKey ==
    /\ CanPublish /\ draft # None
    /\ \E p \in IF draft = Native THEN Policies ELSE {draft} :
          Start(Operation("publish", page, "put", [held.keys EXCEPT ![page] = p], {page}))

\* Every other save (a name, a key disabled, a group, a model): the policies go back as they are
\* held, and the keys it changes are read back.
SaveAside(verify) ==
    /\ Free /\ ~Busy /\ verify \subseteq {k \in Keys : ManagedAt(held, k)}
    /\ Start(Operation("aside", None, "put", held.keys, verify))

Reread ==
    /\ Free /\ ManagedAt(held, page) /\ ~Busy
    /\ Start(Operation("reread", page, "check", Blank.keys, {page}))

SaveKey(k) ==
    /\ Free /\ page = Elsewhere /\ ~Busy /\ Last(log)[k] = Gone /\ held.keys[k] = Gone
    /\ Start(Operation("create", k, "create", Blank.keys, {}))

CloseSecret ==
    /\ ~login /\ secret # None /\ secret' = None
    /\ UNCHANGED <<server, view, calls, adopting, op, flags, login, error, doubts, bounds>>

OpenAdoption ==
    /\ Free /\ Key # None /\ ~Busy /\ (ManagedAt(held, page) => ~Dirty)
    /\ adopting' = page
    /\ UNCHANGED <<server, view, calls, op, flags, login, error, secret, doubts, bounds>>

CloseAdoption ==
    /\ Ready /\ adopting # None /\ adopting' = None
    /\ UNCHANGED <<server, view, calls, op, flags, login, error, secret, doubts, bounds>>

\* "Show in To add": the draft is kept for the way back.
ShowToAdd ==
    /\ Ready /\ adopting # None /\ adopting' = None
    /\ Show(held, Elsewhere, draft, IF Key # None /\ draft # None THEN [key |-> Key, policy |-> draft] ELSE stash, calls)
    /\ UNCHANGED <<server, op, flags, login, error, secret, doubts, bounds>>

\* The adoption or the new link was written (AdoptionDialog's apply): onApplied.
Adopted(p) ==
    /\ Ready /\ adopting # None /\ Last(log)[adopting] # Gone /\ calls["adopted"] = None /\ Moves
    /\ Grows([Last(log) EXCEPT ![adopting] = p]) /\ UNCHANGED foreign
    /\ adopting' = None
    /\ Send("adopted", adopting, IF Key = adopting /\ Dirty THEN draft ELSE None)
    /\ UNCHANGED <<view, op, flags, login, error, secret, doubts>>

\* A permission of the key was edited in Bifrost from the dialog: onNativeEdited.
NativeEdited ==
    /\ Ready /\ adopting # None /\ calls["edited"] = None /\ Moves
    /\ Send("edited", None, None)
    /\ UNCHANGED <<server, view, adopting, op, flags, login, error, secret, doubts>>
-----------------------------------------------------------------------------
\* The panel opens on any page and loads.
Init ==
    /\ log \in {<<w>> : w \in FirstKeys} /\ held = Blank /\ page \in FirstPages
    /\ draft = None /\ stash = None /\ editing = FALSE /\ adopting = None /\ op = None
    /\ needs = FALSE /\ blocked = FALSE /\ login = FALSE /\ error = FALSE
    /\ secret = None /\ asked = FALSE /\ doubt = 0 /\ overtaken = FALSE /\ foreign = 0 /\ moves = 0 /\ acts = 0
    /\ calls = [kind \in Kinds |-> IF kind = "load" THEN Call(None, None) ELSE None]

Operator ==
    \/ Load \/ SignIn \/ SignOut \/ (\E pg \in Pages : Go(pg))
    \/ EditSelection \/ (\E p \in Policies : Touch(p)) \/ CloseEditor \/ PublishKey
    \/ (\E verify \in SUBSET Keys : SaveAside(verify)) \/ Reread
    \/ (\E k \in Keys : SaveKey(k)) \/ CloseSecret
    \/ OpenAdoption \/ CloseAdoption \/ ShowToAdd \/ (\E p \in Policies : Adopted(p)) \/ NativeEdited

Server == ServeOp \/ (\E kind \in Kinds : ServeCall(kind)) \/ (\E f \in Foreigns : Foreign(f[1], f[2]))

Answers == OpAnswered \/ (\E kind \in Kinds : CallAnswered(kind))

Next == Operator \/ Server \/ Answers

\* A request is answered or fails in the end (the HTTP server's timeouts, fetch).
Spec == Init /\ [][Next]_vars /\ WF_vars(ServeOp) /\ WF_vars(OpAnswered)

-----------------------------------------------------------------------------
(* Properties.                                                             *)

Stages == {"put", "refresh", "check", "create", "get"}
Shown == [rev: Nat, keys: Workspaces]
Drafts == Policies \cup {Native, None}
Stashes == [key: Keys, policy: Policies \cup {Native}] \cup {None}
OpAnswers == [why: Whys, ws: Shown]
Operations ==
    [kind: {"publish", "aside", "reread", "create"}, key: Keys \cup {None}, stage: Stages, rev: Nat,
     next: Workspaces, verify: SUBSET Keys, partial: BOOLEAN, answer: OpAnswers \cup {None}]
ASSUME IdleAssumption == None \notin Operations \cup OpAnswers

CallTables ==
    [Kinds -> [of: Keys \cup {None}, staged: Drafts, was: BOOLEAN, answer: Shown \cup {None}] \cup {None}]

TypeOK ==
    /\ log \in Seq(Workspaces) /\ log # << >>
    /\ held \in Shown /\ page \in Pages /\ draft \in Drafts /\ stash \in Stashes
    /\ adopting \in Keys \cup {None} /\ secret \in Keys \cup {None}
    /\ op \in Operations \cup {None} /\ calls \in CallTables
    /\ editing \in BOOLEAN /\ asked \in BOOLEAN /\ overtaken \in BOOLEAN
    /\ needs \in BOOLEAN /\ blocked \in BOOLEAN /\ login \in BOOLEAN /\ error \in BOOLEAN
    /\ doubt \in Nat /\ foreign \in Nat /\ moves \in Nat /\ acts \in Nat

\* A save the panel sends changes no key but the one published: whatever others wrote since is
\* refused or was shown, although every save carries the whole workspace (commit, putWorkspace).
SaveReplacesWhatWasSeen ==
    [][Busy /\ op' # op /\ op.stage = "put" /\ log' # log
         => \A k \in Keys \ {op.key} : Last(log')[k] = Last(log)[k]]_vars

\* No answer but an adoption's changes an unpublished draft while its key is shown.
DraftIsKept ==
    Dirty /\ Key' = Key /\ draft' # draft
      => ~(OpAnswered \/ \E kind \in Kinds \ {"adopted"} : CallAnswered(kind))

\* "Reload before another write" (commit): a key is not published while the outcome of an earlier
\* save is unknown to the panel, unless a reload meant for the save before it was still under way.
PublishesOnCertainty == CanPublish => doubt = 0 \/ overtaken

\* The secret of a created key is shown as soon as the creation is answered, whatever the reading
\* after it does, and until its dialog is closed (saveKey).
SecretIsKept ==
    /\ secret # None /\ secret' # secret => CloseSecret
    /\ Busy /\ op.stage = "create" /\ op.answer # None /\ op' # op /\ op.answer.why = "ok"
         => secret' = op.key

\* "your draft is preserved" (commit): what the operator typed and the secret Bifrost tells once
\* outlive every failure and every late answer.
WorkSurvives == [][DraftIsKept /\ SecretIsKept]_vars
=============================================================================
