-------------------------- MODULE PanelSessionProofs --------------------------
(***************************************************************************)
(* Proofs about PanelSession and CardEditor.                               *)
(*                                                                         *)
(* The session.  What the panel shows and what a call brings is some past  *)
(* workspace of the server, so a save that agrees with what it was built   *)
(* on agrees with the server when the revisions do.  A save left in doubt  *)
(* keeps publishing closed until a workspace as new is shown: by its own   *)
(* refresh, by a reload or by a later save.                                *)
(*                                                                         *)
(* The editor of a card.  A row that nobody typed is the saved card's or   *)
(* was offered, and no other card has it; the rows stay in the saved       *)
(* card's order.  A save needs no invariant beside the types: what the     *)
(* editor sends is the difference between the draft and the saved card,    *)
(* and the server applies that difference.                                 *)
(***************************************************************************)
EXTENDS PanelSession, CardEditor, SequenceTheorems, WellFoundedInduction, TLAPS

\* A workspace the server had, by its log.
Past(l, ws) == ws.rev # 0 => ws.rev \in 1..Len(l) /\ ws.keys = l[ws.rev]

Brings(kind) == calls[kind] # None /\ calls[kind].answer # None

PastInv ==
    /\ Past(log, held)
    /\ op # None /\ op.answer # None => Past(log, op.answer.ws)
    /\ \A kind \in Kinds : Brings(kind) => Past(log, calls[kind].answer)

\* A save sends what its revision held, but for the key it publishes.
Sends(l, o) == o.rev \in 1..Len(l) /\ \A k \in Keys \ {o.key} : o.next[k] = l[o.rev][k]
SendsInv == op # None /\ op.stage = "put" => Sends(log, op)

\* The save under way was left in doubt, or is being cleared up.
InDoubt ==
    /\ op # None
    /\ \/ op.stage = "refresh"
       \/ op.stage = "put" /\ op.answer # None /\ op.answer.why \in {"partial", "failed"}

Known(ws) == ws.rev >= doubt

\* A doubt closes publishing, unless the panel is signed out; what would open it brings its end.
DoubtInv ==
    /\ doubt <= Len(log)
    /\ overtaken => doubt # 0
    /\ op # None /\ op.stage \in {"put", "refresh"} /\ op.answer # None /\ op.answer.why = "ok"
         => Known(op.answer.ws)
    /\ Brings("load") /\ calls["load"].was => overtaken \/ Known(calls["load"].answer)
    /\ doubt # 0 /\ ~overtaken /\ ~blocked /\ ~InDoubt =>
         login /\ (Brings("signin") => Known(calls["signin"].answer))
    /\ ~login => calls["signin"] = None

\* A creation and the refresh after an adoption are of a key; no other secret is on screen then.
KeyInv ==
    /\ op # None /\ op.stage = "create" => secret = None /\ op.key \in Keys
    /\ calls["adopted"] # None => calls["adopted"].of \in Keys

SessionInv == TypeOK /\ PastInv /\ SendsInv /\ DoubtInv /\ KeyInv

-----------------------------------------------------------------------------
(* What is shown, and what an answer teaches.                              *)

\* A new page shows the draft it is left with, or the policy of its key; the readback of a page
\* that opens is a new call.
LEMMA ShowShape ==
    ASSUME TypeOK, NEW h \in Shown, NEW pg \in Pages, NEW d \in Drafts, NEW s \in Stashes,
           NEW cs \in CallTables, Show(h, pg, d, s, cs)
    PROVE  /\ held' = h /\ page' = pg /\ draft' \in Drafts /\ stash' \in Stashes
           /\ editing' \in BOOLEAN /\ asked' \in BOOLEAN
           /\ calls' \in CallTables
           /\ \A kind \in Kinds \ {"open"} : calls'[kind] = cs[kind]
           /\ calls'["open"] \in {cs["open"], None} \/ calls'["open"].answer = None
           /\ Key' = Key => draft' = d
<1> DEFINE now == Current(h, pg)
           kept == s # None /\ now # None /\ s.key = now
           opened == <<pg, now, ManagedAt(h, pg)>> # <<page, Key, ManagedAt(held, page)>>
           reading == IF ManagedAt(h, pg) THEN Call(pg, None) ELSE None
<1>1. /\ held' = h /\ page' = pg
      /\ IF now = Key THEN draft' = d /\ stash' = s /\ UNCHANGED <<editing, asked>>
         ELSE /\ editing' = FALSE /\ asked' = kept
              /\ draft' = IF kept THEN s.policy ELSE IF now # None THEN h.keys[now]
                          ELSE IF s = None THEN None ELSE d
              /\ stash' = IF kept THEN None ELSE s
      /\ calls' = IF ~opened THEN cs ELSE [cs EXCEPT !["open"] = reading]
  BY DEF Show
<1>2. Key' = now
  BY <1>1 DEF Key
<1>3. now # None => now \in Keys /\ h.keys[now] \in Policies \cup {Native}
  BY DEF Current, Shown, Workspaces, Contents
<1>4. ManagedAt(h, pg) => pg \in Keys
  BY DEF ManagedAt, Current
<1>5. "open" \in Kinds /\ None \in Drafts
  BY DEF Kinds, Drafts
<1>6. reading = None \/ (reading.answer = None /\
        reading \in [of: Keys \cup {None}, staged: Drafts, was: BOOLEAN, answer: Shown \cup {None}])
  BY <1>4, <1>5 DEF Call, TypeOK
<1> HIDE DEF reading, opened
<1>7. /\ calls' \in CallTables
      /\ \A kind \in Kinds \ {"open"} : calls'[kind] = cs[kind]
      /\ calls'["open"] \in {cs["open"], None} \/ calls'["open"].answer = None
  <2>1. CASE ~opened
    BY <1>1, <2>1
  <2>2. CASE opened
    <3>1. calls' = [cs EXCEPT !["open"] = reading]
      BY <1>1, <2>2
    <3>2. calls'["open"] = reading /\ \A kind \in Kinds \ {"open"} : calls'[kind] = cs[kind]
      BY <1>5, <3>1 DEF CallTables
    <3>3. calls' \in CallTables
      BY <1>6, <3>1 DEF CallTables
    <3> QED BY <1>6, <3>2, <3>3
  <2> QED BY <2>1, <2>2
<1> HIDE DEF now, kept
<1>8. s # None => s.policy \in Policies \cup {Native}
  BY DEF Stashes
<1>9. draft' \in Drafts /\ stash' \in Stashes /\ editing' \in BOOLEAN /\ asked' \in BOOLEAN
  <2>1. CASE now = Key
    BY <1>1, <2>1 DEF TypeOK
  <2>2. CASE now # Key
    <3>1. kept \in BOOLEAN /\ (kept => s # None)
      BY DEF kept
    <3> QED BY <1>1, <1>3, <1>8, <2>2, <3>1 DEF Drafts, Stashes
  <2> QED BY <2>1, <2>2
<1> QED BY <1>1, <1>2, <1>7, <1>9

LEMMA LearnShape ==
    ASSUME TypeOK, NEW ws \in Shown, Learn(ws)
    PROVE  /\ doubt' \in Nat /\ overtaken' \in BOOLEAN
           /\ \/ doubt' = 0 /\ ~overtaken'
              \/ ~Known(ws) /\ UNCHANGED doubts
<1>1. CASE ws.rev >= doubt
  <2>1. doubt' = 0 /\ overtaken' = FALSE
    BY <1>1, Zenon DEF Learn
  <2> QED BY <2>1
<1>2. CASE ~(ws.rev >= doubt)
  <2>1. UNCHANGED doubts
    BY <1>2 DEF Learn
  <2>2. doubt' \in Nat /\ overtaken' \in BOOLEAN
    BY <2>1 DEF doubts, TypeOK
  <2> QED BY <1>2, <2>1, <2>2 DEF Known
<1> QED BY <1>1, <1>2

-----------------------------------------------------------------------------
(* What an answer to the operation under way does.                         *)

\* It shows what it brought, or what was held, or nothing; another stage begins or the operation
\* ends; only an answer as new as the doubt opens publishing.
OpShape ==
    /\ UNCHANGED <<log, adopting, foreign, moves, acts>>
    /\ \/ UNCHANGED <<view, calls>>
       \/ \E h \in Shown, pg \in Pages :
             /\ Show(h, pg, draft, stash, calls)
             /\ h = held \/ (h = op.answer.ws /\ op.answer.why = "ok")
    /\ UNCHANGED doubts \/ Learn(op.answer.ws)
    /\ \/ op' = None
       \/ op' \in Operations /\ op'.answer = None /\ op'.stage \in {"refresh", "check", "get"}
    /\ needs' \in BOOLEAN /\ blocked' \in BOOLEAN /\ error' \in BOOLEAN /\ login' \in {login, TRUE}
    /\ \/ op.stage \in {"put", "refresh"} /\ op.answer.why = "ok" /\ Learn(op.answer.ws)
       \/ blocked' = TRUE
       \/ op' # None /\ op'.stage = "refresh"
       \/ ~InDoubt /\ UNCHANGED blocked
    /\ secret' = IF op.stage = "create" /\ op.answer.why = "ok" THEN op.key ELSE secret

LEMMA OpTyped ==
    ASSUME TypeOK, Busy, op.answer # None
    PROVE  /\ op \in Operations /\ op.stage \in Stages /\ op.answer.why \in Whys /\ op.answer.ws \in Shown
           /\ held \in Shown /\ page \in Pages
BY DEF TypeOK, Busy, Operations, OpAnswers

LEMMA StageShape ==
    ASSUME op \in Operations, NEW st \in Stages, NEW partial \in BOOLEAN, Stage(st, partial)
    PROVE  op' \in Operations /\ op'.answer = None /\ op'.stage = st
BY DEF Stage, Operations

LEMMA PutShape ==
    ASSUME TypeOK, Busy, op.answer # None, op.stage = "put", PutAnswered(op.answer), UNCHANGED secret,
           UNCHANGED <<server, adopting, bounds>>
    PROVE  OpShape
<1>1. /\ op \in Operations /\ op.stage \in Stages /\ op.answer.why \in Whys /\ op.answer.ws \in Shown
      /\ held \in Shown /\ page \in Pages
  BY OpTyped
<1>2. CASE op.answer.why = "ok"
  <2>1. /\ Apply(op.answer.ws, draft, calls) /\ needs' = FALSE /\ blocked' = FALSE /\ login' = login
        /\ Done \/ Stage("check", FALSE)
    BY <1>2 DEF PutAnswered
  <2>2. op' = None \/ (op' \in Operations /\ op'.answer = None /\ op'.stage = "check")
    BY <1>1, <2>1, StageShape DEF Done, Stages
  <2> QED BY <1>1, <1>2, <2>1, <2>2 DEF OpShape, Apply, server, bounds
<1>3. CASE op.answer.why \in {"partial", "failed", "stale"}
  <2>1. needs' = TRUE /\ Stage("refresh", op.answer.why = "partial") /\ Stay /\ UNCHANGED <<blocked, login, error>>
    BY <1>3 DEF PutAnswered
  <2>2. op' \in Operations /\ op'.answer = None /\ op'.stage = "refresh"
    BY <1>1, <2>1, StageShape DEF Stages
  <2>3. op' # None
    BY <2>2, IdleAssumption
  <2> QED BY <1>1, <2>1, <2>2, <2>3 DEF OpShape, Stay, server, bounds, TypeOK
<1>4. CASE op.answer.why \in {"unauthorized", "refused"}
  <2>1. Done /\ Stay /\ UNCHANGED flags /\ login' \in {login, TRUE} /\ error' \in {error, TRUE}
    BY <1>4 DEF PutAnswered, RequireLogin
  <2>2. ~InDoubt
    BY <1>4 DEF InDoubt
  <2> QED BY <1>1, <2>1, <2>2 DEF OpShape, Done, Stay, flags, server, bounds, TypeOK
<1> QED BY <1>1, <1>2, <1>3, <1>4 DEF Whys

LEMMA RefreshShape ==
    ASSUME TypeOK, Busy, op.answer # None, op.stage = "refresh", RefreshAnswered(op.answer), UNCHANGED secret,
           UNCHANGED <<server, adopting, bounds>>
    PROVE  OpShape
<1>1. /\ op \in Operations /\ op.stage \in Stages /\ op.answer.why \in Whys /\ op.answer.ws \in Shown
      /\ held \in Shown /\ page \in Pages /\ op.partial \in BOOLEAN
  BY OpTyped DEF Operations
<1>2. CASE op.answer.why = "ok"
  <2>1. /\ Show(op.answer.ws, page, draft, stash, calls) /\ Learn(op.answer.ws) /\ error' = TRUE
        /\ blocked' = FALSE /\ needs' = op.partial /\ login' = login /\ op' = None
    BY <1>2 DEF RefreshAnswered, Done
  <2> QED BY <1>1, <1>2, <2>1 DEF OpShape, server, bounds
<1>3. CASE op.answer.why # "ok"
  <2>1. /\ Stay /\ blocked' = TRUE /\ UNCHANGED needs /\ login' \in {login, TRUE} /\ error' \in {error, TRUE}
        /\ op' = None
    BY <1>3 DEF RefreshAnswered, RequireLogin, Done
  <2> QED BY <1>1, <2>1 DEF OpShape, Stay, server, bounds, TypeOK
<1> QED BY <1>2, <1>3

LEMMA CheckShape ==
    ASSUME TypeOK, Busy, op.answer # None, op.stage = "check", CheckAnswered(op.answer), UNCHANGED secret,
           UNCHANGED <<server, adopting, bounds>>
    PROVE  OpShape
<1>1. /\ op \in Operations /\ op.stage \in Stages /\ op.answer.why \in Whys /\ op.answer.ws \in Shown
      /\ held \in Shown /\ page \in Pages /\ ~InDoubt
  BY OpTyped DEF InDoubt
<1> DEFINE left == op.verify \ {CHOOSE k \in op.verify : TRUE}
<1>2. op' = None \/ op' = [op EXCEPT !.verify = left, !.answer = None]
  BY DEF CheckAnswered, Done
<1>3. op' = None \/ (op' \in Operations /\ op'.answer = None /\ op'.stage = "check")
  <2>1. left \in SUBSET Keys
    BY <1>1 DEF Operations
  <2> HIDE DEF left
  <2> QED BY <1>1, <1>2, <2>1 DEF Operations
<1>4. CASE op.answer.why = "ok"
  <2>1. Apply(op.answer.ws, draft, calls) /\ login' = login /\ UNCHANGED flags
    BY <1>4 DEF CheckAnswered
  <2> QED BY <1>1, <1>3, <1>4, <2>1 DEF OpShape, Apply, flags, server, bounds, TypeOK
<1>5. CASE op.answer.why # "ok"
  <2>1. Stay /\ UNCHANGED flags /\ login' \in {login, TRUE} /\ error' \in BOOLEAN
    BY <1>5 DEF CheckAnswered, RequireLogin, TypeOK
  <2> QED BY <1>1, <1>3, <2>1 DEF OpShape, Stay, flags, server, bounds, TypeOK
<1> QED BY <1>4, <1>5

LEMMA CreateShape ==
    ASSUME TypeOK, KeyInv, Busy, op.answer # None, op.stage = "create", CreateAnswered(op.answer),
           UNCHANGED <<server, adopting, bounds>>
    PROVE  OpShape
<1>1. /\ op \in Operations /\ op.stage \in Stages /\ op.answer.why \in Whys /\ op.answer.ws \in Shown
      /\ held \in Shown /\ page \in Pages /\ ~InDoubt /\ op.key \in Pages
  BY OpTyped DEF InDoubt, KeyInv, Busy, Pages
<1>2. CASE op.answer.why = "ok" /\ op.answer.ws.rev # 0
  <2>1. /\ secret' = op.key /\ login' = login /\ UNCHANGED flags
        /\ Show(op.answer.ws, op.key, draft, stash, calls) /\ Learn(op.answer.ws) /\ Done
        /\ error' = (op.answer.ws.keys[op.key] = Native)
    BY <1>2 DEF CreateAnswered
  <2>2. error' \in BOOLEAN
    BY <2>1
  <2> QED BY <1>1, <1>2, <2>1, <2>2 DEF OpShape, Done, flags, server, bounds, TypeOK
<1>3. CASE op.answer.why = "ok" /\ op.answer.ws.rev = 0
  <2>1. /\ secret' = op.key /\ login' = login /\ UNCHANGED flags
        /\ Show(held, op.key, draft, stash, calls) /\ UNCHANGED <<doubts, error>> /\ Stage("get", FALSE)
    BY <1>3 DEF CreateAnswered
  <2>2. op' \in Operations /\ op'.answer = None /\ op'.stage = "get"
    BY <1>1, <2>1, StageShape DEF Stages
  <2> QED BY <1>1, <1>3, <2>1, <2>2 DEF OpShape, flags, server, bounds, TypeOK
<1>4. CASE op.answer.why # "ok"
  <2>1. Done /\ Stay /\ UNCHANGED <<flags, secret>> /\ login' \in {login, TRUE} /\ error' \in {error, TRUE}
    BY <1>4 DEF CreateAnswered, RequireLogin
  <2> QED BY <1>1, <1>4, <2>1 DEF OpShape, Done, Stay, flags, server, bounds, TypeOK
<1> QED BY <1>2, <1>3, <1>4

LEMMA GetShape ==
    ASSUME TypeOK, Busy, op.answer # None, op.stage = "get", GetAnswered(op.answer), UNCHANGED secret,
           UNCHANGED <<server, adopting, bounds>>
    PROVE  OpShape
<1>1. /\ op \in Operations /\ op.stage \in Stages /\ op.answer.why \in Whys /\ op.answer.ws \in Shown
      /\ held \in Shown /\ page \in Pages /\ ~InDoubt
  BY OpTyped DEF InDoubt
<1>2. CASE op.answer.why = "ok"
  <2>1. /\ Show(op.answer.ws, page, draft, stash, calls) /\ Learn(op.answer.ws) /\ login' = login
        /\ error' = (op.answer.ws.keys[op.key] = Native) /\ UNCHANGED flags /\ op' = None
    BY <1>2 DEF GetAnswered, Done
  <2>2. error' \in BOOLEAN
    BY <2>1
  <2> QED BY <1>1, <1>2, <2>1, <2>2 DEF OpShape, flags, server, bounds, TypeOK
<1>3. CASE op.answer.why # "ok"
  <2>1. Stay /\ UNCHANGED flags /\ login' \in {login, TRUE} /\ error' \in {error, TRUE} /\ op' = None
    BY <1>3 DEF GetAnswered, RequireLogin, Done
  <2> QED BY <1>1, <2>1 DEF OpShape, Stay, flags, server, bounds, TypeOK
<1> QED BY <1>2, <1>3

LEMMA OpAnsweredShape ==
    ASSUME TypeOK, KeyInv, OpAnswered
    PROVE  OpShape
<1>1. Busy /\ op.answer # None /\ UNCHANGED <<server, adopting, bounds>>
  BY DEF OpAnswered
<1>2. op.stage \in Stages
  BY <1>1, OpTyped
<1>3. CASE op.stage = "put"
  BY <1>1, <1>3, PutShape DEF OpAnswered
<1>4. CASE op.stage = "refresh"
  BY <1>1, <1>4, RefreshShape DEF OpAnswered
<1>5. CASE op.stage = "check"
  BY <1>1, <1>5, CheckShape DEF OpAnswered
<1>6. CASE op.stage = "create"
  BY <1>1, <1>6, CreateShape DEF OpAnswered
<1>7. CASE op.stage = "get"
  BY <1>1, <1>7, GetShape DEF OpAnswered
<1> QED BY <1>2, <1>3, <1>4, <1>5, <1>6, <1>7 DEF Stages

-----------------------------------------------------------------------------
(* What the answer of another call does.                                   *)

\* A failure shows nothing; a workspace is shown on the page, and the draft stays but after an
\* adoption.  Only a sign-in ends the signed-out state, and only a reload asked for while
\* publishing was blocked opens it.
Others(kind) == [calls EXCEPT ![kind] = None]
CallShape(kind) ==
    /\ UNCHANGED <<log, adopting, op, secret, foreign, moves, acts>>
    /\ needs' \in BOOLEAN /\ blocked' \in BOOLEAN /\ error' \in BOOLEAN /\ login' \in BOOLEAN
    /\ \/ /\ UNCHANGED <<view, doubts, blocked>> /\ calls' = Others(kind) /\ login' \in {login, TRUE}
       \/ /\ Brings(kind) /\ Learn(calls[kind].answer)
          /\ \E d \in Drafts : /\ Show(calls[kind].answer, page, d, stash, Others(kind))
                               /\ kind # "adopted" => d = draft
          /\ UNCHANGED blocked \/ (kind = "load" /\ calls["load"].was)
          /\ login' = login \/ kind = "signin"

LEMMA CallTyped ==
    ASSUME TypeOK, NEW kind \in Kinds, calls[kind] # None
    PROVE  /\ calls[kind].staged \in Drafts /\ calls[kind].was \in BOOLEAN
           /\ calls[kind].answer # None => calls[kind].answer \in Shown
           /\ Others(kind) \in CallTables /\ Others(kind)[kind] = None
           /\ \A other \in Kinds \ {kind} : Others(kind)[other] = calls[other]
BY DEF TypeOK, CallTables, Others

\* The answer of a call, as the handlers take it: what it brought, or a failure.
LEMMA CallAnswers ==
    ASSUME TypeOK, NEW kind \in Kinds, CallAnswered(kind)
    PROVE  /\ calls[kind] # None /\ UNCHANGED <<server, adopting, op, secret, bounds>>
           /\ \E a : /\ \/ a.why = "ok" /\ Brings(kind) /\ a.ws = calls[kind].answer
                        \/ a.why \in {"unauthorized", "failed"}
                     /\ kind = "load" => LoadAnswered(calls[kind], a, Others(kind))
                     /\ kind = "signin" => SignInAnswered(calls[kind], a, Others(kind))
                     /\ kind = "adopted" => AdoptedAnswered(calls[kind], a, Others(kind))
                     /\ kind \in {"open", "edited"} => QuietAnswered(calls[kind], a, Others(kind))
<1>1. calls[kind] # None /\ UNCHANGED <<server, adopting, op, secret, bounds>>
  BY DEF CallAnswered
<1> DEFINE Handles(a) ==
              CASE kind = "load" -> LoadAnswered(calls[kind], a, Others(kind))
                [] kind = "signin" -> SignInAnswered(calls[kind], a, Others(kind))
                [] kind = "adopted" -> AdoptedAnswered(calls[kind], a, Others(kind))
                [] OTHER -> QuietAnswered(calls[kind], a, Others(kind))
<1>2. PICK a \in Failures \cup (IF calls[kind].answer = None THEN {} ELSE {Answer("ok", calls[kind].answer)}) :
         Handles(a)
  BY DEF CallAnswered, Others
<1>3. \/ a.why = "ok" /\ Brings(kind) /\ a.ws = calls[kind].answer
      \/ a.why \in {"unauthorized", "failed"}
  <2>1. a \in Failures \/ (calls[kind].answer # None /\ a = Answer("ok", calls[kind].answer))
    BY <1>2
  <2> QED BY <1>1, <2>1 DEF Failures, Answer, Brings
<1>4. /\ kind = "load" => LoadAnswered(calls[kind], a, Others(kind))
      /\ kind = "signin" => SignInAnswered(calls[kind], a, Others(kind))
      /\ kind = "adopted" => AdoptedAnswered(calls[kind], a, Others(kind))
      /\ kind \in {"open", "edited"} => QuietAnswered(calls[kind], a, Others(kind))
  BY <1>2
<1> QED BY <1>1, <1>3, <1>4

LEMMA CallAnsweredShape ==
    ASSUME TypeOK, KeyInv, NEW kind \in Kinds, CallAnswered(kind)
    PROVE  CallShape(kind)
<1>1. calls[kind] # None /\ UNCHANGED <<server, adopting, op, secret, bounds>>
  BY CallAnswers
<1>2. PICK a :
         /\ \/ a.why = "ok" /\ Brings(kind) /\ a.ws = calls[kind].answer
            \/ a.why \in {"unauthorized", "failed"}
         /\ kind = "load" => LoadAnswered(calls[kind], a, Others(kind))
         /\ kind = "signin" => SignInAnswered(calls[kind], a, Others(kind))
         /\ kind = "adopted" => AdoptedAnswered(calls[kind], a, Others(kind))
         /\ kind \in {"open", "edited"} => QuietAnswered(calls[kind], a, Others(kind))
  BY CallAnswers
<1>3. /\ calls[kind].staged \in Drafts /\ calls[kind].was \in BOOLEAN /\ draft \in Drafts
      /\ login \in BOOLEAN /\ needs \in BOOLEAN /\ blocked \in BOOLEAN /\ error \in BOOLEAN
      /\ a.why = "ok" => a.ws \in Shown
  BY <1>1, <1>2, CallTyped DEF TypeOK, Brings
<1>4. CASE kind = "load"
  <2>1. CASE a.why = "ok"
    <3>1. /\ Apply(a.ws, draft, Others(kind)) /\ login' = login
          /\ IF calls[kind].was THEN blocked' = FALSE /\ needs' = FALSE ELSE UNCHANGED flags
      BY <1>2, <1>4, <2>1 DEF LoadAnswered
    <3> QED BY <1>1, <1>2, <1>3, <1>4, <2>1, <3>1 DEF CallShape, Apply, flags, server, bounds
  <2>2. CASE a.why # "ok"
    <3>1. /\ calls' = Others(kind) /\ UNCHANGED <<view, doubts, flags>>
          /\ login' \in {login, TRUE} /\ error' \in {error, TRUE}
      BY <1>2, <1>4, <2>2 DEF LoadAnswered, RequireLogin
    <3> QED BY <1>1, <1>3, <3>1 DEF CallShape, flags, server, bounds
  <2> QED BY <2>1, <2>2
<1>5. CASE kind = "signin"
  <2>1. CASE a.why = "ok"
    <3>1. Apply(a.ws, draft, Others(kind)) /\ login' = FALSE /\ UNCHANGED flags
      BY <1>2, <1>5, <2>1 DEF SignInAnswered
    <3> QED BY <1>1, <1>2, <1>3, <1>5, <2>1, <3>1 DEF CallShape, Apply, flags, server, bounds
  <2>2. CASE a.why # "ok"
    <3>1. calls' = Others(kind) /\ UNCHANGED <<view, doubts, login, error, flags>>
      BY <1>2, <1>5, <2>2 DEF SignInAnswered
    <3> QED BY <1>1, <1>3, <3>1 DEF CallShape, flags, server, bounds
  <2> QED BY <2>1, <2>2
<1>6. CASE kind = "adopted"
  <2>1. CASE a.why = "ok"
    <3> DEFINE adopted == a.ws.keys[calls[kind].of]
    <3>1. /\ \E d \in IF adopted = Gone THEN {calls[kind].staged}
                      ELSE IF calls[kind].staged = None THEN {adopted} ELSE Policies :
                Apply(a.ws, d, Others(kind))
          /\ login' = login /\ UNCHANGED flags
      BY <1>2, <1>6, <2>1 DEF AdoptedAnswered
    <3>2. adopted \in Policies \cup {Native, Gone}
      BY <1>1, <1>3, <1>6, <2>1 DEF KeyInv, Shown, Workspaces, Contents
    <3> HIDE DEF adopted
    <3>3. PICK d \in Drafts : Apply(a.ws, d, Others(kind))
      BY <1>3, <3>1, <3>2 DEF Drafts
    <3> QED BY <1>1, <1>2, <1>3, <1>6, <2>1, <3>1, <3>3 DEF CallShape, Apply, flags, server, bounds
  <2>2. CASE a.why # "ok"
    <3>1. /\ calls' = Others(kind) /\ UNCHANGED <<view, doubts, flags>>
          /\ login' \in {login, TRUE} /\ error' \in {error, TRUE}
      BY <1>2, <1>6, <2>2 DEF AdoptedAnswered, RequireLogin
    <3> QED BY <1>1, <1>3, <3>1 DEF CallShape, flags, server, bounds
  <2> QED BY <2>1, <2>2
<1>7. CASE kind \in {"open", "edited"}
  <2>1. CASE a.why = "ok"
    <3>1. Apply(a.ws, draft, Others(kind)) /\ login' = login /\ UNCHANGED flags
      BY <1>2, <1>7, <2>1 DEF QuietAnswered
    <3> QED BY <1>1, <1>2, <1>3, <1>7, <2>1, <3>1 DEF CallShape, Apply, flags, server, bounds
  <2>2. CASE a.why # "ok"
    <3>1. /\ calls' = Others(kind) /\ UNCHANGED <<view, doubts, flags, error>>
          /\ login' \in {login, TRUE}
      BY <1>2, <1>7, <2>2 DEF QuietAnswered, RequireLogin
    <3> QED BY <1>1, <1>3, <3>1 DEF CallShape, flags, server, bounds
  <2> QED BY <2>1, <2>2
<1> QED BY <1>4, <1>5, <1>6, <1>7 DEF Kinds

-----------------------------------------------------------------------------
(* What a step must do to keep the invariant, part by part.                *)

Grown(l, m) == m = l \/ \E keys \in Workspaces : m = Append(l, keys)

LEMMA GrownKeeps ==
    ASSUME NEW l \in Seq(Workspaces), NEW m \in Seq(Workspaces), Grown(l, m)
    PROVE  /\ Len(m) >= Len(l) /\ Len(l) \in Nat /\ Len(m) \in Nat
           /\ \A i \in 1..Len(l) : i \in 1..Len(m) /\ m[i] = l[i]
BY DEF Grown

LEMMA PastStays ==
    ASSUME NEW l \in Seq(Workspaces), NEW m \in Seq(Workspaces), Grown(l, m), NEW ws \in Shown, Past(l, ws)
    PROVE  Past(m, ws)
<1>1. CASE ws.rev = 0
  BY <1>1 DEF Past
<1>2. CASE ws.rev # 0
  <2>1. ws.rev \in 1..Len(l) /\ ws.keys = l[ws.rev]
    BY <1>2 DEF Past
  <2>2. ws.rev \in 1..Len(m) /\ m[ws.rev] = l[ws.rev]
    BY <2>1, GrownKeeps
  <2> QED BY <2>1, <2>2 DEF Past
<1> QED BY <1>1, <1>2

LEMMA PastStep ==
    ASSUME TypeOK, PastInv, TypeOK', Grown(log, log'),
           held' = held \/ Past(log', held'),
           \/ op' = None \/ op'.answer = None
           \/ op # None /\ op'.answer = op.answer
           \/ Past(log', op'.answer.ws),
           \A kind \in Kinds : \/ calls'[kind] \in {calls[kind], None} \/ calls'[kind].answer = None
                               \/ Past(log', calls'[kind].answer)
    PROVE  PastInv'
<1>1. log \in Seq(Workspaces) /\ log' \in Seq(Workspaces) /\ held \in Shown
  BY DEF TypeOK
<1>2. Past(log', held')
  BY <1>1, PastStays DEF PastInv
<1>3. ASSUME op' # None, op'.answer # None PROVE Past(log', op'.answer.ws)
  <2>1. CASE op # None /\ op'.answer = op.answer
    <3>1. Past(log, op.answer.ws) /\ op.answer.ws \in Shown
      BY <1>3, <2>1 DEF PastInv, TypeOK, Operations, OpAnswers
    <3> QED BY <1>1, <2>1, <3>1, PastStays
  <2> QED BY <1>3, <2>1
<1>4. ASSUME NEW kind \in Kinds, Brings(kind)' PROVE Past(log', calls'[kind].answer)
  <2>1. CASE calls'[kind] = calls[kind]
    <3>1. Brings(kind)
      BY <1>4, <2>1 DEF Brings
    <3>2. Past(log, calls[kind].answer) /\ calls[kind].answer \in Shown
      BY <3>1, CallTyped DEF PastInv, Brings
    <3> QED BY <1>1, <2>1, <3>2, PastStays
  <2> QED BY <1>4, <2>1 DEF Brings
<1> QED BY <1>2, <1>3, <1>4 DEF PastInv

LEMMA SendsStep ==
    ASSUME TypeOK, SendsInv, TypeOK', Grown(log, log'),
           \/ op' = None \/ op'.stage # "put"
           \/ op # None /\ op.stage = "put" /\ op'.rev = op.rev /\ op'.key = op.key /\ op'.next = op.next
           \/ Sends(log', op')
    PROVE  SendsInv'
<1>1. log \in Seq(Workspaces) /\ log' \in Seq(Workspaces)
  BY DEF TypeOK
<1>2. ASSUME op # None, op.stage = "put", op'.rev = op.rev, op'.key = op.key, op'.next = op.next
      PROVE  Sends(log', op')
  <2>1. op.rev \in 1..Len(log) /\ \A k \in Keys \ {op.key} : op.next[k] = log[op.rev][k]
    BY <1>2 DEF SendsInv, Sends
  <2>2. op.rev \in 1..Len(log') /\ log'[op.rev] = log[op.rev]
    BY <1>1, <2>1, GrownKeeps
  <2> QED BY <1>2, <2>1, <2>2 DEF Sends
<1> QED BY <1>2 DEF SendsInv

\* Nothing new is in doubt.
LEMMA DoubtStep ==
    ASSUME TypeOK, DoubtInv, TypeOK', Grown(log, log'),
           (doubt' = 0 /\ ~overtaken') \/ UNCHANGED doubts,
           op' = op \/ op' = None \/ op'.answer = None,
           calls'["load"] \in {calls["load"], None} \/ calls'["load"].answer = None,
           calls'["signin"] \in {calls["signin"], None} \/ (calls'["signin"].answer = None /\ login'),
           login' \/ login' = login \/ calls'["signin"] = None,
           doubt' # 0 /\ ~overtaken' /\ ~blocked' /\ ~InDoubt' =>
             /\ login'
             /\ \/ calls'["signin"] = None \/ calls'["signin"].answer = None
                \/ ~blocked /\ ~InDoubt
    PROVE  DoubtInv'
<1>1. /\ log \in Seq(Workspaces) /\ log' \in Seq(Workspaces) /\ doubt \in Nat /\ doubt' \in Nat
      /\ overtaken \in BOOLEAN /\ login \in BOOLEAN /\ login' \in BOOLEAN
      /\ Len(log) \in Nat /\ Len(log') \in Nat /\ Len(log') >= Len(log)
  BY GrownKeeps DEF TypeOK
<1>2. doubt' <= doubt /\ (overtaken' => overtaken)
  BY <1>1 DEF doubts
<1>3. doubt' # 0 => doubt' = doubt /\ overtaken' = overtaken
  BY DEF doubts
<1>4. doubt' <= Len(log') /\ (overtaken' => doubt' # 0)
  BY <1>1, <1>2 DEF DoubtInv, doubts
<1>5. ASSUME op' # None, op'.stage \in {"put", "refresh"}, op'.answer # None, op'.answer.why = "ok"
      PROVE  Known(op.answer.ws)'
  <2>1. op' = op
    BY <1>5
  <2>2. op.answer.ws.rev >= doubt /\ op.answer.ws.rev \in Nat
    BY <1>5, <2>1 DEF DoubtInv, Known, TypeOK, Operations, OpAnswers, Shown
  <2> QED BY <1>1, <1>2, <2>1, <2>2 DEF Known
<1>6. "load" \in Kinds /\ "signin" \in Kinds
  BY DEF Kinds
<1>7. ASSUME NEW kind \in Kinds, Brings(kind)', calls'[kind] = calls[kind]
      PROVE  Brings(kind) /\ calls[kind].answer.rev \in Nat
  <2>1. Brings(kind)
    BY <1>7 DEF Brings
  <2> QED BY <2>1, CallTyped DEF Brings, Shown
<1>8. ASSUME Brings("load")', calls'["load"].was, ~overtaken' PROVE Known(calls["load"].answer)'
  <2>1. calls'["load"] = calls["load"]
    BY <1>8 DEF Brings
  <2>2. Brings("load") /\ calls["load"].answer.rev \in Nat
    BY <1>6, <1>7, <1>8, <2>1
  <2>3. CASE doubt' = 0
    BY <2>1, <2>2, <2>3 DEF Known
  <2>4. CASE doubt' # 0
    BY <1>3, <1>8, <2>1, <2>2, <2>4 DEF DoubtInv, Known
  <2> QED BY <2>3, <2>4
<1>9. ASSUME doubt' # 0, ~overtaken', ~blocked', ~InDoubt'
      PROVE  login' /\ (Brings("signin")' => Known(calls["signin"].answer)')
  <2>1. ASSUME Brings("signin")' PROVE Known(calls["signin"].answer)'
    <3>1. calls'["signin"] = calls["signin"] /\ ~blocked /\ ~InDoubt
      BY <1>9, <2>1 DEF Brings
    <3>2. Brings("signin")
      BY <1>6, <1>7, <2>1, <3>1
    <3> QED BY <1>3, <1>9, <3>1, <3>2 DEF DoubtInv, Known
  <2> QED BY <1>9, <2>1
<1>10. ~login' => calls'["signin"] = None
  BY <1>1 DEF DoubtInv
<1> QED BY <1>4, <1>5, <1>8, <1>9, <1>10 DEF DoubtInv

LEMMA KeyStep ==
    ASSUME KeyInv,
           \/ op' = None \/ op'.stage # "create"
           \/ op' = op /\ secret' \in {secret, None}
           \/ secret' = None /\ op'.key \in Keys,
           \/ calls'["adopted"] \in {calls["adopted"], None}
           \/ calls'["adopted"].of \in Keys
    PROVE  KeyInv'
BY DEF KeyInv

-----------------------------------------------------------------------------
(* The answers keep the invariant.                                         *)

\* What an answer leaves on the page has its type.
ViewTyped ==
    /\ held' \in Shown /\ page' \in Pages /\ draft' \in Drafts /\ stash' \in Stashes
    /\ editing' \in BOOLEAN /\ asked' \in BOOLEAN /\ calls' \in CallTables

LEMMA OpAnsweredStep ==
    ASSUME SessionInv, OpAnswered
    PROVE  SessionInv'
<1>1. TypeOK /\ PastInv /\ SendsInv /\ DoubtInv /\ KeyInv
  BY DEF SessionInv
<1>2. Busy /\ op.answer # None /\ OpShape
  BY <1>1, OpAnsweredShape DEF OpAnswered
<1>3. /\ op \in Operations /\ op.stage \in Stages /\ op.answer.why \in Whys /\ op.answer.ws \in Shown
      /\ held \in Shown /\ page \in Pages
  BY <1>1, <1>2, OpTyped
<1>4. UNCHANGED <<log, adopting, foreign, moves, acts>>
  BY <1>2 DEF OpShape
<1>5. /\ ViewTyped
      /\ held' = held \/ (held' = op.answer.ws /\ op.answer.why = "ok")
      /\ \A kind \in Kinds \ {"open"} : calls'[kind] = calls[kind]
      /\ calls'["open"] \in {calls["open"], None} \/ calls'["open"].answer = None
  <2>1. CASE UNCHANGED <<view, calls>>
    BY <1>1, <2>1 DEF ViewTyped, view, TypeOK
  <2>2. ASSUME NEW h \in Shown, NEW pg \in Pages, Show(h, pg, draft, stash, calls),
               h = held \/ (h = op.answer.ws /\ op.answer.why = "ok")
        PROVE  /\ ViewTyped
               /\ held' = held \/ (held' = op.answer.ws /\ op.answer.why = "ok")
               /\ \A kind \in Kinds \ {"open"} : calls'[kind] = calls[kind]
               /\ calls'["open"] \in {calls["open"], None} \/ calls'["open"].answer = None
    <3>1. draft \in Drafts /\ stash \in Stashes /\ calls \in CallTables
      BY <1>1 DEF TypeOK
    <3> QED BY <1>1, <2>2, <3>1, ShowShape DEF ViewTyped
  <2> QED BY <1>2, <2>1, <2>2 DEF OpShape
<1>6. doubt' \in Nat /\ overtaken' \in BOOLEAN /\ ((doubt' = 0 /\ ~overtaken') \/ UNCHANGED doubts)
  <2>1. CASE UNCHANGED doubts
    BY <1>1, <2>1 DEF doubts, TypeOK
  <2>2. CASE Learn(op.answer.ws)
    BY <1>1, <1>3, <2>2, LearnShape
  <2> QED BY <1>2, <2>1, <2>2 DEF OpShape
<1>7. \/ op' = None
      \/ op' \in Operations /\ op'.answer = None /\ op'.stage \in {"refresh", "check", "get"}
  BY <1>2 DEF OpShape
<1>8. needs' \in BOOLEAN /\ blocked' \in BOOLEAN /\ error' \in BOOLEAN /\ login' \in {login, TRUE}
  BY <1>2 DEF OpShape
<1>9. secret' = IF op.stage = "create" /\ op.answer.why = "ok" THEN op.key ELSE secret
  BY <1>2 DEF OpShape
<1>10. TypeOK'
  <2>1. secret' \in Keys \cup {None} /\ login' \in BOOLEAN /\ op' \in Operations \cup {None}
    BY <1>1, <1>3, <1>7, <1>8, <1>9 DEF TypeOK, Operations
  <2> QED BY <1>1, <1>4, <1>5, <1>6, <1>8, <2>1 DEF TypeOK, ViewTyped
<1>11. PastInv'
  <2>1. held' = held \/ Past(log', held')
    BY <1>1, <1>2, <1>4, <1>5 DEF PastInv, Busy
  <2> QED BY <1>1, <1>4, <1>5, <1>7, <1>10, <2>1, PastStep DEF Grown
<1>12. SendsInv'
  BY <1>1, <1>4, <1>7, <1>10, SendsStep DEF Grown
<1>13. doubt' # 0 /\ ~overtaken' /\ ~blocked' /\ ~InDoubt' => login' /\ ~blocked /\ ~InDoubt
  <2> SUFFICES ASSUME doubt' # 0, ~overtaken', ~blocked', ~InDoubt' PROVE login' /\ ~blocked /\ ~InDoubt
    OBVIOUS
  <2>1. UNCHANGED doubts
    BY <1>6
  <2>2. ~(op.stage \in {"put", "refresh"} /\ op.answer.why = "ok" /\ Learn(op.answer.ws))
    <3>1. ASSUME op.stage \in {"put", "refresh"}, op.answer.why = "ok", Learn(op.answer.ws) PROVE FALSE
      <4>1. Known(op.answer.ws)
        BY <1>1, <1>2, <3>1 DEF DoubtInv, Busy
      <4>2. doubt' = 0
        BY <1>1, <1>3, <3>1, <4>1, LearnShape
      <4> QED BY <4>2
    <3> QED BY <3>1
  <2>3. ~(op' # None /\ op'.stage = "refresh")
    BY DEF InDoubt
  <2>4. ~InDoubt /\ blocked' = blocked
    BY <1>2, <2>2, <2>3 DEF OpShape
  <2>5. login
    BY <1>1, <2>1, <2>4 DEF DoubtInv, doubts
  <2> QED BY <1>8, <2>4, <2>5
<1>14. DoubtInv'
  <2>1. "load" \in Kinds \ {"open"} /\ "signin" \in Kinds \ {"open"}
    BY DEF Kinds
  <2>2. calls'["load"] = calls["load"] /\ calls'["signin"] = calls["signin"]
    BY <1>5, <2>1
  <2>3. op' = op \/ op' = None \/ op'.answer = None
    BY <1>7
  <2>4. login' \/ login' = login
    BY <1>8
  <2> QED BY <1>1, <1>4, <1>6, <1>10, <1>13, <2>2, <2>3, <2>4, DoubtStep DEF Grown
<1>15. KeyInv'
  <2>1. calls'["adopted"] = calls["adopted"]
    BY <1>5 DEF Kinds
  <2> QED BY <1>1, <1>7, <2>1, KeyStep
<1> QED BY <1>10, <1>11, <1>12, <1>14, <1>15 DEF SessionInv

LEMMA CallAnsweredStep ==
    ASSUME SessionInv, NEW kind \in Kinds, CallAnswered(kind)
    PROVE  SessionInv'
<1>1. TypeOK /\ PastInv /\ SendsInv /\ DoubtInv /\ KeyInv
  BY DEF SessionInv
<1>2. calls[kind] # None /\ CallShape(kind)
  BY <1>1, CallAnswers, CallAnsweredShape
<1>3. /\ Others(kind) \in CallTables /\ Others(kind)[kind] = None
      /\ \A other \in Kinds \ {kind} : Others(kind)[other] = calls[other]
      /\ Brings(kind) => calls[kind].answer \in Shown
  BY <1>1, <1>2, CallTyped DEF Brings
<1>4. /\ UNCHANGED <<log, adopting, op, secret, foreign, moves, acts>>
      /\ needs' \in BOOLEAN /\ blocked' \in BOOLEAN /\ error' \in BOOLEAN /\ login' \in BOOLEAN
  BY <1>2 DEF CallShape
<1>5. /\ ViewTyped
      /\ held' = held \/ (Brings(kind) /\ held' = calls[kind].answer)
      /\ \A other \in Kinds \ {"open"} : calls'[other] \in {calls[other], None}
      /\ calls'["open"] \in {calls["open"], None} \/ calls'["open"].answer = None
  <2>1. CASE UNCHANGED view /\ calls' = Others(kind)
    <3>1. \A other \in Kinds : calls'[other] \in {calls[other], None}
      BY <1>3, <2>1
    <3>2. "open" \in Kinds
      BY DEF Kinds
    <3> QED BY <1>1, <1>3, <2>1, <3>1, <3>2 DEF ViewTyped, view, TypeOK
  <2>2. ASSUME Brings(kind), NEW d \in Drafts, Show(calls[kind].answer, page, d, stash, Others(kind))
        PROVE  /\ ViewTyped /\ held' = calls[kind].answer
               /\ \A other \in Kinds \ {"open"} : calls'[other] \in {calls[other], None}
               /\ calls'["open"] \in {calls["open"], None} \/ calls'["open"].answer = None
    <3>1. stash \in Stashes /\ page \in Pages
      BY <1>1 DEF TypeOK
    <3>2. "open" \in Kinds
      BY DEF Kinds
    <3>3. \A other \in Kinds : Others(kind)[other] \in {calls[other], None}
      BY <1>3
    <3>4. /\ held' = calls[kind].answer /\ page' = page /\ draft' \in Drafts /\ stash' \in Stashes
          /\ editing' \in BOOLEAN /\ asked' \in BOOLEAN /\ calls' \in CallTables
          /\ \A other \in Kinds \ {"open"} : calls'[other] = Others(kind)[other]
          /\ calls'["open"] \in {Others(kind)["open"], None} \/ calls'["open"].answer = None
      BY <1>1, <1>3, <2>2, <3>1, ShowShape
    <3> QED BY <1>3, <2>2, <3>1, <3>2, <3>3, <3>4 DEF ViewTyped
  <2> QED BY <1>2, <2>1, <2>2 DEF CallShape
<1>6. doubt' \in Nat /\ overtaken' \in BOOLEAN /\ ((doubt' = 0 /\ ~overtaken') \/ UNCHANGED doubts)
  <2>1. CASE UNCHANGED doubts
    BY <1>1, <2>1 DEF doubts, TypeOK
  <2>2. CASE Brings(kind) /\ Learn(calls[kind].answer)
    BY <1>1, <1>3, <2>2, LearnShape
  <2> QED BY <1>2, <2>1, <2>2 DEF CallShape
<1>7. TypeOK'
  BY <1>1, <1>4, <1>5, <1>6 DEF TypeOK, ViewTyped
<1>8. PastInv'
  <2>1. held' = held \/ Past(log', held')
    BY <1>1, <1>4, <1>5 DEF PastInv
  <2>2. op' = None \/ (op # None /\ op'.answer = op.answer)
    BY <1>4
  <2> QED BY <1>1, <1>4, <1>5, <1>7, <2>1, <2>2, PastStep DEF Grown
<1>9. SendsInv'
  BY <1>1, <1>4, <1>7, SendsStep DEF Grown
<1>10. "load" \in Kinds \ {"open"} /\ "signin" \in Kinds \ {"open"} /\ "adopted" \in Kinds \ {"open"}
  BY DEF Kinds
<1>11. login' \/ login' = login \/ calls'["signin"] = None
  <2>1. CASE login' \in {login, TRUE}
    BY <2>1
  <2>2. ASSUME kind = "signin", NEW d \in Drafts, Show(calls[kind].answer, page, d, stash, Others(kind)), Brings(kind)
        PROVE  calls'["signin"] = None
    <3>1. stash \in Stashes /\ page \in Pages
      BY <1>1 DEF TypeOK
    <3>2. calls'["signin"] = Others(kind)["signin"]
      BY <1>1, <1>3, <1>10, <2>2, <3>1, ShowShape
    <3> QED BY <1>3, <2>2, <3>2
  <2> QED BY <1>2, <2>1, <2>2 DEF CallShape
<1>12. doubt' # 0 /\ ~overtaken' /\ ~blocked' /\ ~InDoubt' => login' /\ ~blocked /\ ~InDoubt
  <2> SUFFICES ASSUME doubt' # 0, ~overtaken', ~blocked', ~InDoubt' PROVE login' /\ ~blocked /\ ~InDoubt
    OBVIOUS
  <2>1. ~InDoubt /\ doubt # 0 /\ ~overtaken
    BY <1>4, <1>6 DEF InDoubt, doubts
  <2>2. CASE UNCHANGED blocked /\ login' \in {login, TRUE}
    BY <1>1, <2>1, <2>2 DEF DoubtInv
  <2>3. ASSUME Brings(kind), Learn(calls[kind].answer), Known(calls[kind].answer) PROVE FALSE
    <3>1. doubt' = 0
      BY <1>1, <1>3, <2>3, LearnShape
    <3> QED BY <3>1
  <2>4. CASE /\ Brings(kind) /\ Learn(calls[kind].answer)
             /\ kind = "load" /\ calls["load"].was
    BY <1>1, <2>1, <2>3, <2>4 DEF DoubtInv
  <2>5. CASE Brings(kind) /\ Learn(calls[kind].answer) /\ UNCHANGED blocked /\ kind = "signin"
    BY <1>1, <2>1, <2>3, <2>5 DEF DoubtInv
  <2> QED BY <1>2, <2>2, <2>4, <2>5 DEF CallShape
<1>13. DoubtInv'
  <2>1. calls'["load"] \in {calls["load"], None} /\ calls'["signin"] \in {calls["signin"], None}
    BY <1>5, <1>10
  <2> QED BY <1>1, <1>4, <1>6, <1>7, <1>11, <1>12, <2>1, DoubtStep DEF Grown
<1>14. KeyInv'
  BY <1>1, <1>4, <1>5, <1>10, KeyStep
<1> QED BY <1>7, <1>8, <1>9, <1>13, <1>14 DEF SessionInv

-----------------------------------------------------------------------------
(* The server keeps the invariant.                                         *)

LEMMA ServerTyped ==
    ASSUME TypeOK
    PROVE  /\ log \in Seq(Workspaces) /\ Len(log) \in Nat \ {0} /\ Last(log) \in Workspaces
           /\ Last(log) = log[Len(log)]
           /\ Blank \in Shown /\ Blank.rev = 0
           /\ Latest \in Shown /\ Latest.rev = Len(log) /\ Past(log, Latest)
           /\ \A keys \in Workspaces : /\ Grown(log, Append(log, keys)) /\ Append(log, keys) \in Seq(Workspaces)
                                       /\ Append(log, keys) # << >> /\ Last(Append(log, keys)) = keys
                                       /\ Written(keys) \in Shown /\ Written(keys).rev = Len(log) + 1
                                       /\ Past(Append(log, keys), Written(keys))
<1>1. log \in Seq(Workspaces) /\ log # << >>
  BY DEF TypeOK
<1>2. Len(log) \in Nat \ {0} /\ Last(log) \in Workspaces /\ Last(log) = log[Len(log)]
  BY <1>1 DEF Last
<1>3. Blank \in Shown /\ Blank.rev = 0
  BY DEF Blank, Shown, Workspaces, Contents
<1>4. Latest \in Shown /\ Latest.rev = Len(log) /\ Past(log, Latest)
  BY <1>2 DEF Latest, Shown, Past
<1>5. ASSUME NEW keys \in Workspaces
      PROVE  /\ Grown(log, Append(log, keys)) /\ Append(log, keys) \in Seq(Workspaces)
             /\ Append(log, keys) # << >> /\ Last(Append(log, keys)) = keys
             /\ Written(keys) \in Shown /\ Written(keys).rev = Len(log) + 1
             /\ Past(Append(log, keys), Written(keys))
  <2>1. /\ Append(log, keys) \in Seq(Workspaces) /\ Len(Append(log, keys)) = Len(log) + 1
        /\ Append(log, keys)[Len(log) + 1] = keys /\ Append(log, keys) # << >>
    BY <1>1, <1>2
  <2>2. Written(keys) \in Shown /\ Written(keys).rev = Len(log) + 1 /\ Written(keys).keys = keys
    BY <1>2 DEF Written, Shown
  <2>3. Past(Append(log, keys), Written(keys))
    BY <1>2, <2>1, <2>2 DEF Past
  <2> QED BY <2>1, <2>2, <2>3 DEF Grown, Last
<1> QED BY <1>1, <1>2, <1>3, <1>4, <1>5

\* What the server makes of a call: the log grows by at most one workspace, a success tells a
\* workspace of the log, and a save replaces only what its revision held.
OutcomeShape(o) ==
    /\ Grown(log, o.log) /\ o.log \in Seq(Workspaces) /\ o.log # << >>
    /\ o.answer \in OpAnswers /\ Past(o.log, o.answer.ws)
    /\ o.answer.why = "ok" /\ op.stage # "create" => o.answer.ws.rev >= Len(log)
    /\ op.stage = "put" /\ o.log # log => op.rev = Len(log) /\ o.log = Append(log, op.next)

LEMMA UnwrittenShape ==
    ASSUME TypeOK, NEW whys \in SUBSET (Whys \ {"ok"}), NEW o \in Unwritten(whys)
    PROVE  OutcomeShape(o)
<1>1. PICK why \in whys : o = Outcome(log, why, Blank)
  BY DEF Unwritten
<1>2. o.log = log /\ o.answer.why = why /\ o.answer.ws = Blank /\ o.answer = [why |-> why, ws |-> Blank]
  BY <1>1 DEF Outcome, Answer
<1>3. Past(log, Blank)
  BY ServerTyped DEF Past
<1> QED BY <1>2, <1>3, ServerTyped DEF OutcomeShape, Grown, TypeOK, OpAnswers

LEMMA WrittenShape ==
    ASSUME TypeOK, NEW keys \in Workspaces, NEW why \in Whys, NEW ws \in {Written(keys), Blank},
           why = "ok" /\ op.stage # "create" => ws = Written(keys),
           op.stage = "put" => op.rev = Len(log) /\ keys = op.next
    PROVE  OutcomeShape(Outcome(Append(log, keys), why, ws))
<1> DEFINE o == Outcome(Append(log, keys), why, ws)
<1>1. o.log = Append(log, keys) /\ o.answer.why = why /\ o.answer.ws = ws /\ o.answer = [why |-> why, ws |-> ws]
  BY DEF Outcome, Answer
<1>2. ws \in Shown /\ Past(Append(log, keys), ws)
  BY ServerTyped DEF Past
<1>3. why = "ok" /\ op.stage # "create" => ws.rev >= Len(log)
  BY ServerTyped
<1> HIDE DEF o
<1>4. OutcomeShape(o)
  BY <1>1, <1>2, <1>3, ServerTyped DEF OutcomeShape, OpAnswers
<1> QED BY <1>4 DEF o

LEMMA OutcomesShape ==
    ASSUME TypeOK, KeyInv, Busy, NEW o,
           \/ op.stage = "put" /\ o \in PutWorkspace
           \/ op.stage = "create" /\ o \in CreateNative
           \/ op.stage \notin {"put", "create"} /\ o \in ReadWorkspace
    PROVE  OutcomeShape(o)
<1>1. op \in Operations /\ op.next \in Workspaces
  BY DEF TypeOK, Busy, Operations
<1>2. CASE op.stage = "put" /\ o \in PutWorkspace
  <2>1. CASE o \in Unwritten({"stale"}) \/ o \in Unwritten({"unauthorized", "failed", "refused"})
    BY <2>1, UnwrittenShape DEF Whys
  <2>2. ASSUME op.rev = Len(log), NEW why \in {"ok", "partial", "failed"}, NEW ws \in {Written(op.next), Blank},
               why = "ok" => ws = Written(op.next), o = Outcome(Append(log, op.next), why, ws)
        PROVE  OutcomeShape(o)
    BY <1>1, <2>2, WrittenShape DEF Whys
  <2>3. \/ o \in Unwritten({"stale"}) \/ o \in Unwritten({"unauthorized", "failed", "refused"})
        \/ /\ op.rev = Len(log)
           /\ \/ o = Outcome(Append(log, op.next), "ok", Written(op.next))
              \/ \E why \in {"partial", "failed"} : o = Outcome(Append(log, op.next), why, Blank)
    BY <1>2 DEF PutWorkspace
  <2> QED BY <2>1, <2>2, <2>3
<1>3. CASE op.stage = "create" /\ o \in CreateNative
  <2> DEFINE Created(c) == [Last(log) EXCEPT ![op.key] = c]
  <2>1. CASE o \in Unwritten({"unauthorized", "failed", "refused"})
    BY <2>1, UnwrittenShape DEF Whys
  <2>2. ASSUME NEW c \in {Fresh, Native}, NEW why \in {"ok", "failed"}, NEW ws \in {Written(Created(c)), Blank},
               o = Outcome(Append(log, Created(c)), why, ws)
        PROVE  OutcomeShape(o)
    <3>1. Created(c) \in Workspaces
      BY ServerTyped, SessionAssumption DEF Workspaces, Contents
    <3> HIDE DEF Created
    <3> QED BY <1>3, <2>2, <3>1, WrittenShape DEF Whys
  <2>3. \/ o \in Unwritten({"unauthorized", "failed", "refused"})
        \/ \E c \in {Fresh, Native} :
             \/ \E ws \in {Written(Created(c)), Blank} : o = Outcome(Append(log, Created(c)), "ok", ws)
             \/ o = Outcome(Append(log, Created(c)), "failed", Blank)
    BY <1>3 DEF CreateNative
  <2> HIDE DEF Created
  <2> QED BY <2>1, <2>2, <2>3
<1>4. CASE op.stage \notin {"put", "create"} /\ o \in ReadWorkspace
  <2>1. o.log = log /\ o.answer \in {Answer("ok", Latest)} \cup Failures
    BY <1>4 DEF ReadWorkspace, Reads
  <2>2. \/ o.answer = [why |-> "ok", ws |-> Latest]
        \/ o.answer = [why |-> "unauthorized", ws |-> Blank] \/ o.answer = [why |-> "failed", ws |-> Blank]
    BY <2>1 DEF Answer, Failures
  <2>3. /\ o.answer \in OpAnswers /\ Past(log, o.answer.ws)
        /\ o.answer.why = "ok" => o.answer.ws = Latest
    BY <2>2, ServerTyped DEF Whys, OpAnswers, Past
  <2>4. Len(log) >= Len(log) /\ log # << >>
    BY ServerTyped DEF TypeOK
  <2> QED BY <1>4, <2>1, <2>3, <2>4, ServerTyped DEF OutcomeShape, Grown, OpAnswers
<1> QED BY <1>2, <1>3, <1>4

\* Serving the operation under way.
LEMMA ServeOpShape ==
    ASSUME TypeOK, KeyInv, ServeOp
    PROVE  /\ Busy /\ op.answer = None
           /\ UNCHANGED <<view, adopting, calls, flags, login, error, secret, foreign, bounds>>
           /\ \E o : /\ OutcomeShape(o) /\ log' = o.log /\ op' = [op EXCEPT !.answer = o.answer]
                     /\ IF op.stage = "put" /\ o.answer.why \in {"partial", "failed"}
                        THEN /\ doubt' = Len(o.log)
                             /\ overtaken' = (overtaken \/ (calls["load"] # None /\ calls["load"].was))
                        ELSE UNCHANGED doubts
<1>1. /\ Busy /\ op.answer = None
      /\ UNCHANGED <<view, adopting, calls, flags, login, error, secret, foreign, bounds>>
  BY DEF ServeOp
<1>2. PICK o \in CASE op.stage = "put" -> PutWorkspace
                   [] op.stage = "create" -> CreateNative
                   [] OTHER -> ReadWorkspace :
         /\ log' = o.log /\ op' = [op EXCEPT !.answer = o.answer]
         /\ IF op.stage = "put" /\ o.answer.why \in {"partial", "failed"}
            THEN /\ doubt' = Len(o.log)
                 /\ overtaken' = (overtaken \/ (calls["load"] # None /\ calls["load"].was))
            ELSE UNCHANGED doubts
  BY DEF ServeOp
<1>3. \/ op.stage = "put" /\ o \in PutWorkspace
      \/ op.stage = "create" /\ o \in CreateNative
      \/ op.stage \notin {"put", "create"} /\ o \in ReadWorkspace
  BY <1>2
<1>4. OutcomeShape(o)
  BY <1>1, <1>3, OutcomesShape
<1> QED BY <1>1, <1>2, <1>4

LEMMA ServeOpStep ==
    ASSUME SessionInv, ServeOp
    PROVE  SessionInv'
<1>1. TypeOK /\ PastInv /\ SendsInv /\ DoubtInv /\ KeyInv
  BY DEF SessionInv
<1>2. /\ Busy /\ op.answer = None
      /\ UNCHANGED <<view, adopting, calls, flags, login, error, secret, foreign, bounds>>
  BY <1>1, ServeOpShape
<1>3. PICK o : /\ OutcomeShape(o) /\ log' = o.log /\ op' = [op EXCEPT !.answer = o.answer]
               /\ IF op.stage = "put" /\ o.answer.why \in {"partial", "failed"}
                  THEN /\ doubt' = Len(o.log)
                       /\ overtaken' = (overtaken \/ (calls["load"] # None /\ calls["load"].was))
                  ELSE UNCHANGED doubts
  BY <1>1, ServeOpShape
<1>4. /\ Grown(log, log') /\ log \in Seq(Workspaces) /\ log' \in Seq(Workspaces) /\ log' # << >>
      /\ Len(log') >= Len(log) /\ Len(log) \in Nat /\ Len(log') \in Nat \ {0}
  <2>1. Grown(log, log') /\ log \in Seq(Workspaces) /\ log' \in Seq(Workspaces) /\ log' # << >>
    BY <1>1, <1>3 DEF OutcomeShape, TypeOK
  <2> QED BY <2>1, GrownKeeps
<1>5. /\ op # None /\ op' # None /\ op \in Operations /\ op' \in Operations /\ op'.answer = o.answer
      /\ op'.stage = op.stage /\ op'.key = op.key /\ op'.rev = op.rev /\ op'.next = op.next
  <2>1. op \in Operations /\ op # None /\ o.answer \in [why: Whys, ws: Shown]
    BY <1>1, <1>2, <1>3 DEF TypeOK, Busy, OutcomeShape, OpAnswers
  <2>2. op' \in Operations
    BY <1>3, <2>1 DEF Operations, OpAnswers
  <2> QED BY <1>3, <2>1, <2>2, IdleAssumption DEF Operations
<1>6. /\ overtaken \in BOOLEAN /\ doubt \in Nat /\ "load" \in Kinds /\ "signin" \in Kinds
      /\ calls["load"] # None => calls["load"].was \in BOOLEAN
  BY <1>1, CallTyped DEF TypeOK, Kinds
<1>7. doubt' \in Nat /\ overtaken' \in BOOLEAN
  BY <1>3, <1>4, <1>6 DEF doubts
<1>8. TypeOK'
  BY <1>1, <1>2, <1>4, <1>5, <1>7 DEF TypeOK, view, flags, bounds
<1>9. PastInv'
  <2>1. Past(log', op'.answer.ws)
    BY <1>3, <1>5 DEF OutcomeShape
  <2>2. held' = held /\ calls' = calls
    BY <1>2 DEF view
  <2> QED BY <1>1, <1>4, <1>8, <2>1, <2>2, PastStep
<1>10. SendsInv'
  BY <1>1, <1>4, <1>5, <1>8, SendsStep
<1>11. KeyInv'
  BY <1>1, <1>2, <1>5 DEF KeyInv
<1>12. DoubtInv'
  <2>1. CASE op.stage = "put" /\ o.answer.why \in {"partial", "failed"}
    <3>1. o.answer # None
      BY <1>3, IdleAssumption DEF OutcomeShape
    <3>2. InDoubt'
      BY <1>5, <2>1, <3>1 DEF InDoubt
    <3>3. /\ doubt' = Len(log')
          /\ overtaken' = (overtaken \/ (calls["load"] # None /\ calls["load"].was))
      BY <1>3, <2>1
    <3> QED BY <1>1, <1>2, <1>4, <1>5, <1>6, <2>1, <3>2, <3>3 DEF DoubtInv, Brings
  <2>2. CASE ~(op.stage = "put" /\ o.answer.why \in {"partial", "failed"})
    <3>1. doubt' = doubt /\ overtaken' = overtaken
      BY <1>3, <2>2 DEF doubts
    <3>2. InDoubt' <=> InDoubt
      BY <1>2, <1>5, <2>2 DEF InDoubt
    <3>3. op.stage # "create" /\ o.answer.why = "ok" => o.answer.ws.rev >= Len(log)
      BY <1>3 DEF OutcomeShape
    <3>4. o.answer.ws.rev \in Nat
      BY <1>3 DEF OutcomeShape, OpAnswers, Shown
    <3> QED BY <1>1, <1>2, <1>4, <1>5, <1>6, <3>1, <3>2, <3>3, <3>4 DEF DoubtInv, Brings, Known, flags
  <2> QED BY <2>1, <2>2
<1> QED BY <1>8, <1>9, <1>10, <1>11, <1>12 DEF SessionInv

LEMMA ServeCallStep ==
    ASSUME SessionInv, NEW kind \in Kinds, ServeCall(kind)
    PROVE  SessionInv'
<1>1. TypeOK /\ PastInv /\ SendsInv /\ DoubtInv /\ KeyInv
  BY DEF SessionInv
<1>2. /\ calls[kind] # None /\ calls[kind].answer = None
      /\ calls' = [calls EXCEPT ![kind].answer = Latest]
      /\ UNCHANGED <<server, view, adopting, op, flags, login, error, secret, doubts, bounds>>
  BY DEF ServeCall
<1>3. Latest \in Shown /\ Latest.rev = Len(log) /\ Past(log, Latest)
  BY <1>1, ServerTyped
<1>4. /\ calls' \in CallTables /\ calls'[kind].answer = Latest /\ calls'[kind].was = calls[kind].was
      /\ calls'[kind].of = calls[kind].of
      /\ \A other \in Kinds \ {kind} : calls'[other] = calls[other]
  <2> DEFINE Entries == [of: Keys \cup {None}, staged: Drafts, was: BOOLEAN, answer: Shown \cup {None}]
             served == [calls[kind] EXCEPT !.answer = Latest]
  <2>1. calls \in [Kinds -> Entries \cup {None}] /\ calls[kind] \in Entries
    BY <1>1, <1>2 DEF TypeOK, CallTables
  <2>2. served \in Entries /\ served.answer = Latest /\ served.was = calls[kind].was /\ served.of = calls[kind].of
    BY <1>3, <2>1
  <2>3. calls' = [calls EXCEPT ![kind] = served]
    BY <1>2
  <2> HIDE DEF served, Entries
  <2>4. /\ calls' \in [Kinds -> Entries \cup {None}] /\ calls'[kind] = served
        /\ \A other \in Kinds \ {kind} : calls'[other] = calls[other]
    BY <2>1, <2>2, <2>3
  <2>5. calls' \in CallTables
    BY <2>4 DEF CallTables, Entries
  <2> QED BY <2>2, <2>4, <2>5
<1>5. TypeOK'
  BY <1>1, <1>2, <1>4 DEF TypeOK, server, view, flags, doubts, bounds
<1>6. PastInv'
  BY <1>1, <1>2, <1>3, <1>4, <1>5 DEF PastInv, Brings, server, view
<1>7. SendsInv'
  BY <1>1, <1>2 DEF SendsInv, server
<1>8. DoubtInv'
  <2>1. Known(Latest)
    BY <1>1, <1>3 DEF DoubtInv, Known, TypeOK
  <2>2. /\ "load" \in Kinds /\ "signin" \in Kinds
        /\ UNCHANGED <<log, op, blocked, login, doubt, overtaken>> /\ (InDoubt' <=> InDoubt)
    BY <1>2 DEF Kinds, server, flags, doubts, InDoubt
  <2>3. calls["signin"] = None => calls'["signin"] = None
    BY <1>2, <1>4, <2>2
  <2> QED BY <1>1, <1>4, <2>1, <2>2, <2>3 DEF DoubtInv, Known, Brings
<1>9. KeyInv'
  <2>1. "adopted" \in Kinds /\ UNCHANGED <<op, secret>>
    BY <1>2 DEF Kinds
  <2> QED BY <1>1, <1>2, <1>4, <2>1 DEF KeyInv
<1> QED BY <1>5, <1>6, <1>7, <1>8, <1>9 DEF SessionInv

-----------------------------------------------------------------------------
(* What others do, and the operator.                                       *)

\* A step that starts no refresh and answers nothing leaves doubts as they are.
LEMMA PlainStep ==
    ASSUME SessionInv, TypeOK', Grown(log, log'), UNCHANGED doubts,
           held' \in {held, Blank}, secret' \in {secret, None},
           \A kind \in Kinds : calls'[kind] \in {calls[kind], None} \/ calls'[kind].answer = None,
           calls'["signin"] \in {calls["signin"], None} \/ login',
           calls'["adopted"] \in {calls["adopted"], None} \/ calls'["adopted"].of \in Keys,
           UNCHANGED <<login, blocked>> \/ (~login /\ login' /\ calls'["signin"] = calls["signin"]),
           \/ op' = op
           \/ /\ op = None /\ op'.answer = None /\ op'.stage # "refresh"
              /\ op'.stage = "put" => Sends(log', op')
              /\ op'.stage = "create" => op'.key \in Keys /\ secret' = None
    PROVE  SessionInv'
<1>1. TypeOK /\ PastInv /\ SendsInv /\ DoubtInv /\ KeyInv
  BY DEF SessionInv
<1>2. "load" \in Kinds /\ "signin" \in Kinds
  BY DEF Kinds
<1>3. PastInv'
  <2>1. held' = held \/ Past(log', held')
    BY <1>1, ServerTyped DEF Past
  <2>2. op' = None \/ op'.answer = None \/ (op # None /\ op'.answer = op.answer)
    OBVIOUS
  <2> QED BY <1>1, <2>1, <2>2, PastStep
<1>4. SendsInv'
  <2>1. \/ op' = None \/ op'.stage # "put"
        \/ op # None /\ op.stage = "put" /\ op'.rev = op.rev /\ op'.key = op.key /\ op'.next = op.next
        \/ Sends(log', op')
    OBVIOUS
  <2> QED BY <1>1, <2>1, SendsStep
<1>5. KeyInv'
  <2>1. \/ op' = None \/ op'.stage # "create"
        \/ op' = op /\ secret' \in {secret, None}
        \/ secret' = None /\ op'.key \in Keys
    OBVIOUS
  <2> QED BY <1>1, <2>1, KeyStep
<1>6. DoubtInv'
  <2>1. calls["signin"] = None => calls'["signin"] \in {None} \/ login'
    OBVIOUS
  <2>2. ~InDoubt' => ~InDoubt
    BY DEF InDoubt
  <2>3. doubt' # 0 /\ ~overtaken' /\ ~blocked' /\ ~InDoubt' =>
          /\ login'
          /\ \/ calls'["signin"] = None \/ calls'["signin"].answer = None
             \/ ~blocked /\ ~InDoubt
    <3>1. CASE UNCHANGED <<login, blocked>>
      BY <1>1, <2>2, <3>1 DEF DoubtInv, doubts
    <3>2. CASE ~login /\ login' /\ calls'["signin"] = calls["signin"]
      <4>1. calls["signin"] = None
        BY <1>1, <3>2 DEF DoubtInv
      <4> QED BY <3>2, <4>1
    <3> QED BY <3>1, <3>2
  <2>4. calls'["load"] \in {calls["load"], None} \/ calls'["load"].answer = None
    BY <1>2
  <2>5. calls'["signin"] \in {calls["signin"], None} \/ (calls'["signin"].answer = None /\ login')
    BY <1>2
  <2>6. login' \/ login' = login
    OBVIOUS
  <2>7. op' = op \/ op' = None \/ op'.answer = None
    OBVIOUS
  <2> QED BY <1>1, <2>3, <2>4, <2>5, <2>6, <2>7, DoubtStep
<1> QED BY <1>1, <1>3, <1>4, <1>5, <1>6 DEF SessionInv

LEMMA SendShape ==
    ASSUME TypeOK, NEW kind \in Kinds, NEW k \in Keys \cup {None}, NEW carried \in Drafts, Send(kind, k, carried)
    PROVE  /\ calls' \in CallTables /\ calls'[kind].answer = None /\ calls'[kind].of = k
           /\ \A other \in Kinds \ {kind} : calls'[other] = calls[other]
<1> DEFINE Entries == [of: Keys \cup {None}, staged: Drafts, was: BOOLEAN, answer: Shown \cup {None}]
<1>1. Call(k, carried) \in Entries /\ Call(k, carried).answer = None /\ Call(k, carried).of = k
  BY DEF Call, TypeOK
<1>2. calls' = [calls EXCEPT ![kind] = Call(k, carried)]
  BY DEF Send
<1>3. calls \in [Kinds -> Entries \cup {None}]
  BY DEF TypeOK, CallTables
<1> HIDE DEF Entries
<1>4. /\ calls' \in [Kinds -> Entries \cup {None}] /\ calls'[kind] = Call(k, carried)
      /\ \A other \in Kinds \ {kind} : calls'[other] = calls[other]
  BY <1>1, <1>2, <1>3
<1>5. calls' \in CallTables
  BY <1>4 DEF CallTables, Entries
<1> QED BY <1>1, <1>4, <1>5

LEMMA ForeignStep ==
    ASSUME SessionInv, NEW f \in Foreigns, Foreign(f[1], f[2])
    PROVE  SessionInv'
<1>1. TypeOK
  BY DEF SessionInv
<1>2. /\ foreign' = foreign + 1 /\ log' = Append(log, [Last(log) EXCEPT ![f[1]] = f[2]])
      /\ UNCHANGED <<view, adopting, op, calls, flags, login, error, secret, doubts, bounds>>
  BY DEF Foreign, Grows
<1>3. [Last(log) EXCEPT ![f[1]] = f[2]] \in Workspaces
  <2>1. f[1] \in Keys /\ f[2] \in Contents
    BY SessionAssumption
  <2> QED BY <1>1, <2>1, ServerTyped DEF Workspaces
<1>4. Grown(log, log') /\ log' \in Seq(Workspaces) /\ log' # << >>
  BY <1>1, <1>2, <1>3, ServerTyped
<1>5. TypeOK'
  BY <1>1, <1>2, <1>4 DEF TypeOK, view, flags, doubts, bounds
<1>6. UNCHANGED <<held, op, calls, login, blocked, secret>>
  BY <1>2 DEF view, flags
<1>7. UNCHANGED doubts
  BY <1>2
<1> QED BY <1>4, <1>5, <1>6, <1>7, PlainStep

LEMMA AdoptedStep ==
    ASSUME SessionInv, NEW p \in Policies, Adopted(p)
    PROVE  SessionInv'
<1>1. TypeOK
  BY DEF SessionInv
<1> DEFINE carried == IF Key = adopting /\ Dirty THEN draft ELSE None
<1>2. /\ adopting # None /\ adopting' = None /\ moves' = moves + 1 /\ acts' = acts
      /\ log' = Append(log, [Last(log) EXCEPT ![adopting] = p])
      /\ Send("adopted", adopting, carried)
      /\ UNCHANGED <<foreign, view, op, flags, login, error, secret, doubts>>
  BY DEF Adopted, Moves, Grows
<1>3. adopting \in Keys /\ carried \in Drafts
  BY <1>1, <1>2 DEF TypeOK, Drafts
<1> HIDE DEF carried
<1>4. [Last(log) EXCEPT ![adopting] = p] \in Workspaces
  BY <1>1, <1>3, ServerTyped DEF Workspaces, Contents
<1>5. Grown(log, log') /\ log' \in Seq(Workspaces) /\ log' # << >>
  BY <1>1, <1>2, <1>4, ServerTyped
<1>6. "adopted" \in Kinds /\ "signin" \in Kinds /\ "signin" # "adopted"
  BY DEF Kinds
<1>7. /\ calls' \in CallTables /\ calls'["adopted"].answer = None /\ calls'["adopted"].of = adopting
      /\ \A other \in Kinds \ {"adopted"} : calls'[other] = calls[other]
  BY <1>1, <1>2, <1>3, <1>6, SendShape
<1>8. TypeOK'
  BY <1>1, <1>2, <1>5, <1>7 DEF TypeOK, view, flags, doubts
<1>9. UNCHANGED <<held, op, login, blocked, secret>>
  BY <1>2 DEF view, flags
<1>10. UNCHANGED doubts
  BY <1>2
<1>11. calls'["signin"] = calls["signin"]
  BY <1>6, <1>7
<1>12. \A kind \in Kinds : calls'[kind] \in {calls[kind], None} \/ calls'[kind].answer = None
  BY <1>7
<1>13. calls'["adopted"].of \in Keys
  BY <1>3, <1>7
<1> QED BY <1>5, <1>8, <1>9, <1>10, <1>11, <1>12, <1>13, PlainStep

\* A call is sent.
LEMMA SentStep ==
    ASSUME SessionInv, Load \/ SignIn \/ NativeEdited
    PROVE  SessionInv'
<1>1. TypeOK
  BY DEF SessionInv
<1>2. PICK kind \in {"load", "signin", "edited"} : Send(kind, None, None) /\ (kind = "signin" => login)
  BY DEF Load, SignIn, NativeEdited
<1>3. /\ UNCHANGED <<server, view, adopting, op, flags, login, error, secret, doubts>>
      /\ moves' \in {moves, moves + 1} /\ acts' = acts
  BY DEF Load, SignIn, NativeEdited, Moves, bounds
<1>4. kind \in Kinds /\ None \in Drafts /\ "adopted" \in Kinds \ {kind} /\ "signin" \in Kinds
  BY <1>2 DEF Kinds, Drafts
<1>5. /\ calls' \in CallTables /\ calls'[kind].answer = None
      /\ \A other \in Kinds \ {kind} : calls'[other] = calls[other]
  BY <1>1, <1>2, <1>4, SendShape
<1>6. TypeOK'
  BY <1>1, <1>3, <1>5 DEF TypeOK, server, view, flags, doubts
<1>7. Grown(log, log') /\ UNCHANGED doubts /\ UNCHANGED <<held, op, login, blocked, secret>>
  BY <1>3 DEF server, view, flags, Grown
<1>8. \A other \in Kinds : calls'[other] \in {calls[other], None} \/ calls'[other].answer = None
  BY <1>5
<1>9. calls'["adopted"] = calls["adopted"]
  BY <1>4, <1>5
<1>10. calls'["signin"] = calls["signin"] \/ login'
  BY <1>2, <1>4, <1>5, <1>7
<1> QED BY <1>6, <1>7, <1>8, <1>9, <1>10, PlainStep

\* Another page is shown, or nothing.
LEMMA ShownStep ==
    ASSUME SessionInv, NEW h \in {held, Blank}, NEW pg \in Pages, NEW d \in Drafts, NEW s \in Stashes,
           Show(h, pg, d, s, calls), TypeOK',
           UNCHANGED <<log, op, doubts>>, secret' \in {secret, None},
           UNCHANGED <<login, blocked>> \/ (~login /\ login')
    PROVE  SessionInv'
<1>1. TypeOK
  BY DEF SessionInv
<1>2. h \in Shown /\ calls \in CallTables
  BY <1>1, ServerTyped DEF TypeOK
<1>3. /\ held' = h
      /\ \A kind \in Kinds \ {"open"} : calls'[kind] = calls[kind]
      /\ calls'["open"] \in {calls["open"], None} \/ calls'["open"].answer = None
  BY <1>1, <1>2, ShowShape
<1>4. \A kind \in Kinds : calls'[kind] \in {calls[kind], None} \/ calls'[kind].answer = None
  BY <1>3
<1>5. calls'["signin"] = calls["signin"] /\ calls'["adopted"] = calls["adopted"]
  BY <1>3 DEF Kinds
<1>6. Grown(log, log') /\ UNCHANGED doubts
  BY DEF Grown
<1> QED BY <1>3, <1>4, <1>5, <1>6, PlainStep

LEMMA ShowTyped ==
    ASSUME TypeOK, NEW h \in {held, Blank}, NEW pg \in Pages, NEW d \in Drafts, NEW s \in Stashes,
           Show(h, pg, d, s, calls)
    PROVE  ViewTyped
<1>1. h \in Shown /\ calls \in CallTables
  BY ServerTyped DEF TypeOK
<1> QED BY <1>1, ShowShape DEF ViewTyped

LEMMA PageStep ==
    ASSUME SessionInv, SignOut \/ ShowToAdd \/ \E pg \in Pages : Go(pg)
    PROVE  SessionInv'
<1>1. TypeOK
  BY DEF SessionInv
<1>2. held \in {held, Blank} /\ Blank \in {held, Blank} /\ Elsewhere \in Pages /\ None \in Drafts /\ None \in Stashes
      /\ draft \in Drafts /\ stash \in Stashes
  BY <1>1 DEF Pages, Drafts, Stashes, TypeOK
<1>3. CASE SignOut
  <2>1. /\ Show(Blank, Elsewhere, None, None, calls) /\ ~login
        /\ login' = TRUE /\ error' = FALSE /\ needs' = FALSE /\ blocked' = FALSE
        /\ secret' = None /\ adopting' = None
        /\ UNCHANGED <<server, op, doubts, bounds>>
    BY <1>3 DEF SignOut, Free, Ready
  <2>2. ViewTyped
    BY <1>1, <1>2, <2>1, ShowTyped
  <2>3. TypeOK'
    BY <1>1, <2>1, <2>2 DEF TypeOK, ViewTyped, server, doubts, bounds
  <2>4. UNCHANGED <<log, op, doubts>>
    BY <2>1 DEF server
  <2> QED BY <1>2, <2>1, <2>3, <2>4, ShownStep
<1>4. CASE ShowToAdd
  <2> DEFINE kept == IF Key # None /\ draft # None THEN [key |-> Key, policy |-> draft] ELSE stash
  <2>1. /\ Show(held, Elsewhere, draft, kept, calls) /\ adopting' = None
        /\ UNCHANGED <<server, op, flags, login, error, secret, doubts, bounds>>
    BY <1>4 DEF ShowToAdd
  <2>2. kept \in Stashes
    <3>1. Key # None => Key \in Keys
      BY DEF Key, Current
    <3>2. draft # None => draft \in Policies \cup {Native}
      BY <1>2 DEF Drafts
    <3> QED BY <1>2, <3>1, <3>2 DEF Stashes
  <2> HIDE DEF kept
  <2>3. ViewTyped
    BY <1>1, <1>2, <2>1, <2>2, ShowTyped
  <2>4. TypeOK'
    BY <1>1, <2>1, <2>3 DEF TypeOK, ViewTyped, server, flags, doubts, bounds
  <2>5. UNCHANGED <<log, op, doubts>> /\ UNCHANGED <<login, blocked>> /\ secret' = secret
    BY <2>1 DEF server, flags
  <2> QED BY <1>2, <2>1, <2>2, <2>4, <2>5, ShownStep
<1>5. ASSUME NEW pg \in Pages, Go(pg) PROVE SessionInv'
  <2>1. /\ Show(held, pg, draft, stash, calls) /\ moves' = moves + 1 /\ acts' = acts
        /\ UNCHANGED <<server, adopting, op, flags, login, error, secret, doubts>>
    BY <1>5 DEF Go, Moves
  <2>2. ViewTyped
    BY <1>1, <1>2, <2>1, ShowTyped
  <2>3. TypeOK'
    BY <1>1, <2>1, <2>2 DEF TypeOK, ViewTyped, server, flags, doubts
  <2>4. UNCHANGED <<log, op, doubts>> /\ UNCHANGED <<login, blocked>> /\ secret' = secret
    BY <2>1 DEF server, flags
  <2> QED BY <1>2, <2>1, <2>3, <2>4, ShownStep
<1> QED BY <1>3, <1>4, <1>5

\* An operation starts.
LEMMA StartStep ==
    ASSUME SessionInv, ~Busy, NEW o \in Operations, Start(o),
           o.answer = None, o.stage # "refresh", o.stage = "put" => Sends(log, o),
           o.stage = "create" => o.key \in Keys /\ secret = None
    PROVE  SessionInv'
<1>1. TypeOK
  BY DEF SessionInv
<1>2. /\ acts' = acts + 1 /\ op' = o /\ op = None
      /\ UNCHANGED <<moves, server, view, calls, adopting, flags, login, error, secret, doubts>>
  BY DEF Start, Busy
<1>3. TypeOK'
  BY <1>1, <1>2 DEF TypeOK, server, view, flags, doubts
<1>4. Grown(log, log') /\ log' = log /\ UNCHANGED <<held, calls, login, blocked, secret>> /\ UNCHANGED doubts
  BY <1>2 DEF Grown, server, view, flags
<1>5. o.stage = "put" => Sends(log', o)
  BY <1>4
<1> QED BY <1>2, <1>3, <1>4, <1>5, PlainStep

LEMMA OperationStep ==
    ASSUME SessionInv,
           PublishKey \/ Reread \/ (\E verify \in SUBSET Keys : SaveAside(verify)) \/ \E k \in Keys : SaveKey(k)
    PROVE  SessionInv'
<1>1. TypeOK /\ Past(log, held) /\ held \in Shown
  BY DEF SessionInv, PastInv, TypeOK
<1>2. Blank.keys \in Workspaces
  BY <1>1, ServerTyped DEF Shown
<1>3. Ready => held.rev \in 1..Len(log) /\ held.keys = log[held.rev]
  BY <1>1 DEF Ready, Past
<1>4. ManagedAt(held, page) => page \in Keys
  BY DEF ManagedAt, Current
<1>5. CASE PublishKey
  <2>1. CanPublish /\ draft # None
    BY <1>5 DEF PublishKey
  <2>2. PICK p \in IF draft = Native THEN Policies ELSE {draft} :
           Start(Operation("publish", page, "put", [held.keys EXCEPT ![page] = p], {page}))
    BY <1>5 DEF PublishKey
  <2>3. page \in Keys /\ ~Busy /\ p \in Policies /\ Ready
    BY <1>1, <1>4, <2>1, <2>2 DEF CanPublish, Free, TypeOK, Drafts
  <2> DEFINE sent == [held.keys EXCEPT ![page] = p]
             o == Operation("publish", page, "put", sent, {page})
  <2>4. sent \in Workspaces /\ \A k \in Keys \ {page} : sent[k] = held.keys[k]
    BY <1>1, <2>3 DEF Shown, Workspaces, Contents
  <2>5. Start(o)
    BY <2>2
  <2> HIDE DEF sent
  <2>6. o \in Operations /\ o.answer = None /\ o.stage = "put" /\ o.rev = held.rev /\ o.key = page /\ o.next = sent
    BY <1>1, <2>3, <2>4 DEF Operation, Operations, Shown, Stages
  <2> HIDE DEF o
  <2>7. Sends(log, o)
    BY <1>3, <2>3, <2>4, <2>6 DEF Sends
  <2> QED BY <2>3, <2>5, <2>6, <2>7, StartStep
<1>6. CASE Reread
  <2> DEFINE o == Operation("reread", page, "check", Blank.keys, {page})
  <2>1. Start(o) /\ ~Busy /\ page \in Keys
    BY <1>4, <1>6 DEF Reread
  <2>2. o \in Operations /\ o.answer = None /\ o.stage = "check"
    BY <1>1, <1>2, <2>1 DEF Operation, Operations, Shown, Stages
  <2> HIDE DEF o
  <2> QED BY <2>1, <2>2, StartStep
<1>7. ASSUME NEW verify \in SUBSET Keys, SaveAside(verify) PROVE SessionInv'
  <2> DEFINE o == Operation("aside", None, "put", held.keys, verify)
  <2>1. Start(o) /\ ~Busy /\ Ready
    BY <1>7 DEF SaveAside, Free
  <2>2. o \in Operations /\ o.answer = None /\ o.stage = "put" /\ o.rev = held.rev /\ o.next = held.keys
    BY <1>1 DEF Operation, Operations, Shown, Stages
  <2> HIDE DEF o
  <2>3. Sends(log, o)
    BY <1>3, <2>1, <2>2 DEF Sends
  <2> QED BY <2>1, <2>2, <2>3, StartStep
<1>8. ASSUME NEW k \in Keys, SaveKey(k) PROVE SessionInv'
  <2> DEFINE o == Operation("create", k, "create", Blank.keys, {})
  <2>1. Start(o) /\ ~Busy /\ secret = None
    BY <1>8 DEF SaveKey, Free
  <2>2. o \in Operations /\ o.answer = None /\ o.stage = "create" /\ o.key = k
    BY <1>1, <1>2 DEF Operation, Operations, Shown, Stages
  <2> HIDE DEF o
  <2> QED BY <2>1, <2>2, StartStep
<1> QED BY <1>5, <1>6, <1>7, <1>8

\* Nothing but the composer, a dialog or nothing at all changes.
LEMMA QuietStep ==
    ASSUME SessionInv,
           \/ EditSelection \/ (\E p \in Policies : Touch(p)) \/ CloseEditor
           \/ OpenAdoption \/ CloseAdoption \/ CloseSecret \/ UNCHANGED vars
    PROVE  SessionInv'
<1>1. TypeOK
  BY DEF SessionInv
<1>2. UNCHANGED <<server, held, page, stash, op, calls, flags, login, error, doubts, acts>>
  BY DEF EditSelection, Touch, CloseEditor, OpenAdoption, CloseAdoption, CloseSecret, Moves,
         vars, server, view, flags, doubts, bounds
<1>3. editing' \in BOOLEAN /\ asked' \in BOOLEAN /\ moves' \in Nat /\ secret' \in {secret, None}
  <2>1. editing' \in {editing, TRUE, FALSE} /\ asked' \in {asked, TRUE, FALSE}
    BY DEF EditSelection, Touch, CloseEditor, OpenAdoption, CloseAdoption, CloseSecret, vars, view
  <2>2. moves' \in {moves, moves + 1}
    BY DEF EditSelection, Touch, CloseEditor, OpenAdoption, CloseAdoption, CloseSecret, Moves, vars, bounds
  <2>3. secret' \in {secret, None}
    BY DEF EditSelection, Touch, CloseEditor, OpenAdoption, CloseAdoption, CloseSecret, vars
  <2>4. editing \in BOOLEAN /\ asked \in BOOLEAN /\ moves \in Nat
    BY <1>1 DEF TypeOK
  <2>5. editing' \in BOOLEAN /\ asked' \in BOOLEAN
    BY <2>1, <2>4, Zenon
  <2> QED BY <2>2, <2>3, <2>4, <2>5
<1>4. draft' \in Drafts
  <2>1. page \in Keys => held.keys[page] \in Policies \cup {Native, Gone}
    BY <1>1 DEF TypeOK, Shown, Workspaces, Contents
  <2>2. Dirty => held.keys[page] # Gone /\ page \in Keys
    BY SessionAssumption DEF Dirty, Key, Current
  <2>3. Dirty => held.keys[page] \in Drafts
    BY <2>1, <2>2 DEF Drafts
  <2>4. CASE CloseEditor
    <3>1. draft' = IF Dirty THEN held.keys[page] ELSE draft
      BY <2>4 DEF CloseEditor
    <3> QED BY <1>1, <2>3, <3>1 DEF TypeOK
  <2>5. CASE \E p \in Policies : Touch(p)
    BY <2>5 DEF Touch, Drafts
  <2>6. CASE EditSelection \/ OpenAdoption \/ CloseAdoption \/ CloseSecret \/ UNCHANGED vars
    <3>1. draft' = draft
      BY <2>6 DEF EditSelection, OpenAdoption, CloseAdoption, CloseSecret, vars, view
    <3> QED BY <1>1, <3>1 DEF TypeOK
  <2> QED BY <2>4, <2>5, <2>6
<1>5. adopting' \in Keys \cup {None}
  <2>1. CASE OpenAdoption
    <3>1. adopting' = page /\ page \in Keys
      BY <2>1, SessionAssumption DEF OpenAdoption, Key, Current
    <3> QED BY <3>1
  <2>2. CASE CloseAdoption
    BY <2>2 DEF CloseAdoption
  <2>3. CASE EditSelection \/ (\E p \in Policies : Touch(p)) \/ CloseEditor \/ CloseSecret \/ UNCHANGED vars
    <3>1. adopting' = adopting
      BY <2>3 DEF EditSelection, Touch, CloseEditor, CloseSecret, vars
    <3> QED BY <1>1, <3>1 DEF TypeOK
  <2> QED BY <2>1, <2>2, <2>3
<1>6. TypeOK'
  <2>1. secret' \in Keys \cup {None}
    BY <1>1, <1>3 DEF TypeOK
  <2> QED BY <1>1, <1>2, <1>3, <1>4, <1>5, <2>1 DEF TypeOK, server, flags, doubts
<1>7. Grown(log, log') /\ UNCHANGED <<held, op, calls, login, blocked>> /\ UNCHANGED doubts
  BY <1>2 DEF Grown, server, flags
<1> QED BY <1>3, <1>6, <1>7, PlainStep

-----------------------------------------------------------------------------
(* The theorems.                                                           *)

LEMMA SessionStarts == Init => SessionInv
<1> SUFFICES ASSUME Init PROVE SessionInv
  OBVIOUS
<1>1. PICK w \in FirstKeys : log = <<w>>
  BY DEF Init
<1>2. w \in Workspaces /\ log \in Seq(Workspaces) /\ log # << >> /\ Len(log) = 1
  BY <1>1, SessionAssumption
<1>3. /\ held = Blank /\ page \in FirstPages /\ draft = None /\ stash = None /\ editing = FALSE /\ adopting = None
      /\ op = None /\ needs = FALSE /\ blocked = FALSE /\ login = FALSE /\ error = FALSE /\ secret = None
      /\ asked = FALSE /\ doubt = 0 /\ overtaken = FALSE /\ foreign = 0 /\ moves = 0 /\ acts = 0
      /\ calls = [kind \in Kinds |-> IF kind = "load" THEN Call(None, None) ELSE None]
  BY DEF Init
<1>4. Blank \in Shown /\ Blank.rev = 0
  BY DEF Blank, Shown, Workspaces, Contents
<1> DEFINE Entries == [of: Keys \cup {None}, staged: Drafts, was: BOOLEAN, answer: Shown \cup {None}]
<1>5. /\ Call(None, None) \in Entries /\ Call(None, None).answer = None
  BY <1>3 DEF Call, Drafts
<1> HIDE DEF Entries
<1>6. /\ calls \in [Kinds -> Entries \cup {None}]
      /\ \A kind \in Kinds : calls[kind] = None \/ calls[kind].answer = None
      /\ calls["signin"] = None /\ calls["adopted"] = None
  BY <1>3, <1>5 DEF Kinds
<1>7. calls \in CallTables
  BY <1>6 DEF CallTables, Entries
<1>8. TypeOK
  BY <1>2, <1>3, <1>4, <1>7, SessionAssumption DEF TypeOK, Drafts, Stashes
<1>9. PastInv /\ SendsInv /\ KeyInv
  BY <1>3, <1>4, <1>6 DEF PastInv, Past, SendsInv, KeyInv, Brings
<1>10. DoubtInv
  BY <1>2, <1>3, <1>6 DEF DoubtInv, Brings, Kinds
<1> QED BY <1>8, <1>9, <1>10 DEF SessionInv

LEMMA SessionStep ==
    ASSUME SessionInv, [Next]_vars
    PROVE  SessionInv'
<1>1. CASE Operator
  <2>1. CASE Load \/ SignIn \/ NativeEdited
    BY <2>1, SentStep
  <2>2. CASE SignOut \/ ShowToAdd \/ \E pg \in Pages : Go(pg)
    BY <2>2, PageStep
  <2>3. CASE PublishKey \/ Reread \/ (\E verify \in SUBSET Keys : SaveAside(verify)) \/ \E k \in Keys : SaveKey(k)
    BY <2>3, OperationStep
  <2>4. CASE \/ EditSelection \/ (\E p \in Policies : Touch(p)) \/ CloseEditor
             \/ OpenAdoption \/ CloseAdoption \/ CloseSecret
    BY <2>4, QuietStep
  <2>5. CASE \E p \in Policies : Adopted(p)
    BY <2>5, AdoptedStep
  <2> QED BY <1>1, <2>1, <2>2, <2>3, <2>4, <2>5 DEF Operator
<1>2. CASE Server
  BY <1>2, ServeOpStep, ServeCallStep, ForeignStep DEF Server
<1>3. CASE Answers
  BY <1>3, OpAnsweredStep, CallAnsweredStep DEF Answers
<1>4. CASE UNCHANGED vars
  BY <1>4, QuietStep
<1> QED BY <1>1, <1>2, <1>3, <1>4 DEF Next

\* In every session: what is shown, brought and sent is the server's past, and a save left in doubt
\* closes publishing until its end is shown.
THEOREM SessionInvariant == Spec => []SessionInv
<1>1. Init => SessionInv
  BY SessionStarts
<1>2. SessionInv /\ [Next]_vars => SessionInv'
  BY SessionStep
<1> QED BY <1>1, <1>2, PTL DEF Spec

\* The panel's state keeps its shape (App.tsx).
THEOREM SessionTypeCorrect == Spec => []TypeOK
<1>1. SessionInv => TypeOK
  BY DEF SessionInv
<1> QED BY <1>1, SessionInvariant, PTL

\* "Reload before another write" (commit): no key is published while the outcome of an earlier save
\* is unknown, whatever answers were late or lost, but for the reload that save overtook.
THEOREM PublishesAreCertain == Spec => []PublishesOnCertainty
<1>1. SessionInv => PublishesOnCertainty
  <2> SUFFICES ASSUME SessionInv, CanPublish, ~overtaken PROVE doubt = 0
    BY DEF PublishesOnCertainty
  <2>1. ~blocked /\ ~login /\ ~InDoubt
    BY DEF CanPublish, Free, Ready, Busy, InDoubt
  <2> QED BY <2>1 DEF SessionInv, DoubtInv
<1> QED BY <1>1, SessionInvariant, PTL

\* Every save carries the whole workspace, and yet it changes no key but the one it publishes: what
\* others wrote meanwhile is refused, what they wrote before was shown (commit, putWorkspace).
THEOREM SavesReplaceWhatWasSeen == Spec => SaveReplacesWhatWasSeen
<1> DEFINE Replaces == Busy /\ op' # op /\ op.stage = "put" /\ log' # log
                         => \A k \in Keys \ {op.key} : Last(log')[k] = Last(log)[k]
<1>1. SessionInv /\ [Next]_vars => Replaces
  <2> SUFFICES ASSUME SessionInv, [Next]_vars, Busy, op' # op, op.stage = "put", log' # log
               PROVE  \A k \in Keys \ {op.key} : Last(log')[k] = Last(log)[k]
    OBVIOUS
  <2>1. TypeOK /\ KeyInv /\ SendsInv
    BY DEF SessionInv
  <2>2. ~UNCHANGED <<log>>
    OBVIOUS
  <2>3. ServeOp
    <3>1. ~UNCHANGED server /\ ~UNCHANGED op
      BY DEF server
    <3>2. ~Answers
      BY <3>1 DEF Answers, OpAnswered, CallAnswered
    <3>3. ~Operator
      BY <3>1 DEF Operator, Load, SignIn, SignOut, Go, EditSelection, Touch, CloseEditor, PublishKey,
                  SaveAside, Reread, SaveKey, Start, CloseSecret, OpenAdoption, CloseAdoption, ShowToAdd,
                  Adopted, NativeEdited
    <3>4. ~UNCHANGED vars
      BY DEF vars
    <3>5. Server
      BY <3>2, <3>3, <3>4 DEF Next
    <3> QED BY <3>1, <3>5 DEF Server, Foreign, ServeCall
  <2>4. PICK o : OutcomeShape(o) /\ log' = o.log
    BY <2>1, <2>3, ServeOpShape
  <2>5. op.rev = Len(log) /\ log' = Append(log, op.next) /\ op.next \in Workspaces
    BY <2>1, <2>4 DEF OutcomeShape, TypeOK, Busy, Operations
  <2>6. Last(log') = op.next /\ Last(log) = log[Len(log)]
    BY <2>1, <2>5, ServerTyped
  <2>7. \A k \in Keys \ {op.key} : op.next[k] = log[op.rev][k]
    BY <2>1 DEF SendsInv, Sends, Busy
  <2> QED BY <2>5, <2>6, <2>7
<1>2. SessionInv /\ [Next]_vars => [Replaces]_vars
  BY <1>1
<1> QED BY <1>2, SessionInvariant, PTL DEF Spec, SaveReplacesWhatWasSeen

\* "your draft is preserved" (commit): no late answer but an adoption's changes the draft of the key
\* on the page, and the secret of a created key stays on screen until its dialog is closed.
THEOREM WorkOutlivesAnswers == Spec => WorkSurvives
<1>1. SessionInv /\ [Next]_vars => DraftIsKept
  <2> SUFFICES ASSUME SessionInv, Dirty, Key' = Key, draft' # draft
               PROVE  ~OpAnswered /\ \A kind \in Kinds \ {"adopted"} : ~CallAnswered(kind)
    BY DEF DraftIsKept
  <2>1. TypeOK /\ KeyInv /\ draft \in Drafts /\ stash \in Stashes /\ calls \in CallTables /\ page \in Pages
    BY DEF SessionInv, TypeOK
  <2>2. ASSUME OpAnswered PROVE FALSE
    <3>1. OpShape
      BY <2>1, <2>2, OpAnsweredShape
    <3>2. PICK h \in Shown, pg \in Pages : Show(h, pg, draft, stash, calls)
      BY <3>1 DEF OpShape, view
    <3> QED BY <2>1, <3>2, ShowShape
  <2>3. ASSUME NEW kind \in Kinds \ {"adopted"}, CallAnswered(kind) PROVE FALSE
    <3>1. CallShape(kind) /\ calls[kind] # None
      BY <2>1, <2>3, CallAnsweredShape, CallAnswers
    <3>2. Brings(kind) /\ Show(calls[kind].answer, page, draft, stash, Others(kind))
      BY <2>3, <3>1 DEF CallShape, view
    <3>3. calls[kind].answer \in Shown /\ Others(kind) \in CallTables
      BY <2>1, <3>1, <3>2, CallTyped DEF Brings
    <3> QED BY <2>1, <3>2, <3>3, ShowShape
  <2> QED BY <2>2, <2>3
<1>2. SessionInv /\ [Next]_vars => [SecretIsKept]_vars
  <2> SUFFICES ASSUME SessionInv, Next PROVE SecretIsKept
    BY DEF SecretIsKept, vars
  <2>1. TypeOK /\ KeyInv
    BY DEF SessionInv
  <2>2. OpAnswered => secret' = IF op.stage = "create" /\ op.answer.why = "ok" THEN op.key ELSE secret
    BY <2>1, OpAnsweredShape DEF OpShape
  <2>3. ASSUME secret # None, secret' # secret, ~CloseSecret PROVE FALSE
    <3>1. ~OpAnswered
      BY <2>1, <2>2, <2>3 DEF KeyInv, OpAnswered, Busy
    <3>2. ~Operator
      BY <2>3 DEF Operator, Load, SignIn, SignOut, Go, EditSelection, Touch, CloseEditor, PublishKey,
                  SaveAside, Reread, SaveKey, Start, OpenAdoption, CloseAdoption, ShowToAdd,
                  Adopted, NativeEdited, Free
    <3>3. ~Server
      BY <2>3 DEF Server, ServeOp, ServeCall, Foreign
    <3> QED BY <2>3, <3>1, <3>2, <3>3 DEF Next, Answers, CallAnswered
  <2>4. ASSUME Busy, op.stage = "create", op.answer # None, op' # op, op.answer.why = "ok"
        PROVE  secret' = op.key
    <3>1. ~Operator
      BY <2>4 DEF Operator, Load, SignIn, SignOut, Go, EditSelection, Touch, CloseEditor, PublishKey, CanPublish,
                  SaveAside, Reread, SaveKey, Start, CloseSecret, OpenAdoption, CloseAdoption, ShowToAdd,
                  Adopted, NativeEdited
    <3>2. ~Server
      BY <2>4 DEF Server, ServeOp, ServeCall, Foreign
    <3>3. OpAnswered
      BY <2>4, <3>1, <3>2 DEF Next, Answers, CallAnswered
    <3> QED BY <2>2, <2>4, <3>3
  <2> QED BY <2>3, <2>4 DEF SecretIsKept
<1>3. SessionInv /\ [Next]_vars => [DraftIsKept /\ SecretIsKept]_vars
  BY <1>1, <1>2
<1> QED BY <1>3, SessionInvariant, PTL DEF Spec, WorkSurvives

----------------------------------------------------------------------------
(* The editor of a model card: what is shown, offered and reviewed is what  *)
(* the server does with the save.                                           *)

FileRows == [access : Accesses, takes : SUBSET Endpoints]

EditorTypeOK ==
    /\ file \in [id : {file.id}, name : {file.name}, rows : Seq(FileRows),
                 held : [TakenIds -> SUBSET Accesses], cat : Catalogues, discovered : SUBSET Accesses,
                 keys : {file.keys}, tied : SUBSET Accesses, rekeyed : SUBSET Accesses]
    /\ catalogue \in Catalogues
    /\ card # Nothing =>
          card \in [id : {card.id}, name : {card.name}, rows : Seq(Rows), typed : BOOLEAN,
                    borrowed : SUBSET Accesses]
    /\ staged \in [Targets -> Values \cup {Nothing}]

\* Nothing that is saved is another card's, nor, but for what was borrowed, that is offered.
OthersInv ==
    /\ \A i \in DOMAIN file.rows : file.rows[i].access \notin HeldByOthers
    /\ card # Nothing /\ ~card.typed =>
          \A i \in DOMAIN card.rows : card.rows[i].access \notin HeldByOthers \ card.borrowed

EditorInv == EditorTypeOK /\ OthersInv /\ OfferedIsAccepted /\ SavedIsAsShown

LEMMA SavedType ==
    ASSUME EditorTypeOK
    PROVE  /\ Saved \in Seq(Rows) /\ DOMAIN Saved = DOMAIN file.rows
           /\ \A i \in DOMAIN Saved :
                 /\ Saved[i].access = file.rows[i].access /\ Saved[i].access \in Accesses
                 /\ Saved[i].ref = file.cat.link[Saved[i].access] /\ Saved[i].ref \in Links
<1>1. DOMAIN file.rows = 1 .. Len(file.rows) /\ Len(file.rows) \in Nat
      BY DEF EditorTypeOK
<1>2. \A i \in DOMAIN file.rows : file.rows[i] \in FileRows
      BY DEF EditorTypeOK
<1>3. file.cat.link \in [Accesses -> Links]
      BY DEF EditorTypeOK, Catalogues
<1>4. \A i \in DOMAIN file.rows : Saved[i] \in Rows
      BY <1>2, <1>3 DEF Saved, Rows, FileRows
<1>5. Saved \in [1 .. Len(file.rows) -> Rows]
      BY <1>1, <1>4 DEF Saved
<1>6. Saved \in Seq(Rows)
      BY <1>1, <1>5, IsASeq
<1> QED
    BY <1>1, <1>2, <1>3, <1>6 DEF Saved, FileRows

Before(i, j) == IF j < i THEN j ELSE j + 1

\* Taking one element out of a sequence leaves the others in their order.
LEMMA RemoveAtKeeps ==
    ASSUME NEW S, NEW s \in Seq(S), NEW i \in DOMAIN s
    PROVE  /\ RemoveAt(s, i) \in Seq(S) /\ DOMAIN RemoveAt(s, i) = 1 .. Len(s) - 1
           /\ \A j \in DOMAIN RemoveAt(s, i) :
                 Before(i, j) \in DOMAIN s /\ RemoveAt(s, i)[j] = s[Before(i, j)]
<1>1. Len(s) \in Nat /\ DOMAIN s = 1 .. Len(s)
      OBVIOUS
<1>2. SubSeq(s, 1, i - 1) \in Seq(S) /\ SubSeq(s, i + 1, Len(s)) \in Seq(S)
      BY <1>1
<1> DEFINE a == SubSeq(s, 1, i - 1)
           b == SubSeq(s, i + 1, Len(s))
<1>3. /\ Len(a) = i - 1 /\ \A j \in 1 .. i - 1 : a[j] = s[j]
      BY <1>1
<1>4. /\ Len(b) = Len(s) - i /\ \A j \in 1 .. Len(s) - i : b[j] = s[i + j]
      BY <1>1
<1>5. a \in Seq(S) /\ b \in Seq(S)
      BY <1>2
<1> HIDE DEF a, b
<1>6. a \o b \in Seq(S) /\ Len(a \o b) = Len(s) - 1 /\ DOMAIN (a \o b) = 1 .. Len(s) - 1
      <2>1. a \o b \in Seq(S) /\ Len(a \o b) = Len(a) + Len(b)
            BY <1>5
      <2>2. DOMAIN (a \o b) = 1 .. Len(a \o b)
            BY <2>1
      <2>3. Len(a) + Len(b) = Len(s) - 1
            BY <1>1, <1>3, <1>4
      <2> QED BY <2>1, <2>2, <2>3
<1>7. ASSUME NEW j \in 1 .. Len(s) - 1
      PROVE  Before(i, j) \in DOMAIN s /\ (a \o b)[j] = s[Before(i, j)]
      <2>1. i \in Int /\ j \in Int
            BY <1>1
      <2>2. CASE j < i
            <3>1. (a \o b)[j] = a[j]
                  BY <1>3, <1>4, <1>5, <2>1, <2>2
            <3> QED BY <1>1, <1>3, <2>1, <2>2, <3>1 DEF Before
      <2>3. CASE ~(j < i)
            <3>1. (a \o b)[j] = b[j - (i - 1)]
                  BY <1>1, <1>3, <1>4, <1>5, <2>1, <2>3
            <3>2. j - (i - 1) \in 1 .. Len(s) - i
                  BY <1>1, <2>1, <2>3
            <3>3. b[j - (i - 1)] = s[i + (j - (i - 1))]
                  BY <1>4, <3>2
            <3>4. i + (j - (i - 1)) = j + 1 /\ j + 1 \in DOMAIN s
                  BY <1>1, <2>1, <3>2
            <3> QED BY <2>3, <3>1, <3>3, <3>4 DEF Before
      <2> QED BY <2>2, <2>3
<1> QED BY <1>6, <1>7 DEF RemoveAt, a, b

LEMMA PlacedKeeps ==
    ASSUME NEW S, NEW s \in Seq(S), NEW p \in [DOMAIN s -> DOMAIN s]
    PROVE  /\ Placed(s, p) \in Seq(S)
           /\ \A j \in DOMAIN Placed(s, p) : \E k \in DOMAIN s : Placed(s, p)[j] = s[k]
<1>1. Len(s) \in Nat /\ DOMAIN s = 1 .. Len(s)
      OBVIOUS
<1>2. Placed(s, p) \in [1 .. Len(s) -> S]
      BY <1>1 DEF Placed
<1> QED BY <1>1, <1>2, IsASeq DEF Placed

\* What a save makes of the links: the accesses it sends a reference for, and no other.
LEMMA LinkedEffect ==
    ASSUME EditorTypeOK, NEW cat \in Catalogues, NEW rows \in Seq(Rows),
           \A i \in DOMAIN rows : rows[i].access # Nothing
    PROVE  LET next == Linked(cat, rows)
           IN  /\ next \in Catalogues /\ next.own = cat.own /\ next.omits = cat.omits
               /\ next.listed \subseteq cat.listed \cup RowAccesses(rows)
               /\ \A a \in Accesses : next.link[a] # cat.link[a] =>
                     \E i \in DOMAIN rows : rows[i].access = a /\ Sent(rows)[i] # Nothing
               /\ \A i \in DOMAIN rows :
                     (/\ Sent(rows)[i] # Nothing
                      /\ \A j \in DOMAIN rows : rows[j].access = rows[i].access => j = i)
                     => next.link[rows[i].access] = LinkAsked(Sent(rows)[i])
<1> DEFINE sent == Sent(rows)
           new == {a \in Accesses : Naming(rows, a) # {} /\ Named(rows, a) # cat.link[a]}
           added == {a \in Accesses \ cat.listed : Naming(rows, a) # {}}
           next == Linked(cat, rows)
<1>1. \A i \in DOMAIN rows : rows[i] \in Rows /\ rows[i].access \in Accesses
      <2>1. \A i \in DOMAIN rows : rows[i] \in Rows
            OBVIOUS
      <2> QED BY <2>1 DEF Rows
<1>2. \A i \in DOMAIN rows : sent[i] \in Links \cup {Unlinked}
      BY <1>1 DEF Sent, Rows, Links
<1>3. ASSUME NEW a, Naming(rows, a) # {}
      PROVE  /\ Named(rows, a) \in Links
             /\ \E i \in DOMAIN rows : rows[i].access = a /\ sent[i] # Nothing
                                       /\ Named(rows, a) = LinkAsked(sent[i])
      <2>1. (CHOOSE i \in Naming(rows, a) : TRUE) \in Naming(rows, a)
            BY <1>3
      <2> QED BY <2>1, <1>2 DEF Links, LinkAsked, Naming, Named
<1>4. cat.link \in [Accesses -> Links] /\ cat.listed \subseteq Accesses /\ cat.configured \subseteq Accesses
      /\ cat.chosen \subseteq Accesses
      BY DEF Catalogues
<1>5. added \subseteq RowAccesses(rows)
      BY <1>3 DEF RowAccesses
<1>6. ASSUME NEW i \in DOMAIN rows, sent[i] # Nothing,
             \A j \in DOMAIN rows : rows[j].access = rows[i].access => j = i
      PROVE  Naming(rows, rows[i].access) = {i} /\ Named(rows, rows[i].access) = LinkAsked(sent[i])
      <2>1. Naming(rows, rows[i].access) = {i}
            BY <1>6 DEF Naming
      <2> QED BY <2>1 DEF Named
<1>7. /\ next.own = cat.own /\ next.omits = cat.omits
      /\ next.link = [a \in Accesses |-> IF a \in new THEN Named(rows, a) ELSE cat.link[a]]
      /\ next.listed = cat.listed \cup added
      BY DEF Linked, Catalogues
<1>8. next \in Catalogues
      BY <1>3, <1>4 DEF Linked, Catalogues
<1>9. \A i \in DOMAIN rows :
         (/\ sent[i] # Nothing
          /\ \A j \in DOMAIN rows : rows[j].access = rows[i].access => j = i)
         => next.link[rows[i].access] = LinkAsked(sent[i])
      BY <1>1, <1>6, <1>7
<1>10. \A a \in Accesses : next.link[a] # cat.link[a] =>
         \E i \in DOMAIN rows : rows[i].access = a /\ sent[i] # Nothing
      BY <1>3, <1>7
<1> QED BY <1>5, <1>7, <1>8, <1>9, <1>10

Corrections == [Targets -> Values \cup {Nothing}]

LEMMA CorrectedEffect ==
    ASSUME NEW cat \in Catalogues, staged \in Corrections
    PROVE  /\ Corrected(cat) \in Catalogues
           /\ \A t \in Targets : Corrected(cat).own[t] = IF staged[t] # Nothing THEN staged[t] ELSE cat.own[t]
           /\ Corrected(cat).link = cat.link /\ Corrected(cat).omits = cat.omits
           /\ Corrected(cat).listed = cat.listed
           /\ cat = catalogue => Corrected(cat) = View
BY DEF Corrected, View, Catalogues, Corrections

\* The draft's rows, ready to be saved, are each the only one of their access.
LEMMA OneRowEach ==
    ASSUME NEW rows, UniqueIds(rows)
    PROVE  \A i, j \in DOMAIN rows : rows[i].access = rows[j].access => i = j
BY DEF UniqueIds

\* The server composes of the file it wrote what the editor showed.
LEMMA SaveAppliesShown ==
    ASSUME EditorTypeOK, card # Nothing, Complete(card), UniqueIds(card.rows), catalogue = file.cat
    PROVE  LET next == Linked(Corrected(file.cat), card.rows)
           IN  \A a \in DOMAIN ShownFacts : ShownFacts[a] = Effective(next, a)
<1> DEFINE rows == card.rows
           cat == Corrected(file.cat)
           next == Linked(cat, rows)
<1>1. /\ rows \in Seq(Rows) /\ \A i \in DOMAIN rows : rows[i].access # Nothing
      /\ file.cat \in Catalogues /\ staged \in Corrections
      BY DEF EditorTypeOK, Complete, Corrections
<1>2. /\ cat \in Catalogues /\ cat = View /\ cat.link = file.cat.link /\ cat.omits = file.cat.omits
      /\ cat.listed = file.cat.listed
      BY <1>1, CorrectedEffect
<1>3. /\ next \in Catalogues /\ next.own = cat.own /\ next.omits = cat.omits
      /\ \A a \in Accesses : next.link[a] # cat.link[a] =>
            \E i \in DOMAIN rows : rows[i].access = a /\ Sent(rows)[i] # Nothing
      /\ \A i \in DOMAIN rows :
            (/\ Sent(rows)[i] # Nothing
             /\ \A j \in DOMAIN rows : rows[j].access = rows[i].access => j = i)
            => next.link[rows[i].access] = LinkAsked(Sent(rows)[i])
      BY <1>1, <1>2, LinkedEffect
<1>4. \A i, j \in DOMAIN rows : rows[i].access = rows[j].access => i = j
      BY OneRowEach
<1> SUFFICES ASSUME NEW a \in DOMAIN ShownFacts
             PROVE  ShownFacts[a] = Effective(next, a)
    OBVIOUS
<1>5. /\ a \in Held(rows) /\ a \in catalogue.listed
      /\ ShownFacts[a] = Fact(View, a, LinkOf(View, RowOf(rows, a)))
      BY DEF ShownFacts
<1>6. PICK i \in DOMAIN rows : rows[i].access = a
      BY <1>5 DEF Held, RowAccesses
<1>7. RowOf(rows, a) = rows[i]
      BY <1>4, <1>6 DEF RowOf
<1>8. a \in Accesses /\ rows[i] \in Rows /\ rows[i].ref \in Links \cup {Unlinked}
      <2>1. rows[i] \in Rows
            BY <1>1
      <2> QED BY <1>1, <1>6, <2>1 DEF Rows
<1>9. LinkOf(cat, rows[i]) = IF rows[i].ref # Nothing THEN rows[i].ref ELSE cat.link[a]
      BY <1>2, <1>5, <1>6 DEF LinkOf
<1>10. next.link[a] = LinkAsked(LinkOf(cat, rows[i]))
      <2>0. cat.link[a] \in Links /\ LinkAsked(cat.link[a]) = cat.link[a]
            BY <1>2, <1>8, EditorAssumption DEF Catalogues, LinkAsked
      <2>1. CASE Sent(rows)[i] # Nothing
            <3>1. Sent(rows)[i] = rows[i].ref
                  BY <2>1 DEF Sent
            <3> QED BY <1>3, <1>4, <1>6, <1>9, <2>1, <3>1
      <2>2. CASE Sent(rows)[i] = Nothing
            <3>1. next.link[a] = cat.link[a]
                  BY <1>3, <1>4, <1>6, <1>8, <2>2
            <3>2. rows[i].ref = Nothing \/ \E s \in SavedRows(a) : s.ref = rows[i].ref
                  BY <1>6, <2>2 DEF Sent
            <3>3. \A s \in SavedRows(a) : s.ref = file.cat.link[a]
                  BY SavedType DEF SavedRows
            <3> QED BY <1>2, <1>9, <2>0, <3>1, <3>2, <3>3
      <2> QED BY <2>1, <2>2
<1>11. LinkOf(cat, rows[i]) \in Links \cup {Unlinked}
      BY <1>2, <1>8, <1>9 DEF Catalogues
<1>12. Fact(cat, a, LinkOf(cat, rows[i])) = Effective(next, a)
      BY <1>3, <1>10, <1>11, EditorAssumption DEF Fact, Inherited, Effective, LinkAsked, Links, Targets
<1> QED BY <1>2, <1>5, <1>7, <1>12

\* What a save changes was in the review.
LEMMA SaveWasReviewed ==
    ASSUME EditorTypeOK, card # Nothing, Complete(card)
    PROVE  LET next == Linked(Corrected(file.cat), card.rows)
               kept == {file.rows[i].access : i \in DOMAIN file.rows}
           IN  /\ {t \in Targets : file.cat.own[t] # next.own[t]} \subseteq Review.corrections
               /\ {a \in Accesses : file.cat.link[a] # next.link[a]}
                    \subseteq Review.links \cup (Review.accesses \ kept)
<1> DEFINE rows == card.rows
           cat == Corrected(file.cat)
           next == Linked(cat, rows)
           kept == {file.rows[i].access : i \in DOMAIN file.rows}
<1>1. /\ rows \in Seq(Rows) /\ \A i \in DOMAIN rows : rows[i].access # Nothing
      /\ file.cat \in Catalogues /\ staged \in Corrections
      BY DEF EditorTypeOK, Complete, Corrections
<1>2. /\ cat \in Catalogues /\ cat.link = file.cat.link
      /\ \A t \in Targets : cat.own[t] = IF staged[t] # Nothing THEN staged[t] ELSE file.cat.own[t]
      BY <1>1, CorrectedEffect
<1>3. /\ next.own = cat.own
      /\ \A a \in Accesses : next.link[a] # cat.link[a] =>
            \E i \in DOMAIN rows : rows[i].access = a /\ Sent(rows)[i] # Nothing
      BY <1>1, <1>2, LinkedEffect
<1> HIDE DEF cat, next
<1>4. {t \in Targets : file.cat.own[t] # next.own[t]} \subseteq Review.corrections
      BY <1>2, <1>3 DEF Review
<1>5. ASSUME NEW a \in Accesses, file.cat.link[a] # next.link[a]
      PROVE  a \in Review.links \cup (Review.accesses \ kept)
      <2>1. PICK i \in DOMAIN rows : rows[i].access = a /\ Sent(rows)[i] # Nothing
            BY <1>2, <1>3, <1>5
      <2>2. ~ \E s \in SavedRows(a) : s.ref = rows[i].ref
            BY <2>1 DEF Sent
      <2>3. CASE a \in RowAccesses(Saved)
            <3>1. \E s \in SavedRows(a) : s.ref # rows[i].ref
                  BY <2>2, <2>3 DEF SavedRows, RowAccesses
            <3>2. a \in LinkChanges(rows)
                  BY <2>1, <3>1 DEF LinkChanges
            <3> QED BY <3>2 DEF Review
      <2>4. CASE a \notin RowAccesses(Saved)
            <3>1. a \notin kept
                  BY <2>4, SavedType DEF RowAccesses
            <3>2. a \in RowAccesses(rows)
                  BY <2>1 DEF RowAccesses
            <3> QED BY <2>4, <3>1, <3>2 DEF Review
      <2> QED BY <2>3, <2>4
<1> QED BY <1>4, <1>5 DEF next, cat

LEMMA SaveShowsAndReviews ==
    ASSUME EditorTypeOK, Save
    PROVE  SavedIsAsShown'
<1> DEFINE next == Linked(Corrected(file.cat), card.rows)
<1>1. /\ card # Nothing /\ Complete(card) /\ UniqueIds(card.rows)
      BY DEF Save, CanSave
<1>2. /\ last'.ok = Accepts(card.rows) /\ last'.fresh = (catalogue = file.cat)
      /\ last'.review = Review /\ last'.shown = ShownFacts
      /\ last'.before = [rows |-> file.rows, cat |-> file.cat, name |-> file.name]
      /\ last'.after = IF Accepts(card.rows) THEN next ELSE file.cat
      BY DEF Save
<1>3. ShownIsApplied'
      <2>1. SavedOk' /\ last'.fresh => catalogue = file.cat /\ last'.after = next
            BY <1>2 DEF SavedOk
      <2>2. catalogue = file.cat => \A a \in DOMAIN ShownFacts : ShownFacts[a] = Effective(next, a)
            BY <1>1, SaveAppliesShown
      <2>3. ASSUME SavedOk', last'.fresh, NEW a \in DOMAIN last'.shown
            PROVE  last'.shown[a] = Effective(last'.after, a)
            BY <1>2, <2>1, <2>2, <2>3
      <2> QED BY <2>3 DEF ShownIsApplied, SavedOk, Effective
<1>4. ReviewListsChanges'
      <2> DEFINE kept == {file.rows[i].access : i \in DOMAIN file.rows}
      <2>1. /\ {t \in Targets : file.cat.own[t] # next.own[t]} \subseteq Review.corrections
            /\ {a \in Accesses : file.cat.link[a] # next.link[a]}
                 \subseteq Review.links \cup (Review.accesses \ kept)
            BY <1>1, SaveWasReviewed
      <2>2. last'.before.cat = file.cat /\ last'.before.rows = file.rows
            BY <1>2
      <2>3. SavedOk' => last'.after = next
            BY <1>2 DEF SavedOk
      <2> HIDE DEF next
      <2> QED BY <1>2, <2>1, <2>2, <2>3 DEF ReviewListsChanges, SavedOk
<1> QED BY <1>3, <1>4 DEF SavedIsAsShown

CardType(c) == c \in [id : {c.id}, name : {c.name}, rows : Seq(Rows), typed : BOOLEAN,
                      borrowed : SUBSET Accesses]

\* What one edit makes of the rows: rows as they were, perhaps one put in, which nobody else has
\* or which is borrowed.
EditKeeps ==
    /\ UNCHANGED <<file, catalogue, last>>
    /\ CardType(card')
    /\ card.typed => card'.typed
    /\ card.borrowed \subseteq card'.borrowed
    /\ ~card'.typed =>
          \A j \in DOMAIN card'.rows :
             \/ \E i \in DOMAIN card.rows : card'.rows[j].access = card.rows[i].access
             \/ card'.rows[j].access \notin HeldByOthers \ card'.borrowed

LEMMA StagedType ==
    ASSUME EditorTypeOK, NEW t \in Targets, NEW v \in Values, StageCorrection(t, v)
    PROVE  staged' \in Corrections
BY DEF EditorTypeOK, StageCorrection, Corrections

LEMMA FilledKeeps ==
    ASSUME NEW rows \in Seq(Rows), NEW row \in Rows
    PROVE  /\ Append(Filled(rows), row) \in Seq(Rows)
           /\ \A j \in DOMAIN Append(Filled(rows), row) :
                 \/ Append(Filled(rows), row)[j] = row
                 \/ \E i \in DOMAIN rows : Append(Filled(rows), row)[j] = rows[i]
<1>1. CASE rows = <<BlankRow>>
      <2>1. Filled(rows) = <<>>
            BY <1>1 DEF Filled
      <2> QED BY <2>1
<1>2. CASE rows # <<BlankRow>>
      <2>1. Filled(rows) = rows
            BY <1>2 DEF Filled
      <2> QED BY <2>1
<1> QED BY <1>1, <1>2

LEMMA ChooseIdKeeps ==
    ASSUME EditorTypeOK, NEW i, NEW name, ChooseId(i, name)
    PROVE  EditKeeps /\ staged' = staged
<1>1. CardType(card) /\ card # Nothing
      BY DEF ChooseId, Editing, EditorTypeOK, CardType
<1>2. card' = [card EXCEPT !.id = i, !.name = name] /\ UNCHANGED <<file, catalogue, last, staged>>
      BY DEF ChooseId, Edit
<1>3. /\ card'.rows = card.rows /\ card'.typed = card.typed
      /\ card'.borrowed = card.borrowed /\ CardType(card')
      BY <1>1, <1>2 DEF CardType
<1> QED BY <1>2, <1>3 DEF EditKeeps

LEMMA TypeNameKeeps ==
    ASSUME EditorTypeOK, NEW name, TypeName(name)
    PROVE  EditKeeps /\ staged' = staged
<1>1. CardType(card) /\ card # Nothing
      BY DEF TypeName, Editing, EditorTypeOK, CardType
<1>2. card' = [card EXCEPT !.name = name] /\ UNCHANGED <<file, catalogue, last, staged>>
      BY DEF TypeName, Edit
<1>3. /\ card'.rows = card.rows /\ card'.typed = card.typed
      /\ card'.borrowed = card.borrowed /\ CardType(card')
      BY <1>1, <1>2 DEF CardType
<1> QED BY <1>2, <1>3 DEF EditKeeps

LEMMA AddOfferedKeeps ==
    ASSUME EditorTypeOK, NEW a \in Accesses, AddOffered(a)
    PROVE  EditKeeps /\ staged' = staged
<1>1. CardType(card) /\ card # Nothing /\ card.rows \in Seq(Rows)
      BY DEF AddOffered, Editing, EditorTypeOK, CardType
<1>2. PICK row \in (IF SavedRows(a) # {} THEN SavedRows(a) ELSE {NewRow(a)}) :
         \E p \in Orders(Append(Filled(card.rows), row)) :
            Edit([card EXCEPT !.rows = Placed(Append(Filled(card.rows), row), p),
                              !.borrowed = @ \cup ({a} \cap HeldAs(card.id))])
      BY DEF AddOffered
<1> DEFINE rows == Append(Filled(card.rows), row)
           borrowed == card.borrowed \cup ({a} \cap HeldAs(card.id))
<1>3. PICK p \in Orders(rows) :
         Edit([card EXCEPT !.rows = Placed(rows, p), !.borrowed = borrowed])
      BY <1>2
<1>4. row \in Rows /\ row.access = a
      <2>1. CASE SavedRows(a) # {}
            <3>1. row \in SavedRows(a)
                  BY <1>2, <2>1
            <3>2. \A i \in DOMAIN Saved : Saved[i] \in Rows
                  BY SavedType
            <3> QED BY <3>1, <3>2 DEF SavedRows
      <2>2. CASE SavedRows(a) = {}
            <3>1. row = NewRow(a)
                  BY <1>2, <2>2
            <3>2. View.link[a] \in Links
                  BY DEF View, EditorTypeOK, Catalogues
            <3> QED BY <3>1, <3>2, EditorAssumption DEF NewRow, Rows
      <2> QED BY <2>1, <2>2
<1>5. a \notin HeldByOthers \ borrowed
      <2>1. a \notin HeldBeside(card.id)
            BY DEF AddOffered, AlsoAvailable, Matching
      <2> QED BY <2>1 DEF HeldByOthers, HeldBeside, HeldAs
<1>0. borrowed \in SUBSET Accesses /\ card.borrowed \subseteq borrowed
      BY <1>1 DEF CardType
<1>6. /\ rows \in Seq(Rows)
      /\ \A j \in DOMAIN rows : rows[j] = row \/ \E i \in DOMAIN card.rows : rows[j] = card.rows[i]
      BY <1>1, <1>4, FilledKeeps
<1>7. p \in [DOMAIN rows -> DOMAIN rows]
      BY DEF Orders
<1> HIDE DEF rows, borrowed
<1>8. /\ Placed(rows, p) \in Seq(Rows)
      /\ \A j \in DOMAIN Placed(rows, p) : \E k \in DOMAIN rows : Placed(rows, p)[j] = rows[k]
      BY <1>6, <1>7, PlacedKeeps
<1>9. card' = [card EXCEPT !.rows = Placed(rows, p), !.borrowed = borrowed]
      /\ UNCHANGED <<file, catalogue, last, staged>>
      BY <1>3 DEF AddOffered, Edit
<1>10. /\ card'.rows = Placed(rows, p) /\ card'.typed = card.typed /\ card'.borrowed = borrowed
       /\ CardType(card')
      BY <1>0, <1>1, <1>8, <1>9 DEF CardType
<1>11. \A j \in DOMAIN card'.rows :
          \/ \E i \in DOMAIN card.rows : card'.rows[j].access = card.rows[i].access
          \/ card'.rows[j].access \notin HeldByOthers \ card'.borrowed
      BY <1>4, <1>5, <1>6, <1>8, <1>10
<1> QED BY <1>0, <1>9, <1>10, <1>11 DEF EditKeeps

LEMMA RemoveRowKeeps ==
    ASSUME EditorTypeOK, NEW i, RemoveRow(i)
    PROVE  EditKeeps /\ staged' = staged
<1>1. CardType(card) /\ card # Nothing /\ card.rows \in Seq(Rows)
      BY DEF RemoveRow, Editing, EditorTypeOK, CardType
<1>2. card' = [card EXCEPT !.rows = RemoveAt(@, i)] /\ UNCHANGED <<file, catalogue, last, staged>>
      /\ i \in DOMAIN card.rows
      BY DEF RemoveRow, Edit
<1>3. /\ RemoveAt(card.rows, i) \in Seq(Rows)
      /\ \A j \in DOMAIN RemoveAt(card.rows, i) :
            Before(i, j) \in DOMAIN card.rows /\ RemoveAt(card.rows, i)[j] = card.rows[Before(i, j)]
      BY <1>1, <1>2, RemoveAtKeeps
<1>4. /\ card'.rows = RemoveAt(card.rows, i) /\ card'.typed = card.typed
      /\ card'.borrowed = card.borrowed /\ CardType(card')
      BY <1>1, <1>2, <1>3 DEF CardType
<1> QED BY <1>2, <1>3, <1>4 DEF EditKeeps

LEMMA SetEndpointsKeeps ==
    ASSUME EditorTypeOK, NEW i, NEW takes \in SUBSET Endpoints, SetEndpoints(i, takes)
    PROVE  EditKeeps /\ staged' = staged
<1>1. CardType(card) /\ card # Nothing /\ card.rows \in Seq(Rows)
      BY DEF SetEndpoints, Editing, EditorTypeOK, CardType
<1>2. card' = [card EXCEPT !.rows[i].takes = takes] /\ UNCHANGED <<file, catalogue, last, staged>>
      /\ i \in DOMAIN card.rows
      BY DEF SetEndpoints, Edit
<1> DEFINE rows == [card.rows EXCEPT ![i].takes = takes]
<1>3. card.rows[i] \in Rows
      BY <1>1, <1>2
<1>4. [card.rows[i] EXCEPT !.takes = takes] \in Rows
      /\ [card.rows[i] EXCEPT !.takes = takes].access = card.rows[i].access
      BY <1>3 DEF Rows
<1>5. rows \in Seq(Rows) /\ DOMAIN rows = DOMAIN card.rows
      /\ \A j \in DOMAIN rows : rows[j].access = card.rows[j].access
      BY <1>1, <1>2, <1>4
<1> HIDE DEF rows
<1>6. /\ card'.rows = rows /\ card'.typed = card.typed
      /\ card'.borrowed = card.borrowed /\ CardType(card')
      BY <1>1, <1>2, <1>5 DEF CardType, rows
<1> QED BY <1>2, <1>5, <1>6 DEF EditKeeps

LEMMA KeepAccessKeeps ==
    ASSUME EditorTypeOK, NEW i, NEW a \in Accesses, NEW ref \in Links \cup {Unlinked},
           NEW status \in {"Configured", "Unknown"}, NEW v \in Values \cup {Nothing},
           KeepAccess(i, a, ref, status, v)
    PROVE  EditKeeps /\ staged' \in Corrections
<1>1. CardType(card) /\ card # Nothing /\ card.rows \in Seq(Rows) /\ i \in DOMAIN card.rows
      BY DEF KeepAccess, Editing, EditorTypeOK, CardType
<1> DEFINE row == [access |-> a, takes |-> card.rows[i].takes, ref |-> ref, status |-> status]
           rows == [card.rows EXCEPT ![i] = row]
<1>2. PICK name : Edit([card EXCEPT !.name = name, !.rows = rows,
                                    !.typed = @ \/ row.access # card.rows[i].access])
      BY DEF KeepAccess
<1>3. row \in Rows
      <2>1. card.rows[i] \in Rows
            BY <1>1
      <2> QED BY <2>1 DEF Rows
<1>4. rows \in Seq(Rows) /\ DOMAIN rows = DOMAIN card.rows
      /\ \A j \in DOMAIN rows : rows[j] = IF j = i THEN row ELSE card.rows[j]
      BY <1>1, <1>3
<1>5. row.access = a
      OBVIOUS
<1> HIDE DEF row, rows
<1>6. /\ card'.rows = rows /\ card'.typed = (card.typed \/ a # card.rows[i].access)
      /\ card'.borrowed = card.borrowed /\ CardType(card') /\ UNCHANGED <<file, catalogue, last>>
      BY <1>1, <1>2, <1>4, <1>5 DEF CardType, Edit
<1>7. EditKeeps
      BY <1>4, <1>5, <1>6 DEF EditKeeps
<1>8. staged' \in Corrections
      <2>1. CASE v = Nothing
            BY <2>1 DEF KeepAccess, EditorTypeOK, Corrections
      <2>2. CASE v # Nothing
            <3>1. StageCorrection(a, v)
                  BY <2>2 DEF KeepAccess
            <3> QED BY <2>2, <3>1, StagedType DEF Targets
      <2> QED BY <2>1, <2>2
<1> QED BY <1>7, <1>8

LEMMA EnterManuallyKeeps ==
    ASSUME EditorTypeOK, NEW a \in Accesses, NEW takes \in SUBSET Endpoints, EnterManually(a, takes)
    PROVE  EditKeeps /\ staged' = staged
<1>1. CardType(card) /\ card # Nothing /\ card.rows \in Seq(Rows)
      BY DEF EnterManually, Editing, EditorTypeOK, CardType
<1> DEFINE row == [access |-> a, takes |-> takes, ref |-> Nothing, status |-> "Unknown"]
<1>2. card' = [card EXCEPT !.rows = Append(Filled(@), row), !.typed = TRUE]
      /\ UNCHANGED <<file, catalogue, last, staged>>
      BY DEF EnterManually, Edit
<1>3. row \in Rows
      BY DEF Rows, Links
<1> HIDE DEF row
<1>4. Append(Filled(card.rows), row) \in Seq(Rows)
      BY <1>1, <1>3, FilledKeeps
<1>5. card'.typed = TRUE /\ card'.borrowed = card.borrowed /\ CardType(card')
      BY <1>1, <1>2, <1>4 DEF CardType
<1> QED BY <1>2, <1>5 DEF EditKeeps

LEMMA CorrectKeeps ==
    ASSUME EditorTypeOK, NEW t \in Targets, NEW v \in Values, Correct(t, v)
    PROVE  EditKeeps /\ staged' \in Corrections
<1>1. CardType(card) /\ card' = card /\ UNCHANGED <<file, catalogue, last>>
      BY DEF Correct, Edit, Editing, EditorTypeOK, CardType
<1>2. staged' \in Corrections
      BY StagedType DEF Correct
<1> QED BY <1>1, <1>2 DEF EditKeeps

LEMMA EditStep ==
    ASSUME EditorInv, card # Nothing, EditKeeps, staged' \in Corrections
    PROVE  EditorInv'
<1>1. EditorTypeOK'
      BY DEF EditorInv, EditorTypeOK, EditKeeps, CardType, Corrections
<1>2. OthersInv'
      BY DEF EditorInv, OthersInv, HeldByOthers, EditKeeps
<1>3. OfferedIsAccepted' /\ SavedIsAsShown'
      <2>1. UNCHANGED <<last, file>>
            BY DEF EditKeeps
      <2> QED BY <2>1 DEF EditorInv, OfferedIsAccepted, SavedIsAsShown, ShownIsApplied, SavedOk,
                          ReviewListsChanges, Effective
<1> QED BY <1>1, <1>2, <1>3 DEF EditorInv

LEMMA ShownAsSaved ==
    ASSUME EditorInv, UNCHANGED <<file, catalogue, last>>, staged' = NoCorrection,
           card' = SavedCard
    PROVE  EditorInv'
<1>1. Saved \in Seq(Rows) /\ \A i \in DOMAIN Saved : Saved[i].access \notin HeldByOthers
      BY SavedType DEF EditorInv, OthersInv
<1>2. EditorTypeOK'
      BY <1>1 DEF EditorInv, EditorTypeOK, NoCorrection, SavedCard
<1>3. OthersInv'
      BY <1>1 DEF EditorInv, OthersInv, HeldByOthers, SavedCard
<1> QED BY <1>2, <1>3 DEF EditorInv, OfferedIsAccepted, SavedIsAsShown, ShownIsApplied, SavedOk,
                          ReviewListsChanges, Effective

LEMMA OpenStep ==
    ASSUME EditorInv, Open
    PROVE  EditorInv'
<1>1. UNCHANGED <<file, catalogue, last>> /\ staged' = NoCorrection
      BY DEF Open
<1>2. CASE Creating
      <2>1. card' = [id |-> Nothing, name |-> Nothing, rows |-> <<BlankRow>>, typed |-> FALSE,
                     borrowed |-> {}]
            BY <1>2 DEF Open
      <2>2. BlankRow \in Rows /\ BlankRow.access = Nothing
            BY DEF BlankRow, Rows, Links
      <2>3. EditorTypeOK'
            BY <1>1, <2>1, <2>2 DEF EditorInv, EditorTypeOK, NoCorrection
      <2>4. Nothing \notin HeldByOthers
            BY EditorAssumption DEF EditorInv, EditorTypeOK, HeldByOthers, Targets
      <2>5. OthersInv'
            BY <1>1, <2>1, <2>2, <2>4 DEF EditorInv, OthersInv, HeldByOthers
      <2> QED BY <1>1, <2>3, <2>5 DEF EditorInv, OfferedIsAccepted, SavedIsAsShown, ShownIsApplied,
                                      SavedOk, ReviewListsChanges, Effective
<1>3. CASE ~Creating
      BY <1>1, <1>3, ShownAsSaved DEF Open
<1> QED BY <1>2, <1>3

LEMMA CloseStep ==
    ASSUME EditorInv, Close
    PROVE  EditorInv'
<1>1. UNCHANGED <<file, catalogue, last>> /\ staged' = NoCorrection /\ card' = Nothing
      BY DEF Close
<1> QED BY <1>1 DEF EditorInv, EditorTypeOK, OthersInv, HeldByOthers, NoCorrection, OfferedIsAccepted,
                    SavedIsAsShown, ShownIsApplied, SavedOk, ReviewListsChanges, Effective

LEMMA SaveStep ==
    ASSUME EditorInv, Save
    PROVE  EditorInv'
<1> DEFINE next == Linked(Corrected(file.cat), card.rows)
           rows == [i \in DOMAIN card.rows |->
                      [access |-> card.rows[i].access, takes |-> card.rows[i].takes]]
<1>1. /\ card # Nothing /\ Complete(card) /\ UniqueIds(card.rows)
      /\ EditorTypeOK /\ CardType(card) /\ card.rows \in Seq(Rows)
      /\ file.cat \in Catalogues /\ staged \in Corrections
      BY DEF Save, CanSave, EditorInv, EditorTypeOK, CardType, Corrections
<1>2. /\ last'.ok = Accepts(card.rows) /\ last'.typed = card.typed
      /\ last'.lost = NotListed(card.rows) /\ last'.twice = HeldTwice(card.rows)
      /\ last'.untied = Untied(card.rows) /\ last'.unserved = Unserved(card.rows)
      /\ last'.borrowed = card.borrowed
      BY DEF Save
<1>3. IF Accepts(card.rows)
        THEN /\ file' = [file EXCEPT !.id = card.id, !.name = card.name, !.rows = rows, !.cat = next,
                                     !.keys = {[k EXCEPT !.chose = ChoiceLeft(k, card.rows)] : k \in @}]
             /\ card' = Nothing /\ staged' = NoCorrection
        ELSE UNCHANGED <<file, card, staged>>
      BY DEF Save
<1>4. catalogue' = catalogue
      BY DEF Save
<1>5. /\ \A i \in DOMAIN card.rows : card.rows[i] \in Rows /\ card.rows[i].access # Nothing
      BY <1>1 DEF Complete
<1>6. rows \in Seq(FileRows)
      <2>1. \A i \in DOMAIN card.rows : rows[i] \in FileRows
            BY <1>5 DEF Rows, FileRows
      <2>2. DOMAIN card.rows = 1 .. Len(card.rows) /\ Len(card.rows) \in Nat
            BY <1>1
      <2>3. rows \in [1 .. Len(card.rows) -> FileRows]
            BY <2>1, <2>2
      <2> QED BY <2>2, <2>3, IsASeq
<1>7. next \in Catalogues
      <2>1. Corrected(file.cat) \in Catalogues
            BY <1>1, CorrectedEffect
      <2> QED BY <1>1, <1>5, <2>1, LinkedEffect
<1>8. \A i \in DOMAIN rows : rows[i].access = card.rows[i].access
      OBVIOUS
<1>9. DOMAIN rows = DOMAIN card.rows
      OBVIOUS
<1> HIDE DEF next, rows
<1>10. EditorTypeOK'
      <2>1. CASE Accepts(card.rows)
            BY <1>1, <1>3, <1>4, <1>6, <1>7, <2>1 DEF EditorTypeOK, NoCorrection
      <2>2. CASE ~Accepts(card.rows)
            BY <1>1, <1>3, <1>4, <2>2 DEF EditorTypeOK
      <2> QED BY <2>1, <2>2
<1>11. OthersInv'
      <2>1. CASE Accepts(card.rows)
            <3>1. \A i \in DOMAIN rows : rows[i].access \notin HeldByOthers
                  BY <1>8, <1>9, <2>1 DEF Accepts, HeldTwice, RowAccesses
            <3>2. file'.rows = rows /\ file'.held = file.held /\ card' = Nothing
                  BY <1>1, <1>3, <2>1 DEF EditorTypeOK
            <3> QED BY <3>1, <3>2 DEF OthersInv, HeldByOthers
      <2>2. CASE ~Accepts(card.rows)
            BY <1>3, <2>2 DEF EditorInv, OthersInv, HeldByOthers
      <2> QED BY <2>1, <2>2
<1>12. OfferedIsAccepted'
      <2>1. ~card.typed => HeldTwice(card.rows) \subseteq card.borrowed
            BY <1>1 DEF EditorInv, OthersInv, HeldTwice, RowAccesses
      <2>2. \/ Accepts(card.rows) \/ NotListed(card.rows) # {} \/ HeldTwice(card.rows) # {}
            \/ Untied(card.rows) # {} \/ Unserved(card.rows) # {}
            BY <1>1 DEF Accepts
      <2> QED BY <1>2, <2>1, <2>2 DEF OfferedIsAccepted
<1>13. SavedIsAsShown'
      BY <1>1, SaveShowsAndReviews
<1> QED BY <1>10, <1>11, <1>12, <1>13 DEF EditorInv

LEMMA CatalogueStep ==
    ASSUME EditorInv,
           \/ LoadCatalogue
           \/ \E a \in Accesses, r \in Links, by \in BOOLEAN : ChangedElsewhere(a, r, by)
    PROVE  EditorInv'
<1>1. CASE LoadCatalogue
      <2>1. catalogue' = file.cat /\ UNCHANGED <<file, card, staged, last>>
            BY <1>1 DEF LoadCatalogue
      <2> QED BY <2>1 DEF EditorInv, EditorTypeOK, OthersInv, HeldByOthers, OfferedIsAccepted,
                          SavedIsAsShown, ShownIsApplied, SavedOk, ReviewListsChanges, Effective
<1>2. CASE \E a \in Accesses, r \in Links, by \in BOOLEAN : ChangedElsewhere(a, r, by)
      <2>1. PICK a \in Accesses, r \in Links, by \in BOOLEAN : ChangedElsewhere(a, r, by)
            BY <1>2
      <2>2. /\ file' = [file EXCEPT !.cat.link[a] = r,
                                    !.cat.chosen = IF by THEN @ \cup {a} ELSE @]
            /\ UNCHANGED <<catalogue, card, staged, last>> /\ card = Nothing
            BY <2>1 DEF ChangedElsewhere
      <2> DEFINE cat == [file.cat EXCEPT !.link[a] = r, !.chosen = IF by THEN @ \cup {a} ELSE @]
      <2>3. cat \in Catalogues
            BY DEF EditorInv, EditorTypeOK, Catalogues
      <2>4. file' = [file EXCEPT !.cat = cat]
            BY <2>2 DEF EditorInv, EditorTypeOK, Catalogues
      <2> HIDE DEF cat
      <2>5. EditorTypeOK'
            BY <2>2, <2>3, <2>4 DEF EditorInv, EditorTypeOK
      <2>6. file'.rows = file.rows /\ file'.held = file.held
            BY <2>4 DEF EditorInv, EditorTypeOK
      <2>7. OthersInv'
            BY <2>2, <2>6 DEF EditorInv, OthersInv, HeldByOthers
      <2> QED BY <2>2, <2>5, <2>7 DEF EditorInv, OfferedIsAccepted, SavedIsAsShown, ShownIsApplied,
                                      SavedOk, ReviewListsChanges, Effective
<1> QED BY <1>1, <1>2

LEMMA EditorInitial == EditorInit => EditorInv
<1> SUFFICES ASSUME EditorInit
             PROVE  EditorInv
    OBVIOUS
<1>1. EditorTypeOK
      BY EditorAssumption DEF EditorInit, EditorTypeOK, NoCorrection, FileRows
<1>2. OthersInv
      BY EditorAssumption DEF EditorInit, OthersInv, HeldByOthers
<1>3. OfferedIsAccepted /\ SavedIsAsShown
      BY DEF EditorInit, NoSave, OfferedIsAccepted, SavedIsAsShown, ShownIsApplied, SavedOk,
             ReviewListsChanges
<1> QED BY <1>1, <1>2, <1>3 DEF EditorInv

LEMMA EditorStep == EditorInv /\ [EditorNext]_editorVars => EditorInv'
<1> SUFFICES ASSUME EditorInv, [EditorNext]_editorVars
             PROVE  EditorInv'
    OBVIOUS
<1>0. EditorTypeOK /\ (staged' = staged => staged' \in Corrections)
      BY DEF EditorInv, EditorTypeOK, Corrections
<1>1. CASE Open
      BY <1>1, OpenStep
<1>2. ASSUME NEW i \in Ids, NEW name \in Names \cup {Nothing}, ChooseId(i, name)
      PROVE  EditorInv'
      BY <1>0, <1>2, ChooseIdKeeps, EditStep DEF ChooseId, Editing
<1>3. ASSUME NEW name \in Names \cup {Nothing}, TypeName(name)
      PROVE  EditorInv'
      BY <1>0, <1>3, TypeNameKeeps, EditStep DEF TypeName, Editing
<1>4. ASSUME NEW a \in Accesses, AddOffered(a)
      PROVE  EditorInv'
      BY <1>0, <1>4, AddOfferedKeeps, EditStep DEF AddOffered, Editing
<1>5. ASSUME NEW i \in 1 .. Cardinality(Accesses), RemoveRow(i) \/ DialogRemove(i)
      PROVE  EditorInv'
      BY <1>0, <1>5, RemoveRowKeeps, EditStep DEF RemoveRow, DialogRemove, Editing
<1>6. ASSUME NEW i \in 1 .. Cardinality(Accesses), NEW takes \in SUBSET Endpoints, SetEndpoints(i, takes)
      PROVE  EditorInv'
      BY <1>0, <1>6, SetEndpointsKeeps, EditStep DEF SetEndpoints, Editing
<1>7. ASSUME NEW i \in 1 .. Cardinality(Accesses), NEW a \in Accesses, NEW ref \in Links \cup {Unlinked},
             NEW status \in {"Configured", "Unknown"}, NEW v \in Values \cup {Nothing},
             KeepAccess(i, a, ref, status, v)
      PROVE  EditorInv'
      <2>1. EditKeeps /\ staged' \in Corrections
            BY <1>0, <1>7, KeepAccessKeeps
      <2>2. card # Nothing
            BY <1>7 DEF KeepAccess, Editing
      <2> QED BY <2>1, <2>2, EditStep
<1>8. ASSUME NEW a \in Accesses, NEW takes \in SUBSET Endpoints, EnterManually(a, takes)
      PROVE  EditorInv'
      BY <1>0, <1>8, EnterManuallyKeeps, EditStep DEF EnterManually, Editing
<1>9. ASSUME NEW t \in Targets, NEW v \in Values, Correct(t, v)
      PROVE  EditorInv'
      BY <1>0, <1>9, CorrectKeeps, EditStep DEF Correct, Editing
<1>10. CASE Discard
      BY <1>10, ShownAsSaved DEF Discard
<1>11. CASE Close
      BY <1>11, CloseStep
<1>12. CASE Save
      BY <1>12, SaveStep
<1>13. CASE \/ LoadCatalogue
            \/ \E a \in Accesses, r \in Links, by \in BOOLEAN : ChangedElsewhere(a, r, by)
      BY <1>13, CatalogueStep
<1>14. CASE UNCHANGED editorVars
      BY <1>14 DEF editorVars, EditorInv, EditorTypeOK, OthersInv, HeldByOthers, OfferedIsAccepted, SavedIsAsShown,
                   ShownIsApplied, SavedOk, ReviewListsChanges, Effective
<1> QED BY <1>1, <1>2, <1>3, <1>4, <1>5, <1>6, <1>7, <1>8, <1>9, <1>10, <1>11, <1>12, <1>13, <1>14
           DEF EditorNext

LEMMA EditorInvariant == EditorSpec => []EditorInv
<1>1. EditorInit => EditorInv
      BY EditorInitial
<1>2. EditorInv /\ [EditorNext]_editorVars => EditorInv'
      BY EditorStep
<1> QED BY <1>1, <1>2, PTL DEF EditorSpec

\* However many edits, saves and changes made elsewhere, and whatever the catalogue holds: the facts
\* the editor showed when a card was saved are the ones the server composes of the file it wrote, and
\* everything the save changed was in the review.
THEOREM SavesAreAsShown == EditorSpec => []SavedIsAsShown
<1>1. EditorInv => SavedIsAsShown
      BY DEF EditorInv
<1> QED BY <1>1, EditorInvariant, PTL

\* What the editor offers is never another card's: the server refuses a draft of saved and offered
\* accesses only where Bifrost has stopped listing one of them.
THEOREM OffersAreAccepted == EditorSpec => []OfferedIsAccepted
<1>1. EditorInv => OfferedIsAccepted
      BY DEF EditorInv
<1> QED BY <1>1, EditorInvariant, PTL

ComposedFacts(cat) == [a \in catalogue.listed |-> Fact(cat, a, LinkInDraft(cat, card.rows, a))]

LEMMA FactsAreComposed == catalogue \in Catalogues => FactsInDraft = ComposedFacts(View)
<1> SUFFICES ASSUME catalogue \in Catalogues
             PROVE  FactsInDraft = ComposedFacts(View)
    OBVIOUS
<1>1. View.link = catalogue.link /\ View.listed = catalogue.listed /\ catalogue.listed \subseteq Accesses
      BY DEF View, Catalogues
<1>2. ASSUME NEW a \in catalogue.listed
      PROVE  (IF a \in DOMAIN ShownFacts THEN ShownFacts[a] ELSE Fact(View, a, catalogue.link[a]))
             = Fact(View, a, LinkInDraft(View, card.rows, a))
      <2>1. a # Nothing
            BY <1>1, EditorAssumption DEF Targets
      <2>2. a \in DOMAIN ShownFacts <=> a \in RowAccesses(card.rows)
            BY <2>1 DEF ShownFacts, Held
      <2> QED BY <1>1, <2>2 DEF ShownFacts, LinkInDraft
<1> QED BY <1>2 DEF FactsInDraft, ComposedFacts

LEMMA FactsStayComposed == catalogue' \in Catalogues => FactsInDraft' = ComposedFacts(View)'
<1>1. (catalogue \in Catalogues => FactsInDraft = ComposedFacts(View))'
      BY FactsAreComposed, PTL
<1> QED BY <1>1

\* A correction that is kept changes what the preview said of each access.
LEMMA StagedAsPreviewed ==
    ASSUME EditorTypeOK, NEW u \in Targets, NEW w \in Values, StageCorrection(u, w),
           UNCHANGED <<card, catalogue>>,
           NEW t \in Targets, staged'[t] # staged[t]
    PROVE  LET v == View'.own[t]
               affected == Affected(t, v)
               now == FactsInDraft
           IN  FactsInDraft' =
                   [a \in catalogue.listed |-> IF a \in affected THEN Proposed(t, v, a) ELSE now[a]]
<1>1. t = u /\ staged' = [staged EXCEPT ![u] = IF w = catalogue.own[u] THEN Nothing ELSE w]
      BY DEF EditorTypeOK, StageCorrection
<1> DEFINE now == View
           then == View'
<1>2. /\ now.link = catalogue.link /\ now.listed = catalogue.listed /\ now.omits = catalogue.omits
      /\ then.link = catalogue.link /\ then.listed = catalogue.listed /\ then.omits = catalogue.omits
      BY DEF View, EditorTypeOK, Catalogues
<1>3. /\ then.own[t] = w
      /\ \A x \in Targets : x # t => then.own[x] = now.own[x]
      BY <1>1, EditorAssumption DEF View, EditorTypeOK, Catalogues
<1> HIDE DEF now, then
<1>4. w # Nothing
      BY EditorAssumption
<1>5. \A a : LinkInDraft(then, card.rows, a) = LinkInDraft(now, card.rows, a)
      BY <1>2 DEF LinkInDraft, LinkOf
<1>6. ASSUME NEW a \in catalogue.listed
      PROVE  Fact(then, a, LinkInDraft(then, card.rows, a))
             = IF a \in Affected(t, w) THEN Proposed(t, w, a)
               ELSE Fact(now, a, LinkInDraft(now, card.rows, a))
      <2> DEFINE L == LinkInDraft(now, card.rows, a)
      <2>1. a \in Accesses /\ a \in Targets /\ References \subseteq Targets /\ a \notin References
            BY EditorAssumption DEF EditorTypeOK, Catalogues, Targets
      <2>2. a \in Reached(t) <=> IF t \in References THEN L = t ELSE a = t
            BY DEF Reached, now
      <2>3. Proposed(t, w, a) = IF a = t \/ (L = t /\ now.own[a] = Nothing /\ a \notin catalogue.omits)
                                  THEN w ELSE Fact(now, a, L)
            BY DEF Proposed, now
      <2>4. a \in Affected(t, w) <=> a \in Reached(t) /\ Proposed(t, w, a) # Fact(now, a, L)
            BY DEF Affected, now, Reached
      <2> HIDE DEF L
      <2>5. Fact(then, a, L) = IF a \in Reached(t) THEN Proposed(t, w, a) ELSE Fact(now, a, L)
            BY <1>2, <1>3, <1>4, <2>1, <2>2, <2>3 DEF Fact, Inherited
      <2> QED BY <1>5, <2>4, <2>5 DEF L
<1>7. FactsInDraft = ComposedFacts(now) /\ catalogue \in Catalogues
      BY FactsAreComposed DEF now, EditorTypeOK
<1>8. FactsInDraft' = [a \in catalogue.listed |-> Fact(then, a, LinkInDraft(then, card.rows, a))]
      <2>1. catalogue' \in Catalogues
            BY DEF EditorTypeOK
      <2>2. FactsInDraft' = ComposedFacts(View)'
            BY <2>1, FactsStayComposed
      <2> QED BY <2>2 DEF ComposedFacts, then
<1>9. \A a \in catalogue.listed : FactsInDraft[a] = Fact(now, a, LinkInDraft(now, card.rows, a))
      BY <1>7 DEF ComposedFacts
<1> QED BY <1>3, <1>6, <1>8, <1>9 DEF then

EditsCount == edits \in Nat

LEMMA EditsCounted == EditorSpec => []EditsCount
<1>1. EditorInit => EditsCount
      BY DEF EditorInit, EditsCount
<1>2. EditsCount /\ [EditorNext]_editorVars => edits' \in {0, edits, edits + 1}
      <2> SUFFICES ASSUME [EditorNext]_editorVars
                   PROVE  edits' \in {0, edits, edits + 1}
          OBVIOUS
      <2>1. CASE \E d : Edit(d)
            BY <2>1 DEF Edit
      <2>2. CASE Open \/ Discard \/ Close \/ LoadCatalogue \/ UNCHANGED editorVars
            BY <2>2 DEF Open, Discard, Close, LoadCatalogue, editorVars
      <2>3. CASE Save
            BY <2>3 DEF Save
      <2>4. CASE \E a \in Accesses, r \in Links, by \in BOOLEAN : ChangedElsewhere(a, r, by)
            BY <2>4 DEF ChangedElsewhere
      <2>5. CASE \/ \E i \in Ids, name \in Names \cup {Nothing} : ChooseId(i, name)
                 \/ \E name \in Names \cup {Nothing} : TypeName(name)
            BY <2>1, <2>5 DEF ChooseId, TypeName
      <2>6. CASE \/ \E a \in Accesses : AddOffered(a)
                 \/ \E a \in Accesses, takes \in SUBSET Endpoints : EnterManually(a, takes)
                 \/ \E t \in Targets, v \in Values : Correct(t, v)
            BY <2>1, <2>6 DEF AddOffered, EnterManually, Correct
      <2>7. CASE \/ \E i \in 1 .. Cardinality(Accesses) : RemoveRow(i) \/ DialogRemove(i)
                 \/ \E i \in 1 .. Cardinality(Accesses), takes \in SUBSET Endpoints : SetEndpoints(i, takes)
            BY <2>1, <2>7 DEF RemoveRow, DialogRemove, SetEndpoints
      <2>8. CASE \E i \in 1 .. Cardinality(Accesses), a \in Accesses, ref \in Links \cup {Unlinked},
                    status \in {"Configured", "Unknown"}, v \in Values \cup {Nothing} :
                       KeepAccess(i, a, ref, status, v)
            BY <2>1, <2>8 DEF KeepAccess
      <2> QED BY <2>2, <2>3, <2>4, <2>5, <2>6, <2>7, <2>8 DEF EditorNext
<1>3. EditsCount /\ [EditorNext]_editorVars => EditsCount'
      BY <1>2 DEF EditsCount
<1> QED BY <1>1, <1>3, PTL DEF EditorSpec

LEMMA PreviewKept == EditorInv /\ EditsCount /\ [EditorNext]_editorVars => KeptAsPreviewed
<1> SUFFICES ASSUME EditorTypeOK, EditsCount, [EditorNext]_editorVars,
                    card # Nothing, card' = card, edits' = edits + 1, staged' # staged,
                    NEW t \in Targets, staged'[t] # staged[t]
             PROVE  LET v == View'.own[t]
                        affected == Affected(t, v)
                        now == FactsInDraft
                    IN  FactsInDraft' =
                          [a \in catalogue.listed |-> IF a \in affected THEN Proposed(t, v, a) ELSE now[a]]
    BY DEF KeptAsPreviewed, EditorInv
<1>1. edits + 1 # 0 /\ edits + 1 # edits
      BY DEF EditsCount
<1>2. \/ \E u \in Targets, w \in Values : Correct(u, w)
      \/ \E i \in 1 .. Cardinality(Accesses), a \in Accesses, ref \in Links \cup {Unlinked},
            status \in {"Configured", "Unknown"}, w \in Values \cup {Nothing} :
               KeepAccess(i, a, ref, status, w)
      BY <1>1 DEF EditorNext, editorVars, Open, ChooseId, TypeName, AddOffered, RemoveRow,
             DialogRemove, SetEndpoints, EnterManually, Discard, Close, Save,
             LoadCatalogue, ChangedElsewhere
<1>3. \E u \in Targets, w \in Values : StageCorrection(u, w) /\ UNCHANGED <<card, catalogue>>
      <2>1. CASE \E u \in Targets, w \in Values : Correct(u, w)
            BY <2>1 DEF Correct, Edit
      <2>2. CASE \E i \in 1 .. Cardinality(Accesses), a \in Accesses, ref \in Links \cup {Unlinked},
                   status \in {"Configured", "Unknown"}, w \in Values \cup {Nothing} :
                      KeepAccess(i, a, ref, status, w)
            <3>1. PICK i \in 1 .. Cardinality(Accesses), a \in Accesses, ref \in Links \cup {Unlinked},
                       status \in {"Configured", "Unknown"}, w \in Values \cup {Nothing} :
                          KeepAccess(i, a, ref, status, w)
                  BY <2>2
            <3>2. w # Nothing /\ StageCorrection(a, w)
                  BY <3>1 DEF KeepAccess
            <3>3. catalogue' = catalogue
                  BY <3>1 DEF KeepAccess, Edit
            <3> QED BY <3>2, <3>3 DEF Targets
      <2> QED BY <1>2, <2>1, <2>2
<1> QED BY <1>3, StagedAsPreviewed

\* A correction that is kept in a draft changes what each access is shown to be worth exactly as the
\* preview said, for the accesses of other cards too, whatever the links of the draft.
THEOREM CorrectionsAreAsPreviewed == EditorSpec => KeepMatchesPreview
<1>1. EditorInv /\ EditsCount /\ [EditorNext]_editorVars => [KeptAsPreviewed]_editorVars
      BY PreviewKept
<1>2. EditorSpec => [][KeptAsPreviewed]_editorVars
      BY <1>1, EditorInvariant, EditsCounted, PTL DEF EditorSpec
<1> QED BY <1>2 DEF KeepMatchesPreview

----------------------------------------------------------------------------
(* The rows of a draft in which nothing was typed by hand stay in the saved *)
(* card's order, and each access has one: so a draft with all the saved     *)
(* rows, and no others, is the saved card.                                  *)

Sorted(rows) ==
    \A i, j \in DOMAIN rows : i < j =>
        rows[i].access # rows[j].access /\ PlaceOf(rows[i].access) <= PlaceOf(rows[j].access)

OneEach(rows) == \A i, j \in DOMAIN rows : rows[i].access = rows[j].access => i = j

OrderInv ==
    /\ OneEach(file.rows)
    /\ card # Nothing /\ ~card.typed /\ ~Creating => Sorted(card.rows)

LEMMA PlaceOfSaved ==
    ASSUME EditorTypeOK, OneEach(file.rows)
    PROVE  /\ \A i \in DOMAIN Saved : PlaceOf(Saved[i].access) = i
           /\ \A a : a \in RowAccesses(Saved) => PlaceOf(a) \in DOMAIN Saved /\ Saved[PlaceOf(a)].access = a
<1>1. \A i, j \in DOMAIN Saved : Saved[i].access = Saved[j].access => i = j
      BY SavedType DEF OneEach
<1>2. ASSUME NEW a, a \in RowAccesses(Saved)
      PROVE  PlaceOf(a) \in DOMAIN Saved /\ Saved[PlaceOf(a)].access = a
      <2>1. \E i \in DOMAIN Saved : Saved[i].access = a
            BY <1>2 DEF RowAccesses
      <2> QED BY <2>1 DEF PlaceOf
<1>3. \A i \in DOMAIN Saved : Saved[i].access \in RowAccesses(Saved)
      BY DEF RowAccesses
<1> QED BY <1>1, <1>2, <1>3

LEMMA SavedIsSorted ==
    ASSUME EditorTypeOK, OneEach(file.rows)
    PROVE  Sorted(Saved)
<1>1. DOMAIN Saved = 1 .. Len(Saved)
      BY SavedType
<1>2. \A i, j \in DOMAIN Saved : i < j => Saved[i].access # Saved[j].access
      BY <1>1, SavedType DEF OneEach
<1> QED BY <1>1, <1>2, PlaceOfSaved DEF Sorted

\* A sequence with the elements of another, each once and in its order, is the other.
LEMMA SameInOrder ==
    ASSUME NEW n \in Nat, NEW q \in [1 .. n -> 1 .. n],
           \A i, j \in 1 .. n : i < j => q[i] < q[j],
           \A i \in 1 .. n : \E k \in 1 .. n : q[k] = i
    PROVE  \A i \in 1 .. n : q[i] = i
<1> SUFFICES ASSUME NEW x \in 1 .. n, q[x] # x
             PROVE  FALSE
    OBVIOUS
<1> DEFINE Off == {i \in 1 .. n : q[i] # i}
<1>1. Off \subseteq Nat /\ Off # {}
      <2>1. x \in Off
            OBVIOUS
      <2>2. 1 .. n \subseteq Nat
            OBVIOUS
      <2> QED BY <2>1, <2>2
<1>2. PICK m \in Off : \A y \in Off : ~(<<y, m>> \in OpToRel(<, Nat))
      BY <1>1, NatLessThanWellFounded, WFMin, Zenon
<1>3. \A y \in Off : ~(y < m)
      BY <1>1, <1>2 DEF OpToRel
<1>4. m \in 1 .. n /\ q[m] \in 1 .. n /\ q[m] # m
      OBVIOUS
<1>5. PICK k \in 1 .. n : q[k] = m
      BY <1>4
<1>6. CASE q[m] < m
      <2>1. q[q[m]] = q[m]
            BY <1>3, <1>4, <1>6
      <2> QED BY <1>4, <1>6, <2>1
<1>7. CASE q[m] > m
      <2>1. CASE k < m
            BY <1>3, <1>5, <2>1
      <2>2. CASE k > m
            BY <1>4, <1>5, <1>7, <2>2
      <2> QED BY <1>4, <1>5, <1>7, <2>1, <2>2
<1> QED BY <1>4, <1>6, <1>7

LEMMA SortedIsSaved ==
    ASSUME EditorTypeOK, OneEach(file.rows), NEW rows \in Seq(Rows), Sorted(rows),
           {rows[i] : i \in DOMAIN rows} = {Saved[i] : i \in DOMAIN Saved}, Len(rows) = Len(Saved)
    PROVE  rows = Saved
<1> DEFINE n == Len(Saved)
           q == [i \in 1 .. n |-> PlaceOf(rows[i].access)]
<1>1. Saved \in Seq(Rows) /\ n \in Nat /\ DOMAIN Saved = 1 .. n /\ DOMAIN rows = 1 .. n
      BY SavedType
<1>2. \A i \in 1 .. n : \E j \in 1 .. n : rows[i] = Saved[j]
      BY <1>1
<1>3. \A i \in 1 .. n : \E j \in 1 .. n : Saved[i] = rows[j]
      BY <1>1
<1>4. \A i \in 1 .. n : PlaceOf(Saved[i].access) = i
      BY <1>1, PlaceOfSaved
<1>5. \A i \in 1 .. n : q[i] \in 1 .. n /\ rows[i] = Saved[q[i]]
      BY <1>2, <1>4
<1>6. q \in [1 .. n -> 1 .. n]
      BY <1>5
<1>7. ASSUME NEW i \in 1 .. n, NEW j \in 1 .. n, i < j
      PROVE  q[i] < q[j]
      <2>1. rows[i].access # rows[j].access /\ q[i] <= q[j]
            BY <1>1, <1>7 DEF Sorted
      <2>2. q[i] # q[j]
            BY <1>5, <2>1
      <2> HIDE DEF q, n
      <2> QED BY <1>1, <1>6, <2>1, <2>2
<1>8. \A i \in 1 .. n : \E k \in 1 .. n : q[k] = i
      BY <1>3, <1>4
<1> HIDE DEF q
<1>9. \A i \in 1 .. n : q[i] = i
      BY <1>1, <1>6, <1>7, <1>8, SameInOrder
<1>10. \A i \in 1 .. n : rows[i] = Saved[i]
      BY <1>5, <1>9
<1> QED BY <1>1, <1>10

\* An edit keeps the order, unless an access was typed.
KeepsOrder == ~card'.typed => ~card.typed /\ (Sorted(card.rows) => Sorted(card'.rows))

LEMMA OrderStays ==
    ASSUME OrderInv, UNCHANGED file, card # Nothing, ~Creating => KeepsOrder
    PROVE  OrderInv'
<1>1. Saved' = Saved
      BY DEF Saved
<1>2. Creating' = Creating /\ OneEach(file.rows)'
      BY DEF Creating, OrderInv, OneEach
<1>3. ASSUME ~card'.typed, ~Creating
      PROVE  Sorted(card.rows)'
      <2>1. Sorted(card'.rows)
            BY <1>3 DEF OrderInv, KeepsOrder
      <2> QED BY <1>1, <2>1 DEF Sorted, PlaceOf
<1> QED BY <1>2, <1>3 DEF OrderInv

LEMMA SameAccesses ==
    ASSUME NEW rows, Sorted(rows), NEW other, DOMAIN other = DOMAIN rows,
           \A i \in DOMAIN rows : other[i].access = rows[i].access
    PROVE  Sorted(other)
BY DEF Sorted

LEMMA AddOfferedSorts ==
    ASSUME EditorTypeOK, NEW a \in Accesses, AddOffered(a)
    PROVE  KeepsOrder /\ UNCHANGED file /\ card # Nothing
<1>1. CardType(card) /\ card # Nothing /\ card.rows \in Seq(Rows)
      BY DEF AddOffered, Editing, EditorTypeOK, CardType
<1>2. PICK row \in (IF SavedRows(a) # {} THEN SavedRows(a) ELSE {NewRow(a)}) :
         \E p \in Orders(Append(Filled(card.rows), row)) :
            Edit([card EXCEPT !.rows = Placed(Append(Filled(card.rows), row), p),
                              !.borrowed = @ \cup ({a} \cap HeldAs(card.id))])
      BY DEF AddOffered
<1> DEFINE rows == Append(Filled(card.rows), row)
           borrowed == card.borrowed \cup ({a} \cap HeldAs(card.id))
<1>3. PICK p \in Orders(rows) :
         Edit([card EXCEPT !.rows = Placed(rows, p), !.borrowed = borrowed])
      BY <1>2
<1>4. row.access = a
      BY <1>2 DEF SavedRows, NewRow
<1>5. \A i \in DOMAIN card.rows : card.rows[i].access # a
      BY EditorAssumption DEF AddOffered, AlsoAvailable, Held, RowAccesses, Targets
<1>6. Sorted(card.rows) => \A i, j \in DOMAIN rows : i < j => rows[i].access # rows[j].access
      <2>1. CASE card.rows = <<BlankRow>>
            <3>1. rows = <<row>>
                  BY <2>1 DEF Filled
            <3> QED BY <3>1
      <2>2. CASE card.rows # <<BlankRow>>
            <3>1. rows = Append(card.rows, row)
                  BY <2>2 DEF Filled
            <3>2. /\ DOMAIN rows = 1 .. Len(card.rows) + 1 /\ DOMAIN card.rows = 1 .. Len(card.rows)
                  /\ Len(card.rows) \in Nat /\ rows[Len(card.rows) + 1] = row
                  /\ \A i \in DOMAIN card.rows : rows[i] = card.rows[i]
                  BY <1>1, <3>1
            <3> HIDE DEF rows
            <3>3. \A i, j \in DOMAIN rows : i < j =>
                     i \in DOMAIN card.rows /\ (j \in DOMAIN card.rows \/ j = Len(card.rows) + 1)
                  BY <3>2
            <3> QED BY <1>4, <1>5, <3>2, <3>3 DEF Sorted
      <2> QED BY <2>1, <2>2
<1>7. /\ p \in [DOMAIN rows -> DOMAIN rows]
      /\ \A i, j \in DOMAIN rows : i < j =>
            \/ PlaceOf(rows[p[i]].access) < PlaceOf(rows[p[j]].access)
            \/ PlaceOf(rows[p[i]].access) = PlaceOf(rows[p[j]].access) /\ p[i] < p[j]
      BY DEF Orders
<1>8. DOMAIN rows \subseteq Nat
      <2>1. rows \in Seq(Rows \cup {row})
            BY <1>1 DEF Filled
      <2> QED BY <2>1
<1>9. \A i : PlaceOf(i) \in Int
      <2>1. DOMAIN Saved \subseteq Nat /\ Len(Saved) \in Nat
            BY SavedType
      <2> QED BY <2>1 DEF PlaceOf
<1> HIDE DEF rows, borrowed
<1>10. Sorted(card.rows) => Sorted(Placed(rows, p))
      <2> SUFFICES ASSUME Sorted(card.rows), NEW i \in DOMAIN rows, NEW j \in DOMAIN rows, i < j
                   PROVE  /\ rows[p[i]].access # rows[p[j]].access
                          /\ PlaceOf(rows[p[i]].access) <= PlaceOf(rows[p[j]].access)
          BY DEF Sorted, Placed
      <2>1. p[i] \in Nat /\ p[j] \in Nat /\ p[i] \in DOMAIN rows /\ p[j] \in DOMAIN rows
            BY <1>7, <1>8
      <2>2. PlaceOf(rows[p[i]].access) <= PlaceOf(rows[p[j]].access)
            BY <1>7, <1>9
      <2>3. p[i] # p[j]
            <3> DEFINE x == PlaceOf(rows[p[i]].access)
                       y == PlaceOf(rows[p[j]].access)
            <3>1. x < y \/ (x = y /\ p[i] < p[j])
                  BY <1>7
            <3>2. x \in Int /\ (p[i] = p[j] => x = y)
                  BY <1>9
            <3> HIDE DEF x, y
            <3> QED BY <2>1, <3>1, <3>2
      <2>4. p[i] < p[j] \/ p[j] < p[i]
            BY <2>1, <2>3
      <2> QED BY <1>6, <2>1, <2>2, <2>4
<1>11. card' = [card EXCEPT !.rows = Placed(rows, p), !.borrowed = borrowed] /\ UNCHANGED file
      BY <1>3 DEF Edit
<1>12. card'.rows = Placed(rows, p) /\ card'.typed = card.typed
      BY <1>1, <1>11 DEF CardType
<1> QED BY <1>1, <1>10, <1>11, <1>12 DEF KeepsOrder

LEMMA RemoveRowSorts ==
    ASSUME EditorTypeOK, NEW i, RemoveRow(i)
    PROVE  KeepsOrder /\ UNCHANGED file /\ card # Nothing
<1>1. CardType(card) /\ card # Nothing /\ card.rows \in Seq(Rows) /\ i \in DOMAIN card.rows
      BY DEF RemoveRow, Editing, EditorTypeOK, CardType
<1>2. card' = [card EXCEPT !.rows = RemoveAt(@, i)] /\ UNCHANGED file
      BY DEF RemoveRow, Edit
<1> DEFINE rows == RemoveAt(card.rows, i)
<1>3. /\ DOMAIN rows = 1 .. Len(card.rows) - 1 /\ Len(card.rows) \in Nat
      /\ \A j \in DOMAIN rows : Before(i, j) \in DOMAIN card.rows /\ rows[j] = card.rows[Before(i, j)]
      BY <1>1, RemoveAtKeeps
<1>4. card'.rows = rows /\ card'.typed = card.typed
      BY <1>1, <1>2 DEF CardType
<1> HIDE DEF rows
<1>5. i \in Int
      BY <1>1
<1>6. \A j, k \in DOMAIN rows : j < k => Before(i, j) < Before(i, k)
      BY <1>3, <1>5 DEF Before
<1>7. Sorted(card.rows) => Sorted(rows)
      BY <1>3, <1>6 DEF Sorted
<1> QED BY <1>1, <1>2, <1>4, <1>7 DEF KeepsOrder

LEMMA OthersSort ==
    ASSUME EditorTypeOK,
           \/ \E name : TypeName(name)
           \/ \E i, takes : SetEndpoints(i, takes)
           \/ \E a, takes : EnterManually(a, takes)
           \/ \E t, v : Correct(t, v)
    PROVE  KeepsOrder /\ UNCHANGED file /\ card # Nothing
<1>1. CardType(card) /\ card # Nothing /\ UNCHANGED file
      BY DEF TypeName, SetEndpoints, EnterManually, Correct, Edit, Editing, EditorTypeOK, CardType
<1>2. CASE \E name : TypeName(name)
      <2>1. card'.rows = card.rows /\ card'.typed = card.typed
            BY <1>1, <1>2 DEF TypeName, Edit, CardType
      <2> QED BY <1>1, <2>1 DEF KeepsOrder
<1>3. CASE \E i, takes : SetEndpoints(i, takes)
      <2>1. PICK i, takes : SetEndpoints(i, takes)
            BY <1>3
      <2> DEFINE rows == [card.rows EXCEPT ![i].takes = takes]
      <2>2. card.rows \in Seq(Rows) /\ i \in DOMAIN card.rows /\ card'.rows = rows /\ card'.typed = card.typed
            BY <1>1, <2>1 DEF SetEndpoints, Edit, CardType
      <2>3. card.rows[i] \in Rows
            BY <2>2
      <2>4. [card.rows[i] EXCEPT !.takes = takes].access = card.rows[i].access
            BY <2>3 DEF Rows
      <2>5. DOMAIN rows = DOMAIN card.rows /\ \A j \in DOMAIN card.rows : rows[j].access = card.rows[j].access
            BY <2>2, <2>4
      <2> HIDE DEF rows
      <2> QED BY <1>1, <2>2, <2>5, SameAccesses DEF KeepsOrder
<1>4. CASE \E a, takes : EnterManually(a, takes)
      <2>1. card'.typed = TRUE
            BY <1>1, <1>4 DEF EnterManually, Edit, CardType
      <2> QED BY <1>1, <2>1 DEF KeepsOrder
<1>5. CASE \E t, v : Correct(t, v)
      <2>1. card' = card
            BY <1>5 DEF Correct, Edit
      <2> QED BY <1>1, <2>1 DEF KeepsOrder
<1> QED BY <1>2, <1>3, <1>4, <1>5

LEMMA KeepAccessSorts ==
    ASSUME EditorTypeOK, NEW i, NEW a, NEW ref, NEW status, NEW v, KeepAccess(i, a, ref, status, v)
    PROVE  KeepsOrder /\ UNCHANGED file /\ card # Nothing
<1>1. CardType(card) /\ card # Nothing /\ card.rows \in Seq(Rows) /\ i \in DOMAIN card.rows
      BY DEF KeepAccess, Editing, EditorTypeOK, CardType
<1> DEFINE row == [access |-> a, takes |-> card.rows[i].takes, ref |-> ref, status |-> status]
           rows == [card.rows EXCEPT ![i] = row]
<1>2. PICK name : Edit([card EXCEPT !.name = name, !.rows = rows,
                                    !.typed = @ \/ row.access # card.rows[i].access])
      BY DEF KeepAccess
<1>3. DOMAIN rows = DOMAIN card.rows /\ \A j \in DOMAIN rows : rows[j] = IF j = i THEN row ELSE card.rows[j]
      BY <1>1
<1>4. row.access = a
      OBVIOUS
<1> HIDE DEF row, rows
<1>5. card'.rows = rows /\ card'.typed = (card.typed \/ a # card.rows[i].access) /\ UNCHANGED file
      BY <1>1, <1>2, <1>4 DEF CardType, Edit
<1>6. ASSUME ~card'.typed, Sorted(card.rows)
      PROVE  Sorted(rows)
      <2>1. card.rows[i].access = a
            BY <1>5, <1>6
      <2> QED BY <1>3, <1>4, <1>6, <2>1, SameAccesses
<1> QED BY <1>1, <1>5, <1>6 DEF KeepsOrder

LEMMA OrderStep == EditorTypeOK /\ OrderInv /\ [EditorNext]_editorVars => OrderInv'
<1> SUFFICES ASSUME EditorTypeOK, OrderInv, [EditorNext]_editorVars
             PROVE  OrderInv'
    OBVIOUS
<1>1. ASSUME card' = Nothing \/ (card' = card /\ UNCHANGED file), OneEach(file.rows)', file'.rows = file.rows
      PROVE  OrderInv'
      <2>1. CASE card' = Nothing
            BY <1>1, <2>1 DEF OrderInv
      <2>2. CASE card' = card /\ UNCHANGED file /\ card # Nothing
            BY <2>2, OrderStays DEF KeepsOrder
      <2> QED BY <1>1, <2>1, <2>2
<1>2. ASSUME UNCHANGED file, card' = SavedCard
      PROVE  OrderInv'
      <2>1. Sorted(Saved)
            BY SavedIsSorted DEF OrderInv
      <2>2. Saved' = Saved
            BY <1>2 DEF Saved
      <2>3. Sorted(card.rows)'
            <3>1. card'.rows = Saved
                  BY <1>2 DEF SavedCard
            <3> QED BY <2>1, <2>2, <3>1 DEF Sorted, PlaceOf
      <2> QED BY <1>2, <2>3 DEF OrderInv, OneEach
<1>3. ASSUME KeepsOrder, UNCHANGED file, card # Nothing
      PROVE  OrderInv'
      BY <1>3, OrderStays
<1>4. ASSUME NEW i \in Ids, NEW name \in Names \cup {Nothing}, ChooseId(i, name)
      PROVE  OrderInv'
      <2>1. Creating /\ UNCHANGED file
            BY <1>4 DEF ChooseId, Edit
      <2> QED BY <2>1 DEF OrderInv, OneEach, Creating
<1>5. CASE Open
      <2>1. CASE Creating
            BY <1>5, <2>1 DEF Open, OrderInv, OneEach, Creating
      <2> QED BY <1>2, <1>5, <2>1 DEF Open
<1>6. CASE Discard
      BY <1>2, <1>6 DEF Discard
<1>7. CASE Close
      BY <1>1, <1>7 DEF Close, OrderInv, OneEach
<1>8. CASE Save
      <2>1. CASE Accepts(card.rows)
            <3> DEFINE rows == [i \in DOMAIN card.rows |->
                                  [access |-> card.rows[i].access, takes |-> card.rows[i].takes]]
            <3>1. card' = Nothing /\ file'.rows = rows
                  BY <1>8, <2>1 DEF Save, EditorTypeOK
            <3>2. \A i, j \in DOMAIN card.rows : card.rows[i].access = card.rows[j].access => i = j
                  BY <1>8, OneRowEach DEF Save
            <3>3. OneEach(rows)
                  BY <3>2 DEF OneEach
            <3> HIDE DEF rows
            <3> QED BY <3>1, <3>3 DEF OrderInv, OneEach
      <2>2. CASE ~Accepts(card.rows)
            <3>1. UNCHANGED <<file, card>>
                  BY <1>8, <2>2 DEF Save
            <3> QED BY <1>1, <3>1 DEF OrderInv, OneEach
      <2> QED BY <2>1, <2>2
<1>9. CASE LoadCatalogue \/ UNCHANGED editorVars
      BY <1>1, <1>9 DEF LoadCatalogue, editorVars, OrderInv, OneEach
<1>10. CASE \E a \in Accesses, r \in Links, by \in BOOLEAN : ChangedElsewhere(a, r, by)
      <2>1. card' = Nothing /\ file'.rows = file.rows
            BY <1>10 DEF ChangedElsewhere, EditorTypeOK
      <2> QED BY <1>1, <2>1 DEF OrderInv, OneEach
<1>11. ASSUME NEW a \in Accesses, AddOffered(a)
      PROVE  OrderInv'
      BY <1>3, <1>11, AddOfferedSorts
<1>12. ASSUME NEW i \in 1 .. Cardinality(Accesses), RemoveRow(i) \/ DialogRemove(i)
      PROVE  OrderInv'
      BY <1>3, <1>12, RemoveRowSorts DEF DialogRemove
<1>13. ASSUME NEW i \in 1 .. Cardinality(Accesses), NEW a \in Accesses, NEW ref \in Links \cup {Unlinked},
              NEW status \in {"Configured", "Unknown"}, NEW v \in Values \cup {Nothing},
              KeepAccess(i, a, ref, status, v)
      PROVE  OrderInv'
      <2>1. KeepsOrder /\ UNCHANGED file /\ card # Nothing
            BY <1>13, KeepAccessSorts
      <2> QED BY <1>3, <2>1
<1>14. CASE \/ \E name \in Names \cup {Nothing} : TypeName(name)
            \/ \E i \in 1 .. Cardinality(Accesses), takes \in SUBSET Endpoints : SetEndpoints(i, takes)
            \/ \E a \in Accesses, takes \in SUBSET Endpoints : EnterManually(a, takes)
            \/ \E t \in Targets, v \in Values : Correct(t, v)
      <2>1. KeepsOrder /\ UNCHANGED file /\ card # Nothing
            BY <1>14, OthersSort
      <2> QED BY <1>3, <2>1
<1> QED BY <1>4, <1>5, <1>6, <1>7, <1>8, <1>9, <1>10, <1>11, <1>12, <1>13, <1>14 DEF EditorNext

\* An access that is taken off a card and added back, however often and in whatever order, leaves
\* the card as it was saved.
THEOREM CardsComeBack == EditorSpec => []ComesBackAsSaved
<1>1. EditorInit => OrderInv
      BY EditorAssumption DEF EditorInit, OrderInv, OneEach
<1>2. EditorInv => EditorTypeOK
      BY DEF EditorInv
<1>3. EditorSpec => []OrderInv
      BY <1>1, <1>2, OrderStep, EditorInvariant, PTL DEF EditorSpec
<1>4. EditorTypeOK /\ OrderInv => ComesBackAsSaved
      <2> SUFFICES ASSUME EditorTypeOK, OrderInv, card # Nothing, ~Creating,
                          {card.rows[i] : i \in DOMAIN card.rows} = {Saved[i] : i \in DOMAIN Saved},
                          Len(card.rows) = Len(Saved), ~card.typed
                   PROVE  card.rows = Saved
          BY DEF ComesBackAsSaved
      <2>1. card.rows \in Seq(Rows) /\ Sorted(card.rows) /\ OneEach(file.rows)
            BY DEF EditorTypeOK, OrderInv
      <2> QED BY <2>1, SortedIsSaved
<1> QED BY <1>2, <1>3, <1>4, EditorInvariant, PTL
=============================================================================
