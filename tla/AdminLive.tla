----------------------------- MODULE AdminLive -----------------------------
(***************************************************************************)
(* The live administration of internal/admin: how the registry's policies, *)
(* the permissions of Bifrost's virtual keys and the publications shown in *)
(* the panel move together.                                                *)
(*                                                                         *)
(* Publishing a workspace, creating, adopting and reading back a key and   *)
(* editing native permissions run one at a time, under liveState's mutex,  *)
(* and call Bifrost in the middle.  The mutex does not cover the other     *)
(* ways to save the registry (/api/config, snapshots, the catalogue), nor  *)
(* what others change in Bifrost.  A revision is the hash of the content,  *)
(* so saving old content brings an old revision back.                      *)
(***************************************************************************)
EXTENDS FiniteSets, Integers

CONSTANTS
    Keys,           \* Bifrost virtual keys
    Models,         \* models a key can be allowed
    None,           \* no policy, no publication, a key not created yet
    Gone,           \* a key deleted in Bifrost
    MaxOutside,     \* bound on the saves outside the jobs and the changes others make in Bifrost
    MaxJobs         \* bound on the jobs started

ASSUME LiveAssumption ==
    /\ None # Gone
    /\ None \notin Keys /\ Gone \notin Keys
    /\ \A l \in SUBSET Models : l \notin {None, Gone}
    /\ \A p \in [want: SUBSET Models, ceiling: SUBSET Models] : p # None
    /\ MaxOutside \in Nat /\ MaxJobs \in Nat

\* want: the models the view of the key serves.  ceiling: the native models an adopted
\* policy was bound to, and never empty in one; a policy made by the panel has none.
Policies == {p \in [want: SUBSET Models, ceiling: SUBSET Models] :
                p.ceiling # {} => p.want \subseteq p.ceiling}
Adopted(p) == p.ceiling # {}
Configs == [Keys -> {None} \cup Policies]
Managed(c) == {k \in Keys : c[k] # None}
Writable(c) == {k \in Managed(c) : ~Adopted(c[k])}
Empty == [k \in Keys |-> None]

\* The one live job: what it does, the key it is about, the configuration its client or it
\* read first, the configuration it is going to save, the native list it read or is about
\* to write, and the keys still to be published.
Ops == {"none", "put", "readback", "create", "adopt", "edit"}
Pcs == {"none", "read", "merge", "save", "aliases", "apply", "list", "finish", "bind", "refresh"}
Jobs == [op: Ops, pc: Pcs, key: Keys \cup {None}, seen: Configs, plan: Configs,
         list: SUBSET Models, todo: SUBSET Keys]
NoJob == [op |-> "none", pc |-> "none", key |-> None, seen |-> Empty, plan |-> Empty,
          list |-> {}, todo |-> {}]

VARIABLES
    cfg,       \* the configuration in the store
    native,    \* native[k]: the models Bifrost allows key k
    proofs,    \* proofs[k]: the verified publication of k, with the revision it is of
    job,       \* the live job, NoJob when the mutex is free
    outside, jobs,
    touched,   \* keys others changed in Bifrost since the job started
    moved,     \* another save replaced the configuration since the job started or saved
    lapsed     \* keys whose native list was changed, other than by a publish, after the
               \* list in proofs was read

vars == <<cfg, native, proofs, job, outside, jobs, touched, moved, lapsed>>
ghosts == <<touched, moved, lapsed>>

Lists == SUBSET Models
HasList(k) == native[k] \notin {None, Gone}
TypeOK ==
    /\ cfg \in Configs
    /\ native \in [Keys -> {None, Gone} \cup Lists]
    /\ DOMAIN proofs = Keys
    /\ \A k \in Keys : proofs[k] # None => /\ proofs[k].of \in Configs
                                           /\ proofs[k].of[k] # None
                                           /\ proofs[k].actual \in Lists \ {{}}
    /\ job \in Jobs
    /\ outside \in 0..MaxOutside /\ jobs \in 0..MaxJobs
    /\ touched \subseteq Keys /\ lapsed \subseteq Keys
    /\ moved \in BOOLEAN

Init ==
    /\ cfg = Empty
    /\ native \in [Keys -> {None} \cup Lists]
    /\ proofs = [k \in Keys |-> None]
    /\ job = NoJob
    /\ outside = 0 /\ jobs = 0
    /\ touched = {} /\ lapsed = {} /\ moved = FALSE

----------------------------------------------------------------------------
(* A job takes the mutex, and gives it back when it ends, well or not.  A  *)
(* call to Bifrost that fails ends it, after whatever it already did.      *)

Start(op, pc, k, seen, plan) ==
    /\ job = NoJob
    /\ jobs < MaxJobs
    /\ jobs' = jobs + 1
    /\ job' = [op |-> op, pc |-> pc, key |-> k, seen |-> seen, plan |-> plan,
               list |-> {}, todo |-> {}]
    /\ touched' = {}
    /\ moved' = FALSE

End == job' = NoJob
Goto(pc) == job' = [job EXCEPT !.pc = pc]
At(op, pc) == job.op = op /\ job.pc = pc

Quit ==
    /\ job.pc \in {"read", "merge", "aliases", "apply", "list", "bind", "refresh"}
    /\ job.op # "readback"
    /\ End
    /\ UNCHANGED <<cfg, native, proofs, outside, jobs, ghosts>>

\* Store.Save: a compare-and-set on the revision; a store that cannot write refuses too.
\* Mutant of Saves: the conflict is ignored and the job goes on.
SavesOrNot(next, ps) ==
    /\ IF cfg = job.seen THEN cfg' = job.plan /\ proofs' = ps ELSE UNCHANGED <<cfg, proofs>>
    /\ job' = next
    /\ moved' = FALSE
    /\ UNCHANGED <<native, outside, jobs, touched, lapsed>>

Saves(next, ps) ==
    /\ cfg = job.seen
    /\ cfg' = job.plan
    /\ proofs' = ps
    /\ job' = next
    /\ moved' = FALSE
    /\ UNCHANGED <<native, outside, jobs, touched, lapsed>>

SaveRefused ==
    /\ job.pc = "save"
    /\ End
    /\ UNCHANGED <<cfg, native, proofs, outside, jobs, ghosts>>

----------------------------------------------------------------------------
(* PUT /api/workspace.  The client edits the workspace of the revision it  *)
(* sends; the server rebuilds the configuration from the one it loads      *)
(* again after its calls to Bifrost, and saves against the client's.       *)

\* What a selection gives once the ceiling of an adopted policy is applied.
Narrowed(W, c) == IF c = {} THEN W ELSE W \cap c
Revised(c, W) == [k \in Keys |-> IF c[k] = None THEN None
                                 ELSE [want |-> Narrowed(W[k], c[k].ceiling), ceiling |-> c[k].ceiling]]

PutStart(W) ==
    /\ Start("put", "merge", None, cfg, Revised(cfg, W))
    /\ UNCHANGED <<cfg, native, proofs, outside, lapsed>>

\* Refused (Quit) when the managed keys are not those the client saw, or Bifrost lost one.
PutMerge ==
    /\ At("put", "merge")
    /\ Managed(cfg) = Managed(job.seen)
    /\ \A k \in Managed(cfg) : HasList(k)
    /\ job' = [job EXCEPT !.pc = "save",
                          !.plan = [k \in Keys |->
                              IF cfg[k] = None THEN None
                              ELSE [want |-> Narrowed(job.plan[k].want, cfg[k].ceiling),
                                    ceiling |-> cfg[k].ceiling]]]
    /\ UNCHANGED <<cfg, native, proofs, outside, jobs, ghosts>>

\* Mutant of PutSave: the publications of the keys stay.
PutSaveOnly ==
    /\ At("put", "save")
    /\ Saves([job EXCEPT !.pc = "aliases"], proofs)

PutSave ==
    /\ At("put", "save")
    /\ Saves([job EXCEPT !.pc = "aliases"],
             [k \in Keys |-> IF job.plan[k] = None THEN proofs[k] ELSE None])

PutAliases ==
    /\ At("put", "aliases")
    /\ job' = [job EXCEPT !.pc = "apply", !.todo = Writable(job.plan)]
    /\ UNCHANGED <<cfg, native, proofs, outside, jobs, ghosts>>

\* The PUT of one key: it is done, or done although the answer is lost.  One that is done
\* after its call timed out is a change others make, External.
PutApply(k) ==
    /\ At("put", "apply")
    /\ k \in job.todo
    /\ HasList(k)
    /\ native' = [native EXCEPT ![k] = job.plan[k].want]
    /\ job' \in {NoJob, [job EXCEPT !.todo = @ \ {k}]}
    /\ UNCHANGED <<cfg, proofs, outside, jobs, ghosts>>

PutApplied ==
    /\ At("put", "apply")
    /\ job.todo = {}
    /\ Goto("refresh")
    /\ UNCHANGED <<cfg, native, proofs, outside, jobs, ghosts>>

----------------------------------------------------------------------------
(* POST /api/keys/{id}/readback: the list Bifrost gives the key, filtered  *)
(* by the registry's own view of it, against the routes of the snapshot    *)
(* loaded first.                                                           *)

ReadbackStart(k) ==
    /\ cfg[k] # None
    /\ Start("readback", "list", k, Empty, cfg)
    /\ UNCHANGED <<cfg, native, proofs, outside, lapsed>>

Listed(k) == IF cfg[k] = None THEN native[k] ELSE native[k] \cap cfg[k].want

ReadbackList ==
    /\ At("readback", "list")
    /\ HasList(job.key)
    /\ job' = [job EXCEPT !.pc = "finish", !.list = Listed(job.key)]
    /\ UNCHANGED <<cfg, native, proofs, outside, jobs, ghosts>>

\* A call that failed, nothing selected, or a list that differs: not verified.
Matches == job.list = job.plan[job.key].want /\ job.list # {}
ReadbackFail ==
    /\ At("readback", "list") \/ (At("readback", "finish") /\ ~Matches)
    /\ proofs' = [proofs EXCEPT ![job.key] = None]
    /\ End
    /\ UNCHANGED <<cfg, native, outside, jobs, ghosts>>

ReadbackFinish ==
    /\ At("readback", "finish")
    /\ Matches
    /\ proofs' = [proofs EXCEPT ![job.key] = [of |-> job.plan, actual |-> job.list]]
    /\ lapsed' = (lapsed \ {job.key}) \cup (touched \cap {job.key})
    /\ End
    /\ UNCHANGED <<cfg, native, outside, jobs, touched, moved>>

----------------------------------------------------------------------------
(* POST /api/keys: a native key without models, then its policy.  A policy *)
(* that cannot be saved leaves the native key unmanaged.                   *)

CreateStart(k) ==
    /\ native[k] = None
    /\ Start("create", "read", k, Empty, Empty)
    /\ UNCHANGED <<cfg, native, proofs, outside, lapsed>>

CreateNative ==
    /\ At("create", "read")
    /\ native' = [native EXCEPT ![job.key] = {}]
    /\ job' \in {NoJob, [job EXCEPT !.pc = "bind"]}
    /\ UNCHANGED <<cfg, proofs, outside, jobs, ghosts>>

CreateBind ==
    /\ At("create", "bind")
    /\ cfg[job.key] = None
    /\ job' = [job EXCEPT !.pc = "save", !.seen = cfg,
                          !.plan = [cfg EXCEPT ![job.key] = [want |-> {}, ceiling |-> {}]]]
    /\ UNCHANGED <<cfg, native, proofs, outside, jobs, ghosts>>

CreateSave ==
    /\ At("create", "save")
    /\ Saves([job EXCEPT !.pc = "refresh"], proofs)

----------------------------------------------------------------------------
(* POST /api/keys/adopt, phase apply: a policy bound to what the key is    *)
(* allowed now, without writing to Bifrost.  The preview token makes sure  *)
(* that this is what the client was shown.                                 *)

AdoptStart(k) ==
    /\ cfg[k] = None
    /\ Start("adopt", "read", k, cfg, Empty)
    /\ UNCHANGED <<cfg, native, proofs, outside, lapsed>>

\* Blocked (Quit) for a key without models, or whose own list differs from its rows.
AdoptRead ==
    /\ At("adopt", "read")
    /\ HasList(job.key) /\ native[job.key] # {}
    /\ job' = [job EXCEPT !.pc = "list", !.list = native[job.key]]
    /\ UNCHANGED <<cfg, native, proofs, outside, jobs, ghosts>>

AdoptList ==
    /\ At("adopt", "list")
    /\ HasList(job.key)
    /\ Listed(job.key) = job.list
    /\ Goto("merge")
    /\ UNCHANGED <<cfg, native, proofs, outside, jobs, ghosts>>

AdoptMerge ==
    /\ At("adopt", "merge")
    /\ cfg[job.key] = None
    /\ job' = [job EXCEPT !.pc = "save",
                          !.plan = [cfg EXCEPT ![job.key] = [want |-> job.list, ceiling |-> job.list]]]
    /\ UNCHANGED <<cfg, native, proofs, outside, jobs, ghosts>>

AdoptSave ==
    /\ At("adopt", "save")
    /\ Saves(NoJob, [proofs EXCEPT ![job.key] = None])

----------------------------------------------------------------------------
(* POST /api/keys/native-permissions, phase apply: models are taken off a  *)
(* key the registry does not manage, and the rest reposted as read.        *)

EditStart(k) ==
    /\ cfg[k] = None
    /\ Start("edit", "read", k, Empty, Empty)
    /\ UNCHANGED <<cfg, native, proofs, outside, lapsed>>

EditRead ==
    /\ At("edit", "read")
    /\ HasList(job.key)
    /\ \E kept \in SUBSET native[job.key] :
         job' = [job EXCEPT !.pc = "apply", !.list = kept]
    /\ UNCHANGED <<cfg, native, proofs, outside, jobs, ghosts>>

\* Followed by a readback that only reports, and ends the job.
EditApply ==
    /\ At("edit", "apply")
    /\ HasList(job.key)
    /\ native' = [native EXCEPT ![job.key] = job.list]
    /\ lapsed' = lapsed \cup {job.key}
    /\ job' \in {NoJob, [job EXCEPT !.pc = "refresh"]}
    /\ UNCHANGED <<cfg, proofs, outside, jobs, touched, moved>>

----------------------------------------------------------------------------
(* Around the jobs.                                                        *)

\* One entry of the configuration is replaced through /api/config or a restored snapshot.
ConfigWrite(k, p) ==
    /\ outside < MaxOutside
    /\ p # cfg[k]
    /\ native[k] # None
    /\ cfg' = [cfg EXCEPT ![k] = p]
    /\ outside' = outside + 1
    /\ moved' = TRUE
    /\ UNCHANGED <<native, proofs, job, jobs, touched, lapsed>>

External(k, l) ==
    /\ outside < MaxOutside
    /\ HasList(k)
    /\ l # native[k]
    /\ native' = [native EXCEPT ![k] = l]
    /\ outside' = outside + 1
    /\ touched' = touched \cup {k}
    /\ lapsed' = lapsed \cup {k}
    /\ UNCHANGED <<cfg, proofs, job, jobs, moved>>

\* The plugin stops, and the next one connects with no publications.
Restart ==
    /\ proofs' = [k \in Keys |-> None]
    /\ job' = NoJob
    /\ UNCHANGED <<cfg, native, outside, jobs, ghosts>>

----------------------------------------------------------------------------
JobStep ==
    \/ Quit \/ SaveRefused
    \/ PutMerge \/ PutSave \/ PutAliases \/ (\E k \in Keys : PutApply(k)) \/ PutApplied
    \/ ReadbackList \/ ReadbackFail \/ ReadbackFinish
    \/ CreateNative \/ CreateBind \/ CreateSave
    \/ AdoptRead \/ AdoptList \/ AdoptMerge \/ AdoptSave
    \/ EditRead \/ EditApply

JobStart ==
    \/ \E W \in [Keys -> Lists] : PutStart(W)
    \/ \E k \in Keys : ReadbackStart(k) \/ CreateStart(k) \/ AdoptStart(k) \/ EditStart(k)

Outside ==
    \/ \E k \in Keys, p \in Policies \cup {None} : ConfigWrite(k, p)
    \/ \E k \in Keys, l \in Lists \cup {Gone} : External(k, l)

Next == JobStep \/ JobStart \/ Outside \/ Restart

Spec == Init /\ [][Next]_vars

----------------------------------------------------------------------------
\* The publication the panel shows: one of another revision is shown as not verified.
ShownVerified(k) == cfg[k] # None /\ proofs[k] # None /\ proofs[k].of = cfg

\* A key shown as verified was read back with exactly the models the registry serves it now,
\* although the readback compared with a snapshot loaded before its calls (live.go:1280-1349).
VerifiedMeansMatched == \A k \in Keys : ShownVerified(k) => proofs[k].actual = cfg[k].want

\* A key shown as verified is allowed in Bifrost what the registry serves it, unless its
\* permissions were changed outside a publish since they were read, whatever was published,
\* saved and brought back meanwhile (live.go:997-1007, 596-612).
VerifiedIsInForce ==
    \A k \in Keys \ lapsed : ShownVerified(k) => HasList(k) /\ cfg[k].want \subseteq native[k]

\* A publish that reaches its refresh left in Bifrost what the registry holds for every key
\* that is not adopted, unless somebody else saved or changed Bifrost since (live.go:986-1037).
PublishedMeansApplied ==
    At("put", "refresh") /\ ~moved =>
        \A k \in Writable(cfg) \ touched : native[k] = cfg[k].want

\* What publishing reports is so: a key verified is allowed in Bifrost what it is served, and a
\* publish at its refresh has applied the whole registry.
PublishesAreTrue == VerifiedIsInForce /\ PublishedMeansApplied

\* What a job changes in Bifrost is what the policy in force grants a key that is not adopted, models
\* taken off a key without a policy, or a new key, unless somebody else saved or changed the
\* key meanwhile (live.go:1008-1020, native_permissions.go:139-143).
JobWrites(k) == native'[k] # native[k] /\ job' # job /\ ~moved /\ k \notin touched
NativeWritesAreBacked ==
    [][\A k \in Keys : JobWrites(k) =>
          IF cfg[k] = None
            THEN native'[k] = {} \/ (HasList(k) /\ native'[k] \subseteq native[k])
            ELSE ~Adopted(cfg[k]) /\ native'[k] = cfg[k].want]_vars

\* Adoption binds a key to the models Bifrost allows it at that moment, unless others change
\* them while it runs: it expands nothing and hides nothing (adoption.go:98-160).
AdoptionTakesWhatIsThere ==
    [][LET k == job.key IN
       (job.op = "adopt" /\ job' # job /\ cfg' # cfg /\ k \notin touched) =>
           cfg'[k].want = native[k] /\ cfg'[k].ceiling = native[k]]_vars

\* The comments of live.go:1017-1020 and native_permissions.go:14-18 and the user guide: no
\* job rewrites the permissions of a key that is adopted.
AdoptedIsNeverRewritten ==
    [][\A k \in Keys : native'[k] # native[k] /\ job' # job => cfg[k] = None \/ ~Adopted(cfg[k])]_vars
=============================================================================
