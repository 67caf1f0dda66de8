--------------------------- MODULE RegistryStore ---------------------------
(***************************************************************************)
(* The registry file and the Store objects that cache it                   *)
(* (internal/registry/store.go, openOrCreateStore in native/main.go).      *)
(*                                                                         *)
(* A Store holds the compiled snapshot in memory and saves a new one only  *)
(* against the revision the client read.  Several Stores may have the same *)
(* file open: the gateway plugin and the standalone server, or the plugin  *)
(* instance that Cleanup stopped waiting for and the one StoreInit opened next. *)
(* Each has a mutex of its own, so nothing but the file is shared.         *)
(*                                                                         *)
(* A configuration stands for its revision: Parse has accepted it, and two *)
(* configurations are equal exactly when their revisions are.              *)
(***************************************************************************)
EXTENDS Naturals, FiniteSets

CONSTANTS
    Stores,      \* Store objects (one per open of the file)
    Savers,      \* goroutines that call Save or SaveWithBackup
    Revisions,   \* configurations Parse accepts, by revision
    Aliases,     \* (virtual key, alias) pairs that can be ambiguous
    Ambiguous,   \* Ambiguous[c]: the pairs configuration c withholds
    Oversize,    \* configurations whose file would be over MaxFileBytes
    Seed,        \* the empty configuration openOrCreateStore writes
    Absent,      \* there is no file
    Torn,        \* a file Parse rejects: empty, or partly written
    Nil,         \* no store, no request, no backup
    Edits,       \* what another program may leave in the file
    MaxFaults    \* bound on process crashes, power losses and edits by another program

\* Parse refuses a file over the limit, so an oversize one is only ever asked for.
Loadable == Revisions \ Oversize
Contents == Loadable \cup {Absent, Torn}
Requests == [want: Revisions, exp: Loadable, backup: BOOLEAN]

ASSUME StoreAssumption ==
    /\ Ambiguous \in [Revisions -> SUBSET Aliases]
    /\ Oversize \subseteq Revisions
    /\ Seed \in Loadable
    /\ Absent \notin Revisions
    /\ Torn \notin Revisions
    /\ Absent # Torn
    /\ Nil \notin Revisions \cup Stores \cup Savers \cup Requests
    /\ Edits \subseteq Contents
    /\ MaxFaults \in Nat

VARIABLES
    file,      \* what a read of the path returns now
    survives,  \* the contents the path may have after a power loss
    booting,   \* stores inside openOrCreateStore, after O_EXCL created the file
    mem,       \* mem[st]: the published snapshot, Nil while st is closed
    owner,     \* owner[st]: the saver that holds st.mu
    pc,        \* pc[s]: where saver s is in save
    on,        \* on[s]: the store s is saving to
    req,       \* req[s]: the candidate, the expected revision, backup wanted
    kept,      \* kept[s]: what the backup file written by s holds
    res,       \* res[s]: how the last save of s ended
    edits, crashes

storeVars == <<file, survives, booting, mem, owner, pc, on, req, kept, res, edits, crashes>>
disk == <<file, survives>>
saving == <<owner, pc, on, req, kept, res>>
bounds == <<edits, crashes>>

Phases == {"idle", "locking", "checking", "backup", "write", "rename", "dirsync", "publish"}
Outcomes == {"none", "saved", "unchanged", "conflict", "ambiguous", "toolarge", "error"}

StoreTypeOK ==
    /\ file \in Contents
    /\ survives \in SUBSET Contents
    /\ booting \in SUBSET Stores
    /\ mem \in [Stores -> Loadable \cup {Nil}]
    /\ owner \in [Stores -> Savers \cup {Nil}]
    /\ pc \in [Savers -> Phases]
    /\ on \in [Savers -> Stores \cup {Nil}]
    /\ req \in [Savers -> Requests \cup {Nil}]
    /\ kept \in [Savers -> Loadable \cup {Nil}]
    /\ res \in [Savers -> Outcomes]
    /\ edits \in Nat
    /\ crashes \in Nat

StoreInit ==
    /\ file \in {Absent} \cup Loadable
    /\ survives = {file}
    /\ booting = {}
    /\ mem = [st \in Stores |-> Nil]
    /\ owner = [st \in Stores |-> Nil]
    /\ pc = [s \in Savers |-> "idle"]
    /\ on = [s \in Savers |-> Nil]
    /\ req = [s \in Savers |-> Nil]
    /\ kept = [s \in Savers |-> Nil]
    /\ res = [s \in Savers |-> "none"]
    /\ edits = 0
    /\ crashes = 0

-----------------------------------------------------------------------------
(* Opening.  openOrCreateStore creates the file with O_EXCL, writes the    *)
(* seed without an fsync, and reads the file back with OpenStore.          *)

Down(st) == mem[st] = Nil /\ st \notin booting

Create(st) ==
    /\ Down(st)
    /\ file = Absent
    /\ file' = Torn
    /\ survives' = survives \cup {Torn}
    /\ booting' = booting \cup {st}
    /\ UNCHANGED <<mem, saving, bounds>>

\* The descriptor still names the created file: a rename that came between
\* leaves the seed in a file no path reaches.
WriteSeed(st) ==
    /\ st \in booting
    /\ file' = IF file = Torn THEN Seed ELSE file
    /\ survives' = survives \cup {file'}
    /\ booting' = booting \ {st}
    /\ UNCHANGED <<mem, saving, bounds>>

\* os.Remove(path), whatever is there by now.
SeedFails(st) ==
    /\ st \in booting
    /\ file' = Absent
    /\ survives' = survives \cup {Absent}
    /\ booting' = booting \ {st}
    /\ UNCHANGED <<mem, saving, bounds>>

\* OpenStore: a file that is missing or that Parse rejects opens nothing.
Open(st) ==
    /\ Down(st)
    /\ file \in Loadable
    /\ mem' = [mem EXCEPT ![st] = file]
    /\ UNCHANGED <<disk, booting, saving, bounds>>

\* Cleanup, when the admin server drained before its deadline.
Close(st) ==
    /\ mem[st] # Nil
    /\ \A s \in Savers : on[s] # st
    /\ mem' = [mem EXCEPT ![st] = Nil]
    /\ UNCHANGED <<disk, booting, saving, bounds>>

-----------------------------------------------------------------------------
(* Saving.  Parse has run; everything after it is under the store's mutex. *)

Begin(s, st, r) ==
    /\ pc[s] = "idle"
    /\ mem[st] # Nil
    /\ pc' = [pc EXCEPT ![s] = "locking"]
    /\ on' = [on EXCEPT ![s] = st]
    /\ req' = [req EXCEPT ![s] = r]
    /\ kept' = [kept EXCEPT ![s] = Nil]
    /\ res' = [res EXCEPT ![s] = "none"]
    /\ UNCHANGED <<disk, booting, mem, owner, bounds>>

Lock(s) ==
    /\ pc[s] = "locking"
    /\ owner[on[s]] = Nil
    /\ owner' = [owner EXCEPT ![on[s]] = s]
    /\ pc' = [pc EXCEPT ![s] = "checking"]
    /\ UNCHANGED <<disk, booting, mem, on, req, kept, res, bounds>>

\* Mutant of Return: the mutex is not released.
ReturnLocked(s, outcome) ==
    /\ pc' = [pc EXCEPT ![s] = "idle"]
    /\ on' = [on EXCEPT ![s] = Nil]
    /\ req' = [req EXCEPT ![s] = Nil]
    /\ res' = [res EXCEPT ![s] = outcome]
    /\ UNCHANGED owner

\* return from save: the deferred Unlock, and the outcome for the caller.
Return(s, outcome) ==
    /\ pc' = [pc EXCEPT ![s] = "idle"]
    /\ on' = [on EXCEPT ![s] = Nil]
    /\ req' = [req EXCEPT ![s] = Nil]
    /\ owner' = [owner EXCEPT ![on[s]] = Nil]
    /\ res' = [res EXCEPT ![s] = outcome]

\* Mutant of Verdict: no NewAmbiguity.
VerdictAnyAlias(s) ==
    LET r == req[s]
    IN  IF r.exp # mem[on[s]] THEN "conflict"
        ELSE IF file # r.exp THEN IF file = Absent THEN "error" ELSE "conflict"
        ELSE IF r.want = r.exp THEN "unchanged"
        ELSE IF r.want \in Oversize THEN "toolarge"
        ELSE "proceed"

\* What the checks of save decide, in the order the code makes them; "proceed"
\* when they let the write start.
Verdict(s) ==
    LET r == req[s]
        current == mem[on[s]]
    IN  IF r.exp # current THEN "conflict"
        ELSE IF ~(Ambiguous[r.want] \subseteq Ambiguous[current]) THEN "ambiguous"
        ELSE IF file = Absent THEN "error"
        ELSE IF file # r.exp THEN "conflict"
        ELSE IF r.want = r.exp THEN "unchanged"
        ELSE IF r.want \in Oversize THEN "toolarge"
        ELSE "proceed"

\* The checks and the one read of the file they need.
Check(s) ==
    /\ pc[s] = "checking"
    /\ IF Verdict(s) = "proceed"
       THEN /\ pc' = [pc EXCEPT ![s] = IF req[s].backup THEN "backup" ELSE "write"]
            /\ UNCHANGED <<owner, on, req, res>>
       ELSE Return(s, Verdict(s))
    /\ UNCHANGED <<disk, booting, mem, kept, bounds>>

\* writeBackup of the bytes Check read, which have revision exp.
Backup(s) ==
    /\ pc[s] = "backup"
    /\ kept' = [kept EXCEPT ![s] = req[s].exp]
    /\ pc' = [pc EXCEPT ![s] = "write"]
    /\ UNCHANGED <<disk, booting, mem, owner, on, req, res, bounds>>

\* AtomicWrite up to the close: a private file beside the path, fsynced.
WriteTemp(s) ==
    /\ pc[s] = "write"
    /\ pc' = [pc EXCEPT ![s] = "rename"]
    /\ UNCHANGED <<disk, booting, mem, owner, on, req, kept, res, bounds>>

\* Mutant of Rename: the temporary file was not fsynced.
RenameUnsynced(s) ==
    /\ pc[s] = "rename"
    /\ file' = req[s].want
    /\ survives' = survives \cup {req[s].want, Torn}
    /\ pc' = [pc EXCEPT ![s] = "dirsync"]
    /\ UNCHANGED <<booting, mem, owner, on, req, kept, res, bounds>>

\* The rename makes the new file visible at once; which of the two directory
\* entries a power loss leaves is open until the directory is synced.
Rename(s) ==
    /\ pc[s] = "rename"
    /\ file' = req[s].want
    /\ survives' = survives \cup {req[s].want}
    /\ pc' = [pc EXCEPT ![s] = "dirsync"]
    /\ UNCHANGED <<booting, mem, owner, on, req, kept, res, bounds>>

\* Best effort: the sync may fail, and nobody is told.
SyncDir(s) ==
    /\ pc[s] = "dirsync"
    /\ survives' \in {survives, IF file = req[s].want THEN {file} ELSE survives}
    /\ pc' = [pc EXCEPT ![s] = "publish"]
    /\ UNCHANGED <<file, booting, mem, owner, on, req, kept, res, bounds>>

Publish(s) ==
    /\ pc[s] = "publish"
    /\ mem' = [mem EXCEPT ![on[s]] = req[s].want]
    /\ Return(s, "saved")
    /\ UNCHANGED <<disk, booting, kept, bounds>>

\* Mutant of WriteFails: the error is swallowed.
WriteFailsSilently(s) ==
    /\ pc[s] \in {"backup", "write", "rename"}
    /\ Return(s, "saved")
    /\ UNCHANGED <<disk, booting, mem, kept, bounds>>

\* An I/O error of the backup, of the temporary file or of the rename. A
\* backup already written stays, and so does the snapshot in memory.
WriteFails(s) ==
    /\ pc[s] \in {"backup", "write", "rename"}
    /\ Return(s, "error")
    /\ UNCHANGED <<disk, booting, mem, kept, bounds>>

-----------------------------------------------------------------------------
(* The environment.                                                        *)

\* Another program replaces, empties or removes the file, but not while a
\* store is creating it; nothing tells the open stores.
ExternalEdit(c) ==
    /\ edits + crashes < MaxFaults
    /\ booting = {}
    /\ c # file
    /\ file' = c
    /\ survives' = survives \cup {c}
    /\ edits' = edits + 1
    /\ UNCHANGED <<booting, mem, saving, crashes>>

\* The savers of the stores in dead stop where they are; their deferred calls
\* do not run.
Kill(dead) ==
    /\ mem' = [st \in Stores |-> IF st \in dead THEN Nil ELSE mem[st]]
    /\ booting' = booting \ dead
    /\ owner' = [st \in Stores |-> IF st \in dead THEN Nil ELSE owner[st]]
    /\ pc' = [s \in Savers |-> IF on[s] \in dead THEN "idle" ELSE pc[s]]
    /\ on' = [s \in Savers |-> IF on[s] \in dead THEN Nil ELSE on[s]]
    /\ req' = [s \in Savers |-> IF on[s] \in dead THEN Nil ELSE req[s]]
    /\ edits + crashes < MaxFaults
    /\ crashes' = crashes + 1
    /\ UNCHANGED <<kept, res, edits>>

ProcessCrash(st) ==
    /\ mem[st] # Nil \/ st \in booting
    /\ Kill({st})
    /\ UNCHANGED disk

PowerLoss ==
    /\ Kill(Stores)
    /\ file' \in survives
    /\ survives' = {file'}

-----------------------------------------------------------------------------
Opening(st) == Create(st) \/ WriteSeed(st) \/ SeedFails(st) \/ Open(st) \/ Close(st)

Progress(s) ==
    \/ Lock(s) \/ Check(s) \/ Backup(s) \/ WriteTemp(s) \/ Rename(s)
    \/ SyncDir(s) \/ Publish(s) \/ WriteFails(s)

StoreNext ==
    \/ \E st \in Stores : Opening(st) \/ ProcessCrash(st)
    \/ \E s \in Savers, st \in Stores, r \in Requests : Begin(s, st, r)
    \/ \E s \in Savers : Progress(s)
    \/ \E c \in Edits : ExternalEdit(c)
    \/ PowerLoss

StoreSpec == StoreInit /\ [][StoreNext]_storeVars

\* A goroutine inside save keeps running, and sync.Mutex hands itself to a
\* waiter that has starved for a millisecond. Clients and operators owe nothing.
Fairness == \A s \in Savers : WF_storeVars(Progress(s)) /\ SF_storeVars(Lock(s))

FairSpec == StoreSpec /\ Fairness

-----------------------------------------------------------------------------
(* Properties.                                                             *)

\* INSTALL.md:15 forbids two processes on one volume. The properties marked
\* (one writer) rest on it, and hold until another program edits the file.
OneStore == \A a, b \in Stores : a = b
Alone == edits = 0

\* (one writer) A save about to replace the file replaces the revision its
\* client had read, so no save it did not see is lost.
NoLostUpdate == Alone => \A s \in Savers : pc[s] = "rename" => file = req[s].exp

\* (one writer) SaveWithBackup: what the rename is about to destroy is in the
\* backup file, byte for byte the revision on disk.
BackupHoldsWhatIsReplaced ==
    Alone => \A s \in Savers : pc[s] = "rename" /\ req[s].backup => kept[s] = file

\* store.go:73, "a refused save writes nothing": no refusal leaves a backup.
RefusedSaveWritesNothing ==
    \A s \in Savers : res[s] \in {"unchanged", "conflict", "ambiguous", "toolarge"} => kept[s] = Nil

\* (one writer) Outside a save the snapshot served is the one on disk, however
\* the saves before it ended: a restart changes nothing a client can see.
MemoryMatchesFile ==
    Alone => \A st \in Stores : mem[st] # Nil /\ owner[st] = Nil => file = mem[st]

\* Once a power loss cannot leave an unreadable file, no step of the program
\* makes it possible again: the fsync before the rename is there for this.
StaysLoadable ==
    [][edits' = edits /\ survives \subseteq Loadable => survives' \subseteq Loadable]_storeVars

\* Whatever saves run, an open store never withholds an alias it served:
\* ambiguity can be inherited from an older file, never introduced.
AmbiguityNeverGrows ==
    [][\A st \in Stores : mem[st] # Nil /\ mem'[st] # Nil
            => Ambiguous[mem'[st]] \subseteq Ambiguous[mem[st]]]_storeVars

\* Every call of save returns: the mutex is released on every path.
EverySaveReturns == \A s \in Savers : pc[s] # "idle" ~> pc[s] = "idle"

\* (one writer) The whole of it: a compare-and-set register.
Stage(s) ==
    IF pc[s] = "idle" THEN "idle"
    ELSE IF pc[s] \in {"dirsync", "publish"} THEN "done" ELSE "asked"

Answered(s) ==
    IF res[s] = "none" THEN "none" ELSE IF res[s] = "saved" THEN "saved" ELSE "kept"

Register == INSTANCE CasRegister WITH
    Clients <- Savers,
    Values <- Loadable,
    Wishes <- Revisions,
    None <- Nil,
    Blank <- {Absent, Torn},
    value <- file,
    settled <- survives,
    stage <- [s \in Savers |-> Stage(s)],
    ask <- [s \in Savers |->
               IF req[s] = Nil THEN Nil ELSE [want |-> req[s].want, exp |-> req[s].exp]],
    answer <- [s \in Savers |-> Answered(s)]

ImplementsRegister == Register!Init /\ [][Alone' => [Register!Next]_(Register!vars)]_storeVars
=============================================================================
