---------------------------- MODULE ServerProofs ----------------------------
(***************************************************************************)
(* What the two parts of the server that keep state of their own guarantee *)
(* on any constants: the registry store for any number of stores and       *)
(* savers, any configurations and any bounds on edits and crashes; the     *)
(* live administration for any keys, models and bounds.                    *)
(***************************************************************************)
EXTENDS RegistryStore, AdminLive, TLAPS

-----------------------------------------------------------------------------
(* The registry store.                                                     *)

Writing == {"backup", "write", "rename", "dirsync", "publish"}
Locked == {"checking"} \cup Writing

\* A saver past the lock owns it, and the only saver a store names is one of
\* its own past the lock.
LockInv ==
    /\ \A s \in Savers : pc[s] = "idle" <=> on[s] = Nil
    /\ \A s \in Savers : pc[s] = "idle" <=> req[s] = Nil
    /\ \A s \in Savers : pc[s] # "idle" => mem[on[s]] # Nil
    /\ \A s \in Savers : pc[s] \in Locked => owner[on[s]] = s
    /\ \A st \in Stores : owner[st] # Nil => on[owner[st]] = st /\ pc[owner[st]] \in Locked
    /\ \A st \in booting : mem[st] = Nil

\* A saver that is writing passed every check, and its store's snapshot is
\* still the one it expected.
CheckedInv ==
    \A s \in Savers : pc[s] \in Writing =>
        /\ mem[on[s]] = req[s].exp
        /\ req[s].want \in Loadable
        /\ Ambiguous[req[s].want] \subseteq Ambiguous[req[s].exp]

\* What each saver has left behind so far.
BackupInv ==
    \A s \in Savers :
        /\ pc[s] # "idle" => res[s] = "none"
        /\ pc[s] \in {"locking", "checking", "backup"} => kept[s] = Nil
        /\ pc[s] \in {"write", "rename"} /\ req[s].backup => kept[s] = req[s].exp
        /\ res[s] \in {"unchanged", "conflict", "ambiguous", "toolarge"} => kept[s] = Nil

IInv == StoreTypeOK /\ LockInv /\ CheckedInv /\ BackupInv

LEMMA InitIInv == StoreInit => IInv
BY StoreAssumption DEF StoreInit, IInv, StoreTypeOK, LockInv, CheckedInv, BackupInv, Contents, Loadable,
   Phases, Outcomes, Requests, Writing, Locked

LEMMA StepIInv == IInv /\ [StoreNext]_storeVars => IInv'
<1> SUFFICES ASSUME IInv, [StoreNext]_storeVars PROVE IInv'
    OBVIOUS
<1> USE StoreAssumption DEF IInv, StoreTypeOK, LockInv, CheckedInv, BackupInv, Contents, Loadable,
        Phases, Outcomes, Requests, Writing, Locked, disk, saving, bounds
<1>1. ASSUME NEW st \in Stores, Create(st) PROVE IInv'
    BY <1>1 DEF Create, Down
<1>2. ASSUME NEW st \in Stores, WriteSeed(st) PROVE IInv'
    BY <1>2 DEF WriteSeed
<1>3. ASSUME NEW st \in Stores, SeedFails(st) PROVE IInv'
    BY <1>3 DEF SeedFails
<1>4. ASSUME NEW st \in Stores, Open(st) PROVE IInv'
    BY <1>4 DEF Open, Down
<1>5. ASSUME NEW st \in Stores, Close(st) PROVE IInv'
    BY <1>5 DEF Close
<1>6. ASSUME NEW st \in Stores, ProcessCrash(st) PROVE IInv'
    BY <1>6 DEF ProcessCrash, Kill
<1>7. ASSUME NEW s \in Savers, NEW st \in Stores, NEW r \in Requests, Begin(s, st, r) PROVE IInv'
    <2>1. StoreTypeOK'
        <3>1. /\ pc' \in [Savers -> Phases]
              /\ on' \in [Savers -> Stores \cup {Nil}]
            BY <1>7 DEF Begin
        <3>2. /\ kept' \in [Savers -> Loadable \cup {Nil}]
              /\ res' \in [Savers -> Outcomes]
            BY <1>7 DEF Begin
        <3>3. req' \in [Savers -> Requests \cup {Nil}]
            <4> HIDE DEF Requests
            <4> QED BY <1>7 DEF Begin
        <3>4. UNCHANGED <<file, survives, booting, mem, owner, edits, crashes>>
            BY <1>7 DEF Begin
        <3>5. QED
            <4> HIDE DEF Requests, Contents, Loadable, Phases, Outcomes, LockInv, CheckedInv, BackupInv
            <4> QED BY <3>1, <3>2, <3>3, <3>4
    <2>2. LockInv'
        BY <1>7 DEF Begin
    <2>3. CheckedInv'
        BY <1>7 DEF Begin
    <2>4. BackupInv'
        BY <1>7 DEF Begin
    <2>5. QED
        BY <2>1, <2>2, <2>3, <2>4
<1>8. ASSUME NEW s \in Savers, Lock(s) PROVE IInv'
    BY <1>8 DEF Lock
<1>9. ASSUME NEW s \in Savers, Check(s) PROVE IInv'
    <2>1. CASE Verdict(s) = "proceed"
        <3>1. /\ mem[on[s]] = req[s].exp
              /\ Ambiguous[req[s].want] \subseteq Ambiguous[req[s].exp]
              /\ req[s].want \notin Oversize
            BY <2>1, <1>9 DEF Verdict, Check
        <3>2. QED
            BY <3>1, <2>1, <1>9 DEF Check
    <2>2. CASE Verdict(s) # "proceed"
        <3>1. Verdict(s) \in {"conflict", "ambiguous", "error", "unchanged", "toolarge"}
            BY <2>2 DEF Verdict
        <3>2. Return(s, Verdict(s)) /\ UNCHANGED <<disk, booting, mem, kept, bounds>>
            BY <2>2, <1>9 DEF Check
        <3>3. StoreTypeOK'
            BY <3>1, <3>2, <1>9 DEF Check, Return
        <3>4. LockInv'
            BY <3>1, <3>2, <1>9 DEF Check, Return
        <3>5. CheckedInv'
            BY <3>2, <1>9 DEF Check, Return
        <3>6. BackupInv'
            BY <3>1, <3>2, <1>9 DEF Check, Return
        <3>7. QED
            BY <3>3, <3>4, <3>5, <3>6
    <2>3. QED
        BY <2>1, <2>2
<1>10. ASSUME NEW s \in Savers, Backup(s) PROVE IInv'
    BY <1>10 DEF Backup
<1>11. ASSUME NEW s \in Savers, WriteTemp(s) PROVE IInv'
    BY <1>11 DEF WriteTemp
<1>12. ASSUME NEW s \in Savers, Rename(s) PROVE IInv'
    BY <1>12 DEF Rename
<1>13. ASSUME NEW s \in Savers, SyncDir(s) PROVE IInv'
    BY <1>13 DEF SyncDir
<1>14. ASSUME NEW s \in Savers, Publish(s) PROVE IInv'
    BY <1>14 DEF Publish, Return
<1>15. ASSUME NEW s \in Savers, WriteFails(s) PROVE IInv'
    BY <1>15 DEF WriteFails, Return
<1>16. ASSUME NEW c \in Edits, ExternalEdit(c) PROVE IInv'
    BY <1>16 DEF ExternalEdit
<1>17. ASSUME PowerLoss PROVE IInv'
    BY <1>17 DEF PowerLoss, Kill
<1>18. CASE UNCHANGED storeVars
    BY <1>18 DEF storeVars
<1>19. QED
    BY <1>1, <1>2, <1>3, <1>4, <1>5, <1>6, <1>7, <1>8, <1>9, <1>10, <1>11, <1>12, <1>13, <1>14,
       <1>15, <1>16, <1>17, <1>18 DEF StoreNext, Opening, Progress

\* IInv is an invariant of every behaviour, and with it the type of the state.
LEMMA Inductive == StoreSpec => []IInv
BY InitIInv, StepIInv, PTL DEF StoreSpec

\* The state keeps its type: in particular the file never holds a
\* configuration OpenStore would refuse for its size.
THEOREM TypeCorrect == StoreSpec => []StoreTypeOK
<1>1. IInv => StoreTypeOK
    BY DEF IInv
<1>2. QED
    BY Inductive, <1>1, PTL

\* However many stores share the file, and whatever edits and crashes happen,
\* a refused save leaves no backup behind.
THEOREM RefusalIsClean == StoreSpec => []RefusedSaveWritesNothing
<1>1. IInv => RefusedSaveWritesNothing
    BY DEF IInv, BackupInv, RefusedSaveWritesNothing
<1>2. QED
    BY Inductive, <1>1, PTL

\* However many stores share the file, the snapshot an open store serves never
\* withholds an alias it served before.
THEOREM AmbiguityMonotone == StoreSpec => AmbiguityNeverGrows
<1>1. IInv /\ [StoreNext]_storeVars =>
        [\A st \in Stores : mem[st] # Nil /\ mem'[st] # Nil
            => Ambiguous[mem'[st]] \subseteq Ambiguous[mem[st]]]_storeVars
    <2> SUFFICES ASSUME IInv, [StoreNext]_storeVars, NEW st \in Stores, mem[st] # Nil, mem'[st] # Nil
                 PROVE Ambiguous[mem'[st]] \subseteq Ambiguous[mem[st]]
        OBVIOUS
    <2>1. ASSUME NEW s \in Savers, Publish(s)
          PROVE Ambiguous[mem'[st]] \subseteq Ambiguous[mem[st]]
        <3>1. /\ mem[on[s]] = req[s].exp
              /\ Ambiguous[req[s].want] \subseteq Ambiguous[req[s].exp]
            BY <2>1 DEF Publish, IInv, CheckedInv, Writing
        <3>2. mem' = [mem EXCEPT ![on[s]] = req[s].want] /\ mem \in [Stores -> Loadable \cup {Nil}]
            BY <2>1 DEF Publish, IInv, StoreTypeOK
        <3>3. QED
            BY <3>1, <3>2
    <2>2. ASSUME mem'[st] = mem[st]
          PROVE Ambiguous[mem'[st]] \subseteq Ambiguous[mem[st]]
        BY <2>2
    <2>3. ASSUME NEW s \in Savers, Progress(s), ~Publish(s)
          PROVE mem'[st] = mem[st]
        BY <2>3 DEF Progress, Lock, Check, Backup, WriteTemp, Rename, SyncDir, WriteFails
    <2>4. ASSUME NEW t \in Stores, Opening(t) \/ ProcessCrash(t)
          PROVE mem'[st] = mem[st]
        <3>1. mem \in [Stores -> Loadable \cup {Nil}]
            BY DEF IInv, StoreTypeOK
        <3>2. ASSUME Opening(t) PROVE mem'[st] = mem[st]
            BY <3>1, <3>2 DEF Opening, Create, WriteSeed, SeedFails, Open, Close, Down
        <3>3. ASSUME ProcessCrash(t) PROVE mem'[st] = mem[st]
            BY <3>3 DEF ProcessCrash, Kill
        <3>4. QED
            BY <2>4, <3>2, <3>3
    <2>5. ASSUME NEW s \in Savers, NEW t \in Stores, NEW r \in Requests, Begin(s, t, r)
          PROVE mem'[st] = mem[st]
        BY <2>5 DEF Begin
    <2>6. ASSUME NEW c \in Edits, ExternalEdit(c)
          PROVE mem'[st] = mem[st]
        BY <2>6 DEF ExternalEdit
    <2>7. ASSUME PowerLoss
          PROVE mem'[st] = mem[st]
        BY <2>7 DEF PowerLoss, Kill
    <2>8. ASSUME UNCHANGED storeVars
          PROVE mem'[st] = mem[st]
        BY <2>8 DEF storeVars
    <2>9. QED
        BY <2>1, <2>2, <2>3, <2>4, <2>5, <2>6, <2>7, <2>8 DEF StoreNext
<1>2. QED
    BY Inductive, <1>1, PTL DEF StoreSpec, AmbiguityNeverGrows

-----------------------------------------------------------------------------
(* One writer: one store, as long as nobody edits the file.                *)

\* Between saves the file is the snapshot; from the rename until Publish it is
\* what the snapshot is about to be.
FileInv ==
    /\ \A st \in Stores : mem[st] # Nil =>
            file = IF owner[st] # Nil /\ pc[owner[st]] \in {"dirsync", "publish"}
                   THEN req[owner[st]].want ELSE mem[st]
    /\ booting # {} => file = Torn

\* An edit is never undone.
LEMMA AloneBefore ==
    ASSUME IInv, [StoreNext]_storeVars, Alone'
    PROVE  Alone
<1> USE StoreAssumption DEF IInv, StoreTypeOK, Alone, disk, saving, bounds
<1>1. ASSUME NEW st \in Stores, Opening(st) PROVE edits' = edits
    BY <1>1 DEF Opening, Create, WriteSeed, SeedFails, Open, Close, Down
<1>2. ASSUME NEW st \in Stores, ProcessCrash(st) PROVE edits' = edits
    BY <1>2 DEF ProcessCrash, Kill
<1>3. ASSUME NEW s \in Savers, NEW st \in Stores, NEW r \in Requests, Begin(s, st, r) PROVE edits' = edits
    BY <1>3 DEF Begin
<1>4. ASSUME NEW s \in Savers, Progress(s) PROVE edits' = edits
    BY <1>4 DEF Progress, Lock, Check, Backup, WriteTemp, Rename, SyncDir, Publish, WriteFails, Return
<1>5. ASSUME NEW c \in Edits, ExternalEdit(c) PROVE FALSE
    BY <1>5 DEF ExternalEdit
<1>6. ASSUME PowerLoss PROVE edits' = edits
    BY <1>6 DEF PowerLoss, Kill
<1>7. QED
    BY <1>1, <1>2, <1>3, <1>4, <1>5, <1>6 DEF StoreNext, storeVars

LEMMA StepFileInv ==
    ASSUME OneStore, Alone', IInv, FileInv, [StoreNext]_storeVars
    PROVE  FileInv'
<1> USE StoreAssumption DEF OneStore, FileInv
<1>0. USE DEF IInv, StoreTypeOK, LockInv, CheckedInv, Writing, Locked, disk, saving, bounds
<1>1. ASSUME NEW st \in Stores, Opening(st) PROVE FileInv'
    BY <1>1 DEF Opening, Create, WriteSeed, SeedFails, Open, Close, Down
<1>2. ASSUME NEW st \in Stores, ProcessCrash(st) PROVE FileInv'
    BY <1>2 DEF ProcessCrash, Kill
<1>3. ASSUME NEW s \in Savers, NEW st \in Stores, NEW r \in Requests, Begin(s, st, r) PROVE FileInv'
    BY <1>3 DEF Begin
<1>4. ASSUME NEW s \in Savers, Lock(s) PROVE FileInv'
    BY <1>4 DEF Lock
<1>5. ASSUME NEW s \in Savers, Check(s) PROVE FileInv'
    BY <1>5 DEF Check, Return
<1>6. ASSUME NEW s \in Savers, Backup(s) \/ WriteTemp(s) PROVE FileInv'
    BY <1>6 DEF Backup, WriteTemp
<1>7. ASSUME NEW s \in Savers, Rename(s) PROVE FileInv'
    BY <1>7 DEF Rename
<1>8. ASSUME NEW s \in Savers, SyncDir(s) PROVE FileInv'
    BY <1>8 DEF SyncDir
<1>9. ASSUME NEW s \in Savers, Publish(s) PROVE FileInv'
    BY <1>9 DEF Publish, Return
<1>10. ASSUME NEW s \in Savers, WriteFails(s) PROVE FileInv'
    BY <1>10 DEF WriteFails, Return
<1>11. ASSUME NEW c \in Edits, ExternalEdit(c) PROVE FALSE
    BY <1>11 DEF ExternalEdit, Alone
<1>12. ASSUME PowerLoss PROVE FileInv'
    BY <1>12 DEF PowerLoss, Kill
<1>13. CASE UNCHANGED storeVars
    BY <1>13 DEF storeVars
<1>14. QED
    BY <1>1, <1>2, <1>3, <1>4, <1>5, <1>6, <1>7, <1>8, <1>9, <1>10, <1>11, <1>12, <1>13
       DEF StoreNext, Progress

LEMMA OneWriterInductive ==
    ASSUME OneStore
    PROVE  StoreSpec => [](IInv /\ (Alone => FileInv))
<1>1. StoreInit => FileInv
    BY DEF StoreInit, FileInv
<1>2. IInv /\ (Alone => FileInv) /\ [StoreNext]_storeVars => (Alone => FileInv)'
    BY StepFileInv, AloneBefore
<1>3. QED
    BY <1>1, <1>2, InitIInv, StepIInv, PTL DEF StoreSpec

\* With one writer, a save about to replace the file replaces what it checked.
THEOREM UpdatesAreNotLost ==
    ASSUME OneStore
    PROVE  StoreSpec => []NoLostUpdate
<1>1. IInv /\ (Alone => FileInv) => NoLostUpdate
    BY DEF IInv, FileInv, NoLostUpdate, StoreTypeOK, LockInv, CheckedInv, Writing, Locked
<1>2. QED
    BY OneWriterInductive, <1>1, PTL

\* With one writer, the backup of a save is the file it is about to replace.
THEOREM BackupIsComplete ==
    ASSUME OneStore
    PROVE  StoreSpec => []BackupHoldsWhatIsReplaced
<1>1. IInv /\ (Alone => FileInv) => BackupHoldsWhatIsReplaced
    BY DEF IInv, FileInv, BackupHoldsWhatIsReplaced, StoreTypeOK, LockInv, CheckedInv, BackupInv, Writing, Locked
<1>2. QED
    BY OneWriterInductive, <1>1, PTL

\* With one writer, an idle store serves what is on disk.
THEOREM MemoryFollowsFile ==
    ASSUME OneStore
    PROVE  StoreSpec => []MemoryMatchesFile
<1>1. (Alone => FileInv) => MemoryMatchesFile
    BY DEF FileInv, MemoryMatchesFile
<1>2. QED
    BY OneWriterInductive, <1>1, PTL

-----------------------------------------------------------------------------
(* What a power loss may leave, with one store.                            *)

\* The file is one of the contents a power loss may leave, and while a store is being
\* created the torn file is another.
SurvivalInv ==
    /\ file \in survives
    /\ booting # {} => Torn \in survives

LEMMA StepSurvivalInv ==
    ASSUME OneStore, IInv, SurvivalInv, [StoreNext]_storeVars
    PROVE  SurvivalInv'
<1> USE DEF OneStore, SurvivalInv, IInv, StoreTypeOK, LockInv, Locked, Writing, disk, saving, bounds
<1>1. ASSUME NEW st \in Stores, Opening(st) PROVE SurvivalInv'
    BY <1>1 DEF Opening, Create, WriteSeed, SeedFails, Open, Close
<1>2. ASSUME NEW st \in Stores, ProcessCrash(st) PROVE SurvivalInv'
    BY <1>2 DEF ProcessCrash, Kill
<1>3. ASSUME NEW s \in Savers, NEW st \in Stores, NEW r \in Requests, Begin(s, st, r) PROVE SurvivalInv'
    BY <1>3 DEF Begin
<1>4. ASSUME NEW s \in Savers, Progress(s), ~Rename(s), ~SyncDir(s) PROVE SurvivalInv'
    BY <1>4 DEF Progress, Lock, Check, Backup, WriteTemp, Publish, WriteFails
<1>5. ASSUME NEW s \in Savers, Rename(s) PROVE SurvivalInv'
    BY <1>5 DEF Rename
\* No store is being created while one is open: the torn file cannot be what this sync forgets.
<1>6. ASSUME NEW s \in Savers, SyncDir(s) PROVE SurvivalInv'
    <2>1. on[s] \in Stores /\ mem[on[s]] # Nil
        BY <1>6, StoreAssumption DEF SyncDir
    <2>2. booting = {}
        BY <2>1
    <2>3. QED
        BY <1>6, <2>2 DEF SyncDir
<1>7. ASSUME NEW c \in Edits, ExternalEdit(c) PROVE SurvivalInv'
    BY <1>7 DEF ExternalEdit
<1>8. ASSUME PowerLoss PROVE SurvivalInv'
    BY <1>8 DEF PowerLoss, Kill
<1>9. CASE UNCHANGED storeVars
    BY <1>9 DEF storeVars
<1>10. QED
    BY <1>1, <1>2, <1>3, <1>4, <1>5, <1>6, <1>7, <1>8, <1>9 DEF StoreNext

\* With one store, no save, failed write, crash or restart makes an unreadable file possible once
\* a power loss cannot leave one (property StaysLoadable).
THEOREM LoadableStays ==
    ASSUME OneStore
    PROVE  StoreSpec => StaysLoadable
<1> DEFINE Keeps == edits' = edits /\ survives \subseteq Loadable => survives' \subseteq Loadable
<1>1. StoreInit => SurvivalInv
    BY DEF StoreInit, SurvivalInv
<1>2. IInv /\ SurvivalInv /\ [StoreNext]_storeVars => [Keeps]_storeVars
    <2> SUFFICES ASSUME IInv, SurvivalInv, StoreNext, edits' = edits, survives \subseteq Loadable
                 PROVE  survives' \subseteq Loadable
        BY DEF Keeps
    <2>1. file \in Loadable /\ file # Absent /\ booting = {}
        BY StoreAssumption DEF SurvivalInv, Loadable
    <2> USE DEF disk, saving, bounds
    <2>2. ASSUME NEW st \in Stores, Opening(st) PROVE survives' = survives
        BY <2>1, <2>2 DEF Opening, Create, WriteSeed, SeedFails, Open, Close
    <2>3. ASSUME NEW st \in Stores, ProcessCrash(st) PROVE survives' = survives
        BY <2>3 DEF ProcessCrash
    <2>4. ASSUME NEW s \in Savers, NEW st \in Stores, NEW r \in Requests, Begin(s, st, r)
          PROVE survives' = survives
        BY <2>4 DEF Begin
    <2>5. ASSUME NEW s \in Savers, Progress(s) PROVE survives' \subseteq Loadable
        <3>1. CASE Rename(s)
            BY <3>1 DEF Rename, IInv, CheckedInv, Writing
        <3>2. CASE SyncDir(s)
            BY <2>1, <3>2 DEF SyncDir
        <3>3. CASE ~Rename(s) /\ ~SyncDir(s)
            BY <2>5, <3>3 DEF Progress, Lock, Check, Backup, WriteTemp, Publish, WriteFails
        <3>4. QED
            BY <3>1, <3>2, <3>3
    <2>6. ASSUME NEW c \in Edits, ExternalEdit(c) PROVE FALSE
        BY <2>6 DEF ExternalEdit, IInv, StoreTypeOK
    <2>7. ASSUME PowerLoss PROVE survives' \subseteq Loadable
        BY <2>7 DEF PowerLoss
    <2>8. QED
        BY <2>2, <2>3, <2>4, <2>5, <2>6, <2>7 DEF StoreNext
<1>3. IInv /\ SurvivalInv /\ [StoreNext]_storeVars => SurvivalInv'
    BY StepSurvivalInv
<1>4. QED
    BY <1>1, <1>2, <1>3, InitIInv, StepIInv, PTL DEF StoreSpec, StaysLoadable

-----------------------------------------------------------------------------
(* With one writer the store is a compare-and-set register.                *)

LEMMA RegisterInit == StoreInit => Register!Init
BY StoreAssumption DEF StoreInit, Register!Init, Stage, Answered, Contents

\* Every return of save is the answer of the register's client.
LEMMA ReturnAnswers ==
    ASSUME IInv, UNCHANGED disk, NEW s \in Savers, pc[s] # "idle", NEW outcome \in Outcomes \ {"none"},
           Return(s, outcome), outcome = "saved" <=> Stage(s) = "done"
    PROVE  Register!Answer(s)
<1> USE DEF IInv, StoreTypeOK, Return
<1>1. [i \in Savers |-> Stage(i)]' = [[i \in Savers |-> Stage(i)] EXCEPT ![s] = "idle"]
    BY DEF Stage
<1>2. [i \in Savers |-> IF req[i] = Nil THEN Nil ELSE [want |-> req[i].want, exp |-> req[i].exp]]'
        = [[i \in Savers |-> IF req[i] = Nil THEN Nil ELSE [want |-> req[i].want, exp |-> req[i].exp]]
             EXCEPT ![s] = Nil]
    OBVIOUS
<1>3. [i \in Savers |-> Answered(i)]'
        = [[i \in Savers |-> Answered(i)] EXCEPT ![s] = IF Stage(s) = "done" THEN "saved" ELSE "kept"]
    BY DEF Answered
<1>4. [i \in Savers |-> Stage(i)][s] \in {"asked", "done"}
    BY DEF Stage
<1>5. UNCHANGED <<file, survives>>
    BY DEF disk
<1>6. QED
    BY <1>1, <1>2, <1>3, <1>4, <1>5 DEF Register!Answer

LEMMA RegisterStep ==
    ASSUME OneStore, Alone', IInv, FileInv, [StoreNext]_storeVars
    PROVE  [Register!Next]_(Register!vars)
<1> USE StoreAssumption DEF IInv, StoreTypeOK, LockInv, CheckedInv, Writing, Locked, disk, saving, bounds,
        Stage, Answered
<1>1. ASSUME NEW st \in Stores, Create(st) \/ WriteSeed(st) \/ SeedFails(st) PROVE Register!Establish
    BY <1>1 DEF Create, WriteSeed, SeedFails, Register!Establish, FileInv, Contents
<1>2. ASSUME NEW st \in Stores, Open(st) \/ Close(st) PROVE UNCHANGED Register!vars
    BY <1>2 DEF Open, Close, Register!vars
<1>3. ASSUME NEW st \in Stores, ProcessCrash(st) PROVE Register!Next
    <2>1. PICK dead \in SUBSET Savers : dead = {s \in Savers : on[s] = st}
        OBVIOUS
    <2>2. Register!Crash(dead)
        BY <2>1, <1>3 DEF ProcessCrash, Kill, Register!Crash, Register!Drop
    <2>3. QED
        BY <2>2 DEF Register!Next
<1>4. ASSUME NEW s \in Savers, NEW st \in Stores, NEW r \in Requests, Begin(s, st, r)
      PROVE Register!Ask(s, [want |-> r.want, exp |-> r.exp])
    <2>1. [i \in Savers |-> Stage(i)]' = [[i \in Savers |-> Stage(i)] EXCEPT ![s] = "asked"]
        BY <1>4 DEF Begin
    <2>2. [i \in Savers |-> IF req[i] = Nil THEN Nil ELSE [want |-> req[i].want, exp |-> req[i].exp]]'
            = [[i \in Savers |-> IF req[i] = Nil THEN Nil ELSE [want |-> req[i].want, exp |-> req[i].exp]]
                 EXCEPT ![s] = [want |-> r.want, exp |-> r.exp]]
        <3>1. /\ req' = [req EXCEPT ![s] = r]
              /\ r # Nil
              /\ DOMAIN req = Savers
            BY <1>4 DEF Begin
        <3> HIDE DEF IInv, StoreTypeOK, LockInv, CheckedInv, Stage, Answered
        <3>2. QED
            BY <3>1
    <2>3. [i \in Savers |-> Answered(i)]' = [[i \in Savers |-> Answered(i)] EXCEPT ![s] = "none"]
        BY <1>4 DEF Begin
    <2>4. Stage(s) = "idle" /\ UNCHANGED <<file, survives>>
        BY <1>4 DEF Begin
    <2>5. QED
        BY <2>1, <2>2, <2>3, <2>4 DEF Register!Ask
<1>5. ASSUME NEW s \in Savers, Lock(s) \/ Backup(s) \/ WriteTemp(s) PROVE UNCHANGED Register!vars
    BY <1>5 DEF Lock, Backup, WriteTemp, Register!vars
<1>6. ASSUME NEW s \in Savers, Check(s) PROVE Register!Answer(s) \/ UNCHANGED Register!vars
    <2>1. CASE Verdict(s) = "proceed"
        BY <2>1, <1>6 DEF Check, Register!vars
    <2>2. CASE Verdict(s) # "proceed"
        <3>1. Verdict(s) \in {"conflict", "ambiguous", "error", "unchanged", "toolarge"}
            BY <2>2 DEF Verdict
        <3>2. Return(s, Verdict(s)) /\ UNCHANGED disk /\ pc[s] = "checking"
            BY <2>2, <1>6 DEF Check
        <3>3. QED
            BY <3>1, <3>2, ReturnAnswers DEF Outcomes
    <2>3. QED
        BY <2>1, <2>2
<1>7. ASSUME NEW s \in Savers, Rename(s) PROVE Register!Commit(s)
    <2>1. [i \in Savers |-> Stage(i)]' = [[i \in Savers |-> Stage(i)] EXCEPT ![s] = "done"]
        BY <1>7 DEF Rename
    <2>2. file = req[s].exp /\ req[s].want \in Loadable /\ req[s] # Nil /\ Stage(s) = "asked"
        BY <1>7 DEF Rename, FileInv
    <2>3. /\ file' = req[s].want
          /\ survives' = survives \cup {file'}
          /\ UNCHANGED <<req, res>>
        BY <1>7 DEF Rename
    <2>4. QED
        BY <2>1, <2>2, <2>3 DEF Register!Commit
<1>8. ASSUME NEW s \in Savers, SyncDir(s) PROVE Register!Settle \/ UNCHANGED Register!vars
    BY <1>8 DEF SyncDir, Register!Settle, Register!vars
<1>9. ASSUME NEW s \in Savers, Publish(s) PROVE Register!Answer(s)
    BY <1>9, ReturnAnswers DEF Publish, Outcomes
<1>10. ASSUME NEW s \in Savers, WriteFails(s) PROVE Register!Answer(s)
    BY <1>10, ReturnAnswers DEF WriteFails, Outcomes
<1>11. ASSUME NEW c \in Edits, ExternalEdit(c) PROVE FALSE
    BY <1>11 DEF ExternalEdit, Alone
<1>12. ASSUME PowerLoss PROVE Register!Next
    <2>1. PICK dead \in SUBSET Savers : dead = {s \in Savers : on[s] # Nil}
        OBVIOUS
    <2>2. Register!PowerLoss(dead)
        BY <2>1, <1>12 DEF PowerLoss, Kill, Register!PowerLoss, Register!Drop
    <2>3. QED
        BY <2>2 DEF Register!Next
<1>13. CASE UNCHANGED storeVars
    BY <1>13 DEF storeVars, Register!vars
<1>14. QED
    <2>1. ASSUME NEW s \in Savers, NEW st \in Stores, NEW r \in Requests, Begin(s, st, r)
          PROVE Register!Next
        <3>1. [want |-> r.want, exp |-> r.exp] \in [want: Revisions, exp: Loadable]
            BY DEF Requests
        <3>2. Register!Ask(s, [want |-> r.want, exp |-> r.exp])
            BY <2>1, <1>4
        <3>3. QED
            BY <3>1, <3>2 DEF Register!Next
    <2>2. ASSUME NEW s \in Savers, Progress(s) PROVE Register!Next \/ UNCHANGED Register!vars
        <3>1. Register!Answer(s) \/ Register!Commit(s) \/ Register!Settle => Register!Next
            BY DEF Register!Next
        <3> HIDE DEF IInv, StoreTypeOK, LockInv, CheckedInv, Stage, Answered
        <3>2. CASE Lock(s) \/ Backup(s) \/ WriteTemp(s)
            BY <3>2, <1>5
        <3>3. CASE Check(s) \/ SyncDir(s)
            BY <3>3, <3>1, <1>6, <1>8
        <3>4. CASE Rename(s) \/ Publish(s) \/ WriteFails(s)
            BY <3>4, <3>1, <1>7, <1>9, <1>10
        <3>5. QED
            BY <2>2, <3>2, <3>3, <3>4 DEF Progress
    <2>3. ASSUME NEW st \in Stores, Opening(st) PROVE Register!Next \/ UNCHANGED Register!vars
        BY <2>3, <1>1, <1>2 DEF Opening, Register!Next
    <2>4. QED
        <3> HIDE DEF IInv, StoreTypeOK, LockInv, CheckedInv, Stage, Answered
        <3>1. CASE StoreNext
            BY <3>1, <2>1, <1>3, <1>12, <2>2, <2>3, <1>11 DEF StoreNext
        <3>2. QED
            BY <3>1, <1>13

\* With one store, every step until another program edits the file, with its
\* crashes, power losses and failed writes, is one of the compare-and-set
\* register.
THEOREM StoreImplementsRegister ==
    ASSUME OneStore
    PROVE  StoreSpec => ImplementsRegister
<1>1. IInv /\ (Alone => FileInv) /\ [StoreNext]_storeVars => [Alone' => [Register!Next]_(Register!vars)]_storeVars
    BY RegisterStep, AloneBefore
<1>2. QED
    BY RegisterInit, OneWriterInductive, <1>1, PTL DEF StoreSpec, ImplementsRegister

-----------------------------------------------------------------------------
(* The live administration.                                                *)

\* What a job knows at each of its steps, others' changes in Bifrost (touched) and other
\* saves (moved) aside.
MergeInv == At("put", "merge") => Managed(job.plan) = Managed(job.seen)

PutInv ==
    job.op = "put" /\ job.pc \in {"aliases", "apply", "refresh"} =>
        /\ ~moved => cfg = job.plan
        /\ \A k \in Managed(job.plan) : proofs[k] = None
        /\ job.pc # "aliases" =>
              /\ job.todo \subseteq Writable(job.plan)
              /\ \A k \in (Writable(job.plan) \ job.todo) \ touched : native[k] = job.plan[k].want
        /\ job.pc = "refresh" => job.todo = {}

ReadbackInv ==
    job.op = "readback" =>
        /\ job.pc \in {"list", "finish"}
        /\ job.key \in Keys /\ job.plan[job.key] # None
        /\ (job.pc = "finish" /\ job.key \notin touched) =>
              HasList(job.key) /\ job.list \subseteq native[job.key]

CreateInv ==
    job.op = "create" =>
        /\ job.key \in Keys
        /\ job.pc = "read" => native[job.key] = None
        /\ job.pc = "bind" => native[job.key] # None

AdoptInv ==
    job.op = "adopt" =>
        /\ job.key \in Keys
        /\ job.pc \in {"read", "list", "merge", "save"}
        /\ job.pc # "read" =>
              /\ job.list # {} /\ native[job.key] # None
              /\ job.key \notin touched => native[job.key] = job.list
        /\ job.pc = "save" => job.plan[job.key] = [want |-> job.list, ceiling |-> job.list]

EditInv ==
    job.op = "edit" =>
        /\ job.key \in Keys
        /\ ~moved => cfg[job.key] = None
        /\ (job.pc = "apply" /\ job.key \notin touched) =>
              HasList(job.key) /\ job.list \subseteq native[job.key]

\* Only a key that exists in Bifrost gets a policy.
FreshInv ==
    \A k \in Keys : native[k] = None => /\ cfg[k] = None
                                        /\ job.pc = "save" => job.plan[k] = None

ProofsInv ==
    \A k \in Keys : proofs[k] # None =>
        /\ proofs[k].actual = proofs[k].of[k].want
        /\ k \notin lapsed => HasList(k) /\ proofs[k].actual \subseteq native[k]

JobInv == MergeInv /\ PutInv /\ ReadbackInv /\ CreateInv /\ AdoptInv /\ EditInv
LiveInv == TypeOK /\ JobInv /\ FreshInv /\ ProofsInv

----------------------------------------------------------------------------
\* The configurations the jobs build are well typed: a selection under a ceiling stays under it.
LEMMA PolicyType ==
    ASSUME NEW W \in Lists, NEW c \in Lists
    PROVE  [want |-> Narrowed(W, c), ceiling |-> c] \in Policies
BY DEF Lists, Policies, Narrowed

LEMMA RevisedType ==
    ASSUME NEW c \in Configs, NEW W \in [Keys -> Lists]
    PROVE  Revised(c, W) \in Configs
<1>1. ASSUME NEW k \in Keys, c[k] # None
      PROVE  [want |-> Narrowed(W[k], c[k].ceiling), ceiling |-> c[k].ceiling] \in Policies
  <2>1. c[k].ceiling \in Lists
    BY <1>1 DEF Configs, Policies, Lists
  <2> QED BY <2>1, PolicyType
<1> QED BY <1>1 DEF Revised, Configs

LEMMA MergedType ==
    ASSUME TypeOK, MergeInv, PutMerge
    PROVE  [k \in Keys |-> IF cfg[k] = None THEN None
                           ELSE [want |-> Narrowed(job.plan[k].want, cfg[k].ceiling),
                                 ceiling |-> cfg[k].ceiling]] \in Configs
<1>1. ASSUME NEW k \in Keys, cfg[k] # None
      PROVE  [want |-> Narrowed(job.plan[k].want, cfg[k].ceiling), ceiling |-> cfg[k].ceiling] \in Policies
  <2>1. cfg[k].ceiling \in Lists
    BY <1>1 DEF TypeOK, Configs, Policies, Lists
  <2>2. job.plan[k] # None
    BY <1>1 DEF MergeInv, PutMerge, Managed
  <2>3. job.plan[k].want \in Lists
    BY <2>2 DEF TypeOK, Jobs, Configs, Policies, Lists
  <2> QED BY <2>1, <2>3, PolicyType
<1> QED BY <1>1 DEF Configs

----------------------------------------------------------------------------
LEMMA InitLive == Init => LiveInv
<1> SUFFICES ASSUME Init PROVE LiveInv
  OBVIOUS
<1>1. Empty \in Configs
  BY DEF Empty, Configs
<1>2. NoJob \in Jobs
  BY <1>1 DEF NoJob, Jobs, Ops, Pcs
<1>3. cfg \in Configs /\ job \in Jobs
  BY <1>1, <1>2 DEF Init
<1>4. outside \in 0..MaxOutside /\ jobs \in 0..MaxJobs
  BY LiveAssumption DEF Init
<1>5. DOMAIN proofs = Keys /\ \A k \in Keys : proofs[k] = None
  BY DEF Init
<1>6. TypeOK
  BY <1>3, <1>4, <1>5 DEF Init, TypeOK
<1> QED
  BY <1>5, <1>6 DEF Init, LiveInv, JobInv, MergeInv, PutInv, ReadbackInv, CreateInv, AdoptInv, EditInv,
              FreshInv, ProofsInv, NoJob, Empty, At

LEMMA TypeStep == ASSUME LiveInv, [Next]_vars PROVE TypeOK'
<1> USE DEF LiveInv, JobInv
<1>0. NoJob \in Jobs
  BY DEF NoJob, Jobs, Ops, Pcs, Empty, Configs
<1>1. CASE Quit \/ SaveRefused
  BY <1>0, <1>1 DEF TypeOK, Quit, SaveRefused, End, ghosts
<1>2. CASE PutMerge
  <2>1. job' \in Jobs
    BY <1>2, MergedType DEF PutMerge, TypeOK, Jobs, Pcs
  <2> QED BY <1>2, <2>1 DEF PutMerge, TypeOK, ghosts
<1>3. CASE PutSave
  <2>1. job' \in Jobs /\ cfg' \in Configs
    BY <1>3 DEF PutSave, Saves, At, TypeOK, Jobs, Pcs
  <2> QED BY <1>3, <2>1 DEF PutSave, Saves, TypeOK
<1>4. CASE PutAliases
  <2>1. job' \in Jobs
    BY <1>4 DEF PutAliases, At, TypeOK, Jobs, Pcs, Writable, Managed
  <2> QED BY <1>4, <2>1 DEF PutAliases, TypeOK, ghosts
<1>5. ASSUME NEW k \in Keys, PutApply(k) PROVE TypeOK'
  <2>1. job' \in Jobs
    BY <1>0, <1>5 DEF PutApply, At, TypeOK, Jobs
  <2>2. job.plan[k] # None
    BY <1>5 DEF PutApply, At, PutInv, Writable, Managed
  <2>3. job.plan[k].want \in Lists
    BY <2>2 DEF TypeOK, Jobs, Configs, Policies, Lists
  <2> QED BY <1>5, <2>1, <2>3 DEF PutApply, TypeOK, ghosts
<1>6. CASE PutApplied
  <2>1. job' \in Jobs
    BY <1>6 DEF PutApplied, Goto, TypeOK, Jobs, Pcs
  <2> QED BY <1>6, <2>1 DEF PutApplied, TypeOK, ghosts
<1>7. CASE ReadbackList
  <2>1. Listed(job.key) \in Lists
    <3>1. native[job.key] \in Lists
      BY <1>7 DEF ReadbackList, At, ReadbackInv, HasList, TypeOK
    <3> QED BY <3>1 DEF Listed, Lists
  <2>2. job' \in Jobs
    BY <1>7, <2>1 DEF ReadbackList, TypeOK, Jobs, Pcs, Lists
  <2> QED BY <1>7, <2>2 DEF ReadbackList, TypeOK, ghosts
<1>8. CASE ReadbackFail
  BY <1>0, <1>8 DEF ReadbackFail, End, TypeOK, ghosts
<1>9. CASE ReadbackFinish
  <2>1. job.key \in Keys /\ job.plan[job.key] # None /\ job.list \in Lists \ {{}}
    BY <1>9 DEF ReadbackFinish, At, ReadbackInv, Matches, TypeOK, Jobs, Lists
  <2>2. job.plan \in Configs
    BY DEF TypeOK, Jobs
  <2> QED BY <1>0, <1>9, <2>1, <2>2 DEF ReadbackFinish, End, TypeOK
<1>10. CASE CreateNative
  <2>1. job' \in Jobs
    BY <1>0, <1>10 DEF CreateNative, TypeOK, Jobs, Pcs
  <2> QED BY <1>10, <2>1 DEF CreateNative, TypeOK, Lists, ghosts
<1>11. CASE CreateBind
  <2>1. [want |-> {}, ceiling |-> {}] \in Policies
    BY DEF Policies
  <2>2. job' \in Jobs
    BY <1>11, <2>1 DEF CreateBind, TypeOK, Jobs, Pcs, Configs
  <2> QED BY <1>11, <2>2 DEF CreateBind, TypeOK, ghosts
<1>12. CASE CreateSave
  <2>1. job' \in Jobs /\ cfg' \in Configs
    BY <1>12 DEF CreateSave, Saves, TypeOK, Jobs, Pcs
  <2> QED BY <1>12, <2>1 DEF CreateSave, Saves, TypeOK
<1>13. CASE AdoptRead
  <2>1. native[job.key] \in Lists
    BY <1>13 DEF AdoptRead, At, AdoptInv, HasList, TypeOK
  <2>2. job' \in Jobs
    BY <1>13, <2>1 DEF AdoptRead, TypeOK, Jobs, Pcs, Lists
  <2> QED BY <1>13, <2>2 DEF AdoptRead, TypeOK, ghosts
<1>14. CASE AdoptList
  <2>1. job' \in Jobs
    BY <1>14 DEF AdoptList, Goto, TypeOK, Jobs, Pcs
  <2> QED BY <1>14, <2>1 DEF AdoptList, TypeOK, ghosts
<1>15. CASE AdoptMerge
  <2>1. [want |-> job.list, ceiling |-> job.list] \in Policies
    BY DEF TypeOK, Jobs, Policies
  <2>2. job' \in Jobs
    BY <1>15, <2>1 DEF AdoptMerge, TypeOK, Jobs, Pcs, Configs
  <2> QED BY <1>15, <2>2 DEF AdoptMerge, TypeOK, ghosts
<1>16. CASE AdoptSave
  <2>1. job' \in Jobs /\ cfg' \in Configs
    BY <1>0, <1>16 DEF AdoptSave, Saves, TypeOK, Jobs
  <2> QED BY <1>16, <2>1 DEF AdoptSave, Saves, TypeOK
<1>17. CASE EditRead
  <2>1. native[job.key] \in Lists
    BY <1>17 DEF EditRead, At, EditInv, HasList, TypeOK
  <2>2. PICK ms \in SUBSET native[job.key] : job' = [job EXCEPT !.pc = "apply", !.list = ms]
    BY <1>17 DEF EditRead
  <2>3. ms \in SUBSET Models /\ job \in Jobs /\ "apply" \in Pcs
    BY <2>1, <2>2 DEF TypeOK, Lists, Pcs
  <2>4. job' \in Jobs
    BY <2>2, <2>3 DEF Jobs
  <2> QED BY <1>17, <2>4 DEF EditRead, TypeOK, ghosts
<1>18. CASE EditApply
  <2>1. job' \in Jobs
    BY <1>0, <1>18 DEF EditApply, TypeOK, Jobs, Pcs
  <2>2. job.key \in Keys /\ job.list \in Lists
    BY <1>18 DEF EditApply, At, EditInv, TypeOK, Jobs, Lists
  <2> QED BY <1>18, <2>1, <2>2 DEF EditApply, TypeOK
<1>19. ASSUME NEW W \in [Keys -> Lists], PutStart(W) PROVE TypeOK'
  <2>0. Revised(cfg, W) \in Configs
    BY RevisedType DEF TypeOK
  <2>1. job' \in Jobs
    BY <1>19, <2>0 DEF PutStart, Start, TypeOK, Jobs, Ops, Pcs
  <2>2. jobs' \in 0..MaxJobs
    BY <1>19, LiveAssumption DEF PutStart, Start, TypeOK
  <2> QED BY <1>19, <2>1, <2>2 DEF PutStart, Start, TypeOK
<1>20. ASSUME NEW k \in Keys, ReadbackStart(k) \/ CreateStart(k) \/ AdoptStart(k) \/ EditStart(k)
       PROVE TypeOK'
  <2>1. Empty \in Configs /\ cfg \in Configs
    BY DEF Empty, Configs, TypeOK
  <2>2. job' \in Jobs
    BY <1>20, <2>1 DEF ReadbackStart, CreateStart, AdoptStart, EditStart, Start, Jobs, Ops, Pcs
  <2>3. jobs' \in 0..MaxJobs
    BY <1>20, LiveAssumption DEF ReadbackStart, CreateStart, AdoptStart, EditStart, Start, TypeOK
  <2> QED BY <1>20, <2>2, <2>3 DEF ReadbackStart, CreateStart, AdoptStart, EditStart, Start, TypeOK
<1>21. ASSUME NEW k \in Keys, NEW p \in Policies \cup {None}, ConfigWrite(k, p) PROVE TypeOK'
  <2>1. cfg' \in Configs
    BY <1>21 DEF ConfigWrite, TypeOK, Configs
  <2> QED BY <1>21, <2>1, LiveAssumption DEF ConfigWrite, TypeOK
<1>22. ASSUME NEW k \in Keys, NEW l \in Lists \cup {Gone}, External(k, l) PROVE TypeOK'
  BY <1>22, LiveAssumption DEF External, TypeOK
<1>23. CASE Restart
  BY <1>0, <1>23 DEF Restart, TypeOK, ghosts
<1>24. CASE UNCHANGED vars
  BY <1>24 DEF vars, TypeOK
<1> QED
  BY <1>1, <1>2, <1>3, <1>4, <1>5, <1>6, <1>7, <1>8, <1>9, <1>10, <1>11, <1>12, <1>13, <1>14,
     <1>15, <1>16, <1>17, <1>18, <1>19, <1>20, <1>21, <1>22, <1>23, <1>24
  DEF Next, JobStep, JobStart, Outside

----------------------------------------------------------------------------
\* An ended job knows nothing.
LEMMA EndedKnows == job' = NoJob => JobInv'
BY DEF NoJob, JobInv, MergeInv, PutInv, ReadbackInv, CreateInv, AdoptInv, EditInv, At

LEMMA JobInvStep == ASSUME LiveInv, [Next]_vars PROVE JobInv'
<1> USE DEF LiveInv
<1> USE DEF JobInv, MergeInv, PutInv, ReadbackInv, CreateInv, AdoptInv, EditInv, At
<1>a. job.key \in Keys \cup {None} /\ job.todo \subseteq Keys /\ touched \subseteq Keys
  BY DEF TypeOK, Jobs
<1>1. CASE Quit \/ SaveRefused \/ ReadbackFail \/ ReadbackFinish \/ AdoptSave \/ Restart
  <2>1. job' = NoJob
    BY <1>1 DEF Quit, SaveRefused, ReadbackFail, ReadbackFinish, AdoptSave, Saves, Restart, End
  <2> QED BY <2>1, EndedKnows
<1>2. CASE PutMerge
  <2>1. job' = [job EXCEPT !.pc = "save", !.plan = job'.plan]
    BY <1>2 DEF PutMerge, TypeOK, Jobs
  <2> QED BY <1>2, <2>1 DEF PutMerge, TypeOK, Jobs
<1>3. CASE PutSave
  <2>1. job' = [job EXCEPT !.pc = "aliases"] /\ cfg' = job.plan
    BY <1>3 DEF PutSave, Saves
  <2>2. \A k \in Managed(job.plan) : proofs'[k] = None
    BY <1>3 DEF PutSave, Saves, Managed
  <2> QED BY <1>3, <2>1, <2>2 DEF PutSave, TypeOK, Jobs
<1>4. CASE PutAliases
  BY <1>4 DEF PutAliases, TypeOK, Jobs, ghosts
<1>5. ASSUME NEW k \in Keys, PutApply(k) PROVE JobInv'
  <2>1. CASE job' = NoJob
    BY <2>1, EndedKnows
  <2>2. CASE job' = [job EXCEPT !.todo = @ \ {k}]
    <3>1. job'.op = "put" /\ job'.pc = "apply" /\ job'.plan = job.plan /\ job'.todo = job.todo \ {k}
      BY <1>5, <2>2 DEF PutApply, TypeOK, Jobs
    <3>2. native' = [native EXCEPT ![k] = job.plan[k].want]
          /\ UNCHANGED <<cfg, proofs, moved, touched>>
      BY <1>5 DEF PutApply, ghosts
    <3>3. \A j \in (Writable(job.plan) \ job'.todo) \ touched : native'[j] = job.plan[j].want
      BY <1>5, <3>1, <3>2 DEF PutApply, TypeOK, Writable, Managed
    <3> QED BY <1>5, <3>1, <3>2, <3>3 DEF PutApply
  <2> QED BY <1>5, <2>1, <2>2 DEF PutApply
<1>6. CASE PutApplied
  <2>1. job'.op = "put" /\ job'.pc = "refresh" /\ job'.plan = job.plan /\ job'.todo = job.todo
    BY <1>6 DEF PutApplied, Goto, TypeOK, Jobs
  <2> QED BY <1>6, <2>1 DEF PutApplied, ghosts
<1>7. CASE ReadbackList
  <2>1. job'.op = "readback" /\ job'.pc = "finish" /\ job'.key = job.key /\ job'.plan = job.plan
        /\ job'.list = Listed(job.key)
    BY <1>7 DEF ReadbackList, TypeOK, Jobs
  <2>2. Listed(job.key) \subseteq native[job.key]
    BY DEF Listed
  <2> QED BY <1>7, <2>1, <2>2 DEF ReadbackList, HasList, ghosts
<1>8. CASE CreateNative
  <2>1. CASE job' = NoJob
    BY <2>1, EndedKnows
  <2>2. CASE job' = [job EXCEPT !.pc = "bind"]
    <3>1. {} # None
      BY LiveAssumption
    <3> QED BY <1>8, <2>2, <3>1 DEF CreateNative, TypeOK, Jobs
  <2> QED BY <1>8, <2>1, <2>2 DEF CreateNative
<1>9. CASE CreateBind
  <2>1. job'.op = "create" /\ job'.pc = "save" /\ job'.key = job.key
    BY <1>9 DEF CreateBind, TypeOK, Jobs
  <2> QED BY <1>9, <2>1 DEF CreateBind
<1>10. CASE CreateSave
  <2>1. job'.op = "create" /\ job'.pc = "refresh" /\ job'.key = job.key
    BY <1>10 DEF CreateSave, Saves, TypeOK, Jobs
  <2> QED BY <1>10, <2>1 DEF CreateSave
<1>11. CASE AdoptRead
  <2>1. job'.op = "adopt" /\ job'.pc = "list" /\ job'.key = job.key /\ job'.list = native[job.key]
    BY <1>11 DEF AdoptRead, TypeOK, Jobs
  <2> QED BY <1>11, <2>1 DEF AdoptRead, HasList, ghosts
<1>12. CASE AdoptList
  <2>1. job'.op = "adopt" /\ job'.pc = "merge" /\ job'.key = job.key /\ job'.list = job.list
    BY <1>12 DEF AdoptList, Goto, TypeOK, Jobs
  <2> QED BY <1>12, <2>1 DEF AdoptList, ghosts
<1>13. CASE AdoptMerge
  <2>1. job'.op = "adopt" /\ job'.pc = "save" /\ job'.key = job.key /\ job'.list = job.list
        /\ job'.plan = [cfg EXCEPT ![job.key] = [want |-> job.list, ceiling |-> job.list]]
    BY <1>13 DEF AdoptMerge, TypeOK, Jobs
  <2>2. job'.plan[job.key] = [want |-> job.list, ceiling |-> job.list]
    BY <1>13, <2>1 DEF AdoptMerge, TypeOK, Configs
  <2> QED BY <1>13, <2>1, <2>2 DEF AdoptMerge, ghosts
<1>14. CASE EditRead
  <2>1. job'.op = "edit" /\ job'.pc = "apply" /\ job'.key = job.key /\ job'.list \subseteq native[job.key]
    BY <1>14 DEF EditRead, TypeOK, Jobs
  <2> QED BY <1>14, <2>1 DEF EditRead, HasList, ghosts
<1>15. CASE EditApply
  <2>1. CASE job' = NoJob
    BY <2>1, EndedKnows
  <2>2. CASE job' = [job EXCEPT !.pc = "refresh"]
    BY <1>15, <2>2 DEF EditApply, TypeOK, Jobs
  <2> QED BY <1>15, <2>1, <2>2 DEF EditApply
<1>16. ASSUME NEW W \in [Keys -> Lists], PutStart(W) PROVE JobInv'
  <2>1. Managed(Revised(cfg, W)) = Managed(cfg)
    <3>1. \A k \in Keys : cfg[k] # None => Revised(cfg, W)[k] # None
      <4> SUFFICES ASSUME NEW k \in Keys, cfg[k] # None PROVE Revised(cfg, W)[k] # None
        OBVIOUS
      <4>1. cfg[k].ceiling \in Lists
        BY DEF TypeOK, Configs, Policies, Lists
      <4> QED BY <4>1, LiveAssumption DEF Revised, Narrowed, Lists
    <3> QED BY <3>1 DEF Managed, Revised
  <2> QED BY <1>16, <2>1 DEF PutStart, Start
<1>17. ASSUME NEW k \in Keys, ReadbackStart(k) \/ CreateStart(k) \/ AdoptStart(k) \/ EditStart(k)
       PROVE JobInv'
  BY <1>17 DEF ReadbackStart, CreateStart, AdoptStart, EditStart, Start
<1>18. ASSUME NEW k \in Keys, NEW p \in Policies \cup {None}, ConfigWrite(k, p) PROVE JobInv'
  BY <1>18 DEF ConfigWrite, HasList
<1>19. ASSUME NEW k \in Keys, NEW l \in Lists \cup {Gone}, External(k, l) PROVE JobInv'
  <2>1. UNCHANGED <<cfg, proofs, job, moved>> /\ touched' = touched \cup {k}
        /\ native' = [native EXCEPT ![k] = l] /\ l # None /\ native[k] # None
    BY <1>19, LiveAssumption DEF External, HasList, Lists
  <2>2. native \in [Keys -> {None, Gone} \cup Lists]
    BY DEF TypeOK
  <2> QED BY <2>1, <2>2 DEF HasList
<1>20. CASE UNCHANGED vars
  BY <1>20 DEF vars, HasList
<1> QED
  BY <1>1, <1>2, <1>3, <1>4, <1>5, <1>6, <1>7, <1>8, <1>9, <1>10, <1>11, <1>12, <1>13, <1>14,
     <1>15, <1>16, <1>17, <1>18, <1>19, <1>20
  DEF Next, JobStep, JobStart, Outside

----------------------------------------------------------------------------
\* No action removes a native key's record, and a key that was never made gets no policy.
LEMMA FreshStep == ASSUME LiveInv, [Next]_vars PROVE FreshInv'
<1> USE DEF LiveInv, JobInv
<1>1. CASE Quit \/ SaveRefused \/ ReadbackFail \/ ReadbackFinish \/ Restart
  <2>1. job' = NoJob /\ UNCHANGED <<cfg, native>>
    BY <1>1 DEF Quit, SaveRefused, ReadbackFail, ReadbackFinish, Restart, End
  <2> QED BY <2>1 DEF FreshInv, NoJob
<1>2. CASE PutMerge
  BY <1>2 DEF PutMerge, FreshInv, TypeOK, Jobs
<1>3. CASE PutSave \/ CreateSave
  <2>1. cfg' = job.plan /\ native' = native /\ job.pc = "save" /\ job'.pc # "save"
    BY <1>3 DEF PutSave, CreateSave, Saves, At, TypeOK, Jobs
  <2> QED BY <2>1 DEF FreshInv
<1>4. CASE AdoptSave
  <2>1. cfg' = job.plan /\ native' = native /\ job.pc = "save" /\ job' = NoJob
    BY <1>4 DEF AdoptSave, Saves, At
  <2> QED BY <2>1 DEF FreshInv, NoJob
<1>5. ASSUME NEW k \in Keys, PutApply(k) PROVE FreshInv'
  <2>1. job'.pc # "save" /\ cfg' = cfg /\ native[k] # None
    BY <1>5 DEF PutApply, At, NoJob, TypeOK, Jobs, HasList
  <2>2. native' = [native EXCEPT ![k] = job.plan[k].want]
    BY <1>5 DEF PutApply
  <2>3. \A j \in Keys : native'[j] = None => native[j] = None
    <3>1. native \in [Keys -> {None, Gone} \cup Lists] /\ native' \in [Keys -> {None, Gone} \cup Lists]
      BY TypeStep DEF TypeOK
    <3>2. job.plan[k] # None
      BY <1>5 DEF PutApply, At, PutInv, Writable, Managed
    <3>3. job.plan[k].want \in Lists
      BY <3>2 DEF TypeOK, Jobs, Configs, Policies, Lists
    <3> QED BY <2>2, <3>1, <3>3, LiveAssumption DEF Lists
  <2> QED BY <2>1, <2>3 DEF FreshInv
<1>6. CASE PutAliases \/ PutApplied \/ ReadbackList \/ AdoptRead \/ AdoptList \/ EditRead
  <2>1. job'.pc # "save" /\ UNCHANGED <<cfg, native>>
    BY <1>6 DEF PutAliases, PutApplied, ReadbackList, AdoptRead, AdoptList, EditRead, Goto, TypeOK, Jobs
  <2> QED BY <2>1 DEF FreshInv
<1>7. CASE CreateNative \/ EditApply
  <2>1. job'.pc # "save" /\ cfg' = cfg
    BY <1>7 DEF CreateNative, EditApply, NoJob, TypeOK, Jobs
  <2>2. \A k \in Keys : native'[k] = None => native[k] = None
    <3>1. native \in [Keys -> {None, Gone} \cup Lists]
      BY DEF TypeOK
    <3>2. {} # None /\ job.list # None
      BY LiveAssumption DEF TypeOK, Jobs
    <3>3. native' = [native EXCEPT ![job.key] = {}] \/ native' = [native EXCEPT ![job.key] = job.list]
      BY <1>7 DEF CreateNative, EditApply
    <3> QED BY <3>1, <3>2, <3>3
  <2> QED BY <2>1, <2>2 DEF FreshInv
<1>8. CASE CreateBind
  <2>1. job'.plan = [cfg EXCEPT ![job.key] = [want |-> {}, ceiling |-> {}]]
        /\ native[job.key] # None /\ UNCHANGED <<cfg, native>>
    BY <1>8 DEF CreateBind, CreateInv, At, TypeOK, Jobs
  <2> QED BY <2>1 DEF FreshInv, TypeOK, Configs
<1>9. CASE AdoptMerge
  <2>1. job'.plan = [cfg EXCEPT ![job.key] = [want |-> job.list, ceiling |-> job.list]]
        /\ native[job.key] # None /\ UNCHANGED <<cfg, native>>
    BY <1>9 DEF AdoptMerge, AdoptInv, At, TypeOK, Jobs
  <2> QED BY <2>1 DEF FreshInv, TypeOK, Configs
<1>10. CASE JobStart
  BY <1>10 DEF JobStart, PutStart, ReadbackStart, CreateStart, AdoptStart, EditStart, Start, FreshInv
<1>11. ASSUME NEW k \in Keys, NEW p \in Policies \cup {None}, ConfigWrite(k, p) PROVE FreshInv'
  BY <1>11 DEF ConfigWrite, FreshInv, TypeOK, Configs
<1>12. ASSUME NEW k \in Keys, NEW l \in Lists \cup {Gone}, External(k, l) PROVE FreshInv'
  <2>1. UNCHANGED <<cfg, job>> /\ native' = [native EXCEPT ![k] = l] /\ l # None
    BY <1>12, LiveAssumption DEF External, Lists
  <2> QED BY <2>1 DEF FreshInv, TypeOK
<1>13. CASE UNCHANGED vars
  BY <1>13 DEF vars, FreshInv
<1> QED
  BY <1>1, <1>2, <1>3, <1>4, <1>5, <1>6, <1>7, <1>8, <1>9, <1>10, <1>11, <1>12, <1>13
  DEF Next, JobStep, Outside

\* A publish writes only keys whose publication its save withdrew.
LEMMA ProofsStep == ASSUME LiveInv, [Next]_vars PROVE ProofsInv'
<1> USE DEF LiveInv, JobInv
<1>1. CASE Quit \/ SaveRefused \/ PutMerge \/ CreateSave \/ PutAliases \/ PutApplied \/ ReadbackList
           \/ CreateBind \/ AdoptRead \/ AdoptList \/ AdoptMerge \/ EditRead \/ JobStart
           \/ UNCHANGED vars
  <2>1. UNCHANGED <<native, proofs, lapsed>>
    BY <1>1 DEF Quit, SaveRefused, PutMerge, CreateSave, Saves, PutAliases, PutApplied, ReadbackList,
                CreateBind, AdoptRead, AdoptList, AdoptMerge, EditRead, JobStart, PutStart,
                ReadbackStart, CreateStart, AdoptStart, EditStart, vars, ghosts
  <2> QED BY <2>1 DEF ProofsInv, HasList
<1>2. CASE PutSave \/ ReadbackFail \/ AdoptSave \/ Restart
  <2>1. UNCHANGED <<native, lapsed>> /\ \A k \in Keys : proofs'[k] = proofs[k] \/ proofs'[k] = None
    BY <1>2 DEF PutSave, ReadbackFail, AdoptSave, Saves, Restart, ghosts, TypeOK
  <2> QED BY <2>1 DEF ProofsInv, HasList
<1>3. ASSUME NEW k \in Keys, PutApply(k) PROVE ProofsInv'
  <2>1. proofs[k] = None
    BY <1>3 DEF PutApply, At, PutInv, Writable
  <2>2. UNCHANGED <<proofs, lapsed>> /\ native' = [native EXCEPT ![k] = job.plan[k].want]
    BY <1>3 DEF PutApply, ghosts
  <2> QED BY <2>1, <2>2 DEF ProofsInv, HasList, TypeOK
<1>4. CASE ReadbackFinish
  <2>1. job.key \in Keys /\ (job.key \notin touched => HasList(job.key) /\ job.list \subseteq native[job.key])
    BY <1>4 DEF ReadbackFinish, At, ReadbackInv
  <2>2. proofs' = [proofs EXCEPT ![job.key] = [of |-> job.plan, actual |-> job.list]]
        /\ lapsed' = (lapsed \ {job.key}) \cup (touched \cap {job.key}) /\ native' = native
        /\ job.list = job.plan[job.key].want
    BY <1>4 DEF ReadbackFinish, Matches
  <2>3. DOMAIN proofs = Keys
    BY DEF TypeOK
  <2>4. proofs'[job.key] = [of |-> job.plan, actual |-> job.list]
        /\ \A k \in Keys \ {job.key} : proofs'[k] = proofs[k]
    BY <2>1, <2>2, <2>3
  <2> QED BY <2>1, <2>2, <2>4 DEF ProofsInv, HasList
<1>5. CASE CreateNative
  <2>1. UNCHANGED <<proofs, lapsed>> /\ native' = [native EXCEPT ![job.key] = {}]
        /\ native[job.key] = None
    BY <1>5 DEF CreateNative, At, CreateInv, ghosts
  <2>2. {} \notin {None, Gone}
    BY LiveAssumption
  <2> QED BY <2>1, <2>2 DEF ProofsInv, HasList, TypeOK
<1>6. CASE EditApply
  <2>1. UNCHANGED proofs /\ native' = [native EXCEPT ![job.key] = job.list]
        /\ lapsed' = lapsed \cup {job.key}
    BY <1>6 DEF EditApply
  <2> QED BY <2>1 DEF ProofsInv, HasList, TypeOK
<1>7. ASSUME NEW k \in Keys, NEW p \in Policies \cup {None}, ConfigWrite(k, p) PROVE ProofsInv'
  BY <1>7 DEF ConfigWrite, ProofsInv, HasList
<1>8. ASSUME NEW k \in Keys, NEW l \in Lists \cup {Gone}, External(k, l) PROVE ProofsInv'
  BY <1>8 DEF External, ProofsInv, HasList, TypeOK
<1> QED
  BY <1>1, <1>2, <1>3, <1>4, <1>5, <1>6, <1>7, <1>8
  DEF Next, JobStep, Outside

----------------------------------------------------------------------------
\* The inductive invariant of the live administration (live.go, adoption.go, native_permissions.go).
THEOREM LiveInvariant == Spec => []LiveInv
<1>1. LiveInv /\ [Next]_vars => LiveInv'
  BY TypeStep, JobInvStep, FreshStep, ProofsStep DEF LiveInv
<1> QED BY <1>1, InitLive, PTL DEF Spec

\* The state keeps its type; in particular every configuration a job saves keeps the
\* selections of adopted policies under their ceilings (config.go:566-576).
THEOREM LiveTypeCorrect == Spec => []TypeOK
<1>1. LiveInv => TypeOK
  BY DEF LiveInv
<1> QED BY <1>1, LiveInvariant, PTL

\* What the panel shows as verified was read back as exactly what the registry serves now.
THEOREM VerifiedIsMatched == Spec => []VerifiedMeansMatched
<1>1. LiveInv => VerifiedMeansMatched
  BY DEF LiveInv, ProofsInv, VerifiedMeansMatched, ShownVerified
<1> QED BY <1>1, LiveInvariant, PTL

\* However registries are saved and brought back, what is shown as verified is in force.
THEOREM VerifiedStaysInForce == Spec => []VerifiedIsInForce
<1>1. LiveInv => VerifiedIsInForce
  BY DEF LiveInv, ProofsInv, VerifiedIsInForce, ShownVerified
<1> QED BY <1>1, LiveInvariant, PTL

\* A publish that reaches its refresh has applied the registry to every key that is not adopted.
THEOREM PublishedIsApplied == Spec => []PublishedMeansApplied
<1>1. LiveInv => PublishedMeansApplied
  BY DEF LiveInv, JobInv, PutInv, PublishedMeansApplied, At
<1> QED BY <1>1, LiveInvariant, PTL

\* Together: what publishing reports is so.
THEOREM PublishesHold == Spec => []PublishesAreTrue
BY VerifiedStaysInForce, PublishedIsApplied, PTL DEF PublishesAreTrue

\* Adoption takes a key's native models as they are.
THEOREM AdoptionIsExact == Spec => AdoptionTakesWhatIsThere
<1> DEFINE Exact == LET k == job.key IN
       (job.op = "adopt" /\ job' # job /\ cfg' # cfg /\ k \notin touched) =>
           cfg'[k].want = native[k] /\ cfg'[k].ceiling = native[k]
<1>1. ASSUME LiveInv, [Next]_vars PROVE [Exact]_vars
  <2> SUFFICES ASSUME job.op = "adopt", job' # job, cfg' # cfg, job.key \notin touched
               PROVE  cfg'[job.key].want = native[job.key] /\ cfg'[job.key].ceiling = native[job.key]
    OBVIOUS
  <2>1. AdoptSave
    <3>1. job # NoJob
      BY DEF NoJob
    <3> QED BY <1>1, <3>1 DEF Next, JobStep, JobStart, Outside, PutStart, ReadbackStart, CreateStart, AdoptStart,
          EditStart, Start, Quit, SaveRefused, PutMerge, PutSave, PutAliases, PutApply, PutApplied,
          ReadbackList, ReadbackFail, ReadbackFinish, CreateNative, CreateBind, CreateSave, AdoptRead,
          AdoptList, AdoptMerge, EditRead, EditApply, ConfigWrite, External, Restart, At, vars
  <2>2. cfg' = job.plan /\ job.pc = "save"
    BY <2>1 DEF AdoptSave, Saves, At
  <2> QED BY <1>1, <2>2 DEF LiveInv, JobInv, AdoptInv
<1> QED BY <1>1, LiveInvariant, PTL DEF Spec, AdoptionTakesWhatIsThere

\* Nobody else interfering, a job changes in Bifrost what the policy in force grants, takes
\* models off a key without a policy, or makes a new key.
THEOREM NativeWritesBacked == Spec => NativeWritesAreBacked
<1> DEFINE Backed(k) == JobWrites(k) =>
          IF cfg[k] = None
            THEN native'[k] = {} \/ (HasList(k) /\ native'[k] \subseteq native[k])
            ELSE ~Adopted(cfg[k]) /\ native'[k] = cfg[k].want
<1>1. ASSUME LiveInv, [Next]_vars, NEW k \in Keys PROVE Backed(k)
  <2> SUFFICES ASSUME native'[k] # native[k], job' # job, ~moved, k \notin touched
               PROVE  IF cfg[k] = None
                        THEN native'[k] = {} \/ (HasList(k) /\ native'[k] \subseteq native[k])
                        ELSE ~Adopted(cfg[k]) /\ native'[k] = cfg[k].want
    BY DEF JobWrites
  <2>1. native \in [Keys -> {None, Gone} \cup Lists]
    BY <1>1 DEF LiveInv, TypeOK
  <2>2. (\E j \in Keys : PutApply(j)) \/ CreateNative \/ EditApply
    BY <1>1 DEF Next, JobStep, JobStart, Outside, PutStart, ReadbackStart, CreateStart, AdoptStart,
          EditStart, Start, Quit, SaveRefused, PutMerge, PutSave, Saves, PutAliases, PutApplied,
          ReadbackList, ReadbackFail, ReadbackFinish, CreateBind, CreateSave, AdoptRead, AdoptSave,
          AdoptList, AdoptMerge, EditRead, ConfigWrite, External, Restart, vars
  <2>3. ASSUME NEW j \in Keys, PutApply(j)
        PROVE  cfg[k] # None /\ ~Adopted(cfg[k]) /\ native'[k] = cfg[k].want
    <3>1. native' = [native EXCEPT ![j] = job.plan[j].want] /\ j \in job.todo
      BY <2>3 DEF PutApply
    <3>2. k = j
      BY <2>1, <3>1
    <3>3. cfg = job.plan /\ job.todo \subseteq Writable(job.plan)
      BY <1>1, <2>3 DEF LiveInv, JobInv, PutInv, PutApply, At
    <3> QED BY <2>1, <3>1, <3>2, <3>3 DEF Writable, Managed
  <2>4. CASE CreateNative
    <3>1. native' = [native EXCEPT ![job.key] = {}] /\ native[job.key] = None
      BY <1>1, <2>4 DEF CreateNative, At, LiveInv, JobInv, CreateInv
    <3>2. k = job.key /\ cfg[k] = None /\ native'[k] = {}
      BY <1>1, <2>1, <3>1 DEF LiveInv, FreshInv
    <3> QED BY <3>2
  <2>5. CASE EditApply
    <3>1. native' = [native EXCEPT ![job.key] = job.list]
      BY <2>5 DEF EditApply
    <3>2. k = job.key
      BY <2>1, <3>1
    <3>3. cfg[k] = None /\ HasList(k) /\ job.list \subseteq native[k]
      BY <1>1, <2>5, <3>2 DEF EditApply, At, LiveInv, JobInv, EditInv
    <3> QED BY <2>1, <3>1, <3>2, <3>3
  <2> QED BY <2>2, <2>3, <2>4, <2>5
<1>2. LiveInv /\ [Next]_vars => [\A k \in Keys : Backed(k)]_vars
  BY <1>1
<1> QED BY <1>2, LiveInvariant, PTL DEF Spec, NativeWritesAreBacked
=============================================================================
