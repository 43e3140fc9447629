--------------------------- MODULE OperatorProofs ---------------------------
(***************************************************************************)
(* What an operator's commands leave on the disk: the restores of          *)
(* operations.py (BackupRestore), for any files and contents, and the      *)
(* tokens file and the trust store (OperatorStores), for any names and any *)
(* number of commands.                                                     *)
(***************************************************************************)
EXTENDS BackupRestore, OperatorStores, FiniteSetTheorems, WellFoundedInduction, TLAPS

-----------------------------------------------------------------------------
(* Backup and restore *)

(* The next file of a job is one of the files that are left. *)
LEMMA NextFile ==
    ASSUME NEW S \in SUBSET Files, S # {}
    PROVE  Min(S) \in S
  <1>1. S \subseteq Nat
    BY BackupAssumption
  <1> DEFINE Less == {ss \in Nat \X Nat : ss[1] < ss[2]}
  <1>2. OpToRel(<, Nat) = Less
    BY Zenon DEF OpToRel
  <1>3. IsWellFoundedOn(Less, Nat)
    BY <1>2, NatLessThanWellFounded, Zenon
  <1>4. \E x \in S : \A y \in S : ~ (<<y, x>> \in Less)
    <2> HIDE DEF Less
    <2> QED
      BY <1>1, <1>3, WFMin, Zenon
  <1>5. \E x \in S : \A y \in S : x =< y
    <2>1. PICK x \in S : \A y \in S : ~ (<<y, x>> \in Less)
      BY <1>4
    <2>2. ASSUME NEW y \in S PROVE x =< y
      <3>1. ~ (<<y, x>> \in Less) /\ x \in Nat /\ y \in Nat
        BY <1>1, <2>1
      <3>2. ~ (y < x)
        BY <3>1
      <3> QED
        BY <3>1, <3>2
    <2> QED
      BY <2>2
  <1> QED
    BY <1>5 DEF Min

-----------------------------------------------------------------------------
AtRestore == {"restoring", "renaming", "restored"}

(* The signature file is over a backup the operator signed. *)
SignatureHonest == signature.key = "operator" => signature.body.files \in signed

(* A restore at work copies a signed backup, and has written every file    *)
(* that is not left; what it is about to rename is the next one.           *)
RestoreHonest ==
    ~altered /\ job.pc \in AtRestore =>
        /\ copy \in signed
        /\ \A f \in Files \ job.left : target[f] = copy[f]
        /\ job.pc = "renaming" => temporary = copy[Min(job.left)]
        /\ job.pc = "restored" => job.left = {}

IInv == BackupTypeOK /\ SignatureHonest /\ RestoreHonest /\ TargetIsSigned

LEMMA NoFilesType == NoFiles \in [Files -> Stored]
  BY DEF NoFiles, Stored

LEMMA InitIInv == BackupInit => IInv
  <1> SUFFICES ASSUME BackupInit PROVE IInv
    OBVIOUS
  <1>1. BackupTypeOK
    BY NoFilesType DEF BackupInit, BackupTypeOK, Stored, NoManifest, NoSignature, Rest
  <1>2. SignatureHonest
    BY BackupAssumption DEF BackupInit, SignatureHonest, NoSignature
  <1>3. RestoreHonest
    BY DEF BackupInit, RestoreHonest, AtRestore, Rest
  <1>4. TargetIsSigned
    BY DEF BackupInit, TargetIsSigned, NoFiles
  <1> QED
    BY <1>1, <1>2, <1>3, <1>4 DEF IInv

LEMMA LiveWriteKeeps ==
    ASSUME IInv, NEW f \in Files, NEW c \in Contents \cup {Missing}, LiveWrite(f, c)
    PROVE  IInv'
  <1>1. BackupTypeOK'
    BY DEF IInv, LiveWrite, BackupTypeOK
  <1>2. SignatureHonest' /\ RestoreHonest' /\ TargetIsSigned'
    BY DEF IInv, LiveWrite, SignatureHonest, RestoreHonest, TargetIsSigned
  <1> QED
    BY <1>1, <1>2 DEF IInv

(* Whoever changes the backup while it is restored sets altered, and at    *)
(* rest nothing is said of the copy.                                       *)
LEMMA TamperKeeps == ASSUME IInv, Tamper PROVE IInv'
  <1>1. BackupTypeOK'
    <2>1. copy' \in [Files -> Stored] /\ manifest'.files \in [Files -> Stored]
          /\ manifest' \in [files : [Files -> Stored], instance : {Missing, "this"}]
      BY DEF IInv, Tamper, BackupTypeOK, Stored
    <2> QED
      BY <2>1 DEF IInv, Tamper, BackupTypeOK
  <1>2. ~altered' => ~altered /\ job.pc = "rest"
    BY Zenon DEF Tamper
  <1>3. SignatureHonest' /\ TargetIsSigned'
    BY <1>2 DEF IInv, Tamper, SignatureHonest, TargetIsSigned
  <1>4. RestoreHonest'
    BY <1>2 DEF Tamper, RestoreHonest, AtRestore
  <1> QED
    BY <1>1, <1>3, <1>4 DEF IInv

LEMMA BackupKeeps ==
    ASSUME IInv, StartBackup \/ Copy
    PROVE  IInv'
  <1>1. BackupTypeOK'
    <2>1. CASE StartBackup
      <3>1. live \in [Files -> Stored]
        BY DEF IInv, BackupTypeOK, Stored
      <3> QED
        BY <2>1, <3>1 DEF IInv, StartBackup, BackupTypeOK
    <2>2. CASE Copy
      <3>1. Min(job.left) \in Files
        BY <2>2, NextFile DEF IInv, Copy, BackupTypeOK
      <3>2. live[Min(job.left)] \in Stored
        BY <3>1 DEF IInv, BackupTypeOK, Stored
      <3>3. copy' \in [Files -> Stored]
        BY <2>2, <3>1, <3>2 DEF IInv, Copy, BackupTypeOK
      <3>4. job' = Rest \/ job' = [job EXCEPT !.left = @ \ {Min(job.left)}]
        BY <2>2 DEF Copy
      <3>5. job' \in [pc : {"rest", "copying", "restoring", "renaming", "restored"},
                      left : SUBSET Files, began : [Files -> Stored]]
            /\ job'.pc # "renaming"
        BY <2>2, <3>4, NoFilesType DEF IInv, Copy, BackupTypeOK, Rest
      <3> QED
        BY <2>2, <3>3, <3>5 DEF IInv, Copy, BackupTypeOK
    <2> QED
      BY <2>1, <2>2
  <1>2. SignatureHonest' /\ TargetIsSigned'
    BY DEF IInv, StartBackup, Copy, SignatureHonest, TargetIsSigned
  <1>3. job'.pc \notin AtRestore
    BY DEF IInv, BackupTypeOK, StartBackup, Copy, AtRestore, Rest
  <1>4. RestoreHonest'
    BY <1>3 DEF RestoreHonest
  <1> QED
    BY <1>1, <1>2, <1>4 DEF IInv

LEMMA ManifestKeeps == ASSUME IInv, WriteManifest PROVE IInv'
  <1>1. BackupTypeOK'
    BY NoFilesType DEF IInv, WriteManifest, BackupTypeOK, Rest
  <1>2. SignatureHonest' /\ TargetIsSigned'
    BY DEF IInv, WriteManifest, SignatureHonest, TargetIsSigned
  <1>3. RestoreHonest'
    BY DEF WriteManifest, RestoreHonest, AtRestore, Rest
  <1> QED
    BY <1>1, <1>2, <1>3 DEF IInv

LEMMA SignKeeps == ASSUME IInv, SignManifest PROVE IInv'
  <1>1. signed \subseteq signed' /\ manifest.files \in signed'
    BY DEF SignManifest
  <1>2. BackupTypeOK'
    BY DEF IInv, SignManifest, sign_manifest, BackupTypeOK
  <1>3. SignatureHonest'
    BY <1>1 DEF SignManifest, sign_manifest, SignatureHonest
  <1>4. RestoreHonest'
    BY DEF SignManifest, RestoreHonest, AtRestore, Rest
  <1>5. TargetIsSigned'
    BY <1>1 DEF IInv, SignManifest, TargetIsSigned
  <1> QED
    BY <1>2, <1>3, <1>4, <1>5 DEF IInv

(* A backup that verifies is the one the signature is over. *)
LEMMA VerifiedIsSigned == ASSUME IInv, verify_backup PROVE copy \in signed
  <1>1. signature.body.files \in signed /\ signature.body = manifest
    BY DEF IInv, SignatureHonest, verify_backup, SignatureOk, sign_manifest
  <1>2. copy = manifest.files
    BY DEF IInv, BackupTypeOK, verify_backup, Intact
  <1> QED
    BY <1>1, <1>2

LEMMA StartRestoreKeeps == ASSUME IInv, StartRestore PROVE IInv'
  <1>1. copy \in signed
    BY VerifiedIsSigned DEF StartRestore
  <1>2. BackupTypeOK'
    BY NoFilesType DEF IInv, StartRestore, BackupTypeOK
  <1>3. SignatureHonest' /\ TargetIsSigned'
    BY DEF IInv, StartRestore, SignatureHonest, TargetIsSigned
  <1>4. RestoreHonest'
    BY <1>1 DEF StartRestore, RestoreHonest, AtRestore
  <1> QED
    BY <1>2, <1>3, <1>4 DEF IInv

LEMMA WriteKeeps == ASSUME IInv, WriteTemporary PROVE IInv'
  <1>1. Min(job.left) \in Files
    BY NextFile DEF IInv, WriteTemporary, BackupTypeOK
  <1>2. /\ job' = [job EXCEPT !.pc = "renaming"] /\ job'.pc = "renaming"
        /\ job'.left = job.left /\ job.left # {} /\ job.pc = "restoring"
    BY DEF IInv, WriteTemporary, BackupTypeOK
  <1>3. BackupTypeOK'
    BY <1>1, <1>2 DEF IInv, WriteTemporary, BackupTypeOK
  <1>4. SignatureHonest' /\ TargetIsSigned'
    BY DEF IInv, WriteTemporary, SignatureHonest, TargetIsSigned
  <1>5. RestoreHonest'
    BY <1>2 DEF IInv, WriteTemporary, RestoreHonest, AtRestore
  <1> QED
    BY <1>3, <1>4, <1>5 DEF IInv

LEMMA RenameKeeps == ASSUME IInv, Rename PROVE IInv'
  <1> DEFINE g == Min(job.left)
  <1>1. g \in Files
    BY NextFile DEF IInv, Rename, BackupTypeOK
  <1>2. /\ job'.pc = "restoring" /\ job'.left = job.left \ {g} /\ job.pc = "renaming"
        /\ job' \in [pc : {"rest", "copying", "restoring", "renaming", "restored"},
                      left : SUBSET Files, began : [Files -> Stored]]
    BY DEF IInv, Rename, BackupTypeOK
  <1>3. target' = [target EXCEPT ![g] = temporary] /\ target' \in [Files -> Stored]
    BY DEF IInv, Rename, BackupTypeOK
  <1>4. BackupTypeOK'
    BY <1>2, <1>3 DEF IInv, Rename, BackupTypeOK, Stored
  <1>5. SignatureHonest'
    BY DEF IInv, Rename, SignatureHonest
  <1>6. ASSUME ~altered
        PROVE  copy \in signed /\ temporary = copy[g] /\ \A f \in Files \ job.left : target[f] = copy[f]
    BY <1>2, <1>6 DEF IInv, RestoreHonest, AtRestore
  <1>7. /\ altered' = altered /\ copy' = copy /\ signed' = signed
        /\ target'[g] = temporary
        /\ \A f \in Files : f # g => target'[f] = target[f]
    BY <1>1, <1>3 DEF IInv, Rename, BackupTypeOK
  <1> HIDE DEF g
  <1>8. RestoreHonest'
    BY <1>2, <1>6, <1>7 DEF RestoreHonest
  <1>9. TargetIsSigned'
    BY <1>6, <1>7 DEF IInv, TargetIsSigned
  <1> QED
    BY <1>4, <1>5, <1>8, <1>9 DEF IInv

LEMMA EndKeeps == ASSUME IInv, Restored \/ Stop PROVE IInv'
  <1>1. BackupTypeOK'
    BY NoFilesType DEF IInv, Restored, Stop, BackupTypeOK, Rest, Stored
  <1>2. SignatureHonest' /\ TargetIsSigned'
    BY DEF IInv, Restored, Stop, SignatureHonest, TargetIsSigned
  <1>3. RestoreHonest'
    BY DEF IInv, Restored, Stop, BackupTypeOK, RestoreHonest, AtRestore, Rest
  <1> QED
    BY <1>1, <1>2, <1>3 DEF IInv

THEOREM RestoreInvariant == BackupSpec => []IInv
  <1>1. IInv /\ [BackupNext]_backupVars => IInv'
    <2> SUFFICES ASSUME IInv, [BackupNext]_backupVars PROVE IInv'
      OBVIOUS
    <2>1. ASSUME NEW f \in Files, NEW c \in Contents \cup {Missing}, LiveWrite(f, c) PROVE IInv'
      BY <2>1, LiveWriteKeeps
    <2>2. CASE UNCHANGED backupVars
      BY <2>2 DEF backupVars, IInv, BackupTypeOK, SignatureHonest, RestoreHonest, TargetIsSigned
    <2> QED
      BY <2>1, <2>2, TamperKeeps, BackupKeeps, ManifestKeeps, SignKeeps, StartRestoreKeeps,
         WriteKeeps, RenameKeeps, EndKeeps DEF BackupNext
  <1> QED
    BY <1>1, InitIInv, PTL DEF BackupSpec

(* Every file of the target is one the operator signed, for any set of     *)
(* files and contents, wherever restores are cut and whatever becomes of   *)
(* the backup before they look at it (operations.py, restore_backup).      *)
THEOREM OnlySignedRestored == BackupSpec => []TargetIsSigned
  BY RestoreInvariant, PTL DEF IInv

(* A restore that reports success has written one signed backup whole.     *)
THEOREM RestoresWhole == BackupSpec => []RestoredWhole
  <1>1. IInv => RestoredWhole
    <2> SUFFICES ASSUME IInv, job.pc = "restored", ~altered PROVE target \in signed
      BY DEF RestoredWhole
    <2>1. copy \in signed /\ \A f \in Files : target[f] = copy[f]
      BY DEF IInv, RestoreHonest, AtRestore
    <2>2. target = copy
      BY <2>1 DEF IInv, BackupTypeOK
    <2> QED
      BY <2>1, <2>2
  <1> QED
    BY <1>1, RestoreInvariant, PTL

(* What create_backup has copied so far, while nobody writes meanwhile.    *)
BackupOnTime ==
    job.pc = "copying" /\ ~moved /\ ~altered =>
        live = job.began /\ \A f \in Files \ job.left : copy[f] = job.began[f]

LEMMA OnTimeStep == ASSUME IInv, BackupOnTime, [BackupNext]_backupVars PROVE BackupOnTime'
  <1>0. /\ job \in [pc : {"rest", "copying", "restoring", "renaming", "restored"},
                    left : SUBSET Files, began : [Files -> Stored]]
        /\ copy \in [Files -> Stored] /\ live \in [Files -> Contents \cup {Missing}]
    BY DEF IInv, BackupTypeOK
  <1>1. ASSUME NEW f \in Files, NEW c \in Contents \cup {Missing}, LiveWrite(f, c) PROVE BackupOnTime'
    <2>1. job.pc = "copying" => moved'
      BY <1>1 DEF LiveWrite
    <2>2. job' = job
      BY <1>1 DEF LiveWrite
    <2> QED
      BY <2>1, <2>2 DEF BackupOnTime
  <1>2. CASE Tamper
    <2>1. job.pc = "copying" => altered'
      BY <1>2 DEF Tamper
    <2>2. job' = job
      BY <1>2 DEF Tamper
    <2> QED
      BY <2>1, <2>2 DEF BackupOnTime
  <1>3. CASE StartBackup
    BY <1>3 DEF StartBackup, BackupOnTime
  <1>4. CASE Copy
    <2> DEFINE g == Min(job.left)
    <2>1. g \in Files
      BY <1>0, <1>4, NextFile DEF Copy
    <2>2. UNCHANGED <<live, moved, altered>> /\ job.pc = "copying"
      BY <1>4 DEF Copy
    <2>3. \/ job' = Rest
          \/ /\ copy' = [copy EXCEPT ![g] = live[g]]
             /\ job' = [job EXCEPT !.left = job.left \ {g}]
      BY <1>4 DEF Copy
    <2> HIDE DEF g
    <2>4. CASE job' = Rest
      BY <2>4 DEF Rest, BackupOnTime
    <2>5. CASE /\ copy' = [copy EXCEPT ![g] = live[g]]
               /\ job' = [job EXCEPT !.left = job.left \ {g}]
      <3>1. job'.left = job.left \ {g} /\ job'.began = job.began /\ copy'[g] = live[g]
            /\ \A f \in Files \ {g} : copy'[f] = copy[f]
        BY <1>0, <2>1, <2>5
      <3> QED
        BY <2>1, <2>2, <3>1 DEF BackupOnTime
    <2> QED
      BY <2>3, <2>4, <2>5
  <1>5. CASE WriteManifest \/ SignManifest \/ StartRestore \/ WriteTemporary \/ Rename \/ Restored \/ Stop
    <2>1. CASE WriteManifest \/ SignManifest \/ StartRestore \/ Stop
      BY <1>0, <2>1 DEF WriteManifest, SignManifest, StartRestore, Stop, Rest, BackupOnTime
    <2>2. CASE WriteTemporary \/ Restored
      BY <1>0, <2>2 DEF WriteTemporary, Restored, BackupOnTime
    <2>3. CASE Rename
      <3>1. job' = [job EXCEPT !.pc = "restoring", !.left = job.left \ {Min(job.left)}]
        BY <2>3 DEF Rename
      <3> QED
        BY <1>0, <3>1 DEF BackupOnTime
    <2> QED
      BY <1>5, <2>1, <2>2, <2>3
  <1>6. CASE UNCHANGED backupVars
    BY <1>6 DEF backupVars, BackupOnTime
  <1> QED
    BY <1>1, <1>2, <1>3, <1>4, <1>5, <1>6 DEF BackupNext

(* operations.py:114-121: a backup that nothing was written under is the   *)
(* state of the moment it began at, every file of it.                      *)
THEOREM BackupsOnTime == BackupSpec => []BackupIsOneMoment
  <1>1. BackupInit => BackupOnTime
    BY DEF BackupInit, Rest, BackupOnTime
  <1>2. IInv /\ BackupOnTime => BackupIsOneMoment
    <2> SUFFICES ASSUME IInv, BackupOnTime, job.pc = "copying", job.left = {}, ~moved, ~altered
                 PROVE  copy = job.began
      BY DEF BackupIsOneMoment
    <2>1. \A f \in Files : copy[f] = job.began[f]
      BY DEF BackupOnTime
    <2> QED
      BY <2>1 DEF IInv, BackupTypeOK
  <1> QED
    BY <1>1, <1>2, OnTimeStep, RestoreInvariant, PTL DEF BackupSpec
-----------------------------------------------------------------------------
(* The tokens file and the trust store *)

Entries == [key : Nat \cup {Null}, revoked : BOOLEAN]

StoreDocs == [Names -> Entries]

Working ==
    [pc : {"loaded", "opened", "written"}, name : Names, inode : Inodes \cup {Null},
     doc : StoreDocs]

(* What a command may make of the entry it changes. *)
Follows(old, new) ==
    IF store = "trust" THEN old.revoked => new.revoked
    ELSE new.revoked \/ old.key = Null \/ new.key > old.key

KeysMade(doc) == store = "tokens" => \A n \in Names : doc[n].key \in 1..made \cup {Null}

(* A command at work holds the settled document with one entry changed;    *)
(* <file>.tmp is its own from the open on, and holds what it wrote.        *)
AtWork(a) ==
    /\ run[a] \in Working
    /\ \A n \in Names \ {run[a].name} : run[a].doc[n] = settled[n]
    /\ Follows(settled[run[a].name], run[a].doc[run[a].name])
    /\ KeysMade(run[a].doc)
    /\ run[a].pc = "loaded" => run[a].inode = Null
    /\ run[a].pc # "loaded" => run[a].inode = tmp /\ tmp # Null
    /\ run[a].pc = "opened" => data[tmp] = Broken
    /\ run[a].pc = "written" => data[tmp] = run[a].doc

Alone ==
    /\ store \in Stores /\ made \in Nat
    /\ settled \in StoreDocs /\ KeysMade(settled)
    /\ Doc = settled
    /\ file \in Inodes \cup {Null} /\ tmp \in Inodes \cup {Null} /\ (tmp # Null => tmp # file)
    /\ data = [i \in Inodes |-> data[i]]
    /\ run = [a \in Commands |-> run[a]]
    /\ \A a \in Commands : run[a] = Resting \/ AtWork(a)
    /\ \A a, b \in Commands : run[a] # Resting /\ run[b] # Resting => a = b

StoresInv == overlapped \/ Alone

LEMMA NullApart == Null \notin Inodes /\ Inodes \subseteq Nat /\ 0 \in Inodes /\ 1 \in Inodes
  <1>1. Cardinality(Commands) \in Nat
    BY FS_CardinalityType, StoresAssumption
  <1> QED
    BY <1>1, StoresAssumption DEF Inodes

LEMMA RestingApart == Resting \notin Working /\ Resting.pc = "resting" /\ Resting.inode = Null
  BY DEF Resting, Working

LEMMA StoresInitially == StoresInit => StoresInv
  <1> SUFFICES ASSUME StoresInit PROVE Alone
    BY DEF StoresInv
  <1>1. EmptyDoc \in StoreDocs /\ KeysMade(EmptyDoc)
    BY DEF EmptyDoc, NoEntry, StoreDocs, Entries, KeysMade
  <1>2. settled = EmptyDoc /\ Doc = EmptyDoc /\ file = Null /\ tmp = Null
    BY DEF StoresInit, Doc
  <1>3. \A a \in Commands : run[a] = Resting
    BY DEF StoresInit
  <1> QED
    BY <1>1, <1>2, <1>3 DEF StoresInit, Alone

(* A command that reads the store while no other is at work.               *)
LEMMA StartKeeps ==
    ASSUME Alone, NEW a \in Commands, NEW n \in Names, NEW entry \in Entries,
           Ready(a), Start(a, n, entry), ~overlapped',
           made' \in Nat, made <= made', Follows(settled[n], entry),
           store = "tokens" => entry.key \in 1..made' \cup {Null}
    PROVE  Alone'
  <1>0. \A b \in Commands : run[b] = Resting
    BY DEF Start
  <1>1. UNCHANGED <<store, file, tmp, data, settled>>
    BY DEF Start
  <1> DEFINE doc == [settled EXCEPT ![n] = entry]
             new == [pc |-> "loaded", name |-> n, inode |-> Null, doc |-> doc]
  <1>2. run' = [run EXCEPT ![a] = new] /\ settled \in StoreDocs /\ made \in Nat
    BY DEF Start, Alone
  <1>3. doc \in StoreDocs /\ doc[n] = entry /\ \A m \in Names \ {n} : doc[m] = settled[m]
    BY <1>2 DEF StoreDocs
  <1>4. /\ KeysMade(settled)'
        /\ store' = "tokens" => \A m \in Names : doc[m].key \in 1..made' \cup {Null}
    BY <1>1, <1>2, <1>3 DEF KeysMade, Alone
  <1> HIDE DEF doc
  <1>5. new \in Working /\ new.pc = "loaded" /\ new.name = n /\ new.doc = doc /\ new.inode = Null
    BY <1>3 DEF Working
  <1> HIDE DEF new
  <1>6. /\ run' = [b \in Commands |-> run'[b]] /\ run'[a] = new
        /\ \A b \in Commands \ {a} : run'[b] = Resting
    BY <1>0, <1>2 DEF Alone
  <1>7. AtWork(a)'
    <2>1. run'[a].doc = doc /\ run'[a].name = n /\ run'[a] \in Working'
      BY <1>5, <1>6 DEF Working
    <2>2. Follows(settled[run[a].name], run[a].doc[run[a].name])'
      BY <1>1, <1>3, <2>1 DEF Follows
    <2>3. KeysMade(run[a].doc)'
      BY <1>4, <2>1 DEF KeysMade
    <2> QED
      BY <1>1, <1>3, <1>5, <1>6, <2>1, <2>2, <2>3 DEF AtWork
  <1>8. Doc' = Doc
    BY <1>1 DEF Doc
  <1> QED
    BY <1>1, <1>2, <1>4, <1>6, <1>7, <1>8 DEF Alone

(* issue_token, revoke_token, with_revoked and with_key: what they make of *)
(* the entry follows from it.                                              *)
LEMMA CommandKeeps ==
    ASSUME Alone, NEW a \in Commands, NEW n \in Names, ~overlapped',
           IssueToken(a, n) \/ Revoke(a, n) \/ \E k \in Keys : AddKey(a, n, k)
    PROVE  Alone'
  <1>0. /\ settled[n] \in Entries /\ made \in Nat /\ Doc = settled /\ store \in Stores
        /\ store = "tokens" => settled[n].key \in 1..made \cup {Null}
    BY DEF Alone, StoreDocs, KeysMade
  <1>1. CASE IssueToken(a, n)
    <2> DEFINE entry == [key |-> made + 1, revoked |-> FALSE]
    <2>1. /\ entry \in Entries /\ entry.key = made + 1 /\ Ready(a) /\ Start(a, n, entry)
          /\ made' = made + 1 /\ store = "tokens"
      BY <1>0, <1>1 DEF IssueToken, Entries
    <2> HIDE DEF entry
    <2>2. Follows(settled[n], entry)
      BY <1>0, <2>1 DEF Follows
    <2> QED
      BY <1>0, <2>1, <2>2, StartKeeps
  <1>2. CASE Revoke(a, n)
    <2> DEFINE entry == [settled[n] EXCEPT !.revoked = TRUE]
    <2>1. /\ entry \in Entries /\ entry.key = settled[n].key /\ entry.revoked
      BY <1>0 DEF Entries
    <2>2. Ready(a) /\ Start(a, n, entry) /\ made' = made
      BY <1>0, <1>2 DEF Revoke
    <2> HIDE DEF entry
    <2>3. Follows(settled[n], entry)
      BY <2>1 DEF Follows
    <2> QED
      BY <1>0, <2>1, <2>2, <2>3, StartKeeps
  <1>3. ASSUME NEW k \in Keys, AddKey(a, n, k) PROVE Alone'
    <2> DEFINE entry == WithKey(settled[n], k)
    <2>1. k \in Nat
      BY StoresAssumption DEF Keys
    <2>2. entry \in Entries /\ entry.revoked = settled[n].revoked
      BY <1>0, <2>1 DEF WithKey, Entries
    <2>3. Ready(a) /\ Start(a, n, entry) /\ made' = made + 1 /\ store = "trust"
      BY <1>0, <1>3 DEF AddKey
    <2> HIDE DEF entry
    <2>4. Follows(settled[n], entry)
      BY <2>2, <2>3 DEF Follows
    <2> QED
      BY <1>0, <2>2, <2>3, <2>4, StartKeeps
  <1> QED
    BY <1>1, <1>2, <1>3

(* The command that is at work, and no other. *)
LEMMA OnlyOne ==
    ASSUME Alone, NEW a \in Commands, run[a] # Resting
    PROVE  AtWork(a) /\ \A b \in Commands \ {a} : run[b] = Resting
  BY DEF Alone

(* Opening <file>.tmp never yields the file itself.                        *)
LEMMA TargetApart ==
    ASSUME Alone, NEW a \in Commands, run[a].pc = "loaded"
    PROVE  Target \in Inodes /\ Target # file /\ Target # Null
  <1>1. run[a] # Resting
    BY RestingApart
  <1>2. AtWork(a) /\ \A b \in Commands \ {a} : run[b] = Resting
    BY <1>1, OnlyOne
  <1>3. \A b \in Commands : run[b].inode = Null
    BY <1>2, RestingApart DEF AtWork
  <1>4. CASE tmp # Null
    BY <1>4, NullApart DEF Target, Alone
  <1>5. CASE tmp = Null
    <2>1. Free = Inodes \ {file}
      BY <1>3, <1>5, NullApart DEF Free, Open
    <2>2. \E i \in Free : \A j \in Free : i <= j
      <3>1. CASE file = 0
        <4>1. 1 \in Free /\ \A j \in Free : 1 <= j
          BY <2>1, <3>1, NullApart
        <4> QED
          BY <4>1
      <3>2. CASE file # 0
        <4>1. 0 \in Free /\ \A j \in Free : 0 <= j
          BY <2>1, <3>2, NullApart
        <4> QED
          BY <4>1
      <3> QED
        BY <3>1, <3>2
    <2>3. FirstFree \in Free
      BY <2>2 DEF FirstFree
    <2> QED
      BY <1>5, <2>1, <2>3, NullApart DEF Target
  <1> QED
    BY <1>4, <1>5

LEMMA OpenKeeps == ASSUME Alone, NEW a \in Commands, OpenTmp(a) PROVE Alone'
  <1>0. run[a].pc = "loaded" /\ UNCHANGED <<store, file, made, settled>>
    BY DEF OpenTmp
  <1>1. AtWork(a) /\ \A b \in Commands \ {a} : run[b] = Resting
    BY <1>0, OnlyOne, RestingApart
  <1>2. PICK i \in Inodes : i = Target /\ i # file /\ i # Null
    BY <1>0, TargetApart
  <1> DEFINE new == [run[a] EXCEPT !.pc = "opened", !.inode = i]
  <1>3. tmp' = i /\ data' = [data EXCEPT ![i] = Broken] /\ run' = [run EXCEPT ![a] = new]
    BY <1>2 DEF OpenTmp, Alone
  <1>4. /\ new \in Working /\ new.pc = "opened" /\ new.inode = i
        /\ new.name = run[a].name /\ new.doc = run[a].doc
    BY <1>1 DEF AtWork, Working
  <1> HIDE DEF new
  <1>5. /\ data' = [j \in Inodes |-> data'[j]] /\ data'[i] = Broken
        /\ \A j \in Inodes \ {i} : data'[j] = data[j]
    BY <1>3 DEF Alone
  <1>6. /\ run' = [b \in Commands |-> run'[b]] /\ run'[a] = new
        /\ \A b \in Commands \ {a} : run'[b] = Resting
    BY <1>1, <1>3 DEF Alone
  <1>7. Doc' = Doc
    BY <1>0, <1>2, <1>5, NullApart DEF Doc, Alone
  <1>8. AtWork(a)'
    BY <1>0, <1>1, <1>2, <1>3, <1>4, <1>5, <1>6 DEF AtWork, Follows, KeysMade
  <1> QED
    BY <1>0, <1>2, <1>3, <1>5, <1>6, <1>7, <1>8 DEF Alone, KeysMade

LEMMA WriteDocKeeps == ASSUME Alone, NEW a \in Commands, WriteTmp(a) PROVE Alone'
  <1>0. run[a].pc = "opened" /\ UNCHANGED <<store, file, tmp, made, settled>>
    BY DEF WriteTmp
  <1>1. AtWork(a) /\ \A b \in Commands \ {a} : run[b] = Resting
    BY <1>0, OnlyOne, RestingApart
  <1>2. run[a].inode = tmp /\ tmp \in Inodes /\ tmp # file /\ data[tmp] = Broken
    BY <1>0, <1>1 DEF AtWork, Alone
  <1> DEFINE new == [run[a] EXCEPT !.pc = "written"]
  <1>3. data' = [data EXCEPT ![tmp] = run[a].doc] /\ run' = [run EXCEPT ![a] = new]
    BY <1>2 DEF WriteTmp, Alone
  <1>4. /\ new \in Working /\ new.pc = "written" /\ new.inode = tmp
        /\ new.name = run[a].name /\ new.doc = run[a].doc
    BY <1>1, <1>2 DEF AtWork, Working
  <1> HIDE DEF new
  <1>5. /\ data' = [j \in Inodes |-> data'[j]] /\ data'[tmp] = run[a].doc
        /\ \A j \in Inodes \ {tmp} : data'[j] = data[j]
    BY <1>2, <1>3 DEF Alone
  <1>6. /\ run' = [b \in Commands |-> run'[b]] /\ run'[a] = new
        /\ \A b \in Commands \ {a} : run'[b] = Resting
    BY <1>1, <1>3 DEF Alone
  <1>7. Doc' = Doc
    BY <1>0, <1>2, <1>5, NullApart DEF Doc, Alone
  <1>8. AtWork(a)'
    BY <1>0, <1>1, <1>2, <1>4, <1>5, <1>6, NullApart DEF AtWork, Follows, KeysMade
  <1> QED
    BY <1>0, <1>2, <1>5, <1>6, <1>7, <1>8 DEF Alone, KeysMade

(* os.replace of the command that is alone: the whole document it holds is *)
(* the file now, and it is the settled one with the entry it changed.      *)
LEMMA ReplaceKeeps ==
    ASSUME Alone, NEW a \in Commands, Replace(a)
    PROVE  /\ Alone'
           /\ \A n \in Names : settled'[n] = settled[n] \/ Follows(settled[n], settled'[n])
  <1>0. run[a].pc = "written" /\ UNCHANGED <<store, made>> /\ run' = [run EXCEPT ![a] = Resting]
    BY DEF Replace
  <1>1. AtWork(a) /\ \A b \in Commands \ {a} : run[b] = Resting
    BY <1>0, OnlyOne, RestingApart
  <1>2. run[a].inode = tmp /\ tmp \in Inodes /\ tmp # Null /\ tmp # file /\ data[tmp] = run[a].doc
    BY <1>0, <1>1 DEF AtWork, Alone
  <1> DEFINE name == run[a].name
             doc == run[a].doc
  <1>3. /\ name \in Names /\ doc \in StoreDocs /\ settled \in StoreDocs
        /\ \A n \in Names \ {name} : doc[n] = settled[n]
        /\ Follows(settled[name], doc[name]) /\ KeysMade(doc)
    BY <1>1 DEF AtWork, Working, Alone
  <1>4. /\ file' = tmp /\ tmp' = Null /\ settled' = [settled EXCEPT ![name] = doc[name]]
        /\ data' = [j \in Inodes |-> IF j = file /\ file \notin Open THEN Broken ELSE data[j]]
    BY <1>2 DEF Replace
  <1> HIDE DEF name
  <1>5. data'[tmp] = doc /\ data' = [j \in Inodes |-> data'[j]]
    BY <1>2, <1>4
  <1> HIDE DEF doc
  <1>6. \A n \in Names : settled'[n] = doc[n]
    BY <1>3, <1>4 DEF StoreDocs
  <1>7. settled' = doc
    BY <1>3, <1>4, <1>6 DEF StoreDocs
  <1>8. Doc' = doc
    BY <1>2, <1>4, <1>5 DEF Doc
  <1>9. run' = [b \in Commands |-> run'[b]] /\ \A b \in Commands : run'[b] = Resting
    BY <1>0, <1>1 DEF Alone
  <1>10. settled' \in StoreDocs /\ KeysMade(settled)' /\ Doc' = settled'
    BY <1>0, <1>3, <1>7, <1>8 DEF KeysMade
  <1>11. Alone'
    <2>1. Resting' = Resting /\ Inodes' = Inodes /\ StoreDocs' = StoreDocs /\ Stores' = Stores
      BY DEF Resting, Inodes, StoreDocs, Entries, Stores
    <2> QED
      BY <1>0, <1>2, <1>4, <1>5, <1>9, <1>10, <2>1 DEF Alone
  <1> QED
    BY <1>3, <1>7, <1>11

(* A command that is killed leaves the file as it is. *)
LEMMA KillKeeps == ASSUME Alone, NEW a \in Commands, Kill(a) PROVE Alone'
  <1>0. /\ run[a] # Resting /\ UNCHANGED <<store, file, tmp, data, made, settled>>
        /\ run' = [run EXCEPT ![a] = Resting]
    BY DEF Kill
  <1>1. \A b \in Commands \ {a} : run[b] = Resting
    BY <1>0, OnlyOne
  <1>2. run' = [b \in Commands |-> run'[b]] /\ \A b \in Commands : run'[b] = Resting
    BY <1>0, <1>1 DEF Alone
  <1>3. Doc' = Doc
    BY <1>0 DEF Doc
  <1> QED
    BY <1>0, <1>2, <1>3 DEF Alone, KeysMade

(* One step of commands that have not overlapped. *)
LEMMA AloneStep ==
    ASSUME Alone, [StoresNext]_storesVars, ~overlapped'
    PROVE  /\ Alone' /\ store' = store
           /\ \A n \in Names : settled'[n] = settled[n] \/ Follows(settled[n], settled'[n])
  <1>1. CASE UNCHANGED storesVars
    BY <1>1 DEF storesVars, Alone, Doc, KeysMade, AtWork, Follows
  <1>2. ASSUME NEW a \in Commands, NEW n \in Names,
               IssueToken(a, n) \/ Revoke(a, n) \/ \E k \in Keys : AddKey(a, n, k)
        PROVE  Alone' /\ UNCHANGED <<store, settled>>
    <2>1. UNCHANGED <<store, settled>>
      BY <1>2 DEF IssueToken, Revoke, AddKey, Start
    <2> QED
      BY <1>2, <2>1, CommandKeeps
  <1>3. ASSUME NEW a \in Commands, OpenTmp(a) \/ WriteTmp(a) \/ Kill(a)
        PROVE  Alone' /\ UNCHANGED <<store, settled>>
    <2>1. UNCHANGED <<store, settled>>
      BY <1>3 DEF OpenTmp, WriteTmp, Kill
    <2> QED
      BY <1>3, <2>1, OpenKeeps, WriteDocKeeps, KillKeeps
  <1>4. ASSUME NEW a \in Commands, Replace(a)
        PROVE  /\ Alone' /\ store' = store
               /\ \A n \in Names : settled'[n] = settled[n] \/ Follows(settled[n], settled'[n])
    BY <1>4, ReplaceKeeps DEF Replace
  <1> QED
    BY <1>1, <1>2, <1>3, <1>4 DEF StoresNext

(* That two commands have overlapped is never forgotten. *)
LEMMA OverlapStays == ASSUME [StoresNext]_storesVars, overlapped PROVE overlapped'
  BY DEF StoresNext, storesVars, IssueToken, Revoke, AddKey, Start, OpenTmp, WriteTmp, Replace, Kill

LEMMA StoresStep == StoresInv /\ [StoresNext]_storesVars => StoresInv'
  BY AloneStep, OverlapStays DEF StoresInv

THEOREM StoresInvariant == StoresSpec => []StoresInv
  BY StoresInitially, StoresStep, PTL DEF StoresSpec

(* node_channel.py and trust_store.py save a whole document through        *)
(* <file>.tmp: as long as no two commands have overlapped the file is what *)
(* the finished ones said, wherever others were killed.                    *)
THEOREM SettledIsStored == StoresSpec => []SettledUnlessOverlap
  <1>1. StoresInv => SettledUnlessOverlap
    BY DEF StoresInv, Alone, SettledUnlessOverlap
  <1> QED
    BY <1>1, StoresInvariant, PTL

(* with_revoked, with_key, revoke_token and issue_token: without overlap a *)
(* revoked alias stays revoked, and a token that is not live comes to life *)
(* only as a newer one.                                                    *)
THEOREM RevocationsHold == StoresSpec => RevocationSticks
  <1> DEFINE Sticks == ~overlapped' => \A n \in Names :
                 /\ (store = "trust" /\ Doc[n].revoked) => Doc'[n].revoked
                 /\ (store = "tokens" /\ Live(n)' \notin {Null, Live(n)}) =>
                       (Doc[n].key = Null \/ Live(n)' > Doc[n].key)
  <1>1. StoresInv /\ [StoresNext]_storesVars => [Sticks]_storesVars
    <2> SUFFICES ASSUME StoresInv, [StoresNext]_storesVars, ~overlapped', NEW n \in Names
                 PROVE  /\ (store = "trust" /\ Doc[n].revoked) => Doc'[n].revoked
                        /\ (store = "tokens" /\ Live(n)' \notin {Null, Live(n)}) =>
                              (Doc[n].key = Null \/ Live(n)' > Doc[n].key)
      OBVIOUS
    <2>1. Alone
      BY OverlapStays DEF StoresInv
    <2>2. Alone' /\ store' = store /\ (settled'[n] = settled[n] \/ Follows(settled[n], settled'[n]))
      BY <2>1, AloneStep
    <2>3. Doc = settled /\ Doc' = settled' /\ Doc \in StoreDocs /\ Doc' \in StoreDocs
      BY <2>1, <2>2 DEF Alone, StoreDocs, Entries
    <2>4. Doc # Broken /\ Doc' # Broken
      BY <2>3, StoresAssumption DEF StoreDocs, Entries
    <2>5. Doc'[n] = Doc[n] \/ Follows(Doc[n], Doc'[n])
      BY <2>2, <2>3
    <2>6. /\ Live(n) = IF ~Doc[n].revoked THEN Doc[n].key ELSE Null
          /\ Live(n)' = IF ~Doc'[n].revoked THEN Doc'[n].key ELSE Null
      BY <2>4 DEF Live
    <2> QED
      BY <2>5, <2>6 DEF Follows
  <1> QED
    BY <1>1, StoresInvariant, PTL DEF StoresSpec, RevocationSticks

=============================================================================
