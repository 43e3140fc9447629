--------------------------- MODULE BackupRestore ---------------------------
(***************************************************************************)
(* Backup and restore of operations.py: create_backup copies file by file  *)
(* while the service may write, the manifest is signed, and restore_backup *)
(* verifies the whole backup and then writes file by file, each through a  *)
(* temporary file that is renamed into place.  The process may be killed   *)
(* between any two of these steps, and the backup may be changed by        *)
(* somebody who can write its directory, manifest included.                *)
(*                                                                         *)
(* The SHA-256 of a file is its content.  A signature is the key that made *)
(* it and the manifest it was made over; the trust store (OperatorStores)  *)
(* comes down to which key is asked for.                                   *)
(***************************************************************************)
EXTENDS Naturals, FiniteSets, FiniteSetsExt

CONSTANTS
    Files,      \* relpaths, as numbers in sorted order
    Contents,   \* contents the service gives its files
    Forged,     \* a content the service never wrote
    Torn,       \* what a file holds while it is written in place
    Missing,
    MaxSigned   \* bound: manifests the operator signs

ASSUME BackupAssumption ==
    /\ Files \subseteq Nat /\ IsFiniteSet(Files)
    /\ Missing \notin Contents \cup {"operator"} /\ Forged \notin Contents
    /\ Torn \notin Contents \cup {Missing, Forged}
    /\ MaxSigned \in Nat

Stored == Contents \cup {Forged, Missing}
NoFiles == [f \in Files |-> Missing]
NoManifest == [files |-> NoFiles, instance |-> Missing]
NoSignature == [key |-> Missing, body |-> NoManifest]

VARIABLES
    live,      \* the files of the running service
    copy,      \* the files of the backup
    manifest,  \* the manifest beside them
    signature, \* the signature file
    target,    \* the root that is restored into
    temporary, \* content of the .restore-*.tmp file being written, or Missing
    job,       \* the step of create_backup or restore_backup, and the files left
    signed,    \* observer: the backups the operator signed
    moved,     \* observer: the service wrote while a backup was taken
    altered    \* observer: the backup was changed while one of them was at work

backupVars == <<live, copy, manifest, signature, target, temporary, job, signed, moved, altered>>

Rest == [pc |-> "rest", left |-> {}, began |-> NoFiles]

BackupInit ==
    /\ live \in [Files -> Contents]
    /\ copy = NoFiles /\ manifest = NoManifest /\ signature = NoSignature
    /\ target = NoFiles /\ temporary = Missing
    /\ job = Rest
    /\ signed = {}
    /\ moved = FALSE /\ altered = FALSE

(* The service writes or removes one of its files. *)
LiveWrite(f, c) ==
    /\ live' = [live EXCEPT ![f] = c]
    /\ live' # live
    /\ moved' = (moved \/ job.pc = "copying")
    /\ UNCHANGED <<copy, manifest, signature, target, temporary, job, signed, altered>>

(* Somebody changes a file of the backup, or writes a manifest that fits. *)
Tamper ==
    /\ \/ \E f \in Files : copy' = [copy EXCEPT ![f] = Forged] /\ UNCHANGED manifest
       \/ manifest' = [manifest EXCEPT !.files = copy] /\ UNCHANGED copy
    /\ <<copy, manifest>>' # <<copy, manifest>>
    /\ altered' = (altered \/ job.pc # "rest")
    /\ UNCHANGED <<live, signature, target, temporary, job, signed, moved>>

-----------------------------------------------------------------------------
StartBackup ==
    /\ job = Rest /\ Cardinality(signed) < MaxSigned
    /\ job' = [pc |-> "copying", left |-> Files, began |-> live]
    /\ moved' = FALSE
    /\ UNCHANGED <<live, copy, manifest, signature, target, temporary, signed, altered>>

(* Mutant: a source that is gone is left out of the backup. *)
CopySkips ==
    /\ job.pc = "copying" /\ job.left # {}
    /\ LET f == Min(job.left)
       IN /\ copy' = IF live[f] = Missing THEN copy ELSE [copy EXCEPT ![f] = live[f]]
          /\ job' = [job EXCEPT !.left = @ \ {f}]
    /\ UNCHANGED <<live, manifest, signature, target, temporary, signed, moved, altered>>

(* The next file of create_backup; one that is not there ends it with an   *)
(* error, what was copied stays.                                           *)
Copy ==
    /\ job.pc = "copying" /\ job.left # {}
    /\ LET f == Min(job.left)
       IN \/ live[f] = Missing /\ job' = Rest /\ UNCHANGED copy
          \/ /\ live[f] # Missing
             /\ copy' = [copy EXCEPT ![f] = live[f]]
             /\ job' = [job EXCEPT !.left = @ \ {f}]
    /\ UNCHANGED <<live, manifest, signature, target, temporary, signed, moved, altered>>

(* create_backup ends with the manifest of the copies, which is put beside *)
(* them.                                                                   *)
WriteManifest ==
    /\ job.pc = "copying" /\ job.left = {}
    /\ manifest' = [files |-> copy, instance |-> "this"]
    /\ job' = Rest
    /\ UNCHANGED <<live, copy, signature, target, temporary, signed, moved, altered>>

sign_manifest(m) == [key |-> "operator", body |-> m]

(* `ops sign-backup`: the operator signs the manifest that is there, which *)
(* may have been changed since.                                            *)
SignManifest ==
    /\ job = Rest /\ manifest.instance = "this"
    /\ Cardinality(signed) < MaxSigned
    /\ signature' = sign_manifest(manifest)
    /\ signed' = signed \cup {manifest.files}
    /\ UNCHANGED <<live, copy, manifest, target, temporary, job, moved, altered>>

-----------------------------------------------------------------------------
(* manifest_signature_ok, TrustStore.verify *)
SignatureOk == signature = sign_manifest(manifest)

(* Every file of the manifest is there with the hash it says. *)
Intact == \A f \in Files : copy[f] # Missing /\ copy[f] = manifest.files[f]

(* verify_backup with a key and a signature. *)
verify_backup == SignatureOk /\ Intact

(* restore_backup: another instance or schema, a wrong signature or a file *)
(* that differs refuses before anything is written.                        *)
StartRestore ==
    /\ job = Rest /\ manifest.instance = "this"
    /\ verify_backup
    /\ job' = [pc |-> "restoring", left |-> Files, began |-> NoFiles]
    /\ UNCHANGED <<live, copy, manifest, signature, target, temporary, signed, moved, altered>>

(* Mutant: the target is opened and written in place. *)
WriteInPlace ==
    /\ job.pc = "restoring" /\ job.left # {}
    /\ copy[Min(job.left)] # Missing
    /\ temporary' = copy[Min(job.left)]
    /\ target' = [target EXCEPT ![Min(job.left)] = Torn]
    /\ job' = [job EXCEPT !.pc = "renaming"]
    /\ UNCHANGED <<live, copy, manifest, signature, signed, moved, altered>>

(* write_bytes: the content goes into a temporary file and to the disk. *)
WriteTemporary ==
    /\ job.pc = "restoring" /\ job.left # {}
    /\ copy[Min(job.left)] # Missing
    /\ temporary' = copy[Min(job.left)]
    /\ job' = [job EXCEPT !.pc = "renaming"]
    /\ UNCHANGED <<live, copy, manifest, signature, target, signed, moved, altered>>

(* Mutant: a file that an earlier restore wrote is kept. *)
RenameUnlessThere ==
    /\ job.pc = "renaming"
    /\ target' = [target EXCEPT ![Min(job.left)] = IF @ = Missing THEN temporary ELSE @]
    /\ temporary' = Missing
    /\ job' = [job EXCEPT !.pc = "restoring", !.left = @ \ {Min(job.left)}]
    /\ UNCHANGED <<live, copy, manifest, signature, signed, moved, altered>>

(* os.replace *)
Rename ==
    /\ job.pc = "renaming"
    /\ target' = [target EXCEPT ![Min(job.left)] = temporary]
    /\ temporary' = Missing
    /\ job' = [job EXCEPT !.pc = "restoring", !.left = @ \ {Min(job.left)}]
    /\ UNCHANGED <<live, copy, manifest, signature, signed, moved, altered>>

(* RestoreResult(True): the operator is told, and goes on. *)
Restored ==
    /\ job.pc = "restoring" /\ job.left = {}
    /\ job' = [job EXCEPT !.pc = "restored"]
    /\ UNCHANGED <<live, copy, manifest, signature, target, temporary, signed, moved, altered>>

(* The operator starts over, or the process is killed or fails half way;   *)
(* a temporary file may stay behind, under a name nobody reads.            *)
Stop ==
    /\ job.pc # "rest"
    /\ job' = Rest
    /\ temporary' = Missing
    /\ UNCHANGED <<live, copy, manifest, signature, target, signed, moved, altered>>

BackupNext ==
    \/ \E f \in Files, c \in Contents \cup {Missing} : LiveWrite(f, c)
    \/ Tamper
    \/ StartBackup \/ Copy \/ WriteManifest \/ SignManifest
    \/ StartRestore \/ WriteTemporary \/ Rename \/ Restored \/ Stop

BackupSpec == BackupInit /\ [][BackupNext]_backupVars

-----------------------------------------------------------------------------
(* Properties *)

BackupTypeOK ==
    /\ live \in [Files -> Contents \cup {Missing}]
    /\ copy \in [Files -> Stored]
    /\ manifest \in [files : [Files -> Stored], instance : {Missing, "this"}]
    /\ signature \in [key : {Missing, "operator"},
                      body : [files : [Files -> Stored], instance : {Missing, "this"}]]
    /\ target \in [Files -> Stored]
    /\ temporary \in Stored
    /\ job \in [pc : {"rest", "copying", "restoring", "renaming", "restored"},
                left : SUBSET Files, began : [Files -> Stored]]
    /\ job.pc = "renaming" => job.left # {}
    /\ signed \subseteq [Files -> Stored]

(* "a cut during a restore leaves either the old file or the new one,      *)
(* never half of it" (operations.py:317): whatever was killed where, and   *)
(* whoever changed the backup before the restore looked at it, every file  *)
(* of the target is one the operator signed.  The one way round it is to   *)
(* change the backup while the restore reads it (operations.py:232-241).   *)
TargetIsSigned ==
    ~altered => \A f \in Files : target[f] = Missing \/ \E s \in signed : target[f] = s[f]

(* A restore that reported success wrote one signed backup whole, not a    *)
(* mixture of two, after earlier restores were cut half way too            *)
(* (operations.py:238-242).                                                *)
RestoredWhole ==
    job.pc = "restored" /\ ~altered => target \in signed

(* A backup is the state of one moment, with every file in it, if the      *)
(* service did not write while it was taken; nothing tells the operator    *)
(* when it did (operations.py:114-121).                                    *)
BackupIsOneMoment ==
    job.pc = "copying" /\ job.left = {} /\ ~moved /\ ~altered => copy = job.began
=============================================================================
