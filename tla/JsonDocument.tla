------------------------------- MODULE JsonDocument -------------------------------
(* One JSON document of the preferences with its backup: saving, removing an account's *)
(* part, loading with recovery, and the points where the program or its file may      *)
(* break.  A document is the number of the save that wrote it.                        *)
EXTENDS Integers

CONSTANTS MaxSaves,         \* bound: saves
          MaxDamages,       \* bound: times the file is damaged or replaced
          CrashInRecovery   \* whether the program may end while it restores the backup

ASSUME JsonDocumentAssumption ==
  MaxSaves \in Nat /\ MaxDamages \in Nat /\ CrashInRecovery \in BOOLEAN

Missing == -1
Damaged == -2
Foreign == -3      \* well formed, but of another version of the program
Contents == {Missing, Damaged, Foreign} \cup 0 .. MaxSaves
Readable(file) == file >= 0

VARIABLES
  primary, copy,   \* the file and its backup
  memory,          \* the document in memory; Missing while the program is not running
  step,            \* where the thread that holds the document's lock is
  removing,        \* the save under way removes an account: the backup is scrubbed
  numbered,        \* versions given out
  removedAt,       \* history: the version that no longer holds the account
  damages

jsonVars == <<primary, copy, memory, step, removing, numbered, removedAt, damages>>

JsonTypeOK ==
  /\ primary \in Contents /\ copy \in {Missing} \cup 0 .. MaxSaves
  /\ memory \in {Missing} \cup 0 .. MaxSaves
  /\ step \in {"closed", "recover", "ready", "backup", "write", "scrub"}
  /\ removing \in BOOLEAN /\ numbered \in 0 .. MaxSaves /\ removedAt \in 0 .. MaxSaves
  /\ damages \in 0 .. MaxDamages

JsonInit ==
  /\ primary = Missing /\ copy = Missing /\ memory = Missing
  /\ step = "closed" /\ removing = FALSE /\ numbered = 0 /\ removedAt = 0 /\ damages = 0

-----------------------------------------------------------------------------------
(* load_versioned_with_recovery: no file is an empty document, a file of another      *)
(* version is refused and stays (the program does not start), a damaged one is moved  *)
(* aside first.                                                                       *)
Load ==
  /\ step = "closed"
  /\ \/ primary = Missing /\ memory' = 0 /\ step' = "ready" /\ UNCHANGED primary
     \/ Readable(primary) /\ memory' = primary /\ step' = "ready" /\ UNCHANGED primary
     \/ primary = Damaged /\ primary' = Missing /\ step' = "recover" /\ UNCHANGED memory
  /\ UNCHANGED <<copy, removing, numbered, removedAt, damages>>

(* recover_from_backup, after the rename. *)
RecoverFromBackup ==
  /\ step = "recover"
  /\ IF Readable(copy) THEN primary' = copy /\ memory' = copy
                       ELSE memory' = 0 /\ UNCHANGED primary
  /\ step' = "ready"
  /\ UNCHANGED <<copy, removing, numbered, removedAt, damages>>

(* mutate: the lock is held until the save has ended. *)
Mutate(removal) ==
  /\ step = "ready" /\ numbered < MaxSaves
  /\ numbered' = numbered + 1
  /\ removing' = removal
  /\ step' = "backup"
  /\ UNCHANGED <<primary, copy, memory, removedAt, damages>>

(* save_with_backup keeps the previous file if this program can read it; mutant: any. *)
KeptAny(file) == file # Missing
Kept(file) == Readable(file)

BackUp ==
  /\ step = "backup"
  /\ copy' = IF Kept(primary) THEN primary ELSE copy
  /\ step' = "write"
  /\ UNCHANGED <<primary, memory, removing, numbered, removedAt, damages>>

Write ==
  /\ step = "write"
  /\ primary' = numbered /\ memory' = numbered
  /\ step' = IF removing THEN "scrub" ELSE "ready"
  /\ UNCHANGED <<copy, removing, numbered, removedAt, damages>>

(* replace_backup_with_primary ends remove_account; mutant: it keeps the backup. *)
NotScrubbed == copy
Scrubbed == primary

Scrub ==
  /\ step = "scrub"
  /\ copy' = Scrubbed
  /\ removedAt' = numbered /\ step' = "ready"
  /\ UNCHANGED <<primary, memory, removing, numbered, damages>>

(* A file operation fails: the caller gets the error, memory stays as it was.         *)
SaveFails ==
  /\ step \in {"backup", "write", "scrub"}
  /\ step' = "ready"
  /\ UNCHANGED <<primary, copy, memory, removing, numbered, removedAt, damages>>

(* The program ends: each file is written aside and renamed, so it is old or new.     *)
Crash ==
  /\ step # "closed" /\ (step = "recover" => CrashInRecovery)
  /\ step' = "closed" /\ memory' = Missing
  /\ UNCHANGED <<primary, copy, removing, numbered, removedAt, damages>>

(* The disk or another program breaks the file, between two operations. *)
DamageFile ==
  /\ step \in {"closed", "ready"} /\ primary # Missing /\ damages < MaxDamages
  /\ primary' = Damaged
  /\ damages' = damages + 1
  /\ UNCHANGED <<copy, memory, step, removing, numbered, removedAt>>

ReplaceFile ==
  /\ step = "closed" /\ damages < MaxDamages
  /\ primary' = Foreign
  /\ damages' = damages + 1
  /\ UNCHANGED <<copy, memory, step, removing, numbered, removedAt>>

JsonNext ==
  \/ Load \/ RecoverFromBackup \/ Mutate(TRUE) \/ Mutate(FALSE)
  \/ BackUp \/ Write \/ Scrub \/ SaveFails \/ Crash \/ DamageFile \/ ReplaceFile

JsonSpec == JsonInit /\ [][JsonNext]_jsonVars

-----------------------------------------------------------------------------------
(* What the next start reads: the backup only instead of a damaged file, which is gone *)
(* once it is moved aside.                                                             *)
Fallback == IF Readable(copy) THEN copy ELSE 0
OnDisk ==
  CASE Readable(primary) \/ primary = Foreign -> primary
    [] primary = Damaged -> Fallback
    [] primary = Missing -> IF step = "recover" THEN Fallback ELSE 0

Promise == INSTANCE AtomicDocument
             WITH saved <- OnDisk, prior <- Fallback, seen <- memory,
                  MayForget <- CrashInRecovery

(* The document with its backup keeps the promise of AtomicDocument through every     *)
(* crash of a save and every damage: save_with_backup and load_versioned_with_recovery *)
(* together.                                                                           *)
DocumentIsAtomic == Promise!Spec

(* A settings document survives crashes, damage and other versions, and once              *)
(* remove_account has answered, the account's part never comes back: not from the file,   *)
(* and not from the backup after a damage (save_with_backup, replace_backup_with_primary). *)
DocumentIsSafe ==
  /\ DocumentIsAtomic
  /\ [](memory # Missing => memory = 0 \/ memory >= removedAt)
===================================================================================
