------------------------------ MODULE LibraryFile ------------------------------
(* Opening the library (library/db.rs, library/legacy.rs, app/services.rs).  A file of   *)
(* an older schema is made anew: the session and, of schema 13, the account's rows are   *)
(* read, every table is dropped, the tables of this schema are made and what was read is *)
(* written back; then the rows move on into the account files.  SQLite commits each      *)
(* statement for itself, and the program may die between any two.                        *)
EXTENDS Naturals, Sequences

CONSTANTS
  Current,                \* SCHEMA_VERSION
  LegacyRows,             \* rows of schema 13 that belong to an account
  MaxFileCrashes, MaxFileFaults

LibraryFileAssumption == Current \in Nat /\ Current > 13 /\ {MaxFileCrashes, MaxFileFaults} \subseteq Nat

(* The tables of the schema 13 and of this one, in the order they are made: the session's,
   the account's, and one that stands for all others. *)
OldTables == <<"credentials", "profiles", "playback", "others">>
NewTables == <<"credentials", "others", "profiles", "handoff">>

VARIABLES
  version, tables,        \* user_version; the tables of the file
  hasDevice, hasSession,    \* the row of `credentials` is there; it holds a session
  rowsIn,                 \* the account rows of the file, by table
  accountFiles,           \* the rows in the account files
  opening,                \* where `open` is
  savedSession, savedRows, \* what `migrate` has read
  made,                   \* how many tables of the schema are made
  wasSignedIn, foundRows, oldVersion,  \* history: the file that the first start found
  fileCrashes, fileFaults

fileRows == <<version, tables, hasDevice, hasSession, rowsIn>>
savedVars == <<savedSession, savedRows>>
foundVars == <<wasSignedIn, foundRows, oldVersion>>
libraryFileVars == <<fileRows, made, accountFiles, opening, savedVars, foundVars, fileCrashes, fileFaults>>

Steps == {"down", "version", "save", "drop", "create", "restore session", "restore rows",
          "device", "import", "open", "failed"}
RowTables == {"profiles", "playback", "handoff"}
NoRows == [t \in RowTables |-> {}]
Set(seq) == {seq[i] : i \in DOMAIN seq}

LibraryFileTypeOK ==
  /\ version \in Nat /\ tables \subseteq Set(OldTables) \cup Set(NewTables)
  /\ {hasDevice, hasSession, savedSession, wasSignedIn} \subseteq BOOLEAN
  /\ rowsIn \in [RowTables -> SUBSET LegacyRows] /\ accountFiles \subseteq LegacyRows
  /\ opening \in Steps /\ savedRows \in [RowTables -> SUBSET LegacyRows]
  /\ oldVersion \in Nat /\ foundRows \subseteq LegacyRows /\ made \in 0 .. Len(NewTables)
  /\ fileCrashes \in 0 .. MaxFileCrashes /\ fileFaults \in 0 .. MaxFileFaults

(* No file yet, or one of an older, this or a newer program, signed in or not. *)
LibraryFileInit ==
  /\ version \in {0, 12, 13, Current, Current + 1} /\ oldVersion = version
  /\ tables = (IF version = 0 THEN {} ELSE Set(IF version <= 13 THEN OldTables ELSE NewTables))
  /\ hasDevice = (version # 0) /\ hasSession \in {FALSE, version # 0} /\ wasSignedIn = hasSession
  /\ \E rows \in [{"profiles", "playback"} -> SUBSET LegacyRows] :
       /\ version # 13 => \A t \in DOMAIN rows : rows[t] = {}
       /\ rows["profiles"] \cap rows["playback"] = {}
       /\ rowsIn = [NoRows EXCEPT !["profiles"] = rows["profiles"], !["playback"] = rows["playback"]]
  /\ foundRows = rowsIn["profiles"] \cup rowsIn["playback"] /\ made = 0
  /\ accountFiles = {} /\ opening = "down" /\ savedSession = FALSE /\ savedRows = NoRows
  /\ fileCrashes = 0 /\ fileFaults = 0

From(step, next) == opening = step /\ opening' = next
KeepHistory == UNCHANGED <<foundVars, fileCrashes>>
StepKeeps == UNCHANGED <<accountFiles, savedVars, fileFaults>> /\ KeepHistory

StartProgram ==
  /\ opening \in {"down", "failed"} /\ opening' = "version"
  /\ UNCHANGED <<fileRows, made>> /\ StepKeeps

(* migrate: a file of this version, or of a newer one, is taken as it is. *)
ReadVersion ==
  /\ From("version", IF version >= Current THEN "device" ELSE IF version > 0 THEN "save" ELSE "create")
  /\ savedSession' = FALSE /\ savedRows' = NoRows /\ made' = 0
  /\ UNCHANGED <<fileRows, accountFiles, fileFaults>> /\ KeepHistory

(* saved_session reads nothing when it fails; saved_legacy_account_data fails the start  *)
(* when a table of schema 13 is not there.                                               *)
SaveOld ==
  /\ savedSession' = ("credentials" \in tables /\ hasSession)
  /\ IF version = 13 /\ ~({"profiles", "playback"} \subseteq tables)
     THEN From("save", "failed") /\ UNCHANGED savedRows
     ELSE From("save", "drop") /\ savedRows' = IF version = 13 THEN rowsIn ELSE NoRows
  /\ UNCHANGED <<fileRows, made, accountFiles, fileFaults>> /\ KeepHistory

(* drop_everything: one table after the other, the oldest first, each with its rows. *)
InFileOrder == OldTables \o NewTables
Left == {i \in DOMAIN InFileOrder : InFileOrder[i] \in tables}

DropTable ==
  /\ From("drop", "drop")
  /\ \E i \in Left : LET t == InFileOrder[i] IN
       /\ \A j \in Left : i <= j
       /\ tables' = tables \ {t}
       /\ hasDevice' = (hasDevice /\ t # "credentials")
       /\ hasSession' = (hasSession /\ t # "credentials")
       /\ rowsIn' = [r \in RowTables |-> IF r = t THEN {} ELSE rowsIn[r]]
  /\ UNCHANGED <<version, made>> /\ StepKeeps

AllDropped == Left = {} /\ From("drop", "create") /\ UNCHANGED <<fileRows, made>> /\ StepKeeps

(* execute_batch(SCHEMA): the next table; one that is there already fails the batch. *)
CreateTable ==
  LET t == NewTables[made + 1] IN
  IF made = Len(NewTables) THEN From("create", "restore session") /\ UNCHANGED <<fileRows, made>> /\ StepKeeps
  ELSE IF t \in tables THEN From("create", "failed") /\ UNCHANGED <<fileRows, made>> /\ StepKeeps
  ELSE From("create", "create") /\ made' = made + 1 /\ tables' = tables \cup {t}
       /\ UNCHANGED <<version, hasDevice, hasSession, rowsIn>> /\ StepKeeps

(* restore_session.  Mutant: the session is not written back. *)
SessionForgotten == FALSE
RestoredSession == savedSession

RestoreSession ==
  /\ From("restore session", "restore rows")
  /\ hasSession' = RestoredSession /\ hasDevice' = (hasDevice \/ RestoredSession)
  /\ UNCHANGED <<version, tables, rowsIn, made>> /\ StepKeeps

(* restore_legacy_account_data: profiles go back to their table, the playback rows to the *)
(* one they wait in.  A row is a statement of its own.                                     *)
RestoreRow ==
  /\ \E r \in LegacyRows :
       \/ r \in savedRows["profiles"] \ rowsIn["profiles"]
          /\ rowsIn' = [rowsIn EXCEPT !["profiles"] = @ \cup {r}]
       \/ r \in savedRows["playback"] \ rowsIn["handoff"]
          /\ rowsIn' = [rowsIn EXCEPT !["handoff"] = @ \cup {r}]
  /\ From("restore rows", "restore rows")
  /\ UNCHANGED <<version, tables, hasDevice, hasSession, made>> /\ StepKeeps

RowsAreBack == savedRows["profiles"] \subseteq rowsIn["profiles"] /\ savedRows["playback"] \subseteq rowsIn["handoff"]

(* The version is written last: until then the next start begins again.                   *)
(* Mutant: it is written before the rows are back.                                         *)
AnyTime == TRUE
SchemaIsReady == RowsAreBack

SetVersion ==
  /\ SchemaIsReady /\ From("restore rows", "device") /\ version' = Current
  /\ UNCHANGED <<tables, hasDevice, hasSession, rowsIn, made>> /\ StepKeeps

(* ensure_device_id *)
EnsureDevice ==
  /\ From("device", "import") /\ hasDevice' = TRUE
  /\ UNCHANGED <<version, tables, hasSession, rowsIn, made>> /\ StepKeeps

---------------------------------------------------------------------------------------
(* import_legacy_account_data: each row into its account's file, which may fail; then the *)
(* rows of both tables are deleted in one transaction.                                    *)
RowsWaiting == rowsIn["profiles"] \cup rowsIn["handoff"]

ImportRow ==
  /\ \E r \in RowsWaiting \ accountFiles : accountFiles' = accountFiles \cup {r}
  /\ From("import", "import")
  /\ UNCHANGED <<fileRows, made, savedVars, fileFaults>> /\ KeepHistory

ImportFails ==
  /\ fileFaults < MaxFileFaults /\ fileFaults' = fileFaults + 1 /\ RowsWaiting # {}
  /\ From("import", "failed")
  /\ UNCHANGED <<fileRows, made, accountFiles, savedVars>> /\ KeepHistory

(* Mutant: the rows are deleted whether they are imported or not. *)
DeletedAnyway == TRUE
AllImported == RowsWaiting \subseteq accountFiles

FinishImport ==
  /\ AllImported /\ From("import", "open")
  /\ rowsIn' = [rowsIn EXCEPT !["profiles"] = {}, !["handoff"] = {}]
  /\ UNCHANGED <<version, tables, hasDevice, hasSession, made>> /\ StepKeeps

---------------------------------------------------------------------------------------
(* The program ends, or dies at any step. *)
ProgramEnds ==
  /\ opening # "down" /\ opening' = "down"
  /\ fileCrashes' = fileCrashes + (IF opening \in {"open", "failed"} THEN 0 ELSE 1)
  /\ fileCrashes' <= MaxFileCrashes
  /\ UNCHANGED <<fileRows, made, accountFiles, savedVars, foundVars, fileFaults>>

LibraryFileNext ==
  \/ StartProgram \/ ReadVersion \/ SaveOld \/ DropTable \/ CreateTable \/ RestoreSession \/ RestoreRow
  \/ AllDropped \/ SetVersion \/ EnsureDevice \/ ImportRow \/ ImportFails \/ FinishImport \/ ProgramEnds

LibraryFileSpec == LibraryFileInit /\ [][LibraryFileNext]_libraryFileVars

(* A library that opens has every table and its device; a version is never written for a  *)
(* file that is not whole; and from then on no row of an account is lost, whatever fails:   *)
(* it is in the file, or in the account's, and the file's go only when it is in the        *)
(* account's (migrate, import_legacy_account_data).                                       *)
FileOpensWhole ==
  /\ opening = "open" => hasDevice /\ RowsWaiting = {}
  /\ version >= Current => Set(NewTables) \subseteq tables \/ oldVersion > Current
  /\ oldVersion = 13 /\ version = Current => foundRows \subseteq RowsWaiting \cup accountFiles
  /\ oldVersion \in {12, 13} /\ version = Current /\ fileCrashes = 0 => hasSession = wasSignedIn
  /\ opening = "failed" => fileCrashes + fileFaults > 0

(* "Only the signed-in session survives" the recreation (db.rs): whoever was signed in is   *)
(* so when the program has opened the file, also when a start died before.                 *)
SessionSurvives == opening = "open" /\ wasSignedIn => hasSession
=============================================================================
