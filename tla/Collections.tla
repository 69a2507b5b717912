------------------------------- MODULE Collections -------------------------------
(* The collection profiles of one account and the provider results kept for them:    *)
(* edits and refreshes ask the provider first and commit later; the scheduler does so *)
(* on its own.  A revision names one result configuration of one profile.            *)
EXTENDS Naturals, FiniteSets

CONSTANTS Profiles, MaxRevision, MaxCommitFaults

ASSUME CollectionsAssumption == MaxRevision \in Nat /\ MaxCommitFaults \in Nat

Rows == Profiles \X (1 .. MaxRevision)
NoRequest == [op |-> "none"]

VARIABLES
  profile,     \* [Profiles -> revision]: collections.json; 0: there is no such profile
  snapshot,    \* rows of collection_snapshots: <<profile, revision>>
  refreshed,   \* profiles with a row of collection_refresh_state that says success
  allocated,   \* revision ids given out
  editing,     \* the edit under way: one dialog at a time
  manual,      \* the refresh the user asked for
  automatic,   \* the scheduler's refresh
  deleted,     \* history: profiles the user has deleted
  commitFaults

collectionVars == <<profile, snapshot, refreshed, allocated, editing, manual, automatic,
                    deleted, commitFaults>>

CollectionsTypeOK ==
  /\ profile \in [Profiles -> 0 .. MaxRevision]
  /\ snapshot \subseteq Rows /\ refreshed \subseteq Profiles
  /\ allocated \in 0 .. MaxRevision
  /\ editing \in {NoRequest} \cup [op : {"result", "cosmetic"}, id : Profiles, rev : 1 .. MaxRevision]
  /\ manual \in {NoRequest} \cup [op : {"manual"}, id : Profiles, rev : 1 .. MaxRevision]
  /\ automatic \in {NoRequest}
       \cup [op : {"fetching", "checked"}, id : Profiles, rev : 1 .. MaxRevision]
  /\ deleted \subseteq Profiles /\ commitFaults \in 0 .. MaxCommitFaults

CollectionsInit ==
  /\ profile = [p \in Profiles |-> 0]
  /\ snapshot = {} /\ refreshed = {} /\ allocated = 0
  /\ editing = NoRequest /\ manual = NoRequest /\ automatic = NoRequest
  /\ deleted = {} /\ commitFaults = 0

RowsOf(p) == {row \in snapshot : row[1] = p}

(* remove_unreferenced_revisions, over the profiles as they are stored; mutant: over  *)
(* the profiles as they were before the edit was saved.                               *)
ReferencedBefore(profiles, rows) == {row \in rows : profile[row[1]] = row[2]}
Referenced(profiles, rows) == {row \in rows : profiles[row[1]] = row[2]}

-----------------------------------------------------------------------------------
(* create and edit: a new revision for a changed result configuration, the revision  *)
(* that was read for any other change.                                               *)
StartResultEdit(p) ==
  /\ editing = NoRequest /\ allocated < MaxRevision
  /\ p \notin deleted
  /\ allocated' = allocated + 1
  /\ editing' = [op |-> "result", id |-> p, rev |-> allocated + 1]
  /\ UNCHANGED <<profile, snapshot, refreshed, manual, automatic, deleted, commitFaults>>

StartCosmeticEdit(p) ==
  /\ editing = NoRequest /\ profile[p] # 0
  /\ editing' = [op |-> "cosmetic", id |-> p, rev |-> profile[p]]
  /\ UNCHANGED <<profile, snapshot, refreshed, allocated, manual, automatic, deleted,
                 commitFaults>>

(* commit_result_profile, saving the configuration: the rows first, then the profile, *)
(* then the rows of revisions no profile has are removed.                             *)
CommitResultEdit ==
  /\ editing.op = "result"
  /\ LET saved == [profile EXCEPT ![editing.id] = editing.rev]
     IN /\ profile' = saved
        /\ snapshot' = Referenced(saved, snapshot \cup {<<editing.id, editing.rev>>})
  /\ refreshed' = refreshed \cup {editing.id}
  /\ editing' = NoRequest
  /\ UNCHANGED <<allocated, manual, automatic, deleted, commitFaults>>

(* The profile cannot be saved: remove_revision takes the new rows back, or fails.    *)
CommitResultEditFails ==
  /\ editing.op = "result" /\ commitFaults < MaxCommitFaults
  /\ commitFaults' = commitFaults + 1
  /\ \E rolledBack \in BOOLEAN :
       snapshot' = IF rolledBack THEN snapshot
                   ELSE snapshot \cup {<<editing.id, editing.rev>>}
  /\ editing' = NoRequest
  /\ UNCHANGED <<profile, refreshed, allocated, manual, automatic, deleted>>

(* The provider does not answer, or the draft cannot be saved. *)
EditFails ==
  /\ editing # NoRequest
  /\ editing' = NoRequest
  /\ UNCHANGED <<profile, snapshot, refreshed, allocated, manual, automatic, deleted,
                 commitFaults>>

CommitCosmeticEdit ==
  /\ editing.op = "cosmetic"
  /\ profile' = [profile EXCEPT ![editing.id] = editing.rev]
  /\ editing' = NoRequest
  /\ UNCHANGED <<snapshot, refreshed, allocated, manual, automatic, deleted, commitFaults>>

(* delete: a failure to remove the rows is only logged. *)
Delete(p) ==
  /\ editing = NoRequest /\ profile[p] # 0
  /\ profile' = [profile EXCEPT ![p] = 0]
  /\ deleted' = deleted \cup {p}
  /\ \/ snapshot' = snapshot \ RowsOf(p) /\ refreshed' = refreshed \ {p}
        /\ UNCHANGED commitFaults
     \/ commitFaults < MaxCommitFaults /\ commitFaults' = commitFaults + 1
        /\ UNCHANGED <<snapshot, refreshed>>
  /\ UNCHANGED <<allocated, editing, manual, automatic>>

(* refresh: the result is committed under the revision that was read, without looking *)
(* at the profile again, and the profile is not saved; mutant: it is.                 *)
StartManualRefresh(p) ==
  /\ manual = NoRequest /\ profile[p] # 0
  /\ manual' = [op |-> "manual", id |-> p, rev |-> profile[p]]
  /\ UNCHANGED <<profile, snapshot, refreshed, allocated, editing, automatic, deleted,
                 commitFaults>>

AfterRefreshSaved(request) == [profile EXCEPT ![request.id] = request.rev]
AfterRefresh(request) == profile

CommitManualRefresh ==
  /\ manual # NoRequest
  /\ \/ /\ snapshot' = snapshot \cup {<<manual.id, manual.rev>>}
        /\ refreshed' = refreshed \cup {manual.id}
        /\ profile' = AfterRefresh(manual)
     \/ UNCHANGED <<snapshot, refreshed, profile>>
  /\ manual' = NoRequest
  /\ UNCHANGED <<allocated, editing, automatic, deleted, commitFaults>>

(* refresh_profile of the scheduler. *)
StartAutomaticRefresh(p) ==
  /\ automatic = NoRequest /\ profile[p] # 0
  /\ automatic' = [op |-> "fetching", id |-> p, rev |-> profile[p]]
  /\ UNCHANGED <<profile, snapshot, refreshed, allocated, editing, manual, deleted,
                 commitFaults>>

StillCurrent ==
  /\ automatic.op = "fetching"
  /\ automatic' = IF profile[automatic.id] = automatic.rev
                  THEN [automatic EXCEPT !.op = "checked"] ELSE NoRequest
  /\ UNCHANGED <<profile, snapshot, refreshed, allocated, editing, manual, deleted,
                 commitFaults>>

CommitAutomaticRefresh ==
  /\ automatic.op = "checked"
  /\ snapshot' = snapshot \cup {<<automatic.id, automatic.rev>>}
  /\ refreshed' = refreshed \cup {automatic.id}
  /\ automatic' = NoRequest
  /\ UNCHANGED <<profile, allocated, editing, manual, deleted, commitFaults>>

CollectionsNext ==
  \/ \E p \in Profiles : \/ StartResultEdit(p) \/ StartCosmeticEdit(p) \/ Delete(p)
                         \/ StartManualRefresh(p) \/ StartAutomaticRefresh(p)
  \/ CommitResultEdit \/ CommitResultEditFails \/ EditFails \/ CommitCosmeticEdit
  \/ CommitManualRefresh \/ StillCurrent \/ CommitAutomaticRefresh

CollectionsSpec == CollectionsInit /\ [][CollectionsNext]_collectionVars

-----------------------------------------------------------------------------------
(* A profile that is configured has the results of its own revision, whatever edits,  *)
(* refreshes and failures cross: a collection never goes empty under its user.        *)
ConfiguredHasResults ==
  \A p \in Profiles : profile[p] # 0 => <<p, profile[p]>> \in snapshot

(* A deleted profile does not come back with a refresh that was under way. *)
DeletedStaysDeleted == \A p \in deleted : profile[p] = 0

(* Snapshots follow the profiles, whatever edits, deletions and refreshes cross        *)
(* (commit_result_profile, refresh_profile).                                          *)
SnapshotsFollowProfiles == ConfiguredHasResults /\ DeletedStaysDeleted
===================================================================================
