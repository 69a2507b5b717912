------------------------------ MODULE ProviderCache ------------------------------
(* The companion plugin's provider cache: one document in memory, saved as a whole   *)
(* shortly after it changed, by timer callbacks that may overlap, and at Dispose.     *)
EXTENDS Naturals, FiniteSets

CONSTANTS RatingKeys,      \* cache keys of titles
          MaxEntries,
          Savers,          \* threads in Flush: timer callbacks and Dispose
          MaxUpserts,      \* bound: changes
          MaxWriteFaults   \* bound: writes that fail, restarts

ProviderCacheAssumption ==
  /\ MaxEntries \in Nat \ {0} /\ {MaxUpserts, MaxWriteFaults} \subseteq Nat

Document == [RatingKeys -> 0 .. MaxUpserts]   \* when each was fetched, 0: no entry
NoSave == [at |-> "rest", json |-> [k \in RatingKeys |-> 0]]

VARIABLES document, cacheFile,
          cacheDirty, saveScheduled, disposed,
          saver,           \* [Savers -> [at, json]]; "writing" holds _writeLock
          upserts,         \* the clock of the fetches
          writeFaults

cacheVars == <<document, cacheFile, cacheDirty, saveScheduled, disposed, saver, upserts,
               writeFaults>>

CacheTypeOK ==
  /\ document \in Document /\ cacheFile \in Document
  /\ cacheDirty \in BOOLEAN /\ saveScheduled \in BOOLEAN /\ disposed \in BOOLEAN
  /\ \A s \in Savers : saver[s].at \in {"rest", "waiting", "writing"} /\ saver[s].json \in Document
  /\ upserts \in 0 .. MaxUpserts /\ writeFaults \in 0 .. MaxWriteFaults

CacheInit ==
  /\ document = NoSave.json /\ cacheFile = NoSave.json
  /\ cacheDirty = FALSE /\ saveScheduled = FALSE /\ disposed = FALSE
  /\ saver = [s \in Savers |-> NoSave] /\ upserts = 0 /\ writeFaults = 0

(* PruneLocked: past MaxEntries the oldest fetches go. *)
Held(d) == {k \in RatingKeys : d[k] > 0}
Prune(d) == [k \in RatingKeys |->
  IF Cardinality({other \in Held(d) : d[other] > d[k]}) >= MaxEntries THEN 0 ELSE d[k]]

(* Upsert and SetHealth: the change, then MarkDirtyLocked. *)
Upsert(k) ==
  /\ upserts < MaxUpserts
  /\ upserts' = upserts + 1
  /\ document' = [document EXCEPT ![k] = upserts']
  /\ cacheDirty' = TRUE
  /\ saveScheduled' = (saveScheduled \/ ~disposed)
  /\ UNCHANGED <<cacheFile, disposed, saver, writeFaults>>

(* SaveScheduled: the timer calls back, on a thread that may find another in Flush.   *)
TimerFires(s) ==
  /\ saveScheduled /\ ~disposed /\ saver[s].at = "rest"
  /\ saveScheduled' = FALSE
  /\ saver' = [saver EXCEPT ![s].at = "waiting"]
  /\ UNCHANGED <<document, cacheFile, cacheDirty, disposed, upserts, writeFaults>>

Dispose(s) ==
  /\ ~disposed /\ saver[s].at = "rest"
  /\ disposed' = TRUE
  /\ saver' = [saver EXCEPT ![s].at = "waiting"]
  /\ UNCHANGED <<document, cacheFile, cacheDirty, saveScheduled, upserts, writeFaults>>

(* Flush: the snapshot is taken and written under _writeLock; mutant: without it.     *)
NoWriteLock == TRUE
WriteLockFree == \A s \in Savers : saver[s].at # "writing"

TakeSnapshot(s) ==
  /\ saver[s].at = "waiting" /\ WriteLockFree
  /\ IF cacheDirty
     THEN /\ document' = Prune(document)
          /\ saver' = [saver EXCEPT ![s] = [at |-> "writing", json |-> document']]
     ELSE saver' = [saver EXCEPT ![s] = NoSave] /\ UNCHANGED document
  /\ cacheDirty' = FALSE
  /\ UNCHANGED <<cacheFile, saveScheduled, disposed, upserts, writeFaults>>

(* TryWrite: a temporary file, moved over the cache file. *)
WriteSucceeds(s) ==
  /\ saver[s].at = "writing"
  /\ cacheFile' = saver[s].json
  /\ saver' = [saver EXCEPT ![s] = NoSave]
  /\ UNCHANGED <<document, cacheDirty, saveScheduled, disposed, upserts, writeFaults>>

(* A failed write keeps the changes pending; mutant: they are taken as written.       *)
TakenAsWritten == cacheDirty
StillPending == TRUE

WriteFails(s) ==
  /\ saver[s].at = "writing" /\ writeFaults < MaxWriteFaults
  /\ writeFaults' = writeFaults + 1
  /\ cacheDirty' = StillPending
  /\ saver' = [saver EXCEPT ![s] = NoSave]
  /\ UNCHANGED <<document, cacheFile, saveScheduled, disposed, upserts>>

(* The server ends without Dispose, or after it, and the cache is loaded again.       *)
ReloadCache ==
  /\ writeFaults < MaxWriteFaults
  /\ writeFaults' = writeFaults + 1
  /\ document' = Prune(cacheFile)
  /\ cacheDirty' = FALSE /\ saveScheduled' = FALSE /\ disposed' = FALSE
  /\ saver' = [s \in Savers |-> NoSave]
  /\ UNCHANGED <<cacheFile, upserts>>

CacheNext ==
  \/ \E k \in RatingKeys : Upsert(k)
  \/ \E s \in Savers : \/ TimerFires(s) \/ Dispose(s) \/ TakeSnapshot(s)
                       \/ WriteSucceeds(s) \/ WriteFails(s)
  \/ ReloadCache

CacheSpec == CacheInit /\ [][CacheNext]_cacheVars

-----------------------------------------------------------------------------------
(* An older snapshot never replaces a newer file, although several saves overlap: no   *)
(* entry of the file is replaced by an earlier fetch, nor is one lost that is not      *)
(* among the oldest.                                                                   *)
FileNeverGoesBack ==
  \A k \in RatingKeys :
    cacheFile'[k] < cacheFile[k] =>
      /\ cacheFile'[k] = 0
      /\ \A kept \in Held(cacheFile') : cacheFile'[kept] > cacheFile[k]

(* No change is forgotten: what the file lacks is pending or being written, also after  *)
(* writes that failed (Flush, TryWrite).                                                *)
NoChangeIsForgotten ==
  cacheDirty \/ (\E s \in Savers : saver[s].at = "writing") \/ cacheFile = document
===================================================================================
