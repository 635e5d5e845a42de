--------------------------- MODULE BackgroundJobs ---------------------------
(***************************************************************************)
(* The work the server does after it has answered: metadata syncs          *)
(* (services/metadata_service.py), full Steam metadata syncs               *)
(* (services/steam_metadata_service.py) and library imports from uploaded  *)
(* files (api/imports.py, services/playnite_import.py; the GOG Galaxy      *)
(* import is the same code under other names, with runs of its own kind).  *)
(* Each job has a SyncRun row that outlives the process, and a background  *)
(* task that does not.                                                     *)
(*                                                                         *)
(* A metadata sync takes its lock while the request is answered and lets   *)
(* go of it in the background task; an import waits for the same lock in   *)
(* its task, on one of the server's threads.                               *)
(***************************************************************************)
EXTENDS Naturals, FiniteSets

CONSTANTS
  Import,        \* uploads
  MetadataSync,  \* requests of metadata syncs
  WithSteam,     \* those with include_steam
  SteamSync,     \* full Steam metadata syncs
  Participant,
  Owner,         \* Owner[j]: the participant of import j
  Kind,          \* Kind[j]: the SyncRun.kind of import j
  Threads,       \* size of the server's thread pool
  MaxErrors,     \* bound on failing database calls
  MaxCrashes,    \* bound on crashes
  Nobody

ASSUME JobsAssumption ==
  /\ WithSteam \subseteq MetadataSync
  /\ Owner \in [Import -> Participant]
  /\ Kind \in [Import -> {"playnite", "gog_galaxy"}]
  /\ Import \cap (MetadataSync \cup SteamSync) = {}
  /\ MetadataSync \cap SteamSync = {}
  /\ Threads \in Nat \ {0}
  /\ MaxErrors \in Nat /\ MaxCrashes \in Nat
  /\ Nobody \notin Import \cup MetadataSync \cup SteamSync

Job  == Import \cup MetadataSync \cup SteamSync
Lock == {"METADATA_SYNC_LOCK", "STEAM_METADATA_LOCK"}

VARIABLES
  up,        \* whether the process runs
  pc,        \* pc[j]: what the request or the task of job j is about to do
  run,       \* run[j]: its SyncRun: none, open (no finished_at), ok or failed
  holder,    \* holder[l]: the job that has lock l, or Nobody
  uploads,   \* imports whose uploaded file is on disk
  imported,  \* imports whose ownerships are committed
  gone,      \* deleted participants
  errors,    \* database calls that failed
  crashes

vars == <<up, pc, run, holder, uploads, imported, gone, errors, crashes>>

(* Steps at which a job has no thread of the pool.                         *)
Threadless == {"none", "uploaded", "queued", "done"}

Step == Threadless \cup
  {"creating", "steam_lock", "steam", "import", "waiting", "metadata",
   "completing", "failing", "releasing"}

Init ==
  /\ up = TRUE
  /\ pc = [j \in Job |-> "none"]
  /\ run = [j \in Job |-> "none"]
  /\ holder = [l \in Lock |-> Nobody]
  /\ uploads = {}
  /\ imported = {}
  /\ gone = {}
  /\ errors = 0
  /\ crashes = 0

-----------------------------------------------------------------------------

ThreadFree == Cardinality({j \in Job : pc[j] \notin Threadless}) < Threads

(* The lock that the request takes or, for an import, the task.            *)
LockOf(j) == IF j \in SteamSync THEN "STEAM_METADATA_LOCK" ELSE "METADATA_SYNC_LOCK"

Goto(j, s) == pc' = [pc EXCEPT ![j] = s]

Take(l, j) == holder[l] = Nobody /\ holder' = [holder EXCEPT ![l] = j]
Free(l)    == holder' = [holder EXCEPT ![l] = Nobody]

-----------------------------------------------------------------------------
(* Requests of metadata syncs.                                             *)

(* create_metadata_sync_run, create_steam_metadata_run: answered with 409  *)
(* if the lock is taken.                                                   *)
RequestSync(j) ==
  /\ up /\ pc[j] = "none" /\ j \notin Import
  /\ ThreadFree
  /\ Take(LockOf(j), j)
  /\ Goto(j, "creating")
  /\ UNCHANGED <<up, run, uploads, imported, gone, errors, crashes>>

CreateSyncRun(j) ==
  /\ pc[j] = "creating"
  /\ run' = [run EXCEPT ![j] = "open"]
  /\ Goto(j, "queued")
  /\ UNCHANGED <<up, holder, uploads, imported, gone, errors, crashes>>

(* Faulty variant: the lock stays with a request that failed.              *)
CreateSyncFailsHoldingLock(j) ==
  /\ pc[j] = "creating"
  /\ errors < MaxErrors
  /\ errors' = errors + 1
  /\ Goto(j, "done")
  /\ UNCHANGED <<up, run, holder, uploads, imported, gone, crashes>>

(* The insertion fails, or the look at the row after its commit.           *)
CreateSyncFails(j) ==
  /\ pc[j] = "creating"
  /\ errors < MaxErrors
  /\ errors' = errors + 1
  /\ \E s \in {"none", "open"} : run' = [run EXCEPT ![j] = s]
  /\ Free(LockOf(j))
  /\ Goto(j, "done")
  /\ UNCHANGED <<up, uploads, imported, gone, crashes>>

-----------------------------------------------------------------------------
(* Uploads.  The endpoints are coroutines: between the look for an open    *)
(* run and the commit of the new one they give nobody else a turn.         *)

StoreUpload(j) ==
  /\ up /\ pc[j] = "none" /\ j \in Import
  /\ Owner[j] \notin gone
  /\ ThreadFree
  /\ uploads' = uploads \cup {j}
  /\ Goto(j, "uploaded")
  /\ UNCHANGED <<up, run, holder, imported, gone, errors, crashes>>

(* The open runs of imports like j: of the same kind and participant.  A   *)
(* deleted participant's runs belong to nobody.                            *)
OpenImport(j) ==
  {i \in Import : /\ Owner[i] = Owner[j] /\ Kind[i] = Kind[j]
                  /\ Owner[j] \notin gone
                  /\ run[i] = "open"}

(* Faulty variant: nobody looks for an open run.                           *)
CreateImportRunAlways(j) ==
  /\ pc[j] = "uploaded"
  /\ Owner[j] \notin gone
  /\ run' = [run EXCEPT ![j] = "open"]
  /\ Goto(j, "queued")
  /\ UNCHANGED <<up, holder, uploads, imported, gone, errors, crashes>>

CreateImportRun(j) ==
  /\ pc[j] = "uploaded"
  /\ Owner[j] \notin gone
  /\ OpenImport(j) = {}
  /\ run' = [run EXCEPT ![j] = "open"]
  /\ Goto(j, "queued")
  /\ UNCHANGED <<up, holder, uploads, imported, gone, errors, crashes>>

(* Faulty variant: the file of a rejected upload is not removed.           *)
RejectKeepingUpload(j) ==
  /\ pc[j] = "uploaded"
  /\ Owner[j] \in gone \/ OpenImport(j) # {}
  /\ Goto(j, "done")
  /\ UNCHANGED <<up, run, holder, uploads, imported, gone, errors, crashes>>

(* 409 for an open run, 500 for anything else: the file is removed.  A row *)
(* that was committed and could not be read again stays.                   *)
RejectImport(j) ==
  /\ pc[j] = "uploaded"
  /\ \/ /\ Owner[j] \in gone \/ OpenImport(j) # {}
        /\ UNCHANGED <<run, errors>>
     \/ /\ errors < MaxErrors
        /\ errors' = errors + 1
        /\ \/ UNCHANGED run
           \/ /\ Owner[j] \notin gone /\ OpenImport(j) = {}
              /\ run' = [run EXCEPT ![j] = "open"]
  /\ uploads' = uploads \ {j}
  /\ Goto(j, "done")
  /\ UNCHANGED <<up, holder, imported, gone, crashes>>

-----------------------------------------------------------------------------
(* Background tasks.                                                       *)

(* run_playnite_import leaves at once if the participant is gone.          *)
StartTask(j) ==
  /\ pc[j] = "queued"
  /\ ThreadFree
  /\ Goto(j, IF j \in Import
               THEN IF Owner[j] \in gone THEN "releasing" ELSE "import"
             ELSE IF j \in WithSteam THEN "steam_lock"
             ELSE IF j \in SteamSync THEN "steam"
             ELSE "metadata")
  /\ UNCHANGED <<up, run, holder, uploads, imported, gone, errors, crashes>>

(* enrich_steam_game_metadata(acquire_lock=True) does not wait.            *)
TakeSteamLock(j) ==
  /\ pc[j] = "steam_lock"
  /\ \/ Take("STEAM_METADATA_LOCK", j) /\ Goto(j, "steam")
     \/ /\ holder["STEAM_METADATA_LOCK"] # Nobody
        /\ Goto(j, "failing")
        /\ UNCHANGED holder
  /\ UNCHANGED <<up, run, uploads, imported, gone, errors, crashes>>

(* Faulty variant: enrich_steam_game_metadata keeps the lock.              *)
EnrichFromSteamKeepingLock(j) ==
  /\ pc[j] = "steam"
  /\ Goto(j, IF j \in SteamSync THEN "completing" ELSE "metadata")
  /\ UNCHANGED <<up, run, holder, uploads, imported, gone, errors, crashes>>

EnrichFromSteam(j) ==
  /\ pc[j] = "steam"
  /\ IF j \in SteamSync
       THEN Goto(j, "completing") /\ UNCHANGED holder
       ELSE Goto(j, "metadata") /\ Free("STEAM_METADATA_LOCK")
  /\ UNCHANGED <<up, run, uploads, imported, gone, errors, crashes>>

(* The import is committed as a whole.  Games with unknown metadata make   *)
(* it go on to the enrichment.                                             *)
CommitImport(j) ==
  /\ pc[j] = "import"
  /\ imported' = imported \cup {j}
  /\ \E s \in {"waiting", "completing"} : Goto(j, s)
  /\ UNCHANGED <<up, run, holder, uploads, gone, errors, crashes>>

(* The file cannot be read, or the transaction cannot commit.              *)
ImportFails(j) ==
  /\ pc[j] = "import"
  /\ Goto(j, "failing")
  /\ UNCHANGED <<up, run, holder, uploads, imported, gone, errors, crashes>>

(* The only wait for a lock that a thread does not give up.                *)
WaitForMetadataLock(j) ==
  /\ pc[j] = "waiting"
  /\ Take("METADATA_SYNC_LOCK", j)
  /\ Goto(j, "metadata")
  /\ UNCHANGED <<up, run, uploads, imported, gone, errors, crashes>>

(* enrich_all_game_metadata may fail: an import completes all the same.    *)
EnrichAll(j) ==
  /\ pc[j] = "metadata"
  /\ \E s \in IF j \in Import THEN {"completing"} ELSE {"completing", "failing"} :
       Goto(j, s)
  /\ UNCHANGED <<up, run, holder, uploads, imported, gone, errors, crashes>>

Complete(j) ==
  /\ pc[j] = "completing"
  /\ run' = [run EXCEPT ![j] = "ok"]
  /\ Goto(j, "releasing")
  /\ UNCHANGED <<up, holder, uploads, imported, gone, errors, crashes>>

Fail(j) ==
  /\ pc[j] = "failing"
  /\ run' = [run EXCEPT ![j] = "failed"]
  /\ Goto(j, "releasing")
  /\ UNCHANGED <<up, holder, uploads, imported, gone, errors, crashes>>

(* A database call of the task fails.  An import's last update may be      *)
(* given up without a trace; a failure while a failure is being recorded   *)
(* leaves the run open.                                                    *)
DatabaseFails(j) ==
  /\ errors < MaxErrors
  /\ errors' = errors + 1
  /\ \/ /\ pc[j] \in {"steam_lock", "steam", "waiting", "metadata", "completing"}
        /\ j \in Import => pc[j] # "metadata"
        /\ Goto(j, "failing")
     \/ /\ pc[j] = "failing" \/ (pc[j] = "completing" /\ j \in Import)
        /\ Goto(j, "releasing")
  /\ IF pc[j] = "steam" /\ j \notin SteamSync
       THEN Free("STEAM_METADATA_LOCK") ELSE UNCHANGED holder
  /\ UNCHANGED <<up, run, uploads, imported, gone, crashes>>

(* The finally block.  metadata_lock_acquired tells an import whether the  *)
(* lock is its own; a sync has had it since its request.                   *)
Release(j) ==
  /\ pc[j] = "releasing"
  /\ IF j \in Import /\ holder["METADATA_SYNC_LOCK"] # j
       THEN UNCHANGED holder ELSE Free(LockOf(j))
  /\ uploads' = uploads \ {j}
  /\ Goto(j, "done")
  /\ UNCHANGED <<up, run, imported, gone, errors, crashes>>

-----------------------------------------------------------------------------
(* The environment.                                                        *)

(* The participant's runs stay, without participant.                       *)
DeleteParticipant(p) ==
  /\ up
  /\ gone' = gone \cup {p}
  /\ UNCHANGED <<up, pc, run, holder, uploads, imported, errors, crashes>>

Crash ==
  /\ up
  /\ crashes < MaxCrashes
  /\ crashes' = crashes + 1
  /\ up' = FALSE
  /\ pc' = [j \in Job |-> IF pc[j] = "none" THEN "none" ELSE "done"]
  /\ holder' = [l \in Lock |-> Nobody]
  /\ UNCHANGED <<run, uploads, imported, gone, errors>>

(* Faulty variants: imports are forgotten; every finished run is closed    *)
(* once more.                                                              *)
StartUpForgettingImports ==
  /\ ~up
  /\ up' = TRUE
  /\ uploads' = {}
  /\ run' = [j \in Job |-> IF run[j] = "open" /\ j \notin Import THEN "failed" ELSE run[j]]
  /\ UNCHANGED <<pc, holder, imported, gone, errors, crashes>>

StartUpClosingAll ==
  /\ ~up
  /\ up' = TRUE
  /\ uploads' = {}
  /\ run' = [j \in Job |-> IF run[j] = "none" THEN "none" ELSE "failed"]
  /\ UNCHANGED <<pc, holder, imported, gone, errors, crashes>>

(* close_interrupted_syncs_on_startup, before the first request is served. *)
StartUp ==
  /\ ~up
  /\ up' = TRUE
  /\ uploads' = {}
  /\ run' = [j \in Job |-> IF run[j] = "open" THEN "failed" ELSE run[j]]
  /\ UNCHANGED <<pc, holder, imported, gone, errors, crashes>>

-----------------------------------------------------------------------------

Work(j) ==
  \/ CreateSyncRun(j) \/ CreateImportRun(j) \/ RejectImport(j)
  \/ StartTask(j) \/ TakeSteamLock(j) \/ EnrichFromSteam(j)
  \/ CommitImport(j) \/ ImportFails(j) \/ WaitForMetadataLock(j) \/ EnrichAll(j)
  \/ Complete(j) \/ Fail(j) \/ Release(j)

Next ==
  \/ \E j \in Job :
       \/ RequestSync(j) \/ StoreUpload(j)
       \/ Work(j)
       \/ CreateSyncFails(j) \/ DatabaseFails(j)
  \/ \E p \in Participant : DeleteParticipant(p)
  \/ Crash
  \/ StartUp

Spec == Init /\ [][Next]_vars

(* Requests may never come; what has begun goes on as long as the process  *)
(* runs, and the container restarts a process that has died.               *)
FairSpec == Spec /\ (\A j \in Job : WF_vars(Work(j))) /\ WF_vars(StartUp)

-----------------------------------------------------------------------------

TypeOK ==
  /\ up \in BOOLEAN
  /\ pc \in [Job -> Step]
  /\ run \in [Job -> {"none", "open", "ok", "failed"}]
  /\ holder \in [Lock -> Job \cup {Nobody}]
  /\ uploads \subseteq Import /\ imported \subseteq Import
  /\ gone \subseteq Participant
  /\ errors \in 0 .. MaxErrors /\ crashes \in 0 .. MaxCrashes

(* No two jobs enrich the catalogue at a time: each writes the metadata of *)
(* games another would write as well.                                      *)
OneEnrichment ==
  \A i, j \in Job, s \in {"metadata", "steam"} :
    pc[i] = s /\ pc[j] = s => i = j

(* No participant has two imports of one kind at work, whatever fails and  *)
(* restarts; a Playnite and a GOG Galaxy import may be at work at once.    *)
OneImportEach ==
  \A i, j \in Import :
    /\ i # j /\ Owner[i] = Owner[j] /\ Kind[i] = Kind[j] /\ Owner[i] \notin gone
    /\ pc[i] \in {"import", "waiting", "metadata", "completing", "failing"}
    => pc[j] \notin {"queued", "import", "waiting", "metadata", "completing", "failing"}

(* A run that the interface shows as going on, and that keeps a            *)
(* participant from importing again, has a task that will finish it.       *)
(* Only a failing database call can leave one behind, or the deletion of   *)
(* the participant, whose runs nobody can be kept waiting by.              *)
OpenRunsHaveTasks ==
  up => \A j \in Job :
          run[j] = "open" /\ pc[j] \in {"none", "done"} =>
            errors > 0 \/ (j \in Import /\ Owner[j] \in gone)

(* An uploaded file is gone as soon as nobody is going to read it.         *)
UploadsAreRemoved ==
  up => \A j \in uploads : pc[j] \notin {"none", "done"}

(* A lock is held by a job that is still to release it, across requests,   *)
(* tasks, failures and restarts.                                           *)
LocksHaveOwners ==
  \A l \in Lock :
    holder[l] # Nobody => pc[holder[l]] \notin {"none", "uploaded", "done"}

(* A run that reports success has its import committed.                    *)
SuccessIsImported == \A j \in Import : run[j] = "ok" => j \in imported

(* What a run has reported it does not take back.                          *)
OutcomesStay ==
  [][\A j \in Job : run[j] \in {"ok", "failed"} => run'[j] = run[j]]_vars

(* A run that was opened is finished, by its task or by the next start,    *)
(* with the exceptions that OpenRunsHaveTasks names.                       *)
RunsFinish ==
  \A j \in Job :
    run[j] = "open" ~> \/ run[j] # "open"
                       \/ errors > 0 \/ (j \in Import /\ Owner[j] \in gone)

(* Whatever fails, no job keeps a lock for ever.                           *)
LocksComeFree ==
  \A l \in Lock : holder[l] # Nobody ~> holder[l] = Nobody

=============================================================================
