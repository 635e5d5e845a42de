----------------------- MODULE BackgroundJobsProofs -----------------------
(***************************************************************************)
(* Proofs about BackgroundJobs for any number of jobs, participants,       *)
(* threads, failing database calls and crashes.                            *)
(*                                                                         *)
(* None of the properties is inductive: who holds a lock follows from the  *)
(* step every job is at, what a run row says from the step of its task,    *)
(* and that a participant has one import of a kind at work from its rows.  *)
(* JobsInv says how locks, rows, commits and files go with the steps.      *)
(***************************************************************************)
EXTENDS BackgroundJobs, TLAPS

(* Steps of a sync between its request and the end of its task.            *)
SyncSteps ==
  {"creating", "queued", "steam_lock", "steam", "metadata", "completing",
   "failing", "releasing"}

(* Steps of an import that has been accepted and not yet reported.         *)
ImportSteps ==
  {"queued", "import", "waiting", "metadata", "completing", "failing"}

(* Which steps belong to which kind of job.                                *)
KindOK(j) ==
  /\ j \in Import => pc[j] \in Threadless \cup ImportSteps \cup {"releasing"}
  /\ j \notin Import => pc[j] \in SyncSteps \cup {"none", "done"}
  /\ j \in SteamSync => pc[j] \notin {"steam_lock", "metadata"}

KindInv == \A j \in Job : KindOK(j)

(* Who must hold a lock, and who may.                                      *)
LockOK(j) ==
  /\ j \notin Import /\ pc[j] \in SyncSteps => holder[LockOf(j)] = j
  /\ j \in MetadataSync /\ pc[j] = "steam" => holder["STEAM_METADATA_LOCK"] = j
  /\ j \in Import /\ pc[j] = "metadata" => holder["METADATA_SYNC_LOCK"] = j
  /\ holder["METADATA_SYNC_LOCK"] = j =>
       \/ j \in Import /\ pc[j] \in {"metadata", "completing", "failing", "releasing"}
       \/ j \in MetadataSync /\ pc[j] \in SyncSteps
  /\ holder["STEAM_METADATA_LOCK"] = j =>
       \/ j \in SteamSync /\ pc[j] \in SyncSteps
       \/ j \in MetadataSync /\ pc[j] = "steam"

LockInv == \A j \in Job : LockOK(j)

(* A process that is down has no jobs.                                     *)
DownInv == up \/ \A j \in Job : pc[j] \in {"none", "done"}

(* What the row says while its job is at a step.                           *)
RunOK(j) ==
  /\ pc[j] \in {"none", "creating", "uploaded"} => run[j] = "none"
  /\ pc[j] \in (ImportSteps \cup SyncSteps) \ {"creating", "releasing"} =>
       run[j] = "open"
  /\ up /\ pc[j] \in {"releasing", "done"} =>
       run[j] # "open" \/ errors > 0 \/ (j \in Import /\ Owner[j] \in gone)

RunInv == \A j \in Job : RunOK(j)

(* Past its commit, and in its report, an import is committed.             *)
ImportedOK(j) ==
  /\ pc[j] \in {"waiting", "metadata", "completing"} => j \in imported
  /\ run[j] = "ok" => j \in imported

ImportedInv == \A j \in Import : ImportedOK(j)

(* A participant that is still there has one import of a kind at these     *)
(* steps.                                                                  *)
SingleInv ==
  \A i, j \in Import :
    /\ i # j /\ Owner[i] = Owner[j] /\ Kind[i] = Kind[j] /\ Owner[i] \notin gone
    /\ pc[i] \in ImportSteps
    => pc[j] \notin ImportSteps

JobsInv ==
  /\ TypeOK /\ KindInv /\ LockInv /\ RunInv /\ ImportedInv /\ SingleInv
  /\ UploadsAreRemoved /\ DownInv

-----------------------------------------------------------------------------

(* Every action of a job changes the step of one job, and with it possibly    *)
(* its row, one lock and one file.                                         *)

(* A request that gets its lock.                                           *)
LEMMA RequestSyncKeeps ==
  ASSUME JobsInv, NEW j \in Job, RequestSync(j)
  PROVE  JobsInv'
<1> USE JobsAssumption DEF Job, Lock, Threadless, SyncSteps, ImportSteps
<1>1. TypeOK'
  BY DEF JobsInv, KindInv, KindOK, TypeOK, Step, RequestSync, Goto, Take, LockOf
<1>2. KindInv' /\ LockInv' /\ DownInv'
  BY DEF JobsInv, TypeOK, KindInv, KindOK, LockInv, LockOK, DownInv, RequestSync, Goto, Take, LockOf
<1>3. RunInv' /\ ImportedInv' /\ SingleInv'
  BY DEF JobsInv, TypeOK, KindInv, KindOK, RunInv, RunOK, ImportedInv,
         ImportedOK, SingleInv, RequestSync, Goto, Take, LockOf
<1>4. UploadsAreRemoved'
  BY DEF JobsInv, TypeOK, KindInv, KindOK, UploadsAreRemoved, RequestSync, Goto, Take, LockOf
<1> QED BY <1>1, <1>2, <1>3, <1>4 DEF JobsInv

LEMMA CreateSyncRunKeeps ==
  ASSUME JobsInv, NEW j \in Job, CreateSyncRun(j)
  PROVE  JobsInv'
<1> USE JobsAssumption DEF Job, Lock, Threadless, SyncSteps, ImportSteps
<1>1. TypeOK'
  BY DEF JobsInv, KindInv, KindOK, TypeOK, Step, CreateSyncRun, Goto
<1>2. KindInv' /\ LockInv' /\ DownInv'
  BY DEF JobsInv, TypeOK, KindInv, KindOK, LockInv, LockOK, DownInv, CreateSyncRun, Goto, LockOf
<1>3. RunInv' /\ ImportedInv' /\ SingleInv'
  BY DEF JobsInv, TypeOK, KindInv, KindOK, RunInv, RunOK, ImportedInv,
         ImportedOK, SingleInv, CreateSyncRun, Goto
<1>4. UploadsAreRemoved'
  BY DEF JobsInv, TypeOK, KindInv, KindOK, UploadsAreRemoved, CreateSyncRun, Goto
<1> QED BY <1>1, <1>2, <1>3, <1>4 DEF JobsInv

LEMMA CreateSyncFailsKeeps ==
  ASSUME JobsInv, NEW j \in Job, CreateSyncFails(j)
  PROVE  JobsInv'
<1> USE JobsAssumption DEF Job, Lock, Threadless, SyncSteps, ImportSteps
<1>1. TypeOK'
  BY DEF JobsInv, KindInv, KindOK, TypeOK, Step, CreateSyncFails, Goto, Free, LockOf
<1>2. KindInv' /\ LockInv' /\ DownInv'
  BY DEF JobsInv, TypeOK, KindInv, KindOK, LockInv, LockOK, DownInv, CreateSyncFails, Goto, Free, LockOf
<1>3. RunInv' /\ ImportedInv' /\ SingleInv'
  BY DEF JobsInv, TypeOK, KindInv, KindOK, RunInv, RunOK, ImportedInv,
         ImportedOK, SingleInv, CreateSyncFails, Goto, Free, LockOf
<1>4. UploadsAreRemoved'
  BY DEF JobsInv, TypeOK, KindInv, KindOK, UploadsAreRemoved, CreateSyncFails, Goto, Free, LockOf
<1> QED BY <1>1, <1>2, <1>3, <1>4 DEF JobsInv

LEMMA StoreUploadKeeps ==
  ASSUME JobsInv, NEW j \in Job, StoreUpload(j)
  PROVE  JobsInv'
<1> USE JobsAssumption DEF Job, Lock, Threadless, SyncSteps, ImportSteps
<1>1. TypeOK'
  BY DEF JobsInv, KindInv, KindOK, TypeOK, Step, StoreUpload, Goto
<1>2. KindInv' /\ LockInv' /\ DownInv'
  BY DEF JobsInv, TypeOK, KindInv, KindOK, LockInv, LockOK, DownInv, StoreUpload, Goto, LockOf
<1>3. RunInv' /\ ImportedInv' /\ SingleInv'
  BY DEF JobsInv, TypeOK, KindInv, KindOK, RunInv, RunOK, ImportedInv,
         ImportedOK, SingleInv, StoreUpload, Goto
<1>4. UploadsAreRemoved'
  BY DEF JobsInv, TypeOK, KindInv, KindOK, UploadsAreRemoved, StoreUpload, Goto
<1> QED BY <1>1, <1>2, <1>3, <1>4 DEF JobsInv

(* The only step that puts an import to work: no open row, no import at work. *)
LEMMA CreateImportRunKeeps ==
  ASSUME JobsInv, NEW j \in Job, CreateImportRun(j)
  PROVE  JobsInv'
<1> USE JobsAssumption DEF Job, Lock, Threadless, SyncSteps, ImportSteps
<1>1. TypeOK'
  BY DEF JobsInv, KindInv, KindOK, TypeOK, Step, CreateImportRun, Goto, OpenImport
<1>2. KindInv' /\ LockInv' /\ DownInv'
  BY DEF JobsInv, TypeOK, KindInv, KindOK, LockInv, LockOK, DownInv, CreateImportRun, Goto, OpenImport, LockOf
<1>3. RunInv' /\ ImportedInv' /\ SingleInv'
  BY DEF JobsInv, TypeOK, KindInv, KindOK, RunInv, RunOK, ImportedInv,
         ImportedOK, SingleInv, CreateImportRun, Goto, OpenImport
<1>4. UploadsAreRemoved'
  BY DEF JobsInv, TypeOK, KindInv, KindOK, UploadsAreRemoved, CreateImportRun, Goto, OpenImport
<1> QED BY <1>1, <1>2, <1>3, <1>4 DEF JobsInv

LEMMA RejectImportKeeps ==
  ASSUME JobsInv, NEW j \in Job, RejectImport(j)
  PROVE  JobsInv'
<1> USE JobsAssumption DEF Job, Lock, Threadless, SyncSteps, ImportSteps
<1>1. TypeOK'
  BY DEF JobsInv, KindInv, KindOK, TypeOK, Step, RejectImport, Goto, OpenImport
<1>2. KindInv' /\ LockInv' /\ DownInv'
  BY DEF JobsInv, TypeOK, KindInv, KindOK, LockInv, LockOK, DownInv, RejectImport, Goto, OpenImport, LockOf
<1>3. RunInv' /\ ImportedInv' /\ SingleInv'
  BY DEF JobsInv, TypeOK, KindInv, KindOK, RunInv, RunOK, ImportedInv,
         ImportedOK, SingleInv, RejectImport, Goto, OpenImport
<1>4. UploadsAreRemoved'
  BY DEF JobsInv, TypeOK, KindInv, KindOK, UploadsAreRemoved, RejectImport, Goto, OpenImport
<1> QED BY <1>1, <1>2, <1>3, <1>4 DEF JobsInv

LEMMA StartTaskKeeps ==
  ASSUME JobsInv, NEW j \in Job, StartTask(j)
  PROVE  JobsInv'
<1> USE JobsAssumption DEF Job, Lock, Threadless, SyncSteps, ImportSteps
<1>1. TypeOK'
  BY DEF JobsInv, KindInv, KindOK, TypeOK, Step, StartTask, Goto
<1>2. KindInv' /\ LockInv' /\ DownInv'
  BY DEF JobsInv, TypeOK, KindInv, KindOK, LockInv, LockOK, DownInv, StartTask, Goto, LockOf
<1>3. RunInv' /\ ImportedInv' /\ SingleInv'
  BY DEF JobsInv, TypeOK, KindInv, KindOK, RunInv, RunOK, ImportedInv,
         ImportedOK, SingleInv, StartTask, Goto
<1>4. UploadsAreRemoved'
  BY DEF JobsInv, TypeOK, KindInv, KindOK, UploadsAreRemoved, StartTask, Goto
<1> QED BY <1>1, <1>2, <1>3, <1>4 DEF JobsInv

LEMMA TakeSteamLockKeeps ==
  ASSUME JobsInv, NEW j \in Job, TakeSteamLock(j)
  PROVE  JobsInv'
<1> USE JobsAssumption DEF Job, Lock, Threadless, SyncSteps, ImportSteps
<1>1. TypeOK'
  BY DEF JobsInv, KindInv, KindOK, TypeOK, Step, TakeSteamLock, Goto, Take
<1>2. KindInv' /\ LockInv' /\ DownInv'
  BY DEF JobsInv, TypeOK, KindInv, KindOK, LockInv, LockOK, DownInv, TakeSteamLock, Goto, Take, LockOf
<1>3. RunInv' /\ ImportedInv' /\ SingleInv'
  BY DEF JobsInv, TypeOK, KindInv, KindOK, RunInv, RunOK, ImportedInv,
         ImportedOK, SingleInv, TakeSteamLock, Goto, Take
<1>4. UploadsAreRemoved'
  BY DEF JobsInv, TypeOK, KindInv, KindOK, UploadsAreRemoved, TakeSteamLock, Goto, Take
<1> QED BY <1>1, <1>2, <1>3, <1>4 DEF JobsInv

LEMMA EnrichFromSteamKeeps ==
  ASSUME JobsInv, NEW j \in Job, EnrichFromSteam(j)
  PROVE  JobsInv'
<1> USE JobsAssumption DEF Job, Lock, Threadless, SyncSteps, ImportSteps
<1>1. TypeOK'
  BY DEF JobsInv, KindInv, KindOK, TypeOK, Step, EnrichFromSteam, Goto, Free
<1>2. KindInv' /\ LockInv' /\ DownInv'
  BY DEF JobsInv, TypeOK, KindInv, KindOK, LockInv, LockOK, DownInv, EnrichFromSteam, Goto, Free, LockOf
<1>3. RunInv' /\ ImportedInv' /\ SingleInv'
  BY DEF JobsInv, TypeOK, KindInv, KindOK, RunInv, RunOK, ImportedInv,
         ImportedOK, SingleInv, EnrichFromSteam, Goto, Free
<1>4. UploadsAreRemoved'
  BY DEF JobsInv, TypeOK, KindInv, KindOK, UploadsAreRemoved, EnrichFromSteam, Goto, Free
<1> QED BY <1>1, <1>2, <1>3, <1>4 DEF JobsInv

LEMMA CommitImportKeeps ==
  ASSUME JobsInv, NEW j \in Job, CommitImport(j)
  PROVE  JobsInv'
<1> USE JobsAssumption DEF Job, Lock, Threadless, SyncSteps, ImportSteps
<1>1. TypeOK'
  BY DEF JobsInv, KindInv, KindOK, TypeOK, Step, CommitImport, Goto
<1>2. KindInv' /\ LockInv' /\ DownInv'
  BY DEF JobsInv, TypeOK, KindInv, KindOK, LockInv, LockOK, DownInv, CommitImport, Goto, LockOf
<1>3. RunInv' /\ ImportedInv' /\ SingleInv'
  BY DEF JobsInv, TypeOK, KindInv, KindOK, RunInv, RunOK, ImportedInv,
         ImportedOK, SingleInv, CommitImport, Goto
<1>4. UploadsAreRemoved'
  BY DEF JobsInv, TypeOK, KindInv, KindOK, UploadsAreRemoved, CommitImport, Goto
<1> QED BY <1>1, <1>2, <1>3, <1>4 DEF JobsInv

LEMMA ImportFailsKeeps ==
  ASSUME JobsInv, NEW j \in Job, ImportFails(j)
  PROVE  JobsInv'
<1> USE JobsAssumption DEF Job, Lock, Threadless, SyncSteps, ImportSteps
<1>1. TypeOK'
  BY DEF JobsInv, KindInv, KindOK, TypeOK, Step, ImportFails, Goto
<1>2. KindInv' /\ LockInv' /\ DownInv'
  BY DEF JobsInv, TypeOK, KindInv, KindOK, LockInv, LockOK, DownInv, ImportFails, Goto, LockOf
<1>3. RunInv' /\ ImportedInv' /\ SingleInv'
  BY DEF JobsInv, TypeOK, KindInv, KindOK, RunInv, RunOK, ImportedInv,
         ImportedOK, SingleInv, ImportFails, Goto
<1>4. UploadsAreRemoved'
  BY DEF JobsInv, TypeOK, KindInv, KindOK, UploadsAreRemoved, ImportFails, Goto
<1> QED BY <1>1, <1>2, <1>3, <1>4 DEF JobsInv

LEMMA WaitForMetadataLockKeeps ==
  ASSUME JobsInv, NEW j \in Job, WaitForMetadataLock(j)
  PROVE  JobsInv'
<1> USE JobsAssumption DEF Job, Lock, Threadless, SyncSteps, ImportSteps
<1>1. TypeOK'
  BY DEF JobsInv, KindInv, KindOK, TypeOK, Step, WaitForMetadataLock, Goto, Take
<1>2. KindInv' /\ LockInv' /\ DownInv'
  BY DEF JobsInv, TypeOK, KindInv, KindOK, LockInv, LockOK, DownInv, WaitForMetadataLock, Goto, Take, LockOf
<1>3. RunInv' /\ ImportedInv' /\ SingleInv'
  BY DEF JobsInv, TypeOK, KindInv, KindOK, RunInv, RunOK, ImportedInv,
         ImportedOK, SingleInv, WaitForMetadataLock, Goto, Take
<1>4. UploadsAreRemoved'
  BY DEF JobsInv, TypeOK, KindInv, KindOK, UploadsAreRemoved, WaitForMetadataLock, Goto, Take
<1> QED BY <1>1, <1>2, <1>3, <1>4 DEF JobsInv

LEMMA EnrichAllKeeps ==
  ASSUME JobsInv, NEW j \in Job, EnrichAll(j)
  PROVE  JobsInv'
<1> USE JobsAssumption DEF Job, Lock, Threadless, SyncSteps, ImportSteps
<1>1. TypeOK'
  BY DEF JobsInv, KindInv, KindOK, TypeOK, Step, EnrichAll, Goto
<1>2. KindInv' /\ LockInv' /\ DownInv'
  BY DEF JobsInv, TypeOK, KindInv, KindOK, LockInv, LockOK, DownInv, EnrichAll, Goto, LockOf
<1>3. RunInv' /\ ImportedInv' /\ SingleInv'
  BY DEF JobsInv, TypeOK, KindInv, KindOK, RunInv, RunOK, ImportedInv,
         ImportedOK, SingleInv, EnrichAll, Goto
<1>4. UploadsAreRemoved'
  BY DEF JobsInv, TypeOK, KindInv, KindOK, UploadsAreRemoved, EnrichAll, Goto
<1> QED BY <1>1, <1>2, <1>3, <1>4 DEF JobsInv

LEMMA CompleteKeeps ==
  ASSUME JobsInv, NEW j \in Job, Complete(j)
  PROVE  JobsInv'
<1> USE JobsAssumption DEF Job, Lock, Threadless, SyncSteps, ImportSteps
<1>1. TypeOK'
  BY DEF JobsInv, KindInv, KindOK, TypeOK, Step, Complete, Goto
<1>2. KindInv' /\ LockInv' /\ DownInv'
  BY DEF JobsInv, TypeOK, KindInv, KindOK, LockInv, LockOK, DownInv, Complete, Goto, LockOf
<1>3. RunInv' /\ ImportedInv' /\ SingleInv'
  BY DEF JobsInv, TypeOK, KindInv, KindOK, RunInv, RunOK, ImportedInv,
         ImportedOK, SingleInv, Complete, Goto
<1>4. UploadsAreRemoved'
  BY DEF JobsInv, TypeOK, KindInv, KindOK, UploadsAreRemoved, Complete, Goto
<1> QED BY <1>1, <1>2, <1>3, <1>4 DEF JobsInv

LEMMA FailKeeps ==
  ASSUME JobsInv, NEW j \in Job, Fail(j)
  PROVE  JobsInv'
<1> USE JobsAssumption DEF Job, Lock, Threadless, SyncSteps, ImportSteps
<1>1. TypeOK'
  BY DEF JobsInv, KindInv, KindOK, TypeOK, Step, Fail, Goto
<1>2. KindInv' /\ LockInv' /\ DownInv'
  BY DEF JobsInv, TypeOK, KindInv, KindOK, LockInv, LockOK, DownInv, Fail, Goto, LockOf
<1>3. RunInv' /\ ImportedInv' /\ SingleInv'
  BY DEF JobsInv, TypeOK, KindInv, KindOK, RunInv, RunOK, ImportedInv,
         ImportedOK, SingleInv, Fail, Goto
<1>4. UploadsAreRemoved'
  BY DEF JobsInv, TypeOK, KindInv, KindOK, UploadsAreRemoved, Fail, Goto
<1> QED BY <1>1, <1>2, <1>3, <1>4 DEF JobsInv

LEMMA DatabaseFailsKeeps ==
  ASSUME JobsInv, NEW j \in Job, DatabaseFails(j)
  PROVE  JobsInv'
<1> USE JobsAssumption DEF Job, Lock, Threadless, SyncSteps, ImportSteps
<1>1. TypeOK'
  BY DEF JobsInv, KindInv, KindOK, TypeOK, Step, DatabaseFails, Goto, Free
<1>2. KindInv' /\ LockInv' /\ DownInv'
  BY DEF JobsInv, TypeOK, KindInv, KindOK, LockInv, LockOK, DownInv, DatabaseFails, Goto, Free, LockOf
<1>3. RunInv' /\ ImportedInv' /\ SingleInv'
  BY DEF JobsInv, TypeOK, KindInv, KindOK, RunInv, RunOK, ImportedInv,
         ImportedOK, SingleInv, DatabaseFails, Goto, Free
<1>4. UploadsAreRemoved'
  BY DEF JobsInv, TypeOK, KindInv, KindOK, UploadsAreRemoved, DatabaseFails, Goto, Free
<1> QED BY <1>1, <1>2, <1>3, <1>4 DEF JobsInv

LEMMA ReleaseKeeps ==
  ASSUME JobsInv, NEW j \in Job, Release(j)
  PROVE  JobsInv'
<1> USE JobsAssumption DEF Job, Lock, Threadless, SyncSteps, ImportSteps
<1>1. TypeOK'
  BY DEF JobsInv, KindInv, KindOK, TypeOK, Step, Release, Goto, Free, LockOf
<1>2. KindInv' /\ LockInv' /\ DownInv'
  BY DEF JobsInv, TypeOK, KindInv, KindOK, LockInv, LockOK, DownInv, Release, Goto, Free, LockOf
<1>3. RunInv' /\ ImportedInv' /\ SingleInv'
  BY DEF JobsInv, TypeOK, KindInv, KindOK, RunInv, RunOK, ImportedInv,
         ImportedOK, SingleInv, Release, Goto, Free, LockOf
<1>4. UploadsAreRemoved'
  BY DEF JobsInv, TypeOK, KindInv, KindOK, UploadsAreRemoved, Release, Goto, Free, LockOf
<1> QED BY <1>1, <1>2, <1>3, <1>4 DEF JobsInv

-----------------------------------------------------------------------------
(* The environment.                                                        *)

LEMMA DeleteParticipantKeeps ==
  ASSUME JobsInv, NEW p \in Participant, DeleteParticipant(p)
  PROVE  JobsInv'
BY DEF JobsInv, TypeOK, KindInv, KindOK, LockInv, LockOK, RunInv, RunOK,
       ImportedInv, ImportedOK, SingleInv, UploadsAreRemoved, DownInv,
       DeleteParticipant

(* A crash leaves rows and files as they are, and nobody to finish them:   *)
(* what JobsInv says of them holds again from the next start.              *)
LEMMA CrashKeeps ==
  ASSUME JobsInv, Crash
  PROVE  JobsInv'
<1> USE JobsAssumption DEF Job, Lock, Threadless, SyncSteps, ImportSteps
<1>1. TypeOK'
  <2>1. pc' \in [Job -> Step] /\ holder' \in [Lock -> Job \cup {Nobody}]
    BY DEF Step, Crash
  <2>2. crashes' \in 0 .. MaxCrashes
    BY DEF JobsInv, TypeOK, Crash
  <2> QED BY <2>1, <2>2 DEF JobsInv, TypeOK, Crash
<1>2. KindInv' /\ LockInv' /\ DownInv'
  BY DEF JobsInv, TypeOK, KindInv, KindOK, LockInv, LockOK, DownInv,
         Crash, LockOf
<1>3. RunInv' /\ ImportedInv' /\ SingleInv' /\ UploadsAreRemoved'
  BY DEF JobsInv, TypeOK, RunInv, RunOK, ImportedInv, ImportedOK, SingleInv,
         UploadsAreRemoved, Crash
<1> QED BY <1>1, <1>2, <1>3 DEF JobsInv

(* Nothing runs before the start, so no row is closed under its task.      *)
LEMMA StartUpKeeps ==
  ASSUME JobsInv, StartUp
  PROVE  JobsInv'
<1> USE JobsAssumption DEF Job, Lock, Threadless, SyncSteps, ImportSteps
<1>1. TypeOK'
  BY DEF JobsInv, TypeOK, StartUp
<1>2. KindInv' /\ LockInv' /\ DownInv'
  BY DEF JobsInv, KindInv, KindOK, LockInv, LockOK, DownInv, StartUp
<1>3. RunInv' /\ ImportedInv' /\ SingleInv' /\ UploadsAreRemoved'
  BY DEF JobsInv, DownInv, TypeOK, RunInv, RunOK, ImportedInv, ImportedOK,
         SingleInv, UploadsAreRemoved, StartUp
<1> QED BY <1>1, <1>2, <1>3 DEF JobsInv

-----------------------------------------------------------------------------

LEMMA InitJobs == Init => JobsInv
BY JobsAssumption
DEF Init, JobsInv, TypeOK, Step, Threadless, KindInv, KindOK, LockInv, LockOK,
    DownInv, RunInv, RunOK, ImportedInv, ImportedOK, SingleInv,
    UploadsAreRemoved, SyncSteps, ImportSteps, Job, Lock

LEMMA NextJobs == JobsInv /\ [Next]_vars => JobsInv'
<1> SUFFICES ASSUME JobsInv, [Next]_vars
             PROVE  JobsInv'
  OBVIOUS
<1>1. ASSUME NEW j \in Job, Work(j)
      PROVE  JobsInv'
  BY <1>1, CreateSyncRunKeeps, CreateImportRunKeeps, RejectImportKeeps,
     StartTaskKeeps, TakeSteamLockKeeps, EnrichFromSteamKeeps, CommitImportKeeps,
     ImportFailsKeeps, WaitForMetadataLockKeeps, EnrichAllKeeps, CompleteKeeps,
     FailKeeps, ReleaseKeeps
  DEF Work
<1>2. ASSUME NEW j \in Job,
             RequestSync(j) \/ StoreUpload(j) \/ CreateSyncFails(j) \/ DatabaseFails(j)
      PROVE  JobsInv'
  BY <1>2, RequestSyncKeeps, StoreUploadKeeps, CreateSyncFailsKeeps, DatabaseFailsKeeps
<1>3. ASSUME NEW p \in Participant, DeleteParticipant(p)
      PROVE  JobsInv'
  BY <1>3, DeleteParticipantKeeps
<1>4. CASE UNCHANGED vars
  BY <1>4 DEF vars, JobsInv, TypeOK, KindInv, KindOK, LockInv, LockOK, DownInv,
     RunInv, RunOK, ImportedInv, ImportedOK, SingleInv, UploadsAreRemoved
<1> QED BY <1>1, <1>2, <1>3, <1>4, CrashKeeps, StartUpKeeps DEF Next

(* JobsInv holds in every state, whatever jobs come, fail and restart.     *)
THEOREM JobsInvariant == Spec => []JobsInv
BY InitJobs, NextJobs, PTL DEF Spec

-----------------------------------------------------------------------------

(* Every variable keeps its type, for any set of jobs.                     *)
THEOREM TypeCorrect == Spec => []TypeOK
<1>1. JobsInv => TypeOK
  BY DEF JobsInv
<1> QED BY <1>1, JobsInvariant, PTL

(* Two jobs never enrich the catalogue at a time: the step of a job tells  *)
(* which lock it holds, and a lock has one holder.                         *)
THEOREM EnrichmentIsExclusive == Spec => []OneEnrichment
<1>1. ASSUME JobsInv, NEW i \in Job, NEW j \in Job
      PROVE  /\ pc[i] = "metadata" /\ pc[j] = "metadata" => i = j
             /\ pc[i] = "steam" /\ pc[j] = "steam" => i = j
  <2> USE <1>1, JobsAssumption
      DEF JobsInv, KindInv, KindOK, LockInv, LockOK, LockOf, Job, SyncSteps
  <2>1. pc[i] = "metadata" /\ pc[j] = "metadata" => i = j
    <3>1. \A h \in Job : pc[h] = "metadata" => holder["METADATA_SYNC_LOCK"] = h
      OBVIOUS
    <3> QED BY ONLY <3>1
  <2>2. pc[i] = "steam" /\ pc[j] = "steam" => i = j
    <3>1. \A h \in Job : pc[h] = "steam" => holder["STEAM_METADATA_LOCK"] = h
      BY DEF Threadless, ImportSteps
    <3> QED BY ONLY <3>1
  <2> QED BY <2>1, <2>2
<1>2. JobsInv => OneEnrichment
  BY <1>1 DEF OneEnrichment
<1> QED BY <1>2, JobsInvariant, PTL

(* A participant never has two imports of one kind at work.                *)
THEOREM ImportIsExclusive == Spec => []OneImportEach
<1>1. JobsInv => OneImportEach
  BY DEF JobsInv, SingleInv, OneImportEach, ImportSteps
<1> QED BY <1>1, JobsInvariant, PTL

(* An open row has a task, however many jobs run, fail and restart.        *)
THEOREM OpenRunsAreWorkedOn == Spec => []OpenRunsHaveTasks
<1>1. JobsInv => OpenRunsHaveTasks
  BY DEF JobsInv, RunInv, RunOK, OpenRunsHaveTasks
<1> QED BY <1>1, JobsInvariant, PTL

(* An uploaded file does not outlive the job that was to read it.          *)
THEOREM UploadsEnd == Spec => []UploadsAreRemoved
<1>1. JobsInv => UploadsAreRemoved
  BY DEF JobsInv
<1> QED BY <1>1, JobsInvariant, PTL

(* Every lock is held by a job that is still to release it.                *)
THEOREM HoldersAreAtWork == Spec => []LocksHaveOwners
<1>1. JobsInv => LocksHaveOwners
  BY JobsAssumption
  DEF JobsInv, TypeOK, LockInv, LockOK, LocksHaveOwners, Lock, Job, SyncSteps
<1> QED BY <1>1, JobsInvariant, PTL

(* A run that reports success has its import committed.                    *)
THEOREM SuccessfulRunsAreImported == Spec => []SuccessIsImported
<1>1. JobsInv => SuccessIsImported
  BY DEF JobsInv, ImportedInv, ImportedOK, SuccessIsImported
<1> QED BY <1>1, JobsInvariant, PTL

(* What a run has reported it does not take back: a row is written only    *)
(* where RunOK says that it is not closed, and a start closes open rows.   *)
LEMMA ReportsStay ==
  ASSUME JobsInv, [Next]_vars, NEW i \in Job, run[i] \in {"ok", "failed"}
  PROVE  run'[i] = run[i]
<1>1. ASSUME NEW j \in Job, Work(j) \/ CreateSyncFails(j)
      PROVE  run'[i] = run[i]
  <2>1. CASE CreateSyncRun(j) \/ CreateSyncFails(j) \/ CreateImportRun(j) \/ RejectImport(j)
    BY <2>1 DEF JobsInv, TypeOK, RunInv, RunOK, CreateSyncRun, CreateSyncFails,
       CreateImportRun, RejectImport
  <2>2. CASE Complete(j) \/ Fail(j)
    BY <2>2 DEF JobsInv, TypeOK, RunInv, RunOK, Complete, Fail, ImportSteps, SyncSteps
  <2>3. CASE \/ StartTask(j) \/ TakeSteamLock(j) \/ EnrichFromSteam(j)
             \/ CommitImport(j) \/ ImportFails(j) \/ WaitForMetadataLock(j)
             \/ EnrichAll(j) \/ Release(j)
    BY <2>3 DEF StartTask, TakeSteamLock, EnrichFromSteam, CommitImport,
       ImportFails, WaitForMetadataLock, EnrichAll, Release
  <2> QED BY <1>1, <2>1, <2>2, <2>3 DEF Work
<1>2. ASSUME NEW j \in Job, RequestSync(j) \/ StoreUpload(j) \/ DatabaseFails(j)
      PROVE  run'[i] = run[i]
  BY <1>2 DEF RequestSync, StoreUpload, DatabaseFails
<1>3. ASSUME (\E p \in Participant : DeleteParticipant(p)) \/ Crash \/ UNCHANGED vars
      PROVE  run'[i] = run[i]
  BY <1>3 DEF DeleteParticipant, Crash, vars
<1>4. CASE StartUp
  BY <1>4 DEF StartUp, JobsInv, TypeOK
<1> QED BY <1>1, <1>2, <1>3, <1>4 DEF Next

(* No step of any job, and no start, changes the row of a closed run.      *)
THEOREM ReportsAreFinal == Spec => OutcomesStay
<1>1. JobsInv /\ [Next]_vars =>
        [\A j \in Job : run[j] \in {"ok", "failed"} => run'[j] = run[j]]_vars
  BY ReportsStay
<1> QED BY <1>1, JobsInvariant, PTL DEF Spec, OutcomesStay

=============================================================================
