# A specification of the LAN party game finder

The program keeps the game libraries of the people who meet for a LAN party and
answers which games they can play together.  This directory specifies its
backend in TLA+: what its threads, transactions, locks, caches and background
tasks may do to each other, what becomes of providers' answers and of logins,
and what is recommended.  TLC checks the specifications on small instances,
TLAPS proves the most important properties for every instance.

Paths without prefix are below `src/backend/app/`.

## 1. The system

| Component | State | Operations |
|---|---|---|
| Recommendation cache (`services/recommendation_cache.py`, `api/recommendations.py`) | per process: entries with expiry, recency order, revision, last shared revision seen; in the database: the shared revision; in browsers: ETags | cached GETs, session hooks on flush/commit/rollback, invalidation |
| Ownership reconciliation (`services/sync_service.py`, `api/ownerships.py`, `api/accounts.py`) | ownership rows, manual confirmations, accounts, `SYNC_LOCK` | account sync, file import, confirm, withdraw, connect, delete account, raw create/delete |
| Background jobs (`services/metadata_service.py`, `services/steam_metadata_service.py`, `services/playnite_import.py`, `services/gog_galaxy_import.py`, `api/imports.py`, `api/sync.py`, `main.py`) | `SyncRun` rows, `METADATA_SYNC_LOCK`, `STEAM_METADATA_LOCK`, uploaded files, the thread pool | request, background task, failure, crash, startup |
| Game matching (`resolve_game` in `services/sync_service.py`) | games, mapping table with unique key | resolve a provider's game, create, remap |
| Steam QR login (`api/provider_auth.py`, `services/steam_client_auth.py`, `src/steam-helper/server.js`) | helper's login sessions with expiry, backend's pending states, browser's polling | start, poll, confirm, read library, deliver once, expire |
| Provider credentials (`services/provider_auth.py`, `services/xbox_auth.py`, `services/import_providers.py`, `services/credential_storage.py`) | one credential file per account | login, refresh during a sync, logout, account deletion |
| Recommendation engine (`services/recommendations.py`) | none of its own; reads accounts and ownerships | lists, filters, shares and orders over games, owners and participants |
| Import providers (`services/import_providers.py`, reconciliation in `services/sync_service.py`) | none of their own | ten libraries, read in one answer or in parts: a list of games, complete or not |
| Library file readers (`services/playnite_import.py`, `services/gog_galaxy_import.py`, `services/archive_safety.py`) | none | parse LiteDB, SQLite, ZIP |
| Catalogue enrichment (`services/metadata_service.py`, `services/steam_metadata_service.py`) | game rows, per-field source | IGDB, RAWG and Steam values merged by precedence |
| Usage analytics (`services/analytics_service.py`) | event rows with retention | record, aggregate, purge |
| Frontend (`src/frontend`) | responses and ETags | calls the API, keeps asking for runs and logins |

How they meet.  Every handler is a thread of one pool (40 threads) with one
database session (pool of 10 connections and 20 overflow, READ COMMITTED).  A
session that flushed a relevant change makes the *cache* invalidate itself after
the commit, in the thread that committed.  A *sync* runs in its request under
`SYNC_LOCK`; *imports* and *metadata syncs* run after the answer, as background
tasks on the same pool, and share `METADATA_SYNC_LOCK`; a metadata sync that
includes Steam also needs `STEAM_METADATA_LOCK`.  Imports, syncs, confirmations
and account deletions write the same *ownership rows* without a common lock.
Participants may be deleted while any of this runs.  All of it may die with the
process; `main.py` cleans up at the next start.

What is hard about it:

* the cache computes outside its lock and checks afterwards whether what it
  computed is still current; three clocks (process revision, shared revision,
  expiry) and the browser's ETag must agree on what "current" is;
* ownership transactions decide by what they have read and write what they have
  decided at the end; the database protects keys and references, not decisions;
* a lock is taken by one thread in the request and released by another in the
  task, and a waiting import occupies a thread that the releasing task may need;
* rows outlive the process and tasks do not.

What makes each component correct:

* cache: no answer is older than what was known when the request began; stale
  entries end; a 304 is no confirmation of an old list;
* ownership: a confirmed game is owned; a row without account is confirmed; a
  complete sync removes what was sold and nothing else;
* jobs: one enrichment at a time, one import per participant and kind, no run left open,
  no lock and no file left behind, no outcome taken back;
* matching: without overlaps one game per title and per provider id, and an import
  that runs alone repairs what overlaps left;
* QR login: a confirmed login is used at most once, or is lost; a stored token
  is that of the account's user;
* credentials: the tokens of a file come from one login, the file is what the
  last answer said, and the refresh token is one the provider still takes;
* providers: a partial answer takes no owned game away, a complete one leaves
  nothing that was given back, and reading ends;
* enrichment: what is ascribed to IGDB or RAWG is what they said, a game that is
  excluded says why, and repairs come to an end;
* engine: a common game can be played by every member of whom anything is known;
  lists do not shrink because somebody buys a game or a sync fails;
* analytics: entries expire, a deleted person's name goes, and numbers add up.

## 2. The modules

### CurrentLists and RecommendationCache

`Process` runs the code, `Session` commits, `Client` asks and keeps a copy,
`Key` names a cached list.  Only commits that change recommendations are
modelled; the catalogue is the number of such commits (`committed`), and a list
is the number it was computed from.  `told[p]` is the latest commit that process
`p` has been told of, by its own hook or by the shared revision (`covers[d]` is
what revision `d` stands for).

| Specification | Code |
|---|---|
| `Flush`, `Rollback`, `Commit` | `after_flush`, `after_rollback` and `after_commit` listeners |
| `Invalidate`, `Bump`, `LoseBump` | `_invalidate_recommendations_after_commit`: the local cache first, then the shared revision in a transaction of its own, or not if that fails |
| `Start` | the endpoints of `api/recommendations.py`: the participants that form the key |
| `ReadRevision`, `Observe` | `synchronize_recommendation_cache`: read the shared revision, then tell the cache under its lock |
| `LookupHit`, `LookupMiss`, `Compute`, `Store`, `Retry` | `RecommendationCache.get`, one action per stretch with or without the lock |
| `Respond` | `_cached`: the ETag, 304 or the list |
| `Expire`, `Crash` | the TTL; a new process with an empty cache |

`CurrentLists` is the abstract specification: pages ask, and each answer shows the
list of a moment between the newest change that was known when the page asked and
now; there is no cache in it.  `PagesAreCurrent` is the refinement: what is known
(`KnownCommit`) is what the process has been told or could read as the shared
revision, `RequestsUnderWay` the requests without an answer, `ListsOnPages` the
copies, which a 304 leaves as they are.

A retry in `get` computes on the same database session.  The specification
takes each computation to read the latest commit, as the factories do when
nothing of the first attempt is left in the session.

### Ownerships

The rows of one participant on one platform: the unique key, the reconciliation
and the detaching of confirmed rows all name both, so that other rows never meet
these.  An account deletion, a sync, an import, a confirmation and a withdrawal
are transactions: `Begin...` is everything read, `Commit...` everything written,
`Fail...` the roll back.  `job[w]` is what the transaction of thread `w` has read.
Row ids are never used twice, as in the code, so that a row that was deleted and
inserted again is not taken for the old one.  An account in `KeyAccount` is one
whose provider names the platform of each game itself (Humble's keys): it takes
over rows that belong to other accounts and belongs to the platform of none.  Row locks taken before the commit
(the detaching update) and the reference of a running sync's `SyncRun` to its
account are modelled, with the waits and deadlocks they cause.  The Steam QR
login's import corresponds to `ConnectAccount` and an import.

### BackgroundJobs

Every metadata sync, full Steam sync and import is a job with a step `pc[j]`, a
row `run[j]`, possibly a lock (`holder`) and possibly a file (`uploads`).
`ThreadFree` counts the jobs that occupy a thread against `Threads`.  A step
below stands for what the code does between two points where another job can
notice.

| Specification | Code |
|---|---|
| `RequestSync`, `CreateSyncRun`, `CreateSyncFails` | `create_metadata_sync_run`, `create_steam_metadata_run` |
| `StoreUpload`, `CreateImportRun`, `RejectImport` | `api/imports.py` and `create_playnite_import_run` |
| `StartTask`, `TakeSteamLock`, `EnrichFromSteam`, `EnrichAll`, `Complete`, `Fail`, `Release` | `run_metadata_sync`, `run_steam_metadata_sync`, the ends of `run_playnite_import` |
| `CommitImport`, `ImportFails`, `WaitForMetadataLock` | `run_playnite_import` |
| `DatabaseFails` | any statement of a task that fails, `_update_playnite_run` swallowing it included |
| `Crash`, `StartUp` | process death; `close_interrupted_syncs_on_startup` |

The upload endpoints are coroutines that do not wait between looking for an open
run and committing a new one: `CreateImportRun` is one step.  The GOG Galaxy
import is the same code under other names; `Kind` says which of the two an import
is, and only an open run of the same participant and kind turns an upload away.  `create_steam_metadata_run` has no
caller in the API; it is modelled because its lock is the one metadata syncs take.

### GameMatching

`resolve_game` over the two tables it uses: `title[g]`, a game's normalised
title, and `mapping[i]`, the row of `platform_game_mappings` for a provider's id.
A worker's transaction (`job[w]`) sees what is committed and what it has flushed
itself (READ COMMITTED); ids of rows grow and are never returned.  Titles are
model values, and `Similar` says which different titles count as one game.  A
mapping that is to be moved is decided in one step (`Resolve`) and written in a
later one (`Flush`), over whatever another transaction has committed meanwhile.

| Specification | Code |
|---|---|
| `BeginImport`, `Resolve`, `Flush`, `AddRelated`, `Commit`, `Fail` | a sync or import: `resolve_game` for each entry, the related releases that a Galaxy entry brings along, the commit or the roll back, also by a conflict of unique keys |
| `CreateGame`, `UpdateGame`, `BeginDelete`, `CommitDelete` | `create_game`, `update_game`, `delete_game` of `api/games.py` |

### OneShotLogin and SteamLogin

`OneShotLogin` is the abstract specification: a login is confirmed by one user,
used at most once, and never comes back once lost.  `SteamLogin` is the code: the
helper's `session`, the backend's `pending` states, `handler[h]` for each thread
of the backend, accounts and stored tokens.  `LoginPhase` is the refinement
mapping, `LoginIsOneShot` the refinement.

| Specification | Code |
|---|---|
| the helper's actions, `HelperRestart` | `server.js`, an event loop: start, scan, confirm, fetch the library, expire, deliver, clean up |
| `PollQr`, `AskHelper`, `LoseAnswer` | the poll of `api/provider_auth.py`, with the lock held only around the look at the state |
| `StartOpenId`, `ConfirmOpenId`, `OpenIdCallback`, `ConnectProfile` | OpenID redirection and public profiles |
| `ReadAccounts`, `LinkAccount`, `SaveCredentials`, `DropCredentials`, `Import` | what follows a login, step by step, in the code's order |
| `DeleteAccount`, `PurgeCredentials`, `DeleteParticipant`, `BackendRestart` | `api/accounts.py`, `api/participants.py`, process death |

### ProviderCredentials

One file per account, read as a whole and written as a whole, with a question to
the provider before, between or after: `request[t]` holds the copy that thread
`t` has loaded.  A token is the login it comes from and the number of its
renewal; the provider keeps only the latest (`latest`).  `platform[a]` chooses the
provider: Xbox's device login, GOG's and Amazon's codes, Ubisoft's second factor,
pasted browser sessions (Battle.net, Humble, Meta, EA).  What is pasted for an Xbox
account becomes its file as it is (`PasteXbox`), an Xbox login whose answer brings
no refresh token keeps the one of the file (`BareSession`), and the deletion of a
participant leaves the files of its accounts (`DeleteOwner`).  `overtaken` marks a copy
that the file has moved away from, `harmed` an account that such a copy, a lost
answer, a restart, the paste of something without a session, the renewal of a
kept token or the deletion of its participant may have spoiled: the properties
say that nothing else does.

### ProviderLibraries

What a sync makes of the answers.  `owned` is what the account owns at the
provider, `untitled` what it does not name today, `stored` the ownerships.  Each
provider has its action or actions (`SteamLibrary` ... `EaOrigin`), with failing
requests, pages that overlap, repeat or end early, and the list's `complete`
flag; Humble and Meta share `PartRead`; `Reconciled` is `_reconcile_account_ownerships`.  `gap` records that a
provider hid something in an answer that looks complete.

### Enrichment

One game's fields under metadata runs, store runs, imports and corrections by
hand, each a transaction that loads the game (`base[w]`), works on its copy and
writes back the columns it changed.  The records of IGDB, RAWG and the store,
their merging and the verdicts are operators named as in
`services/metadata_service.py` and `services/steam_metadata_service.py`.

### Recommendations

The lists of `services/recommendations.py` as operators over `accounts` and
`ownerships`, which syncs, failures, confirmations and their withdrawal change
(`confirmed` holds the rows that a sync does not remove): `Recommended` with
its filters and shares, `LibraryUnknown`, and the orders (`SortKey`, `Before`).
Shares are compared by multiplication, as in exact arithmetic.

### UsageLog

The entries of `services/analytics_service.py` with the purge that new entries
and starts trigger, the deletion of persons while their entries are written, and
the summary's periods, days and rankings.  Instants are numbers; `LocalDay` says on
which local day each falls, which makes midnight fall between any two of them.  The deletion of a person is one
transaction: `doomed` holds the entries it has removed, which a restart brings back.

### Modules for TLC and for proofs

The `MC...` modules give the constants.  `MCPeople` runs `SteamLogin`,
`ProviderCredentials` and `UsageLog` side by side, `MCLibrary` runs
`ProviderLibraries`, `Enrichment` and `Recommendations`: these share no state, so
that one moves while the others rest.  The `...Proofs` modules hold the proofs.
Definitions introduced as a "faulty variant" are plausible mistakes in the
definition that follows them; they are part of no behaviour, and show that each
property notices one of them.

## 3. What TLC checks

| Run | Instance | Shows |
|---|---|---|
| `cache_safety` | 2 processes, 1 session, 2 clients, 1 key, 1 commit, 1 crash, 1 lost increment | `NoStaleEntry`, `AnswersAreCurrent`: the check after the unlocked computation keeps stale lists out, also when threads observe shared revisions in the wrong order |
| `cache_lru` | 1 process without crash, more keys than entries, increments may be lost | `PagesAreCurrent` (the refinement of `CurrentLists`) under concurrent hits, fills and evictions |
| `cache_live` | 2 processes, 2 commits, 1 crash, fair | `RequestsAnswered`, `StaleEntriesDie`, `CopiesCatchUp` |
| `ownership_serial` | 1 worker, no raw endpoints | `ConfirmedIsOwned`, `DetachedIsConfirmed` in any order of operations |
| `ownership_concurrent` | 2 workers, 2 accounts of which one takes rows over (Humble), raw endpoints, deletions, fair | `SyncReconciles`, `JobsFinish` |
| `ownership_race` | 2 workers, no account is deleted | a violation: finding 1 |
| `ownership_orphan` | 2 workers | a violation: finding 2 |
| `jobs` | 2 Playnite uploads of one participant, a metadata sync with Steam, a full Steam sync, 2 threads, 1 failing call, 1 crash, fair | locks, rows and files stay in step with the tasks; `RunsFinish`, `LocksComeFree` |
| `matching` | 2 workers, 2 Steam apps, 1 other id, 3 titles of which 2 are similar, 2 games, 3 mapping rows | `MappedGamesExist`, `SameTitleSameGame`, `SerialOneSteamApp`, `LoneImportHeals` |
| `people` | Steam: 2 handlers, 2 participants of whom one may be deleted, 2 users, a QR login and an OpenID login of which one is under way or confirmed, 2 accounts, 1 restart; credentials: 2 threads, 1 account of any provider until it is harmed, 2 logins, 2 refresh tokens per login (one renewal of each); log: 2 persons, 5 instants on 2 days, 2 entries, nothing under way once the party has a period | `LoginIsOneShot` (the refinement), `SteamAccountsMatch`; `FileOfOneLogin`, `FileAsTold`, `RenewableSession`; `EntriesExpire`, `NamesGoWithPeople`, `SummariesAddUp` |
| `people_orphan` | as `people` | a violation: finding 3 |
| `library` | providers: 3 entries, one no game, one classic, cursors 0 to 2, any of 10 libraries, fair; catalogue: one game, 3 transactions; recommendations: 3 persons, one without accounts, 2 games, 2 platforms, one optional, 3 rows that may be confirmed, one of them by a person with accounts | `OwnedGamesStay`, `GivenBackGamesGo`, `SyncEnds`; `SourcesTellTheTruth`, `ExclusionsHaveReasons`, `RepairsLast`; `CommonMeansAll`, `ListsOnlyGrow`, `OwnersDecide` |

The type invariant of each module is a theorem (section 5).

Bounds.  Each bounds the environment (commits, crashes, lost increments, failed
calls, ids, logins, instants), never a step of the code: a transaction that began
can always end.  Two processes, two clients and one commit suffice for every pair
of a computation and an invalidation, and a commit between observing and storing;
the liveness run has the second commit that makes a request start over, and with
two commits a request starts over twice at most.  One key does for the promises
about a list, because entries of different keys meet at the eviction only, which
`cache_lru` has.  Two transactions are what the races
need, and the third party, a commit between the read and the commit of another,
is one of the two.  Two imports, a sync of each kind and two threads let every
lock be contended, and let an import wait while a task needs a thread.  Two Steam
apps of similar titles and a third title are what it takes to join, to separate
and to move a mapping; `Names` and `Edited` bound which titles providers and
people give.  Two handlers make the races of two polls, of a poll and another way
to connect, and of a request and a deletion.  Three entries are a page, what the
page leaves out, and what is no game.  Three transactions on a game are a run, what
overtakes it and what comes after.  The proofs remove these bounds for the
properties they cover.

`cache_safety` uses a view without the clients' copies, which no property of that
run reads; symmetry is used between interchangeable threads, clients, users and
persons, and in no run with a liveness property.  Deadlock is checked in the cache
runs only: elsewhere the bounded supply of ids, logins, transactions or requests
ends, and the system may rest.

Fairness.  `RecommendationCache` assumes that requests and hooks, once begun, go
on, and that an entry's time passes; `PollingSpec` adds that a page asks again,
as the frontend does when it is open.  `Ownerships` assumes that a transaction
whose statement waits for a row is woken in turn (strong fairness of `Advance`:
the database queues waiters).  `BackgroundJobs` assumes that a job goes on while
the process runs and its thread or lock is free, and that the container is
restarted (`restart: unless-stopped`).  `ProviderLibraries` assumes that a sync
that has something to read reads it or fails, since every request has a timeout,
and that it then ends.  Nobody is assumed to ask for anything, to crash or to
fail.  The other modules state safety only.

### Limits that the properties name

* `PagesAreCurrent`, and with it `NotModifiedIsCurrent`, holds within the life of
  one process.  With two processes, or after a restart, the local part of an ETag
  may repeat for another list.  The deployment runs one worker
  (`src/backend/Dockerfile:45`); the shared revision exists for several.
* `CurrentLists` does not say that a page never goes back.  It may, for a commit
  whose hook has not run yet: a page's request computes a list with that commit and
  stores it; a request that computed the same list before the commit stores its
  own over it, under the same revision; the page asks again, has meanwhile a new
  shared revision in its ETag, and is sent the older list until the hook runs.
* `CopiesCatchUp` holds when no increment of the shared revision was lost, to a
  failure or to a crash between the commit and the hook; `StaleEntriesDie` says
  what limits the damage.
* `RequestsAnswered` is shown for two commits.  A request whose factory is slower
  than commits that never pause may start over without end.
* The overlaps of deletions and confirmations with other transactions are in
  `ownership_concurrent`, which says how they end and what a sync leaves;
  `ConfirmedIsOwned` and `DetachedIsConfirmed` pass for one transaction at a time
  only (`ownership_serial`, and the theorems' premise `Serial`).  A withdrawal or a
  confirmation that overlaps a sync or a deletion breaks them: findings 1 and 2.
* `OneImportEach` is per kind: a participant may have a Playnite and a Galaxy import
  at work at once.
* `RunsFinish` and `LocksComeFree` hold while fewer imports wait for the metadata
  lock than there are threads; the run keeps one thread to spare, so that the
  deadlock that follows cannot occur in it.  As many waiting imports as threads, with the lock
  held by a sync whose task has not got a thread yet, stop the server for good:
  `METADATA_SYNC_LOCK.acquire()` in `services/playnite_import.py` has no timeout.
  Two participants' imports and two threads (or one import and one thread)
  show it; the pool has forty threads.
* `OpenRunsHaveTasks` excepts failed database calls: the last update of a run may
  be given up, and a run that was committed but could not be read again is
  answered with an error and stays open until a restart.
* `SuccessIsImported` does not hold the other way round: an error after the
  import's commit reports a failed import although its ownerships stay.
* `SerialOneSteamApp` and `SameTitleSameGame` end with the first overlap of two
  transactions: two imports outside `SYNC_LOCK` may give one game two Steam apps,
  or one title two games.  `LoneImportHeals` says how that ends.
* A login that is confirmed shortly before it expires may be lost while the
  library is being read (`src/steam-helper/server.js:139`), and an answer that
  does not arrive takes its login along; `OneShotLogin` allows both.
* `SteamAccountsMatch` ends when requests of Steam logins overlap: two at once may
  leave a participant with two Steam accounts, or an account with the token of
  another user.
  With a lost answer or two polls at once it says nothing; `LoginIsOneShot` does.
* `FileAsTold` and `RenewableSession` except (`harmed`) accounts whose file was
  overwritten by a copy that had been overtaken, since the file has no lock; whose
  renewal was lost on the way; whose renewal or deletion a restart cut off; which
  renewed a refresh token kept from an earlier Xbox login; for which something
  without a session was pasted, which `complete_generic_json` stores and calls
  authenticated (`services/provider_auth.py:805`); or whose participant was
  deleted, which leaves the file.
* `FileOfOneLogin` excepts Xbox logins whose answer brings no refresh token: the
  file then has the access token of one login and the refresh token of another
  (`services/xbox_auth.py:180`).
* `NamesGoWithPeople` speaks of the column `participant_name`.  That others have
  selected a person, with the nickname, stays in the details of their own searches
  (`services/analytics_service.py:296`).
* `OwnedGamesStay` excepts answers that look complete and are not: Legendary
  without output (`services/import_providers.py:867`), GOG without `owned` (999),
  Battle.net without its game accounts (1620) or classic games (1628), a batch of
  Humble's that is no object (1675), a document of Meta's without data (1820),
  Steam's Web API instead of the licences (690), Amazon's pages that end early,
  EA's entries that come twice or pages without a total.  For GOG and EA a missing title makes the
  list incomplete; elsewhere it costs the entry.
* `SyncEnds` excludes Amazon, whose pages may repeat a token for ever
  (`services/import_providers.py:1574`), with `SYNC_LOCK` held.  EA's cursors are
  finitely many in the specification: a new one for each page would be followed
  for ever.
* `SourcesTellTheTruth` and `ExclusionsHaveReasons` except fields written by
  overlapping transactions or by hand, until the next run that knows them.
  `SourcesTellTheTruth` says less of three fields: genres are merged whatever their
  source, so that they include what was given (`services/sync_service.py:70`); a
  release date that cannot be read is ascribed to its source and not taken
  (`services/metadata_service.py:728`); and `hotseat` is cleared while its source
  stays (`services/metadata_service.py:720`), so that nothing is said of it.
* `OwnersDecide` speaks of the orders lan, size and popular, and of the common one.
  The coop order starts with online and local, the one for new games with
  playtimes.
* `RepairsLast` speaks of answers with a player count that fits the modes.  A
  multiplayer game for which IGDB gives one player at most is suspicious by the
  test in `services/metadata_service.py:271`, and stays so whatever the run
  writes: every repair run asks for it again.

## 4. Findings

1. `ownership_race`: `_reconcile_account_ownerships` deletes a row because no
   confirmation was there when it looked.  A confirmation made between that look
   and the sync's commit finds the row still there, adds none, and is left without
   ownership.  The run deletes no account; with deletions (`Deletable`) the same
   property is violated in a second way, by a confirmation that finds a row which
   the deletion's cascade then removes.
   `src/backend/tests/test_manual_ownerships.py:66` states that a sync preserves
   the row of a confirmed game.
2. `ownership_orphan`: `delete_manual_ownership` removes the row only if the
   account it has read is NULL.  The account's deletion may set it to NULL
   meanwhile, because the confirmation is still there: the row is left without
   account and without confirmation, and nothing removes it.
   `src/backend/tests/test_manual_ownerships.py:105` states that an account-less
   row goes with its confirmation.
3. `people_orphan`: `delete_participant` deletes the row and lets the database's
   cascade take the participant's accounts; the stored logins stay in the file
   system, since only `delete_account` removes them.  `src/README.md:147` says that
   the deletion of an account removes its stored login.

## 5. What is proved

For every value of the constants that satisfies the modules' assumptions:

* **RecommendationCacheProofs**: `TypeOK`, `NoStaleEntry`, `AnswersAreCurrent`,
  and for one process that does not crash (`OneServer`)
  `NotModifiedIsCurrent` and the refinement `PagesAreCurrent`.
  The first two properties are not inductive. `CacheInv` adds that nobody is told of
  a commit that has not happened, that what a process has observed it has been told,
  that an entry of the current revision is at least as new as what the process was
  told, and what a request may rely on at each step: above all that a list computed
  under the revision the process still has is current. Each action is shown to keep
  it. `CopyInv`
  ties the browsers' copies to the revision of the only process: a copy of the
  present revision is current, because what the process has been told changes with
  the revision once it has observed anything. `OneServer` cannot be dropped (section
  3). The refinement adds that no list contains more than has been committed
  (`ValuesHappened`) and that later shared revisions stand for later commits
  (`CoversGrow`); then each action is a step of `CurrentLists` (`Commit`,
  `Invalidate`, `Bump`, `Start`, `Respond`) or none.
* **BackgroundJobsProofs**: `TypeOK`, `OneEnrichment`, `OneImportEach`,
  `OpenRunsHaveTasks`, `UploadsAreRemoved`, `LocksHaveOwners`,
  `SuccessIsImported`, `OutcomesStay`.  `JobsInv` ties lock, row, commit and file
  to the step of each job, in both directions for the locks; a start may close
  open rows because a process that is down has no jobs.
* **OwnershipsProofs**: `TypeOK`, `SyncReconciles`, from
  `OwnInv`, which adds that rows refer to accounts that exist, as the database's
  foreign key demands, and that the account of a running sync does.  For one
  transaction at a time, `ConfirmedIsOwned` and `DetachedIsConfirmed`, from
  `SerialInv`, which adds that what the transaction has read is still so.  The
  two findings show that this premise cannot be dropped.
* **GameMatchingProofs**: `TypeOK` with `MappedGamesExist`, `LoneImportHeals`,
  `SerialOneSteamApp`, `SameTitleSameGame`.  `Sound` adds to the first that ids
  of games are handed out in order and that what a transaction writes leads to a
  game it sees.  `LoneInv` says that no other Steam app of a game which a lone
  transaction has resolved has an older mapping.  `SerialInv` says that what was
  found last is what the mapping says and that the titles still fit, both of the
  tables and of what the open transaction sees.
* **SteamLoginProofs**: the types, the refinement `LoginIsOneShot`, and
  `SteamAccountsMatch`.  The refinement needs `LoginsFit`: what the helper has
  forgotten it has handed out, and what the browser was sent back with is no longer
  expected; each action then maps to a step of the abstract login or to none.
  `SteamAccountsMatch` follows from `QuietInv`: one request at a time, what it has
  read still holds when it commits, and a token that fits no account is one that
  the request will replace or drop.
* **ProviderCredentialsProofs**: `CredTypeOK`, `FileOfOneLogin`, `FileAsTold`,
  `RenewableSession`.
  `CredInv` says which copy a request may hold at each step, that its tokens come
  from one login or a later one brought no refresh token, that a copy which has
  not been overtaken is the file, and that what will be stored is what the answer
  will tell.  `RenewInv` adds that each login belongs to one account (some map
  `home` says to which), that a session not yet stored is held by its request
  alone, and that `SYNC_LOCK` lets one sync renew at a time.
* **UsageLogProofs**: `LogTypeOK`, `NamesGoWithPeople`, `EntriesExpire` and
  `SummariesAddUp`.  `EntriesExpire` needs that no entry is older than the last
  purge allowed; the periods rest on a lemma that says which instants come after a
  day's first midnight.  The sums per day, type and person are folds that take one
  element of a set at a time.  That they are the number of entries is proved by a
  least part: a finite set has a smallest part on which fold and count differ,
  which cannot be empty, and taking the fold's next element from it leaves a
  smaller one (`SumsAreUnique`, `PartsAddUp`, with `WFMin` for the parts of a
  finite set).  What remains is that each selection's entries fall on the days it
  shows (`SelectionsFit`).
* **LibraryProofs**: `LibTypeOK`, `OwnedGamesStay`, `GivenBackGamesGo` from `LibInv`,
  which says for each provider what the entries read so far cover: what is not
  left has been recognised (Humble, Meta), what was sent has been recognised
  (Amazon, EA), and EA's count is that of the entries sent, so that a total that
  is reached means that all have come.  `RecTypeOK`, `SharesAreShares`,
  `CommonMeansAll`, `ListsOnlyGrow` and `OwnersDecide`: those counted as owners
  are among those whose library is known, and a part of a group as large as the
  group is the group; one more owner is one more known player at most, so that a
  share of at least the required one stays so (`SharesGrow`, by multiplication,
  for every percentage), and a failing library makes nobody known.  `CatTypeOK`,
  `ExclusionsHaveReasons`, `SourcesTellTheTruth` and `RepairsLast`, from `CatInv`:
  the two invariants together, since a run judges by the fields it has merged, and
  that a text ascribed to IGDB or RAWG was told as a text.  What the proofs use of
  each kind of writer is that it respects the fields it does not know, keeps
  verdict and reason together, and gives up a field's source when it changes the
  field.

Assumptions.  The constants' assumptions are those named in the modules: finite
sets of ids, entries and players where something is counted, values that stand for
nothing outside the sets they complete, a calendar whose days do not go back.

Only model-checked: the liveness properties (`RequestsAnswered`,
`StaleEntriesDie`, `CopiesCatchUp`, `JobsFinish`, `RunsFinish`, `LocksComeFree`,
`SyncEnds`), which need fairness and ENABLED.
`GameMatching` takes the normalisation and the similarity of titles as constants,
so that nothing is proved of them.

## 6. What is not modelled

Inside modelled components: playtimes, dates and source fields of ownership rows,
PATCH of an account and of a mapping; the uncached `/coop` and `/group-size`
endpoints (their lists are in `Recommendations`); Galaxy's upserts of titles
without any id; the normalisation and similarity of titles, which are string
processing; Epic's login, which is Legendary's file; the parsing of payloads; the
score that is shown but orders nothing; covers and links; the matching of a title at
IGDB or RAWG; the thread and connection pools apart from `Threads` and `LoseBump`.

Components: the library file readers (parsers of input formats, without state: they
appear as an import that commits or fails), the Vue frontend beyond its role as
client, identity formatting and look-ups of the provider policy, settings endpoints
of a single statement, schema and migrations (their keys and cascades are built into
the modules), deployment scripts.

## 7. Plan

Every safety property that a passing run checks is proved.  What is worth adding are abstract specifications of further components: of the
background jobs as runs that are open, worked on and closed once, of the
credential file as a session that is replaced as a whole, and of the ownership
rows as the set that a serial execution would leave.
