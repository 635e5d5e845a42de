----------------------------- MODULE Ownerships -----------------------------
(***************************************************************************)
(* The ownership rows of one participant on one platform, and everything   *)
(* that writes them: account syncs (services/sync_service.py), Playnite    *)
(* and GOG Galaxy imports, manual confirmations (api/ownerships.py) and    *)
(* the deletion of accounts (api/accounts.py).  Rows of other participants *)
(* and platforms never meet these: the unique key, the reconciliation and  *)
(* the detaching of confirmed rows all name participant and platform.      *)
(*                                                                         *)
(* Every operation is a database transaction under READ COMMITTED: it      *)
(* reads, and writes all it has decided at its commit.  Between the two    *)
(* other transactions commit; a row it means to change may be gone, a row  *)
(* it means to insert may exist.  Row ids tell a row from a later one with *)
(* the same key.                                                           *)
(***************************************************************************)
EXTENDS Integers, FiniteSets

CONSTANTS
  Worker,      \* threads: request handlers and background tasks
  Account,     \* accounts of the participant that may have rows here, ever
  KeyAccount,  \* those of another platform whose library lists games of this
               \* one as well: Humble accounts, on the platform of Humble keys
  Deletable,   \* accounts that somebody deletes
  Game,        \* games the participant may own
  FreeGame,    \* those with is_free
  RawApi,      \* whether anyone calls POST and DELETE /ownerships
  MaxIds,      \* bound on the insertions ever made for one game
  Detached     \* the account_id NULL of a row

ASSUME OwnershipAssumption ==
  /\ FreeGame \subseteq Game
  /\ KeyAccount \subseteq Account
  /\ Deletable \subseteq Account
  /\ RawApi \in BOOLEAN
  /\ MaxIds \in Nat
  /\ Detached \notin Account

Id  == Nat \ {0}
Row == [id : Id, account : Account \cup {Detached}]
NoRow == [id |-> 0, account |-> Detached]
NoId  == 0

VARIABLES
  live,     \* accounts that exist
  gone,     \* accounts that were deleted; their ids do not come back
  own,      \* own[g]: the ownership row of game g, or NoRow
  manual,   \* manual[g]: the id of the confirmation of g, or NoId
  lastId,   \* lastId[g]: the last id handed out for g, in either table
  job       \* job[w]: the transaction of worker w

vars == <<live, gone, own, manual, lastId, job>>

(* op names the handler and its next step; account, games and reconcile    *)
(* are its arguments or what the provider returned; rows and confirmed are *)
(* what it read; locked are the games whose row it has updated.            *)
Ops == {"idle", "sync_fetch", "sync_commit", "import_commit", "confirm_commit",
        "withdraw_commit", "delete_commit"}

Job == [op : Ops, account : Account \cup {Detached}, games : SUBSET Game,
        reconcile : BOOLEAN, rows : [Game -> Row \cup {NoRow}],
        confirmed : [Game -> Id \cup {NoId}], locked : SUBSET Game]

Idle == [op |-> "idle", account |-> Detached, games |-> {},
         reconcile |-> FALSE, rows |-> [g \in Game |-> NoRow],
         confirmed |-> [g \in Game |-> NoId], locked |-> {}]

Init ==
  /\ live = {}
  /\ gone = {}
  /\ own = [g \in Game |-> NoRow]
  /\ manual = [g \in Game |-> NoId]
  /\ lastId = [g \in Game |-> 0]
  /\ job = [w \in Worker |-> Idle]

-----------------------------------------------------------------------------

Finish(w) == job' = [job EXCEPT ![w] = Idle]

(* Rows another transaction has updated but not committed: whoever wants   *)
(* to write them waits.                                                    *)
LockedByOthers(w) == UNION {job[v].locked : v \in Worker \ {w}}

SyncRunning(a) ==
  \E w \in Worker : job[w].op \in {"sync_fetch", "sync_commit"}
                    /\ job[w].account = a

(* SYNC_LOCK                                                               *)
SyncLockFree ==
  \A w \in Worker : job[w].op \notin {"sync_fetch", "sync_commit"}

(* The bound on ids stops new transactions, never one under way.           *)
IdsLeft(G) == \A g \in G : lastId[g] + Cardinality(Worker) <= MaxIds

NewIds(G) == [g \in Game |-> IF g \in G THEN lastId[g] + 1 ELSE lastId[g]]

(* What a transaction that is about games G has read of them.              *)
RowsOf(G)          == [g \in Game |-> IF g \in G THEN own[g] ELSE NoRow]
ConfirmationsOf(G) == [g \in Game |-> IF g \in G THEN manual[g] ELSE NoId]

(* The accounts an operation finds when it looks for the participant's on  *)
(* the platform, and the one it uses.                                      *)
LiveHere     == live \ KeyAccount
FoundAccount == IF LiveHere = {} THEN {Detached} ELSE LiveHere

(***************************************************************************)
(* upsert_ownership for each game of a job: a missing row is inserted, an  *)
(* account-less one gets the account, another account keeps its row unless *)
(* the provider named the platform of the game itself.  Only what differs  *)
(* from what was read is written.  The commit goes through only if every   *)
(* row read is still there and every row that was missing still is.        *)
(***************************************************************************)
Inserts(w) == {g \in job[w].games : job[w].rows[g] = NoRow}
Updates(w) == {g \in job[w].games : job[w].rows[g] # NoRow}

Conflict(w) ==
  \/ \E g \in Inserts(w) : own[g] # NoRow
  \/ \E g \in Updates(w) : own[g].id # job[w].rows[g].id

CanUpsert(w) ==
  /\ ~Conflict(w)
  /\ Updates(w) \cap LockedByOthers(w) = {}

TakesRow(w, g) ==
  /\ g \in Updates(w)
  /\ job[w].rows[g].account # job[w].account
  /\ job[w].rows[g].account = Detached \/ job[w].account \in KeyAccount

Upserted(w, g) ==
  IF g \in Inserts(w) THEN [id |-> lastId[g] + 1, account |-> job[w].account]
  ELSE IF TakesRow(w, g) THEN [own[g] EXCEPT !.account = job[w].account]
  ELSE own[g]

-----------------------------------------------------------------------------
(* Account syncs.                                                          *)

(* The lock is taken, the account found and the SyncRun inserted, which    *)
(* keeps the account from being deleted until the transaction ends.        *)
BeginSync(w, a) ==
  /\ job[w].op = "idle"
  /\ SyncLockFree
  /\ a \in live
  /\ job' = [job EXCEPT ![w] = [Idle EXCEPT !.op = "sync_fetch", !.account = a]]
  /\ UNCHANGED <<live, gone, own, manual, lastId>>

(* The provider has answered with games G, completely or not; the handler  *)
(* reads the rows and the confirmations it needs.  A platform with games   *)
(* of another one's accounts has no provider of its own.                   *)
FetchSync(w, G, complete) ==
  /\ job[w].op = "sync_fetch"
  /\ KeyAccount = {} \/ job[w].account \in KeyAccount
  /\ IdsLeft(G)
  /\ LET R == G \cup {g \in Game : own[g].account = job[w].account} IN
     job' = [job EXCEPT ![w].op = "sync_commit", ![w].games = G,
                        ![w].reconcile = complete, ![w].rows = RowsOf(R),
                        ![w].confirmed = ConfirmationsOf(R \ G)]
  /\ UNCHANGED <<live, gone, own, manual, lastId>>

(* Faulty variants: confirmations are not looked at; nothing is reconciled. *)
StaleUnlessFree(w) ==
  {g \in Game \ (job[w].games \cup FreeGame) :
     /\ job[w].reconcile
     /\ job[w].rows[g] # NoRow
     /\ job[w].rows[g].account = job[w].account}

NothingStale(w) == {}

(* _reconcile_account_ownerships: the rows of the account that the         *)
(* provider no longer lists, unless the game is free or was confirmed.     *)
Stale(w) ==
  {g \in Game \ (job[w].games \cup FreeGame) :
     /\ job[w].reconcile
     /\ job[w].rows[g] # NoRow
     /\ job[w].rows[g].account = job[w].account
     /\ job[w].confirmed[g] = NoId}

CommitSync(w) ==
  /\ job[w].op = "sync_commit"
  /\ CanUpsert(w)
  /\ Stale(w) \cap LockedByOthers(w) = {}
  /\ own' = [g \in Game |->
               IF g \in Stale(w) /\ own[g].id = job[w].rows[g].id THEN NoRow
               ELSE Upserted(w, g)]
  /\ lastId' = NewIds(Inserts(w))
  /\ Finish(w)
  /\ UNCHANGED <<live, gone, manual>>

(* A deletion holds a row the sync wants and waits for the sync to end.    *)
Deadlocked(w) ==
  \E v \in Worker :
    /\ job[v].op = "delete_commit" /\ job[v].account = job[w].account
    /\ (Updates(w) \cup Stale(w)) \cap job[v].locked # {}

(* Faulty variant: the commit is outside the try block, so that a conflict *)
(* leaves the transaction open and the lock taken.                         *)
FailSyncAtFetchOnly(w) ==
  /\ job[w].op = "sync_fetch"
  /\ Finish(w)
  /\ UNCHANGED <<live, gone, own, manual, lastId>>

(* A provider error, a conflict at the commit or a deadlock: everything is *)
(* rolled back and a failed SyncRun is written.                            *)
FailSync(w) ==
  /\ \/ job[w].op = "sync_fetch"
     \/ job[w].op = "sync_commit" /\ (Conflict(w) \/ Deadlocked(w))
  /\ Finish(w)
  /\ UNCHANGED <<live, gone, own, manual, lastId>>

-----------------------------------------------------------------------------
(* Playnite and GOG Galaxy imports run outside SYNC_LOCK, use the          *)
(* participant's account on the platform if there is one, create one       *)
(* otherwise, and never remove a row.                                      *)

BeginImport(w, G, a) ==
  /\ job[w].op = "idle"
  /\ G # {} /\ IdsLeft(G)
  /\ a \notin KeyAccount
  /\ IF LiveHere = {} THEN a \notin gone ELSE a \in live
  /\ job' = [job EXCEPT ![w] = [Idle EXCEPT !.op = "import_commit",
               !.account = a, !.games = G, !.rows = RowsOf(G)]]
  /\ UNCHANGED <<live, gone, own, manual, lastId>>

CommitImport(w) ==
  LET a == job[w].account IN
  /\ job[w].op = "import_commit"
  /\ a \notin gone
  /\ CanUpsert(w)
  /\ own' = [g \in Game |-> Upserted(w, g)]
  /\ lastId' = NewIds(Inserts(w))
  /\ live' = live \cup {a}
  /\ Finish(w)
  /\ UNCHANGED <<gone, manual>>

FailImport(w) ==
  /\ job[w].op = "import_commit"
  /\ job[w].account \in gone \/ Conflict(w)
  /\ Finish(w)
  /\ UNCHANGED <<live, gone, own, manual, lastId>>

-----------------------------------------------------------------------------
(* Manual confirmations.                                                   *)

(* create_manual_ownership reads the confirmation, the row and, for a new  *)
(* row, the account.                                                       *)
BeginConfirm(w, g, a) ==
  /\ job[w].op = "idle"
  /\ a \in FoundAccount
  /\ IdsLeft({g})
  /\ job' = [job EXCEPT ![w] = [Idle EXCEPT !.op = "confirm_commit",
               !.account = IF own[g] = NoRow THEN a ELSE Detached,
               !.games = {g}, !.rows = RowsOf({g}),
               !.confirmed = ConfirmationsOf({g})]]
  /\ UNCHANGED <<live, gone, own, manual, lastId>>

CommitConfirm(w) ==
  \E g \in job[w].games :
    LET new == job[w].confirmed[g] = NoId
        insert == job[w].rows[g] = NoRow
    IN
    /\ job[w].op = "confirm_commit"
    /\ new => manual[g] = NoId
    /\ insert => own[g] = NoRow /\ job[w].account \in live \cup {Detached}
    /\ manual' = IF new THEN [manual EXCEPT ![g] = lastId[g] + 1] ELSE manual
    /\ own' = IF insert
                THEN [own EXCEPT ![g] = [id |-> lastId[g] + 1,
                                         account |-> job[w].account]]
                ELSE own
    /\ lastId' = IF new \/ insert THEN NewIds({g}) ELSE lastId
    /\ Finish(w)
    /\ UNCHANGED <<live, gone>>

(* A unique or foreign key is violated: the request fails as a whole.      *)
FailConfirm(w) ==
  /\ job[w].op = "confirm_commit"
  /\ \E g \in job[w].games :
       \/ job[w].confirmed[g] = NoId /\ manual[g] # NoId
       \/ job[w].rows[g] = NoRow
          /\ (own[g] # NoRow \/ job[w].account \notin live \cup {Detached})
  /\ Finish(w)
  /\ UNCHANGED <<live, gone, own, manual, lastId>>

(* delete_manual_ownership takes the row along if it has no account.       *)
BeginWithdraw(w, g) ==
  /\ job[w].op = "idle"
  /\ manual[g] # NoId
  /\ job' = [job EXCEPT ![w] = [Idle EXCEPT !.op = "withdraw_commit",
               !.games = {g}, !.rows = RowsOf({g}),
               !.confirmed = ConfirmationsOf({g})]]
  /\ UNCHANGED <<live, gone, own, manual, lastId>>

(* Faulty variant: the row stays whether or not it has an account.         *)
CommitWithdrawKeepingRow(w) ==
  \E g \in job[w].games :
    /\ job[w].op = "withdraw_commit"
    /\ manual' = [manual EXCEPT ![g] = NoId]
    /\ Finish(w)
    /\ UNCHANGED <<live, gone, own, lastId>>

CommitWithdraw(w) ==
  \E g \in job[w].games :
    LET row == job[w].rows[g]
        drop == row # NoRow /\ row.account = Detached /\ own[g].id = row.id
    IN
    /\ job[w].op = "withdraw_commit"
    /\ drop => g \notin LockedByOthers(w)
    /\ manual' = IF manual[g] = job[w].confirmed[g]
                   THEN [manual EXCEPT ![g] = NoId] ELSE manual
    /\ own' = IF drop THEN [own EXCEPT ![g] = NoRow] ELSE own
    /\ Finish(w)
    /\ UNCHANGED <<live, gone, lastId>>

-----------------------------------------------------------------------------
(* Accounts.                                                               *)

(* create_account, upsert_steam_account: an existing account is reused.    *)
ConnectAccount(a) ==
  /\ \A b \in live : (b \in KeyAccount) # (a \in KeyAccount)
  /\ a \notin gone
  /\ live' = live \cup {a}
  /\ UNCHANGED <<gone, own, manual, lastId, job>>

(* delete_account, first statement: confirmed rows lose their account.     *)
(* The update is not visible before the commit but locks the rows.         *)
DetachConfirmed(w, a) ==
  LET D == {g \in Game : own[g].account = a /\ manual[g] # NoId} IN
  /\ job[w].op = "idle"
  /\ a \in live \cap Deletable
  /\ D \cap LockedByOthers(w) = {}
  /\ job' = [job EXCEPT ![w] = [Idle EXCEPT !.op = "delete_commit",
                                            !.account = a, !.locked = D]]
  /\ UNCHANGED <<live, gone, own, manual, lastId>>

(* Second statement and commit: the rest of the account's rows go with it. *)
(* It waits for a running sync, whose SyncRun references the account.      *)
CommitDelete(w) ==
  LET a == job[w].account IN
  /\ job[w].op = "delete_commit"
  /\ ~SyncRunning(a)
  /\ {g \in Game : own[g].account = a} \cap LockedByOthers(w) = {}
  /\ own' = [g \in Game |->
               IF own[g].account # a THEN own[g]
               ELSE IF g \in job[w].locked THEN [own[g] EXCEPT !.account = Detached]
               ELSE NoRow]
  /\ live' = live \ {a}
  /\ gone' = gone \cup {a}
  /\ Finish(w)
  /\ UNCHANGED <<manual, lastId>>

(* The deletion holds rows that the sync it waits for wants to write: the  *)
(* database aborts one of them, here the deletion, in FailSync the sync.   *)
DeadlockedDelete(w) ==
  /\ job[w].op = "delete_commit"
  /\ \E v \in Worker :
       /\ job[v].op = "sync_commit" /\ job[v].account = job[w].account
       /\ (Updates(v) \cup Stale(v)) \cap job[w].locked # {}
  /\ Finish(w)
  /\ UNCHANGED <<live, gone, own, manual, lastId>>

-----------------------------------------------------------------------------
(* The plain create and delete endpoints, which the frontend does not use. *)

CreateOwnership(g, a) ==
  /\ RawApi
  /\ own[g] = NoRow
  /\ a \in live \cup {Detached}
  /\ IdsLeft({g})
  /\ lastId' = NewIds({g})
  /\ own' = [own EXCEPT ![g] = [id |-> lastId[g] + 1, account |-> a]]
  /\ UNCHANGED <<live, gone, manual, job>>

DeleteOwnership(w, g) ==
  /\ RawApi
  /\ job[w].op = "idle"
  /\ own[g] # NoRow
  /\ g \notin LockedByOthers(w)
  /\ own' = [own EXCEPT ![g] = NoRow]
  /\ UNCHANGED <<live, gone, manual, lastId, job>>

-----------------------------------------------------------------------------

Advance(w) ==
  \/ \E G \in SUBSET Game, complete \in BOOLEAN : FetchSync(w, G, complete)
  \/ CommitSync(w)
  \/ FailSync(w)
  \/ CommitImport(w)
  \/ FailImport(w)
  \/ CommitConfirm(w)
  \/ FailConfirm(w)
  \/ CommitWithdraw(w)
  \/ CommitDelete(w)
  \/ DeadlockedDelete(w)

Begin(w) ==
  \/ \E a \in Account : BeginSync(w, a) \/ DetachConfirmed(w, a)
  \/ \E a \in Account, G \in SUBSET Game : BeginImport(w, G, a)
  \/ \E g \in Game, a \in Account \cup {Detached} : BeginConfirm(w, g, a)
  \/ \E g \in Game : BeginWithdraw(w, g) \/ DeleteOwnership(w, g)

Next ==
  \/ \E w \in Worker : Begin(w) \/ Advance(w)
  \/ \E a \in Account : ConnectAccount(a)
  \/ \E g \in Game, a \in Account \cup {Detached} : CreateOwnership(g, a)

Spec == Init /\ [][Next]_vars

(* Threads run on, and a statement that waits for a row is woken when the  *)
(* transaction it waits for ends: it is not overtaken for ever.            *)
FairSpec == Spec /\ \A w \in Worker : SF_vars(Advance(w))

-----------------------------------------------------------------------------

TypeOK ==
  /\ live \subseteq Account /\ gone \subseteq Account
  /\ own \in [Game -> Row \cup {NoRow}]
  /\ manual \in [Game -> Id \cup {NoId}]
  /\ lastId \in [Game -> Nat]
  /\ job \in [Worker -> Job]

(* A confirmed game is owned: the confirmation has an ownership row, which *)
(* is what recommendations and libraries read.                             *)
ConfirmedIsOwned == \A g \in Game : manual[g] # NoId => own[g] # NoRow

(* A row without account exists only on the strength of a confirmation:    *)
(* when the confirmation goes, nothing else would ever remove the row.     *)
DetachedIsConfirmed ==
  \A g \in Game :
    own[g] # NoRow /\ own[g].account = Detached => manual[g] # NoId

(* Whatever runs at the same time, a sync keeps the row of a game that was *)
(* confirmed when it read the library, and leaves no other paid game of    *)
(* its account that the provider's complete list does not have, unless the *)
(* row came while it ran.                                                  *)
SyncReconciles ==
  [][\A w \in Worker : CommitSync(w) =>
       \A g \in Game :
         LET j == job[w] IN
         /\ g \in j.games => own'[g] # NoRow
         /\ j.confirmed[g] # NoId /\ own[g] # NoRow => own'[g] # NoRow
         /\ j.reconcile /\ own'[g].account = j.account =>
              \/ g \in j.games \cup FreeGame
              \/ j.confirmed[g] # NoId
              \/ j.rows[g].account # j.account \/ j.rows[g].id # own[g].id]_vars

(* Every transaction ends, also when a sync and the deletion of its        *)
(* account wait for each other.                                            *)
JobsFinish == \A w \in Worker : job[w].op # "idle" ~> job[w].op = "idle"

=============================================================================
