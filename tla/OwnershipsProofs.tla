-------------------------- MODULE OwnershipsProofs --------------------------
(***************************************************************************)
(* Proofs about Ownerships for any number of threads, accounts and games.  *)
(*                                                                         *)
(* OwnInv adds the foreign key of the rows and the sync's hold on its      *)
(* account.  ConfirmedIsOwned and DetachedIsConfirmed do not hold when     *)
(* transactions overlap; the last part proves that they hold when they do  *)
(* not, because what a transaction has read is then still so when it       *)
(* commits.                                                                *)
(***************************************************************************)
EXTENDS Ownerships, TLAPS

SyncOps == {"sync_fetch", "sync_commit"}

(* The account that a transaction is about; a sync's is there to stay.     *)
JobOK(w) ==
  /\ job[w].op \in SyncOps \cup {"import_commit", "delete_commit"} =>
       job[w].account \in Account
  /\ job[w].op \in SyncOps => job[w].account \in live

AccountsExist == \A g \in Game : own[g].account \in live \cup {Detached}

OwnInv == TypeOK /\ AccountsExist /\ \A w \in Worker : JobOK(w)

-----------------------------------------------------------------------------

LEMMA RowTypes ==
  /\ Idle \in Job
  /\ \A r \in Row : r # NoRow /\ r.id # 0
  /\ \A i \in Id, a \in Account \cup {Detached} : [id |-> i, account |-> a] \in Row
BY OwnershipAssumption DEF Idle, Job, Ops, Row, NoRow, Id, NoId

LEMMA ReadTypes ==
  ASSUME TypeOK, NEW G
  PROVE  /\ RowsOf(G) \in [Game -> Row \cup {NoRow}]
         /\ ConfirmationsOf(G) \in [Game -> Id \cup {NoId}]
BY DEF TypeOK, RowsOf, ConfirmationsOf

LEMMA NewIdsType ==
  ASSUME TypeOK, NEW G
  PROVE  /\ NewIds(G) \in [Game -> Nat]
         /\ \A g \in Game : lastId[g] + 1 \in Id
BY DEF TypeOK, NewIds, Id

(* What the commit of a sync or an import leaves of a game's row: without  *)
(* conflict an updated row is still the row that was read.                 *)
LEMMA UpsertedType ==
  ASSUME TypeOK, NEW w \in Worker, NEW g \in Game, ~Conflict(w)
  PROVE  /\ Upserted(w, g) \in Row \cup {NoRow}
         /\ own[g] # NoRow \/ g \in job[w].games => Upserted(w, g) \in Row
         /\ Upserted(w, g) # own[g] => Upserted(w, g).account = job[w].account
<1>1. /\ own[g] \in Row \cup {NoRow}
      /\ job[w].account \in Account \cup {Detached}
      /\ job[w].rows[g] \in Row \cup {NoRow}
  BY DEF TypeOK, Job
<1>2. CASE g \in Inserts(w)
  BY <1>1, <1>2, NewIdsType, RowTypes DEF Upserted, Conflict
<1>3. CASE g \in Updates(w)
  <2>1. own[g].id = job[w].rows[g].id /\ job[w].rows[g] \in Row
    BY <1>1, <1>3 DEF Conflict, Updates
  <2>2. own[g] \in Row
    BY <1>1, <2>1, RowTypes DEF NoRow
  <2>3. [own[g] EXCEPT !.account = job[w].account] \in Row
    BY <1>1, <2>2 DEF Row
  <2>4. g \notin Inserts(w)
    BY <1>3 DEF Inserts, Updates
  <2> QED BY <1>1, <2>2, <2>3, <2>4 DEF Upserted, TakesRow, Row
<1>4. CASE g \notin job[w].games
  BY <1>1, <1>4 DEF Upserted, TakesRow, Inserts, Updates
<1> QED BY <1>2, <1>3, <1>4 DEF Inserts, Updates

-----------------------------------------------------------------------------
(* Transactions begin and end: one job changes.                            *)

LEMMA NewJobKeeps ==
  ASSUME OwnInv, NEW w \in Worker, NEW j \in Job,
         job' = [job EXCEPT ![w] = j],
         UNCHANGED <<live, gone, own, manual, lastId>>,
         j.op \in SyncOps \cup {"import_commit", "delete_commit"} => j.account \in Account,
         j.op \in SyncOps => j.account \in live
  PROVE  OwnInv'
BY DEF OwnInv, TypeOK, AccountsExist, JobOK

LEMMA BeginSyncKeeps ==
  ASSUME OwnInv, NEW w \in Worker, NEW a \in Account, BeginSync(w, a)
  PROVE  OwnInv'
<1> DEFINE j == [Idle EXCEPT !.op = "sync_fetch", !.account = a]
<1>1. j \in Job /\ j.op = "sync_fetch" /\ j.account = a
  BY RowTypes DEF Job, Ops
<1> QED BY <1>1, NewJobKeeps DEF BeginSync, SyncOps

(* The job of a sync that has its provider's answer, and what it has read. *)
FetchedRows(w, G) == G \cup {g \in Game : own[g].account = job[w].account}

Fetched(w, G, complete) ==
  [job[w] EXCEPT !.op = "sync_commit", !.games = G, !.reconcile = complete,
                 !.rows = RowsOf(FetchedRows(w, G)),
                 !.confirmed = ConfirmationsOf(FetchedRows(w, G) \ G)]

LEMMA FetchSyncJob ==
  ASSUME NEW w \in Worker, NEW G, NEW complete, FetchSync(w, G, complete)
  PROVE  /\ job' = [job EXCEPT ![w] = Fetched(w, G, complete)]
         /\ UNCHANGED <<live, gone, own, manual, lastId>>
<1>1. job' = [job EXCEPT ![w] = Fetched(w, G, complete)]
  BY DEF FetchSync, Fetched, FetchedRows
<1>2. UNCHANGED <<live, gone, own, manual, lastId>>
  BY DEF FetchSync
<1> QED BY <1>1, <1>2

LEMMA FetchSyncKeeps ==
  ASSUME OwnInv, NEW w \in Worker, NEW G \in SUBSET Game, NEW complete \in BOOLEAN,
         FetchSync(w, G, complete)
  PROVE  OwnInv'
<1> DEFINE R == FetchedRows(w, G)
           j == Fetched(w, G, complete)
<1>1. job[w] \in Job /\ job[w].account \in live /\ job[w].account \in Account
  BY DEF OwnInv, TypeOK, JobOK, FetchSync, SyncOps
<1>2. /\ RowsOf(R) \in [Game -> Row \cup {NoRow}]
      /\ ConfirmationsOf(R \ G) \in [Game -> Id \cup {NoId}]
  BY ReadTypes DEF OwnInv
<1>3. j \in Job /\ j.op = "sync_commit" /\ j.account = job[w].account
  BY <1>1, <1>2 DEF Job, Ops, Fetched
<1> HIDE DEF j
<1> QED BY <1>1, <1>3, FetchSyncJob, NewJobKeeps DEF SyncOps, j

LEMMA BeginImportKeeps ==
  ASSUME OwnInv, NEW w \in Worker, NEW G \in SUBSET Game, NEW a \in Account,
         BeginImport(w, G, a)
  PROVE  OwnInv'
<1> DEFINE j == [Idle EXCEPT !.op = "import_commit", !.account = a, !.games = G,
                             !.rows = RowsOf(G)]
<1>1. j \in Job /\ j.op = "import_commit" /\ j.account = a
  BY RowTypes, ReadTypes DEF Job, Ops, OwnInv
<1> QED BY <1>1, NewJobKeeps DEF BeginImport, SyncOps

LEMMA BeginConfirmKeeps ==
  ASSUME OwnInv, NEW w \in Worker, NEW g \in Game,
         NEW a \in Account \cup {Detached}, BeginConfirm(w, g, a)
  PROVE  OwnInv'
<1> DEFINE j == [Idle EXCEPT !.op = "confirm_commit",
                   !.account = IF own[g] = NoRow THEN a ELSE Detached,
                   !.games = {g}, !.rows = RowsOf({g}),
                   !.confirmed = ConfirmationsOf({g})]
<1>1. j \in Job /\ j.op = "confirm_commit"
  BY RowTypes, ReadTypes DEF Job, Ops, OwnInv
<1> QED BY <1>1, NewJobKeeps DEF BeginConfirm, SyncOps

LEMMA BeginWithdrawKeeps ==
  ASSUME OwnInv, NEW w \in Worker, NEW g \in Game, BeginWithdraw(w, g)
  PROVE  OwnInv'
<1> DEFINE j == [Idle EXCEPT !.op = "withdraw_commit", !.games = {g},
                   !.rows = RowsOf({g}), !.confirmed = ConfirmationsOf({g})]
<1>1. j \in Job /\ j.op = "withdraw_commit"
  BY RowTypes, ReadTypes DEF Job, Ops, OwnInv
<1> QED BY <1>1, NewJobKeeps DEF BeginWithdraw, SyncOps

LEMMA DetachConfirmedKeeps ==
  ASSUME OwnInv, NEW w \in Worker, NEW a \in Account, DetachConfirmed(w, a)
  PROVE  OwnInv'
<1> DEFINE D == {g \in Game : own[g].account = a /\ manual[g] # NoId}
           j == [Idle EXCEPT !.op = "delete_commit", !.account = a, !.locked = D]
<1>1. j \in Job /\ j.op = "delete_commit" /\ j.account = a
  BY RowTypes DEF Job, Ops
<1> QED BY <1>1, NewJobKeeps DEF DetachConfirmed, SyncOps

(* A failed transaction changes nothing but its job.                       *)
LEMMA FailKeeps ==
  ASSUME OwnInv, NEW w \in Worker,
         FailSync(w) \/ FailImport(w) \/ FailConfirm(w) \/ DeadlockedDelete(w)
  PROVE  OwnInv'
<1>1. Idle \in Job /\ Idle.op = "idle"
  BY RowTypes DEF Idle
<1>2. job' = [job EXCEPT ![w] = Idle] /\ UNCHANGED <<live, gone, own, manual, lastId>>
  BY DEF FailSync, FailImport, FailConfirm, DeadlockedDelete, Finish
<1> QED BY <1>1, <1>2, NewJobKeeps DEF SyncOps

-----------------------------------------------------------------------------
(* Commits.                                                                *)

(* After a commit its job is idle; what others rely on is that no account  *)
(* of a running sync goes.                                                 *)
LEMMA FinishKeeps ==
  ASSUME OwnInv, NEW w \in Worker, Finish(w),
         \A v \in Worker \ {w} : job[v].op \in SyncOps => job[v].account \in live'
  PROVE  job' \in [Worker -> Job] /\ \A v \in Worker : JobOK(v)'
<1>1. Idle \in Job /\ Idle.op = "idle"
  BY RowTypes DEF Idle
<1> QED BY <1>1 DEF OwnInv, TypeOK, JobOK, Finish, SyncOps

LEMMA CommitSyncKeeps ==
  ASSUME OwnInv, NEW w \in Worker, CommitSync(w)
  PROVE  OwnInv'
<1>1. job[w].account \in live
  BY DEF OwnInv, JobOK, CommitSync, SyncOps
<1>2. \A g \in Game : own'[g] = NoRow \/ own'[g] = Upserted(w, g)
  BY DEF CommitSync
<1>3. own' \in [Game -> Row \cup {NoRow}] /\ AccountsExist'
  <2>1. \A g \in Game : Upserted(w, g) \in Row \cup {NoRow}
    BY UpsertedType DEF OwnInv, CommitSync, CanUpsert
  <2>2. own' \in [Game -> Row \cup {NoRow}]
    BY <2>1 DEF CommitSync
  <2>3. AccountsExist'
    BY <1>1, <1>2, UpsertedType
    DEF OwnInv, AccountsExist, NoRow, CommitSync, CanUpsert
  <2> QED BY <2>2, <2>3
<1>4. lastId' \in [Game -> Nat]
  BY NewIdsType DEF OwnInv, CommitSync
<1>5. job' \in [Worker -> Job] /\ \A v \in Worker : JobOK(v)'
  BY FinishKeeps DEF CommitSync, OwnInv, JobOK
<1> QED BY <1>3, <1>4, <1>5 DEF OwnInv, TypeOK, CommitSync

LEMMA CommitImportKeeps ==
  ASSUME OwnInv, NEW w \in Worker, CommitImport(w)
  PROVE  OwnInv'
<1>1. job[w].account \in Account /\ job[w].account \in live' /\ live \subseteq live'
  BY DEF OwnInv, JobOK, CommitImport
<1>2. own' \in [Game -> Row \cup {NoRow}]
  BY UpsertedType DEF OwnInv, CommitImport, CanUpsert
<1>3. AccountsExist'
  BY <1>1, UpsertedType DEF OwnInv, AccountsExist, CommitImport, CanUpsert
<1>4. lastId' \in [Game -> Nat]
  BY NewIdsType DEF OwnInv, CommitImport
<1>5. job' \in [Worker -> Job] /\ \A v \in Worker : JobOK(v)'
  BY <1>1, FinishKeeps DEF CommitImport, OwnInv, JobOK
<1> QED BY <1>1, <1>2, <1>3, <1>4, <1>5 DEF OwnInv, TypeOK, CommitImport

LEMMA CommitConfirmKeeps ==
  ASSUME OwnInv, NEW w \in Worker, CommitConfirm(w)
  PROVE  OwnInv'
<1>1. PICK g \in job[w].games : CommitConfirm(w)!(g)
  BY DEF CommitConfirm
<1>2. g \in Game /\ lastId[g] + 1 \in Id /\ NewIds({g}) \in [Game -> Nat]
  BY NewIdsType DEF OwnInv, TypeOK, Job
<1>3. \/ own' = own
      \/ /\ own' = [own EXCEPT ![g] = [id |-> lastId[g] + 1, account |-> job[w].account]]
         /\ job[w].account \in live \cup {Detached}
  BY <1>1
<1>4. own' \in [Game -> Row \cup {NoRow}] /\ AccountsExist'
  BY <1>1, <1>2, <1>3, RowTypes DEF OwnInv, TypeOK, AccountsExist
<1>5. manual' \in [Game -> Id \cup {NoId}] /\ lastId' \in [Game -> Nat]
  BY <1>1, <1>2 DEF OwnInv, TypeOK
<1>6. job' \in [Worker -> Job] /\ \A v \in Worker : JobOK(v)'
  BY <1>1, FinishKeeps DEF OwnInv, JobOK
<1> QED BY <1>1, <1>4, <1>5, <1>6 DEF OwnInv, TypeOK

LEMMA CommitWithdrawKeeps ==
  ASSUME OwnInv, NEW w \in Worker, CommitWithdraw(w)
  PROVE  OwnInv'
<1>1. PICK g \in job[w].games : CommitWithdraw(w)!(g)
  BY DEF CommitWithdraw
<1>2. own' = own \/ own' = [own EXCEPT ![g] = NoRow]
  BY <1>1
<1>3. own' \in [Game -> Row \cup {NoRow}] /\ AccountsExist'
  BY <1>1, <1>2 DEF OwnInv, TypeOK, AccountsExist, NoRow
<1>4. manual' \in [Game -> Id \cup {NoId}]
  BY <1>1 DEF OwnInv, TypeOK
<1>5. job' \in [Worker -> Job] /\ \A v \in Worker : JobOK(v)'
  BY <1>1, FinishKeeps DEF OwnInv, JobOK
<1> QED BY <1>1, <1>3, <1>4, <1>5 DEF OwnInv, TypeOK

(* No sync of the account is under way, so none is left without it; rows   *)
(* of the account go or lose it.                                           *)
LEMMA CommitDeleteKeeps ==
  ASSUME OwnInv, NEW w \in Worker, CommitDelete(w)
  PROVE  OwnInv'
<1>1. job[w].account \in Account
  BY DEF OwnInv, JobOK, CommitDelete
<1>2. own' \in [Game -> Row \cup {NoRow}]
  <2>1. ASSUME NEW g \in Game, own[g].account = job[w].account
        PROVE  [own[g] EXCEPT !.account = Detached] \in Row
    BY <1>1, <2>1, OwnershipAssumption DEF OwnInv, TypeOK, Row, NoRow
  <2> QED BY <2>1 DEF OwnInv, TypeOK, CommitDelete
<1>3. AccountsExist'
  BY <1>2 DEF OwnInv, TypeOK, AccountsExist, CommitDelete, Row, NoRow
<1>4. job' \in [Worker -> Job] /\ \A v \in Worker : JobOK(v)'
  BY FinishKeeps DEF CommitDelete, SyncRunning, SyncOps, OwnInv, JobOK
<1> QED BY <1>1, <1>2, <1>3, <1>4 DEF OwnInv, TypeOK, CommitDelete

(* Requests that are one statement.                                        *)
LEMMA RequestsKeep ==
  ASSUME OwnInv,
         \/ \E a \in Account : ConnectAccount(a)
         \/ \E g \in Game, a \in Account \cup {Detached} : CreateOwnership(g, a)
         \/ \E w \in Worker, g \in Game : DeleteOwnership(w, g)
  PROVE  OwnInv'
<1>1. ASSUME NEW a \in Account, ConnectAccount(a)
      PROVE  OwnInv'
  BY <1>1 DEF ConnectAccount, OwnInv, TypeOK, AccountsExist, JobOK
<1>2. ASSUME NEW g \in Game, NEW a \in Account \cup {Detached}, CreateOwnership(g, a)
      PROVE  OwnInv'
  BY <1>2, NewIdsType, RowTypes
  DEF CreateOwnership, OwnInv, TypeOK, AccountsExist, JobOK
<1>3. ASSUME NEW w \in Worker, NEW g \in Game, DeleteOwnership(w, g)
      PROVE  OwnInv'
  BY <1>3 DEF DeleteOwnership, OwnInv, TypeOK, AccountsExist, JobOK, NoRow
<1> QED BY <1>1, <1>2, <1>3

-----------------------------------------------------------------------------

LEMMA InitOwn == Init => OwnInv
<1> SUFFICES ASSUME Init
             PROVE  OwnInv
  OBVIOUS
<1>1. TypeOK
  BY RowTypes DEF Init, TypeOK
<1>2. AccountsExist
  BY DEF Init, AccountsExist, NoRow
<1>3. \A w \in Worker : JobOK(w)
  <2>1. Idle.op = "idle"
    BY DEF Idle
  <2> QED BY <2>1 DEF Init, JobOK, SyncOps
<1> QED BY <1>1, <1>2, <1>3 DEF OwnInv

LEMMA NextOwn == OwnInv /\ [Next]_vars => OwnInv'
<1> SUFFICES ASSUME OwnInv, [Next]_vars
             PROVE  OwnInv'
  OBVIOUS
<1>1. ASSUME NEW w \in Worker, Begin(w)
      PROVE  OwnInv'
  BY <1>1, BeginSyncKeeps, DetachConfirmedKeeps, BeginImportKeeps,
     BeginConfirmKeeps, BeginWithdrawKeeps, RequestsKeep
  DEF Begin
<1>2. ASSUME NEW w \in Worker, Advance(w)
      PROVE  OwnInv'
  BY <1>2, FetchSyncKeeps, FailKeeps, CommitSyncKeeps, CommitImportKeeps,
     CommitConfirmKeeps, CommitWithdrawKeeps, CommitDeleteKeeps
  DEF Advance
<1>3. CASE UNCHANGED vars
  BY <1>3 DEF vars, OwnInv, TypeOK, AccountsExist, JobOK
<1> QED BY <1>1, <1>2, <1>3, RequestsKeep DEF Next

(* Types, rows and the accounts of running syncs, in every state.          *)
THEOREM OwnInvariant == Spec => []OwnInv
BY InitOwn, NextOwn, PTL DEF Spec

(* Every variable keeps its type, for any threads, accounts and games.     *)
THEOREM TypeCorrect == Spec => []TypeOK
<1>1. OwnInv => TypeOK
  BY DEF OwnInv
<1> QED BY <1>1, OwnInvariant, PTL

-----------------------------------------------------------------------------
(* What the commit of a sync does.                                         *)

LEMMA CommitReconciles ==
  ASSUME OwnInv, NEW w \in Worker, CommitSync(w), NEW g \in Game
  PROVE  LET j == job[w] IN
         /\ g \in j.games => own'[g] # NoRow
         /\ j.confirmed[g] # NoId /\ own[g] # NoRow => own'[g] # NoRow
         /\ j.reconcile /\ own'[g].account = j.account =>
              \/ g \in j.games \cup FreeGame
              \/ j.confirmed[g] # NoId
              \/ j.rows[g].account # j.account \/ j.rows[g].id # own[g].id
<1>1. own'[g] = IF g \in Stale(w) /\ own[g].id = job[w].rows[g].id THEN NoRow
                ELSE Upserted(w, g)
  BY DEF CommitSync
<1>2. g \in job[w].games => own'[g] # NoRow
  BY <1>1, UpsertedType, RowTypes DEF OwnInv, CommitSync, CanUpsert, Stale
<1>3. job[w].confirmed[g] # NoId /\ own[g] # NoRow => own'[g] # NoRow
  BY <1>1, UpsertedType, RowTypes DEF OwnInv, CommitSync, CanUpsert, Stale
<1>4. ASSUME job[w].reconcile, g \notin job[w].games \cup FreeGame,
             job[w].confirmed[g] = NoId,
             job[w].rows[g].account = job[w].account, job[w].rows[g].id = own[g].id
      PROVE  own'[g].account # job[w].account
  <2>1. job[w].account # Detached
    BY OwnershipAssumption DEF OwnInv, JobOK, CommitSync, SyncOps
  <2>2. g \in Stale(w)
    BY <1>4, <2>1 DEF Stale, NoRow
  <2> QED BY <1>1, <1>4, <2>1, <2>2 DEF NoRow
<1> QED BY <1>2, <1>3, <1>4

(* Whatever has committed since a sync read the library, its commit keeps  *)
(* what it found confirmed and removes what the provider no longer lists.  *)
THEOREM SyncsReconcile == Spec => SyncReconciles
<1>1. OwnInv /\ [Next]_vars =>
        [\A w \in Worker : CommitSync(w) =>
           \A g \in Game :
             LET j == job[w] IN
             /\ g \in j.games => own'[g] # NoRow
             /\ j.confirmed[g] # NoId /\ own[g] # NoRow => own'[g] # NoRow
             /\ j.reconcile /\ own'[g].account = j.account =>
                  \/ g \in j.games \cup FreeGame
                  \/ j.confirmed[g] # NoId
                  \/ j.rows[g].account # j.account \/ j.rows[g].id # own[g].id]_vars
  BY CommitReconciles
<1> QED BY <1>1, OwnInvariant, PTL DEF Spec, SyncReconciles

-----------------------------------------------------------------------------
(* One transaction at a time, and nobody at the plain endpoints: what a    *)
(* transaction has read is still so when it commits.                       *)

ReadOK(w) ==
  /\ \A g \in Game : job[w].rows[g] # NoRow => job[w].rows[g] = own[g]
  /\ job[w].op \in {"sync_commit", "import_commit", "confirm_commit", "withdraw_commit"} =>
       \A g \in job[w].games : job[w].rows[g] = own[g]
  /\ job[w].op \in {"confirm_commit", "withdraw_commit"} =>
       \A g \in job[w].games : job[w].confirmed[g] = manual[g]
  /\ job[w].op = "sync_commit" =>
       \A g \in Game \ job[w].games :
         job[w].rows[g] # NoRow => job[w].confirmed[g] = manual[g]
  /\ job[w].op = "delete_commit" =>
       job[w].locked = {g \in Game : own[g].account = job[w].account /\ manual[g] # NoId}

SerialInv ==
  /\ OwnInv
  /\ \A w \in Worker : ReadOK(w)
  /\ ConfirmedIsOwned
  /\ DetachedIsConfirmed

Serial == (\A v, w \in Worker : v = w) /\ ~RawApi

(* The only worker begins: nothing else changes.                           *)
LEMMA SerialBegin ==
  ASSUME Serial, SerialInv, NEW w \in Worker, NEW j \in Job,
         job' = [job EXCEPT ![w] = j],
         UNCHANGED <<live, gone, own, manual, lastId>>,
         OwnInv',
         ReadOK(w)'
  PROVE  SerialInv'
BY DEF Serial, SerialInv, ConfirmedIsOwned, DetachedIsConfirmed

LEMMA SerialEnd ==
  ASSUME Serial, NEW w \in Worker, OwnInv, Finish(w)
  PROVE  \A v \in Worker : ReadOK(v)'
<1>1. \A v \in Worker : job'[v] = Idle
  BY DEF Serial, Finish, OwnInv, TypeOK
<1>2. Idle.op = "idle" /\ \A g \in Game : Idle.rows[g] = NoRow
  BY DEF Idle
<1> QED BY <1>1, <1>2 DEF ReadOK

LEMMA SerialSyncBegins ==
  ASSUME Serial, SerialInv, OwnInv', NEW w \in Worker,
         \/ \E a \in Account : BeginSync(w, a)
         \/ \E G \in SUBSET Game, complete \in BOOLEAN : FetchSync(w, G, complete)
  PROVE  SerialInv'
<1>1. job[w] \in Job /\ Idle \in Job /\ job' \in [Worker -> Job]
  BY RowTypes DEF SerialInv, OwnInv, TypeOK
<1>2. ASSUME NEW a \in Account, BeginSync(w, a)
      PROVE  SerialInv'
  <2> DEFINE j == [Idle EXCEPT !.op = "sync_fetch", !.account = a]
  <2>1. /\ j \in Job /\ j.op = "sync_fetch"
        /\ j.games = {} /\ \A g \in Game : j.rows[g] = NoRow
    BY <1>1 DEF Job, Ops, Idle
  <2>2. job' = [job EXCEPT ![w] = j] /\ UNCHANGED <<live, gone, own, manual, lastId>>
    BY <1>2 DEF BeginSync
  <2> HIDE DEF j
  <2>3. job'[w] = j
    BY <2>2, <1>1 DEF SerialInv, OwnInv, TypeOK
  <2>4. ReadOK(w)'
    BY <2>1, <2>3 DEF ReadOK
  <2> QED BY <2>1, <2>2, <2>4, SerialBegin
<1>3. ASSUME NEW G \in SUBSET Game, NEW complete \in BOOLEAN, FetchSync(w, G, complete)
      PROVE  SerialInv'
  <2> DEFINE R == FetchedRows(w, G)
             j == Fetched(w, G, complete)
  <2>1. job' = [job EXCEPT ![w] = j] /\ UNCHANGED <<live, gone, own, manual, lastId>>
    BY <1>3, FetchSyncJob
  <2>2. /\ j.op = "sync_commit" /\ j.games = G
        /\ j.rows = RowsOf(R) /\ j.confirmed = ConfirmationsOf(R \ G)
    BY <1>1 DEF Job, Fetched
  <2>3. /\ \A g \in Game : RowsOf(R)[g] = IF g \in R THEN own[g] ELSE NoRow
        /\ \A g \in Game \ G : g \in R => ConfirmationsOf(R \ G)[g] = manual[g]
    BY DEF RowsOf, ConfirmationsOf
  <2>4. G \subseteq R /\ G \subseteq Game
    BY DEF FetchedRows
  <2> HIDE DEF j, R
  <2>5. job'[w] = j
    BY <2>1 DEF SerialInv, OwnInv, TypeOK
  <2>6. ReadOK(w)'
    BY <2>1, <2>2, <2>3, <2>4, <2>5 DEF ReadOK
  <2>7. j \in Job
    BY <1>1, <2>5
  <2> QED BY <2>1, <2>6, <2>7, SerialBegin
<1> QED BY <1>2, <1>3

(* Transactions that read exactly what they are about.                     *)
LEMMA SerialRead ==
  ASSUME Serial, SerialInv, OwnInv', NEW w \in Worker, NEW G \in SUBSET Game,
         NEW j \in Job,
         job' = [job EXCEPT ![w] = j],
         UNCHANGED <<live, gone, own, manual, lastId>>,
         j.op \in {"import_commit", "confirm_commit", "withdraw_commit"},
         j.games = G, j.rows = RowsOf(G),
         j.op # "import_commit" => j.confirmed = ConfirmationsOf(G)
  PROVE  SerialInv'
<1>1. job'[w] = j
  BY DEF SerialInv, OwnInv, TypeOK
<1>2. \A g \in Game : j.rows[g] = IF g \in G THEN own[g] ELSE NoRow
  BY DEF RowsOf
<1>3. j.op # "import_commit" => \A g \in G : j.confirmed[g] = manual[g]
  BY DEF ConfirmationsOf
<1>4. ReadOK(w)'
  BY <1>1, <1>2, <1>3 DEF ReadOK
<1> QED BY <1>4, SerialBegin

LEMMA SerialWritesBegin ==
  ASSUME Serial, SerialInv, OwnInv', NEW w \in Worker,
         \/ \E a \in Account, G \in SUBSET Game : BeginImport(w, G, a)
         \/ \E g \in Game, a \in Account \cup {Detached} : BeginConfirm(w, g, a)
         \/ \E g \in Game : BeginWithdraw(w, g)
  PROVE  SerialInv'
<1>1. ASSUME NEW j, job' = [job EXCEPT ![w] = j]
      PROVE  j \in Job
  <2>1. job'[w] = j /\ job'[w] \in Job
    BY <1>1 DEF SerialInv, OwnInv, TypeOK
  <2> QED BY <2>1
<1>2. ASSUME NEW a \in Account, NEW G \in SUBSET Game, BeginImport(w, G, a)
      PROVE  SerialInv'
  <2> DEFINE j == [Idle EXCEPT !.op = "import_commit", !.account = a, !.games = G,
                               !.rows = RowsOf(G)]
  <2>1. j.op = "import_commit" /\ j.games = G /\ j.rows = RowsOf(G)
    BY DEF Idle
  <2>2. job' = [job EXCEPT ![w] = j] /\ UNCHANGED <<live, gone, own, manual, lastId>>
    BY <1>2 DEF BeginImport
  <2> HIDE DEF j
  <2> QED BY <1>1, <2>1, <2>2, SerialRead
<1>3. ASSUME NEW g \in Game, NEW a \in Account \cup {Detached}, BeginConfirm(w, g, a)
      PROVE  SerialInv'
  <2> DEFINE j == [Idle EXCEPT !.op = "confirm_commit",
                     !.account = IF own[g] = NoRow THEN a ELSE Detached,
                     !.games = {g}, !.rows = RowsOf({g}),
                     !.confirmed = ConfirmationsOf({g})]
  <2>1. /\ j.op = "confirm_commit" /\ j.games = {g} /\ j.rows = RowsOf({g})
        /\ j.confirmed = ConfirmationsOf({g})
    BY DEF Idle
  <2>2. job' = [job EXCEPT ![w] = j] /\ UNCHANGED <<live, gone, own, manual, lastId>>
    BY <1>3 DEF BeginConfirm
  <2>3. {g} \in SUBSET Game
    OBVIOUS
  <2> HIDE DEF j
  <2> QED BY <1>1, <2>1, <2>2, <2>3, SerialRead
<1>4. ASSUME NEW g \in Game, BeginWithdraw(w, g)
      PROVE  SerialInv'
  <2> DEFINE j == [Idle EXCEPT !.op = "withdraw_commit", !.games = {g},
                     !.rows = RowsOf({g}), !.confirmed = ConfirmationsOf({g})]
  <2>1. /\ j.op = "withdraw_commit" /\ j.games = {g} /\ j.rows = RowsOf({g})
        /\ j.confirmed = ConfirmationsOf({g})
    BY DEF Idle
  <2>2. job' = [job EXCEPT ![w] = j] /\ UNCHANGED <<live, gone, own, manual, lastId>>
    BY <1>4 DEF BeginWithdraw
  <2>3. {g} \in SUBSET Game
    OBVIOUS
  <2> HIDE DEF j
  <2> QED BY <1>1, <2>1, <2>2, <2>3, SerialRead
<1> QED BY <1>2, <1>3, <1>4

LEMMA SerialDeleteBegins ==
  ASSUME Serial, SerialInv, OwnInv', NEW w \in Worker, NEW a \in Account,
         DetachConfirmed(w, a)
  PROVE  SerialInv'
<1> DEFINE D == {g \in Game : own[g].account = a /\ manual[g] # NoId}
           j == [Idle EXCEPT !.op = "delete_commit", !.account = a, !.locked = D]
<1>1. /\ j.op = "delete_commit" /\ j.account = a /\ j.locked = D
      /\ j.games = {} /\ \A g \in Game : j.rows[g] = NoRow
  BY DEF Idle
<1>2. job' = [job EXCEPT ![w] = j] /\ UNCHANGED <<live, gone, own, manual, lastId>>
  BY DEF DetachConfirmed
<1> HIDE DEF j
<1>3. job'[w] = j /\ j \in Job
  BY <1>2 DEF SerialInv, OwnInv, TypeOK
<1>4. ReadOK(w)'
  BY <1>1, <1>2, <1>3 DEF ReadOK
<1> QED BY <1>2, <1>3, <1>4, SerialBegin

(* A failed transaction, or a statement that is not about rows.            *)
LEMMA SerialUnchanged ==
  ASSUME Serial, SerialInv, OwnInv', UNCHANGED <<own, manual>>,
         job' = job \/ \E w \in Worker : Finish(w)
  PROVE  SerialInv'
<1>1. \A v \in Worker : ReadOK(v)'
  <2>1. CASE job' = job
    BY <2>1 DEF SerialInv, ReadOK
  <2>2. CASE \E w \in Worker : Finish(w)
    BY <2>2, SerialEnd DEF SerialInv
  <2> QED BY <2>1, <2>2
<1> QED BY <1>1 DEF SerialInv, ConfirmedIsOwned, DetachedIsConfirmed

(* A row goes only unconfirmed, and comes with an account.                 *)
LEMMA SerialCommitSync ==
  ASSUME Serial, SerialInv, OwnInv', NEW w \in Worker, CommitSync(w)
  PROVE  SerialInv'
<1>1. \A v \in Worker : ReadOK(v)'
  BY SerialEnd DEF SerialInv, CommitSync
<1>2. ASSUME NEW g \in Game
      PROVE  /\ manual[g] # NoId => own'[g] # NoRow
             /\ own'[g] # NoRow /\ own'[g].account = Detached => manual[g] # NoId
  <2>1. job[w].account # Detached
    BY OwnershipAssumption DEF SerialInv, OwnInv, JobOK, CommitSync, SyncOps
  <2>2. own'[g] = IF g \in Stale(w) /\ own[g].id = job[w].rows[g].id THEN NoRow
                  ELSE Upserted(w, g)
    BY DEF CommitSync
  <2>3. g \in Stale(w) => manual[g] = NoId
    BY DEF SerialInv, ReadOK, Stale, CommitSync
  <2>4. /\ own[g] # NoRow => Upserted(w, g) # NoRow
        /\ Upserted(w, g) # own[g] => Upserted(w, g).account = job[w].account
    BY UpsertedType, RowTypes DEF SerialInv, OwnInv, CommitSync, CanUpsert
  <2> QED BY <2>1, <2>2, <2>3, <2>4 DEF SerialInv, ConfirmedIsOwned, DetachedIsConfirmed
<1> QED BY <1>1, <1>2 DEF SerialInv, ConfirmedIsOwned, DetachedIsConfirmed, CommitSync

LEMMA SerialCommitImport ==
  ASSUME Serial, SerialInv, OwnInv', NEW w \in Worker, CommitImport(w)
  PROVE  SerialInv'
<1>1. \A v \in Worker : ReadOK(v)'
  BY SerialEnd DEF SerialInv, CommitImport
<1>2. ASSUME NEW g \in Game
      PROVE  /\ manual[g] # NoId => own'[g] # NoRow
             /\ own'[g] # NoRow /\ own'[g].account = Detached => manual[g] # NoId
  <2>1. job[w].account # Detached
    BY OwnershipAssumption DEF SerialInv, OwnInv, JobOK, CommitImport
  <2>2. own'[g] = Upserted(w, g)
    BY DEF CommitImport
  <2>3. /\ own[g] # NoRow => Upserted(w, g) # NoRow
        /\ Upserted(w, g) # own[g] => Upserted(w, g).account = job[w].account
    BY UpsertedType, RowTypes DEF SerialInv, OwnInv, CommitImport, CanUpsert
  <2> QED BY <2>1, <2>2, <2>3 DEF SerialInv, ConfirmedIsOwned, DetachedIsConfirmed
<1> QED BY <1>1, <1>2 DEF SerialInv, ConfirmedIsOwned, DetachedIsConfirmed, CommitImport

LEMMA SerialCommitConfirm ==
  ASSUME Serial, SerialInv, OwnInv', NEW w \in Worker, CommitConfirm(w)
  PROVE  SerialInv'
<1>1. PICK g \in job[w].games : CommitConfirm(w)!(g)
  BY DEF CommitConfirm
<1>2. /\ g \in Game /\ lastId[g] + 1 \in Id
      /\ manual \in [Game -> Id \cup {NoId}] /\ own \in [Game -> Row \cup {NoRow}]
      /\ job[w].account \in Account \cup {Detached}
  BY NewIdsType DEF SerialInv, OwnInv, TypeOK, Job
<1>3. job[w].rows[g] = own[g] /\ job[w].confirmed[g] = manual[g]
  BY <1>1 DEF SerialInv, ReadOK
<1>4. \A v \in Worker : ReadOK(v)'
  BY <1>1, SerialEnd DEF SerialInv
<1>5. /\ manual'[g] # NoId /\ own'[g] # NoRow
      /\ \A h \in Game \ {g} : manual'[h] = manual[h] /\ own'[h] = own[h]
  BY <1>1, <1>2, <1>3, RowTypes DEF NoId, Id
<1> QED BY <1>2, <1>4, <1>5 DEF SerialInv, ConfirmedIsOwned, DetachedIsConfirmed

LEMMA SerialCommitWithdraw ==
  ASSUME Serial, SerialInv, OwnInv', NEW w \in Worker, CommitWithdraw(w)
  PROVE  SerialInv'
<1>1. PICK g \in job[w].games : CommitWithdraw(w)!(g)
  BY DEF CommitWithdraw
<1>2. /\ g \in Game
      /\ manual \in [Game -> Id \cup {NoId}] /\ own \in [Game -> Row \cup {NoRow}]
  BY DEF SerialInv, OwnInv, TypeOK, Job
<1>3. job[w].rows[g] = own[g] /\ job[w].confirmed[g] = manual[g]
  BY <1>1 DEF SerialInv, ReadOK
<1>4. \A v \in Worker : ReadOK(v)'
  BY <1>1, SerialEnd DEF SerialInv
<1>5. /\ manual'[g] = NoId
      /\ own'[g] = NoRow \/ own'[g].account # Detached
      /\ \A h \in Game \ {g} : manual'[h] = manual[h] /\ own'[h] = own[h]
  BY <1>1, <1>2, <1>3
<1> QED BY <1>2, <1>4, <1>5 DEF SerialInv, ConfirmedIsOwned, DetachedIsConfirmed

(* The rows detached are all the account's confirmed ones.                 *)
LEMMA SerialCommitDelete ==
  ASSUME Serial, SerialInv, OwnInv', NEW w \in Worker, CommitDelete(w)
  PROVE  SerialInv'
<1>1. \A v \in Worker : ReadOK(v)'
  BY SerialEnd DEF SerialInv, CommitDelete
<1>2. ASSUME NEW g \in Game
      PROVE  /\ manual[g] # NoId => own'[g] # NoRow
             /\ own'[g] # NoRow /\ own'[g].account = Detached => manual[g] # NoId
  <2>1. g \in job[w].locked <=> own[g].account = job[w].account /\ manual[g] # NoId
    BY DEF SerialInv, ReadOK, CommitDelete
  <2>2. CASE own[g].account # job[w].account
    BY <2>2 DEF CommitDelete, SerialInv, ConfirmedIsOwned, DetachedIsConfirmed
  <2>3. CASE own[g].account = job[w].account /\ manual[g] = NoId
    BY <2>1, <2>3 DEF CommitDelete
  <2>4. CASE own[g].account = job[w].account /\ manual[g] # NoId
    <3>1. own[g] \in Row
      BY <2>4 DEF SerialInv, ConfirmedIsOwned, OwnInv, TypeOK
    <3>2. [own[g] EXCEPT !.account = Detached] \in Row
      BY <3>1 DEF Row
    <3> QED BY <2>1, <2>4, <3>2, RowTypes DEF CommitDelete
  <2> QED BY <2>2, <2>3, <2>4
<1> QED BY <1>1, <1>2 DEF SerialInv, ConfirmedIsOwned, DetachedIsConfirmed, CommitDelete

LEMMA SerialNext ==
  ASSUME Serial
  PROVE  SerialInv /\ [Next]_vars => SerialInv'
<1> SUFFICES ASSUME SerialInv, [Next]_vars
             PROVE  SerialInv'
  OBVIOUS
<1>1. OwnInv'
  BY NextOwn DEF SerialInv
<1>2. ASSUME NEW w \in Worker, Begin(w)
      PROVE  SerialInv'
  <2>1. ~ \E g \in Game : DeleteOwnership(w, g)
    BY DEF Serial, DeleteOwnership
  <2> QED BY <1>1, <1>2, <2>1, SerialSyncBegins, SerialWritesBegin, SerialDeleteBegins
          DEF Begin
<1>3. ASSUME NEW w \in Worker, Advance(w)
      PROVE  SerialInv'
  <2>1. ASSUME FailSync(w) \/ FailImport(w) \/ FailConfirm(w) \/ DeadlockedDelete(w)
        PROVE  SerialInv'
    BY <1>1, <2>1, SerialUnchanged DEF FailSync, FailImport, FailConfirm, DeadlockedDelete
  <2> QED BY <1>1, <1>3, <2>1, SerialSyncBegins, SerialCommitSync,
             SerialCommitImport, SerialCommitConfirm, SerialCommitWithdraw,
             SerialCommitDelete
          DEF Advance
<1>4. ASSUME NEW a \in Account, ConnectAccount(a)
      PROVE  SerialInv'
  BY <1>1, <1>4, SerialUnchanged DEF ConnectAccount
<1>5. ~ \E g \in Game, a \in Account \cup {Detached} : CreateOwnership(g, a)
  BY DEF Serial, CreateOwnership
<1>6. CASE UNCHANGED vars
  BY <1>1, <1>6, SerialUnchanged DEF vars
<1> QED BY <1>2, <1>3, <1>4, <1>5, <1>6 DEF Next

LEMMA SerialInit == Init => SerialInv
<1> SUFFICES ASSUME Init
             PROVE  SerialInv
  OBVIOUS
<1>1. ConfirmedIsOwned /\ DetachedIsConfirmed
  BY DEF Init, ConfirmedIsOwned, DetachedIsConfirmed
<1>2. \A w \in Worker : ReadOK(w)
  <2>1. Idle.op = "idle" /\ \A g \in Game : Idle.rows[g] = NoRow
    BY DEF Idle
  <2> QED BY <2>1 DEF Init, ReadOK
<1> QED BY <1>1, <1>2, InitOwn DEF SerialInv

(* With one transaction at a time, a confirmed game is always owned, for   *)
(* any library, any accounts and any order of operations.                  *)
THEOREM SerialConfirmedIsOwned ==
  ASSUME Serial
  PROVE  Spec => []ConfirmedIsOwned
<1>1. SerialInv => ConfirmedIsOwned
  BY DEF SerialInv
<1>2. SerialInv /\ [Next]_vars => SerialInv'
  BY SerialNext
<1> QED BY <1>1, <1>2, SerialInit, PTL DEF Spec

(* With one transaction at a time, no row is left without account and      *)
(* without confirmation.                                                   *)
THEOREM SerialDetachedIsConfirmed ==
  ASSUME Serial
  PROVE  Spec => []DetachedIsConfirmed
<1>1. SerialInv => DetachedIsConfirmed
  BY DEF SerialInv
<1>2. SerialInv /\ [Next]_vars => SerialInv'
  BY SerialNext
<1> QED BY <1>1, <1>2, SerialInit, PTL DEF Spec

=============================================================================
