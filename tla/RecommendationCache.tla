------------------------ MODULE RecommendationCache ------------------------
(***************************************************************************)
(* The recommendation cache of the backend                                 *)
(* (services/recommendation_cache.py and api/recommendations.py).          *)
(*                                                                         *)
(* Every backend process keeps computed recommendation lists in memory,    *)
(* tagged with a process-local revision.  A relevant commit is followed,   *)
(* in the after_commit hook of its session, by two further steps: the      *)
(* local cache is invalidated, and a shared revision in the database is    *)
(* incremented on a second connection.  Requests read the shared revision  *)
(* first and drop the local entries when it differs from the last one      *)
(* seen.  The factory that computes a list runs outside the cache's lock.  *)
(*                                                                         *)
(* The library data is abstracted to the number of relevant commits made   *)
(* so far; a recommendation list to the number of commits its first query  *)
(* saw.  Two lists are equal for the properties iff these numbers are.     *)
(***************************************************************************)
EXTENDS Integers, Sequences, SequencesExt

CONSTANTS
  Process,      \* backend worker processes, each with its own cache
  Session,      \* database sessions that change the library
  Client,       \* browsers; each has at most one request in flight
  Key,          \* cache keys: list name, selected players, options
  MaxEntries,   \* settings.recommendation_cache_max_entries
  MaxCommits,   \* bound on the number of relevant commits
  MaxCrashes,   \* bound on the number of process crashes
  MaxLostBumps, \* bound on failures of the hook's second connection
  None          \* absence of a revision, an entry or a browser copy

Version == 0 .. MaxCommits

Entry == [rev : Nat, value : Version, fresh : BOOLEAN]
Copy  == [rev : Nat, dbRev : Nat, value : Version]

SessionState == [pc : {"idle", "dirty", "invalidate", "bump"},
                 proc : Process, version : Version]

Request == [proc : Process, key : Key, dbRev : Nat, rev : Nat,
            value : Version, floor : Version]

ASSUME CacheAssumption ==
  /\ Process # {} /\ Key # {}
  /\ MaxEntries \in Nat \ {0}
  /\ MaxCommits \in Nat /\ MaxCrashes \in Nat /\ MaxLostBumps \in Nat
  /\ None \notin Nat /\ None \notin Entry /\ None \notin Copy

VARIABLES
  committed,    \* number of relevant commits visible to every query
  dbRev,        \* the row of recommendation_cache_revisions
  rev,          \* rev[p]: _revision of p's cache
  seen,         \* seen[p]: _database_revision of p's cache
  entries,      \* entries[p][k]: the value side of the OrderedDict
  order,        \* order[p]: its key order, least recently used first
  writer,       \* writer[w]: where session w is in flush, commit, hook
  pc,           \* pc[c]: the next step of client c's request
  req,          \* req[c]: the locals of client c's request
  copy,         \* copy[c][k]: the list and the ETag the browser holds
  crashes, lostBumps,   \* bounded counters of failures
  \* History variables: no guard reads them.
  covers,       \* covers[d]: newest commit known bumped by revision d
  told          \* told[p]: newest commit p's cache has been told of

cacheVars  == <<rev, seen, entries, order>>
clientVars == <<pc, req, copy>>
vars == <<committed, dbRev, cacheVars, writer, clientVars, crashes, lostBumps,
          covers, told>>

-----------------------------------------------------------------------------

MaxOf(a, b) == IF a > b THEN a ELSE b

SomeProcess == CHOOSE p \in Process : TRUE
SomeKey     == CHOOSE k \in Key : TRUE

IdleSession == [pc |-> "idle", proc |-> SomeProcess, version |-> 0]
IdleRequest == [proc |-> SomeProcess, key |-> SomeKey, dbRev |-> 0, rev |-> 0,
                value |-> 0, floor |-> 0]
EmptyCache  == [k \in Key |-> None]

(* The steps of a request, in the order of the endpoint, of _cached and of *)
(* the loop in get.                                                        *)
Steps == {"idle", "revision", "observe", "lookup", "compute", "store", "respond"}

Init ==
  /\ committed = 0
  /\ dbRev = 0
  /\ rev = [p \in Process |-> 0]
  /\ seen = [p \in Process |-> None]
  /\ entries = [p \in Process |-> EmptyCache]
  /\ order = [p \in Process |-> <<>>]
  /\ writer = [w \in Session |-> IdleSession]
  /\ pc = [c \in Client |-> "idle"]
  /\ req = [c \in Client |-> IdleRequest]
  /\ copy = [c \in Client |-> [k \in Key |-> None]]
  /\ crashes = 0
  /\ lostBumps = 0
  /\ covers = [d \in {0} |-> 0]
  /\ told = [p \in Process |-> 0]

-----------------------------------------------------------------------------
(* Writers: a session flushes a relevant change, commits or rolls back;    *)
(* the after_commit hook runs inside commit(), after the data is visible.  *)

Flush(w, p) ==
  /\ writer[w].pc = "idle"
  /\ writer' = [writer EXCEPT ![w] = [IdleSession EXCEPT !.pc = "dirty",
                                                         !.proc = p]]
  /\ UNCHANGED <<committed, dbRev, cacheVars, clientVars, crashes, lostBumps,
                 covers, told>>

Rollback(w) ==
  /\ writer[w].pc = "dirty"
  /\ writer' = [writer EXCEPT ![w] = IdleSession]
  /\ UNCHANGED <<committed, dbRev, cacheVars, clientVars, crashes, lostBumps,
                 covers, told>>

Commit(w) ==
  /\ writer[w].pc = "dirty"
  /\ committed < MaxCommits
  /\ committed' = committed + 1
  /\ writer' = [writer EXCEPT ![w].pc = "invalidate",
                              ![w].version = committed + 1]
  /\ UNCHANGED <<dbRev, cacheVars, clientVars, crashes, lostBumps, covers, told>>

(* Faulty variant: the entries go, the revision stays.                     *)
DropEntriesOnly(p) ==
  /\ entries' = [entries EXCEPT ![p] = EmptyCache]
  /\ order' = [order EXCEPT ![p] = <<>>]
  /\ UNCHANGED rev

(* invalidate() and the revision change in observe_database_revision.      *)
DropEntries(p) ==
  /\ rev' = [rev EXCEPT ![p] = @ + 1]
  /\ entries' = [entries EXCEPT ![p] = EmptyCache]
  /\ order' = [order EXCEPT ![p] = <<>>]

Invalidate(w) ==
  LET p == writer[w].proc IN
  /\ writer[w].pc = "invalidate"
  /\ DropEntries(p)
  /\ writer' = [writer EXCEPT ![w].pc = "bump"]
  /\ told' = [told EXCEPT ![p] = MaxOf(@, writer[w].version)]
  /\ UNCHANGED <<committed, dbRev, seen, clientVars, crashes, lostBumps, covers>>

Bump(w) ==
  /\ writer[w].pc = "bump"
  /\ dbRev' = dbRev + 1
  /\ covers' = [d \in 0 .. dbRev + 1 |->
                  IF d <= dbRev THEN covers[d]
                  ELSE MaxOf(covers[dbRev], writer[w].version)]
  /\ writer' = [writer EXCEPT ![w] = IdleSession]
  /\ UNCHANGED <<committed, cacheVars, clientVars, crashes, lostBumps, told>>

(* The second connection cannot be had (the pool is exhausted, the server  *)
(* is gone): the exception leaves commit(), the data stays committed.      *)
LoseBump(w) ==
  /\ writer[w].pc = "bump"
  /\ lostBumps < MaxLostBumps
  /\ lostBumps' = lostBumps + 1
  /\ writer' = [writer EXCEPT ![w] = IdleSession]
  /\ UNCHANGED <<committed, dbRev, cacheVars, clientVars, crashes, covers, told>>

-----------------------------------------------------------------------------
(* Requests.  floor is what the answer must not be older than: the commits *)
(* the process had been told of, and those whose revision was incremented, *)
(* when the request arrived.                                               *)

(* A request arrives, and its endpoint reads the participants that the key *)
(* of the list names.                                                      *)
Start(c, p, k) ==
  /\ pc[c] = "idle"
  /\ pc' = [pc EXCEPT ![c] = "revision"]
  /\ req' = [req EXCEPT ![c] = [IdleRequest EXCEPT
               !.proc = p, !.key = k, !.floor = MaxOf(told[p], covers[dbRev])]]
  /\ UNCHANGED <<committed, dbRev, cacheVars, writer, copy, crashes, lostBumps,
                 covers, told>>

(* The query of synchronize_recommendation_cache.                          *)
ReadRevision(c) ==
  /\ pc[c] = "revision"
  /\ pc' = [pc EXCEPT ![c] = "observe"]
  /\ req' = [req EXCEPT ![c].dbRev = dbRev]
  /\ UNCHANGED <<committed, dbRev, cacheVars, writer, copy, crashes, lostBumps,
                 covers, told>>

(* observe_database_revision: any difference counts, an older revision     *)
(* read by a slower thread as much as a newer one.                         *)
Observe(c) ==
  LET p == req[c].proc
      d == req[c].dbRev
  IN
  /\ pc[c] = "observe"
  /\ seen' = [seen EXCEPT ![p] = d]
  /\ IF seen[p] \in {None, d}
       THEN UNCHANGED <<rev, entries, order>>
       ELSE DropEntries(p)
  /\ told' = [told EXCEPT ![p] = MaxOf(@, covers[d])]
  /\ pc' = [pc EXCEPT ![c] = "lookup"]
  /\ UNCHANGED <<committed, dbRev, writer, req, copy, crashes, lostBumps, covers>>

(* Faulty variant: an entry never expires.                                 *)
UsableForever(p, k) ==
  LET e == entries[p][k] IN e # None /\ e.rev = rev[p]

(* The test at the top of get(): present, of this revision, not expired.   *)
Usable(p, k) ==
  LET e == entries[p][k] IN e # None /\ e.rev = rev[p] /\ e.fresh

(* move_to_end                                                             *)
Touch(p, k) ==
  LET o == order[p] IN
  IF k \in ToSet(o)
    THEN Append(RemoveAt(o, CHOOSE i \in DOMAIN o : o[i] = k), k)
    ELSE Append(o, k)

LookupHit(c) ==
  LET p == req[c].proc
      k == req[c].key
  IN
  /\ pc[c] = "lookup"
  /\ Usable(p, k)
  /\ order' = [order EXCEPT ![p] = Touch(p, k)]
  /\ req' = [req EXCEPT ![c].rev = rev[p], ![c].value = entries[p][k].value]
  /\ pc' = [pc EXCEPT ![c] = "respond"]
  /\ UNCHANGED <<committed, dbRev, rev, seen, entries, writer, copy, crashes,
                 lostBumps, covers, told>>

LookupMiss(c) ==
  LET p == req[c].proc IN
  /\ pc[c] = "lookup"
  /\ ~Usable(p, req[c].key)
  /\ req' = [req EXCEPT ![c].rev = rev[p]]
  /\ pc' = [pc EXCEPT ![c] = "compute"]
  /\ UNCHANGED <<committed, dbRev, cacheVars, writer, copy, crashes, lostBumps,
                 covers, told>>

(* The factory's first query fixes the oldest data the list can contain.   *)
Compute(c) ==
  /\ pc[c] = "compute"
  /\ req' = [req EXCEPT ![c].value = committed]
  /\ pc' = [pc EXCEPT ![c] = "store"]
  /\ UNCHANGED <<committed, dbRev, cacheVars, writer, copy, crashes, lostBumps,
                 covers, told>>

NewEntry(c) == [rev |-> req[c].rev, value |-> req[c].value, fresh |-> TRUE]

(* Faulty variant: the result is stored under whatever revision it has.    *)
StoreUnchecked(c) ==
  LET p == req[c].proc
      k == req[c].key
      touched == Touch(p, k)
      evicted == IF Len(touched) > MaxEntries THEN {Head(touched)} ELSE {}
  IN
  /\ pc[c] = "store"
  /\ entries' = [entries EXCEPT ![p] = [j \in Key |->
                   IF j \in evicted THEN None
                   ELSE IF j = k THEN [NewEntry(c) EXCEPT !.rev = rev[p]]
                   ELSE @[j]]]
  /\ order' = [order EXCEPT ![p] = IF evicted = {} THEN touched
                                   ELSE Tail(touched)]
  /\ pc' = [pc EXCEPT ![c] = "respond"]
  /\ UNCHANGED <<committed, dbRev, rev, seen, writer, req, copy, crashes,
                 lostBumps, covers, told>>

Store(c) ==
  LET p == req[c].proc
      k == req[c].key
      touched == Touch(p, k)
      evicted == IF Len(touched) > MaxEntries THEN {Head(touched)} ELSE {}
  IN
  /\ pc[c] = "store"
  /\ req[c].rev = rev[p]
  /\ entries' = [entries EXCEPT ![p] = [j \in Key |->
                   IF j \in evicted THEN None
                   ELSE IF j = k THEN NewEntry(c)
                   ELSE @[j]]]
  /\ order' = [order EXCEPT ![p] = IF evicted = {} THEN touched
                                   ELSE Tail(touched)]
  /\ pc' = [pc EXCEPT ![c] = "respond"]
  /\ UNCHANGED <<committed, dbRev, rev, seen, writer, req, copy, crashes,
                 lostBumps, covers, told>>

(* Faulty variant: the loop computes again under the revision it captured  *)
(* before its first attempt.                                               *)
RetryUnderOldRevision(c) ==
  /\ pc[c] = "store"
  /\ req[c].rev # rev[req[c].proc]
  /\ pc' = [pc EXCEPT ![c] = "compute"]
  /\ req' = [req EXCEPT ![c].value = 0]
  /\ UNCHANGED <<committed, dbRev, cacheVars, writer, copy, crashes, lostBumps,
                 covers, told>>

(* The revision moved while the factory ran: the result is thrown away.    *)
Retry(c) ==
  /\ pc[c] = "store"
  /\ req[c].rev # rev[req[c].proc]
  /\ pc' = [pc EXCEPT ![c] = "lookup"]
  /\ req' = [req EXCEPT ![c].rev = 0, ![c].value = 0]
  /\ UNCHANGED <<committed, dbRev, cacheVars, writer, copy, crashes, lostBumps,
                 covers, told>>

(* Faulty variants: an ETag of one of the two revisions only.              *)
NotModifiedSinceBump(c) ==
  LET held == copy[c][req[c].key] IN held # None /\ held.dbRev = req[c].dbRev

NotModifiedSinceInvalidation(c) ==
  LET held == copy[c][req[c].key] IN held # None /\ held.rev = req[c].rev

(* The ETag names revision, key and database revision.  A 304 leaves the   *)
(* browser with the list it has; otherwise it takes the one just sent.     *)
NotModified(c) ==
  LET held == copy[c][req[c].key] IN
  /\ held # None
  /\ held.rev = req[c].rev
  /\ held.dbRev = req[c].dbRev

Respond(c) ==
  /\ pc[c] = "respond"
  /\ copy' = IF NotModified(c) THEN copy
             ELSE [copy EXCEPT ![c][req[c].key] =
                     [rev |-> req[c].rev, dbRev |-> req[c].dbRev,
                      value |-> req[c].value]]
  /\ pc' = [pc EXCEPT ![c] = "idle"]
  /\ req' = [req EXCEPT ![c] = IdleRequest]
  /\ UNCHANGED <<committed, dbRev, cacheVars, writer, crashes, lostBumps, covers,
                 told>>

-----------------------------------------------------------------------------
(* The clock passes the expiry of an entry; the entry itself stays.        *)
Expire(p, k) ==
  /\ entries[p][k] # None
  /\ entries[p][k].fresh
  /\ entries' = [entries EXCEPT ![p][k].fresh = FALSE]
  /\ UNCHANGED <<committed, dbRev, rev, seen, order, writer, clientVars, crashes,
                 lostBumps, covers, told>>

(* A process dies and is started again: memory, open transactions, hooks   *)
(* under way and requests in flight are gone; the database and the         *)
(* browsers' copies stay.                                                  *)
Crash(p) ==
  /\ crashes < MaxCrashes
  /\ crashes' = crashes + 1
  /\ rev' = [rev EXCEPT ![p] = 0]
  /\ seen' = [seen EXCEPT ![p] = None]
  /\ entries' = [entries EXCEPT ![p] = EmptyCache]
  /\ order' = [order EXCEPT ![p] = <<>>]
  /\ told' = [told EXCEPT ![p] = 0]
  /\ writer' = [w \in Session |->
                  IF writer[w].proc = p THEN IdleSession ELSE writer[w]]
  /\ pc' = [c \in Client |-> IF req[c].proc = p THEN "idle" ELSE pc[c]]
  /\ req' = [c \in Client |-> IF req[c].proc = p THEN IdleRequest ELSE req[c]]
  /\ UNCHANGED <<committed, dbRev, copy, lostBumps, covers>>

-----------------------------------------------------------------------------

WriterStep(w) ==
  \/ \E p \in Process : Flush(w, p)
  \/ Rollback(w)
  \/ Commit(w)
  \/ Invalidate(w)
  \/ Bump(w)
  \/ LoseBump(w)

Serve(c) ==
  \/ ReadRevision(c)
  \/ Observe(c)
  \/ LookupHit(c)
  \/ LookupMiss(c)
  \/ Compute(c)
  \/ Store(c)
  \/ Retry(c)
  \/ Respond(c)

Next ==
  \/ \E w \in Session : WriterStep(w)
  \/ \E c \in Client, p \in Process, k \in Key : Start(c, p, k)
  \/ \E c \in Client : Serve(c)
  \/ \E p \in Process, k \in Key : Expire(p, k)
  \/ \E p \in Process : Crash(p)

Spec == Init /\ [][Next]_vars

(* The server threads, the hook and the clock go on; nobody has to write,  *)
(* to ask or to fail.                                                      *)
ServerFairness ==
  /\ \A w \in Session : WF_vars(Invalidate(w)) /\ WF_vars(Bump(w))
  /\ \A c \in Client : WF_vars(Serve(c))
  /\ \A p \in Process, k \in Key : WF_vars(Expire(p, k))

(* An open page asks for each of its lists again and again.                *)
Polling ==
  \A c \in Client, k \in Key : SF_vars(\E p \in Process : Start(c, p, k))

FairSpec    == Spec /\ ServerFairness
PollingSpec == FairSpec /\ Polling

-----------------------------------------------------------------------------

(* The values of all variables.                                            *)
TypeOK ==
  /\ committed \in Version
  /\ dbRev \in Nat
  /\ rev \in [Process -> Nat]
  /\ seen \in [Process -> Nat \cup {None}]
  /\ entries \in [Process -> [Key -> Entry \cup {None}]]
  /\ order \in [Process -> Seq(Key)]
  /\ writer \in [Session -> SessionState]
  /\ pc \in [Client -> Steps]
  /\ req \in [Client -> Request]
  /\ copy \in [Client -> [Key -> Copy \cup {None}]]
  /\ crashes \in 0 .. MaxCrashes
  /\ lostBumps \in 0 .. MaxLostBumps
  /\ covers \in [0 .. dbRev -> Version]
  /\ told \in [Process -> Version]

(* A list that get() would hand out without computing it contains every    *)
(* commit its process was told of, by its own hook or by a shared revision *)
(* it observed: the revision check around the unlocked factory suffices,   *)
(* also when threads observe shared revisions out of order.                *)
NoStaleEntry ==
  \A p \in Process, k \in Key :
    LET e == entries[p][k] IN
    (e # None /\ e.rev = rev[p]) => e.value >= told[p]

(* An answer contains every commit its process knew of, and every commit   *)
(* whose shared revision was incremented, when the request arrived;        *)
(* whatever other threads, processes, crashes and lost increments did      *)
(* meanwhile.                                                              *)
AnswersAreCurrent ==
  \A c \in Client : pc[c] = "respond" => req[c].value >= req[c].floor

(* A browser told that its list has not changed holds one that contains    *)
(* those commits too: an ETag is not issued again for newer content once   *)
(* the commit is known.  This is a promise of a single process only: two   *)
(* processes, or two lives of one, count their revisions independently.    *)
NotModifiedIsCurrent ==
  \A c \in Client :
    (pc[c] = "respond" /\ NotModified(c))
      => copy[c][req[c].key].value >= req[c].floor

(* What the one process knows, whose hook has run or whose increment can   *)
(* be read; the requests under way; and the lists on the pages.            *)
KnownCommit == MaxOf(told[SomeProcess], covers[dbRev])

RequestsUnderWay ==
  {[client |-> c, key |-> req[c].key, since |-> req[c].floor] :
     c \in {d \in Client : pc[d] # "idle"}}

ListsOnPages ==
  [c \in Client |-> [k \in Key |->
     IF copy[c][k] = None THEN None ELSE copy[c][k].value]]

Lists == INSTANCE CurrentLists
           WITH changes <- committed, known <- KnownCommit,
                asked <- RequestsUnderWay, page <- ListsOnPages,
                NoList <- None

(* One process that does not crash implements CurrentLists: cache, hooks,  *)
(* shared revision and ETags together change nothing that a page can       *)
(* notice, except that it may be shown less than the newest list while the *)
(* newest changes are not known yet.  Two processes, or two lives of one,  *)
(* count the revisions of their ETags independently.                       *)
PagesAreCurrent == Lists!ListsSpec

(* get() terminates once the library stops changing: a retry needs a       *)
(* revision that moved.                                                    *)
RequestsAnswered ==
  \A c \in Client : pc[c] # "idle" ~> pc[c] = "idle"

(* A commit whose increment of the shared revision was lost to a crash or  *)
(* a failing connection is hidden by other processes' entries only until   *)
(* these expire.                                                           *)
StaleEntriesDie ==
  <>[](\A p \in Process, k \in Key :
        Usable(p, k) => entries[p][k].value = committed)

(* If no increment is lost, every page that keeps asking ends up with the  *)
(* final list, whichever processes answer it and whatever ETags it sends.  *)
CopiesCatchUp ==
  [](crashes = 0 /\ lostBumps = 0) =>
    \A c \in Client, k \in Key :
      <>[](copy[c][k] # None /\ copy[c][k].value = committed)

=============================================================================
