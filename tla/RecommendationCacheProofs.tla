---------------------- MODULE RecommendationCacheProofs ----------------------
(***************************************************************************)
(* Proofs about RecommendationCache for any number of processes, sessions, *)
(* browsers, keys, commits and failures.                                   *)
(*                                                                         *)
(* NoStaleEntry and AnswersAreCurrent are not inductive: whether a stored  *)
(* list is current depends on the revision its thread captured before it   *)
(* computed the list, and on the process having observed a shared revision *)
(* before any thread looks into the cache.  CacheInv adds these facts.     *)
(* NotModifiedIsCurrent holds for one process that does not crash; CopyInv *)
(* then ties the copies that browsers hold to that process's revision.     *)
(***************************************************************************)
EXTENDS RecommendationCache, SequenceTheorems, TLAPS

(* Nobody has been told of a commit that has not happened.                 *)
ToldInv ==
  /\ \A p \in Process : told[p] <= committed
  /\ \A w \in Session : writer[w].version <= committed
  /\ \A d \in 0 .. dbRev : covers[d] <= committed

(* What a process has observed it has been told.                           *)
SeenOK(p) ==
  seen[p] # None => seen[p] \in 0 .. dbRev /\ covers[seen[p]] <= told[p]

SeenInv == \A p \in Process : SeenOK(p)

(* Entries exist only after the first observation, none is from a later    *)
(* revision, and those of the current revision are current.                *)
EntryOK(p, k) ==
  entries[p][k] # None =>
    /\ seen[p] # None
    /\ entries[p][k].rev <= rev[p]
    /\ entries[p][k].rev = rev[p] => entries[p][k].value >= told[p]

EntryInv == \A p \in Process, k \in Key : EntryOK(p, k)

(* What a request in each of its steps may rely on.                        *)
RequestOK(c) ==
  LET p == req[c].proc IN
  /\ pc[c] = "revision" =>
       req[c].floor <= told[p] \/ req[c].floor <= covers[dbRev]
  /\ pc[c] = "observe" =>
       /\ req[c].dbRev \in 0 .. dbRev
       /\ req[c].floor <= told[p] \/ req[c].floor <= covers[req[c].dbRev]
  /\ pc[c] \in {"lookup", "compute", "store"} =>
       seen[p] # None /\ req[c].floor <= told[p]
  /\ pc[c] \in {"compute", "store"} => req[c].rev <= rev[p]
  /\ pc[c] = "store" /\ req[c].rev = rev[p] => req[c].value >= told[p]
  /\ pc[c] = "respond" => req[c].value >= req[c].floor

RequestInv == \A c \in Client : RequestOK(c)

CacheInv == TypeOK /\ ToldInv /\ SeenInv /\ EntryInv /\ RequestInv

-----------------------------------------------------------------------------

LEMMA IdleTypes ==
  /\ IdleSession \in SessionState
  /\ IdleRequest \in Request
  /\ EmptyCache \in [Key -> Entry \cup {None}]
  /\ 0 \in Version
BY CacheAssumption
DEF IdleSession, IdleRequest, EmptyCache, SomeProcess, SomeKey, SessionState,
    Request, Version

LEMMA AppendType ==
  ASSUME NEW S, NEW s \in Seq(S), NEW e \in S
  PROVE  Append(s, e) \in Seq(S) /\ Append(s, e) # <<>>
<1>1. Append(s, e) \in Seq(S) /\ Len(Append(s, e)) = Len(s) + 1
  OBVIOUS
<1>2. Len(s) \in Nat /\ Len(<<>>) = 0
  OBVIOUS
<1> QED BY <1>1, <1>2

(* Taking one element out of a sequence leaves a sequence over its set.    *)
LEMMA RemoveAtType ==
  ASSUME NEW S, NEW s \in Seq(S), NEW i \in 1 .. Len(s)
  PROVE  RemoveAt(s, i) \in Seq(S)
BY DEF RemoveAt

(* Moving a key to the end of the recency order leaves a sequence of keys. *)
LEMMA TouchType ==
  ASSUME NEW p \in Process, NEW k \in Key, order[p] \in Seq(Key)
  PROVE  Touch(p, k) \in Seq(Key) /\ Touch(p, k) # <<>>
<1> DEFINE i == CHOOSE j \in DOMAIN order[p] : order[p][j] = k
<1>1. CASE k \in ToSet(order[p])
  <2>1. i \in 1 .. Len(order[p])
    BY <1>1 DEF ToSet
  <2>2. Touch(p, k) = Append(RemoveAt(order[p], i), k)
    BY <1>1 DEF Touch
  <2> HIDE DEF i
  <2>3. RemoveAt(order[p], i) \in Seq(Key)
    BY <2>1, RemoveAtType
  <2> QED BY <2>2, <2>3, AppendType
<1>2. CASE k \notin ToSet(order[p])
  <2>1. Touch(p, k) = Append(order[p], k)
    BY <1>2 DEF Touch
  <2> QED BY <2>1, AppendType
<1> QED BY <1>1, <1>2

(* The initial state satisfies the strengthened invariant.                 *)
LEMMA CacheInit == Init => CacheInv
<1> SUFFICES ASSUME Init PROVE CacheInv
  OBVIOUS
<1>1. TypeOK
  BY CacheAssumption, IdleTypes DEF Init, TypeOK, Steps
<1>2. ToldInv
  BY DEF Init, ToldInv, IdleSession
<1>3. SeenInv /\ EntryInv /\ RequestInv
  BY DEF Init, SeenInv, SeenOK, EntryInv, EntryOK, RequestInv, RequestOK,
         EmptyCache
<1> QED BY <1>1, <1>2, <1>3 DEF CacheInv

-----------------------------------------------------------------------------
(* One lemma per action: each preserves every part of the invariant.       *)

LEMMA FlushStep ==
  ASSUME NEW w \in Session, NEW p \in Process, CacheInv, Flush(w, p)
  PROVE  CacheInv'
<1> USE DEF CacheInv, Flush, cacheVars, clientVars
<1>1. writer' \in [Session -> SessionState]
  BY IdleTypes DEF TypeOK, SessionState
<1>2. TypeOK'
  BY <1>1 DEF TypeOK
<1>3. ToldInv'
  BY DEF ToldInv, TypeOK, IdleSession, Version
<1>4. SeenInv' /\ EntryInv' /\ RequestInv'
  BY DEF SeenInv, SeenOK, EntryInv, EntryOK, RequestInv, RequestOK
<1> QED BY <1>2, <1>3, <1>4

LEMMA RollbackStep ==
  ASSUME NEW w \in Session, CacheInv, Rollback(w)
  PROVE  CacheInv'
<1> USE DEF CacheInv, Rollback, cacheVars, clientVars
<1>1. TypeOK'
  BY IdleTypes DEF TypeOK
<1>2. ToldInv'
  BY DEF ToldInv, TypeOK, IdleSession, Version
<1>3. SeenInv' /\ EntryInv' /\ RequestInv'
  BY DEF SeenInv, SeenOK, EntryInv, EntryOK, RequestInv, RequestOK
<1> QED BY <1>1, <1>2, <1>3

LEMMA CommitStep ==
  ASSUME NEW w \in Session, CacheInv, Commit(w)
  PROVE  CacheInv'
<1> USE DEF CacheInv, Commit, cacheVars, clientVars
<1>1. committed' \in Version /\ committed' = committed + 1
  BY CacheAssumption DEF TypeOK, Version
<1>2. writer' \in [Session -> SessionState]
  BY <1>1 DEF TypeOK, SessionState
<1>3. TypeOK'
  BY <1>1, <1>2 DEF TypeOK
<1>4. ToldInv'
  <2>1. \A p \in Process : told'[p] <= committed'
    BY <1>1 DEF ToldInv, TypeOK, Version
  <2>2. \A v \in Session : writer'[v].version <= committed'
    BY <1>1 DEF ToldInv, TypeOK, Version, SessionState
  <2>3. \A d \in 0 .. dbRev' : covers'[d] <= committed'
    BY <1>1 DEF ToldInv, TypeOK, Version
  <2> QED BY <2>1, <2>2, <2>3 DEF ToldInv
<1>5. SeenInv' /\ EntryInv' /\ RequestInv'
  BY DEF SeenInv, SeenOK, EntryInv, EntryOK, RequestInv, RequestOK
<1> QED BY <1>3, <1>4, <1>5

(* The revision moves, so nothing captured under the old one counts.       *)
LEMMA InvalidateStep ==
  ASSUME NEW w \in Session, CacheInv, Invalidate(w)
  PROVE  CacheInv'
<1> DEFINE q == writer[w].proc
<1> USE DEF CacheInv
<1>1. q \in Process /\ writer[w].version \in Version
  BY DEF TypeOK, SessionState
<1> HIDE DEF q
<1>2. /\ rev' = [rev EXCEPT ![q] = @ + 1]
      /\ entries' = [entries EXCEPT ![q] = EmptyCache]
      /\ order' = [order EXCEPT ![q] = <<>>]
      /\ told' = [told EXCEPT ![q] = MaxOf(@, writer[w].version)]
      /\ writer' = [writer EXCEPT ![w].pc = "bump"]
      /\ UNCHANGED <<committed, dbRev, seen, pc, req, copy, crashes, lostBumps,
                     covers>>
  BY DEF Invalidate, DropEntries, clientVars, q
<1>3. told' \in [Process -> Version]
  BY <1>1, <1>2 DEF TypeOK, MaxOf
<1>4. /\ \A p \in Process : told'[p] >= told[p] /\ (p # q => told'[p] = told[p])
      /\ told'[q] <= committed
  BY <1>1, <1>2 DEF TypeOK, ToldInv, MaxOf, Version
<1>5. TypeOK'
  <2>1. writer' \in [Session -> SessionState]
    BY <1>2 DEF TypeOK, SessionState
  <2>2. /\ rev' \in [Process -> Nat]
        /\ entries' \in [Process -> [Key -> Entry \cup {None}]]
        /\ order' \in [Process -> Seq(Key)]
    BY <1>1, <1>2, IdleTypes DEF TypeOK
  <2> QED BY <1>2, <1>3, <2>1, <2>2 DEF TypeOK
<1>6. ToldInv'
  BY <1>1, <1>2, <1>4 DEF ToldInv, TypeOK, SessionState
<1>7. SeenInv'
  <2> SUFFICES ASSUME NEW p \in Process PROVE SeenOK(p)'
    BY DEF SeenInv
  <2>1. SeenOK(p) /\ told[p] \in Nat /\ told'[p] \in Nat
    BY <1>3 DEF SeenInv, TypeOK, Version
  <2>2. seen[p] # None => covers[seen[p]] \in Nat
    BY <2>1 DEF SeenOK, TypeOK, Version
  <2> QED BY <1>2, <1>4, <2>1, <2>2 DEF SeenOK
<1>8. EntryInv'
  BY <1>1, <1>2, <1>4 DEF EntryInv, EntryOK, EmptyCache, TypeOK
<1>9. RequestInv'
  <2> SUFFICES ASSUME NEW c \in Client PROVE RequestOK(c)'
    BY DEF RequestInv
  <2> DEFINE p == req[c].proc
  <2>1. RequestOK(c) /\ req[c] \in Request
    BY DEF RequestInv, TypeOK
  <2>2. p \in Process /\ req[c].floor \in Nat /\ req[c].rev \in Nat
    BY <2>1 DEF Request, Version
  <2>3. told[p] \in Nat /\ told'[p] \in Nat /\ told'[p] >= told[p]
    BY <1>3, <1>4, <2>2 DEF TypeOK, Version
  <2>4. CASE p = q
    <3>1. rev[p] \in Nat /\ rev'[p] = rev[p] + 1
      BY <1>2, <2>2, <2>4 DEF TypeOK
    <3> QED BY <1>2, <2>1, <2>2, <2>3, <3>1 DEF RequestOK
  <2>5. CASE p # q
    <3>1. rev'[p] = rev[p] /\ told'[p] = told[p]
      BY <1>2, <1>4, <2>2, <2>5 DEF TypeOK
    <3> QED BY <1>2, <2>1, <3>1 DEF RequestOK
  <2> QED BY <2>4, <2>5
<1> QED BY <1>5, <1>6, <1>7, <1>8, <1>9

(* A new revision is appended; what the older ones cover stays.            *)
LEMMA BumpStep ==
  ASSUME NEW w \in Session, CacheInv, Bump(w)
  PROVE  CacheInv'
<1> USE DEF CacheInv
<1>1. /\ writer' = [writer EXCEPT ![w] = IdleSession]
      /\ UNCHANGED <<committed, rev, seen, entries, order, pc, req, copy,
                     crashes, lostBumps, told>>
  BY DEF Bump, cacheVars, clientVars
<1>2. dbRev \in Nat /\ dbRev' = dbRev + 1
  BY DEF Bump, TypeOK
<1>3. writer[w].version \in Version /\ writer[w].version <= committed
  BY DEF TypeOK, ToldInv, SessionState
<1>4. covers' \in [0 .. dbRev' -> Version]
  BY <1>2, <1>3 DEF Bump, TypeOK, MaxOf
<1>5. /\ \A d \in 0 .. dbRev : d \in 0 .. dbRev' /\ covers'[d] = covers[d]
      /\ covers'[dbRev'] <= committed
  BY <1>2, <1>3 DEF Bump, TypeOK, ToldInv, MaxOf
<1>6. TypeOK'
  BY <1>1, <1>2, <1>4, IdleTypes DEF TypeOK
<1>7. ToldInv'
  <2>1. \A d \in 0 .. dbRev' : d \in 0 .. dbRev \/ d = dbRev'
    BY <1>2
  <2>2. \A d \in 0 .. dbRev' : covers'[d] <= committed
    BY <1>5, <2>1 DEF ToldInv
  <2> QED BY <1>1, <2>2 DEF ToldInv, TypeOK, IdleSession, Version
<1>8. SeenInv' /\ EntryInv'
  BY <1>1, <1>5 DEF SeenInv, SeenOK, EntryInv, EntryOK
<1>9. covers'[dbRev'] >= covers[dbRev]
  <2>1. covers'[dbRev'] = MaxOf(covers[dbRev], writer[w].version)
    BY <1>2 DEF Bump
  <2> QED BY <1>2, <1>3, <2>1 DEF TypeOK, MaxOf, Version
<1>10. RequestInv'
  <2> SUFFICES ASSUME NEW c \in Client PROVE RequestOK(c)'
    BY DEF RequestInv
  <2>1. RequestOK(c) /\ req[c].floor \in Nat
    BY DEF RequestInv, TypeOK, Request, Version
  <2>2. covers[dbRev] \in Nat /\ covers'[dbRev'] \in Nat
    BY <1>2, <1>4 DEF TypeOK, Version
  <2>3. req[c].floor <= covers[dbRev] => req[c].floor <= covers'[dbRev']
    BY <1>9, <2>1, <2>2
  <2> QED BY <1>1, <1>5, <2>1, <2>3 DEF RequestOK
<1> QED BY <1>6, <1>7, <1>8, <1>10

LEMMA LoseBumpStep ==
  ASSUME NEW w \in Session, CacheInv, LoseBump(w)
  PROVE  CacheInv'
<1> USE DEF CacheInv, LoseBump, cacheVars, clientVars
<1>1. TypeOK'
  BY IdleTypes, CacheAssumption DEF TypeOK
<1>2. ToldInv'
  BY DEF ToldInv, TypeOK, IdleSession, Version
<1>3. SeenInv' /\ EntryInv' /\ RequestInv'
  BY DEF SeenInv, SeenOK, EntryInv, EntryOK, RequestInv, RequestOK
<1> QED BY <1>1, <1>2, <1>3

-----------------------------------------------------------------------------
(* The steps of a request change the locals of that request only, and the  *)
(* cache in Observe, LookupHit and Store.                                  *)

LEMMA StartStep ==
  ASSUME NEW c \in Client, NEW p \in Process, NEW k \in Key, CacheInv,
         Start(c, p, k)
  PROVE  CacheInv'
<1> USE DEF CacheInv
<1> DEFINE r == [IdleRequest EXCEPT !.proc = p, !.key = k,
                                    !.floor = MaxOf(told[p], covers[dbRev])]
<1>1. /\ UNCHANGED <<committed, dbRev, rev, seen, entries, order, writer, copy,
                     crashes, lostBumps, covers, told>>
      /\ pc' = [pc EXCEPT ![c] = "revision"]
      /\ req' = [req EXCEPT ![c] = r]
  BY DEF Start, cacheVars
<1>2. dbRev \in 0 .. dbRev /\ told[p] \in Version /\ covers[dbRev] \in Version
  BY DEF TypeOK
<1>3. r \in Request
  BY <1>2, IdleTypes DEF Request, IdleRequest, MaxOf, TypeOK
<1>4. r.proc = p /\ r.floor = MaxOf(told[p], covers[dbRev])
  BY DEF IdleRequest
<1> HIDE DEF r
<1>5. TypeOK'
  BY <1>1, <1>3 DEF TypeOK, Steps
<1>6. ToldInv' /\ SeenInv' /\ EntryInv'
  BY <1>1 DEF ToldInv, SeenInv, SeenOK, EntryInv, EntryOK
<1>7. RequestInv'
  <2> SUFFICES ASSUME NEW d \in Client PROVE RequestOK(d)'
    BY DEF RequestInv
  <2>1. CASE d = c
    BY <1>1, <1>2, <1>4, <2>1 DEF RequestOK, TypeOK, MaxOf, Version
  <2>2. CASE d # c
    BY <1>1, <2>2 DEF RequestInv, RequestOK, TypeOK
  <2> QED BY <2>1, <2>2
<1> QED BY <1>5, <1>6, <1>7

(* What is known when the revision is read, the process has been told or   *)
(* will observe.                                                           *)
LEMMA ReadRevisionStep ==
  ASSUME NEW c \in Client, CacheInv, ReadRevision(c)
  PROVE  CacheInv'
<1> USE DEF CacheInv
<1>1. /\ UNCHANGED <<committed, dbRev, rev, seen, entries, order, writer, copy,
                     crashes, lostBumps, covers, told>>
      /\ pc[c] = "revision" /\ pc' = [pc EXCEPT ![c] = "observe"]
      /\ req' = [req EXCEPT ![c].dbRev = dbRev]
  BY DEF ReadRevision, cacheVars
<1>2. dbRev \in 0 .. dbRev /\ dbRev \in Nat
  BY DEF TypeOK
<1>3. /\ req'[c].proc = req[c].proc /\ req'[c].floor = req[c].floor
      /\ req'[c].dbRev = dbRev /\ req'[c] \in Request
  BY <1>1, <1>2 DEF TypeOK, Request
<1>4. \A d \in Client : d # c => req'[d] = req[d] /\ pc'[d] = pc[d]
  BY <1>1 DEF TypeOK
<1>5. TypeOK'
  BY <1>1, <1>2, <1>3 DEF TypeOK, Steps, Request
<1>6. ToldInv' /\ SeenInv' /\ EntryInv'
  BY <1>1 DEF ToldInv, SeenInv, SeenOK, EntryInv, EntryOK
<1>7. RequestInv'
  <2> SUFFICES ASSUME NEW d \in Client PROVE RequestOK(d)'
    BY DEF RequestInv
  <2>1. CASE d = c
    BY <1>1, <1>2, <1>3, <2>1 DEF RequestInv, RequestOK, TypeOK
  <2>2. CASE d # c
    BY <1>1, <1>4, <2>2 DEF RequestInv, RequestOK, TypeOK
  <2> QED BY <2>1, <2>2
<1> QED BY <1>5, <1>6, <1>7

(* The first observation changes what the process has been told without    *)
(* moving the revision: no entry and no thread past it exists yet.         *)
LEMMA ObserveStep ==
  ASSUME NEW c \in Client, CacheInv, Observe(c)
  PROVE  CacheInv'
<1> USE DEF CacheInv
<1> DEFINE q == req[c].proc
           n == req[c].dbRev
<1>1. /\ q \in Process /\ n \in 0 .. dbRev
      /\ req[c].floor <= told[q] \/ req[c].floor <= covers[n]
      /\ req[c].floor \in Version
  BY DEF Observe, TypeOK, Request, RequestInv, RequestOK
<1>2. /\ UNCHANGED <<committed, dbRev, writer, req, copy, crashes, lostBumps,
                     covers>>
      /\ pc[c] = "observe" /\ pc' = [pc EXCEPT ![c] = "lookup"]
      /\ seen' = [seen EXCEPT ![q] = n]
      /\ told' = [told EXCEPT ![q] = MaxOf(@, covers[n])]
      /\ \/ seen[q] \in {None, n} /\ UNCHANGED <<rev, entries, order>>
         \/ /\ rev' = [rev EXCEPT ![q] = @ + 1]
            /\ entries' = [entries EXCEPT ![q] = EmptyCache]
            /\ order' = [order EXCEPT ![q] = <<>>]
  BY DEF Observe, DropEntries
<1> HIDE DEF q, n
<1>3. /\ told[q] \in Version /\ covers[n] \in Version
      /\ told[q] <= committed /\ covers[n] <= committed
  BY <1>1 DEF TypeOK, ToldInv
<1>4. /\ told'[q] \in Version /\ told'[q] <= committed
      /\ told'[q] >= told[q] /\ told'[q] >= covers[n]
      /\ covers[n] <= told[q] => told'[q] = told[q]
      /\ \A p \in Process : p # q => told'[p] = told[p]
  BY <1>1, <1>2, <1>3 DEF TypeOK, MaxOf, Version
<1>5. n \in Nat /\ n # None /\ seen'[q] = n
  BY <1>1, <1>2, CacheAssumption DEF TypeOK
<1>6. \/ rev'[q] = rev[q] /\ entries'[q] = entries[q]
         /\ (seen[q] = None \/ told'[q] = told[q])
      \/ rev'[q] = rev[q] + 1 /\ entries'[q] = EmptyCache
  <2>1. seen[q] = n => covers[n] <= told[q]
    BY <1>1, <1>5 DEF SeenInv, SeenOK
  <2> QED BY <1>1, <1>2, <1>4, <2>1 DEF TypeOK
<1>7. \A p \in Process : p # q =>
        /\ rev'[p] = rev[p] /\ entries'[p] = entries[p]
        /\ seen'[p] = seen[p] /\ told'[p] = told[p]
  BY <1>2, <1>4 DEF TypeOK
<1>8. TypeOK'
  <2>1. told' \in [Process -> Version] /\ seen' \in [Process -> Nat \cup {None}]
    BY <1>1, <1>2, <1>3, <1>5 DEF TypeOK, MaxOf
  <2>2. /\ rev' \in [Process -> Nat]
        /\ entries' \in [Process -> [Key -> Entry \cup {None}]]
        /\ order' \in [Process -> Seq(Key)]
    <3>1. CASE UNCHANGED <<rev, entries, order>>
      BY <3>1 DEF TypeOK
    <3>2. CASE /\ rev' = [rev EXCEPT ![q] = @ + 1]
               /\ entries' = [entries EXCEPT ![q] = EmptyCache]
               /\ order' = [order EXCEPT ![q] = <<>>]
      BY <1>1, <3>2, IdleTypes DEF TypeOK
    <3> QED BY <1>2, <3>1, <3>2
  <2> QED BY <1>2, <2>1, <2>2 DEF TypeOK, Steps
<1>9. ToldInv'
  BY <1>2, <1>4 DEF ToldInv
<1>10. SeenInv'
  BY <1>1, <1>2, <1>4, <1>5, <1>7 DEF SeenInv, SeenOK
<1>11. EntryInv'
  <2> SUFFICES ASSUME NEW p \in Process, NEW k \in Key PROVE EntryOK(p, k)'
    BY DEF EntryInv
  <2>1. EntryOK(p, k)
    BY DEF EntryInv
  <2>2. CASE p = q
    BY <1>5, <1>6, <2>1, <2>2 DEF EntryOK, EmptyCache
  <2>3. CASE p # q
    BY <1>7, <2>1, <2>3 DEF EntryOK
  <2> QED BY <2>2, <2>3
<1>12. RequestInv'
  <2> SUFFICES ASSUME NEW d \in Client PROVE RequestOK(d)'
    BY DEF RequestInv
  <2> DEFINE p == req[d].proc
  <2>1. RequestOK(d) /\ req[d] \in Request /\ req'[d] = req[d]
    BY <1>2 DEF RequestInv, TypeOK
  <2>2. p \in Process /\ req[d].floor \in Nat /\ req[d].rev \in Nat
    BY <2>1 DEF Request, Version
  <2>3. told[p] \in Nat /\ told'[p] \in Nat /\ rev[p] \in Nat
    BY <1>8, <2>2 DEF TypeOK, Version
  <2>4. CASE d = c
    <3>1. p = q
      BY <2>4 DEF q
    <3>2. req[d].floor <= told'[q] /\ pc'[d] = "lookup"
      BY <1>1, <1>2, <1>3, <1>4, <2>4 DEF TypeOK, Version
    <3> QED BY <1>2, <1>5, <2>1, <3>1, <3>2 DEF RequestOK
  <2>5. CASE d # c /\ p # q
    BY <1>2, <1>7, <2>1, <2>2, <2>5 DEF RequestOK, TypeOK
  <2>6. CASE d # c /\ p = q
    <3>1. pc'[d] = pc[d]
      BY <1>2, <2>6 DEF TypeOK
    <3> QED BY <1>2, <1>4, <1>5, <1>6, <2>1, <2>2, <2>3, <2>6, <3>1 DEF RequestOK
  <2> QED BY <2>4, <2>5, <2>6
<1> QED BY <1>8, <1>9, <1>10, <1>11, <1>12

LEMMA LookupHitStep ==
  ASSUME NEW c \in Client, CacheInv, LookupHit(c)
  PROVE  CacheInv'
<1> USE DEF CacheInv
<1> DEFINE q == req[c].proc
           k == req[c].key
<1>1. q \in Process /\ k \in Key /\ pc[c] = "lookup"
  BY DEF LookupHit, TypeOK, Request
<1>2. /\ UNCHANGED <<committed, dbRev, rev, seen, entries, writer, copy, crashes,
                     lostBumps, covers, told>>
      /\ order' = [order EXCEPT ![q] = Touch(q, k)]
      /\ req' = [req EXCEPT ![c].rev = rev[q], ![c].value = entries[q][k].value]
      /\ pc' = [pc EXCEPT ![c] = "respond"]
  BY DEF LookupHit
<1>3. /\ entries[q][k] \in Entry
      /\ entries[q][k].value >= told[q]
  BY <1>1 DEF LookupHit, Usable, TypeOK, EntryInv, EntryOK
<1>4. req[c] \in Request /\ req[c].floor <= told[q]
  BY <1>1 DEF TypeOK, RequestInv, RequestOK
<1> HIDE DEF q, k
<1>5. entries[q][k].value \in Version /\ rev[q] \in Nat /\ told[q] \in Version
  BY <1>1, <1>3 DEF Entry, TypeOK
<1>6. TypeOK'
  <2>1. req' \in [Client -> Request]
    BY <1>2, <1>5 DEF TypeOK, Request
  <2>2. order' \in [Process -> Seq(Key)]
    BY <1>1, <1>2, TouchType DEF TypeOK
  <2> QED BY <1>2, <2>1, <2>2 DEF TypeOK, Steps
<1>7. ToldInv' /\ SeenInv' /\ EntryInv'
  BY <1>2 DEF ToldInv, SeenInv, SeenOK, EntryInv, EntryOK
<1>8. RequestInv'
  <2> SUFFICES ASSUME NEW d \in Client PROVE RequestOK(d)'
    BY DEF RequestInv
  <2>1. CASE d = c
    <3>1. /\ pc'[d] = "respond" /\ req'[d].floor = req[c].floor
          /\ req'[d].value = entries[q][k].value
      BY <1>2, <2>1 DEF TypeOK, Request
    <3>2. req[c].floor \in Nat
      BY <1>4 DEF Request, Version
    <3> QED BY <1>3, <1>4, <1>5, <3>1, <3>2 DEF RequestOK, Version
  <2>2. CASE d # c
    BY <1>2, <2>2 DEF RequestInv, RequestOK, TypeOK
  <2> QED BY <2>1, <2>2
<1> QED BY <1>6, <1>7, <1>8

LEMMA LookupMissStep ==
  ASSUME NEW c \in Client, CacheInv, LookupMiss(c)
  PROVE  CacheInv'
<1> USE DEF CacheInv
<1>1. req[c] \in Request /\ rev[req[c].proc] \in Nat /\ pc[c] = "lookup"
  BY DEF LookupMiss, TypeOK, Request
<1>2. /\ UNCHANGED <<committed, dbRev, rev, seen, entries, order, writer, copy,
                     crashes, lostBumps, covers, told>>
      /\ req' = [req EXCEPT ![c].rev = rev[req[c].proc]]
      /\ pc' = [pc EXCEPT ![c] = "compute"]
  BY DEF LookupMiss, cacheVars
<1>3. req' \in [Client -> Request]
  BY <1>1, <1>2 DEF TypeOK, Request
<1>4. TypeOK'
  BY <1>2, <1>3 DEF TypeOK, Steps
<1>5. ToldInv' /\ SeenInv' /\ EntryInv'
  BY <1>2 DEF ToldInv, SeenInv, SeenOK, EntryInv, EntryOK
<1>6. RequestInv'
  <2> SUFFICES ASSUME NEW d \in Client PROVE RequestOK(d)'
    BY DEF RequestInv
  <2>1. CASE d = c
    <3>1. /\ pc'[d] = "compute" /\ req'[d].floor = req[c].floor
          /\ req'[d].proc = req[c].proc /\ req'[d].rev = rev[req[c].proc]
      BY <1>1, <1>2, <2>1 DEF TypeOK, Request
    <3>2. seen[req[c].proc] # None /\ req[c].floor <= told[req[c].proc]
      BY <1>1 DEF RequestInv, RequestOK
    <3> QED BY <1>1, <1>2, <3>1, <3>2 DEF RequestOK
  <2>2. CASE d # c
    BY <1>2, <2>2 DEF RequestInv, RequestOK, TypeOK
  <2> QED BY <2>1, <2>2
<1> QED BY <1>4, <1>5, <1>6

(* A list computed now contains everything anyone has been told of.        *)
LEMMA ComputeStep ==
  ASSUME NEW c \in Client, CacheInv, Compute(c)
  PROVE  CacheInv'
<1> USE DEF CacheInv
<1>1. req[c] \in Request /\ req[c].proc \in Process /\ pc[c] = "compute"
  BY DEF Compute, TypeOK, Request
<1>2. /\ UNCHANGED <<committed, dbRev, rev, seen, entries, order, writer, copy,
                     crashes, lostBumps, covers, told>>
      /\ req' = [req EXCEPT ![c].value = committed]
      /\ pc' = [pc EXCEPT ![c] = "store"]
  BY DEF Compute, cacheVars
<1>3. told[req[c].proc] <= committed /\ told[req[c].proc] \in Version
      /\ committed \in Version
  BY <1>1 DEF ToldInv, TypeOK
<1>4. req' \in [Client -> Request]
  BY <1>1, <1>2, <1>3 DEF TypeOK, Request
<1>5. TypeOK'
  BY <1>2, <1>4 DEF TypeOK, Steps
<1>6. ToldInv' /\ SeenInv' /\ EntryInv'
  BY <1>2 DEF ToldInv, SeenInv, SeenOK, EntryInv, EntryOK
<1>7. RequestInv'
  <2> SUFFICES ASSUME NEW d \in Client PROVE RequestOK(d)'
    BY DEF RequestInv
  <2>1. CASE d = c
    <3>1. /\ pc'[d] = "store" /\ req'[d].floor = req[c].floor
          /\ req'[d].proc = req[c].proc /\ req'[d].rev = req[c].rev
          /\ req'[d].value = committed
      BY <1>1, <1>2, <2>1 DEF TypeOK, Request
    <3>2. /\ seen[req[c].proc] # None /\ req[c].floor <= told[req[c].proc]
          /\ req[c].rev <= rev[req[c].proc]
      BY <1>1 DEF RequestInv, RequestOK
    <3> QED BY <1>2, <1>3, <3>1, <3>2 DEF RequestOK, Version
  <2>2. CASE d # c
    BY <1>2, <2>2 DEF RequestInv, RequestOK, TypeOK
  <2> QED BY <2>1, <2>2
<1> QED BY <1>5, <1>6, <1>7

(* Only a list whose revision is still the current one is stored.          *)
LEMMA StoreStep ==
  ASSUME NEW c \in Client, CacheInv, Store(c)
  PROVE  CacheInv'
<1> USE DEF CacheInv
<1> DEFINE q == req[c].proc
           k == req[c].key
           touched == Touch(q, k)
           evicted == IF Len(touched) > MaxEntries THEN {Head(touched)} ELSE {}
<1>1. /\ q \in Process /\ k \in Key /\ req[c] \in Request /\ pc[c] = "store"
      /\ req[c].rev = rev[q]
  BY DEF Store, TypeOK, Request
<1>2. touched \in Seq(Key) /\ touched # <<>>
  BY <1>1, TouchType DEF TypeOK
<1>3. /\ UNCHANGED <<committed, dbRev, rev, seen, writer, req, copy, crashes,
                     lostBumps, covers, told>>
      /\ entries' = [entries EXCEPT ![q] = [j \in Key |->
                       IF j \in evicted THEN None
                       ELSE IF j = k THEN NewEntry(c) ELSE @[j]]]
      /\ order' = [order EXCEPT ![q] = IF evicted = {} THEN touched
                                       ELSE Tail(touched)]
      /\ pc' = [pc EXCEPT ![c] = "respond"]
  BY DEF Store
<1> HIDE DEF q, k, touched, evicted
<1>4. NewEntry(c) \in Entry
  BY <1>1 DEF NewEntry, Entry, Request
<1>5. /\ seen[q] # None /\ req[c].floor <= told[q] /\ req[c].value >= told[q]
      /\ req[c].floor \in Nat /\ req[c].value \in Nat /\ told[q] \in Nat
      /\ rev[q] \in Nat
  <2>1. RequestOK(c) /\ told[q] \in Version
    BY <1>1 DEF RequestInv, TypeOK
  <2> QED BY <1>1, <2>1 DEF RequestOK, Request, TypeOK, Version, q
<1>6. \A p \in Process, j \in Key :
        \/ entries'[p][j] = None
        \/ p = q /\ entries'[p][j] = NewEntry(c)
        \/ entries'[p][j] = entries[p][j]
  BY <1>1, <1>3 DEF TypeOK
<1>7. TypeOK'
  <2>1. entries' \in [Process -> [Key -> Entry \cup {None}]]
    BY <1>1, <1>3, <1>4 DEF TypeOK
  <2>2. Tail(touched) \in Seq(Key)
    BY <1>2
  <2>3. order' \in [Process -> Seq(Key)]
    BY <1>1, <1>2, <1>3, <2>2 DEF TypeOK
  <2> QED BY <1>3, <2>1, <2>3 DEF TypeOK, Steps
<1>8. ToldInv' /\ SeenInv'
  BY <1>3 DEF ToldInv, SeenInv, SeenOK
<1>9. EntryInv'
  <2> SUFFICES ASSUME NEW p \in Process, NEW j \in Key PROVE EntryOK(p, j)'
    BY DEF EntryInv
  <2>1. CASE entries'[p][j] = None
    BY <2>1 DEF EntryOK
  <2>2. CASE p = q /\ entries'[p][j] = NewEntry(c)
    BY <1>1, <1>3, <1>5, <2>2 DEF EntryOK, NewEntry
  <2>3. CASE entries'[p][j] = entries[p][j]
    BY <1>3, <2>3 DEF EntryInv, EntryOK
  <2> QED BY <1>6, <2>1, <2>2, <2>3
<1>10. RequestInv'
  <2> SUFFICES ASSUME NEW d \in Client PROVE RequestOK(d)'
    BY DEF RequestInv
  <2>1. CASE d = c
    <3>1. pc'[d] = "respond" /\ req'[d] = req[c]
      BY <1>3, <2>1 DEF TypeOK
    <3> QED BY <1>5, <3>1 DEF RequestOK
  <2>2. CASE d # c
    BY <1>3, <2>2 DEF RequestInv, RequestOK, TypeOK
  <2> QED BY <2>1, <2>2
<1> QED BY <1>7, <1>8, <1>9, <1>10

LEMMA RetryStep ==
  ASSUME NEW c \in Client, CacheInv, Retry(c)
  PROVE  CacheInv'
<1> USE DEF CacheInv
<1>1. req[c] \in Request /\ pc[c] = "store"
  BY DEF Retry, TypeOK
<1>2. /\ UNCHANGED <<committed, dbRev, rev, seen, entries, order, writer, copy,
                     crashes, lostBumps, covers, told>>
      /\ req' = [req EXCEPT ![c].rev = 0, ![c].value = 0]
      /\ pc' = [pc EXCEPT ![c] = "lookup"]
  BY DEF Retry, cacheVars
<1>3. req' \in [Client -> Request]
  BY <1>1, <1>2, IdleTypes DEF TypeOK, Request
<1>4. TypeOK'
  BY <1>2, <1>3 DEF TypeOK, Steps
<1>5. ToldInv' /\ SeenInv' /\ EntryInv'
  BY <1>2 DEF ToldInv, SeenInv, SeenOK, EntryInv, EntryOK
<1>6. RequestInv'
  <2> SUFFICES ASSUME NEW d \in Client PROVE RequestOK(d)'
    BY DEF RequestInv
  <2>1. CASE d = c
    <3>1. /\ pc'[d] = "lookup" /\ req'[d].floor = req[c].floor
          /\ req'[d].proc = req[c].proc
      BY <1>1, <1>2, <2>1 DEF TypeOK, Request
    <3>2. seen[req[c].proc] # None /\ req[c].floor <= told[req[c].proc]
      BY <1>1 DEF RequestInv, RequestOK
    <3> QED BY <1>2, <3>1, <3>2 DEF RequestOK
  <2>2. CASE d # c
    BY <1>2, <2>2 DEF RequestInv, RequestOK, TypeOK
  <2> QED BY <2>1, <2>2
<1> QED BY <1>4, <1>5, <1>6

LEMMA RespondStep ==
  ASSUME NEW c \in Client, CacheInv, Respond(c)
  PROVE  CacheInv'
<1> USE DEF CacheInv
<1>1. req[c] \in Request /\ pc[c] = "respond"
  BY DEF Respond, TypeOK
<1>2. /\ UNCHANGED <<committed, dbRev, rev, seen, entries, order, writer,
                     crashes, lostBumps, covers, told>>
      /\ req' = [req EXCEPT ![c] = IdleRequest]
      /\ pc' = [pc EXCEPT ![c] = "idle"]
  BY DEF Respond, cacheVars
<1>3. copy' \in [Client -> [Key -> Copy \cup {None}]]
  <2>1. [rev |-> req[c].rev, dbRev |-> req[c].dbRev, value |-> req[c].value]
          \in Copy
    BY <1>1 DEF Request, Copy
  <2>2. req[c].key \in Key
    BY <1>1 DEF Request
  <2> QED BY <2>1, <2>2 DEF Respond, TypeOK
<1>4. TypeOK'
  BY <1>2, <1>3, IdleTypes DEF TypeOK, Steps
<1>5. ToldInv' /\ SeenInv' /\ EntryInv'
  BY <1>2 DEF ToldInv, SeenInv, SeenOK, EntryInv, EntryOK
<1>6. RequestInv'
  <2> SUFFICES ASSUME NEW d \in Client PROVE RequestOK(d)'
    BY DEF RequestInv
  <2>1. CASE d = c
    BY <1>2, <2>1 DEF RequestOK, TypeOK
  <2>2. CASE d # c
    BY <1>2, <2>2 DEF RequestInv, RequestOK, TypeOK
  <2> QED BY <2>1, <2>2
<1> QED BY <1>4, <1>5, <1>6

LEMMA ExpireStep ==
  ASSUME NEW p \in Process, NEW k \in Key, CacheInv, Expire(p, k)
  PROVE  CacheInv'
<1> USE DEF CacheInv
<1>1. /\ UNCHANGED <<committed, dbRev, rev, seen, order, writer, pc, req, copy,
                     crashes, lostBumps, covers, told>>
      /\ entries' = [entries EXCEPT ![p][k].fresh = FALSE]
      /\ entries[p][k] \in Entry
  BY DEF Expire, clientVars, TypeOK
<1>2. entries' \in [Process -> [Key -> Entry \cup {None}]]
  BY <1>1 DEF TypeOK, Entry
<1>3. TypeOK'
  BY <1>1, <1>2 DEF TypeOK
<1>4. ToldInv' /\ SeenInv' /\ RequestInv'
  BY <1>1 DEF ToldInv, SeenInv, SeenOK, RequestInv, RequestOK
<1>5. EntryInv'
  <2> SUFFICES ASSUME NEW q \in Process, NEW j \in Key PROVE EntryOK(q, j)'
    BY DEF EntryInv
  <2>1. CASE q = p /\ j = k
    <3>1. /\ entries'[q][j].rev = entries[q][j].rev
          /\ entries'[q][j].value = entries[q][j].value
          /\ entries[q][j] # None
      BY <1>1, <2>1, CacheAssumption DEF TypeOK, Entry
    <3> QED BY <1>1, <3>1 DEF EntryInv, EntryOK
  <2>2. CASE ~(q = p /\ j = k)
    <3>1. entries'[q][j] = entries[q][j]
      BY <1>1, <2>2 DEF TypeOK
    <3> QED BY <1>1, <3>1 DEF EntryInv, EntryOK
  <2> QED BY <2>1, <2>2
<1> QED BY <1>3, <1>4, <1>5

LEMMA CrashStep ==
  ASSUME NEW p \in Process, CacheInv, Crash(p)
  PROVE  CacheInv'
<1> USE DEF CacheInv
<1>1. /\ UNCHANGED <<committed, dbRev, copy, lostBumps, covers>>
      /\ crashes' \in 0 .. MaxCrashes
      /\ rev' = [rev EXCEPT ![p] = 0]
      /\ seen' = [seen EXCEPT ![p] = None]
      /\ entries' = [entries EXCEPT ![p] = EmptyCache]
      /\ order' = [order EXCEPT ![p] = <<>>]
      /\ told' = [told EXCEPT ![p] = 0]
  BY CacheAssumption DEF Crash, TypeOK
<1>2. /\ writer' = [w \in Session |->
                      IF writer[w].proc = p THEN IdleSession ELSE writer[w]]
      /\ pc' = [c \in Client |-> IF req[c].proc = p THEN "idle" ELSE pc[c]]
      /\ req' = [c \in Client |->
                   IF req[c].proc = p THEN IdleRequest ELSE req[c]]
  BY DEF Crash
<1>3. TypeOK'
  <2>1. /\ rev' \in [Process -> Nat]
        /\ seen' \in [Process -> Nat \cup {None}]
        /\ told' \in [Process -> Version]
        /\ order' \in [Process -> Seq(Key)]
    BY <1>1, IdleTypes DEF TypeOK
  <2>2. entries' \in [Process -> [Key -> Entry \cup {None}]]
    BY <1>1, IdleTypes DEF TypeOK
  <2>3. /\ writer' \in [Session -> SessionState]
        /\ pc' \in [Client -> Steps]
        /\ req' \in [Client -> Request]
    BY <1>2, IdleTypes DEF TypeOK, Steps
  <2> QED BY <1>1, <2>1, <2>2, <2>3 DEF TypeOK
<1>4. ToldInv'
  BY <1>1, <1>2 DEF ToldInv, TypeOK, IdleSession, Version
<1>5. SeenInv'
  BY <1>1 DEF SeenInv, SeenOK, TypeOK
<1>6. EntryInv'
  BY <1>1 DEF EntryInv, EntryOK, EmptyCache, TypeOK
<1>7. RequestInv'
  <2> SUFFICES ASSUME NEW c \in Client PROVE RequestOK(c)'
    BY DEF RequestInv
  <2>1. CASE req[c].proc = p
    BY <1>2, <2>1 DEF RequestOK
  <2>2. CASE req[c].proc # p
    BY <1>1, <1>2, <2>2 DEF RequestInv, RequestOK, TypeOK
  <2> QED BY <2>1, <2>2
<1> QED BY <1>3, <1>4, <1>5, <1>6, <1>7

-----------------------------------------------------------------------------

LEMMA CacheStep == CacheInv /\ [Next]_vars => CacheInv'
<1> SUFFICES ASSUME CacheInv, [Next]_vars PROVE CacheInv'
  OBVIOUS
<1>1. ASSUME NEW w \in Session, WriterStep(w) PROVE CacheInv'
  BY <1>1, FlushStep, RollbackStep, CommitStep, InvalidateStep, BumpStep,
     LoseBumpStep DEF WriterStep
<1>2. ASSUME NEW c \in Client, NEW p \in Process, NEW k \in Key, Start(c, p, k)
      PROVE  CacheInv'
  BY <1>2, StartStep
<1>3. ASSUME NEW c \in Client, Serve(c) PROVE CacheInv'
  BY <1>3, ReadRevisionStep, ObserveStep, LookupHitStep, LookupMissStep, ComputeStep, StoreStep,
     RetryStep, RespondStep DEF Serve
<1>4. ASSUME NEW p \in Process, NEW k \in Key, Expire(p, k) PROVE CacheInv'
  BY <1>4, ExpireStep
<1>5. ASSUME NEW p \in Process, Crash(p) PROVE CacheInv'
  BY <1>5, CrashStep
<1>6. CASE UNCHANGED vars
  BY <1>6 DEF vars, cacheVars, clientVars, CacheInv, TypeOK, ToldInv, SeenInv,
              SeenOK, EntryInv, EntryOK, RequestInv, RequestOK
<1> QED BY <1>1, <1>2, <1>3, <1>4, <1>5, <1>6 DEF Next

(* The strengthened invariant holds in every reachable state.              *)
THEOREM CacheInvariant == Spec => []CacheInv
<1>1. Init => CacheInv
  BY CacheInit
<1>2. CacheInv /\ [Next]_vars => CacheInv'
  BY CacheStep
<1> QED BY <1>1, <1>2, PTL DEF Spec

(* Every variable keeps its type.                                          *)
THEOREM TypeCorrect == Spec => []TypeOK
<1>1. CacheInv => TypeOK
  BY DEF CacheInv
<1> QED BY <1>1, CacheInvariant, PTL

(* No entry the cache would hand out misses a commit its process was told  *)
(* of: invalidate and observe_database_revision take effect against every  *)
(* factory that was already running.                                       *)
THEOREM NoStaleEntries == Spec => []NoStaleEntry
<1>1. CacheInv => NoStaleEntry
  BY DEF CacheInv, NoStaleEntry, EntryInv, EntryOK
<1> QED BY <1>1, CacheInvariant, PTL

(* Every answer contains the commits known when its request arrived.       *)
THEOREM CurrentAnswers == Spec => []AnswersAreCurrent
<1>1. CacheInv => AnswersAreCurrent
  BY DEF CacheInv, AnswersAreCurrent, RequestInv, RequestOK
<1> QED BY <1>1, CacheInvariant, PTL

-----------------------------------------------------------------------------
(* One process that does not crash: the revisions of all ETags count the   *)
(* same invalidations.  Then a copy of the current revision is current,    *)
(* and a request whose revision a copy has needs nothing the copy lacks;   *)
(* the first because told moves only together with the revision once       *)
(* something has been observed, the second because it held when the        *)
(* request captured its revision.                                          *)

CopyOK(c, k) ==
  copy[c][k] # None =>
    \A p \in Process :
      /\ seen[p] # None
      /\ copy[c][k].rev <= rev[p]
      /\ copy[c][k].rev = rev[p] => copy[c][k].value >= told[p]

(* What a request may rely on about the copy it might be answered with.    *)
HeldOK(c) ==
  LET held == copy[c][req[c].key] IN
  /\ pc[c] \in {"compute", "store", "respond"} =>
       (held # None /\ held.rev = req[c].rev => held.value >= req[c].floor)
  /\ pc[c] = "respond" =>
       \A p \in Process :
         /\ seen[p] # None
         /\ req[c].rev <= rev[p]
         /\ req[c].rev = rev[p] => req[c].value >= told[p]

CopyInv == \A c \in Client : HeldOK(c) /\ \A k \in Key : CopyOK(c, k)

(* One backend process for the whole life of the deployment.               *)
OneServer == MaxCrashes = 0 /\ \A p, q \in Process : p = q

ServerInv == CacheInv /\ CopyInv

(* What CopyInv says of a process, a copy and a request stays true when    *)
(* the process moves to a later revision, and when it learns of a commit   *)
(* before it has any entry.                                                *)
Progress ==
  \A p \in Process :
    /\ seen[p] # None => seen'[p] # None
    /\ \/ rev'[p] = rev[p] /\ (seen[p] = None \/ told'[p] = told[p])
       \/ rev'[p] = rev[p] + 1

LEMMA ProgressCopy ==
  ASSUME ServerInv, Progress, copy' = copy, NEW c \in Client, NEW k \in Key
  PROVE  CopyOK(c, k)'
<1> SUFFICES ASSUME copy[c][k] # None, NEW p \in Process
             PROVE  /\ seen'[p] # None
                    /\ copy[c][k].rev <= rev'[p]
                    /\ copy[c][k].rev = rev'[p] => copy[c][k].value >= told'[p]
  BY DEF CopyOK
<1>1. /\ seen[p] # None /\ copy[c][k].rev <= rev[p]
      /\ copy[c][k].rev = rev[p] => copy[c][k].value >= told[p]
  BY DEF ServerInv, CopyInv, CopyOK
<1>2. copy[c][k].rev \in Nat /\ rev[p] \in Nat
  BY DEF ServerInv, CacheInv, TypeOK, Copy
<1> QED BY <1>1, <1>2 DEF Progress

LEMMA ProgressHeld ==
  ASSUME ServerInv, Progress, copy' = copy, NEW c \in Client,
         req'[c] = req[c], pc'[c] = pc[c]
  PROVE  HeldOK(c)'
<1>1. HeldOK(c) /\ req[c] \in Request
  BY DEF ServerInv, CacheInv, CopyInv, TypeOK
<1>2. ASSUME pc[c] = "respond", NEW p \in Process
      PROVE  /\ seen'[p] # None /\ req[c].rev <= rev'[p]
             /\ req[c].rev = rev'[p] => req[c].value >= told'[p]
  <2>1. /\ seen[p] # None /\ req[c].rev <= rev[p]
        /\ req[c].rev = rev[p] => req[c].value >= told[p]
    BY <1>1, <1>2 DEF HeldOK
  <2>2. req[c].rev \in Nat /\ rev[p] \in Nat
    BY <1>1 DEF ServerInv, CacheInv, TypeOK, Request
  <2> QED BY <2>1, <2>2 DEF Progress
<1> QED BY <1>1, <1>2 DEF HeldOK

(* Every step but the answer leaves the copies, and lets the process go on *)
(* in this sense.                                                          *)
LEMMA StepProgress ==
  ASSUME ServerInv, [Next]_vars, OneServer
  PROVE  Progress
<1> USE DEF ServerInv, CacheInv
<1>1. CASE UNCHANGED <<rev, seen, told>>
  BY <1>1 DEF Progress
<1>2. ASSUME NEW w \in Session, Invalidate(w) PROVE Progress
  <2> DEFINE q == writer[w].proc
  <2>1. q \in Process /\ seen' = seen /\ rev' = [rev EXCEPT ![q] = @ + 1]
    BY <1>2 DEF Invalidate, DropEntries, TypeOK, SessionState
  <2> HIDE DEF q
  <2> QED BY <2>1 DEF Progress, OneServer, TypeOK
<1>3. ASSUME NEW c \in Client, Observe(c) PROVE Progress
  <2> DEFINE q == req[c].proc
             n == req[c].dbRev
  <2>1. /\ q \in Process /\ n \in 0 .. dbRev
    BY <1>3 DEF Observe, TypeOK, Request, RequestInv, RequestOK
  <2>2. /\ seen' = [seen EXCEPT ![q] = n]
        /\ told' = [told EXCEPT ![q] = MaxOf(@, covers[n])]
        /\ \/ seen[q] \in {None, n} /\ rev' = rev
           \/ rev' = [rev EXCEPT ![q] = @ + 1]
    BY <1>3 DEF Observe, DropEntries
  <2> HIDE DEF q, n
  <2>3. n # None /\ seen'[q] = n
    BY <2>1, <2>2, CacheAssumption DEF TypeOK
  <2>4. CASE seen[q] = n
    <3>1. covers[n] <= told[q] /\ covers[n] \in Nat /\ told[q] \in Nat
      BY <2>1, <2>3, <2>4 DEF SeenInv, SeenOK, TypeOK, Version
    <3>2. told'[q] = told[q]
      BY <2>1, <2>2, <3>1 DEF TypeOK, MaxOf
    <3> QED BY <2>1, <2>2, <2>3, <3>2 DEF Progress, OneServer, TypeOK
  <2>5. CASE seen[q] # n
    BY <2>1, <2>2, <2>3, <2>5 DEF Progress, OneServer, TypeOK
  <2> QED BY <2>4, <2>5
<1>4. ASSUME NEW w \in Session, WriterStep(w) PROVE Progress
  BY <1>1, <1>2, <1>4 DEF WriterStep, Flush, Rollback, Commit, Bump, LoseBump,
     cacheVars
<1>5. ASSUME NEW c \in Client, Serve(c) PROVE Progress
  BY <1>1, <1>3, <1>5
     DEF Serve, ReadRevision, LookupHit, LookupMiss, Compute, Store, Retry, Respond,
         cacheVars
<1>6. ASSUME NEW p \in Process, Crash(p) PROVE FALSE
  <2>1. crashes \in 0 .. 0 /\ crashes < 0
    BY <1>6 DEF Crash, TypeOK, OneServer
  <2> QED BY <2>1
<1>7. ASSUME NEW c \in Client, NEW p \in Process, NEW k \in Key, Start(c, p, k)
      PROVE  Progress
  BY <1>1, <1>7 DEF Start, cacheVars
<1>8. ASSUME NEW p \in Process, NEW k \in Key, Expire(p, k) PROVE Progress
  BY <1>1, <1>8 DEF Expire
<1>9. CASE UNCHANGED vars
  BY <1>1, <1>9 DEF vars, cacheVars
<1> QED BY <1>4, <1>5, <1>6, <1>7, <1>8, <1>9 DEF Next

(* A step of one request leaves what is known of the others.               *)
LEMMA OthersHeld ==
  ASSUME ServerInv, Progress, copy' = copy, NEW c \in Client, HeldOK(c)',
         \A d \in Client : d # c => req'[d] = req[d] /\ pc'[d] = pc[d]
  PROVE  CopyInv'
<1>1. ASSUME NEW d \in Client, NEW k \in Key PROVE CopyOK(d, k)'
  BY ProgressCopy
<1>2. ASSUME NEW d \in Client PROVE HeldOK(d)'
  BY ProgressHeld
<1> QED BY <1>1, <1>2 DEF CopyInv

(* The lookup captures the current revision: whatever copy bears it is     *)
(* current, and so is the entry it may hit.                                *)
LEMMA LookupHeld ==
  ASSUME ServerInv, OneServer, Progress, NEW c \in Client,
         LookupHit(c) \/ LookupMiss(c)
  PROVE  CopyInv'
<1> USE DEF ServerInv, CacheInv
<1> DEFINE q == req[c].proc
           k == req[c].key
<1>1. q \in Process /\ k \in Key /\ req[c] \in Request /\ pc[c] = "lookup"
  BY DEF LookupHit, LookupMiss, TypeOK, Request
<1>2. /\ copy' = copy /\ rev' = rev /\ seen' = seen /\ told' = told
      /\ req' \in [Client -> Request] \/ TRUE
      /\ \A d \in Client : d # c => req'[d] = req[d] /\ pc'[d] = pc[d]
  BY DEF LookupHit, LookupMiss, cacheVars, TypeOK
<1>3. /\ req'[c].rev = rev[q] /\ req'[c].key = k /\ req'[c].floor = req[c].floor
      /\ pc'[c] = "respond" =>
           Usable(q, k) /\ req'[c].value = entries[q][k].value
  BY <1>1 DEF LookupHit, LookupMiss, TypeOK, Request
<1> HIDE DEF q, k
<1>4. seen[q] # None /\ req[c].floor <= told[q]
  BY <1>1 DEF RequestInv, RequestOK, q
<1>5. req[c].floor \in Nat /\ told[q] \in Nat /\ rev[q] \in Nat
  BY <1>1 DEF TypeOK, Request, Version
<1>6. copy[c][k] # None /\ copy[c][k].rev = rev[q] =>
        copy[c][k].value >= req[c].floor
  <2> SUFFICES ASSUME copy[c][k] # None, copy[c][k].rev = rev[q]
               PROVE  copy[c][k].value >= req[c].floor
    OBVIOUS
  <2>1. copy[c][k].value >= told[q]
    BY <1>1 DEF CopyInv, CopyOK
  <2>2. copy[c][k].value \in Nat
    BY <1>1 DEF TypeOK, Copy, Version
  <2> QED BY <1>4, <1>5, <2>1, <2>2
<1>7. pc'[c] = "respond" => req'[c].value >= told[q]
  BY <1>1, <1>3 DEF Usable, EntryInv, EntryOK
<1>8. \A p \in Process : p = q
  BY <1>1 DEF OneServer
<1>9. HeldOK(c)'
  <2>1. pc'[c] = "respond" =>
          \A p \in Process :
            /\ seen'[p] # None /\ req'[c].rev <= rev'[p]
            /\ req'[c].rev = rev'[p] => req'[c].value >= told'[p]
    BY <1>2, <1>3, <1>4, <1>5, <1>7, <1>8
  <2> QED BY <1>2, <1>3, <1>6, <2>1 DEF HeldOK
<1> QED BY <1>2, <1>9, OthersHeld

LEMMA ComputeHeld ==
  ASSUME ServerInv, Progress, NEW c \in Client, Compute(c)
  PROVE  CopyInv'
<1> USE DEF ServerInv, CacheInv
<1>1. /\ copy' = copy /\ pc[c] = "compute" /\ pc'[c] = "store"
      /\ \A d \in Client : d # c => req'[d] = req[d] /\ pc'[d] = pc[d]
      /\ req'[c].rev = req[c].rev /\ req'[c].key = req[c].key
      /\ req'[c].floor = req[c].floor
  BY DEF Compute, TypeOK, Request
<1>2. HeldOK(c)'
  BY <1>1 DEF CopyInv, HeldOK
<1> QED BY <1>1, <1>2, OthersHeld

LEMMA StoreHeld ==
  ASSUME ServerInv, OneServer, Progress, NEW c \in Client, Store(c)
  PROVE  CopyInv'
<1> USE DEF ServerInv, CacheInv
<1> DEFINE q == req[c].proc
<1>1. /\ q \in Process /\ pc[c] = "store" /\ pc'[c] = "respond"
      /\ copy' = copy /\ rev' = rev /\ seen' = seen /\ told' = told /\ req' = req
      /\ \A d \in Client : d # c => req'[d] = req[d] /\ pc'[d] = pc[d]
      /\ req[c].rev = rev[q] /\ rev[q] \in Nat
  BY DEF Store, TypeOK, Request
<1>2. seen[q] # None /\ req[c].value >= told[q]
  BY <1>1 DEF RequestInv, RequestOK
<1>3. \A p \in Process : p = q
  BY <1>1 DEF OneServer
<1> HIDE DEF q
<1>4. HeldOK(c)'
  <2>1. \A p \in Process :
          /\ seen'[p] # None /\ req'[c].rev <= rev'[p]
          /\ req'[c].rev = rev'[p] => req'[c].value >= told'[p]
    BY <1>1, <1>2, <1>3
  <2> QED BY <1>1, <2>1 DEF CopyInv, HeldOK
<1> QED BY <1>1, <1>4, OthersHeld

(* The browser keeps the copy it has or takes the answer, which is current *)
(* if its revision still is.                                               *)
LEMMA RespondHeld ==
  ASSUME ServerInv, NEW c \in Client, Respond(c)
  PROVE  CopyInv'
<1> USE DEF ServerInv, CacheInv
<1> DEFINE a == [rev |-> req[c].rev, dbRev |-> req[c].dbRev,
                 value |-> req[c].value]
<1>1. /\ req[c] \in Request /\ req[c].key \in Key /\ pc[c] = "respond"
      /\ rev' = rev /\ seen' = seen /\ told' = told
      /\ pc'[c] = "idle"
      /\ \A d \in Client : d # c => req'[d] = req[d] /\ pc'[d] = pc[d]
  BY DEF Respond, cacheVars, TypeOK, Request
<1>2. copy' = copy \/ copy' = [copy EXCEPT ![c][req[c].key] = a]
  BY DEF Respond
<1>3. /\ \A d \in Client : d # c => copy'[d] = copy[d]
      /\ \A k \in Key : copy'[c][k] = copy[c][k] \/ copy'[c][k] = a
  BY <1>1, <1>2 DEF TypeOK
<1>4. a.rev = req[c].rev /\ a.value = req[c].value
  OBVIOUS
<1> HIDE DEF a
<1>5. ASSUME NEW d \in Client, NEW k \in Key PROVE CopyOK(d, k)'
  <2>1. CopyOK(d, k)
    BY DEF CopyInv
  <2>2. CASE copy'[d][k] = copy[d][k]
    BY <1>1, <2>1, <2>2 DEF CopyOK
  <2>3. CASE d = c /\ copy'[d][k] = a
    <3>1. \A p \in Process :
            /\ seen[p] # None /\ req[c].rev <= rev[p]
            /\ req[c].rev = rev[p] => req[c].value >= told[p]
      BY <1>1 DEF CopyInv, HeldOK
    <3> QED BY <1>1, <1>4, <2>3, <3>1 DEF CopyOK
  <2> QED BY <1>3, <2>2, <2>3
<1>6. ASSUME NEW d \in Client PROVE HeldOK(d)'
  <2>1. CASE d = c
    BY <1>1, <2>1 DEF HeldOK
  <2>2. CASE d # c
    BY <1>1, <1>3, <2>2 DEF CopyInv, HeldOK
  <2> QED BY <2>1, <2>2
<1> QED BY <1>5, <1>6 DEF CopyInv

LEMMA CopyStep ==
  ASSUME ServerInv, [Next]_vars, OneServer
  PROVE  CopyInv'
<1> USE DEF ServerInv
<1>1. Progress
  BY StepProgress
<1>2. ASSUME copy' = copy, pc' = pc, req' = req PROVE CopyInv'
  <2>1. ASSUME NEW d \in Client, NEW k \in Key PROVE CopyOK(d, k)'
    BY <1>1, <1>2, ProgressCopy
  <2>2. ASSUME NEW d \in Client PROVE HeldOK(d)'
    BY <1>1, <1>2, ProgressHeld
  <2> QED BY <2>1, <2>2 DEF CopyInv
<1>3. ASSUME NEW w \in Session, WriterStep(w) PROVE CopyInv'
  BY <1>2, <1>3 DEF WriterStep, Flush, Rollback, Commit, Invalidate, Bump,
     LoseBump, clientVars
<1>4. ASSUME NEW c \in Client, copy' = copy, pc'[c] \in {"revision", "observe", "lookup"},
             \A d \in Client : d # c => req'[d] = req[d] /\ pc'[d] = pc[d]
      PROVE  CopyInv'
  <2>1. HeldOK(c)'
    BY <1>4 DEF HeldOK
  <2> QED BY <1>1, <1>4, <2>1, OthersHeld
<1>5. ASSUME NEW c \in Client, NEW p \in Process, NEW k \in Key, Start(c, p, k)
      PROVE  CopyInv'
  BY <1>4, <1>5 DEF Start, CacheInv, TypeOK
<1>6. ASSUME NEW c \in Client, Serve(c) PROVE CopyInv'
  <2>1. CASE Observe(c)
    BY <1>4, <2>1 DEF Observe, CacheInv, TypeOK
  <2>2. CASE Retry(c)
    BY <1>4, <2>2 DEF Retry, CacheInv, TypeOK
  <2>3. CASE ReadRevision(c)
    BY <1>4, <2>3 DEF ReadRevision, CacheInv, TypeOK
  <2> QED BY <1>1, <1>6, <2>1, <2>2, <2>3, LookupHeld, ComputeHeld, StoreHeld,
             RespondHeld DEF Serve
<1>7. ASSUME NEW p \in Process, NEW k \in Key, Expire(p, k) PROVE CopyInv'
  BY <1>2, <1>7 DEF Expire, clientVars
<1>8. ASSUME NEW p \in Process, Crash(p) PROVE FALSE
  <2>1. crashes \in 0 .. 0 /\ crashes < 0
    BY <1>8 DEF Crash, CacheInv, TypeOK, OneServer
  <2> QED BY <2>1
<1>9. CASE UNCHANGED vars
  BY <1>2, <1>9 DEF vars, clientVars
<1> QED BY <1>3, <1>5, <1>6, <1>7, <1>8, <1>9 DEF Next

LEMMA CopyInit == Init => CopyInv
BY DEF Init, CopyInv, CopyOK, HeldOK

(* With one process, whatever increments of the shared revision are lost,  *)
(* a browser told that nothing has changed holds a list with every commit  *)
(* its request had to see: the process-local revision in the ETag is       *)
(* enough, and the database revision adds nothing for a single process.    *)
THEOREM CurrentCopies ==
  ASSUME OneServer
  PROVE  Spec => []NotModifiedIsCurrent
<1>1. Init => ServerInv
  BY CacheInit, CopyInit DEF ServerInv
<1>2. ServerInv /\ [Next]_vars => ServerInv'
  BY CacheStep, CopyStep DEF ServerInv
<1>3. ServerInv => NotModifiedIsCurrent
  BY DEF ServerInv, CopyInv, HeldOK, NotModifiedIsCurrent, NotModified
<1> QED BY <1>1, <1>2, <1>3, PTL DEF Spec

-----------------------------------------------------------------------------
(* The cache implements CurrentLists.  Beyond ServerInv this needs that no *)
(* list contains more than has happened, and that a later revision covers  *)
(* whatever an earlier one does, so that observing teaches the process     *)
(* nothing that could not already be read.                                 *)

ValuesHappened ==
  /\ \A p \in Process, k \in Key :
       entries[p][k] # None => entries[p][k].value <= committed
  /\ \A c \in Client : req[c].value <= committed
  /\ \A c \in Client, k \in Key :
       copy[c][k] # None => copy[c][k].value <= committed

CoversGrow == \A d \in 0 .. dbRev : covers[d] <= covers[dbRev]

ListsInv == ServerInv /\ ValuesHappened /\ CoversGrow

LEMMA ListsInvInit == Init => ListsInv
<1> SUFFICES ASSUME Init PROVE ListsInv
  OBVIOUS
<1>1. ServerInv
  BY CacheInit, CopyInit DEF ServerInv
<1>2. ValuesHappened
  BY DEF Init, ValuesHappened, EmptyCache, IdleRequest
<1>3. CoversGrow
  BY DEF Init, CoversGrow
<1> QED BY <1>1, <1>2, <1>3 DEF ListsInv

LEMMA CoversStep ==
  ASSUME ListsInv, [Next]_vars
  PROVE  CoversGrow'
<1> USE DEF ListsInv, ServerInv, CacheInv
<1>1. CASE UNCHANGED <<dbRev, covers>>
  BY <1>1 DEF CoversGrow
<1>2. ASSUME NEW w \in Session, Bump(w) PROVE CoversGrow'
  <2>1. dbRev \in Nat /\ dbRev' = dbRev + 1
    BY <1>2 DEF Bump, TypeOK
  <2>2. writer[w].version \in Version
    BY DEF TypeOK, SessionState
  <2>3. covers' = [d \in 0 .. dbRev + 1 |->
                     IF d <= dbRev THEN covers[d]
                     ELSE MaxOf(covers[dbRev], writer[w].version)]
    BY <1>2 DEF Bump
  <2>4. \A d \in 0 .. dbRev : covers'[d] = covers[d] /\ covers[d] \in Nat
    BY <2>1, <2>3 DEF TypeOK, Version
  <2>5. /\ covers'[dbRev'] = MaxOf(covers[dbRev], writer[w].version)
        /\ covers[dbRev] \in Nat /\ writer[w].version \in Nat
    BY <2>1, <2>2, <2>3 DEF TypeOK, Version
  <2>6. covers'[dbRev'] >= covers[dbRev] /\ covers'[dbRev'] \in Nat
    BY <2>5 DEF MaxOf
  <2> SUFFICES ASSUME NEW d \in 0 .. dbRev' PROVE covers'[d] <= covers'[dbRev']
    BY DEF CoversGrow
  <2>7. CASE d = dbRev'
    BY <2>6, <2>7
  <2>8. CASE d \in 0 .. dbRev
    <3>1. covers[d] <= covers[dbRev]
      BY <2>8 DEF CoversGrow
    <3> QED BY <2>4, <2>5, <2>6, <2>8, <3>1
  <2> QED BY <2>1, <2>7, <2>8
<1>3. ASSUME NEW w \in Session, WriterStep(w) PROVE CoversGrow'
  BY <1>1, <1>2, <1>3 DEF WriterStep, Flush, Rollback, Commit, Invalidate, LoseBump
<1>4. ASSUME NEW c \in Client, Serve(c) PROVE CoversGrow'
  BY <1>1, <1>4
     DEF Serve, ReadRevision, Observe, LookupHit, LookupMiss, Compute, Store, Retry,
         Respond
<1>5. CASE UNCHANGED vars
  BY <1>1, <1>5 DEF vars
<1> QED BY <1>1, <1>3, <1>4, <1>5 DEF Next, Start, Expire, Crash

(* Lists come into being with the data committed so far, and only move.    *)
LEMMA ValuesStep ==
  ASSUME ListsInv, [Next]_vars
  PROVE  ValuesHappened'
<1> USE DEF ListsInv, ServerInv, CacheInv
<1>1. committed \in Nat
  BY DEF TypeOK, Version
<1>2. CASE UNCHANGED <<committed, entries, req, copy>>
  BY <1>2 DEF ValuesHappened
<1>3. ASSUME NEW w \in Session, WriterStep(w) PROVE ValuesHappened'
  <2>1. CASE Commit(w)
    <3>1. /\ committed' = committed + 1
          /\ UNCHANGED <<entries, req, copy>>
      BY <2>1 DEF Commit, cacheVars, clientVars
    <3>2. /\ \A p \in Process, k \in Key :
               entries[p][k] # None => entries[p][k].value \in Nat
          /\ \A c \in Client : req[c].value \in Nat
          /\ \A c \in Client, k \in Key :
               copy[c][k] # None => copy[c][k].value \in Nat
      BY DEF TypeOK, Entry, Request, Copy, Version
    <3>3. \A n \in Nat : n <= committed => n <= committed'
      BY <1>1, <3>1
    <3> QED BY <3>1, <3>2, <3>3 DEF ValuesHappened
  <2>2. CASE Invalidate(w)
    <3> DEFINE q == writer[w].proc
    <3>1. /\ q \in Process /\ UNCHANGED <<committed, req, copy>>
          /\ entries' = [entries EXCEPT ![q] = EmptyCache]
      BY <2>2 DEF Invalidate, DropEntries, clientVars, TypeOK, SessionState
    <3> HIDE DEF q
    <3> QED BY <3>1 DEF ValuesHappened, EmptyCache, TypeOK
  <2> QED BY <1>2, <1>3, <2>1, <2>2
          DEF WriterStep, Flush, Rollback, Bump, LoseBump, cacheVars, clientVars
<1>4. ASSUME NEW c \in Client, NEW p \in Process, NEW k \in Key, Start(c, p, k)
      PROVE  ValuesHappened'
  <2>1. /\ UNCHANGED <<committed, entries, copy>>
        /\ req'[c].value = 0 /\ \A d \in Client : d # c => req'[d] = req[d]
    BY <1>4 DEF Start, cacheVars, TypeOK, IdleRequest
  <2> QED BY <1>1, <2>1 DEF ValuesHappened
<1>5. ASSUME NEW c \in Client, Serve(c) PROVE ValuesHappened'
  <2> DEFINE q == req[c].proc
             j == req[c].key
  <2>1. /\ q \in Process /\ j \in Key /\ req[c] \in Request
        /\ req[c].value <= committed /\ committed' = committed
    BY <1>5 DEF TypeOK, Request, ValuesHappened, Serve, ReadRevision, Observe,
       LookupHit, LookupMiss, Compute, Store, Retry, Respond
  <2> HIDE DEF q, j
  <2>2. ASSUME UNCHANGED <<entries, copy>>, req'[c].value <= committed,
               \A d \in Client : d # c => req'[d] = req[d]
        PROVE  ValuesHappened'
    BY <2>1, <2>2 DEF ValuesHappened
  <2>3. CASE Observe(c)
    <3>1. /\ UNCHANGED <<req, copy>>
          /\ entries' = entries \/ entries' = [entries EXCEPT ![q] = EmptyCache]
      BY <2>3 DEF Observe, DropEntries, q
    <3>2. ASSUME NEW p \in Process, NEW i \in Key, entries'[p][i] # None
          PROVE  entries'[p][i] = entries[p][i]
      BY <2>1, <3>1, <3>2 DEF EmptyCache, TypeOK
    <3> QED BY <2>1, <3>1, <3>2 DEF ValuesHappened
  <2>4. CASE LookupHit(c)
    <3>1. /\ UNCHANGED <<entries, copy>>
          /\ entries[q][j] # None /\ req'[c].value = entries[q][j].value
          /\ \A d \in Client : d # c => req'[d] = req[d]
      BY <2>1, <2>4 DEF LookupHit, Usable, TypeOK, Request, q, j
    <3> QED BY <2>1, <2>2, <3>1 DEF ValuesHappened
  <2>5. CASE LookupMiss(c)
    BY <2>1, <2>2, <2>5 DEF LookupMiss, cacheVars, TypeOK, Request
  <2>6. CASE Compute(c)
    BY <1>1, <2>1, <2>2, <2>6 DEF Compute, cacheVars, TypeOK, Request
  <2>7. CASE Store(c)
    <3> DEFINE touched == Touch(q, j)
               evicted == IF Len(touched) > MaxEntries THEN {Head(touched)} ELSE {}
    <3>1. /\ UNCHANGED <<req, copy>>
          /\ entries' = [entries EXCEPT ![q] = [i \in Key |->
                   IF i \in evicted THEN None
                   ELSE IF i = j THEN NewEntry(c) ELSE @[i]]]
      BY <2>7 DEF Store, q, j
    <3>2. NewEntry(c).value = req[c].value
      BY DEF NewEntry
    <3> HIDE DEF evicted
    <3>3. ASSUME NEW p \in Process, NEW i \in Key, entries'[p][i] # None
          PROVE  \/ entries'[p][i] = entries[p][i]
                 \/ entries'[p][i] = NewEntry(c)
      BY <2>1, <3>1, <3>3 DEF TypeOK
    <3>4. ASSUME NEW p \in Process, NEW i \in Key, entries'[p][i] # None
          PROVE  entries'[p][i].value <= committed
      BY <2>1, <3>2, <3>3, <3>4 DEF ValuesHappened
    <3> QED BY <2>1, <3>1, <3>4 DEF ValuesHappened
  <2>8. CASE Retry(c)
    BY <1>1, <2>1, <2>2, <2>8 DEF Retry, cacheVars, TypeOK, Request
  <2>9. CASE Respond(c)
    <3> DEFINE a == [rev |-> req[c].rev, dbRev |-> req[c].dbRev,
                     value |-> req[c].value]
    <3>1. /\ entries' = entries /\ req' = [req EXCEPT ![c] = IdleRequest]
          /\ copy' = copy \/ copy' = [copy EXCEPT ![c][j] = a]
      BY <2>9 DEF Respond, cacheVars, j
    <3>2. a.value = req[c].value
      OBVIOUS
    <3> HIDE DEF a
    <3>3. ASSUME NEW d \in Client, NEW k \in Key, copy'[d][k] # None
          PROVE  copy'[d][k].value <= committed
      <4>1. copy'[d][k] = copy[d][k] \/ copy'[d][k] = a
        BY <2>1, <3>1 DEF TypeOK
      <4> QED BY <2>1, <3>2, <3>3, <4>1 DEF ValuesHappened
    <3>4. \A d \in Client : req'[d] = req[d] \/ req'[d].value = 0
      BY <3>1 DEF TypeOK, IdleRequest
    <3> QED BY <1>1, <2>1, <3>1, <3>3, <3>4 DEF ValuesHappened
  <2>10. CASE ReadRevision(c)
    BY <2>1, <2>2, <2>10 DEF ReadRevision, cacheVars, TypeOK, Request
  <2> QED BY <1>5, <2>3, <2>4, <2>5, <2>6, <2>7, <2>8, <2>9, <2>10 DEF Serve
<1>6. ASSUME NEW p \in Process, NEW k \in Key, Expire(p, k) PROVE ValuesHappened'
  <2>1. /\ UNCHANGED <<committed, req, copy>>
        /\ entries' = [entries EXCEPT ![p][k].fresh = FALSE]
        /\ entries[p][k] # None /\ entries[p][k] \in Entry
    BY <1>6 DEF Expire, clientVars, TypeOK
  <2>2. [entries[p][k] EXCEPT !.fresh = FALSE].value = entries[p][k].value
    BY <2>1 DEF Entry
  <2>3. ASSUME NEW q \in Process, NEW i \in Key, entries'[q][i] # None
        PROVE  /\ entries[q][i] # None
               /\ entries'[q][i].value = entries[q][i].value
    BY <2>1, <2>2, <2>3 DEF TypeOK
  <2> QED BY <2>1, <2>3 DEF ValuesHappened
<1>7. ASSUME NEW p \in Process, Crash(p) PROVE ValuesHappened'
  <2>1. /\ UNCHANGED <<committed, copy>>
        /\ entries' = [entries EXCEPT ![p] = EmptyCache]
        /\ \A d \in Client : req'[d] = req[d] \/ req'[d].value = 0
    BY <1>7 DEF Crash, IdleRequest
  <2>2. ASSUME NEW q \in Process, NEW i \in Key, entries'[q][i] # None
        PROVE  entries'[q][i] = entries[q][i]
    BY <2>1, <2>2 DEF EmptyCache, TypeOK
  <2> QED BY <1>1, <2>1, <2>2 DEF ValuesHappened
<1>8. CASE UNCHANGED vars
  BY <1>2, <1>8 DEF vars, cacheVars, clientVars
<1> QED BY <1>3, <1>4, <1>5, <1>6, <1>7, <1>8 DEF Next

LEMMA ListsInvStep == ListsInv /\ [Next]_vars /\ OneServer => ListsInv'
<1> SUFFICES ASSUME ListsInv, [Next]_vars, OneServer PROVE ListsInv'
  OBVIOUS
<1>1. ServerInv'
  BY CacheStep, CopyStep DEF ListsInv, ServerInv
<1> QED BY <1>1, CoversStep, ValuesStep DEF ListsInv

-----------------------------------------------------------------------------
(* Each step is one of CurrentLists or leaves what that specification      *)
(* speaks of.                                                              *)

(* The requests under way change by their beginning and their end only.    *)
LEMMA RequestsSame ==
  ASSUME \A c \in Client : (pc'[c] # "idle") <=> (pc[c] # "idle"),
         \A c \in Client : pc[c] # "idle" =>
           req'[c].key = req[c].key /\ req'[c].floor = req[c].floor
  PROVE  RequestsUnderWay' = RequestsUnderWay
BY DEF RequestsUnderWay

LEMMA NothingToNotice ==
  ASSUME UNCHANGED <<committed, dbRev, told, covers, copy>>,
         RequestsUnderWay' = RequestsUnderWay
  PROVE  UNCHANGED Lists!listVars
BY DEF Lists!listVars, KnownCommit, ListsOnPages

LEMMA CommitLists ==
  ASSUME NEW w \in Session, Commit(w)
  PROVE  Lists!Change
<1>1. /\ committed' = committed + 1
      /\ UNCHANGED <<dbRev, told, covers, copy, pc, req>>
  BY DEF Commit, cacheVars, clientVars
<1> QED BY <1>1 DEF Lists!Change, KnownCommit, RequestsUnderWay, ListsOnPages

(* What is known grows, up to what has been committed.                     *)
LEMMA LearnLists ==
  ASSUME NEW w \in Session, ListsInv, ListsInv', Invalidate(w) \/ Bump(w)
  PROVE  \E v \in KnownCommit .. committed : Lists!Learn(v)
<1> USE DEF ListsInv, ServerInv, CacheInv
<1>1. /\ UNCHANGED <<committed, copy, pc, req>>
      /\ dbRev \in Nat /\ dbRev' \in Nat
      /\ writer[w].version \in Nat /\ writer[w].proc \in Process
  <2>1. writer[w] \in SessionState /\ dbRev \in Nat
    BY DEF TypeOK
  <2>2. writer[w].version \in Nat /\ writer[w].proc \in Process
    BY <2>1 DEF SessionState, Version
  <2>3. UNCHANGED <<committed, copy, pc, req>> /\ dbRev' \in {dbRev, dbRev + 1}
    BY DEF Invalidate, Bump, clientVars
  <2> QED BY <2>1, <2>2, <2>3
<1>2. SomeProcess \in Process
  BY CacheAssumption DEF SomeProcess
<1>3. /\ told[SomeProcess] \in Nat /\ told'[SomeProcess] \in Nat
      /\ covers[dbRev] \in Nat /\ covers'[dbRev'] \in Nat /\ committed \in Nat
  BY <1>1, <1>2 DEF TypeOK, Version
<1>4. /\ told'[SomeProcess] >= told[SomeProcess]
      /\ covers'[dbRev'] >= covers[dbRev]
  <2>1. CASE Invalidate(w)
    <3>1. /\ told' = [told EXCEPT ![writer[w].proc] = MaxOf(@, writer[w].version)]
          /\ covers' = covers /\ dbRev' = dbRev
      BY <2>1 DEF Invalidate
    <3>2. told'[SomeProcess] \in
            {told[SomeProcess], MaxOf(told[SomeProcess], writer[w].version)}
      BY <1>2, <3>1 DEF TypeOK
    <3> QED BY <1>1, <1>3, <3>1, <3>2 DEF MaxOf
  <2>2. CASE Bump(w)
    <3>1. /\ told' = told /\ dbRev' = dbRev + 1
          /\ covers'[dbRev'] = MaxOf(covers[dbRev], writer[w].version)
      BY <1>1, <2>2 DEF Bump
    <3> QED BY <1>1, <1>3, <3>1 DEF MaxOf
  <2> QED BY <2>1, <2>2
<1>5. told'[SomeProcess] <= committed /\ covers'[dbRev'] <= committed
  BY <1>1, <1>2 DEF ToldInv
<1>6. KnownCommit' \in KnownCommit .. committed
  BY <1>3, <1>4, <1>5 DEF KnownCommit, MaxOf
<1>7. RequestsUnderWay' = RequestsUnderWay /\ ListsOnPages' = ListsOnPages
  BY <1>1 DEF RequestsUnderWay, ListsOnPages
<1>8. Lists!Learn(KnownCommit')
  BY <1>1, <1>6, <1>7 DEF Lists!Learn
<1> QED BY <1>6, <1>8

LEMMA AskLists ==
  ASSUME NEW c \in Client, NEW p \in Process, NEW k \in Key, ListsInv, OneServer,
         Start(c, p, k)
  PROVE  Lists!Ask(c, k)
<1> USE DEF ListsInv, ServerInv, CacheInv
<1>1. /\ UNCHANGED <<committed, dbRev, told, covers, copy>>
      /\ pc[c] = "idle" /\ pc'[c] = "revision"
      /\ req'[c].key = k /\ req'[c].floor = MaxOf(told[p], covers[dbRev])
      /\ \A d \in Client : d # c => pc'[d] = pc[d] /\ req'[d] = req[d]
  BY DEF Start, cacheVars, TypeOK, IdleRequest
<1>2. p = SomeProcess
  BY CacheAssumption DEF OneServer, SomeProcess
<1>3. /\ KnownCommit' = KnownCommit /\ ListsOnPages' = ListsOnPages
      /\ req'[c].floor = KnownCommit
  BY <1>1, <1>2 DEF KnownCommit, ListsOnPages
<1>4. \A r \in RequestsUnderWay : r.client # c
  BY <1>1 DEF RequestsUnderWay
<1>5. RequestsUnderWay' =
        RequestsUnderWay \cup {[client |-> c, key |-> k, since |-> KnownCommit]}
  BY <1>1, <1>3 DEF RequestsUnderWay
<1> QED BY <1>1, <1>3, <1>4, <1>5 DEF Lists!Ask

(* Whatever the process observes could be read when it was asked.          *)
LEMMA ObserveLists ==
  ASSUME NEW c \in Client, ListsInv, OneServer, Observe(c)
  PROVE  UNCHANGED Lists!listVars
<1> USE DEF ListsInv, ServerInv, CacheInv
<1> DEFINE q == req[c].proc
           n == req[c].dbRev
<1>1. /\ UNCHANGED <<committed, dbRev, covers, copy, req>>
      /\ pc[c] = "observe" /\ pc' = [pc EXCEPT ![c] = "lookup"]
      /\ told' = [told EXCEPT ![q] = MaxOf(@, covers[n])]
      /\ q \in Process /\ n \in 0 .. dbRev
  BY DEF Observe, TypeOK, Request, RequestInv, RequestOK
<1> HIDE DEF q, n
<1>2. q = SomeProcess
  BY <1>1, CacheAssumption DEF OneServer, SomeProcess
<1>3. covers[n] <= covers[dbRev]
  BY <1>1 DEF CoversGrow
<1>4. covers[n] \in Nat /\ covers[dbRev] \in Nat /\ told[q] \in Nat
  BY <1>1 DEF TypeOK, Version
<1>5. told'[SomeProcess] = MaxOf(told[SomeProcess], covers[n])
  BY <1>1, <1>2 DEF TypeOK
<1>6. KnownCommit' = KnownCommit
  BY <1>1, <1>2, <1>3, <1>4, <1>5 DEF KnownCommit, MaxOf
<1>7. RequestsUnderWay' = RequestsUnderWay
  BY <1>1, RequestsSame DEF TypeOK
<1> QED BY <1>1, <1>6, <1>7 DEF Lists!listVars, ListsOnPages

LEMMA RespondLists ==
  ASSUME NEW c \in Client, ListsInv, Respond(c)
  PROVE  \E r \in RequestsUnderWay : \E v \in r.since .. committed :
           Lists!Answer(r, v)
<1> USE DEF ListsInv, ServerInv, CacheInv
<1> DEFINE k == req[c].key
           r == [client |-> c, key |-> k, since |-> req[c].floor]
           v == IF NotModified(c) THEN copy[c][k].value ELSE req[c].value
           a == [rev |-> req[c].rev, dbRev |-> req[c].dbRev,
                 value |-> req[c].value]
<1>1. /\ UNCHANGED <<committed, dbRev, told, covers>>
      /\ pc[c] = "respond" /\ pc'[c] = "idle"
      /\ copy' = IF NotModified(c) THEN copy ELSE [copy EXCEPT ![c][k] = a]
      /\ \A d \in Client : d # c => pc'[d] = pc[d] /\ req'[d] = req[d]
      /\ k \in Key /\ req[c] \in Request
  BY DEF Respond, cacheVars, TypeOK, Request
<1>2. v \in req[c].floor .. committed
  <2>1. req[c].value \in Nat /\ req[c].floor \in Nat /\ committed \in Nat
    BY <1>1 DEF TypeOK, Request, Version
  <2>2. CASE NotModified(c)
    <3>1. copy[c][k] # None /\ copy[c][k].rev = req[c].rev
      BY <2>2 DEF NotModified
    <3>2. copy[c][k].value \in Nat /\ copy[c][k].value <= committed
      BY <1>1, <3>1 DEF TypeOK, Copy, Version, ValuesHappened
    <3>3. copy[c][k].value >= req[c].floor
      BY <1>1, <3>1 DEF CopyInv, HeldOK
    <3> QED BY <2>1, <2>2, <3>2, <3>3
  <2>3. CASE ~NotModified(c)
    <3>1. req[c].value >= req[c].floor /\ req[c].value <= committed
      BY <1>1 DEF RequestInv, RequestOK, ValuesHappened
    <3> QED BY <2>1, <2>3, <3>1
  <2> QED BY <2>2, <2>3
<1>3. KnownCommit' = KnownCommit
  BY <1>1 DEF KnownCommit
<1>4. r \in RequestsUnderWay
  BY <1>1 DEF RequestsUnderWay
<1>5. RequestsUnderWay' = RequestsUnderWay \ {r}
  BY <1>1 DEF RequestsUnderWay
<1>6. ListsOnPages' = [ListsOnPages EXCEPT ![c][k] = v]
  <2>1. ListsOnPages \in [Client -> [Key -> Nat \cup {None}]]
    BY DEF ListsOnPages, TypeOK, Copy, Version
  <2>2. a.value = req[c].value /\ a # None
    BY <1>1, CacheAssumption DEF Copy, Request
  <2>3. ASSUME NEW d \in Client, NEW j \in Key
        PROVE  ListsOnPages'[d][j] =
                 IF d = c /\ j = k THEN v ELSE ListsOnPages[d][j]
    <3>1. ListsOnPages'[d][j] =
            IF copy'[d][j] = None THEN None ELSE copy'[d][j].value
      BY DEF ListsOnPages
    <3>2. ListsOnPages[d][j] =
            IF copy[d][j] = None THEN None ELSE copy[d][j].value
      BY DEF ListsOnPages
    <3>3. CASE NotModified(c)
      <4>1. copy[c][k] # None /\ copy' = copy
        BY <1>1, <3>3 DEF NotModified
      <4> QED BY <3>1, <3>2, <3>3, <4>1
    <3>4. CASE ~NotModified(c)
      <4> HIDE DEF a
      <4>1. copy'[d][j] = IF d = c /\ j = k THEN a ELSE copy[d][j]
        BY <1>1, <3>4 DEF TypeOK
      <4> QED BY <2>2, <3>1, <3>2, <3>4, <4>1
    <3> QED BY <3>3, <3>4
  <2> HIDE DEF v
  <2>4. ListsOnPages' = [d \in Client |-> [j \in Key |->
                           IF d = c /\ j = k THEN v ELSE ListsOnPages[d][j]]]
    <3> DEFINE f == [d \in Client |-> [j \in Key |->
                       IF copy'[d][j] = None THEN None ELSE copy'[d][j].value]]
               g == [d \in Client |-> [j \in Key |->
                       IF d = c /\ j = k THEN v ELSE ListsOnPages[d][j]]]
    <3>1. ListsOnPages' = f
      BY DEF ListsOnPages
    <3>2. \A d \in Client, j \in Key : f[d][j] = g[d][j]
      BY <2>3, <3>1
    <3>3. \A d \in Client : f[d] = g[d]
      BY <3>2
    <3> QED BY <3>1, <3>3
  <2>5. [ListsOnPages EXCEPT ![c][k] = v] =
          [d \in Client |-> [j \in Key |->
             IF d = c /\ j = k THEN v ELSE ListsOnPages[d][j]]]
    <3> DEFINE f == [ListsOnPages EXCEPT ![c][k] = v]
               g == [d \in Client |-> [j \in Key |->
                       IF d = c /\ j = k THEN v ELSE ListsOnPages[d][j]]]
    <3>1. \A d \in Client : f[d] = g[d]
      BY <1>1, <2>1
    <3>2. f = [d \in Client |-> f[d]]
      BY <2>1
    <3> QED BY <3>1, <3>2
  <2> QED BY <2>4, <2>5
<1> HIDE DEF v
<1>7. Lists!Answer(r, v)
  BY <1>1, <1>2, <1>3, <1>5, <1>6 DEF Lists!Answer
<1> QED BY <1>2, <1>4, <1>7

LEMMA ListsStep ==
  ListsInv /\ ListsInv' /\ [Next]_vars /\ OneServer =>
    [Lists!ListsNext]_(Lists!listVars)
<1> SUFFICES ASSUME ListsInv, ListsInv', [Next]_vars, OneServer
             PROVE  Lists!ListsNext \/ UNCHANGED Lists!listVars
  OBVIOUS
<1> USE DEF ListsInv, ServerInv, CacheInv
<1>1. ASSUME UNCHANGED <<committed, dbRev, told, covers, copy, pc, req>>
      PROVE  UNCHANGED Lists!listVars
  BY <1>1 DEF Lists!listVars, KnownCommit, RequestsUnderWay, ListsOnPages
<1>2. ASSUME NEW w \in Session, WriterStep(w)
      PROVE  Lists!ListsNext \/ UNCHANGED Lists!listVars
  <2>1. CASE Commit(w)
    BY <2>1, CommitLists DEF Lists!ListsNext
  <2>2. CASE Invalidate(w) \/ Bump(w)
    BY <2>2, LearnLists DEF Lists!ListsNext
  <2> QED BY <1>1, <1>2, <2>1, <2>2
          DEF WriterStep, Flush, Rollback, LoseBump, cacheVars, clientVars
<1>3. ASSUME NEW c \in Client, NEW p \in Process, NEW k \in Key, Start(c, p, k)
      PROVE  Lists!ListsNext
  BY <1>3, AskLists DEF Lists!ListsNext
<1>4. ASSUME NEW c \in Client, Serve(c)
      PROVE  Lists!ListsNext \/ UNCHANGED Lists!listVars
  <2>1. CASE Observe(c)
    BY <2>1, ObserveLists
  <2>2. CASE Respond(c)
    BY <2>2, RespondLists DEF Lists!ListsNext
  <2>3. CASE \/ ReadRevision(c) \/ LookupHit(c) \/ LookupMiss(c)
            \/ Compute(c) \/ Store(c) \/ Retry(c)
    <3>1. UNCHANGED <<committed, dbRev, told, covers, copy>>
      BY <2>3 DEF ReadRevision, LookupHit, LookupMiss, Compute, Store, Retry, cacheVars
    <3>2. \A d \in Client : (pc'[d] # "idle") <=> (pc[d] # "idle")
      BY <2>3 DEF ReadRevision, LookupHit, LookupMiss, Compute, Store, Retry, TypeOK
    <3>3. \A d \in Client :
            req'[d].key = req[d].key /\ req'[d].floor = req[d].floor
      <4> SUFFICES ASSUME NEW d \in Client
                   PROVE  req'[d].key = req[d].key /\ req'[d].floor = req[d].floor
        OBVIOUS
      <4>1. req \in [Client -> Request]
        BY DEF TypeOK
      <4>2. CASE LookupHit(c)
        BY <4>1, <4>2 DEF LookupHit, Request
      <4>3. CASE LookupMiss(c)
        BY <4>1, <4>3 DEF LookupMiss, Request
      <4>4. CASE Compute(c)
        BY <4>1, <4>4 DEF Compute, Request
      <4>5. CASE Store(c)
        BY <4>5 DEF Store
      <4>6. CASE Retry(c)
        BY <4>1, <4>6 DEF Retry, Request
      <4>7. CASE ReadRevision(c)
        BY <4>1, <4>7 DEF ReadRevision, Request
      <4> QED BY <2>3, <4>2, <4>3, <4>4, <4>5, <4>6, <4>7
    <3> QED BY <3>1, <3>2, <3>3, RequestsSame, NothingToNotice
  <2> QED BY <1>4, <2>1, <2>2, <2>3 DEF Serve
<1>5. ASSUME NEW p \in Process, NEW k \in Key, Expire(p, k)
      PROVE  UNCHANGED Lists!listVars
  BY <1>1, <1>5 DEF Expire, clientVars
<1>6. ASSUME NEW p \in Process, Crash(p) PROVE FALSE
  <2>1. crashes \in 0 .. 0 /\ crashes < 0
    BY <1>6 DEF Crash, TypeOK, OneServer
  <2> QED BY <2>1
<1>7. CASE UNCHANGED vars
  BY <1>1, <1>7 DEF vars, clientVars
<1> QED BY <1>2, <1>3, <1>4, <1>5, <1>6, <1>7 DEF Next

LEMMA ListsStart == Init => Lists!ListsInit
<1> SUFFICES ASSUME Init PROVE Lists!ListsInit
  OBVIOUS
<1>1. SomeProcess \in Process
  BY CacheAssumption DEF SomeProcess
<1>2. KnownCommit = 0
  BY <1>1 DEF Init, KnownCommit, MaxOf
<1>3. RequestsUnderWay = {}
  BY DEF Init, RequestsUnderWay
<1>4. ListsOnPages = [c \in Client |-> [k \in Key |-> None]]
  BY DEF Init, ListsOnPages
<1> QED BY <1>2, <1>3, <1>4 DEF Init, Lists!ListsInit

(* A single server implements CurrentLists: through overlapping requests,  *)
(* commits, expiries, evictions and lost increments, every answer shows    *)
(* the list of a moment between the newest commit known to the server when *)
(* it was asked and the answer, and pages change by answers only.          *)
THEOREM ListsAreCurrent ==
  ASSUME OneServer
  PROVE  Spec => PagesAreCurrent
<1>1. Init => ListsInv /\ Lists!ListsInit
  BY ListsInvInit, ListsStart
<1>2. ListsInv /\ [Next]_vars => ListsInv'
  BY ListsInvStep
<1>3. ListsInv /\ ListsInv' /\ [Next]_vars => [Lists!ListsNext]_(Lists!listVars)
  BY ListsStep
<1> QED BY <1>1, <1>2, <1>3, PTL DEF Spec, PagesAreCurrent, Lists!ListsSpec

=============================================================================
