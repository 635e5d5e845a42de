---------------------- MODULE ProviderCredentialsProofs ----------------------
(***************************************************************************)
(* Proofs about ProviderCredentials: its type invariant; that a file holds *)
(* the tokens of one login; that, but for the named exceptions, the file   *)
(* is what the last answer said; and that a session can be renewed as long *)
(* as only one sync at a time renews it.                                   *)
(***************************************************************************)
EXTENDS ProviderCredentials, TLAPS

(* A copy holds the tokens of one login, or the later one was bare.        *)
OfOneLogin(a, c) ==
  c.renewal # 0 =>
    \/ c.access = c.renewal
    \/ platform[a] = "xbox" /\ c.access # 0 /\ latest[c.access] = Bare

(* A login that was bare stays so.                                         *)
Granting ==
  /\ latest' \in [Grant -> {Bare} \cup 0..MaxSerial]
  /\ \A n \in Grant : latest[n] = Bare => latest'[n] = Bare

(* The request has loaded the file and will say nothing new about it.      *)
Revises(r) ==
  r.tells = Same /\ (r.at = "store" \/ (r.at = "ask" /\ r.op \in {"poll", "sync"}))

(* Only Xbox is polled; before the file is loaded only GOG's requests know *)
(* what they will say.                                                     *)
RequestPlaced(r) ==
  /\ r.op = "poll" => platform[r.account] = "xbox"
  /\ r.at = "load" =>
       (r.tells # Same <=> r.op \in {"complete", "logout"} /\ platform[r.account] = "gog")
  /\ r.at = "ask" => r.tells = Same

(* A sync renews something; an answer speaks of the copy; a deletion has   *)
(* nothing to keep.                                                        *)
RequestFits(r) ==
  /\ RequestPlaced(r)
  /\ OfOneLogin(r.account, r.copy)
  /\ r.op = "sync" /\ r.at \in {"ask", "store"} => r.copy.renewal # 0 /\ r.tells = Same
  /\ r.tells # Same => r.copy.access = r.tells
  /\ r.op = "idle" => r.at = ""
  /\ r.op = "delete" => r.at = "store" /\ r.tells = 0 /\ r.copy = Empty

(* Unless the file has changed since, the copy has its session; whoever    *)
(* works for a deleted account knows that it came too late.                *)
RequestCurrent(r) ==
  /\ Revises(r) /\ ~r.overtaken /\ r.account \notin harmed
       => r.copy.access = file[r.account].access
  /\ r.account \notin kept /\ r.op \notin {"idle", "delete"} => r.overtaken

DeletionPending(a) == \E t \in Thread : request[t].account = a /\ request[t].op = "delete"

(* FileAsTold, in the form that every step keeps.                          *)
AccountAsTold(a) ==
  /\ file[a].access = told[a]
  /\ a \notin kept /\ ~DeletionPending(a) => file[a] = Empty

CredInv ==
  /\ CredTypeOK
  /\ \A a \in ProviderAccount : OfOneLogin(a, file[a])
  /\ \A t \in Thread : RequestFits(request[t]) /\ RequestCurrent(request[t])
  /\ \A a \in ProviderAccount \ harmed : AccountAsTold(a)

LEMMA CredInvSays == CredInv => CredTypeOK /\ FileOfOneLogin /\ FileAsTold
<1> SUFFICES ASSUME CredInv PROVE CredTypeOK /\ FileOfOneLogin /\ FileAsTold
  OBVIOUS
<1>1. FileOfOneLogin
  BY DEF CredInv, FileOfOneLogin, OfOneLogin
<1>2. ASSUME NEW a \in ProviderAccount \ harmed
      PROVE  /\ Authenticated(a) = (told[a] # 0)
             /\ Authenticated(a) => file[a].access = told[a]
             /\ a \notin kept /\ (\A t \in Thread : request[t].account = a => request[t].op # "delete")
                  => file[a] = Empty
  BY <1>2 DEF CredInv, AccountAsTold, DeletionPending, Authenticated
<1> QED BY <1>1, <1>2 DEF CredInv, FileAsTold

LEMMA EmptyIsAFile == Empty \in File /\ \A a : OfOneLogin(a, Empty)
BY CredentialsAssumption DEF Empty, File, OfOneLogin

LEMMA EmptyHoldsNone == Empty.renewal = 0
BY DEF Empty

LEMMA CredInitially == CredInit => CredInv
<1> SUFFICES ASSUME CredInit PROVE CredInv
  OBVIOUS
<1>1. PICK b \in ProviderAccount :
        request = [t \in Thread |-> [op |-> "idle", at |-> "", account |-> b, copy |-> Empty,
                                     flow |-> 0, tells |-> Same, overtaken |-> FALSE]]
  BY DEF CredInit
<1>2. request \in [Thread -> CredRequest]
  <2>1. 0 \in 0..MaxFlows
    BY CredentialsAssumption
  <2> QED BY <1>1, <2>1, EmptyIsAFile DEF CredRequest
<1>3. CredTypeOK
  <2>1. 0 \in 0..MaxSerial /\ 0 \in 0..MaxGrants
    BY CredentialsAssumption
  <2> QED BY <1>2, <2>1, EmptyIsAFile DEF CredInit, CredTypeOK
<1>4. \A t \in Thread : RequestFits(request[t]) /\ RequestCurrent(request[t])
  BY <1>1, EmptyIsAFile DEF RequestFits, RequestPlaced, RequestCurrent, Revises
<1>5. \A a \in ProviderAccount : AccountAsTold(a) /\ OfOneLogin(a, file[a])
  BY EmptyIsAFile DEF CredInit, AccountAsTold, Empty
<1> QED BY <1>3, <1>4, <1>5 DEF CredInv

LEMMA RequestsAre ==
  ASSUME CredInv, NEW t \in Thread
  PROVE  /\ request[t] \in CredRequest /\ request[t].account \in ProviderAccount
         /\ request[t].copy \in File /\ RequestFits(request[t]) /\ RequestCurrent(request[t])
         /\ file[request[t].account] \in File /\ OfOneLogin(request[t].account, file[request[t].account])
         /\ request[t].flow \in 0..MaxFlows /\ request[t].tells \in {Same} \cup 0..MaxGrants
         /\ latest \in [Grant -> {Bare} \cup 0..MaxSerial] /\ harmed \subseteq ProviderAccount
         /\ flows \in [Flow -> {"none", "open", "confirmed", "spent"}]
BY DEF CredInv, CredTypeOK, CredRequest

(* What a step of one request changes, but for its end.                    *)
Advance(t, r) ==
  /\ request' = [request EXCEPT ![t] = r]
  /\ UNCHANGED <<kept, platform, file, told>>

LEMMA LoginsStay ==
  ASSUME Granting, UNCHANGED platform, NEW a, NEW c \in File, OfOneLogin(a, c)
  PROVE  OfOneLogin(a, c)'
<1>1. c.access # 0 => c.access \in Grant
  BY CredentialsAssumption DEF File, Grant
<1> QED BY <1>1 DEF OfOneLogin, Granting

LEMMA FitsStay ==
  ASSUME Granting, UNCHANGED platform, NEW r \in CredRequest, RequestFits(r)
  PROVE  RequestFits(r)'
<1>1. PICK a, c : a = r.account /\ c = r.copy
  OBVIOUS
<1>2. c \in File /\ OfOneLogin(a, c)
  BY <1>1 DEF CredRequest, RequestFits
<1>3. OfOneLogin(a, c)'
  BY <1>2, LoginsStay
<1> QED BY <1>1, <1>3 DEF RequestFits, RequestPlaced

LEMMA StillGranting == ASSUME CredInv, UNCHANGED latest PROVE Granting
BY DEF CredInv, CredTypeOK, Granting

(* What is asked of the request that a step leaves behind.                 *)
LEMMA AdvanceKeepsNext ==
  ASSUME CredInv, NEW t \in Thread, NEW r \in CredRequest, Advance(t, r),
         RequestFits(r)', RequestCurrent(r)', r.op = "delete" <=> request[t].op = "delete",
         r.op = "delete" => r.account = request[t].account,
         Granting,
         flows' \in [Flow -> {"none", "open", "confirmed", "spent"}],
         harmed \subseteq harmed', harmed' \subseteq ProviderAccount
  PROVE  CredInv'
<1>1. \A s \in Thread : request'[s] = IF s = t THEN r ELSE request[s]
  BY DEF Advance, CredInv, CredTypeOK
<1>2. CredTypeOK'
  BY DEF Advance, CredInv, CredTypeOK, Granting
<1>3. ASSUME NEW s \in Thread PROVE (RequestFits(request[s]) /\ RequestCurrent(request[s]))'
  <2>1. UNCHANGED <<kept, platform, file>>
    BY DEF Advance
  <2>2. PICK q : q = request[s]
    OBVIOUS
  <2>3. q \in CredRequest /\ RequestFits(q) /\ RequestCurrent(q)
    BY <2>2, RequestsAre
  <2>4. RequestFits(q)'
    BY <2>1, <2>3, FitsStay
  <2>5. CASE s = t
    BY <1>1, <2>5 DEF RequestFits, RequestPlaced, RequestCurrent, OfOneLogin, Revises
  <2>6. CASE s # t
    <3>1. request'[s] = q
      BY <1>1, <2>2, <2>6
    <3>2. RequestCurrent(q)'
      BY <2>1, <2>3 DEF RequestCurrent, Revises
    <3>3. RequestFits(request[s])'
      BY <2>4, <3>1 DEF RequestFits, RequestPlaced, OfOneLogin
    <3>4. RequestCurrent(request[s])'
      BY <3>1, <3>2 DEF RequestCurrent, Revises
    <3> QED BY <3>3, <3>4
  <2> QED BY <2>5, <2>6
<1>4. \A a \in ProviderAccount : DeletionPending(a)' <=> DeletionPending(a)
  BY <1>1 DEF DeletionPending
<1>5. ASSUME NEW a \in ProviderAccount \ harmed' PROVE AccountAsTold(a)'
  BY <1>4 DEF Advance, CredInv, AccountAsTold
<1>6. ASSUME NEW a \in ProviderAccount PROVE OfOneLogin(a, file[a])'
  <2>1. PICK c : c = file[a]
    OBVIOUS
  <2>2. c \in File /\ OfOneLogin(a, c) /\ UNCHANGED <<platform, file>>
    BY <2>1 DEF CredInv, CredTypeOK, Advance
  <2>3. OfOneLogin(a, c)'
    BY <2>2, LoginsStay
  <2> QED BY <2>1, <2>2, <2>3 DEF OfOneLogin
<1> QED BY <1>2, <1>3, <1>5, <1>6 DEF CredInv

LEMMA AdvanceKeeps ==
  ASSUME CredInv, NEW t \in Thread, NEW r \in CredRequest, Advance(t, r),
         RequestFits(r), RequestCurrent(r), r.op = "delete" <=> request[t].op = "delete",
         r.op = "delete" => r.account = request[t].account,
         Granting,
         flows' \in [Flow -> {"none", "open", "confirmed", "spent"}],
         harmed \subseteq harmed', harmed' \subseteq ProviderAccount
  PROVE  CredInv'
<1>1. UNCHANGED <<kept, platform, file>>
  BY DEF Advance
<1>2. RequestFits(r)'
  BY <1>1, FitsStay
<1>3. RequestCurrent(r)'
  BY <1>1 DEF RequestCurrent, Revises
<1> QED BY <1>2, <1>3, AdvanceKeepsNext

(* A request that ends without a word leaves everything as it is.          *)
LEMMA DoneKeeps ==
  ASSUME CredInv, NEW t \in Thread, Done(t), request[t].op # "delete",
         UNCHANGED <<kept, platform, file, told>>,
         Granting,
         flows' \in [Flow -> {"none", "open", "confirmed", "spent"}],
         harmed \subseteq harmed', harmed' \subseteq ProviderAccount
  PROVE  CredInv'
<1>r. PICK r : r = [request[t] EXCEPT !.op = "idle", !.at = "", !.copy = Empty,
                                      !.flow = 0, !.tells = Same, !.overtaken = FALSE]
  OBVIOUS
<1>0. 0 \in 0..MaxFlows
  BY CredentialsAssumption
<1>1. r \in CredRequest /\ r.op = "idle" /\ r.copy = Empty /\ r.at = "" /\ r.tells = Same
  BY <1>0, <1>r, RequestsAre, EmptyIsAFile DEF CredRequest
<1>2. Advance(t, r)
  BY <1>r, RequestsAre DEF Done, Advance, CredInv, CredTypeOK
<1>3. RequestFits(r) /\ RequestCurrent(r)
  BY <1>1, EmptyIsAFile DEF RequestFits, RequestPlaced, RequestCurrent, Revises
<1> QED BY <1>1, <1>2, <1>3, AdvanceKeeps

LEMMA GoOnKeeps ==
  ASSUME CredInv, NEW t \in Thread, NEW at \in {"ask", "store"}, NEW c \in File, GoOn(t, at, c),
         request[t].op \notin {"delete", "idle"}, OfOneLogin(request[t].account, c),
         request[t].op = "sync" => c.renewal # 0 /\ request[t].tells = Same,
         at = "ask" => request[t].tells = Same,
         request[t].tells # Same => c.access = request[t].tells,
         request[t].tells = Same =>
           c.access = file[request[t].account].access
           \/ (at = "ask" /\ request[t].op \notin {"poll", "sync"}),
         UNCHANGED <<kept, platform, file, latest, flows, told, harmed>>
  PROVE  CredInv'
<1>r. PICK r : r = [request[t] EXCEPT !.at = at, !.copy = c,
                                      !.overtaken = request[t].account \notin kept]
  OBVIOUS
<1>1. /\ r \in CredRequest /\ r.op = request[t].op /\ r.copy = c /\ r.at = at
      /\ r.tells = request[t].tells /\ r.account = request[t].account
      /\ r.overtaken = (request[t].account \notin kept)
  BY <1>r, RequestsAre DEF CredRequest
<1>2. Advance(t, r)
  BY <1>r, RequestsAre DEF GoOn, Advance, CredInv, CredTypeOK
<1>3. RequestFits(r)
  BY <1>1, RequestsAre DEF RequestFits, RequestPlaced
<1>4. RequestCurrent(r)
  BY <1>1 DEF RequestCurrent, Revises
<1> QED BY <1>1, <1>2, <1>3, <1>4, AdvanceKeeps, RequestsAre, StillGranting

LEMMA ProceedKeeps ==
  ASSUME CredInv, NEW t \in Thread, NEW at \in {"load", "store"}, NEW c \in File,
         NEW tells \in {Same} \cup 0..MaxGrants, Proceed(t, at, c, tells),
         request[t].op \notin {"delete", "idle"}, OfOneLogin(request[t].account, c),
         request[t].op = "sync" => c.renewal # 0 /\ tells = Same,
         tells # Same => c.access = tells,
         at = "load" => request[t].op = "complete" /\ platform[request[t].account] = "gog" /\ tells # Same,
         tells = Same => /\ c.access = request[t].copy.access \/ request[t].account \in harmed'
                         /\ Revises(request[t]),
         UNCHANGED <<kept, platform, file, told>>,
         Granting,
         flows' \in [Flow -> {"none", "open", "confirmed", "spent"}],
         harmed \subseteq harmed', harmed' \subseteq ProviderAccount
  PROVE  CredInv'
<1>r. PICK r : r = [request[t] EXCEPT !.at = at, !.copy = c, !.tells = tells]
  OBVIOUS
<1>1. /\ r \in CredRequest /\ r.op = request[t].op /\ r.copy = c /\ r.at = at
      /\ r.tells = tells /\ r.account = request[t].account
      /\ r.overtaken = request[t].overtaken
  BY <1>r, RequestsAre DEF CredRequest
<1>2. Advance(t, r)
  BY <1>r, RequestsAre DEF Proceed, Advance, CredInv, CredTypeOK
<1>3. RequestFits(r)
  BY <1>1, RequestsAre DEF RequestFits, RequestPlaced
<1>4. RequestCurrent(r)'
  BY <1>1, RequestsAre DEF RequestCurrent, Revises
<1>5. RequestFits(r)'
  BY <1>1, <1>3, FitsStay
<1> QED BY <1>1, <1>2, <1>4, <1>5, AdvanceKeepsNext, RequestsAre

(* A request of an account that exists.                                    *)
LEMMA BeginKeeps ==
  ASSUME CredInv, NEW t \in Thread, NEW a \in ProviderAccount,
         NEW r \in CredRequest, r.account = a,
         ~Serving(t) /\ a \in kept /\ request' = [request EXCEPT ![t] = r],
         r.op \notin {"delete", "idle"}, r.op \in {"poll", "sync"} => r.at = "load",
         RequestPlaced(r), r.copy.renewal = 0, r.copy.access = 0, r.tells \in {Same, 0},
         r.at = "store" => r.tells = 0,
         UNCHANGED <<kept, platform, file, latest, told, harmed>>,
         flows' \in [Flow -> {"none", "open", "confirmed", "spent"}]
  PROVE  CredInv'
<1>1. /\ request' = [request EXCEPT ![t] = r] /\ a \in kept
      /\ request[t].op # "delete" /\ r.op # "delete"
  BY DEF Serving
<1>2. RequestFits(r)
  BY DEF RequestFits, OfOneLogin
<1>3. RequestCurrent(r)
  BY <1>1 DEF RequestCurrent, Revises, Same
<1> QED BY <1>1, <1>2, <1>3, AdvanceKeeps, RequestsAre, StillGranting DEF Advance

LEMMA BeginningsKeep ==
  ASSUME CredInv, NEW t \in Thread, NEW a \in ProviderAccount
  PROVE  /\ StartLogin(t, a) => CredInv'
         /\ StartAmazonLogin(t, a) => CredInv'
         /\ PollLogin(t, a) => CredInv'
         /\ CompleteLogin(t, a) => CredInv'
         /\ Logout(t, a) => CredInv'
         /\ Sync(t, a) => CredInv'
<1>0. /\ 0 \in 0..MaxFlows /\ 0 \in 0..MaxGrants /\ Flow \subseteq 0..MaxFlows
      /\ Empty \in File /\ Empty.access = 0 /\ Empty.renewal = 0
  BY CredentialsAssumption, EmptyIsAFile DEF Flow, Empty
<1>1. flows \in [Flow -> {"none", "open", "confirmed", "spent"}]
  BY DEF CredInv, CredTypeOK
<1>p. ASSUME NEW op \in {"start", "poll", "complete", "sync", "logout"},
             NEW at \in {"load", "ask"}, op \in {"poll", "sync"} => at = "load",
             op = "poll" => platform[a] = "xbox",
             at = "load" => op # "logout" /\ (op = "complete" => platform[a] # "gog"),
             UNCHANGED <<kept, platform, file, latest, told, harmed, flows>>,
             BeginRequest(t, a, Beginning(op, at))
      PROVE  CredInv'
  <2>1. PICK r : r = [Beginning(op, at) EXCEPT !.account = a]
    OBVIOUS
  <2>2. /\ r \in CredRequest /\ r.account = a /\ r.op = op /\ r.at = at
      /\ r.copy.access = 0 /\ r.copy.renewal = 0 /\ r.tells = Same
    BY <1>0, <2>1 DEF Beginning, CredRequest
  <2>3. ~Serving(t) /\ a \in kept /\ request' = [request EXCEPT ![t] = r]
    BY <1>p, <2>1 DEF BeginRequest
  <2>4. RequestPlaced(r)
    BY <1>p, <2>2 DEF RequestPlaced
  <2> QED BY <1>1, <1>p, <2>2, <2>3, <2>4, BeginKeeps
<1>2. StartLogin(t, a) => CredInv'
  BY <1>p DEF StartLogin
<1>3. ASSUME StartAmazonLogin(t, a) PROVE CredInv'
  <2>1. PICK f \in NewFlows :
          /\ flows' = [flows EXCEPT ![f] = "open"]
          /\ BeginRequest(t, a, [Beginning("start", "store") EXCEPT !.copy.flow = f, !.tells = 0])
    BY <1>3 DEF StartAmazonLogin
  <2>2. f \in 0..MaxFlows /\ flows' \in [Flow -> {"none", "open", "confirmed", "spent"}]
    BY <1>0, <1>1, <2>1 DEF NewFlows
  <2>v. /\ [Empty EXCEPT !.flow = f] \in File
        /\ [Empty EXCEPT !.flow = f].access = 0 /\ [Empty EXCEPT !.flow = f].renewal = 0
    BY <1>0, <2>2 DEF File
  <2>3. PICK r : r = [[Beginning("start", "store") EXCEPT !.copy.flow = f, !.tells = 0] EXCEPT !.account = a]
    OBVIOUS
  <2>4. /\ r \in CredRequest /\ r.account = a /\ r.op = "start" /\ r.at = "store"
        /\ r.copy.access = 0 /\ r.copy.renewal = 0 /\ r.tells = 0
    BY <1>0, <2>2, <2>3, <2>v DEF Beginning, CredRequest
  <2>6. ~Serving(t) /\ a \in kept /\ request' = [request EXCEPT ![t] = r]
    BY <2>1, <2>3 DEF BeginRequest
  <2>7. UNCHANGED <<kept, platform, file, latest, told, harmed>>
    BY <1>3 DEF StartAmazonLogin
  <2>8. flows' \in [Flow -> {"none", "open", "confirmed", "spent"}]
    BY <2>2
  <2>9. RequestPlaced(r)
    BY <2>4 DEF RequestPlaced
  <2> QED BY <2>4, <2>6, <2>7, <2>8, <2>9, BeginKeeps
<1>4. PollLogin(t, a) => CredInv'
  BY <1>p DEF PollLogin
<1>5. ASSUME CompleteLogin(t, a) PROVE CredInv'
  <2>1. CASE \/ BeginRequest(t, a, Beginning("complete", "ask"))
             \/ platform[a] = "ubisoft" /\ BeginRequest(t, a, Beginning("complete", "load"))
    <3>1. UNCHANGED <<kept, platform, file, latest, told, harmed, flows>>
      BY <1>5 DEF CompleteLogin
    <3> QED BY <1>p, <2>1, <3>1
  <2>2. CASE /\ \E f \in Flow : BeginRequest(t, a, [Beginning("complete", "load") EXCEPT !.flow = f])
             /\ platform[a] = "amazon"
    <3>1. PICK f \in Flow : BeginRequest(t, a, [Beginning("complete", "load") EXCEPT !.flow = f])
      BY <2>2
    <3>2. PICK r : r = [[Beginning("complete", "load") EXCEPT !.flow = f] EXCEPT !.account = a]
      OBVIOUS
    <3>3. /\ r \in CredRequest /\ r.account = a /\ r.op = "complete" /\ r.at = "load"
          /\ r.copy.access = 0 /\ r.copy.renewal = 0 /\ r.tells = Same
      BY <1>0, <3>2 DEF Beginning, CredRequest
    <3>4. ~Serving(t) /\ a \in kept /\ request' = [request EXCEPT ![t] = r]
      BY <3>1, <3>2 DEF BeginRequest
    <3>5. RequestPlaced(r)
      BY <2>2, <3>3 DEF RequestPlaced
    <3> QED BY <1>1, <1>5, <3>3, <3>4, <3>5, BeginKeeps DEF CompleteLogin
  <2> QED BY <1>5, <2>1, <2>2 DEF CompleteLogin
<1>6. ASSUME Logout(t, a) PROVE CredInv'
  <2>1. PICK at \in {"load", "store"} :
          /\ BeginRequest(t, a, [Beginning("logout", at) EXCEPT !.tells = 0])
          /\ at = "load" => platform[a] = "gog"
    BY <1>6 DEF Logout
  <2>2. PICK r : r = [[Beginning("logout", at) EXCEPT !.tells = 0] EXCEPT !.account = a]
    OBVIOUS
  <2>3. /\ r \in CredRequest /\ r.account = a /\ r.op = "logout" /\ r.at = at
        /\ r.copy.access = 0 /\ r.copy.renewal = 0 /\ r.tells = 0
    BY <1>0, <2>2 DEF Beginning, CredRequest
  <2>4. ~Serving(t) /\ a \in kept /\ request' = [request EXCEPT ![t] = r]
    BY <2>1, <2>2 DEF BeginRequest
  <2>5. RequestPlaced(r)
    BY <2>1, <2>3 DEF RequestPlaced, Same
  <2> QED BY <1>1, <1>6, <2>3, <2>4, <2>5, BeginKeeps DEF Logout
<1>7. Sync(t, a) => CredInv'
  BY <1>p DEF Sync
<1> QED BY <1>2, <1>3, <1>4, <1>5, <1>6, <1>7

-----------------------------------------------------------------------------
(* The file is read.                                                       *)

LEMMA LoadsKeep ==
  ASSUME CredInv, NEW t \in Thread
  PROVE  /\ LoadFlow(t) => CredInv'
         /\ LoadForCode(t) => CredInv'
         /\ LoadGog(t) => CredInv'
         /\ LoadVerifier(t) => CredInv'
         /\ LoadTicket(t) => CredInv'
         /\ LoadSession(t) => CredInv'
<1>0. PICK c : c = file[request[t].account]
  OBVIOUS
<1>1. /\ c \in File /\ OfOneLogin(request[t].account, c) /\ Loaded(t) = c /\ c = file[request[t].account]
      /\ request[t].flow \in 0..MaxFlows /\ request[t].copy \in File
      /\ request[t] \in CredRequest /\ RequestFits(request[t])
      /\ harmed \subseteq harmed /\ latest \in [Grant -> {Bare} \cup 0..MaxSerial] /\ harmed \subseteq ProviderAccount
      /\ flows \in [Flow -> {"none", "open", "confirmed", "spent"}]
  BY <1>0, RequestsAre DEF Loaded
<1>20. c \in File /\ OfOneLogin(request[t].account, c) /\ c.access = file[request[t].account].access
  BY <1>1
<1>2. ASSUME NEW op, NEW ps, Load(t, op, ps)
      PROVE  /\ request[t].at = "load" /\ request[t].op = op /\ platform[request[t].account] \in ps
             /\ UNCHANGED <<kept, platform, file, latest, flows, told, harmed>>
  BY <1>2 DEF Load
<1>3. ASSUME NEW f \in 0..MaxFlows
      PROVE  /\ [c EXCEPT !.flow = f] \in File /\ OfOneLogin(request[t].account, [c EXCEPT !.flow = f])
             /\ [c EXCEPT !.flow = f].access = c.access
  BY <1>1 DEF File, OfOneLogin
<1>4. ASSUME NEW op \in {"poll", "start", "complete", "sync"}, NEW ps, Load(t, op, ps), Done(t)
      PROVE  CredInv'
  BY <1>1, <1>2, <1>4, DoneKeeps, StillGranting
<1>5. ASSUME LoadFlow(t) PROVE CredInv'
  <2>1. Load(t, "poll", {"xbox"})
    BY <1>5 DEF LoadFlow
  <2>0. request[t].op = "poll" /\ request[t].at = "load" /\ UNCHANGED <<kept, platform, file, latest, flows, told, harmed>>
    BY <1>2, <2>1
  <2>2. request[t].tells = Same
    BY <1>1, <2>0 DEF RequestFits, RequestPlaced
  <2>3. CASE Done(t)
    BY <1>4, <2>1, <2>3
  <2>4. CASE GoOn(t, "store", WithoutFlow(c))
    <3>1. /\ WithoutFlow(c) \in File /\ OfOneLogin(request[t].account, WithoutFlow(c))
          /\ WithoutFlow(c).access = c.access
      BY <1>3, CredentialsAssumption DEF WithoutFlow
    <3> QED BY <1>20, <2>0, <2>2, <2>4, <3>1, GoOnKeeps
  <2>5. CASE GoOn(t, "ask", c)
    BY <1>20, <2>0, <2>2, <2>5, GoOnKeeps
  <2> QED BY <1>1, <1>5, <2>3, <2>4, <2>5 DEF LoadFlow
<1>6. ASSUME LoadForCode(t) PROVE CredInv'
  <2>1. Load(t, "start", {"xbox"}) /\ GoOn(t, "store", [c EXCEPT !.flow = request[t].flow])
    BY <1>1, <1>6 DEF LoadForCode
  <2>0. request[t].op = "start" /\ request[t].at = "load" /\ UNCHANGED <<kept, platform, file, latest, flows, told, harmed>>
    BY <1>2, <2>1
  <2>2. request[t].tells = Same
    BY <1>1, <2>0 DEF RequestFits, RequestPlaced
  <2>3. /\ [c EXCEPT !.flow = request[t].flow] \in File
        /\ OfOneLogin(request[t].account, [c EXCEPT !.flow = request[t].flow])
        /\ [c EXCEPT !.flow = request[t].flow].access = file[request[t].account].access
    BY <1>1, <1>3
  <2> QED BY <2>0, <2>1, <2>2, <2>3, GoOnKeeps
<1>7. ASSUME LoadGog(t) PROVE CredInv'
  <2>1. PICK op \in {"complete", "logout"} : Load(t, op, {"gog"})
    BY <1>7 DEF LoadGog
  <2>0. /\ request[t].op = op /\ request[t].at = "load" /\ platform[request[t].account] = "gog"
        /\ UNCHANGED <<kept, platform, file, latest, flows, told, harmed>>
    BY <1>2, <2>1
  <2>2. GoOn(t, "store", request[t].copy)
    BY <1>7 DEF LoadGog
  <2>3. /\ request[t].tells # Same /\ request[t].copy \in File /\ OfOneLogin(request[t].account, request[t].copy)
        /\ request[t].copy.access = request[t].tells
    BY <1>1, <2>0 DEF RequestFits, RequestPlaced
  <2> QED BY <2>0, <2>2, <2>3, GoOnKeeps
<1>8. ASSUME NEW p \in {"amazon", "ubisoft"}, Load(t, "complete", {p}), GoOn(t, "ask", c)
      PROVE  CredInv'
  <2>0. /\ request[t].op = "complete" /\ request[t].at = "load" /\ platform[request[t].account] = p
        /\ UNCHANGED <<kept, platform, file, latest, flows, told, harmed>>
    BY <1>2, <1>8
  <2>1. request[t].tells = Same
    BY <1>1, <2>0 DEF RequestFits, RequestPlaced
  <2> QED BY <1>20, <1>8, <2>0, <2>1, GoOnKeeps
<1>9. LoadVerifier(t) => CredInv'
  BY <1>1, <1>4, <1>8 DEF LoadVerifier
<1>10. LoadTicket(t) => CredInv'
  BY <1>1, <1>8 DEF LoadTicket
<1>11. ASSUME LoadSession(t) PROVE CredInv'
  <2>1. Load(t, "sync", Renewable)
    BY <1>11 DEF LoadSession
  <2>0. request[t].op = "sync" /\ request[t].at = "load" /\ UNCHANGED <<kept, platform, file, latest, flows, told, harmed>>
    BY <1>2, <2>1
  <2>2. request[t].tells = Same
    BY <1>1, <2>0 DEF RequestFits, RequestPlaced
  <2>3. CASE Done(t)
    BY <1>4, <2>1, <2>3
  <2>4. CASE c.renewal # 0 /\ GoOn(t, "ask", c)
    BY <1>20, <2>0, <2>2, <2>4, GoOnKeeps
  <2> QED BY <1>1, <1>11, <2>3, <2>4 DEF LoadSession
<1> QED BY <1>5, <1>6, <1>7, <1>9, <1>10, <1>11

-----------------------------------------------------------------------------
(* The provider is asked.                                                  *)

LEMMA SessionsAre ==
  ASSUME NEW p, NEW n \in Grant
  PROVE  /\ SessionOf(p, n) \in File /\ \A a : OfOneLogin(a, SessionOf(p, n))
         /\ SessionOf(p, n).access = n /\ n \in 0..MaxGrants /\ n # Same
<1>1. n \in 0..MaxGrants /\ n # 0 /\ n # Same
  BY CredentialsAssumption DEF Grant, Same
<1>2. 1 \in 0..MaxSerial /\ 0 \in 0..MaxSerial /\ 0 \in 0..MaxFlows /\ 0 \in 0..MaxGrants
  BY CredentialsAssumption
<1>3. CASE p \in Renewable
  BY <1>1, <1>2, <1>3 DEF SessionOf, File, OfOneLogin
<1>4. CASE p \notin Renewable
  BY <1>1, <1>2, <1>4 DEF SessionOf, File, OfOneLogin, Empty
<1> QED BY <1>1, <1>3, <1>4

LEMMA NewGrantsTyped ==
  ASSUME CredInv, NEW n \in NewGrants, NEW x \in {1, Bare}, latest' = [latest EXCEPT ![n] = x]
  PROVE  n \in Grant /\ Granting
<1>1. 1 \in 0..MaxSerial
  BY CredentialsAssumption
<1>2. latest[n] # Bare
  BY DEF NewGrants, Bare
<1> QED BY <1>1, <1>2 DEF CredInv, CredTypeOK, NewGrants, Granting

LEMMA FlowsTyped ==
  ASSUME CredInv, NEW f, NEW state \in {"open", "confirmed", "spent"},
         flows' = [flows EXCEPT ![f] = state]
  PROVE  flows' \in [Flow -> {"none", "open", "confirmed", "spent"}]
BY DEF CredInv, CredTypeOK

LEMMA AskInVainKeeps == ASSUME CredInv, NEW t \in Thread, AskInVain(t) PROVE CredInv'
<1>1. request[t].op # "delete"
  BY RequestsAre DEF AskInVain, RequestFits
<1> QED BY <1>1, RequestsAre, DoneKeeps, StillGranting DEF AskInVain

LEMMA AskForCodeKeeps == ASSUME CredInv, NEW t \in Thread, AskForCode(t) PROVE CredInv'
<1>1. PICK f \in NewFlows :
        /\ flows' = [flows EXCEPT ![f] = "open"]
        /\ request' = [request EXCEPT ![t].at = "load", ![t].flow = f]
  BY DEF AskForCode
<1>2. PICK r : r = [request[t] EXCEPT !.at = "load", !.flow = f]
  OBVIOUS
<1>3. f \in 0..MaxFlows
  BY CredentialsAssumption DEF NewFlows, Flow
<1>4. /\ r \in CredRequest /\ r.op = "start" /\ r.at = "load" /\ r.copy = request[t].copy
      /\ r.tells = request[t].tells /\ r.account = request[t].account
      /\ r.overtaken = request[t].overtaken /\ request[t].op = "start" /\ request[t].at = "ask"
  BY <1>2, <1>3, RequestsAre DEF AskForCode, CredRequest
<1>5. RequestFits(r) /\ RequestCurrent(r)
  BY <1>4, RequestsAre DEF RequestFits, RequestPlaced, RequestCurrent, Revises
<1>6. Advance(t, r)
  BY <1>1, <1>2, RequestsAre DEF Advance, AskForCode, CredInv, CredTypeOK
<1>7. flows' \in [Flow -> {"none", "open", "confirmed", "spent"}] /\ UNCHANGED <<latest, harmed>>
  BY <1>1, FlowsTyped DEF AskForCode
<1> QED BY <1>4, <1>5, <1>6, <1>7, AdvanceKeeps, RequestsAre, StillGranting

(* An Xbox login that keeps the refresh token it has loaded.               *)
LEMMA BareKeeps ==
  ASSUME CredInv, NEW t \in Thread, NEW c, c = request[t].copy, NEW n \in NewGrants,
         latest' = [latest EXCEPT ![n] = Bare], Proceed(t, "store", BareSession(c, n), n),
         request[t].op = "poll", UNCHANGED <<kept, platform, file, told, harmed>>,
         flows' \in [Flow -> {"none", "open", "confirmed", "spent"}]
  PROVE  CredInv'
<1>1. n \in Grant /\ Granting /\ n \in 0..MaxGrants /\ n # 0 /\ n # Same /\ 0 \in 0..MaxFlows
  <2>1. Bare \in {1, Bare}
    OBVIOUS
  <2>2. n \in Grant /\ Granting
    BY <2>1, NewGrantsTyped
  <2> QED BY <2>2, CredentialsAssumption DEF Grant, Same
<1>2. latest'[n] = Bare /\ harmed \subseteq ProviderAccount
  BY <1>1, RequestsAre
<1>3. PICK d : d = BareSession(c, n)
  OBVIOUS
<1>4. d \in File /\ d.access = n
  BY <1>1, <1>3, RequestsAre DEF BareSession, File
<1>5. PICK r : r = [request[t] EXCEPT !.at = "store", !.copy = d, !.tells = n]
  OBVIOUS
<1>6. /\ r \in CredRequest /\ r.op = "poll" /\ r.copy = d /\ r.at = "store"
      /\ r.tells = n /\ r.account = request[t].account
      /\ r.overtaken = request[t].overtaken
  BY <1>1, <1>4, <1>5, RequestsAre DEF CredRequest
<1>7. Advance(t, r)
  BY <1>3, <1>5, RequestsAre DEF Proceed, Advance, CredInv, CredTypeOK
<1>8. RequestPlaced(request[t]) /\ RequestCurrent(request[t])
  BY RequestsAre DEF RequestFits
<1>9. platform'[r.account] = "xbox"
  BY <1>6, <1>8 DEF RequestPlaced
<1>10. OfOneLogin(r.account, d)'
  BY <1>1, <1>2, <1>4, <1>9 DEF OfOneLogin
<1>11. RequestFits(r)'
  BY <1>1, <1>4, <1>6, <1>9, <1>10 DEF RequestFits, RequestPlaced
<1>12. RequestCurrent(r)'
  BY <1>1, <1>6, <1>8 DEF RequestCurrent, Revises
<1> QED BY <1>1, <1>2, <1>6, <1>7, <1>11, <1>12, AdvanceKeepsNext

LEMMA AskKeeps == ASSUME CredInv, NEW t \in Thread, AskWhetherConfirmed(t) PROVE CredInv'
<1>1. PICK r : r = request[t]
  OBVIOUS
<1>2. /\ request[t].op = "poll" /\ request[t].at = "ask" /\ request[t].tells = Same
      /\ UNCHANGED <<kept, platform, file, told, harmed>> /\ Revises(request[t])
      /\ r.copy \in File /\ OfOneLogin(request[t].account, r.copy) /\ harmed \subseteq ProviderAccount
      /\ latest \in [Grant -> {Bare} \cup 0..MaxSerial]
      /\ flows \in [Flow -> {"none", "open", "confirmed", "spent"}]
  BY <1>1, RequestsAre DEF AskWhetherConfirmed, RequestFits, RequestPlaced, Revises
<1>3. CASE Done(t)
  <2>1. Granting /\ flows' \in [Flow -> {"none", "open", "confirmed", "spent"}]
    <3>1. CASE UNCHANGED <<flows, latest>>
      BY <1>2, <3>1, StillGranting
    <3>2. CASE /\ flows' = [flows EXCEPT ![request[t].copy.flow] = "spent"]
               /\ \E n \in NewGrants : \E x \in {1, Bare} : latest' = [latest EXCEPT ![n] = x]
      BY <3>2, FlowsTyped, NewGrantsTyped
    <3> QED BY <3>1, <3>2 DEF AskWhetherConfirmed
  <2> QED BY <1>2, <1>3, <2>1, DoneKeeps
<1>4. CASE /\ Proceed(t, "store", r.copy, Same)
           /\ UNCHANGED <<flows, latest>>
  BY <1>1, <1>2, <1>4, StillGranting, ProceedKeeps
<1>5. CASE /\ Proceed(t, "store", WithoutFlow(r.copy), Same)
           /\ UNCHANGED <<flows, latest>>
  <2>1. 0 \in 0..MaxFlows
    BY CredentialsAssumption
  <2>2. /\ WithoutFlow(r.copy) \in File /\ OfOneLogin(request[t].account, WithoutFlow(r.copy))
        /\ WithoutFlow(r.copy).access = request[t].copy.access
    BY <1>1, <1>2, <2>1 DEF WithoutFlow, File, OfOneLogin
  <2> QED BY <1>2, <1>5, <2>2, StillGranting, ProceedKeeps
<1>6. CASE /\ flows' = [flows EXCEPT ![r.copy.flow] = "spent"]
           /\ \E n \in NewGrants : /\ latest' = [latest EXCEPT ![n] = 1]
                                   /\ Proceed(t, "store", SessionOf("xbox", n), n)
  <2>1. PICK n \in NewGrants : /\ latest' = [latest EXCEPT ![n] = 1]
                               /\ Proceed(t, "store", SessionOf("xbox", n), n)
    BY <1>6
  <2>2. n \in Grant /\ Granting
    BY <2>1, NewGrantsTyped
  <2>3. flows' \in [Flow -> {"none", "open", "confirmed", "spent"}]
    BY <1>6, FlowsTyped
  <2>4. /\ SessionOf("xbox", n) \in File /\ OfOneLogin(request[t].account, SessionOf("xbox", n))
        /\ SessionOf("xbox", n).access = n /\ n \in {Same} \cup 0..MaxGrants /\ n # Same
    BY <2>2, SessionsAre
  <2> QED BY <1>2, <2>1, <2>2, <2>3, <2>4, ProceedKeeps
<1>7. ASSUME NEW n \in NewGrants, latest' = [latest EXCEPT ![n] = Bare],
             Proceed(t, "store", BareSession(r.copy, n), n),
             flows' = [flows EXCEPT ![r.copy.flow] = "spent"]
      PROVE  CredInv'
  <2>1. platform[request[t].account] = "xbox"
    BY <1>2, RequestsAre DEF RequestFits, RequestPlaced
  <2> QED BY <1>1, <1>2, <1>7, <2>1, BareKeeps, FlowsTyped
<1> QED BY <1>1, <1>3, <1>4, <1>5, <1>6, <1>7 DEF AskWhetherConfirmed

LEMMA GrantedKeeps ==
  ASSUME CredInv, NEW t \in Thread, NEW at \in {"load", "store"},
         request[t].op = "complete", Granted(t, at),
         at = "load" => platform[request[t].account] = "gog",
         UNCHANGED <<kept, platform, file, told, harmed>>,
         flows' \in [Flow -> {"none", "open", "confirmed", "spent"}]
  PROVE  CredInv'
<1>1. PICK s : s = platform[request[t].account]
  OBVIOUS
<1>2. PICK n \in NewGrants : /\ latest' = [latest EXCEPT ![n] = 1]
                             /\ Proceed(t, at, SessionOf(s, n), n)
  BY <1>1 DEF Granted
<1>3. n \in Grant /\ Granting
  BY <1>2, NewGrantsTyped
<1>4. /\ SessionOf(s, n) \in File /\ OfOneLogin(request[t].account, SessionOf(s, n))
      /\ SessionOf(s, n).access = n /\ n \in {Same} \cup 0..MaxGrants /\ n # Same
  BY <1>3, SessionsAre
<1>5. harmed \subseteq ProviderAccount
  BY RequestsAre
<1> QED BY <1>2, <1>3, <1>4, <1>5, ProceedKeeps

LEMMA CompletionsKeep ==
  ASSUME CredInv, NEW t \in Thread
  PROVE  /\ CompleteGog(t) => CredInv'
         /\ CompleteBrowserSession(t) => CredInv'
         /\ CompleteAmazon(t) => CredInv'
         /\ CompleteUbisoft(t) => CredInv'
         /\ PasteXbox(t) => CredInv'
<1>1. flows \in [Flow -> {"none", "open", "confirmed", "spent"}]
  BY RequestsAre
<1>2. CompleteGog(t) => CredInv'
  BY <1>1, GrantedKeeps DEF CompleteGog, Completing
<1>3. CompleteBrowserSession(t) => CredInv'
  BY <1>1, GrantedKeeps DEF CompleteBrowserSession, Completing
<1>4. CompleteAmazon(t) => CredInv'
  BY GrantedKeeps, FlowsTyped DEF CompleteAmazon, Completing
<1>5. ASSUME CompleteUbisoft(t) PROVE CredInv'
  <2>1. Completing(t, "ubisoft")
    BY <1>5 DEF CompleteUbisoft
  <2>2. CASE /\ Granted(t, "store")
             /\ flows' = [f \in Flow |-> IF f = request[t].copy.flow THEN "spent" ELSE flows[f]]
    <3>1. flows' \in [Flow -> {"none", "open", "confirmed", "spent"}]
      BY <1>1, <2>2
    <3> QED BY <2>1, <2>2, <3>1, GrantedKeeps DEF Completing
  <2>3. CASE /\ \E f \in NewFlows :
                  /\ flows' = [flows EXCEPT ![f] = "open"]
                  /\ Proceed(t, "store", [Empty EXCEPT !.flow = f], 0)
             /\ UNCHANGED latest
    <3>1. PICK f \in NewFlows : /\ flows' = [flows EXCEPT ![f] = "open"]
                                /\ Proceed(t, "store", [Empty EXCEPT !.flow = f], 0)
      BY <2>3
    <3>2. f \in 0..MaxFlows /\ 0 \in 0..MaxGrants
      BY CredentialsAssumption DEF NewFlows, Flow
    <3>3. /\ [Empty EXCEPT !.flow = f] \in File /\ OfOneLogin(request[t].account, [Empty EXCEPT !.flow = f])
          /\ [Empty EXCEPT !.flow = f].access = 0
      BY <3>2, EmptyIsAFile DEF Empty, File, OfOneLogin
    <3>4. flows' \in [Flow -> {"none", "open", "confirmed", "spent"}]
      BY <3>1, FlowsTyped
    <3>5. /\ request[t].op = "complete" /\ UNCHANGED <<kept, platform, file, told, harmed>>
          /\ harmed \subseteq ProviderAccount /\ Granting /\ 0 # Same
      BY <2>1, <2>3, RequestsAre, StillGranting DEF Completing, Same
    <3> QED BY <3>1, <3>2, <3>3, <3>4, <3>5, ProceedKeeps
  <2> QED BY <1>5, <2>2, <2>3 DEF CompleteUbisoft
<1>6. ASSUME PasteXbox(t) PROVE CredInv'
  <2>1. request[t].op = "complete" /\ UNCHANGED <<kept, platform, file, flows, told>>
    BY <1>6 DEF PasteXbox
  <2>2. CASE Granted(t, "store") /\ UNCHANGED harmed
    BY <1>1, <2>1, <2>2, GrantedKeeps
  <2>3. CASE /\ Proceed(t, "store", Empty, 0)
             /\ harmed' = harmed \cup {request[t].account}
             /\ UNCHANGED latest
    <3>1. /\ Empty \in File /\ OfOneLogin(request[t].account, Empty) /\ Empty.access = 0
          /\ 0 \in {Same} \cup 0..MaxGrants /\ 0 # Same /\ Granting
      BY <2>3, EmptyIsAFile, StillGranting, CredentialsAssumption DEF Empty, Same
    <3>2. harmed \subseteq harmed' /\ harmed' \subseteq ProviderAccount
      BY <2>3, RequestsAre
    <3> QED BY <1>1, <2>1, <2>3, <3>1, <3>2, ProceedKeeps
  <2> QED BY <1>6, <2>2, <2>3 DEF PasteXbox
<1> QED BY <1>2, <1>3, <1>4, <1>5, <1>6

LEMMA RenewKeeps ==
  ASSUME CredInv, NEW t \in Thread, NEW p, NEW mayKeep \in BOOLEAN, Renew(t, p, mayKeep)
  PROVE  CredInv'
<1>1. PICK c, last : c = request[t].copy /\ last = latest[c.renewal]
  OBVIOUS
<1>2. /\ request[t].op = "sync" /\ request[t].at = "ask" /\ request[t].tells = Same
      /\ c \in File /\ OfOneLogin(request[t].account, c) /\ c.renewal # 0 /\ Revises(request[t])
      /\ request[t].account \in ProviderAccount
      /\ UNCHANGED <<kept, platform, file, flows, told>>
  BY <1>1, RequestsAre DEF Renew, RequestFits, Revises
<1>3. c.renewal \in Grant /\ last \in 0..MaxSerial
  <2>1. c.serial = last
    BY <1>1 DEF Renew
  <2> QED BY <1>2, <2>1, CredentialsAssumption DEF File, Grant
<1>4. PICK next \in {last + 1} \cup (IF mayKeep THEN {last} ELSE {}) :
        /\ next <= MaxSerial
        /\ latest' = [latest EXCEPT ![c.renewal] = next]
        /\ \/ /\ Proceed(t, "store", Renewed(c, next), Same)
              /\ harmed' = IF Mixed(c) THEN harmed \cup {request[t].account} ELSE harmed
           \/ /\ Done(t)
              /\ harmed' = IF next = last THEN harmed ELSE harmed \cup {request[t].account}
  BY <1>1 DEF Renew
<1>5. next \in 0..MaxSerial
  BY <1>3, <1>4, CredentialsAssumption
<1>6. Granting /\ flows' \in [Flow -> {"none", "open", "confirmed", "spent"}]
  <2>1. latest[c.renewal] # Bare
    BY <1>1, <1>3 DEF Bare
  <2> QED BY <1>2, <1>3, <1>4, <1>5, <2>1, RequestsAre DEF Granting
<1>7. /\ Renewed(c, next) \in File /\ OfOneLogin(request[t].account, Renewed(c, next))
      /\ Mixed(c) \/ Renewed(c, next).access = c.access
      /\ Renewed(c, next).renewal # 0
  BY <1>2, <1>5 DEF Renewed, File, OfOneLogin, Mixed
<1>8. harmed \subseteq harmed' /\ harmed' \subseteq ProviderAccount
  BY <1>2, <1>4, RequestsAre
<1>9. CASE /\ Proceed(t, "store", Renewed(c, next), Same)
           /\ harmed' = IF Mixed(c) THEN harmed \cup {request[t].account} ELSE harmed
  <2>1. \/ Renewed(c, next).access = request[t].copy.access
        \/ request[t].account \in harmed'
    BY <1>1, <1>7, <1>9
  <2> QED BY <1>2, <1>6, <1>7, <1>8, <1>9, <2>1, ProceedKeeps
<1>10. CASE Done(t)
  BY <1>2, <1>6, <1>8, <1>10, DoneKeeps
<1> QED BY <1>4, <1>9, <1>10

-----------------------------------------------------------------------------
(* The file is replaced, the account deleted, the process restarted.       *)

LEMMA OvertakeIs ==
  ASSUME CredInv, NEW t \in Thread, NEW a \in ProviderAccount, NEW s \in Thread
  PROVE  LET r == Overtake(t, a)[s] IN
         /\ r \in CredRequest /\ r.op = request[s].op /\ r.at = request[s].at
         /\ r.account = request[s].account /\ r.copy = request[s].copy /\ r.tells = request[s].tells
         /\ IF s # t /\ request[s].account = a /\ request[s].op # "idle"
            THEN r.overtaken ELSE r.overtaken = request[s].overtaken
BY RequestsAre DEF Overtake, CredRequest, Serving

LEMMA StoreKeeps == ASSUME CredInv, NEW t \in Thread, Store(t) PROVE CredInv'
<1>1. PICK a, c, tells : a = request[t].account /\ c = request[t].copy /\ tells = request[t].tells
  OBVIOUS
<1>2. /\ a \in ProviderAccount /\ c \in File /\ OfOneLogin(a, c) /\ tells \in {Same} \cup 0..MaxGrants
      /\ RequestFits(request[t]) /\ RequestCurrent(request[t]) /\ request[t].at = "store"
  BY <1>1, RequestsAre DEF Store, RequestFits
<1>3. /\ file' = [file EXCEPT ![a] = c] /\ UNCHANGED <<kept, platform, latest, flows>>
      /\ told' = [told EXCEPT ![a] = IF tells = Same THEN @ ELSE tells]
      /\ harmed' = IF request[t].overtaken /\ (tells = Same \/ Mixed(c) \/ a \notin kept)
                   THEN harmed \cup {a} ELSE harmed
      /\ request' = [Overtake(t, a) EXCEPT
           ![t].op = "idle", ![t].at = "", ![t].copy = Empty,
           ![t].flow = 0, ![t].tells = Same, ![t].overtaken = FALSE]
  BY <1>1 DEF Store, Outcome
<1>4. 0 \in 0..MaxFlows /\ Empty \in File
  BY CredentialsAssumption, EmptyIsAFile
<1>5. PICK o : o = Overtake(t, a)
  OBVIOUS
<1>6. o \in [Thread -> CredRequest]
  <2>1. o = [s \in Thread |-> o[s]]
    BY <1>5 DEF Overtake
  <2>2. \A s \in Thread : o[s] \in CredRequest
    BY <1>2, <1>5, OvertakeIs
  <2> QED BY <2>1, <2>2
<1>7. /\ request'[t] \in CredRequest /\ request'[t].op = "idle" /\ request'[t].at = ""
      /\ request'[t].copy = Empty /\ request'[t].tells = Same
      /\ \A s \in Thread \ {t} : request'[s] = o[s]
      /\ request' \in [Thread -> CredRequest]
  <2>1. PICK i : i = [o[t] EXCEPT !.op = "idle", !.at = "", !.copy = Empty,
                                  !.flow = 0, !.tells = Same, !.overtaken = FALSE]
    OBVIOUS
  <2>2. i \in CredRequest /\ i.op = "idle" /\ i.at = "" /\ i.copy = Empty /\ i.tells = Same
    BY <1>4, <1>6, <2>1 DEF CredRequest
  <2>3. request' = [o EXCEPT ![t] = i]
    BY <1>3, <1>5, <1>6, <2>1
  <2> QED BY <1>6, <2>2, <2>3
<1>8. ASSUME NEW s \in Thread
      PROVE  /\ o[s].op = request[s].op /\ o[s].at = request[s].at
             /\ o[s].account = request[s].account /\ o[s].copy = request[s].copy
             /\ o[s].tells = request[s].tells
             /\ IF s # t /\ request[s].account = a /\ request[s].op # "idle"
                THEN o[s].overtaken ELSE o[s].overtaken = request[s].overtaken
  BY <1>2, <1>5, OvertakeIs
<1>9. /\ file' \in [ProviderAccount -> File] /\ told' \in [ProviderAccount -> 0..MaxGrants]
      /\ harmed' \subseteq ProviderAccount
  BY <1>2, <1>3 DEF CredInv, CredTypeOK
<1>10. CredTypeOK'
  BY <1>3, <1>7, <1>9 DEF CredInv, CredTypeOK
<1>11. ASSUME NEW s \in Thread PROVE (RequestFits(request[s]) /\ RequestCurrent(request[s]))'
  <2>1. CASE s = t
    <3>1. request'[t].copy.renewal = 0
      BY <1>7, EmptyHoldsNone
    <3> QED BY <1>7, <2>1, <3>1 DEF RequestFits, RequestPlaced, RequestCurrent, Revises, OfOneLogin
  <2>2. CASE s # t
    <3>1. /\ request'[s].op = request[s].op /\ request'[s].at = request[s].at
          /\ request'[s].account = request[s].account /\ request'[s].copy = request[s].copy
          /\ request'[s].tells = request[s].tells
          /\ IF request[s].account = a /\ request[s].op # "idle"
             THEN request'[s].overtaken ELSE request'[s].overtaken = request[s].overtaken
      BY <1>7, <1>8, <2>2
    <3>2. RequestFits(request[s]) /\ RequestCurrent(request[s]) /\ request[s].account \in ProviderAccount
      BY RequestsAre
    <3>3. RequestFits(request[s])'
      BY <1>3, <3>1, <3>2 DEF RequestFits, RequestPlaced, OfOneLogin
    <3>4. request[s].op = "idle" => ~Revises(request[s])
      BY <3>2 DEF Revises, RequestFits
    <3>5. request[s].account # a => file'[request[s].account] = file[request[s].account]
      BY <1>2, <1>3, <3>2 DEF CredInv, CredTypeOK
    <3>6. Revises(request'[s]) => Revises(request[s])
      BY <3>1 DEF Revises
    <3>7. RequestCurrent(request[s])'
      <4>1. UNCHANGED kept /\ harmed \subseteq harmed'
        BY <1>3
      <4>2. Revises(request'[s]) /\ ~request'[s].overtaken /\ request'[s].account \notin harmed =>
              request'[s].copy.access = file'[request'[s].account].access
        BY <3>1, <3>2, <3>4, <3>5, <3>6 DEF RequestCurrent
      <4>3. request'[s].account \notin kept /\ request'[s].op \notin {"idle", "delete"}
              => request'[s].overtaken
        BY <3>1, <3>2 DEF RequestCurrent
      <4> QED BY <4>1, <4>2, <4>3 DEF RequestCurrent, Revises
    <3> QED BY <3>3, <3>7
  <2> QED BY <2>1, <2>2
<1>12. \A b \in ProviderAccount : OfOneLogin(b, file[b])'
  BY <1>2, <1>3 DEF CredInv, CredTypeOK, OfOneLogin
<1>13. ASSUME NEW b \in ProviderAccount \ harmed' PROVE AccountAsTold(b)'
  <2>1. b \notin harmed /\ AccountAsTold(b)
    BY <1>3, <1>13 DEF CredInv
  <2>2. CASE b # a
    <3>1. file'[b] = file[b] /\ told'[b] = told[b]
      BY <1>3, <2>2 DEF CredInv, CredTypeOK
    <3>2. DeletionPending(b) => DeletionPending(b)'
      BY <1>1, <1>7, <1>8, <2>2 DEF DeletionPending
    <3> QED BY <1>3, <2>1, <3>1, <3>2 DEF AccountAsTold
  <2>3. CASE b = a
    <3>1. ~request[t].overtaken \/ (tells # Same /\ a \in kept)
      BY <1>3, <1>13, <2>3
    <3>2. file'[a] = c /\ told'[a] = IF tells = Same THEN told[a] ELSE tells
      BY <1>2, <1>3 DEF CredInv, CredTypeOK
    <3>3. tells # Same => c.access = tells
      BY <1>1, <1>2 DEF RequestFits
    <3>4. tells = Same => c.access = file[a].access
      BY <1>1, <1>2, <2>1, <2>3, <3>1 DEF RequestCurrent, Revises
    <3>5. file'[a].access = told'[a]
      BY <2>1, <2>3, <3>2, <3>3, <3>4 DEF AccountAsTold
    <3>6. a \notin kept => request[t].op = "delete"
      BY <1>1, <1>2, <3>1 DEF RequestCurrent, RequestFits
    <3>7. a \notin kept => c = Empty
      BY <1>1, <1>2, <3>6 DEF RequestFits
    <3> QED BY <1>3, <2>3, <3>2, <3>5, <3>7 DEF AccountAsTold
  <2> QED BY <2>2, <2>3
<1> QED BY <1>10, <1>11, <1>12, <1>13 DEF CredInv

LEMMA DeletionKeeps ==
  ASSUME CredInv, NEW t \in Thread, NEW a \in ProviderAccount, DeleteProviderAccount(t, a)
  PROVE  CredInv'
<1>1. PICK o : o = Overtake(t, a)
  OBVIOUS
<1>2. o \in [Thread -> CredRequest]
  <2>1. o = [s \in Thread |-> o[s]]
    BY <1>1 DEF Overtake
  <2>2. \A s \in Thread : o[s] \in CredRequest
    BY <1>1, OvertakeIs
  <2> QED BY <2>1, <2>2
<1>3. PICK r : r = [Beginning("delete", "store") EXCEPT !.account = a, !.tells = 0]
  OBVIOUS
<1>4. 0 \in 0..MaxFlows /\ 0 \in 0..MaxGrants /\ Empty \in File
  BY CredentialsAssumption, EmptyIsAFile
<1>5. /\ r \in CredRequest /\ r.op = "delete" /\ r.at = "store" /\ r.account = a
      /\ r.copy = Empty /\ r.tells = 0
  BY <1>3, <1>4 DEF Beginning, CredRequest
<1>6. /\ request[t].op = "idle" /\ a \in kept /\ kept' = kept \ {a}
      /\ request' = [o EXCEPT ![t] = r] /\ UNCHANGED <<platform, file, latest, flows, told, harmed>>
  BY <1>1, <1>3 DEF DeleteProviderAccount, Serving
<1>7. \A s \in Thread : request'[s] = IF s = t THEN r ELSE o[s]
  BY <1>2, <1>6
<1>8. CredTypeOK'
  BY <1>2, <1>5, <1>6 DEF CredInv, CredTypeOK
<1>9. ASSUME NEW s \in Thread PROVE (RequestFits(request[s]) /\ RequestCurrent(request[s]))'
  <2>1. CASE s = t
    <3>1. request'[s] = r /\ UNCHANGED file /\ a \notin kept'
      BY <1>6, <1>7, <2>1
    <3>2. r.tells # Same /\ r.copy.access = 0 /\ r.copy.renewal = 0
      BY <1>5 DEF Same, Empty
    <3>3. RequestFits(request[s])'
      BY <1>5, <3>1, <3>2 DEF RequestFits, RequestPlaced, OfOneLogin
    <3>4. RequestCurrent(request[s])'
      BY <1>5, <3>1, <3>2 DEF RequestCurrent, Revises
    <3> QED BY <3>3, <3>4
  <2>2. CASE s # t
    <3>1. /\ request'[s].op = request[s].op /\ request'[s].at = request[s].at
          /\ request'[s].account = request[s].account /\ request'[s].copy = request[s].copy
          /\ request'[s].tells = request[s].tells
          /\ IF request[s].account = a /\ request[s].op # "idle"
             THEN request'[s].overtaken ELSE request'[s].overtaken = request[s].overtaken
      BY <1>1, <1>7, <2>2, OvertakeIs
    <3>2. RequestFits(request[s]) /\ RequestCurrent(request[s])
      BY RequestsAre
    <3>3. RequestFits(request[s])'
      BY <1>6, <3>1, <3>2 DEF RequestFits, RequestPlaced, OfOneLogin
    <3>4. Revises(request'[s]) <=> Revises(request[s])
      BY <3>1 DEF Revises
    <3>5. Revises(request[s]) => request[s].op # "idle"
      BY <3>2 DEF RequestFits, Revises
    <3>6. RequestCurrent(request[s])'
      BY <1>6, <3>1, <3>2, <3>4, <3>5 DEF RequestCurrent
    <3> QED BY <3>3, <3>6
  <2> QED BY <2>1, <2>2
<1>10. ASSUME NEW b \in ProviderAccount \ harmed PROVE AccountAsTold(b)'
  <2>1. AccountAsTold(b)
    BY <1>10 DEF CredInv
  <2>2. CASE b # a
    <3>1. DeletionPending(b) => DeletionPending(b)'
      BY <1>1, <1>6, <1>7, OvertakeIs DEF DeletionPending
    <3> QED BY <1>6, <2>1, <2>2, <3>1 DEF AccountAsTold
  <2>3. CASE b = a
    <3>1. DeletionPending(a)'
      BY <1>5, <1>7 DEF DeletionPending
    <3> QED BY <1>6, <2>1, <2>3, <3>1 DEF AccountAsTold
  <2> QED BY <2>2, <2>3
<1> QED BY <1>6, <1>8, <1>9, <1>10 DEF CredInv, OfOneLogin

LEMMA OwnerKeeps ==
  ASSUME CredInv, NEW t \in Thread, NEW a \in ProviderAccount, DeleteOwner(t, a)
  PROVE  CredInv'
<1>1. /\ kept' = kept \ {a} /\ request' = Overtake(t, a) /\ harmed' = harmed \cup {a}
      /\ request[t].op = "idle" /\ UNCHANGED <<platform, file, latest, flows, told>>
  BY DEF DeleteOwner, Serving
<1>2. ASSUME NEW s \in Thread
      PROVE  /\ request'[s] \in CredRequest /\ request'[s].op = request[s].op
             /\ request'[s].at = request[s].at /\ request'[s].account = request[s].account
             /\ request'[s].copy = request[s].copy /\ request'[s].tells = request[s].tells
             /\ IF s # t /\ request[s].account = a /\ request[s].op # "idle"
                THEN request'[s].overtaken ELSE request'[s].overtaken = request[s].overtaken
  BY <1>1, OvertakeIs
<1>3. request' = [s \in Thread |-> request'[s]]
  BY <1>1 DEF Overtake
<1>4. CredTypeOK'
  BY <1>1, <1>2, <1>3 DEF CredInv, CredTypeOK
<1>5. ASSUME NEW s \in Thread PROVE (RequestFits(request[s]) /\ RequestCurrent(request[s]))'
  <2>1. RequestFits(request[s]) /\ RequestCurrent(request[s])
    BY RequestsAre
  <2>2. RequestFits(request[s])'
    BY <1>1, <1>2, <2>1 DEF RequestFits, RequestPlaced, OfOneLogin
  <2>3. Revises(request'[s]) <=> Revises(request[s])
    BY <1>2 DEF Revises
  <2>4. Revises(request'[s]) /\ ~request'[s].overtaken /\ request'[s].account \notin harmed'
          => request'[s].copy.access = file'[request'[s].account].access
    BY <1>1, <1>2, <2>1, <2>3 DEF RequestCurrent
  <2>5. request'[s].account \notin kept' /\ request'[s].op \notin {"idle", "delete"}
          => request'[s].overtaken
    BY <1>1, <1>2, <2>1 DEF RequestCurrent
  <2> QED BY <2>2, <2>4, <2>5 DEF RequestCurrent, Revises
<1>6. ASSUME NEW b \in ProviderAccount \ harmed' PROVE AccountAsTold(b)'
  <2>1. AccountAsTold(b) /\ b # a
    BY <1>1, <1>6 DEF CredInv
  <2>2. DeletionPending(b) => DeletionPending(b)'
    BY <1>2 DEF DeletionPending
  <2> QED BY <1>1, <2>1, <2>2 DEF AccountAsTold
<1> QED BY <1>1, <1>4, <1>5, <1>6 DEF CredInv, OfOneLogin

LEMMA RestartKeeps == ASSUME CredInv, RestartServer PROVE CredInv'
<1>1. 0 \in 0..MaxFlows /\ 0 \in 0..MaxGrants /\ Empty \in File
  BY CredentialsAssumption, EmptyIsAFile
<1>2. ASSUME NEW a \in ProviderAccount
      PROVE  LET r == [Beginning("idle", "") EXCEPT !.account = a] IN
             /\ r \in CredRequest /\ r.op = "idle" /\ r.at = "" /\ r.account = a
             /\ r.copy = Empty /\ r.tells = Same
  BY <1>1 DEF Beginning, CredRequest
<1>3. ASSUME NEW t \in Thread
      PROVE  /\ request'[t] \in CredRequest /\ request'[t].op = "idle" /\ request'[t].at = ""
             /\ request'[t].account = request[t].account /\ request'[t].copy = Empty
             /\ request'[t].tells = Same
  BY <1>2, RequestsAre DEF RestartServer
<1>4. request' = [t \in Thread |-> request'[t]]
  BY DEF RestartServer
<1>5. /\ UNCHANGED <<kept, platform, file, latest, flows, told>>
      /\ harmed \subseteq harmed' /\ harmed' \subseteq ProviderAccount
      /\ \A t \in Thread : request[t].at = "store" /\ request[t].op = "delete"
                             => request[t].account \in harmed'
  BY RequestsAre DEF RestartServer, CredInv, CredTypeOK
<1>6. CredTypeOK'
  BY <1>3, <1>4, <1>5 DEF CredInv, CredTypeOK
<1>7. ASSUME NEW t \in Thread PROVE (RequestFits(request[t]) /\ RequestCurrent(request[t]))'
  <2>1. request'[t].copy.renewal = 0
    BY <1>3, EmptyHoldsNone
  <2> QED BY <1>3, <2>1 DEF RequestFits, RequestPlaced, RequestCurrent, Revises, OfOneLogin
<1>8. ASSUME NEW a \in ProviderAccount \ harmed' PROVE AccountAsTold(a)'
  <2>1. AccountAsTold(a)
    BY <1>5, <1>8 DEF CredInv
  <2>2. ~DeletionPending(a)
    BY <1>5, <1>8, RequestsAre DEF DeletionPending, RequestFits
  <2> QED BY <1>5, <2>1, <2>2 DEF AccountAsTold
<1> QED BY <1>5, <1>6, <1>7, <1>8 DEF CredInv, OfOneLogin

LEMMA FlowKeeps ==
  ASSUME CredInv, UNCHANGED <<kept, platform, file, latest, request, told, harmed>>,
         flows' \in [Flow -> {"none", "open", "confirmed", "spent"}]
  PROVE  CredInv'
BY DEF CredInv, CredTypeOK, RequestFits, RequestPlaced, RequestCurrent, OfOneLogin,
   AccountAsTold, DeletionPending

LEMMA CredStep == CredInv /\ [CredNext]_credVars => CredInv'
<1> SUFFICES ASSUME CredInv, [CredNext]_credVars PROVE CredInv'
  OBVIOUS
<1>1. ASSUME NEW t \in Thread, NEW a \in ProviderAccount,
             \/ StartLogin(t, a) \/ StartAmazonLogin(t, a) \/ PollLogin(t, a)
             \/ CompleteLogin(t, a) \/ Logout(t, a) \/ Sync(t, a)
      PROVE  CredInv'
  BY <1>1, BeginningsKeep
<1>2. ASSUME NEW t \in Thread, NEW a \in ProviderAccount,
             DeleteProviderAccount(t, a) \/ DeleteOwner(t, a)
      PROVE  CredInv'
  BY <1>2, DeletionKeeps, OwnerKeeps
<1>3. ASSUME NEW t \in Thread,
             \/ LoadFlow(t) \/ LoadForCode(t) \/ LoadGog(t)
             \/ LoadVerifier(t) \/ LoadTicket(t) \/ LoadSession(t)
      PROVE  CredInv'
  BY <1>3, LoadsKeep
<1>4. ASSUME NEW t \in Thread, AskInVain(t) \/ AskForCode(t) \/ AskWhetherConfirmed(t)
      PROVE  CredInv'
  BY <1>4, AskInVainKeeps, AskForCodeKeeps, AskKeeps
<1>5. ASSUME NEW t \in Thread,
             \/ CompleteGog(t) \/ CompleteBrowserSession(t)
             \/ CompleteAmazon(t) \/ CompleteUbisoft(t) \/ PasteXbox(t)
      PROVE  CredInv'
  BY <1>5, CompletionsKeep
<1>6. ASSUME NEW t \in Thread, RenewXbox(t) \/ RenewGog(t) \/ RenewAmazon(t)
      PROVE  CredInv'
  BY <1>6, RenewKeeps DEF RenewXbox, RenewGog, RenewAmazon
<1>7. ASSUME NEW t \in Thread, Store(t) PROVE CredInv'
  BY <1>7, StoreKeeps
<1>8. ASSUME NEW f \in Flow, ConfirmFlow(f) \/ ExpireFlow(f) PROVE CredInv'
  BY <1>8, FlowKeeps, FlowsTyped DEF ConfirmFlow, ExpireFlow
<1>9. CASE RestartServer
  BY <1>9, RestartKeeps
<1>10. CASE UNCHANGED credVars
  BY <1>10, FlowKeeps DEF credVars, CredInv, CredTypeOK
<1> QED BY <1>1, <1>2, <1>3, <1>4, <1>5, <1>6, <1>7, <1>8, <1>9, <1>10 DEF CredNext

(* Every variable keeps its type.                                          *)
THEOREM CredentialsTyped == CredSpec => []CredTypeOK
BY CredInitially, CredStep, CredInvSays, PTL DEF CredSpec

(* The tokens in a file always come from one login, unless an Xbox login   *)
(* brought no refresh token and kept the earlier one.                      *)
THEOREM FilesHoldOneLogin == CredSpec => []FileOfOneLogin
BY CredInitially, CredStep, CredInvSays, PTL DEF CredSpec

(* But for the exceptions that FileAsTold names, a file is what the last   *)
(* answer said, and a deleted account has none.                            *)
THEOREM FilesAreAsTold == CredSpec => []FileAsTold
BY CredInitially, CredStep, CredInvSays, PTL DEF CredSpec

-----------------------------------------------------------------------------
(* Refresh tokens.  RenewableSession is not inductive either: a renewal    *)
(* must find no other holder of its login, neither the file of another     *)
(* account nor the answer of a login under way, and a copy that is about   *)
(* to be written must be the file it was made from.                        *)

Renewing(a) == \E t \in Thread : /\ request[t].account = a /\ request[t].op = "sync"
                                 /\ request[t].at = "store"

(* The request brings the refresh token of the login it speaks of, or will *)
(* write the one it has loaded.                                            *)
Brings(r)  == r.tells # Same /\ r.copy.renewal # 0 /\ ~Mixed(r.copy)
Carries(r) == Revises(r) \/ (r.at = "store" /\ Mixed(r.copy))

(* What a request may hold of a login, and of which account the login is.  *)
RequestRenews(r, home) ==
  /\ r.copy.renewal # 0 => home[r.copy.renewal] = r.account /\ latest[r.copy.renewal] # 0
  /\ r.copy.renewal # 0 /\ (Brings(r) \/ (r.op = "sync" /\ r.at = "store"))
       => r.copy.serial = latest[r.copy.renewal]
  /\ r.op # "sync" /\ Carries(r) /\ ~r.overtaken
       => /\ r.copy.renewal = file[r.account].renewal
          /\ r.copy.serial = file[r.account].serial
  /\ r.op = "sync" /\ r.at = "ask" /\ ~r.overtaken /\ r.account \notin harmed
       => r.copy.serial = latest[r.copy.renewal]

FileRenews(a, home) ==
  file[a].renewal # 0 =>
    /\ home[file[a].renewal] = a
    /\ latest[file[a].renewal] # 0
    /\ a \notin harmed => file[a].serial = latest[file[a].renewal] \/ Renewing(a)

(* The session of a login that has just succeeded is nowhere else yet.     *)
FreshSession(t) ==
  Brings(request[t]) =>
    /\ \A a \in ProviderAccount : file[a].renewal # request[t].copy.renewal
    /\ \A s \in Thread \ {t} : request[s].copy.renewal # request[t].copy.renewal

OneSync ==
  \A s, t \in Thread : request[s].op = "sync" /\ request[t].op = "sync" => s = t

RenewWith(home) ==
  /\ \A t \in Thread : RequestRenews(request[t], home) /\ FreshSession(t)
  /\ \A a \in ProviderAccount : FileRenews(a, home)
  /\ OneSync

RenewInv == CredInv /\ \E home \in [Grant -> ProviderAccount] : RenewWith(home)

LEMMA RenewInitially == CredInit => RenewInv
<1> SUFFICES ASSUME CredInit PROVE RenewInv
  OBVIOUS
<1>1. PICK b \in ProviderAccount :
        request = [t \in Thread |-> [op |-> "idle", at |-> "", account |-> b, copy |-> Empty,
                                     flow |-> 0, tells |-> Same, overtaken |-> FALSE]]
  BY DEF CredInit
<1>2. PICK home : home = [n \in Grant |-> b]
  OBVIOUS
<1>3. \A t \in Thread : RequestRenews(request[t], home) /\ FreshSession(t)
  BY <1>1 DEF RequestRenews, FreshSession, Revises, Brings, Carries, Mixed, Empty
<1>4. \A a \in ProviderAccount : FileRenews(a, home)
  BY DEF CredInit, FileRenews, Empty
<1>5. OneSync
  BY <1>1 DEF OneSync
<1>6. home \in [Grant -> ProviderAccount]
  BY <1>2
<1> QED BY <1>3, <1>4, <1>5, <1>6, CredInitially DEF RenewInv, RenewWith

LEMMA RenewSays == RenewInv => RenewableSession
<1> SUFFICES ASSUME RenewInv PROVE RenewableSession
  OBVIOUS
<1>1. PICK home \in [Grant -> ProviderAccount] : RenewWith(home)
  BY DEF RenewInv
<1>2. ASSUME NEW a \in ProviderAccount \ harmed
      PROVE  \/ file[a].renewal = 0
             \/ file[a].serial = latest[file[a].renewal]
             \/ \E t \in Thread : /\ request[t].account = a /\ request[t].op = "sync"
                                  /\ request[t].at = "store"
  BY <1>1, <1>2 DEF RenewWith, FileRenews, Renewing
<1>3. ASSUME NEW a \in ProviderAccount \ harmed, NEW t \in Thread,
             request[t].account = a, request[t].op = "sync",
             request[t].at = "ask", ~request[t].overtaken
      PROVE  request[t].copy.serial = latest[request[t].copy.renewal]
  BY <1>1, <1>3 DEF RenewWith, RequestRenews
<1> QED BY <1>2, <1>3 DEF RenewableSession

-----------------------------------------------------------------------------
(* What the steps of one request leave of this.                            *)

(* The provider takes what it took, and known logins stay at home.         *)
Extends(home, next) ==
  \A n \in Grant : latest[n] # 0 => latest'[n] = latest[n] /\ next[n] = home[n]

(* q is s's request, perhaps overtaken.                                    *)
Remains(s, q) ==
  /\ q.op = request[s].op /\ q.at = request[s].at /\ q.account = request[s].account
  /\ q.copy = request[s].copy /\ q.tells = request[s].tells
  /\ request[s].overtaken => q.overtaken

LEMMA HeldGrants ==
  ASSUME CredInv
  PROVE  /\ \A t \in Thread : request[t].copy.renewal # 0 => request[t].copy.renewal \in Grant
         /\ \A a \in ProviderAccount : file[a].renewal # 0 => file[a].renewal \in Grant
         /\ \A c \in File : c.renewal # 0 => c.renewal \in Grant
<1>1. \A c \in File : c.renewal # 0 => c.renewal \in Grant
  BY CredentialsAssumption DEF File, Grant
<1> QED BY <1>1, RequestsAre DEF CredInv, CredTypeOK

LEMMA OthersRenew ==
  ASSUME CredInv, NEW home, NEW next, NEW s \in Thread, NEW q, Remains(s, q),
         RequestRenews(request[s], home), Extends(home, next), harmed \subseteq harmed',
         \/ q.overtaken
         \/ file'[request[s].account] = file[request[s].account]
         \/ q.op = "idle"
  PROVE  RequestRenews(q, next)'
<1> DEFINE n == request[s].copy.renewal
<1>1. n # 0 => n \in Grant
  BY HeldGrants
<1>2. n # 0 => latest[n] # 0 /\ latest'[n] = latest[n] /\ next[n] = home[n] /\ home[n] = q.account
  BY <1>1 DEF RequestRenews, Extends, Remains
<1>3. RequestFits(request[s])
  BY RequestsAre
<1>4. q.op = "idle" => ~Carries(q) /\ q.at = ""
  BY <1>3 DEF RequestFits, Revises, Carries, Remains
<1>5. q.op = "sync" /\ q.at = "ask" => n # 0
  BY <1>3 DEF RequestFits, Remains
<1>6. (Carries(q) <=> Carries(request[s])) /\ (Brings(q) <=> Brings(request[s]))
  BY DEF Revises, Carries, Brings, Remains
<1>7. q.copy.renewal = n /\ q.copy = request[s].copy
  BY DEF Remains
<1>8. n # 0 => next[n] = q.account /\ latest'[n] # 0
  BY <1>2
<1>9. n # 0 /\ (Brings(q) \/ (q.op = "sync" /\ q.at = "store"))
        => q.copy.serial = latest'[n]
  BY <1>2, <1>6 DEF RequestRenews, Remains
<1>10. q.op # "sync" /\ Carries(q) /\ ~q.overtaken
         => /\ n = file'[q.account].renewal
            /\ q.copy.serial = file'[q.account].serial
  BY <1>4, <1>6 DEF RequestRenews, Remains
<1>11. q.op = "sync" /\ q.at = "ask" /\ ~q.overtaken /\ q.account \notin harmed'
         => q.copy.serial = latest'[n]
  BY <1>2, <1>5 DEF RequestRenews, Remains
<1> HIDE DEF n
<1> QED BY <1>7, <1>8, <1>9, <1>10, <1>11 DEF RequestRenews, Revises, Brings, Carries

LEMMA FilesRenew ==
  ASSUME CredInv, NEW home, NEW next, NEW a \in ProviderAccount, file'[a] = file[a],
         FileRenews(a, home), Extends(home, next), harmed \subseteq harmed',
         Renewing(a) => Renewing(a)' \/ a \in harmed'
  PROVE  FileRenews(a, next)'
BY HeldGrants DEF FileRenews, Extends

(* A step of one request that leaves the files and known tokens.           *)
LEMMA AdvanceRenews ==
  ASSUME CredInv, NEW home \in [Grant -> ProviderAccount], RenewWith(home),
         NEW next \in [Grant -> ProviderAccount], Extends(home, next),
         NEW t \in Thread, NEW r \in CredRequest, Advance(t, r), harmed \subseteq harmed',
         RequestRenews(r, next)',
         r.copy.renewal # 0 =>
           \A s \in Thread \ {t} :
             Brings(request[s]) => request[s].copy.renewal # r.copy.renewal,
         Brings(r) =>
           /\ \A a \in ProviderAccount : file[a].renewal # r.copy.renewal
           /\ \A s \in Thread \ {t} : request[s].copy.renewal # r.copy.renewal,
         r.op = "sync" => request[t].op = "sync" \/ \A s \in Thread : request[s].op # "sync",
         ~(request[t].op = "sync" /\ request[t].at = "store")
  PROVE  RenewWith(next)'
<1>1. \A s \in Thread : request'[s] = IF s = t THEN r ELSE request[s]
  BY DEF Advance, CredInv, CredTypeOK
<1>2. file' = file
  BY DEF Advance
<1>3. ASSUME NEW s \in Thread PROVE RequestRenews(request[s], next)'
  <2>1. CASE s = t
    BY <1>1, <2>1 DEF RequestRenews, Revises, Brings, Carries
  <2>2. CASE s # t
    <3>1. PICK q : q = request[s]
      OBVIOUS
    <3>2. request'[s] = q
      BY <1>1, <2>2, <3>1
    <3>3. RequestRenews(request[s], home)
      BY DEF RenewWith
    <3>4. RequestRenews(q, next)'
      BY <1>2, <3>1, <3>3, OthersRenew DEF Remains
    <3> QED BY <3>2, <3>4 DEF RequestRenews, Revises, Brings, Carries
  <2> QED BY <2>1, <2>2
<1>4. ASSUME NEW s \in Thread PROVE FreshSession(s)'
  <2>1. FreshSession(s)
    BY DEF RenewWith
  <2> QED BY <1>1, <1>2, <2>1 DEF FreshSession, Brings
<1>5. ASSUME NEW a \in ProviderAccount PROVE FileRenews(a, next)'
  <2>1. Renewing(a) => Renewing(a)'
    BY <1>1 DEF Renewing
  <2>2. FileRenews(a, home)
    BY DEF RenewWith
  <2> QED BY <1>2, <2>1, <2>2, FilesRenew
<1>6. OneSync'
  BY <1>1 DEF RenewWith, OneSync
<1> QED BY <1>3, <1>4, <1>5, <1>6 DEF RenewWith

(* The same in the form the invariant has.                                 *)
LEMMA RenewNext ==
  ASSUME NEW home \in [Grant -> ProviderAccount], RenewWith(home)', CredInv'
  PROVE  RenewInv'
BY DEF RenewInv

(* A request that ends without a word, or that holds no refresh token.     *)
LEMMA EmptyHanded ==
  ASSUME CredInv, NEW home \in [Grant -> ProviderAccount], RenewWith(home),
         NEW t \in Thread, NEW r \in CredRequest, Advance(t, r), harmed \subseteq harmed',
         Extends(home, home), r.copy.renewal = 0, ~Revises(r),
         r.op = "sync" => r.at = "load" /\
           (request[t].op = "sync" \/ \A s \in Thread : request[s].op # "sync"),
         ~(request[t].op = "sync" /\ request[t].at = "store")
  PROVE  RenewWith(home)'
<1>1. RequestRenews(r, home)' /\ ~Brings(r)
  BY DEF RequestRenews, Revises, Brings, Carries, Mixed
<1> QED BY <1>1, AdvanceRenews

LEMMA DoneRenews ==
  ASSUME CredInv, NEW home \in [Grant -> ProviderAccount], RenewWith(home),
         NEW t \in Thread, Done(t), UNCHANGED <<kept, platform, file, told>>,
         Extends(home, home), harmed \subseteq harmed',
         ~(request[t].op = "sync" /\ request[t].at = "store")
  PROVE  RenewWith(home)'
<1> DEFINE r == [request[t] EXCEPT !.op = "idle", !.at = "", !.copy = Empty,
                                   !.flow = 0, !.tells = Same, !.overtaken = FALSE]
<1>0. 0 \in 0..MaxFlows
  BY CredentialsAssumption
<1>1. r \in CredRequest /\ r.op = "idle" /\ r.copy = Empty /\ r.at = ""
  BY <1>0, RequestsAre, EmptyIsAFile DEF CredRequest
<1>2. Advance(t, r)
  BY RequestsAre DEF Done, Advance, CredInv, CredTypeOK
<1>3. r.copy.renewal = 0 /\ ~Revises(r)
  BY <1>1 DEF Empty, Revises
<1> HIDE DEF r
<1> QED BY <1>1, <1>2, <1>3, EmptyHanded

LEMMA StillHome == ASSUME NEW home, UNCHANGED latest PROVE Extends(home, home)
BY DEF Extends

(* A request that begins has loaded nothing, and a sync is the only one.   *)
EmptyStart(t) ==
  \E r \in CredRequest :
    /\ Advance(t, r) /\ ~Serving(t) /\ r.copy.renewal = 0 /\ ~Revises(r)
    /\ r.op = "sync" => r.at = "load" /\ \A s \in Thread : request[s].op # "sync"
    /\ UNCHANGED <<latest, harmed>>

LEMMA BeginsEmpty ==
  ASSUME CredInv, NEW t \in Thread, NEW a \in ProviderAccount,
         \/ StartLogin(t, a) \/ StartAmazonLogin(t, a) \/ PollLogin(t, a)
         \/ CompleteLogin(t, a) \/ Logout(t, a) \/ Sync(t, a)
  PROVE  EmptyStart(t)
<1>0. /\ 0 \in 0..MaxFlows /\ 0 \in 0..MaxGrants /\ Flow \subseteq 0..MaxFlows
      /\ Empty \in File /\ Empty.access = 0 /\ Empty.renewal = 0
  BY CredentialsAssumption, EmptyIsAFile DEF Flow, Empty
<1>1. UNCHANGED <<kept, platform, file, latest, told, harmed>>
  BY DEF StartLogin, StartAmazonLogin, PollLogin, CompleteLogin, Logout, Sync
<1>2. ASSUME NEW r \in CredRequest, ~Serving(t), request' = [request EXCEPT ![t] = r],
             r.copy.renewal = 0, r.op \in {"poll", "sync"} => r.at = "load",
             r.at = "store" => r.tells = 0,
             r.op = "sync" => \A s \in Thread : request[s].op # "sync"
      PROVE  EmptyStart(t)
  <2>1. ~Revises(r)
    BY <1>2 DEF Revises, Same
  <2>2. Advance(t, r)
    BY <1>1, <1>2 DEF Advance
  <2> QED BY <1>1, <1>2, <2>1, <2>2 DEF EmptyStart
<1>3. ASSUME NEW op \in {"start", "poll", "complete", "sync"},
             NEW at \in {"load", "ask"}, op \in {"poll", "sync"} => at = "load",
             op = "sync" => \A s \in Thread : request[s].op # "sync",
             BeginRequest(t, a, Beginning(op, at))
      PROVE  EmptyStart(t)
  <2>1. PICK r : r = [Beginning(op, at) EXCEPT !.account = a]
    OBVIOUS
  <2>2. r \in CredRequest /\ r.op = op /\ r.at = at /\ r.copy.renewal = 0 /\ r.tells = Same
    BY <1>0, <2>1 DEF Beginning, CredRequest
  <2>3. ~Serving(t) /\ request' = [request EXCEPT ![t] = r]
    BY <1>3, <2>1 DEF BeginRequest
  <2> QED BY <1>2, <1>3, <2>2, <2>3
<1>4. CASE StartLogin(t, a) \/ PollLogin(t, a) \/ Sync(t, a)
  BY <1>3, <1>4 DEF StartLogin, PollLogin, Sync
<1>5. CASE StartAmazonLogin(t, a)
  <2>1. PICK f \in NewFlows :
          BeginRequest(t, a, [Beginning("start", "store") EXCEPT !.copy.flow = f, !.tells = 0])
    BY <1>5 DEF StartAmazonLogin
  <2>2. f \in 0..MaxFlows
    BY <1>0 DEF NewFlows
  <2>3. [Empty EXCEPT !.flow = f] \in File /\ [Empty EXCEPT !.flow = f].renewal = 0
    BY <1>0, <2>2 DEF File
  <2>4. PICK r : r = [[Beginning("start", "store") EXCEPT !.copy.flow = f, !.tells = 0]
                        EXCEPT !.account = a]
    OBVIOUS
  <2>5. /\ r \in CredRequest /\ r.op = "start" /\ r.at = "store"
        /\ r.copy.renewal = 0 /\ r.tells = 0
    BY <1>0, <2>2, <2>3, <2>4 DEF Beginning, CredRequest
  <2>6. ~Serving(t) /\ request' = [request EXCEPT ![t] = r]
    BY <2>1, <2>4 DEF BeginRequest
  <2> QED BY <1>2, <2>5, <2>6
<1>6. CASE CompleteLogin(t, a)
  <2>1. CASE \/ BeginRequest(t, a, Beginning("complete", "ask"))
             \/ BeginRequest(t, a, Beginning("complete", "load"))
    BY <1>3, <2>1
  <2>2. ASSUME NEW f \in Flow,
               BeginRequest(t, a, [Beginning("complete", "load") EXCEPT !.flow = f])
        PROVE  EmptyStart(t)
    <3>1. PICK r : r = [[Beginning("complete", "load") EXCEPT !.flow = f] EXCEPT !.account = a]
      OBVIOUS
    <3>2. r \in CredRequest /\ r.op = "complete" /\ r.at = "load" /\ r.copy.renewal = 0
      BY <1>0, <3>1 DEF Beginning, CredRequest
    <3>3. ~Serving(t) /\ request' = [request EXCEPT ![t] = r]
      BY <2>2, <3>1 DEF BeginRequest
    <3> QED BY <1>2, <3>2, <3>3
  <2> QED BY <1>6, <2>1, <2>2 DEF CompleteLogin
<1>7. CASE Logout(t, a)
  <2>1. PICK at \in {"load", "store"} :
          BeginRequest(t, a, [Beginning("logout", at) EXCEPT !.tells = 0])
    BY <1>7 DEF Logout
  <2>2. PICK r : r = [[Beginning("logout", at) EXCEPT !.tells = 0] EXCEPT !.account = a]
    OBVIOUS
  <2>3. /\ r \in CredRequest /\ r.op = "logout" /\ r.at = at /\ r.copy.renewal = 0
        /\ r.tells = 0
    BY <1>0, <2>2 DEF Beginning, CredRequest
  <2>4. ~Serving(t) /\ request' = [request EXCEPT ![t] = r]
    BY <2>1, <2>2 DEF BeginRequest
  <2> QED BY <1>2, <2>3, <2>4
<1> QED BY <1>4, <1>5, <1>6, <1>7

LEMMA BeginningsRenew ==
  ASSUME CredInv, NEW home \in [Grant -> ProviderAccount], RenewWith(home),
         NEW t \in Thread, NEW a \in ProviderAccount,
         \/ StartLogin(t, a) \/ StartAmazonLogin(t, a) \/ PollLogin(t, a)
         \/ CompleteLogin(t, a) \/ Logout(t, a) \/ Sync(t, a)
  PROVE  RenewWith(home)'
<1>0. EmptyStart(t)
  BY BeginsEmpty
<1>1. PICK r \in CredRequest :
        /\ Advance(t, r) /\ ~Serving(t) /\ r.copy.renewal = 0 /\ ~Revises(r)
        /\ r.op = "sync" => r.at = "load" /\ \A s \in Thread : request[s].op # "sync"
        /\ UNCHANGED <<latest, harmed>>
  BY <1>0 DEF EmptyStart
<1>2. Extends(home, home)
  BY <1>1, StillHome
<1>3. request[t].op = "idle"
  BY <1>1 DEF Serving
<1> QED BY <1>1, <1>2, <1>3, EmptyHanded

-----------------------------------------------------------------------------
(* The file is read: the copy has the tokens of the file, none, or those   *)
(* of the answer GOG gave before.                                          *)

LEMMA GoOnRenews ==
  ASSUME CredInv, NEW home \in [Grant -> ProviderAccount], RenewWith(home),
         NEW t \in Thread, NEW at \in {"ask", "store"}, NEW c \in File, GoOn(t, at, c),
         request[t].at = "load",
         request[t].op = "sync" => at = "ask" /\ c.renewal # 0,
         \/ /\ request[t].tells = Same
            /\ c.renewal = file[request[t].account].renewal
            /\ c.serial = file[request[t].account].serial
         \/ request[t].tells # Same /\ request[t].op # "sync" /\ c = request[t].copy,
         UNCHANGED <<kept, platform, file, latest, flows, told, harmed>>
  PROVE  RenewWith(home)'
<1>0. PICK r : r = [request[t] EXCEPT !.at = at, !.copy = c,
                                      !.overtaken = request[t].account \notin kept]
  OBVIOUS
<1>1. /\ r \in CredRequest /\ r.op = request[t].op /\ r.copy = c /\ r.at = at
      /\ r.tells = request[t].tells /\ r.account = request[t].account
  BY <1>0, RequestsAre DEF CredRequest
<1>2. Advance(t, r)
  BY <1>0, RequestsAre DEF GoOn, Advance, CredInv, CredTypeOK
<1>3. PICK a \in ProviderAccount : a = request[t].account
  BY RequestsAre
<1>4. RequestRenews(request[t], home) /\ FileRenews(a, home)
      /\ \A s \in Thread : FreshSession(s)
  BY DEF RenewWith
<1>5. request[t].op = "sync" => ~Renewing(a)
  BY DEF RenewWith, OneSync, Renewing
<1>6. c.renewal # 0 => home[c.renewal] = a /\ latest[c.renewal] # 0
  BY <1>3, <1>4 DEF RequestRenews, FileRenews
<1>7. request[t].op = "sync" /\ a \notin harmed => c.serial = latest[c.renewal]
  BY <1>3, <1>4, <1>5 DEF FileRenews
<1>8. Brings(r) => c.serial = latest[c.renewal]
  BY <1>1, <1>4 DEF RequestRenews, Brings
<1>9. request[t].op = "sync" => request[t].tells = Same
  BY RequestsAre DEF RequestFits, RequestPlaced
<1>p. request[t].tells # Same => ~Mixed(c)
  BY RequestsAre DEF RequestFits, RequestPlaced, OfOneLogin, Mixed
<1>10. RequestRenews(r, home)
  BY <1>1, <1>3, <1>6, <1>7, <1>8, <1>9, <1>p DEF RequestRenews, Revises, Brings, Carries
<1>11. RequestRenews(r, home)'
  BY <1>10 DEF RequestRenews, Revises, Brings, Carries
<1>12. ASSUME c.renewal # 0, NEW s \in Thread \ {t}, Brings(request[s])
       PROVE  request[s].copy.renewal # c.renewal
  BY <1>3, <1>4, <1>12 DEF FreshSession
<1>13. ASSUME Brings(r)
       PROVE  /\ \A b \in ProviderAccount : file[b].renewal # c.renewal
              /\ \A s \in Thread \ {t} : request[s].copy.renewal # c.renewal
  BY <1>1, <1>4, <1>13 DEF FreshSession, Brings
<1>14. Extends(home, home)
  BY StillHome
<1> QED BY <1>1, <1>2, <1>11, <1>12, <1>13, <1>14, AdvanceRenews

LEMMA LoadsRenew ==
  ASSUME CredInv, NEW home \in [Grant -> ProviderAccount], RenewWith(home), NEW t \in Thread,
         \/ LoadFlow(t) \/ LoadForCode(t) \/ LoadGog(t)
         \/ LoadVerifier(t) \/ LoadTicket(t) \/ LoadSession(t)
  PROVE  RenewWith(home)'
<1> DEFINE c == file[request[t].account]
<1>1. /\ request[t].at = "load" /\ c \in File
      /\ UNCHANGED <<kept, platform, file, latest, flows, told, harmed>>
      /\ Loaded(t) = c
  BY RequestsAre DEF LoadFlow, LoadForCode, LoadGog, LoadVerifier, LoadTicket,
     LoadSession, Load, Loaded
<1>2. Extends(home, home)
  BY <1>1, StillHome
<1>3. CASE Done(t)
  BY <1>1, <1>2, <1>3, DoneRenews
<1>4. request[t].tells # Same <=>
        request[t].op \in {"complete", "logout"} /\ platform[request[t].account] = "gog"
  BY <1>1, RequestsAre DEF RequestFits, RequestPlaced
<1> HIDE DEF c
<1>5. CASE LoadFlow(t)
  <2>1. request[t].op = "poll" /\ request[t].tells = Same
    BY <1>4, <1>5 DEF LoadFlow, Load
  <2>2. /\ WithoutFlow(c) \in File /\ WithoutFlow(c).renewal = c.renewal
        /\ WithoutFlow(c).serial = c.serial
    BY <1>1, CredentialsAssumption DEF WithoutFlow, File
  <2>3. Done(t) \/ GoOn(t, "store", WithoutFlow(c)) \/ GoOn(t, "ask", c)
    BY <1>1, <1>5 DEF LoadFlow
  <2>4. CASE GoOn(t, "store", WithoutFlow(c))
    BY <1>1, <2>1, <2>2, <2>4, GoOnRenews DEF c
  <2>5. CASE GoOn(t, "ask", c)
    BY <1>1, <2>1, <2>5, GoOnRenews DEF c
  <2> QED BY <1>3, <2>3, <2>4, <2>5
<1>6. CASE LoadForCode(t)
  <2>1. PICK d : d = [c EXCEPT !.flow = request[t].flow]
    OBVIOUS
  <2>2. d \in File /\ d.renewal = c.renewal /\ d.serial = c.serial
    BY <1>1, <2>1, RequestsAre DEF File
  <2>3. GoOn(t, "store", d) /\ request[t].op = "start" /\ request[t].tells = Same
    BY <1>1, <1>4, <1>6, <2>1 DEF LoadForCode, Load
  <2> QED BY <1>1, <2>2, <2>3, GoOnRenews DEF c
<1>7. CASE LoadGog(t)
  <2>1. /\ GoOn(t, "store", request[t].copy) /\ request[t].copy \in File
        /\ request[t].op # "sync" /\ request[t].tells # Same
    BY <1>4, <1>7, RequestsAre DEF LoadGog, Load
  <2> QED BY <1>1, <2>1, GoOnRenews
<1>8. CASE LoadVerifier(t) \/ LoadTicket(t)
  <2>1. /\ Done(t) \/ GoOn(t, "ask", c)
        /\ request[t].op = "complete" /\ request[t].tells = Same
    BY <1>1, <1>4, <1>8 DEF LoadVerifier, LoadTicket, Load
  <2> QED BY <1>1, <1>3, <2>1, GoOnRenews DEF c
<1>9. CASE LoadSession(t)
  <2>1. /\ Done(t) \/ (c.renewal # 0 /\ GoOn(t, "ask", c))
        /\ request[t].op = "sync" /\ request[t].tells = Same
    BY <1>1, <1>4, <1>9 DEF LoadSession, Load
  <2> QED BY <1>1, <1>3, <2>1, GoOnRenews DEF c
<1> QED BY <1>5, <1>6, <1>7, <1>8, <1>9

-----------------------------------------------------------------------------
(* The provider is asked.                                                  *)

(* A login that succeeds is new: nothing held is of it.                    *)
LEMMA NewGrantsUnheld ==
  ASSUME CredInv, NEW home \in [Grant -> ProviderAccount], RenewWith(home), NEW n \in NewGrants
  PROVE  /\ n \in Grant /\ latest[n] = 0
         /\ \A a \in ProviderAccount : file[a].renewal # n
         /\ \A s \in Thread : request[s].copy.renewal # n
<1>1. n \in Grant /\ latest[n] = 0 /\ n # 0
  BY CredentialsAssumption DEF NewGrants, Grant
<1>2. \A a \in ProviderAccount : file[a].renewal # n
  BY <1>1 DEF RenewWith, FileRenews
<1>3. \A s \in Thread : request[s].copy.renewal # n
  BY <1>1 DEF RenewWith, RequestRenews
<1> QED BY <1>1, <1>2, <1>3

LEMMA NewGrantExtends ==
  ASSUME CredInv, NEW home, NEW n \in NewGrants,
         NEW x \in {1, Bare}, latest' = [latest EXCEPT ![n] = x]
  PROVE  Extends(home, home)
BY DEF NewGrants, Extends, CredInv, CredTypeOK

(* The answer goes on with a session just granted.                         *)
LEMMA GrantRenews ==
  ASSUME CredInv, NEW home \in [Grant -> ProviderAccount], RenewWith(home),
         NEW t \in Thread, NEW at \in {"load", "store"}, NEW n \in NewGrants, NEW p,
         latest' = [latest EXCEPT ![n] = 1],
         Proceed(t, at, SessionOf(p, n), n), request[t].op \in {"poll", "complete"},
         UNCHANGED <<kept, platform, file, told, harmed>>
  PROVE  \E next \in [Grant -> ProviderAccount] : RenewWith(next)'
<1>0. PICK r : r = [request[t] EXCEPT !.at = at, !.copy = SessionOf(p, n), !.tells = n]
  OBVIOUS
<1>1. PICK a \in ProviderAccount : a = request[t].account
  BY RequestsAre
<1>2. n \in Grant
  BY NewGrantsTyped
<1>3. SessionOf(p, n) \in File /\ n \in 0..MaxGrants /\ n # Same
  BY <1>2, SessionsAre
<1>4. /\ r \in CredRequest /\ r.op = request[t].op /\ r.copy = SessionOf(p, n) /\ r.at = at
      /\ r.tells = n /\ r.account = a
  BY <1>0, <1>1, <1>3, RequestsAre DEF CredRequest
<1>5. Advance(t, r)
  BY <1>0, RequestsAre DEF Proceed, Advance, CredInv, CredTypeOK
<1>a. PICK next : next = [home EXCEPT ![n] = a]
  OBVIOUS
<1>6. /\ next \in [Grant -> ProviderAccount] /\ Extends(home, next)
      /\ next[n] = a /\ latest'[n] = 1
  BY <1>a DEF NewGrants, Extends, CredInv, CredTypeOK
<1>7. /\ r.copy.renewal # 0 => r.copy.renewal = n /\ r.copy.serial = 1
      /\ ~Mixed(r.copy)
  BY <1>4 DEF SessionOf, Empty, Mixed
<1>8. RequestRenews(r, next)'
  BY <1>3, <1>4, <1>6, <1>7 DEF RequestRenews, Revises, Brings, Carries
<1>9. /\ \A b \in ProviderAccount : file[b].renewal # n
      /\ \A s \in Thread : request[s].copy.renewal # n
  BY NewGrantsUnheld
<1>10. RenewWith(next)'
  BY <1>4, <1>5, <1>6, <1>7, <1>8, <1>9, AdvanceRenews DEF Brings
<1> QED BY <1>6, <1>10

(* The answer goes on with what was loaded, as the login brought no        *)
(* refresh token.                                                          *)
LEMMA BareRenews ==
  ASSUME CredInv, NEW home \in [Grant -> ProviderAccount], RenewWith(home),
         NEW t \in Thread, NEW n \in NewGrants, NEW c, c = request[t].copy,
         latest' = [latest EXCEPT ![n] = Bare],
         Proceed(t, "store", BareSession(c, n), n), request[t].op = "poll", Revises(request[t]),
         UNCHANGED <<kept, platform, file, told, harmed>>
  PROVE  RenewWith(home)'
<1>1. PICK d : d = BareSession(c, n)
  OBVIOUS
<1>2. n \in Grant /\ latest[n] = 0 /\ n \in 0..MaxGrants /\ n # Same /\ 0 \in 0..MaxFlows
  BY CredentialsAssumption DEF NewGrants, Grant, Same
<1>3. /\ c \in File /\ d \in File /\ d.access = n
      /\ d.renewal = c.renewal /\ d.serial = c.serial
  BY <1>1, <1>2, RequestsAre DEF BareSession, File
<1>4. PICK r : r = [request[t] EXCEPT !.at = "store", !.copy = d, !.tells = n]
  OBVIOUS
<1>5. /\ r \in CredRequest /\ r.op = "poll" /\ r.copy = d /\ r.at = "store"
      /\ r.tells = n /\ r.account = request[t].account
      /\ r.overtaken = request[t].overtaken
  BY <1>2, <1>3, <1>4, RequestsAre DEF CredRequest
<1>6. Advance(t, r)
  BY <1>1, <1>4, RequestsAre DEF Proceed, Advance, CredInv, CredTypeOK
<1>7. Extends(home, home)
  BY NewGrantExtends
<1>8. RequestRenews(request[t], home) /\ \A s \in Thread : FreshSession(s)
  BY DEF RenewWith
<1>9. ~Brings(r)
  BY <1>2, <1>3, <1>5, <1>8 DEF Brings, Mixed, RequestRenews
<1>10. d.renewal # 0 => d.renewal \in Grant /\ latest'[d.renewal] = latest[d.renewal]
  BY <1>3, <1>7, <1>8, HeldGrants DEF Extends, RequestRenews
<1>11. Carries(r) => Carries(request[t])
  BY DEF Carries
<1>12. RequestRenews(r, home)'
  BY <1>3, <1>5, <1>6, <1>8, <1>9, <1>10, <1>11
     DEF RequestRenews, Brings, Carries, Revises, Advance
<1>13. ASSUME d.renewal # 0, NEW s \in Thread \ {t}, Brings(request[s])
       PROVE  request[s].copy.renewal # d.renewal
  BY <1>3, <1>8, <1>13 DEF FreshSession
<1> QED BY <1>5, <1>6, <1>7, <1>9, <1>12, <1>13, AdvanceRenews

(* The request keeps its copy, but for the flow, and the tokens it has.    *)
LEMMA SameCopyRenews ==
  ASSUME CredInv, NEW home \in [Grant -> ProviderAccount], RenewWith(home),
         NEW t \in Thread, NEW r \in CredRequest, Advance(t, r), UNCHANGED <<latest, harmed>>,
         r.op = request[t].op, r.op # "sync", r.account = request[t].account,
         r.overtaken = request[t].overtaken, r.tells = Same,
         Carries(r) => Revises(request[t]),
         r.copy.renewal = request[t].copy.renewal, r.copy.serial = request[t].copy.serial
  PROVE  RenewWith(home)'
<1>1. RequestRenews(request[t], home) /\ \A s \in Thread : FreshSession(s)
  BY DEF RenewWith
<1>2. RequestRenews(r, home)
  BY <1>1 DEF RequestRenews, Brings, Carries
<1>3. file' = file
  BY DEF Advance
<1>4. RequestRenews(r, home)'
  BY <1>2, <1>3 DEF RequestRenews, Revises, Brings, Carries
<1>5. ASSUME r.copy.renewal # 0, NEW s \in Thread \ {t}, Brings(request[s])
      PROVE  request[s].copy.renewal # r.copy.renewal
  BY <1>1, <1>5 DEF FreshSession
<1>6. Extends(home, home)
  BY StillHome
<1> QED BY <1>4, <1>5, <1>6, AdvanceRenews DEF Brings

LEMMA AsksRenew ==
  ASSUME CredInv, NEW home \in [Grant -> ProviderAccount], RenewWith(home), NEW t \in Thread,
         AskInVain(t) \/ AskForCode(t) \/ AskWhetherConfirmed(t)
  PROVE  \E next \in [Grant -> ProviderAccount] : RenewWith(next)'
<1>1. request[t].at = "ask" /\ request[t].tells = Same
  BY RequestsAre DEF AskInVain, AskForCode, AskWhetherConfirmed, RequestFits, RequestPlaced
<1>2. CASE AskInVain(t)
  BY <1>1, <1>2, StillHome, DoneRenews DEF AskInVain
<1>3. CASE AskForCode(t)
  <2>1. PICK f \in NewFlows : request' = [request EXCEPT ![t].at = "load", ![t].flow = f]
    BY <1>3 DEF AskForCode
  <2>2. f \in 0..MaxFlows
    BY CredentialsAssumption DEF NewFlows, Flow
  <2>3. PICK r : r = [request[t] EXCEPT !.at = "load", !.flow = f]
    OBVIOUS
  <2>4. /\ r \in CredRequest /\ r.op = "start" /\ request[t].op = "start" /\ r.at = "load"
        /\ r.account = request[t].account /\ r.overtaken = request[t].overtaken
        /\ r.tells = Same /\ r.copy = request[t].copy
    BY <1>1, <1>3, <2>2, <2>3, RequestsAre DEF AskForCode, CredRequest
  <2>5. Advance(t, r) /\ UNCHANGED <<latest, harmed>>
    BY <1>3, <2>1, <2>3, RequestsAre DEF AskForCode, Advance, CredInv, CredTypeOK
  <2>6. ~Carries(r)
    BY <2>4 DEF Revises, Carries
  <2>7. RenewWith(home)'
    BY <2>4, <2>5, <2>6, SameCopyRenews
  <2> QED BY <2>7
<1>4. CASE AskWhetherConfirmed(t)
  <2>1. /\ request[t].op = "poll" /\ Revises(request[t])
        /\ UNCHANGED <<kept, platform, file, told, harmed>>
    BY <1>1, <1>4 DEF AskWhetherConfirmed, Revises
  <2>2. ASSUME NEW c \in File, Proceed(t, "store", c, Same), UNCHANGED latest,
               c.renewal = request[t].copy.renewal, c.serial = request[t].copy.serial
        PROVE  RenewWith(home)'
    <3>1. PICK r : r = [request[t] EXCEPT !.at = "store", !.copy = c, !.tells = Same]
      OBVIOUS
    <3>2. /\ r \in CredRequest /\ r.op = "poll" /\ r.at = "store"
          /\ r.account = request[t].account /\ r.overtaken = request[t].overtaken
          /\ r.tells = Same /\ r.copy = c
      BY <2>1, <2>2, <3>1, RequestsAre DEF CredRequest
    <3>3. Advance(t, r)
      BY <2>1, <2>2, <3>1, RequestsAre DEF Proceed, Advance, CredInv, CredTypeOK
    <3> QED BY <2>1, <2>2, <3>2, <3>3, SameCopyRenews
  <2>3. PICK c \in File : c = request[t].copy
    BY RequestsAre
  <2>4. /\ WithoutFlow(c) \in File /\ WithoutFlow(c).renewal = c.renewal
        /\ WithoutFlow(c).serial = c.serial
    BY CredentialsAssumption DEF WithoutFlow, File
  <2>5. ASSUME UNCHANGED latest, Done(t) \/ Proceed(t, "store", c, Same)
                 \/ Proceed(t, "store", WithoutFlow(c), Same)
        PROVE  RenewWith(home)'
    <3>1. Extends(home, home)
      BY <2>5, StillHome
    <3>2. CASE Done(t)
      BY <1>1, <2>1, <3>1, <3>2, DoneRenews
    <3> QED BY <2>2, <2>3, <2>4, <2>5, <3>2
  <2>6. ASSUME NEW n \in NewGrants, latest' = [latest EXCEPT ![n] = 1],
               Done(t) \/ Proceed(t, "store", SessionOf("xbox", n), n)
        PROVE  \E next \in [Grant -> ProviderAccount] : RenewWith(next)'
    <3>1. Extends(home, home)
      BY <2>6, NewGrantExtends
    <3>2. CASE Done(t)
      <4>1. RenewWith(home)'
        BY <1>1, <2>1, <3>1, <3>2, DoneRenews
      <4> QED BY <4>1
    <3>3. CASE Proceed(t, "store", SessionOf("xbox", n), n)
      BY <2>1, <2>6, <3>3, GrantRenews
    <3> QED BY <2>6, <3>2, <3>3
  <2>7. ASSUME NEW n \in NewGrants, latest' = [latest EXCEPT ![n] = Bare],
               Proceed(t, "store", BareSession(c, n), n)
        PROVE  \E next \in [Grant -> ProviderAccount] : RenewWith(next)'
    <3>1. RenewWith(home)'
      BY <2>1, <2>3, <2>7, BareRenews
    <3> QED BY <3>1
  <2> QED BY <1>4, <2>3, <2>5, <2>6, <2>7 DEF AskWhetherConfirmed
<1> QED BY <1>2, <1>3, <1>4

LEMMA CompletionsRenew ==
  ASSUME CredInv, NEW home \in [Grant -> ProviderAccount], RenewWith(home), NEW t \in Thread,
         \/ CompleteGog(t) \/ CompleteBrowserSession(t)
         \/ CompleteAmazon(t) \/ CompleteUbisoft(t) \/ PasteXbox(t)
  PROVE  \E next \in [Grant -> ProviderAccount] : RenewWith(next)'
<1>1. /\ request[t].at = "ask" /\ request[t].op = "complete"
      /\ UNCHANGED <<kept, platform, file, told>> /\ harmed \subseteq harmed'
  BY DEF CompleteGog, CompleteBrowserSession, CompleteAmazon, CompleteUbisoft, PasteXbox, Completing
<1>2. ASSUME NEW at \in {"load", "store"}, Granted(t, at), UNCHANGED harmed
      PROVE  \E next \in [Grant -> ProviderAccount] : RenewWith(next)'
  <2>1. PICK n \in NewGrants :
          /\ latest' = [latest EXCEPT ![n] = 1]
          /\ Proceed(t, at, SessionOf(platform[request[t].account], n), n)
    BY <1>2 DEF Granted
  <2>2. PICK p : p = platform[request[t].account]
    OBVIOUS
  <2> QED BY <1>1, <1>2, <2>1, <2>2, GrantRenews
<1>3. ASSUME NEW c \in File, c.renewal = 0, UNCHANGED latest, Proceed(t, "store", c, 0)
      PROVE  \E next \in [Grant -> ProviderAccount] : RenewWith(next)'
  <2>1. PICK r : r = [request[t] EXCEPT !.at = "store", !.copy = c, !.tells = 0]
    OBVIOUS
  <2>2. 0 \in 0..MaxGrants
    BY CredentialsAssumption
  <2>3. /\ r \in CredRequest /\ r.op = "complete" /\ r.at = "store" /\ r.copy = c /\ r.tells = 0
    BY <1>1, <2>1, <2>2, RequestsAre DEF CredRequest
  <2>4. Advance(t, r)
    BY <1>1, <1>3, <2>1, RequestsAre DEF Proceed, Advance, CredInv, CredTypeOK
  <2>5. ~Revises(r)
    BY <2>3 DEF Revises, Same
  <2>6. Extends(home, home)
    BY <1>3, StillHome
  <2>7. RenewWith(home)'
    BY <1>1, <1>3, <2>3, <2>4, <2>5, <2>6, EmptyHanded
  <2> QED BY <2>7
<1>4. ASSUME NEW f \in NewFlows
      PROVE  [Empty EXCEPT !.flow = f] \in File /\ [Empty EXCEPT !.flow = f].renewal = 0
  <2>1. f \in 0..MaxFlows
    BY CredentialsAssumption DEF NewFlows, Flow
  <2> QED BY <2>1, EmptyIsAFile DEF Empty, File
<1>5. CASE CompleteGog(t) \/ CompleteBrowserSession(t) \/ CompleteAmazon(t)
  BY <1>2, <1>5 DEF CompleteGog, CompleteBrowserSession, CompleteAmazon, Completing
<1>6. CASE CompleteUbisoft(t)
  BY <1>2, <1>3, <1>4, <1>6 DEF CompleteUbisoft, Completing
<1>7. CASE PasteXbox(t)
  BY <1>2, <1>3, <1>7, EmptyIsAFile, EmptyHoldsNone DEF PasteXbox
<1> QED BY <1>5, <1>6, <1>7

(* The renewal: one sync, whose login no other account's file has, so that *)
(* only its own account's file is left behind, and the sync will write it. *)
LEMMA RenewRenews ==
  ASSUME CredInv, NEW home \in [Grant -> ProviderAccount], RenewWith(home),
         NEW t \in Thread, NEW p, NEW mayKeep \in BOOLEAN, Renew(t, p, mayKeep)
  PROVE  RenewWith(home)'
<1>1. PICK c, n, a, last :
        /\ c = request[t].copy /\ n = c.renewal /\ a = request[t].account /\ last = latest[n]
  OBVIOUS
<1>2. /\ request[t].op = "sync" /\ request[t].at = "ask" /\ request[t].tells = Same
      /\ c \in File /\ n # 0 /\ a \in ProviderAccount
      /\ UNCHANGED <<kept, platform, file, flows, told>>
  BY <1>1, RequestsAre DEF Renew, RequestFits
<1>3. n \in Grant /\ last \in 0..MaxSerial /\ latest \in [Grant -> {Bare} \cup 0..MaxSerial]
  <2>1. c.serial = last
    BY <1>1 DEF Renew
  <2> QED BY <1>1, <1>2, <2>1, RequestsAre, HeldGrants DEF File
<1>4. PICK next \in {last + 1} \cup (IF mayKeep THEN {last} ELSE {}) :
        /\ next <= MaxSerial
        /\ latest' = [latest EXCEPT ![n] = next]
        /\ \/ /\ Proceed(t, "store", Renewed(c, next), Same)
              /\ harmed' = IF Mixed(c) THEN harmed \cup {a} ELSE harmed
           \/ /\ Done(t)
              /\ harmed' = IF next = last THEN harmed ELSE harmed \cup {a}
  BY <1>1 DEF Renew
<1>5. home[n] = a /\ last # 0
  BY <1>1, <1>2 DEF RenewWith, RequestRenews
<1>6. next \in 0..MaxSerial /\ next # 0
  BY <1>3, <1>4, <1>5, CredentialsAssumption
<1>7. \A m \in Grant : latest'[m] = IF m = n THEN next ELSE latest[m]
  BY <1>3, <1>4
<1>8. PICK r :
        /\ request' = [request EXCEPT ![t] = r]
        /\ r.tells = Same
        /\ \/ /\ r.op = "sync" /\ r.at = "store" /\ r.account = a
              /\ r.copy.renewal = n /\ r.copy.serial = next /\ ~Mixed(r.copy)
           \/ /\ r.op = "idle" /\ r.at = "" /\ r.copy.renewal = 0
              /\ next = last \/ a \in harmed'
  <2>1. CASE Proceed(t, "store", Renewed(c, next), Same)
    <3>1. PICK r : r = [request[t] EXCEPT !.at = "store", !.copy = Renewed(c, next), !.tells = Same]
      OBVIOUS
    <3>2. /\ Renewed(c, next).renewal = n /\ Renewed(c, next).serial = next
          /\ ~Mixed(Renewed(c, next))
      BY <1>1, <1>2 DEF Renewed, File, Mixed
    <3>3. /\ r.tells = Same /\ r.op = "sync" /\ r.at = "store" /\ r.account = a
          /\ r.copy = Renewed(c, next)
      BY <1>1, <1>2, <3>1, RequestsAre DEF CredRequest
    <3>4. request' = [request EXCEPT ![t] = r]
      BY <2>1, <3>1, RequestsAre DEF Proceed, CredInv, CredTypeOK
    <3> QED BY <3>2, <3>3, <3>4
  <2>2. CASE /\ Done(t)
             /\ harmed' = IF next = last THEN harmed ELSE harmed \cup {a}
    <3>1. PICK r : r = [request[t] EXCEPT !.op = "idle", !.at = "", !.copy = Empty,
                                          !.flow = 0, !.tells = Same, !.overtaken = FALSE]
      OBVIOUS
    <3>2. r.tells = Same /\ r.op = "idle" /\ r.at = "" /\ r.copy = Empty
      BY <3>1, RequestsAre DEF CredRequest
    <3>3. request' = [request EXCEPT ![t] = r]
      BY <2>2, <3>1, RequestsAre DEF Done, CredInv, CredTypeOK
    <3>4. next = last \/ a \in harmed'
      BY <2>2
    <3>5. r.copy.renewal = 0
      BY <3>2, EmptyHoldsNone
    <3> QED BY <3>2, <3>3, <3>4, <3>5
  <2> QED BY <1>4, <2>1, <2>2
<1>9. harmed \subseteq harmed'
  BY <1>4
<1>10. \A s \in Thread : request'[s] = IF s = t THEN r ELSE request[s]
  BY <1>8 DEF CredInv, CredTypeOK
<1>11. \A s \in Thread \ {t} :
         /\ request[s].op # "sync"
         /\ Brings(request[s]) => request[s].copy.renewal # n
  BY <1>1, <1>2 DEF RenewWith, OneSync, FreshSession
<1>12. ASSUME NEW s \in Thread PROVE RequestRenews(request[s], home)'
  <2>1. CASE s = t
    <3>1. request'[s] = r
      BY <1>10, <2>1
    <3>2. n # 0 /\ home[n] = a /\ latest'[n] = next /\ next # 0
      BY <1>2, <1>3, <1>5, <1>6, <1>7
    <3>3. (r.op = "idle" => ~Carries(r)) /\ ~Brings(r)
      BY <1>8 DEF Revises, Carries, Brings
    <3>4. RequestRenews(r, home)'
      BY <1>8, <3>2, <3>3 DEF RequestRenews, Revises, Carries, Brings
    <3> QED BY <3>1, <3>4 DEF RequestRenews, Revises, Carries, Brings
  <2>2. CASE s # t
    <3>1. PICK q, m : q = request[s] /\ m = q.copy.renewal
      OBVIOUS
    <3>2. /\ q.op # "sync" /\ RequestRenews(q, home)
          /\ m # 0 => m \in Grant
          /\ Brings(q) => m # n
      BY <1>11, <2>2, <3>1, HeldGrants DEF RenewWith
    <3>3. m # 0 => home[m] = q.account /\ latest'[m] # 0
      BY <1>6, <1>7, <3>1, <3>2 DEF RequestRenews
    <3>4. Brings(q) => q.copy.serial = latest'[m]
      BY <1>7, <3>1, <3>2 DEF RequestRenews, Brings
    <3>5. Carries(q) /\ ~q.overtaken => /\ m = file'[q.account].renewal
                                        /\ q.copy.serial = file'[q.account].serial
      BY <1>2, <3>1, <3>2 DEF RequestRenews
    <3>6. RequestRenews(q, home)'
      BY <3>1, <3>2, <3>3, <3>4, <3>5 DEF RequestRenews, Revises, Carries, Brings
    <3>7. request'[s] = q
      BY <1>10, <2>2, <3>1
    <3> QED BY <3>6, <3>7 DEF RequestRenews, Revises, Carries, Brings
  <2> QED BY <2>1, <2>2
<1>13. ASSUME NEW s \in Thread PROVE FreshSession(s)'
  <2>1. FreshSession(s)
    BY DEF RenewWith
  <2>2. CASE s = t
    BY <1>8, <1>10, <2>2 DEF FreshSession, Brings
  <2>3. CASE s # t
    <3>1. request'[s] = request[s] /\ file' = file
      BY <1>2, <1>10, <2>3
    <3>3. \A x \in Thread \ {s} : x # t => request'[x] = request[x]
      BY <1>10
    <3>4. request'[t].copy.renewal \in {0, n}
      BY <1>8, <1>10
    <3> QED BY <1>11, <2>1, <2>3, <3>1, <3>3, <3>4 DEF FreshSession, Brings
  <2> QED BY <2>2, <2>3
<1>14. ASSUME NEW b \in ProviderAccount PROVE FileRenews(b, home)'
  <2>1. PICK m : m = file[b].renewal
    OBVIOUS
  <2>2. SUFFICES ASSUME m # 0
                 PROVE  /\ home[m] = b /\ latest'[m] # 0
                        /\ b \notin harmed' => file[b].serial = latest'[m] \/ Renewing(b)'
    BY <1>2, <2>1 DEF FileRenews
  <2>3. /\ home[m] = b /\ latest[m] # 0 /\ m \in Grant
        /\ b \notin harmed => file[b].serial = latest[m] \/ Renewing(b)
    BY <2>1, <2>2, HeldGrants DEF RenewWith, FileRenews
  <2>4. ~Renewing(b)
    BY <1>2, <1>11 DEF Renewing
  <2>5. CASE m # n
    BY <1>7, <1>9, <2>3, <2>4, <2>5
  <2>6. CASE m = n
    <3>1. b = a /\ latest'[m] = next
      BY <1>5, <1>7, <2>3, <2>6
    <3>2. CASE r.op = "sync"
      <4>1. Renewing(b)'
        BY <1>8, <1>10, <3>1, <3>2 DEF Renewing
      <4> QED BY <1>6, <2>3, <3>1, <4>1
    <3>3. CASE r.op # "sync"
      BY <1>1, <1>6, <1>8, <1>9, <2>3, <2>4, <2>6, <3>1, <3>3
    <3> QED BY <3>2, <3>3
  <2> QED BY <2>5, <2>6
<1>15. OneSync'
  BY <1>10, <1>11 DEF OneSync
<1> QED BY <1>12, <1>13, <1>14, <1>15 DEF RenewWith

-----------------------------------------------------------------------------
(* The file is replaced, the account deleted, the process restarted.       *)

(* Whoever writes to an account overtakes its other requests.              *)
LEMMA OvertakenRemain ==
  ASSUME CredInv, NEW t \in Thread, NEW a \in ProviderAccount, NEW s \in Thread \ {t}
  PROVE  /\ Remains(s, Overtake(t, a)[s])
         /\ request[s].account = a => Overtake(t, a)[s].overtaken \/ request[s].op = "idle"
<1>1. request[s].overtaken \in BOOLEAN
  BY RequestsAre DEF CredRequest
<1> QED BY <1>1, OvertakeIs DEF Remains

LEMMA StoreRenews ==
  ASSUME CredInv, NEW home \in [Grant -> ProviderAccount], RenewWith(home),
         NEW t \in Thread, Store(t)
  PROVE  RenewWith(home)'
<1>1. PICK a, c, tells : a = request[t].account /\ c = request[t].copy /\ tells = request[t].tells
  OBVIOUS
<1>2. /\ a \in ProviderAccount /\ c \in File /\ request[t] \in CredRequest
      /\ request[t].at = "store"
  BY <1>1, RequestsAre DEF Store
<1>3. /\ file' = [file EXCEPT ![a] = c] /\ UNCHANGED <<kept, platform, latest, flows>>
      /\ harmed' = IF request[t].overtaken /\ (tells = Same \/ Mixed(c) \/ a \notin kept)
                   THEN harmed \cup {a} ELSE harmed
      /\ request' = [Overtake(t, a) EXCEPT
           ![t].op = "idle", ![t].at = "", ![t].copy = Empty,
           ![t].flow = 0, ![t].tells = Same, ![t].overtaken = FALSE]
  BY <1>1 DEF Store, Outcome
<1>4. PICK o : o = Overtake(t, a)
  OBVIOUS
<1>5. /\ o = [s \in Thread |-> o[s]] /\ \A s \in Thread : o[s] \in CredRequest
      /\ \A s \in Thread \ {t} : /\ Remains(s, o[s])
                                 /\ request[s].account = a => o[s].overtaken \/ request[s].op = "idle"
  <2>1. o = [s \in Thread |-> o[s]]
    BY <1>4 DEF Overtake
  <2> QED BY <1>2, <1>4, <2>1, OvertakeIs, OvertakenRemain
<1>6. /\ request'[t].op = "idle" /\ request'[t].at = ""
      /\ request'[t].copy = Empty /\ request'[t].tells = Same
      /\ \A s \in Thread \ {t} : request'[s] = o[s]
  <2>1. PICK i : i = [o[t] EXCEPT !.op = "idle", !.at = "", !.copy = Empty,
                                  !.flow = 0, !.tells = Same, !.overtaken = FALSE]
    OBVIOUS
  <2>2. i.op = "idle" /\ i.at = "" /\ i.copy = Empty /\ i.tells = Same
    BY <1>5, <2>1 DEF CredRequest
  <2>3. request' = [o EXCEPT ![t] = i]
    BY <1>3, <1>4, <1>5, <2>1
  <2> QED BY <1>5, <2>2, <2>3
<1>7. Extends(home, home) /\ harmed \subseteq harmed'
  BY <1>3, StillHome
<1>8. \A b \in ProviderAccount : file'[b] = IF b = a THEN c ELSE file[b]
  BY <1>2, <1>3 DEF CredInv, CredTypeOK
<1>9. ASSUME NEW s \in Thread PROVE RequestRenews(request[s], home)'
  <2>1. CASE s = t
    <3>1. PICK q : q = request'[t]
      OBVIOUS
    <3>2. q.op = "idle" /\ q.at = "" /\ q.copy.renewal = 0 /\ q.tells = Same
      BY <1>6, <3>1, EmptyHoldsNone
    <3>3. RequestRenews(q, home)'
      BY <3>2 DEF RequestRenews, Revises, Carries
    <3> QED BY <2>1, <3>1, <3>3 DEF RequestRenews, Revises, Carries, Brings
  <2>2. CASE s # t
    <3>1. PICK q : q = o[s]
      OBVIOUS
    <3>2. Remains(s, q) /\ request'[s] = q
      BY <1>5, <1>6, <2>2, <3>1
    <3>3. RequestRenews(request[s], home)
      BY DEF RenewWith
    <3>4. \/ q.overtaken
          \/ file'[request[s].account] = file[request[s].account]
          \/ q.op = "idle"
      BY <1>5, <1>8, <2>2, <3>1, RequestsAre DEF Remains
    <3>5. RequestRenews(q, home)'
      BY <1>7, <3>2, <3>3, <3>4, OthersRenew
    <3> QED BY <3>2, <3>5 DEF RequestRenews, Revises
  <2> QED BY <2>1, <2>2
<1>10. ASSUME NEW s \in Thread PROVE FreshSession(s)'
  <2>1. CASE s = t
    BY <1>6, <2>1 DEF FreshSession, Brings
  <2>2. CASE s # t
    <3>1. request'[s].tells = request[s].tells /\ request'[s].copy = request[s].copy
      BY <1>5, <1>6, <2>2 DEF Remains
    <3>2. ASSUME NEW r \in Thread
          PROVE  request'[r].copy.renewal \in {0, request[r].copy.renewal}
      <4>1. CASE r = t
        BY <1>6, <4>1, EmptyHoldsNone
      <4>2. CASE r # t
        BY <1>5, <1>6, <4>2 DEF Remains
      <4> QED BY <4>1, <4>2
    <3>3. FreshSession(s)
      BY DEF RenewWith
    <3>4. \A b \in ProviderAccount : file'[b].renewal \in {file[b].renewal, c.renewal}
      BY <1>8
    <3> QED BY <1>1, <2>2, <3>1, <3>2, <3>3, <3>4 DEF FreshSession, Brings
  <2> QED BY <2>1, <2>2
<1>11. ASSUME NEW b \in ProviderAccount PROVE FileRenews(b, home)'
  <2>1. FileRenews(b, home)
    BY DEF RenewWith
  <2>2. CASE b # a
    <3>1. Renewing(b) => Renewing(b)'
      BY <1>1, <1>5, <1>6, <2>2 DEF Renewing, Remains
    <3> QED BY <1>7, <1>8, <2>1, <2>2, <3>1, FilesRenew
  <2>3. CASE b = a
    <3>1. RequestRenews(request[t], home)
      BY DEF RenewWith
    <3>2. c.renewal # 0 => home[c.renewal] = a /\ latest[c.renewal] # 0
      BY <1>1, <3>1 DEF RequestRenews
    <3>3. CASE (tells # Same /\ ~Mixed(c)) \/ request[t].op = "sync"
      <4>1. c.renewal # 0 => c.serial = latest[c.renewal]
        BY <1>1, <1>2, <3>1, <3>3 DEF RequestRenews, Brings
      <4> QED BY <1>3, <1>8, <2>3, <3>2, <4>1 DEF FileRenews
    <3>4. CASE (tells = Same \/ Mixed(c)) /\ request[t].op # "sync"
      <4>1. CASE request[t].overtaken
        BY <1>3, <1>8, <2>3, <3>2, <3>4, <4>1 DEF FileRenews
      <4>2. CASE ~request[t].overtaken
        <5>1. c.renewal = file[a].renewal /\ c.serial = file[a].serial
          BY <1>1, <1>2, <3>1, <3>4, <4>2 DEF RequestRenews, Revises, Carries
        <5>2. Renewing(b) => Renewing(b)'
          BY <1>1, <1>5, <1>6, <3>4 DEF Renewing, Remains
        <5> QED BY <1>3, <1>7, <1>8, <2>1, <2>3, <5>1, <5>2 DEF FileRenews
      <4> QED BY <4>1, <4>2
    <3> QED BY <3>3, <3>4
  <2> QED BY <2>2, <2>3
<1>12. OneSync'
  <2>1. \A s \in Thread : request'[s].op = "sync" => request[s].op = "sync"
    BY <1>5, <1>6 DEF Remains
  <2> QED BY <2>1 DEF OneSync, RenewWith
<1> QED BY <1>9, <1>10, <1>11, <1>12 DEF RenewWith

LEMMA DeletionRenews ==
  ASSUME CredInv, NEW home \in [Grant -> ProviderAccount], RenewWith(home),
         NEW t \in Thread, NEW a \in ProviderAccount, DeleteProviderAccount(t, a)
  PROVE  RenewWith(home)'
<1>1. PICK o : o = Overtake(t, a)
  OBVIOUS
<1>2. PICK r : r = [Beginning("delete", "store") EXCEPT !.account = a, !.tells = 0]
  OBVIOUS
<1>3. r.op = "delete" /\ r.at = "store" /\ r.copy = Empty /\ r.tells = 0
  BY <1>2 DEF Beginning
<1>4. /\ request[t].op = "idle" /\ UNCHANGED <<platform, file, latest, flows, told, harmed>>
      /\ request' = [o EXCEPT ![t] = r]
  BY <1>1, <1>2 DEF DeleteProviderAccount, Serving
<1>5. /\ request'[t] = r
      /\ \A s \in Thread \ {t} : request'[s] = o[s] /\ Remains(s, o[s])
  <2>1. o = [s \in Thread |-> o[s]]
    BY <1>1 DEF Overtake
  <2> QED BY <1>1, <1>4, <2>1, OvertakenRemain
<1>6. Extends(home, home) /\ harmed \subseteq harmed'
  BY <1>4, StillHome
<1>7. ASSUME NEW s \in Thread PROVE RequestRenews(request[s], home)'
  <2>1. CASE s = t
    <3>1. r.copy.renewal = 0 /\ ~Carries(r)
      BY <1>3 DEF Revises, Carries, Mixed, Same, Empty
    <3>2. RequestRenews(r, home)'
      BY <1>3, <3>1 DEF RequestRenews, Revises, Carries
    <3> QED BY <1>5, <2>1, <3>2 DEF RequestRenews, Revises, Carries, Brings
  <2>2. CASE s # t
    <3>1. PICK q : q = o[s]
      OBVIOUS
    <3>2. Remains(s, q) /\ request'[s] = q /\ file'[request[s].account] = file[request[s].account]
      BY <1>4, <1>5, <2>2, <3>1
    <3>3. RequestRenews(request[s], home)
      BY DEF RenewWith
    <3>4. RequestRenews(q, home)'
      BY <1>6, <3>2, <3>3, OthersRenew
    <3> QED BY <3>2, <3>4 DEF RequestRenews, Revises, Brings, Carries
  <2> QED BY <2>1, <2>2
<1>8. ASSUME NEW s \in Thread PROVE FreshSession(s)'
  <2>1. FreshSession(s)
    BY DEF RenewWith
  <2>2. \A x \in Thread : request'[x].copy.renewal \in {0, request[x].copy.renewal}
    BY <1>3, <1>5 DEF Remains, Empty
  <2>3. request'[t].copy.renewal = 0
    BY <1>3, <1>5 DEF Empty
  <2> QED BY <1>4, <1>5, <2>1, <2>2, <2>3 DEF FreshSession, Remains, Brings
<1>9. ASSUME NEW b \in ProviderAccount PROVE FileRenews(b, home)'
  <2>1. Renewing(b) => Renewing(b)'
    BY <1>4, <1>5 DEF Renewing, Remains
  <2>2. FileRenews(b, home) /\ file'[b] = file[b]
    BY <1>4 DEF RenewWith
  <2> QED BY <1>6, <2>1, <2>2, FilesRenew
<1>10. OneSync'
  BY <1>3, <1>5 DEF OneSync, RenewWith, Remains
<1> QED BY <1>7, <1>8, <1>9, <1>10 DEF RenewWith

LEMMA OwnerRenews ==
  ASSUME CredInv, NEW home \in [Grant -> ProviderAccount], RenewWith(home),
         NEW t \in Thread, NEW a \in ProviderAccount, DeleteOwner(t, a)
  PROVE  RenewWith(home)'
<1>1. /\ request[t].op = "idle" /\ UNCHANGED <<platform, file, latest, flows, told>>
      /\ request' = Overtake(t, a) /\ harmed' = harmed \cup {a}
  BY DEF DeleteOwner, Serving
<1>2. \A s \in Thread : Remains(s, request'[s])
  <2>1. request'[t] = request[t]
    BY <1>1 DEF Overtake
  <2>2. Remains(t, request'[t])
    BY <2>1 DEF Remains
  <2> QED BY <1>1, <2>2, OvertakenRemain
<1>3. Extends(home, home) /\ harmed \subseteq harmed'
  BY <1>1, StillHome
<1>4. ASSUME NEW s \in Thread PROVE RequestRenews(request[s], home)'
  <2>1. PICK q : q = request'[s]
    OBVIOUS
  <2>2. Remains(s, q) /\ RequestRenews(request[s], home)
    BY <1>2, <2>1 DEF RenewWith
  <2>3. RequestRenews(q, home)'
    BY <1>1, <1>3, <2>2, OthersRenew
  <2> QED BY <2>1, <2>3 DEF RequestRenews, Revises, Carries, Brings
<1>5. ASSUME NEW s \in Thread PROVE FreshSession(s)'
  <2>1. FreshSession(s)
    BY DEF RenewWith
  <2> QED BY <1>1, <1>2, <2>1 DEF FreshSession, Remains, Brings
<1>6. ASSUME NEW b \in ProviderAccount PROVE FileRenews(b, home)'
  <2>1. Renewing(b) => Renewing(b)'
    BY <1>2 DEF Renewing, Remains
  <2>2. FileRenews(b, home) /\ file'[b] = file[b]
    BY <1>1 DEF RenewWith
  <2> QED BY <1>3, <2>1, <2>2, FilesRenew
<1>7. OneSync'
  BY <1>2 DEF OneSync, RenewWith, Remains
<1> QED BY <1>4, <1>5, <1>6, <1>7 DEF RenewWith

LEMMA RestartRenews ==
  ASSUME CredInv, NEW home \in [Grant -> ProviderAccount], RenewWith(home), RestartServer
  PROVE  RenewWith(home)'
<1>1. \A t \in Thread : /\ request'[t].op = "idle" /\ request'[t].at = ""
                       /\ request'[t].copy = Empty /\ request'[t].tells = Same
  BY DEF RestartServer, Beginning
<1>2. /\ UNCHANGED <<file, latest>> /\ harmed \subseteq harmed'
      /\ \A t \in Thread : request[t].at = "store" /\ request[t].op = "sync"
                             => request[t].account \in harmed'
  BY DEF RestartServer
<1>3. Extends(home, home)
  BY <1>2, StillHome
<1>4. ASSUME NEW t \in Thread PROVE RequestRenews(request[t], home)' /\ FreshSession(t)'
  <2>1. PICK q : q = request'[t]
    OBVIOUS
  <2>2. q.op = "idle" /\ q.at = "" /\ q.copy.renewal = 0 /\ q.tells = Same
    BY <1>1, <2>1, EmptyHoldsNone
  <2>3. RequestRenews(q, home)'
    BY <2>2 DEF RequestRenews, Revises, Carries
  <2> QED BY <2>1, <2>2, <2>3 DEF RequestRenews, Revises, Carries, Brings, FreshSession
<1>5. ASSUME NEW a \in ProviderAccount PROVE FileRenews(a, home)'
  <2>1. Renewing(a) => a \in harmed'
    BY <1>2 DEF Renewing
  <2>2. FileRenews(a, home) /\ file'[a] = file[a]
    BY <1>2 DEF RenewWith
  <2> QED BY <1>2, <1>3, <2>1, <2>2, FilesRenew
<1>6. OneSync'
  BY <1>1 DEF OneSync
<1> QED BY <1>4, <1>5, <1>6 DEF RenewWith

LEMMA IdleRenews ==
  ASSUME NEW home, RenewWith(home), UNCHANGED <<file, latest, request, harmed>>
  PROVE  RenewWith(home)'
BY DEF RenewWith, RequestRenews, Revises, Carries, Brings, FreshSession, FileRenews, Renewing, OneSync

LEMMA RenewStep == RenewInv /\ [CredNext]_credVars => RenewInv'
<1> SUFFICES ASSUME RenewInv, [CredNext]_credVars PROVE RenewInv'
  OBVIOUS
<1>1. CredInv /\ CredInv'
  BY CredStep DEF RenewInv
<1>2. PICK home \in [Grant -> ProviderAccount] : RenewWith(home)
  BY DEF RenewInv
<1>3. SUFFICES \E next \in [Grant -> ProviderAccount] : RenewWith(next)'
  BY <1>1, RenewNext
<1>4. ASSUME NEW t \in Thread, NEW a \in ProviderAccount,
             \/ StartLogin(t, a) \/ StartAmazonLogin(t, a) \/ PollLogin(t, a)
             \/ CompleteLogin(t, a) \/ Logout(t, a) \/ Sync(t, a)
      PROVE  RenewWith(home)'
  BY <1>1, <1>2, <1>4, BeginningsRenew
<1>5. ASSUME NEW t \in Thread, NEW a \in ProviderAccount,
             DeleteProviderAccount(t, a) \/ DeleteOwner(t, a)
      PROVE  RenewWith(home)'
  BY <1>1, <1>2, <1>5, DeletionRenews, OwnerRenews
<1>6. ASSUME NEW t \in Thread,
             \/ LoadFlow(t) \/ LoadForCode(t) \/ LoadGog(t)
             \/ LoadVerifier(t) \/ LoadTicket(t) \/ LoadSession(t)
      PROVE  RenewWith(home)'
  BY <1>1, <1>2, <1>6, LoadsRenew
<1>7. ASSUME NEW t \in Thread, AskInVain(t) \/ AskForCode(t) \/ AskWhetherConfirmed(t)
      PROVE  \E next \in [Grant -> ProviderAccount] : RenewWith(next)'
  BY <1>1, <1>2, <1>7, AsksRenew
<1>8. ASSUME NEW t \in Thread,
             \/ CompleteGog(t) \/ CompleteBrowserSession(t)
             \/ CompleteAmazon(t) \/ CompleteUbisoft(t) \/ PasteXbox(t)
      PROVE  \E next \in [Grant -> ProviderAccount] : RenewWith(next)'
  BY <1>1, <1>2, <1>8, CompletionsRenew
<1>9. ASSUME NEW t \in Thread, RenewXbox(t) \/ RenewGog(t) \/ RenewAmazon(t)
      PROVE  RenewWith(home)'
  BY <1>1, <1>2, <1>9, RenewRenews DEF RenewXbox, RenewGog, RenewAmazon
<1>10. ASSUME NEW t \in Thread, Store(t) PROVE RenewWith(home)'
  BY <1>1, <1>2, <1>10, StoreRenews
<1>11. ASSUME NEW f \in Flow, ConfirmFlow(f) \/ ExpireFlow(f) PROVE RenewWith(home)'
  BY <1>2, <1>11, IdleRenews DEF ConfirmFlow, ExpireFlow
<1>12. CASE RestartServer
  BY <1>1, <1>2, <1>12, RestartRenews
<1>13. CASE UNCHANGED credVars
  BY <1>2, <1>13, IdleRenews DEF credVars
<1> QED BY <1>2, <1>4, <1>5, <1>6, <1>7, <1>8, <1>9, <1>10, <1>11, <1>12, <1>13 DEF CredNext

(* A stored refresh token is one the provider still takes, or is being     *)
(* replaced by the one sync that runs; and the token a sync is about to    *)
(* spend is the latest: SYNC_LOCK and the order of load, ask and store     *)
(* suffice for any number of threads, accounts and logins.                 *)
THEOREM SessionsCanBeRenewed == CredSpec => []RenewableSession
BY RenewInitially, RenewStep, RenewSays, PTL DEF CredSpec

=============================================================================
