-------------------------- MODULE SteamLoginProofs --------------------------
(***************************************************************************)
(* Proofs about SteamLogin: its type invariant; that a login is used at    *)
(* most once, as a refinement; and that accounts and tokens match.         *)
(***************************************************************************)
EXTENDS SteamLogin, FiniteSetTheorems, TLAPS

(* The requests that have asked the helper or hold a token serve a QR      *)
(* login; only a request past its commit surely has an account.            *)
RequestsFit ==
  \A h \in Handler :
    /\ handler[h].op \in {"asking", "save", "import"} => handler[h].login \in QrLogin
    /\ handler[h].op \in {"save", "drop", "import", "purge"} => handler[h].account \in AccountId

SteamTypes == SteamTypeOK /\ RequestsFit

LEMMA SteamInitTyped == SteamInit => SteamTypes
<1> SUFFICES ASSUME SteamInit PROVE SteamTypes
  OBVIOUS
<1>1. NoRequest \in Request /\ NoRequest.op = "idle"
  BY DEF NoRequest, Request, NoAccount
<1>2. RequestsFit /\ handler \in [Handler -> Request]
  BY <1>1 DEF SteamInit, RequestsFit
<1>3. NoRow \in Row
  BY DEF NoRow, Row
<1>4. lastAccount \in 0..MaxAccounts /\ crashes \in 0..MaxCrashes /\ taken \in [Login -> 0..2]
  BY SteamAssumption DEF SteamInit
<1>5. SteamTypeOK
  BY <1>2, <1>3, <1>4, Zenon DEF SteamInit, SteamTypeOK, Sessions
<1> QED BY <1>2, <1>5 DEF SteamTypes

LEMMA MoveTyped ==
  ASSUME SteamTypes, NEW l \in QrLogin, NEW from, NEW to \in Sessions, Move(l, from, to),
         confirmed' \in [Login -> SteamUser \cup {NoUser}]
  PROVE  SteamTypes'
BY DEF SteamTypes, SteamTypeOK, RequestsFit, Move, database, Login

LEMMA ServeTyped ==
  ASSUME SteamTypes, NEW h \in Handler, NEW r \in Request, Serve(h, r),
         r.op \in {"asking", "save", "import"} => r.login \in QrLogin,
         r.op \in {"save", "drop", "import", "purge"} => r.account \in AccountId
  PROVE  /\ handler' \in [Handler -> Request] /\ RequestsFit'
         /\ disturbed' \in BOOLEAN
<1>1. handler' \in [Handler -> Request] /\ RequestsFit'
  BY DEF SteamTypes, SteamTypeOK, RequestsFit, Serve
<1>2. disturbed' \in BOOLEAN
  BY DEF Serve
<1> QED BY <1>1, <1>2

LEMMA HandlerTyped ==
  ASSUME SteamTypes, NEW h \in Handler, NEW r \in Request, handler' = [handler EXCEPT ![h] = r],
         r.op \in {"asking", "save", "import"} => r.login \in QrLogin,
         r.op \in {"save", "drop", "import", "purge"} => r.account \in AccountId
  PROVE  handler' \in [Handler -> Request] /\ RequestsFit'
BY DEF SteamTypes, SteamTypeOK, RequestsFit

LEMMA FinishTyped ==
  ASSUME SteamTypes, NEW h \in Handler, Finish(h)
  PROVE  handler' \in [Handler -> Request] /\ RequestsFit'
BY DEF SteamTypes, SteamTypeOK, RequestsFit, Finish, NoRequest, Request, NoAccount

LEMMA SteamNextTyped == SteamTypes /\ [SteamNext]_steamVars => SteamTypes'
<1> SUFFICES ASSUME SteamTypes, [SteamNext]_steamVars PROVE SteamTypes'
  OBVIOUS
<1> USE SteamAssumption
<1>1. ASSUME NEW l \in QrLogin, NEW p \in Participant, StartQr(l, p) PROVE SteamTypes'
  BY <1>1 DEF SteamTypes, SteamTypeOK, RequestsFit, StartQr, database, Sessions, Login
<1>2. ASSUME NEW l \in QrLogin, NEW u \in SteamUser, Authenticate(l, u) PROVE SteamTypes'
  BY <1>2, MoveTyped DEF Authenticate, Sessions, SteamTypes, SteamTypeOK, Login
<1>3. ASSUME NEW l \in QrLogin,
             Scan(l) \/ CollectLibrary(l) \/ LoginFails(l) \/ ExpireSession(l)
      PROVE  SteamTypes'
  BY <1>3, MoveTyped DEF Scan, CollectLibrary, LoginFails, ExpireSession, Sessions,
     SteamTypes, SteamTypeOK
<1>4. ASSUME NEW l \in QrLogin, NEW h \in Handler, PollQr(h, l) PROVE SteamTypes'
  <2> DEFINE r == [NoRequest EXCEPT !.op = "asking", !.login = l, !.participant = pending[l]]
  <2>1. r \in Request /\ r.login = l /\ r.op = "asking"
    BY DEF NoRequest, Request, NoAccount, Login, SteamTypes, SteamTypeOK
  <2>2. Serve(h, r)
    BY <1>4 DEF PollQr
  <2>3. handler' \in [Handler -> Request] /\ RequestsFit' /\ disturbed' \in BOOLEAN
    BY <2>1, <2>2, ServeTyped
  <2> QED BY <1>4, <2>3 DEF PollQr, SteamTypes, SteamTypeOK, database
<1>5. CASE HelperRestart
  BY <1>5 DEF SteamTypes, SteamTypeOK, RequestsFit, HelperRestart, database, Sessions
<1>6. ASSUME NEW l \in OpenIdLogin, NEW p \in Participant, StartOpenId(l, p) PROVE SteamTypes'
  BY <1>6 DEF SteamTypes, SteamTypeOK, RequestsFit, StartOpenId, database
<1>7. ASSUME NEW l \in OpenIdLogin, NEW u \in SteamUser, ConfirmOpenId(l, u) PROVE SteamTypes'
  BY <1>7 DEF SteamTypes, SteamTypeOK, RequestsFit, ConfirmOpenId, database
<1>8. ASSUME NEW l \in OpenIdLogin, NEW h \in Handler, OpenIdCallback(h, l) PROVE SteamTypes'
  <2> DEFINE r == [NoRequest EXCEPT !.op = "read", !.login = l,
                     !.participant = pending[l], !.user = confirmed[l]]
  <2>1. r \in Request /\ r.op = "read"
    BY DEF NoRequest, Request, NoAccount, Login, SteamTypes, SteamTypeOK
  <2>2. CASE confirmed[l] # NoUser
    <3>1. Serve(h, r)
      BY <1>8, <2>2 DEF OpenIdCallback
    <3>2. handler' \in [Handler -> Request] /\ RequestsFit' /\ disturbed' \in BOOLEAN
      BY <2>1, <3>1, ServeTyped
    <3>3. taken' \in [Login -> 0..2]
      BY <1>8, <2>2 DEF OpenIdCallback, SteamTypes, SteamTypeOK, Again
    <3> QED BY <1>8, <3>2, <3>3 DEF OpenIdCallback, SteamTypes, SteamTypeOK, database
  <2>3. CASE confirmed[l] = NoUser
    BY <1>8, <2>3 DEF OpenIdCallback, SteamTypes, SteamTypeOK, RequestsFit, database
  <2> QED BY <2>2, <2>3
<1>9. ASSUME NEW l \in Login, ExpirePending(l) PROVE SteamTypes'
  BY <1>9 DEF SteamTypes, SteamTypeOK, RequestsFit, ExpirePending, database
<1>10. ASSUME NEW h \in Handler, NEW p \in Participant, NEW u \in SteamUser,
              ConnectProfile(h, p, u)
       PROVE  SteamTypes'
  <2> DEFINE r == [NoRequest EXCEPT !.op = "read", !.participant = p, !.user = u]
  <2>1. r \in Request /\ r.op = "read"
    BY DEF NoRequest, Request, NoAccount
  <2>2. Serve(h, r)
    BY <1>10 DEF ConnectProfile
  <2>3. handler' \in [Handler -> Request] /\ RequestsFit' /\ disturbed' \in BOOLEAN
    BY <2>1, <2>2, ServeTyped
  <2> QED BY <1>10, <2>3 DEF ConnectProfile, SteamTypes, SteamTypeOK, database
<1>11. ASSUME NEW h \in Handler, NEW a \in AccountId, DeleteAccount(h, a) PROVE SteamTypes'
  <2> DEFINE r == [NoRequest EXCEPT !.op = "purge", !.account = a]
  <2>1. r \in Request /\ r.op = "purge" /\ r.account = a
    BY DEF NoRequest, Request
  <2>2. Serve(h, r)
    BY <1>11 DEF DeleteAccount
  <2>3. handler' \in [Handler -> Request] /\ RequestsFit' /\ disturbed' \in BOOLEAN
    BY <2>1, <2>2, ServeTyped
  <2> QED BY <1>11, <2>3 DEF DeleteAccount, SteamTypes, SteamTypeOK, Row, NoRow
<1>12. ASSUME NEW h \in Handler, SteamStep(h) PROVE SteamTypes'
  <2>1. CASE AskHelper(h)
    <3> DEFINE l == handler[h].login
    <3>0. l \in QrLogin
      BY <2>1 DEF AskHelper, SteamTypes, RequestsFit
    <3>1. CASE session[l] = "complete"
      <4> DEFINE r == [handler[h] EXCEPT !.op = "read", !.user = confirmed[l]]
      <4>1. r \in Request /\ r.op = "read"
        BY <3>0 DEF SteamTypes, SteamTypeOK, Request, Login
      <4>2. handler' = [handler EXCEPT ![h] = r] /\ UNCHANGED pending
        BY <2>1, <3>1 DEF AskHelper, SteamTypes, SteamTypeOK
      <4>3. handler' \in [Handler -> Request] /\ RequestsFit'
        BY <4>1, <4>2, HandlerTyped
      <4>4. taken' \in [Login -> 0..2] /\ session' \in [QrLogin -> Sessions]
        BY <2>1, <3>1 DEF AskHelper, SteamTypes, SteamTypeOK, Again, Sessions
      <4> QED BY <2>1, <4>2, <4>3, <4>4 DEF AskHelper, SteamTypes, SteamTypeOK, database
    <3>2. CASE session[l] # "complete"
      BY <2>1, <3>0, <3>2, FinishTyped DEF AskHelper, SteamTypes, SteamTypeOK, database
    <3> QED BY <3>1, <3>2
  <2>2. CASE LoseAnswer(h)
    BY <2>2, FinishTyped DEF LoseAnswer, SteamTypes, SteamTypeOK, database, Sessions
  <2>3. CASE RefuseAnswer(h)
    BY <2>3, FinishTyped DEF RefuseAnswer, SteamTypes, SteamTypeOK, database
  <2>4. CASE ReadAccounts(h)
    <3>1. CASE Finish(h)
      BY <2>4, <3>1, FinishTyped DEF ReadAccounts, SteamTypes, SteamTypeOK, database
    <3>2. CASE ~Finish(h)
      BY <2>4, <3>2 DEF ReadAccounts, SteamTypes, SteamTypeOK, RequestsFit, database,
         Request, OfParticipant
    <3> QED BY <3>1, <3>2
  <2>5. CASE LinkAccount(h)
    <3> DEFINE r == handler[h]
    <3>0. r \in Request /\ r.op = "link"
      BY <2>5 DEF LinkAccount, SteamTypes, SteamTypeOK
    <3>1. CASE r.account # NoAccount /\ account[r.account] # NoRow /\ ~Finish(h)
      <4>1. r.account \in AccountId /\ r.user \in SteamUser \cup {NoUser}
        BY <3>0, <3>1 DEF Request
      <4>2. account' = [account EXCEPT ![r.account].user = r.user] /\ lastAccount' = lastAccount
            /\ \E op \in {"save", "drop"} : Goto(h, op) /\ (op = "save" => r.login \in QrLogin)
        BY <2>5, <3>1 DEF LinkAccount
      <4>3. account' \in [AccountId -> Row]
        BY <4>1, <4>2 DEF SteamTypes, SteamTypeOK, Row
      <4>4. handler' \in [Handler -> Request] /\ RequestsFit'
        BY <4>1, <4>2 DEF SteamTypes, SteamTypeOK, RequestsFit, Goto, Request
      <4> QED BY <2>5, <4>2, <4>3, <4>4 DEF LinkAccount, SteamTypes, SteamTypeOK
    <3>2. CASE r.account = NoAccount /\ ~Finish(h)
      <4>1. /\ lastAccount < MaxAccounts /\ lastAccount' = lastAccount + 1
            /\ r.participant \in people
            /\ account' = [account EXCEPT ![lastAccount + 1] =
                             [participant |-> r.participant, user |-> r.user]]
            /\ \E op \in {"save", "drop"} :
                 /\ op = "save" => r.login \in QrLogin
                 /\ handler' = [handler EXCEPT ![h].op = op, ![h].account = lastAccount + 1]
        BY <2>5, <3>2 DEF LinkAccount
      <4>2. lastAccount + 1 \in AccountId /\ lastAccount' \in 0..MaxAccounts
        BY <4>1 DEF SteamTypes, SteamTypeOK, AccountId
      <4>3. account' \in [AccountId -> Row]
        BY <3>0, <4>1 DEF SteamTypes, SteamTypeOK, Row, Request
      <4>4. handler' \in [Handler -> Request] /\ RequestsFit'
        <5>1. PICK op \in {"save", "drop"} :
                 /\ op = "save" => r.login \in QrLogin
                 /\ handler' = [handler EXCEPT ![h].op = op, ![h].account = lastAccount + 1]
          BY <4>1
        <5> DEFINE s == [handler[h] EXCEPT !.op = op, !.account = lastAccount + 1]
        <5>2. s \in Request /\ s.op = op /\ s.login = r.login /\ s.account \in AccountId
          BY <3>0, <4>2 DEF Request
        <5>3. handler' = [handler EXCEPT ![h] = s]
          BY <5>1
        <5> QED BY <5>1, <5>2, <5>3, HandlerTyped
      <4> QED BY <2>5, <4>2, <4>3, <4>4 DEF LinkAccount, SteamTypes, SteamTypeOK
    <3>3. CASE Finish(h)
      <4>1. handler' \in [Handler -> Request] /\ RequestsFit' /\ handler'[h] = NoRequest
        BY <3>3, FinishTyped DEF SteamTypes, SteamTypeOK, Finish
      <4>2. UNCHANGED <<account, lastAccount>>
        BY <2>5, <4>1 DEF LinkAccount, Goto, NoRequest, SteamTypes, SteamTypeOK, Request
      <4> QED BY <2>5, <4>1, <4>2 DEF LinkAccount, SteamTypes, SteamTypeOK
    <3> QED BY <2>5, <3>1, <3>2, <3>3 DEF LinkAccount
  <2>6. CASE SaveCredentials(h)
    <3> DEFINE r == [handler[h] EXCEPT !.op = "import"]
    <3>1. r \in Request /\ r.login \in QrLogin /\ r.account \in AccountId
      BY <2>6 DEF SaveCredentials, SteamTypes, SteamTypeOK, RequestsFit, Request
    <3>2. handler' = [handler EXCEPT ![h] = r]
      BY <2>6 DEF SaveCredentials, Goto
    <3>3. handler' \in [Handler -> Request] /\ RequestsFit'
      BY <3>1, <3>2, HandlerTyped
    <3>4. token' \in [AccountId -> SteamUser \cup {NoUser}]
      BY <2>6 DEF SaveCredentials, SteamTypes, SteamTypeOK, Request
    <3> QED BY <2>6, <3>3, <3>4 DEF SaveCredentials, SteamTypes, SteamTypeOK, database
  <2>7. CASE DropCredentials(h)
    BY <2>7, FinishTyped DEF DropCredentials, SteamTypes, SteamTypeOK, database
  <2>8. CASE Import(h)
    BY <2>8, FinishTyped DEF Import, SteamTypes, SteamTypeOK, database
  <2>9. CASE PurgeCredentials(h)
    BY <2>9, FinishTyped DEF PurgeCredentials, SteamTypes, SteamTypeOK, database
  <2> QED
    BY <1>12, <2>1, <2>2, <2>3, <2>4, <2>5, <2>6, <2>7, <2>8, <2>9 DEF SteamStep
<1>13. ASSUME NEW p \in Participant, DeleteParticipant(p) PROVE SteamTypes'
  BY <1>13 DEF SteamTypes, SteamTypeOK, RequestsFit, DeleteParticipant, Row, NoRow
<1>14. CASE BackendRestart
  <2>1. crashes' \in 0..MaxCrashes
    BY <1>14 DEF SteamTypes, SteamTypeOK, BackendRestart
  <2>2. handler' \in [Handler -> Request] /\ RequestsFit'
    BY <1>14 DEF BackendRestart, RequestsFit, NoRequest, Request, NoAccount
  <2>3. disturbed' \in BOOLEAN
    BY <1>14 DEF BackendRestart
  <2> QED BY <1>14, <2>1, <2>2, <2>3 DEF SteamTypes, SteamTypeOK, BackendRestart, database
<1>15. CASE UNCHANGED steamVars
  BY <1>15 DEF SteamTypes, SteamTypeOK, RequestsFit, steamVars
<1> QED
  BY <1>1, <1>2, <1>3, <1>4, <1>5, <1>6, <1>7, <1>8, <1>9, <1>10, <1>11, <1>12, <1>13, <1>14,
     <1>15 DEF SteamNext

(* Type correctness, and that each request has what its next step needs.   *)
THEOREM SteamTyped == SteamSpec => []SteamTypes
BY SteamInitTyped, SteamNextTyped, PTL DEF SteamSpec

-----------------------------------------------------------------------------
(* A login is one shot.                                                    *)

(* What the helper has forgotten it has handed out; what the browser was   *)
(* sent back with is no longer expected.                                   *)
LoginsFit ==
  /\ \A l \in QrLogin :
       /\ taken[l] # 0 => session[l] = "gone"
       /\ session[l] \in {"processing", "complete"} => confirmed[l] # NoUser
       /\ session[l] \in {"none", "pending", "scanned"} => confirmed[l] = NoUser
  /\ \A l \in OpenIdLogin : taken[l] # 0 => pending[l] = Nobody /\ confirmed[l] # NoUser
  /\ \A l \in Login : taken[l] # 2

LEMMA LoginsFitInitially == SteamInit => LoginsFit
BY DEF SteamInit, LoginsFit, Login

LEMMA NothingMoves ==
  ASSUME UNCHANGED <<session, pending, confirmed, taken>>, LoginsFit
  PROVE  LoginsFit' /\ [OneShot!LoginNext]_OneShot!loginVars
<1>1. LoginsFit'
  BY DEF LoginsFit
<1>2. \A l \in Login : LoginPhase(l)' = LoginPhase(l)
  BY DEF LoginPhase
<1>3. [l \in Login |-> LoginPhase(l)]' = [l \in Login |-> LoginPhase(l)]
  BY <1>2
<1> QED BY <1>1, <1>3 DEF OneShot!loginVars

(* A step that moves logins to nowhere but "lost" is a step of the         *)
(* abstract login.                                                         *)
LEMMA SomeAreLost ==
  ASSUME UNCHANGED confirmed,
         \A l \in Login : \/ LoginPhase(l)' = LoginPhase(l)
                          \/ /\ LoginPhase(l) \in {"open", "confirmed"}
                             /\ LoginPhase(l)' = "lost"
  PROVE  OneShot!LoginNext
<1> DEFINE L == {l \in Login : LoginPhase(l)' # LoginPhase(l)}
<1>1. OneShot!LoseLogins(L)
  <2>1. L \subseteq {l \in Login : [k \in Login |-> LoginPhase(k)][l] \in {"open", "confirmed"}}
    OBVIOUS
  <2>2. \A l \in Login :
          LoginPhase(l)' = IF l \in L THEN "lost" ELSE [k \in Login |-> LoginPhase(k)][l]
    OBVIOUS
  <2>3. [l \in Login |-> LoginPhase(l)]' =
          [l \in Login |-> IF l \in L THEN "lost" ELSE [k \in Login |-> LoginPhase(k)][l]]
    BY <2>2
  <2> QED BY <2>1, <2>3 DEF OneShot!LoseLogins
<1> QED BY <1>1 DEF OneShot!LoginNext

LEMMA LoginsMove ==
  SteamTypes /\ LoginsFit /\ [SteamNext]_steamVars
    => LoginsFit' /\ [OneShot!LoginNext]_OneShot!loginVars
<1> SUFFICES ASSUME SteamTypes, LoginsFit, [SteamNext]_steamVars
             PROVE  LoginsFit' /\ [OneShot!LoginNext]_OneShot!loginVars
  OBVIOUS
<1> USE SteamAssumption DEF SteamTypes, SteamTypeOK, Login
<1> DEFINE Lose == \A l \in Login : \/ LoginPhase(l)' = LoginPhase(l)
                                    \/ /\ LoginPhase(l) \in {"open", "confirmed"}
                                       /\ LoginPhase(l)' = "lost"
<1>1. ASSUME NEW l \in QrLogin, NEW p \in Participant, StartQr(l, p)
      PROVE  LoginsFit' /\ OneShot!LoginNext
  <2>1. LoginsFit'
    BY <1>1 DEF StartQr, MayStart, Started, LoginsFit
  <2>2. Lose
    BY <1>1 DEF StartQr, MayStart, Started, LoginsFit, LoginPhase
  <2> QED BY <1>1, <2>1, <2>2, SomeAreLost DEF StartQr
<1>2. ASSUME NEW l \in QrLogin, NEW u \in SteamUser, Authenticate(l, u)
      PROVE  LoginsFit' /\ OneShot!LoginNext
  <2>1. LoginsFit'
    BY <1>2 DEF Authenticate, Move, LoginsFit
  <2>2. LoginPhase(l) = "open" /\ LoginPhase(l)' = "confirmed"
    BY <1>2 DEF Authenticate, Move, LoginsFit, LoginPhase
  <2>3. \A k \in Login \ {l} : LoginPhase(k)' = LoginPhase(k)
    BY <1>2 DEF Authenticate, Move, LoginPhase
  <2>4. [k \in Login |-> LoginPhase(k)]' =
          [[k \in Login |-> LoginPhase(k)] EXCEPT ![l] = "confirmed"]
    BY <2>2, <2>3
  <2>5. OneShot!ConfirmLogin(l, u)
    BY <1>2, <2>2, <2>4 DEF OneShot!ConfirmLogin, Authenticate
  <2> QED BY <2>1, <2>5 DEF OneShot!LoginNext
<1>3. ASSUME NEW l \in QrLogin,
             Scan(l) \/ CollectLibrary(l) \/ LoginFails(l) \/ ExpireSession(l)
      PROVE  LoginsFit' /\ OneShot!LoginNext
  <2>1. LoginsFit'
    BY <1>3 DEF Scan, CollectLibrary, LoginFails, ExpireSession, Move, LoginsFit
  <2>2. Lose
    BY <1>3 DEF Scan, CollectLibrary, LoginFails, ExpireSession, Move, LoginsFit, LoginPhase,
       Sessions
  <2>3. UNCHANGED confirmed
    BY <1>3 DEF Scan, CollectLibrary, LoginFails, ExpireSession
  <2> QED BY <2>1, <2>2, <2>3, SomeAreLost
<1>4. CASE HelperRestart
  <2>1. LoginsFit'
    BY <1>4 DEF HelperRestart, LoginsFit
  <2>2. Lose
    BY <1>4 DEF HelperRestart, LoginsFit, LoginPhase, Sessions
  <2> QED BY <1>4, <2>1, <2>2, SomeAreLost DEF HelperRestart
<1>5. ASSUME NEW l \in OpenIdLogin, NEW p \in Participant, StartOpenId(l, p)
      PROVE  LoginsFit' /\ OneShot!LoginNext
  <2>1. LoginsFit'
    BY <1>5 DEF StartOpenId, MayStart, Started, LoginsFit
  <2>2. Lose
    BY <1>5 DEF StartOpenId, MayStart, Started, LoginsFit, LoginPhase
  <2> QED BY <1>5, <2>1, <2>2, SomeAreLost DEF StartOpenId
<1>6. ASSUME NEW l \in OpenIdLogin, NEW u \in SteamUser, ConfirmOpenId(l, u)
      PROVE  LoginsFit' /\ OneShot!LoginNext
  <2>1. LoginsFit'
    BY <1>6 DEF ConfirmOpenId, LoginsFit
  <2>2. LoginPhase(l) = "open" /\ LoginPhase(l)' = "confirmed"
    BY <1>6 DEF ConfirmOpenId, LoginsFit, LoginPhase
  <2>3. \A k \in Login \ {l} : LoginPhase(k)' = LoginPhase(k)
    BY <1>6 DEF ConfirmOpenId, LoginPhase
  <2>4. [k \in Login |-> LoginPhase(k)]' =
          [[k \in Login |-> LoginPhase(k)] EXCEPT ![l] = "confirmed"]
    BY <2>2, <2>3
  <2>5. OneShot!ConfirmLogin(l, u)
    BY <1>6, <2>2, <2>4 DEF OneShot!ConfirmLogin, ConfirmOpenId
  <2> QED BY <2>1, <2>5 DEF OneShot!LoginNext
<1>7. ASSUME NEW l \in OpenIdLogin, NEW h \in Handler, OpenIdCallback(h, l)
      PROVE  LoginsFit' /\ OneShot!LoginNext
  <2>1. LoginsFit'
    BY <1>7 DEF OpenIdCallback, LoginsFit, Again
  <2>2. CASE confirmed[l] = NoUser
    <3>1. Lose
      BY <1>7, <2>2 DEF OpenIdCallback, LoginPhase
    <3> QED BY <1>7, <2>1, <3>1, SomeAreLost DEF OpenIdCallback
  <2>3. CASE confirmed[l] # NoUser
    <3>1. LoginPhase(l) = "confirmed" /\ LoginPhase(l)' = "used"
      BY <1>7, <2>3 DEF OpenIdCallback, LoginsFit, LoginPhase, Again
    <3>2. \A k \in Login \ {l} : LoginPhase(k)' = LoginPhase(k)
      BY <1>7, <2>3 DEF OpenIdCallback, LoginPhase
    <3>3. [k \in Login |-> LoginPhase(k)]' =
            [[k \in Login |-> LoginPhase(k)] EXCEPT ![l] = "used"]
      BY <3>1, <3>2
    <3>4. OneShot!UseLogin(l)
      BY <1>7, <3>1, <3>3 DEF OneShot!UseLogin, OpenIdCallback
    <3> QED BY <2>1, <3>4 DEF OneShot!LoginNext
  <2> QED BY <2>2, <2>3
<1>8. ASSUME NEW l \in Login, ExpirePending(l) PROVE LoginsFit' /\ OneShot!LoginNext
  <2>1. LoginsFit'
    BY <1>8 DEF ExpirePending, LoginsFit
  <2>2. Lose
    BY <1>8 DEF ExpirePending, LoginsFit, LoginPhase
  <2> QED BY <1>8, <2>1, <2>2, SomeAreLost DEF ExpirePending
<1>9. ASSUME NEW h \in Handler, AskHelper(h) PROVE LoginsFit' /\ OneShot!LoginNext
  <2>0. PICK l \in QrLogin : l = handler[h].login
    BY <1>9 DEF AskHelper, RequestsFit
  <2>1. CASE session[l] = "complete"
    <3>0. /\ session' = [session EXCEPT ![l] = "gone"]
          /\ taken' = [taken EXCEPT ![l] = Again(@)]
          /\ UNCHANGED <<pending, confirmed>>
      BY <1>9, <2>0, <2>1 DEF AskHelper
    <3>1. LoginPhase(l) = "confirmed" /\ LoginPhase(l)' = "used" /\ taken[l] = 0
      BY <2>0, <2>1, <3>0 DEF LoginsFit, LoginPhase, Again
    <3>2. \A k \in Login \ {l} : LoginPhase(k)' = LoginPhase(k)
      BY <2>0, <3>0 DEF LoginPhase
    <3>3. [k \in Login |-> LoginPhase(k)]' =
            [[k \in Login |-> LoginPhase(k)] EXCEPT ![l] = "used"]
      BY <2>0, <3>1, <3>2
    <3>4. OneShot!UseLogin(l)
      BY <2>0, <3>0, <3>1, <3>3 DEF OneShot!UseLogin
    <3>5. LoginsFit'
      BY <2>0, <3>0, <3>1 DEF LoginsFit, Again
    <3> QED BY <2>0, <3>4, <3>5 DEF OneShot!LoginNext
  <2>2. CASE session[l] # "complete"
    <3>1. UNCHANGED <<session, taken, confirmed>> /\ \A k \in OpenIdLogin : pending'[k] = pending[k]
      BY <1>9, <2>0, <2>2 DEF AskHelper
    <3>2. LoginsFit'
      BY <3>1 DEF LoginsFit
    <3>3. Lose
      BY <3>1 DEF LoginPhase
    <3> QED BY <3>1, <3>2, <3>3, SomeAreLost
  <2> QED BY <2>1, <2>2
<1>10. ASSUME NEW h \in Handler, LoseAnswer(h) PROVE LoginsFit' /\ OneShot!LoginNext
  <2>0. handler[h].login \in QrLogin
    BY <1>10 DEF LoseAnswer, RequestsFit
  <2>1. LoginsFit'
    BY <1>10, <2>0 DEF LoseAnswer, LoginsFit
  <2>2. Lose
    BY <1>10, <2>0 DEF LoseAnswer, LoginsFit, LoginPhase
  <2> QED BY <1>10, <2>1, <2>2, SomeAreLost DEF LoseAnswer
<1>11. ASSUME NEW h \in Handler, Import(h) PROVE LoginsFit' /\ OneShot!LoginNext
  <2>0. handler[h].login \in QrLogin
    BY <1>11 DEF Import, RequestsFit
  <2>1. UNCHANGED <<session, taken, confirmed>> /\ \A k \in OpenIdLogin : pending'[k] = pending[k]
    BY <1>11, <2>0 DEF Import
  <2>2. LoginsFit'
    BY <2>1 DEF LoginsFit
  <2>3. Lose
    BY <2>1 DEF LoginPhase
  <2> QED BY <2>1, <2>2, <2>3, SomeAreLost
<1>12. CASE BackendRestart
  <2>1. LoginsFit'
    BY <1>12 DEF BackendRestart, LoginsFit
  <2>2. Lose
    BY <1>12 DEF BackendRestart, LoginsFit, LoginPhase
  <2> QED BY <1>12, <2>1, <2>2, SomeAreLost DEF BackendRestart
<1>13. CASE UNCHANGED <<session, pending, confirmed, taken>>
  BY <1>13, NothingMoves
<1>14. ASSUME NEW h \in Handler, NEW l \in QrLogin, PollQr(h, l)
       PROVE  UNCHANGED <<session, pending, confirmed, taken>>
  BY <1>14 DEF PollQr
<1>15. ASSUME NEW h \in Handler, SteamStep(h), ~AskHelper(h), ~LoseAnswer(h), ~Import(h)
       PROVE  UNCHANGED <<session, pending, confirmed, taken>>
  BY <1>15 DEF SteamStep, RefuseAnswer, ReadAccounts, LinkAccount, SaveCredentials,
     DropCredentials, PurgeCredentials
<1>16. ASSUME NEW h \in Handler,
              \/ \E p \in Participant, u \in SteamUser : ConnectProfile(h, p, u)
              \/ \E a \in AccountId : DeleteAccount(h, a)
       PROVE  UNCHANGED <<session, pending, confirmed, taken>>
  BY <1>16 DEF ConnectProfile, DeleteAccount
<1>17. ASSUME NEW p \in Participant, DeleteParticipant(p)
       PROVE  UNCHANGED <<session, pending, confirmed, taken>>
  BY <1>17 DEF DeleteParticipant
<1>18. CASE UNCHANGED steamVars
  BY <1>13, <1>18 DEF steamVars
<1> HIDE DEF SteamTypes, SteamTypeOK, Login
<1> QED
  BY <1>1, <1>2, <1>3, <1>4, <1>5, <1>6, <1>7, <1>8, <1>9, <1>10, <1>11, <1>12, <1>13, <1>14,
     <1>15, <1>16, <1>17, <1>18 DEF SteamNext

(* A login is confirmed by one user once, used at most once, and never     *)
(* comes back when it is lost: polls of many threads, the helper's expiry, *)
(* lost answers, callbacks and restarts of either process implement the    *)
(* abstract login.                                                         *)
THEOREM LoginsAreOneShot == SteamSpec => LoginIsOneShot
<1>1. SteamInit => OneShot!LoginInit
  BY DEF SteamInit, OneShot!LoginInit, LoginPhase, Login
<1>2. SteamInit /\ [][SteamNext]_steamVars => []SteamTypes
  BY SteamInitTyped, SteamNextTyped, PTL
<1> QED
  BY <1>1, <1>2, LoginsFitInitially, LoginsMove, PTL
  DEF SteamSpec, LoginIsOneShot, OneShot!LoginSpec

-----------------------------------------------------------------------------
(* Accounts and tokens.                                                    *)

(* One request at a time; what it has read still holds when it commits; a  *)
(* token that fits no account is one the request will replace or drop.     *)
OneAtATime == \A h, k \in Handler : Busy(h) /\ Busy(k) => h = k

ReadIsCurrent ==
  \A h \in Handler :
    /\ handler[h].op = "link" /\ handler[h].account = NoAccount =>
         \A a \in AccountId : account[a].participant # handler[h].participant
    /\ handler[h].op = "save" =>
         /\ account[handler[h].account] # NoRow
         /\ account[handler[h].account].user = handler[h].user

TokenFits(a) == account[a] # NoRow /\ account[a].user = token[a]

WillReplace(a) ==
  \E h \in Handler : handler[h].op \in {"save", "drop", "purge"} /\ handler[h].account = a

TokensFit == \A a \in AccountId : token[a] # NoUser => TokenFits(a) \/ WillReplace(a)

AccountsDiffer ==
  \A a \in AccountId :
    account[a] # NoRow =>
      /\ account[a].participant \in Participant
      /\ \A b \in AccountId : account[b].participant = account[a].participant => a = b

QuietInv ==
  ~disturbed => OneAtATime /\ ReadIsCurrent /\ TokensFit /\ AccountsDiffer

LEMMA QuietInitially == SteamInit => QuietInv
BY SteamAssumption DEF SteamInit, QuietInv, OneAtATime, ReadIsCurrent, TokensFit, AccountsDiffer,
   Busy, NoRequest, NoRow

LEMMA QuietUnlessTouched ==
  ASSUME QuietInv, UNCHANGED <<account, token, handler, disturbed>> PROVE QuietInv'
BY DEF QuietInv, OneAtATime, ReadIsCurrent, TokensFit, TokenFits, WillReplace, AccountsDiffer,
   Busy

(* A request that has just begun has nothing to be wrong about, unless it  *)
(* has changed an account.                                                 *)
LEMMA ServeIsQuiet ==
  ASSUME SteamTypes, QuietInv, NEW h \in Handler, NEW r \in Request, Serve(h, r), ~disturbed',
         r.op \in {"asking", "read", "purge"}
  PROVE  /\ OneAtATime' /\ ReadIsCurrent' /\ ~disturbed
         /\ \A k \in Handler : handler[k].op = "idle"
<1>1. handler' = [handler EXCEPT ![h] = r] /\ ~disturbed
      /\ \A k \in Handler : handler[k].op = "idle"
  BY DEF Serve, Busy
<1>2. \A k \in Handler \ {h} : handler'[k].op = "idle"
  BY <1>1 DEF SteamTypes, SteamTypeOK
<1>3. handler'[h] = r
  BY <1>1 DEF SteamTypes, SteamTypeOK
<1> QED BY <1>1, <1>2, <1>3 DEF OneAtATime, ReadIsCurrent, Busy

LEMMA QuietStep == SteamTypes /\ QuietInv /\ [SteamNext]_steamVars => QuietInv'
<1> SUFFICES ASSUME SteamTypes, QuietInv, [SteamNext]_steamVars, ~disturbed'
             PROVE  QuietInv'
  BY DEF QuietInv
<1> USE SteamAssumption
<1>1. ASSUME NEW h \in Handler,
             \/ \E l \in QrLogin : PollQr(h, l)
             \/ \E p \in Participant, u \in SteamUser : ConnectProfile(h, p, u)
             \/ \E l \in OpenIdLogin : OpenIdCallback(h, l)
      PROVE  QuietInv'
  <2>1. UNCHANGED <<account, token>>
    BY <1>1 DEF PollQr, ConnectProfile, OpenIdCallback, database
  <2>2. \/ UNCHANGED <<handler, disturbed>>
        \/ \E r \in Request : r.op \in {"asking", "read"} /\ Serve(h, r)
    <3>1. ASSUME NEW l \in QrLogin, PollQr(h, l) PROVE <2>2
      <4> DEFINE r == [NoRequest EXCEPT !.op = "asking", !.login = l, !.participant = pending[l]]
      <4>1. r \in Request /\ r.op = "asking"
        BY DEF NoRequest, Request, NoAccount, Login, SteamTypes, SteamTypeOK
      <4>2. Serve(h, r)
        BY <3>1 DEF PollQr
      <4> QED BY <4>1, <4>2
    <3>2. ASSUME NEW p \in Participant, NEW u \in SteamUser, ConnectProfile(h, p, u) PROVE <2>2
      <4> DEFINE r == [NoRequest EXCEPT !.op = "read", !.participant = p, !.user = u]
      <4>1. r \in Request /\ r.op = "read"
        BY DEF NoRequest, Request, NoAccount
      <4>2. Serve(h, r)
        BY <3>2 DEF ConnectProfile
      <4> QED BY <4>1, <4>2
    <3>3. ASSUME NEW l \in OpenIdLogin, OpenIdCallback(h, l), confirmed[l] # NoUser PROVE <2>2
      <4> DEFINE r == [NoRequest EXCEPT !.op = "read", !.login = l,
                         !.participant = pending[l], !.user = confirmed[l]]
      <4>1. r \in Request /\ r.op = "read"
        BY DEF NoRequest, Request, NoAccount, Login, SteamTypes, SteamTypeOK
      <4>2. Serve(h, r)
        BY <3>3 DEF OpenIdCallback
      <4> QED BY <4>1, <4>2
    <3>4. ASSUME NEW l \in OpenIdLogin, OpenIdCallback(h, l), confirmed[l] = NoUser PROVE <2>2
      BY <3>4 DEF OpenIdCallback
    <3> QED BY <1>1, <3>1, <3>2, <3>3, <3>4
  <2>3. CASE UNCHANGED <<handler, disturbed>>
    BY <2>1, <2>3, QuietUnlessTouched
  <2>4. ASSUME NEW r \in Request, r.op \in {"asking", "read"}, Serve(h, r) PROVE QuietInv'
    <3>1. /\ OneAtATime' /\ ReadIsCurrent' /\ ~disturbed
          /\ \A k \in Handler : handler[k].op = "idle"
      BY <2>4, ServeIsQuiet
    <3>2. TokensFit'
      BY <2>1, <3>1 DEF QuietInv, TokensFit, TokenFits, WillReplace
    <3>3. AccountsDiffer'
      BY <2>1, <3>1 DEF QuietInv, AccountsDiffer
    <3> QED BY <3>1, <3>2, <3>3 DEF QuietInv
  <2> QED BY <2>2, <2>3, <2>4
<1>2. ASSUME NEW h \in Handler, NEW a \in AccountId, DeleteAccount(h, a) PROVE QuietInv'
  <2> DEFINE r == [NoRequest EXCEPT !.op = "purge", !.account = a]
  <2>1. r \in Request /\ r.op = "purge" /\ r.account = a
    BY DEF NoRequest, Request
  <2>2. Serve(h, r)
    BY <1>2 DEF DeleteAccount
  <2>3. /\ OneAtATime' /\ ReadIsCurrent' /\ ~disturbed
        /\ \A k \in Handler : handler[k].op = "idle"
    BY <2>1, <2>2, ServeIsQuiet
  <2>4. account' = [account EXCEPT ![a] = NoRow] /\ token' = token
    BY <1>2 DEF DeleteAccount
  <2>5. WillReplace(a)'
    BY <2>1, <2>2 DEF Serve, WillReplace, SteamTypes, SteamTypeOK
  <2>6. TokensFit'
    BY <2>3, <2>4, <2>5 DEF QuietInv, TokensFit, TokenFits, WillReplace, SteamTypes, SteamTypeOK
  <2>7. AccountsDiffer'
    BY <2>3, <2>4 DEF QuietInv, AccountsDiffer, NoRow, SteamTypes, SteamTypeOK
  <2> QED BY <2>3, <2>6, <2>7 DEF QuietInv
<1>3. ASSUME NEW h \in Handler, SteamStep(h) PROVE QuietInv'
  <2>0. disturbed' = disturbed
    BY <1>3 DEF SteamStep, AskHelper, LoseAnswer, RefuseAnswer, ReadAccounts, LinkAccount,
       SaveCredentials, DropCredentials, Import, PurgeCredentials
  <2>1. OneAtATime /\ ReadIsCurrent /\ TokensFit /\ AccountsDiffer
    BY <2>0 DEF QuietInv
  <2>2. Busy(h) /\ \A k \in Handler \ {h} : handler[k].op = "idle"
    <3>1. Busy(h)
      BY <1>3 DEF SteamStep, AskHelper, LoseAnswer, RefuseAnswer, ReadAccounts, LinkAccount,
         SaveCredentials, DropCredentials, Import, PurgeCredentials, Busy
    <3> QED BY <2>1, <3>1 DEF OneAtATime, Busy
  <2>3. \A k \in Handler \ {h} : handler'[k].op = "idle"
    <3>1. \A k \in Handler \ {h} : handler'[k] = handler[k]
      BY <1>3 DEF SteamStep, AskHelper, LoseAnswer, RefuseAnswer, ReadAccounts, LinkAccount,
         SaveCredentials, DropCredentials, Import, PurgeCredentials, Finish, Goto,
         SteamTypes, SteamTypeOK
    <3> QED BY <2>2, <3>1
  <2>4. OneAtATime'
    BY <2>3 DEF OneAtATime, Busy
  <2>5. CASE /\ UNCHANGED <<account, token>>
             /\ handler[h].op \in {"asking", "read", "link", "import"}
             /\ handler'[h].op \in {"idle", "read"}
    <3>1. TokensFit'
      BY <2>1, <2>2, <2>5 DEF TokensFit, TokenFits, WillReplace
    <3>2. ReadIsCurrent' /\ AccountsDiffer'
      BY <2>1, <2>3, <2>5 DEF ReadIsCurrent, AccountsDiffer
    <3> QED BY <2>4, <3>1, <3>2 DEF QuietInv
  <2>6. CASE AskHelper(h) \/ LoseAnswer(h) \/ RefuseAnswer(h) \/ Import(h)
    <3>1. UNCHANGED <<account, token>> /\ handler[h].op \in {"asking", "read", "import"}
      BY <2>6 DEF AskHelper, LoseAnswer, RefuseAnswer, Import, database
    <3>2. \/ Finish(h)
          \/ handler' = [handler EXCEPT ![h].op = "read", ![h].user = confirmed[handler[h].login]]
      BY <2>6 DEF AskHelper, LoseAnswer, RefuseAnswer, Import
    <3>3. handler'[h].op \in {"idle", "read"}
      BY <3>2 DEF Finish, NoRequest, SteamTypes, SteamTypeOK, Request
    <3> QED BY <2>5, <3>1, <3>3
  <2>7. CASE ReadAccounts(h)
    <3>1. CASE handler'[h].op = "idle"
      BY <2>5, <2>7, <3>1 DEF ReadAccounts, database
    <3>2. CASE handler'[h].op # "idle"
      <4>1. PICK a \in IF OfParticipant(handler[h].participant) = {} THEN {NoAccount}
                       ELSE OfParticipant(handler[h].participant) :
              handler' = [handler EXCEPT ![h].op = "link", ![h].account = a]
        BY <2>7, <3>2 DEF ReadAccounts, Finish, NoRequest, SteamTypes, SteamTypeOK
      <4>2. /\ handler'[h].op = "link" /\ handler'[h].account = a
            /\ handler'[h].participant = handler[h].participant
        BY <4>1 DEF SteamTypes, SteamTypeOK, Request
      <4>3. UNCHANGED <<account, token>>
        BY <2>7 DEF ReadAccounts, database
      <4>4. ReadIsCurrent'
        <5>1. ASSUME a = NoAccount, NEW b \in AccountId
              PROVE  account[b].participant # handler[h].participant
          <6>1. NoAccount \notin AccountId
            BY DEF NoAccount, AccountId
          <6> QED BY <4>1, <5>1, <6>1 DEF OfParticipant
        <5> QED BY <2>3, <4>2, <4>3, <5>1 DEF ReadIsCurrent
      <4>5. TokensFit'
        BY <2>1, <2>2, <2>7, <4>3 DEF TokensFit, TokenFits, WillReplace, ReadAccounts
      <4>6. AccountsDiffer'
        BY <2>1, <4>3 DEF AccountsDiffer
      <4> QED BY <2>4, <4>4, <4>5, <4>6 DEF QuietInv
    <3> QED BY <3>1, <3>2
  <2>8. CASE LinkAccount(h)
    <3>0. handler[h].op = "link" /\ token' = token
      BY <2>8 DEF LinkAccount
    <3>1. CASE Finish(h)
      <4>1. handler'[h].op = "idle"
        BY <3>1 DEF Finish, NoRequest, SteamTypes, SteamTypeOK
      <4>2. account' = account
        BY <2>8, <3>0, <4>1 DEF LinkAccount, Goto, SteamTypes, SteamTypeOK, Request
      <4> QED BY <2>5, <3>0, <4>1, <4>2
    <3>2. CASE ~Finish(h)
      <4> DEFINE r == handler[h]
      <4>0. r \in Request
        BY DEF SteamTypes, SteamTypeOK
      <4>1. PICK a \in AccountId :
              /\ handler'[h].op \in {"save", "drop"} /\ handler'[h].account = a
              /\ handler'[h].user = r.user
              /\ \A b \in AccountId \ {a} : account'[b] = account[b]
              /\ account'[a] # NoRow /\ account'[a].user = r.user
              /\ \/ /\ a = r.account /\ account[a] # NoRow
                    /\ account'[a].participant = account[a].participant
                 \/ /\ r.account = NoAccount
                    /\ r.participant \in Participant
                    /\ account'[a].participant = r.participant
        <5>1. CASE r.account # NoAccount
          <6>1. /\ r.account \in AccountId /\ account[r.account] # NoRow
                /\ account' = [account EXCEPT ![r.account].user = r.user]
                /\ \E op \in {"save", "drop"} : Goto(h, op)
            BY <2>8, <3>2, <4>0, <5>1 DEF LinkAccount, Request
          <6>2. handler'[h].op \in {"save", "drop"} /\ handler'[h].account = r.account
                /\ handler'[h].user = r.user
            BY <4>0, <6>1 DEF Goto, SteamTypes, SteamTypeOK, Request
          <6>3. /\ account'[r.account].user = r.user
                /\ account'[r.account].participant = account[r.account].participant
                /\ \A b \in AccountId \ {r.account} : account'[b] = account[b]
            BY <6>1 DEF SteamTypes, SteamTypeOK, Row
          <6>4. account'[r.account] # NoRow
            BY <2>1, <6>1, <6>3 DEF AccountsDiffer, NoRow
          <6> QED BY <6>1, <6>2, <6>3, <6>4
        <5>2. CASE r.account = NoAccount
          <6>1. /\ lastAccount + 1 \in AccountId /\ r.participant \in people
                /\ account' = [account EXCEPT ![lastAccount + 1] =
                                 [participant |-> r.participant, user |-> r.user]]
                /\ \E op \in {"save", "drop"} :
                     handler' = [handler EXCEPT ![h].op = op, ![h].account = lastAccount + 1]
            <7>1. lastAccount < MaxAccounts
              BY <2>8, <3>2, <5>2 DEF LinkAccount
            <7>2. lastAccount + 1 \in AccountId
              BY <7>1 DEF SteamTypes, SteamTypeOK, AccountId
            <7> QED BY <2>8, <3>2, <5>2, <7>2 DEF LinkAccount
          <6>2. handler'[h].op \in {"save", "drop"} /\ handler'[h].account = lastAccount + 1
                /\ handler'[h].user = r.user
            BY <4>0, <6>1 DEF SteamTypes, SteamTypeOK, Request
          <6>3. /\ account'[lastAccount + 1] = [participant |-> r.participant, user |-> r.user]
                /\ \A b \in AccountId \ {lastAccount + 1} : account'[b] = account[b]
            BY <6>1 DEF SteamTypes, SteamTypeOK
          <6>4. account'[lastAccount + 1] # NoRow
            BY <6>1, <6>3 DEF NoRow, SteamTypes, SteamTypeOK
          <6> QED BY <5>2, <6>1, <6>2, <6>3, <6>4 DEF SteamTypes, SteamTypeOK
        <5> QED BY <5>1, <5>2
      <4>2. ReadIsCurrent'
        BY <2>3, <4>1 DEF ReadIsCurrent
      <4>3. TokensFit'
        BY <2>1, <2>2, <3>0, <4>1 DEF TokensFit, TokenFits, WillReplace
      <4>4. AccountsDiffer'
        BY <2>1, <3>0, <4>1 DEF AccountsDiffer, ReadIsCurrent
      <4> QED BY <2>4, <4>2, <4>3, <4>4 DEF QuietInv
    <3> QED BY <3>1, <3>2
  <2>9. CASE SaveCredentials(h)
    <3>1. /\ handler[h].op = "save" /\ handler'[h].op = "import" /\ account' = account
          /\ token' = [token EXCEPT ![handler[h].account] = handler[h].user]
          /\ handler[h].account \in AccountId
      BY <2>9 DEF SaveCredentials, Goto, database, SteamTypes, SteamTypeOK, RequestsFit, Request
    <3>2. TokensFit'
      BY <2>1, <2>2, <3>1 DEF TokensFit, TokenFits, WillReplace, ReadIsCurrent, SteamTypes, SteamTypeOK
    <3>3. ReadIsCurrent' /\ AccountsDiffer'
      BY <2>1, <2>3, <3>1 DEF ReadIsCurrent, AccountsDiffer
    <3> QED BY <2>4, <3>2, <3>3 DEF QuietInv
  <2>10. CASE DropCredentials(h) \/ PurgeCredentials(h)
    <3>1. /\ handler[h].op \in {"drop", "purge"} /\ handler'[h].op = "idle" /\ account' = account
          /\ token' = [token EXCEPT ![handler[h].account] = NoUser]
      BY <2>10 DEF DropCredentials, PurgeCredentials, Finish, NoRequest, database,
         SteamTypes, SteamTypeOK
    <3>2. TokensFit'
      BY <2>1, <2>2, <3>1 DEF TokensFit, TokenFits, WillReplace, SteamTypes, SteamTypeOK
    <3>3. ReadIsCurrent' /\ AccountsDiffer'
      BY <2>1, <2>3, <3>1 DEF ReadIsCurrent, AccountsDiffer
    <3> QED BY <2>4, <3>2, <3>3 DEF QuietInv
  <2> QED BY <1>3, <2>6, <2>7, <2>8, <2>9, <2>10 DEF SteamStep
<1>4. CASE BackendRestart
  <2>1. ~disturbed /\ \A h \in Handler : handler[h].op = "idle" /\ handler'[h].op = "idle"
    BY <1>4 DEF BackendRestart, Busy, NoRequest
  <2>2. UNCHANGED <<account, token>>
    BY <1>4 DEF BackendRestart, database
  <2> QED BY <2>1, <2>2 DEF QuietInv, OneAtATime, ReadIsCurrent, TokensFit, TokenFits, WillReplace,
          AccountsDiffer, Busy
<1>5. ASSUME NEW p \in Participant, DeleteParticipant(p) PROVE QuietInv'
  BY <1>5 DEF DeleteParticipant
<1>6. ASSUME \/ \E l \in QrLogin :
                  \/ \E p \in Participant : StartQr(l, p)
                  \/ \E u \in SteamUser : Authenticate(l, u)
                  \/ Scan(l) \/ CollectLibrary(l) \/ LoginFails(l) \/ ExpireSession(l)
             \/ HelperRestart
             \/ \E l \in OpenIdLogin :
                  \/ \E p \in Participant : StartOpenId(l, p)
                  \/ \E u \in SteamUser : ConfirmOpenId(l, u)
             \/ \E l \in Login : ExpirePending(l)
             \/ UNCHANGED steamVars
      PROVE  UNCHANGED <<account, token, handler, disturbed>>
  BY <1>6 DEF StartQr, Authenticate, Move, Scan, CollectLibrary, LoginFails, ExpireSession,
     HelperRestart, StartOpenId, ConfirmOpenId, ExpirePending, database, steamVars
<1> QED BY <1>1, <1>2, <1>3, <1>4, <1>5, <1>6, QuietUnlessTouched DEF SteamNext

(* When requests come one at a time, whatever logins, polls, lost answers, *)
(* deletions and quiet restarts there are, a stored token opens the        *)
(* library of the account it is stored for, and a participant has one      *)
(* account.                                                                *)
THEOREM TokensAndAccountsMatch == SteamSpec => []SteamAccountsMatch
<1>1. QuietInv => SteamAccountsMatch
  <2> SUFFICES ASSUME QuietInv PROVE SteamAccountsMatch
    OBVIOUS
  <2>1. TokensMatch
    BY DEF QuietInv, TokensMatch, Settled, Free, Busy, TokensFit, TokenFits, WillReplace
  <2>2. ASSUME ~disturbed, NEW p \in Participant PROVE Cardinality(OfParticipant(p)) <= 1
    <3>1. CASE OfParticipant(p) = {}
      BY <3>1, FS_EmptySet
    <3>2. ASSUME NEW a \in OfParticipant(p) PROVE Cardinality(OfParticipant(p)) <= 1
      <4>1. OfParticipant(p) = {a}
        <5>1. /\ a \in AccountId /\ account[a].participant = p
              /\ account[a] # NoRow
          BY <2>2, <3>2, SteamAssumption DEF OfParticipant, NoRow
        <5> QED BY <2>2, <5>1 DEF QuietInv, AccountsDiffer, OfParticipant
      <4> QED BY <4>1, FS_Singleton
    <3> QED BY <3>1, <3>2
  <2> QED BY <2>1, <2>2 DEF SteamAccountsMatch, OneSteamAccountEach
<1>2. SteamInit /\ [][SteamNext]_steamVars => []SteamTypes
  BY SteamInitTyped, SteamNextTyped, PTL
<1> QED BY <1>1, <1>2, QuietInitially, QuietStep, PTL DEF SteamSpec

=============================================================================
