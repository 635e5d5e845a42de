----------------------------- MODULE SteamLogin -----------------------------
(***************************************************************************)
(* Connecting a participant with a Steam account: by QR code (backend,     *)
(* helper process and browser), by OpenID redirection, or by naming a      *)
(* public profile; and what else changes the accounts and the stored       *)
(* tokens: api/provider_auth.py, services/steam_client_auth.py,            *)
(* services/steam_auth.py, services/steam_client_credentials.py,           *)
(* api/accounts.py, src/steam-helper/server.js.                            *)
(*                                                                         *)
(* The helper is one event loop: each of its handlers is one step.  The    *)
(* backend's handlers are threads: a step ends where they wait for the     *)
(* helper, Steam, the database or the file system.  Time is only what may  *)
(* have expired.                                                           *)
(***************************************************************************)
EXTENDS Integers, FiniteSets

CONSTANTS
  Handler,      \* threads of the backend
  Participant,
  SteamUser,    \* Steam ids
  QrLogin,      \* states of QR logins
  OpenIdLogin,  \* states of OpenID logins
  Leaving,      \* bound on who may be deleted
  MaxLogins,    \* bound on the logins under way or confirmed
  MaxAccounts,  \* bound on the accounts ever made
  MaxCrashes,   \* bound on the restarts of the backend
  Nobody,       \* no participant
  NoUser        \* no Steam user

ASSUME SteamAssumption ==
  /\ QrLogin \cap OpenIdLogin = {}
  /\ Leaving \subseteq Participant
  /\ MaxLogins \in Nat
  /\ MaxAccounts \in Nat
  /\ MaxCrashes \in Nat
  /\ Nobody \notin Participant
  /\ NoUser \notin SteamUser

Login     == QrLogin \cup OpenIdLogin
AccountId == 1..MaxAccounts
NoAccount == 0
Row       == [participant : Participant \cup {Nobody}, user : SteamUser \cup {NoUser}]
NoRow     == [participant |-> Nobody, user |-> NoUser]

VARIABLES
  people,       \* participants that exist
  account,      \* account[a]: the row of account a, or NoRow
  lastAccount,  \* the last account id handed out
  token,        \* token[a]: whose renewable token is stored for a, or NoUser
  session,      \* session[l]: what the helper knows of QR login l
  pending,      \* pending[l]: for whom the backend expects login l
  confirmed,    \* confirmed[l]: who has confirmed l to Steam
  taken,        \* taken[l]: how often a handler was given what l confirmed
  handler,      \* handler[h]: the request thread h serves
  crashes,
  disturbed     \* requests overlapped, one was cut off, or a participant
                \* was deleted (kept for the properties)

steamVars == <<people, account, lastAccount, token, session, pending, confirmed,
               taken, handler, crashes, disturbed>>

database == <<people, account, lastAccount>>

Sessions == {"none", "pending", "scanned", "processing", "complete", "failed", "gone"}

Request == [op : {"idle", "asking", "read", "link", "save", "drop", "import", "purge"},
            login : Login \cup {NoUser}, participant : Participant \cup {Nobody},
            user : SteamUser \cup {NoUser}, account : AccountId \cup {NoAccount}]

NoRequest == [op |-> "idle", login |-> NoUser, participant |-> Nobody,
              user |-> NoUser, account |-> NoAccount]

SteamInit ==
  /\ people = Participant
  /\ account = [a \in AccountId |-> NoRow]
  /\ lastAccount = 0
  /\ token = [a \in AccountId |-> NoUser]
  /\ session = [l \in QrLogin |-> "none"]
  /\ pending = [l \in Login |-> Nobody]
  /\ confirmed = [l \in Login |-> NoUser]
  /\ taken = [l \in Login |-> 0]
  /\ handler = [h \in Handler |-> NoRequest]
  /\ crashes = 0
  /\ disturbed = FALSE

(* Once is right, twice is wrong, more is not counted.                     *)
Again(n) == IF n = 0 THEN 1 ELSE 2

Busy(h)   == handler[h].op # "idle"
Free(h)   == ~Busy(h)
Finish(h) == handler' = [handler EXCEPT ![h] = NoRequest]
Goto(h, op) == handler' = [handler EXCEPT ![h].op = op]

Serve(h, request) ==
  /\ Free(h)
  /\ handler' = [handler EXCEPT ![h] = request]
  /\ disturbed' = (disturbed \/ \E k \in Handler : Busy(k))

Started == {l \in QrLogin : session[l] # "none"}
           \cup {l \in OpenIdLogin : pending[l] # Nobody \/ confirmed[l] # NoUser}

MayStart(l, p) ==
  /\ l \notin Started
  /\ Cardinality(Started) < MaxLogins
  /\ p \in people

-----------------------------------------------------------------------------
(* The helper.                                                             *)

(* start_steam_login and startSession: both sides remember the login.      *)
StartQr(l, p) ==
  /\ MayStart(l, p)
  /\ session' = [session EXCEPT ![l] = "pending"]
  /\ pending' = [pending EXCEPT ![l] = p]
  /\ UNCHANGED <<database, token, confirmed, taken, handler, crashes, disturbed>>

Move(l, from, to) ==
  /\ session[l] \in from
  /\ session' = [session EXCEPT ![l] = to]
  /\ UNCHANGED <<database, token, pending, taken, handler, crashes, disturbed>>

(* login.on('remoteInteraction')                                           *)
Scan(l) == Move(l, {"pending"}, "scanned") /\ UNCHANGED confirmed

(* login.once('authenticated'): the user has confirmed; the library is     *)
(* read next, while the record still has the expiry of the login.  When    *)
(* the record is gone, the event changes nothing that is ever read.        *)
Authenticate(l, u) ==
  /\ Move(l, {"pending", "scanned"}, "processing")
  /\ confirmed' = [confirmed EXCEPT ![l] = u]

(* collectLibrary succeeds, or fails, or gives up after its two minutes.   *)
CollectLibrary(l) ==
  /\ \/ Move(l, {"processing"}, "complete")
     \/ Move(l, {"processing"}, "failed")
  /\ UNCHANGED confirmed

(* login.once('timeout'), login.once('error')                              *)
LoginFails(l) == Move(l, {"pending", "scanned"}, "failed") /\ UNCHANGED confirmed

(* cleanupSessions, which any request starts: the record expires whatever  *)
(* it is waiting for.                                                      *)
ExpireSession(l) == Move(l, Sessions \ {"none", "gone"}, "gone") /\ UNCHANGED confirmed

(* The helper restarts: its map is empty.                                  *)
HelperRestart ==
  /\ session' = [l \in QrLogin |-> IF session[l] = "none" THEN "none" ELSE "gone"]
  /\ session' # session
  /\ UNCHANGED <<database, token, pending, confirmed, taken, handler, crashes, disturbed>>

-----------------------------------------------------------------------------
(* The backend: polling a QR login.                                        *)

(* The state is looked up under the lock, which is then released.          *)
PollQr(h, l) ==
  /\ session[l] # "none"
  /\ pending[l] # Nobody
  /\ Serve(h, [NoRequest EXCEPT !.op = "asking", !.login = l, !.participant = pending[l]])
  /\ UNCHANGED <<database, token, session, pending, confirmed, taken, crashes>>

(* Faulty variant: the helper keeps a complete login until it expires.     *)
AskHelperKeepingSession(h) ==
  LET l == handler[h].login IN
  /\ handler[h].op = "asking"
  /\ session[l] = "complete"
  /\ taken' = [taken EXCEPT ![l] = Again(@)]
  /\ handler' = [handler EXCEPT ![h].op = "read", ![h].user = confirmed[l]]
  /\ UNCHANGED <<database, token, session, pending, confirmed, crashes, disturbed>>

(* GET /sessions/:id: a complete login is handed out and forgotten; one    *)
(* that failed or is unknown is over for the backend too.                  *)
AskHelper(h) ==
  LET l == handler[h].login IN
  /\ handler[h].op = "asking"
  /\ \/ /\ session[l] = "complete"
        /\ session' = [session EXCEPT ![l] = "gone"]
        /\ taken' = [taken EXCEPT ![l] = Again(@)]
        /\ handler' = [handler EXCEPT ![h].op = "read", ![h].user = confirmed[l]]
        /\ UNCHANGED pending
     \/ /\ session[l] \in {"failed", "gone"}
        /\ pending' = [pending EXCEPT ![l] = Nobody]
        /\ Finish(h)
        /\ UNCHANGED <<session, taken>>
     \/ /\ session[l] \notin {"complete", "failed", "gone"}
        /\ Finish(h)
        /\ UNCHANGED <<session, pending, taken>>
  /\ UNCHANGED <<database, token, confirmed, crashes, disturbed>>

(* The answer gets lost on its way: the backend still expects the login,   *)
(* but if it was complete the helper has forgotten it.                     *)
LoseAnswer(h) ==
  LET l == handler[h].login IN
  /\ handler[h].op = "asking"
  /\ session' = [session EXCEPT ![l] = IF @ = "complete" THEN "gone" ELSE @]
  /\ Finish(h)
  /\ UNCHANGED <<database, token, pending, confirmed, taken, crashes, disturbed>>

-----------------------------------------------------------------------------
(* The backend: OpenID, and a public profile.                              *)

StartOpenId(l, p) ==
  /\ MayStart(l, p)
  /\ pending' = [pending EXCEPT ![l] = p]
  /\ UNCHANGED <<database, token, session, confirmed, taken, handler, crashes, disturbed>>

(* The user confirms at Steam, who sends the browser back.                 *)
ConfirmOpenId(l, u) ==
  /\ l \in OpenIdLogin
  /\ pending[l] # Nobody
  /\ confirmed[l] = NoUser
  /\ confirmed' = [confirmed EXCEPT ![l] = u]
  /\ UNCHANGED <<database, token, session, pending, taken, handler, crashes, disturbed>>

(* complete_steam_openid_login: the state is popped under the lock before  *)
(* Steam is asked whether the answer is genuine.                           *)
OpenIdCallback(h, l) ==
  /\ l \in OpenIdLogin
  /\ pending[l] # Nobody
  /\ pending' = [pending EXCEPT ![l] = Nobody]
  /\ IF confirmed[l] # NoUser
       THEN /\ taken' = [taken EXCEPT ![l] = Again(@)]
            /\ Serve(h, [NoRequest EXCEPT !.op = "read", !.login = l,
                           !.participant = pending[l], !.user = confirmed[l]])
       ELSE Free(h) /\ UNCHANGED <<taken, handler, disturbed>>
  /\ UNCHANGED <<database, token, session, confirmed, crashes>>

(* connect_steam                                                           *)
ConnectProfile(h, p, u) ==
  /\ p \in people
  /\ Serve(h, [NoRequest EXCEPT !.op = "read", !.participant = p, !.user = u])
  /\ UNCHANGED <<database, token, session, pending, confirmed, taken, crashes>>

(* States that expire; start_steam_login and the poll forget them.         *)
ExpirePending(l) ==
  /\ pending[l] # Nobody
  /\ pending' = [pending EXCEPT ![l] = Nobody]
  /\ UNCHANGED <<database, token, session, confirmed, taken, handler, crashes, disturbed>>

-----------------------------------------------------------------------------
(* The backend: the account and its token.                                 *)

OfUser(u)        == {a \in AccountId : account[a].user = u}
OfParticipant(p) == {a \in AccountId : account[a].participant = p}

(* What Steam or the helper has answered cannot be used: no id, no token,  *)
(* a library that is not public, a signature that is not genuine.          *)
RefuseAnswer(h) ==
  /\ handler[h].op = "read"
  /\ Finish(h)
  /\ UNCHANGED <<database, token, session, pending, confirmed, taken, crashes, disturbed>>

(* upsert_steam_account looks whose the Steam id is, and for an account of *)
(* the participant.                                                        *)
ReadAccounts(h) ==
  LET r == handler[h] IN
  /\ r.op = "read"
  /\ \/ /\ \E a \in OfUser(r.user) : account[a].participant # r.participant
        /\ Finish(h)
     \/ /\ \A a \in OfUser(r.user) : account[a].participant = r.participant
        /\ \E a \in IF OfParticipant(r.participant) = {} THEN {NoAccount}
                    ELSE OfParticipant(r.participant) :
             handler' = [handler EXCEPT ![h].op = "link", ![h].account = a]
  /\ UNCHANGED <<database, token, session, pending, confirmed, taken, crashes, disturbed>>

(* Its commit, which a row or a participant that is gone and the unique    *)
(* key on Steam ids may refuse.                                            *)
LinkAccount(h) ==
  LET r    == handler[h]
      next == IF r.login \in QrLogin THEN "save" ELSE "drop"
      free == OfUser(r.user) \subseteq {r.account} IN
  /\ r.op = "link"
  /\ \/ /\ r.account # NoAccount /\ account[r.account] # NoRow /\ free
        /\ account' = [account EXCEPT ![r.account].user = r.user]
        /\ Goto(h, next)
        /\ UNCHANGED lastAccount
     \/ /\ r.account = NoAccount /\ r.participant \in people /\ free
        /\ lastAccount < MaxAccounts
        /\ lastAccount' = lastAccount + 1
        /\ account' = [account EXCEPT ![lastAccount + 1] =
                         [participant |-> r.participant, user |-> r.user]]
        /\ handler' = [handler EXCEPT ![h].op = next, ![h].account = lastAccount + 1]
     \/ /\ ~free \/ (IF r.account = NoAccount THEN r.participant \notin people
                     ELSE account[r.account] = NoRow)
        /\ Finish(h)
        /\ UNCHANGED <<account, lastAccount>>
  /\ UNCHANGED <<people, token, session, pending, confirmed, taken, crashes, disturbed>>

SaveCredentials(h) ==
  /\ handler[h].op = "save"
  /\ token' = [token EXCEPT ![handler[h].account] = handler[h].user]
  /\ Goto(h, "import")
  /\ UNCHANGED <<database, session, pending, confirmed, taken, crashes, disturbed>>

(* Faulty variant: connecting without a token keeps the old one.           *)
DropNothing(h) ==
  /\ handler[h].op = "drop"
  /\ Finish(h)
  /\ UNCHANGED <<database, token, session, pending, confirmed, taken, crashes, disturbed>>

DropCredentials(h) ==
  /\ handler[h].op = "drop"
  /\ token' = [token EXCEPT ![handler[h].account] = NoUser]
  /\ Finish(h)
  /\ UNCHANGED <<database, session, pending, confirmed, taken, crashes, disturbed>>

(* The games are resolved and committed, or not: then the login stays      *)
(* pending, although the helper no longer knows it.                        *)
Import(h) ==
  LET r == handler[h] IN
  /\ r.op = "import"
  /\ \/ /\ account[r.account] # NoRow
        /\ pending' = [pending EXCEPT ![r.login] = Nobody]
     \/ UNCHANGED pending
  /\ Finish(h)
  /\ UNCHANGED <<database, token, session, confirmed, taken, crashes, disturbed>>

(* delete_account: the row first, then the directory.                      *)
DeleteAccount(h, a) ==
  /\ account[a] # NoRow
  /\ account' = [account EXCEPT ![a] = NoRow]
  /\ Serve(h, [NoRequest EXCEPT !.op = "purge", !.account = a])
  /\ UNCHANGED <<people, lastAccount, token, session, pending, confirmed, taken, crashes>>

PurgeCredentials(h) ==
  /\ handler[h].op = "purge"
  /\ token' = [token EXCEPT ![handler[h].account] = NoUser]
  /\ Finish(h)
  /\ UNCHANGED <<database, session, pending, confirmed, taken, crashes, disturbed>>

(* delete_participant takes the accounts along, in the database only.      *)
DeleteParticipant(p) ==
  /\ p \in people \cap Leaving
  /\ people' = people \ {p}
  /\ account' = [a \in AccountId |-> IF a \in OfParticipant(p) THEN NoRow ELSE account[a]]
  /\ disturbed' = TRUE
  /\ UNCHANGED <<lastAccount, token, session, pending, confirmed, taken, handler, crashes>>

(* The backend restarts: its dictionaries and its requests are gone.       *)
BackendRestart ==
  /\ crashes < MaxCrashes
  /\ crashes' = crashes + 1
  /\ pending' = [l \in Login |-> Nobody]
  /\ handler' = [h \in Handler |-> NoRequest]
  /\ disturbed' = (disturbed \/ \E h \in Handler : Busy(h))
  /\ UNCHANGED <<database, token, session, confirmed, taken>>

-----------------------------------------------------------------------------

SteamStep(h) ==
  \/ AskHelper(h) \/ LoseAnswer(h) \/ RefuseAnswer(h) \/ ReadAccounts(h) \/ LinkAccount(h)
  \/ SaveCredentials(h) \/ DropCredentials(h) \/ Import(h) \/ PurgeCredentials(h)

SteamNext ==
  \/ \E l \in QrLogin :
       \/ \E p \in Participant : StartQr(l, p)
       \/ \E u \in SteamUser : Authenticate(l, u)
       \/ Scan(l) \/ CollectLibrary(l) \/ LoginFails(l) \/ ExpireSession(l)
       \/ \E h \in Handler : PollQr(h, l)
  \/ HelperRestart
  \/ \E l \in OpenIdLogin :
       \/ \E p \in Participant : StartOpenId(l, p)
       \/ \E u \in SteamUser : ConfirmOpenId(l, u)
       \/ \E h \in Handler : OpenIdCallback(h, l)
  \/ \E l \in Login : ExpirePending(l)
  \/ \E h \in Handler :
       \/ \E p \in Participant, u \in SteamUser : ConnectProfile(h, p, u)
       \/ \E a \in AccountId : DeleteAccount(h, a)
       \/ SteamStep(h)
  \/ \E p \in Participant : DeleteParticipant(p)
  \/ BackendRestart

SteamSpec == SteamInit /\ [][SteamNext]_steamVars

-----------------------------------------------------------------------------
(* Properties.                                                             *)

SteamTypeOK ==
  /\ people \subseteq Participant
  /\ account \in [AccountId -> Row]
  /\ lastAccount \in 0..MaxAccounts
  /\ token \in [AccountId -> SteamUser \cup {NoUser}]
  /\ session \in [QrLogin -> Sessions]
  /\ pending \in [Login -> Participant \cup {Nobody}]
  /\ confirmed \in [Login -> SteamUser \cup {NoUser}]
  /\ taken \in [Login -> 0..2]
  /\ handler \in [Handler -> Request]
  /\ crashes \in 0..MaxCrashes
  /\ disturbed \in BOOLEAN

(* Where a login stands for the user who has confirmed it or not.          *)
LoginPhase(l) ==
  IF taken[l] = 1 THEN "used"
  ELSE IF taken[l] = 2 THEN "used again"
  ELSE IF l \in QrLogin /\ session[l] \in {"failed", "gone"} THEN "lost"
  ELSE IF l \in OpenIdLogin /\ confirmed[l] # NoUser /\ pending[l] = Nobody THEN "lost"
  ELSE IF confirmed[l] # NoUser THEN "confirmed"
  ELSE "open"

OneShot == INSTANCE OneShotLogin WITH
  phase <- [l \in Login |-> LoginPhase(l)],
  user  <- confirmed

(* A login is confirmed by one user once, used at most once, and never     *)
(* comes back when it is lost: however polls, callbacks, expiry, lost      *)
(* answers and restarts interleave.                                        *)
LoginIsOneShot == OneShot!LoginSpec

Settled == \A h \in Handler : Free(h)

(* When requests come one at a time, a stored token belongs to an account  *)
(* that exists, and to its user: syncs read the library it opens.          *)
TokensMatch ==
  ~disturbed /\ Settled =>
    \A a \in AccountId : token[a] # NoUser =>
      account[a] # NoRow /\ account[a].user = token[a]

(* When requests come one at a time, a participant has one Steam account,  *)
(* although the database only keeps Steam ids apart.                       *)
OneSteamAccountEach ==
  ~disturbed => \A p \in Participant : Cardinality(OfParticipant(p)) <= 1

(* So the next sync of a participant reads the library that the last login *)
(* of his opens, whatever he had connected before.                         *)
SteamAccountsMatch == TokensMatch /\ OneSteamAccountEach

(* PROVIDERS.md: "Deleting or disconnecting an account removes its local   *)
(* provider credentials".                                                  *)
TokensHaveAccounts ==
  Settled => \A a \in AccountId : token[a] # NoUser => account[a] # NoRow

=============================================================================
