------------------------- MODULE ProviderCredentials -------------------------
(***************************************************************************)
(* The credential file of an account at a provider other than Steam and    *)
(* Epic, and what reads and writes it: logins, logouts, the renewal of     *)
(* tokens by syncs and the deletion of the account                         *)
(* (services/provider_auth.py, services/xbox_auth.py,                      *)
(* services/import_providers.py, api/provider_auth.py, api/accounts.py).   *)
(*                                                                         *)
(* A request loads the whole file, asks the provider and writes the whole  *)
(* file back, in some order of these three and without a lock; each of     *)
(* them is one step.  write_private_json replaces the file atomically, so  *)
(* a restart leaves the old file or the new one.                           *)
(***************************************************************************)
EXTENDS Integers

CONSTANTS
  Thread,           \* threads of the backend
  ProviderAccount,
  MaxGrants,        \* bound on the successful logins at the provider
  MaxSerial,        \* bound on the renewals of one of them
  MaxFlows          \* bound on the logins started

ASSUME CredentialsAssumption ==
  MaxGrants \in Nat /\ MaxSerial \in Nat \ {0} /\ MaxFlows \in Nat

(* Battle.net, Humble, Meta and EA keep a pasted browser session.          *)
Providers == {"xbox", "gog", "amazon", "ubisoft", "browser"}
Renewable == {"xbox", "gog", "amazon"}
Grant     == 1..MaxGrants
Flow      == 1..MaxFlows

(* access, renewal: the logins that the access token and the refresh token *)
(* of the file come from, or 0; serial: which of the login's refresh       *)
(* tokens it is; flow: device code, code verifier or second factor ticket  *)
(* under way, or 0.                                                        *)
File  == [access : 0..MaxGrants, renewal : 0..MaxGrants,
          serial : 0..MaxSerial, flow : 0..MaxFlows]
Empty == [access |-> 0, renewal |-> 0, serial |-> 0, flow |-> 0]

VARIABLES
  kept,       \* accounts that have not been deleted
  platform,   \* platform[a]: the provider of account a
  file,       \* file[a]: its credential file
  latest,     \* latest[n]: the refresh token the provider takes for login n
  flows,      \* flows[f]: what the provider knows of login f under way
  request,    \* request[t]: what thread t is doing
  told,       \* told[a]: the login the last answer spoke of, or 0
  harmed      \* accounts of which FileAsTold and RenewableSession say
              \* nothing any more (told, harmed: for the properties)

credVars == <<kept, platform, file, latest, flows, request, told, harmed>>

(* tells: what the answer will say of the session: its login, 0 when there *)
(* is none any more, Same when nothing changes; overtaken: the file has    *)
(* been written, or the account deleted, since it was loaded.              *)
Same == -1

(* A login whose answer brought no refresh token.                          *)
Bare == -1

CredRequest == [op : {"idle", "start", "poll", "complete", "sync", "logout", "delete"},
                at : {"", "load", "ask", "store"}, account : ProviderAccount, copy : File,
                flow : 0..MaxFlows, tells : {Same} \cup 0..MaxGrants, overtaken : BOOLEAN]

Serving(t) == request[t].op # "idle"

CredInit ==
  /\ kept = ProviderAccount
  /\ platform \in [ProviderAccount -> Providers]
  /\ file = [a \in ProviderAccount |-> Empty]
  /\ latest = [n \in Grant |-> 0]
  /\ flows = [f \in Flow |-> "none"]
  /\ \E a \in ProviderAccount :
       request = [t \in Thread |-> [op |-> "idle", at |-> "", account |-> a, copy |-> Empty,
                                    flow |-> 0, tells |-> Same, overtaken |-> FALSE]]
  /\ told = [a \in ProviderAccount |-> 0]
  /\ harmed = {}

NewGrants == {n \in Grant : latest[n] = 0 /\ \A m \in 1..(n - 1) : latest[m] # 0}
NewFlows  == {f \in Flow : flows[f] = "none" /\ \A e \in 1..(f - 1) : flows[e] # "none"}

(* The file after a login; browser sessions cannot be renewed.             *)
SessionOf(p, n) ==
  IF p \in Renewable
  THEN [access |-> n, renewal |-> n, serial |-> 1, flow |-> 0]
  ELSE [Empty EXCEPT !.access = n]

(* The refresh token of an earlier login than the access token.            *)
Mixed(copy) == copy.renewal \notin {0, copy.access}

(* poll_device_login, _oauth_credentials: without a new refresh token the  *)
(* one that was loaded stays.                                              *)
BareSession(copy, n) == [copy EXCEPT !.access = n, !.flow = 0]

Done(t)     == request' = [request EXCEPT ![t].op = "idle", ![t].at = "", ![t].copy = Empty,
                             ![t].flow = 0, ![t].tells = Same, ![t].overtaken = FALSE]
Proceed(t, at, copy, tells) ==
  request' = [request EXCEPT ![t].at = at, ![t].copy = copy, ![t].tells = tells]

-----------------------------------------------------------------------------
(* Requests begin.                                                         *)

(* _get_account: a request begins with an account that exists.             *)
BeginRequest(t, a, record) ==
  /\ ~Serving(t)
  /\ a \in kept
  /\ request' = [request EXCEPT ![t] = [record EXCEPT !.account = a]]

Beginning(op, at) == [op |-> op, at |-> at, account |-> 0, copy |-> Empty, flow |-> 0,
                      tells |-> Same, overtaken |-> FALSE]

(* start: Xbox asks for a device code; most others only show an address.   *)
StartLogin(t, a) ==
  /\ platform[a] = "xbox"
  /\ BeginRequest(t, a, Beginning("start", "ask"))
  /\ UNCHANGED <<kept, platform, file, latest, flows, told, harmed>>

(* _amazon_login: the code verifier is made here and replaces whatever was *)
(* stored.                                                                 *)
StartAmazonLogin(t, a) ==
  /\ platform[a] = "amazon"
  /\ \E f \in NewFlows :
       /\ flows' = [flows EXCEPT ![f] = "open"]
       /\ BeginRequest(t, a, [Beginning("start", "store") EXCEPT !.copy.flow = f, !.tells = 0])
  /\ UNCHANGED <<kept, platform, file, latest, told, harmed>>

(* poll_login                                                              *)
PollLogin(t, a) ==
  /\ platform[a] = "xbox"
  /\ BeginRequest(t, a, Beginning("poll", "load"))
  /\ UNCHANGED <<kept, platform, file, latest, flows, told, harmed>>

(* complete_login: Amazon's code belongs to a flow the user has confirmed; *)
(* GOG's code, a browser session, a password and what is pasted for an     *)
(* Xbox account come straight from the user.                               *)
CompleteLogin(t, a) ==
  /\ \/ /\ platform[a] \in {"gog", "browser", "xbox"}
        /\ BeginRequest(t, a, Beginning("complete", "ask"))
     \/ /\ platform[a] = "ubisoft"
        /\ BeginRequest(t, a, Beginning("complete", "load"))
     \/ /\ platform[a] = "amazon"
        /\ \E f \in Flow : /\ flows[f] = "confirmed"
                           /\ BeginRequest(t, a, [Beginning("complete", "load") EXCEPT !.flow = f])
  /\ UNCHANGED <<kept, platform, file, latest, flows, told, harmed>>

(* logout: an empty file, except that GOG's is read first.                 *)
Logout(t, a) ==
  /\ BeginRequest(t, a, [Beginning("logout", IF platform[a] = "gog" THEN "load" ELSE "store")
                           EXCEPT !.tells = 0])
  /\ UNCHANGED <<kept, platform, file, latest, flows, told, harmed>>

(* Faulty variant: syncs without SYNC_LOCK.                                *)
SyncUnlocked(t, a) ==
  /\ platform[a] \in Renewable
  /\ BeginRequest(t, a, Beginning("sync", "load"))
  /\ UNCHANGED <<kept, platform, file, latest, flows, told, harmed>>

(* A sync wants valid credentials; SYNC_LOCK lets one sync run at a time.  *)
Sync(t, a) ==
  /\ platform[a] \in Renewable
  /\ \A s \in Thread : request[s].op # "sync"
  /\ BeginRequest(t, a, Beginning("sync", "load"))
  /\ UNCHANGED <<kept, platform, file, latest, flows, told, harmed>>

Overtake(t, a) ==
  [s \in Thread |-> IF s # t /\ request[s].account = a /\ Serving(s)
                    THEN [request[s] EXCEPT !.overtaken = TRUE] ELSE request[s]]

(* delete_account commits, then removes the directory.                     *)
DeleteProviderAccount(t, a) ==
  /\ ~Serving(t)
  /\ a \in kept
  /\ kept' = kept \ {a}
  /\ request' = [Overtake(t, a) EXCEPT
       ![t] = [Beginning("delete", "store") EXCEPT !.account = a, !.tells = 0]]
  /\ UNCHANGED <<platform, file, latest, flows, told, harmed>>

(* delete_participant removes the accounts from the database and leaves    *)
(* their directories.                                                      *)
DeleteOwner(t, a) ==
  /\ ~Serving(t)
  /\ a \in kept
  /\ kept' = kept \ {a}
  /\ request' = Overtake(t, a)
  /\ harmed' = harmed \cup {a}
  /\ UNCHANGED <<platform, file, latest, flows, told>>

-----------------------------------------------------------------------------
(* Their steps.                                                            *)

(* Faulty variant: a login that ends without success clears the file.      *)
WithoutSession(copy) == Empty

(* credentials.pop("device_flow")                                          *)
WithoutFlow(copy) == [copy EXCEPT !.flow = 0]

(* The file is read, and the request goes on with a copy.                  *)
Load(t, op, providers) ==
  /\ request[t].at = "load"
  /\ request[t].op = op
  /\ platform[request[t].account] \in providers
  /\ UNCHANGED <<kept, platform, file, latest, flows, told, harmed>>

Loaded(t) == file[request[t].account]

GoOn(t, at, copy) ==
  request' = [request EXCEPT ![t].at = at, ![t].copy = copy,
                             ![t].overtaken = request[t].account \notin kept]

(* poll_device_login: no flow, an expired one, or one to ask about.        *)
LoadFlow(t) ==
  LET f == Loaded(t).flow IN
  /\ Load(t, "poll", {"xbox"})
  /\ \/ f = 0 /\ Done(t)
     \/ f # 0 /\ flows[f] = "spent" /\ GoOn(t, "store", WithoutFlow(Loaded(t)))
     \/ f # 0 /\ GoOn(t, "ask", Loaded(t))

(* start_device_login: the device code joins what was stored.              *)
LoadForCode(t) ==
  /\ Load(t, "start", {"xbox"})
  /\ GoOn(t, "store", [Loaded(t) EXCEPT !.flow = request[t].flow])

(* complete_gog and logout replace GOG's only entry.                       *)
LoadGog(t) ==
  /\ \/ Load(t, "complete", {"gog"})
     \/ Load(t, "logout", {"gog"})
  /\ GoOn(t, "store", request[t].copy)

(* complete_amazon needs the pending verifier.                             *)
LoadVerifier(t) ==
  /\ Load(t, "complete", {"amazon"})
  /\ IF Loaded(t).flow = 0 THEN Done(t) ELSE GoOn(t, "ask", Loaded(t))

(* complete_ubisoft looks for the ticket of an earlier challenge.          *)
LoadTicket(t) ==
  /\ Load(t, "complete", {"ubisoft"})
  /\ GoOn(t, "ask", Loaded(t))

(* The stored access token is still good, or there is nothing to renew it  *)
(* with, or it must be renewed.                                            *)
LoadSession(t) ==
  /\ Load(t, "sync", Renewable)
  /\ \/ (Loaded(t).access # 0 \/ Loaded(t).renewal = 0) /\ Done(t)
     \/ Loaded(t).renewal # 0 /\ GoOn(t, "ask", Loaded(t))

(* The provider cannot be reached, refuses, or its answer is no use.       *)
AskInVain(t) ==
  /\ request[t].at = "ask"
  /\ Done(t)
  /\ UNCHANGED <<kept, platform, file, latest, flows, told, harmed>>

(* start_device_login: Microsoft hands out a device code.                  *)
AskForCode(t) ==
  /\ request[t].at = "ask" /\ request[t].op = "start"
  /\ \E f \in NewFlows :
       /\ flows' = [flows EXCEPT ![f] = "open"]
       /\ request' = [request EXCEPT ![t].at = "load", ![t].flow = f]
  /\ UNCHANGED <<kept, platform, file, latest, told, harmed>>

(* poll_device_login: the user has not confirmed yet (slow_down rewrites   *)
(* the file), or never will; or confirmed, and Xbox Live may still refuse  *)
(* when the device code is spent already.  The answer may bring a refresh  *)
(* token or not.                                                           *)
AskWhetherConfirmed(t) ==
  LET r == request[t]
      f == r.copy.flow IN
  /\ r.at = "ask" /\ r.op = "poll"
  /\ \/ /\ flows[f] = "open"
        /\ Done(t) \/ Proceed(t, "store", r.copy, Same)
        /\ UNCHANGED <<flows, latest>>
     \/ /\ flows[f] = "spent"
        /\ Proceed(t, "store", WithoutFlow(r.copy), Same)
        /\ UNCHANGED <<flows, latest>>
     \/ /\ flows[f] = "confirmed"
        /\ flows' = [flows EXCEPT ![f] = "spent"]
        /\ \E n \in NewGrants :
             \/ /\ latest' = [latest EXCEPT ![n] = 1]
                /\ Done(t) \/ Proceed(t, "store", SessionOf("xbox", n), n)
             \/ /\ latest' = [latest EXCEPT ![n] = Bare]
                /\ Proceed(t, "store", BareSession(r.copy, n), n)
  /\ UNCHANGED <<kept, platform, file, told, harmed>>

Completing(t, p) ==
  /\ request[t].at = "ask"
  /\ request[t].op = "complete"
  /\ platform[request[t].account] = p
  /\ UNCHANGED <<kept, platform, file, told, harmed>>

(* The provider answers with a session.                                    *)
Granted(t, at) ==
  \E n \in NewGrants :
    /\ latest' = [latest EXCEPT ![n] = 1]
    /\ Proceed(t, at, SessionOf(platform[request[t].account], n), n)

(* complete_gog exchanges the code, then reads the file.                   *)
CompleteGog(t) ==
  /\ Completing(t, "gog")
  /\ Granted(t, "load")
  /\ UNCHANGED flows

(* complete_ea, complete_browser_session: what was pasted is stored.       *)
CompleteBrowserSession(t) ==
  /\ Completing(t, "browser")
  /\ Granted(t, "store")
  /\ UNCHANGED flows

(* complete_generic_json: whatever was pasted becomes the file, and the    *)
(* answer says authenticated even when xbox_status finds no session in it. *)
PasteXbox(t) ==
  LET a == request[t].account IN
  /\ request[t].at = "ask" /\ request[t].op = "complete"
  /\ platform[a] = "xbox"
  /\ \/ /\ Granted(t, "store")
        /\ UNCHANGED harmed
     \/ /\ Proceed(t, "store", Empty, 0)
        /\ harmed' = harmed \cup {a}
        /\ UNCHANGED latest
  /\ UNCHANGED <<kept, platform, file, flows, told>>

(* complete_amazon: the code must belong to the stored verifier.           *)
CompleteAmazon(t) ==
  LET f == request[t].flow IN
  /\ Completing(t, "amazon")
  /\ request[t].copy.flow = f
  /\ flows[f] = "confirmed"
  /\ flows' = [flows EXCEPT ![f] = "spent"]
  /\ Granted(t, "store")

(* complete_ubisoft: a session, for which a stored ticket is used up, or a *)
(* second factor is asked for: then only the new ticket is kept.           *)
CompleteUbisoft(t) ==
  /\ Completing(t, "ubisoft")
  /\ \/ /\ Granted(t, "store")
        /\ flows' = [f \in Flow |-> IF f = request[t].copy.flow THEN "spent" ELSE flows[f]]
     \/ /\ \E f \in NewFlows :
             /\ flows' = [flows EXCEPT ![f] = "open"]
             /\ Proceed(t, "store", [Empty EXCEPT !.flow = f], 0)
        /\ UNCHANGED latest

(* credentials.update: a new refresh token replaces the old one.           *)
Renewed(copy, serial) ==
  [copy EXCEPT !.access = copy.renewal, !.serial = serial]

(* The provider takes its latest refresh token only, and may replace it;   *)
(* when the answer is lost on the way, nothing is written.  A refresh      *)
(* token kept from an earlier login turns the account back to that one.    *)
Renew(t, p, mayKeep) ==
  LET r    == request[t]
      last == latest[r.copy.renewal] IN
  /\ r.at = "ask" /\ r.op = "sync"
  /\ platform[r.account] = p
  /\ r.copy.serial = last
  /\ \E next \in {last + 1} \cup (IF mayKeep THEN {last} ELSE {}) :
       /\ next <= MaxSerial
       /\ latest' = [latest EXCEPT ![r.copy.renewal] = next]
       /\ \/ /\ Proceed(t, "store", Renewed(r.copy, next), Same)
             /\ harmed' = IF Mixed(r.copy) THEN harmed \cup {r.account} ELSE harmed
          \/ /\ Done(t)
             /\ harmed' = IF next = last THEN harmed ELSE harmed \cup {r.account}
  /\ UNCHANGED <<kept, platform, file, flows, told>>

(* ensure_xbox_credentials: Xbox Live may refuse the renewed token.        *)
RenewXbox(t) == Renew(t, "xbox", TRUE)

(* GOGAuthStore.refresh_credentials: the answer has a new refresh token.   *)
RenewGog(t) == Renew(t, "gog", FALSE)

(* _amazon_credentials                                                     *)
RenewAmazon(t) == Renew(t, "amazon", TRUE)

(* The file is replaced; a copy that says nothing new about the session,   *)
(* or keeps the refresh token it was loaded with, spoils what overtook it. *)
(* The directory is made again if need be.                                 *)
Outcome(t) ==
  LET r == request[t]
      a == r.account IN
  /\ request' = [Overtake(t, a) EXCEPT
       ![t].op = "idle", ![t].at = "", ![t].copy = Empty,
       ![t].flow = 0, ![t].tells = Same, ![t].overtaken = FALSE]
  /\ told' = [told EXCEPT ![a] = IF r.tells = Same THEN @ ELSE r.tells]
  /\ harmed' = IF r.overtaken /\ (r.tells = Same \/ Mixed(r.copy) \/ a \notin kept)
               THEN harmed \cup {a} ELSE harmed
  /\ UNCHANGED <<kept, platform, latest, flows>>

(* Faulty variant: a refresh token the file holds by now is kept.          *)
StoreMerged(t) ==
  LET copy == request[t].copy IN
  /\ request[t].at = "store"
  /\ file' = [file EXCEPT ![request[t].account] =
                IF @.renewal # 0 /\ copy.renewal # 0
                THEN [copy EXCEPT !.renewal = file[request[t].account].renewal] ELSE copy]
  /\ Outcome(t)

Store(t) ==
  /\ request[t].at = "store"
  /\ file' = [file EXCEPT ![request[t].account] = request[t].copy]
  /\ Outcome(t)

-----------------------------------------------------------------------------
(* The user, the provider, and the process.                                *)

ConfirmFlow(f) ==
  /\ flows[f] = "open"
  /\ flows' = [flows EXCEPT ![f] = "confirmed"]
  /\ UNCHANGED <<kept, platform, file, latest, request, told, harmed>>

ExpireFlow(f) ==
  /\ flows[f] \in {"open", "confirmed"}
  /\ flows' = [flows EXCEPT ![f] = "spent"]
  /\ UNCHANGED <<kept, platform, file, latest, request, told, harmed>>

(* Requests are cut off; a renewed token or a deletion may be half done.   *)
RestartServer ==
  /\ \E t \in Thread : Serving(t)
  /\ request' = [t \in Thread |->
       [Beginning("idle", "") EXCEPT !.account = request[t].account]]
  /\ harmed' = harmed \cup {request[t].account : t \in
       {t \in Thread : /\ request[t].at = "store"
                       /\ request[t].op \in {"sync", "delete"}}}
  /\ UNCHANGED <<kept, platform, file, latest, flows, told>>

CredNext ==
  \/ \E t \in Thread :
       \/ \E a \in ProviderAccount :
            \/ StartLogin(t, a) \/ StartAmazonLogin(t, a) \/ PollLogin(t, a)
            \/ CompleteLogin(t, a) \/ Logout(t, a) \/ Sync(t, a)
            \/ DeleteProviderAccount(t, a) \/ DeleteOwner(t, a)
       \/ LoadFlow(t) \/ LoadForCode(t) \/ LoadGog(t)
       \/ LoadVerifier(t) \/ LoadTicket(t) \/ LoadSession(t)
       \/ AskInVain(t) \/ AskForCode(t) \/ AskWhetherConfirmed(t)
       \/ CompleteGog(t) \/ CompleteBrowserSession(t)
       \/ CompleteAmazon(t) \/ CompleteUbisoft(t) \/ PasteXbox(t)
       \/ RenewXbox(t) \/ RenewGog(t) \/ RenewAmazon(t)
       \/ Store(t)
  \/ \E f \in Flow : ConfirmFlow(f) \/ ExpireFlow(f)
  \/ RestartServer

CredSpec == CredInit /\ [][CredNext]_credVars

-----------------------------------------------------------------------------
(* Properties.                                                             *)

CredTypeOK ==
  /\ kept \subseteq ProviderAccount
  /\ platform \in [ProviderAccount -> Providers]
  /\ file \in [ProviderAccount -> File]
  /\ latest \in [Grant -> {Bare} \cup 0..MaxSerial]
  /\ flows \in [Flow -> {"none", "open", "confirmed", "spent"}]
  /\ request \in [Thread -> CredRequest]
  /\ told \in [ProviderAccount -> 0..MaxGrants]
  /\ harmed \subseteq ProviderAccount

(* generic_json_status, xbox_status, gog_status (but for expiry).          *)
Authenticated(a) == file[a].access # 0

(* Whatever overtakes what, the tokens in a file come from one login, so   *)
(* that no sync renews one user's session and reads another's library.     *)
(* The exception is an Xbox login whose answer brought no refresh token:   *)
(* it keeps the one that was there, and the next renewal goes back to the  *)
(* user of the earlier login.                                              *)
FileOfOneLogin ==
  \A a \in ProviderAccount :
    file[a].renewal # 0 =>
      \/ file[a].access = file[a].renewal
      \/ platform[a] = "xbox" /\ file[a].access # 0 /\ latest[file[a].access] = Bare

(* The status is what the last answer said, and the session the one it     *)
(* spoke of: a login is not undone by a sync or by a failed attempt to log *)
(* in again, a logout stays one, and a deleted account leaves nothing.     *)
(* Except where (harmed) a request wrote a copy of the file older than the *)
(* file or after the account was gone; an answer that renewed the token    *)
(* was lost, or a restart cut off a renewal or a deletion; the refresh     *)
(* token kept from an earlier login was renewed; what was pasted for an    *)
(* Xbox account held no session; or the participant was deleted, which     *)
(* leaves the files.                                                       *)
FileAsTold ==
  \A a \in ProviderAccount \ harmed :
    /\ Authenticated(a) = (told[a] # 0)
    /\ Authenticated(a) => file[a].access = told[a]
    /\ a \notin kept /\ (\A t \in Thread : request[t].account = a => request[t].op # "delete")
         => file[a] = Empty

(* With the same exceptions, the stored refresh token is one the provider  *)
(* still takes, or is being replaced: no two syncs ever spend the same     *)
(* token.                                                                  *)
RenewableSession ==
  \A a \in ProviderAccount \ harmed :
    /\ \/ file[a].renewal = 0
       \/ file[a].serial = latest[file[a].renewal]
       \/ \E t \in Thread : /\ request[t].account = a /\ request[t].op = "sync"
                            /\ request[t].at = "store"
    /\ \A t \in Thread :
         ( /\ request[t].account = a /\ request[t].op = "sync"
           /\ request[t].at = "ask" /\ ~request[t].overtaken )
         => request[t].copy.serial = latest[request[t].copy.renewal]

=============================================================================
