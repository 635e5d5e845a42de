---------------------------- MODULE OneShotLogin ----------------------------
(***************************************************************************)
(* What a login with Steam promises, by QR code or by redirection: one     *)
(* user confirms it, once; what was confirmed is used at most once; and a  *)
(* login that is lost never comes back.                                    *)
(***************************************************************************)
CONSTANTS Login, SteamUser, NoUser

VARIABLES
  phase,   \* phase[l]: where login l stands
  user     \* user[l]: who has confirmed it, or NoUser

loginVars == <<phase, user>>

LoginInit ==
  /\ phase = [l \in Login |-> "open"]
  /\ user = [l \in Login |-> NoUser]

ConfirmLogin(l, u) ==
  /\ phase[l] = "open"
  /\ user' = [user EXCEPT ![l] = u]
  /\ phase' = [phase EXCEPT ![l] = "confirmed"]

UseLogin(l) ==
  /\ phase[l] = "confirmed"
  /\ phase' = [phase EXCEPT ![l] = "used"]
  /\ UNCHANGED user

(* Some logins expire, fail or are forgotten.                              *)
LoseLogins(L) ==
  /\ L \subseteq {l \in Login : phase[l] \in {"open", "confirmed"}}
  /\ UNCHANGED user
  /\ phase' = [l \in Login |-> IF l \in L THEN "lost" ELSE phase[l]]

LoginNext ==
  \/ \E l \in Login, u \in SteamUser : ConfirmLogin(l, u)
  \/ \E l \in Login : UseLogin(l)
  \/ \E L \in SUBSET Login : LoseLogins(L)

LoginSpec == LoginInit /\ [][LoginNext]_loginVars

=============================================================================
