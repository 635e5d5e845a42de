------------------------------ MODULE MCPeople ------------------------------
(***************************************************************************)
(* What is kept about people, for TLC: Steam logins, the credential files  *)
(* of the other providers, and the usage log.  The three share no state    *)
(* (credentials lie in directories per provider and account), so that one  *)
(* moves while the others rest shows all there is to see.  Steam and the   *)
(* log do not care which providers the other accounts have.                *)
(***************************************************************************)
EXTENDS SteamLogin, ProviderCredentials, UsageLog, TLC

CONSTANTS ann, bob

PeopleInit == SteamInit /\ CredInit /\ LogInit

CredentialsRest == CredInit /\ platform = [a \in ProviderAccount |-> "xbox"]
LogRests == LogInit /\ purged = Never

(* Of a harmed account only FileOfOneLogin still says something, and       *)
(* nothing undoes the harm: the credentials stop there.                    *)
Unharmed == harmed = {}

(* The period of the party matters to summaries only, which show nothing   *)
(* of a request under way.  It may be set at any time, to any period, so   *)
(* that it is enough to set it last: nothing begins once there is one.     *)
PartyLast == party' = NoParty \/ (leaving' = Anonymous /\ adding' = Idle)

PeopleNext ==
  \/ CredentialsRest /\ LogRests /\ SteamNext /\ UNCHANGED <<credVars, logVars>>
  \/ SteamInit /\ LogRests /\ Unharmed /\ CredNext /\ UNCHANGED <<steamVars, logVars>>
  \/ SteamInit /\ CredentialsRest /\ LogNext /\ PartyLast
     /\ UNCHANGED <<steamVars, credVars>>

PeopleVars == <<steamVars, credVars, logVars>>
PeopleSpec == PeopleInit /\ [][PeopleNext]_PeopleVars

PeopleSymmetry ==
  Permutations(SteamUser) \cup Permutations(Handler) \cup Permutations(Thread)
  \cup Permutations(Person)

-----------------------------------------------------------------------------
MCEntry ==
  {[type |-> "find_players_search", game |-> 1, players |-> {}],
   [type |-> "group_games_search", game |-> 0, players |-> {ann, bob}]}

MCParty == {[start |-> 2, end |-> -1], [start |-> 1, end |-> 3]}

MCLocalDay == 0 :> 0 @@ 1 :> 0 @@ 2 :> 1 @@ 3 :> 1 @@ 4 :> 1 @@ 5 :> 2

=============================================================================
