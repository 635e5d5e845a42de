-------------------------- MODULE Recommendations --------------------------
(***************************************************************************)
(* Which games are recommended to a group, and in which order, while the   *)
(* libraries of its members come, fail and go                              *)
(* (services/recommendations.py).  Scores are shown but decide nothing,    *)
(* and are left out.                                                       *)
(***************************************************************************)
EXTENDS Integers, FiniteSets, FiniteSetsExt

CONSTANTS
  Player, Game, Platform,
  Optional,   \* platforms whose accounts count once they have been synced
  MayUse,     \* the platforms each person may have an account on (a bound)
  MayConfirm, \* the rows that may be confirmed by hand (a bound)
  About,      \* what the catalogue says of a game
  Minutes     \* the playtime of a person in a game, if any

Row == [person : Player, game : Game, platform : Platform]

ASSUME RecommendationsAssumption ==
  /\ IsFiniteSet(Player)
  /\ Optional \subseteq Platform
  /\ MayUse \in [Player -> SUBSET Platform]
  /\ MayConfirm \subseteq Row
  /\ About \in [Game -> [isGame : BOOLEAN, free : BOOLEAN, multi : BOOLEAN,
                         lan : BOOLEAN, online : BOOLEAN, local : BOOLEAN,
                         shared : BOOLEAN, known : BOOLEAN, min : Nat, max : Nat,
                         platforms : SUBSET Platform, title : Nat]]
  /\ Minutes \in [Player -> [Game -> Nat]]

VARIABLES
  accounts,   \* the accounts of each person
  ownerships, \* ownership rows
  confirmed   \* those that somebody has confirmed by hand

recVars == <<accounts, ownerships, confirmed>>

\* synced: last_successful_sync is set; failed: last_error is set.
NoAccount == [synced |-> FALSE, failed |-> FALSE, is |-> FALSE]
Account(synced, failed) == [synced |-> synced, failed |-> failed, is |-> TRUE]

RecInit ==
  /\ accounts = [p \in Player |-> [pl \in Platform |-> NoAccount]]
  /\ ownerships = {}
  /\ confirmed = {}

-----------------------------------------------------------------------------
(* The library.                                                            *)

Connect(p, pl) ==
  /\ pl \in MayUse[p] /\ ~accounts[p][pl].is
  /\ accounts' = [accounts EXCEPT ![p][pl] = Account(FALSE, FALSE)]
  /\ UNCHANGED <<ownerships, confirmed>>

(* What a sync replaces, and what goes with an account: all but what was   *)
(* confirmed by hand.                                                      *)
ListedOnly(p, pl) == {r \in ownerships \ confirmed : r.person = p /\ r.platform = pl}

SyncSucceeds(p, pl, games) ==
  /\ accounts[p][pl].is
  /\ accounts' = [accounts EXCEPT ![p][pl] = Account(TRUE, FALSE)]
  /\ ownerships' = (ownerships \ ListedOnly(p, pl))
              \cup {[person |-> p, game |-> g, platform |-> pl] : g \in games}
  /\ UNCHANGED confirmed

SyncFails(p, pl) ==
  /\ accounts[p][pl].is
  /\ accounts' = [accounts EXCEPT ![p][pl].failed = TRUE]
  /\ UNCHANGED <<ownerships, confirmed>>

Disconnect(p, pl) ==
  /\ accounts[p][pl].is
  /\ accounts' = [accounts EXCEPT ![p][pl] = NoAccount]
  /\ ownerships' = ownerships \ ListedOnly(p, pl)
  /\ UNCHANGED confirmed

(* create_manual_ownership: anybody says what he owns, and where, with or  *)
(* without an account there.                                               *)
Confirm(row) ==
  /\ About[row.game].isGame
  /\ ownerships' = ownerships \cup {row}
  /\ confirmed' = confirmed \cup {row}
  /\ UNCHANGED accounts

(* delete_manual_ownership: the row may stay if an account has it too.     *)
Withdraw(row) ==
  /\ row \in confirmed
  /\ confirmed' = confirmed \ {row}
  /\ \/ ownerships' = ownerships \ {row}
     \/ accounts[row.person][row.platform].is /\ UNCHANGED ownerships
  /\ UNCHANGED accounts

RecNext ==
  \/ \E p \in Player, pl \in Platform :
       \/ Connect(p, pl) \/ SyncFails(p, pl) \/ Disconnect(p, pl)
       \/ \E games \in SUBSET Game : SyncSucceeds(p, pl, games)
  \/ \E row \in MayConfirm : Confirm(row) \/ Withdraw(row)

RecSpec == RecInit /\ [][RecNext]_recVars

-----------------------------------------------------------------------------
(* Who counts for a game.                                                  *)

Relevant(g, S) == {r \in ownerships : r.game = g /\ r.person \in S}

(* Faulty variant: what a failing account lists does not count.            *)
OwnerCountOfReadable(g, S) ==
  Cardinality({r.person : r \in {x \in Relevant(g, S) : ~accounts[x.person][x.platform].failed}})

OwnerCount(g, S) == Cardinality({r.person : r \in Relevant(g, S)})

IsOwner(p, g) == \E r \in ownerships : r.person = p /\ r.game = g

GamePlatforms(g, S) == About[g].platforms \cup {r.platform : r \in Relevant(g, S)}

(* Faulty variant: a library that was read once stays known.               *)
LibraryUnknownUntilRead(p, platforms) ==
  \A pl \in Platform : accounts[p][pl].is => ~accounts[p][pl].synced

(* _library_is_unknown_for_game: nothing was ever to be read, or what is   *)
(* relevant for the game could not be.                                     *)
LibraryUnknown(p, platforms) ==
  LET counting == {pl \in Platform : accounts[p][pl].is
                                     /\ (pl \in Optional => accounts[p][pl].synced)} IN
  \/ counting = {}
  \/ \E pl \in counting \cap platforms : accounts[p][pl].failed \/ ~accounts[p][pl].synced

FreeForGroup(g, free) == About[g].free /\ free

UnknownPlayers(g, S, free) ==
  IF FreeForGroup(g, free) THEN {}
  ELSE {p \in S : ~IsOwner(p, g) /\ LibraryUnknown(p, GamePlatforms(g, S))}

KnownCount(g, S, free) == Cardinality(S \ UnknownPlayers(g, S, free))

Available(g, S, free) ==
  IF FreeForGroup(g, free) THEN Cardinality(S) ELSE OwnerCount(g, S)

(* The share of the known players that can play it.                        *)
Covered(g, S, percent, free) ==
  Available(g, S, free) * 100 >= percent * KnownCount(g, S, free)

(* No size is asked for.                                                   *)
AnySize == -1

(* The filters of the query: coop, lan, the size of the group.             *)
Suitable(g, coop, lan, size) ==
  LET a == About[g] IN
  /\ a.isGame
  /\ coop => a.local \/ a.online \/ a.shared
  /\ lan => a.lan
  /\ size # AnySize => ~a.known \/ (a.min <= size /\ size <= a.max)
  /\ size > 1 => a.multi \/ a.lan \/ a.local \/ a.online

(* _recommendations_for_participants.                                      *)
Recommended(S, coop, lan, size, percent, free) ==
  {g \in Game : /\ Suitable(g, coop, lan, size)
                /\ Relevant(g, S) # {}
                /\ Covered(g, S, percent, free)}

CommonGames(S, percent, free) == Recommended(S, FALSE, FALSE, AnySize, percent, free)
CommonCoopGames(S) == Recommended(S, TRUE, FALSE, AnySize, 100, TRUE)
CommonLanGames(S) == Recommended(S, FALSE, TRUE, AnySize, 100, TRUE)
BestLanGames(S) == Recommended(S, FALSE, TRUE, Cardinality(S), 0, TRUE)
AnyGames(S) == Recommended(S, FALSE, FALSE, AnySize, 0, TRUE)
GroupSizeGames(S, size) == Recommended(S, FALSE, FALSE, size, 0, TRUE)

-----------------------------------------------------------------------------
(* Their order.                                                            *)

PlaytimeOf(p, g) == Minutes[p][g] * Cardinality({r \in ownerships : r.person = p /\ r.game = g})

Total(g, S) == MapThenSumSet(LAMBDA p : PlaytimeOf(p, g), S)

(* The k-th smallest playtime among the owners.                            *)
Smallest(k, g, owners) ==
  CHOOSE m \in {PlaytimeOf(p, g) : p \in owners} :
    /\ Cardinality({p \in owners : PlaytimeOf(p, g) <= m}) >= k
    /\ Cardinality({p \in owners : PlaytimeOf(p, g) < m}) < k

(* Twice the median.                                                       *)
Median(g, S) ==
  LET owners == {p \in S : IsOwner(p, g)}
      n == Cardinality(owners) IN
  Smallest((n + 1) \div 2, g, owners) + Smallest(n \div 2 + 1, g, owners)

Truth(b) == IF b THEN 1 ELSE 0

(* Faulty variant: what is free for the group goes before what all own.    *)
AvailabilityFreeFirst(g, S, free) ==
  IF FreeForGroup(g, free) THEN 3 ELSE IF OwnerCount(g, S) = Cardinality(S) THEN 2 ELSE 1

Availability(g, S, free) ==
  IF OwnerCount(g, S) = Cardinality(S) THEN 3 ELSE IF FreeForGroup(g, free) THEN 2 ELSE 1

(* _sort_key; shares of up to five players come in sixtieths.               *)
SortKey(g, S, mode, free) ==
  LET a == About[g]
      n == OwnerCount(g, S)
      total == Total(g, S) IN
  CASE mode = "common" -> <<Availability(g, S, free), n,
                            (Available(g, S, free) * 60) \div KnownCount(g, S, free),
                            Median(g, S), total, a.max, a.title>>
    [] mode = "coop"   -> <<Truth(a.online), Truth(a.local), n, a.max, total, a.title>>
    [] mode = "lan"    -> <<n, a.max, total, a.title>>
    [] mode = "size"   -> <<n, total, a.max, a.title>>
    [] mode = "new"    -> <<-Median(g, S), -((total * 60) \div n), n,
                            (Available(g, S, free) * 60) \div KnownCount(g, S, free),
                            a.max, a.title>>
    [] OTHER           -> <<n, Median(g, S), total, a.title>>

(* Sorted in reverse: the greater key goes first.                          *)
Before(g, h, S, mode, free) ==
  LET k == SortKey(g, S, mode, free)
      l == SortKey(h, S, mode, free) IN
  \E i \in DOMAIN k : k[i] > l[i] /\ \A j \in 1..(i - 1) : k[j] = l[j]

-----------------------------------------------------------------------------
(* Properties.                                                             *)

RecTypeOK ==
  /\ accounts \in [Player -> [Platform -> [synced : BOOLEAN, failed : BOOLEAN, is : BOOLEAN]]]
  /\ ownerships \subseteq Row
  /\ confirmed \subseteq Row
  /\ \A r \in ownerships \ confirmed : accounts[r.person][r.platform].is

Group == (SUBSET Player) \ {{}}

(* Nobody is counted twice: owners are among the players whose library is  *)
(* known, those among the selected ones, and so no share exceeds one or    *)
(* has nobody to be a share of.                                            *)
SharesAreShares ==
  \A S \in Group, free \in BOOLEAN, g \in Game :
    Relevant(g, S) # {} =>
      /\ OwnerCount(g, S) <= Available(g, S, free)
      /\ Available(g, S, free) <= KnownCount(g, S, free)
      /\ 0 < KnownCount(g, S, free)

(* A common game is one that each member owns or that is free, except for  *)
(* members of whom nothing is known: those that have no account that was   *)
(* ever to be read, or whose account on a platform of the game could not.  *)
CommonMeansAll ==
  \A S \in Group, free \in BOOLEAN, g \in Game :
    g \in CommonGames(S, 100, free) <=>
      /\ About[g].isGame
      /\ \E p \in S : IsOwner(p, g)
      /\ \A p \in S :
           \/ IsOwner(p, g)
           \/ About[g].free /\ free
           \/ \A pl \in Platform :
                accounts[p][pl].is => pl \in Optional /\ ~accounts[p][pl].synced
           \/ \E pl \in GamePlatforms(g, S) :
                /\ accounts[p][pl].is /\ (pl \in Optional => accounts[p][pl].synced)
                /\ (accounts[p][pl].failed \/ ~accounts[p][pl].synced)

(* No list loses a game because somebody has got one, or because a library *)
(* could not be read.                                                      *)
ListsOnlyGrow ==
  [][\/ UNCHANGED accounts /\ ownerships # ownerships' /\ ownerships \subseteq ownerships'
     \/ \E p \in Player, pl \in Platform : ~accounts[p][pl].failed /\ SyncFails(p, pl)
     => \A S \in Group :
          /\ \A percent \in {60, 100}, free \in BOOLEAN :
               CommonGames(S, percent, free) \subseteq CommonGames(S, percent, free)'
          /\ CommonCoopGames(S) \subseteq CommonCoopGames(S)'
          /\ CommonLanGames(S) \subseteq CommonLanGames(S)'
          /\ BestLanGames(S) \subseteq BestLanGames(S)'
          /\ GroupSizeGames(S, 2) \subseteq GroupSizeGames(S, 2)']_recVars

(* What all members own comes first among the common games.  Where owners  *)
(* are the first thing to count, in the orders for a LAN, for a size and   *)
(* by popularity, more of them win, and among the common games unless the  *)
(* other is free for the group.  (Coop goes by online and local play       *)
(* first, new by playtimes.)                                               *)
OwnersDecide ==
  \A S \in Group, free \in BOOLEAN : \A g, h \in AnyGames(S) :
    /\ OwnerCount(g, S) = Cardinality(S) /\ OwnerCount(h, S) < Cardinality(S)
         => Before(g, h, S, "common", free)
    /\ OwnerCount(g, S) > OwnerCount(h, S)
         => /\ \A mode \in {"lan", "size", "popular"} : Before(g, h, S, mode, free)
            /\ Before(g, h, S, "common", free) \/ FreeForGroup(h, free)

=============================================================================
