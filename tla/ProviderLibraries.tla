-------------------------- MODULE ProviderLibraries --------------------------
(***************************************************************************)
(* What a sync makes of a provider's answers: which games an account owns  *)
(* there, whether the list is taken for complete, and so which stored      *)
(* ownerships go (services/import_providers.py, services/sync_service.py). *)
(*                                                                         *)
(* The provider may fail at any request, leave titles out, and hand out    *)
(* pages that overlap, repeat or end early.  One sync runs at a time, in   *)
(* one transaction.                                                        *)
(***************************************************************************)
EXTENDS Integers, FiniteSets

CONSTANTS
  Item,       \* entries a library may have
  NonGame,    \* those that are no PC games
  Classic,    \* those that Battle.net lists as classic games
  MaxCursor   \* bound on the cursors of a paged library

ASSUME LibrariesAssumption ==
  /\ IsFiniteSet(Item) /\ NonGame \subseteq Item /\ Classic \subseteq Item
  /\ MaxCursor \in Nat

Libraries == {"steam", "epic", "gog", "xbox", "ubisoft", "ea",
              "amazon", "battle_net", "humble", "meta"}

(* authoritative_library: Xbox and Ubisoft only ever add.                  *)
Authoritative == Libraries \ {"xbox", "ubisoft"}

Unknown == -1

VARIABLES
  library,   \* the provider
  owned,     \* what the account owns there; constant while a sync runs
  untitled,  \* what the provider does not name during this sync
  stored,    \* the account's ownerships in the database
  sync,      \* the sync under way
  gap        \* an answer has hidden something unnoticed (for the properties)

libVars == <<library, owned, untitled, stored, sync, gap>>

(* games: what has been recognised; complete: authoritative_snapshot so    *)
(* far; received: how many entries EA has sent; declared: EA's totalCount; *)
(* delivered: which entries have been sent; cursor, seen: the page asked   *)
(* for next, the pages asked for; left: what is still to be asked about.   *)
SyncState == [phase : {"idle", "read", "fallback", "done", "failed"},
              games : SUBSET Item, complete : BOOLEAN,
              received : Nat, declared : Nat \cup {Unknown},
              delivered : SUBSET Item, cursor : 0..MaxCursor,
              seen : SUBSET (0..MaxCursor), left : SUBSET Item]

NoSync == [phase |-> "idle", games |-> {}, complete |-> TRUE,
           received |-> 0, declared |-> Unknown,
           delivered |-> {}, cursor |-> 0, seen |-> {}, left |-> {}]

LibInit ==
  /\ library \in Libraries
  /\ owned \in SUBSET Item
  /\ untitled = {}
  /\ stored = {}
  /\ sync = NoSync
  /\ gap = FALSE

(* Those that say which entries are games for a PC.                        *)
Filtering == {"steam", "epic", "xbox", "ubisoft", "amazon", "humble"}

(* _game_from_mapping and its like: entries without a title are skipped,   *)
(* and so is what is known to be no game.                                  *)
Recognised(P) == P \ (untitled \cup (IF library \in Filtering THEN NonGame ELSE {}))

Reading(l) == library = l /\ sync.phase = "read"

Fixed == UNCHANGED <<library, owned, untitled, stored>>

(* The provider's answer as a whole.                                       *)
Answer(games, complete, hidden) ==
  /\ sync' = [sync EXCEPT !.phase = "done", !.games = games, !.complete = complete]
  /\ gap' = hidden
  /\ Fixed

(* Most providers refuse to believe in an empty library.                   *)
AnswerUnlessEmpty(games, complete, hidden) ==
  games # {} /\ Answer(games, complete, hidden)

-----------------------------------------------------------------------------
(* A sync.                                                                 *)

(* _sync_account_unlocked starts to read.                                  *)
BeginSync ==
  /\ sync.phase = "idle"
  /\ untitled' \in SUBSET owned
  /\ sync' = [NoSync EXCEPT !.phase = "read", !.left = owned]
  /\ gap' = FALSE
  /\ UNCHANGED <<library, owned, stored>>

(* A request fails, or the answer is of no use: the sync raises.           *)
RequestFails ==
  /\ sync.phase = "read"
  /\ library = "ea" => sync.games = {} /\ sync.cursor \notin sync.seen
  /\ sync' = [sync EXCEPT !.phase = "failed"]
  /\ UNCHANGED gap
  /\ Fixed

(* Faulty variant: whatever was read is taken for all.                     *)
ReconciledAlways == sync.games

(* Faulty variant: nothing is ever taken away.                             *)
ReconciledNever == stored \cup sync.games

(* _reconcile_account_ownerships: a complete list of an authoritative      *)
(* library replaces what is stored, any other list adds to it (free games  *)
(* and ownerships confirmed by hand, which it leaves alone, are not here). *)
Reconciled ==
  IF sync.complete /\ library \in Authoritative THEN sync.games ELSE stored \cup sync.games

(* The commit, or the roll back.                                           *)
FinishSync ==
  /\ \/ sync.phase = "done" /\ stored' = Reconciled
     \/ sync.phase = "failed" /\ UNCHANGED stored
  /\ sync' = NoSync
  /\ untitled' = {}
  /\ gap' = FALSE
  /\ UNCHANGED <<library, owned>>

(* Between syncs games are bought and given back.                          *)
ChangeLibrary(i) ==
  /\ sync.phase = "idle"
  /\ owned' = IF i \in owned THEN owned \ {i} ELSE owned \cup {i}
  /\ UNCHANGED <<library, untitled, stored, sync, gap>>

-----------------------------------------------------------------------------
(* Libraries that come as one answer.                                      *)

(* _load_store_metadata: within its budget the store tells of some entries *)
(* that they are no games.                                                 *)
StoreTypesKnown(P) == SUBSET (P \cap NonGame)

(* The licences of a stored login, if they can be read, and what the Web   *)
(* API shows, if there is a key: one of them is enough.                    *)
SteamLibrary ==
  /\ Reading("steam")
  /\ \E licensed \in {TRUE, FALSE}, visible \in {<<FALSE, {}>>} \cup ({TRUE} \X SUBSET owned) :
       LET listed == (IF licensed THEN owned \ untitled ELSE {}) \cup visible[2] IN
       /\ licensed \/ visible[1]
       /\ \E known \in StoreTypesKnown(listed) :
            Answer(listed \ known, TRUE, ~licensed)

(* Legendary's list; no output counts as an empty one.                     *)
EpicLibrary ==
  /\ Reading("epic")
  /\ \/ Answer(Recognised(owned), TRUE, FALSE)
     \/ Answer({}, TRUE, owned # {})

(* Each product is asked about; one that fails or has no title is skipped  *)
(* with a warning, unless all are.  A document that does not say what is   *)
(* owned counts as an empty library.                                       *)
GogLibrary ==
  /\ Reading("gog")
  /\ \/ \E reached \in SUBSET owned :
          LET skipped == owned \ (reached \ untitled) IN
          /\ skipped # owned \/ owned = {}
          /\ Answer(Recognised(reached), skipped = {}, FALSE)
     \/ Answer({}, TRUE, owned # {})

(* The title history, which Microsoft may shorten.                         *)
XboxLibrary ==
  /\ Reading("xbox")
  /\ \E shown \in SUBSET owned : AnswerUnlessEmpty(Recognised(shown), TRUE, FALSE)

(* The club's list and five others, of which any may fail.                 *)
UbisoftLibrary ==
  /\ Reading("ubisoft")
  /\ \E shown \in SUBSET owned : AnswerUnlessEmpty(Recognised(shown), TRUE, FALSE)

(* Two lists, of which either may be missing: the accounts' if their       *)
(* document does not hold it, the classic games' also if its request       *)
(* fails.  Nothing at all is not believed.                                 *)
BattleNetLibrary ==
  /\ Reading("battle_net")
  /\ \E missing \in SUBSET {"accounts", "classics"} :
       LET shown == {i \in owned : (IF i \in Classic THEN "classics" ELSE "accounts") \notin missing} IN
       AnswerUnlessEmpty(Recognised(shown), TRUE, shown # owned)

-----------------------------------------------------------------------------
(* Libraries that come in parts.                                           *)

(* The next part, from which an answer may leave anything out, or the end, *)
(* where nothing at all is not believed.                                   *)
PartRead ==
  \/ \E part \in (SUBSET sync.left) \ {{}}, readable \in BOOLEAN :
       /\ sync' = [sync EXCEPT !.left = @ \ part,
                     !.games = IF readable THEN @ \cup Recognised(part) ELSE @]
       /\ gap' = (gap \/ ~readable)
       /\ Fixed
  \/ sync.left = {} /\ AnswerUnlessEmpty(sync.games, TRUE, gap)

(* Humble's orders by the forty: an answer that is no object is skipped.   *)
HumbleOrders ==
  /\ Reading("humble")
  /\ PartRead

(* Each of Meta's documents lists a part of the library; one without data  *)
(* adds nothing.                                                           *)
MetaDocuments ==
  /\ Reading("meta")
  /\ PartRead

(* Amazon's pages, up to one without a token; a token that comes again is  *)
(* followed again.                                                         *)
AmazonPage ==
  /\ Reading("amazon")
  /\ \E page \in SUBSET owned :
       LET games     == sync.games \cup Recognised(page)
           delivered == sync.delivered \cup page IN
       \/ /\ sync' = [sync EXCEPT !.games = games, !.delivered = delivered]
          /\ UNCHANGED gap
          /\ Fixed
       \/ AnswerUnlessEmpty(games, TRUE, delivered # owned)

-----------------------------------------------------------------------------
(* EA: pages with a declared total, then the older Origin interface.       *)

(* What follows the last page: fewer entries than declared were sent.      *)
Short(received, declared) == declared # Unknown /\ received < declared

EaPagesEnd(state, hidden) ==
  /\ sync' = [state EXCEPT !.phase = "fallback",
                !.complete = @ /\ ~Short(state.received, state.declared)]
  /\ gap' = hidden
  /\ Fixed

(* Faulty variant: a cursor that comes again is followed again.            *)
EaPageAgain ==
  /\ Reading("ea")
  /\ \E page \in SUBSET owned, declared \in {sync.declared, Cardinality(owned)} :
       LET state == [sync EXCEPT
             !.seen = @ \cup {sync.cursor},
             !.games = @ \cup Recognised(page), !.received = @ + Cardinality(page),
             !.declared = declared, !.delivered = @ \cup page,
             !.complete = @ /\ page \cap untitled = {}]
           repeated == page \cap sync.delivered # {} IN
       \/ \E next \in 0..MaxCursor :
            /\ sync' = [state EXCEPT !.cursor = next]
            /\ gap' = (gap \/ repeated)
            /\ Fixed
       \/ EaPagesEnd(state, gap \/ repeated \/ (declared = Unknown /\ state.delivered # owned))

(* A page: entries without a title make the list incomplete.               *)
EaPage ==
  /\ Reading("ea")
  /\ sync.cursor \notin sync.seen
  /\ \E page \in SUBSET owned, declared \in {sync.declared, Cardinality(owned)} :
       LET state == [sync EXCEPT
             !.seen = @ \cup {sync.cursor},
             !.games = @ \cup Recognised(page), !.received = @ + Cardinality(page),
             !.declared = declared, !.delivered = @ \cup page,
             !.complete = @ /\ page \cap untitled = {}]
           repeated == page \cap sync.delivered # {} IN
       \/ \E next \in 0..MaxCursor :
            /\ sync' = [state EXCEPT !.cursor = next]
            /\ gap' = (gap \/ repeated)
            /\ Fixed
       \/ EaPagesEnd(state, gap \/ repeated \/ (declared = Unknown /\ state.delivered # owned))

(* A later page fails, or the cursor repeats: what was read is kept.       *)
EaPageFails ==
  /\ Reading("ea")
  /\ sync.games # {} \/ sync.cursor \in sync.seen
  /\ EaPagesEnd([sync EXCEPT !.complete = FALSE], gap)

(* _ea_origin_imported_games: games that only Origin knows of show that    *)
(* the pages were not complete; it may fail.                               *)
EaOrigin ==
  /\ library = "ea" /\ sync.phase = "fallback"
  /\ \E known \in SUBSET (owned \ NonGame) :
       LET added == known \ sync.games
           games == sync.games \cup known IN
       IF games = {} /\ sync.declared # 0
       THEN /\ sync' = [sync EXCEPT !.phase = "failed"]
            /\ UNCHANGED gap
            /\ Fixed
       ELSE Answer(games, sync.complete /\ added = {}, gap)

-----------------------------------------------------------------------------

ReadLibrary ==
  \/ SteamLibrary \/ EpicLibrary \/ GogLibrary \/ XboxLibrary \/ UbisoftLibrary
  \/ BattleNetLibrary \/ HumbleOrders \/ MetaDocuments \/ AmazonPage
  \/ EaPage \/ EaPageFails \/ EaOrigin

LibNext ==
  \/ BeginSync \/ RequestFails \/ ReadLibrary \/ FinishSync
  \/ \E i \in Item : ChangeLibrary(i)

(* Requests have timeouts: a sync goes on as long as it has something to   *)
(* do.                                                                     *)
LibFairness == WF_libVars(ReadLibrary \/ RequestFails) /\ WF_libVars(FinishSync)

LibSpec == LibInit /\ [][LibNext]_libVars /\ LibFairness

-----------------------------------------------------------------------------
(* Properties.                                                             *)

LibTypeOK ==
  /\ library \in Libraries
  /\ owned \subseteq Item
  /\ untitled \subseteq owned
  /\ stored \subseteq Item
  /\ sync \in SyncState
  /\ gap \in BOOLEAN

(* A sync takes no game away that the account still owns, unless an answer *)
(* hid games and was taken for complete, or, but for GOG and EA, left the  *)
(* title out.  Such answers (gap) are: Steam's Web API without the         *)
(* licences, Epic's without output, GOG's without 'owned', a list that     *)
(* Battle.net misses, an order of Humble's that is no object, a document   *)
(* of Meta's without data, pages of Amazon's that leave games out, and     *)
(* EA's pages that repeat, or that end early without a total.  What fails  *)
(* otherwise costs nothing: EA's pages that fail or fall short, GOG's      *)
(* products that cannot be read, a request that raises.                    *)
OwnedGamesStay ==
  [][\A i \in Item \ NonGame :
       i \in owned /\ i \in stored /\ i \notin stored' =>
         gap \/ (i \in untitled /\ library \notin {"gog", "ea"})]_libVars

(* A complete list of an authoritative library leaves nothing stored that  *)
(* the account has given back; Xbox and Ubisoft never take anything away.  *)
GivenBackGamesGo ==
  [][/\ sync.phase = "done" /\ sync.complete /\ library \in Authoritative /\ FinishSync
          => stored' \subseteq owned
     /\ library \notin Authoritative => stored \subseteq stored']_libVars

(* A sync ends, and frees SYNC_LOCK for the others, though EA's cursors    *)
(* come again; they are finitely many here, ever new ones would keep it    *)
(* reading.  Amazon's tokens may lead it in circles.                       *)
SyncEnds == (sync.phase = "read" /\ library # "amazon") ~> (sync.phase = "idle")

=============================================================================
