---------------------------- MODULE GameMatching ----------------------------
(***************************************************************************)
(* How a provider's entries find their games (services/sync_service.py,    *)
(* resolve_game): the table of games, the table that maps a provider's id  *)
(* to a game, and what writes them: syncs, Playnite and GOG Galaxy imports *)
(* (each one transaction over many entries), and the requests that rename  *)
(* and delete games (api/games.py).                                        *)
(*                                                                         *)
(* Transactions are READ COMMITTED: a transaction sees what is committed   *)
(* and what it has written itself.  A mapping that is to move is moved a   *)
(* step after it was looked up, wherever it points by then; if it or the   *)
(* new game is gone, the flush fails.  A new mapping is looked for and     *)
(* made in one step: nobody sees it before the commit, so it may as well   *)
(* be made at once.                                                        *)
(***************************************************************************)
EXTENDS Integers, FiniteSets

CONSTANTS
  Worker,    \* threads: syncs, imports, requests
  SteamId,   \* numeric Steam app ids
  OtherId,   \* ids of other providers, and Steam ids that are no numbers
  Title,     \* normalised titles
  NoTitle,   \* the title of a game that does not exist
  Similar,   \* pairs of different titles that count as one game
  Names,     \* Names[i]: the titles a provider may give id i (a bound)
  Edited,    \* the titles a person may give a game (a bound)
  Related,   \* sets of ids GOG Galaxy gives as releases of one entry
  MaxGames,  \* bound on the games ever made
  MaxRows    \* bound on the mapping rows ever made

ASSUME MatchingAssumption ==
  /\ SteamId \cap OtherId = {}
  /\ IsFiniteSet(SteamId \cup OtherId)
  /\ NoTitle \notin Title
  /\ Similar \subseteq Title \X Title
  /\ Names \in [SteamId \cup OtherId -> SUBSET Title]
  /\ Edited \subseteq Title
  /\ Related \subseteq SUBSET (SteamId \cup OtherId)
  /\ {} \in Related
  /\ MaxGames \in Nat
  /\ MaxRows \in Nat

Id     == SteamId \cup OtherId
Game   == 1..MaxGames
NoGame == 0

(* A row of platform_game_mappings: its id, and the game.                  *)
NoMapping == [row |-> 0, game |-> NoGame]
Mapping   == [row : Nat \ {0}, game : Game] \cup {NoMapping}

(* What a transaction has found for an id: the title it looked for.        *)
Finding   == [title : Title \cup {NoTitle}, game : Game \cup {NoGame}]
NoFinding == [title |-> NoTitle, game |-> NoGame]

(* A decision about an id: the mapping that was read and the game chosen,  *)
(* NoGame for a new one.                                                   *)
Plan == [id : Id, title : Title, releases : SUBSET Id, old : Mapping,
         game : Game \cup {NoGame}]

VARIABLES
  title,       \* title[g]: the normalised title of game g, or NoTitle
  mapping,     \* mapping[i]: the mapping of id i, or NoMapping
  lastGame,    \* the last ids handed out; a roll back does not return them
  lastRow,
  job,         \* job[w]: the transaction of worker w
  plan,        \* plan[w]: the move it has decided and not yet flushed, a
               \* set of one or none
  recall,      \* recall[i]: what the last commit found for i, until the
               \* game is renamed or deleted (kept for the properties)
  overlapped   \* two transactions have been open at once (likewise)

vars == <<title, mapping, lastGame, lastRow, job, plan, recall, overlapped>>

(* created, wrote: rows the transaction has flushed; found: what it has    *)
(* resolved; related: releases still to be added to game; victims: the     *)
(* rows to delete with game; alone: no other transaction has been open     *)
(* since it began.                                                         *)
Job == [op : {"idle", "open", "related", "delete"},
        game : Game \cup {NoGame}, related : SUBSET Id, victims : SUBSET Nat,
        created : [Game -> Title \cup {NoTitle}], wrote : [Id -> Mapping],
        found : [Id -> Finding], alone : BOOLEAN]

Idle == [op |-> "idle", game |-> NoGame, related |-> {}, victims |-> {},
         created |-> [g \in Game |-> NoTitle],
         wrote |-> [i \in Id |-> NoMapping],
         found |-> [i \in Id |-> NoFinding], alone |-> FALSE]

Init ==
  /\ title = [g \in Game |-> NoTitle]
  /\ mapping = [i \in Id |-> NoMapping]
  /\ lastGame = 0
  /\ lastRow = 0
  /\ job = [w \in Worker |-> Idle]
  /\ plan = [w \in Worker |-> {}]
  /\ recall = [i \in Id |-> NoFinding]
  /\ overlapped = FALSE

-----------------------------------------------------------------------------
(* What a transaction sees.                                                *)

TitleSeen(w, g) ==
  IF job[w].created[g] # NoTitle THEN job[w].created[g] ELSE title[g]

MappingSeen(w, i) ==
  IF job[w].wrote[i] # NoMapping THEN job[w].wrote[i] ELSE mapping[i]

(* _compatible_for_fuzzy_match                                             *)
Compatible(existing, imported) ==
  existing = imported \/ <<existing, imported>> \in Similar

(* _steam_mapping_conflicts: games that belong to another Steam app.       *)
SteamMappingConflicts(w, i) ==
  {MappingSeen(w, s).game : s \in SteamId \ {i}} \ {NoGame}

(* Faulty variant: Steam apps of one title share a game.                   *)
CandidatesOfAnyApp(w, i, exclude) ==
  {g \in Game \ {exclude} : TitleSeen(w, g) # NoTitle}

Candidates(w, i, exclude) ==
  {g \in Game \ {exclude} : /\ TitleSeen(w, g) # NoTitle
                            /\ i \in SteamId => g \notin SteamMappingConflicts(w, i)}

(* _find_or_create_game: a game of that very title, else a similar one     *)
(* (whichever has the best score), else a new one.                         *)
FindGames(w, i, t, exclude) ==
  LET all   == Candidates(w, i, exclude)
      exact == {g \in all : TitleSeen(w, g) = t}
      fuzzy == {g \in all : Compatible(TitleSeen(w, g), t)}
  IN IF exact # {} THEN exact
     ELSE IF fuzzy # {} THEN fuzzy
     ELSE {NoGame}

(* The oldest mapping of a game to a Steam app is the one that counts.     *)
IsPrimary(w, i) ==
  \A s \in SteamId : MappingSeen(w, s).game = MappingSeen(w, i).game
                       => MappingSeen(w, i).row <= MappingSeen(w, s).row

(* Faulty variants: only the very same title keeps its game; a collision   *)
(* of Steam apps is not noticed.                                           *)
StaysIfEqual(w, i, t) ==
  LET m == MappingSeen(w, i) IN
  /\ m # NoMapping
  /\ i \in SteamId => IsPrimary(w, i)
  /\ TitleSeen(w, m.game) = t

StaysUnlessRenamed(w, i, t) ==
  LET m == MappingSeen(w, i) IN
  m # NoMapping /\ Compatible(TitleSeen(w, m.game), t)

(* A mapped id keeps its game unless the titles no longer fit or another   *)
(* Steam app has the older claim.                                          *)
Stays(w, i, t) ==
  LET m == MappingSeen(w, i) IN
  /\ m # NoMapping
  /\ i \in SteamId => IsPrimary(w, i)
  /\ Compatible(TitleSeen(w, m.game), t)

-----------------------------------------------------------------------------
(* Transactions.                                                           *)

Open(v) == job[v].op # "idle"

(* A row that another transaction has flushed but not committed.           *)
LockedByOthers(w, i) == \E v \in Worker \ {w} : job[v].wrote[i] # NoMapping

Forget(I) == recall' = [i \in Id |-> IF i \in I THEN NoFinding ELSE recall[i]]

(* After an overlap nothing is promised about what was found before.       *)
Overlap(busy) ==
  /\ overlapped' = (overlapped \/ busy)
  /\ Forget(IF busy THEN Id ELSE {})

(* Every transaction that overlaps another makes both no longer alone.     *)
Begin(w, record) ==
  /\ job[w].op = "idle"
  /\ LET busy == \E v \in Worker : Open(v) IN
     /\ job' = [v \in Worker |->
                  IF v = w THEN [record EXCEPT !.alone = ~busy]
                  ELSE [job[v] EXCEPT !.alone = FALSE]]
     /\ Overlap(busy)
  /\ UNCHANGED <<title, mapping, lastGame, lastRow, plan>>

BeginImport(w) == Begin(w, [Idle EXCEPT !.op = "open"])

(* The game the mapping gets: db.flush() has given a new one its id.       *)
GameFlushed(found) == IF found = NoGame THEN lastGame + 1 ELSE found

(* What the transaction has resolved; a Galaxy entry also has releases of  *)
(* other providers.                                                        *)
ResolvedJob(w, i, t, game, releases) ==
  [job[w] EXCEPT !.op = IF releases = {} THEN "open" ELSE "related",
                 !.game = IF releases = {} THEN NoGame ELSE game,
                 !.related = releases,
                 !.found[i] = [title |-> t, game |-> game]]

(* The flush of a decision p: the new game if there is none, then the new  *)
(* mapping or the change of the one that was read.  It waits for rows of   *)
(* others.                                                                 *)
Written(w, p) ==
  LET game == GameFlushed(p.game)
      row  == IF p.old = NoMapping THEN lastRow + 1 ELSE p.old.row
  IN /\ ~LockedByOthers(w, p.id)
     /\ MappingSeen(w, p.id).row = p.old.row
     /\ p.game # NoGame => TitleSeen(w, p.game) # NoTitle
     /\ game <= MaxGames /\ row <= MaxRows
     /\ lastGame' = IF p.game = NoGame THEN game ELSE lastGame
     /\ lastRow' = IF p.old = NoMapping THEN row ELSE lastRow
     /\ job' = [job EXCEPT ![w] =
          [ResolvedJob(w, p.id, p.title, game, p.releases) EXCEPT
             !.created[game] = IF p.game = NoGame THEN p.title ELSE @,
             !.wrote[p.id] = [row |-> row, game |-> game]]]

(* resolve_game for an entry with id i and title t: the mapping stays, or  *)
(* a new one is made, or the one there is to be moved.  A library names an *)
(* id once.                                                                *)
Resolve(w, i, t, releases) ==
  /\ job[w].op = "open"
  /\ plan[w] = {}
  /\ job[w].found[i] = NoFinding
  /\ \/ /\ Stays(w, i, t)
        /\ job' = [job EXCEPT ![w] =
                     ResolvedJob(w, i, t, MappingSeen(w, i).game, releases)]
        /\ UNCHANGED <<lastGame, lastRow, plan>>
     \/ \E g \in FindGames(w, i, t, MappingSeen(w, i).game) :
          LET p == [id |-> i, title |-> t, releases |-> releases,
                    old |-> MappingSeen(w, i), game |-> g] IN
          /\ ~Stays(w, i, t)
          /\ \/ p.old = NoMapping /\ Written(w, p) /\ UNCHANGED plan
             \/ /\ p.old # NoMapping
                /\ plan' = [plan EXCEPT ![w] = {p}]
                /\ UNCHANGED <<lastGame, lastRow, job>>
  /\ UNCHANGED <<title, mapping, recall, overlapped>>

(* mapping.game_id = game.id, flushed after the look: whatever another     *)
(* transaction has committed about that row by now is overwritten.         *)
Flush(w) ==
  \E p \in plan[w] :
    /\ Written(w, p)
    /\ plan' = [plan EXCEPT ![w] = {}]
    /\ UNCHANGED <<title, mapping, recall, overlapped>>

(* The releases that _add_galaxy_related_mappings does not skip.           *)
SteamIdsOf(w, g) == {s \in SteamId : MappingSeen(w, s).game = g}

Addable(w) ==
  LET known     == SteamIdsOf(w, job[w].game)
      ambiguous == known = {} /\ Cardinality(job[w].related \cap SteamId) > 1
  IN {i \in job[w].related :
        /\ i \in SteamId => ~ambiguous /\ (known = {} \/ i \in known)
        /\ MappingSeen(w, i) = NoMapping}

AddRelated(w) ==
  /\ job[w].op = "related"
  /\ Addable(w) = {} \/ TitleSeen(w, job[w].game) # NoTitle
  /\ \A i \in Addable(w) : ~LockedByOthers(w, i)
  /\ lastRow + Cardinality(Addable(w)) <= MaxRows
  /\ \E rows \in [Addable(w) -> lastRow + 1 .. lastRow + Cardinality(Addable(w))] :
       /\ \A i, k \in Addable(w) : rows[i] = rows[k] => i = k
       /\ job' = [job EXCEPT ![w] =
            [job[w] EXCEPT !.op = "open", !.game = NoGame, !.related = {},
                      !.wrote = [i \in Id |-> IF i \in Addable(w)
                                              THEN [row |-> rows[i], game |-> job[w].game]
                                              ELSE job[w].wrote[i]]]]
  /\ lastRow' = lastRow + Cardinality(Addable(w))
  /\ UNCHANGED <<title, mapping, lastGame, plan, recall, overlapped>>

(* The commit at the end of a sync or an import.                           *)
Commit(w) ==
  /\ job[w].op = "open"
  /\ plan[w] = {}
  /\ title' = [g \in Game |-> TitleSeen(w, g)]
  /\ mapping' = [i \in Id |-> MappingSeen(w, i)]
  /\ recall' = [i \in Id |-> IF job[w].found[i] # NoFinding /\ ~overlapped
                             THEN job[w].found[i] ELSE recall[i]]
  /\ job' = [job EXCEPT ![w] = Idle]
  /\ UNCHANGED <<lastGame, lastRow, plan, overlapped>>

(* A conflict, a provider's error or a deadlock rolls everything back.     *)
Fail(w) ==
  /\ Open(w)
  /\ job' = [job EXCEPT ![w] = Idle]
  /\ plan' = [plan EXCEPT ![w] = {}]
  /\ UNCHANGED <<title, mapping, lastGame, lastRow, recall, overlapped>>

(* create_game, update_game: one statement each.                           *)
CreateGame(w, t) ==
  /\ job[w].op = "idle"
  /\ lastGame < MaxGames
  /\ lastGame' = lastGame + 1
  /\ title' = [title EXCEPT ![lastGame + 1] = t]
  /\ Overlap(\E v \in Worker : Open(v))
  /\ job' = [v \in Worker |-> [job[v] EXCEPT !.alone = FALSE]]
  /\ UNCHANGED <<mapping, lastRow, plan>>

UpdateGame(w, g, t) ==
  /\ job[w].op = "idle"
  /\ title[g] \notin {NoTitle, t}
  /\ title' = [title EXCEPT ![g] = t]
  /\ LET busy == \E v \in Worker : Open(v) IN
     /\ overlapped' = (overlapped \/ busy)
     /\ Forget({i \in Id : busy \/ recall[i].game = g})
  /\ job' = [v \in Worker |-> [job[v] EXCEPT !.alone = FALSE]]
  /\ UNCHANGED <<mapping, lastGame, lastRow, plan>>

MappedTo(g) == {i \in Id : mapping[i].game = g}

(* delete_game: the mappings are read with the game; at the commit those   *)
(* rows go, wherever they point by then, and those that still point here.  *)
BeginDelete(w, g) ==
  /\ title[g] # NoTitle
  /\ Begin(w, [Idle EXCEPT !.op = "delete", !.game = g,
                           !.victims = {mapping[i].row : i \in MappedTo(g)}])

(* Faulty variant: mappings of the deleted game stay behind.               *)
CommitDeleteOfGameOnly(w) ==
  /\ job[w].op = "delete"
  /\ title' = [title EXCEPT ![job[w].game] = NoTitle]
  /\ Forget(MappedTo(job[w].game))
  /\ job' = [job EXCEPT ![w] = Idle]
  /\ UNCHANGED <<mapping, lastGame, lastRow, plan, overlapped>>

CommitDelete(w) ==
  LET g == job[w].game
      rows == MappedTo(g) \cup {i \in Id : mapping[i].row \in job[w].victims} IN
  /\ job[w].op = "delete"
  /\ \A i \in rows : ~LockedByOthers(w, i)
  /\ \A v \in Worker, i \in Id : job[v].wrote[i].game # g
  /\ title' = [title EXCEPT ![g] = NoTitle]
  /\ mapping' = [i \in Id |-> IF i \in rows THEN NoMapping ELSE mapping[i]]
  /\ Forget(rows)
  /\ job' = [job EXCEPT ![w] = Idle]
  /\ UNCHANGED <<lastGame, lastRow, plan, overlapped>>

Next ==
  \E w \in Worker :
    \/ BeginImport(w)
    \/ \E i \in Id, releases \in Related : \E t \in Names[i] : Resolve(w, i, t, releases)
    \/ Flush(w)
    \/ AddRelated(w)
    \/ Commit(w)
    \/ Fail(w)
    \/ \E t \in Edited : CreateGame(w, t)
    \/ \E g \in Game, t \in Edited : UpdateGame(w, g, t)
    \/ \E g \in Game : BeginDelete(w, g)
    \/ CommitDelete(w)

Spec == Init /\ [][Next]_vars

-----------------------------------------------------------------------------
(* Properties.                                                             *)

TypeOK ==
  /\ title \in [Game -> Title \cup {NoTitle}]
  /\ mapping \in [Id -> Mapping]
  /\ lastGame \in 0..MaxGames
  /\ lastRow \in 0..MaxRows
  /\ job \in [Worker -> Job]
  /\ plan \in [Worker -> SUBSET Plan]
  /\ recall \in [Id -> Finding]
  /\ overlapped \in BOOLEAN

(* Two Steam apps are never one game (tests/test_sync_service.py,          *)
(* test_resolve_game_never_merges_different_steam_app_ids): a game with    *)
(* two numeric app ids mixes their owners and metadata.                    *)
OneSteamAppPerGame ==
  \A s, t \in SteamId :
    mapping[s] # NoMapping /\ mapping[s].game = mapping[t].game => s = t

(* As long as no two transactions ever overlapped, that holds, whatever    *)
(* the order of imports, renamed and deleted games.                        *)
SerialOneSteamApp == ~overlapped => OneSteamAppPerGame

(* A mapping never outlives its game: resolve_game follows it unasked.     *)
MappedGamesExist ==
  \A i \in Id : mapping[i] # NoMapping => title[mapping[i].game] # NoTitle

(* Who imports the same title for the same id again, gets the same game    *)
(* again, unless that game was renamed or deleted or transactions          *)
(* overlapped: owners do not jump between games from sync to sync.         *)
SameTitleSameGame ==
  [][\A w \in Worker, i \in Id :
       ( /\ Commit(w) /\ ~overlapped
         /\ job[w].found[i] # NoFinding
         /\ recall[i].title = job[w].found[i].title )
       => recall'[i].game = recall[i].game]_vars

(* Whatever earlier overlaps have left behind, an import that ran alone    *)
(* leaves each Steam app it resolved on a game whose other Steam apps,     *)
(* if any, have younger mappings: a duplicate heals when the younger app   *)
(* is imported again.                                                      *)
LoneImportHeals ==
  [][\A w \in Worker, i \in SteamId :
       Commit(w) /\ job[w].alone /\ job[w].found[i] # NoFinding =>
         \A s \in SteamId : mapping'[s].game = mapping'[i].game
                            => mapping'[i].row <= mapping'[s].row]_vars

=============================================================================
