----------------------------- MODULE Enrichment -----------------------------
(***************************************************************************)
(* What becomes of one game's catalogue entry while provider syncs and     *)
(* imports, Steam's store, IGDB with RAWG as fallback and an operator all  *)
(* write to it (services/metadata_service.py,                              *)
(* services/steam_metadata_service.py, services/sync_service.py).          *)
(*                                                                         *)
(* Each of them loads the game, works on its copy, and writes back those   *)
(* columns that it has changed; metadata_sources, which says where a value *)
(* comes from, is one column.  A metadata run loads its games when it      *)
(* starts, and sessions do not expire what they have loaded.               *)
(***************************************************************************)
EXTENDS Integers

CONSTANTS
  IgdbAnswer,   \* what IGDB may say of the game
  RawgAnswer,   \* what RAWG may say of it
  StoreAnswer,  \* what Steam's store may say of it
  Import,       \* what a provider or a backup may say of it
  MaxRuns       \* bound on the transactions

ASSUME EnrichmentAssumption ==
  LET genres == SUBSET {"play", "software"} IN
  /\ IgdbAnswer \subseteq [text : BOOLEAN, date : BOOLEAN, genres : genres,
                           single : BOOLEAN, multi : BOOLEAN, count : 0..2]
  /\ RawgAnswer \subseteq [text : BOOLEAN, date : {"none", "rawg", "unreadable"},
                           genres : genres, tags : SUBSET {"single", "multi", "hotseat"}]
  /\ StoreAnswer \subseteq [date : BOOLEAN, genres : genres, single : BOOLEAN,
                            multi : BOOLEAN, type : STRING]
  /\ Import \subseteq [text : BOOLEAN, date : BOOLEAN, genres : genres,
                       trusted : BOOLEAN, count : 0..2,
                       single : BOOLEAN, multi : BOOLEAN, hotseat : BOOLEAN]
  /\ MaxRuns \in Nat

None == "none"

(* text: description and cover; date: release_date; count: the player      *)
(* counts, 0 while player_count_known is false; known:                     *)
(* multiplayer_metadata_known; hotseat: the features that IGDB does not    *)
(* describe; multi: those that it does.                                    *)
Feature == {"single", "multi", "hotseat"}
Field == Feature \cup {"text", "date", "genres", "isGame", "reason", "known", "count"}

(* A date that is none.                                                    *)
Unreadable == "unreadable"

Source == {"igdb", "rawg", "steam_store", "classification"}
Writer == {"metadata", "store", "import"}

VARIABLES
  softTitle,  \* the title is that of a demo, a server or a kit
  game,       \* the stored game
  base,       \* what each open transaction has loaded
  runs,       \* how many transactions there were
  told,       \* what IGDB or RAWG last said of a field (for the properties)
  doubt       \* fields written by hand or by overlapping transactions

catVars == <<softTitle, game, base, runs, told, doubt>>

Unloaded == [none |-> TRUE]

Blank == [text |-> None, date |-> None, genres |-> {}, isGame |-> TRUE, reason |-> None,
          single |-> FALSE, multi |-> FALSE, hotseat |-> FALSE,
          known |-> FALSE, count |-> 0]

NewGame == [is |-> Blank, sources |-> [f \in Field |-> None], primary |-> None]

CatInit ==
  /\ softTitle \in BOOLEAN
  /\ game = NewGame
  /\ base = [w \in Writer |-> Unloaded]
  /\ runs = 0
  /\ told = Blank
  /\ doubt = {}

-----------------------------------------------------------------------------
(* classify_game: the store's type goes before the title, the title before *)
(* the genres.                                                             *)
Verdict(genres, storeType) ==
  IF storeType \notin {None, "game"} THEN "type"
  ELSE IF softTitle THEN "title"
  ELSE IF "software" \in genres THEN "genre"
  ELSE None

(* Faulty variant: what a trusted source said counts for nothing.          *)
MergedOver(g, i) ==
  [g EXCEPT !.is = [f \in Field |->
     CASE f \in {"text", "date"} -> IF g.is[f] = None /\ i[f] THEN "store" ELSE g.is[f]
       [] f = "genres"  -> g.is.genres \cup i.genres
       [] f \in Feature -> IF i.trusted THEN i[f] ELSE g.is[f] \/ i[f]
       [] f = "known"   -> i.trusted \/ g.is.known
       [] f = "count"   -> IF i.count > 0 THEN i.count ELSE g.is.count
       [] OTHER         -> g.is[f]]]

(* _merge_game_metadata: gaps are filled; features and counts are taken    *)
(* over, or added to, unless a trusted source has spoken.                  *)
Merged(g, i) ==
  LET open(f) == g.sources[f] = None IN
  [g EXCEPT !.is = [f \in Field |->
     CASE f \in {"text", "date"} -> IF g.is[f] = None /\ i[f] THEN "store" ELSE g.is[f]
       [] f = "genres"  -> g.is.genres \cup i.genres
       [] f \in Feature -> IF ~open(f) THEN g.is[f]
                           ELSE IF i.trusted THEN i[f] ELSE g.is[f] \/ i[f]
       [] f = "known"   -> (open(f) /\ i.trusted) \/ g.is.known
       [] f = "count"   -> IF open(f) /\ i.count > 0 THEN i.count ELSE g.is.count
       [] OTHER         -> g.is[f]]]

(* _steam_metadata_from_details: the store's categories are taken for      *)
(* complete; it knows no hotseat and no player counts.                     *)
StoreImport(d) ==
  [text |-> TRUE, date |-> d.date, genres |-> d.genres, trusted |-> TRUE, count |-> 0,
   single |-> d.single, multi |-> d.multi, hotseat |-> FALSE]

(* Faulty variant: the reason stays when the exclusion is taken back.      *)
StoreJudgedKeepingReason(g, verdict) ==
  IF verdict # None
  THEN [g EXCEPT !.is.isGame = FALSE, !.is.reason = verdict,
                 !.sources.isGame = "steam_store", !.sources.reason = "steam_store"]
  ELSE IF g.sources.isGame \in {"classification", "steam_store"}
  THEN [g EXCEPT !.is.isGame = TRUE, !.sources.isGame = "steam_store"]
  ELSE g

(* The store excludes a game, or takes back an exclusion that it or the    *)
(* classification had decided.                                             *)
StoreJudged(g, verdict) ==
  IF verdict # None
  THEN [g EXCEPT !.is.isGame = FALSE, !.is.reason = verdict,
                 !.sources.isGame = "steam_store", !.sources.reason = "steam_store"]
  ELSE IF g.sources.isGame \in {"classification", "steam_store"}
  THEN [g EXCEPT !.is.isGame = TRUE, !.is.reason = None,
                 !.sources.isGame = "steam_store", !.sources.reason = None]
  ELSE g

(* _apply_steam_metadata.                                                  *)
StoreApplied(g, d) ==
  LET m == Merged(g, StoreImport(d))
      genres == IF d.genres # {} THEN d.genres ELSE m.is.genres
      j == StoreJudged(m, Verdict(genres, d.type)) IN
  [j EXCEPT !.primary = IF @ = None THEN "steam_store" ELSE @]

-----------------------------------------------------------------------------
(* Records: the fields that IGDB and RAWG know, each with its source.      *)

NoRecord == [fields |-> [f \in {} |-> None], by |-> None]

RecordOf(values, known, source) ==
  [fields |-> [f \in known |-> [value |-> values[f], source |-> source]], by |-> source]

(* _igdb_record: a match is a game; modes without numbers make the player  *)
(* count unknown, except for games with a single player only.              *)
IgdbRecord(a) ==
  RecordOf([isGame |-> TRUE, reason |-> None, text |-> "igdb", date |-> "igdb",
            genres |-> a.genres,
            single |-> a.single, multi |-> a.multi, known |-> TRUE,
            count |-> IF a.count = 0 /\ a.single /\ ~a.multi THEN 1 ELSE a.count],
           {"isGame", "reason"}
           \cup {f \in {"text", "date"} : a[f]} \cup {f \in {"genres"} : a.genres # {}}
           \cup {f \in {"single", "multi", "known", "count"} : a.single \/ a.multi},
           "igdb")

(* _rawg_record: tags tell of the features a game has, never of those that *)
(* it lacks.                                                               *)
RawgRecord(a) ==
  RecordOf([text |-> "rawg", date |-> a.date, genres |-> a.genres, single |-> TRUE,
            multi |-> TRUE, hotseat |-> TRUE, known |-> TRUE],
           {f \in {"text"} : a.text} \cup {f \in {"date"} : a.date # None} \cup {f \in {"genres"} : a.genres # {}}
           \cup a.tags \cup {f \in {"known"} : a.tags # {}},
           "rawg")

(* _needs_rawg: what IGDB leaves out.                                      *)
NeedsRawg(record) ==
  ~({"text", "genres", "known", "count", "hotseat"} \subseteq DOMAIN record.fields)

(* One value for each field: the first that is known.                      *)
Over(first, second) ==
  [f \in DOMAIN first \cup DOMAIN second |->
     IF f \in DOMAIN first THEN first[f] ELSE second[f]]

(* Faulty variant: the fallback goes first.                                *)
FallbackFirst(primary, fallback) ==
  [fields |-> Over(fallback.fields, primary.fields),
   by |-> IF primary.by # None THEN primary.by ELSE fallback.by]

(* _merge_records.                                                         *)
MergedRecords(primary, fallback) ==
  [fields |-> Over(primary.fields, fallback.fields),
   by |-> IF primary.by # None THEN primary.by ELSE fallback.by]

(* _apply_content_classification: title and genres may exclude what the    *)
(* sources take for a game.                                                *)
Excluded(record, verdict) ==
  [record EXCEPT !.fields =
     Over([isGame |-> [value |-> FALSE, source |-> "classification"],
           reason |-> [value |-> verdict, source |-> "classification"]], @)]

ExcludedUnmatched(g, verdict) ==
  [g EXCEPT !.is.isGame = FALSE, !.is.reason = verdict,
            !.sources.isGame = "classification", !.sources.reason = "classification"]

(* _apply_metadata_record: what the record knows is taken over, but for a  *)
(* date that cannot be read, whose source is noted all the same; features  *)
(* that nobody describes are absent once the others are known, whoever had *)
(* described them.                                                         *)
Applied(g, record) ==
  [is |-> [f \in Field |->
     IF f \in DOMAIN record.fields /\ ~(f = "date" /\ record.fields[f].value = Unreadable)
     THEN record.fields[f].value
     ELSE IF f = "hotseat" /\ "known" \in DOMAIN record.fields THEN FALSE
     ELSE g.is[f]],
   sources |-> [f \in Field |->
     IF f \in DOMAIN record.fields THEN record.fields[f].source ELSE g.sources[f]],
   primary |-> record.by]

(* One game of enrich_all_game_metadata.                                   *)
JudgedRecord(g, record) ==
  LET told_genres == IF "genres" \in DOMAIN record.fields
                     THEN record.fields["genres"].value ELSE {}
      verdict == Verdict(g.is.genres \cup told_genres, None) IN
  IF verdict # None /\ record.by # None THEN Excluded(record, verdict) ELSE record

Enriched(g, record) ==
  IF record.by # None THEN Applied(g, JudgedRecord(g, record))
  ELSE LET verdict == Verdict(g.is.genres, None) IN
       IF verdict # None THEN ExcludedUnmatched(g, verdict) ELSE g

(* _has_unknown_or_suspicious_metadata: what a repair run looks at.        *)
Suspicious(g) ==
  \/ g.primary = None
  \/ ~g.is.isGame /\ g.is.reason = None
  \/ g.is.isGame /\ ~(g.is.single \/ g.is.multi)
  \/ ~g.is.known
  \/ g.is.count = 0
  \/ g.is.multi /\ g.is.count <= 1

-----------------------------------------------------------------------------
(* Transactions.                                                           *)

Begin(w) ==
  /\ base[w] = Unloaded
  /\ runs < MaxRuns
  /\ base' = [base EXCEPT ![w] = game]
  /\ runs' = runs + 1
  /\ UNCHANGED <<softTitle, game, told, doubt>>

(* The columns that differ from what was loaded are written.               *)
Flushed(old, new) ==
  [is |-> [f \in Field |-> IF new.is[f] # old.is[f] THEN new.is[f] ELSE game.is[f]],
   sources |-> IF new.sources # old.sources THEN new.sources ELSE game.sources,
   primary |-> IF new.primary # old.primary THEN new.primary ELSE game.primary]

Overtaken(w) == base[w] # game

Commit(w, new, settled) ==
  /\ game' = Flushed(base[w], new)
  /\ base' = [base EXCEPT ![w] = Unloaded]
  /\ doubt' = IF Overtaken(w) THEN Field ELSE doubt \ settled
  /\ UNCHANGED <<softTitle, runs>>

Abandon(w) ==
  /\ base[w] # Unloaded
  /\ base' = [base EXCEPT ![w] = Unloaded]
  /\ UNCHANGED <<softTitle, game, runs, told, doubt>>

(* _fetch_game_metadata: either source may fail or know nothing.           *)
CommitMetadata(igdb, rawg) ==
  /\ base["metadata"] # Unloaded
  /\ LET record == MergedRecords(igdb, IF NeedsRawg(igdb) THEN rawg ELSE NoRecord)
         judged == JudgedRecord(base["metadata"], record)
         known  == DOMAIN judged.fields IN
     /\ Commit("metadata", Enriched(base["metadata"], record), known)
     /\ told' = [f \in Field |->
                   IF f \in known /\ judged.fields[f].source # "classification"
                   THEN judged.fields[f].value ELSE told[f]]

IgdbRecords == {NoRecord} \cup {IgdbRecord(a) : a \in IgdbAnswer}
RawgRecords == {NoRecord} \cup {RawgRecord(a) : a \in RawgAnswer}

CommitStore(d) ==
  /\ base["store"] # Unloaded
  /\ Commit("store", StoreApplied(base["store"], d), {})
  /\ UNCHANGED told

CommitImport(i) ==
  /\ base["import"] # Unloaded
  /\ Commit("import", Merged(base["import"], i), {})
  /\ UNCHANGED told

(* update_game: a value is corrected by hand.                              *)
UpdateGame(f, v) ==
  /\ runs < MaxRuns
  /\ runs' = runs + 1
  /\ game' = [game EXCEPT !.is[f] = v]
  /\ doubt' = doubt \cup {f}
  /\ UNCHANGED <<softTitle, base, told>>

CatNext ==
  \/ \E w \in Writer : Begin(w) \/ Abandon(w)
  \/ \E igdb \in IgdbRecords, rawg \in RawgRecords : CommitMetadata(igdb, rawg)
  \/ \E d \in StoreAnswer : CommitStore(d)
  \/ \E i \in Import : CommitImport(i)
  \/ \E f \in {"isGame", "multi", "known"}, v \in BOOLEAN : UpdateGame(f, v)

CatSpec == CatInit /\ [][CatNext]_catVars

-----------------------------------------------------------------------------
(* Properties.                                                             *)

GameOK(g) ==
  /\ \A f \in {"text", "date"} : g.is[f] \in {None, "store", "igdb", "rawg"}
  /\ g.is.genres \subseteq {"play", "software"}
  /\ g.is.reason \in {None, "type", "title", "genre"}
  /\ \A f \in Feature \cup {"isGame", "known"} : g.is[f] \in BOOLEAN
  /\ g.is.count \in 0..2
  /\ g.sources \in [Field -> Source \cup {None}]
  /\ g.primary \in {None, "igdb", "rawg", "steam_store"}

CatTypeOK ==
  /\ softTitle \in BOOLEAN
  /\ GameOK(game)
  /\ \A w \in Writer : base[w] = Unloaded \/ GameOK(base[w])
  /\ runs \in 0..MaxRuns
  /\ doubt \subseteq Field

(* A value that metadata_sources ascribes to IGDB or RAWG is the one that  *)
(* they last gave: neither a sync, an import nor the store has replaced it *)
(* or claimed it, unless transactions overlapped or somebody changed it by *)
(* hand, and then the next run that knows the field puts it right.  Three  *)
(* fields keep less: genres may have others beside those given, which      *)
(* _merge_game_metadata adds; the date may be an older one when the last   *)
(* that RAWG gave could not be read; and hotseat, of which nothing is      *)
(* said, is set to FALSE under RAWG's name when a later record describes   *)
(* other features only.                                                    *)
SourcesTellTheTruth ==
  \A f \in (Field \ {"hotseat"}) \ doubt :
    game.sources[f] \in {"igdb", "rawg"} =>
      \/ game.is[f] = told[f]
      \/ f = "genres" /\ told[f] \subseteq game.is[f]
      \/ f = "date" /\ told[f] = Unreadable

(* What is excluded says why, and what is not excluded has no reason.      *)
ExclusionsHaveReasons ==
  {"isGame", "reason"} \cap doubt = {} => (game.is.isGame <=> game.is.reason = None)

(* A repair run comes to an end: when IGDB knows modes and a player count  *)
(* that fits them, no repair run looks at the game again, whatever had     *)
(* become of it.  (A multiplayer game for one stays suspicious for ever.)  *)
RepairsLast ==
  [][\A igdb \in IgdbRecords, rawg \in RawgRecords :
       /\ CommitMetadata(igdb, rawg)
       /\ ~Overtaken("metadata")
       /\ "count" \in DOMAIN igdb.fields
       /\ igdb.fields["count"].value > IF igdb.fields["multi"].value THEN 1 ELSE 0
       => ~Suspicious(game')]_catVars

=============================================================================
