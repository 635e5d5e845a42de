--------------------------- MODULE LibraryProofs ---------------------------
(***************************************************************************)
(* Proofs about the library of an account: what syncs take away and leave  *)
(* (ProviderLibraries), what the shares count that recommendations are     *)
(* made by, what their lists keep and what comes first on them             *)
(* (Recommendations), and what becomes of a game's catalogue entry while   *)
(* several sources write to it (Enrichment).                               *)
(***************************************************************************)
EXTENDS ProviderLibraries, Enrichment, Recommendations, FiniteSetTheorems, TLAPS

-----------------------------------------------------------------------------
(* Syncs.                                                                  *)

(* Between syncs nothing is left of the last one; what has been read is    *)
(* owned.                                                                  *)
SyncWithin ==
  /\ sync.phase = "idle" => sync = NoSync /\ untitled = {} /\ ~gap
  /\ sync.games \subseteq owned
  /\ sync.delivered \subseteq owned
  /\ sync.left \subseteq owned
  /\ sync.phase = "fallback" => library = "ea"

(* The games that a list must have to be complete.                         *)
Needed == (owned \ NonGame) \ (IF library \in {"gog", "ea"} THEN {} ELSE untitled)

(* Humble and Meta: what is not left has been recognised, or hidden.       *)
PartsRead ==
  library \in {"humble", "meta"} /\ sync.phase = "read" =>
    gap \/ Needed \subseteq sync.left \cup sync.games

(* Amazon and EA: what has been sent has been recognised.                  *)
PagesRead ==
  library \in {"amazon", "ea"} /\ sync.phase \in {"read", "fallback"} =>
    (sync.delivered \ NonGame) \ untitled \subseteq sync.games

(* EA counts what it sends, once unless something comes twice.             *)
EaCounts ==
  library = "ea" /\ sync.phase \in {"read", "fallback"} =>
    /\ sync.complete => sync.delivered \cap untitled = {}
    /\ gap \/ sync.received = Cardinality(sync.delivered)
    /\ sync.declared \in {Unknown, Cardinality(owned)}

(* EA: after the last page, a list taken for complete is.                  *)
EaComplete ==
  sync.phase = "fallback" /\ sync.complete => gap \/ sync.delivered = owned

(* A list taken for complete has all it must have.                         *)
ListComplete ==
  sync.phase = "done" /\ sync.complete /\ library \in Authoritative =>
    gap \/ Needed \subseteq sync.games

LibInv ==
  /\ LibTypeOK /\ SyncWithin /\ PartsRead /\ PagesRead /\ EaCounts
  /\ EaComplete /\ ListComplete

LEMMA SizeOfOwned ==
  ASSUME NEW P, P \subseteq Item
  PROVE  IsFiniteSet(P) /\ Cardinality(P) \in Nat
BY LibrariesAssumption, FS_Subset, FS_CardinalityType

LEMMA LibInitially == LibInit => LibInv
<1> SUFFICES ASSUME LibInit PROVE LibInv
  OBVIOUS
<1>1. sync = NoSync /\ untitled = {} /\ stored = {} /\ gap = FALSE /\ owned \subseteq Item /\ library \in Libraries
  BY DEF LibInit
<1>2. NoSync \in SyncState
  BY LibrariesAssumption DEF NoSync, SyncState
<1>3. sync.phase = "idle" /\ sync.games = {} /\ sync.delivered = {} /\ sync.left = {}
  BY <1>1 DEF NoSync
<1> QED
  BY <1>1, <1>2, <1>3 DEF LibInv, LibTypeOK, SyncWithin, PartsRead, PagesRead, EaCounts,
     EaComplete, ListComplete

(* What an answer has to be for the invariant to hold after it.            *)
LEMMA AnswerKeeps ==
  ASSUME LibInv, NEW games, NEW complete \in BOOLEAN, NEW hidden \in BOOLEAN,
         Answer(games, complete, hidden), sync.phase # "idle", games \subseteq owned,
         complete /\ library \in Authoritative => hidden \/ Needed \subseteq games
  PROVE  LibInv'
<1>1. /\ sync' \in SyncState /\ sync'.phase = "done" /\ sync'.games = games
      /\ sync'.complete = complete /\ sync'.delivered = sync.delivered /\ sync'.left = sync.left
  <2>1. sync \in SyncState /\ games \subseteq Item
    BY DEF LibInv, LibTypeOK
  <2>2. sync' = [sync EXCEPT !.phase = "done", !.games = games, !.complete = complete]
    BY DEF Answer
  <2> QED BY <2>1, <2>2 DEF SyncState
<1>2. gap' = hidden /\ UNCHANGED <<library, owned, untitled, stored>>
  BY DEF Answer, Fixed
<1>3. Needed' = Needed
  BY <1>2 DEF Needed
<1>4. LibTypeOK'
  BY <1>1, <1>2 DEF LibInv, LibTypeOK
<1>5. SyncWithin'
  BY <1>1, <1>2 DEF LibInv, SyncWithin
<1>6. PartsRead' /\ PagesRead' /\ EaCounts' /\ EaComplete'
  BY <1>1 DEF PartsRead, PagesRead, EaCounts, EaComplete
<1>7. ListComplete'
  BY <1>1, <1>2, <1>3 DEF ListComplete
<1> QED BY <1>4, <1>5, <1>6, <1>7 DEF LibInv

LEMMA RecognisedWithin ==
  ASSUME NEW P PROVE Recognised(P) \subseteq P
BY DEF Recognised

(* What all that is owned is recognised as.                                *)
LEMMA AllRecognised == Needed \subseteq Recognised(owned) \/ library \in {"gog", "ea"}
BY DEF Needed, Recognised

LEMMA WholeAnswersKeep ==
  ASSUME LibInv,
         \/ SteamLibrary \/ EpicLibrary \/ GogLibrary \/ XboxLibrary
         \/ UbisoftLibrary \/ BattleNetLibrary
  PROVE  LibInv'
<1>1. CASE SteamLibrary
  <2>1. PICK licensed \in {TRUE, FALSE}, visible \in {<<FALSE, {}>>} \cup ({TRUE} \X SUBSET owned) :
          \E known \in StoreTypesKnown((IF licensed THEN owned \ untitled ELSE {}) \cup visible[2]) :
            Answer(((IF licensed THEN owned \ untitled ELSE {}) \cup visible[2]) \ known, TRUE, ~licensed)
    BY <1>1 DEF SteamLibrary
  <2>2. PICK listed : listed = (IF licensed THEN owned \ untitled ELSE {}) \cup visible[2]
    OBVIOUS
  <2>3. PICK known \in StoreTypesKnown(listed) : Answer(listed \ known, TRUE, ~licensed)
    BY <2>1, <2>2
  <2>4. visible[2] \subseteq owned
    <3>1. CASE visible \in {<<FALSE, {}>>}
      BY <3>1
    <3>2. CASE visible \in {TRUE} \X SUBSET owned
      BY <3>2
    <3> QED BY <3>1, <3>2
  <2>5. listed \subseteq owned /\ (licensed => owned \ untitled \subseteq listed)
    BY <2>2, <2>4
  <2>6. known \subseteq NonGame
    BY DEF StoreTypesKnown
  <2>7. library = "steam" /\ sync.phase = "read"
    BY <1>1 DEF SteamLibrary, Reading
  <2>8. ~licensed \/ Needed \subseteq listed \ known
    BY <2>5, <2>6, <2>7 DEF Needed
  <2>9. PICK hidden \in BOOLEAN : hidden = ~licensed
    OBVIOUS
  <2>10. Answer(listed \ known, TRUE, hidden)
    BY <2>3, <2>9
  <2>11. listed \ known \subseteq owned /\ (hidden \/ Needed \subseteq listed \ known)
    BY <2>5, <2>8, <2>9
  <2> QED BY <2>7, <2>10, <2>11, AnswerKeeps
<1>2. ASSUME NEW hidden \in BOOLEAN, hidden = (owned # {}), Answer({}, TRUE, hidden),
             sync.phase = "read"
      PROVE  LibInv'
  <2>1. hidden \/ Needed \subseteq {}
    BY <1>2 DEF Needed
  <2>2. PICK games : games = {}
    OBVIOUS
  <2>3. /\ Answer(games, TRUE, hidden) /\ sync.phase # "idle" /\ games \subseteq owned
        /\ hidden \/ Needed \subseteq games
    BY <1>2, <2>1, <2>2
  <2> QED BY <2>3, AnswerKeeps
<1>3. CASE EpicLibrary
  <2>1. library = "epic" /\ sync.phase = "read"
    BY <1>3 DEF EpicLibrary, Reading
  <2>2. CASE Answer(Recognised(owned), TRUE, FALSE)
    BY <2>1, <2>2, AnswerKeeps, RecognisedWithin, AllRecognised
  <2>3. CASE Answer({}, TRUE, owned # {})
    <3>1. PICK hidden \in BOOLEAN : hidden = (owned # {})
      OBVIOUS
    <3>2. Answer({}, TRUE, hidden)
      BY <2>3, <3>1
    <3> QED BY <1>2, <2>1, <3>1, <3>2
  <2> QED BY <1>3, <2>2, <2>3 DEF EpicLibrary
<1>4. CASE GogLibrary
  <2>1. library = "gog" /\ sync.phase = "read"
    BY <1>4 DEF GogLibrary, Reading
  <2>2. ASSUME NEW reached \in SUBSET owned,
               Answer(Recognised(reached), owned \ (reached \ untitled) = {}, FALSE)
        PROVE  LibInv'
    <3>1. PICK complete \in BOOLEAN : complete = (owned \ (reached \ untitled) = {})
      OBVIOUS
    <3>2. Answer(Recognised(reached), complete, FALSE)
      BY <2>2, <3>1
    <3>3. complete => Needed \subseteq Recognised(reached)
      BY <2>1, <3>1 DEF Needed, Recognised, Filtering
    <3> QED BY <2>1, <3>2, <3>3, AnswerKeeps, RecognisedWithin
  <2>3. CASE Answer({}, TRUE, owned # {})
    <3>1. PICK hidden \in BOOLEAN : hidden = (owned # {})
      OBVIOUS
    <3>2. Answer({}, TRUE, hidden)
      BY <2>3, <3>1
    <3> QED BY <1>2, <2>1, <3>1, <3>2
  <2> QED BY <1>4, <2>2, <2>3 DEF GogLibrary
<1>5. CASE XboxLibrary \/ UbisoftLibrary
  <2>1. sync.phase = "read" /\ library \notin Authoritative
    BY <1>5 DEF XboxLibrary, UbisoftLibrary, Reading, Authoritative
  <2>2. PICK shown \in SUBSET owned : Answer(Recognised(shown), TRUE, FALSE)
    BY <1>5 DEF XboxLibrary, UbisoftLibrary, AnswerUnlessEmpty
  <2> QED BY <2>1, <2>2, AnswerKeeps, RecognisedWithin
<1>6. CASE BattleNetLibrary
  <2>1. library = "battle_net" /\ sync.phase = "read"
    BY <1>6 DEF BattleNetLibrary, Reading
  <2>2. PICK shown \in SUBSET owned : Answer(Recognised(shown), TRUE, shown # owned)
    <3>1. PICK missing \in SUBSET {"accounts", "classics"} :
            LET shown == {i \in owned :
                  (IF i \in Classic THEN "classics" ELSE "accounts") \notin missing} IN
            AnswerUnlessEmpty(Recognised(shown), TRUE, shown # owned)
      BY <1>6 DEF BattleNetLibrary
    <3> QED BY <3>1 DEF AnswerUnlessEmpty
  <2>3. PICK hidden \in BOOLEAN : hidden = (shown # owned)
    OBVIOUS
  <2>4. Answer(Recognised(shown), TRUE, hidden)
    BY <2>2, <2>3
  <2>5. hidden \/ Needed \subseteq Recognised(shown)
    BY <2>1, <2>3, AllRecognised
  <2> QED BY <2>1, <2>4, <2>5, AnswerKeeps, RecognisedWithin
<1> QED BY <1>1, <1>3, <1>4, <1>5, <1>6

(* Humble's orders and Meta's documents: a part that has been asked about. *)
LEMMA PartKeeps ==
  ASSUME LibInv, library \in {"humble", "meta"}, sync.phase = "read",
         NEW part \in SUBSET sync.left, NEW games, NEW hidden \in BOOLEAN,
         sync' = [sync EXCEPT !.left = @ \ part, !.games = games],
         gap' = hidden, Fixed,
         sync.games \subseteq games, games \subseteq owned, gap => hidden,
         hidden \/ Recognised(part) \subseteq games
  PROVE  LibInv'
<1>1. sync \in SyncState /\ games \subseteq Item
  BY DEF LibInv, LibTypeOK
<1>2. /\ sync' \in SyncState /\ sync'.phase = "read" /\ sync'.games = games
      /\ sync'.left = sync.left \ part /\ sync'.delivered = sync.delivered
  BY <1>1 DEF SyncState
<1>3. UNCHANGED <<library, owned, untitled, stored>>
  BY DEF Fixed
<1>4. Needed' = Needed
  BY <1>3 DEF Needed
<1>5. LibTypeOK'
  BY <1>2, <1>3 DEF LibInv, LibTypeOK
<1>6. SyncWithin'
  BY <1>2, <1>3 DEF LibInv, SyncWithin
<1>7. PartsRead'
  <2>1. gap \/ Needed \subseteq sync.left \cup sync.games
    BY DEF LibInv, PartsRead
  <2>2. Needed \cap part \subseteq Recognised(part)
    BY DEF Needed, Recognised
  <2>3. hidden \/ Needed \subseteq (sync.left \ part) \cup games
    BY <2>1, <2>2
  <2> QED BY <1>2, <1>3, <1>4, <2>3 DEF PartsRead
<1>8. PagesRead' /\ EaCounts' /\ EaComplete' /\ ListComplete'
  BY <1>2, <1>3 DEF PagesRead, EaCounts, EaComplete, ListComplete
<1> QED BY <1>5, <1>6, <1>7, <1>8 DEF LibInv

LEMMA PartsKeep == LibInv /\ (HumbleOrders \/ MetaDocuments) => LibInv'
<1> SUFFICES ASSUME LibInv, HumbleOrders \/ MetaDocuments PROVE LibInv'
  OBVIOUS
<1>1. library \in {"humble", "meta"} /\ sync.phase = "read" /\ sync \in SyncState
  BY DEF HumbleOrders, MetaDocuments, Reading, LibInv, LibTypeOK
<1>2. ASSUME NEW part \in (SUBSET sync.left) \ {{}}, NEW readable \in BOOLEAN,
             sync' = [sync EXCEPT !.left = @ \ part,
                        !.games = IF readable THEN @ \cup Recognised(part) ELSE @],
             gap' = (gap \/ ~readable), Fixed
      PROVE  LibInv'
  <2>1. PICK games : games = IF readable THEN sync.games \cup Recognised(part) ELSE sync.games
    OBVIOUS
  <2>2. PICK hidden \in BOOLEAN : hidden = (gap \/ ~readable)
    OBVIOUS
  <2>3. sync' = [sync EXCEPT !.left = @ \ part, !.games = games] /\ gap' = hidden
    BY <1>2, <2>1, <2>2
  <2>4. sync.games \subseteq owned /\ sync.left \subseteq owned
    BY DEF LibInv, SyncWithin
  <2>5. /\ sync.games \subseteq games /\ games \subseteq owned /\ (gap => hidden)
        /\ hidden \/ Recognised(part) \subseteq games
    BY <2>1, <2>2, <2>4, RecognisedWithin
  <2> QED BY <1>1, <1>2, <2>3, <2>5, PartKeeps
<1>3. ASSUME sync.left = {}, AnswerUnlessEmpty(sync.games, TRUE, gap) PROVE LibInv'
  <2>1. PICK hidden \in BOOLEAN : hidden = gap
    BY DEF LibInv, LibTypeOK
  <2>2. Answer(sync.games, TRUE, hidden)
    BY <1>3, <2>1 DEF AnswerUnlessEmpty
  <2>3. sync.games \subseteq owned /\ (hidden \/ Needed \subseteq sync.games)
    BY <1>1, <1>3, <2>1 DEF LibInv, SyncWithin, PartsRead
  <2> QED BY <1>1, <2>2, <2>3, AnswerKeeps
<1> QED BY <1>2, <1>3 DEF HumbleOrders, MetaDocuments, PartRead

LEMMA AmazonKeeps == LibInv /\ AmazonPage => LibInv'
<1> SUFFICES ASSUME LibInv, AmazonPage PROVE LibInv'
  OBVIOUS
<1>1. library = "amazon" /\ sync.phase = "read" /\ sync \in SyncState /\ owned \subseteq Item
  BY DEF AmazonPage, Reading, LibInv, LibTypeOK
<1>2. PICK page \in SUBSET owned :
        LET games     == sync.games \cup Recognised(page)
            delivered == sync.delivered \cup page IN
        \/ /\ sync' = [sync EXCEPT !.games = games, !.delivered = delivered]
           /\ UNCHANGED gap
           /\ Fixed
        \/ AnswerUnlessEmpty(games, TRUE, delivered # owned)
  BY DEF AmazonPage
<1>3. PICK games, delivered :
        games = sync.games \cup Recognised(page) /\ delivered = sync.delivered \cup page
  OBVIOUS
<1>4. games \subseteq owned /\ delivered \subseteq owned
  BY <1>3, RecognisedWithin DEF LibInv, SyncWithin
<1>5. (delivered \ NonGame) \ untitled \subseteq games
  <2>1. (page \ NonGame) \ untitled \subseteq Recognised(page)
    BY DEF Recognised
  <2>2. (sync.delivered \ NonGame) \ untitled \subseteq sync.games
    BY <1>1 DEF LibInv, PagesRead
  <2> QED BY <1>3, <2>1, <2>2
<1>6. ASSUME sync' = [sync EXCEPT !.games = games, !.delivered = delivered], UNCHANGED gap, Fixed
      PROVE  LibInv'
  <2>1. games \subseteq Item /\ delivered \subseteq Item
    BY <1>1, <1>4
  <2>2. /\ sync' \in SyncState /\ sync'.phase = "read" /\ sync'.games = games
        /\ sync'.delivered = delivered /\ sync'.left = sync.left
    BY <1>1, <1>6, <2>1 DEF SyncState
  <2>3. UNCHANGED <<library, owned, untitled, stored, gap>>
    BY <1>6 DEF Fixed
  <2>4. LibTypeOK'
    BY <2>2, <2>3 DEF LibInv, LibTypeOK
  <2>5. SyncWithin'
    BY <1>4, <2>2, <2>3 DEF LibInv, SyncWithin
  <2>6. PagesRead'
    BY <1>5, <2>2, <2>3 DEF PagesRead
  <2>7. PartsRead' /\ EaCounts' /\ EaComplete' /\ ListComplete'
    BY <1>1, <2>2, <2>3 DEF PartsRead, EaCounts, EaComplete, ListComplete
  <2> QED BY <2>4, <2>5, <2>6, <2>7 DEF LibInv
<1>7. ASSUME AnswerUnlessEmpty(games, TRUE, delivered # owned) PROVE LibInv'
  <2>1. PICK hidden \in BOOLEAN : hidden = (delivered # owned)
    OBVIOUS
  <2>2. Answer(games, TRUE, hidden)
    BY <1>7, <2>1 DEF AnswerUnlessEmpty
  <2>3. hidden \/ Needed \subseteq games
    BY <1>1, <1>5, <2>1 DEF Needed
  <2> QED BY <1>1, <1>4, <2>2, <2>3, AnswerKeeps
<1> QED BY <1>2, <1>3, <1>6, <1>7

-----------------------------------------------------------------------------
(* EA.                                                                     *)

(* A subset as large as the whole is the whole.                            *)
LEMMA WholeBySize ==
  ASSUME NEW P, NEW Q, Q \subseteq Item, P \subseteq Q, Cardinality(P) >= Cardinality(Q)
  PROVE  P = Q
<1>1. IsFiniteSet(Q) /\ Cardinality(Q) \in Nat /\ Cardinality(P) \in Nat
  BY SizeOfOwned
<1>2. Cardinality(P) <= Cardinality(Q) /\ (Cardinality(P) = Cardinality(Q) => P = Q)
  BY <1>1, FS_Subset
<1> QED BY <1>1, <1>2

(* The pages have come to an end.                                          *)
LEMMA PagesEndKeeps ==
  ASSUME LibInv, library = "ea", sync.phase = "read",
         NEW state \in SyncState, NEW hidden \in BOOLEAN, EaPagesEnd(state, hidden),
         state.games \subseteq owned, state.delivered \subseteq owned, state.left \subseteq owned,
         (state.delivered \ NonGame) \ untitled \subseteq state.games,
         state.complete => state.delivered \cap untitled = {},
         hidden \/ state.received = Cardinality(state.delivered),
         state.declared \in {Unknown, Cardinality(owned)},
         state.complete /\ state.declared = Unknown => hidden \/ state.delivered = owned
  PROVE  LibInv'
<1>1. PICK complete \in BOOLEAN :
        complete = (state.complete /\ ~Short(state.received, state.declared))
  BY DEF SyncState
<1>2. sync' = [state EXCEPT !.phase = "fallback", !.complete = complete]
  BY <1>1 DEF EaPagesEnd
<1>3. /\ sync' \in SyncState /\ sync'.phase = "fallback" /\ sync'.games = state.games
      /\ sync'.delivered = state.delivered /\ sync'.left = state.left
      /\ sync'.complete = complete /\ sync'.received = state.received
      /\ sync'.declared = state.declared
  BY <1>2 DEF SyncState
<1>4. gap' = hidden /\ UNCHANGED <<library, owned, untitled, stored>>
  BY DEF EaPagesEnd, Fixed
<1>5. complete => hidden \/ state.delivered = owned
  <2> SUFFICES ASSUME complete, ~hidden, state.declared # Unknown PROVE state.delivered = owned
    BY <1>1
  <2>1. state.declared = Cardinality(owned) /\ state.received = Cardinality(state.delivered)
    OBVIOUS
  <2>2. ~(state.received < state.declared)
    BY <1>1 DEF Short
  <2>3. owned \subseteq Item
    BY DEF LibInv, LibTypeOK
  <2>4. Cardinality(state.delivered) >= Cardinality(owned)
    <3>1. state.delivered \subseteq Item
      BY <2>3
    <3>2. Cardinality(state.delivered) \in Nat /\ Cardinality(owned) \in Nat
      BY <2>3, <3>1, SizeOfOwned
    <3> QED BY <2>1, <2>2, <3>2
  <2> QED BY <2>3, <2>4, WholeBySize
<1>6. LibTypeOK'
  BY <1>3, <1>4 DEF LibInv, LibTypeOK
<1>7. SyncWithin'
  BY <1>3, <1>4 DEF LibInv, SyncWithin
<1>8. PagesRead' /\ EaComplete'
  BY <1>3, <1>4, <1>5 DEF PagesRead, EaComplete
<1>9. EaCounts'
  BY <1>1, <1>3, <1>4 DEF EaCounts
<1>10. PartsRead' /\ ListComplete'
  BY <1>3, <1>4 DEF PartsRead, ListComplete
<1> QED BY <1>6, <1>7, <1>8, <1>9, <1>10 DEF LibInv

(* A sync that fails keeps nothing.                                        *)
LEMMA FailureKeeps ==
  ASSUME LibInv, sync.phase # "idle", sync' = [sync EXCEPT !.phase = "failed"],
         UNCHANGED gap, Fixed
  PROVE  LibInv'
<1>1. sync \in SyncState
  BY DEF LibInv, LibTypeOK
<1>2. /\ sync' \in SyncState /\ sync'.phase = "failed" /\ sync'.games = sync.games
      /\ sync'.delivered = sync.delivered /\ sync'.left = sync.left
  BY <1>1 DEF SyncState
<1>3. UNCHANGED <<library, owned, untitled, stored, gap>>
  BY DEF Fixed
<1>4. LibTypeOK' /\ SyncWithin'
  BY <1>2, <1>3 DEF LibInv, LibTypeOK, SyncWithin
<1>5. PartsRead' /\ PagesRead' /\ EaCounts' /\ EaComplete' /\ ListComplete'
  BY <1>2 DEF PartsRead, PagesRead, EaCounts, EaComplete, ListComplete
<1> QED BY <1>4, <1>5 DEF LibInv

(* What comes for the first time is counted once.                          *)
LEMMA PageCounts ==
  ASSUME NEW P, P \subseteq Item, NEW Q, Q \subseteq Item, P \cap Q = {}
  PROVE  Cardinality(P \cup Q) = Cardinality(P) + Cardinality(Q)
<1>1. Cardinality(P \cup Q) = Cardinality(P) + Cardinality(Q) - Cardinality(P \cap Q)
  BY SizeOfOwned, FS_Union
<1>2. Cardinality(P \cap Q) = 0
  BY FS_EmptySet
<1>3. Cardinality(P) \in Nat /\ Cardinality(Q) \in Nat
  BY SizeOfOwned
<1> QED BY <1>1, <1>2, <1>3

LEMMA EaPageKeeps == LibInv /\ EaPage => LibInv'
<1> SUFFICES ASSUME LibInv, EaPage PROVE LibInv'
  OBVIOUS
<1>1. /\ library = "ea" /\ sync.phase = "read" /\ sync \in SyncState
      /\ owned \subseteq Item /\ gap \in BOOLEAN
      /\ sync.games \subseteq owned /\ sync.delivered \subseteq owned /\ sync.left \subseteq owned
  BY DEF EaPage, Reading, LibInv, LibTypeOK, SyncWithin
<1>2. PICK page \in SUBSET owned, declared \in {sync.declared, Cardinality(owned)} :
       LET state == [sync EXCEPT
             !.seen = @ \cup {sync.cursor},
             !.games = @ \cup Recognised(page), !.received = @ + Cardinality(page),
             !.declared = declared, !.delivered = @ \cup page,
             !.complete = @ /\ page \cap untitled = {}]
           repeated == page \cap sync.delivered # {} IN
       \/ \E next \in 0..MaxCursor :
            /\ sync' = [state EXCEPT !.cursor = next]
            /\ gap' = (gap \/ repeated)
            /\ Fixed
       \/ EaPagesEnd(state, gap \/ repeated \/ (declared = Unknown /\ state.delivered # owned))
  BY DEF EaPage
<1>3. PICK repeated \in BOOLEAN : repeated = (page \cap sync.delivered # {})
  OBVIOUS
<1>4. PICK complete \in BOOLEAN : complete = (sync.complete /\ page \cap untitled = {})
  OBVIOUS
<1>5. PICK state : state = [sync EXCEPT
             !.seen = @ \cup {sync.cursor},
             !.games = @ \cup Recognised(page), !.received = @ + Cardinality(page),
             !.declared = declared, !.delivered = @ \cup page,
             !.complete = complete]
  OBVIOUS
<1>6. \/ \E next \in 0..MaxCursor :
            /\ sync' = [state EXCEPT !.cursor = next]
            /\ gap' = (gap \/ repeated)
            /\ Fixed
      \/ EaPagesEnd(state, gap \/ repeated \/ (declared = Unknown /\ state.delivered # owned))
  BY <1>2, <1>3, <1>4, <1>5
<1>7. Cardinality(page) \in Nat /\ Cardinality(owned) \in Nat
  <2>1. page \subseteq Item
    BY <1>1
  <2> QED BY <1>1, <2>1, SizeOfOwned
<1>8. /\ state.phase = "read" /\ state.games = sync.games \cup Recognised(page)
      /\ state.delivered = sync.delivered \cup page /\ state.left = sync.left
      /\ state.complete = complete /\ state.received = sync.received + Cardinality(page)
      /\ state.declared = declared
  BY <1>1, <1>5 DEF SyncState
<1>9. Recognised(page) \subseteq owned
  BY RecognisedWithin
<1>10. state \in SyncState
  <2>1. Recognised(page) \subseteq Item /\ page \subseteq Item
    BY <1>1, <1>9
  <2>2. declared \in Nat \cup {Unknown}
    BY <1>1, <1>7 DEF SyncState
  <2>3. sync.received + Cardinality(page) \in Nat /\ sync.seen \cup {sync.cursor} \in SUBSET (0..MaxCursor)
    BY <1>1, <1>7 DEF SyncState
  <2> QED BY <1>1, <1>5, <2>1, <2>2, <2>3 DEF SyncState
<1>11. /\ state.games \subseteq owned /\ state.delivered \subseteq owned /\ state.left \subseteq owned
       /\ (state.delivered \ NonGame) \ untitled \subseteq state.games
  <2>1. (page \ NonGame) \ untitled \subseteq Recognised(page)
    BY DEF Recognised
  <2>2. (sync.delivered \ NonGame) \ untitled \subseteq sync.games
    BY <1>1 DEF LibInv, PagesRead
  <2> QED BY <1>1, <1>8, <1>9, <2>1, <2>2
<1>12. state.complete => state.delivered \cap untitled = {}
  <2>1. sync.complete => sync.delivered \cap untitled = {}
    BY <1>1 DEF LibInv, EaCounts
  <2> QED BY <1>4, <1>8, <2>1
<1>13. gap \/ repeated \/ state.received = Cardinality(state.delivered)
  <2> SUFFICES ASSUME ~gap, ~repeated PROVE state.received = Cardinality(state.delivered)
    OBVIOUS
  <2>1. sync.received = Cardinality(sync.delivered)
    BY <1>1 DEF LibInv, EaCounts
  <2>2. sync.delivered \subseteq Item /\ page \subseteq Item /\ sync.delivered \cap page = {}
    BY <1>1, <1>3
  <2> QED BY <1>8, <2>1, <2>2, PageCounts
<1>14. state.declared \in {Unknown, Cardinality(owned)}
  BY <1>1, <1>8 DEF LibInv, EaCounts
<1>15. ASSUME NEW next \in 0..MaxCursor, sync' = [state EXCEPT !.cursor = next],
              gap' = (gap \/ repeated), Fixed
       PROVE  LibInv'
  <2>1. /\ sync' \in SyncState /\ sync'.phase = "read" /\ sync'.games = state.games
        /\ sync'.delivered = state.delivered /\ sync'.left = state.left
        /\ sync'.complete = state.complete /\ sync'.received = state.received
        /\ sync'.declared = state.declared
    BY <1>8, <1>10, <1>15 DEF SyncState
  <2>2. UNCHANGED <<library, owned, untitled, stored>> /\ gap' \in BOOLEAN
    BY <1>1, <1>15 DEF Fixed
  <2>3. LibTypeOK'
    BY <2>1, <2>2 DEF LibInv, LibTypeOK
  <2>4. SyncWithin'
    BY <1>11, <2>1, <2>2 DEF LibInv, SyncWithin
  <2>5. PagesRead'
    BY <1>11, <2>1, <2>2 DEF PagesRead
  <2>6. EaCounts'
    BY <1>12, <1>13, <1>14, <1>15, <2>1, <2>2 DEF EaCounts
  <2>7. PartsRead' /\ EaComplete' /\ ListComplete'
    BY <1>1, <2>1, <2>2 DEF PartsRead, EaComplete, ListComplete
  <2> QED BY <2>3, <2>4, <2>5, <2>6, <2>7 DEF LibInv
<1>16. ASSUME EaPagesEnd(state, gap \/ repeated \/ (declared = Unknown /\ state.delivered # owned))
       PROVE  LibInv'
  <2>1. PICK hidden \in BOOLEAN :
          hidden = (gap \/ repeated \/ (declared = Unknown /\ state.delivered # owned))
    BY <1>1
  <2>2. EaPagesEnd(state, hidden)
    BY <1>16, <2>1
  <2>3. /\ hidden \/ state.received = Cardinality(state.delivered)
        /\ state.complete /\ state.declared = Unknown => hidden \/ state.delivered = owned
    BY <1>8, <1>13, <2>1
  <2> QED BY <1>1, <1>10, <1>11, <1>12, <1>14, <2>2, <2>3, PagesEndKeeps
<1> QED BY <1>6, <1>15, <1>16

LEMMA EaPageFailsKeeps == LibInv /\ EaPageFails => LibInv'
<1> SUFFICES ASSUME LibInv, EaPageFails PROVE LibInv'
  OBVIOUS
<1>1. /\ library = "ea" /\ sync.phase = "read" /\ sync \in SyncState /\ gap \in BOOLEAN
      /\ sync.games \subseteq owned /\ sync.delivered \subseteq owned /\ sync.left \subseteq owned
  BY DEF EaPageFails, Reading, LibInv, LibTypeOK, SyncWithin
<1>2. PICK state : state = [sync EXCEPT !.complete = FALSE]
  OBVIOUS
<1>3. /\ state \in SyncState /\ state.games = sync.games /\ state.delivered = sync.delivered
      /\ state.left = sync.left /\ state.complete = FALSE
      /\ state.received = sync.received /\ state.declared = sync.declared
  BY <1>1, <1>2 DEF SyncState
<1>4. EaPagesEnd(state, gap)
  BY <1>2 DEF EaPageFails
<1>5. /\ (sync.delivered \ NonGame) \ untitled \subseteq sync.games
      /\ gap \/ sync.received = Cardinality(sync.delivered)
      /\ sync.declared \in {Unknown, Cardinality(owned)}
  BY <1>1 DEF LibInv, PagesRead, EaCounts
<1>6. PICK hidden \in BOOLEAN : hidden = gap
  BY <1>1
<1>7. /\ EaPagesEnd(state, hidden)
      /\ hidden \/ state.received = Cardinality(state.delivered)
  BY <1>3, <1>4, <1>5, <1>6
<1>8. /\ state.games \subseteq owned /\ state.delivered \subseteq owned /\ state.left \subseteq owned
      /\ (state.delivered \ NonGame) \ untitled \subseteq state.games
      /\ state.declared \in {Unknown, Cardinality(owned)}
      /\ ~state.complete
  BY <1>1, <1>3, <1>5
<1> QED BY <1>1, <1>3, <1>7, <1>8, PagesEndKeeps

LEMMA EaOriginKeeps == LibInv /\ EaOrigin => LibInv'
<1> SUFFICES ASSUME LibInv, EaOrigin PROVE LibInv'
  OBVIOUS
<1>1. /\ library = "ea" /\ sync.phase = "fallback" /\ sync \in SyncState /\ gap \in BOOLEAN
      /\ sync.games \subseteq owned
  BY DEF EaOrigin, LibInv, LibTypeOK, SyncWithin
<1>2. PICK known \in SUBSET (owned \ NonGame) :
       LET added == known \ sync.games
           games == sync.games \cup known IN
       IF games = {} /\ sync.declared # 0
       THEN /\ sync' = [sync EXCEPT !.phase = "failed"]
            /\ UNCHANGED gap
            /\ Fixed
       ELSE Answer(games, sync.complete /\ added = {}, gap)
  BY DEF EaOrigin
<1>3. ASSUME sync' = [sync EXCEPT !.phase = "failed"], UNCHANGED gap, Fixed PROVE LibInv'
  BY <1>1, <1>3, FailureKeeps
<1>4. ASSUME Answer(sync.games \cup known, sync.complete /\ known \ sync.games = {}, gap)
      PROVE  LibInv'
  <2>1. PICK games : games = sync.games \cup known
    OBVIOUS
  <2>2. PICK complete \in BOOLEAN : complete = (sync.complete /\ known \ sync.games = {})
    OBVIOUS
  <2>3. PICK hidden \in BOOLEAN : hidden = gap
    BY <1>1
  <2>4. Answer(games, complete, hidden) /\ games \subseteq owned
    BY <1>1, <1>4, <2>1, <2>2, <2>3
  <2>5. complete => hidden \/ Needed \subseteq games
    <3> SUFFICES ASSUME complete, ~hidden PROVE Needed \subseteq games
      OBVIOUS
    <3>1. sync.complete
      BY <2>2
    <3>2. sync.delivered = owned /\ sync.delivered \cap untitled = {}
      BY <1>1, <2>3, <3>1 DEF LibInv, EaComplete, EaCounts
    <3>3. (sync.delivered \ NonGame) \ untitled \subseteq sync.games
      BY <1>1 DEF LibInv, PagesRead
    <3> QED BY <1>1, <2>1, <3>2, <3>3 DEF Needed
  <2> QED BY <1>1, <2>4, <2>5, AnswerKeeps
<1> QED BY <1>2, <1>3, <1>4

-----------------------------------------------------------------------------
(* The other steps.                                                        *)

LEMMA BeginSyncKeeps == LibInv /\ BeginSync => LibInv'
<1> SUFFICES ASSUME LibInv, BeginSync PROVE LibInv'
  OBVIOUS
<1>1. /\ untitled' \subseteq owned /\ gap' = FALSE /\ UNCHANGED <<library, owned, stored>>
      /\ sync' = [NoSync EXCEPT !.phase = "read", !.left = owned]
  BY DEF BeginSync
<1>2. owned \subseteq Item
  BY DEF LibInv, LibTypeOK
<1>3. /\ sync' \in SyncState /\ sync'.phase = "read" /\ sync'.games = {}
      /\ sync'.delivered = {} /\ sync'.left = owned /\ sync'.received = 0
      /\ sync'.declared = Unknown
  <2>1. /\ NoSync \in SyncState /\ NoSync.games = {} /\ NoSync.delivered = {}
        /\ NoSync.received = 0 /\ NoSync.declared = Unknown
    BY LibrariesAssumption DEF NoSync, SyncState
  <2>2. PICK s : s = NoSync
    OBVIOUS
  <2>3. sync' = [s EXCEPT !.phase = "read", !.left = owned]
    BY <1>1, <2>2
  <2>4. /\ s \in SyncState /\ s.games = {} /\ s.delivered = {}
        /\ s.received = 0 /\ s.declared = Unknown
    BY <2>1, <2>2
  <2> QED BY <1>2, <2>3, <2>4 DEF SyncState
<1>4. LibTypeOK'
  BY <1>1, <1>3 DEF LibInv, LibTypeOK
<1>5. SyncWithin' /\ PagesRead' /\ EaComplete' /\ ListComplete'
  BY <1>1, <1>3 DEF SyncWithin, PagesRead, EaComplete, ListComplete
<1>6. PartsRead'
  BY <1>1, <1>3 DEF PartsRead, Needed
<1>7. EaCounts'
  BY <1>3, FS_EmptySet DEF EaCounts
<1> QED BY <1>4, <1>5, <1>6, <1>7 DEF LibInv

LEMMA FinishSyncKeeps == LibInv /\ FinishSync => LibInv'
<1> SUFFICES ASSUME LibInv, FinishSync PROVE LibInv'
  OBVIOUS
<1>1. /\ sync' = NoSync /\ untitled' = {} /\ gap' = FALSE /\ UNCHANGED <<library, owned>>
      /\ stored' \in {Reconciled, stored}
  BY DEF FinishSync
<1>2. stored \subseteq Item /\ sync.games \subseteq owned /\ owned \subseteq Item
  BY DEF LibInv, LibTypeOK, SyncWithin
<1>3. stored' \subseteq Item
  BY <1>1, <1>2 DEF Reconciled
<1>4. /\ NoSync \in SyncState /\ NoSync.phase = "idle" /\ NoSync.games = {}
      /\ NoSync.delivered = {} /\ NoSync.left = {}
  BY LibrariesAssumption DEF NoSync, SyncState
<1>5. LibTypeOK'
  BY <1>1, <1>2, <1>3, <1>4 DEF LibInv, LibTypeOK
<1>6. SyncWithin'
  <2>1. NoSync' = NoSync
    BY DEF NoSync
  <2> QED BY <1>1, <1>4, <2>1 DEF SyncWithin
<1>7. PartsRead' /\ PagesRead' /\ EaCounts' /\ EaComplete' /\ ListComplete'
  BY <1>1, <1>4 DEF PartsRead, PagesRead, EaCounts, EaComplete, ListComplete
<1> QED BY <1>5, <1>6, <1>7 DEF LibInv

LEMMA ChangeLibraryKeeps == ASSUME LibInv, NEW i \in Item, ChangeLibrary(i) PROVE LibInv'
<1>1. /\ sync.phase = "idle" /\ UNCHANGED <<library, untitled, stored, sync, gap>>
      /\ owned' \in {owned \ {i}, owned \cup {i}}
  BY DEF ChangeLibrary
<1>2. /\ NoSync.games = {} /\ NoSync.delivered = {} /\ NoSync.left = {}
  BY DEF NoSync
<1>3. sync = NoSync /\ untitled = {} /\ ~gap
  BY <1>1 DEF LibInv, SyncWithin
<1>4. LibTypeOK'
  BY <1>1, <1>3 DEF LibInv, LibTypeOK
<1>5. SyncWithin'
  <2>1. NoSync' = NoSync
    BY DEF NoSync
  <2> QED BY <1>1, <1>2, <1>3, <2>1 DEF SyncWithin
<1>6. PartsRead' /\ PagesRead' /\ EaCounts' /\ EaComplete' /\ ListComplete'
  BY <1>1 DEF PartsRead, PagesRead, EaCounts, EaComplete, ListComplete
<1> QED BY <1>4, <1>5, <1>6 DEF LibInv

LEMMA LibStep == LibInv /\ [LibNext]_libVars => LibInv'
<1> SUFFICES ASSUME LibInv, [LibNext]_libVars PROVE LibInv'
  OBVIOUS
<1>1. CASE BeginSync
  BY <1>1, BeginSyncKeeps
<1>2. CASE RequestFails
  <2>1. /\ sync.phase = "read" /\ sync' = [sync EXCEPT !.phase = "failed"]
        /\ UNCHANGED gap /\ Fixed
    BY <1>2 DEF RequestFails
  <2> QED BY <2>1, FailureKeeps
<1>3. CASE ReadLibrary
  BY <1>3, WholeAnswersKeep, PartsKeep, AmazonKeeps, EaPageKeeps,
     EaPageFailsKeeps, EaOriginKeeps DEF ReadLibrary
<1>4. CASE FinishSync
  BY <1>4, FinishSyncKeeps
<1>5. CASE \E i \in Item : ChangeLibrary(i)
  BY <1>5, ChangeLibraryKeeps
<1>6. CASE UNCHANGED libVars
  BY <1>6 DEF libVars, LibInv, LibTypeOK, SyncWithin, PartsRead, PagesRead, EaCounts,
     EaComplete, ListComplete, Needed, NoSync
<1> QED BY <1>1, <1>2, <1>3, <1>4, <1>5, <1>6 DEF LibNext

(* A library's variables keep their types.                                 *)
THEOREM LibraryTyped == LibSpec => []LibTypeOK
<1>1. LibInv => LibTypeOK
  BY DEF LibInv
<1> QED BY <1>1, LibInitially, LibStep, PTL DEF LibSpec

(* Only the end of a sync changes what is stored.                          *)
LEMMA OnlySyncsStore == LibInv /\ LibNext /\ ~FinishSync => UNCHANGED stored
<1> SUFFICES ASSUME LibNext, ~FinishSync PROVE UNCHANGED stored
  OBVIOUS
<1>1. ASSUME NEW games, NEW complete, NEW hidden, Answer(games, complete, hidden)
      PROVE  UNCHANGED stored
  BY <1>1 DEF Answer, Fixed
<1>2. ASSUME NEW state, NEW hidden, EaPagesEnd(state, hidden) PROVE UNCHANGED stored
  BY <1>2 DEF EaPagesEnd, Fixed
<1>3. CASE SteamLibrary \/ EpicLibrary \/ GogLibrary \/ XboxLibrary \/ UbisoftLibrary \/ BattleNetLibrary
  BY <1>1, <1>3 DEF SteamLibrary, EpicLibrary, GogLibrary, XboxLibrary, UbisoftLibrary,
     BattleNetLibrary, AnswerUnlessEmpty
<1>4. CASE HumbleOrders \/ MetaDocuments \/ AmazonPage
  BY <1>1, <1>4 DEF HumbleOrders, MetaDocuments, PartRead, AmazonPage, AnswerUnlessEmpty, Fixed
<1>5. CASE EaPage \/ EaPageFails
  BY <1>2, <1>5 DEF EaPage, EaPageFails, Fixed
<1>6. CASE EaOrigin
  BY <1>1, <1>6 DEF EaOrigin, Fixed
<1>7. CASE BeginSync \/ RequestFails \/ \E i \in Item : ChangeLibrary(i)
  BY <1>7 DEF BeginSync, RequestFails, ChangeLibrary, Fixed
<1> QED BY <1>3, <1>4, <1>5, <1>6, <1>7 DEF LibNext, ReadLibrary

(* No sync takes away a game that the account still owns, but by one of    *)
(* the answers named at OwnedGamesStay that hide games and are taken for   *)
(* complete, or a title left out; whatever pages, orders and products the  *)
(* provider sends and in whatever order.                                   *)
THEOREM OwnedGamesAreKept == LibSpec => OwnedGamesStay
<1>1. LibInv /\ [LibNext]_libVars =>
        [\A i \in Item \ NonGame :
           i \in owned /\ i \in stored /\ i \notin stored' =>
             gap \/ (i \in untitled /\ library \notin {"gog", "ea"})]_libVars
  <2> SUFFICES ASSUME LibInv, LibNext, NEW i \in Item \ NonGame,
                      i \in owned, i \in stored, i \notin stored'
               PROVE  gap \/ (i \in untitled /\ library \notin {"gog", "ea"})
    OBVIOUS
  <2>1. FinishSync
    BY OnlySyncsStore
  <2>2. sync.phase = "done" /\ stored' = Reconciled
    BY <2>1 DEF FinishSync
  <2>3. sync.complete /\ library \in Authoritative /\ i \notin sync.games
    BY <2>2 DEF Reconciled
  <2>4. gap \/ Needed \subseteq sync.games
    BY <2>2, <2>3 DEF LibInv, ListComplete
  <2> QED BY <2>3, <2>4 DEF Needed
<1> QED BY <1>1, LibInitially, LibStep, PTL DEF LibSpec, OwnedGamesStay

(* What the account has given back does not outlive a complete list; Xbox  *)
(* and Ubisoft never take anything away.                                   *)
THEOREM GivenBackGamesAreDropped == LibSpec => GivenBackGamesGo
<1>1. LibInv /\ [LibNext]_libVars =>
        [/\ sync.phase = "done" /\ sync.complete /\ library \in Authoritative /\ FinishSync
              => stored' \subseteq owned
         /\ library \notin Authoritative => stored \subseteq stored']_libVars
  <2> SUFFICES ASSUME LibInv, LibNext
               PROVE  /\ sync.phase = "done" /\ sync.complete /\ library \in Authoritative /\ FinishSync
                           => stored' \subseteq owned
                      /\ library \notin Authoritative => stored \subseteq stored'
    OBVIOUS
  <2>1. ASSUME sync.phase = "done", sync.complete, library \in Authoritative, FinishSync
        PROVE  stored' \subseteq owned
    BY <2>1 DEF FinishSync, Reconciled, LibInv, SyncWithin
  <2>2. ASSUME library \notin Authoritative PROVE stored \subseteq stored'
    BY <2>2, OnlySyncsStore DEF FinishSync, Reconciled
  <2> QED BY <2>1, <2>2
<1> QED BY <1>1, LibInitially, LibStep, PTL DEF LibSpec, GivenBackGamesGo

-----------------------------------------------------------------------------
(* Recommendations.                                                        *)

LEMMA RecInitially == RecInit => RecTypeOK
BY DEF RecInit, RecTypeOK, NoAccount

(* What becomes of one account, and the rows that may remain then.         *)
AccountMayBecome(p, pl, account, rows) ==
  /\ account \in [synced : BOOLEAN, failed : BOOLEAN, is : BOOLEAN]
  /\ rows \subseteq Row
  /\ \A r \in rows :
       \/ r \in confirmed
       \/ r.person = p /\ r.platform = pl /\ account.is
       \/ r \in ownerships /\ ~(r.person = p /\ r.platform = pl)

LEMMA AccountChangeKeeps ==
  ASSUME RecTypeOK, NEW p \in Player, NEW pl \in Platform, NEW account, NEW rows,
         AccountMayBecome(p, pl, account, rows),
         accounts' = [accounts EXCEPT ![p][pl] = account], ownerships' = rows,
         UNCHANGED confirmed
  PROVE  RecTypeOK'
<1> USE DEF AccountMayBecome
<1>1. accounts \in [Player -> [Platform -> [synced : BOOLEAN, failed : BOOLEAN, is : BOOLEAN]]]
  BY DEF RecTypeOK
<1>2. accounts' \in [Player -> [Platform -> [synced : BOOLEAN, failed : BOOLEAN, is : BOOLEAN]]]
  BY <1>1
<1>3. ASSUME NEW r \in rows, r \notin confirmed
      PROVE  accounts'[r.person][r.platform].is
  <2>1. r.person \in Player /\ r.platform \in Platform
    BY DEF Row
  <2>2. CASE r.person = p /\ r.platform = pl /\ account.is
    BY <1>1, <2>2
  <2>3. CASE r \in ownerships /\ ~(r.person = p /\ r.platform = pl)
    <3>1. accounts'[r.person][r.platform] = accounts[r.person][r.platform]
      BY <1>1, <2>1, <2>3
    <3> QED BY <1>3, <2>3, <3>1 DEF RecTypeOK
  <2> QED BY <1>3, <2>2, <2>3
<1> QED BY <1>2, <1>3 DEF RecTypeOK

LEMMA RecStep == RecTypeOK /\ [RecNext]_recVars => RecTypeOK'
<1> SUFFICES ASSUME RecTypeOK, [RecNext]_recVars PROVE RecTypeOK'
  OBVIOUS
<1>1. /\ accounts \in [Player -> [Platform -> [synced : BOOLEAN, failed : BOOLEAN, is : BOOLEAN]]]
      /\ ownerships \subseteq Row
      /\ confirmed \subseteq Row
      /\ \A r \in ownerships \ confirmed : accounts[r.person][r.platform].is
  BY DEF RecTypeOK
<1>2. ASSUME NEW p \in Player, NEW pl \in Platform, Connect(p, pl) PROVE RecTypeOK'
  <2>1. PICK account : account = Account(FALSE, FALSE)
    OBVIOUS
  <2>2. account \in [synced : BOOLEAN, failed : BOOLEAN, is : BOOLEAN]
    BY <2>1 DEF Account
  <2>3. PICK rows : rows = ownerships
    OBVIOUS
  <2>4. accounts' = [accounts EXCEPT ![p][pl] = account] /\ ownerships' = rows /\ ~accounts[p][pl].is
        /\ UNCHANGED confirmed
    BY <1>2, <2>1, <2>3 DEF Connect
  <2>5. AccountMayBecome(p, pl, account, rows)
    BY <1>1, <2>2, <2>3, <2>4 DEF AccountMayBecome
  <2> QED BY <2>4, <2>5, AccountChangeKeeps
<1>3. ASSUME NEW p \in Player, NEW pl \in Platform, SyncFails(p, pl) PROVE RecTypeOK'
  <2>1. PICK account : account = [accounts[p][pl] EXCEPT !.failed = TRUE]
    OBVIOUS
  <2>2. account \in [synced : BOOLEAN, failed : BOOLEAN, is : BOOLEAN] /\ account.is
    <3>1. PICK old : old = accounts[p][pl]
      OBVIOUS
    <3>2. old \in [synced : BOOLEAN, failed : BOOLEAN, is : BOOLEAN] /\ old.is
      BY <1>1, <1>3, <3>1 DEF SyncFails
    <3>3. account = [old EXCEPT !.failed = TRUE]
      BY <2>1, <3>1
    <3>4. account.is = old.is
      BY <3>2, <3>3
    <3>5. account \in [synced : BOOLEAN, failed : BOOLEAN, is : BOOLEAN]
      BY <3>2, <3>3
    <3> QED BY <3>2, <3>4, <3>5
  <2>3. PICK rows : rows = ownerships
    OBVIOUS
  <2>4. accounts' = [accounts EXCEPT ![p][pl].failed = TRUE] /\ ownerships' = rows
        /\ UNCHANGED confirmed
    BY <1>3, <2>3 DEF SyncFails
  <2>5. accounts' = [accounts EXCEPT ![p][pl] = account]
    BY <1>1, <2>1, <2>4
  <2>6. AccountMayBecome(p, pl, account, rows)
    BY <1>1, <2>2, <2>3 DEF AccountMayBecome
  <2> QED BY <2>4, <2>5, <2>6, AccountChangeKeeps
<1>4. ASSUME NEW p \in Player, NEW pl \in Platform, Disconnect(p, pl) PROVE RecTypeOK'
  <2>1. PICK account : account = NoAccount
    OBVIOUS
  <2>2. PICK rows : rows = ownerships \ ListedOnly(p, pl)
    OBVIOUS
  <2>3. accounts' = [accounts EXCEPT ![p][pl] = account] /\ ownerships' = rows
        /\ UNCHANGED confirmed
    BY <1>4, <2>1, <2>2 DEF Disconnect
  <2>4. /\ rows \subseteq Row
        /\ \A r \in rows : \/ r \in confirmed
                           \/ r \in ownerships /\ ~(r.person = p /\ r.platform = pl)
    BY <1>1, <2>2 DEF ListedOnly
  <2>5. account \in [synced : BOOLEAN, failed : BOOLEAN, is : BOOLEAN]
    BY <2>1 DEF NoAccount
  <2>6. AccountMayBecome(p, pl, account, rows)
    BY <2>4, <2>5 DEF AccountMayBecome
  <2> QED BY <2>3, <2>6, AccountChangeKeeps
<1>5. ASSUME NEW p \in Player, NEW pl \in Platform, NEW games \in SUBSET Game,
             SyncSucceeds(p, pl, games)
      PROVE  RecTypeOK'
  <2>1. PICK account : account = Account(TRUE, FALSE)
    OBVIOUS
  <2>2. PICK rows : rows = (ownerships \ ListedOnly(p, pl))
                      \cup {[person |-> p, game |-> g, platform |-> pl] : g \in games}
    OBVIOUS
  <2>3. accounts' = [accounts EXCEPT ![p][pl] = account] /\ ownerships' = rows
        /\ UNCHANGED confirmed
    BY <1>5, <2>1, <2>2 DEF SyncSucceeds
  <2>4. \A g \in games : [person |-> p, game |-> g, platform |-> pl] \in Row
    BY DEF Row
  <2>5. rows \subseteq Row
    BY <1>1, <2>2, <2>4
  <2>6. \A r \in rows : \/ r \in confirmed
                        \/ r.person = p /\ r.platform = pl
                        \/ r \in ownerships /\ ~(r.person = p /\ r.platform = pl)
    BY <2>2 DEF ListedOnly
  <2>7. account \in [synced : BOOLEAN, failed : BOOLEAN, is : BOOLEAN] /\ account.is
    BY <2>1 DEF Account
  <2>8. AccountMayBecome(p, pl, account, rows)
    BY <2>5, <2>6, <2>7 DEF AccountMayBecome
  <2> QED BY <2>3, <2>8, AccountChangeKeeps
<1>6. ASSUME NEW row \in MayConfirm, Confirm(row) \/ Withdraw(row) PROVE RecTypeOK'
  <2>1. row \in Row /\ UNCHANGED accounts
    BY <1>6, RecommendationsAssumption DEF Confirm, Withdraw
  <2>2. CASE Confirm(row)
    BY <1>1, <2>1, <2>2 DEF Confirm, RecTypeOK
  <2>3. CASE Withdraw(row)
    BY <1>1, <2>1, <2>3 DEF Withdraw, RecTypeOK
  <2> QED BY <1>6, <2>2, <2>3
<1>7. CASE UNCHANGED recVars
  BY <1>7 DEF recVars, RecTypeOK
<1> QED BY <1>2, <1>3, <1>4, <1>5, <1>6, <1>7 DEF RecNext

(* Accounts and rows keep their types; a row that nobody has confirmed     *)
(* goes with an account.                                                   *)
THEOREM LibrariesOfPeopleTyped == RecSpec => []RecTypeOK
BY RecInitially, RecStep, PTL DEF RecSpec

(* The people who are counted.                                             *)
Owners(g, S) == {r.person : r \in Relevant(g, S)}

LEMMA OwnersAre ==
  ASSUME RecTypeOK, NEW S, S \subseteq Player, NEW g
  PROVE  /\ Owners(g, S) \subseteq S
         /\ \A p \in S : p \in Owners(g, S) <=> IsOwner(p, g)
         /\ (Relevant(g, S) # {}) = (Owners(g, S) # {})
<1>1. \A r \in Relevant(g, S) : r \in ownerships /\ r.game = g /\ r.person \in S
  BY DEF Relevant
<1>2. Owners(g, S) \subseteq S
  BY <1>1 DEF Owners
<1>3. \A p \in S : p \in Owners(g, S) <=> IsOwner(p, g)
  BY DEF Owners, Relevant, IsOwner
<1>4. (Relevant(g, S) # {}) = (Owners(g, S) # {})
  BY DEF Owners
<1> QED BY <1>2, <1>3, <1>4

LEMMA SizeOfGroup ==
  ASSUME NEW S, S \subseteq Player
  PROVE  IsFiniteSet(S) /\ Cardinality(S) \in Nat
BY RecommendationsAssumption, FS_Subset, FS_CardinalityType

(* A part of a group that is as large as the group is the group.           *)
LEMMA PartOfGroup ==
  ASSUME NEW S, S \subseteq Player, NEW P, P \subseteq S
  PROVE  /\ Cardinality(P) <= Cardinality(S)
         /\ Cardinality(P) >= Cardinality(S) <=> P = S
         /\ P # {} => Cardinality(P) > 0
<1>1. IsFiniteSet(S) /\ Cardinality(S) \in Nat
  BY SizeOfGroup
<1>2. P \subseteq Player
  OBVIOUS
<1>3. IsFiniteSet(P) /\ Cardinality(P) \in Nat
  BY <1>2, SizeOfGroup
<1>4. Cardinality(P) <= Cardinality(S) /\ (Cardinality(P) = Cardinality(S) => P = S)
  BY <1>1, FS_Subset
<1>5. P # {} => Cardinality(P) # 0
  BY <1>3, FS_EmptySet
<1> QED BY <1>1, <1>3, <1>4, <1>5

(* Those counted as owners are among those whose library is known.         *)
LEMMA OwnersAreKnown ==
  ASSUME RecTypeOK, NEW S, S \subseteq Player, NEW g, NEW free
  PROVE  Owners(g, S) \subseteq S \ UnknownPlayers(g, S, free)
BY OwnersAre DEF UnknownPlayers

(* Owners are among the players whose library is known, those among the    *)
(* selected ones: no share exceeds one or has nobody to be a share of.     *)
THEOREM SharesHold == RecSpec => []SharesAreShares
<1>1. RecTypeOK => SharesAreShares
  <2> SUFFICES ASSUME RecTypeOK, NEW S \in Group, NEW free \in BOOLEAN, NEW g \in Game,
                      Relevant(g, S) # {}
               PROVE  /\ OwnerCount(g, S) <= Available(g, S, free)
                      /\ Available(g, S, free) <= KnownCount(g, S, free)
                      /\ 0 < KnownCount(g, S, free)
    BY DEF SharesAreShares
  <2>1. S \subseteq Player /\ S # {}
    BY DEF Group
  <2>2. PICK owners : owners = Owners(g, S)
    OBVIOUS
  <2>3. PICK known : known = S \ UnknownPlayers(g, S, free)
    OBVIOUS
  <2>4. owners # {} /\ owners \subseteq known /\ known \subseteq S /\ known \subseteq Player
    BY <2>1, <2>2, <2>3, OwnersAre, OwnersAreKnown
  <2>5. OwnerCount(g, S) = Cardinality(owners) /\ KnownCount(g, S, free) = Cardinality(known)
    BY <2>2, <2>3 DEF OwnerCount, KnownCount, Owners
  <2>6. owners \subseteq S
    BY <2>4
  <2>7. /\ Cardinality(owners) \in Nat /\ Cardinality(known) \in Nat /\ Cardinality(S) \in Nat
        /\ Cardinality(owners) <= Cardinality(known) /\ Cardinality(owners) <= Cardinality(S)
        /\ 0 < Cardinality(known)
    <3>1. owners \subseteq Player
      BY <2>1, <2>6
    <3>2. Cardinality(owners) \in Nat /\ Cardinality(known) \in Nat /\ Cardinality(S) \in Nat
      BY <2>1, <2>4, <3>1, SizeOfGroup
    <3>3. Cardinality(owners) <= Cardinality(known) /\ Cardinality(owners) <= Cardinality(S)
      BY <2>1, <2>4, <2>6, PartOfGroup
    <3>4. known # {}
      BY <2>4
    <3>5. 0 < Cardinality(known)
      BY <2>1, <2>4, <3>4, PartOfGroup
    <3> QED BY <3>2, <3>3, <3>5
  <2>8. CASE FreeForGroup(g, free)
    <3>1. Available(g, S, free) = Cardinality(S) /\ known = S
      BY <2>3, <2>8 DEF Available, UnknownPlayers
    <3> QED BY <2>5, <2>7, <3>1
  <2>9. CASE ~FreeForGroup(g, free)
    <3>1. Available(g, S, free) = Cardinality(owners)
      BY <2>5, <2>9 DEF Available
    <3> QED BY <2>5, <2>7, <3>1
  <2> QED BY <2>8, <2>9
<1> QED BY <1>1, RecInitially, RecStep, PTL DEF RecSpec

(* A member whose library is unknown for a game: nothing was ever to be    *)
(* read, or what matters for the game could not be.                        *)
NothingKnown(p, g, S) ==
  \/ \A pl \in Platform : accounts[p][pl].is => pl \in Optional /\ ~accounts[p][pl].synced
  \/ \E pl \in GamePlatforms(g, S) :
       /\ accounts[p][pl].is /\ (pl \in Optional => accounts[p][pl].synced)
       /\ (accounts[p][pl].failed \/ ~accounts[p][pl].synced)

LEMMA UnknownIs ==
  ASSUME RecTypeOK, NEW p, NEW g \in Game, NEW S
  PROVE  LibraryUnknown(p, GamePlatforms(g, S)) <=> NothingKnown(p, g, S)
<1>1. GamePlatforms(g, S) \subseteq Platform
  <2>1. About[g].platforms \subseteq Platform
    BY RecommendationsAssumption
  <2>2. \A r \in Relevant(g, S) : r.platform \in Platform
    BY DEF Relevant, RecTypeOK, Row
  <2> QED BY <2>1, <2>2 DEF GamePlatforms
<1> QED BY <1>1 DEF LibraryUnknown, NothingKnown

(* A game is common if and only if each member owns it, may play it for    *)
(* free, or is somebody of whom nothing is known for it.                   *)
THEOREM CommonGamesAreForAll == RecSpec => []CommonMeansAll
<1>1. ASSUME RecTypeOK, NEW S \in Group, NEW free \in BOOLEAN, NEW g \in Game
      PROVE  g \in CommonGames(S, 100, free) <=>
               /\ About[g].isGame
               /\ \E p \in S : IsOwner(p, g)
               /\ \A p \in S : \/ IsOwner(p, g)
                               \/ About[g].free /\ free
                               \/ NothingKnown(p, g, S)
  <2>1. S \subseteq Player /\ S # {}
    BY DEF Group
  <2>2. PICK owners : owners = Owners(g, S)
    OBVIOUS
  <2>3. PICK known : known = S \ UnknownPlayers(g, S, free)
    OBVIOUS
  <2>4. /\ owners \subseteq known /\ known \subseteq S /\ known \subseteq Player
        /\ (Relevant(g, S) # {}) <=> (\E p \in S : IsOwner(p, g))
        /\ \A p \in S : p \in owners <=> IsOwner(p, g)
    <3>1. owners \subseteq known /\ known \subseteq S
      BY <1>1, <2>1, <2>2, <2>3, OwnersAreKnown
    <3>2. /\ owners \subseteq S
          /\ \A p \in S : p \in owners <=> IsOwner(p, g)
          /\ (Relevant(g, S) # {}) = (owners # {})
      BY <1>1, <2>1, <2>2, OwnersAre
    <3>3. (owners # {}) <=> (\E p \in S : IsOwner(p, g))
      BY <3>2
    <3>4. (Relevant(g, S) # {}) <=> (\E p \in S : IsOwner(p, g))
      BY <3>2, <3>3
    <3> QED BY <2>1, <3>1, <3>2, <3>4
  <2>5. OwnerCount(g, S) = Cardinality(owners) /\ KnownCount(g, S, free) = Cardinality(known)
    BY <2>2, <2>3 DEF OwnerCount, KnownCount, Owners
  <2>6. Covered(g, S, 100, free) <=>
          \A p \in S : IsOwner(p, g) \/ (About[g].free /\ free) \/ NothingKnown(p, g, S)
    <3>1. CASE About[g].free /\ free
      <4>1. FreeForGroup(g, free)
        BY <3>1 DEF FreeForGroup
      <4>2. Available(g, S, free) = Cardinality(S) /\ known = S
        BY <2>3, <4>1 DEF Available, UnknownPlayers
      <4>3. Cardinality(S) \in Nat
        BY <2>1, SizeOfGroup
      <4>4. Covered(g, S, 100, free)
        BY <2>5, <4>2, <4>3 DEF Covered
      <4> QED BY <3>1, <4>4
    <3>2. CASE ~(About[g].free /\ free)
      <4>1. ~FreeForGroup(g, free)
        BY <3>2 DEF FreeForGroup
      <4>2. Available(g, S, free) = Cardinality(owners)
        BY <2>5, <4>1 DEF Available
      <4>3. Cardinality(owners) \in Nat /\ Cardinality(known) \in Nat
        <5>1. owners \subseteq Player
          BY <2>4
        <5> QED BY <2>4, <5>1, SizeOfGroup
      <4>4. Covered(g, S, 100, free) <=> Cardinality(owners) >= Cardinality(known)
        BY <2>5, <4>2, <4>3 DEF Covered
      <4>5. Cardinality(owners) >= Cardinality(known) <=> owners = known
        BY <2>4, PartOfGroup
      <4>6. \A p \in S : p \in known <=> IsOwner(p, g) \/ ~NothingKnown(p, g, S)
        BY <1>1, <2>3, <4>1, UnknownIs DEF UnknownPlayers
      <4>7. owners = known <=> \A p \in S : IsOwner(p, g) \/ NothingKnown(p, g, S)
        BY <2>4, <4>6
      <4>8. Covered(g, S, 100, free) <=> \A p \in S : IsOwner(p, g) \/ NothingKnown(p, g, S)
        BY <4>4, <4>5, <4>7
      <4> QED BY <3>2, <4>8
    <3> QED BY <3>1, <3>2
  <2>7. Suitable(g, FALSE, FALSE, AnySize) <=> About[g].isGame
    BY DEF Suitable, AnySize
  <2>8. g \in CommonGames(S, 100, free) <=>
          /\ Suitable(g, FALSE, FALSE, AnySize)
          /\ Relevant(g, S) # {}
          /\ Covered(g, S, 100, free)
    BY DEF CommonGames, Recommended
  <2> QED BY <2>4, <2>6, <2>7, <2>8
<1>2. RecTypeOK => CommonMeansAll
  BY <1>1 DEF CommonMeansAll, NothingKnown
<1> QED BY <1>2, RecInitially, RecStep, PTL DEF RecSpec

(* What a game's list looks at, besides the game itself.                   *)
Known(g, S, free) ==
  {p \in S : FreeForGroup(g, free) \/ IsOwner(p, g) \/ ~NothingKnown(p, g, S)}

KnownAreKnown ==
  \A S \in Group, g \in Game, free \in BOOLEAN :
    S \ UnknownPlayers(g, S, free) = Known(g, S, free)

LEMMA KnownAre == RecTypeOK => KnownAreKnown
<1> USE DEF KnownAreKnown
<1> SUFFICES ASSUME RecTypeOK, NEW S \in Group, NEW g \in Game, NEW free \in BOOLEAN
             PROVE  S \ UnknownPlayers(g, S, free) = Known(g, S, free)
  OBVIOUS
<1>1. \A p \in S : LibraryUnknown(p, GamePlatforms(g, S)) <=> NothingKnown(p, g, S)
  BY UnknownIs
<1> QED BY <1>1 DEF UnknownPlayers, Known

LEMMA KnownAreThen == RecTypeOK' => KnownAreKnown'
BY KnownAre, PTL

(* A share does not fall when everybody who comes to be known is an owner. *)
OwnersCome(S, owners, more, known, knownThen) ==
  /\ S \subseteq Player
  /\ owners \subseteq more /\ more \subseteq S /\ known \subseteq S /\ knownThen \subseteq S
  /\ knownThen \subseteq known \cup (more \ owners)

LEMMA SharesGrow ==
  ASSUME NEW S, NEW owners, NEW more, NEW known, NEW knownThen,
         OwnersCome(S, owners, more, known, knownThen),
         NEW percent \in 0..100,
         Cardinality(owners) * 100 >= percent * Cardinality(known)
  PROVE  Cardinality(more) * 100 >= percent * Cardinality(knownThen)
<1> USE DEF OwnersCome
<1>1. PICK new : new = more \ owners
  OBVIOUS
<1>2. /\ new \subseteq Player /\ more \subseteq Player /\ owners \subseteq Player
      /\ known \subseteq Player /\ knownThen \subseteq Player
  BY <1>1
<1>3. /\ IsFiniteSet(new) /\ IsFiniteSet(known) /\ IsFiniteSet(more) /\ IsFiniteSet(owners)
      /\ Cardinality(new) \in Nat /\ Cardinality(known) \in Nat /\ Cardinality(knownThen) \in Nat
      /\ Cardinality(owners) \in Nat /\ Cardinality(more) \in Nat
  BY <1>2, SizeOfGroup
<1>4. /\ IsFiniteSet(known \cup new)
      /\ Cardinality(known \cup new) = Cardinality(known) + Cardinality(new) - Cardinality(known \cap new)
  BY <1>3, FS_Union
<1>5. Cardinality(known \cap new) \in Nat
  BY <1>3, FS_Intersection, FS_CardinalityType
<1>6. Cardinality(knownThen) <= Cardinality(known \cup new)
  BY <1>1, <1>4, FS_Subset
<1>7. Cardinality(knownThen) <= Cardinality(known) + Cardinality(new)
  <2>1. Cardinality(known \cup new) \in Nat
    BY <1>4, FS_CardinalityType
  <2> QED BY <1>3, <1>4, <1>5, <1>6, <2>1
<1>8. Cardinality(new) = Cardinality(more) - Cardinality(owners)
  <2>1. Cardinality(new) = Cardinality(more) - Cardinality(more \cap owners)
    BY <1>1, <1>3, FS_Difference
  <2>2. more \cap owners = owners
    OBVIOUS
  <2> QED BY <2>1, <2>2
<1>9. \A n \in Nat : percent * n <= 100 * n
  OBVIOUS
<1>10. percent * Cardinality(knownThen)
         <= percent * (Cardinality(known) + Cardinality(new))
  BY <1>3, <1>7
<1>11. percent * (Cardinality(known) + Cardinality(new))
         = percent * Cardinality(known) + percent * Cardinality(new)
  BY <1>3
<1>12. percent * Cardinality(new) <= 100 * (Cardinality(more) - Cardinality(owners))
  BY <1>3, <1>8, <1>9
<1> QED BY <1>3, <1>10, <1>11, <1>12

(* Rows only come, or an account that could be read cannot.                *)
LibraryGrows == UNCHANGED accounts /\ ownerships \subseteq ownerships'
AccountFails == \E p \in Player, pl \in Platform : SyncFails(p, pl)

LEMMA LessIsKnown ==
  ASSUME RecTypeOK, LibraryGrows \/ AccountFails,
         NEW p \in Player, NEW g \in Game, NEW S \in Group, NothingKnown(p, g, S)
  PROVE  NothingKnown(p, g, S)'
<1>1. ownerships \subseteq ownerships'
  BY DEF LibraryGrows, AccountFails, SyncFails
<1>2. GamePlatforms(g, S) \subseteq GamePlatforms(g, S)'
  BY <1>1 DEF GamePlatforms, Relevant
<1>3. GamePlatforms(g, S) \subseteq Platform
  <2>1. About[g].platforms \subseteq Platform
    BY RecommendationsAssumption
  <2>2. \A r \in Relevant(g, S) : r.platform \in Platform
    BY DEF Relevant, RecTypeOK, Row
  <2> QED BY <2>1, <2>2 DEF GamePlatforms
<1>4. ASSUME NEW pl \in Platform
      PROVE  /\ accounts'[p][pl].is = accounts[p][pl].is
             /\ accounts'[p][pl].synced = accounts[p][pl].synced
             /\ accounts[p][pl].failed => accounts'[p][pl].failed
  <2>1. CASE UNCHANGED accounts
    BY <2>1
  <2>2. ASSUME NEW q \in Player, NEW at \in Platform, SyncFails(q, at)
        PROVE  /\ accounts'[p][pl].is = accounts[p][pl].is
               /\ accounts'[p][pl].synced = accounts[p][pl].synced
               /\ accounts[p][pl].failed => accounts'[p][pl].failed
    <3>1. accounts' = [accounts EXCEPT ![q][at].failed = TRUE]
      BY <2>2 DEF SyncFails
    <3>2. accounts \in [Player -> [Platform -> [synced : BOOLEAN, failed : BOOLEAN, is : BOOLEAN]]]
      BY DEF RecTypeOK
    <3>3. CASE p = q /\ pl = at
      <4>1. PICK old : old = accounts[p][pl]
        OBVIOUS
      <4>2. old \in [synced : BOOLEAN, failed : BOOLEAN, is : BOOLEAN]
        BY <3>2, <4>1
      <4>3. accounts'[p][pl] = [old EXCEPT !.failed = TRUE]
        BY <3>1, <3>2, <3>3, <4>1
      <4>4. accounts'[p][pl].is = old.is
        BY <4>2, <4>3
      <4>5. accounts'[p][pl].synced = old.synced
        BY <4>2, <4>3
      <4>6. accounts'[p][pl].failed
        BY <4>2, <4>3
      <4> QED BY <4>1, <4>4, <4>5, <4>6
    <3>4. CASE ~(p = q /\ pl = at)
      <4>1. accounts'[p][pl] = accounts[p][pl]
        BY <3>1, <3>2, <3>4
      <4> QED BY <4>1
    <3> QED BY <3>3, <3>4
  <2> QED BY <2>1, <2>2 DEF LibraryGrows, AccountFails
<1>5. CASE \A pl \in Platform : accounts[p][pl].is => pl \in Optional /\ ~accounts[p][pl].synced
  <2>1. \A pl \in Platform : accounts'[p][pl].is => pl \in Optional /\ ~accounts'[p][pl].synced
    BY <1>4, <1>5
  <2> QED BY <2>1 DEF NothingKnown
<1>6. ASSUME NEW pl \in GamePlatforms(g, S),
             accounts[p][pl].is, pl \in Optional => accounts[p][pl].synced,
             accounts[p][pl].failed \/ ~accounts[p][pl].synced
      PROVE  NothingKnown(p, g, S)'
  <2>1. pl \in Platform /\ pl \in GamePlatforms(g, S)'
    BY <1>2, <1>3
  <2>2. /\ accounts'[p][pl].is /\ (pl \in Optional => accounts'[p][pl].synced)
        /\ (accounts'[p][pl].failed \/ ~accounts'[p][pl].synced)
    BY <1>4, <1>6, <2>1
  <2> QED BY <2>1, <2>2 DEF NothingKnown
<1> QED BY <1>5, <1>6 DEF NothingKnown

(* A game on a list stays on it.                                           *)
LEMMA ListedStays ==
  ASSUME RecTypeOK, RecTypeOK', LibraryGrows \/ AccountFails,
         NEW S \in Group, NEW coop, NEW lan, NEW size,
         NEW percent \in 0..100, NEW free \in BOOLEAN
  PROVE  Recommended(S, coop, lan, size, percent, free)
           \subseteq Recommended(S, coop, lan, size, percent, free)'
<1> SUFFICES ASSUME NEW g \in Game, Relevant(g, S) # {}, Covered(g, S, percent, free)
             PROVE  (Relevant(g, S) # {})' /\ Covered(g, S, percent, free)'
  BY DEF Recommended, Suitable
<1>1. S \subseteq Player
  BY DEF Group
<1>2. ownerships \subseteq ownerships'
  BY DEF LibraryGrows, AccountFails, SyncFails
<1>3. Relevant(g, S) \subseteq Relevant(g, S)'
  BY <1>2 DEF Relevant
<1>4. PICK owners, more, known, knownThen :
        /\ owners = Owners(g, S) /\ more = Owners(g, S)'
        /\ known = Known(g, S, free) /\ knownThen = Known(g, S, free)'
  OBVIOUS
<1>5. S \ UnknownPlayers(g, S, free) = known
  BY <1>4, KnownAre DEF KnownAreKnown
<1>6. (S \ UnknownPlayers(g, S, free))' = knownThen
  BY <1>4, KnownAreThen DEF KnownAreKnown
<1>7. KnownCount(g, S, free) = Cardinality(known) /\ KnownCount(g, S, free)' = Cardinality(knownThen)
  BY <1>5, <1>6 DEF KnownCount
<1>8. OwnerCount(g, S) = Cardinality(owners) /\ OwnerCount(g, S)' = Cardinality(more)
  BY <1>4 DEF OwnerCount, Owners
<1>9. CASE FreeForGroup(g, free)
  <2>1. known = S /\ knownThen = S
    BY <1>4, <1>9 DEF Known, FreeForGroup
  <2>2. Available(g, S, free)' = Available(g, S, free)
    BY <1>9 DEF Available, FreeForGroup
  <2> QED BY <1>3, <1>7, <2>1, <2>2 DEF Covered
<1>10. CASE ~FreeForGroup(g, free)
  <2>1. Available(g, S, free) = Cardinality(owners) /\ Available(g, S, free)' = Cardinality(more)
    BY <1>8, <1>10 DEF Available, FreeForGroup
  <2>2. owners \subseteq more
    BY <1>3, <1>4 DEF Owners
  <2>3. more \subseteq S
    BY <1>4 DEF Owners, Relevant
  <2>4. \A p \in S : IsOwner(p, g)' => p \in more
    BY <1>4 DEF Owners, Relevant, IsOwner
  <2>5. \A p \in S : p \in owners => IsOwner(p, g)
    BY <1>4 DEF Owners, Relevant, IsOwner
  <2>6. known \subseteq S /\ knownThen \subseteq S
    BY <1>4 DEF Known
  <2>7. knownThen \subseteq known \cup (more \ owners)
    <3> SUFFICES ASSUME NEW p \in knownThen, p \notin known, p \in owners \/ p \notin more
                 PROVE  FALSE
      OBVIOUS
    <3>1. p \in S /\ p \in Player
      BY <1>1, <2>6
    <3>2. ~IsOwner(p, g) /\ NothingKnown(p, g, S)
      BY <1>4, <3>1 DEF Known
    <3>3. p \notin more
      BY <2>5, <3>1, <3>2
    <3>4. NothingKnown(p, g, S)'
      BY <3>1, <3>2, LessIsKnown
    <3>5. ~IsOwner(p, g)'
      BY <2>4, <3>1, <3>3
    <3> QED BY <1>4, <1>10, <3>4, <3>5 DEF Known, FreeForGroup
  <2>8. Cardinality(owners) * 100 >= percent * Cardinality(known)
    BY <1>7, <2>1 DEF Covered
  <2>11. percent \in 0..100
    OBVIOUS
  <2>9. Cardinality(more) * 100 >= percent * Cardinality(knownThen)
    <3>1. OwnersCome(S, owners, more, known, knownThen)
      BY <1>1, <2>2, <2>3, <2>6, <2>7 DEF OwnersCome
    <3> QED BY <2>8, <2>11, <3>1, SharesGrow
  <2>10. Covered(g, S, percent, free)'
    BY <1>7, <2>1, <2>9 DEF Covered
  <2> QED BY <1>3, <2>10
<1> QED BY <1>9, <1>10

(* No list loses a game because somebody has got one, or because a library *)
(* could not be read.                                                      *)
THEOREM NothingIsDelisted == RecSpec => ListsOnlyGrow
<1>1. ASSUME RecTypeOK, RecTypeOK', LibraryGrows \/ AccountFails, NEW S \in Group
      PROVE  /\ \A percent \in {60, 100}, free \in BOOLEAN :
                  CommonGames(S, percent, free) \subseteq CommonGames(S, percent, free)'
             /\ CommonCoopGames(S) \subseteq CommonCoopGames(S)'
             /\ CommonLanGames(S) \subseteq CommonLanGames(S)'
             /\ BestLanGames(S) \subseteq BestLanGames(S)'
             /\ GroupSizeGames(S, 2) \subseteq GroupSizeGames(S, 2)'
  <2>0. 0 \in 0..100 /\ 100 \in 0..100
    OBVIOUS
  <2>1. ASSUME NEW percent \in {60, 100}, NEW free \in BOOLEAN
        PROVE  CommonGames(S, percent, free) \subseteq CommonGames(S, percent, free)'
    <3>1. percent \in 0..100
      OBVIOUS
    <3>2. CASE free = TRUE
      <4>1. CommonGames(S, percent, TRUE) \subseteq CommonGames(S, percent, TRUE)'
        BY <1>1, <3>1, ListedStays DEF CommonGames
      <4> QED BY <3>2, <4>1
    <3>3. CASE free = FALSE
      <4>1. CommonGames(S, percent, FALSE) \subseteq CommonGames(S, percent, FALSE)'
        BY <1>1, <3>1, ListedStays DEF CommonGames
      <4> QED BY <3>3, <4>1
    <3> QED BY <3>2, <3>3
  <2>2. CommonCoopGames(S) \subseteq CommonCoopGames(S)'
    BY <1>1, <2>0, ListedStays DEF CommonCoopGames
  <2>3. CommonLanGames(S) \subseteq CommonLanGames(S)'
    BY <1>1, <2>0, ListedStays DEF CommonLanGames
  <2>4. BestLanGames(S) \subseteq BestLanGames(S)'
    BY <1>1, <2>0, ListedStays DEF BestLanGames
  <2>5. GroupSizeGames(S, 2) \subseteq GroupSizeGames(S, 2)'
    BY <1>1, <2>0, ListedStays DEF GroupSizeGames
  <2> QED BY <2>1, <2>2, <2>3, <2>4, <2>5
<1>2. RecTypeOK /\ [RecNext]_recVars => RecTypeOK'
  BY RecStep
<1>3. RecTypeOK /\ RecTypeOK' /\ [RecNext]_recVars =>
       [\/ UNCHANGED accounts /\ ownerships # ownerships' /\ ownerships \subseteq ownerships'
        \/ \E p \in Player, pl \in Platform : ~accounts[p][pl].failed /\ SyncFails(p, pl)
        => \A S \in Group :
             /\ \A percent \in {60, 100}, free \in BOOLEAN :
                  CommonGames(S, percent, free) \subseteq CommonGames(S, percent, free)'
             /\ CommonCoopGames(S) \subseteq CommonCoopGames(S)'
             /\ CommonLanGames(S) \subseteq CommonLanGames(S)'
             /\ BestLanGames(S) \subseteq BestLanGames(S)'
             /\ GroupSizeGames(S, 2) \subseteq GroupSizeGames(S, 2)']_recVars
  BY <1>1 DEF LibraryGrows, AccountFails
<1> QED BY <1>2, <1>3, RecInitially, PTL DEF RecSpec, ListsOnlyGrow

(* The first of the key's parts that differs decides.                      *)
LEMMA FirstPartDecides ==
  ASSUME NEW g, NEW h, NEW S, NEW mode, NEW free,
         1 \in DOMAIN SortKey(g, S, mode, free),
         SortKey(g, S, mode, free)[1] > SortKey(h, S, mode, free)[1]
  PROVE  Before(g, h, S, mode, free)
BY DEF Before

LEMMA SecondPartDecides ==
  ASSUME NEW g, NEW h, NEW S, NEW mode, NEW free,
         1 \in DOMAIN SortKey(g, S, mode, free), 2 \in DOMAIN SortKey(g, S, mode, free),
         SortKey(g, S, mode, free)[1] = SortKey(h, S, mode, free)[1],
         SortKey(g, S, mode, free)[2] > SortKey(h, S, mode, free)[2]
  PROVE  Before(g, h, S, mode, free)
BY DEF Before

(* What the key of a game begins with.                                     *)
LEMMA CommonKey ==
  ASSUME NEW g, NEW S, NEW free
  PROVE  /\ 1 \in DOMAIN SortKey(g, S, "common", free)
         /\ 2 \in DOMAIN SortKey(g, S, "common", free)
         /\ SortKey(g, S, "common", free)[1] = Availability(g, S, free)
         /\ SortKey(g, S, "common", free)[2] = OwnerCount(g, S)
<1>1. PICK a, n, share, m, t, max, title :
        /\ a = Availability(g, S, free) /\ n = OwnerCount(g, S)
        /\ share = (Available(g, S, free) * 60) \div KnownCount(g, S, free)
        /\ m = Median(g, S) /\ t = Total(g, S) /\ max = About[g].max /\ title = About[g].title
  OBVIOUS
<1>2. SortKey(g, S, "common", free) = <<a, n, share, m, t, max, title>>
  BY <1>1 DEF SortKey
<1> QED BY <1>1, <1>2

LEMMA OwnersKey ==
  ASSUME NEW g, NEW S, NEW free, NEW mode \in {"lan", "size", "popular"}
  PROVE  /\ 1 \in DOMAIN SortKey(g, S, mode, free)
         /\ SortKey(g, S, mode, free)[1] = OwnerCount(g, S)
<1>1. PICK n, m, t, max, title :
        /\ n = OwnerCount(g, S) /\ m = Median(g, S) /\ t = Total(g, S)
        /\ max = About[g].max /\ title = About[g].title
  OBVIOUS
<1>2. CASE mode = "lan"
  <2>1. SortKey(g, S, mode, free) = <<n, max, t, title>>
    BY <1>1, <1>2 DEF SortKey
  <2> QED BY <1>1, <2>1
<1>3. CASE mode = "size"
  <2>1. SortKey(g, S, mode, free) = <<n, t, max, title>>
    BY <1>1, <1>3 DEF SortKey
  <2> QED BY <1>1, <2>1
<1>4. CASE mode = "popular"
  <2>1. SortKey(g, S, mode, free) = <<n, m, t, title>>
    BY <1>1, <1>4 DEF SortKey
  <2> QED BY <1>1, <2>1
<1> QED BY <1>2, <1>3, <1>4

(* What all members own comes first among the common games; in the orders  *)
(* for a LAN, for a size and by popularity more owners win, among the      *)
(* common games unless the other is free for the group.                    *)
THEOREM MoreOwnersWin == RecSpec => []OwnersDecide
<1>1. ASSUME RecTypeOK, NEW S \in Group, NEW g
      PROVE  OwnerCount(g, S) \in Nat /\ OwnerCount(g, S) <= Cardinality(S)
  <2>1. S \subseteq Player
    BY DEF Group
  <2>2. PICK owners : owners = Owners(g, S)
    OBVIOUS
  <2>3. OwnerCount(g, S) = Cardinality(owners)
    BY <2>2 DEF OwnerCount, Owners
  <2>4. owners \subseteq S /\ owners \subseteq Player
    BY <1>1, <2>1, <2>2, OwnersAre
  <2> QED BY <2>1, <2>3, <2>4, SizeOfGroup, PartOfGroup
<1>2. ASSUME RecTypeOK, NEW S \in Group, NEW free \in BOOLEAN, NEW g, NEW h,
             OwnerCount(g, S) = Cardinality(S), OwnerCount(h, S) < Cardinality(S)
      PROVE  Before(g, h, S, "common", free)
  <2>1. Availability(g, S, free) = 3
    BY <1>2 DEF Availability
  <2>2. Availability(h, S, free) \in {1, 2}
    <3>1. OwnerCount(h, S) # Cardinality(S)
      BY <1>1, <1>2
    <3> QED BY <3>1 DEF Availability
  <2>3. SortKey(g, S, "common", free)[1] = 3 /\ SortKey(h, S, "common", free)[1] \in {1, 2}
    BY <2>1, <2>2, CommonKey
  <2>4. SortKey(g, S, "common", free)[1] > SortKey(h, S, "common", free)[1]
    BY <2>3
  <2> QED BY <2>4, CommonKey, FirstPartDecides
<1>3. ASSUME RecTypeOK, NEW S \in Group, NEW free \in BOOLEAN, NEW g, NEW h,
             OwnerCount(g, S) > OwnerCount(h, S), NEW mode \in {"lan", "size", "popular"}
      PROVE  Before(g, h, S, mode, free)
  <2>1. SortKey(g, S, mode, free)[1] > SortKey(h, S, mode, free)[1]
    BY <1>3, OwnersKey
  <2> QED BY <2>1, OwnersKey, FirstPartDecides
<1>4. ASSUME RecTypeOK, NEW S \in Group, NEW free \in BOOLEAN, NEW g, NEW h,
             OwnerCount(g, S) > OwnerCount(h, S), ~FreeForGroup(h, free)
      PROVE  Before(g, h, S, "common", free)
  <2>1. /\ OwnerCount(g, S) \in Nat /\ OwnerCount(g, S) <= Cardinality(S)
        /\ OwnerCount(h, S) \in Nat
    BY <1>1, <1>4
  <2>2. Cardinality(S) \in Nat
    BY SizeOfGroup DEF Group
  <2>3. OwnerCount(h, S) # Cardinality(S)
    BY <1>4, <2>1, <2>2
  <2>4. Availability(h, S, free) = 1
    BY <1>4, <2>3 DEF Availability
  <2>5. Availability(g, S, free) \in {1, 2, 3}
    BY DEF Availability
  <2>6. CASE Availability(g, S, free) = 1
    <3>1. /\ SortKey(g, S, "common", free)[1] = SortKey(h, S, "common", free)[1]
          /\ SortKey(g, S, "common", free)[2] > SortKey(h, S, "common", free)[2]
      BY <1>4, <2>4, <2>6, CommonKey
    <3> QED BY <3>1, CommonKey, SecondPartDecides
  <2>7. CASE Availability(g, S, free) \in {2, 3}
    <3>1. SortKey(g, S, "common", free)[1] > SortKey(h, S, "common", free)[1]
      BY <2>4, <2>7, CommonKey
    <3> QED BY <3>1, CommonKey, FirstPartDecides
  <2> QED BY <2>5, <2>6, <2>7
<1>5. RecTypeOK => OwnersDecide
  BY <1>2, <1>3, <1>4 DEF OwnersDecide
<1> QED BY <1>5, RecInitially, RecStep, PTL DEF RecSpec

-----------------------------------------------------------------------------
(* The catalogue entry.                                                    *)

IsFields(x) == x = [f \in Field |-> x[f]]

(* What a field may hold.                                                  *)
ValueOK(f, v) ==
  /\ f \in {"text", "date"} => v \in {None, "store", "igdb", "rawg"}
  /\ f = "genres" => v \subseteq {"play", "software"}
  /\ f = "reason" => v \in {None, "type", "title", "genre"}
  /\ f \in Feature \cup {"isGame", "known"} => v \in BOOLEAN
  /\ f = "count" => v \in 0..2

(* An entry is its fields, their sources and its primary source.           *)
Entry(g) ==
  /\ IsFields(g.is) /\ IsFields(g.sources)
  /\ g = [is |-> g.is, sources |-> g.sources, primary |-> g.primary]
  /\ \A f \in Field : ValueOK(f, g.is[f])
  /\ \A f \in Field : g.sources[f] \in Source \cup {None}
  /\ g.primary \in {None, "igdb", "rawg", "steam_store"}

LEMMA EntriesAreOK == ASSUME NEW g, Entry(g) PROVE GameOK(g)
<1>1. /\ \A f \in {"text", "date"} : g.is[f] \in {None, "store", "igdb", "rawg"}
      /\ g.is["genres"] \subseteq {"play", "software"}
  BY DEF Entry, ValueOK, Field
<1>2. g.is["reason"] \in {None, "type", "title", "genre"} /\ g.is["count"] \in 0..2
  BY DEF Entry, ValueOK, Field
<1>3. \A f \in Feature \cup {"isGame", "known"} : g.is[f] \in BOOLEAN
  BY DEF Entry, ValueOK, Field
<1>4. g.sources \in [Field -> Source \cup {None}]
  BY DEF Entry, IsFields
<1> QED BY <1>1, <1>2, <1>3, <1>4 DEF GameOK, Entry

EntryParts(is, sources, primary) ==
  /\ IsFields(is) /\ IsFields(sources)
  /\ \A f \in Field : ValueOK(f, is[f])
  /\ \A f \in Field : sources[f] \in Source \cup {None}
  /\ primary \in {None, "igdb", "rawg", "steam_store"}

LEMMA EntryOf ==
  ASSUME NEW is, NEW sources, NEW primary, EntryParts(is, sources, primary),
         NEW g, g = [is |-> is, sources |-> sources, primary |-> primary]
  PROVE  Entry(g) /\ g.is = is /\ g.sources = sources /\ g.primary = primary
<1>1. g.is = is /\ g.sources = sources /\ g.primary = primary
  OBVIOUS
<1> QED BY <1>1 DEF Entry, EntryParts

LEMMA NewGameIs == Entry(NewGame) /\ NewGame.is = Blank /\ \A f \in Field : NewGame.sources[f] = None
<1>1. Blank = [f \in Field |-> Blank[f]] /\ \A f \in Field : ValueOK(f, Blank[f])
  BY DEF Blank, Field, Feature, ValueOK, None
<1>2. PICK sources : sources = [f \in Field |-> None]
  OBVIOUS
<1>3. NewGame = [is |-> Blank, sources |-> sources, primary |-> None]
  BY <1>2 DEF NewGame
<1>4. IsFields(sources) /\ \A f \in Field : sources[f] = None
  BY <1>2 DEF IsFields
<1> QED BY <1>1, <1>3, <1>4, EntryOf DEF IsFields, EntryParts

(* An exclusion, or its end, as the store and the classification write it. *)
JudgedTo(j, g, isGame, reason, decided, explained) ==
  /\ Entry(j) /\ j.primary = g.primary
  /\ \A f \in Field \ {"isGame", "reason"} : j.is[f] = g.is[f] /\ j.sources[f] = g.sources[f]
  /\ j.is["isGame"] = isGame /\ j.is["reason"] = reason
  /\ j.sources["isGame"] = decided /\ j.sources["reason"] = explained

Judged(g, isGame, reason, decided, explained) ==
  [g EXCEPT !.is.isGame = isGame, !.is.reason = reason,
            !.sources.isGame = decided, !.sources.reason = explained]

LEMMA JudgementIs ==
  ASSUME NEW g, Entry(g), NEW isGame \in BOOLEAN, NEW reason \in {None, "type", "title", "genre"},
         NEW decided \in Source \cup {None}, NEW explained \in Source \cup {None},
         NEW j, j = Judged(g, isGame, reason, decided, explained)
  PROVE  JudgedTo(j, g, isGame, reason, decided, explained)
<1>1. PICK is, sources, primary :
        /\ is = [f \in Field |-> is[f]] /\ sources = [f \in Field |-> sources[f]]
        /\ g = [is |-> is, sources |-> sources, primary |-> primary]
        /\ g.is = is /\ g.sources = sources /\ g.primary = primary
  BY DEF Entry, IsFields
<1>2. "isGame" \in Field /\ "reason" \in Field
  BY DEF Field
<1>3. PICK newIs : newIs = [is EXCEPT !["isGame"] = isGame, !["reason"] = reason]
  OBVIOUS
<1>4. PICK newSources : newSources = [sources EXCEPT !["isGame"] = decided, !["reason"] = explained]
  OBVIOUS
<1>5. j = [is |-> newIs, sources |-> newSources, primary |-> primary]
  BY <1>1, <1>3, <1>4 DEF Judged
<1>6. IsFields(newIs) /\ IsFields(newSources)
  BY <1>1, <1>3, <1>4 DEF IsFields
<1>7. \A f \in Field \ {"isGame", "reason"} : newIs[f] = is[f] /\ newSources[f] = sources[f]
  BY <1>1, <1>2, <1>3, <1>4
<1>8. /\ newIs["isGame"] = isGame /\ newIs["reason"] = reason
      /\ newSources["isGame"] = decided /\ newSources["reason"] = explained
  BY <1>1, <1>2, <1>3, <1>4
<1>9. \A f \in Field : ValueOK(f, newIs[f])
  <2>1. \A f \in Field \ {"isGame", "reason"} : ValueOK(f, newIs[f])
    BY <1>1, <1>7 DEF Entry
  <2>2. ValueOK("isGame", newIs["isGame"]) /\ ValueOK("reason", newIs["reason"])
    BY <1>8 DEF ValueOK, Feature
  <2> QED BY <2>1, <2>2
<1>10. \A f \in Field : newSources[f] \in Source \cup {None}
  BY <1>1, <1>7, <1>8 DEF Entry
<1>11. primary \in {None, "igdb", "rawg", "steam_store"}
  BY <1>1 DEF Entry
<1>12. Entry(j) /\ j.is = newIs /\ j.sources = newSources /\ j.primary = primary
  <2>1. EntryParts(newIs, newSources, primary)
    BY <1>6, <1>9, <1>10, <1>11 DEF EntryParts
  <2> QED BY <1>5, <2>1, EntryOf
<1> QED BY <1>1, <1>7, <1>8, <1>12 DEF JudgedTo

(* What an import or the store may say.                                    *)
ImportOK(i) ==
  /\ i.genres \subseteq {"play", "software"} /\ i.trusted \in BOOLEAN
  /\ i.count \in 0..2
  /\ \A f \in Feature : i[f] \in BOOLEAN

(* What a merge leaves: sources, exclusions, what has a source, and the    *)
(* texts and genres there are.                                             *)
MergedTo(m, g) ==
  /\ Entry(m) /\ m.sources = g.sources /\ m.primary = g.primary
  /\ m.is["isGame"] = g.is["isGame"] /\ m.is["reason"] = g.is["reason"]
  /\ \A f \in Feature \cup {"known", "count"} : g.sources[f] # None => m.is[f] = g.is[f]
  /\ \A f \in {"text", "date"} : g.is[f] # None => m.is[f] = g.is[f]
  /\ g.is["genres"] \subseteq m.is["genres"]

LEMMA MergeIs ==
  ASSUME NEW g, Entry(g), NEW i, ImportOK(i)
  PROVE  MergedTo(Merged(g, i), g)
<1>1. PICK is, sources, primary :
        /\ IsFields(is) /\ IsFields(sources)
        /\ g = [is |-> is, sources |-> sources, primary |-> primary]
        /\ g.is = is /\ g.sources = sources /\ g.primary = primary
  BY DEF Entry
<1>2. PICK new :
        new = [f \in Field |->
          CASE f \in {"text", "date"} -> IF is[f] = None /\ i[f] THEN "store" ELSE is[f]
            [] f = "genres"  -> is.genres \cup i.genres
            [] f \in Feature -> IF ~(sources[f] = None) THEN is[f]
                                ELSE IF i.trusted THEN i[f] ELSE is[f] \/ i[f]
            [] f = "known"   -> (sources[f] = None /\ i.trusted) \/ is.known
            [] f = "count"   -> IF sources[f] = None /\ i.count > 0 THEN i.count ELSE is.count
            [] OTHER         -> is[f]]
  OBVIOUS
<1>3. Merged(g, i) = [g EXCEPT !.is = new]
  BY <1>1, <1>2 DEF Merged
<1>4. Merged(g, i) = [is |-> new, sources |-> sources, primary |-> primary]
  BY <1>1, <1>3
<1>5. \A f \in Field : ValueOK(f, is[f]) /\ sources[f] \in Source \cup {None}
  BY <1>1 DEF Entry
<1>6. \A f \in {"text", "date"} :
        f \in Field /\ new[f] = IF is[f] = None /\ i[f] THEN "store" ELSE is[f]
  BY <1>2 DEF Field, Feature
<1>7. new["genres"] = is["genres"] \cup i.genres
  BY <1>2 DEF Field, Feature
<1>8. ASSUME NEW f \in Feature
      PROVE  /\ f \in Field
             /\ new[f] = IF ~(sources[f] = None) THEN is[f]
                         ELSE IF i.trusted THEN i[f] ELSE is[f] \/ i[f]
  BY <1>2 DEF Field, Feature
<1>9. new["known"] = ((sources["known"] = None /\ i.trusted) \/ is["known"])
  BY <1>2 DEF Field, Feature
<1>10. new["count"] = IF sources["count"] = None /\ i.count > 0 THEN i.count ELSE is["count"]
  BY <1>2 DEF Field, Feature
<1>11. new["isGame"] = is["isGame"] /\ new["reason"] = is["reason"]
  BY <1>2 DEF Field, Feature
<1>12. is["known"] \in BOOLEAN
  BY <1>5 DEF Field, ValueOK
<1>13. \A f \in Field : ValueOK(f, new[f])
  <2>1. \A f \in {"text", "date"} : ValueOK(f, new[f])
    BY <1>5, <1>6 DEF ValueOK, Feature
  <2>2. ValueOK("genres", new["genres"])
    BY <1>5, <1>7 DEF ValueOK, Field, Feature, ImportOK
  <2>3. \A f \in Feature : ValueOK(f, new[f])
    <3> SUFFICES ASSUME NEW f \in Feature PROVE new[f] \in BOOLEAN
      BY DEF ValueOK, Feature
    <3>1. is[f] \in BOOLEAN /\ i[f] \in BOOLEAN
      BY <1>5, <1>8 DEF ValueOK, ImportOK
    <3> QED BY <1>8, <3>1
  <2>4. ValueOK("known", new["known"])
    <3>1. new["known"] \in BOOLEAN
      BY <1>9
    <3> QED BY <3>1 DEF ValueOK, Feature
  <2>5. ValueOK("count", new["count"])
    BY <1>5, <1>10 DEF ValueOK, Field, Feature, ImportOK
  <2>6. ValueOK("isGame", new["isGame"]) /\ ValueOK("reason", new["reason"])
    BY <1>5, <1>11 DEF Field
  <2> QED BY <2>1, <2>2, <2>3, <2>4, <2>5, <2>6 DEF Field
<1>14. IsFields(new)
  BY <1>2 DEF IsFields
<1>15. primary \in {None, "igdb", "rawg", "steam_store"}
  BY <1>1 DEF Entry
<1>16. PICK m : m = Merged(g, i)
  OBVIOUS
<1>17. Entry(m) /\ m.is = new /\ m.sources = sources /\ m.primary = primary
  <2>1. EntryParts(new, sources, primary)
    BY <1>1, <1>5, <1>13, <1>14, <1>15 DEF EntryParts
  <2> QED BY <1>4, <1>16, <2>1, EntryOf
<1>18. \A f \in Feature : sources[f] # None => new[f] = is[f]
  BY <1>8
<1>19. sources["known"] # None => new["known"] = is["known"]
  BY <1>9, <1>12
<1>20. sources["count"] # None => new["count"] = is["count"]
  BY <1>10
<1>21. /\ \A f \in {"text", "date"} : is[f] # None => new[f] = is[f]
       /\ is["genres"] \subseteq new["genres"]
  BY <1>6, <1>7
<1> QED BY <1>1, <1>11, <1>16, <1>17, <1>18, <1>19, <1>20, <1>21 DEF MergedTo

LEMMA VerdictsAre ==
  ASSUME NEW genres, NEW storeType
  PROVE  Verdict(genres, storeType) \in {None, "type", "title", "genre"}
BY DEF Verdict

(* What no import and no store run does: to claim a field for IGDB or      *)
(* RAWG, to change one that they have given but by more genres, or to      *)
(* leave an exclusion without a reason or a reason without an exclusion.   *)
Given(g, f) == g.sources[f] \in {"igdb", "rawg"}
Explained(g) == g.is["isGame"] <=> g.is["reason"] = None
Sourced == {"text", "date", "genres", "isGame", "reason", "single", "multi", "known", "count"}

LEMMA SourcedAre == Sourced = Field \ {"hotseat"}
BY DEF Sourced, Field, Feature

(* What an import or a store run may put where another value was.          *)
Succeeds(f, new, old) ==
  \/ new = old
  \/ f = "genres" /\ old \subseteq new
  \/ f \in {"text", "date"} /\ old = None

Respects(new, g) ==
  /\ Entry(new)
  /\ \A f \in Sourced :
       Given(new, f) => Given(g, f) /\ Succeeds(f, new.is[f], g.is[f])
  /\ Explained(g) => Explained(new)

LEMMA MergeRespects ==
  ASSUME NEW g, Entry(g), NEW i, ImportOK(i)
  PROVE  Respects(Merged(g, i), g)
<1>1. PICK m : m = Merged(g, i)
  OBVIOUS
<1>2. MergedTo(m, g)
  BY <1>1, MergeIs
<1>3. ASSUME NEW f \in Sourced, Given(m, f)
      PROVE  Given(g, f) /\ Succeeds(f, m.is[f], g.is[f])
  <2>1. Given(g, f)
    BY <1>2, <1>3 DEF MergedTo, Given
  <2>2. g.sources[f] # None
    BY <2>1 DEF Given, None
  <2>3. CASE f \in {"single", "multi", "known", "count"}
    BY <1>2, <2>1, <2>2, <2>3 DEF MergedTo, Feature, Given, Succeeds
  <2>4. CASE f \in {"isGame", "reason"}
    BY <1>2, <2>1, <2>4 DEF MergedTo, Given, Succeeds
  <2>5. CASE f \in {"text", "date", "genres"}
    BY <1>2, <2>1, <2>5 DEF MergedTo, Given, Succeeds
  <2> QED BY <2>3, <2>4, <2>5 DEF Sourced
<1>4. Explained(g) => Explained(m)
  BY <1>2 DEF MergedTo, Explained
<1> QED BY <1>1, <1>2, <1>3, <1>4 DEF Respects, MergedTo

LEMMA ImportsAreOK == \A i \in Import : ImportOK(i)
BY EnrichmentAssumption DEF ImportOK, Feature

LEMMA StoreImportOK == \A d \in StoreAnswer : ImportOK(StoreImport(d))
<1> SUFFICES ASSUME NEW d \in StoreAnswer PROVE ImportOK(StoreImport(d))
  OBVIOUS
<1>1. /\ d.genres \subseteq {"play", "software"} /\ d.single \in BOOLEAN /\ d.multi \in BOOLEAN
  BY EnrichmentAssumption
<1> QED BY <1>1 DEF ImportOK, StoreImport, Feature

LEMMA JudgementRespects ==
  ASSUME NEW m, Entry(m), NEW verdict \in {None, "type", "title", "genre"}
  PROVE  Respects(StoreJudged(m, verdict), m)
<1>1. ASSUME NEW isGame \in BOOLEAN, NEW reason \in {None, "type", "title", "genre"},
             isGame <=> reason = None, NEW explained \in {"steam_store", None},
             NEW j, JudgedTo(j, m, isGame, reason, "steam_store", explained)
      PROVE  Respects(j, m)
  <2>1. Explained(j)
    BY <1>1 DEF Explained, JudgedTo
  <2>2. ASSUME NEW f \in Sourced, Given(j, f) PROVE Given(m, f) /\ j.is[f] = m.is[f]
    <3>1. j.sources["isGame"] = "steam_store" /\ j.sources["reason"] \in {"steam_store", None}
      BY <1>1 DEF JudgedTo
    <3>2. f \notin {"isGame", "reason"}
      BY <2>2, <3>1 DEF Given, None
    <3>3. f \in Field \ {"isGame", "reason"}
      BY <3>2 DEF Sourced, Field, Feature
    <3>4. j.is[f] = m.is[f] /\ j.sources[f] = m.sources[f]
      BY <1>1, <3>3 DEF JudgedTo
    <3> QED BY <2>2, <3>4 DEF Given
  <2> QED BY <1>1, <2>1, <2>2 DEF Respects, JudgedTo, Succeeds
<1>2. CASE verdict # None
  <2>1. PICK j : j = Judged(m, FALSE, verdict, "steam_store", "steam_store")
    OBVIOUS
  <2>2. "steam_store" \in Source \cup {None}
    BY DEF Source
  <2>3. JudgedTo(j, m, FALSE, verdict, "steam_store", "steam_store")
    BY <2>1, <2>2, JudgementIs
  <2>4. StoreJudged(m, verdict) = j
    BY <1>2, <2>1 DEF StoreJudged, Judged
  <2> QED BY <1>1, <1>2, <2>3, <2>4
<1>3. CASE verdict = None /\ m.sources.isGame \in {"classification", "steam_store"}
  <2>1. PICK j : j = Judged(m, TRUE, None, "steam_store", None)
    OBVIOUS
  <2>2. "steam_store" \in Source \cup {None} /\ None \in Source \cup {None}
    BY DEF Source
  <2>3. JudgedTo(j, m, TRUE, None, "steam_store", None)
    BY <2>1, <2>2, JudgementIs
  <2>4. StoreJudged(m, verdict) = j
    BY <1>3, <2>1 DEF StoreJudged, Judged
  <2> QED BY <1>1, <2>3, <2>4
<1>4. CASE verdict = None /\ ~(m.sources.isGame \in {"classification", "steam_store"})
  <2>1. StoreJudged(m, verdict) = m
    BY <1>4 DEF StoreJudged
  <2> QED BY <2>1 DEF Respects, Succeeds
<1> QED BY <1>2, <1>3, <1>4

LEMMA StoreRespects ==
  ASSUME NEW g, Entry(g), NEW d \in StoreAnswer
  PROVE  Respects(StoreApplied(g, d), g)
<1>1. PICK m : m = Merged(g, StoreImport(d))
  OBVIOUS
<1>2. Respects(m, g) /\ MergedTo(m, g)
  BY <1>1, StoreImportOK, MergeRespects, MergeIs
<1>3. PICK verdict \in {None, "type", "title", "genre"} :
        verdict = Verdict(IF d.genres # {} THEN d.genres ELSE m.is.genres, d.type)
  BY VerdictsAre
<1>4. PICK j : j = StoreJudged(m, verdict)
  OBVIOUS
<1>5. Respects(j, m)
  BY <1>2, <1>4, JudgementRespects DEF Respects
<1>6. PICK primary : primary = IF j.primary = None THEN "steam_store" ELSE j.primary
  OBVIOUS
<1>7. j = [is |-> j.is, sources |-> j.sources, primary |-> j.primary]
  BY <1>5 DEF Respects, Entry
<1>8. StoreApplied(g, d) = [j EXCEPT !.primary = primary]
  BY <1>1, <1>3, <1>4, <1>6, <1>7 DEF StoreApplied
<1>9. PICK is, sources : is = j.is /\ sources = j.sources
  OBVIOUS
<1>10. StoreApplied(g, d) = [is |-> is, sources |-> sources, primary |-> primary]
  BY <1>7, <1>8, <1>9
<1>11. EntryParts(is, sources, primary)
  BY <1>5, <1>6, <1>9 DEF EntryParts, Respects, Entry
<1>12. PICK s : s = StoreApplied(g, d)
  OBVIOUS
<1>13. Entry(s) /\ s.is = j.is /\ s.sources = j.sources
  BY <1>9, <1>10, <1>11, <1>12, EntryOf
<1>14. Explained(g) => Explained(s)
  BY <1>2, <1>5, <1>13 DEF Respects, Explained
<1>15. ASSUME NEW f \in Sourced, Given(s, f)
       PROVE  Given(g, f) /\ Succeeds(f, s.is[f], g.is[f])
  <2>1. Given(j, f)
    BY <1>13, <1>15 DEF Given
  <2>2. Given(m, f) /\ Succeeds(f, j.is[f], m.is[f])
    BY <1>5, <2>1 DEF Respects, Given
  <2>3. Given(g, f) /\ Succeeds(f, m.is[f], g.is[f])
    BY <1>2, <2>2 DEF Respects, Given
  <2>4. f \in {"text", "date"} => g.is[f] = None \/ m.is[f] = g.is[f]
    BY <1>2 DEF MergedTo
  <2> QED BY <1>13, <2>2, <2>3, <2>4 DEF Succeeds
<1> QED BY <1>12, <1>13, <1>14, <1>15 DEF Respects

(* What a record of IGDB or RAWG may say, judged or not.                   *)
NoDate(f, v) == f = "date" /\ v = Unreadable
SayableOK(f, v) == ValueOK(f, v) \/ NoDate(f, v)

KnownOK(fields) ==
  /\ DOMAIN fields \subseteq Field
  /\ \A f \in DOMAIN fields : /\ SayableOK(f, fields[f].value)
                              /\ fields[f].source \in {"igdb", "rawg", "classification"}
  /\ "isGame" \in DOMAIN fields <=> "reason" \in DOMAIN fields
  /\ "isGame" \in DOMAIN fields =>
       (fields["isGame"].value <=> fields["reason"].value = None)
  /\ \A f \in {"text", "date"} \cap DOMAIN fields : fields[f].value # None

RecordOK(r) ==
  /\ r = [fields |-> r.fields, by |-> r.by]
  /\ KnownOK(r.fields)
  /\ r.by \in {None, "igdb", "rawg"}
  /\ r.by = None => DOMAIN r.fields = {}

RecordParts(fields, by) ==
  /\ KnownOK(fields) /\ by \in {None, "igdb", "rawg"}
  /\ by = None => DOMAIN fields = {}

LEMMA RecordIs ==
  ASSUME NEW fields, NEW by, RecordParts(fields, by),
         NEW r, r = [fields |-> fields, by |-> by]
  PROVE  RecordOK(r) /\ r.fields = fields /\ r.by = by
<1>1. r.fields = fields /\ r.by = by
  OBVIOUS
<1> QED BY <1>1 DEF RecordOK, RecordParts

(* Values that make a record.                                              *)
ValuesOK(values, known) ==
  /\ known \subseteq Field
  /\ \A f \in known : SayableOK(f, values[f])
  /\ "isGame" \in known <=> "reason" \in known
  /\ "isGame" \in known => (values["isGame"] <=> values["reason"] = None)
  /\ \A f \in {"text", "date"} \cap known : values[f] # None

LEMMA RecordOfIs ==
  ASSUME NEW values, NEW known, ValuesOK(values, known), NEW source \in {"igdb", "rawg"},
         NEW r, r = RecordOf(values, known, source)
  PROVE  /\ RecordOK(r) /\ r.by = source /\ DOMAIN r.fields = known
         /\ \A f \in known : r.fields[f].value = values[f]
<1>1. PICK fields : fields = [f \in known |-> [value |-> values[f], source |-> source]]
  OBVIOUS
<1>2. /\ DOMAIN fields = known
      /\ \A f \in known : fields[f].value = values[f] /\ fields[f].source = source
  BY <1>1
<1>3. r = [fields |-> fields, by |-> source]
  BY <1>1 DEF RecordOf
<1>4. KnownOK(fields)
  BY <1>2 DEF KnownOK, ValuesOK
<1>5. source \in {None, "igdb", "rawg"} /\ source # None
  BY DEF None
<1>6. RecordOK(r) /\ r.fields = fields /\ r.by = source
  BY <1>3, <1>4, <1>5, RecordIs DEF RecordParts
<1> QED BY <1>2, <1>6

LEMMA NoRecordOK == RecordOK(NoRecord) /\ NoRecord.by = None /\ DOMAIN NoRecord.fields = {}
<1>1. PICK fields : fields = [f \in {} |-> None]
  OBVIOUS
<1>2. DOMAIN fields = {}
  BY <1>1
<1>3. NoRecord = [fields |-> fields, by |-> None]
  BY <1>1 DEF NoRecord
<1>4. KnownOK(fields)
  BY <1>2 DEF KnownOK
<1>5. PICK r : r = NoRecord
  OBVIOUS
<1>6. RecordOK(r) /\ r.fields = fields /\ r.by = None
  BY <1>2, <1>3, <1>4, <1>5, RecordIs DEF RecordParts
<1> QED BY <1>2, <1>5, <1>6

(* IGDB's records; those with a player count have all that goes with it.   *)
LEMMA IgdbRecordIs ==
  ASSUME NEW a \in IgdbAnswer, NEW r, r = IgdbRecord(a)
  PROVE  /\ RecordOK(r) /\ r.by = "igdb" /\ "isGame" \in DOMAIN r.fields
         /\ "count" \in DOMAIN r.fields =>
              /\ {"single", "multi", "known"} \subseteq DOMAIN r.fields
              /\ r.fields["known"].value = TRUE
              /\ r.fields["single"].value \/ r.fields["multi"].value
<1>1. PICK count : count = IF a.count = 0 /\ a.single /\ ~a.multi THEN 1 ELSE a.count
  OBVIOUS
<1>2. PICK values : values = [isGame |-> TRUE, reason |-> None, text |-> "igdb",
                              date |-> "igdb", genres |-> a.genres, single |-> a.single, multi |-> a.multi,
                              known |-> TRUE, count |-> count]
  OBVIOUS
<1>3. PICK known : known = {"isGame", "reason"}
           \cup {f \in {"text", "date"} : a[f]} \cup {f \in {"genres"} : a.genres # {}}
           \cup {f \in {"single", "multi", "known", "count"} : a.single \/ a.multi}
  OBVIOUS
<1>4. /\ values["isGame"] = TRUE /\ values["reason"] = None /\ values["text"] = "igdb"
      /\ values["date"] = "igdb" /\ values["genres"] = a.genres /\ values["single"] = a.single
      /\ values["multi"] = a.multi /\ values["known"] = TRUE /\ values["count"] = count
  BY <1>2
<1>5. /\ a.genres \subseteq {"play", "software"} /\ a.single \in BOOLEAN /\ a.multi \in BOOLEAN
      /\ a.count \in 0..2
  BY EnrichmentAssumption
<1>6. count \in 0..2
  BY <1>1, <1>5
<1>7. known \subseteq {"isGame", "reason", "text", "date", "genres", "single", "multi",
                      "known", "count"}
  BY <1>3
<1>8. ValuesOK(values, known)
  <2>1. known \subseteq Field
    BY <1>7 DEF Field, Feature
  <2>2. ASSUME NEW f \in known PROVE ValueOK(f, values[f])
    <3>1. /\ ValueOK("isGame", TRUE) /\ ValueOK("reason", None) /\ ValueOK("text", "igdb")
          /\ ValueOK("date", "igdb") /\ ValueOK("known", TRUE)
      BY DEF ValueOK, Feature
    <3>2. ValueOK("genres", a.genres)
      BY <1>5 DEF ValueOK, Feature
    <3>3. ValueOK("single", a.single) /\ ValueOK("multi", a.multi)
      BY <1>5 DEF ValueOK, Feature
    <3>4. ValueOK("count", count)
      BY <1>6 DEF ValueOK, Feature
    <3>5. CASE f \in {"isGame", "reason", "text", "date", "known"}
      BY <1>4, <3>1, <3>5
    <3>6. CASE f \in {"genres", "single", "multi", "count"}
      BY <1>4, <3>2, <3>3, <3>4, <3>6
    <3> QED BY <1>7, <3>5, <3>6
  <2>3. "isGame" \in known /\ "reason" \in known
    BY <1>3
  <2>4. values["text"] # None /\ values["date"] # None
    BY <1>4 DEF None
  <2> QED BY <1>4, <2>1, <2>2, <2>3, <2>4 DEF ValuesOK, SayableOK
<1>9. r = RecordOf(values, known, "igdb")
  BY <1>1, <1>2, <1>3 DEF IgdbRecord
<1>10. /\ RecordOK(r) /\ r.by = "igdb" /\ DOMAIN r.fields = known
       /\ \A f \in known : r.fields[f].value = values[f]
  BY <1>8, <1>9, RecordOfIs
<1>11. "isGame" \in known
  BY <1>3
<1>12. "count" \in known => {"single", "multi", "known"} \subseteq known /\ (a.single \/ a.multi)
  BY <1>3
<1> QED BY <1>4, <1>10, <1>11, <1>12

LEMMA RawgRecordIs ==
  ASSUME NEW a \in RawgAnswer, NEW r, r = RawgRecord(a)
  PROVE  RecordOK(r) /\ r.by = "rawg"
<1>1. PICK values : values = [text |-> "rawg", date |-> a.date, genres |-> a.genres, single |-> TRUE,
                              multi |-> TRUE, hotseat |-> TRUE, known |-> TRUE]
  OBVIOUS
<1>2. PICK known : known = {f \in {"text"} : a.text} \cup {f \in {"date"} : a.date # None}
                     \cup {f \in {"genres"} : a.genres # {}}
                     \cup a.tags \cup {f \in {"known"} : a.tags # {}}
  OBVIOUS
<1>3. /\ values["text"] = "rawg" /\ values["date"] = a.date /\ values["genres"] = a.genres /\ values["single"] = TRUE
      /\ values["multi"] = TRUE /\ values["hotseat"] = TRUE /\ values["known"] = TRUE
  BY <1>1
<1>4. /\ a.genres \subseteq {"play", "software"} /\ a.tags \subseteq {"single", "multi", "hotseat"}
      /\ a.date \in {None, "rawg", Unreadable}
  BY EnrichmentAssumption DEF None, Unreadable
<1>5. known \subseteq {"text", "date", "genres", "known", "single", "multi", "hotseat"}
  BY <1>2, <1>4
<1>6. ValuesOK(values, known)
  <2>1. known \subseteq Field /\ "isGame" \notin known /\ "reason" \notin known
    BY <1>5 DEF Field, Feature
  <2>2. ASSUME NEW f \in known PROVE SayableOK(f, values[f])
    <3>1. /\ ValueOK("text", "rawg") /\ ValueOK("single", TRUE) /\ ValueOK("multi", TRUE)
          /\ ValueOK("hotseat", TRUE) /\ ValueOK("known", TRUE)
      BY DEF ValueOK, Feature
    <3>2. ValueOK("genres", a.genres)
      BY <1>4 DEF ValueOK, Feature
    <3>3. SayableOK("date", a.date)
      BY <1>4 DEF SayableOK, NoDate, ValueOK, Feature
    <3> QED BY <1>3, <1>5, <3>1, <3>2, <3>3 DEF SayableOK
  <2>3. values["text"] # None /\ ("date" \in known => values["date"] # None)
    BY <1>2, <1>3, <1>4 DEF None
  <2> QED BY <2>1, <2>2, <2>3 DEF ValuesOK
<1>7. r = RecordOf(values, known, "rawg")
  BY <1>1, <1>2 DEF RawgRecord
<1> QED BY <1>6, <1>7, RecordOfIs

LEMMA RecordsAreOK ==
  /\ \A r \in IgdbRecords : RecordOK(r) /\ (r.by # None => "isGame" \in DOMAIN r.fields)
  /\ \A r \in RawgRecords : RecordOK(r)
<1>1. ASSUME NEW r \in IgdbRecords PROVE RecordOK(r) /\ (r.by # None => "isGame" \in DOMAIN r.fields)
  <2>1. CASE r = NoRecord
    BY <2>1, NoRecordOK
  <2>2. ASSUME NEW a \in IgdbAnswer, r = IgdbRecord(a)
        PROVE  RecordOK(r) /\ "isGame" \in DOMAIN r.fields
    BY <2>2, IgdbRecordIs
  <2> QED BY <2>1, <2>2 DEF IgdbRecords
<1>2. ASSUME NEW r \in RawgRecords PROVE RecordOK(r)
  <2>1. CASE r = NoRecord
    BY <2>1, NoRecordOK
  <2>2. ASSUME NEW a \in RawgAnswer, r = RawgRecord(a) PROVE RecordOK(r)
    BY <2>2, RawgRecordIs
  <2> QED BY <2>1, <2>2 DEF RawgRecords
<1> QED BY <1>1, <1>2

FirstOf(fields, first, second) ==
  /\ KnownOK(fields) /\ DOMAIN fields = DOMAIN first \cup DOMAIN second
  /\ \A f \in DOMAIN first : fields[f] = first[f]
  /\ \A f \in DOMAIN second \ DOMAIN first : fields[f] = second[f]

LEMMA OverIs ==
  ASSUME NEW first, NEW second, KnownOK(first), KnownOK(second),
         NEW fields, fields = Over(first, second)
  PROVE  FirstOf(fields, first, second)
<1>1. /\ DOMAIN fields = DOMAIN first \cup DOMAIN second
      /\ \A f \in DOMAIN first : fields[f] = first[f]
      /\ \A f \in DOMAIN second \ DOMAIN first : fields[f] = second[f]
  BY DEF Over
<1>2. DOMAIN fields \subseteq Field
  BY <1>1 DEF KnownOK
<1>3. ASSUME NEW f \in DOMAIN fields
      PROVE  /\ SayableOK(f, fields[f].value)
             /\ fields[f].source \in {"igdb", "rawg", "classification"}
  BY <1>1 DEF KnownOK
<1>4. "isGame" \in DOMAIN fields <=> "reason" \in DOMAIN fields
  BY <1>1 DEF KnownOK
<1>5. "isGame" \in DOMAIN fields =>
        (fields["isGame"].value <=> fields["reason"].value = None)
  BY <1>1 DEF KnownOK
<1>6. \A f \in {"text", "date"} \cap DOMAIN fields : fields[f].value # None
  BY <1>1 DEF KnownOK
<1>7. KnownOK(fields)
  BY <1>2, <1>3, <1>4, <1>5, <1>6 DEF KnownOK
<1> QED BY <1>1, <1>7 DEF FirstOf

LEMMA MergedRecordIs ==
  ASSUME NEW primary, NEW fallback, RecordOK(primary), RecordOK(fallback),
         NEW r, r = MergedRecords(primary, fallback)
  PROVE  /\ RecordOK(r)
         /\ r.by = IF primary.by # None THEN primary.by ELSE fallback.by
         /\ DOMAIN primary.fields \subseteq DOMAIN r.fields
         /\ \A f \in DOMAIN primary.fields : r.fields[f] = primary.fields[f]
<1>1. PICK fields, by : fields = Over(primary.fields, fallback.fields)
                        /\ by = IF primary.by # None THEN primary.by ELSE fallback.by
  OBVIOUS
<1>2. KnownOK(primary.fields) /\ KnownOK(fallback.fields)
  BY DEF RecordOK
<1>3. /\ KnownOK(fields) /\ DOMAIN fields = DOMAIN primary.fields \cup DOMAIN fallback.fields
      /\ \A f \in DOMAIN primary.fields : fields[f] = primary.fields[f]
  <2>1. PICK first, second : first = primary.fields /\ second = fallback.fields
    OBVIOUS
  <2>2. fields = Over(first, second) /\ KnownOK(first) /\ KnownOK(second)
    BY <1>1, <1>2, <2>1
  <2>3. /\ KnownOK(fields) /\ DOMAIN fields = DOMAIN first \cup DOMAIN second
        /\ \A f \in DOMAIN first : fields[f] = first[f]
    BY <2>2, OverIs DEF FirstOf
  <2> QED BY <2>1, <2>3
<1>4. by \in {None, "igdb", "rawg"} /\ (by = None => DOMAIN fields = {})
  BY <1>1, <1>3 DEF RecordOK
<1>5. r = [fields |-> fields, by |-> by]
  BY <1>1 DEF MergedRecords
<1>6. RecordOK(r) /\ r.fields = fields /\ r.by = by
  <2>1. RecordParts(fields, by)
    BY <1>3, <1>4 DEF RecordParts
  <2> QED BY <1>5, <2>1, RecordIs
<1> QED BY <1>1, <1>3, <1>6

(* The judged record: what the sources say, or else an exclusion.          *)
JudgedFrom(r, record) ==
  /\ RecordOK(r) /\ r.by = record.by /\ DOMAIN record.fields \subseteq DOMAIN r.fields
  /\ \A f \in DOMAIN record.fields \ {"isGame", "reason"} : r.fields[f] = record.fields[f]
  /\ r.by = None => DOMAIN r.fields = {}

LEMMA ExclusionIs ==
  ASSUME NEW record, RecordOK(record), record.by # None,
         NEW verdict, verdict \in {"type", "title", "genre"},
         NEW r, r = Excluded(record, verdict)
  PROVE  JudgedFrom(r, record)
<1>1. PICK no, why : no = [value |-> FALSE, source |-> "classification"]
                     /\ why = [value |-> verdict, source |-> "classification"]
  OBVIOUS
<1>2. PICK first : first = [isGame |-> no, reason |-> why]
  OBVIOUS
<1>3. DOMAIN first = {"isGame", "reason"} /\ first["isGame"] = no /\ first["reason"] = why
  BY <1>2
<1>4. /\ no.value = FALSE /\ no.source = "classification"
      /\ why.value = verdict /\ why.source = "classification" /\ verdict # None
  BY <1>1 DEF None
<1>5. KnownOK(first)
  <2>1. DOMAIN first \subseteq Field /\ {"text", "date"} \cap DOMAIN first = {}
    BY <1>3 DEF Field
  <2>2. ValueOK("isGame", FALSE) /\ ValueOK("reason", verdict)
    BY DEF ValueOK, Feature
  <2> QED BY <1>3, <1>4, <2>1, <2>2 DEF KnownOK, SayableOK
<1>6. PICK fields, by : fields = Over(first, record.fields) /\ by = record.by
  OBVIOUS
<1>7. /\ KnownOK(fields) /\ DOMAIN fields = DOMAIN first \cup DOMAIN record.fields
      /\ \A f \in DOMAIN first : fields[f] = first[f]
      /\ \A f \in DOMAIN record.fields \ DOMAIN first : fields[f] = record.fields[f]
  <2>1. PICK second : second = record.fields
    OBVIOUS
  <2>2. fields = Over(first, second) /\ KnownOK(second)
    BY <1>6, <2>1 DEF RecordOK
  <2>3. /\ KnownOK(fields) /\ DOMAIN fields = DOMAIN first \cup DOMAIN second
        /\ \A f \in DOMAIN first : fields[f] = first[f]
        /\ \A f \in DOMAIN second \ DOMAIN first : fields[f] = second[f]
    <3>1. FirstOf(fields, first, second)
      BY <1>5, <2>2, OverIs
    <3> QED BY <3>1 DEF FirstOf
  <2> QED BY <2>1, <2>3
<1>8. PICK old : old = record.fields
  OBVIOUS
<1>9. record = [fields |-> old, by |-> by]
  BY <1>6, <1>8 DEF RecordOK
<1>10. r = [fields |-> fields, by |-> by]
  BY <1>1, <1>2, <1>6, <1>8, <1>9 DEF Excluded
<1>11. by \in {None, "igdb", "rawg"} /\ by # None
  BY <1>6 DEF RecordOK
<1>12. RecordOK(r) /\ r.fields = fields /\ r.by = by
  <2>1. RecordParts(fields, by)
    BY <1>7, <1>11 DEF RecordParts
  <2> QED BY <1>10, <2>1, RecordIs
<1> QED BY <1>3, <1>6, <1>7, <1>11, <1>12 DEF JudgedFrom

LEMMA JudgedRecordIs ==
  ASSUME NEW g, NEW record, RecordOK(record), NEW r, r = JudgedRecord(g, record)
  PROVE  JudgedFrom(r, record)
<1>1. PICK verdict \in {None, "type", "title", "genre"} :
        verdict = Verdict(g.is.genres \cup (IF "genres" \in DOMAIN record.fields
                            THEN record.fields["genres"].value ELSE {}), None)
  BY VerdictsAre
<1>2. CASE verdict # None /\ record.by # None
  <2>1. r = Excluded(record, verdict)
    BY <1>1, <1>2 DEF JudgedRecord
  <2>2. verdict \in {"type", "title", "genre"}
    BY <1>2
  <2> QED BY <1>2, <2>1, <2>2, ExclusionIs
<1>3. CASE ~(verdict # None /\ record.by # None)
  <2>1. r = record
    BY <1>1, <1>3 DEF JudgedRecord
  <2> QED BY <2>1 DEF JudgedFrom, RecordOK
<1> QED BY <1>2, <1>3

LEMMA ApplicationIs ==
  ASSUME NEW g, Entry(g), NEW record, RecordOK(record), record.by # None,
         NEW a, a = Applied(g, record)
  PROVE  /\ Entry(a) /\ a.primary = record.by
         /\ \A f \in DOMAIN record.fields :
              /\ a.is[f] = record.fields[f].value \/ NoDate(f, record.fields[f].value)
              /\ a.sources[f] = record.fields[f].source
         /\ \A f \in Field \ DOMAIN record.fields :
              /\ f # "hotseat" => a.is[f] = g.is[f]
              /\ a.sources[f] = g.sources[f]
<1>1. PICK fields : fields = record.fields
  OBVIOUS
<1>2. PICK is : is = [f \in Field |->
          IF f \in DOMAIN fields /\ ~NoDate(f, fields[f].value) THEN fields[f].value
          ELSE IF f = "hotseat" /\ "known" \in DOMAIN fields THEN FALSE
          ELSE g.is[f]]
  OBVIOUS
<1>3. PICK sources : sources = [f \in Field |->
          IF f \in DOMAIN fields THEN fields[f].source ELSE g.sources[f]]
  OBVIOUS
<1>4. DOMAIN fields \subseteq Field
  BY <1>1 DEF RecordOK, KnownOK
<1>5. \A f \in DOMAIN fields :
        /\ IF NoDate(f, fields[f].value) THEN is[f] = g.is[f] ELSE is[f] = fields[f].value
        /\ sources[f] = fields[f].source
  BY <1>2, <1>3, <1>4 DEF NoDate
<1>6. \A f \in Field \ DOMAIN fields :
        /\ f # "hotseat" => is[f] = g.is[f]
        /\ f = "hotseat" => is[f] = FALSE \/ is[f] = g.is[f]
        /\ sources[f] = g.sources[f]
  BY <1>2, <1>3
<1>7. a = [is |-> is, sources |-> sources, primary |-> record.by]
  BY <1>1, <1>2, <1>3 DEF Applied, NoDate
<1>8. ASSUME NEW f \in Field PROVE ValueOK(f, is[f]) /\ sources[f] \in Source \cup {None}
  <2>1. CASE f \in DOMAIN fields
    <3>1. /\ SayableOK(f, fields[f].value) /\ ValueOK(f, g.is[f])
          /\ fields[f].source \in {"igdb", "rawg", "classification"}
      BY <1>1, <2>1 DEF RecordOK, KnownOK, Entry
    <3> QED BY <1>5, <2>1, <3>1 DEF Source, SayableOK
  <2>2. CASE f \notin DOMAIN fields
    <3>1. ValueOK(f, g.is[f]) /\ g.sources[f] \in Source \cup {None}
      BY DEF Entry
    <3>2. ValueOK("hotseat", FALSE)
      BY DEF ValueOK, Feature
    <3> QED BY <1>6, <2>2, <3>1, <3>2
  <2> QED BY <2>1, <2>2
<1>9. IsFields(is) /\ IsFields(sources)
  BY <1>2, <1>3 DEF IsFields
<1>10. record.by \in {None, "igdb", "rawg", "steam_store"}
  BY DEF RecordOK
<1>11. EntryParts(is, sources, record.by)
  BY <1>8, <1>9, <1>10 DEF EntryParts
<1>12. Entry(a) /\ a.is = is /\ a.sources = sources /\ a.primary = record.by
  BY <1>7, <1>11, EntryOf
<1> QED BY <1>1, <1>5, <1>6, <1>12

(* What a metadata run does: to a field that its record knows, to the      *)
(* others, and to the exclusion.                                           *)
EnrichedTo(new, g, fields) ==
  /\ Entry(new)
  /\ \A f \in Sourced \cap DOMAIN fields :
       /\ new.is[f] = fields[f].value \/ NoDate(f, fields[f].value)
       /\ new.sources[f] = fields[f].source
  /\ \A f \in Sourced \ DOMAIN fields :
       Given(new, f) => Given(g, f) /\ new.is[f] = g.is[f]
  /\ "isGame" \in DOMAIN fields \/ Explained(g) => Explained(new)

LEMMA EnrichmentIs ==
  ASSUME NEW g, Entry(g), NEW record, RecordOK(record), NEW new, new = Enriched(g, record),
         NEW judged, judged = JudgedRecord(g, record)
  PROVE  EnrichedTo(new, g, judged.fields)
<1>1. JudgedFrom(judged, record)
  BY JudgedRecordIs
<1>2. Sourced \subseteq Field
  BY DEF Sourced, Field, Feature
<1>3. CASE record.by # None
  <2>1. new = Applied(g, judged) /\ RecordOK(judged) /\ judged.by # None
    BY <1>1, <1>3 DEF Enriched, JudgedFrom
  <2>2. /\ Entry(new)
        /\ \A f \in DOMAIN judged.fields :
              /\ new.is[f] = judged.fields[f].value \/ NoDate(f, judged.fields[f].value)
              /\ new.sources[f] = judged.fields[f].source
        /\ \A f \in Field \ DOMAIN judged.fields :
              /\ f # "hotseat" => new.is[f] = g.is[f]
              /\ new.sources[f] = g.sources[f]
    BY <2>1, ApplicationIs
  <2>3. "hotseat" \notin Sourced
    BY DEF Sourced
  <2>4. KnownOK(judged.fields)
    BY <2>1 DEF RecordOK
  <2>5. CASE "isGame" \in DOMAIN judged.fields
    <3>1. /\ "reason" \in DOMAIN judged.fields
          /\ judged.fields["isGame"].value <=> judged.fields["reason"].value = None
      BY <2>4, <2>5 DEF KnownOK
    <3>2. Explained(new)
      BY <2>2, <2>5, <3>1 DEF Explained, NoDate
    <3> QED BY <1>2, <2>2, <2>3, <3>2 DEF EnrichedTo, Given
  <2>6. CASE "isGame" \notin DOMAIN judged.fields
    <3>1. "reason" \notin DOMAIN judged.fields
      BY <2>4, <2>6 DEF KnownOK
    <3>2. new.is["isGame"] = g.is["isGame"] /\ new.is["reason"] = g.is["reason"]
      BY <2>2, <2>6, <3>1 DEF Field
    <3>3. Explained(g) => Explained(new)
      BY <3>2 DEF Explained
    <3> QED BY <1>2, <2>2, <2>3, <2>6, <3>3 DEF EnrichedTo, Given
  <2> QED BY <2>5, <2>6
<1>4. CASE record.by = None
  <2>1. DOMAIN judged.fields = {}
    BY <1>1, <1>4 DEF JudgedFrom
  <2>2. PICK verdict \in {None, "type", "title", "genre"} : verdict = Verdict(g.is.genres, None)
    BY VerdictsAre
  <2>3. CASE verdict # None
    <3>1. new = Judged(g, FALSE, verdict, "classification", "classification")
      BY <1>4, <2>2, <2>3 DEF Enriched, ExcludedUnmatched, Judged
    <3>2. "classification" \in Source \cup {None}
      BY DEF Source
    <3>3. JudgedTo(new, g, FALSE, verdict, "classification", "classification")
      BY <3>1, <3>2, JudgementIs
    <3>4. Explained(new)
      BY <2>3, <3>3 DEF JudgedTo, Explained
    <3>5. ASSUME NEW f \in Sourced, Given(new, f) PROVE Given(g, f) /\ new.is[f] = g.is[f]
      <4>1. f \notin {"isGame", "reason"}
        BY <3>3, <3>5 DEF JudgedTo, Given
      <4> QED BY <1>2, <3>3, <3>5, <4>1 DEF JudgedTo, Given
    <3> QED BY <2>1, <3>3, <3>4, <3>5 DEF EnrichedTo, JudgedTo
  <2>4. CASE verdict = None
    <3>1. new = g
      BY <1>4, <2>2, <2>4 DEF Enriched
    <3> QED BY <2>1, <3>1 DEF EnrichedTo
  <2> QED BY <2>3, <2>4
<1> QED BY <1>3, <1>4

-----------------------------------------------------------------------------
(* Transactions on the entry.                                              *)

(* What was told of a text or a date that IGDB or RAWG gave is something.  *)
TextTold == \A f \in {"text", "date"} \ doubt : Given(game, f) => told[f] # None

(* What is told of a field and what is stored.                             *)
Tells(f, stored_value, told_value) ==
  \/ stored_value = told_value
  \/ f = "genres" /\ told_value \subseteq stored_value
  \/ f = "date" /\ told_value = Unreadable

CatTyped ==
  /\ softTitle \in BOOLEAN /\ runs \in 0..MaxRuns /\ doubt \subseteq Field
  /\ Entry(game)
  /\ base = [w \in Writer |-> base[w]]
  /\ \A w \in Writer : base[w] = Unloaded \/ Entry(base[w])

CatInv == CatTyped /\ ExclusionsHaveReasons /\ SourcesTellTheTruth /\ TextTold

LEMMA CatInvTypeOK == CatTyped => CatTypeOK
BY EntriesAreOK DEF CatTyped, CatTypeOK

LEMMA CatInitially == CatInit => CatInv
<1> SUFFICES ASSUME CatInit PROVE CatInv
  OBVIOUS
<1>1. game = NewGame /\ doubt = {} /\ runs = 0 /\ softTitle \in BOOLEAN
      /\ base = [w \in Writer |-> Unloaded]
  BY DEF CatInit
<1>2. Entry(game) /\ game.is = Blank /\ \A f \in Field : game.sources[f] = None
  BY <1>1, NewGameIs
<1>3. CatTyped
  <2>1. runs \in 0..MaxRuns
    BY <1>1, EnrichmentAssumption
  <2> QED BY <1>1, <1>2, <2>1 DEF CatTyped
<1>4. ExclusionsHaveReasons
  BY <1>2 DEF ExclusionsHaveReasons, Blank
<1>5. \A f \in Sourced : game.sources[f] = None
  BY <1>2 DEF Sourced, Field, Feature
<1>6. SourcesTellTheTruth /\ TextTold
  BY <1>5, SourcedAre DEF SourcesTellTheTruth, TextTold, Given, Sourced, None
<1> QED BY <1>3, <1>4, <1>6 DEF CatInv

(* What a writer writes is an entry, and all of what he made of it if      *)
(* nobody came between.                                                    *)
LEMMA FlushIs ==
  ASSUME Entry(game), NEW old, Entry(old), NEW new, Entry(new),
         NEW kept, kept = Flushed(old, new)
  PROVE  Entry(kept) /\ (old = game => kept = new)
<1>1. PICK is : is = [f \in Field |-> IF new.is[f] # old.is[f] THEN new.is[f] ELSE game.is[f]]
  OBVIOUS
<1>2. PICK sources : sources = IF new.sources # old.sources THEN new.sources ELSE game.sources
  OBVIOUS
<1>3. PICK primary : primary = IF new.primary # old.primary THEN new.primary ELSE game.primary
  OBVIOUS
<1>4. kept = [is |-> is, sources |-> sources, primary |-> primary]
  BY <1>1, <1>2, <1>3 DEF Flushed
<1>5. EntryParts(is, sources, primary)
  <2>1. IsFields(is) /\ IsFields(sources)
    BY <1>1, <1>2 DEF IsFields, Entry
  <2>2. ASSUME NEW f \in Field PROVE ValueOK(f, is[f])
    <3>1. is[f] = new.is[f] \/ is[f] = game.is[f]
      BY <1>1
    <3>2. ValueOK(f, new.is[f]) /\ ValueOK(f, game.is[f])
      BY DEF Entry
    <3> QED BY <3>1, <3>2
  <2>3. \A f \in Field : sources[f] \in Source \cup {None}
    BY <1>2 DEF Entry
  <2>4. primary \in {None, "igdb", "rawg", "steam_store"}
    BY <1>3 DEF Entry
  <2> QED BY <2>1, <2>2, <2>3, <2>4 DEF EntryParts
<1>6. Entry(kept)
  BY <1>4, <1>5, EntryOf
<1>7. ASSUME old = game PROVE kept = new
  <2>1. is = [f \in Field |-> new.is[f]]
    BY <1>1, <1>7
  <2>2. is = new.is
    BY <2>1 DEF Entry, IsFields
  <2>3. sources = new.sources /\ primary = new.primary
    BY <1>2, <1>3, <1>7
  <2>4. new = [is |-> new.is, sources |-> new.sources, primary |-> new.primary]
    BY DEF Entry
  <2> QED BY <1>4, <2>2, <2>3, <2>4
<1> QED BY <1>6, <1>7

LEMMA CommitIs ==
  ASSUME CatTyped, NEW w \in Writer, base[w] # Unloaded,
         NEW new, Entry(new), NEW settled, Commit(w, new, settled)
  PROVE  /\ CatTyped'
         /\ Overtaken(w) => doubt' = Field
         /\ ~Overtaken(w) => game' = new /\ doubt' = doubt \ settled
<1>1. PICK kept, old : kept = Flushed(old, new) /\ old = base[w]
  OBVIOUS
<1>2. Entry(game) /\ Entry(old)
  BY <1>1 DEF CatTyped
<1>3. Entry(kept) /\ (old = game => kept = new)
  BY <1>1, <1>2, FlushIs
<1>4. /\ game' = kept /\ base' = [base EXCEPT ![w] = Unloaded]
      /\ doubt' = IF Overtaken(w) THEN Field ELSE doubt \ settled
      /\ UNCHANGED <<softTitle, runs>>
  BY <1>1 DEF Commit
<1>5. doubt' \subseteq Field
  BY <1>4 DEF CatTyped
<1>6. \A v \in Writer : base'[v] = Unloaded \/ base'[v] = base[v]
  BY <1>4 DEF CatTyped
<1>7. base' = [v \in Writer |-> base'[v]]
  BY <1>4 DEF CatTyped
<1>8. \A v \in Writer : base'[v] = Unloaded \/ Entry(base[v])
  BY <1>6 DEF CatTyped
<1>9. ASSUME NEW v \in Writer PROVE base'[v] = Unloaded \/ Entry(base'[v])
  BY <1>6, <1>8
<1>10. CatTyped'
  BY <1>3, <1>4, <1>5, <1>7, <1>9 DEF CatTyped
<1>11. Overtaken(w) <=> old # game
  BY <1>1 DEF Overtaken
<1> QED BY <1>3, <1>4, <1>10, <1>11

(* After overlapping transactions nothing is said of any field.            *)
LEMMA InDoubt ==
  doubt' = Field => ExclusionsHaveReasons' /\ SourcesTellTheTruth' /\ TextTold'
<1>1. "isGame" \in Field /\ {"text", "date"} \subseteq Field
  BY DEF Field
<1> QED BY <1>1 DEF ExclusionsHaveReasons, SourcesTellTheTruth, TextTold

(* A store run or an import that nobody has overtaken.                     *)
LEMMA RespectKeeps ==
  ASSUME CatInv, NEW new, Respects(new, game), game' = new, UNCHANGED told,
         doubt' = doubt \ {}
  PROVE  ExclusionsHaveReasons' /\ SourcesTellTheTruth' /\ TextTold'
<1>1. doubt' = doubt
  OBVIOUS
<1>2. Explained(game) => Explained(new)
  BY DEF Respects
<1>3. ASSUME {"isGame", "reason"} \cap doubt = {}
      PROVE  new.is.isGame <=> new.is.reason = None
  BY <1>2, <1>3 DEF CatInv, ExclusionsHaveReasons, Explained
<1>4. ExclusionsHaveReasons'
  BY <1>1, <1>3 DEF ExclusionsHaveReasons
<1>5. ASSUME NEW f \in Sourced, f \notin doubt, Given(new, f)
      PROVE  Tells(f, new.is[f], told[f]) /\ Given(game, f)
  <2>1. Given(game, f) /\ Succeeds(f, new.is[f], game.is[f])
    BY <1>5 DEF Respects, Given
  <2>2. Tells(f, game.is[f], told[f])
    BY <1>5, <2>1, SourcedAre DEF CatInv, SourcesTellTheTruth, Tells, Given
  <2>3. f \in {"text", "date"} => told[f] # None
    BY <1>5, <2>1 DEF CatInv, TextTold
  <2>4. CASE new.is[f] = game.is[f]
    BY <2>1, <2>2, <2>4
  <2>5. CASE f = "genres" /\ game.is[f] \subseteq new.is[f]
    BY <2>1, <2>2, <2>5 DEF Tells
  <2>6. CASE f \in {"text", "date"} /\ game.is[f] = None
    BY <2>1, <2>2, <2>3, <2>6 DEF Tells
  <2> QED BY <2>1, <2>4, <2>5, <2>6 DEF Succeeds
<1>6. SourcesTellTheTruth'
  BY <1>1, <1>5, SourcedAre DEF SourcesTellTheTruth, Tells, Given
<1>7. TextTold'
  <2>1. {"text", "date"} \subseteq Sourced
    BY DEF Sourced
  <2>2. \A f \in {"text", "date"} \ doubt : Given(new, f) => told[f] # None
    BY <1>5, <2>1 DEF CatInv, TextTold
  <2> QED BY <1>1, <2>2 DEF TextTold, Given
<1> QED BY <1>4, <1>6, <1>7

LEMMA StoreAndImportKeep ==
  ASSUME CatInv, NEW w \in Writer, base[w] # Unloaded,
         NEW new, Respects(new, base[w]), Commit(w, new, {}), UNCHANGED told
  PROVE  CatInv'
<1>1. CatTyped /\ Entry(new)
  BY DEF CatInv, Respects
<1>2. /\ CatTyped'
      /\ Overtaken(w) => doubt' = Field
      /\ ~Overtaken(w) => game' = new /\ doubt' = doubt \ {}
  BY <1>1, CommitIs
<1>3. CASE Overtaken(w)
  BY <1>2, <1>3, InDoubt DEF CatInv
<1>4. CASE ~Overtaken(w)
  <2>1. Respects(new, game)
    BY <1>4 DEF Overtaken
  <2>2. game' = new /\ doubt' = doubt \ {}
    BY <1>2, <1>4
  <2> QED BY <1>2, <2>1, <2>2, RespectKeeps DEF CatInv
<1> QED BY <1>3, <1>4

(* What a metadata run that nobody has overtaken says and is told.         *)
LEMMA MetadataKeeps ==
  ASSUME CatInv, NEW new, NEW fields, KnownOK(fields), EnrichedTo(new, game, fields),
         game' = new, doubt' = doubt \ DOMAIN fields,
         told' = [f \in Field |->
                    IF f \in DOMAIN fields /\ fields[f].source # "classification"
                    THEN fields[f].value ELSE told[f]]
  PROVE  ExclusionsHaveReasons' /\ SourcesTellTheTruth' /\ TextTold'
<1>1. Sourced \subseteq Field /\ {"text", "date"} \subseteq Sourced
  BY DEF Sourced, Field, Feature
<1>2. ExclusionsHaveReasons'
  <2>1. ASSUME "isGame" \notin DOMAIN fields, {"isGame", "reason"} \cap doubt' = {}
        PROVE  Explained(game)
    <3>1. "reason" \notin DOMAIN fields
      BY <2>1 DEF KnownOK
    <3>2. {"isGame", "reason"} \cap doubt = {}
      BY <2>1, <3>1
    <3> QED BY <3>2 DEF CatInv, ExclusionsHaveReasons, Explained
  <2>2. {"isGame", "reason"} \cap doubt' = {} => Explained(new)
    BY <2>1 DEF EnrichedTo
  <2>3. {"isGame", "reason"} \cap doubt' = {} => (new.is.isGame <=> new.is.reason = None)
    BY <2>2 DEF Explained
  <2> QED BY <2>3 DEF ExclusionsHaveReasons
<1>3. ASSUME NEW f \in Sourced, f \notin doubt', Given(new, f)
      PROVE  Tells(f, new.is[f], told'[f]) /\ (f \in {"text", "date"} => told'[f] # None)
  <2>1. CASE f \in DOMAIN fields
    <3>1. /\ new.is[f] = fields[f].value \/ NoDate(f, fields[f].value)
          /\ new.sources[f] = fields[f].source
      BY <2>1 DEF EnrichedTo
    <3>2. fields[f].source # "classification"
      BY <1>3, <3>1 DEF Given
    <3>3. told'[f] = fields[f].value
      BY <1>1, <2>1, <3>2
    <3>4. f \in {"text", "date"} => fields[f].value # None
      BY <2>1 DEF KnownOK
    <3> QED BY <3>1, <3>3, <3>4 DEF Tells, NoDate
  <2>2. CASE f \notin DOMAIN fields
    <3>1. Given(game, f) /\ new.is[f] = game.is[f]
      BY <1>3, <2>2 DEF EnrichedTo, Given
    <3>2. f \notin doubt
      BY <1>3, <2>2
    <3>3. Tells(f, game.is[f], told[f])
      BY <3>1, <3>2, SourcedAre DEF CatInv, SourcesTellTheTruth, Tells, Given
    <3>4. told'[f] = told[f]
      BY <1>1, <2>2
    <3>5. f \in {"text", "date"} => told[f] # None
      BY <3>1, <3>2 DEF CatInv, TextTold
    <3> QED BY <3>1, <3>3, <3>4, <3>5
  <2> QED BY <2>1, <2>2
<1>4. SourcesTellTheTruth'
  BY <1>3, SourcedAre DEF SourcesTellTheTruth, Tells, Given
<1>5. TextTold'
  BY <1>1, <1>3 DEF TextTold, Given
<1> QED BY <1>2, <1>4, <1>5

(* What a metadata run has fetched and what it makes of it.                *)
RunOn(record, judged, new) ==
  /\ judged = JudgedRecord(base["metadata"], record)
  /\ new = Enriched(base["metadata"], record)

RunMakes(fallback, record, judged, new) ==
  /\ base["metadata"] # Unloaded /\ Entry(base["metadata"])
  /\ RecordOK(fallback) /\ RecordOK(record) /\ JudgedFrom(judged, record)
  /\ Entry(new) /\ EnrichedTo(new, base["metadata"], judged.fields)
  /\ Commit("metadata", new, DOMAIN judged.fields)
  /\ told' = [f \in Field |->
                IF f \in DOMAIN judged.fields /\ judged.fields[f].source # "classification"
                THEN judged.fields[f].value ELSE told[f]]

LEMMA RunIs ==
  ASSUME CatTyped, NEW igdb \in IgdbRecords, NEW rawg \in RawgRecords, CommitMetadata(igdb, rawg),
         NEW fallback, fallback = IF NeedsRawg(igdb) THEN rawg ELSE NoRecord,
         NEW record, record = MergedRecords(igdb, fallback),
         NEW judged, NEW new, RunOn(record, judged, new)
  PROVE  RunMakes(fallback, record, judged, new)
<1>1. base["metadata"] # Unloaded /\ Entry(base["metadata"])
  BY DEF CatTyped, CommitMetadata, Writer
<1>2. PICK g : g = base["metadata"]
  OBVIOUS
<1>3. RecordOK(igdb) /\ RecordOK(fallback)
  BY RecordsAreOK, NoRecordOK
<1>4. RecordOK(record)
  BY <1>3, MergedRecordIs
<1>5. judged = JudgedRecord(g, record) /\ new = Enriched(g, record) /\ Entry(g)
  BY <1>1, <1>2 DEF RunOn
<1>6. JudgedFrom(judged, record)
  BY <1>4, <1>5, JudgedRecordIs
<1>7. EnrichedTo(new, g, judged.fields)
  BY <1>4, <1>5, EnrichmentIs
<1>8. Commit("metadata", new, DOMAIN judged.fields)
  BY DEF CommitMetadata, RunOn
<1>9. told' = [f \in Field |->
                 IF f \in DOMAIN judged.fields /\ judged.fields[f].source # "classification"
                 THEN judged.fields[f].value ELSE told[f]]
  BY DEF CommitMetadata, RunOn
<1> QED BY <1>1, <1>2, <1>3, <1>4, <1>6, <1>7, <1>8, <1>9 DEF EnrichedTo, RunMakes

LEMMA CommitMetadataKeeps ==
  ASSUME CatInv, NEW igdb \in IgdbRecords, NEW rawg \in RawgRecords, CommitMetadata(igdb, rawg)
  PROVE  CatInv'
<1>1. PICK fallback : fallback = IF NeedsRawg(igdb) THEN rawg ELSE NoRecord
  OBVIOUS
<1>2. PICK record : record = MergedRecords(igdb, fallback)
  OBVIOUS
<1>3. PICK judged, new : RunOn(record, judged, new)
  BY DEF RunOn
<1>4. /\ base["metadata"] # Unloaded
      /\ Entry(new) /\ EnrichedTo(new, base["metadata"], judged.fields)
      /\ KnownOK(judged.fields)
      /\ Commit("metadata", new, DOMAIN judged.fields)
      /\ told' = [f \in Field |->
                    IF f \in DOMAIN judged.fields /\ judged.fields[f].source # "classification"
                    THEN judged.fields[f].value ELSE told[f]]
  <2>1. CatTyped
    BY DEF CatInv
  <2>2. RunMakes(fallback, record, judged, new)
    BY <1>1, <1>2, <1>3, <2>1, RunIs
  <2> QED BY <2>2 DEF RunMakes, JudgedFrom, RecordOK
<1>5. PICK settled, fields : settled = DOMAIN judged.fields /\ fields = judged.fields
  OBVIOUS
<1>6. "metadata" \in Writer /\ Commit("metadata", new, settled)
  BY <1>4, <1>5 DEF Writer
<1>7. /\ CatTyped'
      /\ Overtaken("metadata") => doubt' = Field
      /\ ~Overtaken("metadata") => game' = new /\ doubt' = doubt \ settled
  BY <1>4, <1>6, CommitIs DEF CatInv
<1>8. CASE Overtaken("metadata")
  BY <1>7, <1>8, InDoubt DEF CatInv
<1>9. CASE ~Overtaken("metadata")
  <2>1. EnrichedTo(new, game, fields) /\ KnownOK(fields)
    BY <1>4, <1>5, <1>9 DEF Overtaken
  <2>2. game' = new /\ doubt' = doubt \ DOMAIN fields
    BY <1>5, <1>7, <1>9
  <2>3. told' = [f \in Field |->
                   IF f \in DOMAIN fields /\ fields[f].source # "classification"
                   THEN fields[f].value ELSE told[f]]
    BY <1>4, <1>5
  <2>4. ExclusionsHaveReasons' /\ SourcesTellTheTruth' /\ TextTold'
    BY <2>1, <2>2, <2>3, MetadataKeeps
  <2> QED BY <1>7, <2>4 DEF CatInv
<1> QED BY <1>8, <1>9

LEMMA BeginAndAbandonKeep ==
  ASSUME CatInv, NEW w \in Writer, Begin(w) \/ Abandon(w)
  PROVE  CatInv'
<1>1. UNCHANGED <<softTitle, game, told, doubt>>
  BY DEF Begin, Abandon
<1>2. runs' \in 0..MaxRuns
  BY EnrichmentAssumption DEF Begin, Abandon, CatInv, CatTyped
<1>3. base' = [base EXCEPT ![w] = game] \/ base' = [base EXCEPT ![w] = Unloaded]
  BY DEF Begin, Abandon
<1>4. base' = [v \in Writer |-> base'[v]]
  BY <1>3 DEF CatInv, CatTyped
<1>5. \A v \in Writer : base'[v] = Unloaded \/ base'[v] = game \/ base'[v] = base[v]
  BY <1>3 DEF CatInv, CatTyped
<1>6. Entry(game) /\ \A v \in Writer : base[v] = Unloaded \/ Entry(base[v])
  BY DEF CatInv, CatTyped
<1>7. \A v \in Writer : base'[v] = Unloaded \/ Entry(base'[v])
  BY <1>5, <1>6
<1>8. CatTyped'
  BY <1>1, <1>2, <1>4, <1>6, <1>7 DEF CatInv, CatTyped
<1>9. ExclusionsHaveReasons' /\ SourcesTellTheTruth' /\ TextTold'
  BY <1>1 DEF CatInv, ExclusionsHaveReasons, SourcesTellTheTruth, TextTold, Given
<1> QED BY <1>8, <1>9 DEF CatInv

LEMMA UpdateKeeps ==
  ASSUME CatInv, NEW f \in {"isGame", "multi", "known"}, NEW v \in BOOLEAN, UpdateGame(f, v)
  PROVE  CatInv'
<1>1. PICK is, sources, primary :
        /\ IsFields(is) /\ IsFields(sources)
        /\ game = [is |-> is, sources |-> sources, primary |-> primary]
        /\ game.is = is /\ game.sources = sources /\ game.primary = primary
        /\ EntryParts(is, sources, primary)
  BY DEF CatInv, CatTyped, Entry, EntryParts
<1>2. PICK new : new = [is EXCEPT ![f] = v]
  OBVIOUS
<1>3. PICK kept : kept = [game EXCEPT !.is[f] = v]
  OBVIOUS
<1>4. kept = [is |-> new, sources |-> sources, primary |-> primary]
  BY <1>1, <1>2, <1>3
<1>5. f \in Field
  BY DEF Field, Feature
<1>6. /\ IsFields(new)
      /\ \A e \in Field : e # f => new[e] = is[e]
      /\ new[f] = v
  BY <1>1, <1>2, <1>5 DEF IsFields
<1>7. EntryParts(new, sources, primary)
  <2>1. ValueOK(f, v)
    BY DEF ValueOK, Feature
  <2>2. \A e \in Field : ValueOK(e, new[e])
    BY <1>1, <1>6, <2>1 DEF EntryParts
  <2> QED BY <1>1, <1>6, <2>2 DEF EntryParts
<1>8. Entry(kept) /\ kept.is = new /\ kept.sources = sources
  BY <1>4, <1>7, EntryOf
<1>9. game' = kept /\ doubt' = doubt \cup {f} /\ UNCHANGED <<softTitle, base, told>>
  BY <1>3 DEF UpdateGame
<1>10. runs' \in 0..MaxRuns
  BY EnrichmentAssumption DEF UpdateGame, CatInv, CatTyped
<1>11. CatTyped'
  BY <1>5, <1>8, <1>9, <1>10 DEF CatInv, CatTyped
<1>12. ASSUME NEW e \in Field, e \notin doubt'
       PROVE  e \notin doubt /\ kept.is[e] = game.is[e] /\ kept.sources[e] = game.sources[e]
  BY <1>1, <1>6, <1>8, <1>9, <1>12
<1>13. "isGame" \in Field /\ "reason" \in Field /\ {"text", "date"} \subseteq Field /\ Sourced \subseteq Field
  BY DEF Field, Feature, Sourced
<1>14. ExclusionsHaveReasons'
  <2>1. ASSUME {"isGame", "reason"} \cap doubt' = {}
        PROVE  kept.is["isGame"] <=> kept.is["reason"] = None
    BY <1>12, <1>13, <2>1 DEF CatInv, ExclusionsHaveReasons
  <2> QED BY <1>9, <2>1 DEF ExclusionsHaveReasons
<1>15. SourcesTellTheTruth'
  <2>1. ASSUME NEW e \in Sourced, e \notin doubt', kept.sources[e] \in {"igdb", "rawg"}
        PROVE  Tells(e, kept.is[e], told[e])
    BY <1>12, <1>13, <2>1, SourcedAre DEF CatInv, SourcesTellTheTruth, Tells
  <2> QED BY <1>9, <2>1, SourcedAre DEF SourcesTellTheTruth, Tells
<1>16. TextTold'
  BY <1>9, <1>12, <1>13 DEF CatInv, TextTold, Given
<1> QED BY <1>11, <1>14, <1>15, <1>16 DEF CatInv

LEMMA CatStep == CatInv /\ [CatNext]_catVars => CatInv'
<1> SUFFICES ASSUME CatInv, [CatNext]_catVars PROVE CatInv'
  OBVIOUS
<1>1. ASSUME NEW w \in Writer, Begin(w) \/ Abandon(w) PROVE CatInv'
  BY <1>1, BeginAndAbandonKeep
<1>2. ASSUME NEW igdb \in IgdbRecords, NEW rawg \in RawgRecords, CommitMetadata(igdb, rawg)
      PROVE  CatInv'
  BY <1>2, CommitMetadataKeeps
<1>3. ASSUME NEW d \in StoreAnswer, CommitStore(d) PROVE CatInv'
  <2>1. PICK g, new : g = base["store"] /\ new = StoreApplied(g, d)
    OBVIOUS
  <2>2. "store" \in Writer /\ g # Unloaded /\ Entry(g)
    BY <1>3, <2>1 DEF CommitStore, Writer, CatInv, CatTyped
  <2>3. Respects(new, g)
    BY <2>1, <2>2, StoreRespects
  <2>4. Commit("store", new, {}) /\ UNCHANGED told
    BY <1>3, <2>1 DEF CommitStore
  <2>5. base["store"] # Unloaded /\ Respects(new, base["store"])
    BY <2>1, <2>2, <2>3
  <2> QED BY <2>2, <2>4, <2>5, StoreAndImportKeep
<1>4. ASSUME NEW i \in Import, CommitImport(i) PROVE CatInv'
  <2>1. PICK g, new : g = base["import"] /\ new = Merged(g, i)
    OBVIOUS
  <2>2. "import" \in Writer /\ g # Unloaded /\ Entry(g)
    BY <1>4, <2>1 DEF CommitImport, Writer, CatInv, CatTyped
  <2>3. Respects(new, g)
    BY <2>1, <2>2, ImportsAreOK, MergeRespects
  <2>4. Commit("import", new, {}) /\ UNCHANGED told
    BY <1>4, <2>1 DEF CommitImport
  <2>5. base["import"] # Unloaded /\ Respects(new, base["import"])
    BY <2>1, <2>2, <2>3
  <2> QED BY <2>2, <2>4, <2>5, StoreAndImportKeep
<1>5. ASSUME NEW f \in {"isGame", "multi", "known"}, NEW v \in BOOLEAN, UpdateGame(f, v)
      PROVE  CatInv'
  BY <1>5, UpdateKeeps
<1>6. CASE UNCHANGED catVars
  BY <1>6 DEF catVars, CatInv, CatTyped, ExclusionsHaveReasons, SourcesTellTheTruth, TextTold, Given
<1> QED BY <1>1, <1>2, <1>3, <1>4, <1>5, <1>6 DEF CatNext

(* Every variable of the catalogue keeps its type.                         *)
THEOREM CatalogueTyped == CatSpec => []CatTypeOK
<1>1. CatInv => CatTypeOK
  BY CatInvTypeOK DEF CatInv
<1> QED BY <1>1, CatInitially, CatStep, PTL DEF CatSpec

(* What is excluded says why, and what is not excluded has no reason.      *)
THEOREM ExclusionsAreExplained == CatSpec => []ExclusionsHaveReasons
<1>1. CatInv => ExclusionsHaveReasons
  BY DEF CatInv
<1> QED BY <1>1, CatInitially, CatStep, PTL DEF CatSpec

(* What metadata_sources ascribes to IGDB or RAWG is what they last gave,  *)
(* but for what SourcesTellTheTruth names: genres that were added to it, a *)
(* date that could not be read, and the features that IGDB does not        *)
(* describe.                                                               *)
THEOREM SourcesAreTrue == CatSpec => []SourcesTellTheTruth
<1>1. CatInv => SourcesTellTheTruth
  BY DEF CatInv
<1> QED BY <1>1, CatInitially, CatStep, PTL DEF CatSpec

LEMMA RepairLasts ==
  ASSUME CatInv, NEW igdb \in IgdbRecords, NEW rawg \in RawgRecords, CommitMetadata(igdb, rawg),
         ~Overtaken("metadata"), "count" \in DOMAIN igdb.fields,
         igdb.fields["count"].value > IF igdb.fields["multi"].value THEN 1 ELSE 0
  PROVE  ~Suspicious(game')
<1>1. PICK fallback : fallback = IF NeedsRawg(igdb) THEN rawg ELSE NoRecord
  OBVIOUS
<1>2. PICK record : record = MergedRecords(igdb, fallback)
  OBVIOUS
<1>3. PICK judged, new : RunOn(record, judged, new)
  BY DEF RunOn
<1>4. CatTyped
  BY DEF CatInv
<1>5. RunMakes(fallback, record, judged, new)
  BY <1>1, <1>2, <1>3, <1>4, RunIs
<1>6. PICK g, settled : g = base["metadata"] /\ settled = DOMAIN judged.fields
  OBVIOUS
<1>7. /\ g # Unloaded /\ Entry(g) /\ RecordOK(fallback) /\ RecordOK(record)
      /\ JudgedFrom(judged, record) /\ Entry(new) /\ Commit("metadata", new, settled)
      /\ new = Enriched(g, record) /\ judged = JudgedRecord(g, record)
  BY <1>3, <1>5, <1>6 DEF RunMakes, RunOn
<1>8. game' = new
  <2>1. "metadata" \in Writer /\ base["metadata"] # Unloaded
    BY <1>6, <1>7 DEF Writer
  <2> QED BY <1>4, <1>7, <2>1, CommitIs
<1>9. PICK a \in IgdbAnswer : igdb = IgdbRecord(a)
  BY NoRecordOK DEF IgdbRecords
<1>10. /\ RecordOK(igdb) /\ igdb.by = "igdb" /\ "isGame" \in DOMAIN igdb.fields
       /\ {"single", "multi", "known"} \subseteq DOMAIN igdb.fields
       /\ igdb.fields["known"].value = TRUE
       /\ igdb.fields["single"].value \/ igdb.fields["multi"].value
  BY <1>9, IgdbRecordIs
<1>11. /\ record.by = "igdb" /\ DOMAIN igdb.fields \subseteq DOMAIN record.fields
       /\ \A f \in DOMAIN igdb.fields : record.fields[f] = igdb.fields[f]
  <2>1. igdb.by # None
    BY <1>10 DEF None
  <2> QED BY <1>2, <1>7, <1>10, <2>1, MergedRecordIs
<1>12. /\ RecordOK(judged) /\ judged.by = "igdb"
       /\ "isGame" \in DOMAIN judged.fields
       /\ \A f \in {"single", "multi", "known", "count"} :
            f \in DOMAIN judged.fields /\ judged.fields[f] = igdb.fields[f]
  BY <1>7, <1>10, <1>11 DEF JudgedFrom
<1>13. judged.by # None /\ record.by # None /\ KnownOK(judged.fields)
  BY <1>11, <1>12 DEF None, RecordOK
<1>14. new = Applied(g, judged)
  BY <1>7, <1>13 DEF Enriched
<1>15. /\ new.primary = "igdb"
       /\ \A f \in DOMAIN judged.fields :
            f # "date" => new.is[f] = judged.fields[f].value
  BY <1>7, <1>12, <1>13, <1>14, ApplicationIs DEF NoDate
<1>16. \A f \in {"single", "multi", "known", "count"} : new.is[f] = igdb.fields[f].value
  BY <1>12, <1>15
<1>17. new.is["isGame"] <=> new.is["reason"] = None
  BY <1>12, <1>13, <1>15 DEF KnownOK
<1>18. new.is["count"] \in 0..2
  BY <1>7 DEF Entry, ValueOK, Field
<1>19. new.is["count"] # 0 /\ (new.is["multi"] => new.is["count"] > 1)
  <2>1. PICK n, m : n = igdb.fields["count"].value /\ m = igdb.fields["multi"].value
    OBVIOUS
  <2>2. n > IF m THEN 1 ELSE 0
    BY <2>1
  <2>3. new.is["count"] = n /\ new.is["multi"] = m /\ n \in 0..2
    BY <1>16, <1>18, <2>1
  <2> QED BY <2>2, <2>3
<1>20. new.primary # None
  BY <1>15 DEF None
<1>21. new.is["known"] = TRUE /\ (new.is["single"] \/ new.is["multi"])
  BY <1>10, <1>16
<1>22. ~Suspicious(new)
  <2>1. new.is["count"] \in Int /\ ~(new.is["multi"] /\ new.is["count"] <= 1)
    BY <1>18, <1>19
  <2> QED BY <1>17, <1>19, <1>20, <1>21, <2>1 DEF Suspicious
<1> QED BY <1>8, <1>22

(* A repair run comes to an end: with modes and a fitting player count     *)
(* from IGDB no repair run looks at the game again.                        *)
THEOREM RepairedGamesStayRepaired == CatSpec => RepairsLast
<1>1. CatInv /\ [CatNext]_catVars =>
        [\A igdb \in IgdbRecords, rawg \in RawgRecords :
           /\ CommitMetadata(igdb, rawg)
           /\ ~Overtaken("metadata")
           /\ "count" \in DOMAIN igdb.fields
           /\ igdb.fields["count"].value > IF igdb.fields["multi"].value THEN 1 ELSE 0
           => ~Suspicious(game')]_catVars
  BY RepairLasts
<1> QED BY <1>1, CatInitially, CatStep, PTL DEF CatSpec, RepairsLast

=============================================================================
