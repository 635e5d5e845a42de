------------------------- MODULE GameMatchingProofs -------------------------
(***************************************************************************)
(* Proofs about GameMatching: what holds however transactions overlap, and *)
(* what holds as long as they do not.                                      *)
(***************************************************************************)
EXTENDS GameMatching, FiniteSetTheorems, TLAPS

(* Ids of games are handed out once and in order.                          *)
GamesKnown ==
  /\ \A g \in Game : title[g] # NoTitle => g <= lastGame
  /\ \A i \in Id : mapping[i].game <= lastGame
  /\ \A w \in Worker :
       /\ \A g \in Game : job[w].created[g] # NoTitle => g <= lastGame
       /\ \A i \in Id : job[w].wrote[i].game <= lastGame
       /\ job[w].op = "related" => job[w].game \in Game

(* What a transaction writes leads to a game it sees.                      *)
WrittenGamesExist ==
  \A w \in Worker, i \in Id :
    job[w].wrote[i] # NoMapping => TitleSeen(w, job[w].wrote[i].game) # NoTitle

Sound == TypeOK /\ GamesKnown /\ MappedGamesExist /\ WrittenGamesExist

LEMMA IdleIsAJob == /\ Idle \in Job /\ Idle.op = "idle" /\ Idle.alone = FALSE
                    /\ \A i \in Id : Idle.wrote[i] = NoMapping /\ Idle.found[i] = NoFinding
                    /\ \A g \in Game : Idle.created[g] = NoTitle
BY DEF Idle, Job, Mapping, NoMapping, Finding, NoFinding, NoGame

LEMMA InitSound == Init => Sound
<1> SUFFICES ASSUME Init PROVE Sound
  OBVIOUS
<1> USE MatchingAssumption
<1>1. TypeOK
  <2>1. NoMapping \in Mapping /\ NoFinding \in Finding
    BY DEF Mapping, Finding, NoFinding, NoGame
  <2>2. lastGame \in 0..MaxGames /\ lastRow \in 0..MaxRows
    BY DEF Init
  <2>3. job \in [Worker -> Job]
    BY IdleIsAJob DEF Init
  <2>4. overlapped \in BOOLEAN /\ plan \in [Worker -> SUBSET Plan]
    BY DEF Init
  <2> QED BY <2>1, <2>2, <2>3, <2>4 DEF Init, TypeOK
<1>2. GamesKnown
  BY IdleIsAJob DEF Init, GamesKnown, NoMapping, NoGame
<1>3. MappedGamesExist /\ WrittenGamesExist
  BY IdleIsAJob DEF Init, MappedGamesExist, WrittenGamesExist
<1> QED BY <1>1, <1>2, <1>3 DEF Sound

(* What a step that settles the id of p does, as the transaction sees it:  *)
(* the mapping is kept, or written for the game that was chosen, or for a  *)
(* new one.                                                                *)
Settles(w, p) ==
  /\ job' \in [Worker -> Job] /\ lastGame' \in 0..MaxGames /\ lastRow' \in 0..MaxRows
  /\ \A v \in Worker \ {w} : job'[v] = job[v]
  /\ job'[w].op \in {"open", "related"} /\ job'[w].alone = job[w].alone
  /\ \A k \in Id \ {p.id} : /\ job'[w].found[k] = job[w].found[k]
                            /\ job'[w].wrote[k] = job[w].wrote[k]

SettledAs(w, p, g) ==
  /\ job'[w].found[p.id] = [title |-> p.title, game |-> g]
  /\ job'[w].op = "related" => job'[w].game = g

Kept(w, p, g) ==
  /\ SettledAs(w, p, g)
  /\ Stays(w, p.id, p.title) /\ g = MappingSeen(w, p.id).game
  /\ job'[w].wrote = job[w].wrote /\ job'[w].created = job[w].created
  /\ UNCHANGED <<lastGame, lastRow>>

Wrote(w, p, g) ==
  /\ SettledAs(w, p, g)
  /\ job'[w].wrote[p.id].game = g /\ job'[w].wrote[p.id] # NoMapping
  /\ \/ /\ p.game # NoGame /\ g = p.game /\ TitleSeen(w, g) # NoTitle
        /\ job'[w].created = job[w].created
        /\ UNCHANGED lastGame
     \/ /\ p.game = NoGame /\ g = lastGame + 1 /\ lastGame' = g
        /\ job'[w].created = [job[w].created EXCEPT ![g] = p.title]

(* The decision p is the one that the transaction would make now.          *)
Timely(w, p) ==
  /\ ~Stays(w, p.id, p.title)
  /\ p.game \in FindGames(w, p.id, p.title, MappingSeen(w, p.id).game)

LEMMA SeenTyped ==
  ASSUME TypeOK, NEW w \in Worker, NEW i \in Id PROVE MappingSeen(w, i) \in Mapping
<1>1. job[w] \in Job /\ mapping[i] \in Mapping
  BY DEF TypeOK
<1>2. job[w].wrote[i] \in Mapping
  BY <1>1 DEF Job
<1> QED BY <1>1, <1>2 DEF MappingSeen

LEMMA KeptDoes ==
  ASSUME TypeOK, NEW w \in Worker, NEW p \in Plan, Stays(w, p.id, p.title),
         job' = [job EXCEPT ![w] =
                   ResolvedJob(w, p.id, p.title, MappingSeen(w, p.id).game, p.releases)],
         UNCHANGED <<lastGame, lastRow>>
  PROVE  Settles(w, p) /\ \E g \in Game : Kept(w, p, g)
<1> DEFINE g == MappingSeen(w, p.id).game
           j == ResolvedJob(w, p.id, p.title, g, p.releases)
<1>1. p.id \in Id /\ p.title \in Title /\ p.releases \in SUBSET Id /\ job[w] \in Job
  BY DEF Plan, TypeOK
<1>2. g \in Game
  BY <1>1, SeenTyped DEF Stays, Mapping
<1>3. j \in Job
  <2>1. [title |-> p.title, game |-> g] \in Finding
    BY <1>1, <1>2 DEF Finding
  <2> HIDE DEF g
  <2>2. [job[w].found EXCEPT ![p.id] = [title |-> p.title, game |-> g]] \in [Id -> Finding]
    BY <1>1, <2>1 DEF Job
  <2> QED BY <1>1, <1>2, <2>2 DEF ResolvedJob, Job
<1>4. /\ j.op = (IF p.releases = {} THEN "open" ELSE "related") /\ j.alone = job[w].alone
      /\ j.wrote = job[w].wrote /\ j.created = job[w].created
      /\ j.found = [job[w].found EXCEPT ![p.id] = [title |-> p.title, game |-> g]]
      /\ j.game = IF p.releases = {} THEN NoGame ELSE g
  <2> HIDE DEF g
  <2> QED BY <1>1 DEF ResolvedJob, Job
<1> HIDE DEF j
<1>5. /\ j.found[p.id] = [title |-> p.title, game |-> g]
      /\ \A k \in Id \ {p.id} : j.found[k] = job[w].found[k]
  BY <1>1, <1>4 DEF Job
<1>6. job'[w] = j /\ job' \in [Worker -> Job] /\ \A v \in Worker \ {w} : job'[v] = job[v]
  BY <1>3 DEF TypeOK, j
<1>7. Settles(w, p)
  <2>1. lastGame' \in 0..MaxGames /\ lastRow' \in 0..MaxRows
    BY DEF TypeOK
  <2> QED BY <1>4, <1>5, <1>6, <2>1 DEF Settles
<1>8. Kept(w, p, g)
  BY <1>4, <1>5, <1>6 DEF Kept, SettledAs
<1> QED BY <1>2, <1>7, <1>8

LEMMA WrittenDoes ==
  ASSUME TypeOK, NEW w \in Worker, NEW p \in Plan, Written(w, p)
  PROVE  Settles(w, p) /\ \E g \in Game : Wrote(w, p, g)
<1> USE MatchingAssumption
<1> DEFINE game == GameFlushed(p.game)
           row  == IF p.old = NoMapping THEN lastRow + 1 ELSE p.old.row
           made == [job[w].created EXCEPT ![game] = IF p.game = NoGame THEN p.title ELSE @]
           r == ResolvedJob(w, p.id, p.title, game, p.releases)
           j == [r EXCEPT !.created[game] = IF p.game = NoGame THEN p.title ELSE @,
                          !.wrote[p.id] = [row |-> row, game |-> game]]
<1>1. /\ p.id \in Id /\ p.title \in Title /\ p.releases \in SUBSET Id /\ job[w] \in Job
      /\ p.old \in Mapping /\ p.game \in Game \cup {NoGame}
      /\ lastGame \in 0..MaxGames /\ lastRow \in 0..MaxRows
  BY DEF Plan, TypeOK
<1>2. /\ game <= MaxGames /\ row <= MaxRows
      /\ p.game # NoGame => TitleSeen(w, p.game) # NoTitle
      /\ lastGame' = IF p.game = NoGame THEN game ELSE lastGame
      /\ lastRow' = IF p.old = NoMapping THEN row ELSE lastRow
      /\ job' = [job EXCEPT ![w] = j]
  BY DEF Written
<1>3. game \in Game /\ lastGame' \in 0..MaxGames
  BY <1>1, <1>2 DEF GameFlushed, Game, NoGame
<1>4. row \in Nat \ {0} /\ lastRow' \in 0..MaxRows
  BY <1>1, <1>2 DEF Mapping
<1>5. /\ p.game = NoGame => game = lastGame + 1
      /\ p.game # NoGame => game = p.game
  BY DEF GameFlushed
<1> HIDE DEF game, row
<1>6. [title |-> p.title, game |-> game] \in Finding /\ [row |-> row, game |-> game] \in Mapping
  BY <1>1, <1>3, <1>4 DEF Finding, Mapping
<1>7. /\ r \in Job /\ r.alone = job[w].alone /\ r.created = job[w].created
      /\ r.wrote = job[w].wrote
      /\ r.op = (IF p.releases = {} THEN "open" ELSE "related")
      /\ r.game = (IF p.releases = {} THEN NoGame ELSE game)
      /\ r.found = [job[w].found EXCEPT ![p.id] = [title |-> p.title, game |-> game]]
  <2>1. [job[w].found EXCEPT ![p.id] = [title |-> p.title, game |-> game]] \in [Id -> Finding]
    BY <1>1, <1>6 DEF Job
  <2> QED BY <1>1, <1>3, <2>1 DEF ResolvedJob, Job
<1> HIDE DEF r
<1>8. made \in [Game -> Title \cup {NoTitle}]
  BY <1>1, <1>3 DEF Job
<1>9. [job[w].wrote EXCEPT ![p.id] = [row |-> row, game |-> game]] \in [Id -> Mapping]
  BY <1>1, <1>6 DEF Job
<1>10. /\ j \in Job /\ j.alone = r.alone /\ j.op = r.op /\ j.game = r.game /\ j.found = r.found
       /\ j.created = made
       /\ j.wrote = [job[w].wrote EXCEPT ![p.id] = [row |-> row, game |-> game]]
  <2>1. j = [r EXCEPT !.created = made,
                      !.wrote = [job[w].wrote EXCEPT ![p.id] = [row |-> row, game |-> game]]]
    BY <1>7 DEF Job
  <2> HIDE DEF j, made
  <2> QED BY <1>7, <1>8, <1>9, <2>1 DEF Job
<1>11. made = IF p.game = NoGame THEN [job[w].created EXCEPT ![game] = p.title] ELSE job[w].created
  BY <1>1 DEF Job
<1> HIDE DEF j, made
<1>12. /\ j.found[p.id] = [title |-> p.title, game |-> game]
       /\ j.wrote[p.id] = [row |-> row, game |-> game] /\ j.wrote[p.id] # NoMapping
       /\ \A k \in Id \ {p.id} : j.found[k] = job[w].found[k] /\ j.wrote[k] = job[w].wrote[k]
  BY <1>1, <1>4, <1>7, <1>10 DEF Job, NoMapping
<1>13. job'[w] = j /\ job' \in [Worker -> Job] /\ \A v \in Worker \ {w} : job'[v] = job[v]
  BY <1>2, <1>10 DEF TypeOK
<1>14. Settles(w, p)
  BY <1>3, <1>4, <1>7, <1>10, <1>12, <1>13 DEF Settles
<1>15. SettledAs(w, p, game) /\ job'[w].wrote[p.id].game = game /\ job'[w].wrote[p.id] # NoMapping
  <2>1. job'[w].found[p.id] = [title |-> p.title, game |-> game]
    BY <1>12, <1>13
  <2>2. job'[w].op = r.op /\ job'[w].game = r.game
    BY <1>10, <1>13
  <2>3. r.op = "related" => r.game = game
    BY <1>7
  <2>4. job'[w].wrote[p.id].game = game /\ job'[w].wrote[p.id] # NoMapping
    BY <1>12, <1>13
  <2> QED BY <2>1, <2>2, <2>3, <2>4 DEF SettledAs
<1>16. Wrote(w, p, game)
  <2>1. CASE p.game = NoGame
    BY <1>2, <1>5, <1>10, <1>11, <1>13, <1>15, <2>1 DEF Wrote
  <2>2. CASE p.game # NoGame
    BY <1>2, <1>5, <1>10, <1>11, <1>13, <1>15, <2>2 DEF Wrote
  <2> QED BY <2>1, <2>2
<1> QED BY <1>3, <1>14, <1>16

(* Resolving an entry settles its id, or makes the plan to move it.        *)
ResolveOutcome(w, p) ==
  \/ /\ Settles(w, p) /\ UNCHANGED plan
     /\ \E g \in Game : Kept(w, p, g) \/ (Wrote(w, p, g) /\ Timely(w, p))
  \/ Timely(w, p) /\ plan' = [plan EXCEPT ![w] = {p}] /\ UNCHANGED <<lastGame, lastRow, job>>

LEMMA ResolveDoes ==
  ASSUME TypeOK, NEW w \in Worker, NEW i \in Id, NEW t \in Names[i], NEW releases \in Related,
         Resolve(w, i, t, releases)
  PROVE  /\ job[w].op = "open" /\ plan[w] = {}
         /\ UNCHANGED <<title, mapping, recall, overlapped>>
         /\ \E p \in Plan : job[w].found[p.id] = NoFinding /\ ResolveOutcome(w, p)
<1>1. t \in Title /\ releases \in SUBSET Id /\ MappingSeen(w, i) \in Mapping
  BY MatchingAssumption, SeenTyped DEF Id
<1>2. /\ job[w].op = "open" /\ plan[w] = {} /\ job[w].found[i] = NoFinding
      /\ UNCHANGED <<title, mapping, recall, overlapped>>
  BY DEF Resolve
<1> DEFINE P(g) == [id |-> i, title |-> t, releases |-> releases,
                    old |-> MappingSeen(w, i), game |-> g]
<1>3. \A g \in Game \cup {NoGame} : P(g) \in Plan
  BY <1>1 DEF Plan
<1>4. CASE /\ Stays(w, i, t)
           /\ job' = [job EXCEPT ![w] =
                        ResolvedJob(w, i, t, MappingSeen(w, i).game, releases)]
           /\ UNCHANGED <<lastGame, lastRow, plan>>
  <2> DEFINE p == P(NoGame)
  <2>1. /\ p \in Plan /\ p.id = i /\ p.title = t /\ p.releases = releases
    BY <1>3
  <2> HIDE DEF p
  <2>2. Settles(w, p) /\ \E g \in Game : Kept(w, p, g)
    BY <1>4, <2>1, KeptDoes
  <2> QED BY <1>2, <1>4, <2>1, <2>2 DEF ResolveOutcome
<1>5. ASSUME NEW g \in FindGames(w, i, t, MappingSeen(w, i).game), ~Stays(w, i, t),
             \/ P(g).old = NoMapping /\ Written(w, P(g)) /\ UNCHANGED plan
             \/ /\ P(g).old # NoMapping
                /\ plan' = [plan EXCEPT ![w] = {P(g)}]
                /\ UNCHANGED <<lastGame, lastRow, job>>
      PROVE  \E p \in Plan : job[w].found[p.id] = NoFinding /\ ResolveOutcome(w, p)
  <2> DEFINE p == P(g)
  <2>1. g \in Game \cup {NoGame}
    BY DEF FindGames, Candidates
  <2>2. p \in Plan /\ p.id = i /\ p.title = t /\ p.game = g
    BY <1>3, <2>1
  <2>3. \/ Written(w, p) /\ UNCHANGED plan
        \/ plan' = [plan EXCEPT ![w] = {p}] /\ UNCHANGED <<lastGame, lastRow, job>>
    BY <1>5
  <2> HIDE DEF p, P
  <2>4. Timely(w, p)
    BY <1>5, <2>2 DEF Timely
  <2>5. Written(w, p) => Settles(w, p) /\ \E h \in Game : Wrote(w, p, h)
    BY <2>2, WrittenDoes
  <2>6. ResolveOutcome(w, p)
    BY <2>3, <2>4, <2>5 DEF ResolveOutcome
  <2> QED BY <1>2, <2>2, <2>6
<1> QED BY <1>2, <1>4, <1>5 DEF Resolve

LEMMA AddRelatedDoes ==
  ASSUME TypeOK, GamesKnown, NEW w \in Worker, AddRelated(w)
  PROVE  /\ job' \in [Worker -> Job] /\ lastRow' \in 0..MaxRows
         /\ \A v \in Worker \ {w} : job'[v] = job[v]
         /\ job[w].op = "related" /\ job'[w].op = "open" /\ job'[w].game = NoGame
         /\ job'[w].alone = job[w].alone /\ job'[w].found = job[w].found
         /\ job'[w].created = job[w].created
         /\ job[w].game \in Game
         /\ \A i \in Id \ Addable(w) : job'[w].wrote[i] = job[w].wrote[i]
         /\ \A i \in Addable(w) : job'[w].wrote[i] # NoMapping /\ job'[w].wrote[i].game = job[w].game
<1> USE MatchingAssumption
<1>0. job[w] \in Job /\ job[w].op = "related" /\ job[w].game \in Game
  BY DEF TypeOK, GamesKnown, AddRelated
<1> DEFINE n == Cardinality(Addable(w))
<1>1. n \in Nat /\ lastRow \in Nat
  <2>1. Addable(w) \subseteq SteamId \cup OtherId
    BY <1>0 DEF Addable, Job, Id
  <2>2. IsFiniteSet(Addable(w))
    BY <2>1, FS_Subset
  <2> QED BY <2>2, FS_CardinalityType DEF TypeOK
<1>2. PICK rows \in [Addable(w) -> lastRow + 1 .. lastRow + n] :
        job' = [job EXCEPT ![w] =
            [job[w] EXCEPT !.op = "open", !.game = NoGame, !.related = {},
                      !.wrote = [i \in Id |-> IF i \in Addable(w)
                                              THEN [row |-> rows[i], game |-> job[w].game]
                                              ELSE job[w].wrote[i]]]]
  BY DEF AddRelated
<1> DEFINE wrote == [i \in Id |-> IF i \in Addable(w)
                                 THEN [row |-> rows[i], game |-> job[w].game]
                                 ELSE job[w].wrote[i]]
           j == [job[w] EXCEPT !.op = "open", !.game = NoGame, !.related = {}, !.wrote = wrote]
<1>3. wrote \in [Id -> Mapping]
  <2>1. \A i \in Addable(w) : rows[i] \in Nat \ {0}
    BY <1>1
  <2>2. \A i \in Id : job[w].wrote[i] \in Mapping
    BY <1>0 DEF Job
  <2> QED BY <1>0, <2>1, <2>2 DEF Mapping
<1>4. \A i \in Addable(w) : i \in Id /\ wrote[i] # NoMapping /\ wrote[i].game = job[w].game
  BY <1>0 DEF Addable, Job, NoMapping, NoGame, Game
<1>5. \A i \in Id \ Addable(w) : wrote[i] = job[w].wrote[i]
  OBVIOUS
<1> HIDE DEF wrote
<1>6. /\ j \in Job /\ j.op = "open" /\ j.alone = job[w].alone /\ j.found = job[w].found
      /\ j.created = job[w].created /\ j.wrote = wrote /\ j.game = NoGame
  BY <1>0, <1>3 DEF Job
<1>7. job' = [job EXCEPT ![w] = j]
  BY <1>2 DEF wrote
<1> HIDE DEF j
<1>8. job'[w] = j /\ job' \in [Worker -> Job] /\ \A v \in Worker \ {w} : job'[v] = job[v]
  BY <1>6, <1>7 DEF TypeOK
<1>9. lastRow' \in 0..MaxRows
  BY <1>1 DEF AddRelated
<1> QED BY <1>0, <1>4, <1>5, <1>6, <1>8, <1>9

-----------------------------------------------------------------------------
(* Types, and games that exist.                                            *)

(* A transaction ends, or begins: what it keeps is a record that holds     *)
(* nothing yet.                                                            *)
LEMMA FreshJobs ==
  ASSUME Sound, NEW S \in SUBSET Worker,
         job' \in [Worker -> Job],
         \A v \in Worker \ S : /\ job'[v].wrote = job[v].wrote /\ job'[v].created = job[v].created
                              /\ job'[v].op = job[v].op /\ job'[v].game = job[v].game,
         \A v \in S : /\ job'[v].wrote = Idle.wrote /\ job'[v].created = Idle.created
                      /\ job'[v].op # "related",
         lastGame' \in Nat, lastGame <= lastGame'
  PROVE  /\ \A v \in Worker :
              /\ \A g \in Game : job'[v].created[g] # NoTitle => g <= lastGame'
              /\ \A i \in Id : job'[v].wrote[i].game <= lastGame'
              /\ job'[v].op = "related" => job'[v].game \in Game
         /\ (\A g \in Game : title[g] # NoTitle => title'[g] # NoTitle) => WrittenGamesExist'
<1> USE IdleIsAJob DEF Sound, TypeOK
<1>0. lastGame \in Nat /\ MaxGames \in Nat
  BY MatchingAssumption
<1>1. ASSUME NEW v \in Worker PROVE
              /\ \A g \in Game : job'[v].created[g] # NoTitle => g <= lastGame'
              /\ \A i \in Id : job'[v].wrote[i].game <= lastGame'
              /\ job'[v].op = "related" => job'[v].game \in Game
  <2>1. CASE v \in S
    BY <2>1 DEF NoMapping, NoGame
  <2>2. CASE v \notin S
    <3>1. \A i \in Id : job[v].wrote[i].game \in Nat
      BY DEF Job, Mapping, NoMapping, Game, NoGame
    <3> QED BY <1>0, <2>2, <3>1 DEF GamesKnown, Game
  <2> QED BY <2>1, <2>2
<1>2. ASSUME \A g \in Game : title[g] # NoTitle => title'[g] # NoTitle,
             NEW v \in Worker, NEW i \in Id, job'[v].wrote[i] # NoMapping
      PROVE  (TitleSeen(v, job[v].wrote[i].game) # NoTitle)'
  <2>1. v \notin S
    BY <1>2
  <2>2. job[v].wrote[i] # NoMapping /\ job[v].wrote[i].game \in Game
    BY <1>2, <2>1 DEF Job, Mapping
  <2> QED BY <1>2, <2>1, <2>2 DEF WrittenGamesExist, TitleSeen
<1> QED BY <1>1, <1>2 DEF WrittenGamesExist

LEMMA ForgetTyped == ASSUME TypeOK, NEW I, Forget(I) PROVE recall' \in [Id -> Finding]
BY DEF TypeOK, Forget, Finding, NoFinding

LEMMA OverlapTyped ==
  ASSUME TypeOK, NEW busy, Overlap(busy)
  PROVE  recall' \in [Id -> Finding] /\ overlapped' \in BOOLEAN
BY ForgetTyped DEF Overlap

LEMMA BeginSound ==
  ASSUME Sound, NEW w \in Worker, NEW record \in Job, Begin(w, record),
         record.wrote = Idle.wrote, record.created = Idle.created, record.op # "related"
  PROVE  Sound'
<1> DEFINE busy == \E v \in Worker : Open(v)
           j == [record EXCEPT !.alone = ~busy]
<1>1. /\ j \in Job /\ j.wrote = record.wrote /\ j.created = record.created /\ j.op = record.op
      /\ j.game = record.game
  BY DEF Job
<1>2. \A v \in Worker : /\ [job[v] EXCEPT !.alone = FALSE] \in Job
                        /\ [job[v] EXCEPT !.alone = FALSE].wrote = job[v].wrote
                        /\ [job[v] EXCEPT !.alone = FALSE].created = job[v].created
                        /\ [job[v] EXCEPT !.alone = FALSE].op = job[v].op
                        /\ [job[v] EXCEPT !.alone = FALSE].game = job[v].game
  BY DEF Job, Sound, TypeOK
<1>3. job' = [v \in Worker |-> IF v = w THEN j ELSE [job[v] EXCEPT !.alone = FALSE]]
  BY DEF Begin
<1> HIDE DEF j
<1>4. /\ job' \in [Worker -> Job]
      /\ \A v \in Worker \ {w} : /\ job'[v].wrote = job[v].wrote /\ job'[v].created = job[v].created
                               /\ job'[v].op = job[v].op /\ job'[v].game = job[v].game
      /\ job'[w].wrote = Idle.wrote /\ job'[w].created = Idle.created /\ job'[w].op # "related"
  BY <1>1, <1>2, <1>3
<1>5. UNCHANGED <<title, mapping, lastGame, lastRow, plan>> /\ Overlap(busy)
  BY DEF Begin
<1>6. recall' \in [Id -> Finding] /\ overlapped' \in BOOLEAN
  BY <1>5, OverlapTyped DEF Sound
<1>7. lastGame' \in Nat /\ lastGame <= lastGame'
  BY <1>5, MatchingAssumption DEF Sound, TypeOK
<1>8. /\ \A v \in Worker :
           /\ \A g \in Game : job'[v].created[g] # NoTitle => g <= lastGame'
           /\ \A i \in Id : job'[v].wrote[i].game <= lastGame'
           /\ job'[v].op = "related" => job'[v].game \in Game
      /\ (\A g \in Game : title[g] # NoTitle => title'[g] # NoTitle) => WrittenGamesExist'
  <2> DEFINE S == {w}
  <2>1. /\ S \in SUBSET Worker
        /\ \A v \in Worker \ S : /\ job'[v].wrote = job[v].wrote /\ job'[v].created = job[v].created
                              /\ job'[v].op = job[v].op /\ job'[v].game = job[v].game
        /\ \A v \in S : /\ job'[v].wrote = Idle.wrote /\ job'[v].created = Idle.created
                      /\ job'[v].op # "related"
    BY <1>4
  <2> HIDE DEF S
  <2> QED BY <1>4, <1>7, <2>1, FreshJobs
<1>9. GamesKnown' /\ MappedGamesExist' /\ WrittenGamesExist'
  BY <1>5, <1>8 DEF Sound, GamesKnown, MappedGamesExist
<1> QED BY <1>4, <1>5, <1>6, <1>9 DEF Sound, TypeOK

LEMMA SettledSound ==
  ASSUME Sound, NEW w \in Worker, NEW p \in Plan, NEW g \in Game, Settles(w, p),
         Kept(w, p, g) \/ Wrote(w, p, g), UNCHANGED <<title, mapping, recall, overlapped>>,
         plan' \in [Worker -> SUBSET Plan]
  PROVE  Sound'
<1>0. PICK i \in Id, t \in Title : i = p.id /\ t = p.title
  BY DEF Plan
<1>1. /\ job' \in [Worker -> Job] /\ lastGame' \in 0..MaxGames /\ lastRow' \in 0..MaxRows
      /\ \A v \in Worker \ {w} : job'[v] = job[v]
      /\ \A k \in Id \ {i} : job'[w].wrote[k] = job[w].wrote[k]
  BY <1>0 DEF Settles
<1>2. /\ job'[w].op = "related" => job'[w].game = g
      /\ \/ /\ job'[w].wrote = job[w].wrote /\ job'[w].created = job[w].created
            /\ lastGame' = lastGame
         \/ /\ job'[w].wrote[i].game = g /\ TitleSeen(w, g) # NoTitle
            /\ job'[w].created = job[w].created /\ lastGame' = lastGame
         \/ /\ job'[w].wrote[i].game = g /\ g = lastGame + 1 /\ lastGame' = g
            /\ job'[w].created = [job[w].created EXCEPT ![g] = t]
  BY <1>0 DEF Kept, Wrote, SettledAs
<1>3. UNCHANGED <<title, mapping, recall, overlapped>>
  OBVIOUS
<1>4. TypeOK'
  BY <1>1, <1>3 DEF Sound, TypeOK
<1>5. /\ t # NoTitle /\ lastGame \in Nat /\ MaxGames \in Nat
      /\ \A v \in Worker : /\ job[v].created \in [Game -> Title \cup {NoTitle}]
                           /\ job[v].wrote \in [Id -> Mapping]
      /\ mapping \in [Id -> Mapping]
  BY MatchingAssumption DEF Sound, TypeOK, Job
<1>6. lastGame <= lastGame' /\ lastGame' \in Nat
  BY <1>1, <1>2, <1>5
<1>7. \A h \in Game : /\ job[w].created[h] # NoTitle => job'[w].created[h] # NoTitle
                      /\ job'[w].created[h] # NoTitle => h <= lastGame'
  BY <1>2, <1>5, <1>6 DEF Sound, GamesKnown, Game
<1>8. \A h \in Game : TitleSeen(w, h) # NoTitle => TitleSeen(w, h)' # NoTitle
  BY <1>3, <1>7 DEF TitleSeen
<1>9. ASSUME NEW h \in Game, job'[w].wrote[i] # NoMapping, h = job'[w].wrote[i].game
      PROVE  TitleSeen(w, h)' # NoTitle /\ h <= lastGame'
  <2>1. CASE job'[w].wrote = job[w].wrote
    <3>1. TitleSeen(w, h) # NoTitle /\ h <= lastGame
      BY <1>9, <2>1 DEF Sound, GamesKnown, WrittenGamesExist
    <3> QED BY <1>5, <1>6, <1>8, <3>1 DEF Game
  <2>2. CASE TitleSeen(w, g) # NoTitle /\ job'[w].wrote[i].game = g /\ lastGame' = lastGame
    <3>1. g <= lastGame
      BY <2>2 DEF TitleSeen, Sound, GamesKnown
    <3> QED BY <1>8, <1>9, <2>2, <3>1
  <2>3. CASE g = lastGame' /\ job'[w].wrote[i].game = g
             /\ job'[w].created = [job[w].created EXCEPT ![g] = t]
    BY <1>5, <1>6, <1>9, <2>3 DEF TitleSeen, Game
  <2> QED BY <1>2, <2>1, <2>2, <2>3
<1>10. GamesKnown'
  <2>1. \A v \in Worker, k \in Id : job'[v].wrote[k].game <= lastGame'
    <3>1. job'[w].wrote[i].game <= lastGame'
      <4>1. CASE job'[w].wrote[i] = NoMapping
        BY <1>6, <4>1 DEF NoMapping, NoGame
      <4>2. CASE job'[w].wrote[i] # NoMapping
        <5>1. job'[w].wrote[i] \in Mapping
          BY <1>1 DEF Job
        <5> QED BY <1>9, <4>2, <5>1 DEF Mapping
      <4> QED BY <4>1, <4>2
    <3>2. \A v \in Worker, k \in Id : job[v].wrote[k].game \in Nat /\ job[v].wrote[k].game <= lastGame
      BY <1>5 DEF Sound, GamesKnown, Mapping, NoMapping, Game, NoGame
    <3> QED BY <1>1, <1>5, <1>6, <3>1, <3>2
  <2>2. \A v \in Worker, h \in Game : job'[v].created[h] # NoTitle => h <= lastGame'
    BY <1>1, <1>5, <1>6, <1>7 DEF Sound, GamesKnown, Game
  <2>3. \A v \in Worker : job'[v].op = "related" => job'[v].game \in Game
    BY <1>1, <1>2 DEF Sound, GamesKnown
  <2>4. /\ \A h \in Game : title'[h] # NoTitle => h <= lastGame'
        /\ \A k \in Id : mapping'[k].game <= lastGame'
    <3>1. \A k \in Id : mapping[k].game \in Nat
      BY <1>5 DEF Mapping, NoMapping, Game, NoGame
    <3> QED BY <1>3, <1>5, <1>6, <3>1 DEF Sound, GamesKnown, Game
  <2> QED BY <2>1, <2>2, <2>3, <2>4 DEF GamesKnown
<1>11. MappedGamesExist'
  BY <1>3 DEF Sound, MappedGamesExist
<1>12. WrittenGamesExist'
  <2> SUFFICES ASSUME NEW v \in Worker, NEW k \in Id, job'[v].wrote[k] # NoMapping,
                      NEW h \in Game, h = job'[v].wrote[k].game
               PROVE  TitleSeen(v, h)' # NoTitle
    <3>1. \A v \in Worker, k \in Id : job'[v].wrote[k] \in Mapping
      BY <1>1 DEF Job
    <3> QED BY <3>1 DEF WrittenGamesExist, Mapping
  <2>1. CASE v = w /\ k = i
    BY <1>9, <2>1
  <2>2. CASE v = w /\ k # i
    <3>1. job[w].wrote[k] # NoMapping /\ job'[w].wrote[k] = job[w].wrote[k]
      BY <1>1, <2>2
    <3> QED BY <1>8, <2>2, <3>1 DEF Sound, WrittenGamesExist
  <2>3. CASE v # w
    BY <1>1, <1>3, <2>3 DEF Sound, WrittenGamesExist, TitleSeen
  <2> QED BY <2>1, <2>2, <2>3
<1> QED BY <1>4, <1>10, <1>11, <1>12 DEF Sound

LEMMA ResolveSound ==
  ASSUME Sound, NEW w \in Worker, NEW i \in Id, NEW t \in Names[i], NEW releases \in Related,
         Resolve(w, i, t, releases)
  PROVE  Sound'
<1>1. TypeOK /\ plan \in [Worker -> SUBSET Plan]
  BY DEF Sound, TypeOK
<1>2. UNCHANGED <<title, mapping, recall, overlapped>>
  BY <1>1, ResolveDoes
<1>3. PICK p \in Plan : ResolveOutcome(w, p)
  BY <1>1, ResolveDoes
<1>4. plan' \in [Worker -> SUBSET Plan]
  BY <1>1, <1>3 DEF ResolveOutcome
<1>5. CASE Settles(w, p) /\ \E g \in Game : Kept(w, p, g) \/ Wrote(w, p, g)
  BY <1>2, <1>4, <1>5, SettledSound
<1>6. CASE UNCHANGED <<lastGame, lastRow, job>>
  BY <1>2, <1>4, <1>6 DEF Sound, TypeOK, GamesKnown, MappedGamesExist, WrittenGamesExist,
     TitleSeen
<1> QED BY <1>3, <1>5, <1>6 DEF ResolveOutcome

LEMMA FlushSound == ASSUME Sound, NEW w \in Worker, Flush(w) PROVE Sound'
<1>1. PICK p \in plan[w] : Written(w, p)
  BY DEF Flush
<1>2. /\ p \in Plan /\ plan' \in [Worker -> SUBSET Plan] /\ TypeOK
      /\ UNCHANGED <<title, mapping, recall, overlapped>>
  BY DEF Sound, TypeOK, Flush
<1>3. Settles(w, p) /\ \E g \in Game : Wrote(w, p, g)
  BY <1>1, <1>2, WrittenDoes
<1> QED BY <1>2, <1>3, SettledSound

LEMMA AddRelatedSound == ASSUME Sound, NEW w \in Worker, AddRelated(w) PROVE Sound'
<1>1. /\ job' \in [Worker -> Job] /\ lastRow' \in 0..MaxRows
      /\ \A v \in Worker \ {w} : job'[v] = job[v]
      /\ job'[w].op = "open" /\ job'[w].created = job[w].created /\ job[w].game \in Game
      /\ \A i \in Id \ Addable(w) : job'[w].wrote[i] = job[w].wrote[i]
      /\ \A i \in Addable(w) : job'[w].wrote[i] # NoMapping /\ job'[w].wrote[i].game = job[w].game
  BY AddRelatedDoes DEF Sound
<1>2. UNCHANGED <<title, mapping, lastGame, plan, recall, overlapped>>
  BY DEF AddRelated
<1>3. TypeOK'
  BY <1>1, <1>2 DEF Sound, TypeOK
<1>4. \A v \in Worker, g \in Game : TitleSeen(v, g)' = TitleSeen(v, g)
  BY <1>1, <1>2 DEF TitleSeen
<1>5. Addable(w) = {} \/ (TitleSeen(w, job[w].game) # NoTitle /\ job[w].game <= lastGame)
  BY <1>1 DEF AddRelated, TitleSeen, Sound, GamesKnown
<1>6. \A v \in Worker, i \in Id :
        /\ job'[v].wrote[i].game <= lastGame'
        /\ job'[v].wrote[i] # NoMapping =>
             job'[v].wrote[i].game \in Game /\ TitleSeen(v, job'[v].wrote[i].game) # NoTitle
  <2> SUFFICES ASSUME NEW v \in Worker, NEW i \in Id
      PROVE  /\ job'[v].wrote[i].game <= lastGame'
             /\ job'[v].wrote[i] # NoMapping =>
                  job'[v].wrote[i].game \in Game /\ TitleSeen(v, job'[v].wrote[i].game) # NoTitle
    OBVIOUS
  <2>1. CASE v = w /\ i \in Addable(w)
    BY <1>1, <1>2, <1>5, <2>1
  <2>2. CASE v # w \/ i \notin Addable(w)
    <3>1. job'[v].wrote[i] = job[v].wrote[i] /\ job[v].wrote[i] \in Mapping
      BY <1>1, <2>2 DEF Sound, TypeOK, Job
    <3> QED BY <1>2, <3>1 DEF Sound, GamesKnown, WrittenGamesExist, Mapping
  <2> QED BY <2>1, <2>2
<1>7. GamesKnown' /\ MappedGamesExist'
  BY <1>1, <1>2, <1>6 DEF Sound, GamesKnown, MappedGamesExist
<1>8. WrittenGamesExist'
  BY <1>4, <1>6 DEF WrittenGamesExist
<1> QED BY <1>3, <1>7, <1>8 DEF Sound

(* A transaction ends; the others go on.                                   *)
LEMMA EndDoes ==
  ASSUME Sound, NEW w \in Worker, job' = [job EXCEPT ![w] = Idle], lastGame' = lastGame
  PROVE  /\ job' \in [Worker -> Job] /\ job'[w] = Idle
         /\ \A v \in Worker \ {w} : job'[v] = job[v]
         /\ \A v \in Worker :
              /\ \A g \in Game : job'[v].created[g] # NoTitle => g <= lastGame'
              /\ \A i \in Id : job'[v].wrote[i].game <= lastGame'
              /\ job'[v].op = "related" => job'[v].game \in Game
         /\ (\A g \in Game : title[g] # NoTitle => title'[g] # NoTitle) => WrittenGamesExist'
<1>1. job' \in [Worker -> Job] /\ job'[w] = Idle /\ \A v \in Worker \ {w} : job'[v] = job[v]
  BY IdleIsAJob DEF Sound, TypeOK
<1> DEFINE S == {w}
<1>2. /\ S \in SUBSET Worker
      /\ \A v \in Worker \ S : /\ job'[v].wrote = job[v].wrote /\ job'[v].created = job[v].created
                               /\ job'[v].op = job[v].op /\ job'[v].game = job[v].game
      /\ \A v \in S : /\ job'[v].wrote = Idle.wrote /\ job'[v].created = Idle.created
                      /\ job'[v].op # "related"
  BY <1>1, IdleIsAJob
<1>3. lastGame' \in Nat /\ lastGame <= lastGame'
  BY MatchingAssumption DEF Sound, TypeOK
<1> HIDE DEF S
<1>4. /\ \A v \in Worker :
           /\ \A g \in Game : job'[v].created[g] # NoTitle => g <= lastGame'
           /\ \A i \in Id : job'[v].wrote[i].game <= lastGame'
           /\ job'[v].op = "related" => job'[v].game \in Game
      /\ (\A g \in Game : title[g] # NoTitle => title'[g] # NoTitle) => WrittenGamesExist'
  BY <1>1, <1>2, <1>3, FreshJobs
<1> QED BY <1>1, <1>4

LEMMA CommitSound == ASSUME Sound, NEW w \in Worker, Commit(w) PROVE Sound'
<1>1. /\ title' = [g \in Game |-> TitleSeen(w, g)]
      /\ mapping' = [i \in Id |-> MappingSeen(w, i)]
      /\ job' = [job EXCEPT ![w] = Idle]
      /\ UNCHANGED <<lastGame, lastRow, plan, overlapped>>
  BY DEF Commit
<1>2. /\ job[w].created \in [Game -> Title \cup {NoTitle}]
      /\ job[w].wrote \in [Id -> Mapping] /\ job[w].found \in [Id -> Finding]
  BY DEF Sound, TypeOK, Job
<1>3. title' \in [Game -> Title \cup {NoTitle}] /\ mapping' \in [Id -> Mapping]
  BY <1>1, <1>2 DEF TitleSeen, MappingSeen, Sound, TypeOK
<1>4. recall' \in [Id -> Finding]
  BY <1>2 DEF Commit, Sound, TypeOK
<1>5. \A g \in Game : /\ title[g] # NoTitle => title'[g] # NoTitle
                      /\ title'[g] # NoTitle => g <= lastGame'
  BY <1>1 DEF TitleSeen, Sound, GamesKnown
<1>6. \A i \in Id : mapping'[i].game <= lastGame'
  BY <1>1 DEF MappingSeen, Sound, GamesKnown
<1>7. job' \in [Worker -> Job] /\ GamesKnown' /\ WrittenGamesExist'
  BY <1>1, <1>5, <1>6, EndDoes DEF GamesKnown
<1>8. MappedGamesExist'
  <2> SUFFICES ASSUME NEW i \in Id, mapping'[i] # NoMapping
               PROVE  title'[mapping'[i].game] # NoTitle
    BY DEF MappedGamesExist
  <2>1. mapping'[i].game \in Game
    BY <1>3 DEF Mapping
  <2>2. mapping'[i] = MappingSeen(w, i)
    BY <1>1
  <2>3. TitleSeen(w, MappingSeen(w, i).game) # NoTitle
    BY <2>2 DEF MappingSeen, TitleSeen, Sound, WrittenGamesExist, MappedGamesExist
  <2> QED BY <1>1, <2>1, <2>2, <2>3
<1> QED BY <1>1, <1>3, <1>4, <1>7, <1>8 DEF Sound, TypeOK

LEMMA FailSound == ASSUME Sound, NEW w \in Worker, Fail(w) PROVE Sound'
<1>1. UNCHANGED <<title, mapping, lastGame, lastRow, recall, overlapped>>
      /\ job' = [job EXCEPT ![w] = Idle] /\ plan' = [plan EXCEPT ![w] = {}]
  BY DEF Fail
<1>2. job' \in [Worker -> Job] /\ GamesKnown' /\ WrittenGamesExist'
  BY <1>1, EndDoes DEF GamesKnown, Sound
<1> QED BY <1>1, <1>2 DEF Sound, TypeOK, MappedGamesExist

(* create_game and update_game leave the other transactions what they have *)
(* written.                                                                *)
LEMMA EditSound ==
  ASSUME Sound, NEW g \in Game, NEW t \in Title, title' = [title EXCEPT ![g] = t],
         job' = [v \in Worker |-> [job[v] EXCEPT !.alone = FALSE]],
         lastGame' \in 0..MaxGames, lastGame <= lastGame', g <= lastGame',
         recall' \in [Id -> Finding], overlapped' \in BOOLEAN,
         UNCHANGED <<mapping, lastRow, plan>>
  PROVE  Sound'
<1>0. t # NoTitle /\ lastGame \in Nat /\ lastGame' \in Nat
  BY MatchingAssumption DEF Sound, TypeOK
<1>1. \A v \in Worker : /\ [job[v] EXCEPT !.alone = FALSE] \in Job
                        /\ [job[v] EXCEPT !.alone = FALSE].wrote = job[v].wrote
                        /\ [job[v] EXCEPT !.alone = FALSE].created = job[v].created
                        /\ [job[v] EXCEPT !.alone = FALSE].op = job[v].op
                        /\ [job[v] EXCEPT !.alone = FALSE].game = job[v].game
  BY DEF Job, Sound, TypeOK
<1> DEFINE S == {}
<1>2. /\ job' \in [Worker -> Job]
      /\ S \in SUBSET Worker
      /\ \A v \in Worker \ S : /\ job'[v].wrote = job[v].wrote /\ job'[v].created = job[v].created
                               /\ job'[v].op = job[v].op /\ job'[v].game = job[v].game
      /\ \A v \in S : /\ job'[v].wrote = Idle.wrote /\ job'[v].created = Idle.created
                      /\ job'[v].op # "related"
  BY <1>1
<1> HIDE DEF S
<1>3. /\ \A v \in Worker :
           /\ \A h \in Game : job'[v].created[h] # NoTitle => h <= lastGame'
           /\ \A i \in Id : job'[v].wrote[i].game <= lastGame'
           /\ job'[v].op = "related" => job'[v].game \in Game
      /\ (\A h \in Game : title[h] # NoTitle => title'[h] # NoTitle) => WrittenGamesExist'
  BY <1>0, <1>2, FreshJobs
<1>4. title' \in [Game -> Title \cup {NoTitle}]
      /\ \A h \in Game : /\ title[h] # NoTitle => title'[h] # NoTitle
                         /\ title'[h] # NoTitle => title[h] # NoTitle \/ h = g
  BY <1>0 DEF Sound, TypeOK
<1>5. GamesKnown'
  <2>1. \A h \in Game : title'[h] # NoTitle => h <= lastGame'
    BY <1>0, <1>4 DEF Sound, GamesKnown, Game
  <2>2. \A i \in Id : mapping'[i].game <= lastGame'
    <3>1. \A i \in Id : mapping[i].game \in Nat
      BY DEF Sound, TypeOK, Mapping, NoMapping, Game, NoGame
    <3> QED BY <1>0, <3>1 DEF Sound, GamesKnown
  <2> QED BY <1>3, <2>1, <2>2 DEF GamesKnown
<1>6. MappedGamesExist'
  <2>1. \A i \in Id : mapping[i] # NoMapping => mapping[i].game \in Game
    BY DEF Sound, TypeOK, Mapping
  <2> QED BY <1>4, <2>1 DEF Sound, MappedGamesExist
<1>7. TypeOK'
  BY <1>2, <1>4 DEF Sound, TypeOK
<1> QED BY <1>3, <1>4, <1>5, <1>6, <1>7 DEF Sound

LEMMA CommitDeleteSound == ASSUME Sound, NEW w \in Worker, CommitDelete(w) PROVE Sound'
<1> DEFINE g == job[w].game
           rows == MappedTo(g) \cup {i \in Id : mapping[i].row \in job[w].victims}
<1>1. /\ title' = [title EXCEPT ![g] = NoTitle]
      /\ mapping' = [i \in Id |-> IF i \in rows THEN NoMapping ELSE mapping[i]]
      /\ Forget(rows)
      /\ job' = [job EXCEPT ![w] = Idle]
      /\ UNCHANGED <<lastGame, lastRow, plan, overlapped>>
      /\ \A v \in Worker, i \in Id : job[v].wrote[i].game # g
  BY DEF CommitDelete
<1>2. title' \in [Game -> Title \cup {NoTitle}] /\ mapping' \in [Id -> Mapping]
  BY <1>1 DEF Sound, TypeOK, Mapping
<1>3. recall' \in [Id -> Finding]
  BY <1>1, ForgetTyped DEF Sound
<1>4. /\ job' \in [Worker -> Job] /\ job'[w] = Idle
      /\ \A v \in Worker \ {w} : job'[v] = job[v]
      /\ \A v \in Worker :
           /\ \A h \in Game : job'[v].created[h] # NoTitle => h <= lastGame'
           /\ \A i \in Id : job'[v].wrote[i].game <= lastGame'
           /\ job'[v].op = "related" => job'[v].game \in Game
  BY <1>1, EndDoes
<1>5. GamesKnown'
  <2>1. \A h \in Game : title'[h] # NoTitle => h <= lastGame'
    BY <1>1 DEF Sound, TypeOK, GamesKnown
  <2>2. \A i \in Id : mapping'[i].game <= lastGame'
    <3>1. NoMapping.game <= lastGame
      BY MatchingAssumption DEF NoMapping, NoGame, Sound, TypeOK
    <3> QED BY <1>1, <3>1 DEF Sound, GamesKnown
  <2> QED BY <1>4, <2>1, <2>2 DEF GamesKnown
<1>6. MappedGamesExist'
  <2> SUFFICES ASSUME NEW i \in Id, mapping'[i] # NoMapping
               PROVE  title'[mapping'[i].game] # NoTitle
    BY DEF MappedGamesExist
  <2>1. i \notin rows /\ mapping'[i] = mapping[i]
    BY <1>1
  <2>2. mapping[i].game # g /\ mapping[i].game \in Game
    BY <2>1, <1>2 DEF MappedTo, Mapping
  <2> QED BY <1>1, <2>1, <2>2 DEF Sound, TypeOK, MappedGamesExist
<1>7. WrittenGamesExist'
  <2> SUFFICES ASSUME NEW v \in Worker, NEW i \in Id, NEW h \in Game,
                      job'[v].wrote[i] # NoMapping, h = job'[v].wrote[i].game
               PROVE  TitleSeen(v, h)' # NoTitle
    <3>1. \A v \in Worker, i \in Id : job'[v].wrote[i] \in Mapping
      BY <1>4 DEF Job
    <3> QED BY <3>1 DEF WrittenGamesExist, Mapping
  <2>1. v # w /\ job'[v] = job[v]
    BY <1>4, IdleIsAJob
  <2>2. h # g
    BY <1>1, <2>1
  <2> QED BY <1>1, <2>1, <2>2 DEF Sound, TypeOK, WrittenGamesExist, TitleSeen
<1> QED BY <1>1, <1>2, <1>3, <1>4, <1>5, <1>6, <1>7 DEF Sound, TypeOK

LEMMA NextSound == Sound /\ [Next]_vars => Sound'
<1> SUFFICES ASSUME Sound, [Next]_vars PROVE Sound'
  OBVIOUS
<1>1. ASSUME NEW w \in Worker, BeginImport(w) PROVE Sound'
  <2> DEFINE r == [Idle EXCEPT !.op = "open"]
  <2>1. /\ r \in Job /\ r.wrote = Idle.wrote /\ r.created = Idle.created /\ r.op # "related"
    BY IdleIsAJob DEF Job
  <2>2. Begin(w, r)
    BY <1>1 DEF BeginImport
  <2> HIDE DEF r
  <2> QED BY <2>1, <2>2, BeginSound
<1>2. ASSUME NEW w \in Worker, NEW g \in Game, BeginDelete(w, g) PROVE Sound'
  <2> DEFINE r == [Idle EXCEPT !.op = "delete", !.game = g,
                               !.victims = {mapping[i].row : i \in MappedTo(g)}]
  <2>1. {mapping[i].row : i \in MappedTo(g)} \in SUBSET Nat
    BY DEF MappedTo, Sound, TypeOK, Mapping, NoMapping
  <2>2. /\ r \in Job /\ r.wrote = Idle.wrote /\ r.created = Idle.created /\ r.op # "related"
    BY <2>1, IdleIsAJob DEF Job
  <2>3. Begin(w, r)
    BY <1>2 DEF BeginDelete
  <2> HIDE DEF r
  <2> QED BY <2>2, <2>3, BeginSound
<1>3. ASSUME NEW w \in Worker, NEW t \in Edited, CreateGame(w, t) PROVE Sound'
  <2>1. t \in Title /\ lastGame \in 0..MaxGames /\ MaxGames \in Nat
    BY MatchingAssumption DEF Sound, TypeOK
  <2>2. recall' \in [Id -> Finding] /\ overlapped' \in BOOLEAN
    BY <1>3, OverlapTyped DEF CreateGame, Sound
  <2>3. /\ lastGame + 1 \in Game /\ lastGame' = lastGame + 1 /\ lastGame' \in 0..MaxGames
        /\ lastGame <= lastGame' /\ lastGame + 1 <= lastGame'
    BY <1>3, <2>1 DEF CreateGame, Game
  <2>4. /\ title' = [title EXCEPT ![lastGame + 1] = t]
        /\ job' = [v \in Worker |-> [job[v] EXCEPT !.alone = FALSE]]
        /\ UNCHANGED <<mapping, lastRow, plan>>
    BY <1>3 DEF CreateGame
  <2> QED BY <2>1, <2>2, <2>3, <2>4, EditSound
<1>4. ASSUME NEW w \in Worker, NEW g \in Game, NEW t \in Edited, UpdateGame(w, g, t) PROVE Sound'
  <2>1. t \in Title /\ lastGame \in 0..MaxGames /\ MaxGames \in Nat
    BY MatchingAssumption DEF Sound, TypeOK
  <2>2. recall' \in [Id -> Finding]
    BY <1>4, ForgetTyped DEF UpdateGame, Sound
  <2>3. overlapped' \in BOOLEAN
    BY <1>4 DEF UpdateGame
  <2>4. /\ title' = [title EXCEPT ![g] = t]
        /\ job' = [v \in Worker |-> [job[v] EXCEPT !.alone = FALSE]]
        /\ UNCHANGED <<mapping, lastRow, plan>> /\ lastGame' = lastGame
    BY <1>4 DEF UpdateGame
  <2>5. g <= lastGame' /\ lastGame' \in 0..MaxGames /\ lastGame <= lastGame'
    BY <1>4, <2>1, <2>4 DEF UpdateGame, Sound, GamesKnown
  <2> QED BY <2>1, <2>2, <2>3, <2>4, <2>5, EditSound
<1>5. CASE UNCHANGED vars
  BY <1>5 DEF vars, Sound, TypeOK, GamesKnown, MappedGamesExist, WrittenGamesExist, TitleSeen
<1> QED
  BY <1>1, <1>2, <1>3, <1>4, <1>5, ResolveSound, FlushSound, AddRelatedSound, CommitSound,
     FailSound, CommitDeleteSound DEF Next

(* A mapping never outlives its game, and no transaction writes one that   *)
(* would, however imports, renamed and deleted games overlap.              *)
THEOREM MappingsLeadToGames == Spec => [](TypeOK /\ MappedGamesExist)
<1>1. Sound => TypeOK /\ MappedGamesExist
  BY DEF Sound
<1> QED BY <1>1, InitSound, NextSound, PTL DEF Spec

-----------------------------------------------------------------------------
(* Plans: a transaction that is alone, or that nothing has overlapped,     *)
(* flushes what it would still decide.                                     *)

Apart ==
  \A v, w \in Worker : Open(v) /\ Open(w) /\ v # w => overlapped /\ job[v].alone = FALSE

PlansKnown ==
  \A w \in Worker : \A p \in plan[w] : job[w].op = "open" /\ job[w].found[p.id] = NoFinding

PlansTimely ==
  \A w \in Worker : \A p \in plan[w] : job[w].alone \/ ~overlapped => Timely(w, p)

PlanInv == Apart /\ PlansKnown /\ PlansTimely

LEMMA PlansInitially == Init => PlanInv
BY IdleIsAJob DEF Init, PlanInv, Apart, PlansKnown, PlansTimely, Open

(* A step inside a transaction: a plan of any other one is no longer bound *)
(* to be timely.                                                           *)
LEMMA PlansElsewhere ==
  ASSUME Sound, PlanInv, NEW w \in Worker, Open(w), overlapped' = overlapped,
         \A v \in Worker \ {w} : job'[v] = job[v] /\ plan'[v] = plan[v],
         job'[w].alone \in {job[w].alone, FALSE},
         \A p \in plan'[w] : /\ job'[w].op = "open" /\ job'[w].found[p.id] = NoFinding
                             /\ job'[w].alone \/ ~overlapped => Timely(w, p)'
  PROVE  PlanInv'
<1>1. \A v \in Worker \ {w} : Open(v) => overlapped /\ job[v].alone = FALSE /\ job[w].alone = FALSE
  BY DEF PlanInv, Apart
<1>2. \A v \in Worker \ {w} : Open(v)' = Open(v)
  BY DEF Open
<1>3. Apart'
  BY <1>1, <1>2 DEF Apart
<1>4. \A v \in Worker \ {w} : \A p \in plan[v] : Open(v)
  BY DEF PlanInv, PlansKnown, Open
<1>5. PlansKnown'
  <2> SUFFICES ASSUME NEW v \in Worker, NEW p \in plan'[v]
               PROVE  job'[v].op = "open" /\ job'[v].found[p.id] = NoFinding
    BY DEF PlansKnown
  <2> QED BY DEF PlanInv, PlansKnown
<1>6. PlansTimely'
  <2> SUFFICES ASSUME NEW v \in Worker, NEW p \in plan'[v], job'[v].alone \/ ~overlapped
               PROVE  Timely(v, p)'
    BY DEF PlansTimely
  <2>1. CASE v = w
    BY <2>1
  <2>2. CASE v # w
    BY <1>1, <1>4, <2>2
  <2> QED BY <2>1, <2>2
<1> QED BY <1>3, <1>5, <1>6 DEF PlanInv

(* A transaction begins, or a game is made or renamed.                     *)
LEMMA PlansOutside ==
  ASSUME Sound, PlanInv, NEW w \in Worker, job[w].op = "idle", plan' = plan,
         overlapped' = (overlapped \/ \E v \in Worker : Open(v)),
         \A v \in Worker \ {w} : /\ job'[v].op = job[v].op /\ job'[v].found = job[v].found
                                 /\ job'[v].alone = FALSE,
         (\E v \in Worker : Open(v)) => job'[w].alone = FALSE
  PROVE  PlanInv'
<1>1. \A v \in Worker \ {w} : Open(v)' = Open(v)
  BY DEF Open
<1>2. Apart'
  BY <1>1 DEF Apart
<1>3. plan[w] = {}
  BY DEF PlanInv, PlansKnown
<1>4. \A v \in Worker : \A p \in plan[v] : v # w /\ Open(v)
  BY <1>3 DEF PlanInv, PlansKnown, Open
<1>5. PlansKnown'
  <2> SUFFICES ASSUME NEW v \in Worker, NEW p \in plan[v]
               PROVE  job'[v].op = "open" /\ job'[v].found[p.id] = NoFinding
    BY DEF PlansKnown
  <2>1. v # w /\ job[v].op = "open" /\ job[v].found[p.id] = NoFinding
    BY <1>4 DEF PlanInv, PlansKnown
  <2> QED BY <2>1
<1>6. PlansTimely'
  <2> SUFFICES ASSUME NEW v \in Worker, NEW p \in plan[v], job'[v].alone \/ ~overlapped'
               PROVE  FALSE
    BY DEF PlansTimely
  <2> QED BY <1>4
<1> QED BY <1>2, <1>5, <1>6 DEF PlanInv

LEMMA TimelyUnchanged ==
  ASSUME NEW w \in Worker, NEW p, Timely(w, p), UNCHANGED <<title, mapping, job>>
  PROVE  Timely(w, p)'
<1>1. \A i : MappingSeen(w, i)' = MappingSeen(w, i)
  BY DEF MappingSeen
<1>2. \A g : TitleSeen(w, g)' = TitleSeen(w, g)
  BY DEF TitleSeen
<1>3. \A i : IsPrimary(w, i)' = IsPrimary(w, i)
  BY <1>1 DEF IsPrimary
<1>4. \A i, t : Stays(w, i, t)' = Stays(w, i, t)
  BY <1>1, <1>2, <1>3 DEF Stays
<1>5. \A i : SteamMappingConflicts(w, i)' = SteamMappingConflicts(w, i)
  BY <1>1 DEF SteamMappingConflicts
<1>6. \A i, x : Candidates(w, i, x)' = Candidates(w, i, x)
  BY <1>2, <1>5 DEF Candidates
<1>7. \A i, t, x : FindGames(w, i, t, x)' = FindGames(w, i, t, x)
  BY <1>2, <1>6 DEF FindGames
<1> QED BY <1>1, <1>4, <1>7 DEF Timely

LEMMA PlanStep == Sound /\ PlanInv /\ [Next]_vars => PlanInv'
<1> SUFFICES ASSUME Sound, PlanInv, [Next]_vars PROVE PlanInv'
  OBVIOUS
<1>0. job \in [Worker -> Job] /\ plan \in [Worker -> SUBSET Plan] /\ TypeOK
  BY DEF Sound, TypeOK
<1>1. ASSUME NEW w \in Worker, NEW record, Begin(w, record), record \in Job PROVE PlanInv'
  <2> DEFINE busy == \E v \in Worker : Open(v)
  <2>1. /\ job' = [v \in Worker |-> IF v = w THEN [record EXCEPT !.alone = ~busy]
                                   ELSE [job[v] EXCEPT !.alone = FALSE]]
        /\ job[w].op = "idle" /\ plan' = plan /\ overlapped' = (overlapped \/ busy)
    BY <1>1 DEF Begin, Overlap
  <2>2. /\ busy => job'[w].alone = FALSE
        /\ \A v \in Worker \ {w} : /\ job'[v].op = job[v].op /\ job'[v].found = job[v].found
                                    /\ job'[v].alone = FALSE
    BY <1>0, <1>1, <2>1 DEF Job
  <2> QED BY <2>1, <2>2, PlansOutside
<1>2. ASSUME NEW w \in Worker, job[w].op = "idle", plan' = plan,
             overlapped' = (overlapped \/ \E v \in Worker : Open(v)),
             job' = [v \in Worker |-> [job[v] EXCEPT !.alone = FALSE]]
      PROVE  PlanInv'
  <2>1. \A v \in Worker : /\ job'[v].op = job[v].op /\ job'[v].found = job[v].found
                          /\ job'[v].alone = FALSE
    BY <1>0, <1>2 DEF Job
  <2> QED BY <1>2, <2>1, PlansOutside
<1>3. ASSUME NEW w \in Worker, NEW i \in Id, NEW t \in Names[i], NEW releases \in Related,
             Resolve(w, i, t, releases)
      PROVE  PlanInv'
  <2>1. /\ job[w].op = "open" /\ plan[w] = {}
        /\ UNCHANGED <<title, mapping, recall, overlapped>>
    BY <1>0, <1>3, ResolveDoes
  <2>2. PICK p \in Plan : job[w].found[p.id] = NoFinding /\ ResolveOutcome(w, p)
    BY <1>0, <1>3, ResolveDoes
  <2>3. CASE Settles(w, p) /\ UNCHANGED plan
    <3>1. job'[w].alone = job[w].alone /\ \A v \in Worker \ {w} : job'[v] = job[v]
      BY <2>3 DEF Settles
    <3> QED BY <2>1, <2>3, <3>1, PlansElsewhere DEF Open
  <2>4. CASE Timely(w, p) /\ plan' = [plan EXCEPT ![w] = {p}]
             /\ UNCHANGED <<lastGame, lastRow, job>>
    <3>1. plan'[w] = {p} /\ \A v \in Worker \ {w} : plan'[v] = plan[v]
      BY <1>0, <2>4
    <3>2. Timely(w, p)'
      BY <2>1, <2>4, TimelyUnchanged
    <3> QED BY <2>1, <2>2, <2>4, <3>1, <3>2, PlansElsewhere DEF Open
  <2> QED BY <2>2, <2>3, <2>4 DEF ResolveOutcome
<1>4. ASSUME NEW w \in Worker, Flush(w) PROVE PlanInv'
  <2>1. PICK p \in plan[w] : Written(w, p)
    BY <1>4 DEF Flush
  <2>2. /\ p \in Plan /\ overlapped' = overlapped
        /\ plan'[w] = {} /\ \A v \in Worker \ {w} : plan'[v] = plan[v]
    BY <1>0, <1>4 DEF Flush
  <2>3. Settles(w, p)
    BY <1>0, <2>1, <2>2, WrittenDoes
  <2>4. job'[w].alone = job[w].alone /\ \A v \in Worker \ {w} : job'[v] = job[v]
    BY <2>3 DEF Settles
  <2>5. Open(w)
    BY DEF PlanInv, PlansKnown, Open
  <2> QED BY <2>2, <2>4, <2>5, PlansElsewhere
<1>5. ASSUME NEW w \in Worker, AddRelated(w) PROVE PlanInv'
  <2>1. /\ job[w].op = "related" /\ job'[w].alone = job[w].alone
        /\ \A v \in Worker \ {w} : job'[v] = job[v]
    BY <1>5, AddRelatedDoes DEF Sound
  <2>2. plan' = plan /\ overlapped' = overlapped
    BY <1>5 DEF AddRelated
  <2>3. plan[w] = {}
    BY <2>1 DEF PlanInv, PlansKnown
  <2> QED BY <2>1, <2>2, <2>3, PlansElsewhere DEF Open
<1>6. ASSUME NEW w \in Worker, Commit(w) \/ Fail(w) \/ CommitDelete(w) PROVE PlanInv'
  <2>1. job' = [job EXCEPT ![w] = Idle] /\ Open(w) /\ overlapped' = overlapped
    BY <1>6 DEF Commit, Fail, CommitDelete, Open
  <2>2. job'[w].alone = FALSE /\ \A v \in Worker \ {w} : job'[v] = job[v]
    BY <1>0, <2>1, IdleIsAJob
  <2>3. plan'[w] = {} /\ \A v \in Worker \ {w} : plan'[v] = plan[v]
    <3>1. CASE Fail(w)
      BY <1>0, <3>1 DEF Fail
    <3>2. CASE Commit(w)
      BY <3>2 DEF Commit
    <3>3. CASE CommitDelete(w)
      BY <3>3 DEF CommitDelete, PlanInv, PlansKnown
    <3> QED BY <1>6, <3>1, <3>2, <3>3
  <2> QED BY <2>1, <2>2, <2>3, PlansElsewhere
<1>7. ASSUME NEW w \in Worker, BeginImport(w) PROVE PlanInv'
  <2> DEFINE r == [Idle EXCEPT !.op = "open"]
  <2>1. r \in Job
    BY IdleIsAJob DEF Job
  <2> QED BY <1>1, <1>7, <2>1 DEF BeginImport
<1>8. ASSUME NEW w \in Worker, NEW g \in Game, BeginDelete(w, g) PROVE PlanInv'
  <2> DEFINE r == [Idle EXCEPT !.op = "delete", !.game = g,
                               !.victims = {mapping[i].row : i \in MappedTo(g)}]
  <2>1. {mapping[i].row : i \in MappedTo(g)} \in SUBSET Nat
    BY DEF MappedTo, Sound, TypeOK, Mapping, NoMapping
  <2>2. r \in Job
    BY <2>1, IdleIsAJob DEF Job
  <2>3. Begin(w, r)
    BY <1>8 DEF BeginDelete
  <2> HIDE DEF r
  <2> QED BY <1>1, <2>2, <2>3
<1>9. ASSUME NEW w \in Worker, NEW t \in Edited,
             CreateGame(w, t) \/ \E g \in Game : UpdateGame(w, g, t)
      PROVE  PlanInv'
  BY <1>2, <1>9 DEF CreateGame, UpdateGame, Overlap
<1>10. CASE UNCHANGED vars
  <2>1. \A w \in Worker : \A p \in plan[w] : Timely(w, p) => Timely(w, p)'
    BY <1>10, TimelyUnchanged DEF vars
  <2> QED BY <1>10, <2>1 DEF vars, PlanInv, Apart, PlansKnown, PlansTimely, Open
<1> QED BY <1>3, <1>4, <1>5, <1>6, <1>7, <1>8, <1>9, <1>10 DEF Next

-----------------------------------------------------------------------------
(* What a lone import leaves, and what holds while no two transactions     *)
(* overlap.                                                                *)

(* A timely step moves no other id; it moves its own, if at all, to a game *)
(* that no other Steam app has.                                            *)
TimelyStep(w, p, g) ==
  /\ Settles(w, p)
  /\ Kept(w, p, g) \/ (Wrote(w, p, g) /\ Timely(w, p))
  /\ UNCHANGED <<title, mapping, recall, overlapped>>

SeenSettled(w, i, t, g) ==
  /\ \A k \in Id \ {i} : MappingSeen(w, k)' = MappingSeen(w, k)
  /\ MappingSeen(w, i)' # NoMapping /\ MappingSeen(w, i)'.game = g
  /\ job'[w].found[i] = [title |-> t, game |-> g]
  /\ \A h \in Game : h <= lastGame => TitleSeen(w, h)' = TitleSeen(w, h)
  /\ Compatible(TitleSeen(w, g)', t)
  /\ \A h \in Game : job'[w].created[h] # NoTitle =>
        job[w].created[h] # NoTitle \/ title[h] = NoTitle
  /\ \/ Stays(w, i, t) /\ MappingSeen(w, i)' = MappingSeen(w, i)
     \/ /\ ~Stays(w, i, t)
        /\ i \in SteamId => \A s \in SteamId \ {i} : MappingSeen(w, s).game # g

LEMMA SettledSeen ==
  ASSUME Sound, NEW w \in Worker, NEW p \in Plan, NEW g \in Game, TimelyStep(w, p, g)
  PROVE  SeenSettled(w, p.id, p.title, g)
<1>0. PICK i \in Id, t \in Title : i = p.id /\ t = p.title
  BY DEF Plan
<1>1. /\ job[w] \in Job /\ job' \in [Worker -> Job] /\ lastGame \in Nat
      /\ \A k \in Id \ {i} : job'[w].wrote[k] = job[w].wrote[k]
      /\ UNCHANGED <<title, mapping>>
      /\ t # NoTitle
  BY <1>0, MatchingAssumption DEF TimelyStep, Settles, Sound, TypeOK
<1>2. /\ job'[w].found[i] = [title |-> t, game |-> g]
      /\ \/ /\ Stays(w, i, t) /\ g = MappingSeen(w, i).game
            /\ job'[w].wrote = job[w].wrote /\ job'[w].created = job[w].created
         \/ /\ ~Stays(w, i, t) /\ job'[w].wrote[i].game = g /\ job'[w].wrote[i] # NoMapping
            /\ \/ /\ g \in FindGames(w, i, t, MappingSeen(w, i).game)
                  /\ job'[w].created = job[w].created
               \/ /\ g = lastGame + 1
                  /\ job'[w].created = [job[w].created EXCEPT ![g] = t]
  BY <1>0 DEF TimelyStep, Kept, Wrote, SettledAs, Timely
<1>3. \A k \in Id \ {i} : MappingSeen(w, k)' = MappingSeen(w, k)
  BY <1>1 DEF MappingSeen
<1>4. job'[w].found[i] = [title |-> t, game |-> g]
  BY <1>2
<1>5. \A s \in SteamId : MappingSeen(w, s).game <= lastGame
  BY DEF MappingSeen, Sound, GamesKnown, Id
<1>6. CASE /\ Stays(w, i, t) /\ g = MappingSeen(w, i).game
           /\ job'[w].wrote = job[w].wrote /\ job'[w].created = job[w].created
  <2>1. MappingSeen(w, i)' = MappingSeen(w, i) /\ \A h \in Game : TitleSeen(w, h)' = TitleSeen(w, h)
    BY <1>1, <1>6 DEF MappingSeen, TitleSeen
  <2>2. MappingSeen(w, i) # NoMapping /\ Compatible(TitleSeen(w, g), t)
    BY <1>6 DEF Stays
  <2> QED BY <1>0, <1>3, <1>4, <1>6, <2>1, <2>2 DEF SeenSettled
<1>7. ASSUME ~Stays(w, i, t), job'[w].wrote[i].game = g, job'[w].wrote[i] # NoMapping
      PROVE  MappingSeen(w, i)' # NoMapping /\ MappingSeen(w, i)'.game = g
  BY <1>7 DEF MappingSeen
<1>8. CASE /\ ~Stays(w, i, t) /\ job'[w].wrote[i].game = g /\ job'[w].wrote[i] # NoMapping
           /\ g \in FindGames(w, i, t, MappingSeen(w, i).game)
           /\ job'[w].created = job[w].created
  <2>1. \A h \in Game : TitleSeen(w, h)' = TitleSeen(w, h)
    BY <1>1, <1>8 DEF TitleSeen
  <2>2. Compatible(TitleSeen(w, g), t)
    BY <1>8 DEF FindGames, Candidates, Compatible, Game, NoGame
  <2>3. i \in SteamId => \A s \in SteamId \ {i} : MappingSeen(w, s).game # g
    BY <1>8 DEF FindGames, Candidates, SteamMappingConflicts, Game, NoGame
  <2> QED BY <1>0, <1>3, <1>4, <1>7, <1>8, <2>1, <2>2, <2>3 DEF SeenSettled
<1>9. CASE /\ ~Stays(w, i, t) /\ job'[w].wrote[i].game = g /\ job'[w].wrote[i] # NoMapping
           /\ g = lastGame + 1
           /\ job'[w].created = [job[w].created EXCEPT ![g] = t]
  <2>0. job[w].created \in [Game -> Title \cup {NoTitle}]
    BY <1>1 DEF Job
  <2>1. \A h \in Game : h <= lastGame => TitleSeen(w, h)' = TitleSeen(w, h)
    BY <1>1, <1>9, <2>0 DEF TitleSeen
  <2>2. TitleSeen(w, g)' = t
    BY <1>1, <1>9, <2>0 DEF TitleSeen
  <2>3. \A s \in SteamId \ {i} : MappingSeen(w, s).game # g
    BY <1>1, <1>5, <1>9
  <2>4. \A h \in Game : job'[w].created[h] # NoTitle => job[w].created[h] # NoTitle \/ title[h] = NoTitle
    BY <1>1, <1>9, <2>0 DEF Sound, GamesKnown
  <2> QED BY <1>0, <1>3, <1>4, <1>7, <1>9, <2>1, <2>2, <2>3, <2>4 DEF Compatible, SeenSettled
<1> QED BY <1>2, <1>6, <1>8, <1>9

LEMMA TwoInASet ==
  ASSUME NEW S, IsFiniteSet(S), NEW a \in S, NEW b \in S, a # b PROVE Cardinality(S) > 1
<1>1. IsFiniteSet({a}) /\ Cardinality({a}) = 1
  BY FS_Singleton
<1>2. Cardinality({a} \cup {b}) = 2
  BY <1>1, FS_AddElement
<1>3. ({a} \cup {b}) \subseteq S
  OBVIOUS
<1>4. Cardinality({a} \cup {b}) <= Cardinality(S) /\ Cardinality(S) \in Nat
  BY <1>3, FS_Subset, FS_CardinalityType
<1> QED BY <1>2, <1>4

(* AddRelated gives a Steam app only to a game that has none.              *)
LEMMA AddRelatedSeen ==
  ASSUME Sound, NEW w \in Worker, AddRelated(w)
  PROVE  /\ \A k \in Id : MappingSeen(w, k) # NoMapping => MappingSeen(w, k)' = MappingSeen(w, k)
         /\ \A s, t \in SteamId :
              /\ MappingSeen(w, s)' # MappingSeen(w, s)
              /\ MappingSeen(w, t)' # NoMapping
              /\ MappingSeen(w, s)'.game = MappingSeen(w, t)'.game
              => s = t
         /\ \A h \in Game : TitleSeen(w, h)' = TitleSeen(w, h)
<1>1. /\ job[w].game \in Game /\ job' \in [Worker -> Job] /\ job[w] \in Job
      /\ \A i \in Id \ Addable(w) : job'[w].wrote[i] = job[w].wrote[i]
      /\ \A i \in Addable(w) : job'[w].wrote[i] # NoMapping /\ job'[w].wrote[i].game = job[w].game
      /\ UNCHANGED <<title, mapping>>
      /\ job'[w].created = job[w].created
  BY AddRelatedDoes DEF AddRelated, Sound, TypeOK
<1>2. \A k \in Addable(w) : /\ k \in Id /\ MappingSeen(w, k) = NoMapping
                            /\ MappingSeen(w, k)' # NoMapping /\ MappingSeen(w, k)'.game = job[w].game
  BY <1>1 DEF Addable, MappingSeen, Job
<1>3. \A k \in Id \ Addable(w) : MappingSeen(w, k)' = MappingSeen(w, k)
  BY <1>1 DEF MappingSeen
<1>4. ASSUME NEW s \in SteamId, NEW t \in SteamId, MappingSeen(w, s)' # MappingSeen(w, s),
             MappingSeen(w, t)' # NoMapping, MappingSeen(w, s)'.game = MappingSeen(w, t)'.game
      PROVE  s = t
  <2>1. s \in Addable(w)
    BY <1>3, <1>4 DEF Id
  <2>2. SteamIdsOf(w, job[w].game) = {}
    <3>1. s \notin SteamIdsOf(w, job[w].game)
      BY <1>1, <1>2, <2>1 DEF SteamIdsOf, NoMapping, NoGame, Game
    <3> QED BY <2>1, <3>1 DEF Addable
  <2>3. t \in Addable(w)
    <3> SUFFICES ASSUME t \notin Addable(w) PROVE FALSE
      OBVIOUS
    <3>1. MappingSeen(w, t).game = job[w].game
      BY <1>2, <1>3, <1>4, <2>1 DEF Id
    <3> QED BY <2>2, <3>1 DEF SteamIdsOf
  <2>4. Cardinality(job[w].related \cap SteamId) <= 1
    <3>1. ~(Cardinality(job[w].related \cap SteamId) > 1)
      BY <2>1, <2>2 DEF Addable
    <3>2. IsFiniteSet(job[w].related \cap SteamId)
      BY MatchingAssumption, FS_Subset
    <3> QED BY <3>1, <3>2, FS_CardinalityType
  <2>5. s \in job[w].related \cap SteamId /\ t \in job[w].related \cap SteamId
    BY <2>1, <2>3 DEF Addable
  <2>6. IsFiniteSet(job[w].related \cap SteamId)
    BY MatchingAssumption, FS_Subset
  <2>7. s # t => Cardinality(job[w].related \cap SteamId) > 1
    BY <2>5, <2>6, TwoInASet
  <2>8. Cardinality(job[w].related \cap SteamId) \in Nat
    BY <2>6, FS_CardinalityType
  <2> QED BY <2>4, <2>7, <2>8
<1>5. \A h \in Game : TitleSeen(w, h)' = TitleSeen(w, h)
  BY <1>1 DEF TitleSeen
<1> QED BY <1>2, <1>3, <1>4, <1>5

(* A transaction that is alone and what it has resolved: no other Steam    *)
(* app of the game has an older mapping.                                   *)
LoneInv ==
  \A w \in Worker : job[w].alone =>
    /\ \A v \in Worker \ {w} : ~Open(v)
    /\ \A i \in SteamId : job[w].found[i] # NoFinding =>
         MappingSeen(w, i) # NoMapping /\ IsPrimary(w, i)

LEMMA LoneInitially == Init => LoneInv
BY IdleIsAJob DEF Init, LoneInv

LEMMA NobodyAlone == ASSUME \A v \in Worker : job'[v].alone = FALSE PROVE LoneInv'
BY DEF LoneInv

LEMMA SettledLone ==
  ASSUME Sound, LoneInv, NEW w \in Worker, NEW p \in Plan, NEW g \in Game, Open(w),
         Settles(w, p), UNCHANGED mapping,
         job[w].alone => SeenSettled(w, p.id, p.title, g)
  PROVE  LoneInv'
<1>0. PICK i \in Id, t \in Title : i = p.id /\ t = p.title
  BY DEF Plan
<1>1. /\ job' \in [Worker -> Job] /\ \A v \in Worker \ {w} : job'[v] = job[v]
      /\ job'[w].alone = job[w].alone
      /\ \A k \in Id \ {i} : job'[w].found[k] = job[w].found[k]
  BY <1>0 DEF Settles
<1>2. job[w].alone =>
         /\ \A k \in Id \ {i} : MappingSeen(w, k)' = MappingSeen(w, k)
         /\ MappingSeen(w, i)' # NoMapping /\ MappingSeen(w, i)'.game = g
         /\ \/ Stays(w, i, t) /\ MappingSeen(w, i)' = MappingSeen(w, i)
            \/ /\ ~Stays(w, i, t)
               /\ i \in SteamId => \A s \in SteamId \ {i} : MappingSeen(w, s).game # g
  BY <1>0 DEF SeenSettled
<1> SUFFICES ASSUME NEW v \in Worker, job'[v].alone
             PROVE  /\ \A u \in Worker \ {v} : job'[u].op = "idle"
                    /\ \A k \in SteamId : job'[v].found[k] # NoFinding =>
                         MappingSeen(v, k)' # NoMapping /\ IsPrimary(v, k)'
  BY DEF LoneInv, Open
<1>3. v = w /\ job[w].alone
  BY <1>1 DEF LoneInv, Open
<1>4. ASSUME NEW k \in SteamId, job'[v].found[k] # NoFinding
      PROVE  MappingSeen(w, k)' # NoMapping /\ IsPrimary(w, k)'
  <2>1. MappingSeen(w, k)' # NoMapping
    BY <1>1, <1>2, <1>3, <1>4 DEF LoneInv, Id
  <2>2. ASSUME NEW s \in SteamId, MappingSeen(w, s)'.game = MappingSeen(w, k)'.game
        PROVE  MappingSeen(w, k)'.row <= MappingSeen(w, s)'.row
    <3>0. \A h \in Id : MappingSeen(w, h)'.row \in Nat
      <4>1. mapping' = mapping
        OBVIOUS
      <4>2. \A h \in Id : mapping'[h] \in Mapping /\ job'[w].wrote[h] \in Mapping
        BY <1>1, <4>1 DEF Sound, TypeOK, Job
      <4>3. \A h \in Id : MappingSeen(w, h)' \in Mapping
        BY <4>2 DEF MappingSeen
      <4> QED BY <4>3 DEF Mapping, NoMapping
    <3>1. CASE s = k
      BY <3>0, <3>1 DEF Id
    <3>2. CASE s # k /\ k = i
      <4>1. MappingSeen(w, s).game = g
        BY <1>2, <1>3, <2>2, <3>2 DEF Id
      <4>2. Stays(w, i, t) /\ MappingSeen(w, i)' = MappingSeen(w, i)
        BY <1>2, <1>3, <3>2, <4>1
      <4> QED BY <1>2, <1>3, <2>2, <3>2, <4>2 DEF Stays, IsPrimary, Id
    <3>3. CASE s # k /\ s = i
      <4>1. MappingSeen(w, k).game = g
        BY <1>2, <1>3, <2>2, <3>3 DEF Id
      <4>2. MappingSeen(w, i)' = MappingSeen(w, i)
        BY <1>2, <1>3, <3>3, <4>1
      <4> QED BY <1>1, <1>2, <1>3, <1>4, <2>2, <3>3, <4>2 DEF LoneInv, IsPrimary, Id
    <3>4. CASE s # i /\ k # i
      BY <1>1, <1>2, <1>3, <1>4, <2>2, <3>4 DEF LoneInv, IsPrimary, Id
    <3> QED BY <3>1, <3>2, <3>3, <3>4
  <2> QED BY <2>1, <2>2 DEF IsPrimary
<1>5. \A u \in Worker \ {w} : job'[u].op = "idle"
  BY <1>1, <1>3 DEF LoneInv, Open
<1> QED BY <1>3, <1>4, <1>5

LEMMA LoneStep == Sound /\ PlanInv /\ LoneInv /\ [Next]_vars => LoneInv'
<1> SUFFICES ASSUME Sound, PlanInv, LoneInv, [Next]_vars PROVE LoneInv'
  OBVIOUS
<1>0. job \in [Worker -> Job] /\ plan \in [Worker -> SUBSET Plan] /\ TypeOK
  BY DEF Sound, TypeOK
<1>1. ASSUME NEW w \in Worker, NEW record, Begin(w, record), record \in Job,
             \A i \in Id : record.found[i] = NoFinding
      PROVE  LoneInv'
  <2> DEFINE busy == \E v \in Worker : Open(v)
  <2>1. job' = [v \in Worker |-> IF v = w THEN [record EXCEPT !.alone = ~busy]
                                ELSE [job[v] EXCEPT !.alone = FALSE]]
    BY <1>1 DEF Begin
  <2>2. /\ job'[w].alone = ~busy /\ job'[w].found = record.found
        /\ \A v \in Worker \ {w} : job'[v].alone = FALSE /\ job'[v].op = job[v].op
    BY <1>0, <1>1, <2>1 DEF Job
  <2>3. ~busy => \A v \in Worker \ {w} : job'[v].op = "idle"
    BY <2>2 DEF Open
  <2> QED BY <1>1, <2>2, <2>3 DEF LoneInv, Open, Id
<1>2. ASSUME NEW w \in Worker, NEW i \in Id, NEW t \in Names[i], NEW releases \in Related,
             Resolve(w, i, t, releases)
      PROVE  LoneInv'
  <2>1. job[w].op = "open" /\ UNCHANGED <<title, mapping, recall, overlapped>>
    BY <1>0, <1>2, ResolveDoes
  <2>2. PICK p \in Plan : ResolveOutcome(w, p)
    BY <1>0, <1>2, ResolveDoes
  <2>3. CASE \E g \in Game : TimelyStep(w, p, g)
    <3>1. PICK g \in Game : TimelyStep(w, p, g)
      BY <2>3
    <3>2. Settles(w, p) /\ SeenSettled(w, p.id, p.title, g)
      BY <3>1, SettledSeen DEF TimelyStep
    <3> QED BY <2>1, <3>2, SettledLone DEF Open
  <2>4. CASE UNCHANGED job
    BY <2>1, <2>4 DEF LoneInv, Open, MappingSeen, IsPrimary
  <2> QED BY <2>1, <2>2, <2>3, <2>4 DEF ResolveOutcome, TimelyStep
<1>10. ASSUME NEW w \in Worker, Flush(w) PROVE LoneInv'
  <2>1. PICK p \in plan[w] : Written(w, p)
    BY <1>10 DEF Flush
  <2>2. /\ p \in Plan /\ Open(w) /\ UNCHANGED <<title, mapping, recall, overlapped>>
        /\ job[w].alone => Timely(w, p)
    BY <1>0, <1>10 DEF Flush, PlanInv, PlansKnown, PlansTimely, Open
  <2>3. PICK g \in Game : Settles(w, p) /\ Wrote(w, p, g)
    BY <1>0, <2>1, <2>2, WrittenDoes
  <2>4. job[w].alone => SeenSettled(w, p.id, p.title, g)
    BY <2>2, <2>3, SettledSeen DEF TimelyStep
  <2> QED BY <2>2, <2>3, <2>4, SettledLone
<1>3. ASSUME NEW w \in Worker, AddRelated(w) PROVE LoneInv'
  <2>1. /\ job' \in [Worker -> Job] /\ \A v \in Worker \ {w} : job'[v] = job[v]
        /\ job[w].op = "related" /\ job'[w].alone = job[w].alone
        /\ job'[w].found = job[w].found
    BY <1>3, AddRelatedDoes DEF Sound
  <2>2. /\ \A k \in Id : MappingSeen(w, k) # NoMapping => MappingSeen(w, k)' = MappingSeen(w, k)
        /\ \A s, t \in SteamId :
              /\ MappingSeen(w, s)' # MappingSeen(w, s)
              /\ MappingSeen(w, t)' # NoMapping
              /\ MappingSeen(w, s)'.game = MappingSeen(w, t)'.game
              => s = t
    BY <1>3, AddRelatedSeen
  <2> SUFFICES ASSUME NEW v \in Worker, job'[v].alone
               PROVE  /\ \A u \in Worker \ {v} : job'[u].op = "idle"
                      /\ \A k \in SteamId : job'[v].found[k] # NoFinding =>
                           MappingSeen(v, k)' # NoMapping /\ IsPrimary(v, k)'
    BY DEF LoneInv, Open
  <2>3. v = w /\ job[w].alone
    BY <2>1 DEF LoneInv, Open
  <2>4. ASSUME NEW k \in SteamId, job'[v].found[k] # NoFinding
        PROVE  MappingSeen(w, k)' # NoMapping /\ IsPrimary(w, k)'
    <3>1. /\ MappingSeen(w, k) # NoMapping /\ IsPrimary(w, k)
          /\ MappingSeen(w, k)' = MappingSeen(w, k)
      BY <2>1, <2>2, <2>3, <2>4 DEF LoneInv, Id
    <3>2. ASSUME NEW s \in SteamId, MappingSeen(w, s)'.game = MappingSeen(w, k)'.game
          PROVE  MappingSeen(w, k)'.row <= MappingSeen(w, s)'.row
      <4>1. MappingSeen(w, s)' = MappingSeen(w, s) \/ s = k
        BY <2>2, <3>1, <3>2
      <4>2. MappingSeen(w, s)' = MappingSeen(w, s)
        BY <3>1, <4>1
      <4> QED BY <3>1, <3>2, <4>2 DEF IsPrimary
    <3> QED BY <3>1, <3>2 DEF IsPrimary
  <2>5. \A u \in Worker \ {w} : job'[u].op = "idle"
    BY <2>1, <2>3 DEF LoneInv, Open
  <2> QED BY <2>3, <2>4, <2>5
<1>4. ASSUME NEW w \in Worker, Commit(w) \/ Fail(w) \/ CommitDelete(w) PROVE LoneInv'
  <2>1. job' = [job EXCEPT ![w] = Idle] /\ Open(w)
    BY <1>4 DEF Commit, Fail, CommitDelete, Open
  <2>2. \A v \in Worker : job'[v].alone = FALSE
    <3>1. \A v \in Worker \ {w} : job'[v] = job[v] /\ ~job[v].alone /\ job[v].alone \in BOOLEAN
      BY <1>0, <2>1 DEF LoneInv, Job
    <3> QED BY <1>0, <2>1, <3>1, IdleIsAJob
  <2> QED BY <2>2, NobodyAlone
<1>5. ASSUME job' = [v \in Worker |-> [job[v] EXCEPT !.alone = FALSE]] PROVE LoneInv'
  <2>1. \A v \in Worker : job'[v].alone = FALSE
    BY <1>0, <1>5 DEF Job
  <2> QED BY <2>1, NobodyAlone
<1>6. CASE UNCHANGED vars
  BY <1>6 DEF vars, LoneInv, Open, MappingSeen, IsPrimary
<1>7. ASSUME NEW w \in Worker, BeginImport(w) PROVE LoneInv'
  <2> DEFINE r == [Idle EXCEPT !.op = "open"]
  <2>1. r \in Job /\ \A i \in Id : r.found[i] = NoFinding
    BY IdleIsAJob DEF Job
  <2> QED BY <1>1, <1>7, <2>1 DEF BeginImport
<1>8. ASSUME NEW w \in Worker, NEW g \in Game, BeginDelete(w, g) PROVE LoneInv'
  <2> DEFINE r == [Idle EXCEPT !.op = "delete", !.game = g,
                               !.victims = {mapping[i].row : i \in MappedTo(g)}]
  <2>1. {mapping[i].row : i \in MappedTo(g)} \in SUBSET Nat
    BY DEF MappedTo, Sound, TypeOK, Mapping, NoMapping
  <2>2. r \in Job /\ \A i \in Id : r.found[i] = NoFinding
    BY <2>1, IdleIsAJob DEF Job
  <2>3. Begin(w, r)
    BY <1>8 DEF BeginDelete
  <2> HIDE DEF r
  <2> QED BY <1>1, <2>2, <2>3
<1>9. ASSUME NEW w \in Worker, NEW t \in Edited,
             CreateGame(w, t) \/ \E g \in Game : UpdateGame(w, g, t)
      PROVE  LoneInv'
  BY <1>5, <1>9 DEF CreateGame, UpdateGame
<1> QED BY <1>2, <1>3, <1>4, <1>6, <1>7, <1>8, <1>9, <1>10 DEF Next

(* Whatever overlaps have left behind, an import that ran alone leaves     *)
(* each Steam app it resolved on a game whose other Steam apps, if any,    *)
(* have younger mappings.                                                  *)
THEOREM LoneImportsHeal == Spec => LoneImportHeals
<1>1. ASSUME LoneInv, [Next]_vars,
             NEW w \in Worker, NEW i \in SteamId, Commit(w), job[w].alone,
             job[w].found[i] # NoFinding, NEW s \in SteamId, mapping'[s].game = mapping'[i].game
      PROVE  mapping'[i].row <= mapping'[s].row
  <2>1. IsPrimary(w, i)
    BY <1>1 DEF LoneInv
  <2>2. mapping'[i] = MappingSeen(w, i) /\ mapping'[s] = MappingSeen(w, s)
    BY <1>1 DEF Commit, Id
  <2> QED BY <1>1, <2>1, <2>2 DEF IsPrimary
<1>2. LoneInv /\ [Next]_vars =>
        [\A w \in Worker, i \in SteamId :
           Commit(w) /\ job[w].alone /\ job[w].found[i] # NoFinding =>
             \A s \in SteamId : mapping'[s].game = mapping'[i].game
                                => mapping'[i].row <= mapping'[s].row]_vars
  BY <1>1
<1> QED
  BY <1>2, InitSound, NextSound, PlansInitially, PlanStep, LoneInitially, LoneStep, PTL
  DEF Spec, LoneImportHeals

-----------------------------------------------------------------------------
(* As long as no two transactions have overlapped.                         *)

OneOpen == \A v, w \in Worker : Open(v) /\ Open(w) => v = w

(* What was found last is what the mapping says, and the titles still fit. *)
RecallHolds(i) ==
  recall[i] # NoFinding =>
    /\ mapping[i] # NoMapping /\ mapping[i].game = recall[i].game
    /\ Compatible(title[recall[i].game], recall[i].title)

(* What the transaction has found so far, likewise.                        *)
FindingHolds(w, i) ==
  /\ job[w].found[i] = NoFinding /\ recall[i] # NoFinding => MappingSeen(w, i) = mapping[i]
  /\ job[w].found[i] # NoFinding =>
       /\ MappingSeen(w, i) # NoMapping /\ MappingSeen(w, i).game = job[w].found[i].game
       /\ Compatible(TitleSeen(w, job[w].found[i].game), job[w].found[i].title)
       /\ recall[i].title = job[w].found[i].title => recall[i].game = job[w].found[i].game

OneAppSeen(w) ==
  \A s, t \in SteamId :
    MappingSeen(w, s) # NoMapping /\ MappingSeen(w, s).game = MappingSeen(w, t).game => s = t

FreshGames(w) == \A g \in Game : job[w].created[g] # NoTitle => title[g] = NoTitle

ImportHolds(w) ==
  job[w].op \in {"open", "related"} =>
    OneAppSeen(w) /\ FreshGames(w) /\ \A i \in Id : FindingHolds(w, i)

TablesHold == OneSteamAppPerGame /\ \A i \in Id : RecallHolds(i)

SerialInv == ~overlapped => OneOpen /\ TablesHold /\ \A w \in Worker : ImportHolds(w)

LEMMA SerialInitially == Init => SerialInv
<1> SUFFICES ASSUME Init PROVE SerialInv
  OBVIOUS
<1>1. \A w \in Worker : job[w].op = "idle"
  BY IdleIsAJob DEF Init
<1>2. OneOpen /\ \A w \in Worker : ImportHolds(w)
  BY <1>1 DEF OneOpen, Open, ImportHolds
<1>3. TablesHold
  BY DEF Init, TablesHold, OneSteamAppPerGame, RecallHolds, Id
<1> QED BY <1>2, <1>3 DEF SerialInv

(* The one transaction that is open takes a step of its own.               *)
LEMMA OwnStep ==
  ASSUME Sound, SerialInv, NEW w \in Worker, Open(w), ~overlapped,
         \A v \in Worker \ {w} : job'[v] = job[v], TablesHold', ImportHolds(w)'
  PROVE  SerialInv'
<1>1. \A v \in Worker \ {w} : job[v].op = "idle" /\ job'[v].op = "idle"
  BY DEF SerialInv, OneOpen, Open
<1>2. OneOpen'
  BY <1>1 DEF OneOpen, Open
<1>3. \A v \in Worker \ {w} : ImportHolds(v)'
  BY <1>1 DEF ImportHolds
<1> QED BY <1>2, <1>3 DEF SerialInv

LEMMA TablesUnchanged ==
  ASSUME TablesHold, UNCHANGED <<title, mapping, recall>> PROVE TablesHold'
BY DEF TablesHold, OneSteamAppPerGame, RecallHolds

LEMMA SettledSerial ==
  ASSUME Sound, SerialInv, ~overlapped, NEW w \in Worker, NEW p \in Plan, NEW g \in Game,
         job[w].op = "open", job[w].found[p.id] = NoFinding, TimelyStep(w, p, g)
  PROVE  SerialInv'
<1>0. PICK i \in Id, t \in Title : i = p.id /\ t = p.title
  BY DEF Plan
<1>1. /\ job' \in [Worker -> Job] /\ \A v \in Worker \ {w} : job'[v] = job[v]
      /\ job[w].op = "open" /\ job[w].found[i] = NoFinding
      /\ \A k \in Id \ {i} : job'[w].found[k] = job[w].found[k]
  BY <1>0 DEF TimelyStep, Settles
<1>2. UNCHANGED <<title, mapping, recall, overlapped>>
  BY DEF TimelyStep
<1>3. /\ \A k \in Id \ {i} : MappingSeen(w, k)' = MappingSeen(w, k)
      /\ MappingSeen(w, i)' # NoMapping /\ MappingSeen(w, i)'.game = g
      /\ job'[w].found[i] = [title |-> t, game |-> g]
      /\ \A h \in Game : h <= lastGame => TitleSeen(w, h)' = TitleSeen(w, h)
      /\ Compatible(TitleSeen(w, g)', t)
      /\ \A h \in Game : job'[w].created[h] # NoTitle =>
                job[w].created[h] # NoTitle \/ title[h] = NoTitle
      /\ \/ Stays(w, i, t) /\ MappingSeen(w, i)' = MappingSeen(w, i)
         \/ /\ ~Stays(w, i, t)
            /\ i \in SteamId => \A s \in SteamId \ {i} : MappingSeen(w, s).game # g
  BY <1>0, SettledSeen DEF SeenSettled
<1>4. OneAppSeen(w) /\ FreshGames(w) /\ TablesHold /\ \A k \in Id : FindingHolds(w, k)
  BY <1>1 DEF SerialInv, ImportHolds
<1>5. OneAppSeen(w)'
  <2> SUFFICES ASSUME NEW s \in SteamId, NEW u \in SteamId, MappingSeen(w, s)' # NoMapping,
                      MappingSeen(w, s)'.game = MappingSeen(w, u)'.game, s # u
               PROVE  FALSE
    BY DEF OneAppSeen
  <2>0. s \in Id /\ u \in Id
    BY DEF Id
  <2>1. CASE MappingSeen(w, i)' = MappingSeen(w, i)
    BY <1>3, <1>4, <2>0, <2>1 DEF OneAppSeen
  <2>2. CASE i \in SteamId /\ \A v \in SteamId \ {i} : MappingSeen(w, v).game # g
    BY <1>3, <1>4, <2>0, <2>2 DEF OneAppSeen
  <2>3. CASE i \notin SteamId
    BY <1>3, <1>4, <2>0, <2>3 DEF OneAppSeen
  <2> QED BY <1>3, <2>1, <2>2, <2>3
<1>6. FreshGames(w)'
  BY <1>2, <1>3, <1>4 DEF FreshGames
<1>7. ASSUME NEW k \in Id, k # i PROVE FindingHolds(w, k)'
  <2>1. job[w].found[k].game \in Game \cup {NoGame} /\ MappingSeen(w, k) \in Mapping
        /\ MappingSeen(w, k).game <= lastGame
    <3>1. /\ job[w].found[k] \in Finding /\ job[w].wrote[k] \in Mapping /\ mapping[k] \in Mapping
      BY DEF Sound, TypeOK, Job
    <3> QED BY <3>1 DEF Finding, MappingSeen, Sound, GamesKnown, NoFinding
  <2>2. job[w].found[k] # NoFinding =>
          TitleSeen(w, job[w].found[k].game)' = TitleSeen(w, job[w].found[k].game)
    <3> SUFFICES ASSUME job[w].found[k] # NoFinding
                 PROVE  TitleSeen(w, job[w].found[k].game)' = TitleSeen(w, job[w].found[k].game)
      OBVIOUS
    <3>1. job[w].found[k].game \in Game /\ job[w].found[k].game <= lastGame
      BY <1>4, <2>1 DEF FindingHolds, Mapping
    <3>2. job'[w].found[k] = job[w].found[k]
      BY <1>1, <1>7
    <3>3. PICK h \in Game : h = job[w].found[k].game
      BY <3>1
    <3> QED BY <1>3, <3>1, <3>2, <3>3
  <2> QED BY <1>1, <1>2, <1>3, <1>4, <1>7, <2>2 DEF FindingHolds
<1>8. FindingHolds(w, i)'
  <2>0. t # NoTitle
    BY MatchingAssumption
  <2>1. job'[w].found[i] # NoFinding
    BY <1>3, <2>0 DEF NoFinding
  <2>2. ASSUME recall[i].title = t PROVE recall[i].game = g
    <3>1. recall[i] # NoFinding
      BY <2>0, <2>2 DEF NoFinding
    <3>2. /\ MappingSeen(w, i) = mapping[i] /\ mapping[i] # NoMapping
          /\ mapping[i].game = recall[i].game /\ Compatible(title[recall[i].game], t)
      BY <1>1, <1>4, <2>2, <3>1 DEF FindingHolds, TablesHold, RecallHolds
    <3>3. recall[i].game \in Game /\ title[recall[i].game] # NoTitle
      BY <3>2 DEF Sound, TypeOK, Mapping, MappedGamesExist
    <3>4. TitleSeen(w, recall[i].game) = title[recall[i].game]
      BY <1>4, <3>3 DEF TitleSeen, FreshGames
    <3>5. i \in SteamId => IsPrimary(w, i)
      <4>1. mapping[i].row <= mapping[i].row
        <5>1. mapping[i].row \in Nat
          BY DEF Sound, TypeOK, Mapping, NoMapping
        <5> QED BY <5>1
      <4> QED BY <1>4, <3>2, <4>1 DEF IsPrimary, OneAppSeen
    <3>6. Stays(w, i, t)
      BY <3>2, <3>4, <3>5 DEF Stays
    <3> QED BY <1>3, <3>2, <3>6
  <2>3. job'[w].found[i].title = t /\ job'[w].found[i].game = g
    BY <1>3
  <2>4. Compatible(TitleSeen(w, job[w].found[i].game)', t)
    BY <1>3, <2>3
  <2> QED BY <1>2, <1>3, <2>1, <2>2, <2>3, <2>4 DEF FindingHolds
<1>9. ImportHolds(w)'
  BY <1>5, <1>6, <1>7, <1>8 DEF ImportHolds
<1>10. TablesHold'
  BY <1>2, <1>4, TablesUnchanged
<1> QED BY <1>1, <1>9, <1>10, OwnStep DEF Open

LEMMA AddRelatedSerial ==
  ASSUME Sound, SerialInv, ~overlapped, NEW w \in Worker, AddRelated(w)
  PROVE  SerialInv'
<1>1. /\ job' \in [Worker -> Job] /\ \A v \in Worker \ {w} : job'[v] = job[v]
      /\ job[w].op = "related" /\ job'[w].found = job[w].found
      /\ job'[w].created = job[w].created
  BY AddRelatedDoes DEF Sound
<1>2. /\ \A k \in Id : MappingSeen(w, k) # NoMapping => MappingSeen(w, k)' = MappingSeen(w, k)
      /\ \A s, t \in SteamId :
            /\ MappingSeen(w, s)' # MappingSeen(w, s)
            /\ MappingSeen(w, t)' # NoMapping
            /\ MappingSeen(w, s)'.game = MappingSeen(w, t)'.game
            => s = t
      /\ \A h \in Game : TitleSeen(w, h)' = TitleSeen(w, h)
  BY AddRelatedSeen
<1>3. UNCHANGED <<title, mapping, recall, overlapped>>
  BY DEF AddRelated
<1>4. OneAppSeen(w) /\ FreshGames(w) /\ TablesHold /\ \A k \in Id : FindingHolds(w, k)
  BY <1>1 DEF SerialInv, ImportHolds
<1>5. OneAppSeen(w)'
  <2> SUFFICES ASSUME NEW s \in SteamId, NEW u \in SteamId, MappingSeen(w, s)' # NoMapping,
                      MappingSeen(w, s)'.game = MappingSeen(w, u)'.game
               PROVE  s = u
    BY DEF OneAppSeen
  <2>1. CASE MappingSeen(w, s)' # MappingSeen(w, s)
    <3>1. MappingSeen(w, u)' # NoMapping
      <4>1. MappingSeen(w, s)' \in Mapping
        <5>1. mapping'[s] \in Mapping /\ job'[w].wrote[s] \in Mapping
          BY <1>1, <1>3 DEF Sound, TypeOK, Job, Id
        <5> QED BY <5>1 DEF MappingSeen
      <4> QED BY <4>1 DEF Mapping, NoMapping, NoGame, Game
    <3> QED BY <1>2, <2>1, <3>1
  <2>2. CASE MappingSeen(w, u)' # MappingSeen(w, u)
    BY <1>2, <2>2
  <2>3. CASE MappingSeen(w, s)' = MappingSeen(w, s) /\ MappingSeen(w, u)' = MappingSeen(w, u)
    BY <1>4, <2>3 DEF OneAppSeen
  <2> QED BY <2>1, <2>2, <2>3
<1>6. FreshGames(w)'
  BY <1>1, <1>3, <1>4 DEF FreshGames
<1>7. ASSUME NEW k \in Id PROVE FindingHolds(w, k)'
  <2>1. CASE job[w].found[k] = NoFinding
    BY <1>1, <1>2, <1>3, <1>4, <2>1 DEF FindingHolds, TablesHold, RecallHolds
  <2>2. CASE job[w].found[k] # NoFinding
    <3>1. MappingSeen(w, k) # NoMapping /\ MappingSeen(w, k).game = job[w].found[k].game
      BY <1>4, <2>2 DEF FindingHolds
    <3>2. MappingSeen(w, k) \in Mapping
      <4>1. mapping[k] \in Mapping /\ job[w].wrote[k] \in Mapping
        BY DEF Sound, TypeOK, Job
      <4> QED BY <4>1 DEF MappingSeen
    <3>3. PICK h \in Game : h = job[w].found[k].game
      BY <3>1, <3>2 DEF Mapping
    <3>4. TitleSeen(w, job[w].found[k].game)' = TitleSeen(w, job[w].found[k].game)
      BY <1>1, <1>2, <3>3
    <3> QED BY <1>1, <1>2, <1>3, <1>4, <2>2, <3>1, <3>4 DEF FindingHolds
  <2> QED BY <2>1, <2>2
<1>8. ImportHolds(w)'
  BY <1>5, <1>6, <1>7 DEF ImportHolds
<1>9. TablesHold'
  BY <1>3, <1>4, TablesUnchanged
<1> QED BY <1>1, <1>8, <1>9, OwnStep DEF Open

(* A transaction begins, or a game is made or renamed, when nothing else   *)
(* is open.                                                                *)
LEMMA NobodyOpen ==
  ASSUME Sound, SerialInv, NEW w \in Worker, \A v \in Worker : job[v].op = "idle", ~overlapped,
         \A v \in Worker \ {w} : job'[v].op = "idle", TablesHold', ImportHolds(w)'
  PROVE  SerialInv'
<1>1. OneOpen'
  BY DEF OneOpen, Open
<1>2. \A v \in Worker \ {w} : ImportHolds(v)'
  BY DEF ImportHolds
<1> QED BY <1>1, <1>2 DEF SerialInv

LEMMA BeginSerial ==
  ASSUME Sound, SerialInv, ~overlapped', NEW w \in Worker, NEW record \in Job,
         Begin(w, record), record.wrote = Idle.wrote, record.created = Idle.created,
         record.found = Idle.found
  PROVE  SerialInv'
<1> DEFINE busy == \E v \in Worker : Open(v)
           j == [record EXCEPT !.alone = ~busy]
<1>1. /\ ~busy /\ ~overlapped /\ UNCHANGED <<title, mapping>>
      /\ recall' = [i \in Id |-> recall[i]]
      /\ job' = [v \in Worker |-> IF v = w THEN j ELSE [job[v] EXCEPT !.alone = FALSE]]
  BY DEF Begin, Overlap, Forget
<1>2. recall' = recall
  BY <1>1 DEF Sound, TypeOK
<1>3. j.wrote = Idle.wrote /\ j.created = Idle.created /\ j.found = Idle.found
  BY DEF Job
<1>4. job'[w] = j
  BY <1>1
<1>5. \A v \in Worker : job[v].op = "idle"
  BY <1>1 DEF Open
<1>6. \A v \in Worker \ {w} : job'[v].op = "idle"
  <2>1. \A v \in Worker \ {w} : job'[v] = [job[v] EXCEPT !.alone = FALSE] /\ job[v] \in Job
    BY <1>1 DEF Sound, TypeOK
  <2> QED BY <1>5, <2>1 DEF Job
<1> HIDE DEF j
<1>7. TablesHold /\ TablesHold'
  BY <1>1, <1>2, TablesUnchanged DEF SerialInv
<1>8. \A i \in Id : MappingSeen(w, i)' = mapping[i] /\ job'[w].found[i] = NoFinding
  BY <1>1, <1>3, <1>4, IdleIsAJob DEF MappingSeen
<1>9. ImportHolds(w)'
  <2>1. OneAppSeen(w)'
    BY <1>7, <1>8 DEF OneAppSeen, TablesHold, OneSteamAppPerGame, Id
  <2>2. FreshGames(w)'
    BY <1>3, <1>4, IdleIsAJob DEF FreshGames
  <2>3. \A i \in Id : FindingHolds(w, i)'
    BY <1>1, <1>2, <1>8 DEF FindingHolds
  <2> QED BY <2>1, <2>2, <2>3 DEF ImportHolds
<1> QED BY <1>1, <1>5, <1>6, <1>7, <1>9, NobodyOpen

LEMMA EditSerial ==
  ASSUME Sound, SerialInv, ~overlapped', NEW w \in Worker, NEW g \in Game, NEW t,
         title' = [title EXCEPT ![g] = t], UNCHANGED mapping,
         overlapped' = (overlapped \/ \E v \in Worker : Open(v)),
         job' = [v \in Worker |-> [job[v] EXCEPT !.alone = FALSE]],
         recall' = [i \in Id |-> IF recall[i].game = g THEN NoFinding ELSE recall[i]]
  PROVE  SerialInv'
<1>1. ~overlapped /\ \A v \in Worker : job[v].op = "idle"
  BY DEF Open
<1>2. \A v \in Worker : job'[v].op = "idle"
  BY <1>1 DEF Job, Sound, TypeOK
<1>3. TablesHold'
  <2>1. TablesHold
    BY <1>1 DEF SerialInv
  <2>2. OneSteamAppPerGame'
    BY <2>1 DEF TablesHold, OneSteamAppPerGame
  <2>3. ASSUME NEW i \in Id PROVE RecallHolds(i)'
    <3>1. title \in [Game -> Title \cup {NoTitle}] /\ mapping[i] \in Mapping
      BY DEF Sound, TypeOK
    <3>2. CASE recall'[i] = NoFinding
      BY <3>2 DEF RecallHolds
    <3>3. CASE recall'[i] # NoFinding
      <4>1. recall'[i] = recall[i] /\ recall[i].game # g
        BY <3>3
      <4>2. /\ mapping[i] # NoMapping /\ mapping[i].game = recall[i].game
            /\ Compatible(title[recall[i].game], recall[i].title)
        BY <2>1, <3>3, <4>1 DEF TablesHold, RecallHolds
      <4>3. title'[recall[i].game] = title[recall[i].game]
        BY <3>1, <4>1, <4>2 DEF Mapping
      <4> QED BY <4>1, <4>2, <4>3 DEF RecallHolds
    <3> QED BY <3>2, <3>3
  <2> QED BY <2>2, <2>3 DEF TablesHold
<1> QED BY <1>1, <1>2, <1>3, NobodyOpen DEF ImportHolds

LEMMA CommitSerial ==
  ASSUME Sound, SerialInv, ~overlapped, NEW w \in Worker, Commit(w)
  PROVE  SerialInv'
<1>1. /\ job[w].op = "open"
      /\ title' = [g \in Game |-> TitleSeen(w, g)]
      /\ mapping' = [i \in Id |-> MappingSeen(w, i)]
      /\ recall' = [i \in Id |-> IF job[w].found[i] # NoFinding
                                 THEN job[w].found[i] ELSE recall[i]]
      /\ job' = [job EXCEPT ![w] = Idle]
  BY DEF Commit
<1>2. OneAppSeen(w) /\ FreshGames(w) /\ TablesHold /\ \A k \in Id : FindingHolds(w, k)
  BY <1>1 DEF SerialInv, ImportHolds
<1>3. job'[w] = Idle /\ \A v \in Worker \ {w} : job'[v] = job[v]
  BY <1>1 DEF Sound, TypeOK
<1>4. OneSteamAppPerGame'
  BY <1>1, <1>2 DEF OneSteamAppPerGame, OneAppSeen, Id
<1>5. ASSUME NEW i \in Id PROVE RecallHolds(i)'
  <2>1. CASE job[w].found[i] # NoFinding
    <3>1. /\ MappingSeen(w, i) # NoMapping /\ MappingSeen(w, i).game = job[w].found[i].game
          /\ Compatible(TitleSeen(w, job[w].found[i].game), job[w].found[i].title)
      BY <1>2, <2>1 DEF FindingHolds
    <3>2. job[w].found[i].game \in Game
      <4>1. job[w].wrote[i] \in Mapping /\ mapping[i] \in Mapping
        BY DEF Sound, TypeOK, Job
      <4> QED BY <3>1, <4>1 DEF MappingSeen, Mapping
    <3>3. recall'[i] = job[w].found[i] /\ mapping'[i] = MappingSeen(w, i)
          /\ title'[job[w].found[i].game] = TitleSeen(w, job[w].found[i].game)
      BY <1>1, <2>1, <3>2
    <3> QED BY <3>1, <3>3 DEF RecallHolds
  <2>2. CASE job[w].found[i] = NoFinding
    <3>1. recall'[i] = recall[i] /\ mapping'[i] = MappingSeen(w, i)
      BY <1>1, <2>2
    <3>2. CASE recall[i] = NoFinding
      BY <3>1, <3>2 DEF RecallHolds
    <3>3. CASE recall[i] # NoFinding
      <4>1. /\ MappingSeen(w, i) = mapping[i] /\ mapping[i] # NoMapping
            /\ mapping[i].game = recall[i].game
            /\ Compatible(title[recall[i].game], recall[i].title)
        BY <1>2, <2>2, <3>3 DEF FindingHolds, TablesHold, RecallHolds
      <4>2. recall[i].game \in Game /\ title[recall[i].game] # NoTitle
        BY <4>1 DEF Sound, TypeOK, Mapping, MappedGamesExist
      <4>3. title'[recall[i].game] = title[recall[i].game]
        BY <1>1, <1>2, <4>2 DEF TitleSeen, FreshGames
      <4> QED BY <3>1, <4>1, <4>3 DEF RecallHolds
    <3> QED BY <3>2, <3>3
  <2> QED BY <2>1, <2>2
<1>6. TablesHold'
  BY <1>4, <1>5 DEF TablesHold
<1>7. ImportHolds(w)'
  BY <1>3, IdleIsAJob DEF ImportHolds
<1> QED BY <1>1, <1>3, <1>6, <1>7, OwnStep DEF Open

LEMMA CommitDeleteSerial ==
  ASSUME Sound, SerialInv, ~overlapped, NEW w \in Worker, CommitDelete(w)
  PROVE  SerialInv'
<1> DEFINE g == job[w].game
           rows == MappedTo(g) \cup {i \in Id : mapping[i].row \in job[w].victims}
<1>1. /\ job[w].op = "delete"
      /\ title' = [title EXCEPT ![g] = NoTitle]
      /\ mapping' = [i \in Id |-> IF i \in rows THEN NoMapping ELSE mapping[i]]
      /\ recall' = [i \in Id |-> IF i \in rows THEN NoFinding ELSE recall[i]]
      /\ job' = [job EXCEPT ![w] = Idle]
  BY DEF CommitDelete, Forget
<1>2. TablesHold
  BY DEF SerialInv
<1>3. job'[w] = Idle /\ \A v \in Worker \ {w} : job'[v] = job[v]
  BY <1>1 DEF Sound, TypeOK
<1>4. OneSteamAppPerGame'
  <2> SUFFICES ASSUME NEW s \in SteamId, NEW t \in SteamId, mapping'[s] # NoMapping,
                      mapping'[s].game = mapping'[t].game
               PROVE  s = t
    BY DEF OneSteamAppPerGame
  <2>1. s \in Id /\ t \in Id /\ mapping[s] \in Mapping
    BY DEF Id, Sound, TypeOK
  <2>2. mapping'[s] = mapping[s] /\ mapping[s] # NoMapping
    BY <1>1, <2>1
  <2>3. mapping'[t] = mapping[t]
    BY <1>1, <2>1, <2>2 DEF Mapping, NoMapping, NoGame, Game
  <2> QED BY <1>2, <2>2, <2>3 DEF TablesHold, OneSteamAppPerGame
<1>5. ASSUME NEW i \in Id PROVE RecallHolds(i)'
  <2>1. CASE i \in rows
    BY <1>1, <2>1 DEF RecallHolds
  <2>2. CASE i \notin rows
    <3>1. recall'[i] = recall[i] /\ mapping'[i] = mapping[i] /\ mapping[i].game # g
      BY <1>1, <2>2 DEF MappedTo
    <3>2. CASE recall[i] = NoFinding
      BY <3>1, <3>2 DEF RecallHolds
    <3>3. CASE recall[i] # NoFinding
      <4>1. /\ mapping[i] # NoMapping /\ mapping[i].game = recall[i].game
            /\ Compatible(title[recall[i].game], recall[i].title)
        BY <1>2, <3>3 DEF TablesHold, RecallHolds
      <4>2. title'[recall[i].game] = title[recall[i].game]
        BY <1>1, <3>1, <4>1 DEF Sound, TypeOK, Mapping
      <4> QED BY <3>1, <4>1, <4>2 DEF RecallHolds
    <3> QED BY <3>2, <3>3
  <2> QED BY <2>1, <2>2
<1>6. TablesHold'
  BY <1>4, <1>5 DEF TablesHold
<1>7. ImportHolds(w)'
  BY <1>3, IdleIsAJob DEF ImportHolds
<1> QED BY <1>1, <1>3, <1>6, <1>7, OwnStep DEF Open

LEMMA SerialStep == Sound /\ PlanInv /\ SerialInv /\ [Next]_vars => SerialInv'
<1> SUFFICES ASSUME Sound, PlanInv, SerialInv, [Next]_vars, ~overlapped' PROVE SerialInv'
  BY DEF SerialInv
<1>0. TypeOK /\ plan \in [Worker -> SUBSET Plan]
  BY DEF Sound, TypeOK
<1>1. ASSUME NEW w \in Worker, BeginImport(w) PROVE SerialInv'
  <2> DEFINE r == [Idle EXCEPT !.op = "open"]
  <2>1. r \in Job /\ r.wrote = Idle.wrote /\ r.created = Idle.created /\ r.found = Idle.found
    BY IdleIsAJob DEF Job
  <2>2. Begin(w, r)
    BY <1>1 DEF BeginImport
  <2> HIDE DEF r
  <2> QED BY <2>1, <2>2, BeginSerial
<1>2. ASSUME NEW w \in Worker, NEW g \in Game, BeginDelete(w, g) PROVE SerialInv'
  <2> DEFINE r == [Idle EXCEPT !.op = "delete", !.game = g,
                               !.victims = {mapping[i].row : i \in MappedTo(g)}]
  <2>1. {mapping[i].row : i \in MappedTo(g)} \in SUBSET Nat
    BY DEF MappedTo, Sound, TypeOK, Mapping, NoMapping
  <2>2. r \in Job /\ r.wrote = Idle.wrote /\ r.created = Idle.created /\ r.found = Idle.found
    BY <2>1, IdleIsAJob DEF Job
  <2>3. Begin(w, r)
    BY <1>2 DEF BeginDelete
  <2> HIDE DEF r
  <2> QED BY <2>2, <2>3, BeginSerial
<1>3. ASSUME NEW w \in Worker, NEW i \in Id, NEW t \in Names[i], NEW releases \in Related,
             Resolve(w, i, t, releases)
      PROVE  SerialInv'
  <2>1. /\ job[w].op = "open" /\ ~overlapped
        /\ UNCHANGED <<title, mapping, recall, overlapped>>
    BY <1>0, <1>3, ResolveDoes
  <2>2. PICK p \in Plan : job[w].found[p.id] = NoFinding /\ ResolveOutcome(w, p)
    BY <1>0, <1>3, ResolveDoes
  <2>3. CASE \E g \in Game : TimelyStep(w, p, g)
    BY <2>1, <2>2, <2>3, SettledSerial
  <2>4. CASE UNCHANGED <<lastGame, lastRow, job>>
    BY <2>1, <2>4 DEF SerialInv, OneOpen, Open, TablesHold, OneSteamAppPerGame, RecallHolds,
       ImportHolds, OneAppSeen, FreshGames, FindingHolds, MappingSeen, TitleSeen
  <2> QED BY <2>1, <2>2, <2>3, <2>4 DEF ResolveOutcome, TimelyStep
<1>11. ASSUME NEW w \in Worker, Flush(w) PROVE SerialInv'
  <2>1. PICK p \in plan[w] : Written(w, p)
    BY <1>11 DEF Flush
  <2>2. /\ p \in Plan /\ UNCHANGED <<title, mapping, recall, overlapped>> /\ ~overlapped
        /\ Timely(w, p) /\ job[w].op = "open" /\ job[w].found[p.id] = NoFinding
    BY <1>0, <1>11 DEF Flush, PlanInv, PlansKnown, PlansTimely
  <2>3. PICK g \in Game : Settles(w, p) /\ Wrote(w, p, g)
    BY <1>0, <2>1, <2>2, WrittenDoes
  <2>4. TimelyStep(w, p, g)
    BY <2>2, <2>3 DEF TimelyStep
  <2> QED BY <2>2, <2>4, SettledSerial
<1>4. ASSUME NEW w \in Worker, AddRelated(w) PROVE SerialInv'
  BY <1>4, AddRelatedSerial DEF AddRelated
<1>5. ASSUME NEW w \in Worker, Commit(w) PROVE SerialInv'
  BY <1>5, CommitSerial DEF Commit
<1>6. ASSUME NEW w \in Worker, Fail(w) PROVE SerialInv'
  <2>1. /\ UNCHANGED <<title, mapping, recall, overlapped>> /\ Open(w)
        /\ job'[w] = Idle /\ \A v \in Worker \ {w} : job'[v] = job[v]
    BY <1>6 DEF Fail, Sound, TypeOK
  <2>2. TablesHold'
    BY <2>1, TablesUnchanged DEF SerialInv
  <2>3. ImportHolds(w)'
    BY <2>1, IdleIsAJob DEF ImportHolds
  <2> QED BY <2>1, <2>2, <2>3, OwnStep
<1>7. ASSUME NEW w \in Worker, CommitDelete(w) PROVE SerialInv'
  BY <1>7, CommitDeleteSerial DEF CommitDelete
<1>8. ASSUME NEW w \in Worker, NEW t \in Edited, CreateGame(w, t) PROVE SerialInv'
  <2>1. /\ ~overlapped /\ lastGame + 1 \in Game
        /\ title' = [title EXCEPT ![lastGame + 1] = t] /\ UNCHANGED mapping
        /\ overlapped' = (overlapped \/ \E v \in Worker : Open(v))
        /\ job' = [v \in Worker |-> [job[v] EXCEPT !.alone = FALSE]]
        /\ recall' = [i \in Id |-> recall[i]]
    <3>1. lastGame < MaxGames /\ lastGame \in 0..MaxGames /\ MaxGames \in Nat
      BY <1>8, MatchingAssumption DEF CreateGame, Sound, TypeOK
    <3>2. lastGame + 1 \in Game
      BY <3>1 DEF Game
    <3>3. /\ title' = [title EXCEPT ![lastGame + 1] = t] /\ UNCHANGED mapping
          /\ Overlap(\E v \in Worker : Open(v))
          /\ job' = [v \in Worker |-> [job[v] EXCEPT !.alone = FALSE]]
      BY <1>8 DEF CreateGame
    <3>4. overlapped' = (overlapped \/ \E v \in Worker : Open(v))
      BY <3>3 DEF Overlap
    <3>5. ~overlapped /\ ~(\E v \in Worker : Open(v))
      BY <3>4, ~overlapped'
    <3>6. Forget(IF \E v \in Worker : Open(v) THEN Id ELSE {})
      BY <3>3 DEF Overlap
    <3>7. recall' = [i \in Id |-> recall[i]]
      BY <3>5, <3>6 DEF Forget
    <3> QED BY <3>2, <3>3, <3>4, <3>5, <3>7
  <2>2. ASSUME NEW i \in Id, recall[i].game = lastGame + 1 PROVE recall[i] = NoFinding
    <3>1. recall[i] # NoFinding => mapping[i].game = recall[i].game
      BY <2>1 DEF SerialInv, TablesHold, RecallHolds
    <3>2. mapping[i].game <= lastGame /\ lastGame \in Nat
      BY MatchingAssumption DEF Sound, TypeOK, GamesKnown
    <3> QED BY <2>2, <3>1, <3>2
  <2>3. recall' = [i \in Id |-> IF recall[i].game = lastGame + 1 THEN NoFinding ELSE recall[i]]
    BY <2>1, <2>2
  <2> QED BY <2>1, <2>3, EditSerial
<1>9. ASSUME NEW w \in Worker, NEW g \in Game, NEW t \in Edited, UpdateGame(w, g, t)
      PROVE  SerialInv'
  <2>1. /\ title' = [title EXCEPT ![g] = t] /\ UNCHANGED mapping
        /\ overlapped' = (overlapped \/ \E v \in Worker : Open(v))
        /\ job' = [v \in Worker |-> [job[v] EXCEPT !.alone = FALSE]]
        /\ recall' = [i \in Id |-> IF recall[i].game = g THEN NoFinding ELSE recall[i]]
    BY <1>9 DEF UpdateGame, Forget
  <2> QED BY <2>1, EditSerial
<1>10. CASE UNCHANGED vars
  BY <1>10 DEF vars, SerialInv, OneOpen, Open, TablesHold, OneSteamAppPerGame, RecallHolds,
     ImportHolds, OneAppSeen, FreshGames, FindingHolds, MappingSeen, TitleSeen
<1> QED
  BY <1>1, <1>2, <1>3, <1>4, <1>5, <1>6, <1>7, <1>8, <1>9, <1>10, <1>11 DEF Next

(* As long as no two transactions overlap, no game ever has two Steam      *)
(* apps.                                                                   *)
THEOREM SerialGamesHaveOneApp == Spec => []SerialOneSteamApp
<1>1. SerialInv => SerialOneSteamApp
  BY DEF SerialInv, TablesHold, SerialOneSteamApp
<1> QED BY <1>1, InitSound, NextSound, PlansInitially, PlanStep,
          SerialInitially, SerialStep, PTL DEF Spec

(* And the same title for the same id leads to the same game from sync to  *)
(* sync.                                                                   *)
THEOREM TitlesKeepTheirGame == Spec => SameTitleSameGame
<1>1. ASSUME Sound, SerialInv, [Next]_vars, NEW w \in Worker, NEW i \in Id, Commit(w),
             ~overlapped, job[w].found[i] # NoFinding, recall[i].title = job[w].found[i].title
      PROVE  recall'[i].game = recall[i].game
  <2>1. FindingHolds(w, i)
    BY <1>1 DEF SerialInv, ImportHolds, Commit
  <2>2. recall'[i] = job[w].found[i]
    BY <1>1 DEF Commit
  <2> QED BY <1>1, <2>1, <2>2 DEF FindingHolds
<1>2. Sound /\ SerialInv /\ [Next]_vars =>
        [\A w \in Worker, i \in Id :
           ( /\ Commit(w) /\ ~overlapped
             /\ job[w].found[i] # NoFinding
             /\ recall[i].title = job[w].found[i].title )
           => recall'[i].game = recall[i].game]_vars
  BY <1>1
<1> QED
  BY <1>2, InitSound, NextSound, PlansInitially, PlanStep,
          SerialInitially, SerialStep, PTL DEF Spec, SameTitleSameGame

=============================================================================
