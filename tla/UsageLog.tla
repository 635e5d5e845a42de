------------------------------ MODULE UsageLog ------------------------------
(***************************************************************************)
(* The log of what participants do: entries, their retention, the deletion *)
(* of persons, and the summaries made of them                              *)
(* (services/analytics_service.py, api/analytics.py, api/participants.py). *)
(*                                                                         *)
(* Instants are counted; LocalDay says which calendar day one falls on.    *)
(* An instant is long against a request, a day has several.                *)
(***************************************************************************)
EXTENDS Integers, FiniteSets, FiniteSetsExt

CONSTANTS
  Person,
  Party,      \* periods that may be configured (a bound)
  Entry,      \* what may be logged: a type, a game, selected players
  LocalDay,   \* the day of each instant
  MaxTime,    \* bound on the clock
  MaxEvents,  \* bound on the entries
  Retention,  \* analytics_retention_days
  Interval    \* interval_seconds of the purge

EventType == {"page_view", "find_players_search", "group_games_search"}

Instant == 0..MaxTime

Anonymous == "anonymous"
Idle == "idle"
Never == -1

ASSUME UsageLogAssumption ==
  /\ {Anonymous, Idle} \cap Person = {}
  /\ Party \subseteq [start : Instant, end : Instant \cup {-1}]
  /\ Entry \subseteq [type : EventType, game : Nat, players : SUBSET Person]
  /\ LocalDay \in [0..(MaxTime + 1) -> Nat]
  /\ \A s, t \in DOMAIN LocalDay : s <= t => LocalDay[s] <= LocalDay[t]
  /\ {MaxTime, MaxEvents, Retention, Interval} \subseteq Nat \ {0}

Event == [id : 1..MaxEvents, by : Person \cup {Anonymous}, name : Person \cup {Anonymous},
          at : Instant, entry : Entry, late : BOOLEAN]

VARIABLES
  now,
  persons,  \* participants
  events,   \* usage_events
  purged,   \* _last_purge_at, or Never: long ago
  adding,   \* the participant of the request that adds an entry, or Idle
  leaving,  \* the participant whose deletion is under way
  doomed,   \* the entries that deletion has removed, should it commit
  party     \* the configured period; end may be Never

logVars == <<now, persons, events, purged, adding, leaving, doomed, party>>

NoParty == [start |-> Never, end |-> Never]

LogInit ==
  /\ now = 0
  /\ persons = Person
  /\ events = {}
  /\ purged \in {Never, 0}
  /\ adding = Idle
  /\ leaving = Anonymous
  /\ doomed = {}
  /\ party = NoParty

-----------------------------------------------------------------------------
(* Entries.                                                                *)

Kept == {e \in events : e.at >= now - Retention}

(* Faulty variant: the clock of the purge starts anew with every entry.    *)
PurgeSlipping ==
  /\ purged' = now
  /\ events' = IF purged # Never /\ now - purged < Interval THEN events ELSE Kept

(* maybe_purge_expired_usage_events.                                       *)
MaybePurge ==
  IF purged # Never /\ now - purged < Interval
  THEN UNCHANGED <<events, purged>>
  ELSE events' = Kept /\ purged' = now

(* create_event purges, then looks the participant up.                     *)
BeginEvent(p) ==
  /\ adding = Idle
  /\ p \in persons \cup {Anonymous}
  /\ MaybePurge
  /\ adding' = p
  /\ UNCHANGED <<now, persons, leaving, doomed, party>>

Ids == {e.id : e \in events}

(* The insert fails if the participant has gone.  Ids only tell entries    *)
(* apart: the lowest that is free will do.                                 *)
CommitEvent(entry) ==
  /\ adding # Idle
  /\ IF adding \in persons \cup {Anonymous}
     THEN \E id \in 1..MaxEvents :
            /\ id \notin Ids /\ 1..(id - 1) \subseteq Ids
            /\ events' = events \cup
                 {[id |-> id, by |-> adding, name |-> adding, at |-> now,
                   entry |-> entry, late |-> adding # Anonymous /\ adding = leaving]}
     ELSE UNCHANGED events
  /\ adding' = Idle
  /\ UNCHANGED <<now, persons, purged, leaving, doomed, party>>

(* 404, or details that are too long.                                      *)
RejectEvent ==
  /\ adding # Idle
  /\ adding' = Idle
  /\ UNCHANGED <<now, persons, events, purged, leaving, doomed, party>>

(* delete_participant_events; it waits for a deletion that has removed the *)
(* same entries.                                                           *)
DeleteEvents(p) ==
  /\ p \in persons
  /\ p = leaving => doomed = {}
  /\ events' = {e \in events : e.by # p}
  /\ UNCHANGED <<now, persons, purged, adding, leaving, doomed, party>>

(* Faulty variant: it is left to the foreign key to clear the entries.     *)
BeginLeaveOnly(p) ==
  /\ leaving = Anonymous /\ p \in persons
  /\ leaving' = p
  /\ UNCHANGED <<now, persons, events, purged, adding, doomed, party>>

(* delete_participant is one transaction.  It removes the entries ...      *)
BeginLeave(p) ==
  /\ leaving = Anonymous /\ p \in persons
  /\ leaving' = p
  /\ doomed' = {e \in events : e.by = p}
  /\ UNCHANGED <<now, persons, events, purged, adding, party>>

(* ... then the participant; an entry that has come in between only loses  *)
(* its participant_id.                                                     *)
CommitLeave ==
  /\ leaving # Anonymous
  /\ persons' = persons \ {leaving}
  /\ events' = {IF e.by = leaving THEN [e EXCEPT !.by = Anonymous] ELSE e :
                  e \in events \ doomed}
  /\ leaving' = Anonymous
  /\ doomed' = {}
  /\ UNCHANGED <<now, purged, adding, party>>

(* update_analytics_configuration.                                         *)
Configure(period) ==
  /\ period.end = Never \/ period.start < period.end
  /\ party' = period
  /\ UNCHANGED <<now, persons, events, purged, adding, leaving, doomed>>

(* A restart rolls back what is open and purges.  _last_purge_at starts    *)
(* as 0.0, which on the monotonic clock is when the machine was booted:    *)
(* long ago, or just now.                                                  *)
Restart ==
  /\ adding' = Idle
  /\ leaving' = Anonymous
  /\ doomed' = {}
  /\ purged' \in {Never, now}
  /\ events' = Kept
  /\ UNCHANGED <<now, persons, party>>

(* An instant is long against a request.                                   *)
Tick ==
  /\ now < MaxTime
  /\ adding = Idle /\ leaving = Anonymous
  /\ now' = now + 1
  /\ UNCHANGED <<persons, events, purged, adding, leaving, doomed, party>>

LogNext ==
  \/ \E p \in Person \cup {Anonymous} : BeginEvent(p)
  \/ \E entry \in Entry : CommitEvent(entry)
  \/ RejectEvent
  \/ \E p \in Person : DeleteEvents(p) \/ BeginLeave(p)
  \/ CommitLeave
  \/ \E period \in Party : Configure(period)
  \/ Restart
  \/ Tick

LogSpec == LogInit /\ [][LogNext]_logVars

-----------------------------------------------------------------------------
(* Summaries.                                                              *)

(* events_for_window: Never stands for an open end.                        *)
Window(start, end) ==
  {e \in events : (start # Never => e.at >= start) /\ (end # Never => e.at < end)}

(* The first instant of a day.                                             *)
Midnight(day) ==
  Min({t \in DOMAIN LocalDay : LocalDay[t] >= day} \cup {MaxTime + 1})

(* events_for_period: from the first midnight to the one after the last    *)
(* day.                                                                    *)
Period(from, to) == Window(Midnight(from), Midnight(to + 1))

DaysOf(S) == {LocalDay[e.at] : e \in S}

(* _event_date_range.                                                      *)
DateRange(S, day) ==
  IF S = {} THEN <<day, day>> ELSE <<Min(DaysOf(S)), Max(DaysOf(S))>>

Ordered(from, to) == IF from <= to THEN <<from, to>> ELSE <<to, from>>

PartyEnd == IF party.end = Never THEN now ELSE party.end

(* events_for_selection: the entries, and the days to show them by.        *)
Custom(from, to) ==
  LET days == Ordered(from, to) IN
  [events |-> Period(days[1], days[2]), days |-> days]

All == [events |-> events, days |-> DateRange(events, LocalDay[now])]

BeforeParty ==
  LET S == Window(Never, party.start) IN
  [events |-> S, days |-> DateRange(S, LocalDay[party.start])]

DuringParty ==
  [events |-> Window(party.start, PartyEnd),
   days |-> <<LocalDay[party.start], LocalDay[PartyEnd]>>]

Selections ==
  {All} \cup {Custom(LocalDay[0], day) : day \in {LocalDay[t] : t \in Instant}}
  \cup (IF party = NoParty THEN {} ELSE {BeforeParty, DuringParty})

(* Faulty variant: the last day is left out.                               *)
DailyBut(selection) ==
  [day \in selection.days[1]..(selection.days[2] - 1) |->
     Cardinality({e \in selection.events : LocalDay[e.at] = day})]

(* _daily.                                                                 *)
Daily(selection) ==
  [day \in selection.days[1]..selection.days[2] |->
     Cardinality({e \in selection.events : LocalDay[e.at] = day})]

EventCount(S, type) == Cardinality({e \in S : e.entry.type = type})

(* build_summary counts for each participant that is known by its id.      *)
ActiveUsers(S) == {e.by : e \in S} \ {Anonymous}
TotalOf(S, p) == Cardinality({e \in S : e.by = p})

(* _top_games.                                                             *)
Searches(S, g) == {e \in S : e.entry.type = "find_players_search" /\ e.entry.game = g}
TopGames(S) ==
  {[game |-> g, searches |-> Cardinality(Searches(S, g)),
    users |-> Cardinality(ActiveUsers(Searches(S, g)))] :
   g \in {e.entry.game : e \in {x \in S : x.entry.type = "find_players_search"}}}

(* _selected_players: those that others have selected.                     *)
SelectionsOf(S, p) ==
  {e \in S : e.entry.type = "group_games_search" /\ p \in e.entry.players /\ p # e.by}

SelectedPlayers(S) ==
  {[player |-> p, selections |-> Cardinality(SelectionsOf(S, p)),
    searchers |-> Cardinality(ActiveUsers(SelectionsOf(S, p)))] :
   p \in {q \in Person : SelectionsOf(S, q) # {}}}

-----------------------------------------------------------------------------
(* Properties.                                                             *)

LogTypeOK ==
  /\ now \in Instant
  /\ persons \subseteq Person
  /\ events \subseteq Event
  /\ \A d, e \in events : d.id = e.id => d = e
  /\ purged \in Instant \cup {Never}
  /\ adding \in Person \cup {Anonymous, Idle}
  /\ leaving \in persons \cup {Anonymous}
  /\ doomed \subseteq Event
  /\ party.start \in Instant \cup {Never} /\ party.end \in Instant \cup {Never}
  /\ party.end # Never => party.start < party.end

(* Whenever an entry is added, none is older than the retention and one    *)
(* interval of the purge: entries that keep coming put no purge off.       *)
EntriesExpire ==
  [][\A p \in Person \cup {Anonymous} :
       BeginEvent(p) => \A e \in events' : e.at >= now - Retention - Interval]_logVars

(* What a deleted participant did goes with him: an entry keeps his name   *)
(* only if it was written while the deletion was under way.                *)
NamesGoWithPeople ==
  \A e \in events :
    /\ e.by \in persons \cup {Anonymous}
    /\ e.name \in persons \cup {Anonymous} \/ e.late

(* Every way to select a period shows each of its entries on one of its    *)
(* days, and under one type.                                               *)
EntriesShowOnce ==
  \A selection \in Selections :
    LET S == selection.events
        daily == Daily(selection) IN
    /\ MapThenSumSet(LAMBDA day : daily[day], DOMAIN daily) = Cardinality(S)
    /\ MapThenSumSet(LAMBDA type : EventCount(S, type), EventType) = Cardinality(S)
    /\ MapThenSumSet(LAMBDA p : TotalOf(S, p), ActiveUsers(S)) <= Cardinality(S)

(* A range of days holds exactly what happened on them, whichever end is   *)
(* named first.                                                            *)
PeriodsAreDays ==
  \A from, to \in {LocalDay[t] : t \in Instant} :
    Custom(from, to).events =
      {e \in events : LocalDay[e.at] \in from..to \cup to..from}

(* With the party still on, what has happened was before it or during it,  *)
(* and with its end set nothing is counted twice.                          *)
PartySplitsTime ==
  party # NoParty =>
    /\ BeforeParty.events \cap DuringParty.events = {}
    /\ party.end = Never /\ party.start < now =>
         {e \in events : e.at < now} \subseteq BeforeParty.events \cup DuringParty.events

(* Nobody is listed as selected for searches of his own, and no ranking    *)
(* counts more persons than searches.                                      *)
RankingsCountOthers ==
  /\ \A p \in Person :
       (\A e \in events : p \in e.entry.players => e.by = p) =>
         p \notin {s.player : s \in SelectedPlayers(events)}
  /\ \A s \in SelectedPlayers(events) : s.searchers <= s.selections
  /\ \A t \in TopGames(events) : t.users <= t.searches

(* The numbers of a summary fit its period, its days and one another.      *)
SummariesAddUp ==
  EntriesShowOnce /\ PeriodsAreDays /\ PartySplitsTime /\ RankingsCountOthers

=============================================================================
